----------------------------- MODULE ByteChannel -----------------------------
(***************************************************************************)
(* What a byte stream promises, whatever buffers it runs through: bytes    *)
(* come out in the order they went in, each once and none left out. The    *)
(* n-th byte that was accepted is written n.                               *)
(***************************************************************************)
EXTENDS Integers

VARIABLES
  accepted,   \* how many bytes went in
  delivered,  \* how many came out
  chunk       \* the bytes that came out last

channelVars == <<accepted, delivered, chunk>>

ChannelInit == accepted = 0 /\ delivered = 0 /\ chunk = <<>>

Accept == accepted' > accepted /\ UNCHANGED <<delivered, chunk>>

Deliver ==
  LET n == delivered' - delivered
  IN  /\ n > 0 /\ delivered' <= accepted
      /\ chunk' = [i \in 1 .. n |-> delivered + i]
      /\ UNCHANGED accepted

ChannelNext == Accept \/ Deliver

ChannelSpec == ChannelInit /\ [][ChannelNext]_channelVars
=============================================================================
