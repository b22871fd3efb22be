-------------------------------- MODULE Quic ---------------------------------
(***************************************************************************)
(* A QUIC connection of http/ioh_quic.c. ngtcp2 is external: what a        *)
(* datagram or a timeout does to the connection, and whether there is      *)
(* something to write, are its choices.                                    *)
(***************************************************************************)
EXTENDS Integers

CONSTANTS
  UniCredit,  \* unidirectional streams the peer may come to allow
  OutRoom     \* packets that out_buf holds at first

VARIABLES
  quic,       \* the connection: "none", "live" or "gone"
  closed,     \* qconn->closed
  done,       \* qconn->handshake_done
  credit,     \* unidirectional streams the peer allows
  uni,        \* how many of them are open: their ids are 1 .. uni
  out         \* packets in out_buf, and how many fit

quicVars == <<quic, closed, done, credit, uni, out>>

QuicInit ==
  /\ quic = "none" /\ closed = FALSE /\ done = FALSE
  /\ credit = 0 /\ uni = 0 /\ out = [len |-> 0, cap |-> OutRoom]

(* ioh_quic_conn_create, which validates the configuration first, and      *)
(* ioh_quic_conn_destroy.                                                  *)
QuicCreate ==
  /\ quic = "none" /\ quic' \in {"live", "gone"}
  /\ UNCHANGED <<closed, done, credit, uni, out>>

QuicDestroy ==
  /\ quic = "live" /\ quic' = "gone"
  /\ UNCHANGED <<closed, done, credit, uni, out>>

(* ioh_quic_on_recv goes on with a datagram only if the connection is not  *)
(* closed. Then ngtcp2 may complete the handshake, hear of more credit for *)
(* streams, or enter the draining period; the callbacks with the data of   *)
(* streams belong to module Http3. A callback that fails ends the call and *)
(* not the connection.                                                     *)
Datagram_fault == quic = "live"
Datagram == quic = "live" /\ ~closed

OnRecv ==
  /\ Datagram
  /\ \/ ~done /\ done' = TRUE /\ credit' \in 0 .. UniCredit /\ UNCHANGED closed
     \/ done /\ credit' \in credit .. UniCredit /\ UNCHANGED <<closed, done>>
     \/ closed' = TRUE /\ UNCHANGED <<done, credit>>
  /\ UNCHANGED <<quic, uni, out>>

(* ioh_quic_on_timeout: the idle or the handshake timeout closes.          *)
OnTimeout ==
  /\ quic = "live" /\ ~closed /\ closed' = TRUE
  /\ UNCHANGED <<quic, done, credit, uni, out>>

(* A packet is written behind those in out_buf, which is doubled when it   *)
(* has no room for one; a call that gets no memory changes nothing.        *)
Roomy == IF out.len < out.cap THEN out ELSE [out EXCEPT !.cap = 2 * @]
Written == [Roomy EXCEPT !.len = @ + 1]

(* ioh_quic_write_stream, also before the handshake is done.               *)
WriteStream ==
  /\ quic = "live" /\ ~closed
  /\ Roomy.cap <= 2 * OutRoom
  /\ out' \in {Roomy, Written}
  /\ UNCHANGED <<quic, closed, done, credit, uni>>

(* ioh_quic_close, with CONNECTION_CLOSE in out_buf if ngtcp2 wrote it.    *)
QuicClose ==
  /\ quic = "live" /\ ~closed
  /\ closed' = TRUE /\ out' \in {Roomy, Written}
  /\ UNCHANGED <<quic, done, credit, uni>>

(* ioh_quic_flush: out_buf starts again, and takes what ngtcp2 has to      *)
(* write, whatever the state of the connection.                            *)
QuicFlush ==
  /\ quic = "live"
  /\ \E n \in 0 .. OutRoom :
       out' = [len |-> n, cap |-> IF n < out.cap THEN out.cap ELSE 2 * out.cap]
  /\ UNCHANGED <<quic, closed, done, credit, uni>>

(* ioh_quic_open_uni_stream, "want" times in a row until one fails: how    *)
(* many are opened.                                                        *)
Openable(want) ==
  IF closed \/ quic # "live" THEN 0
  ELSE IF credit - uni < want THEN credit - uni ELSE want

QuicNext ==
  \/ QuicCreate \/ QuicDestroy \/ OnRecv \/ OnTimeout
  \/ WriteStream \/ QuicClose \/ QuicFlush
=============================================================================
