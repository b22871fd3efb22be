------------------------------ MODULE ProxyProto ------------------------------
(***************************************************************************)
(* The PROXY protocol decoder (http/ioh_proxy_proto.c), as the server uses *)
(* it: called again with everything received so far for as long as the     *)
(* answer is -EAGAIN.                                                      *)
(*                                                                         *)
(* What a client sends is described by what the decoder tells apart: which *)
(* of the two signatures it begins with, and behind it, for the text form, *)
(* where the first CR LF is and what the line says; for the binary form,   *)
(* its version, command, family and address length. Lengths are the real   *)
(* ones.                                                                   *)
(***************************************************************************)
EXTENDS Integers, FiniteSetsExt

CONSTANT Openings  \* what clients may send

VARIABLES
  peer,     \* what this client sends
  arrived,  \* how many bytes of it have arrived
  verdict   \* the last answer of ioh_proxy_decode

proxyVars == <<peer, arrived, verdict>>

V1Max == 108     \* IOH_PROXY_V1_MAX_LEN
V2Min == 16      \* IOH_PROXY_V2_MIN_LEN
MaxPort == 65535

Again   == [rc |-> "EAGAIN"]
Invalid == [rc |-> "EINVAL"]
Unknown == [rc |-> "ENOSPC"]
Local(n)          == [rc |-> "OK", consumed |-> n, local |-> TRUE]
Proxied(n, ports) == [rc |-> "OK", consumed |-> n, local |-> FALSE, ports |-> ports]
-----------------------------------------------------------------------------
(* find_crlf: both of its bytes are among those looked at.                 *)
CrlfFound(c, n) == c.crlf + 2 <= Min({n, V1Max})

(* decode_v1. A line that does not parse, or an address that inet_pton     *)
(* refuses, is "bad". A port that is written as wraps * 2^32 + low is read *)
(* into an unsigned int, which keeps "low".                                *)
DecodeV1(c, n) ==
  LET total == c.crlf + 2
      ports == [i \in DOMAIN c.ports |-> c.ports[i].low]
  IN  CASE ~CrlfFound(c, n) /\ n >= V1Max -> Invalid
        [] ~CrlfFound(c, n) /\ n < V1Max  -> Again
        [] CrlfFound(c, n) /\ c.says = "unknown" -> Local(total)
        [] CrlfFound(c, n) /\ c.says = "bad"     -> Invalid
        [] CrlfFound(c, n) /\ c.says = "tcp" ->
             IF \A i \in DOMAIN ports : ports[i] <= MaxPort THEN Proxied(total, ports) ELSE Invalid

(* What the addresses of a family take, in bytes; UNSPEC and AF_UNIX have  *)
(* none that are looked at.                                                *)
AddrBytes(family) == CASE family = "inet" -> 12 [] family = "inet6" -> 36 [] OTHER -> 0

(* decode_v2: nothing is looked at before the fixed part is there, and     *)
(* nothing is accepted before the addresses and what follows them are.     *)
DecodeV2_fault(c, n) ==
  LET total == V2Min + c.addr_len
  IN  CASE n < V2Min -> Again
        [] n >= V2Min /\ (c.version # 2 \/ c.command > 1) -> Invalid
        [] n >= V2Min /\ c.version = 2 /\ c.command = 0 -> Local(total)
        [] n >= V2Min /\ c.version = 2 /\ c.command = 1 /\ n < total -> Again
        [] OTHER -> CASE c.addr_len < AddrBytes(c.family)   -> Invalid
                      [] c.family \notin {"inet", "inet6"}  -> Local(total)
                      [] OTHER                              -> Proxied(total, c.ports)

DecodeV2(c, n) ==
  LET total == V2Min + c.addr_len
  IN  CASE n < V2Min -> Again
        [] n >= V2Min /\ (c.version # 2 \/ c.command > 1) -> Invalid
        [] n >= V2Min /\ c.version = 2 /\ c.command <= 1 /\ n < total -> Again
        [] n >= total /\ c.version = 2 /\ c.command = 0 -> Local(total)
        [] OTHER -> CASE c.addr_len < AddrBytes(c.family)   -> Invalid
                      [] c.family \notin {"inet", "inet6"}  -> Local(total)
                      [] OTHER                              -> Proxied(total, c.ports)

(* ioh_proxy_decode.                                                       *)
Decode(c, n) ==
  CASE c.sig = "v2" /\ n >= 12 -> DecodeV2(c, n)
    [] c.sig = "v1" /\ n >= 6  -> DecodeV1(c, n)
    [] n < 6                   -> Again
    [] OTHER                   -> Unknown
-----------------------------------------------------------------------------
ProxyInit ==
  /\ peer = [sig |-> "none", sent |-> 0] /\ arrived = 0 /\ verdict = Again

(* A connection is accepted in state PROXY_HEADER.                         *)
ProxyAccept ==
  /\ peer.sig = "none"
  /\ peer' \in Openings
  /\ UNCHANGED <<arrived, verdict>>

(* A receive completes in that state: the bytes join those before, and     *)
(* all of them are decoded.                                                *)
ProxyRecv ==
  /\ verdict = Again
  /\ \E n \in arrived + 1 .. peer.sent :
       arrived' = n /\ verdict' = Decode(peer, n)
  /\ UNCHANGED peer

ProxyNext == ProxyAccept \/ ProxyRecv
-----------------------------------------------------------------------------
(* The answer does not depend on how the network cut what the client sent: *)
(* the first one that is not -EAGAIN is the one that all of it at once     *)
(* would have got, is given no sooner than the bytes it consumes are       *)
(* there, and is given as soon as the header is complete ("-EAGAIN         *)
(* incomplete", http/ioh_proxy_proto.h:39). The exception is a binary      *)
(* signature that is cut after 6 to 11 bytes, which ioh_proxy_decode does  *)
(* not wait for.                                                           *)
SplitDelivery ==
  LET whole == Decode(peer, peer.sent)
  IN  peer.sig # "none" /\ ~(peer.sig = "v2" /\ arrived \in 6 .. 11) =>
        /\ verdict # Again => verdict = whole
        /\ verdict.rc = "OK" => verdict.consumed <= arrived
        /\ verdict = Again /\ whole.rc = "OK" => arrived < whole.consumed
=============================================================================
