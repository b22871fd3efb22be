--------------------------------- MODULE Tls ---------------------------------
(***************************************************************************)
(* One TLS connection of tls/ioh_tls.c: the two ciphertext buffers between *)
(* the server and wolfSSL, which reads and writes them through callbacks.  *)
(*                                                                         *)
(* Ciphertext is abstracted to the position of each byte in its stream.    *)
(* wolfSSL is external: within a call it uses the callbacks as it likes.   *)
(***************************************************************************)
EXTENDS Integers

CONSTANTS
  CipherCap,   \* IOH_TLS_CIPHER_BUF_SIZE
  MaxCipher    \* bytes followed in each direction

ASSUME TlsAssumption == CipherCap \in Nat /\ MaxCipher \in Nat

VARIABLES
  tls,        \* "none", "open" or "freed"
  inBuf,      \* cipher_in_buf
  inPos,      \* cipher_in_pos
  inLen,      \* cipher_in_len
  outBuf,     \* cipher_out_buf
  outLen,     \* cipher_out_len
  handshaken, \* handshake_done
  ssl,        \* the call of wolfSSL under way, and what its callbacks ran into
  fed,        \* bytes the input buffer has accepted
  taken,      \* bytes wolfSSL has read
  inChunk,    \* the bytes of its last read
  written,    \* bytes wolfSSL has written
  drained,    \* bytes handed to the server
  outChunk    \* the bytes handed over last

inVars  == <<inBuf, inPos, inLen, fed, taken, inChunk>>
outVars == <<outBuf, outLen, written, drained, outChunk>>
tlsVars == <<tls, handshaken, ssl, inVars, outVars>>

Bytes == 1 .. CipherCap
Idle  == [fn |-> "none", want |-> FALSE]

TlsInit ==
  /\ tls = "none" /\ handshaken = FALSE /\ ssl = Idle
  /\ inBuf = [i \in Bytes |-> 0] /\ inPos = 0 /\ inLen = 0
  /\ fed = 0 /\ taken = 0 /\ inChunk = <<>>
  /\ outBuf = [i \in Bytes |-> 0] /\ outLen = 0
  /\ written = 0 /\ drained = 0 /\ outChunk = <<>>

(* ioh_tls_conn_create, or one of its failures; ioh_tls_conn_destroy.      *)
ConnCreate ==
  /\ tls = "none" /\ tls' \in {"open", "freed"}
  /\ UNCHANGED <<handshaken, ssl, inVars, outVars>>

ConnDestroy ==
  /\ tls = "open" /\ ssl = Idle /\ tls' = "freed"
  /\ UNCHANGED <<handshaken, ssl, inVars, outVars>>
-----------------------------------------------------------------------------
(* ioh_tls_feed_input: what is left is moved to the front, then all of the *)
(* data is accepted or none of it.                                         *)
Left == inLen - inPos
Moved(i) == IF i <= Left THEN inBuf[i + inPos] ELSE inBuf[i]
FeedInput_fault(n) ==
  /\ tls = "open" /\ ssl = Idle /\ fed + n <= MaxCipher
  /\ inPos' = 0
  /\ IF n > CipherCap - Left
       THEN inBuf' = [i \in Bytes |-> Moved(i)] /\ inLen' = Left /\ UNCHANGED fed
       ELSE /\ inBuf' = [i \in Bytes |-> IF i \in inLen + 1 .. inLen + n THEN fed + i - inLen
                                         ELSE Moved(i)]
            /\ inLen' = Left + n
            /\ fed' = fed + n
  /\ UNCHANGED <<tls, handshaken, ssl, taken, inChunk, outVars>>
FeedInput(n) ==
  /\ tls = "open" /\ ssl = Idle /\ fed + n <= MaxCipher
  /\ inPos' = 0
  /\ IF n > CipherCap - Left
       THEN inBuf' = [i \in Bytes |-> Moved(i)] /\ inLen' = Left /\ UNCHANGED fed
       ELSE /\ inBuf' = [i \in Bytes |-> IF i \in Left + 1 .. Left + n THEN fed + i - Left
                                         ELSE Moved(i)]
            /\ inLen' = Left + n
            /\ fed' = fed + n
  /\ UNCHANGED <<tls, handshaken, ssl, taken, inChunk, outVars>>

(* tls_ioh_recv_cb: wolfSSL asks for up to sz bytes.                       *)
RecvCb(sz) ==
  /\ ssl.fn # "none"
  /\ IF Left = 0 THEN ssl' = [ssl EXCEPT !.want = TRUE] /\ UNCHANGED inVars
     ELSE LET n == IF sz < Left THEN sz ELSE Left
          IN  /\ inChunk' = [i \in 1 .. n |-> inBuf[inPos + i]]
              /\ taken' = taken + n
              /\ inPos' = IF inPos + n = inLen THEN 0 ELSE inPos + n
              /\ inLen' = IF inPos + n = inLen THEN 0 ELSE inLen
              /\ UNCHANGED <<inBuf, fed, ssl>>
  /\ UNCHANGED <<tls, handshaken, outVars>>

(* tls_ioh_send_cb: wolfSSL offers sz bytes, and offers the rest again.    *)
SendCb(sz) ==
  /\ ssl.fn # "none" /\ written + sz <= MaxCipher
  /\ IF outLen = CipherCap THEN ssl' = [ssl EXCEPT !.want = TRUE] /\ UNCHANGED outVars
     ELSE LET n == IF sz < CipherCap - outLen THEN sz ELSE CipherCap - outLen
          IN  /\ outBuf' = [i \in Bytes |-> IF i \in outLen + 1 .. outLen + n
                                              THEN written + i - outLen ELSE outBuf[i]]
              /\ outLen' = outLen + n
              /\ written' = written + n
              /\ UNCHANGED <<drained, outChunk, ssl>>
  /\ UNCHANGED <<tls, handshaken, inVars>>

(* ioh_tls_get_output and ioh_tls_consume_output: the server takes the     *)
(* first n bytes.                                                          *)
DrainOutput(n) ==
  /\ tls = "open" /\ ssl = Idle /\ n <= outLen
  /\ outChunk' = [i \in 1 .. n |-> outBuf[i]]
  /\ drained' = drained + n
  /\ outBuf' = [i \in Bytes |-> IF i <= outLen - n THEN outBuf[i + n] ELSE outBuf[i]]
  /\ outLen' = outLen - n
  /\ UNCHANGED <<tls, handshaken, ssl, inVars, written>>

(* ioh_tls_handshake, unless it is done; ioh_tls_read, ioh_tls_write and   *)
(* ioh_tls_shutdown. Only wolfSSL_accept changes handshake_done.           *)
SslCall(fn) ==
  /\ tls = "open" /\ ssl = Idle
  /\ fn = "accept" => ~handshaken
  /\ ssl' = [fn |-> fn, want |-> FALSE]
  /\ UNCHANGED <<tls, handshaken, inVars, outVars>>

SslReturns ==
  /\ ssl.fn # "none" /\ ssl' = Idle
  /\ \/ ssl.fn = "accept" /\ ~ssl.want /\ handshaken' = TRUE
     \/ UNCHANGED handshaken
  /\ UNCHANGED <<tls, inVars, outVars>>

TlsNext ==
  \/ ConnCreate \/ ConnDestroy \/ SslReturns
  \/ \E n \in Bytes : FeedInput(n) \/ RecvCb(n) \/ SendCb(n) \/ DrainOutput(n)
  \/ \E fn \in {"accept", "read", "write", "shutdown"} : SslCall(fn)

TlsSpec == TlsInit /\ [][TlsNext]_tlsVars
-----------------------------------------------------------------------------
Input  == INSTANCE ByteChannel WITH accepted <- fed, delivered <- taken, chunk <- inChunk
Output == INSTANCE ByteChannel WITH accepted <- written, delivered <- drained, chunk <- outChunk

(* Both directions are byte streams: wolfSSL reads what was fed to         *)
(* ioh_tls_feed_input, and the server sends what wolfSSL wrote, in order   *)
(* and without a gap or a repetition, wherever the two buffers are         *)
(* compacted, refuse data or take only a part of it.                       *)
CipherInOrder == Input!ChannelSpec /\ Output!ChannelSpec
=============================================================================
