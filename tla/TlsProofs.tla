------------------------------ MODULE TlsProofs ------------------------------
(***************************************************************************)
(* The ciphertext buffers implement byte streams, for every capacity. What *)
(* makes it inductive is what the live part of each buffer holds: the      *)
(* bytes that went in and have not come out, in order.                     *)
(***************************************************************************)
EXTENDS Tls, TLAPS

InputInv ==
  /\ inPos \in Nat /\ inLen \in Nat /\ inPos <= inLen /\ inLen <= CipherCap
  /\ fed \in Nat /\ taken \in Nat /\ fed = taken + (inLen - inPos)
  /\ \A i \in Bytes : inPos < i /\ i <= inLen => inBuf[i] = taken + (i - inPos)

OutputInv ==
  /\ outLen \in Nat /\ outLen <= CipherCap
  /\ written \in Nat /\ drained \in Nat /\ written = drained + outLen
  /\ \A i \in Bytes : i <= outLen => outBuf[i] = drained + i

TlsInv == InputInv /\ OutputInv

(* Both buffers are empty at first.                                        *)
LEMMA TlsInitInv == TlsInit => TlsInv
  BY TlsAssumption DEF TlsInit, TlsInv, InputInv, OutputInv, Bytes

(* ioh_tls_feed_input: the bytes left come first, then the new ones.       *)
LEMMA FeedStep ==
  ASSUME InputInv, NEW n \in Bytes, FeedInput(n)
  PROVE  InputInv' /\ [Input!ChannelNext]_(Input!channelVars)
  <1> USE TlsAssumption
  <1>1. /\ Left \in Nat /\ n \in Nat /\ n > 0 /\ Left <= CipherCap /\ fed = taken + Left
        /\ taken \in Nat /\ inPos \in Nat
    BY DEF InputInv, Left, Bytes
  <1>2. \A i \in Bytes : i <= Left => Moved(i) = taken + i
    <2> SUFFICES ASSUME NEW i \in Bytes, i <= Left PROVE Moved(i) = taken + i OBVIOUS
    <2>1. i + inPos \in Bytes /\ inPos < i + inPos /\ i + inPos <= inLen
      BY DEF InputInv, Left, Bytes
    <2>2. inBuf[i + inPos] = taken + ((i + inPos) - inPos) BY <2>1 DEF InputInv
    <2>3. (i + inPos) - inPos = i BY DEF InputInv, Bytes
    <2> QED BY <2>2, <2>3 DEF Moved
  <1>3. inPos' = 0 /\ taken' = taken /\ inChunk' = inChunk BY DEF FeedInput
  <1>4. CASE n > CipherCap - Left
    <2>1. inBuf' = [i \in Bytes |-> Moved(i)] /\ inLen' = Left /\ fed' = fed
      BY <1>4 DEF FeedInput
    <2> HIDE DEF Left, Moved
    <2>2. \A i \in Bytes : 0 < i /\ i <= Left => inBuf'[i] = taken + (i - 0)
      BY <1>2, <2>1 DEF Bytes
    <2> QED BY <1>1, <1>3, <2>1, <2>2 DEF InputInv, Input!channelVars
  <1>5. CASE ~(n > CipherCap - Left)
    <2>1. /\ inBuf' = [i \in Bytes |-> IF i \in Left + 1 .. Left + n THEN fed + i - Left
                                       ELSE Moved(i)]
          /\ inLen' = Left + n /\ fed' = fed + n
      BY <1>5 DEF FeedInput
    <2> HIDE DEF Left, Moved
    <2>2. ASSUME NEW i \in Bytes, i <= Left + n PROVE inBuf'[i] = taken + (i - 0)
      <3>1. CASE i <= Left BY <1>1, <1>2, <2>1, <3>1 DEF Bytes
      <3>2. CASE ~(i <= Left)
        <4>1. i \in Left + 1 .. Left + n BY <1>1, <2>2, <3>2 DEF Bytes
        <4>2. inBuf'[i] = fed + i - Left BY <2>1, <4>1
        <4> QED BY <1>1, <4>2 DEF Bytes
      <3> QED BY <3>1, <3>2
    <2>3. fed' > fed /\ fed' \in Nat /\ Left + n <= CipherCap BY <1>1, <1>5, <2>1
    <2> QED BY <1>1, <1>3, <2>1, <2>2, <2>3 DEF InputInv, Input!ChannelNext, Input!Accept
  <1> QED BY <1>4, <1>5

(* tls_ioh_recv_cb: the chunk is the next bytes of the stream.             *)
LEMMA RecvStep ==
  ASSUME InputInv, NEW sz \in Bytes, RecvCb(sz)
  PROVE  InputInv' /\ [Input!ChannelNext]_(Input!channelVars)
  <1> USE TlsAssumption
  <1>1. CASE Left = 0
    BY <1>1 DEF RecvCb, InputInv, inVars, Input!channelVars
  <1>2. CASE Left # 0
    <2> DEFINE n == IF sz < Left THEN sz ELSE Left
    <2>1. /\ inChunk' = [i \in 1 .. n |-> inBuf[inPos + i]] /\ taken' = taken + n
          /\ inPos' = IF inPos + n = inLen THEN 0 ELSE inPos + n
          /\ inLen' = IF inPos + n = inLen THEN 0 ELSE inLen
          /\ inBuf' = inBuf /\ fed' = fed
      BY <1>2 DEF RecvCb
    <2>2. n \in Nat /\ n > 0 /\ n <= Left BY <1>2 DEF InputInv, Left, Bytes
    <2> HIDE DEF n
    <2>3. /\ inPos \in Nat /\ inLen \in Nat /\ Left = inLen - inPos /\ inLen <= CipherCap
          /\ fed \in Nat /\ taken \in Nat /\ fed = taken + Left
      BY DEF InputInv, Left
    <2>4. ASSUME NEW i \in 1 .. n PROVE inBuf[inPos + i] = taken + i
      <3>1. inPos + i \in Bytes /\ inPos < inPos + i /\ inPos + i <= inLen
        BY <2>2, <2>3 DEF Bytes
      <3>2. inBuf[inPos + i] = taken + ((inPos + i) - inPos) BY <3>1 DEF InputInv
      <3> QED BY <2>2, <2>3, <3>2
    <2>5. inChunk' = [i \in 1 .. n |-> taken + i] BY <2>1, <2>4
    <2>6. taken' - taken = n /\ taken' <= fed BY <2>1, <2>2, <2>3
    <2>7. Input!Deliver BY <2>1, <2>2, <2>5, <2>6 DEF Input!Deliver
    <2>8. InputInv'
      <3>1. CASE inPos + n = inLen
        <4>1. inPos' = 0 /\ inLen' = 0 BY <2>1, <3>1
        <4>2. fed = taken + n /\ taken + n \in Nat BY <2>2, <2>3, <3>1
        <4> QED BY <4>1, <4>2, <2>1, <2>3 DEF InputInv, Bytes
      <3>2. CASE inPos + n # inLen
        <4>1. inPos' = inPos + n /\ inLen' = inLen BY <2>1, <3>2
        <4>2. ASSUME NEW i \in Bytes, inPos + n < i, i <= inLen
              PROVE  inBuf[i] = (taken + n) + (i - (inPos + n))
          <5>1. inPos < i BY <4>2, <2>2, <2>3 DEF Bytes
          <5>2. inBuf[i] = taken + (i - inPos) BY <4>2, <5>1 DEF InputInv
          <5> QED BY <5>2, <2>2, <2>3 DEF Bytes
        <4>3. /\ inPos + n \in Nat /\ inPos + n <= inLen /\ taken + n \in Nat
              /\ fed = (taken + n) + (inLen - (inPos + n))
          BY <2>2, <2>3
        <4> QED BY <4>1, <4>2, <4>3, <2>1, <2>3 DEF InputInv
      <3> QED BY <3>1, <3>2
    <2> QED BY <2>7, <2>8 DEF Input!ChannelNext
  <1> QED BY <1>1, <1>2

(* tls_ioh_send_cb: what fits is put behind what waits.                    *)
LEMMA SendStep ==
  ASSUME OutputInv, NEW sz \in Bytes, SendCb(sz)
  PROVE  OutputInv' /\ [Output!ChannelNext]_(Output!channelVars)
  <1> USE TlsAssumption
  <1>1. CASE outLen = CipherCap
    BY <1>1 DEF SendCb, OutputInv, outVars, Output!channelVars
  <1>2. CASE outLen # CipherCap
    <2> DEFINE n == IF sz < CipherCap - outLen THEN sz ELSE CipherCap - outLen
    <2>1. /\ outBuf' = [i \in Bytes |-> IF i \in outLen + 1 .. outLen + n
                                          THEN written + i - outLen ELSE outBuf[i]]
          /\ outLen' = outLen + n /\ written' = written + n
          /\ drained' = drained /\ outChunk' = outChunk
      BY <1>2 DEF SendCb
    <2>2. n \in Nat /\ n > 0 /\ outLen + n <= CipherCap BY <1>2 DEF OutputInv, Bytes
    <2> HIDE DEF n
    <2>3. /\ outLen \in Nat /\ written \in Nat /\ drained \in Nat /\ written = drained + outLen
      BY DEF OutputInv
    <2>4. ASSUME NEW i \in Bytes, i <= outLen + n PROVE outBuf'[i] = drained + i
      <3>1. CASE i <= outLen BY <3>1, <2>1, <2>3 DEF OutputInv, Bytes
      <3>2. CASE ~(i <= outLen)
        <4>1. i \in outLen + 1 .. outLen + n BY <2>2, <2>3, <2>4, <3>2 DEF Bytes
        <4>2. outBuf'[i] = written + i - outLen BY <2>1, <4>1
        <4> QED BY <4>2, <2>3 DEF Bytes
      <3> QED BY <3>1, <3>2
    <2>5. OutputInv' BY <2>1, <2>2, <2>3, <2>4 DEF OutputInv
    <2>6. written' > written BY <2>1, <2>2, <2>3
    <2> QED BY <2>1, <2>5, <2>6 DEF Output!ChannelNext, Output!Accept
  <1> QED BY <1>1, <1>2

(* ioh_tls_consume_output: the rest moves to the front.                    *)
LEMMA DrainStep ==
  ASSUME OutputInv, NEW n \in Bytes, DrainOutput(n)
  PROVE  OutputInv' /\ [Output!ChannelNext]_(Output!channelVars)
  <1> USE TlsAssumption
  <1>1. /\ outChunk' = [i \in 1 .. n |-> outBuf[i]] /\ drained' = drained + n
        /\ outBuf' = [i \in Bytes |-> IF i <= outLen - n THEN outBuf[i + n] ELSE outBuf[i]]
        /\ outLen' = outLen - n /\ written' = written /\ n <= outLen
    BY DEF DrainOutput
  <1>2. /\ outLen \in Nat /\ outLen <= CipherCap /\ n \in Nat /\ n > 0
        /\ written \in Nat /\ drained \in Nat /\ written = drained + outLen
    BY DEF OutputInv, Bytes
  <1>3. ASSUME NEW i \in 1 .. n PROVE outBuf[i] = drained + i
    BY <1>1, <1>2 DEF OutputInv, Bytes
  <1>4. outChunk' = [i \in 1 .. n |-> drained + i] BY <1>1, <1>3
  <1>5. drained' - drained = n /\ drained' <= written BY <1>1, <1>2
  <1>6. Output!Deliver BY <1>1, <1>2, <1>4, <1>5 DEF Output!Deliver
  <1>7. ASSUME NEW i \in Bytes, i <= outLen - n PROVE outBuf'[i] = (drained + n) + i
    <2>1. i + n \in Bytes /\ i + n <= outLen BY <1>1, <1>2, <1>7 DEF Bytes
    <2>2. outBuf[i + n] = drained + (i + n) BY <2>1 DEF OutputInv
    <2>3. outBuf'[i] = outBuf[i + n] BY <1>1, <1>7
    <2> QED BY <1>2, <2>2, <2>3 DEF Bytes
  <1>8. /\ outLen - n \in Nat /\ outLen - n <= CipherCap /\ drained + n \in Nat
        /\ written = (drained + n) + (outLen - n)
    BY <1>1, <1>2
  <1>9. OutputInv' BY <1>1, <1>2, <1>7, <1>8 DEF OutputInv
  <1> QED BY <1>6, <1>9 DEF Output!ChannelNext
-----------------------------------------------------------------------------
(* Steps that leave a direction alone.                                     *)
LEMMA InputStays ==
  ASSUME InputInv, UNCHANGED inVars
  PROVE  InputInv' /\ [Input!ChannelNext]_(Input!channelVars)
  BY DEF InputInv, inVars, Input!channelVars

(* The same for the output.                                                *)
LEMMA OutputStays ==
  ASSUME OutputInv, UNCHANGED outVars
  PROVE  OutputInv' /\ [Output!ChannelNext]_(Output!channelVars)
  BY DEF OutputInv, outVars, Output!channelVars

(* Every step is a step or a stutter of each channel.                      *)
LEMMA TlsStep ==
  ASSUME TlsInv, [TlsNext]_tlsVars
  PROVE  /\ TlsInv'
         /\ [Input!ChannelNext]_(Input!channelVars) /\ [Output!ChannelNext]_(Output!channelVars)
  <1> USE DEF TlsInv
  <1>1. CASE \E n \in Bytes : FeedInput(n)
    BY <1>1, FeedStep, OutputStays DEF FeedInput
  <1>2. CASE \E n \in Bytes : RecvCb(n) BY <1>2, RecvStep, OutputStays DEF RecvCb
  <1>3. CASE \E n \in Bytes : SendCb(n) BY <1>3, SendStep, InputStays DEF SendCb
  <1>4. CASE \E n \in Bytes : DrainOutput(n) BY <1>4, DrainStep, InputStays DEF DrainOutput
  <1>5. CASE UNCHANGED <<inVars, outVars>> BY <1>5, InputStays, OutputStays
  <1>6. CASE ConnCreate \/ ConnDestroy \/ SslReturns
    BY <1>5, <1>6 DEF ConnCreate, ConnDestroy, SslReturns
  <1>7. CASE \E fn \in {"accept", "read", "write", "shutdown"} : SslCall(fn)
    BY <1>5, <1>7 DEF SslCall
  <1>8. CASE UNCHANGED tlsVars BY <1>5, <1>8 DEF tlsVars
  <1> QED BY <1>1, <1>2, <1>3, <1>4, <1>6, <1>7, <1>8 DEF TlsNext

(* The ciphertext buffers of a TLS connection are byte streams in both     *)
(* directions, for every size of the buffers.                              *)
THEOREM TlsImplementsChannels == TlsSpec => CipherInOrder
  <1>1. TlsInit => Input!ChannelInit /\ Output!ChannelInit
    BY DEF TlsInit, Input!ChannelInit, Output!ChannelInit
  <1> QED BY <1>1, TlsInitInv, TlsStep, PTL
          DEF TlsSpec, CipherInOrder, Input!ChannelSpec, Output!ChannelSpec
=============================================================================
