---------------------------- MODULE SessionProofs ----------------------------
(***************************************************************************)
(* Theorems about the sessions of HTTP/2 (http/ioh_http2.c) and of HTTP/3  *)
(* on QUIC (http/ioh_http3.c, http/ioh_quic.c).                            *)
(*                                                                         *)
(* Memory of an HTTP/2 stream is followed by owner: the inductive          *)
(* invariant says, for each state of the stream in nghttp2, which pieces   *)
(* are alive and who will free them.                                       *)
(***************************************************************************)
EXTENDS Http2, Http3, TLAPS

Memory == {"none", "live", "freed", "twice"}
Ng     == {"idle", "headers", "body", "closed"}
StreamData ==
  [ng : Ng, ended : BOOLEAN, got : Nat, headers : Nat, body_len : Nat, calls : Nat, seen : Nat,
   provider : BOOLEAN, left : Int, sd : Memory, rd : Memory, body : Memory]

Listed(s) == s.ng \in {"headers", "body"}

(* The stream data are alive while nghttp2 has the stream, and the body of *)
(* the response as long as its provider is, which ends with the stream.    *)
Sound(s) ==
  /\ s.ng = "idle" => s.sd = "none"
  /\ Listed(s) => s.sd = "live"
  /\ s.ng = "closed" => s.sd = "freed" /\ s.rd # "live"
  /\ s.ng \in {"idle", "headers"} => ~s.ended
  /\ ~s.ended => s.calls = 0 /\ s.rd = "none" /\ s.body = "none"
  /\ s.provider => s.rd = "live"
  /\ s.rd = "live" <=> s.body = "live"
  /\ s.rd # "twice" /\ s.body # "twice"
  /\ s.body_len = s.got
  /\ s.calls > 0 => s.calls = 1 /\ s.ended /\ s.seen = s.got

StreamsInv ==
  /\ h2 \in {"none", "live", "broken", "dead"}
  /\ streams \in [Streams -> StreamData]
  /\ \A i \in Streams : Sound(streams[i])
  /\ h2list = {i \in Streams : Listed(streams[i])}
  /\ h2 = "none" => \A i \in Streams : streams[i].ng = "idle"
  /\ h2 = "dead" => h2list = {}

(* The first GOAWAY of a session is the notice or that of the resets.      *)
FirstGoaway ==
  goaway # {} => "notice" \in goaway \/ "calm" \in goaway \/ "unsent" \in goaway

(* rst_count is what the client did in this second, or is of an earlier    *)
(* one and will be set again.                                              *)
ResetsInv ==
  /\ second \in Nat /\ resets \in Nat /\ rst \in [count : Nat, start : Nat]
  /\ rst.start <= second
  /\ rst.start = second => resets = rst.count
  /\ rst.start < second => resets = 0
  /\ FirstGoaway /\ RapidResetStopped
-----------------------------------------------------------------------------
(* Freeing once leaves memory that was freed once.                         *)
LEMMA FreedType == ASSUME NEW x \in Memory PROVE Freed(x) \in Memory
  BY DEF Memory, Freed

(* A stream that nghttp2 has not heard of.                                 *)
LEMMA NewStreamSound == NewStream \in StreamData /\ Sound(NewStream) /\ NewStream.ng = "idle"
  <1>1. NewStream \in StreamData
    BY DEF NewStream, StreamData, Ng, Memory
  <1>2. Sound(NewStream) /\ NewStream.ng = "idle"
    BY DEF NewStream, Sound, Listed
  <1> QED BY <1>1, <1>2

(* on_begin_headers_cb allocates the stream data.                          *)
LEMMA BeginSound ==
  ASSUME NEW s \in StreamData, Sound(s), s.ng = "idle",
         NEW t, t = [s EXCEPT !.ng = "headers", !.sd = "live"]
  PROVE  t \in StreamData /\ Sound(t) /\ Listed(t)
  <1>1. "headers" \in Ng /\ "live" \in Memory BY DEF Ng, Memory
  <1>2. t \in StreamData BY <1>1, Zenon DEF StreamData
  <1>3. Sound(t) /\ Listed(t) BY DEF Sound, Listed, StreamData
  <1> QED BY <1>2, <1>3

(* on_header_cb counts a header.                                           *)
LEMMA HeaderSound ==
  ASSUME NEW s \in StreamData, Sound(s), NEW t, t = [s EXCEPT !.headers = @ + 1]
  PROVE  t \in StreamData /\ Sound(t) /\ t.ng = s.ng
  <1>1. s.headers + 1 \in Nat BY DEF StreamData
  <1>2. t \in StreamData BY <1>1, Zenon DEF StreamData
  <1>3. Sound(t) /\ t.ng = s.ng BY DEF Sound, Listed, StreamData
  <1> QED BY <1>2, <1>3

(* on_data_chunk_cb appends to the body of a request under way.            *)
LEMMA ChunkSound ==
  ASSUME NEW s \in StreamData, Sound(s), ~s.ended, NEW n \in Nat,
         NEW t, t = [s EXCEPT !.got = @ + n, !.body_len = @ + n]
  PROVE  t \in StreamData /\ Sound(t) /\ t.ng = s.ng
  <1>1. s.got + n \in Nat /\ s.body_len + n \in Nat BY DEF StreamData
  <1>2. t \in StreamData BY <1>1, Zenon DEF StreamData
  <1>3. Sound(t) /\ t.ng = s.ng BY DEF Sound, Listed, StreamData
  <1> QED BY <1>2, <1>3

(* on_stream_close_cb frees what is left, each piece once.                 *)
LEMMA ClosedSound ==
  ASSUME NEW s \in StreamData, Sound(s), Listed(s)
  PROVE  Closed(s) \in StreamData /\ Sound(Closed(s)) /\ Closed(s).ng = "closed"
  <1> DEFINE a == Freed(s.sd)
             b == IF s.rd = "live" THEN Freed(s.rd) ELSE s.rd
             c == IF s.rd = "live" THEN Freed(s.body) ELSE s.body
             t == [s EXCEPT !.ng = "closed", !.provider = FALSE, !.left = 0,
                            !.sd = a, !.rd = b, !.body = c]
  <1>1. Closed(s) = t BY Zenon DEF Closed
  <1>2. a \in Memory /\ b \in Memory /\ c \in Memory BY FreedType DEF StreamData
  <1>3. "closed" \in Ng /\ FALSE \in BOOLEAN /\ 0 \in Int BY DEF Ng
  <1>4. a = "freed" /\ b # "live" /\ b # "twice" /\ c # "twice" /\ c # "live"
        /\ (s.rd = "none" => b = "none") /\ (s.rd = "none" => c = s.body)
    BY DEF Sound, Listed, Freed, StreamData
  <1> HIDE DEF a, b, c
  <1>5. t \in StreamData BY <1>2, <1>3, Zenon DEF StreamData
  <1>6. Sound(t) /\ t.ng = "closed" BY <1>4 DEF Sound, Listed, StreamData
  <1> QED BY <1>1, <1>5, <1>6

(* A request that is complete and was not handed over.                     *)
Complete(s) ==
  /\ s.ng = "body" /\ s.ended /\ s.sd = "live" /\ s.rd = "none" /\ s.body = "none"
  /\ s.body_len = s.got /\ s.calls = 0 /\ ~s.provider

(* One that was, and has no response yet.                                  *)
Called(s) ==
  /\ s.ng = "body" /\ s.ended /\ s.sd = "live" /\ s.rd = "none" /\ s.body = "none"
  /\ s.body_len = s.got /\ s.calls = 1 /\ s.seen = s.got /\ ~s.provider

(* on_frame_recv_cb takes note of the end of the stream.                   *)
LEMMA FrameSound ==
  ASSUME NEW s \in StreamData, Sound(s), Listed(s), ~s.ended, NEW end \in BOOLEAN,
         NEW t, t = [s EXCEPT !.ng = "body", !.ended = end]
  PROVE  t \in StreamData /\ Sound(t) /\ t.ng = "body" /\ (end => Complete(t))
  <1>1. "body" \in Ng BY DEF Ng
  <1>2. t \in StreamData BY <1>1, Zenon DEF StreamData
  <1>3. t.ended = end BY DEF StreamData
  <1>4. Sound(t) /\ t.ng = "body" BY DEF Sound, Listed, StreamData
  <1>5. end => Complete(t) BY <1>3 DEF Sound, Listed, StreamData, Complete
  <1> QED BY <1>2, <1>4, <1>5

(* on_request is called with the body that was received.                   *)
LEMMA CallSound ==
  ASSUME NEW s \in StreamData, Complete(s),
         NEW c, c = [s EXCEPT !.calls = @ + 1, !.seen = s.body_len]
  PROVE  c \in StreamData /\ Called(c)
  <1>1. s.calls + 1 \in Nat /\ s.body_len \in Nat BY DEF StreamData
  <1>2. c \in StreamData BY <1>1, Zenon DEF StreamData
  <1>3. Called(c) BY DEF Complete, Called, StreamData
  <1> QED BY <1>2, <1>3

(* What follows the call: no response, one without a body, one that was    *)
(* refused before or by nghttp2, and one whose body nghttp2 will read.     *)
LEMMA ResponseSound ==
  ASSUME NEW c \in StreamData, Called(c),
         NEW t \in {c, Refused(c), [c EXCEPT !.left = 1]} \cup SubmitResponse(c)
  PROVE  t \in StreamData /\ Sound(t) /\ t.ng = "body"
  <1>1. "live" \in Memory /\ "freed" \in Memory /\ TRUE \in BOOLEAN /\ 1 \in Int /\ 2 \in Int
    BY DEF Memory
  <1>2. Freed("live") = "freed" BY DEF Freed
  <1>3. CASE t = c
    BY <1>3 DEF Called, Sound, Listed, StreamData
  <1>4. CASE t = Refused(c)
    <2> DEFINE u == [c EXCEPT !.body = "live"]
               v == [u EXCEPT !.body = "freed"]
    <2>1. u \in StreamData /\ u.body = "live" BY <1>1 DEF StreamData
    <2>2. t = v BY <1>2, <1>4, <2>1 DEF Refused, RespBody
    <2>3. v \in StreamData BY <1>1, <2>1, Zenon DEF StreamData
    <2>4. Sound(v) /\ v.ng = "body" BY DEF Called, Sound, Listed, StreamData
    <2> QED BY <2>2, <2>3, <2>4
  <1>5. CASE t = [c EXCEPT !.left = 1]
    <2>1. t \in StreamData BY <1>1, <1>5, Zenon DEF StreamData
    <2>2. Sound(t) /\ t.ng = "body" BY <1>5 DEF Called, Sound, Listed, StreamData
    <2> QED BY <2>1, <2>2
  <1>6. CASE t = Handed(c)
    <2>1. t \in StreamData BY <1>1, <1>6, Zenon DEF StreamData, Handed, RespBody
    <2>2. Sound(t) /\ t.ng = "body"
      BY <1>6 DEF Called, Sound, Listed, StreamData, Handed, RespBody
    <2> QED BY <2>1, <2>2
  <1>7. CASE t = NgRefused(c)
    <2> DEFINE u == [c EXCEPT !.body = "live"]
               v == [u EXCEPT !.rd = "freed", !.body = "freed"]
    <2>1. u \in StreamData /\ u.body = "live" BY <1>1 DEF StreamData
    <2>2. t = v BY <1>2, <1>7, <2>1 DEF NgRefused, RespBody
    <2>3. v \in StreamData BY <1>1, <2>1, Zenon DEF StreamData
    <2>4. Sound(v) /\ v.ng = "body" BY DEF Called, Sound, Listed, StreamData
    <2> QED BY <2>2, <2>3, <2>4
  <1> QED BY <1>3, <1>4, <1>5, <1>6, <1>7 DEF SubmitResponse

(* The dispatch of a complete request, whatever the handler does.          *)
LEMMA DispatchSound ==
  ASSUME NEW s \in StreamData, Sound(s), Complete(s), NEW t \in Dispatched(s)
  PROVE  t \in StreamData /\ Sound(t) /\ t.ng = "body"
  <1> DEFINE c == [s EXCEPT !.calls = @ + 1, !.seen = s.body_len]
  <1>1. c \in StreamData /\ Called(c) BY CallSound
  <1>2. t = s \/ t \in {c, Refused(c), [c EXCEPT !.left = 1]} \cup SubmitResponse(c)
    BY Zenon DEF Dispatched
  <1>3. s.ng = "body" BY DEF Complete
  <1> HIDE DEF c
  <1> QED BY <1>1, <1>2, <1>3, ResponseSound
-----------------------------------------------------------------------------
(* A step of one stream that stays with nghttp2, or comes to it.           *)
LEMMA StreamStep ==
  ASSUME StreamsInv, h2 = "live", UNCHANGED h2, NEW i \in Streams, NEW t \in StreamData,
         Sound(t), Listed(t), Becomes(i, t), h2list' = h2list \cup {i}
  PROVE  StreamsInv'
  <1>1. streams' \in [Streams -> StreamData] /\ streams'[i] = t
        /\ \A j \in Streams \ {i} : streams'[j] = streams[j]
    BY DEF StreamsInv, Becomes
  <1>2. \A j \in Streams : Sound(streams'[j]) BY <1>1 DEF StreamsInv
  <1>3. h2list' = {j \in Streams : Listed(streams'[j])} BY <1>1 DEF StreamsInv
  <1> QED BY <1>1, <1>2, <1>3 DEF StreamsInv

(* nghttp2 closes a stream and calls on_stream_close_cb.                   *)
LEMMA CloseStep ==
  ASSUME StreamsInv, h2 = "live", UNCHANGED h2, NEW i \in Streams, Listed(streams[i]), Close(i)
  PROVE  StreamsInv'
  <1> DEFINE t == Closed(streams[i])
  <1>1. t \in StreamData /\ Sound(t) /\ ~Listed(t)
    <2>1. t \in StreamData /\ Sound(t) /\ t.ng = "closed" BY ClosedSound DEF StreamsInv
    <2> QED BY <2>1 DEF Listed
  <1>2. streams' = [streams EXCEPT ![i] = t] /\ h2list' = h2list \ {i} BY DEF Close, Becomes
  <1> HIDE DEF t
  <1>3. streams' \in [Streams -> StreamData] /\ streams'[i] = t
        /\ \A j \in Streams \ {i} : streams'[j] = streams[j]
    BY <1>1, <1>2 DEF StreamsInv
  <1>4. \A j \in Streams : Sound(streams'[j]) BY <1>1, <1>3 DEF StreamsInv
  <1>5. h2list' = {j \in Streams : Listed(streams'[j])} BY <1>1, <1>2, <1>3 DEF StreamsInv
  <1> QED BY <1>3, <1>4, <1>5 DEF StreamsInv

(* A callback fails: nothing of the streams changes.                       *)
LEMMA FailStep == ASSUME StreamsInv, h2 = "live", CallbackFails PROVE StreamsInv'
  BY DEF StreamsInv, CallbackFails

(* The callbacks of a request, up to its end.                              *)
LEMMA RequestStep ==
  ASSUME StreamsInv, NEW i \in Streams,
         \/ OnBeginHeaders(i) \/ OnHeader(i)
         \/ \E n \in 1 .. MaxH2Body : OnDataChunk(i, n)
         \/ \E end \in BOOLEAN : OnFrameRecv(i, end)
  PROVE  StreamsInv'
  <1> DEFINE s == streams[i]
  <1>1. s \in StreamData /\ Sound(s) /\ (Listed(s) => i \in h2list)
    BY DEF StreamsInv
  <1>2. CASE OnBeginHeaders(i)
    <2>1. CASE CallbackFails BY <1>2, <2>1, FailStep DEF OnBeginHeaders, At
    <2>2. CASE /\ Becomes(i, [s EXCEPT !.ng = "headers", !.sd = "live"])
               /\ h2list' = h2list \cup {i} /\ UNCHANGED h2
      <3>1. h2 = "live" /\ s.ng = "idle" BY <1>2 DEF OnBeginHeaders, At
      <3> QED BY <1>1, <2>2, <3>1, BeginSound, StreamStep
    <2> QED BY <1>2, <2>1, <2>2 DEF OnBeginHeaders
  <1>3. CASE OnHeader(i)
    <2>1. h2 = "live" /\ s.ng = "headers" /\ Listed(s) BY <1>3 DEF OnHeader, At, Listed
    <2>2. CASE CallbackFails BY <2>1, <2>2, FailStep
    <2>3. CASE UNCHANGED <<h2, streams, h2list>> BY <2>3 DEF StreamsInv
    <2>4. CASE Becomes(i, [s EXCEPT !.headers = @ + 1]) /\ UNCHANGED <<h2, h2list>>
      <3> DEFINE t == [s EXCEPT !.headers = @ + 1]
      <3>1. t \in StreamData /\ Sound(t) /\ t.ng = s.ng BY <1>1, HeaderSound
      <3>2. Listed(t) /\ h2list' = h2list \cup {i} BY <1>1, <2>1, <2>4, <3>1 DEF Listed
      <3> QED BY <2>1, <2>4, <3>1, <3>2, StreamStep
    <2> QED BY <1>3, <2>2, <2>3, <2>4 DEF OnHeader
  <1>4. ASSUME NEW n \in 1 .. MaxH2Body, OnDataChunk(i, n) PROVE StreamsInv'
    <2>1. h2 = "live" /\ s.ng = "body" /\ ~s.ended /\ Listed(s) BY <1>4 DEF OnDataChunk, At, Listed
    <2>2. CASE CallbackFails BY <2>1, <2>2, FailStep
    <2>3. CASE /\ Becomes(i, [s EXCEPT !.got = @ + n, !.body_len = @ + n])
               /\ UNCHANGED <<h2, h2list>>
      <3> DEFINE t == [s EXCEPT !.got = @ + n, !.body_len = @ + n]
      <3>1. t \in StreamData /\ Sound(t) /\ t.ng = s.ng
        <4>1. n \in Nat OBVIOUS
        <4> QED BY <1>1, <2>1, <4>1, ChunkSound
      <3>2. Listed(t) /\ h2list' = h2list \cup {i} BY <1>1, <2>1, <2>3, <3>1 DEF Listed
      <3> QED BY <2>1, <2>3, <3>1, <3>2, StreamStep
    <2> QED BY <1>4, <2>2, <2>3 DEF OnDataChunk
  <1>5. ASSUME NEW end \in BOOLEAN, OnFrameRecv(i, end) PROVE StreamsInv'
    <2> DEFINE r == [s EXCEPT !.ng = "body", !.ended = end]
    <2>1. h2 = "live" /\ Listed(s) /\ ~s.ended BY <1>5 DEF OnFrameRecv, Listed
    <2>2. r \in StreamData /\ Sound(r) /\ r.ng = "body" /\ (end => Complete(r))
      BY <1>1, <2>1, FrameSound
    <2>3. PICK t \in IF end THEN Dispatched(r) ELSE {r} : Becomes(i, t)
      BY <1>5, Zenon DEF OnFrameRecv
    <2> HIDE DEF r
    <2>4. t \in StreamData /\ Sound(t) /\ t.ng = "body" BY <2>2, <2>3, DispatchSound
    <2>5. Listed(t) BY <2>4 DEF Listed
    <2>6. UNCHANGED h2 /\ h2list' = h2list \cup {i} BY <1>1, <1>5, <2>1 DEF OnFrameRecv
    <2> QED BY <2>1, <2>3, <2>4, <2>5, <2>6, StreamStep
  <1> QED BY <1>2, <1>3, <1>4, <1>5

(* The ends of a stream: a reset, the last part of a response, nghttp2.    *)
LEMMA EndStep ==
  ASSUME StreamsInv, NEW i \in Streams, OnRstStream(i) \/ Flush(i) \/ NgCloses(i)
  PROVE  StreamsInv'
  <1> DEFINE s == streams[i]
  <1>1. s \in StreamData /\ Sound(s) /\ (Listed(s) => i \in h2list)
    BY DEF StreamsInv
  <1>2. h2 = "live" /\ UNCHANGED h2 /\ Listed(s)
    BY DEF OnRstStream, Flush, NgCloses, At, Listed
  <1>3. CASE Close(i) BY <1>2, <1>3, CloseStep
  <1>4. CASE Becomes(i, [s EXCEPT !.left = @ - 1]) /\ UNCHANGED h2list
    <2> DEFINE t == [s EXCEPT !.left = @ - 1]
    <2>1. s.left - 1 \in Int BY <1>1 DEF StreamData
    <2>2. t \in StreamData BY <1>1, <2>1, Zenon DEF StreamData
    <2>3. Sound(t) /\ Listed(t) BY <1>1, <1>2 DEF Sound, Listed, StreamData
    <2>4. h2list' = h2list \cup {i} BY <1>1, <1>2, <1>4
    <2> QED BY <1>2, <1>4, <2>2, <2>3, <2>4, StreamStep
  <1> QED BY <1>3, <1>4 DEF OnRstStream, Flush, NgCloses

(* ioh_http2_session_destroy frees the list, which holds every stream that *)
(* still has memory.                                                       *)
LEMMA DestroyStep == ASSUME StreamsInv, SessionDestroy PROVE StreamsInv'
  <1>1. ASSUME NEW i \in Streams
        PROVE  /\ streams'[i] \in StreamData /\ Sound(streams'[i]) /\ ~Listed(streams'[i])
    <2>1. streams[i] \in StreamData /\ Sound(streams[i]) BY DEF StreamsInv
    <2>2. CASE i \in h2list
      <3>1. Listed(streams[i]) /\ streams'[i] = Closed(streams[i])
        BY <2>2 DEF StreamsInv, SessionDestroy
      <3> QED BY <2>1, <3>1, ClosedSound DEF Listed
    <2>3. CASE i \notin h2list
      <3> DEFINE t == [streams[i] EXCEPT !.provider = FALSE]
      <3>1. ~Listed(streams[i]) /\ streams'[i] = t BY <2>3 DEF StreamsInv, SessionDestroy
      <3>2. t \in StreamData BY <2>1, Zenon DEF StreamData
      <3>3. Sound(t) /\ t.ng = streams[i].ng BY <2>1 DEF Sound, Listed, StreamData
      <3> QED BY <3>1, <3>2, <3>3 DEF Listed
    <2> QED BY <2>2, <2>3
  <1>2. h2' = "dead" /\ h2list' = {} BY DEF SessionDestroy
  <1>3. streams' \in [Streams -> StreamData]
    <2> DEFINE F(i) == IF i \in h2list THEN Closed(streams[i])
                       ELSE [streams[i] EXCEPT !.provider = FALSE]
    <2>1. streams' = [i \in Streams |-> F(i)] BY Zenon DEF SessionDestroy
    <2> HIDE DEF F
    <2> QED BY <1>1, <2>1
  <1> QED BY <1>1, <1>2, <1>3 DEF StreamsInv

(* The counting of resets.                                                 *)
LEMMA ResetsStep == ASSUME ResetsInv, [H2Next]_h2Vars PROVE ResetsInv'
  <1>1. CASE Second BY <1>1, H2Assumption DEF ResetsInv, Second, FirstGoaway, RapidResetStopped
  <1>2. CASE Goaway
    <2>1. goaway' = goaway \/ goaway' = goaway \cup {IF goaway = {} THEN "notice" ELSE "final"}
      BY <1>2 DEF Goaway
    <2>2. FirstGoaway' /\ (RapidResetStopped /\ resets' = resets => RapidResetStopped')
      BY <2>1 DEF ResetsInv, FirstGoaway, RapidResetStopped
    <2> QED BY <1>2, <2>2 DEF ResetsInv, Goaway
  <1>3. ASSUME NEW i \in Streams, OnRstStream(i) PROVE ResetsInv'
    <2> DEFINE n == IF second # rst.start THEN 1 ELSE rst.count + 1
    <2>1. /\ rst' = [count |-> n, start |-> second] /\ resets' = resets + 1 /\ second' = second
          /\ goaway' \in Calm(n)
      BY <1>3, Zenon DEF OnRstStream
    <2>2. n = resets + 1 /\ n \in Nat BY DEF ResetsInv
    <2> HIDE DEF n
    <2>3. /\ second' \in Nat /\ resets' \in Nat /\ rst' \in [count : Nat, start : Nat]
          /\ rst'.start = second' /\ rst'.count = resets'
      BY <2>1, <2>2 DEF ResetsInv
    <2>4. \/ goaway' = goaway /\ (n > MaxRst => goaway # {})
          \/ goaway' = {"calm"} \/ goaway' = {"unsent"}
      BY <2>1 DEF Calm
    <2>5. FirstGoaway' BY <2>4 DEF ResetsInv, FirstGoaway
    <2>6. n > MaxRst => goaway' # {} BY <2>4
    <2>7. RapidResetStopped' BY <2>1, <2>2, <2>5, <2>6 DEF FirstGoaway, RapidResetStopped
    <2> QED BY <2>3, <2>5, <2>7 DEF ResetsInv
  <1>4. CASE UNCHANGED <<rst, goaway, second, resets>>
    BY <1>4 DEF ResetsInv, FirstGoaway, RapidResetStopped
  <1>5. CASE UNCHANGED h2Vars BY <1>4, <1>5 DEF h2Vars
  <1>6. CASE SessionCreate \/ SessionDestroy
    BY <1>4, <1>6 DEF SessionCreate, SessionDestroy, NoResets
  <1>7. ASSUME NEW i \in Streams,
               \/ OnBeginHeaders(i) \/ OnHeader(i) \/ Flush(i) \/ NgCloses(i)
               \/ \E n \in 1 .. MaxH2Body : OnDataChunk(i, n)
               \/ \E end \in BOOLEAN : OnFrameRecv(i, end)
        PROVE  ResetsInv'
    <2>1. NoResets
      BY <1>7, Zenon DEF OnBeginHeaders, OnHeader, Flush, NgCloses, OnDataChunk, OnFrameRecv
    <2> QED BY <1>4, <2>1 DEF NoResets
  <1> QED BY <1>1, <1>2, <1>3, <1>5, <1>6, <1>7, Zenon DEF H2Next

(* Every step of an HTTP/2 session keeps its invariant.                    *)
LEMMA H2Step == ASSUME StreamsInv, ResetsInv, [H2Next]_h2Vars PROVE StreamsInv' /\ ResetsInv'
  <1> SUFFICES StreamsInv'
    BY ResetsStep
  <1>1. CASE SessionCreate BY <1>1 DEF SessionCreate, StreamsInv, Listed
  <1>2. CASE Second \/ Goaway BY <1>2 DEF Second, Goaway, StreamsInv
  <1>3. CASE UNCHANGED h2Vars BY <1>3 DEF h2Vars, StreamsInv
  <1>4. CASE SessionDestroy BY <1>4, DestroyStep
  <1> QED BY <1>1, <1>2, <1>3, <1>4, RequestStep, EndStep, Zenon DEF H2Next

(* A session begins without streams.                                       *)
LEMMA H2Start == H2Init => StreamsInv /\ ResetsInv
  <1> SUFFICES ASSUME H2Init PROVE StreamsInv /\ ResetsInv
    OBVIOUS
  <1>1. \A i \in Streams : streams[i] = NewStream BY DEF H2Init
  <1>2. streams \in [Streams -> StreamData] BY NewStreamSound DEF H2Init
  <1>3. \A i \in Streams : Sound(streams[i]) /\ ~Listed(streams[i]) /\ streams[i].ng = "idle"
    BY <1>1, NewStreamSound DEF Listed
  <1>4. StreamsInv BY <1>2, <1>3 DEF StreamsInv, H2Init
  <1>5. ResetsInv BY H2Assumption DEF ResetsInv, H2Init, FirstGoaway, RapidResetStopped
  <1> QED BY <1>4, <1>5

(* Memory of responses over HTTP/2 is alive while nghttp2 reads it and is  *)
(* freed once, whoever is the first to end: submit_response,               *)
(* on_stream_close_cb or ioh_http2_session_destroy.                        *)
THEOREM ResponseMemorySafe == H2Spec => []ResponseMemory
  <1>1. StreamsInv => ResponseMemory
    <2> SUFFICES ASSUME StreamsInv, NEW i \in Streams
                 PROVE  LET s == streams[i]
                        IN  /\ s.provider => s.rd = "live" /\ s.body = "live"
                            /\ "twice" \notin {s.sd, s.rd, s.body}
                            /\ h2 = "dead" => "live" \notin {s.sd, s.rd, s.body}
      BY DEF ResponseMemory
    <2> DEFINE s == streams[i]
    <2>1. s \in StreamData /\ Sound(s) /\ (h2 = "dead" => ~Listed(s)) BY DEF StreamsInv
    <2>2. s.ng \in {"idle", "headers", "body", "closed"} BY <2>1 DEF StreamData, Ng
    <2> HIDE DEF s
    <2>3. s.provider => s.rd = "live" /\ s.body = "live" BY <2>1 DEF Sound
    <2>4. "twice" \notin {s.sd, s.rd, s.body} BY <2>1, <2>2 DEF Sound, Listed
    <2>5. h2 = "dead" => "live" \notin {s.sd, s.rd, s.body} BY <2>1, <2>2 DEF Sound, Listed
    <2> QED BY <2>3, <2>4, <2>5 DEF s
  <1> QED BY <1>1, H2Start, H2Step, PTL DEF H2Spec

(* on_frame_recv_cb calls on_request once for a request, when it has ended *)
(* and with all of its body.                                               *)
THEOREM RequestsWhole == H2Spec => []DispatchedWhole
  <1>1. StreamsInv => DispatchedWhole BY DEF StreamsInv, Sound, DispatchedWhole
  <1> QED BY <1>1, H2Start, H2Step, PTL DEF H2Spec

(* on_frame_recv_cb submits its GOAWAY in the second in which a client     *)
(* passes the limit of resets, for every limit, unless the session was     *)
(* going away already or memory was short.                                 *)
THEOREM RapidResetCaught == H2Spec => []RapidResetStopped
  <1>1. ResetsInv => RapidResetStopped BY DEF ResetsInv
  <1> QED BY <1>1, H2Start, H2Step, PTL DEF H2Spec
-----------------------------------------------------------------------------
(* The peer has allowed every stream that was opened, and it allows none   *)
(* before the handshake is done.                                           *)
QuicInv ==
  /\ credit \in Nat /\ uni \in Nat /\ uni <= credit
  /\ ~done => credit = 0

BoundInv ==
  /\ tx \in [ctrl : Nat, qenc : Nat, qdec : Nat] /\ attempt \in Nat
  /\ h3 = "none" => ~bound
  /\ ControlStreamsBound

Request ==
  [at : {"headers", "body", "trailed", "ended", "failed"}, sd : {0, 1}, got : Nat, body_len : Nat,
   calls : Nat, seen : Nat]

WholeRequest(r) ==
  /\ r.body_len = r.got
  /\ r.at \in {"body", "trailed", "ended"} => r.sd = 1
  /\ r.calls > 0 => r.calls = 1 /\ r.at = "ended" /\ r.seen = r.got

RequestsInv == reqs \in [H3Streams -> Request] /\ \A i \in H3Streams : WholeRequest(reqs[i])

(* What ioh_quic_open_uni_stream can do three times in a row.              *)
LEMMA OpenableFacts ==
  ASSUME QuicInv
  PROVE  /\ Openable(3) \in 0 .. 3 /\ uni + Openable(3) <= credit
         /\ closed => Openable(3) = 0
  BY DEF QuicInv, Openable

(* Every step keeps what is known of the connection.                       *)
LEMMA QuicStep == ASSUME QuicInv, [H3Next]_h3Vars PROVE QuicInv'
  <1>1. CASE OnRecv BY <1>1 DEF QuicInv, OnRecv
  <1>2. CASE UNCHANGED <<done, credit, uni>> BY <1>2 DEF QuicInv
  <1>3. CASE QuicNext
    BY <1>1, <1>2, <1>3
    DEF QuicNext, QuicCreate, QuicDestroy, OnTimeout, WriteStream, QuicClose, QuicFlush
  <1>4. CASE H3Create \/ BindAgain \/ BindAsserts
    <2>1. UNCHANGED <<done, credit>> /\ uni' = uni + Openable(3)
      BY <1>4 DEF H3Create, BindAgain, BindAsserts, BindStreams, KeepQuic
    <2> QED BY <2>1, OpenableFacts DEF QuicInv
  <1>5. CASE H3Shutdown \/ H3Destroy BY <1>2, <1>5 DEF H3Shutdown, H3Destroy, quicVars
  <1>6. CASE FromPeer BY <1>2, <1>6 DEF FromPeer, quicVars
  <1>7. CASE UNCHANGED h3Vars BY <1>2, <1>7 DEF h3Vars, quicVars
  <1> QED
    BY <1>3, <1>4, <1>5, <1>6, <1>7 DEF H3Next, H3Headers, H3Trailers, H3EndStream, H3RecvData

(* ioh_http3_bind_control_streams keeps what is known of bound streams.    *)
LEMMA BindStep ==
  ASSUME QuicInv, BoundInv, ~bound, BindStreams, h3' # "none"
  PROVE  BoundInv'
  <1> DEFINE n == Openable(3)
  <1>1. n \in 0 .. 3 BY OpenableFacts
  <1>2. uni \in Nat /\ uni' = uni + n /\ attempt' = uni BY DEF BindStreams, QuicInv
  <1>3. CASE bound' = FALSE /\ UNCHANGED tx
    BY <1>2, <1>3 DEF BoundInv, ControlStreamsBound
  <1>4. CASE bound' = FALSE /\ tx' = [tx EXCEPT !.ctrl = uni + 1]
    <2>1. tx' \in [ctrl : Nat, qenc : Nat, qdec : Nat] BY <1>2, <1>4 DEF BoundInv
    <2> QED BY <1>2, <1>4, <2>1 DEF BoundInv, ControlStreamsBound
  <1>5. CASE /\ n = 3 /\ bound' = TRUE
             /\ tx' = [ctrl |-> uni + 1, qenc |-> uni + 2, qdec |-> uni + 3]
    BY <1>2, <1>5 DEF BoundInv, ControlStreamsBound
  <1> QED BY <1>3, <1>4, <1>5, Zenon DEF BindStreams

(* Every step keeps what is known of the control streams.                  *)
LEMMA BoundStep == ASSUME QuicInv, BoundInv, [H3Next]_h3Vars PROVE BoundInv'
  <1>1. CASE H3Create
    <2>1. ~bound /\ BindStreams /\ h3' # "none" BY <1>1 DEF H3Create, BoundInv
    <2> QED BY <2>1, BindStep
  <1>2. CASE BindAgain
    <2>1. ~bound /\ BindStreams /\ h3' # "none" BY <1>2 DEF BindAgain
    <2> QED BY <2>1, BindStep
  <1>3. CASE BindAsserts BY <1>3 DEF BindAsserts, BoundInv, ControlStreamsBound, QuicInv
  <1>4. CASE UNCHANGED <<uni, bound, tx, attempt>> /\ (h3' = "none" => h3 = "none")
    BY <1>4 DEF BoundInv, ControlStreamsBound
  <1>5. CASE QuicNext /\ UNCHANGED h3Only
    BY <1>4, <1>5
    DEF h3Only, QuicNext, QuicCreate, QuicDestroy, OnRecv, OnTimeout, WriteStream, QuicClose, QuicFlush
  <1>6. CASE H3Shutdown \/ H3Destroy BY <1>4, <1>6 DEF H3Shutdown, H3Destroy, quicVars
  <1>7. CASE FromPeer BY <1>4, <1>7 DEF FromPeer, quicVars
  <1>8. CASE UNCHANGED h3Vars BY <1>4, <1>8 DEF h3Vars, quicVars, h3Only
  <1> QED
    BY <1>1, <1>2, <1>3, <1>5, <1>6, <1>7, <1>8 DEF H3Next, H3Headers, H3Trailers, H3EndStream, H3RecvData

(* A request is replaced by one as good.                                   *)
LEMMA RequestReplaced ==
  ASSUME RequestsInv, NEW i \in H3Streams, NEW r \in Request, WholeRequest(r),
         reqs' = [reqs EXCEPT ![i] = r]
  PROVE  RequestsInv'
  BY DEF RequestsInv

(* The callbacks of nghttp3 for a request.                                 *)
LEMMA CallbackStep ==
  ASSUME RequestsInv, NEW i \in H3Streams,
         \/ H3Headers(i) \/ H3Trailers(i) \/ H3EndStream(i)
         \/ \E n \in 1 .. MaxH3Body : H3RecvData(i, n)
  PROVE  RequestsInv'
  <1> DEFINE q == reqs[i]
  <1>1. q \in Request /\ WholeRequest(q) BY DEF RequestsInv
  <1>2. CASE H3Headers(i)
    <2>1. q.at = "headers" BY <1>2 DEF H3Headers
    <2>2. PICK s \in {[q EXCEPT !.at = "body", !.sd = 1], GivenUp(q)} :
            reqs' = [reqs EXCEPT ![i] = s]
      BY <1>2, Zenon DEF H3Headers
    <2> HIDE DEF q
    <2>3. s \in Request /\ WholeRequest(s)
      BY <1>1, <2>1, <2>2 DEF Request, WholeRequest, GivenUp
    <2> QED BY <2>2, <2>3, RequestReplaced
  <1>3. CASE H3Trailers(i)
    <2>1. q.at = "body" BY <1>3 DEF H3Trailers
    <2>2. PICK s \in {[q EXCEPT !.at = "trailed"], GivenUp(q)} :
            reqs' = [reqs EXCEPT ![i] = s]
      BY <1>3, Zenon DEF H3Trailers
    <2> HIDE DEF q
    <2>3. s \in Request /\ WholeRequest(s)
      BY <1>1, <2>1, <2>2 DEF Request, WholeRequest, GivenUp
    <2> QED BY <2>2, <2>3, RequestReplaced
  <1>4. CASE H3EndStream(i)
    <2> DEFINE r == [q EXCEPT !.at = "ended"]
    <2>1. q.at \in {"body", "trailed"} BY <1>4 DEF H3EndStream
    <2>2. r \in Request /\ WholeRequest(r) /\ r.calls = 0 /\ r.at = "ended"
      BY <1>1, <2>1 DEF Request, WholeRequest
    <2>3. PICK s \in {r, [r EXCEPT !.calls = @ + 1, !.seen = r.body_len]} :
            reqs' = [reqs EXCEPT ![i] = s]
      BY <1>4, Zenon DEF H3EndStream
    <2> HIDE DEF r
    <2>4. CASE s = r BY <2>2, <2>3, <2>4, RequestReplaced
    <2>5. CASE s = [r EXCEPT !.calls = @ + 1, !.seen = r.body_len]
      <3>1. s \in Request
        <4>1. r.calls + 1 \in Nat /\ r.body_len \in Nat BY <2>2 DEF Request
        <4> QED BY <2>2, <2>5, <4>1, Zenon DEF Request
      <3>2. WholeRequest(s) BY <2>2, <2>5 DEF Request, WholeRequest
      <3> QED BY <2>3, <3>1, <3>2, RequestReplaced
    <2> QED BY <2>3, <2>4, <2>5
  <1>5. ASSUME NEW n \in 1 .. MaxH3Body, H3RecvData(i, n) PROVE RequestsInv'
    <2>1. n \in Nat
      OBVIOUS
    <2>2. q.at = "body" BY <1>5 DEF H3RecvData
    <2>3. PICK s \in {[q EXCEPT !.got = @ + n, !.body_len = @ + n], GivenUp(q)} :
            reqs' = [reqs EXCEPT ![i] = s]
      BY <1>5, Zenon DEF H3RecvData
    <2> HIDE DEF q
    <2>4. CASE s = GivenUp(q)
      <3>1. s \in Request BY <1>1, <2>4 DEF Request, GivenUp
      <3>2. WholeRequest(s) BY <1>1, <2>2, <2>4 DEF Request, WholeRequest, GivenUp
      <3> QED BY <2>3, <3>1, <3>2, RequestReplaced
    <2>5. CASE s = [q EXCEPT !.got = @ + n, !.body_len = @ + n]
      <3>1. s \in Request
        <4>1. q.got + n \in Nat /\ q.body_len + n \in Nat BY <1>1, <2>1 DEF Request
        <4> QED BY <1>1, <2>5, <4>1, Zenon DEF Request
      <3>2. WholeRequest(s) BY <1>1, <2>1, <2>2, <2>5 DEF Request, WholeRequest
      <3> QED BY <2>3, <3>1, <3>2, RequestReplaced
    <2> QED BY <2>3, <2>4, <2>5
  <1> QED BY <1>2, <1>3, <1>4, <1>5

(* Every step keeps the requests whole.                                    *)
LEMMA RequestsStep == ASSUME RequestsInv, [H3Next]_h3Vars PROVE RequestsInv'
  <1>1. CASE UNCHANGED reqs BY <1>1 DEF RequestsInv
  <1>2. CASE H3Create \/ BindAgain \/ BindAsserts \/ H3Shutdown \/ H3Destroy
    BY <1>1, <1>2 DEF H3Create, BindAgain, BindAsserts, H3Shutdown, H3Destroy
  <1>3. CASE UNCHANGED h3Only BY <1>1, <1>3 DEF h3Only
  <1>4. CASE UNCHANGED h3Vars BY <1>3, <1>4 DEF h3Vars
  <1> QED BY <1>2, <1>3, <1>4, CallbackStep DEF H3Next

(* At first there is no connection, no session and no request.             *)
LEMMA H3Start == H3Init => QuicInv /\ BoundInv /\ RequestsInv
  <1> SUFFICES ASSUME H3Init PROVE QuicInv /\ BoundInv /\ RequestsInv
    OBVIOUS
  <1>1. QuicInv BY DEF H3Init, QuicInit, QuicInv
  <1>2. BoundInv BY DEF H3Init, NoTx, BoundInv, ControlStreamsBound
  <1>3. NewReq \in Request /\ WholeRequest(NewReq) BY DEF NewReq, Request, WholeRequest
  <1>4. RequestsInv BY <1>3 DEF H3Init, RequestsInv
  <1> QED BY <1>1, <1>2, <1>4

(* A closed QUIC connection stays closed and brings nothing further:       *)
(* ioh_quic_on_recv, ioh_quic_on_timeout, ioh_quic_open_uni_stream.        *)
LEMMA ClosedStep ==
  ASSUME QuicInv, closed, [H3Next]_h3Vars
  PROVE  closed' /\ done' = done /\ uni' = uni /\ reqs' = reqs
  <1>1. CASE QuicNext /\ UNCHANGED h3Only
    BY <1>1, Zenon
    DEF h3Only, QuicNext, QuicCreate, QuicDestroy, OnRecv, Datagram, OnTimeout, WriteStream,
        QuicClose, QuicFlush
  <1>2. CASE H3Create \/ BindAgain
    <2>1. uni' = uni + Openable(3) /\ closed' = closed /\ done' = done /\ reqs' = reqs
      BY <1>2, Zenon DEF H3Create, BindAgain, BindStreams, KeepQuic
    <2>2. uni' = uni BY <2>1, OpenableFacts DEF QuicInv
    <2> QED BY <2>1, <2>2, Zenon
  <1>3. CASE BindAsserts BY <1>3, OpenableFacts DEF BindAsserts
  <1>4. CASE H3Shutdown \/ H3Destroy BY <1>4, Zenon DEF H3Shutdown, H3Destroy, quicVars
  <1>5. ~FromPeer BY Zenon DEF FromPeer, Datagram
  <1>6. CASE UNCHANGED h3Vars BY <1>6, Zenon DEF h3Vars, quicVars, h3Only
  <1> QED
    BY <1>1, <1>2, <1>3, <1>4, <1>5, <1>6, Zenon DEF H3Next, H3Headers, H3Trailers, H3EndStream, H3RecvData

(* A closed connection stays closed for good (ioh_quic_is_closed): no      *)
(* later datagram, timeout or attempt to bind streams changes anything the *)
(* session would notice.                                                   *)
THEOREM CloseIsFinal == H3Spec => ClosedForGood
  <1>1. QuicInv /\ [H3Next]_h3Vars
        => [closed => /\ closed' /\ done' = done /\ uni' = uni /\ reqs' = reqs]_h3Vars
    BY ClosedStep
  <1> QED BY <1>1, H3Start, QuicStep, PTL DEF H3Spec, ClosedForGood

(* ioh_http3_bind_control_streams, however often it was tried, leaves a    *)
(* bound session with three streams of one attempt, for every credit.      *)
THEOREM ControlStreamsSafe == H3Spec => []ControlStreamsBound
  <1>1. BoundInv => ControlStreamsBound BY DEF BoundInv
  <1> QED BY <1>1, H3Start, QuicStep, BoundStep, PTL DEF H3Spec

(* h3_end_stream_cb calls on_request once for a request, with all of its   *)
(* body, with trailers or without.                                         *)
THEOREM H3RequestsWhole == H3Spec => []H3DispatchedWhole
  <1>1. RequestsInv => H3DispatchedWhole
    BY DEF RequestsInv, Request, WholeRequest, H3DispatchedWhole
  <1> QED BY <1>1, H3Start, RequestsStep, PTL DEF H3Spec
=============================================================================
