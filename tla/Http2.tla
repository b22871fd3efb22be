-------------------------------- MODULE Http2 --------------------------------
(***************************************************************************)
(* An HTTP/2 session of http/ioh_http2.c. nghttp2 is external: it calls    *)
(* the callbacks in the order of the frames it accepts, and reads response *)
(* bodies through the data provider while it is flushed.                   *)
(*                                                                         *)
(* Memory is followed by owner: the stream data, the provider of the       *)
(* response (rd) and the response body, each "none", "live" or "freed",    *)
(* and "twice" if it was ever freed again.                                 *)
(***************************************************************************)
EXTENDS Integers

CONSTANTS
  Streams,      \* stream ids
  MaxH2Headers, \* IOH_MAX_HEADERS
  MaxRst,       \* config.max_rst_stream_per_sec
  MaxH2Body,    \* bytes of a request body that are followed
  MaxSecond     \* seconds that are followed

ASSUME H2Assumption == MaxRst \in Nat

VARIABLES
  h2,        \* the session: "none", "live", "broken" after a failed callback, "dead"
  streams,   \* of each stream what nghttp2 and its stream data hold
  h2list,    \* session->streams: the stream data to free with the session
  rst,       \* rst_count, rst_window_start
  goaway,    \* GOAWAY frames submitted, by kind; goaway_sent if there are any
  second,    \* time()
  resets     \* RST_STREAM frames received in this second

h2Vars == <<h2, streams, h2list, rst, goaway, second, resets>>

(* ng: the stream in nghttp2; ended: END_STREAM was received; got: body    *)
(* bytes received; body_len, headers: the request so far; calls, seen: how *)
(* often on_request was called, and with how much body; provider: nghttp2  *)
(* holds rd; left: how much of the response body it has yet to read.       *)
NewStream ==
  [ng |-> "idle", ended |-> FALSE, got |-> 0, headers |-> 0, body_len |-> 0,
   calls |-> 0, seen |-> 0, provider |-> FALSE, left |-> 0,
   sd |-> "none", rd |-> "none", body |-> "none"]

H2Init ==
  /\ h2 = "none" /\ streams = [i \in Streams |-> NewStream] /\ h2list = {}
  /\ rst = [count |-> 0, start |-> 0] /\ goaway = {}
  /\ second = 1 /\ resets = 0

(* ioh_http2_session_create.                                               *)
SessionCreate ==
  /\ h2 = "none" /\ h2' \in {"live", "dead"}
  /\ UNCHANGED <<streams, h2list, rst, goaway, second, resets>>

Second ==
  /\ second < MaxSecond /\ second' = second + 1 /\ resets' = 0
  /\ UNCHANGED <<h2, streams, h2list, rst, goaway>>

At(i, ng)    == h2 = "live" /\ streams[i].ng = ng
Becomes(i, s) == streams' = [streams EXCEPT ![i] = s]
NoResets     == UNCHANGED <<rst, goaway, second, resets>>

(* A callback that fails: nghttp2 gives the session up and                 *)
(* ioh_http2_on_recv returns -EIO.                                         *)
CallbackFails == h2' = "broken" /\ UNCHANGED <<streams, h2list>>
-----------------------------------------------------------------------------
(* on_begin_headers_cb of a request, on_header_cb, on_data_chunk_cb.       *)
OnBeginHeaders(i) ==
  /\ At(i, "idle")
  /\ \/ /\ Becomes(i, [streams[i] EXCEPT !.ng = "headers", !.sd = "live"])
        /\ h2list' = h2list \cup {i} /\ UNCHANGED h2
     \/ CallbackFails
  /\ NoResets

(* A header beyond the limit is dropped.                                   *)
OnHeader(i) ==
  /\ At(i, "headers")
  /\ \/ /\ streams[i].headers < MaxH2Headers
        /\ Becomes(i, [streams[i] EXCEPT !.headers = @ + 1])
        /\ UNCHANGED <<h2, h2list>>
     \/ streams[i].headers >= MaxH2Headers /\ UNCHANGED <<h2, streams, h2list>>
     \/ CallbackFails
  /\ NoResets

OnDataChunk_fault(i, n) ==
  /\ At(i, "body") /\ ~streams[i].ended /\ streams[i].got + n <= MaxH2Body
  /\ \/ /\ Becomes(i, [streams[i] EXCEPT !.got = @ + n, !.body_len = n])
        /\ UNCHANGED <<h2, h2list>>
     \/ CallbackFails
  /\ NoResets
OnDataChunk(i, n) ==
  /\ At(i, "body") /\ ~streams[i].ended /\ streams[i].got + n <= MaxH2Body
  /\ \/ /\ Becomes(i, [streams[i] EXCEPT !.got = @ + n, !.body_len = @ + n])
        /\ UNCHANGED <<h2, h2list>>
     \/ CallbackFails
  /\ NoResets
-----------------------------------------------------------------------------
Freed(m) == CASE m = "none" -> "none" [] m = "live" -> "freed" [] OTHER -> "twice"

(* What submit_response, and then ioh_response_destroy, leave of a stream  *)
(* whose handler made a response body. The body belongs to the response    *)
(* until rd has it; a submission that fails frees it there and then.       *)
RespBody(s)  == [s EXCEPT !.body = "live"]
Refused(s)   == [RespBody(s) EXCEPT !.body = Freed(@)]
Handed(s)    == [RespBody(s) EXCEPT !.rd = "live", !.provider = TRUE, !.left = 2]
NgRefused_fault(s) == [RespBody(s) EXCEPT !.rd = Freed("live"), !.body = Freed(Freed(@))]
NgRefused(s) == [RespBody(s) EXCEPT !.rd = Freed("live"), !.body = Freed(@)]

SubmitResponse(s) == {Refused(s), Handed(s), NgRefused(s)}

(* The request is dispatched. No response follows when memory is short,    *)
(* when the handler fails or when it aborted; a response without a body    *)
(* has no provider.                                                        *)
Dispatched(s) ==
  LET c == [s EXCEPT !.calls = @ + 1, !.seen = s.body_len]
  IN  {s, c, Refused(c), [c EXCEPT !.left = 1]} \cup SubmitResponse(c)

(* on_frame_recv_cb of HEADERS or DATA; trailers come as HEADERS.          *)
OnFrameRecv(i, end) ==
  /\ h2 = "live" /\ streams[i].ng \in {"headers", "body"} /\ ~streams[i].ended
  /\ LET s == [streams[i] EXCEPT !.ng = "body", !.ended = end]
     IN  \E t \in IF end THEN Dispatched(s) ELSE {s} : Becomes(i, t)
  /\ UNCHANGED <<h2, h2list>> /\ NoResets

(* on_stream_close_cb: nghttp2 has dropped the provider with the stream.   *)
Closed(s) ==
  [s EXCEPT !.ng = "closed", !.provider = FALSE, !.left = 0,
            !.sd = Freed(@),
            !.rd = IF @ = "live" THEN Freed(@) ELSE @,
            !.body = IF s.rd = "live" THEN Freed(@) ELSE @]

Close(i) == Becomes(i, Closed(streams[i])) /\ h2list' = h2list \ {i}

(* on_frame_recv_cb of RST_STREAM, after which nghttp2 closes the stream.  *)
(* goaway_sent is set whether or not nghttp2 had memory for the GOAWAY.    *)
Calm(n) == IF n > MaxRst /\ goaway = {} THEN {{"calm"}, {"unsent"}} ELSE {goaway}

OnRstStream_fault(i) ==
  LET n == IF second # rst.start THEN 0 ELSE rst.count + 1
  IN  /\ h2 = "live" /\ streams[i].ng \in {"headers", "body"}
      /\ rst' = [count |-> n, start |-> second]
      /\ goaway' \in Calm(n)
      /\ resets' = resets + 1
      /\ Close(i)
      /\ UNCHANGED <<h2, second>>
OnRstStream(i) ==
  LET n == IF second # rst.start THEN 1 ELSE rst.count + 1
  IN  /\ h2 = "live" /\ streams[i].ng \in {"headers", "body"}
      /\ rst' = [count |-> n, start |-> second]
      /\ goaway' \in Calm(n)
      /\ resets' = resets + 1
      /\ Close(i)
      /\ UNCHANGED <<h2, second>>

(* ioh_http2_flush: nghttp2 sends a part of a response, reading it with    *)
(* resp_data_read_cb, and closes the stream behind the last part.          *)
Flush(i) ==
  /\ At(i, "body") /\ streams[i].ended /\ streams[i].left > 0
  /\ IF streams[i].left = 1 THEN Close(i)
     ELSE Becomes(i, [streams[i] EXCEPT !.left = @ - 1]) /\ UNCHANGED h2list
  /\ UNCHANGED h2 /\ NoResets

(* nghttp2 closes streams for reasons of its own (external): an error of   *)
(* the stream, or a GOAWAY that was sent.                                  *)
NgCloses(i) ==
  /\ h2 = "live" /\ streams[i].ng \in {"headers", "body"}
  /\ Close(i) /\ UNCHANGED h2 /\ NoResets

(* ioh_http2_goaway: the first says only that the session is to end, its   *)
(* last stream being 2^31 - 1; behind any other it names the last stream   *)
(* that was processed. nghttp2 may refuse it for want of memory.           *)
Goaway ==
  /\ h2 = "live"
  /\ \/ goaway' = goaway \cup {IF goaway = {} THEN "notice" ELSE "final"}
     \/ UNCHANGED goaway
  /\ UNCHANGED <<h2, streams, h2list, rst, second, resets>>

(* ioh_http2_session_destroy: nghttp2_session_del calls nothing back, the  *)
(* list is freed.                                                          *)
SessionDestroy ==
  /\ h2 \in {"live", "broken"} /\ h2' = "dead" /\ h2list' = {}
  /\ streams' = [i \in Streams |-> IF i \in h2list THEN Closed(streams[i])
                                   ELSE [streams[i] EXCEPT !.provider = FALSE]]
  /\ NoResets

H2Next ==
  \/ SessionCreate \/ Second \/ Goaway \/ SessionDestroy
  \/ \E i \in Streams :
       \/ OnBeginHeaders(i) \/ OnHeader(i) \/ OnRstStream(i) \/ Flush(i) \/ NgCloses(i)
       \/ \E n \in 1 .. MaxH2Body : OnDataChunk(i, n)
       \/ \E end \in BOOLEAN : OnFrameRecv(i, end)

H2Spec == H2Init /\ [][H2Next]_h2Vars
-----------------------------------------------------------------------------
(* "Transfer body ownership": while nghttp2 may read a response through    *)
(* resp_data_read_cb its provider and body are alive; whichever of the     *)
(* response, the stream and the session ends first, each piece of memory   *)
(* is freed once, and none is left when the session is destroyed.          *)
ResponseMemory ==
  \A i \in Streams :
    LET s == streams[i]
    IN  /\ s.provider => s.rd = "live" /\ s.body = "live"
        /\ "twice" \notin {s.sd, s.rd, s.body}
        /\ h2 = "dead" => "live" \notin {s.sd, s.rd, s.body}

(* on_frame_recv_cb hands a request over once, when END_STREAM has come,   *)
(* with every byte of the body that was received, in whatever chunks and   *)
(* with trailers or without.                                               *)
DispatchedWhole ==
  \A i \in Streams :
    LET s == streams[i]
    IN  s.calls > 0 => s.calls = 1 /\ s.ended /\ s.seen = s.got

(* "Rapid Reset protection": a session whose client has reset more streams *)
(* in a second than max_rst_stream_per_sec has submitted the GOAWAY that   *)
(* tells it to calm down. Two sessions are excepted. One was going away    *)
(* already: on_frame_recv_cb then submits none, whatever the client does,  *)
(* though the notice of ioh_http2_goaway names no last stream. The other   *)
(* had no memory for the GOAWAY, which is not tried again.                 *)
RapidResetStopped ==
  resets > MaxRst /\ goaway \cap {"notice", "unsent"} = {} => "calm" \in goaway
=============================================================================
