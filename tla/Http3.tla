-------------------------------- MODULE Http3 --------------------------------
(***************************************************************************)
(* An HTTP/3 session of http/ioh_http3.c on a QUIC connection. nghttp3 is  *)
(* external: it calls the callbacks in the order of the frames of each     *)
(* stream. No code of the repository closes an nghttp3 stream, so that     *)
(* h3_stream_close_cb is not called and there is no action for it.         *)
(***************************************************************************)
EXTENDS Quic

CONSTANTS
  H3Streams,  \* the request streams
  MaxH3Body   \* bytes of a request body that are followed

VARIABLES
  h3,         \* the session: "none", "live", "dead", "aborted" by an assertion
  bound,      \* control_streams_bound
  tx,         \* the streams bound to nghttp3, 0 for none
  attempt,    \* how many streams were open when the last attempt to bind began
  goingAway,  \* shutdown_initiated, and whether nghttp3 was told
  reqs        \* of each request stream what nghttp3 and its stream data hold

h3Only == <<h3, bound, tx, attempt, goingAway, reqs>>
h3Vars == <<quicVars, h3Only>>

NoTx == [ctrl |-> 0, qenc |-> 0, qdec |-> 0]

(* at: the frame that comes next; sd: the stream data that were allocated; *)
(* got, body_len: of the body; calls, seen: of on_request.                 *)
NewReq == [at |-> "headers", sd |-> 0, got |-> 0, body_len |-> 0, calls |-> 0, seen |-> 0]

H3Init ==
  /\ QuicInit
  /\ h3 = "none" /\ bound = FALSE /\ tx = NoTx /\ attempt = 0
  /\ goingAway = [initiated |-> FALSE, submitted |-> FALSE]
  /\ reqs = [i \in H3Streams |-> NewReq]
-----------------------------------------------------------------------------
(* ioh_http3_bind_control_streams of a session that is not bound. Streams  *)
(* that were opened before one could not be stay open and are not used.    *)
(* nghttp3 asserts that it has no control stream yet.                      *)
BindStreams_fault ==
  LET n == Openable(3)
  IN  /\ uni' = uni + n /\ attempt' = uni
      /\ \/ /\ n < 3 /\ bound' = FALSE /\ UNCHANGED tx
         \/ /\ n = 3 /\ tx.ctrl = 0
            /\ \/ bound' = FALSE /\ UNCHANGED tx
               \/ bound' = TRUE /\ tx' = [tx EXCEPT !.ctrl = uni + 1]
               \/ /\ bound' = TRUE
                  /\ tx' = [ctrl |-> uni + 1, qenc |-> uni + 2, qdec |-> uni + 3]
BindStreams ==
  LET n == Openable(3)
  IN  /\ uni' = uni + n /\ attempt' = uni
      /\ \/ /\ n < 3 /\ bound' = FALSE /\ UNCHANGED tx
         \/ /\ n = 3 /\ tx.ctrl = 0
            /\ \/ bound' = FALSE /\ UNCHANGED tx
               \/ bound' = FALSE /\ tx' = [tx EXCEPT !.ctrl = uni + 1]
               \/ /\ bound' = TRUE
                  /\ tx' = [ctrl |-> uni + 1, qenc |-> uni + 2, qdec |-> uni + 3]

KeepQuic == UNCHANGED <<quic, closed, done, credit, out>>

(* ioh_http3_session_create tries to bind, handshake or not.               *)
H3Create ==
  /\ h3 = "none" /\ quic = "live" /\ h3' = "live"
  /\ BindStreams
  /\ KeepQuic /\ UNCHANGED <<goingAway, reqs>>

(* A later call, and the one that meets nghttp3's assertion.               *)
BindAgain ==
  /\ h3 = "live" /\ quic = "live" /\ ~bound
  /\ BindStreams
  /\ KeepQuic /\ UNCHANGED <<h3, goingAway, reqs>>

BindAsserts ==
  /\ h3 = "live" /\ quic = "live" /\ ~bound /\ tx.ctrl # 0 /\ Openable(3) = 3
  /\ h3' = "aborted" /\ uni' = uni + 3
  /\ KeepQuic /\ UNCHANGED <<bound, tx, attempt, goingAway, reqs>>

(* ioh_http3_shutdown: no GOAWAY before the control stream is bound.       *)
H3Shutdown ==
  /\ h3 = "live"
  /\ goingAway' = [initiated |-> TRUE, submitted |-> goingAway.submitted \/ bound]
  /\ UNCHANGED <<quicVars, h3, bound, tx, attempt, reqs>>

(* ioh_http3_session_destroy.                                              *)
H3Destroy ==
  /\ h3 = "live" /\ h3' = "dead"
  /\ UNCHANGED <<quicVars, bound, tx, attempt, goingAway, reqs>>
-----------------------------------------------------------------------------
(* ioh_http3_on_stream_data is called from the callback of a datagram:     *)
(* nghttp3 calls back with the parts of the request that have come. An     *)
(* error of a callback fails the call, and nghttp3 gives the stream up.    *)
FromPeer ==
  /\ Datagram /\ done /\ h3 = "live"
  /\ UNCHANGED <<quicVars, h3, bound, tx, attempt, goingAway>>

GivenUp(r) == [r EXCEPT !.at = "failed"]

(* h3_begin_headers_cb, h3_recv_header_cb, h3_end_headers_cb.              *)
H3Headers(i) ==
  /\ FromPeer /\ reqs[i].at = "headers"
  /\ \E s \in {[reqs[i] EXCEPT !.at = "body", !.sd = 1], GivenUp(reqs[i])} :
       reqs' = [reqs EXCEPT ![i] = s]

(* h3_recv_data_cb.                                                        *)
H3RecvData_fault(i, n) ==
  /\ FromPeer /\ reqs[i].at = "body" /\ reqs[i].got + n <= MaxH3Body
  /\ \E s \in {[reqs[i] EXCEPT !.got = @ + n, !.body_len = n], GivenUp(reqs[i])} :
       reqs' = [reqs EXCEPT ![i] = s]
H3RecvData(i, n) ==
  /\ FromPeer /\ reqs[i].at = "body" /\ reqs[i].got + n <= MaxH3Body
  /\ \E s \in {[reqs[i] EXCEPT !.got = @ + n, !.body_len = @ + n], GivenUp(reqs[i])} :
       reqs' = [reqs EXCEPT ![i] = s]

(* Trailers: the session registers no callback for them, so that nghttp3   *)
(* checks them and the request stays as it is.                             *)
H3Trailers(i) ==
  /\ FromPeer /\ reqs[i].at = "body"
  /\ \E s \in {[reqs[i] EXCEPT !.at = "trailed"], GivenUp(reqs[i])} :
       reqs' = [reqs EXCEPT ![i] = s]

(* h3_end_stream_cb: without memory for the response there is no call. The *)
(* response that ioh_http3_submit_response hands to nghttp3 is copied.     *)
H3EndStream(i) ==
  /\ FromPeer /\ reqs[i].at \in {"body", "trailed"}
  /\ LET r == [reqs[i] EXCEPT !.at = "ended"]
     IN  \E s \in {r, [r EXCEPT !.calls = @ + 1, !.seen = r.body_len]} :
           reqs' = [reqs EXCEPT ![i] = s]

H3Next ==
  \/ QuicNext /\ UNCHANGED h3Only
  \/ H3Create \/ BindAgain \/ BindAsserts \/ H3Shutdown \/ H3Destroy
  \/ \E i \in H3Streams :
       \/ H3Headers(i) \/ H3Trailers(i) \/ H3EndStream(i)
       \/ \E n \in 1 .. MaxH3Body : H3RecvData(i, n)

H3Spec == H3Init /\ [][H3Next]_h3Vars
-----------------------------------------------------------------------------
(* ioh_quic_is_closed: whichever of a draining peer, a timeout and         *)
(* ioh_quic_close closed the connection, it stays closed. A datagram that  *)
(* still arrives completes no handshake and brings no request any further, *)
(* and no stream is opened, by a session that has yet to bind its own      *)
(* either.                                                                 *)
ClosedForGood ==
  [][closed => /\ closed' /\ done' = done /\ uni' = uni /\ reqs' = reqs]_h3Vars

(* "Safe to call multiple times": however often binding was tried before   *)
(* the handshake, the credit of the peer or memory allowed it, a session   *)
(* that calls its streams bound has a control stream and two QPACK streams *)
(* of its last attempt, three different streams that are open.             *)
ControlStreamsBound ==
  bound => /\ tx.ctrl > attempt /\ tx.qenc > tx.ctrl /\ tx.qdec > tx.qenc
           /\ tx.qdec <= uni

(* "If fin is set, end_stream_cb will handle dispatch": a request reaches  *)
(* the handler at most once, when its stream has ended and its stream data *)
(* are there, with every byte of its body, in whatever pieces it came and  *)
(* with trailers or without.                                               *)
H3DispatchedWhole ==
  \A i \in H3Streams :
    LET r == reqs[i]
    IN  r.calls > 0 => r.calls = 1 /\ r.at = "ended" /\ r.sd = 1 /\ r.seen = r.got
=============================================================================
