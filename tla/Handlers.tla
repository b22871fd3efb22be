------------------------------ MODULE Handlers ------------------------------
(***************************************************************************)
(* What the completion handlers of core/ioh_server.c do to the state they  *)
(* share: the connection pool, the submission queue and the descriptors.   *)
(* Each function of the C code is an operator from machine to machine, or  *)
(* to the set of machines it may lead to, and they call one another here   *)
(* as they do there. Module Server puts them under the event loop.         *)
(*                                                                         *)
(* Bytes are abstracted. What the parser, the PROXY decoder, the TLS       *)
(* engine and the request handler answer is an input of the operator that  *)
(* calls them; how much of a response is unsent is a count of pieces.      *)
(* Control is not: every branch, early return, ignored result and queued   *)
(* request of the handlers is here.                                        *)
(***************************************************************************)
EXTENDS Conn, Sequences

CONSTANTS
  MaxFd,          \* descriptors the process may have for clients
  SQDepth,        \* entries of the submission queue (queue_depth)
  ProxyProtocol,  \* config.proxy_protocol
  Tls,            \* a TLS context is configured
  TimedPhases,    \* the phases with a timeout that is not zero
  Responses,      \* what the request handlers may produce
  Faults,         \* BOOLEAN where allocation may fail, {FALSE} otherwise
  MaxPieces       \* pieces the kernel takes a response in

Fds == 1..MaxFd

(* A response fits the serialization buffer or does not; "no_ctx" is a     *)
(* request context that could not be allocated. "keep" is req.keep_alive   *)
(* && resp.status < 400.                                                   *)
Response == [size : {"fits", "oversize", "no_ctx"}, keep : BOOLEAN]

ASSUME HandlersAssumption ==
  /\ MaxFd \in Nat /\ SQDepth \in Nat \ {0} /\ MaxPieces \in Nat \ {0}
  /\ ProxyProtocol \in BOOLEAN /\ Tls \in BOOLEAN
  /\ TimedPhases \subseteq Phases /\ Faults \subseteq BOOLEAN
  /\ Responses \subseteq Response

Ops == {"ACCEPT", "RECV", "SEND", "CLOSE", "TIMEOUT", "SIGNAL", "CANCEL"}
Ids == 0..(IdSpace - 1)
Sqe == [op : Ops, id : Ids, fd : Int]

(* "crashed": a handler went on with a connection it had released.         *)
Machine == [pool : Pool, sq : Seq(Sqe), fds : [Fds -> Nat], crashed : BOOLEAN]
-----------------------------------------------------------------------------
(* io_uring_get_sqe finds room for n more entries.                         *)
Room(w, n) == Len(w.sq) + n <= SQDepth

Queue(w, op, id, fd) ==
  [w EXCEPT !.sq = Append(@, [op |-> op, id |-> id, fd |-> fd])]

(* close(2) on a descriptor; on one that is not open it changes nothing.   *)
CloseFd(w, fd) ==
  IF fd \in Fds THEN [w EXCEPT !.fds[fd] = 0] ELSE w

(* find_conn_by_id: the first slot in use with that identifier, if any.    *)
find_conn_by_id(w, id) ==
  LET found == {s \in InUse(w.pool) : w.pool.conns[s].id = id}
  IN  {s \in found : \A t \in found : s <= t}

(* timeout_ms_for_phase is not zero.                                       *)
timeout_for_phase(c) == c.phase \in TimedPhases

arm_recv_untimed(w, s) ==
  LET c == w.pool.conns[s]
  IN  IF Room(w, 1) THEN Queue(w, "RECV", c.id, c.fd) ELSE w

(* The receive is queued, with its linked timeout when the phase has one   *)
(* and a second entry is left; without an entry nothing is queued.         *)
arm_recv(w, s) ==
  LET c == w.pool.conns[s]
      r == Queue(w, "RECV", c.id, c.fd)
  IN  IF ~Room(w, 1) THEN w
      ELSE IF timeout_for_phase(c) /\ Room(w, 2)
             THEN Queue(r, "TIMEOUT", c.id, c.fd)
             ELSE r

(* arm_send returns 0.                                                     *)
Sendable(w, s, fault) ==
  ~w.pool.conns[s].send_active /\ ~fault /\ Room(w, 1)

arm_send_flag_left(w, s, fault) ==
  LET c == w.pool.conns[s]
      v == [w EXCEPT !.pool.conns[s].unsent = MaxPieces, !.pool.conns[s].send_active = TRUE]
  IN  IF c.send_active \/ fault THEN w
      ELSE IF ~Room(w, 1) THEN v
      ELSE Queue(v, "SEND", c.id, c.fd)

arm_send(w, s, fault) ==
  LET c == w.pool.conns[s]
      v == [w EXCEPT !.pool.conns[s].unsent = MaxPieces]
  IN  IF c.send_active \/ fault THEN w
      ELSE IF ~Room(w, 1) THEN v
      ELSE Queue([v EXCEPT !.pool.conns[s].send_active = TRUE], "SEND", c.id, c.fd)

(* The result of arm_send is ignored.                                      *)
send_error_response(w, s, fault) ==
  [arm_send(w, s, fault) EXCEPT !.pool.conns[s].keep_alive = FALSE,
                                !.pool.conns[s].answered = TRUE]

(* Without an entry for the close, the descriptor is closed and the slot   *)
(* released on the spot.                                                   *)
arm_close(w, s) ==
  LET c == w.pool.conns[s]
      v == [w EXCEPT !.pool.conns[s].tls = "none"]
  IN  IF ~Room(w, 1)
        THEN [CloseFd(v, c.fd) EXCEPT !.pool = ConnFree(v.pool, s)]
        ELSE [Queue(v, "CLOSE", c.id, c.fd)
                EXCEPT !.pool = ConnTransition(v.pool, s, "CLOSING")]

(* What handling a complete request does: the response is queued, or the   *)
(* connection closed when it cannot be. A response that does not fit the   *)
(* buffer, or a context that cannot be allocated, queues nothing.          *)
dispatch_request(w, s, resp, fault) ==
  CASE resp.size = "no_ctx"   -> w
    [] resp.size = "oversize" -> [w EXCEPT !.pool.conns[s].keep_alive = resp.keep]
    [] resp.size = "fits"     ->
         IF Sendable(w, s, fault)
           THEN [arm_send(w, s, fault) EXCEPT !.pool.conns[s].keep_alive = resp.keep,
                                              !.pool.conns[s].answered = TRUE]
           ELSE arm_close(arm_send(w, s, fault), s)

(* The caller then moves what follows the request to the front of the      *)
(* receive buffer. If arm_close has released the slot there is no buffer   *)
(* left: a copy of a wrapped length from a null pointer.                   *)
Dispatched(w, s, resp, fault) ==
  LET v == dispatch_request(w, s, resp, fault)
  IN  IF s \in InUse(v.pool) THEN v ELSE [v EXCEPT !.crashed = TRUE]

(* Plaintext in the receive buffer, up to the end of the handler: too many *)
(* header bytes, a body over the limit or a malformed request are answered *)
(* with an error; an incomplete head or body waits for more; a complete    *)
(* request is dispatched.                                                  *)
HttpInput(w, s) ==
  {send_error_response(w, s, f) : f \in Faults}
  \cup {arm_recv(w, s)}
  \cup {arm_recv([w EXCEPT !.pool.conns[s].phase = "body"], s)}
  \cup {Dispatched(w, s, r, f) : r \in Responses, f \in Faults}

Handshake_recv_always(w, s, hs, out, fault) ==
  LET v == IF out THEN arm_send(w, s, fault) ELSE w
  IN  IF hs = "fail" THEN arm_close(v, s) ELSE arm_recv(v, s)

(* One step of the TLS handshake: hs is the answer of ioh_tls_handshake,   *)
(* out says whether it left output to flush.                               *)
Handshake(w, s, hs, out, fault) ==
  LET v == IF out THEN arm_send(w, s, fault) ELSE w
      u == IF hs = "done"
             THEN [v EXCEPT !.pool = ConnTransition(
                     [v.pool EXCEPT !.conns[s].tls = "done", !.conns[s].phase = "header"],
                     s, "HTTP_ACTIVE")]
             ELSE v
  IN  IF hs = "fail" THEN arm_close(v, s)
      ELSE IF u.pool.conns[s].send_active THEN u
      ELSE arm_recv(u, s)

(* Decrypted application data goes on to the parser; otherwise more        *)
(* ciphertext is needed, or the record layer failed.                       *)
TlsInput(w, s) ==
  CASE w.pool.conns[s].tls = "none"      -> HttpInput(w, s)
    [] w.pool.conns[s].tls = "handshake" ->
         {Handshake(w, s, hs, out, f) :
            hs \in {"done", "again", "fail"}, out \in BOOLEAN, f \in Faults}
    [] w.pool.conns[s].tls = "done"      ->
         HttpInput(w, s) \cup {arm_recv(w, s), arm_close(w, s)}

(* The state that follows the accept or the PROXY header. A TLS context    *)
(* that cannot be created leaves the connection without one.               *)
EnterProtocol(w, s, fault) ==
  IF Tls
    THEN [w EXCEPT !.pool = ConnTransition(
            [w.pool EXCEPT !.conns[s].tls = IF fault THEN "none" ELSE "handshake"],
            s, "TLS_HANDSHAKE")]
    ELSE [w EXCEPT !.pool = ConnTransition(w.pool, s, "HTTP_ACTIVE")]

RecvInput_not_rearmed(w, s) ==
  IF w.pool.conns[s].state = "PROXY_HEADER" THEN {w, arm_close(w, s)} ELSE TlsInput(w, s)

(* Received bytes, from the PROXY header on.                               *)
RecvInput(w, s) ==
  IF w.pool.conns[s].state = "PROXY_HEADER"
    THEN {arm_recv(w, s), arm_close(w, s)}
         \cup UNION { LET v == EnterProtocol(w, s, f)
                      IN  {arm_recv(v, s)} \cup TlsInput(v, s) : f \in Faults }
    ELSE TlsInput(w, s)

(* A client descriptor handed over by the accept.                          *)
AcceptConn(w, s, fd, client, fault) ==
  LET p == ConnAlloc(w.pool, s)
      v == [w EXCEPT !.pool = [p EXCEPT !.conns[s].fd = fd,
                                        !.conns[s].peer = client,
                                        !.conns[s].phase = "header"]]
      u == IF ProxyProtocol
             THEN [v EXCEPT !.pool = ConnTransition(v.pool, s, "PROXY_HEADER")]
             ELSE EnterProtocol(v, s, fault)
  IN  IF Room(u, 1) THEN arm_recv(u, s)
      ELSE [CloseFd(u, fd) EXCEPT !.pool = ConnFree(u.pool, s)]

AcceptNoMem_leaking(w, s, fd) == [w EXCEPT !.pool = ConnAllocNoMem(w.pool, s)]

AllocMayFail == TRUE \in Faults

(* The receive buffer cannot be allocated: the descriptor is closed.       *)
AcceptNoMem(w, s, fd) ==
  [CloseFd(w, fd) EXCEPT !.pool = ConnAllocNoMem(w.pool, s)]

(* All outcomes of the accept. A full pool closes the descriptor too.      *)
AcceptInput(w, fd, client) ==
  IF FreeSlots(w.pool) = {} THEN {CloseFd(w, fd)}
  ELSE {AcceptConn(w, s, fd, client, f) : s \in FirstFree(w.pool), f \in Faults}
       \cup {AcceptNoMem(w, s, fd) : s \in IF AllocMayFail THEN FirstFree(w.pool) ELSE {}}

SendDone_first_piece(w, s, res) ==
  arm_close([w EXCEPT !.pool.conns[s].send_active = FALSE], s)

(* A send that completed with res pieces taken, or failed.                 *)
SendDone(w, s, res) ==
  LET v == [w EXCEPT !.pool.conns[s].send_active = FALSE]
      u == [v EXCEPT !.pool.conns[s].unsent = @ - res]
      c == u.pool.conns[s]
  IN  CASE res < 0 -> arm_close(v, s)
        [] res >= 0 /\ c.unsent > 0 ->
             IF Room(u, 1)
               THEN Queue([u EXCEPT !.pool.conns[s].send_active = TRUE], "SEND", c.id, c.fd)
               ELSE arm_close(u, s)
        [] res >= 0 /\ c.unsent <= 0 ->
             CASE c.state = "TLS_HANDSHAKE" -> arm_recv(u, s)
               [] c.state = "HTTP_ACTIVE" /\ c.keep_alive ->
                    arm_recv([u EXCEPT !.pool.conns[s].phase = "keepalive"], s)
               [] OTHER -> arm_close(u, s)

(* Every connection is closed and its slot released, the way both shutdown *)
(* modes do it.                                                            *)
ReleaseAll(w) ==
  LET open == {w.pool.conns[s].fd : s \in InUse(w.pool)}
  IN  [w EXCEPT !.pool.conns = [s \in Slots |-> IF s \in InUse(w.pool) THEN ClosedConn
                                                ELSE w.pool.conns[s]],
                !.pool.active_count = @ - Cardinality(InUse(w.pool)),
                !.fds = [f \in Fds |-> IF f \in open THEN 0 ELSE @[f]]]

CancelAccept_skipped(w, accepting) == w

(* ioh_server_shutdown up to its modes: the accept is cancelled.           *)
CancelAccept(w, accepting) ==
  IF accepting /\ Room(w, 1) THEN Queue(w, "CANCEL", 0, NoFd) ELSE w

(* The drain marks the connections that are serving HTTP.                  *)
MarkDraining(w) ==
  [w EXCEPT !.pool.conns =
     [s \in Slots |-> IF @[s].state = "HTTP_ACTIVE"
                        THEN [@[s] EXCEPT !.state = "DRAINING", !.keep_alive = FALSE]
                        ELSE @[s]]]
=============================================================================
