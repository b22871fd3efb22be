--------------------------- MODULE HandlersProofs ---------------------------
(***************************************************************************)
(* Each helper of the handlers, from a good machine, leads to a good one:  *)
(* its types and the invariant of its connection pool are kept, whatever   *)
(* the number of slots and descriptors and the depth of the submission     *)
(* queue, with and without TLS, the PROXY protocol, failing allocations.   *)
(***************************************************************************)
EXTENDS Handlers, ConnProofs

Good(w)       == w \in Machine /\ PoolInv(w.pool)
Serving(w, s) == w \in Machine /\ Holding(w.pool, s)

(* A connection that is worked on belongs to a good machine.               *)
LEMMA ServingGood ==
  ASSUME NEW w, NEW s, Serving(w, s)
  PROVE  /\ Good(w) /\ s \in InUse(w.pool) /\ s \in Slots
         /\ w.pool.conns[s] \in Conn
         /\ w.pool.conns[s].id \in Ids /\ w.pool.conns[s].fd \in Int
BY DEF Serving, Good, Holding, InUse, PoolInv, Pool, Conn, Ids

(* A pool that keeps its invariant may replace that of a machine.          *)
LEMMA WithPool ==
  ASSUME NEW w \in Machine, NEW p
  PROVE  /\ PoolInv(p) => Good([w EXCEPT !.pool = p])
         /\ \A s : Holding(p, s) => Serving([w EXCEPT !.pool = p], s)
         /\ [w EXCEPT !.pool = p].pool = p
<1>1. [w EXCEPT !.pool = p].pool = p
  BY DEF Machine
<1>2. p \in Pool => [w EXCEPT !.pool = p] \in Machine
  BY DEF Machine
<1> QED BY <1>1, <1>2 DEF Good, Serving, Holding, PoolInv

(* An assignment to a field of the connection other than state and id.     *)
LEMMA ServingField ==
  ASSUME NEW w, NEW s, Serving(w, s)
  PROVE  /\ \A x \in Phases : Serving([w EXCEPT !.pool.conns[s].phase = x], s)
         /\ \A x \in BOOLEAN : Serving([w EXCEPT !.pool.conns[s].send_active = x], s)
         /\ \A x \in BOOLEAN : Serving([w EXCEPT !.pool.conns[s].keep_alive = x], s)
         /\ \A x \in {"none", "handshake", "done"} : Serving([w EXCEPT !.pool.conns[s].tls = x], s)
         /\ \A x \in Int : Serving([w EXCEPT !.pool.conns[s].unsent = x], s)
         /\ \A x \in BOOLEAN : Serving([w EXCEPT !.pool.conns[s].answered = x], s)
<1>1. w \in Machine /\ Holding(w.pool, s)
  BY DEF Serving
<1>2. ASSUME NEW x \in Phases
      PROVE  Serving([w EXCEPT !.pool.conns[s].phase = x], s)
  <2> DEFINE p == [w.pool EXCEPT !.conns[s].phase = x]
  <2>1. Holding(p, s)
    BY <1>1, HoldingField
  <2>2. [w EXCEPT !.pool.conns[s].phase = x] = [w EXCEPT !.pool = p]
    OBVIOUS
  <2> HIDE DEF p
  <2> QED BY <1>1, <2>1, <2>2, WithPool, Zenon
<1>3. ASSUME NEW x \in BOOLEAN
      PROVE  Serving([w EXCEPT !.pool.conns[s].send_active = x], s)
  <2> DEFINE p == [w.pool EXCEPT !.conns[s].send_active = x]
  <2>1. Holding(p, s)
    BY <1>1, HoldingField
  <2>2. [w EXCEPT !.pool.conns[s].send_active = x] = [w EXCEPT !.pool = p]
    OBVIOUS
  <2> HIDE DEF p
  <2> QED BY <1>1, <2>1, <2>2, WithPool, Zenon
<1>4. ASSUME NEW x \in BOOLEAN
      PROVE  Serving([w EXCEPT !.pool.conns[s].keep_alive = x], s)
  <2> DEFINE p == [w.pool EXCEPT !.conns[s].keep_alive = x]
  <2>1. Holding(p, s)
    BY <1>1, HoldingField
  <2>2. [w EXCEPT !.pool.conns[s].keep_alive = x] = [w EXCEPT !.pool = p]
    OBVIOUS
  <2> HIDE DEF p
  <2> QED BY <1>1, <2>1, <2>2, WithPool, Zenon
<1>5. ASSUME NEW x \in {"none", "handshake", "done"}
      PROVE  Serving([w EXCEPT !.pool.conns[s].tls = x], s)
  <2> DEFINE p == [w.pool EXCEPT !.conns[s].tls = x]
  <2>1. Holding(p, s)
    BY <1>1, HoldingField
  <2>2. [w EXCEPT !.pool.conns[s].tls = x] = [w EXCEPT !.pool = p]
    OBVIOUS
  <2> HIDE DEF p
  <2> QED BY <1>1, <2>1, <2>2, WithPool, Zenon
<1>6. ASSUME NEW x \in Int
      PROVE  Serving([w EXCEPT !.pool.conns[s].unsent = x], s)
  <2> DEFINE p == [w.pool EXCEPT !.conns[s].unsent = x]
  <2>1. Holding(p, s)
    BY <1>1, HoldingField
  <2>2. [w EXCEPT !.pool.conns[s].unsent = x] = [w EXCEPT !.pool = p]
    OBVIOUS
  <2> HIDE DEF p
  <2> QED BY <1>1, <2>1, <2>2, WithPool, Zenon
<1>7. ASSUME NEW x \in BOOLEAN
      PROVE  Serving([w EXCEPT !.pool.conns[s].answered = x], s)
  <2> DEFINE p == [w.pool EXCEPT !.conns[s].answered = x]
  <2>1. Holding(p, s)
    BY <1>1, HoldingField
  <2>2. [w EXCEPT !.pool.conns[s].answered = x] = [w EXCEPT !.pool = p]
    OBVIOUS
  <2> HIDE DEF p
  <2> QED BY <1>1, <2>1, <2>2, WithPool, Zenon
<1> QED BY <1>2, <1>3, <1>4, <1>5, <1>6, <1>7, Zenon

(* Queueing a request.                                                     *)
LEMMA QueueGood ==
  ASSUME NEW w, NEW op \in Ops, NEW id \in Ids, NEW fd \in Int
  PROVE  /\ Good(w) => Good(Queue(w, op, id, fd))
         /\ \A s : Serving(w, s) => Serving(Queue(w, op, id, fd), s)
         /\ w \in Machine => Queue(w, op, id, fd).pool = w.pool
<1> DEFINE e == [op |-> op, id |-> id, fd |-> fd]
<1>1. e \in Sqe
  BY DEF Sqe
<1>2. ASSUME w \in Machine
      PROVE  Queue(w, op, id, fd) \in Machine /\ Queue(w, op, id, fd).pool = w.pool
  <2>1. w.sq \in Seq(Sqe)
    BY <1>2 DEF Machine
  <2>2. Append(w.sq, e) \in Seq(Sqe)
    BY <1>1, <2>1
  <2>3. Queue(w, op, id, fd) = [w EXCEPT !.sq = Append(w.sq, e)]
    BY DEF Queue
  <2> HIDE DEF e
  <2> QED BY <1>2, <2>2, <2>3 DEF Machine
<1> QED BY <1>2 DEF Good, Serving

(* Closing a descriptor.                                                   *)
LEMMA CloseFdGood ==
  ASSUME NEW w \in Machine, NEW fd
  PROVE  /\ CloseFd(w, fd) \in Machine
         /\ CloseFd(w, fd).pool = w.pool
         /\ CloseFd(w, fd).sq = w.sq
BY DEF CloseFd, Machine

(* arm_recv, whatever room the queue has.                                  *)
LEMMA ArmRecvServing ==
  ASSUME NEW w, NEW s, Serving(w, s)
  PROVE  Serving(arm_recv(w, s), s)
<1> DEFINE c == w.pool.conns[s]
           r == Queue(w, "RECV", c.id, c.fd)
           t == Queue(r, "TIMEOUT", c.id, c.fd)
<1>1. c.id \in Ids /\ c.fd \in Int
  BY ServingGood
<1>2. "RECV" \in Ops /\ "TIMEOUT" \in Ops
  BY DEF Ops
<1> HIDE DEF c
<1>3. Serving(r, s)
  BY <1>1, <1>2, QueueGood
<1> HIDE DEF r
<1>4. Serving(t, s)
  BY <1>1, <1>2, <1>3, QueueGood
<1>5. arm_recv(w, s) = w \/ arm_recv(w, s) = r \/ arm_recv(w, s) = t
  BY Zenon DEF arm_recv, c, r
<1> HIDE DEF t
<1> QED BY <1>3, <1>4, <1>5, Zenon

(* arm_send, whether it queues the send or refuses.                        *)
LEMMA ArmSendServing ==
  ASSUME NEW w, NEW s, Serving(w, s), NEW fault
  PROVE  Serving(arm_send(w, s, fault), s)
<1> DEFINE c == w.pool.conns[s]
           v == [w EXCEPT !.pool.conns[s].unsent = MaxPieces]
           u == [v EXCEPT !.pool.conns[s].send_active = TRUE]
           q == Queue(u, "SEND", c.id, c.fd)
<1>1. c.id \in Ids /\ c.fd \in Int /\ "SEND" \in Ops /\ MaxPieces \in Int
  BY ServingGood, HandlersAssumption DEF Ops
<1>2. Serving(v, s)
  BY <1>1, ServingField
<1> HIDE DEF c, v
<1>3. Serving(u, s)
  BY <1>2, ServingField
<1> HIDE DEF u
<1>4. Serving(q, s)
  BY <1>1, <1>3, QueueGood
<1>5. arm_send(w, s, fault) = w \/ arm_send(w, s, fault) = v \/ arm_send(w, s, fault) = q
  BY Zenon DEF arm_send, c, v, u
<1> HIDE DEF q
<1> QED BY <1>2, <1>4, <1>5, Zenon

(* send_error_response.                                                    *)
LEMMA SendErrorServing ==
  ASSUME NEW w, NEW s, Serving(w, s), NEW fault
  PROVE  Serving(send_error_response(w, s, fault), s)
<1> DEFINE v == arm_send(w, s, fault)
           u == [v EXCEPT !.pool.conns[s].keep_alive = FALSE]
<1>1. Serving(v, s)
  BY ArmSendServing
<1> HIDE DEF v
<1>2. Serving(u, s)
  BY <1>1, ServingField
<1> HIDE DEF u
<1>3. Serving([u EXCEPT !.pool.conns[s].answered = TRUE], s)
  BY <1>2, ServingField
<1> QED BY <1>3, Zenon DEF send_error_response, u, v

(* arm_close releases at most the slot it is called for, which is in use:  *)
(* the condition under which ioh_conn_free keeps the count right.          *)
LEMMA ArmCloseGood ==
  ASSUME NEW w, NEW s, Serving(w, s)
  PROVE  Good(arm_close(w, s))
<1> DEFINE c == w.pool.conns[s]
           v == [w EXCEPT !.pool.conns[s].tls = "none"]
           k == CloseFd(v, c.fd)
           q == Queue(v, "CLOSE", c.id, c.fd)
           f == ConnFree(v.pool, s)
           t == ConnTransition(v.pool, s, "CLOSING")
<1>1. c.id \in Ids /\ c.fd \in Int /\ "CLOSE" \in Ops /\ "CLOSING" \in States
  BY ServingGood DEF Ops, States
<1>2. Serving(v, s)
  BY ServingField
<1> HIDE DEF c, v
<1>3. v \in Machine /\ PoolInv(v.pool) /\ s \in InUse(v.pool) /\ Holding(v.pool, s)
  BY <1>2 DEF Serving, Holding
<1>4. PoolInv(f) /\ PoolInv(t)
  BY <1>1, <1>3, ConnFreeInv, ConnTransitionInv
<1>5. k \in Machine /\ q \in Machine
  BY <1>1, <1>2, <1>3, CloseFdGood, QueueGood DEF Serving
<1> HIDE DEF k, q, f, t
<1>6. Good([k EXCEPT !.pool = f]) /\ Good([q EXCEPT !.pool = t])
  BY <1>4, <1>5, WithPool
<1>7. arm_close(w, s) = [k EXCEPT !.pool = f] \/ arm_close(w, s) = [q EXCEPT !.pool = t]
  BY Zenon DEF arm_close, c, v, k, q, f, t
<1> QED BY <1>6, <1>7, Zenon

(* dispatch_request: any response, sent, refused or too large.             *)
LEMMA DispatchGood ==
  ASSUME NEW w, NEW s, Serving(w, s), NEW resp \in Response, NEW fault
  PROVE  Good(dispatch_request(w, s, resp, fault))
<1> DEFINE v == arm_send(w, s, fault)
           o == [w EXCEPT !.pool.conns[s].keep_alive = resp.keep]
           k == [v EXCEPT !.pool.conns[s].keep_alive = resp.keep]
           a == [k EXCEPT !.pool.conns[s].answered = TRUE]
<1>1. resp.keep \in BOOLEAN /\ resp.size \in {"fits", "oversize", "no_ctx"}
  BY DEF Response
<1>2. Serving(v, s) /\ Serving(o, s)
  BY <1>1, ArmSendServing, ServingField
<1> HIDE DEF v, o
<1>3. Serving(k, s)
  BY <1>1, <1>2, ServingField
<1> HIDE DEF k
<1>4. Serving(a, s)
  BY <1>3, ServingField
<1> HIDE DEF a
<1>5. Good(w) /\ Good(o) /\ Good(a) /\ Good(arm_close(v, s))
  BY <1>2, <1>4, ServingGood, ArmCloseGood
<1>6. CASE resp.size = "no_ctx"
  BY <1>5, <1>6 DEF dispatch_request
<1>7. CASE resp.size = "oversize"
  <2>1. dispatch_request(w, s, resp, fault) = o
    BY <1>7 DEF dispatch_request, o
  <2> QED BY <1>5, <2>1
<1>8. CASE resp.size = "fits"
  <2>1. dispatch_request(w, s, resp, fault) = IF Sendable(w, s, fault) THEN a ELSE arm_close(v, s)
    BY <1>8 DEF dispatch_request, v, k, a
  <2> QED BY <1>5, <2>1
<1> QED BY <1>1, <1>6, <1>7, <1>8

(* The rest of the handler after dispatch_request.                         *)
LEMMA DispatchedGood ==
  ASSUME NEW w, NEW s, Serving(w, s), NEW resp \in Response, NEW fault
  PROVE  Good(Dispatched(w, s, resp, fault))
<1> DEFINE v == dispatch_request(w, s, resp, fault)
<1>1. Good(v)
  BY DispatchGood
<1> HIDE DEF v
<1>2. Good([v EXCEPT !.crashed = TRUE])
  BY <1>1 DEF Good, Machine
<1>3. Dispatched(w, s, resp, fault) = v \/ Dispatched(w, s, resp, fault) = [v EXCEPT !.crashed = TRUE]
  BY Zenon DEF Dispatched, v
<1> QED BY <1>1, <1>2, <1>3, Zenon

(* Plaintext, with every answer of the parser and of the handler.          *)
LEMMA HttpInputGood ==
  ASSUME NEW w, NEW s, Serving(w, s), NEW v \in HttpInput(w, s)
  PROVE  Good(v)
<1>1. ASSUME NEW f \in Faults
      PROVE  Good(send_error_response(w, s, f))
  BY SendErrorServing, ServingGood
<1>2. Good(arm_recv(w, s))
  BY ArmRecvServing, ServingGood
<1> DEFINE b == [w EXCEPT !.pool.conns[s].phase = "body"]
<1>3. Good(arm_recv(b, s))
  <2>1. "body" \in Phases
    BY DEF Phases
  <2>2. Serving(b, s)
    BY <2>1, ServingField, Zenon
  <2> HIDE DEF b
  <2> QED BY <2>2, ArmRecvServing, ServingGood
<1>4. ASSUME NEW r \in Responses, NEW f \in Faults
      PROVE  Good(Dispatched(w, s, r, f))
  BY DispatchedGood, HandlersAssumption
<1>5. \/ \E f \in Faults : v = send_error_response(w, s, f)
      \/ v = arm_recv(w, s)
      \/ v = arm_recv(b, s)
      \/ \E r \in Responses, f \in Faults : v = Dispatched(w, s, r, f)
  BY DEF HttpInput
<1> HIDE DEF b
<1> QED BY <1>1, <1>2, <1>3, <1>4, <1>5, Zenon

(* One step of the TLS handshake.                                          *)
LEMMA HandshakeGood ==
  ASSUME NEW w, NEW s, Serving(w, s), NEW hs, NEW out, NEW fault
  PROVE  Good(Handshake(w, s, hs, out, fault))
<1> DEFINE v == IF out THEN arm_send(w, s, fault) ELSE w
           a == [v.pool EXCEPT !.conns[s].tls = "done"]
           b == [a EXCEPT !.conns[s].phase = "header"]
           t == ConnTransition(b, s, "HTTP_ACTIVE")
           d == [v EXCEPT !.pool = t]
           u == IF hs = "done" THEN d ELSE v
<1>1. Serving(v, s)
  BY ArmSendServing
<1> HIDE DEF v
<1>2. v \in Machine /\ Holding(v.pool, s)
  BY <1>1 DEF Serving
<1>3. Holding(a, s)
  BY <1>2, HoldingField
<1> HIDE DEF a
<1>4. Holding(b, s)
  <2>1. "header" \in Phases
    BY DEF Phases
  <2> QED BY <1>3, <2>1, HoldingField, Zenon
<1> HIDE DEF b
<1>5. Holding(t, s)
  <2>1. "HTTP_ACTIVE" \in States
    BY DEF States
  <2> QED BY <1>4, <2>1, HoldingTransition
<1> HIDE DEF t
<1>6. Serving(d, s)
  BY <1>2, <1>5, WithPool
<1> HIDE DEF d
<1>7. Serving(u, s)
  BY <1>1, <1>6
<1> HIDE DEF u
<1>8. Good(arm_close(v, s)) /\ Good(u) /\ Good(arm_recv(u, s))
  BY <1>1, <1>7, ArmCloseGood, ArmRecvServing, ServingGood
<1>9. Handshake(w, s, hs, out, fault) =
        IF hs = "fail" THEN arm_close(v, s)
        ELSE IF u.pool.conns[s].send_active THEN u ELSE arm_recv(u, s)
  BY Zenon DEF Handshake, v, a, b, t, d, u
<1> QED BY <1>8, <1>9, Zenon

(* Received bytes on a connection with or without TLS.                     *)
LEMMA TlsInputGood ==
  ASSUME NEW w, NEW s, Serving(w, s), NEW v \in TlsInput(w, s)
  PROVE  Good(v)
<1>1. w.pool.conns[s].tls \in {"none", "handshake", "done"}
  BY ServingGood DEF Conn
<1>2. CASE w.pool.conns[s].tls = "none"
  BY <1>2, HttpInputGood DEF TlsInput
<1>3. CASE w.pool.conns[s].tls = "handshake"
  <2>1. PICK hs \in {"done", "again", "fail"}, out \in BOOLEAN, f \in Faults :
               v = Handshake(w, s, hs, out, f)
    BY <1>3 DEF TlsInput
  <2> QED BY <2>1, HandshakeGood
<1>4. CASE w.pool.conns[s].tls = "done"
  <2>1. v \in HttpInput(w, s) \/ v = arm_recv(w, s) \/ v = arm_close(w, s)
    BY <1>4 DEF TlsInput
  <2>2. Good(arm_recv(w, s)) /\ Good(arm_close(w, s))
    BY ArmRecvServing, ArmCloseGood, ServingGood
  <2> QED BY <2>1, <2>2, HttpInputGood
<1> QED BY <1>1, <1>2, <1>3, <1>4

(* The state after the accept or the PROXY header.                         *)
LEMMA EnterProtocolServing ==
  ASSUME NEW w, NEW s, Serving(w, s), NEW fault
  PROVE  Serving(EnterProtocol(w, s, fault), s)
<1> DEFINE x == IF fault THEN "none" ELSE "handshake"
           a == [w.pool EXCEPT !.conns[s].tls = x]
           t == ConnTransition(a, s, "TLS_HANDSHAKE")
           h == ConnTransition(w.pool, s, "HTTP_ACTIVE")
<1>1. w \in Machine /\ Holding(w.pool, s)
  BY DEF Serving
<1>2. "TLS_HANDSHAKE" \in States /\ "HTTP_ACTIVE" \in States
  BY DEF States
<1>3. x \in {"none", "handshake", "done"}
  OBVIOUS
<1> HIDE DEF x
<1>4. Holding(a, s)
  BY <1>1, <1>3, HoldingField, Zenon
<1> HIDE DEF a
<1>5. Holding(t, s) /\ Holding(h, s)
  BY <1>1, <1>2, <1>4, HoldingTransition
<1> HIDE DEF t, h
<1>6. Serving([w EXCEPT !.pool = t], s) /\ Serving([w EXCEPT !.pool = h], s)
  BY <1>1, <1>5, WithPool
<1>7. EnterProtocol(w, s, fault) = IF Tls THEN [w EXCEPT !.pool = t] ELSE [w EXCEPT !.pool = h]
  BY Zenon DEF EnterProtocol, x, a, t, h
<1> QED BY <1>6, <1>7, Zenon

(* Received bytes, from the PROXY header on.                               *)
LEMMA RecvInputGood ==
  ASSUME NEW w, NEW s, Serving(w, s), NEW v \in RecvInput(w, s)
  PROVE  Good(v)
<1>1. CASE w.pool.conns[s].state = "PROXY_HEADER"
  <2>1. \/ v = arm_recv(w, s) \/ v = arm_close(w, s)
        \/ \E f \in Faults : \/ v = arm_recv(EnterProtocol(w, s, f), s)
                             \/ v \in TlsInput(EnterProtocol(w, s, f), s)
    BY <1>1, Zenon DEF RecvInput
  <2>2. Good(arm_recv(w, s)) /\ Good(arm_close(w, s))
    BY ArmRecvServing, ArmCloseGood, ServingGood
  <2>3. ASSUME NEW f \in Faults
        PROVE  /\ Good(arm_recv(EnterProtocol(w, s, f), s))
               /\ v \in TlsInput(EnterProtocol(w, s, f), s) => Good(v)
    <3>1. Serving(EnterProtocol(w, s, f), s)
      BY EnterProtocolServing
    <3> QED BY <3>1, ArmRecvServing, ServingGood, TlsInputGood
  <2> QED BY <2>1, <2>2, <2>3
<1>2. CASE w.pool.conns[s].state # "PROXY_HEADER"
  BY <1>2, TlsInputGood DEF RecvInput
<1> QED BY <1>1, <1>2

(* A new connection, which is given up at once when the queue is full.     *)
LEMMA AcceptConnGood ==
  ASSUME NEW w, Good(w), NEW s \in FirstFree(w.pool), NEW fd \in Int, NEW client \in Nat, NEW fault
  PROVE  Good(AcceptConn(w, s, fd, client, fault))
<1> DEFINE p == ConnAlloc(w.pool, s)
           a == [p EXCEPT !.conns[s].fd = fd]
           b == [a EXCEPT !.conns[s].peer = client]
           c == [b EXCEPT !.conns[s].phase = "header"]
           v == [w EXCEPT !.pool = c]
           t == ConnTransition(v.pool, s, "PROXY_HEADER")
           x == [v EXCEPT !.pool = t]
           u == IF ProxyProtocol THEN x ELSE EnterProtocol(v, s, fault)
           k == CloseFd(u, fd)
           f == ConnFree(u.pool, s)
<1>1. w \in Machine /\ PoolInv(w.pool) /\ "header" \in Phases /\ "PROXY_HEADER" \in States
  BY DEF Good, Phases, States
<1>2. Holding(p, s)
  BY <1>1, HoldingAlloc
<1> HIDE DEF p
<1>3. Holding(a, s)
  BY <1>2, HoldingField, Zenon
<1> HIDE DEF a
<1>4. Holding(b, s)
  BY <1>3, HoldingField, Zenon
<1> HIDE DEF b
<1>5. Holding(c, s)
  BY <1>1, <1>4, HoldingField, Zenon
<1> HIDE DEF c
<1>6. Serving(v, s)
  BY <1>1, <1>5, WithPool
<1> HIDE DEF v
<1>7. v \in Machine /\ Holding(t, s)
  BY <1>1, <1>6, HoldingTransition DEF Serving
<1> HIDE DEF t
<1>8. Serving(x, s)
  BY <1>7, WithPool
<1> HIDE DEF x
<1>9. Serving(u, s)
  BY <1>6, <1>8, EnterProtocolServing
<1> HIDE DEF u
<1>10. u \in Machine /\ PoolInv(u.pool) /\ s \in InUse(u.pool)
  BY <1>9 DEF Serving, Holding
<1>11. k \in Machine /\ PoolInv(f)
  BY <1>10, CloseFdGood, ConnFreeInv
<1> HIDE DEF k, f
<1>12. Good(arm_recv(u, s)) /\ Good([k EXCEPT !.pool = f])
  BY <1>9, <1>11, ArmRecvServing, ServingGood, WithPool
<1>13. AcceptConn(w, s, fd, client, fault) =
         IF Room(u, 1) THEN arm_recv(u, s) ELSE [k EXCEPT !.pool = f]
  BY Zenon DEF AcceptConn, p, a, b, c, v, t, x, u, k, f
<1> QED BY <1>12, <1>13, Zenon

(* Every outcome of an accepted descriptor.                                *)
LEMMA AcceptInputGood ==
  ASSUME NEW w, Good(w), NEW fd \in Int, NEW client \in Nat,
         NEW v \in AcceptInput(w, fd, client)
  PROVE  Good(v)
<1> DEFINE k == CloseFd(w, fd)
<1>1. w \in Machine /\ PoolInv(w.pool)
  BY DEF Good
<1>2. k \in Machine /\ k.pool = w.pool
  BY <1>1, CloseFdGood
<1>3. Good(k)
  BY <1>1, <1>2 DEF Good
<1>4. ASSUME NEW s \in FirstFree(w.pool)
      PROVE  Good(AcceptNoMem(w, s, fd))
  <2>1. PoolInv(ConnAllocNoMem(w.pool, s))
    BY <1>1, ConnAllocNoMemInv
  <2> HIDE DEF k
  <2>2. Good([k EXCEPT !.pool = ConnAllocNoMem(w.pool, s)])
    BY <1>2, <2>1, WithPool
  <2> QED BY <2>2, Zenon DEF AcceptNoMem, k
<1>5. CASE FreeSlots(w.pool) = {}
  <2>1. v = k
    BY <1>5 DEF AcceptInput
  <2> QED BY <1>3, <2>1
<1>6. CASE FreeSlots(w.pool) # {}
  <2> DEFINE A == {AcceptConn(w, s, fd, client, f) : s \in FirstFree(w.pool), f \in Faults}
             B == {AcceptNoMem(w, s, fd) : s \in IF AllocMayFail THEN FirstFree(w.pool) ELSE {}}
  <2>1. AcceptInput(w, fd, client) = A \cup B
    BY <1>6 DEF AcceptInput
  <2>2. v \in A => Good(v)
    BY AcceptConnGood
  <2>3. v \in B => Good(v)
    BY <1>4
  <2> HIDE DEF A, B
  <2> QED BY <2>1, <2>2, <2>3
<1> QED BY <1>5, <1>6

(* The completion of a send, whole, partial or failed.                     *)
LEMMA SendDoneGood ==
  ASSUME NEW w, NEW s, Serving(w, s), NEW res \in Int
  PROVE  Good(SendDone(w, s, res))
<1> DEFINE v == [w EXCEPT !.pool.conns[s].send_active = FALSE]
           n == v.pool.conns[s].unsent - res
           u == [v EXCEPT !.pool.conns[s].unsent = n]
           c == u.pool.conns[s]
           a == [u EXCEPT !.pool.conns[s].send_active = TRUE]
           q == Queue(a, "SEND", c.id, c.fd)
           k == [u EXCEPT !.pool.conns[s].phase = "keepalive"]
<1>1. "SEND" \in Ops /\ "keepalive" \in Phases
  BY DEF Ops, Phases
<1>2. Serving(v, s)
  BY ServingField, Zenon
<1> HIDE DEF v
<1>3. n \in Int
  BY <1>2, ServingGood DEF Conn
<1> HIDE DEF n
<1>4. Serving(u, s)
  BY <1>2, <1>3, ServingField, Zenon
<1> HIDE DEF u
<1>5. c.id \in Ids /\ c.fd \in Int /\ c.unsent \in Int
  BY <1>4, ServingGood DEF Conn
<1> HIDE DEF c
<1>6. Serving(a, s) /\ Serving(k, s)
  BY <1>1, <1>4, ServingField, Zenon
<1> HIDE DEF a, k
<1>7. Serving(q, s)
  BY <1>1, <1>5, <1>6, QueueGood
<1> HIDE DEF q
<1>8. /\ Good(arm_close(v, s)) /\ Good(arm_close(u, s)) /\ Good(q)
      /\ Good(arm_recv(u, s)) /\ Good(arm_recv(k, s))
  BY <1>2, <1>4, <1>6, <1>7, ArmCloseGood, ArmRecvServing, ServingGood
<1> DEFINE whole == CASE c.state = "TLS_HANDSHAKE" -> arm_recv(u, s)
                      [] c.state = "HTTP_ACTIVE" /\ c.keep_alive -> arm_recv(k, s)
                      [] OTHER -> arm_close(u, s)
<1>9. SendDone(w, s, res) =
        CASE res < 0 -> arm_close(v, s)
          [] res >= 0 /\ c.unsent > 0 -> IF Room(u, 1) THEN q ELSE arm_close(u, s)
          [] res >= 0 /\ c.unsent <= 0 -> whole
  BY Zenon DEF SendDone, v, n, u, c, a, q, k
<1>10. Good(whole)
  BY <1>8
<1> HIDE DEF whole
<1> QED BY <1>5, <1>8, <1>9, <1>10

(* Both shutdown modes release every slot that is in use, and count each.  *)
LEMMA ReleaseAllGood ==
  ASSUME NEW w, Good(w)
  PROVE  Good(ReleaseAll(w)) /\ InUse(ReleaseAll(w).pool) = {}
<1> DEFINE C == [s \in Slots |-> IF s \in InUse(w.pool) THEN ClosedConn ELSE w.pool.conns[s]]
           n == w.pool.active_count - Cardinality(InUse(w.pool))
           open == {w.pool.conns[s].fd : s \in InUse(w.pool)}
           F == [f \in Fds |-> IF f \in open THEN 0 ELSE w.fds[f]]
           a == [w.pool EXCEPT !.conns = C]
           b == [a EXCEPT !.active_count = n]
           v == [w EXCEPT !.pool = b]
<1>1. w \in Machine /\ w.pool \in Pool /\ w.fds \in [Fds -> Nat]
      /\ Accounted(w.pool)
  BY DEF Good, PoolInv, Machine
<1>2. n = 0
  BY <1>1, InUseFinite DEF Accounted
<1>3. C \in [Slots -> Conn] /\ F \in [Fds -> Nat]
      /\ \A s \in Slots : C[s].state = "FREE"
  BY <1>1, ClosedConnType DEF Pool, InUse, ClosedConn
<1>4. ReleaseAll(w) = [v EXCEPT !.fds = F]
  <2>1. [w EXCEPT !.pool.conns = C].pool.active_count = w.pool.active_count
        /\ [w EXCEPT !.pool.conns = C, !.pool.active_count = n].fds = w.fds
    BY <1>1 DEF Machine, Pool
  <2>2. [w EXCEPT !.pool.conns = C, !.pool.active_count = n] = v
    BY <1>1 DEF Machine
  <2> QED BY <2>1, <2>2, Zenon DEF ReleaseAll
<1> HIDE DEF C, n, F
<1>5. a \in Pool /\ a.conns = C
  BY <1>1, <1>3 DEF Pool
<1> HIDE DEF a
<1>6. b \in Pool /\ b.conns = C /\ b.active_count = 0
  BY <1>2, <1>5 DEF Pool
<1> HIDE DEF b
<1>7. InUse(b) = {}
  BY <1>3, <1>6 DEF InUse
<1>8. PoolInv(b)
  BY <1>6, <1>7, FS_EmptySet DEF PoolInv, Accounted, DistinctIds
<1>9. Good(v) /\ v.pool = b
  BY <1>1, <1>8, WithPool
<1> HIDE DEF v
<1>10. [v EXCEPT !.fds = F] \in Machine /\ [v EXCEPT !.fds = F].pool = b
  BY <1>3, <1>9 DEF Good, Machine
<1> QED BY <1>4, <1>7, <1>8, <1>10 DEF Good

(* The cancellation of the accept.                                         *)
LEMMA CancelAcceptGood ==
  ASSUME NEW w, Good(w), NEW accepting
  PROVE  Good(CancelAccept(w, accepting))
<1>1. "CANCEL" \in Ops /\ 0 \in Ids /\ NoFd \in Int
  BY IdSpaceAssumption DEF Ops, Ids, NoFd
<1>2. Good(Queue(w, "CANCEL", 0, NoFd))
  BY <1>1, QueueGood
<1> QED BY <1>2 DEF CancelAccept

(* The drain changes states, and no slot becomes free or taken by it.      *)
LEMMA MarkDrainingGood ==
  ASSUME NEW w, Good(w)
  PROVE  Good(MarkDraining(w))
<1> DEFINE C == [s \in Slots |-> IF w.pool.conns[s].state = "HTTP_ACTIVE"
                                   THEN [w.pool.conns[s] EXCEPT !.state = "DRAINING", !.keep_alive = FALSE]
                                   ELSE w.pool.conns[s]]
           p == [w.pool EXCEPT !.conns = C]
<1>1. w \in Machine /\ w.pool \in Pool /\ PoolInv(w.pool)
  BY DEF Good, PoolInv
<1>2. MarkDraining(w) = [w EXCEPT !.pool = p]
  BY DEF MarkDraining
<1>3. ASSUME NEW s \in Slots
      PROVE  /\ C[s] \in Conn /\ C[s].id = w.pool.conns[s].id
             /\ C[s].state = "FREE" <=> w.pool.conns[s].state = "FREE"
  <2> DEFINE c == w.pool.conns[s]
  <2>1. c \in Conn
    BY <1>1 DEF Pool
  <2>2. C[s] = IF c.state = "HTTP_ACTIVE"
                 THEN [c EXCEPT !.state = "DRAINING", !.keep_alive = FALSE] ELSE c
    OBVIOUS
  <2> HIDE DEF C, c
  <2> DEFINE d == [c EXCEPT !.state = "DRAINING"]
             e == [d EXCEPT !.keep_alive = FALSE]
  <2>3. d \in Conn /\ d.id = c.id /\ d.state = "DRAINING"
    BY <2>1 DEF Conn, States
  <2> HIDE DEF d
  <2>4. e \in Conn /\ e.id = c.id /\ e.state = "DRAINING"
    BY <2>3 DEF Conn
  <2>5. C[s] = IF c.state = "HTTP_ACTIVE" THEN e ELSE c
    BY <2>2, Zenon DEF d, e
  <2> HIDE DEF e
  <2>6. /\ C[s] \in Conn /\ C[s].id = c.id
        /\ C[s].state = "FREE" <=> c.state = "FREE"
    BY <2>1, <2>4, <2>5
  <2> QED BY <2>6 DEF c
<1>4. C \in [Slots -> Conn]
  BY <1>3
<1> HIDE DEF C
<1>5. /\ p \in Pool /\ p.conns = C /\ p.active_count = w.pool.active_count
      /\ p.next_id = w.pool.next_id /\ p.wrapped = w.pool.wrapped
  BY <1>1, <1>4 DEF Pool
<1> HIDE DEF p
<1>6. InUse(p) = InUse(w.pool)
  BY <1>3, <1>5 DEF InUse
<1>7. PoolInv(p)
  BY <1>1, <1>3, <1>5, <1>6 DEF PoolInv, Accounted, DistinctIds, InUse
<1> QED BY <1>1, <1>2, <1>7, WithPool, Zenon
=============================================================================
