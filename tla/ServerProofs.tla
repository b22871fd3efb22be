---------------------------- MODULE ServerProofs ----------------------------
(***************************************************************************)
(* The server keeps its types and the invariant of its connection pool in  *)
(* every behaviour, whatever the constants: any number of clients, slots   *)
(* and descriptors, any depth of the submission queue, any order of        *)
(* completions, late timeouts and an accept that ends included.            *)
(***************************************************************************)
EXTENDS Server, HandlersProofs

(* What a bag of requests may contain after requests are added or taken.   *)
LEMMA BagDomains ==
  ASSUME NEW S, NEW A, NEW B, BagToSet(A) \subseteq S
  PROVE  /\ BagToSet(A (-) B) \subseteq S
         /\ BagToSet(B) \subseteq S => BagToSet(A (+) B) \subseteq S
BY DEF BagToSet, (+), (-)

(* A bag made of a set has that set as its elements.                       *)
LEMMA SetToBagDomain ==
  ASSUME NEW S
  PROVE  BagToSet(SetToBag(S)) = S
BY DEF BagToSet, SetToBag

(* The inductive invariant: the types, and that of the connection pool. By *)
(* themselves the types do not bound the identifiers in use by next_id.    *)
ServerInv == TypeOK /\ PoolInv(m.pool)

(* The first slot in use with an identifier can be worked on.              *)
LEMMA FoundServing ==
  ASSUME Good(m), NEW id, NEW s \in find_conn_by_id(m, id)
  PROVE  Serving(m, s)
BY DEF Good, Serving, Holding, find_conn_by_id

(* A state of the queue from which requests may be queued for the server.  *)
LEMMA QueueOwn ==
  ASSUME NEW w, Good(w), NEW op \in Ops
  PROVE  Good(Queue(w, op, 0, NoFd))
<1>1. 0 \in Ids /\ NoFd \in Int
  BY IdSpaceAssumption DEF Ids, NoFd
<1> QED BY <1>1, QueueGood

(* The server that ioh_server_listen leaves.                               *)
LEMMA ServerInit == Init => ServerInv
<1> SUFFICES ASSUME Init PROVE ServerInv
  OBVIOUS
<1> DEFINE sq == <<[op |-> "ACCEPT", id |-> 0, fd |-> NoFd]>>
                 \o IF Quit /\ SQDepth > 1
                      THEN <<[op |-> "SIGNAL", id |-> 0, fd |-> NoFd]>> ELSE <<>>
           fds == [f \in Fds |-> 0]
<1>1. sq \in Seq(Sqe)
  <2>1. [op |-> "ACCEPT", id |-> 0, fd |-> NoFd] \in Sqe
        /\ [op |-> "SIGNAL", id |-> 0, fd |-> NoFd] \in Sqe
    BY IdSpaceAssumption DEF Sqe, Ops, Ids, NoFd
  <2> QED BY <2>1
<1>2. fds \in [Fds -> Nat]
  OBVIOUS
<1>3. m = [pool |-> EmptyPool, sq |-> sq, fds |-> fds, crashed |-> FALSE]
  BY DEF Init
<1> HIDE DEF sq, fds
<1>4. PoolInv(EmptyPool) /\ EmptyPool \in Pool
  BY EmptyPoolInv DEF PoolInv
<1>5. m \in Machine /\ m.pool = EmptyPool
  BY <1>1, <1>2, <1>3, <1>4 DEF Machine
<1>6. BagToSet(inflight) = {}
  BY DEF Init, EmptyBag, BagToSet, SetToBag
<1>7. cq \in Seq(Cqe) /\ polls \in Int
  BY DEF Init, NotDraining
<1> QED BY <1>4, <1>5, <1>6, <1>7 DEF Init, ServerInv, TypeOK, Modes

(* The completion at the head of the queue, and what its handling leaves.  *)
LEMMA HandlingTypes ==
  ASSUME ServerInv, NEW op, Handling(op)
  PROVE  /\ Head(cq) \in Cqe /\ cq' \in Seq(Cqe)
         /\ Good(m)
         /\ UNCHANGED <<mode, polls, inflight, fresh, arrived, data>>
BY DEF ServerInv, TypeOK, Handling, kernel, Good

(* What is left to show of a handler that has led to a good machine.       *)
LEMMA HandlerDone ==
  ASSUME ServerInv, NEW op, Handling(op), Good(m'),
         listening' \in BOOLEAN, accepting' \in BOOLEAN, stopped' \in BOOLEAN
  PROVE  ServerInv'
BY HandlingTypes DEF ServerInv, TypeOK, Good

(* The accept handler of run_once keeps the invariant.                     *)
LEMMA OnAcceptInv == ServerInv /\ OnAccept => ServerInv'
<1> SUFFICES ASSUME ServerInv, OnAccept PROVE ServerInv'
  OBVIOUS
<1>1. Handling("ACCEPT") /\ UNCHANGED <<listening, stopped>>
  BY DEF OnAccept
<1>2. Head(cq) \in Cqe /\ Good(m)
  BY <1>1, HandlingTypes
<1>3. PICK w \in IF Head(cq).res >= 0 THEN AcceptInput(m, Head(cq).res, Head(cq).peer) ELSE {m} :
        IF Head(cq).more THEN m' = w /\ UNCHANGED accepting
        ELSE /\ accepting' = (listening /\ ~stopped /\ Room(w, 1))
             /\ m' = IF listening /\ ~stopped /\ Room(w, 1) THEN Queue(w, "ACCEPT", 0, NoFd) ELSE w
  BY DEF OnAccept
<1>4. Good(w)
  BY <1>2, <1>3, AcceptInputGood DEF Cqe
<1>5. Good(Queue(w, "ACCEPT", 0, NoFd))
  BY <1>4, QueueOwn DEF Ops
<1>6. Good(m')
  BY <1>3, <1>4, <1>5
<1>7. accepting' \in BOOLEAN
  BY <1>3 DEF ServerInv, TypeOK
<1> QED BY <1>1, <1>6, <1>7, HandlerDone DEF ServerInv, TypeOK

(* The receive handler of run_once.                                        *)
LEMMA OnRecvInv == ServerInv /\ OnRecv => ServerInv'
<1> SUFFICES ASSUME ServerInv, OnRecv PROVE ServerInv'
  OBVIOUS
<1>1. Handling("RECV") /\ UNCHANGED <<listening, accepting, stopped>>
  BY DEF OnRecv
<1>2. Good(m)
  BY <1>1, HandlingTypes
<1>3. \/ m' = m
      \/ \E s \in find_conn_by_id(m, Head(cq).id) :
           m' = arm_close(m, s) \/ m' \in RecvInput(m, s)
  BY DEF OnRecv
<1>4. Good(m')
  BY <1>2, <1>3, FoundServing, ArmCloseGood, RecvInputGood
<1> QED BY <1>1, <1>4, HandlerDone DEF ServerInv, TypeOK

(* The send handler of run_once.                                           *)
LEMMA OnSendInv == ServerInv /\ OnSend => ServerInv'
<1> SUFFICES ASSUME ServerInv, OnSend PROVE ServerInv'
  OBVIOUS
<1>1. Handling("SEND") /\ UNCHANGED <<listening, accepting, stopped>>
  BY DEF OnSend
<1>2. Good(m) /\ Head(cq).res \in Int
  BY <1>1, HandlingTypes DEF Cqe
<1>3. m' = m \/ \E s \in find_conn_by_id(m, Head(cq).id) : m' = SendDone(m, s, Head(cq).res)
  BY DEF OnSend
<1>4. Good(m')
  BY <1>2, <1>3, FoundServing, SendDoneGood
<1> QED BY <1>1, <1>4, HandlerDone DEF ServerInv, TypeOK

(* The close handler: it releases a slot that is in use, once.             *)
LEMMA OnCloseInv == ServerInv /\ OnClose => ServerInv'
<1> SUFFICES ASSUME ServerInv, OnClose PROVE ServerInv'
  OBVIOUS
<1>1. Handling("CLOSE") /\ UNCHANGED <<listening, accepting, stopped>>
  BY DEF OnClose
<1>2. Good(m)
  BY <1>1, HandlingTypes
<1>3. m' = m \/ \E s \in find_conn_by_id(m, Head(cq).id) : m' = [m EXCEPT !.pool = ConnFree(m.pool, s)]
  BY DEF OnClose
<1>4. ASSUME NEW s \in find_conn_by_id(m, Head(cq).id)
      PROVE  Good([m EXCEPT !.pool = ConnFree(m.pool, s)])
  <2>1. m \in Machine /\ PoolInv(m.pool) /\ s \in InUse(m.pool)
    BY <1>2, FoundServing DEF Serving, Holding
  <2>2. PoolInv(ConnFree(m.pool, s))
    BY <2>1, ConnFreeInv
  <2> QED BY <2>1, <2>2, WithPool
<1>5. Good(m')
  BY <1>2, <1>3, <1>4, Zenon
<1> QED BY <1>1, <1>5, HandlerDone DEF ServerInv, TypeOK

(* The timeout handler: it may close a connection that is closing already. *)
LEMMA OnTimeoutInv == ServerInv /\ OnTimeout => ServerInv'
<1> SUFFICES ASSUME ServerInv, OnTimeout PROVE ServerInv'
  OBVIOUS
<1>1. Handling("TIMEOUT") /\ UNCHANGED <<listening, accepting, stopped>>
  BY DEF OnTimeout
<1>2. Good(m)
  BY <1>1, HandlingTypes
<1>3. m' = m \/ \E s \in find_conn_by_id(m, Head(cq).id) : m' = arm_close(m, s)
  BY DEF OnTimeout
<1>4. Good(m')
  BY <1>2, <1>3, FoundServing, ArmCloseGood
<1> QED BY <1>1, <1>4, HandlerDone DEF ServerInv, TypeOK

(* The signal handler: SIGQUIT releases every slot in the middle of a      *)
(* batch.                                                                  *)
LEMMA OnSignalInv == ServerInv /\ OnSignal => ServerInv'
<1> SUFFICES ASSUME ServerInv, OnSignal PROVE ServerInv'
  OBVIOUS
<1>1. Handling("SIGNAL")
  BY DEF OnSignal
<1>2. Good(m)
  BY <1>1, HandlingTypes
<1>3. Good(ReleaseAll(CancelAccept(m, accepting)))
  BY <1>2, CancelAcceptGood, ReleaseAllGood
<1>4. Good(Queue(m, "SIGNAL", 0, NoFd))
  BY <1>2, QueueOwn DEF Ops
<1>5. /\ Good(m')
      /\ listening' \in BOOLEAN /\ accepting' \in BOOLEAN /\ stopped' \in BOOLEAN
  BY <1>2, <1>3, <1>4 DEF OnSignal, ServerInv, TypeOK
<1> QED BY <1>1, <1>5, HandlerDone

(* A completion that is only counted.                                      *)
LEMMA OnCancelInv == ServerInv /\ OnCancel => ServerInv'
<1> SUFFICES ASSUME ServerInv, OnCancel PROVE ServerInv'
  OBVIOUS
<1>1. Handling("CANCEL") /\ UNCHANGED <<m, listening, accepting, stopped>>
  BY DEF OnCancel
<1>2. Good(m')
  BY <1>1, HandlingTypes
<1> QED BY <1>1, <1>2, HandlerDone DEF ServerInv, TypeOK

(* The turns of the loop, the drain and the calls of the application.      *)
LEMMA TurnInv ==
  ServerInv /\ (RunOnce \/ WaitTimesOut \/ Reap \/ BatchDone \/ DrainTurn \/ AppStop) => ServerInv'
<1> SUFFICES ASSUME ServerInv, RunOnce \/ WaitTimesOut \/ Reap \/ BatchDone \/ DrainTurn \/ AppStop
             PROVE  ServerInv'
  OBVIOUS
<1>1. stopped \in BOOLEAN /\ mode \in Modes /\ polls \in Int
  BY DEF ServerInv, TypeOK
<1>2. UNCHANGED <<m, listening, accepting, cq, inflight, fresh, arrived, data>>
  BY DEF RunOnce, WaitTimesOut, Reap, BatchDone, DrainTurn, AppStop, kernel
<1>3. stopped' = stopped \/ stopped' = TRUE \/ stopped' = FALSE
  BY Zenon DEF RunOnce, WaitTimesOut, Reap, BatchDone, DrainTurn, AppStop, TurnEnds
<1>4. mode' = mode \/ mode' \in {"idle", "submit", "loop"}
  BY DEF RunOnce, WaitTimesOut, Reap, BatchDone, DrainTurn, AppStop, TurnEnds
<1>5. polls' = polls \/ polls' = polls + 1
  BY DEF RunOnce, WaitTimesOut, Reap, BatchDone, DrainTurn, AppStop, TurnEnds
<1>6. stopped' \in BOOLEAN
  BY <1>1, <1>3, Zenon
<1>7. mode' \in Modes /\ polls' \in Int
  BY <1>1, <1>4, <1>5 DEF Modes
<1> QED BY <1>2, <1>6, <1>7 DEF ServerInv, TypeOK

(* Both modes of ioh_server_shutdown.                                      *)
LEMMA ShutdownInv ==
  ServerInv /\ (ShutdownImmediate \/ ShutdownDrain \/ DrainEnds) => ServerInv'
<1> SUFFICES ASSUME ServerInv, ShutdownImmediate \/ ShutdownDrain \/ DrainEnds
             PROVE  ServerInv'
  OBVIOUS
<1>1. Good(m)
  BY DEF ServerInv, TypeOK, Good
<1>2. Good(CancelAccept(m, accepting))
  BY <1>1, CancelAcceptGood
<1>3. /\ Good(ReleaseAll(m)) /\ Good(ReleaseAll(CancelAccept(m, accepting)))
      /\ Good(MarkDraining(CancelAccept(m, accepting)))
  BY <1>1, <1>2, ReleaseAllGood, MarkDrainingGood
<1>4. Good(m')
  BY <1>3 DEF ShutdownImmediate, ShutdownDrain, DrainEnds
<1>5. UNCHANGED <<mode, cq, inflight, fresh, arrived, data>>
  BY DEF ShutdownImmediate, ShutdownDrain, DrainEnds, kernel
<1>6. /\ listening' = listening \/ listening' = FALSE
      /\ accepting' = accepting \/ accepting' = FALSE
      /\ stopped' = stopped \/ stopped' = TRUE
  BY Zenon DEF ShutdownImmediate, ShutdownDrain, DrainEnds
<1>7. polls' = polls \/ polls' = 0 \/ polls' = NotDraining
  BY DEF ShutdownImmediate, ShutdownDrain, DrainEnds
<1>8. listening' \in BOOLEAN /\ accepting' \in BOOLEAN /\ stopped' \in BOOLEAN
  BY <1>6, Zenon DEF ServerInv, TypeOK
<1>9. polls' \in Int
  BY <1>7 DEF ServerInv, TypeOK, NotDraining
<1> QED BY <1>4, <1>5, <1>8, <1>9 DEF ServerInv, TypeOK, Good

(* What the kernel posts is a completion.                                  *)
LEMMA PostedType ==
  /\ \A op \in Ops, id \in Ids, res \in Int : Posted(op, id, res) \in Cqe
  /\ \A fd \in Int, more \in BOOLEAN, client \in Nat : Accepted(fd, more, client) \in Cqe
BY IdSpaceAssumption DEF Posted, Accepted, Cqe, Ops, Ids

(* The results of completions are integers.                                *)
LEMMA ResultTypes ==
  /\ ECONNRESET \in Int /\ ECANCELED \in Int /\ ETIME \in Int /\ EAGAIN \in Int
  /\ EMFILE \in Int /\ EBADF \in Int /\ 0 \in Ids
BY IdSpaceAssumption DEF ECONNRESET, ECANCELED, ETIME, EAGAIN, EMFILE, EBADF, Ids

(* Taking an entry off the submission queue.                               *)
LEMMA PopGood ==
  ASSUME Good(m), m.sq # <<>>
  PROVE  /\ Head(m.sq) \in Sqe
         /\ Good([m EXCEPT !.sq = Tail(m.sq)])
<1>1. m \in Machine /\ m.sq \in Seq(Sqe) /\ PoolInv(m.pool)
  BY DEF Good, Machine
<1>2. Head(m.sq) \in Sqe /\ Tail(m.sq) \in Seq(Sqe)
  BY <1>1
<1> DEFINE t == Tail(m.sq)
<1> HIDE DEF t
<1>3. t \in Seq(Sqe)
  BY <1>2 DEF t
<1>4. [m EXCEPT !.sq = t] \in Machine /\ [m EXCEPT !.sq = t].pool = m.pool
  BY <1>1, <1>3 DEF Machine
<1>5. Good([m EXCEPT !.sq = t])
  BY <1>1, <1>4 DEF Good
<1> QED BY <1>2, <1>5 DEF t

(* io_uring_submit takes one entry.                                        *)
LEMMA IssueInv == ServerInv /\ Issue => ServerInv'
<1> SUFFICES ASSUME ServerInv, Issue PROVE ServerInv'
  OBVIOUS
<1> DEFINE e == Head(m.sq)
           w == [m EXCEPT !.sq = Tail(m.sq)]
           r == Held(e.op, e.id, IF e.fd \in Fds THEN m.fds[e.fd] ELSE 0)
<1>1. Good(m) /\ m.sq # <<>> /\ m.fds \in [Fds -> Nat] /\ cq \in Seq(Cqe)
      /\ BagToSet(inflight) \subseteq Request
  BY DEF ServerInv, TypeOK, Issue, Good, Machine
<1>2. e \in Sqe /\ Good(w)
  BY <1>1, PopGood
<1>3. UNCHANGED <<listening, accepting, stopped, mode, polls, arrived, data>>
  BY DEF Issue, control
<1>4. e.op \in Ops /\ e.id \in Ids
  BY <1>2 DEF Sqe
<1>5. r \in Request
  BY <1>1, <1>4 DEF Held, Request
<1>6. /\ Posted("CLOSE", e.id, 0) \in Cqe
      /\ Posted("TIMEOUT", e.id, ECANCELED) \in Cqe
      /\ Posted("ACCEPT", 0, ECANCELED) \in Cqe
      /\ Posted("ACCEPT", 0, EBADF) \in Cqe
      /\ Posted("CANCEL", 0, 0) \in Cqe
  BY <1>4, PostedType, ResultTypes DEF Ops
<1>7. Good(CloseFd(w, e.fd))
  BY <1>2, CloseFdGood DEF Good
<1>8. /\ BagToSet(inflight (-) SetToBag(AcceptHeld)) \subseteq Request
      /\ BagToSet(inflight (+) SetToBag({r})) \subseteq Request
  <2>1. BagToSet(inflight (-) SetToBag(AcceptHeld)) \subseteq Request
    BY <1>1, BagDomains
  <2>2. BagToSet(SetToBag({r})) \subseteq Request
    <3> HIDE DEF r
    <3> QED BY <1>5, SetToBagDomain
  <2> HIDE DEF r
  <2>3. BagToSet(inflight (+) SetToBag({r})) \subseteq Request
    BY <1>1, <2>2, BagDomains
  <2> QED BY <2>1, <2>3
<1>9. \/ /\ m' = CloseFd(w, e.fd)
         /\ cq' = Append(cq, Posted("CLOSE", e.id, 0))
         /\ fresh' = {} /\ UNCHANGED inflight
      \/ /\ m' = w
         /\ inflight' = inflight (-) SetToBag(AcceptHeld)
         /\ cq' = (IF AcceptHeld = {} THEN cq ELSE Append(cq, Posted("ACCEPT", 0, ECANCELED)))
                  \o <<Posted("CANCEL", 0, 0)>>
         /\ fresh' = {}
      \/ /\ m' = w
         /\ cq' = Append(cq, Posted("ACCEPT", 0, EBADF))
         /\ fresh' = {} /\ UNCHANGED inflight
      \/ /\ m' = w
         /\ cq' = Append(cq, Posted("TIMEOUT", e.id, ECANCELED))
         /\ fresh' = {} /\ UNCHANGED inflight
      \/ /\ m' = w
         /\ inflight' = inflight (+) SetToBag({r})
         /\ fresh' \subseteq {r} /\ UNCHANGED cq
  BY DEF Issue, Remove
<1> HIDE DEF e, w, r
<1>10. Good(m')
  BY <1>2, <1>7, <1>9
<1>11. cq' \in Seq(Cqe)
  <2>1. Append(cq, Posted("ACCEPT", 0, ECANCELED)) \in Seq(Cqe) /\ <<Posted("CANCEL", 0, 0)>> \in Seq(Cqe)
    BY <1>1, <1>6
  <2>2. (IF AcceptHeld = {} THEN cq ELSE Append(cq, Posted("ACCEPT", 0, ECANCELED)))
        \o <<Posted("CANCEL", 0, 0)>> \in Seq(Cqe)
    BY <1>1, <2>1
  <2>3. \A x \in Cqe : Append(cq, x) \in Seq(Cqe)
    BY <1>1
  <2> QED BY <1>1, <1>6, <1>9, <2>2, <2>3, Zenon
<1>12. BagToSet(inflight') \subseteq Request /\ fresh' \subseteq Request
  BY <1>1, <1>5, <1>8, <1>9
<1> QED BY <1>3, <1>10, <1>11, <1>12 DEF ServerInv, TypeOK, Good

(* io_uring_submit has taken the whole queue.                              *)
LEMMA SubmittedInv == ServerInv /\ Submitted => ServerInv'
<1> SUFFICES ASSUME ServerInv, Submitted PROVE ServerInv'
  OBVIOUS
<1>1. /\ UNCHANGED <<m, listening, accepting, stopped, polls, cq, inflight, arrived, data>>
      /\ mode' \in Modes /\ fresh' \subseteq Request
  BY DEF Submitted, Modes
<1> QED BY <1>1 DEF ServerInv, TypeOK

(* A client arrives, or finds no descriptor left.                          *)
LEMMA KernelAcceptInv == ServerInv /\ KernelAccept => ServerInv'
<1> SUFFICES ASSUME ServerInv, KernelAccept PROVE ServerInv'
  OBVIOUS
<1>1. /\ m \in Machine /\ PoolInv(m.pool) /\ cq \in Seq(Cqe) /\ arrived \in Nat
      /\ BagToSet(inflight) \subseteq Request /\ fresh \subseteq Request
  BY DEF ServerInv, TypeOK
<1>2. UNCHANGED <<listening, accepting, stopped, mode, polls, data>>
  BY DEF KernelAccept, control
<1>3. PICK e \in AcceptHeld, more \in BOOLEAN :
        /\ IF more THEN UNCHANGED <<inflight, fresh>> ELSE Remove({e}) /\ fresh' = {}
        /\ \/ \E fd \in LowestFd :
                /\ arrived' = arrived + 1
                /\ m' = [m EXCEPT !.fds[fd] = arrived + 1]
                /\ cq' = Append(cq, Accepted(fd, more, arrived + 1))
           \/ /\ cq' = Append(cq, Posted("ACCEPT", 0, EMFILE))
              /\ UNCHANGED <<m, arrived>>
  BY DEF KernelAccept
<1>4. BagToSet(inflight') \subseteq Request /\ fresh' \subseteq Request
  <2>1. BagToSet(inflight (-) SetToBag({e})) \subseteq Request
    BY <1>1, BagDomains
  <2> QED BY <1>1, <1>3, <2>1 DEF Remove
<1>5. CASE cq' = Append(cq, Posted("ACCEPT", 0, EMFILE)) /\ UNCHANGED <<m, arrived>>
  <2>1. Posted("ACCEPT", 0, EMFILE) \in Cqe
    BY PostedType, ResultTypes DEF Ops
  <2>2. cq' \in Seq(Cqe)
    BY <1>1, <1>5, <2>1
  <2> QED BY <1>1, <1>2, <1>4, <1>5, <2>2 DEF ServerInv, TypeOK
<1>6. ASSUME NEW fd \in LowestFd, arrived' = arrived + 1,
             m' = [m EXCEPT !.fds[fd] = arrived + 1],
             cq' = Append(cq, Accepted(fd, more, arrived + 1))
      PROVE  ServerInv'
  <2>1. fd \in Fds /\ fd \in Int /\ arrived + 1 \in Nat
    BY <1>1, HandlersAssumption DEF LowestFd, Fds
  <2>2. Accepted(fd, more, arrived + 1) \in Cqe
    BY <2>1, PostedType
  <2>3. cq' \in Seq(Cqe)
    BY <1>1, <1>6, <2>2
  <2>4. m' \in Machine /\ m'.pool = m.pool
    BY <1>1, <1>6, <2>1 DEF Machine
  <2> QED BY <1>1, <1>2, <1>4, <1>6, <2>1, <2>3, <2>4 DEF ServerInv, TypeOK
<1> QED BY <1>3, <1>5, <1>6

(* What is left to show of a kernel step that posts completions and keeps  *)
(* the machine.                                                            *)
LEMMA KernelDone ==
  ASSUME ServerInv, UNCHANGED <<m, control, arrived>>, data' \in Nat,
         cq' \in Seq(Cqe), BagToSet(inflight') \subseteq Request, fresh' \subseteq Request
  PROVE  ServerInv'
BY DEF ServerInv, TypeOK, control

(* The bag after some requests have been replaced by others.               *)
LEMMA BagReplace ==
  ASSUME ServerInv, NEW A, NEW B, B \subseteq Request
  PROVE  /\ BagToSet(inflight (-) SetToBag(A)) \subseteq Request
         /\ BagToSet((inflight (-) SetToBag(A)) (+) SetToBag(B)) \subseteq Request
<1>1. BagToSet(inflight) \subseteq Request
  BY DEF ServerInv, TypeOK
<1>2. BagToSet(inflight (-) SetToBag(A)) \subseteq Request
  BY <1>1, BagDomains
<1>3. BagToSet(SetToBag(B)) \subseteq Request
  BY SetToBagDomain
<1> QED BY <1>2, <1>3, BagDomains

(* The loser of a receive and its timeout is a request, too.               *)
LEMMA DeadType ==
  ASSUME NEW e \in Request
  PROVE  [e EXCEPT !.dead = TRUE] \in Request
BY DEF Request

(* A receive completes, with its timeout or without.                       *)
LEMMA KernelRecvInv ==
  ASSUME ServerInv, NEW e \in BagToSet(inflight), NEW res \in {1, 0, ECONNRESET}, NEW late \in BOOLEAN,
         KernelRecv(e, res, late)
  PROVE  ServerInv'
<1> DEFINE D == {[t EXCEPT !.dead = TRUE] : t \in IF late THEN TimeoutOf(e) ELSE {}}
<1>1. /\ BagToSet(inflight) \subseteq Request /\ cq \in Seq(Cqe) /\ data \in Nat
      /\ e \in Request /\ e.id \in Ids /\ res \in Int
  BY ResultTypes DEF ServerInv, TypeOK, Request
<1>2. TimeoutOf(e) \subseteq Request
  BY <1>1 DEF TimeoutOf
<1>3. D \subseteq Request
  BY <1>2, DeadType
<1>4. inflight' = (inflight (-) SetToBag({e} \cup TimeoutOf(e))) (+) SetToBag(D)
  BY DEF KernelRecv
<1> HIDE DEF D
<1>5. BagToSet(inflight') \subseteq Request
  BY <1>3, <1>4, BagReplace
<1>6. Posted("RECV", e.id, res) \in Cqe /\ Posted("TIMEOUT", e.id, ECANCELED) \in Cqe
  BY <1>1, PostedType, ResultTypes DEF Ops
<1>7. cq' \in Seq(Cqe)
  <2>1. cq' = Append(cq, Posted("RECV", e.id, res))
              \o IF TimeoutOf(e) = {} \/ late THEN <<>> ELSE <<Posted("TIMEOUT", e.id, ECANCELED)>>
    BY DEF KernelRecv
  <2>2. Append(cq, Posted("RECV", e.id, res)) \in Seq(Cqe)
    BY <1>1, <1>6
  <2>3. (IF TimeoutOf(e) = {} \/ late THEN <<>> ELSE <<Posted("TIMEOUT", e.id, ECANCELED)>>) \in Seq(Cqe)
    BY <1>6
  <2> QED BY <2>1, <2>2, <2>3
<1>8. data' \in Nat
  BY <1>1 DEF KernelRecv
<1>9. UNCHANGED <<m, control, arrived>> /\ fresh' = {}
  BY DEF KernelRecv
<1> QED BY <1>5, <1>7, <1>8, <1>9, KernelDone

(* A linked timeout fires, its completion before or after the one of the   *)
(* receive.                                                                *)
LEMMA KernelTimeoutInv ==
  ASSUME ServerInv, NEW t \in BagToSet(inflight), KernelTimeout(t)
  PROVE  ServerInv'
<1>1. /\ BagToSet(inflight) \subseteq Request /\ fresh \subseteq Request /\ cq \in Seq(Cqe)
      /\ data \in Nat /\ t \in Request /\ t.id \in Ids
  BY DEF ServerInv, TypeOK, Request
<1>2. UNCHANGED <<m, control, arrived>> /\ data' \in Nat /\ fresh' \subseteq Request
  BY <1>1 DEF KernelTimeout
<1>3. PICK e \in RecvOf(t) :
        \/ /\ inflight' = (inflight (-) SetToBag({e, t})) (+) SetToBag({[e EXCEPT !.dead = TRUE]})
           /\ cq' = Append(cq, Posted("TIMEOUT", t.id, ETIME))
        \/ /\ inflight' = (inflight (-) SetToBag({e, t})) (+) SetToBag({[t EXCEPT !.dead = TRUE]})
           /\ cq' = Append(cq, Posted("RECV", e.id, ECANCELED))
  BY DEF KernelTimeout
<1>4. e \in Request /\ e.id \in Ids
  BY <1>1 DEF RecvOf, Request
<1>5. {[e EXCEPT !.dead = TRUE]} \subseteq Request /\ {[t EXCEPT !.dead = TRUE]} \subseteq Request
  BY <1>1, <1>4, DeadType
<1>6. /\ BagToSet((inflight (-) SetToBag({e, t})) (+) SetToBag({[e EXCEPT !.dead = TRUE]})) \subseteq Request
      /\ BagToSet((inflight (-) SetToBag({e, t})) (+) SetToBag({[t EXCEPT !.dead = TRUE]})) \subseteq Request
  BY <1>5, BagReplace, Zenon
<1>7. BagToSet(inflight') \subseteq Request
  BY <1>3, <1>6, Zenon
<1>8. Posted("TIMEOUT", t.id, ETIME) \in Cqe /\ Posted("RECV", e.id, ECANCELED) \in Cqe
  BY <1>1, <1>4, PostedType, ResultTypes DEF Ops
<1>9. cq' \in Seq(Cqe)
  <2>1. cq' = Append(cq, Posted("TIMEOUT", t.id, ETIME)) \/ cq' = Append(cq, Posted("RECV", e.id, ECANCELED))
    BY <1>3, Zenon
  <2> QED BY <1>1, <1>8, <2>1
<1> QED BY <1>2, <1>7, <1>9, KernelDone

(* A completion of one request that leaves the kernel.                     *)
LEMMA OneCompletion ==
  ASSUME ServerInv, NEW e \in BagToSet(inflight), NEW op \in Ops, NEW id \in Ids, NEW res \in Int,
         Remove({e}), cq' = Append(cq, Posted(op, id, res)), UNCHANGED <<m, control, arrived, data>>,
         fresh' \subseteq fresh
  PROVE  ServerInv'
<1>1. cq \in Seq(Cqe) /\ data \in Nat /\ fresh \subseteq Request
  BY DEF ServerInv, TypeOK
<1>2. Posted(op, id, res) \in Cqe
  BY PostedType
<1>3. cq' \in Seq(Cqe)
  BY <1>1, <1>2
<1>4. BagToSet(inflight') \subseteq Request
  BY BagReplace DEF Remove
<1> QED BY <1>1, <1>3, <1>4, KernelDone

(* The later completion of such a pair.                                    *)
LEMMA KernelLoserInv ==
  ASSUME ServerInv, NEW e \in BagToSet(inflight), KernelLoser(e)
  PROVE  ServerInv'
<1>1. e.op \in Ops /\ e.id \in Ids
  BY DEF ServerInv, TypeOK, Request
<1>2. (IF e.op = "RECV" THEN ECANCELED ELSE ETIME) \in Int
  BY ResultTypes
<1> QED BY <1>1, <1>2, OneCompletion DEF KernelLoser

(* A send takes some pieces of a response, or fails.                       *)
LEMMA KernelSendInv ==
  ASSUME ServerInv, NEW e \in BagToSet(inflight), NEW res \in (1..MaxPieces) \cup {ECONNRESET},
         KernelSend(e, res)
  PROVE  ServerInv'
<1>1. "SEND" \in Ops /\ e.id \in Ids
  BY DEF ServerInv, TypeOK, Request, Ops
<1>2. res \in Int
  BY ResultTypes, HandlersAssumption
<1> QED BY <1>1, <1>2, OneCompletion DEF KernelSend

(* The read of the signal descriptor completes.                            *)
LEMMA KernelSignalInv ==
  ASSUME ServerInv, NEW e \in BagToSet(inflight), NEW res \in {1, EAGAIN}, KernelSignal(e, res)
  PROVE  ServerInv'
<1>1. "SIGNAL" \in Ops /\ 0 \in Ids /\ res \in Int
  BY ResultTypes DEF Ops
<1> QED BY <1>1, OneCompletion DEF KernelSignal

(* Every step of the server, of the application and of the kernel.         *)
LEMMA ServerStep == ServerInv /\ [Next]_vars => ServerInv'
<1> SUFFICES ASSUME ServerInv, [Next]_vars PROVE ServerInv'
  OBVIOUS
<1>1. CASE Loop
  BY <1>1, TurnInv, ShutdownInv, OnAcceptInv, OnRecvInv, OnSendInv, OnCloseInv, OnTimeoutInv,
     OnSignalInv, OnCancelInv DEF Loop
<1>2. CASE Application
  BY <1>2, TurnInv, ShutdownInv DEF Application
<1>3. CASE Kernel
  BY <1>3, IssueInv, SubmittedInv, KernelAcceptInv, KernelRecvInv, KernelTimeoutInv, KernelLoserInv,
     KernelSendInv, KernelSignalInv DEF Kernel
<1>4. CASE UNCHANGED vars
  BY <1>4 DEF vars, control, kernel, ServerInv, TypeOK
<1> QED BY <1>1, <1>2, <1>3, <1>4 DEF Next

(* In every behaviour of the server its invariant holds.                   *)
THEOREM ServerSafe == Spec => []ServerInv
BY ServerInit, ServerStep, PTL DEF Spec

(* Variables keep their types: identifiers their width, descriptors their  *)
(* range, completions and requests their shape.                            *)
THEOREM ServerTypeCorrect == Spec => []TypeOK
<1>1. ServerInv => TypeOK
  BY DEF ServerInv
<1> QED BY <1>1, ServerSafe, PTL

(* The pool under the server: active_count, which the drain waits on, is   *)
(* the number of connections, no handler releases a slot twice or forgets  *)
(* one, and until next_id wraps a completion finds its own connection.     *)
THEOREM ServerPoolConsistent == Spec => []PoolConsistent
<1>1. ServerInv => PoolConsistent
  BY DEF ServerInv, PoolInv, PoolConsistent
<1> QED BY <1>1, ServerSafe, PTL
=============================================================================
