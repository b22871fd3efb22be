------------------------------- MODULE Server -------------------------------
(***************************************************************************)
(* The HTTP/1.1 server of iohttp (core/ioh_server.c) over io_uring: the    *)
(* turns of the event loop, the accept, receive, send, close, timeout and  *)
(* signal completions, both shutdown modes, and the kernel side of the     *)
(* ring.                                                                   *)
(*                                                                         *)
(* SIGTERM, which re-enters the loop from inside the loop, has a module of *)
(* its own (SignalDrain). Here SIGQUIT comes as a completion, and a drain  *)
(* is a call of ioh_server_shutdown made between two turns of the loop.    *)
(***************************************************************************)
EXTENDS Handlers, Bags

CONSTANTS
  Peers,        \* how many clients connect over the life of the server
  MaxData,      \* receives that carry data, in all, unless Endless
  Endless,      \* clients may go on sending for ever
  AcceptEnds,   \* the kernel may end the multishot accept
  LateTimeout,  \* a timer may expire while its receive completes
  DrainPolls,   \* keepalive_timeout_ms / DRAIN_POLL_MS, rounded up
  Quit          \* SIGQUIT may arrive

ASSUME ServerAssumption ==
  /\ Peers \in Nat /\ MaxData \in Nat /\ DrainPolls \in Nat
  /\ AcceptEnds \in BOOLEAN /\ LateTimeout \in BOOLEAN /\ Quit \in BOOLEAN
  /\ Endless \in BOOLEAN

VARIABLES
  m,          \* what the handlers change: the pool, the submission queue, the descriptors
  listening,  \* srv->listening: the listen socket is open
  accepting,  \* srv->accepting
  stopped,    \* srv->stopped
  mode,       \* where the thread is: between turns, or in which part of run_once
  polls,      \* turns of the drain loop so far, NotDraining outside it
  cq,         \* completions posted and not yet handled
  inflight,   \* requests the kernel holds
  fresh,      \* the request just issued, which may complete at once
  arrived,    \* clients accepted by the kernel so far
  data        \* receives that carried data so far

kernel  == <<inflight, fresh, arrived, data>>
control == <<listening, accepting, stopped, mode, polls>>
vars    == <<m, control, cq, kernel>>

NotDraining == -1

(* Results of completions: counts are positive.                            *)
ECONNRESET == -104
ECANCELED  == -125
ETIME      == -62
EAGAIN     == -11
EMFILE     == -24
EBADF      == -9

Modes   == {"idle", "submit", "wait", "loop"}
Cqe     == [op : Ops, id : Ids, res : Int, more : BOOLEAN, peer : Nat]
Request == [op : Ops, id : Ids, peer : Nat, dead : BOOLEAN]
-----------------------------------------------------------------------------
(* ioh_server_run_once: submit, wait, handle every completion.             *)

(* After ioh_server_listen; with Quit, ioh_server_run has queued the read  *)
(* of the signal descriptor.                                               *)
Init ==
  /\ m = [ pool    |-> EmptyPool,
           sq      |-> <<[op |-> "ACCEPT", id |-> 0, fd |-> NoFd]>>
                       \o IF Quit /\ SQDepth > 1
                            THEN <<[op |-> "SIGNAL", id |-> 0, fd |-> NoFd]>> ELSE <<>>,
           fds     |-> [f \in Fds |-> 0],
           crashed |-> FALSE ]
  /\ listening = TRUE /\ accepting = TRUE /\ stopped = FALSE
  /\ mode = "idle" /\ polls = NotDraining
  /\ cq = <<>>
  /\ inflight = EmptyBag /\ fresh = {}
  /\ arrived = 0 /\ data = 0

(* ioh_server_run calls run_once for as long as the server is not stopped. *)
RunOnce ==
  /\ mode = "idle" /\ polls = NotDraining /\ ~stopped
  /\ mode' = "submit"
  /\ UNCHANGED <<m, listening, accepting, stopped, polls, cq, kernel>>

(* The turn is over: run_once returns, to the drain loop if it is that one *)
(* which called, which counts the turn and sets stopped again.             *)
TurnEnds ==
  /\ mode' = "idle"
  /\ IF polls = NotDraining
       THEN UNCHANGED <<stopped, polls>>
       ELSE stopped' = TRUE /\ polls' = polls + 1

(* The wait times out with nothing to handle.                              *)
WaitTimesOut ==
  /\ mode = "wait" /\ cq = <<>>
  /\ TurnEnds
  /\ UNCHANGED <<m, listening, accepting, cq, kernel>>

Reap ==
  /\ mode = "wait" /\ cq # <<>>
  /\ mode' = "loop"
  /\ UNCHANGED <<m, listening, accepting, stopped, polls, cq, kernel>>

BatchDone ==
  /\ mode = "loop" /\ cq = <<>>
  /\ TurnEnds
  /\ UNCHANGED <<m, listening, accepting, cq, kernel>>

(* The completion at the head of the queue is one of op.                   *)
Handling(op) ==
  /\ mode = "loop" /\ cq # <<>> /\ ~m.crashed
  /\ Head(cq).op = op
  /\ cq' = Tail(cq)
  /\ UNCHANGED <<mode, polls, kernel>>

OnAccept_not_rearmed ==
  /\ Handling("ACCEPT")
  /\ \E w \in IF Head(cq).res >= 0 THEN AcceptInput(m, Head(cq).res, Head(cq).peer) ELSE {m} :
       m' = w
  /\ accepting' = (accepting /\ Head(cq).more)
  /\ UNCHANGED <<listening, stopped>>

OnAccept ==
  /\ Handling("ACCEPT")
  /\ LET c == Head(cq)
     IN \E w \in IF c.res >= 0 THEN AcceptInput(m, c.res, c.peer) ELSE {m} :
          IF c.more THEN m' = w /\ UNCHANGED accepting
          ELSE LET rearm == listening /\ ~stopped /\ Room(w, 1)
               IN  /\ accepting' = rearm
                   /\ m' = IF rearm THEN Queue(w, "ACCEPT", 0, NoFd) ELSE w
  /\ UNCHANGED <<listening, stopped>>

OnRecv ==
  /\ Handling("RECV")
  /\ LET found == find_conn_by_id(m, Head(cq).id)
     IN  \/ found = {} /\ UNCHANGED m
         \/ \E s \in found :
              \/ Head(cq).res <= 0 /\ m' = arm_close(m, s)
              \/ Head(cq).res > 0 /\ m' \in RecvInput(m, s)
  /\ UNCHANGED <<listening, accepting, stopped>>

OnSend ==
  /\ Handling("SEND")
  /\ LET found == find_conn_by_id(m, Head(cq).id)
     IN  \/ found = {} /\ UNCHANGED m
         \/ \E s \in found : m' = SendDone(m, s, Head(cq).res)
  /\ UNCHANGED <<listening, accepting, stopped>>

OnClose_closes_again ==
  /\ Handling("CLOSE")
  /\ LET found == find_conn_by_id(m, Head(cq).id)
     IN  \/ found = {} /\ UNCHANGED m
         \/ \E s \in found :
              m' = [CloseFd(m, m.pool.conns[s].fd) EXCEPT !.pool = ConnFree(@, s)]
  /\ UNCHANGED <<listening, accepting, stopped>>

(* The slot is released whatever the close returned.                       *)
OnClose ==
  /\ Handling("CLOSE")
  /\ LET found == find_conn_by_id(m, Head(cq).id)
     IN  \/ found = {} /\ UNCHANGED m
         \/ \E s \in found : m' = [m EXCEPT !.pool = ConnFree(@, s)]
  /\ UNCHANGED <<listening, accepting, stopped>>

OnTimeout_any_result ==
  /\ Handling("TIMEOUT")
  /\ LET found == find_conn_by_id(m, Head(cq).id)
     IN  \/ found = {} /\ UNCHANGED m
         \/ \E s \in found : m' = arm_close(m, s)
  /\ UNCHANGED <<listening, accepting, stopped>>

OnTimeout ==
  /\ Handling("TIMEOUT")
  /\ LET found == find_conn_by_id(m, Head(cq).id)
     IN  \/ (Head(cq).res = ECANCELED \/ found = {}) /\ UNCHANGED m
         \/ Head(cq).res # ECANCELED /\ \E s \in found : m' = arm_close(m, s)
  /\ UNCHANGED <<listening, accepting, stopped>>

(* A read of the signal descriptor: SIGQUIT shuts down at once, in the     *)
(* middle of the batch; a read that found nothing is queued again.         *)
OnSignal ==
  /\ Handling("SIGNAL")
  /\ IF Head(cq).res > 0
       THEN /\ m' = ReleaseAll(CancelAccept(m, accepting))
            /\ stopped' = TRUE /\ accepting' = FALSE /\ listening' = FALSE
       ELSE /\ m' = IF ~stopped /\ Room(m, 1) THEN Queue(m, "SIGNAL", 0, NoFd) ELSE m
            /\ UNCHANGED <<listening, accepting, stopped>>

(* The completion of a cancellation is counted and nothing else.           *)
OnCancel ==
  /\ Handling("CANCEL")
  /\ UNCHANGED <<m, listening, accepting, stopped>>
-----------------------------------------------------------------------------
(* Calls of the application: a stop at any time, from a request handler as *)
(* well, and a shutdown between two turns of the loop.                     *)

AppStop ==
  /\ ~stopped
  /\ stopped' = TRUE
  /\ UNCHANGED <<m, listening, accepting, mode, polls, cq, kernel>>

ShutdownImmediate ==
  /\ mode = "idle" /\ polls = NotDraining
  /\ m' = ReleaseAll(CancelAccept(m, accepting))
  /\ stopped' = TRUE /\ accepting' = FALSE /\ listening' = FALSE
  /\ UNCHANGED <<mode, polls, cq, kernel>>

ShutdownDrain ==
  /\ mode = "idle" /\ polls = NotDraining
  /\ m' = MarkDraining(CancelAccept(m, accepting))
  /\ stopped' = TRUE /\ accepting' = FALSE /\ listening' = FALSE
  /\ polls' = 0
  /\ UNCHANGED <<mode, cq, kernel>>

(* The drain loop turns the event loop, with stopped cleared meanwhile.    *)
DrainTurn ==
  /\ mode = "idle" /\ polls # NotDraining
  /\ m.pool.active_count > 0 /\ polls < DrainPolls
  /\ stopped' = FALSE
  /\ mode' = "submit"
  /\ UNCHANGED <<m, listening, accepting, polls, cq, kernel>>

DrainEnds_not_forced ==
  /\ mode = "idle" /\ polls # NotDraining
  /\ m.pool.active_count <= 0 \/ polls >= DrainPolls
  /\ polls' = NotDraining
  /\ UNCHANGED <<m, listening, accepting, stopped, mode, cq, kernel>>

DrainEnds ==
  /\ mode = "idle" /\ polls # NotDraining
  /\ m.pool.active_count <= 0 \/ polls >= DrainPolls
  /\ m' = ReleaseAll(m)
  /\ polls' = NotDraining
  /\ UNCHANGED <<listening, accepting, stopped, mode, cq, kernel>>
-----------------------------------------------------------------------------
(***************************************************************************)
(* The kernel (external). io_uring_submit takes the queue in order; a      *)
(* close and a cancellation end at once, the others may. With              *)
(* DEFER_TASKRUN nothing else is posted until the thread waits, and then   *)
(* in any order. A receive and its linked timeout complete as a pair; the  *)
(* loser of the two is "dead" and completes later. A request holds its     *)
(* socket: closing the descriptor does not end it.                         *)
(***************************************************************************)

Posted(op, id, res)        == [op |-> op, id |-> id, res |-> res, more |-> FALSE, peer |-> 0]
Accepted(fd, more, client) == [op |-> "ACCEPT", id |-> 0, res |-> fd, more |-> more, peer |-> client]
Held(op, id, peer)         == [op |-> op, id |-> id, peer |-> peer, dead |-> FALSE]

Remove(E) == inflight' = inflight (-) SetToBag(E)

(* The kernel may complete e now.                                          *)
MayRun(e) == mode = "wait" \/ e \in fresh

AcceptHeld   == {e \in BagToSet(inflight) : e.op = "ACCEPT"}
TimeoutOf(e) == {t \in BagToSet(inflight) : t.op = "TIMEOUT" /\ t.id = e.id /\ ~t.dead}
RecvOf(t)    == {e \in BagToSet(inflight) : e.op = "RECV" /\ e.id = t.id /\ ~e.dead}

Issue ==
  /\ mode = "submit" /\ m.sq # <<>>
  /\ LET e == Head(m.sq)
         w == [m EXCEPT !.sq = Tail(@)]
         r == Held(e.op, e.id, IF e.fd \in Fds THEN m.fds[e.fd] ELSE 0)
     IN  CASE e.op = "CLOSE" ->
                /\ m' = CloseFd(w, e.fd)
                /\ cq' = Append(cq, Posted("CLOSE", e.id, 0))
                /\ fresh' = {}
                /\ UNCHANGED inflight
           [] e.op = "CANCEL" ->
                /\ m' = w
                /\ Remove(AcceptHeld)
                /\ cq' = (IF AcceptHeld = {} THEN cq
                          ELSE Append(cq, Posted("ACCEPT", 0, ECANCELED)))
                         \o <<Posted("CANCEL", 0, 0)>>
                /\ fresh' = {}
           [] e.op = "ACCEPT" /\ ~listening ->
                /\ m' = w
                /\ cq' = Append(cq, Posted("ACCEPT", 0, EBADF))
                /\ fresh' = {}
                /\ UNCHANGED inflight
           [] e.op = "TIMEOUT" /\ RecvOf(e) = {} ->
                /\ m' = w
                /\ cq' = Append(cq, Posted("TIMEOUT", e.id, ECANCELED))
                /\ fresh' = {}
                /\ UNCHANGED inflight
           [] OTHER ->
                /\ m' = w
                /\ inflight' = inflight (+) SetToBag({r})
                /\ fresh' = IF e.op = "TIMEOUT" THEN {} ELSE {r}
                /\ UNCHANGED cq
  /\ UNCHANGED <<control, arrived, data>>

Submitted ==
  /\ mode = "submit" /\ m.sq = <<>>
  /\ mode' = "wait" /\ fresh' = {}
  /\ UNCHANGED <<m, listening, accepting, stopped, polls, cq, inflight, arrived, data>>

LowestFd == {f \in Fds : m.fds[f] = 0 /\ \A g \in Fds : m.fds[g] = 0 => f <= g}

(* The next client gets the lowest descriptor. A multishot accept ends     *)
(* when descriptors run out and, with AcceptEnds, with any completion.     *)
KernelAccept ==
  /\ arrived < Peers
  /\ \E e \in AcceptHeld, more \in BOOLEAN :
       /\ MayRun(e)
       /\ IF more THEN UNCHANGED <<inflight, fresh>> ELSE Remove({e}) /\ fresh' = {}
       /\ \/ \E fd \in LowestFd :
               /\ more \/ AcceptEnds
               /\ arrived' = arrived + 1
               /\ m' = [m EXCEPT !.fds[fd] = arrived + 1]
               /\ cq' = Append(cq, Accepted(fd, more, arrived + 1))
          \/ /\ LowestFd = {} /\ ~more
             /\ cq' = Append(cq, Posted("ACCEPT", 0, EMFILE))
             /\ UNCHANGED <<m, arrived>>
  /\ UNCHANGED <<control, data>>

(* A receive ends with data, or with the end of the stream or an error.    *)
(* Its timeout is cancelled with it, unless it has just expired (late).    *)
KernelRecv(e, res, late) ==
  /\ e.op = "RECV" /\ ~e.dead /\ MayRun(e)
  /\ res > 0 => (Endless \/ data < MaxData) /\ e.peer # 0
  /\ late => LateTimeout /\ TimeoutOf(e) # {}
  /\ data' = IF res > 0 /\ ~Endless THEN data + 1 ELSE data
  /\ inflight' = (inflight (-) SetToBag({e} \cup TimeoutOf(e)))
                 (+) SetToBag({[t EXCEPT !.dead = TRUE] : t \in IF late THEN TimeoutOf(e) ELSE {}})
  /\ cq' = Append(cq, Posted("RECV", e.id, res))
           \o IF TimeoutOf(e) = {} \/ late THEN <<>>
              ELSE <<Posted("TIMEOUT", e.id, ECANCELED)>>
  /\ fresh' = {}
  /\ UNCHANGED <<m, control, arrived>>

(* The timeout fires: both completions follow, in either order.            *)
KernelTimeout(t) ==
  /\ mode = "wait" /\ t.op = "TIMEOUT" /\ ~t.dead
  /\ \E e \in RecvOf(t) :
       \/ /\ inflight' = (inflight (-) SetToBag({e, t})) (+) SetToBag({[e EXCEPT !.dead = TRUE]})
          /\ cq' = Append(cq, Posted("TIMEOUT", t.id, ETIME))
       \/ /\ inflight' = (inflight (-) SetToBag({e, t})) (+) SetToBag({[t EXCEPT !.dead = TRUE]})
          /\ cq' = Append(cq, Posted("RECV", e.id, ECANCELED))
  /\ UNCHANGED <<m, control, fresh, arrived, data>>

KernelLoser(e) ==
  /\ mode = "wait" /\ e.dead /\ Remove({e})
  /\ cq' = Append(cq, Posted(e.op, e.id, IF e.op = "RECV" THEN ECANCELED ELSE ETIME))
  /\ UNCHANGED <<m, control, fresh, arrived, data>>

(* The kernel takes some pieces of a response, or the connection is gone.  *)
KernelSend(e, res) ==
  /\ e.op = "SEND" /\ MayRun(e) /\ Remove({e})
  /\ res > 0 => e.peer # 0
  /\ \A s \in find_conn_by_id(m, e.id) : res <= m.pool.conns[s].unsent
  /\ cq' = Append(cq, Posted("SEND", e.id, res))
  /\ fresh' = {}
  /\ UNCHANGED <<m, control, arrived, data>>

(* The read of the signal descriptor finds SIGQUIT; the descriptor does    *)
(* not block, so that a read may also return at once with nothing.         *)
KernelSignal(e, res) ==
  /\ e.op = "SIGNAL" /\ MayRun(e) /\ Remove({e})
  /\ res = EAGAIN => e \in fresh
  /\ cq' = Append(cq, Posted("SIGNAL", 0, res))
  /\ fresh' = {}
  /\ UNCHANGED <<m, control, arrived, data>>

Kernel ==
  \/ Issue
  \/ Submitted
  \/ KernelAccept
  \/ \E e \in BagToSet(inflight) :
       \/ \E res \in {1, 0, ECONNRESET}, late \in BOOLEAN : KernelRecv(e, res, late)
       \/ KernelTimeout(e)
       \/ KernelLoser(e)
       \/ \E res \in (1..MaxPieces) \cup {ECONNRESET} : KernelSend(e, res)
       \/ \E res \in {1, EAGAIN} : KernelSignal(e, res)

Loop ==
  \/ RunOnce \/ WaitTimesOut \/ Reap \/ BatchDone
  \/ OnAccept \/ OnRecv \/ OnSend \/ OnClose \/ OnTimeout \/ OnSignal \/ OnCancel
  \/ DrainTurn \/ DrainEnds

Application == AppStop \/ ShutdownImmediate \/ ShutdownDrain

Next == Loop \/ Application \/ Kernel

Spec == Init /\ [][Next]_vars

(* The timeout of a connection is armed.                                   *)
Armed(id) == \E t \in BagToSet(inflight) : t.op = "TIMEOUT" /\ t.id = id /\ ~t.dead

(* The thread keeps turning and the kernel submitting. A timer expires if  *)
(* nothing takes it away: it stays armed for ever only if the thread never *)
(* waits again, since the kernel posts only while the thread waits. Strong *)
(* fairness would say more than the kernel does, that a timer which is     *)
(* armed anew at every receive expires. Nothing is asked of the clients.   *)
Fairness ==
  /\ WF_vars(Loop)
  /\ WF_vars(Issue \/ Submitted)
  /\ \A id \in 1 .. Peers : <>[]Armed(id) => <>[](mode # "wait")

FairSpec == Spec /\ Fairness
-----------------------------------------------------------------------------
(* Variables keep the shape of the structures they stand for.              *)
TypeOK ==
  /\ m \in Machine
  /\ listening \in BOOLEAN /\ accepting \in BOOLEAN /\ stopped \in BOOLEAN
  /\ mode \in Modes /\ polls \in Int
  /\ cq \in Seq(Cqe)
  /\ BagToSet(inflight) \subseteq Request /\ fresh \subseteq Request
  /\ arrived \in Nat /\ data \in Nat

(* Requests of a kind for a connection that are queued, held by the kernel *)
(* (and still able to run) or completed and not yet handled.               *)
Queued(op, id)  == {i \in DOMAIN m.sq : m.sq[i].op = op /\ m.sq[i].id = id}
Posts(op, id)   == {i \in DOMAIN cq : cq[i].op = op /\ cq[i].id = id}
Holds(op, id)   == {e \in BagToSet(inflight) : e.op = op /\ e.id = id}
Copies(op, id)  == BagCardinality([e \in Holds(op, id) |-> inflight[e]])
Pending(op, id) == Cardinality(Queued(op, id)) + Copies(op, id) + Cardinality(Posts(op, id))

Live == {m.pool.conns[s] : s \in InUse(m.pool)}

(* A connection never has two transfers outstanding: the handlers take     *)
(* turns receiving and sending, through the handshake, errors, partial     *)
(* sends and keep-alive. The single receive buffer and send buffer of a    *)
(* connection, and send_active, rely on it.                                *)
OneTransfer ==
  \A c \in Live : Pending("RECV", c.id) + Pending("SEND", c.id) <= 1

(* send_active is "true if IOH_OP_SEND is in-flight" (ioh_conn.h), and     *)
(* only then: it decides whether arm_send may replace the send buffer.     *)
SendFlagExact ==
  \A c \in Live : c.send_active <=> Pending("SEND", c.id) > 0

(* A connection in use always has something outstanding that will lead to  *)
(* its next step: a transfer, or its close.                                *)
NeverStranded ==
  \A c \in Live :
    ~m.crashed => Pending("RECV", c.id) + Pending("SEND", c.id) + Pending("CLOSE", c.id) > 0

(* "Every IORING_OP_RECV submitted by the server is linked to an           *)
(* IORING_OP_LINK_TIMEOUT": a receive that waits has its timeout.          *)
EveryRecvTimed ==
  mode = "wait" =>
    \A c \in Live :
      (\E e \in Holds("RECV", c.id) : ~e.dead) => Holds("TIMEOUT", c.id) # {}

(* Whenever the kernel may move data, the buffer of every transfer it      *)
(* holds belongs to a connection that is still in use: ioh_conn_free never *)
(* releases a buffer under a request.                                      *)
BuffersOutliveRequests ==
  mode = "wait" =>
    \A e \in BagToSet(inflight) :
      e.op \in {"RECV", "SEND"} /\ ~e.dead => \E c \in Live : c.id = e.id

(* While the server listens and runs an accept is queued, held by the      *)
(* kernel or about to be handled, and accepting says so.                   *)
AcceptArmed ==
  listening /\ ~stopped => accepting /\ Pending("ACCEPT", 0) > 0

(* A connection that is not closing is the only one with its descriptor,   *)
(* and the descriptor is the socket the connection was accepted for.       *)
DescriptorOwned ==
  \A c \in Live : c.state # "CLOSING" => m.fds[c.fd] = c.peer

(* What the kernel holds for a connection is on the connection's own       *)
(* socket: no response is written to, and no request read from, a client   *)
(* that has since been given the descriptor's number.                      *)
TransfersReachPeer ==
  \A e \in BagToSet(inflight), c \in Live :
    e.op \in {"RECV", "SEND"} /\ e.id = c.id => e.peer = c.peer

(* A response in progress is cut short only by an error of the send, by an *)
(* immediate shutdown or by the limit of the drain: "finish in-flight".    *)
ResponsesComplete ==
  [][ \A s \in Slots :
        LET c == m.pool.conns[s]
        IN  /\ c.send_active /\ c.unsent > 0 /\ c.state # "CLOSING"
            /\ m'.pool.conns[s].state \in {"CLOSING", "FREE"}
            => \/ mode = "loop" /\ Head(cq).op = "SEND"
                 /\ (Head(cq).res < 0 \/ Head(cq).res >= c.unsent)
               \/ mode = "idle" /\ (polls = NotDraining \/ polls >= DrainPolls) ]_vars

(* "Stop accepting new connections": once a shutdown has begun no slot is  *)
(* given to a client, although an accept may be armed or under way then.   *)
NoAcceptAfterShutdown ==
  [][ ~listening => m'.pool.next_id = m.pool.next_id ]_vars

(* "TLS handshake send done - need more recv": a flight of the handshake   *)
(* that was sent in full never ends the connection.                        *)
HandshakeSendKept ==
  [][ \A s \in Slots :
        LET c == m.pool.conns[s]
        IN  mode = "loop" /\ cq # <<>>
            /\ Head(cq).op = "SEND" /\ Head(cq).id = c.id /\ Head(cq).res > 0
            /\ c.state \in {"TLS_HANDSHAKE", "HTTP_ACTIVE"} /\ ~c.answered
            => m'.pool.conns[s].state # "CLOSING" ]_vars

(* No descriptor is lost: an open one belongs to a connection in use or to *)
(* an accept that is not handled yet.                                      *)
NoDescriptorLeak ==
  \A f \in Fds : m.fds[f] # 0 =>
    \/ \E c \in Live : c.fd = f
    \/ \E i \in DOMAIN cq : cq[i].op = "ACCEPT" /\ cq[i].res = f

(* The pool's count and names stay right under the server: no slot is      *)
(* released twice, none is lost, and until next_id wraps a completion      *)
(* finds the connection it is about and no other.                          *)
PoolConsistent ==
  Accounted(m.pool) /\ (~m.pool.wrapped => DistinctIds(m.pool))

(* After either shutdown has returned no connection is left.               *)
ShutdownLeavesNothing ==
  mode = "idle" /\ ~listening /\ polls = NotDraining => InUse(m.pool) = {}

(* A connection ends, unless the loop is stopped or its client keeps it:   *)
(* one that sends for ever, each receive with a timeout of its own, or     *)
(* that never reads what it is sent, since a send has none. A client that  *)
(* does neither loses its slot whatever else it does: it may be silent,    *)
(* leave a request unfinished, reset, or stop in any phase.                *)
Connected(id) == \E c \in Live : c.id = id
Heard(id)     == \E i \in Posts("RECV", id) : cq[i].res > 0
Unread(id)    == Holds("SEND", id) # {}

ConnectionsEnd ==
  \A id \in 1 .. Peers :
    \/ []<>(stopped \/ ~Connected(id))
    \/ []<>Heard(id)
    \/ <>[]Unread(id)

(* A drain ends, with no connection left.                                  *)
DrainCompletes ==
  (polls # NotDraining) ~> (polls = NotDraining /\ InUse(m.pool) = {})
=============================================================================
