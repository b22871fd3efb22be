----------------------------- MODULE SignalDrain -----------------------------
(***************************************************************************)
(* SIGTERM while the loop of ioh_server_run_once is under way: its handler *)
(* calls ioh_server_shutdown, whose drain turns the loop again before the  *)
(* outer turn has consumed anything (core/ioh_server.c).                   *)
(*                                                                         *)
(* Connections are open from the start; of a connection only what the      *)
(* drain depends on is kept. Module Server has the handlers in full, and   *)
(* the drain when it is called between two turns of the loop.              *)
(***************************************************************************)
EXTENDS Integers, SequencesExt

CONSTANTS
  Conns,       \* the connections
  DrainPolls,  \* keepalive_timeout_ms / DRAIN_POLL_MS, rounded up
  MaxPosts,    \* completions the kernel posts, in all
  MaxDepth     \* activations of run_once and of the drain that are followed

VARIABLES
  conns,    \* the connections: state and send_active
  sq,       \* requests queued and not submitted
  held,     \* requests the kernel holds
  cq,       \* every completion posted so far
  khead,    \* how many of them io_uring_cq_advance has consumed
  handled,  \* how often each has been handled
  stack,    \* activations: a turn of the loop or a drain, innermost last
  stopped   \* srv->stopped

vars == <<conns, sq, held, cq, khead, handled, stack, stopped>>

Signal == "signal"   \* what a completion of the signal descriptor is about

Ev(op, c) == [op |-> op, on |-> c]
Active    == {c \in Conns : conns[c].state # "FREE"}

(* An activation. Of a turn, "pos" is the next completion and "n" how many *)
(* it has handled; of a drain, "n" is how many turns it has made.          *)
Turn      == [at |-> "submit", pos |-> 0, n |-> 0]
Top       == Last(stack)
Enter(f)  == stack' = Append(stack, f)
Become(f) == stack' = Append(Front(stack), f)

Init ==
  /\ conns   = [c \in Conns |-> [state |-> "HTTP_ACTIVE", send_active |-> FALSE]]
  /\ sq      = <<>>
  /\ held    = {Ev("RECV", c) : c \in Conns} \cup {Ev("SIGNAL", Signal)}
  /\ cq      = <<>> /\ khead = 0 /\ handled = <<>>
  /\ stack   = <<>> /\ stopped = FALSE
-----------------------------------------------------------------------------
(* ioh_server_run.                                                         *)
RunOnce ==
  /\ stack = <<>> /\ ~stopped
  /\ Enter(Turn)
  /\ UNCHANGED <<conns, sq, held, cq, khead, handled, stopped>>

(* io_uring_submit (external): a close completes at once.                  *)
Submit ==
  /\ stack # <<>> /\ Top.at = "submit"
  /\ LET closes == SelectSeq(sq, LAMBDA e : e.op = "CLOSE")
     IN  /\ cq' = cq \o closes
         /\ handled' = handled \o [i \in DOMAIN closes |-> 0]
         /\ held' = held \cup (ToSet(sq) \ ToSet(closes))
  /\ sq' = <<>>
  /\ Become([Top EXCEPT !.at = "wait"])
  /\ UNCHANGED <<conns, khead, stopped>>

(* The kernel (external) completes a request while the thread waits; a     *)
(* receive with data or with the end of the stream.                        *)
Post(e) ==
  /\ stack # <<>> /\ Top.at = "wait" /\ Len(cq) < MaxPosts
  /\ held' = held \ {e}
  /\ \E op \in IF e.op = "RECV" THEN {"RECV", "EOF"} ELSE {e.op} : cq' = Append(cq, Ev(op, e.on))
  /\ handled' = Append(handled, 0)
  /\ UNCHANGED <<conns, sq, khead, stack, stopped>>

(* run_once returns to ioh_server_run, or to the drain that called it,     *)
(* which counts the turn and sets stopped again.                           *)
Return ==
  LET rest == Front(stack)
  IN  IF rest = <<>> THEN stack' = rest /\ UNCHANGED stopped
      ELSE /\ stack' = Append(Front(rest), [Last(rest) EXCEPT !.n = @ + 1])
           /\ stopped' = TRUE

(* The iteration starts at the first completion that is not consumed.      *)
WaitEnds ==
  /\ stack # <<>> /\ Top.at = "wait"
  /\ IF khead < Len(cq)
       THEN Become([at |-> "loop", pos |-> khead + 1, n |-> 0]) /\ UNCHANGED stopped
       ELSE Return
  /\ UNCHANGED <<conns, sq, held, cq, khead, handled>>

(* io_uring_cq_advance by the number of completions this turn handled.     *)
LoopEnds ==
  /\ stack # <<>> /\ Top.at = "loop" /\ Top.pos > Len(cq)
  /\ khead' = khead + Top.n
  /\ Return
  /\ UNCHANGED <<conns, sq, held, cq, handled>>
-----------------------------------------------------------------------------
Close(c, k) ==
  /\ conns' = [k EXCEPT ![c].state = "CLOSING"]
  /\ sq' = Append(sq, Ev("CLOSE", c))

(* A complete request is answered, unless a send is active: then arm_send  *)
(* refuses and dispatch_request closes the connection.                     *)
OnRecv(c) ==
  IF conns[c].send_active THEN Close(c, conns)
  ELSE /\ conns' = [conns EXCEPT ![c].send_active = TRUE]
       /\ sq' = Append(sq, Ev("SEND", c))

OnSend(c) ==
  LET k == [conns EXCEPT ![c].send_active = FALSE]
  IN  IF k[c].state = "HTTP_ACTIVE"
        THEN conns' = k /\ sq' = Append(sq, Ev("RECV", c))
        ELSE Close(c, k)

OnClose(c) ==
  /\ conns' = [conns EXCEPT ![c] = [state |-> "FREE", send_active |-> FALSE]]
  /\ UNCHANGED sq

OnConn(e) ==
  IF conns[e.on].state = "FREE" THEN UNCHANGED <<conns, sq>>
  ELSE CASE e.op = "RECV"  -> OnRecv(e.on)
         [] e.op = "EOF"   -> Close(e.on, conns)
         [] e.op = "SEND"  -> OnSend(e.on)
         [] e.op = "CLOSE" -> OnClose(e.on)

(* The completion at the position of the innermost turn.                   *)
Handling(e) ==
  /\ stack # <<>> /\ Top.at = "loop" /\ Top.pos <= Len(cq)
  /\ e = cq[Top.pos]
  /\ handled' = [handled EXCEPT ![Top.pos] = @ + 1]

Handle ==
  \E e \in ToSet(cq) :
    /\ Handling(e) /\ e.op # "SIGNAL"
    /\ OnConn(e)
    /\ Become([Top EXCEPT !.pos = @ + 1, !.n = @ + 1])
    /\ UNCHANGED <<held, cq, khead, stopped>>

(* SIGTERM: ioh_server_shutdown marks the connections and enters its loop. *)
HandleSignal ==
  \E e \in ToSet(cq) :
    /\ Handling(e) /\ e.op = "SIGNAL"
    /\ conns' = [c \in Conns |-> IF conns[c].state = "HTTP_ACTIVE"
                                   THEN [conns[c] EXCEPT !.state = "DRAINING"] ELSE conns[c]]
    /\ stopped' = TRUE
    /\ Enter([at |-> "drain", pos |-> 0, n |-> 0])
    /\ UNCHANGED <<sq, held, cq, khead>>

DrainTurn ==
  /\ stack # <<>> /\ Top.at = "drain" /\ Len(stack) < MaxDepth
  /\ Active # {} /\ Top.n < DrainPolls
  /\ stopped' = FALSE
  /\ Enter(Turn)
  /\ UNCHANGED <<conns, sq, held, cq, khead, handled>>

(* The rest is closed by force, and the turn that met the signal goes on   *)
(* with the completion after it.                                           *)
DrainEnds ==
  /\ stack # <<>> /\ Top.at = "drain"
  /\ Active = {} \/ Top.n >= DrainPolls
  /\ conns' = [c \in Conns |-> [state |-> "FREE", send_active |-> FALSE]]
  /\ LET rest == Front(stack)
     IN  stack' = Append(Front(rest), [Last(rest) EXCEPT !.pos = @ + 1, !.n = @ + 1])
  /\ UNCHANGED <<sq, held, cq, khead, handled, stopped>>

Next ==
  \/ RunOnce \/ Submit \/ WaitEnds \/ LoopEnds \/ Handle \/ HandleSignal
  \/ DrainTurn \/ DrainEnds
  \/ \E e \in held : Post(e)

Spec == Init /\ [][Next]_vars
-----------------------------------------------------------------------------
(* A completion is handled once: SIGTERM "triggers graceful drain (stop    *)
(* accepting, finish in-flight, close)", so that the request before the    *)
(* signal is not answered again and the signal does not start a second     *)
(* drain within the first.                                                 *)
HandledOnce == \A i \in DOMAIN handled : handled[i] <= 1
=============================================================================
