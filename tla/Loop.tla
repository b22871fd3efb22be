-------------------------------- MODULE Loop --------------------------------
(***************************************************************************)
(* The event loop of core/ioh_loop.c and its timers: timer slots, timeout  *)
(* and cancel requests tagged with a slot, and the turns of                *)
(* ioh_loop_run_once that hand completions to callbacks. The code that     *)
(* uses the loop runs between two turns and inside callbacks.              *)
(*                                                                         *)
(* Every timer asked for has a name of its own here, which stands for the  *)
(* callback and its data; the code knows a timer only by its slot. The     *)
(* kernel completes in any order, so that completions are a set.           *)
(***************************************************************************)
EXTENDS Integers, Sequences, FiniteSets

CONSTANTS
  TimerSlots,   \* 0 .. IOH_MAX_TIMERS - 1
  TimerNames,   \* the timers asked for, in all
  LoopSQDepth,  \* config.queue_depth
  Hasty         \* the client may add a timer although a slot it cancelled is not quiet

PowerOf2(v) == v \in Nat /\ \E k \in 0 .. v : v = 2^k

(* What ioh_loop_config_validate lets through.                             *)
ASSUME LoopAssumption ==
  /\ TimerSlots \subseteq Nat /\ TimerNames \subseteq Nat \ {0}
  /\ PowerOf2(LoopSQDepth)
  /\ Hasty \in BOOLEAN

VARIABLES
  timers,   \* loop->timers: active, and the timer whose callback the slot holds
  lsq,      \* requests queued and not submitted
  armed,    \* timeouts the kernel holds
  lcq,      \* completions not yet handled
  turn,     \* where the thread is: in client code ("idle", "callback") or in the loop
  cur,      \* the slot whose callback runs
  back,     \* where the thread goes on after io_uring_submit
  lstopped, \* loop->stopped
  fate,     \* history: what the client was told or asked of each timer
  elapsed   \* history: the timers whose time has come

loopVars == <<timers, lsq, armed, lcq, turn, cur, back, lstopped, fate, elapsed>>

NoTimer == 0
NoSlot  == -1

(* A request: a timeout of timer t in a slot, the cancellation of the      *)
(* timeout with the slot's tag, or none. A completion has a result besides.*)
Timeout(s, t) == [op |-> "TIMEOUT", slot |-> s, t |-> t]
Cancel(s)     == [op |-> "CANCEL", slot |-> s, t |-> NoTimer]
Nop           == [op |-> "NOP", slot |-> 0, t |-> NoTimer]
Done(r, res)  == [op |-> r.op, slot |-> r.slot, t |-> r.t, res |-> res]

LoopInit ==
  /\ timers = [s \in TimerSlots |-> [active |-> FALSE, t |-> NoTimer]]
  /\ lsq = <<>> /\ armed = {} /\ lcq = {}
  /\ turn = "idle" /\ cur = NoSlot /\ back = "idle" /\ lstopped = FALSE
  /\ fate = [t \in TimerNames |-> "none"]
  /\ elapsed = {}

InClient == turn \in {"idle", "callback"}

(* Slot s is quiet: no completion of an earlier use is still to come, and  *)
(* its callback is not running.                                            *)
Quiet(s) ==
  /\ \A i \in DOMAIN lsq : ~(lsq[i].op = "TIMEOUT" /\ lsq[i].slot = s)
  /\ \A r \in armed : r.slot # s
  /\ \A e \in lcq : ~(e.op = "TIMEOUT" /\ e.slot = s)
  /\ cur # s

FreeSlots == {s \in TimerSlots : ~timers[s].active}
FirstFree(s) == s \in FreeSlots /\ \A x \in FreeSlots : s <= x
-----------------------------------------------------------------------------
(* ioh_loop_add_timer takes the first free slot; the client is told -ENOMEM*)
(* when there is none. A careful client waits until what it cancelled is   *)
(* over.                                                                   *)
AddTimer(t) ==
  /\ InClient /\ fate[t] = "none" /\ Len(lsq) < LoopSQDepth
  /\ Hasty \/ \A s \in FreeSlots : Quiet(s)
  /\ \E s \in TimerSlots :
       /\ FirstFree(s)
       /\ timers' = [timers EXCEPT ![s] = [active |-> TRUE, t |-> t]]
       /\ lsq' = Append(lsq, Timeout(s, t))
  /\ fate' = [fate EXCEPT ![t] = "pending"]
  /\ UNCHANGED <<armed, lcq, turn, cur, back, lstopped, elapsed>>

(* Without a request to spare (-ENOSPC) the slot is free again, with the   *)
(* callback that was written to it.                                        *)
AddTimerNoSqe(t) ==
  /\ InClient /\ fate[t] = "none" /\ Len(lsq) >= LoopSQDepth
  /\ \E s \in TimerSlots :
       /\ FirstFree(s)
       /\ timers' = [timers EXCEPT ![s] = [active |-> FALSE, t |-> t]]
  /\ UNCHANGED <<lsq, armed, lcq, turn, cur, back, lstopped, fate, elapsed>>

(* ioh_loop_cancel_timer of a slot in use; the slot is free at once. A     *)
(* callback may cancel its own slot: its timer has fired all the same.     *)
CancelTimer_fault(s) ==
  /\ InClient /\ timers[s].active /\ Len(lsq) < LoopSQDepth
  /\ lsq' = Append(lsq, Cancel(s))
  /\ fate' = IF cur = s THEN fate
             ELSE [fate EXCEPT ![timers[s].t] = "cancelled"]
  /\ UNCHANGED <<timers, armed, lcq, turn, cur, back, lstopped, elapsed>>

CancelTimer(s) ==
  /\ InClient /\ timers[s].active /\ Len(lsq) < LoopSQDepth
  /\ timers' = [timers EXCEPT ![s].active = FALSE]
  /\ lsq' = Append(lsq, Cancel(s))
  /\ fate' = IF cur = s THEN fate
             ELSE [fate EXCEPT ![timers[s].t] = "cancelled"]
  /\ UNCHANGED <<armed, lcq, turn, cur, back, lstopped, elapsed>>

(* ioh_loop_stop.                                                          *)
LoopStop ==
  /\ InClient /\ lstopped' = TRUE
  /\ UNCHANGED <<timers, lsq, armed, lcq, turn, cur, back, fate, elapsed>>
-----------------------------------------------------------------------------
(* ioh_loop_run_once: a stopped loop does nothing.                         *)
LoopRunOnce ==
  /\ turn = "idle" /\ ~lstopped
  /\ turn' = "submit" /\ back' = "wait"
  /\ UNCHANGED <<timers, lsq, armed, lcq, cur, lstopped, fate, elapsed>>

(* ioh_loop_submit_nop submits what is queued, from client code.           *)
SubmitNop ==
  /\ InClient /\ Len(lsq) < LoopSQDepth
  /\ lsq' = Append(lsq, Nop)
  /\ turn' = "submit" /\ back' = turn
  /\ UNCHANGED <<timers, armed, lcq, cur, lstopped, fate, elapsed>>

(* io_uring_submit (external) takes the requests in order. A cancellation  *)
(* completes at once, and so does the timeout with its tag, if there is    *)
(* one that has not expired.                                               *)
SubmitOne ==
  /\ turn = "submit" /\ lsq # <<>>
  /\ lsq' = Tail(lsq)
  /\ LET r == Head(lsq)
         hit == {x \in armed : x.slot = r.slot}
     IN \/ /\ r.op = "TIMEOUT"
           /\ armed' = armed \cup {r} /\ UNCHANGED lcq
        \/ /\ r.op = "NOP"
           /\ lcq' = lcq \cup {Done(r, "OK")} /\ UNCHANGED armed
        \/ /\ r.op = "CANCEL" /\ hit = {}
           /\ lcq' = lcq \cup {Done(r, "ENOENT")} /\ UNCHANGED armed
        \/ /\ r.op = "CANCEL"
           /\ \E x \in hit : /\ armed' = armed \ {x}
                             /\ lcq' = lcq \cup {Done(x, "ECANCELED"), Done(r, "OK")}
  /\ UNCHANGED <<timers, turn, cur, back, lstopped, fate, elapsed>>

Submitted ==
  /\ turn = "submit" /\ lsq = <<>>
  /\ turn' = back
  /\ UNCHANGED <<timers, lsq, armed, lcq, cur, back, lstopped, fate, elapsed>>

(* The time of a timeout comes, wherever the thread is.                    *)
Expire(x) ==
  /\ x \in armed
  /\ armed' = armed \ {x}
  /\ lcq' = lcq \cup {Done(x, "ETIME")}
  /\ elapsed' = elapsed \cup {x.t}
  /\ UNCHANGED <<timers, lsq, turn, cur, back, lstopped, fate>>

(* The wait ends with a completion, or without one when timeout_ms passed. *)
LoopWaitEnds ==
  /\ turn = "wait"
  /\ turn' = IF lcq = {} THEN "idle" ELSE "loop"
  /\ UNCHANGED <<timers, lsq, armed, lcq, cur, back, lstopped, fate, elapsed>>

(* The completion of a timeout whose slot is in use: the callback of the   *)
(* slot is called if the time is up.                                       *)
CallsBack_fault(e) == e.op = "TIMEOUT" /\ timers[e.slot].active /\ e.res = "ECANCELED"
CallsBack(e) == e.op = "TIMEOUT" /\ timers[e.slot].active /\ e.res = "ETIME"

HandleExpiry(e) ==
  /\ turn = "loop" /\ e \in lcq /\ CallsBack(e)
  /\ lcq' = lcq \ {e}
  /\ turn' = "callback" /\ cur' = e.slot
  /\ fate' = [fate EXCEPT ![timers[e.slot].t] = "fired"]
  /\ UNCHANGED <<timers, lsq, armed, back, lstopped, elapsed>>

(* The callback returns, and the slot is free.                             *)
CallbackReturns ==
  /\ turn = "callback"
  /\ timers' = [timers EXCEPT ![cur].active = FALSE]
  /\ turn' = "loop" /\ cur' = NoSlot
  /\ UNCHANGED <<lsq, armed, lcq, back, lstopped, fate, elapsed>>

(* Any other completion; that of a timeout cancelled frees the slot too.   *)
HandleOther(e) ==
  /\ turn = "loop" /\ e \in lcq /\ ~CallsBack(e)
  /\ lcq' = lcq \ {e}
  /\ timers' = IF e.op = "TIMEOUT" THEN [timers EXCEPT ![e.slot].active = FALSE] ELSE timers
  /\ UNCHANGED <<lsq, armed, turn, cur, back, lstopped, fate, elapsed>>

LoopEnds ==
  /\ turn = "loop" /\ lcq = {}
  /\ turn' = "idle"
  /\ UNCHANGED <<timers, lsq, armed, lcq, cur, back, lstopped, fate, elapsed>>

(* ioh_loop_destroy: the ring goes, with all it holds.                     *)
LoopDestroy ==
  /\ turn = "idle"
  /\ turn' = "gone"
  /\ lsq' = <<>> /\ armed' = {} /\ lcq' = {}
  /\ UNCHANGED <<timers, cur, back, lstopped, fate, elapsed>>

LoopThread ==
  \/ LoopRunOnce \/ SubmitOne \/ Submitted \/ LoopWaitEnds \/ CallbackReturns \/ LoopEnds
  \/ \E e \in lcq : HandleExpiry(e) \/ HandleOther(e)

LoopNext ==
  \/ LoopThread
  \/ \E t \in TimerNames : AddTimer(t) \/ AddTimerNoSqe(t)
  \/ \E s \in TimerSlots : CancelTimer(s)
  \/ SubmitNop \/ LoopStop \/ LoopDestroy
  \/ \E x \in armed : Expire(x)

LoopSpec == LoopInit /\ [][LoopNext]_loopVars

(* The thread runs, time passes, and the application comes back to the     *)
(* loop: whatever else it does between two turns or in a callback, it does *)
(* not do it for ever.                                                     *)
LoopFairness ==
  /\ WF_loopVars(LoopThread)
  /\ SF_loopVars(LoopRunOnce) /\ SF_loopVars(CallbackReturns)
  /\ \A t \in TimerNames : WF_loopVars(\E x \in armed : x.t = t /\ Expire(x))

LoopFairSpec == LoopSpec /\ LoopFairness
-----------------------------------------------------------------------------
(* The state of the slots, of the rings and of the thread.                 *)
LoopTypeOK ==
  /\ timers \in [TimerSlots -> [active : BOOLEAN, t : TimerNames \cup {NoTimer}]]
  /\ armed \subseteq {Timeout(s, t) : s \in TimerSlots, t \in TimerNames}
  /\ turn \in {"idle", "submit", "wait", "loop", "callback", "gone"}
  /\ cur \in TimerSlots \cup {NoSlot} /\ back \in {"idle", "wait", "callback"}
  /\ lstopped \in BOOLEAN
  /\ fate \in [TimerNames -> {"none", "pending", "fired", "cancelled"}]
  /\ elapsed \subseteq TimerNames

(* The callback of a timer runs only once its own time has come: "Timer    *)
(* fired (res == -ETIME)" (core/ioh_loop.c:216).                           *)
FiresOnTime == \A t \in TimerNames : fate[t] = "fired" => t \in elapsed

(* The loop implements the timers its header promises: at most one call    *)
(* for a timer, after its own expiry and not after its cancellation.       *)
TimerStatus ==
  [t \in TimerNames |-> IF fate[t] = "pending" /\ t \in elapsed THEN "expired" ELSE fate[t]]

Service == INSTANCE TimerService WITH Timers <- TimerNames, status <- TimerStatus

TimerContract == Service!Spec

(* A timer is never forgotten: it fires or is cancelled, unless the loop   *)
(* is stopped or destroyed. A cancellation that has not completed cannot   *)
(* take a later timer of the same slot with it.                            *)
TimersEnd ==
  \A t \in TimerNames :
    fate[t] = "pending" ~> fate[t] \in {"fired", "cancelled"} \/ lstopped \/ turn = "gone"
=============================================================================
