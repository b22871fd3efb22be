---------------------------- MODULE TimerService ----------------------------
(***************************************************************************)
(* What the one-shot timers of core/ioh_loop.h promise to the code that    *)
(* uses them, whatever slots, requests and completions are behind them:    *)
(* the callback of a timer runs once at most, when its own time has come,  *)
(* and never after the timer was cancelled. Module Loop implements this.   *)
(***************************************************************************)

CONSTANT Timers   \* the timers ever asked for

VARIABLE status   \* of each timer

Status == {"none", "pending", "expired", "fired", "cancelled"}

Init == status = [t \in Timers |-> "none"]

Moves(t, from, to) ==
  /\ status[t] \in from
  /\ status' = [status EXCEPT ![t] = to]

Next ==
  \E t \in Timers :
    \/ Moves(t, {"none"}, "pending")                    \* ioh_loop_add_timer
    \/ Moves(t, {"pending"}, "expired")                 \* its time has come
    \/ Moves(t, {"expired"}, "fired")                   \* its callback is called
    \/ Moves(t, {"pending", "expired"}, "cancelled")    \* ioh_loop_cancel_timer

Spec == Init /\ [][Next]_status
=============================================================================
