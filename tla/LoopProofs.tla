----------------------------- MODULE LoopProofs -----------------------------
(***************************************************************************)
(* The loop implements the timers it promises (module TimerService), for   *)
(* any number of slots and timers, as long as the client adds no timer     *)
(* while a slot it cancelled is not quiet.                                 *)
(*                                                                         *)
(* A completion names a slot and not a timer, so that the argument is      *)
(* about whose request is outstanding: that of a slot in use belongs to    *)
(* the timer the slot holds (Owned), and there is only one (Single). When  *)
(* the completion of a slot in use says that the time is up, it is then    *)
(* the timer of the slot whose time is up, and it is pending (Holds).      *)
(***************************************************************************)
EXTENDS Loop, TLAPS

TimeoutReq == [op : {"TIMEOUT"}, slot : TimerSlots, t : TimerNames]
OtherReq   == [op : {"CANCEL", "NOP"}, slot : Nat, t : {NoTimer}]
Requests   == TimeoutReq \cup OtherReq
TimeoutCqe == [op : {"TIMEOUT"}, slot : TimerSlots, t : TimerNames, res : {"ETIME", "ECANCELED"}]
OtherCqe   == [op : {"CANCEL", "NOP"}, slot : Nat, t : {NoTimer}, res : {"OK", "ENOENT"}]

Types ==
  /\ timers \in [TimerSlots -> [active : BOOLEAN, t : TimerNames \cup {NoTimer}]]
  /\ lsq \in Seq(Requests) /\ armed \subseteq TimeoutReq /\ lcq \subseteq TimeoutCqe \cup OtherCqe
  /\ cur \in TimerSlots \cup {NoSlot}
  /\ turn \in {"idle", "submit", "wait", "loop", "callback", "gone"}
  /\ back \in {"idle", "wait", "callback"}
  /\ lstopped \in BOOLEAN
  /\ (cur # NoSlot <=> turn = "callback" \/ (turn = "submit" /\ back = "callback"))
  /\ fate \in [TimerNames -> {"none", "pending", "fired", "cancelled"}]
  /\ elapsed \subseteq TimerNames

(* The timeout of timer t in slot s is queued, held by the kernel or       *)
(* complete and not handled.                                               *)
Outstanding(s, t) ==
  \/ \E i \in 1 .. Len(lsq) : lsq[i].op = "TIMEOUT" /\ lsq[i].slot = s /\ lsq[i].t = t
  \/ \E r \in armed : r.slot = s /\ r.t = t
  \/ \E e \in lcq : e.op = "TIMEOUT" /\ e.slot = s /\ e.t = t

(* It belongs to a timer that did not fire, and to the one its slot holds  *)
(* if the slot is in use.                                                  *)
Belongs(s, t) ==
  /\ fate[t] \in {"pending", "cancelled"}
  /\ timers[s].active => timers[s].t = t /\ cur # s

Owned == \A s \in TimerSlots, t \in TimerNames : Outstanding(s, t) => Belongs(s, t)

(* A timer has one request outstanding at most.                            *)
Single ==
  /\ \A i, j \in 1 .. Len(lsq) :
       lsq[i].op = "TIMEOUT" /\ lsq[j].op = "TIMEOUT" /\ lsq[i].t = lsq[j].t => i = j
  /\ \A i \in 1 .. Len(lsq), r \in armed : lsq[i].op = "TIMEOUT" => lsq[i].t # r.t
  /\ \A i \in 1 .. Len(lsq), e \in lcq :
       lsq[i].op = "TIMEOUT" /\ e.op = "TIMEOUT" => lsq[i].t # e.t
  /\ \A r \in armed, e \in lcq : e.op = "TIMEOUT" => r.t # e.t
  /\ \A r, x \in armed : r.t = x.t => r = x
  /\ \A e, f \in lcq : e.op = "TIMEOUT" /\ f.op = "TIMEOUT" /\ e.t = f.t => e = f

(* What a slot in use holds.                                               *)
Holds ==
  /\ \A s \in TimerSlots : timers[s].active =>
       /\ timers[s].t \in TimerNames
       /\ fate[timers[s].t] = IF cur = s THEN "fired" ELSE "pending"
  /\ \A s, u \in TimerSlots :
       timers[s].active /\ timers[u].active /\ timers[s].t = timers[u].t => s = u

(* What a completion says is true, and so is what a callback was told.     *)
Truthful ==
  /\ \A e \in lcq : e.op = "TIMEOUT" /\ e.res = "ETIME" => e.t \in elapsed
  /\ \A t \in TimerNames : fate[t] = "fired" => t \in elapsed
  /\ \A t \in elapsed : fate[t] # "none"

LoopInv == Types /\ Owned /\ Single /\ Holds /\ Truthful
-----------------------------------------------------------------------------
(* Queueing a request at the end of the submission queue.                  *)
LEMMA AppendFacts ==
  ASSUME NEW S, NEW q \in Seq(S), NEW x \in S
  PROVE  /\ Append(q, x) \in Seq(S) /\ Len(Append(q, x)) = Len(q) + 1
         /\ \A i \in 1 .. Len(q) : Append(q, x)[i] = q[i]
         /\ Append(q, x)[Len(q) + 1] = x
  OBVIOUS

(* Taking the request at the head of the submission queue.                 *)
LEMMA TailFacts ==
  ASSUME NEW S, NEW q \in Seq(S), q # <<>>
  PROVE  /\ Tail(q) \in Seq(S) /\ Len(Tail(q)) = Len(q) - 1 /\ Len(q) \in Nat \ {0}
         /\ \A i \in 1 .. Len(q) - 1 : Tail(q)[i] = q[i + 1]
         /\ Head(q) = q[1] /\ q[1] \in S
  OBVIOUS

(* An empty loop satisfies the invariant.                                  *)
LEMMA InitInv == LoopInit => LoopInv
<1> SUFFICES ASSUME LoopInit PROVE LoopInv
  OBVIOUS
<1> USE DEF LoopInit
<1>1. lsq = <<>> /\ Len(lsq) = 0 /\ lsq \in Seq(Requests)
  OBVIOUS
<1>2. \A s \in TimerSlots : timers[s].active = FALSE
  OBVIOUS
<1>3. Types
  BY <1>1 DEF Types, NoSlot
<1>4. Owned /\ Single
  BY <1>1 DEF Owned, Outstanding, Single
<1>5. Holds
  BY <1>2 DEF Holds
<1>6. Truthful
  BY DEF Truthful
<1> QED BY <1>3, <1>4, <1>5, <1>6 DEF LoopInv
-----------------------------------------------------------------------------
(* Steps of the thread that handle nothing.                                *)
LEMMA TurnInv ==
  ASSUME LoopInv,
         \/ LoopRunOnce \/ Submitted \/ LoopWaitEnds \/ LoopEnds \/ LoopStop
         \/ UNCHANGED loopVars
  PROVE  LoopInv'
<1> USE DEF LoopRunOnce, Submitted, LoopWaitEnds, LoopEnds, LoopStop, loopVars
<1>1. Types'
  BY DEF LoopInv, Types
<1>2. Owned' /\ Single'
  BY DEF LoopInv, Owned, Outstanding, Single, Belongs
<1>3. Holds' /\ Truthful'
  BY DEF LoopInv, Holds, Truthful
<1> QED BY <1>1, <1>2, <1>3 DEF LoopInv

(* ioh_loop_destroy leaves no request.                                     *)
LEMMA DestroyInv ==
  ASSUME LoopInv, LoopDestroy
  PROVE  LoopInv'
<1> USE DEF LoopDestroy
<1>1. lsq' \in Seq(Requests) /\ Len(lsq') = 0
  OBVIOUS
<1>2. Types'
  BY <1>1 DEF LoopInv, Types
<1>3. Owned' /\ Single'
  BY <1>1 DEF Owned, Outstanding, Single
<1>4. Holds' /\ Truthful'
  BY DEF LoopInv, Holds, Truthful
<1> QED BY <1>2, <1>3, <1>4 DEF LoopInv

(* Only a timer asked for has a request outstanding.                       *)
LEMMA NoRequest ==
  ASSUME LoopInv, NEW t \in TimerNames, fate[t] = "none" \/ fate[t] = "fired"
  PROVE  /\ \A i \in 1 .. Len(lsq) : lsq[i].op = "TIMEOUT" => lsq[i].t # t
         /\ \A r \in armed : r.t # t
         /\ \A e \in lcq : e.op = "TIMEOUT" => e.t # t
<1>1. \A s \in TimerSlots : ~Outstanding(s, t)
  BY DEF LoopInv, Owned, Belongs
<1>2. \A i \in 1 .. Len(lsq) : lsq[i].op = "TIMEOUT" => lsq[i].slot \in TimerSlots
  <2>1. \A i \in 1 .. Len(lsq) : lsq[i] \in Requests
    BY DEF LoopInv, Types
  <2> QED BY <2>1 DEF Requests, TimeoutReq, OtherReq
<1>3. \A r \in armed : r.slot \in TimerSlots
  BY DEF LoopInv, Types, TimeoutReq
<1>4. \A e \in lcq : e.op = "TIMEOUT" => e.slot \in TimerSlots
  BY DEF LoopInv, Types, TimeoutCqe, OtherCqe
<1> QED BY <1>1, <1>2, <1>3, <1>4 DEF Outstanding

(* A quiet slot has no request outstanding.                                *)
LEMMA QuietFacts ==
  ASSUME LoopInv, NEW s \in TimerSlots, Quiet(s)
  PROVE  \A t \in TimerNames : ~Outstanding(s, t)
<1>1. \A i \in 1 .. Len(lsq) : i \in DOMAIN lsq
  BY DEF LoopInv, Types
<1> QED BY <1>1 DEF Quiet, Outstanding

(* A slot is freed; it keeps its callback.                                 *)
LEMMA FreeFacts ==
  ASSUME Types, NEW s \in TimerSlots, timers' = [timers EXCEPT ![s].active = FALSE]
  PROVE  /\ timers' \in [TimerSlots -> [active : BOOLEAN, t : TimerNames \cup {NoTimer}]]
         /\ ~timers'[s].active /\ timers'[s].t = timers[s].t
         /\ \A u \in TimerSlots \ {s} : timers'[u] = timers[u]
<1>1. timers' = [timers EXCEPT ![s] = [timers[s] EXCEPT !.active = FALSE]]
  OBVIOUS
<1>2. timers[s] \in [active : BOOLEAN, t : TimerNames \cup {NoTimer}]
  BY DEF Types
<1>3. /\ [timers[s] EXCEPT !.active = FALSE] \in [active : BOOLEAN, t : TimerNames \cup {NoTimer}]
      /\ [timers[s] EXCEPT !.active = FALSE].active = FALSE
      /\ [timers[s] EXCEPT !.active = FALSE].t = timers[s].t
  BY <1>2
<1>4. timers'[s] = [timers[s] EXCEPT !.active = FALSE]
  BY <1>1 DEF Types
<1>5. \A u \in TimerSlots \ {s} : timers'[u] = timers[u]
  BY <1>1 DEF Types
<1>6. timers' \in [TimerSlots -> [active : BOOLEAN, t : TimerNames \cup {NoTimer}]]
  BY <1>1, <1>3 DEF Types
<1> QED BY <1>3, <1>4, <1>5, <1>6

(* ioh_loop_add_timer by a careful client: the slot taken has no request   *)
(* outstanding, so that the new one is the only one.                       *)
LEMMA AddInv ==
  ASSUME LoopInv, Hasty = FALSE, NEW t \in TimerNames, AddTimer(t)
  PROVE  LoopInv'
<1> PICK s \in TimerSlots :
      /\ FirstFree(s)
      /\ timers' = [timers EXCEPT ![s] = [active |-> TRUE, t |-> t]]
      /\ lsq' = Append(lsq, Timeout(s, t))
  BY DEF AddTimer
<1>1. /\ fate[t] = "none" /\ fate' = [fate EXCEPT ![t] = "pending"]
      /\ UNCHANGED <<armed, lcq, turn, cur, back, lstopped, elapsed>>
      /\ Quiet(s) /\ ~timers[s].active
  BY DEF AddTimer, FirstFree, FreeSlots
<1>2. Timeout(s, t) \in Requests /\ Timeout(s, t).op = "TIMEOUT"
      /\ Timeout(s, t).slot = s /\ Timeout(s, t).t = t
  BY DEF Timeout, Requests, TimeoutReq
<1>3. /\ lsq' \in Seq(Requests) /\ Len(lsq') = Len(lsq) + 1 /\ Len(lsq) \in Nat
      /\ \A i \in 1 .. Len(lsq) : lsq'[i] = lsq[i]
      /\ lsq'[Len(lsq) + 1] = Timeout(s, t)
  BY <1>2, AppendFacts DEF LoopInv, Types
<1>4. \A u \in TimerSlots : timers'[u] = IF u = s THEN [active |-> TRUE, t |-> t] ELSE timers[u]
  BY DEF LoopInv, Types
<1>5. \A x \in TimerNames : fate'[x] = IF x = t THEN "pending" ELSE fate[x]
  BY <1>1 DEF LoopInv, Types
<1>6. Types'
  BY <1>1, <1>3, <1>4 DEF LoopInv, Types
<1>7. /\ \A i \in 1 .. Len(lsq) : lsq[i].op = "TIMEOUT" => lsq[i].t # t
      /\ \A r \in armed : r.t # t
      /\ \A e \in lcq : e.op = "TIMEOUT" => e.t # t
  BY <1>1, NoRequest
<1>8. Owned'
  <2> SUFFICES ASSUME NEW u \in TimerSlots, NEW x \in TimerNames, Outstanding(u, x)'
               PROVE  Belongs(u, x)'
    BY DEF Owned
  <2>1. CASE u = s /\ x = t
    BY <1>1, <1>4, <1>5, <2>1 DEF Belongs, Quiet
  <2>2. CASE ~(u = s /\ x = t)
    <3>1. Outstanding(u, x)
      BY <1>1, <1>2, <1>3, <2>2 DEF Outstanding
    <3>2. u # s /\ x # t
      BY <1>1, <3>1, QuietFacts DEF LoopInv, Owned, Belongs
    <3> QED BY <1>1, <1>4, <1>5, <3>1, <3>2 DEF LoopInv, Owned, Belongs
  <2> QED BY <2>1, <2>2
<1>9. Single'
  BY <1>1, <1>2, <1>3, <1>7 DEF LoopInv, Single
<1>10. Holds'
  BY <1>1, <1>4, <1>5 DEF LoopInv, Holds, Quiet
<1>11. Truthful'
  BY <1>1, <1>5 DEF LoopInv, Truthful
<1> QED BY <1>6, <1>8, <1>9, <1>10, <1>11 DEF LoopInv

(* ioh_loop_add_timer without a request to spare.                          *)
LEMMA AddNoSqeInv ==
  ASSUME LoopInv, NEW t \in TimerNames, AddTimerNoSqe(t)
  PROVE  LoopInv'
<1> PICK s \in TimerSlots :
      /\ FirstFree(s)
      /\ timers' = [timers EXCEPT ![s] = [active |-> FALSE, t |-> t]]
  BY DEF AddTimerNoSqe
<1>1. UNCHANGED <<lsq, armed, lcq, turn, cur, back, lstopped, fate, elapsed>>
  BY DEF AddTimerNoSqe
<1>2. \A u \in TimerSlots : timers'[u] = IF u = s THEN [active |-> FALSE, t |-> t] ELSE timers[u]
  BY DEF LoopInv, Types
<1>3. Types'
  BY <1>1, <1>2 DEF LoopInv, Types
<1>4. Owned' /\ Single'
  BY <1>1, <1>2 DEF LoopInv, Owned, Outstanding, Belongs, Single
<1>5. Holds' /\ Truthful'
  BY <1>1, <1>2 DEF LoopInv, Holds, Truthful
<1> QED BY <1>3, <1>4, <1>5 DEF LoopInv

(* A request queued that is not a timeout.                                 *)
LEMMA QueueOther ==
  ASSUME LoopInv, NEW r \in OtherReq, lsq' = Append(lsq, r), UNCHANGED <<armed, lcq>>
  PROVE  /\ lsq' \in Seq(Requests)
         /\ \A s \in TimerSlots, t \in TimerNames : Outstanding(s, t)' <=> Outstanding(s, t)
         /\ Single'
<1>1. r \in Requests /\ r.op # "TIMEOUT"
  BY DEF Requests, OtherReq
<1>2. /\ lsq' \in Seq(Requests) /\ Len(lsq') = Len(lsq) + 1 /\ Len(lsq) \in Nat
      /\ \A i \in 1 .. Len(lsq) : lsq'[i] = lsq[i]
      /\ lsq'[Len(lsq) + 1] = r
  BY <1>1, AppendFacts DEF LoopInv, Types
<1>3. \A s \in TimerSlots, t \in TimerNames : Outstanding(s, t)' <=> Outstanding(s, t)
  BY <1>1, <1>2 DEF Outstanding
<1>4. Single'
  BY <1>1, <1>2 DEF LoopInv, Single
<1> QED BY <1>2, <1>3, <1>4

(* ioh_loop_submit_nop.                                                    *)
LEMMA NopInv ==
  ASSUME LoopInv, SubmitNop
  PROVE  LoopInv'
<1> USE DEF SubmitNop
<1>1. Nop \in OtherReq
  BY DEF Nop, OtherReq
<1>2. Types'
  BY <1>1, QueueOther DEF LoopInv, Types, InClient
<1>3. Owned' /\ Single'
  BY <1>1, QueueOther DEF LoopInv, Owned, Belongs
<1>4. Holds' /\ Truthful'
  BY DEF LoopInv, Holds, Truthful
<1> QED BY <1>2, <1>3, <1>4 DEF LoopInv

(* ioh_loop_cancel_timer: no other slot holds the timer cancelled.         *)
LEMMA CancelInv ==
  ASSUME LoopInv, NEW s \in TimerSlots, CancelTimer(s)
  PROVE  LoopInv'
<1> DEFINE t == timers[s].t
<1>1. /\ timers[s].active /\ timers' = [timers EXCEPT ![s].active = FALSE]
      /\ lsq' = Append(lsq, Cancel(s))
      /\ fate' = IF cur = s THEN fate ELSE [fate EXCEPT ![t] = "cancelled"]
      /\ UNCHANGED <<armed, lcq, turn, cur, back, lstopped, elapsed>>
  BY DEF CancelTimer
<1>2. Cancel(s) \in OtherReq
  BY LoopAssumption DEF Cancel, OtherReq
<1>3. t \in TimerNames
  BY <1>1 DEF LoopInv, Holds
<1>4. ~timers'[s].active /\ \A u \in TimerSlots \ {s} : timers'[u] = timers[u]
  BY <1>1, FreeFacts DEF LoopInv
<1>5. \A x \in TimerNames : fate'[x] = IF x = t /\ cur # s THEN "cancelled" ELSE fate[x]
  BY <1>1, <1>3 DEF LoopInv, Types
<1>6. Types'
  <2>1. timers' \in [TimerSlots -> [active : BOOLEAN, t : TimerNames \cup {NoTimer}]]
    BY <1>1, FreeFacts DEF LoopInv
  <2>2. fate' \in [TimerNames -> {"none", "pending", "fired", "cancelled"}]
    BY <1>1, <1>3 DEF LoopInv, Types
  <2> QED BY <1>1, <1>2, <2>1, <2>2, QueueOther DEF LoopInv, Types
<1>7. Single'
  BY <1>1, <1>2, QueueOther
<1>8. Owned'
  <2>1. \A u \in TimerSlots, x \in TimerNames : Outstanding(u, x)' => Belongs(u, x)
    BY <1>1, <1>2, QueueOther DEF LoopInv, Owned
  <2> QED BY <1>1, <1>4, <1>5, <2>1 DEF Owned, Belongs
<1>9. Holds'
  BY <1>1, <1>4, <1>5 DEF LoopInv, Holds
<1>10. Truthful'
  BY <1>1, <1>5 DEF LoopInv, Truthful
<1> QED BY <1>6, <1>7, <1>8, <1>9, <1>10 DEF LoopInv
-----------------------------------------------------------------------------
(* The time of a timeout comes.                                            *)
LEMMA ExpireInv ==
  ASSUME LoopInv, NEW x \in armed, Expire(x)
  PROVE  LoopInv'
<1> USE DEF Expire
<1>1. x \in TimeoutReq /\ x.slot \in TimerSlots /\ x.t \in TimerNames
  BY DEF LoopInv, Types, TimeoutReq
<1>2. /\ Done(x, "ETIME") \in TimeoutCqe /\ Done(x, "ETIME").op = "TIMEOUT"
      /\ Done(x, "ETIME").slot = x.slot /\ Done(x, "ETIME").t = x.t
  BY <1>1 DEF Done, TimeoutReq, TimeoutCqe
<1>3. Types'
  BY <1>1, <1>2 DEF LoopInv, Types
<1>4. Owned'
  <2>1. \A s \in TimerSlots, t \in TimerNames : Outstanding(s, t)' => Outstanding(s, t)
    BY <1>2 DEF Outstanding
  <2> QED BY <2>1 DEF LoopInv, Owned, Belongs
<1>5. Single'
  BY <1>2 DEF LoopInv, Single
<1>6. Holds'
  BY DEF LoopInv, Holds
<1>7. Truthful'
  <2>1. Outstanding(x.slot, x.t)
    BY DEF Outstanding
  <2>2. fate[x.t] # "none"
    BY <1>1, <2>1 DEF LoopInv, Owned, Belongs
  <2> QED BY <1>2, <2>2 DEF LoopInv, Truthful
<1> QED BY <1>3, <1>4, <1>5, <1>6, <1>7 DEF LoopInv

(* io_uring_submit takes a request: it stays outstanding, or completes.    *)
LEMMA SubmitInv ==
  ASSUME LoopInv, SubmitOne
  PROVE  LoopInv'
<1> DEFINE r == Head(lsq)
<1>1. /\ lsq # <<>> /\ lsq' = Tail(lsq)
      /\ UNCHANGED <<timers, turn, cur, back, lstopped, fate, elapsed>>
  BY DEF SubmitOne
<1>2. /\ lsq' \in Seq(Requests) /\ Len(lsq') = Len(lsq) - 1 /\ Len(lsq) \in Nat \ {0}
      /\ \A i \in 1 .. Len(lsq) - 1 : lsq'[i] = lsq[i + 1]
      /\ r = lsq[1] /\ r \in Requests
  BY <1>1, TailFacts DEF LoopInv, Types
<1>3. \A i \in 1 .. Len(lsq') : i + 1 \in 1 .. Len(lsq) /\ i + 1 # 1 /\ lsq'[i] = lsq[i + 1]
  BY <1>2
<1>4. 1 \in 1 .. Len(lsq)
  BY <1>2
<1>5. /\ \A i, j \in 1 .. Len(lsq') :
           lsq'[i].op = "TIMEOUT" /\ lsq'[j].op = "TIMEOUT" /\ lsq'[i].t = lsq'[j].t => i = j
      /\ \A i \in 1 .. Len(lsq') : lsq'[i].op = "TIMEOUT" =>
           /\ r.op = "TIMEOUT" => lsq'[i].t # r.t
           /\ \A x \in armed : lsq'[i].t # x.t
           /\ \A e \in lcq : e.op = "TIMEOUT" => lsq'[i].t # e.t
  <2>1. \A i, j \in 1 .. Len(lsq) :
          lsq[i].op = "TIMEOUT" /\ lsq[j].op = "TIMEOUT" /\ lsq[i].t = lsq[j].t => i = j
    BY DEF LoopInv, Single
  <2>2. ASSUME NEW i \in 1 .. Len(lsq'), NEW j \in 1 .. Len(lsq'),
               lsq'[i].op = "TIMEOUT", lsq'[j].op = "TIMEOUT", lsq'[i].t = lsq'[j].t
        PROVE  i = j
    <3>1. i + 1 = j + 1
      BY <1>3, <2>1, <2>2
    <3> QED BY <1>2, <3>1
  <2>3. ASSUME NEW i \in 1 .. Len(lsq'), lsq'[i].op = "TIMEOUT"
        PROVE  /\ r.op = "TIMEOUT" => lsq'[i].t # r.t
               /\ \A x \in armed : lsq'[i].t # x.t
               /\ \A e \in lcq : e.op = "TIMEOUT" => lsq'[i].t # e.t
    BY <1>2, <1>3, <1>4, <2>3 DEF LoopInv, Single
  <2> QED BY <2>2, <2>3
<1>6. r.op = "TIMEOUT" => /\ \A x \in armed : r.t # x.t
                          /\ \A e \in lcq : e.op = "TIMEOUT" => r.t # e.t
  BY <1>2, <1>4 DEF LoopInv, Single
<1> HIDE DEF r
<1>7. Holds'
  BY <1>1 DEF LoopInv, Holds
<1>8. CASE r.op = "TIMEOUT" /\ armed' = armed \cup {r} /\ lcq' = lcq
  <2>1. r \in TimeoutReq
    BY <1>2, <1>8 DEF Requests, OtherReq
  <2>2. Types'
    BY <1>1, <1>2, <1>8, <2>1 DEF LoopInv, Types
  <2>3. \A s \in TimerSlots, t \in TimerNames : Outstanding(s, t)' => Outstanding(s, t)
    BY <1>2, <1>3, <1>4, <1>8 DEF Outstanding
  <2>4. Owned'
    BY <1>1, <2>3 DEF LoopInv, Owned, Belongs
  <2>5. Single'
    BY <1>5, <1>6, <1>8 DEF LoopInv, Single
  <2>6. Truthful'
    BY <1>1, <1>8 DEF LoopInv, Truthful
  <2> QED BY <1>7, <2>2, <2>4, <2>5, <2>6 DEF LoopInv
<1>9. CASE /\ r.op \in {"NOP", "CANCEL"} /\ armed' = armed
           /\ \E res \in {"OK", "ENOENT"} : lcq' = lcq \cup {Done(r, res)}
  <2> PICK res \in {"OK", "ENOENT"} : lcq' = lcq \cup {Done(r, res)}
    BY <1>9
  <2>1. Done(r, res) \in OtherCqe /\ Done(r, res).op # "TIMEOUT"
    BY <1>2, <1>9 DEF Requests, TimeoutReq, OtherReq, OtherCqe, Done
  <2>2. Types'
    BY <1>1, <1>2, <1>9, <2>1 DEF LoopInv, Types
  <2>3. \A s \in TimerSlots, t \in TimerNames : Outstanding(s, t)' => Outstanding(s, t)
    BY <1>3, <1>9, <2>1 DEF Outstanding
  <2>4. Owned'
    BY <1>1, <2>3 DEF LoopInv, Owned, Belongs
  <2>5. Single'
    BY <1>9, <1>5, <2>1 DEF LoopInv, Single
  <2>6. Truthful'
    BY <1>1, <2>1 DEF LoopInv, Truthful
  <2> QED BY <1>7, <2>2, <2>4, <2>5, <2>6 DEF LoopInv
<1>10. CASE /\ r.op = "CANCEL"
           /\ \E x \in armed : /\ armed' = armed \ {x}
                               /\ lcq' = lcq \cup {Done(x, "ECANCELED"), Done(r, "OK")}
  <2> PICK x \in armed : /\ armed' = armed \ {x}
                         /\ lcq' = lcq \cup {Done(x, "ECANCELED"), Done(r, "OK")}
    BY <1>10
  <2>1. Done(r, "OK") \in OtherCqe /\ Done(r, "OK").op # "TIMEOUT"
    BY <1>2, <1>10 DEF Requests, TimeoutReq, OtherReq, OtherCqe, Done
  <2>2. /\ Done(x, "ECANCELED") \in TimeoutCqe /\ Done(x, "ECANCELED").op = "TIMEOUT"
        /\ Done(x, "ECANCELED").slot = x.slot /\ Done(x, "ECANCELED").t = x.t
        /\ Done(x, "ECANCELED").res # "ETIME"
    <3>1. x \in TimeoutReq
      BY DEF LoopInv, Types
    <3> QED BY <3>1 DEF TimeoutReq, TimeoutCqe, Done
  <2>3. Types'
    BY <1>1, <1>2, <2>1, <2>2 DEF LoopInv, Types
  <2>4. \A s \in TimerSlots, t \in TimerNames : Outstanding(s, t)' => Outstanding(s, t)
    BY <1>3, <2>1, <2>2 DEF Outstanding
  <2>5. Owned'
    BY <1>1, <2>4 DEF LoopInv, Owned, Belongs
  <2>6. Single'
    BY <1>5, <2>1, <2>2 DEF LoopInv, Single
  <2>7. Truthful'
    BY <1>1, <2>1, <2>2 DEF LoopInv, Truthful
  <2> QED BY <1>7, <2>3, <2>5, <2>6, <2>7 DEF LoopInv
<1> QED BY <1>8, <1>9, <1>10 DEF SubmitOne, r

(* The callback of a slot is called: the completion is of the timer the    *)
(* slot holds, and of no other request.                                    *)
LEMMA FiringFacts ==
  ASSUME LoopInv, NEW e \in lcq, HandleExpiry(e)
  PROVE  /\ e.slot \in TimerSlots /\ e.t \in TimerNames /\ timers[e.slot].t = e.t
         /\ fate[e.t] = "pending" /\ e.t \in elapsed /\ cur = NoSlot
         /\ fate' = [fate EXCEPT ![e.t] = "fired"]
<1> USE DEF HandleExpiry, CallsBack
<1>1. e.slot \in TimerSlots /\ e.t \in TimerNames
  BY DEF LoopInv, Types, TimeoutCqe, OtherCqe
<1>2. Outstanding(e.slot, e.t)
  BY DEF Outstanding
<1>3. Belongs(e.slot, e.t)
  BY <1>1, <1>2 DEF LoopInv, Owned
<1>4. timers[e.slot].t = e.t /\ cur # e.slot
  BY <1>3 DEF Belongs
<1>5. fate[e.t] = "pending"
  BY <1>1, <1>4 DEF LoopInv, Holds
<1>6. e.t \in elapsed
  BY DEF LoopInv, Truthful
<1>7. cur = NoSlot
  BY DEF LoopInv, Types
<1> QED BY <1>1, <1>4, <1>5, <1>6, <1>7

(* A callback that ioh_loop_run_once calls is the one of the timer that    *)
(* expired.                                                                *)
LEMMA FireInv ==
  ASSUME LoopInv, NEW e \in lcq, HandleExpiry(e)
  PROVE  LoopInv'
<1> DEFINE s == e.slot
<1> DEFINE t == e.t
<1>1. /\ s \in TimerSlots /\ t \in TimerNames /\ timers[s].t = t /\ timers[s].active
      /\ fate[t] = "pending" /\ t \in elapsed /\ cur = NoSlot
      /\ fate' = [fate EXCEPT ![t] = "fired"]
  BY FiringFacts DEF HandleExpiry, CallsBack
<1>2. /\ lcq' = lcq \ {e} /\ turn' = "callback" /\ cur' = s /\ e.op = "TIMEOUT"
      /\ UNCHANGED <<timers, lsq, armed, back, lstopped, elapsed>>
  BY DEF HandleExpiry, CallsBack
<1>3. \A x \in TimerNames : fate'[x] = IF x = t THEN "fired" ELSE fate[x]
  BY <1>1 DEF LoopInv, Types
<1>4. Types'
  BY <1>1, <1>2, LoopAssumption DEF LoopInv, Types, NoSlot
<1>5. Single'
  BY <1>2 DEF LoopInv, Single
<1>6. Owned'
  <2> SUFFICES ASSUME NEW u \in TimerSlots, NEW x \in TimerNames, Outstanding(u, x)'
               PROVE  Belongs(u, x)'
    BY DEF Owned
  <2>1. Outstanding(u, x) /\ x # t
    BY <1>2 DEF LoopInv, Single, Outstanding
  <2>2. Belongs(u, x)
    BY <2>1 DEF LoopInv, Owned
  <2>3. u # s
    BY <1>1, <2>1, <2>2 DEF Belongs
  <2> QED BY <1>1, <1>2, <1>3, <2>1, <2>2, <2>3 DEF Belongs
<1>7. Holds'
  <2>1. \A u \in TimerSlots : cur # u
    BY <1>1, LoopAssumption DEF NoSlot
  <2> QED BY <1>1, <1>2, <1>3, <2>1 DEF LoopInv, Holds
<1>8. Truthful'
  BY <1>1, <1>2, <1>3 DEF LoopInv, Truthful
<1> QED BY <1>4, <1>5, <1>6, <1>7, <1>8 DEF LoopInv

(* The callback returns.                                                   *)
LEMMA ReturnInv ==
  ASSUME LoopInv, CallbackReturns
  PROVE  LoopInv'
<1> USE DEF CallbackReturns
<1>1. cur \in TimerSlots
  BY DEF LoopInv, Types
<1>2. /\ ~timers'[cur].active /\ \A u \in TimerSlots \ {cur} : timers'[u] = timers[u]
      /\ timers' \in [TimerSlots -> [active : BOOLEAN, t : TimerNames \cup {NoTimer}]]
  BY <1>1, FreeFacts DEF LoopInv
<1>3. \A u \in TimerSlots : cur' # u
  BY LoopAssumption DEF NoSlot
<1>4. Types'
  BY <1>2 DEF LoopInv, Types
<1>5. Single'
  BY DEF LoopInv, Single
<1>6. Owned'
  <2>1. \A u \in TimerSlots, x \in TimerNames : Outstanding(u, x)' => Belongs(u, x)
    BY DEF LoopInv, Owned, Outstanding
  <2> QED BY <1>2, <1>3, <2>1 DEF Owned, Belongs
<1>7. Holds'
  BY <1>2, <1>3 DEF LoopInv, Holds
<1>8. Truthful'
  BY DEF LoopInv, Truthful
<1> QED BY <1>4, <1>5, <1>6, <1>7, <1>8 DEF LoopInv

(* Any other completion.                                                   *)
LEMMA OtherInv ==
  ASSUME LoopInv, NEW e \in lcq, HandleOther(e)
  PROVE  LoopInv'
<1>1. /\ lcq' = lcq \ {e}
      /\ timers' = IF e.op = "TIMEOUT" THEN [timers EXCEPT ![e.slot].active = FALSE] ELSE timers
      /\ UNCHANGED <<lsq, armed, turn, cur, back, lstopped, fate, elapsed>>
  BY DEF HandleOther
<1>2. e.op = "TIMEOUT" => e.slot \in TimerSlots
  BY DEF LoopInv, Types, TimeoutCqe, OtherCqe
<1>3. /\ \A u \in TimerSlots : timers'[u].active => timers'[u] = timers[u]
      /\ timers' \in [TimerSlots -> [active : BOOLEAN, t : TimerNames \cup {NoTimer}]]
  <2>1. CASE e.op = "TIMEOUT"
    BY <1>1, <1>2, <2>1, FreeFacts DEF LoopInv
  <2>2. CASE e.op # "TIMEOUT"
    BY <1>1, <2>2 DEF LoopInv, Types
  <2> QED BY <2>1, <2>2
<1>4. Types'
  BY <1>1, <1>3 DEF LoopInv, Types
<1>5. Single'
  BY <1>1 DEF LoopInv, Single
<1>6. Owned'
  <2>1. \A u \in TimerSlots, x \in TimerNames : Outstanding(u, x)' => Belongs(u, x)
    BY <1>1 DEF LoopInv, Owned, Outstanding
  <2> QED BY <1>1, <1>3, <2>1 DEF Owned, Belongs
<1>7. Holds'
  BY <1>1, <1>3 DEF LoopInv, Holds
<1>8. Truthful'
  BY <1>1 DEF LoopInv, Truthful
<1> QED BY <1>4, <1>5, <1>6, <1>7, <1>8 DEF LoopInv

(* The invariant is inductive, whatever the step.                          *)
LEMMA NextInv ==
  ASSUME LoopInv, Hasty = FALSE, [LoopNext]_loopVars
  PROVE  LoopInv'
  BY TurnInv, DestroyInv, AddInv, AddNoSqeInv, NopInv, CancelInv, ExpireInv,
     SubmitInv, FireInv, ReturnInv, OtherInv
  DEF LoopNext, LoopThread
-----------------------------------------------------------------------------
(* A callback of the loop runs only once the time of its own timer has     *)
(* come (ioh_loop_run_once), for a client that lets a cancelled slot       *)
(* become quiet before it adds a timer.                                    *)
THEOREM TimersFireOnTime ==
  ASSUME Hasty = FALSE
  PROVE  LoopSpec => []FiresOnTime
<1>1. LoopInv => FiresOnTime
  BY DEF LoopInv, Truthful, FiresOnTime
<1>2. LoopInv /\ [LoopNext]_loopVars => LoopInv'
  BY NextInv
<1> QED BY <1>1, <1>2, InitInv, PTL DEF LoopSpec

(* What a step does to the timers as the client sees them.                 *)
LEMMA StatusFacts ==
  ASSUME NEW t \in TimerNames, NEW to,
         \A x \in TimerNames \ {t} : TimerStatus'[x] = TimerStatus[x],
         TimerStatus'[t] = to
  PROVE  TimerStatus' = [TimerStatus EXCEPT ![t] = to]
  BY DEF TimerStatus

(* A step of the loop is a step of the timers it promises, or none.        *)
LEMMA StepRefines ==
  ASSUME LoopInv, Hasty = FALSE, [LoopNext]_loopVars
  PROVE  [Service!Next]_TimerStatus
<1>1. CASE UNCHANGED <<fate, elapsed>>
  BY <1>1 DEF TimerStatus
<1>2. ASSUME NEW t \in TimerNames, AddTimer(t)
      PROVE  Service!Next
  <2>1. fate[t] = "none" /\ fate' = [fate EXCEPT ![t] = "pending"] /\ elapsed' = elapsed
    BY <1>2 DEF AddTimer
  <2>2. t \notin elapsed
    BY <2>1 DEF LoopInv, Truthful
  <2>3. \A x \in TimerNames : fate'[x] = IF x = t THEN "pending" ELSE fate[x]
    BY <2>1 DEF LoopInv, Types
  <2>4. TimerStatus[t] = "none" /\ TimerStatus' = [TimerStatus EXCEPT ![t] = "pending"]
    BY <2>1, <2>2, <2>3, StatusFacts DEF TimerStatus
  <2> QED BY <2>4 DEF Service!Next, Service!Moves
<1>3. ASSUME NEW s \in TimerSlots, CancelTimer(s), cur # s
      PROVE  Service!Next
  <2> DEFINE t == timers[s].t
  <2>1. /\ t \in TimerNames /\ fate[t] = "pending"
        /\ fate' = [fate EXCEPT ![t] = "cancelled"] /\ elapsed' = elapsed
    BY <1>3 DEF CancelTimer, LoopInv, Holds
  <2>2. \A x \in TimerNames : fate'[x] = IF x = t THEN "cancelled" ELSE fate[x]
    BY <2>1 DEF LoopInv, Types
  <2>3. TimerStatus[t] \in {"pending", "expired"}
    BY <2>1 DEF TimerStatus
  <2>4. TimerStatus' = [TimerStatus EXCEPT ![t] = "cancelled"]
    BY <2>1, <2>2, StatusFacts DEF TimerStatus
  <2> QED BY <2>1, <2>3, <2>4 DEF Service!Next, Service!Moves
<1>4. ASSUME NEW x \in armed, Expire(x)
      PROVE  [Service!Next]_TimerStatus
  <2> DEFINE t == x.t
  <2>1. t \in TimerNames /\ elapsed' = elapsed \cup {t} /\ fate' = fate
    BY <1>4 DEF Expire, LoopInv, Types, TimeoutReq
  <2> HIDE DEF t
  <2>2. CASE fate[t] = "pending" /\ t \notin elapsed
    <3>1. TimerStatus[t] = "pending" /\ TimerStatus' = [TimerStatus EXCEPT ![t] = "expired"]
      BY <2>1, <2>2, StatusFacts DEF TimerStatus
    <3> QED BY <2>1, <3>1 DEF Service!Next, Service!Moves
  <2>3. CASE ~(fate[t] = "pending" /\ t \notin elapsed)
    <3>1. \A y \in TimerNames : (fate[y] = "pending" /\ y \in elapsed')
                               <=> (fate[y] = "pending" /\ y \in elapsed)
      BY <2>1, <2>3
    <3> QED BY <2>1, <3>1 DEF TimerStatus
  <2> QED BY <2>2, <2>3
<1>5. ASSUME NEW e \in lcq, HandleExpiry(e)
      PROVE  Service!Next
  <2> DEFINE t == e.t
  <2>1. /\ t \in TimerNames /\ fate[t] = "pending" /\ t \in elapsed
        /\ fate' = [fate EXCEPT ![t] = "fired"] /\ elapsed' = elapsed
    BY <1>5, FiringFacts DEF HandleExpiry
  <2> HIDE DEF t
  <2>2. \A x \in TimerNames : fate'[x] = IF x = t THEN "fired" ELSE fate[x]
    BY <2>1 DEF LoopInv, Types
  <2>3. TimerStatus[t] = "expired" /\ TimerStatus' = [TimerStatus EXCEPT ![t] = "fired"]
    BY <2>1, <2>2, StatusFacts DEF TimerStatus
  <2> QED BY <2>1, <2>3 DEF Service!Next, Service!Moves
<1>6. \/ UNCHANGED <<fate, elapsed>>
      \/ \E t \in TimerNames : AddTimer(t)
      \/ \E s \in TimerSlots : CancelTimer(s) /\ cur # s
      \/ \E x \in armed : Expire(x)
      \/ \E e \in lcq : HandleExpiry(e)
  <2>1. \A s \in TimerSlots : CancelTimer(s) => cur # s \/ UNCHANGED <<fate, elapsed>>
    BY DEF CancelTimer
  <2> QED BY <2>1
          DEF LoopNext, LoopThread, loopVars, LoopRunOnce, SubmitOne, Submitted, LoopWaitEnds,
              CallbackReturns, LoopEnds, HandleOther, AddTimerNoSqe, SubmitNop, LoopStop, LoopDestroy
<1> QED BY <1>1, <1>2, <1>3, <1>4, <1>5, <1>6

(* The loop implements its timers: a callback runs at most once for a      *)
(* timer, after the expiry of that timer and not after its cancellation,   *)
(* however slots are reused, for a client that lets a cancelled slot       *)
(* become quiet before it adds a timer (core/ioh_loop.h:104-114).          *)
THEOREM LoopImplementsTimers ==
  ASSUME Hasty = FALSE
  PROVE  LoopSpec => TimerContract
<1>1. LoopInit => Service!Init
  BY DEF LoopInit, Service!Init, TimerStatus
<1>2. LoopInv /\ [LoopNext]_loopVars => LoopInv'
  BY NextInv
<1>3. LoopInv /\ [LoopNext]_loopVars => [Service!Next]_TimerStatus
  BY StepRefines
<1> QED BY <1>1, <1>2, <1>3, InitInv, PTL DEF LoopSpec, TimerContract, Service!Spec
=============================================================================
