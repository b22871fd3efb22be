--------------------------- MODULE RateLimitProofs ---------------------------
(***************************************************************************)
(* The rate limiter keeps its bound for every table size, hash, rate and   *)
(* burst. The bound is not inductive: what bounds the admissions to come   *)
(* is what is left in the one bucket a key finds (Budget), and a key that  *)
(* was admitted keeps finding the same bucket (Backed), because a bucket   *)
(* is never given back.                                                    *)
(***************************************************************************)
EXTENDS RateLimit, TLAPS

RateTypes ==
  /\ now \in Nat /\ mark \in Nat /\ mark <= now
  /\ table \in [BucketSlots -> {Vacant} \cup Bucket]
  /\ \A s \in BucketSlots : table[s].in_use => table[s].last_refill <= now
  /\ admitted \in [Keys -> Nat]

(* The key finds a bucket that is in use at step i of its probe.           *)
Holds(k, i) == FindsAt(k, i) /\ table[Slot(k, i)].in_use

(* What a bucket leaves for its key in the window.                         *)
Within(k, b) ==
  IF b.last_refill < mark THEN admitted[k] = 0
  ELSE b.tokens + admitted[k] * Cost <= Capacity + Rate * (b.last_refill - mark)

Budget == \A k \in Short, i \in BucketSlots : Holds(k, i) => Within(k, table[Slot(k, i)])
Backed == \A k \in Short : admitted[k] # 0 => \E i \in BucketSlots : Holds(k, i)

RateInv == RateTypes /\ RateBounded /\ (limiting => Budget /\ Backed)
-----------------------------------------------------------------------------
(* The steps of a probe are slots of the table.                            *)
LEMMA SlotFact == ASSUME NEW k \in Keys, NEW i \in BucketSlots PROVE Slot(k, i) \in BucketSlots
  <1>1. Hash[k] \in Int /\ i \in Int /\ Buckets \in Int /\ Buckets > 0
    BY RateAssumption DEF BucketSlots
  <1> QED BY <1>1 DEF Slot, BucketSlots

(* Products with the rate and the cost.                                    *)
LEMMA ProductNat == ASSUME NEW x \in Nat, NEW y \in Nat PROVE x * y \in Nat
  OBVIOUS

(* Time that passes in two parts refills the same.                         *)
LEMMA Distribute ==
  ASSUME NEW r \in Int, NEW x \in Int, NEW y \in Int
  PROVE  r * (x + y) = r * x + r * y
  OBVIOUS

(* The burst, in units of the refill.                                      *)
LEMMA CapacityNat == Capacity \in Nat
  BY RateAssumption, ProductNat DEF Capacity

(* A probe finds one bucket.                                               *)
LEMMA FindsOnce ==
  ASSUME NEW k, NEW i \in BucketSlots, NEW j \in BucketSlots, FindsAt(k, i), FindsAt(k, j)
  PROVE  i = j
  <1>1. i \in Int /\ j \in Int BY RateAssumption DEF BucketSlots
  <1>2. ~(i < j) /\ ~(j < i) BY DEF FindsAt
  <1> QED BY <1>1, <1>2

(* A free slot and a bucket in use, as records.                            *)
LEMMA RecordFacts ==
  /\ Vacant.in_use = FALSE
  /\ \A b \in Bucket : /\ b.in_use = TRUE /\ b.key \in Keys /\ b.tokens \in 0 .. Capacity
                       /\ b.last_refill \in Nat
  BY DEF Vacant, Bucket

(* With every slot free, no key finds a bucket that is in use.             *)
LEMMA ClearedFacts ==
  ASSUME table' = Cleared, admitted' = None
  PROVE  Budget' /\ Backed'
  <1>1. ASSUME NEW k \in Short, NEW i \in BucketSlots PROVE ~Holds(k, i)'
    <2>1. Slot(k, i) \in BucketSlots BY SlotFact DEF Short
    <2> QED BY <2>1 DEF Holds, Cleared, Vacant
  <1>2. \A k \in Short : admitted'[k] = 0 BY DEF None, Short
  <1> QED BY <1>1, <1>2 DEF Budget, Backed

(* The table and the counts after ioh_ratelimit_reset have their types.    *)
LEMMA ClearedTypes == Cleared \in [BucketSlots -> {Vacant} \cup Bucket] /\ None \in [Keys -> Nat]
  BY DEF Cleared, None

(* Nothing was admitted in a window that begins now.                       *)
LEMMA NoneBounded ==
  ASSUME NEW n \in Nat, mark' = n, now' = n, admitted' = None
  PROVE  RateBounded'
  <1>1. ASSUME NEW k \in Short PROVE admitted'[k] * Cost <= Capacity + Rate * (now' - mark')
    <2>1. admitted'[k] = 0 BY DEF None, Short
    <2>2. n - n = 0 OBVIOUS
    <2>3. 0 * Cost = 0 /\ Rate * 0 = 0 BY RateAssumption
    <2> QED BY <2>1, <2>2, <2>3, CapacityNat
  <1> QED BY <1>1 DEF RateBounded
-----------------------------------------------------------------------------
(* No table, no admissions: the invariant holds at first.                  *)
LEMMA RateInitInv == RateInit => RateInv
  <1> SUFFICES ASSUME RateInit PROVE RateInv OBVIOUS
  <1>1. RateTypes
    <2>1. \A s \in BucketSlots : Cleared[s].in_use = FALSE BY DEF Cleared, Vacant
    <2>2. now \in Nat /\ mark \in Nat /\ mark <= now
      BY DEF RateInit
    <2> QED BY <2>1, <2>2, ClearedTypes DEF RateInit, RateTypes
  <1>2. RateBounded
    <2>1. ASSUME NEW k \in Short PROVE admitted[k] * Cost <= Capacity + Rate * (now - mark)
      <3>1. admitted[k] = 0 /\ now = 0 /\ mark = 0 BY DEF RateInit, None, Short
      <3>2. 0 * Cost = 0 /\ Rate * 0 = 0 /\ 0 - 0 = 0 BY RateAssumption
      <3> QED BY <3>1, <3>2, CapacityNat
    <2> QED BY <2>1 DEF RateBounded
  <1> QED BY <1>1, <1>2 DEF RateInv, RateInit

(* A new or an emptied table.                                              *)
LEMMA RenewInv == RateInv /\ (RatelimitCreate \/ RatelimitReset) => RateInv'
  <1> SUFFICES ASSUME RateInv, RatelimitCreate \/ RatelimitReset PROVE RateInv' OBVIOUS
  <1>1. /\ table' = Cleared /\ admitted' = None /\ mark' = now' /\ now' = now
        /\ limiting' = TRUE
    BY Zenon DEF RatelimitCreate, RatelimitReset, RateInv, RateTypes
  <1>2. now \in Nat /\ mark' = now /\ now' = now BY <1>1 DEF RateInv, RateTypes
  <1>3. \A s \in BucketSlots : Cleared[s].in_use = FALSE BY DEF Cleared, Vacant
  <1>4. RateTypes' BY <1>1, <1>2, <1>3, ClearedTypes DEF RateTypes
  <1> QED BY <1>1, <1>2, <1>4, ClearedFacts, NoneBounded DEF RateInv

(* ioh_ratelimit_destroy leaves nothing that could admit.                  *)
LEMMA DestroyInv == RateInv /\ RatelimitDestroy => RateInv'
  <1> SUFFICES ASSUME RateInv, RatelimitDestroy PROVE RateInv' OBVIOUS
  <1>1. \A s \in BucketSlots : Cleared[s].in_use = FALSE BY DEF Cleared, Vacant
  <1>2. RateTypes' BY <1>1, ClearedTypes DEF RateInv, RateTypes, RatelimitDestroy
  <1>3. RateBounded' BY DEF RateInv, RateBounded, RatelimitDestroy
  <1> QED BY <1>2, <1>3 DEF RateInv, RatelimitDestroy

(* Time only widens what the window allows and what a bucket may refill.   *)
LEMMA TickInv == RateInv /\ Tick => RateInv'
  <1> SUFFICES ASSUME RateInv, Tick PROVE RateInv' OBVIOUS
  <1>1. RateTypes'
    <2>1. \A s \in BucketSlots : table[s].in_use => table[s].last_refill \in Nat
      BY RecordFacts DEF RateInv, RateTypes
    <2> QED BY <2>1 DEF RateInv, RateTypes, Tick
  <1>2. RateBounded'
    <2>1. ASSUME NEW k \in Short PROVE admitted'[k] * Cost <= Capacity + Rate * (now' - mark')
      <3>1. now' - mark' = (now - mark) + 1 /\ now - mark \in Int
        BY DEF RateInv, RateTypes, Tick
      <3>2. Rate * ((now - mark) + 1) = Rate * (now - mark) + Rate * 1
        BY <3>1, Distribute, RateAssumption
      <3>3. Rate * 1 = Rate /\ Rate \in Nat BY RateAssumption
      <3>4. admitted[k] * Cost <= Capacity + Rate * (now - mark)
        BY DEF RateInv, RateBounded
      <3>5. admitted[k] * Cost \in Int /\ Rate * (now - mark) \in Int
        BY <3>1, RateAssumption DEF RateInv, RateTypes, Short
      <3>6. admitted' = admitted BY DEF Tick
      <3>7. Rate * (now' - mark') = Rate * (now - mark) + Rate BY <3>1, <3>2, <3>3
      <3> HIDE DEF Capacity
      <3> QED BY <3>3, <3>4, <3>5, <3>6, <3>7, CapacityNat
    <2> QED BY <2>1 DEF RateBounded
  <1>3. limiting => Budget' /\ Backed'
    BY DEF RateInv, Budget, Backed, Holds, FindsAt, Stops, Within, Tick
  <1> QED BY <1>1, <1>2, <1>3 DEF RateInv, Tick

(* A bucket of a key nothing was admitted of leaves room in any window.    *)
LEMMA IdleWithin ==
  ASSUME NEW k, NEW b, NEW m \in Nat, b.tokens \in 0 .. Capacity, b.last_refill \in Nat
  PROVE  m <= b.last_refill => b.tokens + 0 * Cost <= Capacity + Rate * (b.last_refill - m)
  <1> SUFFICES ASSUME m <= b.last_refill
               PROVE  b.tokens + 0 * Cost <= Capacity + Rate * (b.last_refill - m)
    OBVIOUS
  <1>1. b.last_refill - m \in Nat OBVIOUS
  <1>2. Rate * (b.last_refill - m) \in Nat BY <1>1, RateAssumption, ProductNat
  <1>3. 0 * Cost = 0 BY RateAssumption
  <1> QED BY <1>2, <1>3, CapacityNat

(* A window may begin at any time: every bucket has at most a burst then.  *)
LEMMA ObserveInv == RateInv /\ Observe => RateInv'
  <1> SUFFICES ASSUME RateInv, Observe PROVE RateInv' OBVIOUS
  <1>1. /\ table' = table /\ admitted' = None /\ mark' = now /\ now' = now /\ now \in Nat
        /\ limiting' = limiting
    BY Zenon DEF Observe, RateInv, RateTypes
  <1>2. RateTypes' BY <1>1, ClearedTypes DEF RateInv, RateTypes
  <1>3. RateBounded' BY <1>1, NoneBounded
  <1>4. \A k \in Short : admitted'[k] = 0 BY <1>1 DEF None, Short
  <1>5. Budget'
    <2> SUFFICES ASSUME NEW k \in Short, NEW i \in BucketSlots, Holds(k, i)'
                 PROVE  Within(k, table[Slot(k, i)])'
      BY DEF Budget
    <2> DEFINE b == table[Slot(k, i)]
    <2>1. Slot(k, i) \in BucketSlots BY SlotFact DEF Short
    <2>2. b.in_use BY <1>1 DEF Holds
    <2>3. b \in Bucket BY <2>1, <2>2, RecordFacts DEF RateInv, RateTypes
    <2>4. b.tokens \in 0 .. Capacity /\ b.last_refill \in Nat BY <2>3, RecordFacts
    <2>5. now <= b.last_refill => b.tokens + 0 * Cost <= Capacity + Rate * (b.last_refill - now)
      BY <1>1, <2>4, IdleWithin
    <2> HIDE DEF b, Capacity
    <2>6. b' = b BY <1>1 DEF b
    <2>7. ~(b.last_refill < now) => now <= b.last_refill BY <1>1, <2>4
    <2> QED BY <1>1, <1>4, <2>5, <2>6, <2>7 DEF Within, b
  <1> QED BY <1>1, <1>2, <1>3, <1>4, <1>5 DEF RateInv, Backed
-----------------------------------------------------------------------------
(* What a check does to its bucket: it is found or made, refilled, and     *)
(* pays for the request.                                                   *)
Paid(b) == IF Admits(b) THEN Spent(b) ELSE b

(* refill_bucket adds no more than the rate gives for the time passed.     *)
LEMMA RefillFacts ==
  ASSUME now \in Nat, NEW b \in Bucket, b.last_refill <= now
  PROVE  LET r == Refilled(b)
         IN  /\ r \in Bucket /\ r.key = b.key /\ r.last_refill = now
             /\ r.tokens <= b.tokens + Rate * (now - b.last_refill)
  <1> DEFINE g == Rate * (now - b.last_refill)
  <1>1. b.tokens \in 0 .. Capacity /\ b.last_refill \in Nat /\ b.key \in Keys BY RecordFacts
  <1>2. now - b.last_refill \in Nat BY <1>1
  <1>3. g \in Nat BY <1>2, ProductNat, RateAssumption
  <1> HIDE DEF g, Capacity
  <1> DEFINE t == IF b.tokens + g > Capacity THEN Capacity ELSE b.tokens + g
  <1>4. t \in 0 .. Capacity /\ t <= b.tokens + g BY <1>1, <1>3, CapacityNat
  <1>5. Refilled(b) = Held(b.key, t, now) BY DEF Refilled, Capped, Grown, g
  <1> HIDE DEF t
  <1>6. Refilled(b) = [in_use |-> TRUE, key |-> b.key, tokens |-> t, last_refill |-> now]
    BY <1>5 DEF Held
  <1>7. Refilled(b) \in Bucket BY <1>1, <1>4, <1>6 DEF Bucket
  <1>8. Refilled(b).key = b.key /\ Refilled(b).last_refill = now /\ Refilled(b).tokens = t
    BY <1>6
  <1> QED BY <1>4, <1>7, <1>8 DEF g

(* An admitted request takes its cost from the bucket, a refused one       *)
(* nothing.                                                                *)
LEMMA PaidFacts ==
  ASSUME NEW b \in Bucket
  PROVE  /\ Paid(b) \in Bucket /\ Paid(b).key = b.key /\ Paid(b).last_refill = b.last_refill
         /\ Paid(b).in_use
         /\ Paid(b).tokens = IF Admits(b) THEN b.tokens - Cost ELSE b.tokens
  <1>1. b.tokens \in 0 .. Capacity /\ b.in_use = TRUE BY RecordFacts
  <1>2. b.key \in Keys /\ b.last_refill \in Nat BY RecordFacts
  <1>3. Spent(b) = [in_use |-> TRUE, key |-> b.key, tokens |-> b.tokens - Cost,
                    last_refill |-> b.last_refill]
    BY DEF Spent, Held
  <1>4. Admits(b) => b.tokens - Cost \in 0 .. Capacity
    BY <1>1, RateAssumption, CapacityNat DEF Admits
  <1>5. /\ Spent(b).key = b.key /\ Spent(b).last_refill = b.last_refill
        /\ Spent(b).in_use = TRUE /\ Spent(b).tokens = b.tokens - Cost
    BY <1>3
  <1>6. Admits(b) => Spent(b) \in Bucket BY <1>2, <1>3, <1>4 DEF Bucket
  <1>7. CASE Admits(b) BY <1>5, <1>6, <1>7 DEF Paid
  <1>8. CASE ~Admits(b) BY <1>1, <1>8 DEF Paid
  <1> QED BY <1>7, <1>8

(* The arithmetic of a check: what the bucket had left covers the request. *)
LEMMA CheckBudget ==
  ASSUME now \in Nat, mark \in Nat, mark <= now, NEW b \in Bucket, b.last_refill <= now,
         NEW a \in Nat,
         IF b.last_refill < mark THEN a = 0
         ELSE b.tokens + a * Cost <= Capacity + Rate * (b.last_refill - mark)
  PROVE  LET r == Refilled(b)
         IN  Paid(r).tokens + (IF Admits(r) THEN a + 1 ELSE a) * Cost
               <= Capacity + Rate * (now - mark)
  <1> DEFINE r == Refilled(b)
             last == b.last_refill
             tok == b.tokens
  <1>1. r \in Bucket /\ r.tokens <= tok + Rate * (now - last) BY RefillFacts
  <1>2. r.tokens \in 0 .. Capacity BY <1>1, RecordFacts
  <1>3. tok \in 0 .. Capacity /\ last \in Nat BY RecordFacts
  <1>4. Paid(r).tokens = IF Admits(r) THEN r.tokens - Cost ELSE r.tokens BY <1>1, PaidFacts
  <1> HIDE DEF r, last, tok, Capacity
  <1>5. Cost \in Nat /\ Rate \in Nat BY RateAssumption
  <1>6. (a + 1) * Cost = a * Cost + Cost /\ a * Cost \in Nat BY <1>5, ProductNat
  <1>7. r.tokens + a * Cost <= Capacity + Rate * (now - mark)
    <2>1. CASE last < mark
      <3>1. a = 0 BY <2>1 DEF last
      <3>2. now - mark \in Nat OBVIOUS
      <3>3. Rate * (now - mark) \in Nat BY <3>2, <1>5, ProductNat
      <3>4. 0 * Cost = 0 BY <1>5
      <3> QED BY <3>1, <3>3, <3>4, <1>2, CapacityNat
    <2>2. CASE ~(last < mark)
      <3>1. tok + a * Cost <= Capacity + Rate * (last - mark) BY <2>2 DEF last, tok
      <3>2. (now - last) + (last - mark) = now - mark /\ now - last \in Int /\ last - mark \in Int
        BY <1>3
      <3>3. Rate * (now - mark) = Rate * (now - last) + Rate * (last - mark)
        <4>1. Rate \in Int BY <1>5
        <4>2. Rate * ((now - last) + (last - mark)) = Rate * (now - last) + Rate * (last - mark)
          BY <3>2, <4>1, Distribute
        <4> QED BY <3>2, <4>2
      <3>4. Rate * (now - last) \in Int /\ Rate * (last - mark) \in Int BY <3>2, <1>5
      <3> QED BY <3>1, <3>3, <3>4, <1>1, <1>2, <1>3, <1>6, CapacityNat
    <2> QED BY <2>1, <2>2
  <1>8. Rate * (now - mark) \in Int BY <1>5
  <1>9. CASE Admits(r) BY <1>9, <1>2, <1>4, <1>5, <1>6, <1>7, <1>8, CapacityNat DEF r
  <1>10. CASE ~Admits(r) BY <1>10, <1>4, <1>7 DEF r
  <1> QED BY <1>9, <1>10
-----------------------------------------------------------------------------
(* The bucket a check takes: in use before, under the key itself, or new.  *)
LEMMA TakenFacts ==
  ASSUME RateTypes, NEW k \in Keys, NEW i \in BucketSlots, Stops(k, i)
  PROVE  LET s == Slot(k, i)
             b == BucketAt(k, s)
         IN  /\ b \in Bucket /\ b.last_refill <= now
             /\ b.key = Cut[k]
             /\ table[s].in_use => k \in Short /\ b = table[s]
             /\ ~table[s].in_use => b.tokens = Capacity /\ b.last_refill = now
  <1> DEFINE s == Slot(k, i)
             b == BucketAt(k, s)
  <1>1. s \in BucketSlots BY SlotFact
  <1>2. CASE table[s].in_use
    <2>1. b = table[s] BY <1>2 DEF BucketAt
    <2>2. table[s] \in Bucket BY <1>1, <1>2, RecordFacts DEF RateTypes
    <2>3. table[s].last_refill <= now BY <1>1, <1>2 DEF RateTypes
    <2>4. k \in Short /\ table[s].key = k BY <1>2 DEF Stops
    <2>5. Cut[k] = k BY <2>4 DEF Short
    <2> QED BY <1>2, <2>1, <2>2, <2>3, <2>4, <2>5
  <1>3. CASE ~table[s].in_use
    <2>1. b = [in_use |-> TRUE, key |-> Cut[k], tokens |-> Capacity, last_refill |-> now]
      BY <1>3 DEF BucketAt, Held
    <2>2. Cut[k] \in Keys BY RateAssumption
    <2>3. Capacity \in 0 .. Capacity /\ now \in Nat /\ now <= now BY CapacityNat DEF RateTypes
    <2>4. b \in Bucket BY <2>1, <2>2, <2>3 DEF Bucket
    <2>5. b.key = Cut[k] /\ b.tokens = Capacity /\ b.last_refill = now BY <2>1
    <2> QED BY <1>3, <2>3, <2>4, <2>5
  <1> QED BY <1>2, <1>3

(* A check that finds slot s.                                              *)
Takes(k, i) ==
  LET s == Slot(k, i)
      b == Refilled(BucketAt(k, s))
  IN  /\ FindsAt(k, i)
      /\ table' = [table EXCEPT ![s] = Paid(b)]
      /\ admitted' = IF Admits(b) THEN [admitted EXCEPT ![k] = @ + 1] ELSE admitted

(* ioh_ratelimit_check changes nothing or takes from one bucket.           *)
LEMMA CheckCases ==
  ASSUME NEW k \in Keys, RatelimitCheck(k)
  PROVE  /\ limiting' = limiting /\ now' = now /\ mark' = mark
         /\ \/ UNCHANGED <<table, admitted>>
            \/ limiting /\ \E i \in BucketSlots : Takes(k, i)
  BY DEF RatelimitCheck, Takes, Paid

(* A check that takes from a bucket keeps the budget of its own key and    *)
(* leaves those of all others alone, wherever the probe stopped.           *)
LEMMA TakesInv ==
  ASSUME RateInv, limiting, NEW k \in Keys, NEW i \in BucketSlots, Takes(k, i),
         limiting' = limiting, now' = now, mark' = mark
  PROVE  RateInv'
  <1> DEFINE s == Slot(k, i)
             b == BucketAt(k, s)
             r == Refilled(b)
             e == Paid(r)
  <1>1. s \in BucketSlots BY SlotFact
  <1>2. RateTypes /\ Budget /\ Backed BY DEF RateInv
  <1>3. FindsAt(k, i) /\ Stops(k, i) BY DEF Takes, FindsAt
  <1>4. /\ b \in Bucket /\ b.last_refill <= now /\ b.key = Cut[k]
        /\ table[s].in_use => k \in Short /\ b = table[s]
        /\ ~table[s].in_use => b.tokens = Capacity /\ b.last_refill = now
    BY <1>2, <1>3, TakenFacts
  <1>5. now \in Nat /\ mark \in Nat /\ mark <= now BY <1>2 DEF RateTypes
  <1>6. r \in Bucket /\ r.key = Cut[k] /\ r.last_refill = now BY <1>4, <1>5, RefillFacts
  <1>7. e \in Bucket /\ e.key = Cut[k] /\ e.last_refill = now /\ e.in_use
    BY <1>6, PaidFacts
  <1>8. table' = [table EXCEPT ![s] = e] BY DEF Takes
  <1>9. admitted' = IF Admits(r) THEN [admitted EXCEPT ![k] = @ + 1] ELSE admitted
    BY DEF Takes
  <1>10. table \in [BucketSlots -> {Vacant} \cup Bucket] /\ admitted \in [Keys -> Nat]
    BY <1>2 DEF RateTypes
  <1>11. table'[s] = e /\ \A x \in BucketSlots : x # s => table'[x] = table[x]
    BY <1>1, <1>8, <1>10
  <1>12. /\ admitted' \in [Keys -> Nat]
         /\ \A q \in Keys : q # k => admitted'[q] = admitted[q]
         /\ admitted'[k] = IF Admits(r) THEN admitted[k] + 1 ELSE admitted[k]
    BY <1>9, <1>10
  <1> HIDE DEF s, b, r, e
  <1>13. \A q \in Short, j \in BucketSlots : FindsAt(q, j) /\ ~table[Slot(q, j)].in_use => admitted[q] = 0
    BY <1>2, FindsOnce DEF Backed, Holds
  <1>14. k \in Short => e.tokens + admitted'[k] * Cost <= Capacity + Rate * (now - mark)
    <2> SUFFICES ASSUME k \in Short
                 PROVE  e.tokens + admitted'[k] * Cost <= Capacity + Rate * (now - mark)
      OBVIOUS
    <2>1. admitted[k] \in Nat BY <1>10
    <2>2. CASE table[s].in_use
      <3>1. Within(k, b) BY <1>2, <1>3, <1>4, <2>2 DEF Budget, Holds, s
      <3> QED BY <3>1, <2>1, <1>4, <1>5, <1>12, CheckBudget DEF Within, r, e
    <2>3. CASE ~table[s].in_use
      <3>1. admitted[k] = 0 BY <1>3, <1>13, <2>3 DEF s
      <3>2. b.last_refill - mark \in Nat /\ ~(b.last_refill < mark) BY <1>4, <1>5, <2>3
      <3>3. Rate * (b.last_refill - mark) \in Nat BY <3>2, ProductNat, RateAssumption
      <3>4. 0 * Cost = 0 BY RateAssumption
      <3> HIDE DEF Capacity
      <3>5. b.tokens + admitted[k] * Cost <= Capacity + Rate * (b.last_refill - mark)
        BY <3>1, <3>3, <3>4, <1>4, <2>3, CapacityNat
      <3> QED BY <3>2, <3>5, <2>1, <1>4, <1>5, <1>12, CheckBudget DEF r, e
    <2> QED BY <2>2, <2>3
  <1>15. RateTypes'
    <2>1. table' \in [BucketSlots -> {Vacant} \cup Bucket] BY <1>1, <1>7, <1>8, <1>10
    <2>2. ASSUME NEW x \in BucketSlots, table'[x].in_use PROVE table'[x].last_refill <= now
      <3>1. CASE x = s BY <3>1, <1>5, <1>7, <1>11
      <3>2. CASE x # s BY <3>2, <2>2, <1>2, <1>11 DEF RateTypes
      <3> QED BY <3>1, <3>2
    <2> QED BY <2>1, <2>2, <1>5, <1>12 DEF RateTypes
  <1>16. RateBounded'
    <2> SUFFICES ASSUME NEW q \in Short
                 PROVE  admitted'[q] * Cost <= Capacity + Rate * (now - mark)
      BY DEF RateBounded
    <2>1. CASE q = k
      <3>1. e.tokens \in 0 .. Capacity BY <1>7, RecordFacts
      <3>2. admitted'[k] \in Nat /\ Cost \in Nat BY <1>12, RateAssumption
      <3>3. admitted'[k] * Cost \in Nat BY <3>2, ProductNat
      <3>4. Rate * (now - mark) \in Int BY <1>5, RateAssumption
      <3> HIDE DEF Capacity
      <3> QED BY <2>1, <3>1, <3>3, <3>4, <1>14, CapacityNat
    <2>2. CASE q # k BY <2>2, <1>12 DEF RateInv, RateBounded, Short
    <2> QED BY <2>1, <2>2
  <1>17. Budget'
    <2> SUFFICES ASSUME NEW q \in Short, NEW j \in BucketSlots, Holds(q, j)'
                 PROVE  Within(q, table[Slot(q, j)])'
      BY DEF Budget
    <2> DEFINE x == Slot(q, j)
               c == table[x]
    <2>1. x \in BucketSlots /\ q \in Keys BY SlotFact DEF Short
    <2>2. table'[x].in_use /\ table'[x].key = q BY DEF Holds, FindsAt, Stops
    <2> HIDE DEF x
    <2>3. CASE x = s /\ q = k
      <3>1. ~(e.last_refill < mark) BY <1>5, <1>7
      <3> QED BY <2>3, <3>1, <1>7, <1>11, <1>14 DEF Within, x
    <2>4. ASSUME q # k, admitted[q] = 0 PROVE Within(q, table[Slot(q, j)])'
      <3>1. admitted'[q] = 0 BY <2>1, <2>4, <1>12
      <3>2. table'[x] \in Bucket BY <2>1, <2>2, <1>15, RecordFacts DEF RateTypes
      <3>3. table'[x].tokens \in 0 .. Capacity /\ table'[x].last_refill \in Nat
        BY <3>2, RecordFacts
      <3>4. mark <= table'[x].last_refill =>
              table'[x].tokens + 0 * Cost <= Capacity + Rate * (table'[x].last_refill - mark)
        BY <3>3, <1>5, IdleWithin
      <3>5. ~(table'[x].last_refill < mark) => mark <= table'[x].last_refill BY <3>3, <1>5
      <3> QED BY <3>1, <3>4, <3>5 DEF Within, x
    <2>5. CASE x = s /\ q # k
      <3>1. Cut[k] = q /\ ~(k \in Short) BY <2>2, <2>5, <1>7, <1>11 DEF Short
      <3>2. ~table[s].in_use BY <3>1, <1>4
      <3>3. Stops(q, j) BY <3>2, <2>5 DEF Stops, x
      <3>4. ASSUME NEW l \in BucketSlots, l < j PROVE ~Stops(q, l)
        <4>1. ~Stops(q, l)' BY <3>4 DEF Holds, FindsAt
        <4>2. Slot(q, l) \in BucketSlots BY SlotFact, <2>1
        <4>3. Slot(q, l) # s BY <4>1, <2>2, <2>5 DEF Stops, x
        <4> QED BY <4>1, <4>2, <4>3, <1>11 DEF Stops
      <3>5. FindsAt(q, j) BY <3>3, <3>4 DEF FindsAt
      <3>6. admitted[q] = 0 BY <3>2, <3>5, <2>5, <1>13 DEF x
      <3> QED BY <3>6, <2>4, <2>5
    <2>6. CASE x # s
      <3>1. table'[x] = table[x] BY <2>1, <2>6, <1>11
      <3>2. Stops(q, j) BY <3>1 DEF Holds, FindsAt, Stops, x
      <3>3. CASE FindsAt(q, j)
        <4>1. Within(q, table[x]) BY <3>1, <3>3, <2>2, <1>2 DEF Budget, Holds, x
        <4>2. CASE q # k BY <4>1, <4>2, <3>1, <2>1, <1>12 DEF Within, x
        <4>3. CASE q = k
          <5>1. j = i BY <3>3, <4>3, <1>3, FindsOnce
          <5> QED BY <5>1, <4>3, <2>6 DEF x, s
        <4> QED BY <4>2, <4>3
      <3>4. CASE ~FindsAt(q, j)
        <4>1. PICK l \in BucketSlots : l < j /\ Stops(q, l) BY <3>2, <3>4 DEF FindsAt
        <4>2. ~Stops(q, l)' BY <4>1 DEF Holds, FindsAt
        <4>3. Slot(q, l) \in BucketSlots BY SlotFact, <2>1
        <4>4. Slot(q, l) = s BY <4>1, <4>2, <4>3, <1>11 DEF Stops
        <4>5. ~table[s].in_use
          BY <4>1, <4>2, <4>4, <1>4, <1>7, <1>11 DEF Stops, Short
        <4>6. q # k BY <4>2, <4>4, <1>7, <1>11 DEF Stops, Short
        <4>7. ASSUME admitted[q] # 0 PROVE FALSE
          <5>1. PICK h \in BucketSlots : Holds(q, h) BY <4>7, <1>2 DEF Backed
          <5>2. ~(l < h) BY <5>1, <4>1 DEF Holds, FindsAt
          <5>3. h # l BY <5>1, <4>4, <4>5 DEF Holds
          <5>4. h < j BY <5>2, <5>3, <4>1 DEF BucketSlots
          <5>5. ~Stops(q, h)' BY <5>4 DEF Holds, FindsAt
          <5>6. Slot(q, h) \in BucketSlots BY SlotFact, <2>1
          <5>7. Slot(q, h) # s BY <5>1, <4>5 DEF Holds
          <5> QED BY <5>1, <5>5, <5>6, <5>7, <1>11 DEF Holds, FindsAt, Stops
        <4> QED BY <4>6, <4>7, <2>4
      <3> QED BY <3>3, <3>4
    <2> QED BY <2>3, <2>5, <2>6
  <1>18. Backed'
    <2> SUFFICES ASSUME NEW q \in Short, admitted'[q] # 0 PROVE \E j \in BucketSlots : Holds(q, j)'
      BY DEF Backed
    <2>1. q \in Keys BY DEF Short
    <2>2. CASE q = k
      <3>1. Stops(k, i)' /\ table'[Slot(k, i)].in_use
        BY <2>2, <1>7, <1>11 DEF Stops, Short, s
      <3>2. ASSUME NEW l \in BucketSlots, l < i PROVE ~Stops(k, l)'
        <4>1. ~Stops(k, l) BY <3>2, <1>3 DEF FindsAt
        <4>2. Slot(k, l) \in BucketSlots BY SlotFact
        <4>3. Slot(k, l) # s BY <4>1, <1>3 DEF Stops, s
        <4> QED BY <4>1, <4>2, <4>3, <1>11 DEF Stops
      <3> QED BY <2>2, <3>1, <3>2 DEF Holds, FindsAt
    <2>3. CASE q # k
      <3>1. admitted[q] # 0 BY <2>1, <2>3, <1>12
      <3>2. PICK j \in BucketSlots : Holds(q, j) BY <3>1, <1>2 DEF Backed
      <3>3. Slot(q, j) \in BucketSlots BY SlotFact, <2>1
      <3>4. table[Slot(q, j)].in_use /\ table[Slot(q, j)].key = q
        BY <3>2 DEF Holds, FindsAt, Stops
      <3>5. Slot(q, j) # s BY <3>4, <2>3, <1>3 DEF Stops, s
      <3>6. Stops(q, j)' /\ table'[Slot(q, j)].in_use
        BY <3>2, <3>3, <3>5, <1>11 DEF Holds, FindsAt, Stops
      <3>7. ASSUME NEW l \in BucketSlots, l < j PROVE ~Stops(q, l)'
        <4>1. ~Stops(q, l) BY <3>2, <3>7 DEF Holds, FindsAt
        <4>2. Slot(q, l) \in BucketSlots BY SlotFact, <2>1
        <4>3. CASE Slot(q, l) # s BY <4>1, <4>2, <4>3, <1>11 DEF Stops
        <4>4. CASE Slot(q, l) = s
          <5>1. table[s].in_use /\ table[s].key # q BY <4>1, <4>4 DEF Stops
          <5>2. e.key = table[s].key
            <6>1. b = table[s] BY <5>1, <1>4
            <6>2. b.key = Cut[k] BY <1>4
            <6> QED BY <6>1, <6>2, <1>7
          <5> QED BY <5>1, <5>2, <4>4, <1>7, <1>11 DEF Stops
        <4> QED BY <4>3, <4>4
      <3> QED BY <3>2, <3>6, <3>7 DEF Holds, FindsAt
    <2> QED BY <2>2, <2>3
  <1> QED BY <1>15, <1>16, <1>17, <1>18 DEF RateInv

(* ioh_ratelimit_check, whatever it finds.                                 *)
LEMMA CheckInv == ASSUME RateInv, NEW k \in Keys, RatelimitCheck(k) PROVE RateInv'
  <1>1. limiting' = limiting /\ now' = now /\ mark' = mark BY CheckCases
  <1>2. CASE UNCHANGED <<table, admitted>>
    BY <1>1, <1>2 DEF RateInv, RateTypes, RateBounded, Budget, Backed, Holds, FindsAt, Stops, Within
  <1>3. CASE limiting /\ \E i \in BucketSlots : Takes(k, i) BY <1>1, <1>3, TakesInv
  <1> QED BY <1>2, <1>3, CheckCases

(* Every call and every tick keeps the invariant.                          *)
LEMMA RateNextInv == RateInv /\ [RateNext]_rateVars => RateInv'
  <1> SUFFICES ASSUME RateInv, [RateNext]_rateVars PROVE RateInv' OBVIOUS
  <1>1. CASE RatelimitCreate \/ RatelimitReset BY <1>1, RenewInv
  <1>2. CASE RatelimitDestroy BY <1>2, DestroyInv
  <1>3. CASE Tick BY <1>3, TickInv
  <1>4. CASE Observe BY <1>4, ObserveInv
  <1>5. CASE \E k \in Keys : RatelimitCheck(k) BY <1>5, CheckInv
  <1>6. CASE UNCHANGED rateVars
    BY <1>6 DEF rateVars, RateInv, RateTypes, RateBounded, Budget, Backed, Holds, FindsAt, Stops, Within
  <1> QED BY <1>1, <1>2, <1>3, <1>4, <1>5, <1>6 DEF RateNext

(* ioh_ratelimit_check keeps its bound in every window of time, for every  *)
(* size of the table, every hash, burst and rate.                          *)
THEOREM RateIsBounded == RateSpec => []RateBounded
  <1>1. RateInv => RateBounded BY DEF RateInv
  <1> QED BY <1>1, RateInitInv, RateNextInv, PTL DEF RateSpec
=============================================================================
