------------------------------ MODULE RateLimit ------------------------------
(***************************************************************************)
(* The token buckets of middleware/ioh_ratelimit.c: a hash table that is   *)
(* probed linearly and never gives a bucket back.                          *)
(*                                                                         *)
(* Tokens are counted in units: a request costs Cost of them and a tick of *)
(* the clock brings Rate, so that Rate/Cost is requests_per_second in      *)
(* ticks, and no fraction is lost.                                         *)
(***************************************************************************)
EXTENDS Integers

CONSTANTS
  Keys,      \* values of the Host header
  Cut,       \* what is stored of a key: its first 127 characters
  Hash,      \* hash_key
  Buckets,   \* IOH_RATELIMIT_BUCKETS
  Burst,     \* cfg.burst, in requests
  Cost,      \* units of one request
  Rate       \* units a tick brings

ASSUME RateAssumption ==
  /\ Buckets \in Nat \ {0} /\ Burst \in Nat /\ Cost \in Nat /\ Rate \in Nat
  /\ Cut \in [Keys -> Keys] /\ \A k \in Keys : Cut[Cut[k]] = Cut[k]
  /\ Hash \in [Keys -> 0 .. Buckets - 1]

VARIABLES
  limiting,  \* whether tl_rl_state is set
  table,     \* st->buckets
  now,       \* the monotonic clock
  mark,      \* when the window under observation began
  admitted   \* how many requests of each key were admitted since

rateVars == <<limiting, table, now, mark, admitted>>

BucketSlots == 0 .. Buckets - 1
Capacity == Burst * Cost
Vacant   == [in_use |-> FALSE]
Bucket   == [in_use : {TRUE}, key : Keys, tokens : 0 .. Capacity, last_refill : Nat]
Held(k, tokens, t) == [in_use |-> TRUE, key |-> k, tokens |-> tokens, last_refill |-> t]
Cleared  == [s \in BucketSlots |-> Vacant]
None     == [k \in Keys |-> 0]

(* Keys of fewer than 128 characters: strncmp compares 128, so that a      *)
(* longer one is never equal to what was stored of it.                     *)
Short == {k \in Keys : Cut[k] = k}

RateInit ==
  /\ limiting = FALSE /\ table = Cleared
  /\ now = 0 /\ mark = 0 /\ admitted = None

(* ioh_ratelimit_create, which takes the place of any table before;        *)
(* ioh_ratelimit_reset; ioh_ratelimit_destroy. Observation begins anew     *)
(* with the table.                                                         *)
RatelimitCreate ==
  /\ limiting' = TRUE /\ table' = Cleared
  /\ mark' = now /\ admitted' = None /\ UNCHANGED now

RatelimitReset ==
  /\ limiting /\ table' = Cleared
  /\ mark' = now /\ admitted' = None /\ UNCHANGED <<limiting, now>>

RatelimitDestroy ==
  /\ limiting' = FALSE /\ table' = Cleared
  /\ UNCHANGED <<now, mark, admitted>>

Tick == now' = now + 1 /\ UNCHANGED <<limiting, table, mark, admitted>>

(* Any moment may be the beginning of the window.                          *)
Observe == mark' = now /\ admitted' = None /\ UNCHANGED <<limiting, table, now>>
-----------------------------------------------------------------------------
Slot(k, i) == (Hash[k] + i) % Buckets

(* find_bucket: the first slot of the probe that is free or holds the key. *)
Stops(k, i) == table[Slot(k, i)].in_use => k \in Short /\ table[Slot(k, i)].key = k
FindsAt(k, i) == Stops(k, i) /\ \A j \in BucketSlots : j < i => ~Stops(k, j)

BucketAt(k, s) ==
  IF table[s].in_use THEN table[s]
  ELSE Held(Cut[k], Capacity, now)

(* refill_bucket.                                                          *)
Grown(b) == b.tokens + Rate * (now - b.last_refill)
Capped(tokens) == IF tokens > Capacity THEN Capacity ELSE tokens
Refilled_fault(b) == Held(b.key, Capped(Grown(b)), b.last_refill)
Refilled(b) == Held(b.key, Capped(Grown(b)), now)

Admits(b) == b.tokens >= Cost
Spent(b)  == Held(b.key, b.tokens - Cost, b.last_refill)

(* ioh_ratelimit_check. Without a table, or when the probe finds nothing,  *)
(* the request is refused.                                                 *)
RatelimitCheck(k) ==
  /\ IF limiting /\ \E i \in BucketSlots : Stops(k, i)
       THEN \E i \in BucketSlots :
              /\ FindsAt(k, i)
              /\ LET s == Slot(k, i)
                     b == Refilled(BucketAt(k, s))
                 IN  /\ table' = [table EXCEPT ![s] = IF Admits(b) THEN Spent(b) ELSE b]
                     /\ admitted' = IF Admits(b) THEN [admitted EXCEPT ![k] = @ + 1] ELSE admitted
       ELSE UNCHANGED <<table, admitted>>
  /\ UNCHANGED <<limiting, now, mark>>

RateNext ==
  \/ RatelimitCreate \/ RatelimitReset \/ RatelimitDestroy \/ Tick \/ Observe
  \/ \E k \in Keys : RatelimitCheck(k)

RateSpec == RateInit /\ [][RateNext]_rateVars
-----------------------------------------------------------------------------
(* In every window of time a key of fewer than 128 characters is admitted  *)
(* no more than burst times plus what the rate allows for the length of    *)
(* the window: whatever other keys collide with it in the table, and even  *)
(* if a longer key left buckets under its name (ioh_ratelimit_check).      *)
RateBounded ==
  \A k \in Short : admitted[k] * Cost <= Capacity + Rate * (now - mark)
=============================================================================
