--------------------------- MODULE ConnPoolProofs ---------------------------
(***************************************************************************)
(* The pool under any client that frees and moves what it holds: the       *)
(* invariant PoolInv of module ConnProofs is inductive, and the three      *)
(* properties of module ConnPool are its conjuncts.                        *)
(***************************************************************************)
EXTENDS ConnPool, ConnProofs

(* Every call of the API keeps the pool's invariant.                       *)
LEMMA PoolStep ==
  ASSUME PoolInv(pool), [PoolNext]_pool
  PROVE  PoolInv(pool')
<1>1. CASE Alloc
  BY <1>1, ConnAllocInv DEF Alloc
<1>2. CASE AllocNoMem
  BY <1>2, ConnAllocNoMemInv DEF AllocNoMem
<1>3. ASSUME NEW s \in Slots, Free(s)
      PROVE  PoolInv(pool')
  BY <1>3, ConnFreeInv DEF Free
<1>4. ASSUME NEW s \in Slots, NEW st \in States, Transition(s, st)
      PROVE  PoolInv(pool')
  BY <1>4, ConnTransitionInv DEF Transition
<1>5. CASE UNCHANGED pool
  BY <1>5
<1> QED BY <1>1, <1>2, <1>3, <1>4, <1>5 DEF PoolNext

(* In every behaviour of the pool its invariant holds.                     *)
THEOREM PoolSafe == PoolSpec => []PoolInv(pool)
<1>1. PoolInit => PoolInv(pool)
  BY EmptyPoolInv DEF PoolInit
<1>2. PoolInv(pool) /\ [PoolNext]_pool => PoolInv(pool')
  BY PoolStep
<1>3. PoolInv(pool)' <=> PoolInv(pool')
  BY DEF PoolInv, Accounted, DistinctIds, InUse, Pool
<1> QED BY <1>1, <1>2, <1>3, PTL DEF PoolSpec

(* The fields of the pool stay within their types; next_id in particular   *)
(* within its width.                                                       *)
THEOREM PoolTypeCorrect == PoolSpec => []TypeOK
<1>1. PoolInv(pool) => TypeOK
  BY DEF PoolInv, TypeOK
<1> QED BY <1>1, PoolSafe, PTL

(* active_count is the number of connections in use: the count on which    *)
(* the drain of ioh_server_shutdown waits is never off.                    *)
THEOREM PoolCountExact == PoolSpec => []ActiveCountExact
<1>1. PoolInv(pool) => ActiveCountExact
  BY DEF PoolInv, ActiveCountExact
<1> QED BY <1>1, PoolSafe, PTL

(* Until next_id wraps, identifiers of connections in use are distinct,    *)
(* for any number of slots and any width of the counter.                   *)
THEOREM PoolIdsUnique == PoolSpec => []IdsUniqueUntilWrap
<1>1. PoolInv(pool) => IdsUniqueUntilWrap
  BY DEF PoolInv, IdsUniqueUntilWrap
<1> QED BY <1>1, PoolSafe, PTL
=============================================================================
