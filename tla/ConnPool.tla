------------------------------ MODULE ConnPool ------------------------------
(***************************************************************************)
(* The connection pool under an arbitrary client of its public API         *)
(* (ioh_conn_alloc, ioh_conn_free, ioh_conn_transition), one call a step.  *)
(* The client keeps one rule: it frees and moves connections it holds.     *)
(***************************************************************************)
EXTENDS Conn

VARIABLE pool

PoolInit == pool = EmptyPool

Alloc == \E s \in FirstFree(pool) : pool' = ConnAlloc(pool, s)

AllocNoMem == \E s \in FirstFree(pool) : pool' = ConnAllocNoMem(pool, s)

(* A client frees a connection it holds.                                   *)
Free(s) ==
  /\ s \in InUse(pool)
  /\ pool' = ConnFree(pool, s)

(* A client moves a connection it holds. The states a client asks for are  *)
(* those ioh_conn_transition accepts as an index of its table.             *)
Transition(s, new_state) ==
  /\ s \in InUse(pool)
  /\ pool' = ConnTransition(pool, s, new_state)

PoolNext ==
  \/ Alloc
  \/ AllocNoMem
  \/ \E s \in Slots : Free(s)
  \/ \E s \in Slots, st \in States : Transition(s, st)

PoolSpec == PoolInit /\ [][PoolNext]_pool
-----------------------------------------------------------------------------
(* The pool always has the shape of struct ioh_conn_pool.                  *)
TypeOK == pool \in Pool

(* active_count, which ioh_server_shutdown's drain loop waits on, is the   *)
(* number of slots that are not FREE, whatever mixture of allocations,     *)
(* failed allocations, frees and transitions led there.                    *)
ActiveCountExact == Accounted(pool)

(* As long as next_id has not wrapped, no two connections in use carry the *)
(* same identifier, so a completion tagged with one reaches its own        *)
(* connection; identifiers burnt by failed allocations included.           *)
IdsUniqueUntilWrap == ~pool.wrapped => DistinctIds(pool)
=============================================================================
