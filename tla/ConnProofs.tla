----------------------------- MODULE ConnProofs -----------------------------
(***************************************************************************)
(* What the operations of the connection pool preserve, for every number   *)
(* of slots and every width of the identifier. The facts are about the     *)
(* operators of module Conn, so that the proofs about the pool alone and   *)
(* about the server share them.                                            *)
(***************************************************************************)
EXTENDS Conn, FiniteSetTheorems, TLAPS

(* The invariant of the pool. DistinctIds is inductive because it bounds   *)
(* the identifiers in use by next_id, and only before next_id wraps.       *)
PoolInv(p) ==
  /\ p \in Pool
  /\ Accounted(p)
  /\ ~p.wrapped => DistinctIds(p)

(* The slots in use can be counted.                                        *)
LEMMA InUseFinite ==
  ASSUME NEW p
  PROVE  IsFiniteSet(InUse(p)) /\ Cardinality(InUse(p)) \in Nat
<1>1. IsFiniteSet(Slots)
  BY FS_Interval, MaxConnsAssumption DEF Slots
<1>2. IsFiniteSet(InUse(p))
  BY <1>1, FS_Subset DEF InUse
<1> QED BY <1>2, FS_CardinalityType

(* A connection that has just been cleared is a connection.                *)
LEMMA ClosedConnType == ClosedConn \in Conn
BY IdSpaceAssumption DEF ClosedConn, Conn, States, Phases, NoFd

(* A pool stays one when a slot and the count take values of their types.  *)
LEMMA SlotAndCountType ==
  ASSUME NEW p \in Pool, NEW s \in Slots, NEW c \in Conn, NEW a \in Int
  PROVE  [p EXCEPT !.conns[s] = c, !.active_count = a] \in Pool
BY DEF Pool

(* The same with the next identifier and the wrap mark.                    *)
LEMMA PoolType ==
  ASSUME NEW p \in Pool, NEW s \in Slots, NEW c \in Conn, NEW a \in Int,
         NEW n \in 0..(IdSpace - 1), NEW b \in BOOLEAN
  PROVE  [p EXCEPT !.conns[s] = c, !.active_count = a, !.next_id = n, !.wrapped = b] \in Pool
BY DEF Pool

(* ioh_conn_pool_create establishes the invariant.                         *)
LEMMA EmptyPoolInv == PoolInv(EmptyPool)
<1>1. EmptyPool \in Pool
  BY ClosedConnType, IdSpaceAssumption DEF EmptyPool, Pool
<1>2. InUse(EmptyPool) = {}
  BY DEF InUse, EmptyPool, ClosedConn
<1>3. Accounted(EmptyPool)
  BY <1>2, FS_EmptySet DEF Accounted, EmptyPool
<1>4. DistinctIds(EmptyPool)
  BY <1>2 DEF DistinctIds
<1> QED BY <1>1, <1>3, <1>4 DEF PoolInv

(* next_id stays within its width, and until it wraps it only grows.       *)
LEMMA NextIdType ==
  ASSUME NEW p, p \in Pool
  PROVE  /\ NextId(p) \in 0..(IdSpace - 1)
         /\ Wraps(p) \in BOOLEAN
         /\ ~Wraps(p) => ~p.wrapped /\ NextId(p) = p.next_id + 1
<1>1. p.next_id \in 0..(IdSpace - 1) /\ p.wrapped \in BOOLEAN
  BY DEF Pool
<1>2. IdSpace \in Nat /\ IdSpace > 1
  BY IdSpaceAssumption
<1>3. CASE p.next_id + 1 < IdSpace
  <2>1. NextId(p) = p.next_id + 1
    BY <1>1, <1>2, <1>3 DEF NextId
  <2> QED BY <1>1, <1>2, <1>3, <2>1 DEF Wraps
<1>4. CASE p.next_id + 1 = IdSpace
  <2>1. NextId(p) = 0
    BY <1>1, <1>2, <1>4 DEF NextId
  <2> QED BY <1>1, <1>2, <2>1 DEF Wraps
<1> QED BY <1>1, <1>2, <1>3, <1>4

(* ioh_conn_alloc keeps the invariant: the new identifier is above all the *)
(* others, and the slot it takes was not counted.                          *)
LEMMA ConnAllocInv ==
  ASSUME NEW p, PoolInv(p), NEW s \in FirstFree(p)
  PROVE  /\ PoolInv(ConnAlloc(p, s))
         /\ s \in InUse(ConnAlloc(p, s))
<1> DEFINE q == ConnAlloc(p, s)
           c == [ClosedConn EXCEPT !.state = "ACCEPTING", !.id = p.next_id]
<1>1. p \in Pool /\ s \in Slots /\ s \notin InUse(p)
  BY DEF PoolInv, FirstFree, FreeSlots
<1>2. c \in Conn /\ c.state = "ACCEPTING" /\ c.id = p.next_id
  BY <1>1, ClosedConnType DEF Conn, ClosedConn, States, Pool
<1>3. /\ q.conns = [p.conns EXCEPT ![s] = c]
      /\ q.active_count = p.active_count + 1
      /\ q.next_id = NextId(p) /\ q.wrapped = Wraps(p)
  BY <1>1 DEF ConnAlloc, Pool
<1>4. q \in Pool
  <2>1. p.active_count + 1 \in Int
    BY <1>1 DEF Pool
  <2> QED BY <1>1, <1>2, <2>1, NextIdType, PoolType, Zenon DEF ConnAlloc
<1>5. InUse(q) = InUse(p) \cup {s}
  BY <1>1, <1>2, <1>3 DEF InUse, Pool
<1>6. Accounted(q)
  <2>1. Cardinality(InUse(q)) = Cardinality(InUse(p)) + 1
    BY <1>1, <1>5, InUseFinite, FS_AddElement
  <2> QED BY <1>3, <2>1 DEF PoolInv, Accounted
<1>7. ~q.wrapped => DistinctIds(q)
  <2> SUFFICES ASSUME ~Wraps(p) PROVE DistinctIds(q)
    BY <1>3
  <2>1. DistinctIds(p) /\ q.next_id = p.next_id + 1
    BY <1>1, <1>3, NextIdType DEF PoolInv
  <2>2. p.next_id \in Nat /\ \A t \in Slots : p.conns[t].id \in Nat
    BY <1>1, IdSpaceAssumption DEF Pool, Conn
  <2>3. \A t \in Slots : q.conns[t].id = IF t = s THEN p.next_id ELSE p.conns[t].id
    BY <1>1, <1>2, <1>3 DEF Pool
  <2>4. \A t \in InUse(q) : t \in Slots /\ (t = s \/ t \in InUse(p))
    BY <1>5 DEF InUse
  <2> QED BY <2>1, <2>2, <2>3, <2>4 DEF DistinctIds
<1> QED BY <1>4, <1>5, <1>6, <1>7 DEF PoolInv

(* A failed allocation keeps the invariant: the count is restored, and the *)
(* identifier it consumed names nobody.                                    *)
LEMMA ConnAllocNoMemInv ==
  ASSUME NEW p, PoolInv(p), NEW s \in FirstFree(p)
  PROVE  PoolInv(ConnAllocNoMem(p, s))
<1> DEFINE q == ConnAllocNoMem(p, s)
           c == [ClosedConn EXCEPT !.id = p.next_id]
<1>1. p \in Pool /\ s \in Slots /\ s \notin InUse(p)
  BY DEF PoolInv, FirstFree, FreeSlots
<1>2. c \in Conn /\ c.state = "FREE"
  BY <1>1, ClosedConnType DEF Conn, ClosedConn, Pool
<1>3. /\ q.conns = [p.conns EXCEPT ![s] = c]
      /\ q.active_count = p.active_count
      /\ q.next_id = NextId(p) /\ q.wrapped = Wraps(p)
  BY <1>1 DEF ConnAllocNoMem, Pool
<1>4. q \in Pool
  BY <1>1, <1>2, NextIdType DEF ConnAllocNoMem, Pool
<1>5. InUse(q) = InUse(p)
  BY <1>1, <1>2, <1>3 DEF InUse, Pool
<1>6. ~q.wrapped => DistinctIds(q)
  <2> SUFFICES ASSUME ~Wraps(p) PROVE DistinctIds(q)
    BY <1>3
  <2>1. DistinctIds(p) /\ q.next_id = p.next_id + 1
    BY <1>1, <1>3, NextIdType DEF PoolInv
  <2>2. p.next_id \in Nat /\ \A t \in Slots : p.conns[t].id \in Nat
    BY <1>1, IdSpaceAssumption DEF Pool, Conn
  <2>3. \A t \in InUse(p) : t \in Slots /\ q.conns[t].id = p.conns[t].id
    BY <1>1, <1>3 DEF Pool, InUse
  <2> QED BY <1>5, <2>1, <2>2, <2>3 DEF DistinctIds
<1> QED BY <1>3, <1>4, <1>5, <1>6 DEF PoolInv, Accounted

(* ioh_conn_free keeps the invariant when the slot is in use; nothing in   *)
(* the function itself asks, so the callers have to see to it.             *)
LEMMA ConnFreeInv ==
  ASSUME NEW p, PoolInv(p), NEW s \in InUse(p)
  PROVE  PoolInv(ConnFree(p, s))
<1> DEFINE q == ConnFree(p, s)
<1>1. p \in Pool /\ s \in Slots
  BY DEF PoolInv, InUse
<1>2. /\ q.conns = [p.conns EXCEPT ![s] = ClosedConn]
      /\ q.active_count = p.active_count - 1
      /\ q.next_id = p.next_id /\ q.wrapped = p.wrapped
  BY <1>1 DEF ConnFree, Pool
<1>3. q \in Pool
  <2>1. p.active_count - 1 \in Int
    BY <1>1 DEF Pool
  <2> QED BY <1>1, <2>1, ClosedConnType, SlotAndCountType, Zenon DEF ConnFree
<1>4. InUse(q) = InUse(p) \ {s}
  BY <1>1, <1>2 DEF InUse, Pool, ClosedConn
<1>5. Accounted(q)
  <2>1. Cardinality(InUse(q)) = Cardinality(InUse(p)) - 1
    BY <1>4, InUseFinite, FS_RemoveElement
  <2> QED BY <1>2, <2>1 DEF PoolInv, Accounted
<1>6. ~q.wrapped => DistinctIds(q)
  <2>1. \A t \in InUse(q) : t \in InUse(p) /\ q.conns[t].id = p.conns[t].id
    BY <1>1, <1>2, <1>4 DEF InUse, Pool
  <2> QED BY <1>2, <2>1 DEF PoolInv, DistinctIds
<1> QED BY <1>3, <1>5, <1>6 DEF PoolInv

(* A handler that changes a connection in use, and neither frees nor       *)
(* renames it, keeps the invariant and the set of slots in use.            *)
LEMMA UpdateInv ==
  ASSUME NEW p, PoolInv(p), NEW s \in InUse(p),
         NEW c \in Conn, c.state # "FREE", c.id = p.conns[s].id
  PROVE  /\ PoolInv([p EXCEPT !.conns[s] = c])
         /\ InUse([p EXCEPT !.conns[s] = c]) = InUse(p)
<1> DEFINE q == [p EXCEPT !.conns[s] = c]
<1>1. p \in Pool /\ s \in Slots
  BY DEF PoolInv, InUse
<1>2. /\ q.conns = [p.conns EXCEPT ![s] = c]
      /\ q.active_count = p.active_count
      /\ q.next_id = p.next_id /\ q.wrapped = p.wrapped
  BY <1>1 DEF Pool
<1>3. q \in Pool
  BY <1>1 DEF Pool
<1>4. InUse(q) = InUse(p)
  BY <1>1, <1>2 DEF InUse, Pool
<1>5. \A t \in InUse(q) : t \in InUse(p) /\ q.conns[t].id = p.conns[t].id
  BY <1>1, <1>2, <1>4 DEF InUse, Pool
<1> QED BY <1>2, <1>3, <1>4, <1>5 DEF PoolInv, Accounted, DistinctIds

(* ioh_conn_transition keeps the invariant: no row of its table leads back *)
(* to FREE.                                                                *)
LEMMA ConnTransitionInv ==
  ASSUME NEW p, PoolInv(p), NEW s \in InUse(p), NEW st \in States
  PROVE  /\ PoolInv(ConnTransition(p, s, st))
         /\ InUse(ConnTransition(p, s, st)) = InUse(p)
<1>1. p \in Pool /\ s \in Slots /\ p.conns[s] \in Conn
  BY DEF PoolInv, InUse, Pool
<1>2. CASE st \in valid_transitions[p.conns[s].state]
  <2> DEFINE c == [p.conns[s] EXCEPT !.state = st]
  <2>1. st # "FREE"
    BY <1>1, <1>2 DEF valid_transitions, Conn, States
  <2>2. c \in Conn /\ c.state # "FREE" /\ c.id = p.conns[s].id
    BY <1>1, <2>1 DEF Conn
  <2>3. ConnTransition(p, s, st) = [p EXCEPT !.conns[s] = c]
    BY <1>1, <1>2 DEF ConnTransition
  <2> HIDE DEF c
  <2>4. /\ PoolInv([p EXCEPT !.conns[s] = c])
        /\ InUse([p EXCEPT !.conns[s] = c]) = InUse(p)
    BY <2>2, UpdateInv
  <2> QED BY <2>3, <2>4, Zenon
<1>3. CASE st \notin valid_transitions[p.conns[s].state]
  <2>1. ConnTransition(p, s, st) = p
    BY <1>3 DEF ConnTransition
  <2> QED BY <2>1, Zenon
<1> QED BY <1>2, <1>3

(* The connection in slot s may be worked on.                              *)
Holding(p, s) == PoolInv(p) /\ s \in InUse(p)

(* Replacing the record of a connection that is worked on.                 *)
LEMMA HoldingUpdate ==
  ASSUME NEW p, NEW s, Holding(p, s),
         NEW c \in Conn, c.state # "FREE", c.id = p.conns[s].id
  PROVE  Holding([p EXCEPT !.conns[s] = c], s)
<1>1. PoolInv(p) /\ s \in InUse(p)
  BY DEF Holding
<1>2. /\ PoolInv([p EXCEPT !.conns[s] = c])
      /\ InUse([p EXCEPT !.conns[s] = c]) = InUse(p)
  BY <1>1, UpdateInv
<1> QED BY <1>1, <1>2, Zenon DEF Holding

(* Assigning a field other than state and id.                              *)
LEMMA HoldingField ==
  ASSUME NEW p, NEW s, Holding(p, s)
  PROVE  /\ \A x \in Int : Holding([p EXCEPT !.conns[s].fd = x], s)
         /\ \A x \in Phases : Holding([p EXCEPT !.conns[s].phase = x], s)
         /\ \A x \in BOOLEAN : Holding([p EXCEPT !.conns[s].send_active = x], s)
         /\ \A x \in BOOLEAN : Holding([p EXCEPT !.conns[s].keep_alive = x], s)
         /\ \A x \in {"none", "handshake", "done"} : Holding([p EXCEPT !.conns[s].tls = x], s)
         /\ \A x \in Int : Holding([p EXCEPT !.conns[s].unsent = x], s)
         /\ \A x \in Nat : Holding([p EXCEPT !.conns[s].peer = x], s)
         /\ \A x \in BOOLEAN : Holding([p EXCEPT !.conns[s].answered = x], s)
<1> DEFINE d == p.conns[s]
<1>1. d \in Conn /\ d.state # "FREE"
  BY DEF Holding, PoolInv, InUse, Pool
<1>2. ASSUME NEW x \in Int
      PROVE  Holding([p EXCEPT !.conns[s].fd = x], s)
  <2> DEFINE c == [d EXCEPT !.fd = x]
  <2>1. c \in Conn /\ c.state # "FREE" /\ c.id = d.id
    BY <1>1 DEF Conn
  <2>2. [p EXCEPT !.conns[s].fd = x] = [p EXCEPT !.conns[s] = c]
    OBVIOUS
  <2> HIDE DEF c
  <2>3. Holding([p EXCEPT !.conns[s] = c], s)
    BY <2>1, HoldingUpdate
  <2> QED BY <2>2, <2>3, Zenon
<1>3. ASSUME NEW x \in Phases
      PROVE  Holding([p EXCEPT !.conns[s].phase = x], s)
  <2> DEFINE c == [d EXCEPT !.phase = x]
  <2>1. c \in Conn /\ c.state # "FREE" /\ c.id = d.id
    BY <1>1 DEF Conn
  <2>2. [p EXCEPT !.conns[s].phase = x] = [p EXCEPT !.conns[s] = c]
    OBVIOUS
  <2> HIDE DEF c
  <2>3. Holding([p EXCEPT !.conns[s] = c], s)
    BY <2>1, HoldingUpdate
  <2> QED BY <2>2, <2>3, Zenon
<1>4. ASSUME NEW x \in BOOLEAN
      PROVE  Holding([p EXCEPT !.conns[s].send_active = x], s)
  <2> DEFINE c == [d EXCEPT !.send_active = x]
  <2>1. c \in Conn /\ c.state # "FREE" /\ c.id = d.id
    BY <1>1 DEF Conn
  <2>2. [p EXCEPT !.conns[s].send_active = x] = [p EXCEPT !.conns[s] = c]
    OBVIOUS
  <2> HIDE DEF c
  <2>3. Holding([p EXCEPT !.conns[s] = c], s)
    BY <2>1, HoldingUpdate
  <2> QED BY <2>2, <2>3, Zenon
<1>5. ASSUME NEW x \in BOOLEAN
      PROVE  Holding([p EXCEPT !.conns[s].keep_alive = x], s)
  <2> DEFINE c == [d EXCEPT !.keep_alive = x]
  <2>1. c \in Conn /\ c.state # "FREE" /\ c.id = d.id
    BY <1>1 DEF Conn
  <2>2. [p EXCEPT !.conns[s].keep_alive = x] = [p EXCEPT !.conns[s] = c]
    OBVIOUS
  <2> HIDE DEF c
  <2>3. Holding([p EXCEPT !.conns[s] = c], s)
    BY <2>1, HoldingUpdate
  <2> QED BY <2>2, <2>3, Zenon
<1>6. ASSUME NEW x \in {"none", "handshake", "done"}
      PROVE  Holding([p EXCEPT !.conns[s].tls = x], s)
  <2> DEFINE c == [d EXCEPT !.tls = x]
  <2>1. c \in Conn /\ c.state # "FREE" /\ c.id = d.id
    BY <1>1 DEF Conn
  <2>2. [p EXCEPT !.conns[s].tls = x] = [p EXCEPT !.conns[s] = c]
    OBVIOUS
  <2> HIDE DEF c
  <2>3. Holding([p EXCEPT !.conns[s] = c], s)
    BY <2>1, HoldingUpdate
  <2> QED BY <2>2, <2>3, Zenon
<1>7. ASSUME NEW x \in Int
      PROVE  Holding([p EXCEPT !.conns[s].unsent = x], s)
  <2> DEFINE c == [d EXCEPT !.unsent = x]
  <2>1. c \in Conn /\ c.state # "FREE" /\ c.id = d.id
    BY <1>1 DEF Conn
  <2>2. [p EXCEPT !.conns[s].unsent = x] = [p EXCEPT !.conns[s] = c]
    OBVIOUS
  <2> HIDE DEF c
  <2>3. Holding([p EXCEPT !.conns[s] = c], s)
    BY <2>1, HoldingUpdate
  <2> QED BY <2>2, <2>3, Zenon
<1>8. ASSUME NEW x \in Nat
      PROVE  Holding([p EXCEPT !.conns[s].peer = x], s)
  <2> DEFINE c == [d EXCEPT !.peer = x]
  <2>1. c \in Conn /\ c.state # "FREE" /\ c.id = d.id
    BY <1>1 DEF Conn
  <2>2. [p EXCEPT !.conns[s].peer = x] = [p EXCEPT !.conns[s] = c]
    OBVIOUS
  <2> HIDE DEF c
  <2>3. Holding([p EXCEPT !.conns[s] = c], s)
    BY <2>1, HoldingUpdate
  <2> QED BY <2>2, <2>3, Zenon
<1>9. ASSUME NEW x \in BOOLEAN
      PROVE  Holding([p EXCEPT !.conns[s].answered = x], s)
  <2> DEFINE c == [d EXCEPT !.answered = x]
  <2>1. c \in Conn /\ c.state # "FREE" /\ c.id = d.id
    BY <1>1 DEF Conn
  <2>2. [p EXCEPT !.conns[s].answered = x] = [p EXCEPT !.conns[s] = c]
    OBVIOUS
  <2> HIDE DEF c
  <2>3. Holding([p EXCEPT !.conns[s] = c], s)
    BY <2>1, HoldingUpdate
  <2> QED BY <2>2, <2>3, Zenon
<1> QED BY <1>2, <1>3, <1>4, <1>5, <1>6, <1>7, <1>8, <1>9, Zenon

(* ioh_conn_transition keeps a slot that is held.                          *)
LEMMA HoldingTransition ==
  ASSUME NEW p, NEW s, Holding(p, s), NEW st \in States
  PROVE  Holding(ConnTransition(p, s, st), s)
BY ConnTransitionInv DEF Holding

(* ioh_conn_alloc hands out a slot that is held.                           *)
LEMMA HoldingAlloc ==
  ASSUME NEW p, PoolInv(p), NEW s \in FirstFree(p)
  PROVE  Holding(ConnAlloc(p, s), s)
BY ConnAllocInv DEF Holding
=============================================================================
