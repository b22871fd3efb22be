--------------------------------- MODULE Ctx ---------------------------------
(***************************************************************************)
(* The request context of core/ioh_ctx.c: values kept under a key, with    *)
(* their destructors, and the arena that grows by realloc.                 *)
(*                                                                         *)
(* Of an address only its remainder by the largest alignment matters; the  *)
(* allocator gives multiples of MallocAlign, and may move the arena.       *)
(***************************************************************************)
EXTENDS Integers, SequencesExt, FiniteSetsExt

CONSTANTS
  CtxKeys,      \* keys of values
  MaxValues,    \* IOH_CTX_MAX_VALUES
  ArenaDefault, \* IOH_CTX_ARENA_DEFAULT
  Sizes,        \* sizes that are allocated
  Aligns,       \* alignments that are asked for, powers of two
  MallocAlign,  \* what malloc and realloc align to
  MaxOps        \* operations on one context

VARIABLES
  ctx,       \* "none", "live" or "done"
  values,    \* c->values: key and value, numbered if it has a destructor, else 0
  base,      \* c->arena.base, modulo the largest alignment
  size,      \* c->arena.size
  used,      \* c->arena.used
  blocks,    \* what the arena has handed out since it was last emptied
  destroyed, \* how often the destructor of each numbered value was called
  replaced,  \* numbered values whose key was set again
  ops        \* operations so far

ctxVars == <<ctx, values, base, size, used, blocks, destroyed, replaced, ops>>

Bases == {n \in 0 .. Max(Aligns \cup {MallocAlign}) - 1 : n % MallocAlign = 0}
Op == ctx = "live" /\ ops < MaxOps /\ ops' = ops + 1

CtxStart ==
  /\ ctx = "none" /\ values = <<>> /\ base = 0 /\ size = 0 /\ used = 0 /\ blocks = {}
  /\ destroyed = <<>> /\ replaced = {} /\ ops = 0

(* ioh_ctx_init.                                                           *)
CtxInit ==
  /\ ctx = "none"
  /\ \/ ctx' = "live" /\ size' = ArenaDefault /\ base' \in Bases
     \/ ctx' = "done" /\ UNCHANGED <<size, base>>
  /\ UNCHANGED <<values, used, blocks, destroyed, replaced, ops>>
-----------------------------------------------------------------------------
(* ioh_ctx_reset: the destructors run, the values and the arena are empty. *)
Reset_fault ==
  /\ destroyed' = [i \in DOMAIN destroyed |->
       destroyed[i] + Cardinality({j \in DOMAIN values : values[j].value = i})]
  /\ used' = 0 /\ blocks' = {}
  /\ UNCHANGED values
Reset ==
  /\ destroyed' = [i \in DOMAIN destroyed |->
       destroyed[i] + Cardinality({j \in DOMAIN values : values[j].value = i})]
  /\ used' = 0 /\ blocks' = {}
  /\ values' = <<>>

CtxReset == Op /\ Reset /\ UNCHANGED <<ctx, base, size, replaced>>

CtxDestroy ==
  /\ ctx = "live" /\ Reset
  /\ ctx' = "done" /\ size' = 0 /\ base' = 0
  /\ UNCHANGED <<replaced, ops>>

(* ioh_ctx_set and ioh_ctx_set_with_destructor. Without room the caller    *)
(* keeps the value: it is not counted among those of the context.          *)
CtxSet(key, dtor) ==
  LET v   == [key |-> key, value |-> IF dtor THEN Len(destroyed) + 1 ELSE 0]
      has == {i \in DOMAIN values : values[i].key = key}
      old == CHOOSE i \in has : TRUE
  IN  /\ Op
      /\ \/ /\ has # {}
            /\ values' = [values EXCEPT ![old] = v]
            /\ replaced' = replaced \cup ({values[old].value} \ {0})
            /\ destroyed' = IF dtor THEN Append(destroyed, 0) ELSE destroyed
         \/ /\ has = {} /\ Len(values) < MaxValues
            /\ values' = Append(values, v)
            /\ destroyed' = IF dtor THEN Append(destroyed, 0) ELSE destroyed
            /\ UNCHANGED replaced
         \/ /\ has = {} /\ Len(values) >= MaxValues
            /\ UNCHANGED <<values, replaced, destroyed>>
      /\ UNCHANGED <<ctx, base, size, used, blocks>>
-----------------------------------------------------------------------------
(* arena_grow: doubled until it is enough, if memory allows.               *)
Doublings == {size * 2 ^ n : n \in 0 .. MaxOps}
Enough(needed) == Min({s \in Doublings : s >= needed})

Padding(b, align) == (align - ((b + used) % align)) % align

(* The block is handed out at an offset the alignment makes of the base;   *)
(* "at" is the base then, "moved" says that the call itself moved it.      *)
HandOut(b, len, align) ==
  LET off == used + Padding(b, align)
  IN  /\ base' = b
      /\ used' = off + len
      /\ blocks' = blocks \cup {[off |-> off, len |-> len, align |-> align,
                                  at |-> b, moved |-> b # base]}

(* ioh_ctx_alloc_aligned; ioh_ctx_alloc, and ioh_ctx_sprintf for its text  *)
(* and NUL, are the same with alignment 1.                                 *)
CtxAlloc_fault(len, align) ==
  /\ Op
  /\ LET needed == used + len
     IN  IF needed <= size THEN HandOut(base, len, align) /\ UNCHANGED size
         ELSE \/ size' = Enough(needed) /\ \E b \in Bases : HandOut(b, len, align)
              \/ UNCHANGED <<base, size, used, blocks>>
  /\ UNCHANGED <<ctx, values, destroyed, replaced>>
CtxAlloc(len, align) ==
  /\ Op
  /\ LET needed == used + Padding(base, align) + len
     IN  IF needed <= size THEN HandOut(base, len, align) /\ UNCHANGED size
         ELSE \/ size' = Enough(needed) /\ \E b \in Bases : HandOut(b, len, align)
              \/ UNCHANGED <<base, size, used, blocks>>
  /\ UNCHANGED <<ctx, values, destroyed, replaced>>

CtxNext ==
  \/ CtxInit \/ CtxReset \/ CtxDestroy
  \/ \E key \in CtxKeys, dtor \in BOOLEAN : CtxSet(key, dtor)
  \/ \E len \in Sizes, align \in Aligns : CtxAlloc(len, align)
-----------------------------------------------------------------------------
(* "Destructor called on reset/destroy": a value that was stored with a    *)
(* destructor has it called exactly once when the context gives the value  *)
(* up, and not before. The exception is a value whose key is set again:    *)
(* ioh_ctx_set_with_destructor overwrites it without a call, and nothing   *)
(* is claimed of it but that it is not destroyed twice.                    *)
ValuesReleased ==
  \A v \in DOMAIN destroyed :
    /\ destroyed[v] <= 1
    /\ v \notin replaced =>
         destroyed[v] = IF \E i \in DOMAIN values : values[i].value = v THEN 0 ELSE 1

(* What ioh_ctx_alloc and ioh_ctx_alloc_aligned hand out does not overlap, *)
(* lies within the arena and is aligned, through any number of moves, for  *)
(* every alignment the allocator keeps. Of a larger alignment two things   *)
(* are excepted, both against the header: the block may lie past the end   *)
(* when the very call that hands it out moved the arena, because the       *)
(* padding is computed anew and the size is not; and it may be unaligned   *)
(* once a later call has moved the arena.                                  *)
BlocksFit ==
  \A x \in blocks :
    /\ x.align <= MallocAlign \/ ~x.moved => x.off + x.len <= size
    /\ x.align <= MallocAlign \/ x.at = base => (base + x.off) % x.align = 0
    /\ \A y \in blocks \ {x} : x.off + x.len <= y.off \/ y.off + y.len <= x.off
=============================================================================
