------------------------------- MODULE Bufpool -------------------------------
(***************************************************************************)
(* The pool of buffers and descriptor slots of core/ioh_buffer.c, beside   *)
(* what the kernel (external) holds of them.                               *)
(*                                                                         *)
(* The provided buffer ring is an array that the pool writes at its tail   *)
(* and the kernel reads at its head, both counters modulo TailMod, of      *)
(* which the array index is the rest modulo RingSize.                      *)
(***************************************************************************)
EXTENDS Integers, FiniteSets

CONSTANTS
  RingSize,   \* config.ring_size
  TailMod,    \* 2^16 in the kernel's interface, a multiple of RingSize
  Files,      \* config.reg_file_count
  Fds         \* descriptors

ASSUME BufpoolAssumption ==
  /\ RingSize \in Nat \ {0} /\ TailMod \in Nat /\ Files \in Nat
  /\ \E k \in 1 .. TailMod : TailMod = 2 * k * RingSize

VARIABLES
  bufpool,    \* "none", "live" or "gone"
  bufring,    \* the array, empty until it is registered
  tail,       \* where the pool adds
  khead,      \* where the kernel takes
  held,       \* buffers the kernel gave out and that were not returned
  bufsReg,    \* bufs_registered
  slots,      \* file_slots, empty until they are registered
  ktable      \* the kernel's table of registered files

bufVars == <<bufpool, bufring, tail, khead, held, bufsReg, slots, ktable>>

BufIds  == 0 .. RingSize - 1
SlotIds == 0 .. Files - 1
NoFile  == -1
Empty   == [i \in {} |-> NoFile]

BufInit ==
  /\ bufpool = "none" /\ bufring = Empty /\ tail = 0 /\ khead = 0 /\ held = {}
  /\ bufsReg = FALSE /\ slots = Empty /\ ktable = Empty

(* ioh_bufpool_create.                                                     *)
BufpoolCreate ==
  /\ bufpool = "none" /\ bufpool' \in {"live", "gone"}
  /\ UNCHANGED <<bufring, tail, khead, held, bufsReg, slots, ktable>>

(* ioh_bufpool_register_ring: every buffer is added, each at its offset,   *)
(* and the tail advances by all of them. The ring is registered once.      *)
RegisterRing ==
  /\ bufpool = "live" /\ bufring = Empty
  /\ bufring' = [i \in BufIds |-> i]
  /\ tail' = RingSize % TailMod
  /\ UNCHANGED <<bufpool, khead, held, bufsReg, slots, ktable>>

(* ioh_bufpool_register_bufs.                                              *)
RegisterBufs ==
  /\ bufpool = "live" /\ ~bufsReg /\ bufsReg' = TRUE
  /\ UNCHANGED <<bufpool, bufring, tail, khead, held, slots, ktable>>

(* ioh_bufpool_register_files; slots the kernel refuses are freed.         *)
RegisterFiles ==
  /\ bufpool = "live" /\ slots = Empty /\ Files > 0
  /\ slots' = [i \in SlotIds |-> NoFile] /\ ktable' = slots'
  /\ UNCHANGED <<bufpool, bufring, tail, khead, held, bufsReg>>

(* The kernel (external) takes the buffer at its head for a completion.    *)
KernelTakes ==
  /\ bufring # Empty /\ khead # tail
  /\ held' = held \cup {bufring[khead % RingSize]}
  /\ khead' = (khead + 1) % TailMod
  /\ UNCHANGED <<bufpool, bufring, tail, bufsReg, slots, ktable>>

(* ioh_bufpool_return_buf of a buffer that was given out.                  *)
ReturnBuf_fault(b) ==
  /\ bufpool = "live" /\ b \in held
  /\ bufring' = [bufring EXCEPT ![b] = b]
  /\ tail' = (tail + 1) % TailMod /\ held' = held \ {b}
  /\ UNCHANGED <<bufpool, khead, bufsReg, slots, ktable>>
ReturnBuf(b) ==
  /\ bufpool = "live" /\ b \in held
  /\ bufring' = [bufring EXCEPT ![tail % RingSize] = b]
  /\ tail' = (tail + 1) % TailMod /\ held' = held \ {b}
  /\ UNCHANGED <<bufpool, khead, bufsReg, slots, ktable>>

(* ioh_bufpool_register_fd: the first free slot, unless the kernel refuses *)
(* or there is none.                                                       *)
FreeSlot(i) == slots[i] = NoFile /\ \A j \in SlotIds : j < i => slots[j] # NoFile

RegisterFd(fd) ==
  /\ bufpool = "live" /\ slots # Empty
  /\ \E i \in SlotIds :
       /\ FreeSlot(i)
       /\ slots' = [slots EXCEPT ![i] = fd] /\ ktable' = [ktable EXCEPT ![i] = fd]
  /\ UNCHANGED <<bufpool, bufring, tail, khead, held, bufsReg>>

(* ioh_bufpool_unregister_fd frees the slot whether the kernel's table was *)
(* updated or not.                                                         *)
UnregisterFd(i) ==
  /\ bufpool = "live" /\ slots # Empty
  /\ slots' = [slots EXCEPT ![i] = NoFile]
  /\ ktable' \in {ktable, [ktable EXCEPT ![i] = NoFile]}
  /\ UNCHANGED <<bufpool, bufring, tail, khead, held, bufsReg>>

(* ioh_bufpool_destroy with the ring.                                      *)
BufpoolDestroy ==
  /\ bufpool = "live" /\ bufpool' = "gone"
  /\ bufring' = Empty /\ bufsReg' = FALSE /\ slots' = Empty /\ ktable' = Empty
  /\ UNCHANGED <<tail, khead, held>>

BufNext ==
  \/ BufpoolCreate \/ RegisterRing \/ RegisterBufs \/ RegisterFiles
  \/ KernelTakes \/ BufpoolDestroy
  \/ \E b \in BufIds : ReturnBuf(b)
  \/ \E fd \in Fds : RegisterFd(fd)
  \/ \E i \in SlotIds : UnregisterFd(i)
-----------------------------------------------------------------------------
(* What the kernel may still take: the entries between its head and the    *)
(* tail, the counters wrapping around.                                     *)
Ahead   == {(khead + k) % TailMod : k \in 0 .. ((tail - khead) % TailMod) - 1}
Offered == {bufring[p % RingSize] : p \in Ahead}

(* In whatever order buffers come back, and when the 16-bit tail of the    *)
(* ring has wrapped, each buffer is either held by the program or offered  *)
(* to the kernel once; and the kernel has every descriptor that            *)
(* ioh_bufpool_register_fd placed, also in a slot that an earlier, failed  *)
(* update left behind.                                                     *)
PoolAgreesWithKernel ==
  bufpool = "live" =>
    /\ bufring # Empty => /\ Offered = BufIds \ held
                          /\ Cardinality(Ahead) = Cardinality(Offered)
    /\ \A i \in DOMAIN slots : slots[i] # NoFile => ktable[i] = slots[i]
=============================================================================
