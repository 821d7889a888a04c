------------------------ MODULE PointerParityProofs -------------------------
(***************************************************************************)
(* Proofs that the two backends agree on a pointer program, for every      *)
(* program, every size of the registry and of memory, and whatever         *)
(* addresses the system allocator recycles.                                *)
(*                                                                         *)
(* A program that has not ended has, as far as the registry can tell, kept *)
(* its contracts: the VM ends one that frees what it may not free, and an  *)
(* access changes nothing.  So the proofs about the registry are used with *)
(* a program that misuses nothing, even if pointers have strayed.          *)
(***************************************************************************)
EXTENDS PointerParity, FiniteSetTheorems, TLAPS

RtP == INSTANCE AllocRegistryProofs WITH
  Threads <- {main}, Sizes <- ElementCounts, Aligns <- {1}, misused <- FALSE

\* What is known of the registry alone.
RegistryInv == RtP!IInv /\ RtP!DetectInv /\ RtP!OwnedInv

Payload(b) == b.base..(b.base + b.size - 1)

\* The allocator's blocks do not overlap.
BlocksApart == \A b, c \in blocks : b # c => Payload(b) \cap Payload(c) = {}

\* Every live record is of an allocation the program still owns.
LiveOwned ==
  \A i \in RtP!Taken : records[i].live =>
    \E k \in DOMAIN handles : /\ handles[k].owned
                              /\ handles[k].base = records[i].base
                              /\ handles[k].size = records[i].size

\* The record of a freed allocation is dead until its address is given out again.
FreedDead ==
  \A h \in DOMAIN handles :
    handles[h].size # 0 /\ ~handles[h].owned /\ ~RtP!Recycled(h) =>
      \A i \in RtP!SlotsOf(handles[h].base) : ~records[i].live

\* What the program owns overlaps nothing it was given since.
LaterApart ==
  \A k, h \in DOMAIN handles :
    k < h /\ handles[k].owned => CellsOf(k) \cap CellsOf(h) = {}

MemoryInv == BlocksApart /\ LiveOwned /\ FreedDead /\ LaterApart

VmAllocation ==
  [slots: UNION {[0..(n - 1) -> {None}] : n \in Nat},
   never_written: UNION {[0..(n - 1) -> BOOLEAN] : n \in Nat},
   live: BOOLEAN]

\* The a-th allocation of the VM has `size` elements while it is live.
Sized(a, size) == heap[a].live => DOMAIN heap[a].slots = 0..(size - 1)

\* Each native pointer has its VM allocation: with its length, and alive as
\* long as the program owns the memory.  A native allocation on its way to the
\* registry has one already.
Mirrored ==
  /\ heap \in Seq(VmAllocation)
  /\ IF pending[main].op = "record"
     THEN /\ Len(handles) = Len(heap)
          /\ heap[Len(heap)].live
          /\ Sized(Len(heap), pending[main].block.size)
     ELSE Len(handles) = Len(heap) + 1
  /\ \A h \in 2..Len(handles) :
       /\ Sized(h - 1, handles[h].size)
       /\ handles[h].size # 0 => (heap[h - 1].live <=> handles[h].owned)

AgreeInv == RegistryInv /\ MemoryInv /\ Mirrored

ParityInv ==
  /\ ~Ended => AgreeInv
  /\ AcceptedRunsNatively
  /\ RejectedUsesTrap
----------------------------------------------------------------------------
(***************************************************************************)
(* The registry's proofs, used here.                                       *)
(***************************************************************************)
\* The constants are as the proofs about the registry assume.
LEMMA RegistryConstants ==
  /\ MaxTracked \in Nat \ {0}
  /\ SentinelLimit \in Nat \ {0}
  /\ MemoryEnd \in Nat
  /\ MinHeader \in Nat \ {0}
  /\ MaxLayout \in Nat
  /\ ElementCounts \subseteq Nat
  /\ {1} \subseteq Nat
  /\ MaxAllocations \in Nat
  /\ MaxOffset \in Nat
BY ParityAssumption

\* The content of an unused slot is no record.
LEMMA RegistryNone == None \notin RtP!AllocationRecord
BY NoneAssumption DEF Rt!AllocationRecord, RtP!AllocationRecord, Rt!Address, RtP!Address

\* The pointer of an empty allocation is a sentinel.
LEMMA RegistrySentinel == RtP!SmallAligns
BY ParityAssumption DEF RtP!SmallAligns

\* A step of the registry that keeps its contracts keeps what is known of it.
LEMMA RegistryStep == RegistryInv /\ [RtP!Next]_(RtP!vars) => RegistryInv'
<1>. SUFFICES ASSUME RegistryInv, [RtP!Next]_(RtP!vars) PROVE RegistryInv'
  OBVIOUS
<1>1. RtP!IInv /\ RtP!DetectInv /\ RtP!OwnedInv /\ RtP!RecordsMapped
  BY DEF RegistryInv, RtP!DetectInv
<1>2. RtP!IInv'
  BY <1>1, RegistryConstants, RegistryNone, RtP!InvariantStep
<1>3. RtP!DetectInv'
  BY <1>1, RegistryConstants, RegistryNone, RtP!DetectStep
<1>4. RtP!OwnedInv'
  BY <1>1, RegistryConstants, RegistryNone, RegistrySentinel, RtP!OwnedStep
<1>. QED
  BY <1>2, <1>3, <1>4 DEF RegistryInv

\* The registry starts as its proofs expect.
LEMMA RegistryInit == Rt!Init => RegistryInv
<1>. SUFFICES ASSUME Rt!Init PROVE RegistryInv
  OBVIOUS
<1>1. RtP!Init
  BY DEF Rt!Init, RtP!Init, Rt!Slots, RtP!Slots, Rt!Idle, RtP!Idle, Rt!NoTrap, RtP!NoTrap,
         Rt!Dangling, RtP!Dangling
<1>2. RtP!IInv
  BY <1>1, RegistryConstants, RegistryNone, RtP!InvariantInit
<1>3. RtP!DetectInv /\ RtP!OwnedInv
  BY <1>1, RegistryConstants, RegistryNone, RtP!OwnedInit
<1>. QED
  BY <1>2, <1>3 DEF RegistryInv

\* The native calls of an allocation are those of the registry.
LEMMA NativeAllocates ==
  /\ Rt!mjrt_alloc_zero(main, 1) => RtP!mjrt_alloc_zero(main, 1)
  /\ \A n, base : Rt!mjrt_alloc_system(main, n, 1, base) => RtP!mjrt_alloc_system(main, n, 1, base)
  /\ Rt!mjrt_alloc_record(main) => RtP!mjrt_alloc_record(main)
  /\ Rt!release(main) => RtP!release(main)
<1>1. Rt!mjrt_alloc_zero(main, 1) => RtP!mjrt_alloc_zero(main, 1)
  BY DEF Rt!mjrt_alloc_zero, RtP!mjrt_alloc_zero, Rt!CanAllocate, RtP!CanAllocate, Rt!Running,
         RtP!Running, Rt!NoTrap, RtP!NoTrap, Rt!InvalidLayout, RtP!InvalidLayout,
         Rt!is_power_of_two, RtP!is_power_of_two, Rt!Header, RtP!Header
<1>2. ASSUME NEW n, NEW base, Rt!mjrt_alloc_system(main, n, 1, base)
      PROVE  RtP!mjrt_alloc_system(main, n, 1, base)
  BY <1>2
     DEF Rt!mjrt_alloc_system, RtP!mjrt_alloc_system, Rt!CanAllocate, RtP!CanAllocate,
         Rt!Running, RtP!Running, Rt!NoTrap, RtP!NoTrap, Rt!InvalidLayout, RtP!InvalidLayout,
         Rt!is_power_of_two, RtP!is_power_of_two, Rt!Header, RtP!Header,
         Rt!SystemMayReturn, RtP!SystemMayReturn, Rt!Cells, RtP!Cells,
         Rt!Recording, RtP!Recording
<1>3. Rt!mjrt_alloc_record(main) => RtP!mjrt_alloc_record(main)
  BY DEF Rt!mjrt_alloc_record, RtP!mjrt_alloc_record, Rt!Running, RtP!Running, Rt!NoTrap,
         RtP!NoTrap, Rt!SlotsForAlloc, RtP!SlotsForAlloc, Rt!SlotsOf, RtP!SlotsOf, Rt!Taken,
         RtP!Taken, Rt!EmptySlots, RtP!EmptySlots, Rt!Slots, RtP!Slots, Rt!First, RtP!First,
         Rt!Idle, RtP!Idle
<1>4. Rt!release(main) => RtP!release(main)
  BY DEF Rt!release, RtP!release, Rt!Running, RtP!Running, Rt!NoTrap, RtP!NoTrap,
         Rt!Idle, RtP!Idle
<1>. QED
  BY <1>1, <1>2, <1>3, <1>4

\* A native free is, but for what it says of the program, one of the registry.
LEMMA NativeFrees ==
  ASSUME NEW h, NEW offset, Rt!mjrt_free(main, h, offset)
  PROVE  \/ RtP!FreeSentinel(handles[h].base + offset)
         \/ RtP!FreeUnrecorded(handles[h].base + offset)
         \/ RtP!MarkFreed(main, h, handles[h].base + offset)
<1>. DEFINE a == handles[h].base + offset
<1>1. Rt!FreeSentinel(a) \/ Rt!FreeUnrecorded(a) \/ Rt!MarkFreed(main, h, a)
  BY DEF Rt!mjrt_free
<1>. HIDE DEF a
<1>2. Rt!FreeSentinel(a) => RtP!FreeSentinel(a)
  BY DEF Rt!FreeSentinel, RtP!FreeSentinel, Rt!is_dangling_sentinel, RtP!is_dangling_sentinel
<1>3. Rt!FreeUnrecorded(a) => RtP!FreeUnrecorded(a)
  BY DEF Rt!FreeUnrecorded, RtP!FreeUnrecorded, Rt!is_dangling_sentinel,
         RtP!is_dangling_sentinel, Rt!LiveRecord, RtP!LiveRecord, Rt!SlotsOf, RtP!SlotsOf,
         Rt!Taken, RtP!Taken, Rt!Slots, RtP!Slots, Rt!First, RtP!First, Rt!Exit, RtP!Exit,
         Rt!TRAP_POINTER_DOUBLE_FREE, RtP!TRAP_POINTER_DOUBLE_FREE
<1>4. Rt!MarkFreed(main, h, a) => RtP!MarkFreed(main, h, a)
  BY DEF Rt!MarkFreed, RtP!MarkFreed, Rt!is_dangling_sentinel, RtP!is_dangling_sentinel,
         Rt!LiveRecord, RtP!LiveRecord, Rt!SlotsOf, RtP!SlotsOf, Rt!Taken, RtP!Taken,
         Rt!Slots, RtP!Slots, Rt!First, RtP!First, Rt!Releasing, RtP!Releasing
<1>5. RtP!FreeSentinel(a) \/ RtP!FreeUnrecorded(a) \/ RtP!MarkFreed(main, h, a)
  BY <1>1, <1>2, <1>3, <1>4
<1>. QED
  BY <1>5 DEF a

\* A native access classifies the address and goes on, or traps.
LEMMA NativeAccesses ==
  ASSUME NEW h, NEW offset, Rt!guard_pointer_dereference(main, h, offset)
  PROVE  \/ trap' # Rt!NoTrap /\ RtP!mjrt_pointer_status(handles[h].base + offset) # 0
         \/ /\ RtP!mjrt_pointer_status(handles[h].base + offset) = 0
            /\ UNCHANGED <<records, blocks, pending, trap, handles>>
<1>. DEFINE a == handles[h].base + offset
<1>1. Rt!mjrt_pointer_status(a) = RtP!mjrt_pointer_status(a)
  BY DEF Rt!mjrt_pointer_status, RtP!mjrt_pointer_status, Rt!is_dangling_sentinel,
         RtP!is_dangling_sentinel, Rt!LiveAt, RtP!LiveAt, Rt!StaleAt, RtP!StaleAt,
         Rt!Taken, RtP!Taken, Rt!Slots, RtP!Slots, Rt!Contains, RtP!Contains
<1>2. \/ Rt!mjrt_pointer_status(a) \in {1, 2} /\ trap' # Rt!NoTrap
      \/ /\ Rt!mjrt_pointer_status(a) = 0
         /\ UNCHANGED <<records, blocks, pending, trap, handles>>
  <2>. HIDE DEF a
  <2>1. \/ Rt!mjrt_pointer_status(a) = 1 /\ Rt!Exit(Rt!TRAP_POINTER_DANGLING)
        \/ Rt!mjrt_pointer_status(a) = 2 /\ Rt!Exit(Rt!TRAP_POINTER_USE_AFTER_FREE)
        \/ /\ Rt!mjrt_pointer_status(a) = 0
           /\ UNCHANGED <<records, blocks, pending, trap, handles>>
    BY DEF Rt!guard_pointer_dereference, a
  <2>. QED
    BY <2>1 DEF Rt!Exit, Rt!NoTrap, Rt!TRAP_POINTER_DANGLING, Rt!TRAP_POINTER_USE_AFTER_FREE
<1>. HIDE DEF a
<1>3. \/ trap' # Rt!NoTrap /\ RtP!mjrt_pointer_status(a) # 0
      \/ /\ RtP!mjrt_pointer_status(a) = 0
         /\ UNCHANGED <<records, blocks, pending, trap, handles>>
  BY <1>1, <1>2
<1>. QED
  BY <1>3 DEF a

----------------------------------------------------------------------------
(***************************************************************************)
(* One operation on both backends.                                         *)
(***************************************************************************)
\* The parts of the state the two backends agree on.
LEMMA AgreeParts ==
  ASSUME AgreeInv
  PROVE  /\ RtP!TypeOK /\ RtP!RecordsMapped /\ RtP!LastRecorded
         /\ handles \in Seq(RtP!Handle) /\ Len(handles) \in Nat
         /\ DOMAIN handles = 1..Len(handles)
         /\ \A h \in DOMAIN handles : /\ handles[h].base \in Nat
                                      /\ handles[h].size \in Nat
                                      /\ handles[h].owned \in BOOLEAN
         /\ \A h \in DOMAIN handles :
              /\ handles[h].size = 0 => handles[h].base < SentinelLimit
              /\ handles[h].owned /\ handles[h].size # 0 => RtP!RecordedLive(handles[h])
<1>1. RtP!TypeOK /\ RtP!RecordsMapped /\ RtP!LastRecorded
  BY DEF AgreeInv, RegistryInv, RtP!IInv, RtP!DetectInv
<1>2. handles \in Seq(RtP!Handle)
  BY <1>1 DEF RtP!TypeOK
<1>3. \A h \in DOMAIN handles : handles[h] \in RtP!Handle
  BY <1>2
<1>4. \A h \in DOMAIN handles : /\ handles[h].base \in Nat
                                /\ handles[h].size \in Nat
                                /\ handles[h].owned \in BOOLEAN
  BY <1>3 DEF RtP!Handle
<1>5. \A h \in DOMAIN handles : handles[h].size = 0 => handles[h].base < SentinelLimit
  BY DEF AgreeInv, RegistryInv, RtP!OwnedInv, RtP!ZeroSentinel
<1>6. \A h \in DOMAIN handles :
        handles[h].owned /\ handles[h].size # 0 => RtP!RecordedLive(handles[h])
  BY DEF AgreeInv, RegistryInv, RtP!OwnedInv, RtP!OwnedRecorded
<1>. QED
  BY <1>1, <1>2, <1>4, <1>5, <1>6

\* Memory recorded live lies above the sentinels.
LEMMA RecordedMapped ==
  ASSUME AgreeInv, NEW h \in DOMAIN handles, RtP!RecordedLive(handles[h])
  PROVE  ~RtP!is_dangling_sentinel(handles[h].base)
<1>1. PICK i \in RtP!Taken : records[i].base = handles[h].base
  BY DEF RtP!RecordedLive
<1>2. handles[h].base >= SentinelLimit
  BY <1>1, AgreeParts DEF RtP!RecordsMapped
<1>. QED
  BY <1>2, AgreeParts, ParityAssumption DEF RtP!is_dangling_sentinel

\* A free the VM accepts finds its record, or is of an empty allocation.
LEMMA AcceptedFree ==
  ASSUME AgreeInv, NEW h \in DOMAIN handles, h # 1, heap[h - 1].live,
         Rt!mjrt_free(main, h, 0)
  PROVE  \/ /\ handles[h].size # 0 /\ handles[h].owned
            /\ RtP!MarkFreed(main, h, handles[h].base + 0)
         \/ /\ handles[h].size = 0
            /\ UNCHANGED <<records, blocks, pending, trap, handles>>
<1>0. handles[h].base + 0 = handles[h].base
  BY AgreeParts
<1>1. \/ RtP!FreeSentinel(handles[h].base)
      \/ RtP!FreeUnrecorded(handles[h].base)
      \/ RtP!MarkFreed(main, h, handles[h].base)
  BY <1>0, NativeFrees
<1>2. CASE handles[h].size = 0
  <2>1. RtP!is_dangling_sentinel(handles[h].base)
    BY <1>2, AgreeParts DEF RtP!is_dangling_sentinel
  <2>2. RtP!FreeSentinel(handles[h].base)
    BY <1>1, <2>1 DEF RtP!FreeUnrecorded, RtP!MarkFreed
  <2>. QED
    BY <1>2, <2>2 DEF RtP!FreeSentinel
<1>3. CASE handles[h].size # 0
  <2>1. h \in 2..Len(handles)
    BY AgreeParts
  <2>2. handles[h].owned
    BY <1>3, <2>1 DEF AgreeInv, Mirrored
  <2>3. RtP!RecordedLive(handles[h])
    BY <1>3, <2>2, AgreeParts
  <2>4. RtP!LiveRecord(handles[h].base)
    BY <2>3, RegistryConstants, RegistryNone, RtP!RecordedFound DEF AgreeInv, RegistryInv
  <2>5. ~RtP!is_dangling_sentinel(handles[h].base)
    BY <2>3, RecordedMapped
  <2>6. RtP!MarkFreed(main, h, handles[h].base)
    BY <1>1, <2>4, <2>5 DEF RtP!FreeUnrecorded, RtP!FreeSentinel
  <2>. QED
    BY <1>0, <1>3, <2>2, <2>6
<1>. QED
  BY <1>2, <1>3

\* An access the VM's liveness check accepts, inside its allocation, is to an
\* address the registry classifies live.
LEMMA AcceptedAccess ==
  ASSUME AgreeInv, NEW h \in DOMAIN handles, h # 1, heap[h - 1].live,
         NEW offset \in Nat, offset < handles[h].size
  PROVE  RtP!mjrt_pointer_status(handles[h].base + offset) = 0
<1>1. h \in 2..Len(handles) /\ handles[h].size # 0 /\ offset \in 0..(handles[h].size - 1)
  BY AgreeParts
<1>2. handles[h].owned
  BY <1>1 DEF AgreeInv, Mirrored
<1>3. RtP!RecordedLive(handles[h])
  BY <1>1, <1>2, AgreeParts
<1>. QED
  BY <1>1, <1>3, AgreeParts, RegistryConstants, RegistryNone, RtP!RecordedStatus

\* A later pointer to the address of a nonempty allocation shares a cell with it.
LEMMA RecycledShares ==
  ASSUME AgreeInv, NEW h \in DOMAIN handles, handles[h].size # 0, RtP!Recycled(h)
  PROVE  \E k \in DOMAIN handles : k > h /\ CellsOf(k) \cap CellsOf(h) # {}
<1>1. PICK k \in DOMAIN handles : k > h /\ handles[k].size # 0 /\ handles[k].base = handles[h].base
  BY DEF RtP!Recycled
<1>2. handles[h].base \in CellsOf(k) /\ handles[h].base \in CellsOf(h)
  BY <1>1, AgreeParts DEF CellsOf
<1>. QED
  BY <1>1, <1>2

\* A free of freed memory traps, unless the address has been given out again.
LEMMA RejectedFree ==
  ASSUME AgreeInv, NEW h \in DOMAIN handles, h # 1, ~heap[h - 1].live,
         handles[h].size # 0, ~RtP!Recycled(h), Rt!mjrt_free(main, h, 0)
  PROVE  trap' # Rt!NoTrap
<1>0. handles[h].base + 0 = handles[h].base
  BY AgreeParts
<1>1. \/ RtP!FreeSentinel(handles[h].base)
      \/ RtP!FreeUnrecorded(handles[h].base)
      \/ RtP!MarkFreed(main, h, handles[h].base)
  BY <1>0, NativeFrees
<1>2. h \in 2..Len(handles)
  BY AgreeParts
<1>3. ~handles[h].owned
  BY <1>2 DEF AgreeInv, Mirrored
<1>4. ~RtP!LiveRecord(handles[h].base)
  <2>1. \A i \in RtP!SlotsOf(handles[h].base) : ~records[i].live
    BY <1>3 DEF AgreeInv, MemoryInv, FreedDead
  <2>2. RtP!SlotsOf(handles[h].base) # {} =>
          RtP!First(RtP!SlotsOf(handles[h].base)) \in RtP!SlotsOf(handles[h].base)
    BY AgreeParts, RegistryConstants, RegistryNone, RtP!SearchFacts
  <2>. QED
    BY <2>1, <2>2 DEF RtP!LiveRecord
<1>5. ~RtP!is_dangling_sentinel(handles[h].base)
  <2>1. PICK i \in RtP!Taken : records[i].base = handles[h].base
    BY AgreeParts DEF RtP!LastRecorded
  <2>2. handles[h].base >= SentinelLimit
    BY <2>1, AgreeParts DEF RtP!RecordsMapped
  <2>. QED
    BY <2>2, AgreeParts, ParityAssumption DEF RtP!is_dangling_sentinel
<1>6. RtP!FreeUnrecorded(handles[h].base)
  BY <1>1, <1>4, <1>5 DEF RtP!FreeSentinel, RtP!MarkFreed
<1>. QED
  BY <1>6 DEF RtP!FreeUnrecorded, RtP!Exit, RtP!TRAP_POINTER_DOUBLE_FREE, Rt!NoTrap

\* An access to freed memory that the registry lets through is to a cell that
\* has been given out again.
LEMMA RejectedAccess ==
  ASSUME AgreeInv, NEW h \in DOMAIN handles, h # 1, ~heap[h - 1].live,
         NEW offset \in Nat, offset < handles[h].size,
         RtP!mjrt_pointer_status(handles[h].base + offset) = 0
  PROVE  \E k \in DOMAIN handles : k > h /\ CellsOf(k) \cap CellsOf(h) # {}
<1>. DEFINE a == handles[h].base + offset
<1>1. h \in 2..Len(handles) /\ handles[h].size # 0 /\ a \in CellsOf(h)
  BY AgreeParts DEF CellsOf
<1>2. ~handles[h].owned
  BY <1>1 DEF AgreeInv, Mirrored
<1>3. CASE RtP!Recycled(h)
  BY <1>1, <1>3, RecycledShares
<1>4. CASE ~RtP!Recycled(h)
  <2>1. PICK i \in RtP!Taken : records[i].base = handles[h].base /\ records[i].size = handles[h].size
    BY <1>1, <1>4, AgreeParts DEF RtP!LastRecorded
  <2>2. RtP!Contains(records[i], a)
    BY <2>1, AgreeParts DEF RtP!Contains
  <2>3. ~RtP!is_dangling_sentinel(a)
    BY <2>1, AgreeParts, ParityAssumption DEF RtP!RecordsMapped, RtP!is_dangling_sentinel
  <2>4. RtP!LiveAt(a) \/ RtP!StaleAt(a)
    BY <2>2 DEF RtP!LiveAt, RtP!StaleAt
  <2>. HIDE DEF a
  <2>5. RtP!LiveAt(a)
    BY <2>3, <2>4 DEF RtP!mjrt_pointer_status, a
  <2>6. PICK j \in RtP!Taken : records[j].live /\ RtP!Contains(records[j], a)
    BY <2>5 DEF RtP!LiveAt
  <2>7. PICK k \in DOMAIN handles : /\ handles[k].owned
                                    /\ handles[k].base = records[j].base
                                    /\ handles[k].size = records[j].size
    BY <2>6 DEF AgreeInv, MemoryInv, LiveOwned
  <2>8. a \in CellsOf(k)
    BY <2>6, <2>7 DEF RtP!Contains, CellsOf
  <2>9. k # h /\ ~(k < h)
    BY <1>1, <1>2, <2>7, <2>8 DEF AgreeInv, MemoryInv, LaterApart
  <2>10. k > h
    BY <2>9, AgreeParts
  <2>. QED
    BY <1>1, <2>8, <2>10
<1>. QED
  BY <1>3, <1>4

----------------------------------------------------------------------------
(***************************************************************************)
(* The steps after which the program goes on, each what it is natively and *)
(* what it does to the VM's arena.                                         *)
(***************************************************************************)
Fresh(n) ==
  [slots |-> [i \in 0..(n - 1) |-> None], never_written |-> [i \in 0..(n - 1) |-> TRUE],
   live |-> TRUE]
Dead == [slots |-> [i \in {} |-> None], never_written |-> [i \in {} |-> FALSE], live |-> FALSE]

AllocEmpty ==
  /\ 0 \in ElementCounts
  /\ RtP!mjrt_alloc_zero(main, 1)
  /\ heap' = Append(heap, Fresh(0))

HandOut(n, base) ==
  /\ RtP!mjrt_alloc_system(main, n, 1, base)
  /\ heap' = Append(heap, Fresh(n))

Record == RtP!mjrt_alloc_record(main) /\ heap' = heap

Release == RtP!release(main) /\ heap' = heap

FreeOwned(h) ==
  /\ h # 1 /\ trap = RtP!NoTrap /\ pending[main].op = "idle"
  /\ handles[h].size # 0 /\ handles[h].owned
  /\ RtP!MarkFreed(main, h, handles[h].base + 0)
  /\ heap' = [heap EXCEPT ![h - 1] = Dead]

FreeEmpty(h) ==
  /\ h # 1 /\ handles[h].size = 0 /\ pending[main].op = "idle"
  /\ UNCHANGED <<records, blocks, pending, trap, handles>>
  /\ heap' = [heap EXCEPT ![h - 1] = Dead]

Access == UNCHANGED <<heap, records, blocks, pending, trap, handles>>

\* A step that does not end the program is one of these.
LEMMA GoingOn ==
  ASSUME AgreeInv, ~Ended, Next, ~Ended'
  PROVE  \/ AllocEmpty
         \/ \E n \in ElementCounts, base \in RtP!Address : HandOut(n, base)
         \/ Record \/ Release
         \/ \E h \in DOMAIN handles : FreeOwned(h) \/ FreeEmpty(h)
         \/ Access
<1>0. trap = 0 /\ error = "none" /\ trap' = 0 /\ error' = "none"
  BY DEF Ended, Rt!NoTrap
<1>1. ASSUME NEW n \in ElementCounts, Alloc(n)
      PROVE  AllocEmpty \/ \E base \in RtP!Address : HandOut(n, base)
  <2>1. heap' = Append(heap, Fresh(n))
    BY <1>0, <1>1 DEF Alloc, Vm!heap_alloc, Vm!Fail, Fresh
  <2>2. \/ n = 0 /\ Rt!mjrt_alloc_zero(main, 1)
        \/ \E base \in Rt!Address : Rt!mjrt_alloc_system(main, n, 1, base)
    BY <1>0, <1>1
       DEF Alloc, Rt!mjrt_alloc_invalid, Rt!mjrt_alloc_null, Rt!Exit, Rt!TRAP_ALLOC_FAILURE
  <2>3. CASE n = 0 /\ Rt!mjrt_alloc_zero(main, 1)
    BY <2>1, <2>3, NativeAllocates DEF AllocEmpty
  <2>4. ASSUME NEW base \in Rt!Address, Rt!mjrt_alloc_system(main, n, 1, base)
        PROVE  \E b \in RtP!Address : HandOut(n, b)
    <3>1. base \in RtP!Address /\ HandOut(n, base)
      BY <2>1, <2>4, NativeAllocates DEF HandOut, Rt!Address, RtP!Address
    <3>. QED
      BY <3>1
  <2>. QED
    BY <2>2, <2>3, <2>4
<1>2. ASSUME NEW h \in DOMAIN handles, NEW offset \in 0..MaxOffset, FreePointer(h, offset)
      PROVE  FreeOwned(h) \/ FreeEmpty(h)
  <2>1. Vm!heap_free_error(h - 1, offset) = "none" /\ heap' = [heap EXCEPT ![h - 1] = Dead]
    BY <1>0, <1>2 DEF FreePointer, Vm!heap_free, Vm!Fail, Dead
  <2>2. h - 1 # 0 /\ offset = 0 /\ heap[h - 1].live
    BY <2>1 DEF Vm!heap_free_error
  <2>3. h # 1
    BY <2>2
  <2>4. Rt!mjrt_free(main, h, 0) /\ pending[main].op = "idle"
    BY <1>2, <2>2 DEF FreePointer, Running
  <2>5. \/ /\ handles[h].size # 0 /\ handles[h].owned
           /\ RtP!MarkFreed(main, h, handles[h].base + 0)
        \/ /\ handles[h].size = 0
           /\ UNCHANGED <<records, blocks, pending, trap, handles>>
    BY <2>2, <2>3, <2>4, AcceptedFree
  <2>. QED
    BY <1>0, <2>1, <2>3, <2>4, <2>5 DEF FreeOwned, FreeEmpty, RtP!NoTrap
<1>3. ASSUME NEW h \in DOMAIN handles, NEW offset \in 0..MaxOffset, NEW index \in Indices,
             Subscript(h, offset, index)
      PROVE  Access
  <2>1. heap' = heap /\ Rt!guard_pointer_dereference(main, h, offset)
    BY <1>3 DEF Subscript, VmAccess
  <2>. QED
    BY <1>0, <2>1, NativeAccesses DEF Access, Rt!NoTrap
<1>4. ASSUME NativeStep
      PROVE  Record \/ Release
  <2>1. heap' = heap /\ (Rt!mjrt_alloc_record(main) \/ Rt!release(main))
    BY <1>0, <1>4 DEF NativeStep, Rt!mjrt_alloc_full, Rt!Exit, Rt!TRAP_ALLOC_FAILURE
  <2>. QED
    BY <2>1, NativeAllocates DEF Record, Release
<1>. QED
  BY <1>1, <1>2, <1>3, <1>4 DEF Next

\* Such a step is one of the registry, whose contracts it keeps.
LEMMA GoingOnNative ==
  ASSUME AgreeInv,
         \/ AllocEmpty
         \/ \E n \in ElementCounts, base \in RtP!Address : HandOut(n, base)
         \/ Record \/ Release
         \/ \E h \in DOMAIN handles : FreeOwned(h) \/ FreeEmpty(h)
         \/ Access
  PROVE  RegistryInv'
<1>1. CASE AllocEmpty
  <2>1. RtP!Next
    BY <1>1 DEF AllocEmpty, RtP!Next, RtP!Allocate
  <2>. QED
    BY <2>1, RegistryStep DEF AgreeInv
<1>2. ASSUME NEW n \in ElementCounts, NEW base \in RtP!Address, HandOut(n, base)
      PROVE  RegistryInv'
  <2>1. RtP!Next
    BY <1>2 DEF HandOut, RtP!Next, RtP!Allocate
  <2>. QED
    BY <2>1, RegistryStep DEF AgreeInv
<1>3. CASE Record \/ Release
  <2>1. RtP!Next
    BY <1>3 DEF Record, Release, RtP!Next
  <2>. QED
    BY <2>1, RegistryStep DEF AgreeInv
<1>4. ASSUME NEW h \in DOMAIN handles, FreeOwned(h)
      PROVE  RegistryInv'
  <2>1. RtP!mjrt_free(main, h, 0)
    BY <1>4 DEF FreeOwned, RtP!mjrt_free, RtP!CanCall, RtP!Running, RtP!Use, RtP!LawfulFree
  <2>2. 0 \in 0..MaxOffset
    BY ParityAssumption
  <2>3. RtP!Next
    BY <2>1, <2>2 DEF RtP!Next, RtP!Free
  <2>. QED
    BY <2>3, RegistryStep DEF AgreeInv
<1>5. CASE Access \/ \E h \in DOMAIN handles : FreeEmpty(h)
  <2>1. UNCHANGED RtP!vars
    BY <1>5 DEF Access, FreeEmpty, RtP!vars
  <2>. QED
    BY <2>1, RegistryStep DEF AgreeInv
<1>. QED
  BY <1>1, <1>2, <1>3, <1>4, <1>5

----------------------------------------------------------------------------
(***************************************************************************)
(* What such a step does to memory.                                        *)
(***************************************************************************)
\* Memory looks the same while records and pointers do and no block is new.
LEMMA MemorySame ==
  ASSUME AgreeInv, UNCHANGED <<records, handles>>, blocks' \subseteq blocks
  PROVE  MemoryInv'
<1>1. RtP!Taken' = RtP!Taken
  BY DEF RtP!Taken
<1>2. \A a : RtP!SlotsOf(a)' = RtP!SlotsOf(a)
  BY <1>1 DEF RtP!SlotsOf
<1>3. \A h : (RtP!Recycled(h)' <=> RtP!Recycled(h)) /\ CellsOf(h)' = CellsOf(h)
  BY DEF RtP!Recycled, CellsOf
<1>4. BlocksApart'
  BY DEF AgreeInv, MemoryInv, BlocksApart, Payload
<1>5. LiveOwned'
  BY <1>1 DEF AgreeInv, MemoryInv, LiveOwned
<1>6. FreedDead'
  BY <1>2, <1>3 DEF AgreeInv, MemoryInv, FreedDead
<1>7. LaterApart'
  BY <1>3 DEF AgreeInv, MemoryInv, LaterApart
<1>. QED
  BY <1>4, <1>5, <1>6, <1>7 DEF MemoryInv

\* The allocator hands out a block that overlaps no other.
LEMMA MemoryHandOut ==
  ASSUME AgreeInv, NEW n \in ElementCounts, NEW base \in RtP!Address, HandOut(n, base)
  PROVE  MemoryInv'
<1>. DEFINE b == [base |-> base, size |-> n, align |-> 1]
<1>1. /\ blocks' = blocks \cup {b} /\ RtP!SystemMayReturn(b)
      /\ UNCHANGED <<records, handles>>
  BY DEF HandOut, RtP!mjrt_alloc_system
<1>2. \A c \in blocks : c \in RtP!Block
  BY AgreeParts DEF RtP!TypeOK
<1>3. ASSUME NEW c \in blocks PROVE Payload(b) \cap Payload(c) = {}
  <2>1. RtP!Cells(b) \cap RtP!Cells(c) = {}
    BY <1>1 DEF RtP!SystemMayReturn
  <2>2. base \in Nat /\ n \in Nat /\ c.base \in Nat /\ c.size \in Nat /\ c.align \in Nat
    BY <1>2, ParityAssumption DEF RtP!Address, RtP!Block
  <2>3. Payload(b) \subseteq RtP!Cells(b)
    BY <2>2, ParityAssumption DEF Payload, RtP!Cells, RtP!Header
  <2>4. Payload(c) \subseteq RtP!Cells(c)
    BY <2>2, ParityAssumption DEF Payload, RtP!Cells, RtP!Header
  <2>. QED
    BY <2>1, <2>3, <2>4
<1>. HIDE DEF b
<1>4. BlocksApart'
  <2>1. ASSUME NEW x \in blocks', NEW y \in blocks', x # y
        PROVE  Payload(x) \cap Payload(y) = {}
    <3>1. CASE x \in blocks /\ y \in blocks
      BY <2>1, <3>1 DEF AgreeInv, MemoryInv, BlocksApart
    <3>2. CASE x = b /\ y \in blocks
      BY <1>3, <3>2
    <3>3. CASE y = b /\ x \in blocks
      BY <1>3, <3>3
    <3>. QED
      BY <1>1, <2>1, <3>1, <3>2, <3>3
  <2>. QED
    BY <2>1 DEF BlocksApart, Payload
<1>5. RtP!Taken' = RtP!Taken
  BY <1>1 DEF RtP!Taken
<1>6. \A a : RtP!SlotsOf(a)' = RtP!SlotsOf(a)
  BY <1>1, <1>5 DEF RtP!SlotsOf
<1>7. \A h : (RtP!Recycled(h)' <=> RtP!Recycled(h)) /\ CellsOf(h)' = CellsOf(h)
  BY <1>1 DEF RtP!Recycled, CellsOf
<1>8. LiveOwned'
  BY <1>1, <1>5 DEF AgreeInv, MemoryInv, LiveOwned
<1>9. FreedDead'
  BY <1>1, <1>6, <1>7 DEF AgreeInv, MemoryInv, FreedDead
<1>10. LaterApart'
  BY <1>1, <1>7 DEF AgreeInv, MemoryInv, LaterApart
<1>. QED
  BY <1>4, <1>8, <1>9, <1>10 DEF MemoryInv

\* A pointer more: the others stay.
LEMMA OneMore ==
  ASSUME AgreeInv, NEW g, handles' = Append(handles, g)
  PROVE  /\ DOMAIN handles' = DOMAIN handles \cup {Len(handles) + 1}
         /\ Len(handles') = Len(handles) + 1
         /\ \A k \in DOMAIN handles : handles'[k] = handles[k] /\ Len(handles) + 1 > k
         /\ handles'[Len(handles) + 1] = g
         /\ \A k \in DOMAIN handles : CellsOf(k)' = CellsOf(k)
<1>1. /\ DOMAIN handles' = DOMAIN handles \cup {Len(handles) + 1}
      /\ Len(handles') = Len(handles) + 1
      /\ \A k \in DOMAIN handles : handles'[k] = handles[k] /\ Len(handles) + 1 > k
      /\ handles'[Len(handles) + 1] = g
  BY AgreeParts
<1>. QED
  BY <1>1 DEF CellsOf

\* An empty allocation has no cell.
LEMMA MemoryEmpty ==
  ASSUME AgreeInv, AllocEmpty
  PROVE  MemoryInv'
<1>. DEFINE g == [base |-> 1, size |-> 0, align |-> 1, owned |-> TRUE]
<1>0. PICK n \in Nat : n = Len(handles) + 1
  BY AgreeParts
<1>1. /\ handles' = Append(handles, g) /\ UNCHANGED <<records, blocks>>
      /\ g.base = 1 /\ g.size = 0 /\ g.owned
  BY DEF AllocEmpty, RtP!mjrt_alloc_zero
<1>. HIDE DEF g
<1>2. /\ DOMAIN handles' = DOMAIN handles \cup {n}
      /\ \A k \in DOMAIN handles : handles'[k] = handles[k] /\ n > k
      /\ handles'[n] = g
      /\ \A k \in DOMAIN handles : CellsOf(k)' = CellsOf(k)
  BY <1>0, <1>1, OneMore
<1>3. RtP!Taken' = RtP!Taken
  BY <1>1 DEF RtP!Taken
<1>4. \A a : RtP!SlotsOf(a)' = RtP!SlotsOf(a)
  BY <1>1, <1>3 DEF RtP!SlotsOf
<1>5. \A h \in DOMAIN handles : RtP!Recycled(h)' <=> RtP!Recycled(h)
  BY <1>1, <1>2 DEF RtP!Recycled
<1>6. CellsOf(n)' = {}
  BY <1>1, <1>2 DEF CellsOf
<1>7. BlocksApart'
  BY <1>1 DEF AgreeInv, MemoryInv, BlocksApart, Payload
<1>8. LiveOwned'
  BY <1>1, <1>2, <1>3 DEF AgreeInv, MemoryInv, LiveOwned
<1>9. FreedDead'
  BY <1>1, <1>2, <1>4, <1>5 DEF AgreeInv, MemoryInv, FreedDead
<1>10. LaterApart'
  <2>1. ASSUME NEW k \in DOMAIN handles', NEW h \in DOMAIN handles', k < h, handles'[k].owned
        PROVE  CellsOf(k)' \cap CellsOf(h)' = {}
    <3>1. CASE h = n \/ k = n
      BY <1>6, <3>1
    <3>2. CASE h \in DOMAIN handles /\ k \in DOMAIN handles
      BY <1>2, <2>1, <3>2 DEF AgreeInv, MemoryInv, LaterApart
    <3>. QED
      BY <1>2, <3>1, <3>2
  <2>. QED
    BY <2>1 DEF LaterApart
<1>. QED
  BY <1>7, <1>8, <1>9, <1>10 DEF MemoryInv

\* A block recorded is apart from all the program owns.
LEMMA MemoryRecord ==
  ASSUME AgreeInv, Record
  PROVE  MemoryInv'
<1>0. RtP!IInv /\ RtP!mjrt_alloc_record(main) /\ RtP!TypeOK
  BY AgreeParts DEF AgreeInv, RegistryInv, Record
<1>1. PICK b \in blocks, s \in RtP!Slots :
        /\ b \in RtP!Block
        /\ records'[s] = [base |-> b.base, size |-> b.size, align |-> b.align, live |-> TRUE]
        /\ RtP!Taken' = RtP!Taken \cup {s}
        /\ \A i \in RtP!Taken : i # s => records'[i] = records[i] /\ records[i].base # b.base
        /\ \A i \in RtP!Taken : records[i].base = b.base => i = s /\ ~records[i].live
        /\ handles' = Append(handles, [base |-> b.base, size |-> b.size,
                                       align |-> b.align, owned |-> TRUE])
        /\ blocks' = blocks
  BY <1>0, RegistryConstants, RegistryNone, RtP!RecordEffect
<1>. DEFINE g == [base |-> b.base, size |-> b.size, align |-> b.align, owned |-> TRUE]
            r == [base |-> b.base, size |-> b.size, align |-> b.align, live |-> TRUE]
<1>n. PICK n \in Nat : n = Len(handles) + 1
  BY AgreeParts
<1>2. /\ handles' = Append(handles, g) /\ g.base = b.base /\ g.size = b.size /\ g.owned
      /\ records'[s] = r /\ r.base = b.base /\ r.size = b.size
      /\ b.size # 0 /\ b.size \in Nat /\ b.base \in Nat
  BY <1>1 DEF RtP!Block, RtP!Address
<1>. HIDE DEF g, r
<1>3. /\ DOMAIN handles' = DOMAIN handles \cup {n}
      /\ \A k \in DOMAIN handles : handles'[k] = handles[k] /\ n > k
      /\ handles'[n] = g
      /\ \A k \in DOMAIN handles : CellsOf(k)' = CellsOf(k)
  BY <1>n, <1>2, OneMore
<1>4. BlocksApart'
  BY <1>1 DEF AgreeInv, MemoryInv, BlocksApart, Payload
<1>5. LiveOwned'
  <2>1. ASSUME NEW i \in RtP!Taken', records'[i].live
        PROVE  \E k \in DOMAIN handles' : /\ handles'[k].owned
                                          /\ handles'[k].base = records'[i].base
                                          /\ handles'[k].size = records'[i].size
    <3>1. CASE i = s
      BY <1>2, <1>3, <3>1
    <3>2. CASE i # s
      <4>1. i \in RtP!Taken /\ records'[i] = records[i]
        BY <1>1, <3>2
      <4>2. PICK k \in DOMAIN handles : /\ handles[k].owned
                                        /\ handles[k].base = records[i].base
                                        /\ handles[k].size = records[i].size
        BY <2>1, <4>1 DEF AgreeInv, MemoryInv, LiveOwned
      <4>. QED
        BY <1>3, <4>1, <4>2
    <3>. QED
      BY <3>1, <3>2
  <2>. QED
    BY <2>1 DEF LiveOwned
<1>6. FreedDead'
  <2>1. ASSUME NEW h \in DOMAIN handles', handles'[h].size # 0, ~handles'[h].owned,
               ~RtP!Recycled(h)', NEW i \in RtP!Taken', records'[i].base = handles'[h].base
        PROVE  ~records'[i].live
    <3>1. h \in DOMAIN handles /\ handles'[h] = handles[h]
      BY <1>2, <1>3, <2>1
    <3>2. handles[h].base # b.base
      BY <1>2, <1>3, <2>1, <3>1 DEF RtP!Recycled
    <3>3. ~RtP!Recycled(h)
      BY <1>3, <2>1, <3>1 DEF RtP!Recycled
    <3>4. i # s /\ i \in RtP!Taken /\ records'[i] = records[i]
      BY <1>1, <1>2, <2>1, <3>1, <3>2
    <3>. QED
      BY <2>1, <3>1, <3>3, <3>4 DEF AgreeInv, MemoryInv, FreedDead, RtP!SlotsOf
  <2>. QED
    BY <2>1 DEF FreedDead, RtP!SlotsOf
<1>7. ASSUME NEW k \in DOMAIN handles, handles[k].owned
      PROVE  CellsOf(k) \cap Payload(b) = {}
  <2>1. CASE handles[k].size = 0
    BY <2>1, AgreeParts DEF CellsOf
  <2>2. CASE handles[k].size # 0
    <3>1. RtP!RecordedLive(handles[k])
      BY <1>7, <2>2, AgreeParts
    <3>2. PICK i \in RtP!Taken : /\ records[i].base = handles[k].base
                                 /\ records[i].size = handles[k].size
                                 /\ records[i].live
      BY <3>1 DEF RtP!RecordedLive
    <3>3. RtP!BlockOf(records[i]) \in blocks
      BY <1>0, <3>2 DEF RtP!IInv, RtP!LiveBacked
    <3>4. /\ RtP!BlockOf(records[i]).base = handles[k].base
          /\ RtP!BlockOf(records[i]).size = handles[k].size
      BY <3>2 DEF RtP!BlockOf
    <3>5. handles[k].base # b.base
      BY <1>1, <3>2
    <3>6. RtP!BlockOf(records[i]) # b
      BY <3>4, <3>5
    <3>7. Payload(RtP!BlockOf(records[i])) \cap Payload(b) = {}
      BY <3>3, <3>6 DEF AgreeInv, MemoryInv, BlocksApart
    <3>8. Payload(RtP!BlockOf(records[i])) = CellsOf(k)
      BY <3>4 DEF Payload, CellsOf
    <3>. QED
      BY <3>7, <3>8
  <2>. QED
    BY <2>1, <2>2
<1>8. CellsOf(n)' = Payload(b)
  BY <1>2, <1>3 DEF CellsOf, Payload
<1>9. LaterApart'
  <2>1. ASSUME NEW k \in DOMAIN handles', NEW h \in DOMAIN handles', k < h, handles'[k].owned
        PROVE  CellsOf(k)' \cap CellsOf(h)' = {}
    <3>1. k \in DOMAIN handles
      <4>1. n \in Nat /\ \A q \in DOMAIN handles' : q \in Nat /\ q <= n
        BY <1>n, <1>3, AgreeParts
      <4>. QED
        BY <1>3, <2>1, <4>1
    <3>2. handles[k].owned /\ CellsOf(k)' = CellsOf(k)
      BY <1>3, <2>1, <3>1
    <3>3. CASE h = n
      BY <1>7, <1>8, <3>1, <3>2, <3>3
    <3>4. CASE h \in DOMAIN handles
      BY <1>3, <2>1, <3>1, <3>2, <3>4 DEF AgreeInv, MemoryInv, LaterApart
    <3>. QED
      BY <1>3, <3>3, <3>4
  <2>. QED
    BY <2>1 DEF LaterApart
<1>. QED
  BY <1>4, <1>5, <1>6, <1>9 DEF MemoryInv

\* A free kills the record of its pointer, and no other.
LEMMA MemoryFree ==
  ASSUME AgreeInv, NEW h \in DOMAIN handles, FreeOwned(h)
  PROVE  MemoryInv'
<1>0. RtP!IInv /\ 0 \in 0..MaxOffset /\ RtP!FreeOf(main, h, 0)
  BY ParityAssumption DEF AgreeInv, RegistryInv, FreeOwned, RtP!FreeOf, RtP!LawfulFree
<1>1. PICK s \in RtP!Taken :
        /\ records[s].base = handles[h].base + 0
        /\ records'[s] = [records[s] EXCEPT !.live = FALSE]
        /\ records[s] \in RtP!AllocationRecord
        /\ RtP!Taken' = RtP!Taken
        /\ \A i \in RtP!Taken : i # s =>
             records'[i] = records[i] /\ records[i].base # records[s].base
        /\ handles' = [handles EXCEPT ![h] = [handles[h] EXCEPT !.owned = FALSE]]
        /\ blocks' = blocks
  BY <1>0, RegistryConstants, RegistryNone, RtP!FreeEffect
<1>2. /\ records'[s].base = records[s].base /\ ~records'[s].live
      /\ records[s].base = handles[h].base
  BY <1>1, AgreeParts DEF RtP!AllocationRecord
<1>3. /\ DOMAIN handles' = DOMAIN handles
      /\ \A k \in DOMAIN handles : /\ handles'[k].base = handles[k].base
                                   /\ handles'[k].size = handles[k].size
                                   /\ k # h => handles'[k] = handles[k]
                                   /\ handles'[k].owned => handles[k].owned
      /\ ~handles'[h].owned
  <2>1. \A k \in DOMAIN handles : handles[k] \in RtP!Handle
    BY AgreeParts
  <2>. QED
    BY <1>1, <2>1 DEF RtP!Handle
<1>4. \A k \in DOMAIN handles : (RtP!Recycled(k)' <=> RtP!Recycled(k)) /\ CellsOf(k)' = CellsOf(k)
  BY <1>3 DEF RtP!Recycled, CellsOf
<1>5. BlocksApart'
  BY <1>1 DEF AgreeInv, MemoryInv, BlocksApart, Payload
<1>6. LiveOwned'
  <2>1. ASSUME NEW i \in RtP!Taken', records'[i].live
        PROVE  \E k \in DOMAIN handles' : /\ handles'[k].owned
                                          /\ handles'[k].base = records'[i].base
                                          /\ handles'[k].size = records'[i].size
    <3>1. i # s /\ i \in RtP!Taken /\ records'[i] = records[i] /\ records[i].base # handles[h].base
      BY <1>1, <1>2, <2>1
    <3>2. PICK k \in DOMAIN handles : /\ handles[k].owned
                                      /\ handles[k].base = records[i].base
                                      /\ handles[k].size = records[i].size
      BY <2>1, <3>1 DEF AgreeInv, MemoryInv, LiveOwned
    <3>3. k # h
      BY <3>1, <3>2
    <3>. QED
      BY <1>3, <3>1, <3>2, <3>3
  <2>. QED
    BY <2>1 DEF LiveOwned
<1>7. FreedDead'
  <2>1. ASSUME NEW k \in DOMAIN handles', handles'[k].size # 0, ~handles'[k].owned,
               ~RtP!Recycled(k)', NEW i \in RtP!Taken', records'[i].base = handles'[k].base
        PROVE  ~records'[i].live
    <3>1. CASE i = s
      BY <1>2, <3>1
    <3>2. CASE i # s
      <4>1. i \in RtP!Taken /\ records'[i] = records[i] /\ records[i].base # handles[h].base
        BY <1>1, <1>2, <3>2
      <4>2. k # h /\ k \in DOMAIN handles /\ handles'[k] = handles[k]
        BY <1>3, <2>1, <4>1
      <4>3. ~RtP!Recycled(k)
        BY <1>4, <2>1, <4>2
      <4>. QED
        BY <2>1, <4>1, <4>2, <4>3 DEF AgreeInv, MemoryInv, FreedDead, RtP!SlotsOf
    <3>. QED
      BY <3>1, <3>2
  <2>. QED
    BY <2>1 DEF FreedDead, RtP!SlotsOf
<1>8. LaterApart'
  BY <1>3, <1>4 DEF AgreeInv, MemoryInv, LaterApart
<1>. QED
  BY <1>5, <1>6, <1>7, <1>8 DEF MemoryInv

----------------------------------------------------------------------------
(***************************************************************************)
(* What such a step does to the VM's arena beside the native pointers.     *)
(***************************************************************************)
\* What the VM puts into its arena.
LEMMA VmAllocations ==
  /\ Dead \in VmAllocation /\ Dead.live = FALSE
  /\ \A n \in Nat : /\ Fresh(n) \in VmAllocation
                    /\ Fresh(n).live = TRUE
                    /\ DOMAIN Fresh(n).slots = 0..(n - 1)
<1>1. Dead \in VmAllocation /\ Dead.live = FALSE
  <2>1. {} = 0..(0 - 1)
    OBVIOUS
  <2>2. [i \in {} |-> None] \in [0..(0 - 1) -> {None}]
    BY <2>1
  <2>3. [i \in {} |-> FALSE] \in [0..(0 - 1) -> BOOLEAN]
    BY <2>1
  <2>4. [i \in {} |-> None] \in UNION {[0..(n - 1) -> {None}] : n \in Nat}
    BY <2>2
  <2>5. [i \in {} |-> FALSE] \in UNION {[0..(n - 1) -> BOOLEAN] : n \in Nat}
    BY <2>3
  <2>. QED
    BY <2>4, <2>5 DEF Dead, VmAllocation
<1>2. ASSUME NEW n \in Nat
      PROVE  /\ Fresh(n) \in VmAllocation
             /\ Fresh(n).live = TRUE
             /\ DOMAIN Fresh(n).slots = 0..(n - 1)
  <2>1. [i \in 0..(n - 1) |-> None] \in UNION {[0..(m - 1) -> {None}] : m \in Nat}
    OBVIOUS
  <2>2. [i \in 0..(n - 1) |-> TRUE] \in UNION {[0..(m - 1) -> BOOLEAN] : m \in Nat}
    OBVIOUS
  <2>. QED
    BY <2>1, <2>2 DEF Fresh, VmAllocation
<1>. QED
  BY <1>1, <1>2

\* The arena as a sequence, and the pointers of which it has the allocations.
LEMMA MirrorParts ==
  ASSUME AgreeInv
  PROVE  /\ heap \in Seq(VmAllocation) /\ Len(heap) \in Nat /\ DOMAIN heap = 1..Len(heap)
         /\ \A h \in 2..Len(handles) :
              /\ h - 1 \in DOMAIN heap
              /\ heap[h - 1].live => DOMAIN heap[h - 1].slots = 0..(handles[h].size - 1)
              /\ handles[h].size # 0 => (heap[h - 1].live <=> handles[h].owned)
         /\ pending[main].op = "record" => /\ Len(handles) = Len(heap)
                                           /\ heap[Len(heap)].live
                                           /\ DOMAIN heap[Len(heap)].slots
                                                = 0..(pending[main].block.size - 1)
         /\ pending[main].op # "record" => Len(handles) = Len(heap) + 1
<1>1. heap \in Seq(VmAllocation) /\ Len(heap) \in Nat /\ DOMAIN heap = 1..Len(heap)
  BY DEF AgreeInv, Mirrored
<1>2. pending[main].op = "record" => /\ Len(handles) = Len(heap)
                                     /\ heap[Len(heap)].live
                                     /\ DOMAIN heap[Len(heap)].slots
                                          = 0..(pending[main].block.size - 1)
  BY DEF AgreeInv, Mirrored, Sized
<1>3. pending[main].op # "record" => Len(handles) = Len(heap) + 1
  BY DEF AgreeInv, Mirrored
<1>4. \A h \in 2..Len(handles) : h - 1 \in DOMAIN heap
  <2>1. Len(handles) = Len(heap) \/ Len(handles) = Len(heap) + 1
    BY <1>2, <1>3
  <2>2. \A n \in Nat : \A h \in 2..n : h - 1 \in 1..n /\ h - 1 \in 1..(n - 1)
    OBVIOUS
  <2>. QED
    BY <1>1, <2>1, <2>2
<1>5. \A h \in 2..Len(handles) :
              /\ heap[h - 1].live => DOMAIN heap[h - 1].slots = 0..(handles[h].size - 1)
              /\ handles[h].size # 0 => (heap[h - 1].live <=> handles[h].owned)
  BY DEF AgreeInv, Mirrored, Sized
<1>. QED
  BY <1>1, <1>2, <1>3, <1>4, <1>5

\* Putting an allocation into the arena leaves the others.
LEMMA ArenaGrows ==
  ASSUME AgreeInv, NEW v \in VmAllocation, heap' = Append(heap, v)
  PROVE  /\ heap' \in Seq(VmAllocation) /\ Len(heap') = Len(heap) + 1
         /\ heap'[Len(heap) + 1] = v
         /\ \A a \in DOMAIN heap : heap'[a] = heap[a]
BY MirrorParts

\* The goal of the cases below, in the variables of the next state.
LEMMA MirrorGoal ==
  ASSUME heap' \in Seq(VmAllocation),
         pending'[main].op = "record" => /\ Len(handles') = Len(heap')
                                         /\ heap'[Len(heap')].live
                                         /\ DOMAIN heap'[Len(heap')].slots
                                              = 0..(pending'[main].block.size - 1),
         pending'[main].op # "record" => Len(handles') = Len(heap') + 1,
         \A h \in 2..Len(handles') :
           /\ heap'[h - 1].live => DOMAIN heap'[h - 1].slots = 0..(handles'[h].size - 1)
           /\ handles'[h].size # 0 => (heap'[h - 1].live <=> handles'[h].owned)
  PROVE  Mirrored'
BY DEF Mirrored, Sized

\* A new empty allocation has its pointer at once.
LEMMA MirrorEmpty ==
  ASSUME AgreeInv, AllocEmpty
  PROVE  Mirrored'
<1>. DEFINE g == [base |-> 1, size |-> 0, align |-> 1, owned |-> TRUE]
<1>1. /\ handles' = Append(handles, g) /\ g.size = 0
      /\ pending' = pending /\ pending[main].op = "idle"
      /\ heap' = Append(heap, Fresh(0))
  BY DEF AllocEmpty, RtP!mjrt_alloc_zero, RtP!CanAllocate
<1>. HIDE DEF g
<1>2. /\ heap' \in Seq(VmAllocation) /\ Len(heap') = Len(heap) + 1
      /\ heap'[Len(heap) + 1] = Fresh(0)
      /\ \A a \in DOMAIN heap : heap'[a] = heap[a]
  BY <1>1, VmAllocations, ArenaGrows
<1>3. /\ Len(handles') = Len(handles) + 1
      /\ \A k \in DOMAIN handles : handles'[k] = handles[k]
      /\ handles'[Len(handles) + 1] = g
  BY <1>1, OneMore
<1>4. Len(handles) = Len(heap) + 1
  BY <1>1, MirrorParts
<1>5. ASSUME NEW h \in 2..Len(handles')
      PROVE  /\ heap'[h - 1].live => DOMAIN heap'[h - 1].slots = 0..(handles'[h].size - 1)
             /\ handles'[h].size # 0 => (heap'[h - 1].live <=> handles'[h].owned)
  <2>1. CASE h = Len(handles) + 1
    <3>1. h - 1 = Len(heap) + 1
      <4>1. Len(heap) \in Nat
        BY MirrorParts
      <4>. QED
        BY <1>4, <2>1, <4>1
    <3>2. heap'[h - 1] = Fresh(0) /\ handles'[h] = g
      BY <1>2, <1>3, <2>1, <3>1
    <3>3. 0 \in Nat /\ DOMAIN Fresh(0).slots = 0..(0 - 1)
      BY VmAllocations
    <3>. QED
      BY <1>1, <3>2, <3>3
  <2>2. CASE h # Len(handles) + 1
    <3>1. h \in 2..Len(handles) /\ h \in DOMAIN handles
      BY <1>3, <2>2, AgreeParts
    <3>2. heap'[h - 1] = heap[h - 1] /\ handles'[h] = handles[h]
      BY <1>2, <1>3, <3>1, MirrorParts
    <3>. QED
      BY <3>1, <3>2, MirrorParts
  <2>. QED
    BY <2>1, <2>2
<1>6. Len(handles') = Len(heap') + 1
  BY <1>2, <1>3, <1>4, MirrorParts
<1>. QED
  BY <1>1, <1>2, <1>5, <1>6, MirrorGoal

\* The block on its way to the registry has the allocation just made.
LEMMA MirrorHandOut ==
  ASSUME AgreeInv, NEW n \in ElementCounts, NEW base \in RtP!Address, HandOut(n, base)
  PROVE  Mirrored'
<1>. DEFINE b == [base |-> base, size |-> n, align |-> 1]
<1>1. /\ handles' = handles /\ pending[main].op = "idle"
      /\ pending' = [pending EXCEPT ![main] = RtP!Recording(b)]
      /\ heap' = Append(heap, Fresh(n)) /\ n \in Nat
  BY ParityAssumption DEF HandOut, RtP!mjrt_alloc_system, RtP!CanAllocate
<1>2. pending'[main].op = "record" /\ pending'[main].block.size = n
  BY <1>1, AgreeParts DEF RtP!TypeOK, RtP!Recording
<1>3. /\ heap' \in Seq(VmAllocation) /\ Len(heap') = Len(heap) + 1
      /\ heap'[Len(heap) + 1] = Fresh(n)
      /\ \A a \in DOMAIN heap : heap'[a] = heap[a]
  BY <1>1, VmAllocations, ArenaGrows
<1>4. Len(handles') = Len(heap')
  BY <1>1, <1>3, MirrorParts
<1>5. heap'[Len(heap')].live /\ DOMAIN heap'[Len(heap')].slots = 0..(n - 1)
  BY <1>1, <1>3, VmAllocations
<1>6. ASSUME NEW h \in 2..Len(handles')
      PROVE  /\ heap'[h - 1].live => DOMAIN heap'[h - 1].slots = 0..(handles'[h].size - 1)
             /\ handles'[h].size # 0 => (heap'[h - 1].live <=> handles'[h].owned)
  <2>1. h \in 2..Len(handles) /\ heap'[h - 1] = heap[h - 1]
    BY <1>1, <1>3, MirrorParts
  <2>. QED
    BY <1>1, <2>1, MirrorParts
<1>. QED
  BY <1>2, <1>3, <1>4, <1>5, <1>6, MirrorGoal

\* The registry returns the pointer of the allocation on its way.
LEMMA MirrorRecord ==
  ASSUME AgreeInv, Record
  PROVE  Mirrored'
<1>. DEFINE b == pending[main].block
            g == [base |-> b.base, size |-> b.size, align |-> b.align, owned |-> TRUE]
<1>1. /\ handles' = Append(handles, g) /\ g.size = b.size /\ g.owned
      /\ pending[main].op = "record"
      /\ pending' = [pending EXCEPT ![main] = RtP!Idle]
      /\ heap' = heap
  BY DEF Record, RtP!mjrt_alloc_record
<1>. HIDE DEF g
<1>2. pending'[main].op # "record"
  BY <1>1, AgreeParts DEF RtP!TypeOK, RtP!Idle
<1>3. /\ Len(handles') = Len(handles) + 1
      /\ \A k \in DOMAIN handles : handles'[k] = handles[k]
      /\ handles'[Len(handles) + 1] = g
  BY <1>1, OneMore
<1>4. /\ Len(handles) = Len(heap) /\ heap[Len(heap)].live
      /\ DOMAIN heap[Len(heap)].slots = 0..(b.size - 1)
  BY <1>1, MirrorParts
<1>5. ASSUME NEW h \in 2..Len(handles')
      PROVE  /\ heap'[h - 1].live => DOMAIN heap'[h - 1].slots = 0..(handles'[h].size - 1)
             /\ handles'[h].size # 0 => (heap'[h - 1].live <=> handles'[h].owned)
  <2>1. CASE h = Len(handles) + 1
    <3>1. h - 1 = Len(heap)
      BY <1>4, <2>1, MirrorParts
    <3>2. handles'[h] = g
      BY <1>3, <2>1
    <3>. QED
      BY <1>1, <1>4, <3>1, <3>2
  <2>2. CASE h # Len(handles) + 1
    <3>1. h \in 2..Len(handles) /\ h \in DOMAIN handles
      BY <1>3, <2>2, AgreeParts
    <3>2. handles'[h] = handles[h]
      BY <1>3, <3>1
    <3>. QED
      BY <1>1, <3>1, <3>2, MirrorParts
  <2>. QED
    BY <2>1, <2>2
<1>6. Len(handles') = Len(heap') + 1 /\ heap' \in Seq(VmAllocation)
  BY <1>1, <1>3, <1>4, MirrorParts
<1>. QED
  BY <1>2, <1>5, <1>6, MirrorGoal

\* Replacing a member of a sequence leaves the others.
LEMMA OneReplaced ==
  ASSUME NEW S, NEW s \in Seq(S), NEW a \in DOMAIN s, NEW v \in S
  PROVE  /\ [s EXCEPT ![a] = v] \in Seq(S)
         /\ Len([s EXCEPT ![a] = v]) = Len(s)
         /\ [s EXCEPT ![a] = v][a] = v
         /\ \A b \in DOMAIN s : b # a => [s EXCEPT ![a] = v][b] = s[b]
<1>1. s \in [1..Len(s) -> S] /\ Len(s) \in Nat /\ DOMAIN s = 1..Len(s)
  OBVIOUS
<1>2. [s EXCEPT ![a] = v] \in [1..Len(s) -> S]
  BY <1>1
<1>3. [s EXCEPT ![a] = v] \in Seq(S)
  BY <1>1, <1>2
<1>. QED
  BY <1>1, <1>2, <1>3

\* Freeing ends the allocation of the pointer and no other.
LEMMA MirrorFree ==
  ASSUME AgreeInv, NEW h \in DOMAIN handles, FreeOwned(h) \/ FreeEmpty(h)
  PROVE  Mirrored'
<1>1. heap' = [heap EXCEPT ![h - 1] = Dead] /\ h # 1
  BY DEF FreeOwned, FreeEmpty
<1>n. handles[h] \in RtP!Handle
  BY AgreeParts
<1>h. PICK g \in RtP!Handle : /\ g.size = handles[h].size /\ ~g.owned
                              /\ g = [handles[h] EXCEPT !.owned = FALSE]
  <2>. DEFINE g == [handles[h] EXCEPT !.owned = FALSE]
  <2>1. g \in RtP!Handle /\ g.size = handles[h].size /\ ~g.owned
    BY <1>n DEF RtP!Handle
  <2>. QED
    BY <2>1
<1>0. /\ \/ handles' = [handles EXCEPT ![h] = g]
         \/ handles' = handles /\ handles[h].size = 0
      /\ pending[main].op # "record" /\ pending'[main].op # "record"
  <2>1. CASE FreeOwned(h)
    <3>1. \E b : pending' = [pending EXCEPT ![main] = RtP!Releasing(b)]
      BY <2>1, Zenon DEF FreeOwned, RtP!MarkFreed
    <3>2. pending'[main].op = "release"
      BY <3>1, AgreeParts DEF RtP!TypeOK, RtP!Releasing
    <3>3. handles' = [handles EXCEPT ![h].owned = FALSE]
      BY <2>1, Zenon DEF FreeOwned, RtP!MarkFreed
    <3>4. handles' = [handles EXCEPT ![h] = g]
      BY <1>h, <3>3
    <3>5. pending[main].op = "idle"
      BY <2>1 DEF FreeOwned
    <3>. QED
      BY <3>2, <3>4, <3>5
  <2>2. CASE FreeEmpty(h)
    <3>1. handles' = handles /\ handles[h].size = 0 /\ pending' = pending
      BY <2>2 DEF FreeEmpty
    <3>2. pending[main].op # "record"
      BY <2>2 DEF FreeEmpty
    <3>. QED
      BY <3>1, <3>2
  <2>. QED
    BY <2>1, <2>2
<1>2. h \in 2..Len(handles) /\ h - 1 \in DOMAIN heap
  <2>1. h \in 2..Len(handles)
    BY <1>1, AgreeParts
  <2>. QED
    BY <2>1, MirrorParts
<1>3. /\ heap' \in Seq(VmAllocation) /\ Len(heap') = Len(heap)
      /\ heap'[h - 1] = Dead
      /\ \A a \in DOMAIN heap : a # h - 1 => heap'[a] = heap[a]
  <2>1. heap \in Seq(VmAllocation) /\ Dead \in VmAllocation
    BY VmAllocations, MirrorParts
  <2>. QED
    BY <1>1, <1>2, <2>1, OneReplaced
<1>4. /\ Len(handles') = Len(handles)
      /\ \A k \in DOMAIN handles : k # h => handles'[k] = handles[k]
      /\ handles'[h].size = handles[h].size
      /\ handles[h].size # 0 => ~handles'[h].owned
  <2>1. handles \in Seq(RtP!Handle)
    BY AgreeParts
  <2>2. CASE handles' = [handles EXCEPT ![h] = g]
    <3>1. /\ Len(handles') = Len(handles)
          /\ \A k \in DOMAIN handles : k # h => handles'[k] = handles[k]
          /\ handles'[h] = g
      BY <2>1, <2>2, OneReplaced
    <3>. QED
      BY <1>h, <3>1
  <2>3. CASE handles' = handles /\ handles[h].size = 0
    BY <2>3
  <2>. QED
    BY <1>0, <2>2, <2>3
<1>5. ASSUME NEW k \in 2..Len(handles')
      PROVE  /\ heap'[k - 1].live => DOMAIN heap'[k - 1].slots = 0..(handles'[k].size - 1)
             /\ handles'[k].size # 0 => (heap'[k - 1].live <=> handles'[k].owned)
  <2>1. CASE k = h
    BY <1>3, <1>4, <2>1, VmAllocations
  <2>2. CASE k # h
    <3>1. k \in 2..Len(handles) /\ k - 1 # h - 1 /\ k - 1 \in DOMAIN heap /\ k \in DOMAIN handles
      BY <1>4, <2>2, AgreeParts, MirrorParts
    <3>2. heap'[k - 1] = heap[k - 1] /\ handles'[k] = handles[k]
      BY <1>3, <1>4, <2>2, <3>1
    <3>. QED
      BY <3>1, <3>2, MirrorParts
  <2>. QED
    BY <2>1, <2>2
<1>6. Len(handles') = Len(heap') + 1
  BY <1>0, <1>3, <1>4, MirrorParts
<1>. QED
  BY <1>0, <1>3, <1>5, <1>6, MirrorGoal

\* A step that is neither leaves both as they are.
LEMMA MirrorSame ==
  ASSUME AgreeInv, UNCHANGED <<heap, handles>>,
         pending' = pending \/ (pending[main].op # "record" /\ pending'[main].op # "record")
  PROVE  Mirrored'
BY MirrorParts, MirrorGoal

----------------------------------------------------------------------------
(***************************************************************************)
(* The whole program.                                                      *)
(***************************************************************************)
\* While the program goes on, the backends go on agreeing.
LEMMA AgreeStep ==
  ASSUME AgreeInv, ~Ended, Next, ~Ended'
  PROVE  AgreeInv'
<1>1. \/ AllocEmpty
      \/ \E n \in ElementCounts, base \in RtP!Address : HandOut(n, base)
      \/ Record \/ Release
      \/ \E h \in DOMAIN handles : FreeOwned(h) \/ FreeEmpty(h)
      \/ Access
  BY GoingOn
<1>2. RegistryInv'
  BY <1>1, GoingOnNative
<1>3. MemoryInv' /\ Mirrored'
  <2>1. CASE AllocEmpty
    BY <2>1, MemoryEmpty, MirrorEmpty
  <2>2. ASSUME NEW n \in ElementCounts, NEW base \in RtP!Address, HandOut(n, base)
        PROVE  MemoryInv' /\ Mirrored'
    BY <2>2, MemoryHandOut, MirrorHandOut
  <2>3. CASE Record
    BY <2>3, MemoryRecord, MirrorRecord
  <2>4. CASE Release
    <3>1. /\ UNCHANGED <<heap, records, handles>> /\ blocks' \subseteq blocks
          /\ pending[main].op # "record" /\ pending' = [pending EXCEPT ![main] = RtP!Idle]
      BY <2>4 DEF Release, RtP!release
    <3>2. pending'[main].op # "record"
      BY <3>1, AgreeParts DEF RtP!TypeOK, RtP!Idle
    <3>. QED
      BY <3>1, <3>2, MemorySame, MirrorSame
  <2>5. ASSUME NEW h \in DOMAIN handles, FreeOwned(h)
        PROVE  MemoryInv' /\ Mirrored'
    BY <2>5, MemoryFree, MirrorFree
  <2>6. ASSUME NEW h \in DOMAIN handles, FreeEmpty(h)
        PROVE  MemoryInv' /\ Mirrored'
    <3>1. UNCHANGED <<records, blocks, handles>>
      BY <2>6 DEF FreeEmpty
    <3>. QED
      BY <2>6, <3>1, MemorySame, MirrorFree
  <2>7. CASE Access
    <3>1. UNCHANGED <<heap, records, blocks, pending, handles>>
      BY <2>7 DEF Access
    <3>. QED
      BY <3>1, MemorySame, MirrorSame
  <2>. QED
    BY <1>1, <2>1, <2>2, <2>3, <2>4, <2>5, <2>6, <2>7
<1>. QED
  BY <1>2, <1>3 DEF AgreeInv

\* A step that ends the program ends it as the other backend would have it.
LEMMA EndStep ==
  ASSUME AgreeInv, ~Ended, Next
  PROVE  AcceptedRunsNatively' /\ RejectedUsesTrap'
<1>0. trap = 0 /\ error = "none"
  BY DEF Ended, Rt!NoTrap
<1>1. ASSUME NEW n \in ElementCounts, Alloc(n)
      PROVE  AcceptedRunsNatively' /\ RejectedUsesTrap'
  <2>1. error' \in {"none", "count", "alignment"}
    BY <1>0, <1>1 DEF Alloc, Vm!heap_alloc, Vm!Fail, Vm!heap_alloc_error
  <2>2. trap' \in {Rt!NoTrap, Rt!TRAP_ALLOC_FAILURE}
    BY <1>0, <1>1
       DEF Alloc, Rt!mjrt_alloc_invalid, Rt!mjrt_alloc_null, Rt!mjrt_alloc_zero,
           Rt!mjrt_alloc_system, Rt!Exit, Rt!NoTrap
  <2>. QED
    BY <2>1, <2>2 DEF AcceptedRunsNatively, RejectedUsesTrap, Rt!NoTrap, Rt!TRAP_ALLOC_FAILURE
<1>2. ASSUME NEW h \in DOMAIN handles, NEW offset \in 0..MaxOffset, FreePointer(h, offset)
      PROVE  AcceptedRunsNatively' /\ RejectedUsesTrap'
  <2>1. used' = h /\ strayed' = strayed /\ Rt!mjrt_free(main, h, offset)
    BY <1>2 DEF FreePointer
  <2>2. CASE Vm!heap_free_error(h - 1, offset) = "none"
    <3>1. h - 1 # 0 /\ offset = 0 /\ heap[h - 1].live /\ error' = "none"
      BY <1>0, <1>2, <2>2 DEF FreePointer, Vm!heap_free, Vm!heap_free_error
    <3>2. h # 1 /\ Rt!mjrt_free(main, h, 0)
      BY <2>1, <3>1
    <3>3. trap' = trap
      BY <3>1, <3>2, AcceptedFree DEF RtP!MarkFreed
    <3>. QED
      BY <1>0, <3>1, <3>3 DEF AcceptedRunsNatively, RejectedUsesTrap, Rt!NoTrap
  <2>3. CASE Vm!heap_free_error(h - 1, offset) # "none"
    <3>1. error' = Vm!heap_free_error(h - 1, offset)
      BY <1>2, <2>3 DEF FreePointer, Vm!heap_free, Vm!Fail
    <3>2. AcceptedRunsNatively'
      BY <2>3, <3>1 DEF AcceptedRunsNatively
    <3>3. CASE error' = "double free"
      <4>1. h - 1 # 0 /\ offset = 0 /\ ~heap[h - 1].live
        BY <3>1, <3>3 DEF Vm!heap_free_error
      <4>2. h # 1 /\ Rt!mjrt_free(main, h, 0)
        BY <2>1, <4>1
      <4>3. CASE trap' # Rt!NoTrap
        BY <3>2, <4>3 DEF RejectedUsesTrap, Rt!NoTrap
      <4>4. CASE trap' = Rt!NoTrap
        <5>1. handles[h].size = 0 \/ RtP!Recycled(h)
          BY <4>1, <4>2, <4>4, RejectedFree
        <5>2. /\ DOMAIN handles' = DOMAIN handles
              /\ \A k \in DOMAIN handles : CellsOf(k)' = CellsOf(k)
          <6>1. \/ handles' = handles
                \/ handles' = [handles EXCEPT ![h].owned = FALSE]
            BY <2>1, Zenon DEF Rt!mjrt_free, Rt!FreeSentinel, Rt!FreeUnrecorded, Rt!Exit, Rt!MarkFreed
          <6>2. \A k \in DOMAIN handles : handles[k] \in RtP!Handle
            BY AgreeParts
          <6>3. /\ DOMAIN handles' = DOMAIN handles
                /\ \A k \in DOMAIN handles : /\ handles'[k].base = handles[k].base
                                             /\ handles'[k].size = handles[k].size
            BY <6>1, <6>2 DEF RtP!Handle
          <6>. QED
            BY <6>3 DEF CellsOf
        <5>3. CellsOf(h) = {} \/ \E k \in DOMAIN handles : k > h /\ CellsOf(k) \cap CellsOf(h) # {}
          <6>1. CASE handles[h].size = 0
            BY <6>1, AgreeParts DEF CellsOf
          <6>2. CASE handles[h].size # 0
            BY <5>1, <6>2, RecycledShares
          <6>. QED
            BY <6>1, <6>2
        <5>4. CellsOf(h)' = {} \/ \E k \in DOMAIN handles' :
                                    k > h /\ CellsOf(k)' \cap CellsOf(h)' # {}
          BY <5>2, <5>3
        <5>5. CellsOf(used)' = CellsOf(h)'
          BY <2>1 DEF CellsOf
        <5>6. RejectedUsesTrap'
          BY <2>1, <5>4, <5>5 DEF RejectedUsesTrap
        <5>. QED
          BY <3>2, <5>6
      <4>. QED
        BY <4>3, <4>4
    <3>4. CASE error' # "double free"
      <4>1. error' = "free"
        BY <2>3, <3>1, <3>4 DEF Vm!heap_free_error
      <4>. QED
        BY <3>2, <4>1 DEF RejectedUsesTrap
    <3>. QED
      BY <3>2, <3>3, <3>4
  <2>. QED
    BY <2>2, <2>3
<1>3. ASSUME NEW h \in DOMAIN handles, NEW offset \in 0..MaxOffset, NEW index \in Indices,
             Subscript(h, offset, index)
      PROVE  AcceptedRunsNatively' /\ RejectedUsesTrap'
  <2>1. /\ error' = Vm!heap_index(h - 1, offset, index)
        /\ used' = h /\ Rt!guard_pointer_dereference(main, h, offset)
        /\ strayed' = (strayed \/ ~(offset < handles[h].size))
    BY <1>3 DEF Subscript, VmAccess, WithinAllocation
  <2>2. offset \in Nat
    BY ParityAssumption
  <2>3. AcceptedRunsNatively'
    <3>1. SUFFICES ASSUME error' = "none", ~strayed' PROVE trap' = Rt!NoTrap
      BY DEF AcceptedRunsNatively, Rt!NoTrap, Rt!TRAP_ALLOC_FAILURE
    <3>2. h - 1 # 0 /\ heap[h - 1].live /\ offset < handles[h].size
      BY <2>1, <3>1 DEF Vm!heap_index
    <3>3. RtP!mjrt_pointer_status(handles[h].base + offset) = 0
      BY <2>2, <3>2, AcceptedAccess
    <3>. QED
      BY <1>0, <2>1, <3>3, NativeAccesses DEF Rt!NoTrap
  <2>4. RejectedUsesTrap'
    <3>1. CASE trap' # Rt!NoTrap \/ strayed' \/ error' \notin {"use after free", "double free"}
      BY <3>1 DEF RejectedUsesTrap, Rt!NoTrap
    <3>2. CASE /\ trap' = Rt!NoTrap /\ ~strayed'
               /\ error' \in {"use after free", "double free"}
      <4>1. h - 1 # 0 /\ ~heap[h - 1].live /\ offset < handles[h].size
        BY <2>1, <3>2 DEF Vm!heap_index
      <4>2. /\ RtP!mjrt_pointer_status(handles[h].base + offset) = 0
            /\ handles' = handles
        BY <2>1, <3>2, NativeAccesses
      <4>3. \E k \in DOMAIN handles : k > h /\ CellsOf(k) \cap CellsOf(h) # {}
        BY <2>2, <4>1, <4>2, RejectedAccess
      <4>4. \A k : CellsOf(k)' = CellsOf(k)
        BY <4>2 DEF CellsOf
      <4>5. CellsOf(used)' = CellsOf(h)'
        BY <2>1 DEF CellsOf
      <4>6. \E k \in DOMAIN handles' : k > h /\ CellsOf(k)' \cap CellsOf(used)' # {}
        BY <4>2, <4>3, <4>4, <4>5
      <4>. QED
        BY <2>1, <4>6 DEF RejectedUsesTrap
    <3>. QED
      BY <3>1, <3>2
  <2>. QED
    BY <2>3, <2>4
<1>4. ASSUME NativeStep
      PROVE  AcceptedRunsNatively' /\ RejectedUsesTrap'
  <2>1. error' = "none"
    BY <1>0, <1>4 DEF NativeStep
  <2>2. trap' \in {Rt!NoTrap, Rt!TRAP_ALLOC_FAILURE}
    BY <1>0, <1>4
       DEF NativeStep, Rt!mjrt_alloc_record, Rt!mjrt_alloc_full, Rt!release, Rt!Exit, Rt!NoTrap
  <2>. QED
    BY <2>1, <2>2 DEF AcceptedRunsNatively, RejectedUsesTrap, Rt!NoTrap, Rt!TRAP_ALLOC_FAILURE
<1>. QED
  BY <1>1, <1>2, <1>3, <1>4 DEF Next

\* Every step of the program keeps the backends in agreement.
LEMMA ParityStep == ParityInv /\ [Next]_vars => ParityInv'
<1>. SUFFICES ASSUME ParityInv, [Next]_vars PROVE ParityInv'
  OBVIOUS
<1>1. CASE UNCHANGED vars
  <2>1. /\ UNCHANGED <<heap, error, records, blocks, pending, trap, handles, used, strayed>>
    BY <1>1 DEF vars, native
  <2>2. Ended' <=> Ended
    BY <2>1 DEF Ended, Rt!NoTrap
  <2>3. ~Ended => AgreeInv'
    <3>1. SUFFICES ASSUME AgreeInv PROVE AgreeInv'
      BY DEF ParityInv
    <3>2. UNCHANGED RtP!vars
      BY <2>1 DEF RtP!vars
    <3>3. RegistryInv'
      BY <3>1, <3>2, RegistryStep DEF AgreeInv
    <3>. QED
      BY <2>1, <3>1, <3>3, MemorySame, MirrorSame DEF AgreeInv
  <2>4. AcceptedRunsNatively'
    BY <2>1 DEF ParityInv, AcceptedRunsNatively, Rt!NoTrap, Rt!TRAP_ALLOC_FAILURE
  <2>5. RejectedUsesTrap'
    BY <2>1 DEF ParityInv, RejectedUsesTrap, Rt!NoTrap, CellsOf
  <2>. QED
    BY <2>2, <2>3, <2>4, <2>5 DEF ParityInv
<1>2. CASE Next
  <2>1. ~Ended
    BY <1>2 DEF Next, Alloc, FreePointer, Subscript, Running, NativeStep, Ended,
              Rt!mjrt_alloc_record, Rt!mjrt_alloc_full, Rt!release, Rt!Running
  <2>2. AgreeInv
    BY <2>1 DEF ParityInv
  <2>3. ~Ended' => AgreeInv'
    BY <1>2, <2>1, <2>2, AgreeStep
  <2>4. AcceptedRunsNatively' /\ RejectedUsesTrap'
    BY <1>2, <2>1, <2>2, EndStep
  <2>. QED
    BY <2>3, <2>4 DEF ParityInv
<1>. QED
  BY <1>1, <1>2

\* The program starts with no memory on either backend.
LEMMA ParityInit == Init => ParityInv
<1>. SUFFICES ASSUME Init PROVE ParityInv
  OBVIOUS
<1>1. /\ heap = <<>> /\ error = "none" /\ blocks = {} /\ trap = Rt!NoTrap
      /\ pending[main].op = "idle" /\ Rt!Init
      /\ records = [i \in RtP!Slots |-> None]
      /\ handles = <<Rt!Dangling>>
  BY DEF Init, Rt!Init, Rt!Idle, Rt!Slots, RtP!Slots
<1>2. RegistryInv
  BY <1>1, RegistryInit
<1>3. RtP!Taken = {}
  BY <1>1 DEF RtP!Taken
<1>4. /\ DOMAIN handles = {1} /\ Len(handles) = 1 /\ handles[1].size = 0
      /\ handles[1].owned
  BY <1>1 DEF Rt!Dangling
<1>5. MemoryInv
  BY <1>1, <1>3, <1>4 DEF MemoryInv, BlocksApart, LiveOwned, FreedDead, LaterApart
<1>6. Mirrored
  BY <1>1, <1>4 DEF Mirrored
<1>. QED
  BY <1>1, <1>2, <1>5, <1>6
     DEF ParityInv, AgreeInv, AcceptedRunsNatively, RejectedUsesTrap

\* The invariant that ties the backends together: while a program goes on, its
\* VM allocations and its native records stand for the same memory.
THEOREM ParityInvariant == Spec => []ParityInv
<1>. QED
  BY ParityInit, ParityStep, PTL DEF Spec

\* A program the VM accepts, whose subscripted pointers stay inside their
\* allocations, meets no pointer trap natively, whatever addresses the system
\* allocator recycles and however long the program runs.
THEOREM ParityAcceptedRunsNatively == Spec => []AcceptedRunsNatively
<1>1. ParityInv => AcceptedRunsNatively
  BY DEF ParityInv
<1>. QED
  BY <1>1, ParityInvariant, PTL

\* A use of freed memory that the VM rejects traps natively too, unless the
\* allocation was empty, its cells have been given out again, or a pointer has
\* been subscripted outside its allocation.
THEOREM ParityRejectedUsesTrap == Spec => []RejectedUsesTrap
<1>1. ParityInv => RejectedUsesTrap
  BY DEF ParityInv
<1>. QED
  BY <1>1, ParityInvariant, PTL

\* Between two operations the VM's allocations and the registry's records agree
\* on what is alive and how long it is.
THEOREM ParityLivenessAgrees == Spec => []LivenessAgrees
<1>1. ASSUME AgreeInv, NEW h \in DOMAIN handles, h # 1, handles[h].size # 0
      PROVE  LET live == \E i \in Rt!SlotsOf(handles[h].base) :
                           records[i].live /\ records[i].size = handles[h].size
             IN  /\ heap[h - 1].live =>
                      live /\ Cardinality(DOMAIN heap[h - 1].slots) = handles[h].size
                 /\ live /\ ~Rt!Recycled(h) => heap[h - 1].live
  <2>1. h \in 2..Len(handles)
    BY <1>1, AgreeParts
  <2>2. heap[h - 1].live <=> handles[h].owned
    BY <1>1, <2>1, MirrorParts
  <2>3. \A a : Rt!SlotsOf(a) = RtP!SlotsOf(a)
    BY DEF Rt!SlotsOf, RtP!SlotsOf, Rt!Taken, RtP!Taken, Rt!Slots, RtP!Slots
  <2>4. Rt!Recycled(h) <=> RtP!Recycled(h)
    BY DEF Rt!Recycled, RtP!Recycled
  <2>5. ASSUME heap[h - 1].live
        PROVE  /\ \E i \in RtP!SlotsOf(handles[h].base) :
                    records[i].live /\ records[i].size = handles[h].size
               /\ Cardinality(DOMAIN heap[h - 1].slots) = handles[h].size
    <3>1. RtP!RecordedLive(handles[h])
      BY <1>1, <2>2, <2>5, AgreeParts
    <3>2. PICK i \in RtP!Taken : /\ records[i].base = handles[h].base
                                 /\ records[i].size = handles[h].size
                                 /\ records[i].live
      BY <3>1 DEF RtP!RecordedLive
    <3>3. DOMAIN heap[h - 1].slots = 0..(handles[h].size - 1)
      BY <1>1, <2>1, <2>5, MirrorParts
    <3>4. Cardinality(0..(handles[h].size - 1)) = handles[h].size
      <4>1. handles[h].size \in Nat
        BY <1>1, AgreeParts
      <4>. QED
        BY <4>1, FS_Interval
    <3>. QED
      BY <3>2, <3>3, <3>4 DEF RtP!SlotsOf
  <2>6. ASSUME ~RtP!Recycled(h), ~heap[h - 1].live
        PROVE  \A i \in RtP!SlotsOf(handles[h].base) : ~records[i].live
    BY <1>1, <2>2, <2>6 DEF AgreeInv, MemoryInv, FreedDead
  <2>. QED
    BY <2>3, <2>4, <2>5, <2>6
<1>2. ParityInv => LivenessAgrees
  BY <1>1 DEF ParityInv, LivenessAgrees
<1>. QED
  BY <1>2, ParityInvariant, PTL

=============================================================================
