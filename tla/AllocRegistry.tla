--------------------------- MODULE AllocRegistry ---------------------------
(***************************************************************************)
(* The allocation registry of Mojito's native runtime: mjrt_alloc,         *)
(* mjrt_free, mjrt_dealloc and mjrt_pointer_status of                      *)
(* crates/mojito-runtime/src/lib.rs, with the guard that generated code    *)
(* puts before a pointer dereference.                                      *)
(*                                                                         *)
(* The registry is a fixed array of slots behind a mutex.  An allocation   *)
(* takes its block from the system allocator BEFORE it locks the registry, *)
(* and a release returns its block to the system allocator AFTER it has    *)
(* unlocked it, so each call is two steps and calls interleave between     *)
(* them.  The C-ABI entry points may be called from any thread.            *)
(*                                                                         *)
(* Memory is a range of cells.  A block is a hidden header followed by the *)
(* payload; the registry knows it by the address of its payload.           *)
(***************************************************************************)
EXTENDS Integers, Sequences, FiniteSets

CONSTANTS
  Threads,        \* the callers of the runtime
  MaxTracked,     \* MAX_TRACKED_ALLOCATIONS, the slots of the registry
  SentinelLimit,  \* addresses below it are null or dangling sentinels
  MemoryEnd,      \* cells SentinelLimit .. MemoryEnd-1 are mappable
  MinHeader,      \* the smallest header (16 bytes in the code)
  MaxLayout,      \* the largest layout Layout::from_size_align accepts
  Sizes, Aligns,  \* the sizes and alignments the program asks for
  MaxAllocations, \* bound: pointers the program is ever given
  MaxOffset,      \* bound: how far pointer arithmetic moves a pointer
  None            \* the content of an unused slot

ASSUME RegistryAssumption ==
  /\ MaxTracked \in Nat \ {0}
  /\ SentinelLimit \in Nat \ {0}
  /\ MemoryEnd \in Nat
  /\ MinHeader \in Nat \ {0}
  /\ MaxLayout \in Nat
  /\ Sizes \subseteq Nat
  /\ Aligns \subseteq Nat
  /\ MaxAllocations \in Nat
  /\ MaxOffset \in Nat

VARIABLES
  records,   \* the registry: slot -> its record, or None
  blocks,    \* the blocks the system allocator has handed out
  pending,   \* thread -> the half-done call it is inside, or Idle
  trap,      \* the trap category the process exited with, or NoTrap
  handles,   \* history: every pointer the program got, with its fate
  misused    \* history: the program has broken a "# Safety" contract

vars == <<records, blocks, pending, trap, handles, misused>>

NoTrap == 0
TRAP_ALLOC_FAILURE == 3
TRAP_POINTER_DANGLING == 8
TRAP_POINTER_USE_AFTER_FREE == 9
TRAP_POINTER_DOUBLE_FREE == 10

TrapCategories == {TRAP_ALLOC_FAILURE, TRAP_POINTER_DANGLING,
                   TRAP_POINTER_USE_AFTER_FREE, TRAP_POINTER_DOUBLE_FREE}

Slots == 1..MaxTracked
Address == 0..MemoryEnd

\* A block as the allocator's layout describes it.
Block == [base: Address, size: Nat \ {0}, align: Nat]
AllocationRecord == [base: Address, size: Nat \ {0}, align: Nat, live: BOOLEAN]

ASSUME NoneAssumption == None \notin AllocationRecord

Idle == [op |-> "idle"]
Recording(b) == [op |-> "record", block |-> b]
Releasing(b) == [op |-> "release", block |-> b]
Calls == {Idle} \cup [op: {"record", "release"}, block: Block]

\* A pointer the program holds: the allocation it was returned for, and
\* whether the program still owns that allocation.
Handle == [base: Nat, size: Nat, align: Nat, owned: BOOLEAN]

----------------------------------------------------------------------------
(***************************************************************************)
(* Addresses and layouts.                                                  *)
(***************************************************************************)
is_power_of_two(n) == \E k \in 0..n : n = 2^k

\* Mutant: only null counts as a sentinel.
NullOnlySentinel(address) == address = 0

is_dangling_sentinel(address) == address < SentinelLimit

Header(align) == IF align > MinHeader THEN align ELSE MinHeader

\* The cells a block occupies, its hidden header included.
Cells(b) == (b.base - Header(b.align)) .. (b.base + b.size - 1)

\* What the system allocator promises of a block it hands out: it is
\* mappable memory, aligned, and overlaps no block already handed out.
SystemMayReturn(b) ==
  /\ Cells(b) \subseteq SentinelLimit..(MemoryEnd - 1)
  /\ b.base % Header(b.align) = 0
  /\ \A other \in blocks : Cells(b) \cap Cells(other) = {}

----------------------------------------------------------------------------
(***************************************************************************)
(* The registry's searches, each a scan of the slots in order.             *)
(***************************************************************************)
First(S) == CHOOSE i \in S : \A j \in S : i <= j

Taken == {i \in Slots : records[i] # None}
SlotsOf(base) == {i \in Taken : records[i].base = base}
EmptySlots == Slots \ Taken

\* The identity's own slot if it has one, else an empty slot.
SlotsForAlloc(base) ==
  IF SlotsOf(base) # {} THEN SlotsOf(base) ELSE EmptySlots

Contains(r, address) == address \in r.base..(r.base + r.size - 1)

\* Mutant: a freed allocation is recognised by its base address only.
StaleBaseOnly(address) == \E i \in Taken : ~records[i].live /\ records[i].base = address

LiveAt(address) == \E i \in Taken : records[i].live /\ Contains(records[i], address)
StaleAt(address) == \E i \in Taken : ~records[i].live /\ Contains(records[i], address)

\* Mutant: the freed records are searched before the live ones.
StaleFirst(address) ==
  IF is_dangling_sentinel(address) THEN 1
  ELSE IF StaleAt(address) THEN 2
  ELSE 0

mjrt_pointer_status(address) ==
  IF is_dangling_sentinel(address) THEN 1
  ELSE IF LiveAt(address) THEN 0
  ELSE IF StaleAt(address) THEN 2
  ELSE 0

----------------------------------------------------------------------------
Running == trap = NoTrap
Exit(category) ==
  /\ trap' = category
  /\ UNCHANGED <<records, blocks, pending, handles>>

\* The history of one use of the program's h-th pointer.
Use(lawful) == misused' = (misused \/ ~lawful)

CanAllocate(t) ==
  /\ Running
  /\ pending[t].op = "idle"
  /\ Len(handles) < MaxAllocations

\* A layout mjrt_alloc refuses: an alignment that is no power of two, or a
\* header and size that overflow or exceed what a Layout may describe.
InvalidLayout(size, align) ==
  \/ ~is_power_of_two(align)
  \/ size # 0 /\ Header(align) + size > MaxLayout

mjrt_alloc_invalid(t, size, align) ==
  /\ CanAllocate(t)
  /\ InvalidLayout(size, align)
  /\ Exit(TRAP_ALLOC_FAILURE)
  /\ UNCHANGED misused

\* A zero-size request allocates nothing: the alignment is the pointer.
mjrt_alloc_zero(t, align) ==
  /\ CanAllocate(t)
  /\ ~InvalidLayout(0, align)
  /\ handles' = Append(handles, [base |-> align, size |-> 0,
                                 align |-> align, owned |-> TRUE])
  /\ UNCHANGED <<records, blocks, pending, trap, misused>>

\* The system allocator hands out a block; the registry is not yet locked.
mjrt_alloc_system(t, size, align, base) ==
  LET b == [base |-> base, size |-> size, align |-> align]
  IN  /\ CanAllocate(t)
      /\ size # 0
      /\ ~InvalidLayout(size, align)
      /\ SystemMayReturn(b)
      /\ blocks' = blocks \cup {b}
      /\ pending' = [pending EXCEPT ![t] = Recording(b)]
      /\ UNCHANGED <<records, trap, handles, misused>>

\* The system allocator returns null.
mjrt_alloc_null(t, size, align) ==
  /\ CanAllocate(t)
  /\ size # 0
  /\ ~InvalidLayout(size, align)
  /\ Exit(TRAP_ALLOC_FAILURE)
  /\ UNCHANGED misused

\* Under the lock: record the block and return its pointer.
mjrt_alloc_record(t) ==
  /\ Running
  /\ pending[t].op = "record"
  /\ LET b == pending[t].block
         candidates == SlotsForAlloc(b.base)
     IN  /\ candidates # {}
         /\ records' = [records EXCEPT ![First(candidates)] =
                          [base |-> b.base, size |-> b.size,
                           align |-> b.align, live |-> TRUE]]
         /\ handles' = Append(handles, [base |-> b.base, size |-> b.size,
                                        align |-> b.align, owned |-> TRUE])
  /\ pending' = [pending EXCEPT ![t] = Idle]
  /\ UNCHANGED <<blocks, trap, misused>>

\* Every slot holds another identity: records are never discarded.
mjrt_alloc_full(t) ==
  /\ Running
  /\ pending[t].op = "record"
  /\ SlotsForAlloc(pending[t].block.base) = {}
  /\ Exit(TRAP_ALLOC_FAILURE)
  /\ UNCHANGED misused

----------------------------------------------------------------------------
(***************************************************************************)
(* mjrt_free(ptr) and mjrt_dealloc(ptr, size, align) on the pointer        *)
(* `offset` cells past the h-th pointer the program was given.  The        *)
(* program may have freed that pointer before: its contract forbids the    *)
(* call, and the registry is there to answer it with a trap.               *)
(***************************************************************************)
CanCall(t) == Running /\ pending[t].op = "idle"

\* Mutant: a dead record counts as found.
AnyRecord(address) == SlotsOf(address) # {}

\* Find the record whose base is the address; a dead one does not count.
LiveRecord(address) ==
  /\ SlotsOf(address) # {}
  /\ records[First(SlotsOf(address))].live

\* The caller's contract: a sentinel, or the base of what it still owns.
LawfulFree(h, offset) ==
  \/ is_dangling_sentinel(handles[h].base + offset)
  \/ offset = 0 /\ handles[h].owned

FreeSentinel(address) ==
  /\ is_dangling_sentinel(address)
  /\ UNCHANGED <<records, blocks, pending, trap, handles>>

FreeUnrecorded(address) ==
  /\ ~is_dangling_sentinel(address)
  /\ ~LiveRecord(address)
  /\ Exit(TRAP_POINTER_DOUBLE_FREE)

\* Under the lock: the record dies; its block is released after unlocking.
MarkFreed(t, h, address) ==
  LET i == First(SlotsOf(address))
      r == records[i]
  IN  /\ ~is_dangling_sentinel(address)
      /\ LiveRecord(address)
      /\ records' = [records EXCEPT ![i].live = FALSE]
      /\ pending' = [pending EXCEPT ![t] =
           Releasing([base |-> address, size |-> r.size, align |-> r.align])]
      /\ handles' = [handles EXCEPT ![h].owned = FALSE]
      /\ UNCHANGED <<blocks, trap>>

mjrt_free(t, h, offset) ==
  LET address == handles[h].base + offset
  IN  /\ CanCall(t)
      /\ Use(LawfulFree(h, offset))
      /\ \/ FreeSentinel(address)
         \/ FreeUnrecorded(address)
         \/ MarkFreed(t, h, address)

MatchesRecord(address, size, align) ==
  LET r == records[First(SlotsOf(address))] IN r.size = size /\ r.align = align

mjrt_dealloc(t, h, offset, size, align) ==
  LET address == handles[h].base + offset
  IN  /\ CanCall(t)
      /\ Use(/\ LawfulFree(h, offset)
             /\ size = handles[h].size
             /\ align = handles[h].align)
      /\ \/ FreeSentinel(address)
         \/ FreeUnrecorded(address)
         \/ /\ LiveRecord(address)
            /\ MatchesRecord(address, size, align)
            /\ MarkFreed(t, h, address)
         \/ /\ ~is_dangling_sentinel(address)
            /\ LiveRecord(address)
            /\ ~MatchesRecord(address, size, align)
            /\ Exit(TRAP_ALLOC_FAILURE)

\* Mutant: the block is never given back.
ForgetBlock(t) ==
  /\ Running
  /\ pending[t].op = "release"
  /\ pending' = [pending EXCEPT ![t] = Idle]
  /\ UNCHANGED <<records, blocks, trap, handles, misused>>

\* The block goes back to the system allocator, after the registry's lock.
release(t) ==
  /\ Running
  /\ pending[t].op = "release"
  /\ blocks' = blocks \ {pending[t].block}
  /\ pending' = [pending EXCEPT ![t] = Idle]
  /\ UNCHANGED <<records, trap, handles, misused>>

\* The guard generated before a dereference: it traps, or the access goes on.
guard_pointer_dereference(t, h, offset) ==
  LET status == mjrt_pointer_status(handles[h].base + offset)
  IN  /\ CanCall(t)
      /\ Use(handles[h].owned /\ offset < handles[h].size)
      /\ \/ status = 1 /\ Exit(TRAP_POINTER_DANGLING)
         \/ status = 2 /\ Exit(TRAP_POINTER_USE_AFTER_FREE)
         \/ /\ status = 0
            /\ UNCHANGED <<records, blocks, pending, trap, handles>>

----------------------------------------------------------------------------
\* UnsafePointer.unsafe_dangling is the null pointer: the program has one.
Dangling == [base |-> 0, size |-> 0, align |-> 1, owned |-> TRUE]

Init ==
  /\ records = [i \in Slots |-> None]
  /\ blocks = {}
  /\ pending = [t \in Threads |-> Idle]
  /\ trap = NoTrap
  /\ handles = <<Dangling>>
  /\ misused = FALSE

Allocate(t) ==
  \E align \in Aligns :
    \/ \E size \in Sizes : mjrt_alloc_invalid(t, size, align)
    \/ 0 \in Sizes /\ mjrt_alloc_zero(t, align)
    \/ \E size \in Sizes : mjrt_alloc_null(t, size, align)
    \/ \E size \in Sizes, base \in Address : mjrt_alloc_system(t, size, align, base)

\* Pointer arithmetic reaches MaxOffset cells past a pointer.
Free(t) ==
  \E h \in DOMAIN handles, offset \in 0..MaxOffset :
    \/ mjrt_free(t, h, offset)
    \/ \E size \in Sizes, align \in Aligns : mjrt_dealloc(t, h, offset, size, align)

Dereference(t) ==
  \E h \in DOMAIN handles, offset \in 0..MaxOffset :
    guard_pointer_dereference(t, h, offset)

Next ==
  \E t \in Threads :
    \/ Allocate(t)
    \/ mjrt_alloc_record(t)
    \/ mjrt_alloc_full(t)
    \/ Free(t)
    \/ release(t)
    \/ Dereference(t)

Spec == Init /\ [][Next]_vars

----------------------------------------------------------------------------
(***************************************************************************)
(* Properties.                                                             *)
(***************************************************************************)

\* Every variable keeps its type; a pending block is never empty.
TypeOK ==
  /\ records \in [Slots -> AllocationRecord \cup {None}]
  /\ blocks \subseteq Block
  /\ pending \in [Threads -> Calls]
  /\ trap \in TrapCategories \cup {NoTrap}
  /\ handles \in Seq(Handle)
  /\ misused \in BOOLEAN

\* A payload address has at most one record, so the scans of mjrt_free and
\* mjrt_dealloc, which stop at the first match, never see a stale twin of a
\* live record (the comment in mjrt_alloc on reusing the identity).
IdentityUnique ==
  \A i, j \in Taken : records[i].base = records[j].base => i = j

\* The block `b` is recorded as live, with the layout it was allocated with.
RecordedLive(b) ==
  \E i \in Taken : records[i] = [base |-> b.base, size |-> b.size,
                                 align |-> b.align, live |-> TRUE]

InCall(t, b) == pending[t].op # "idle" /\ pending[t].block = b

\* Whatever the program does, repeated and stale frees included, `release`
\* passes the system allocator a block it has handed out, with its layout,
\* once: no live record still names the block and no second thread is
\* recording or releasing it.  (A wrong layout or a second dealloc is
\* undefined behaviour of std::alloc::dealloc.)
ReleaseSound ==
  \A t \in Threads : pending[t].op = "release" =>
    LET b == pending[t].block
    IN  /\ b \in blocks
        /\ \A i \in SlotsOf(b.base) : ~records[i].live
        /\ \A u \in Threads \ {t} :
             pending[u].op # "idle" => pending[u].block.base # b.base

\* No block is lost or held twice: each one handed out is recorded live or is
\* in the hands of a call that is about to record or release it, never both.
BlocksAccounted ==
  \A b \in blocks : RecordedLive(b) # (\E t \in Threads : InCall(t, b))

\* A program that keeps the "# Safety" contracts never meets a pointer trap.
LawfulNeverTraps == ~misused => trap \in {NoTrap, TRAP_ALLOC_FAILURE}

\* In such a program every address of an allocation the program still owns is
\* classified live, whatever was allocated and freed around it meanwhile.
OwnedIsLive ==
  ~misused => \A h \in DOMAIN handles : handles[h].owned =>
    \A offset \in 0..(handles[h].size - 1) :
      mjrt_pointer_status(handles[h].base + offset) = 0

\* A later allocation at the base of the h-th pointer has taken its record.
Recycled(h) ==
  \E k \in DOMAIN handles : k > h /\ handles[k].size # 0 /\ handles[k].base = handles[h].base

\* Detection: an address of a freed allocation is classified freed as long as
\* its base has not been handed out again and nothing live covers it.
FreedDetected ==
  \A h \in DOMAIN handles : ~handles[h].owned /\ ~Recycled(h) =>
    \A offset \in 0..(handles[h].size - 1) :
      LET address == handles[h].base + offset
      IN  mjrt_pointer_status(address) = IF LiveAt(address) THEN 0 ELSE 2

\* A slot, once given to an identity, stays with it.
IdentityKept ==
  [][\A i \in Taken : records'[i] # None /\ records'[i].base = records[i].base]_records
============================================================================
