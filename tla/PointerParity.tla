--------------------------- MODULE PointerParity ----------------------------
(***************************************************************************)
(* One pointer program on Mojito's two backends at once: the VM, the       *)
(* oracle, checks provenance (VmHeap); the native backend lowers the same  *)
(* operations to calls of the runtime (AllocRegistry), where an address    *)
(* may be recycled by the system allocator.  A step of the program is a    *)
(* step of both; a native call that needs a second step takes it before    *)
(* the program goes on, the language having one thread.                    *)
(*                                                                         *)
(* An element is one cell wide.  The program's h-th pointer is the runtime *)
(* handle h natively and VM allocation h - 1, the first of both being the  *)
(* dangling pointer.                                                       *)
(***************************************************************************)
EXTENDS Integers, Sequences, FiniteSets

CONSTANTS
  main,           \* the program's thread
  MaxTracked, SentinelLimit, MemoryEnd, MinHeader, MaxLayout,
  ElementCounts,        \* the element counts the program allocates
  Indices,        \* the subscripts of the program
  MaxInt,         \* the largest i64
  MaxAllocations, \* bound: pointers the program is ever given
  MaxOffset,      \* bound: how far pointer arithmetic moves a pointer
  None            \* the content of an unused registry slot

\* The pointer of an empty allocation, its alignment, is a sentinel: the limit
\* is 65536 in the code.
ASSUME ParityAssumption ==
  /\ MaxTracked \in Nat \ {0}
  /\ SentinelLimit \in Nat \ {0, 1}
  /\ MemoryEnd \in Nat
  /\ MinHeader \in Nat \ {0}
  /\ MaxLayout \in Nat
  /\ ElementCounts \subseteq Nat
  /\ Indices \subseteq Int
  /\ MaxInt \in Nat
  /\ MaxAllocations \in Nat
  /\ MaxOffset \in Nat

VARIABLES
  heap, error,                                         \* the VM
  records, blocks, pending, trap, handles, misused,    \* the native runtime
  used,     \* history: the pointer of the last operation
  strayed   \* history: a pointer outside its allocation has been subscripted

native == <<records, blocks, pending, trap, handles, misused>>
vars == <<heap, error, native, used, strayed>>

\* No value outlives a step of this program: stores are of plain integers.
Vm == INSTANCE VmHeap WITH
  Values <- {}, Moved <- None, Counts <- ElementCounts, Alignments <- {1},
  Offsets <- 0..MaxOffset, MaxNesting <- 0,
  regs <- {}, running <- <<>>, destroyed <- {}, leaked <- {}

Rt == INSTANCE AllocRegistry WITH
  Threads <- {main}, Sizes <- ElementCounts, Aligns <- {1}

ASSUME NoneAssumption == None \notin Rt!AllocationRecord

----------------------------------------------------------------------------
Running == error = "none" /\ trap = Rt!NoTrap /\ pending[main].op = "idle"

\* UnsafePointer.alloc(n)
Alloc(n) ==
  /\ Running
  /\ Len(handles) < MaxAllocations
  /\ Vm!heap_alloc(n, 1)
  /\ \/ Rt!mjrt_alloc_invalid(main, n, 1)
     \/ n = 0 /\ Rt!mjrt_alloc_zero(main, 1)
     \/ Rt!mjrt_alloc_null(main, n, 1)
     \/ \E base \in Rt!Address : Rt!mjrt_alloc_system(main, n, 1, base)
  /\ UNCHANGED <<used, strayed>>

\* Mutant: no call of mjrt_free is generated.
FreeErased(h, offset) ==
  /\ Running
  /\ Vm!heap_free(h - 1, offset)
  /\ used' = h
  /\ UNCHANGED <<native, strayed>>

\* pointer.free() on the pointer `offset` past the h-th.
FreePointer(h, offset) ==
  /\ Running
  /\ Vm!heap_free(h - 1, offset)
  /\ Rt!mjrt_free(main, h, offset)
  /\ used' = h
  /\ UNCHANGED strayed

\* The VM's resolution of a subscript: it goes on, or ends the program.
VmAccess(h, offset, index) ==
  /\ error' = Vm!heap_index(h - 1, offset, index)
  /\ UNCHANGED heap

WithinAllocation(h, offset) == offset < handles[h].size

\* Mutant: the guard classifies the address after the pointer.
GuardNext(h, offset, index) ==
  /\ Running
  /\ VmAccess(h, offset, index)
  /\ Rt!guard_pointer_dereference(main, h, offset + 1)
  /\ used' = h
  /\ strayed' = (strayed \/ ~WithinAllocation(h, offset))

\* Mutant: no guard is generated.
Unguarded(h, offset, index) ==
  /\ Running
  /\ VmAccess(h, offset, index)
  /\ used' = h
  /\ strayed' = (strayed \/ ~WithinAllocation(h, offset))
  /\ UNCHANGED native

\* p[index] on the pointer `offset` past the h-th.  The VM resolves the
\* element; the native guard classifies the pointer, not the element.
Subscript(h, offset, index) ==
  /\ Running
  /\ VmAccess(h, offset, index)
  /\ Rt!guard_pointer_dereference(main, h, offset)
  /\ used' = h
  /\ strayed' = (strayed \/ ~WithinAllocation(h, offset))

\* The second step of a native call.
NativeStep ==
  /\ error = "none"
  /\ \/ Rt!mjrt_alloc_record(main)
     \/ Rt!mjrt_alloc_full(main)
     \/ Rt!release(main)
  /\ UNCHANGED <<heap, error, used, strayed>>

Init ==
  /\ heap = <<>>
  /\ error = "none"
  /\ Rt!Init
  /\ used = 1
  /\ strayed = FALSE

Next ==
  \/ \E n \in ElementCounts : Alloc(n)
  \/ \E h \in DOMAIN handles, offset \in 0..MaxOffset :
       \/ FreePointer(h, offset)
       \/ \E index \in Indices : Subscript(h, offset, index)
  \/ NativeStep

Spec == Init /\ [][Next]_vars

----------------------------------------------------------------------------
Ended == trap # Rt!NoTrap \/ error # "none"

\* A program the VM accepts, whose subscripted pointers stay inside their
\* allocations, meets no pointer trap natively: the registry never mistakes a
\* live allocation for a freed one however the allocator recycles addresses.
AcceptedRunsNatively ==
  error = "none" /\ ~strayed => trap \in {Rt!NoTrap, Rt!TRAP_ALLOC_FAILURE}

\* Between two operations the backends agree on what is alive: a nonempty
\* allocation is live on the VM exactly if its pointer's record is live, with
\* the VM's length, and no later allocation has the address.
LivenessAgrees ==
  ~Ended /\ pending[main].op = "idle" =>
    \A h \in DOMAIN handles \ {1} : handles[h].size # 0 =>
      LET live == \E i \in Rt!SlotsOf(handles[h].base) :
                    records[i].live /\ records[i].size = handles[h].size
      IN  /\ heap[h - 1].live => live /\ Cardinality(DOMAIN heap[h - 1].slots) = handles[h].size
          /\ live /\ ~Rt!Recycled(h) => heap[h - 1].live

\* The cells of the program's h-th pointer.
CellsOf(h) == handles[h].base..(handles[h].base + handles[h].size - 1)

\* A use of freed memory that the VM rejects traps natively too, unless the
\* allocation was empty or its cells have been handed out again since.
RejectedUsesTrap ==
  error \in {"use after free", "double free"} =>
    \/ trap # Rt!NoTrap
    \/ strayed
    \/ CellsOf(used) = {}
    \/ \E k \in DOMAIN handles : k > used /\ CellsOf(k) \cap CellsOf(used) # {}
=============================================================================
