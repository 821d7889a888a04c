------------------------------- MODULE VmHeap -------------------------------
(***************************************************************************)
(* The provenance heap of the register VM: heap_alloc, heap_index,         *)
(* heap_free, heap_read, heap_store, heap_take, heap_destroy and           *)
(* heap_bytes of crates/mojito-vm/src/backend/vm.rs.                       *)
(*                                                                         *)
(* An allocation keeps its slots and, in a second vector beside them, the  *)
(* marks of the slots never written.  Allocations are never reused: a      *)
(* pointer is an allocation id and an offset, and freeing an allocation    *)
(* invalidates every pointer into it.                                      *)
(*                                                                         *)
(* Destroying a slot runs the element's __deinit__, which is user code and *)
(* may come back to the same heap before it returns.                       *)
(***************************************************************************)
EXTENDS Integers, Sequences, FiniteSets

CONSTANTS
  Values,         \* the values the program owns, each told from the others
  Moved,          \* Value::Moved, the tombstone of a slot without a value
  Counts,         \* the allocation counts the program asks for
  Alignments,     \* the alignments the program asks for
  Offsets,        \* the offsets and indices pointer arithmetic reaches
  MaxInt,         \* the largest i64
  MaxAllocations, \* bound: allocations of one program
  MaxNesting      \* bound: destructors running inside destructors

ASSUME VmHeapAssumption ==
  /\ Moved \notin Values
  /\ Counts \subseteq Int
  /\ Alignments \subseteq Int
  /\ Offsets \subseteq Int
  /\ MaxInt \in Nat
  /\ MaxAllocations \in Nat
  /\ MaxNesting \in Nat

VARIABLES
  heap,       \* the arena: allocation id -> HeapAllocation
  error,      \* the RuntimeError that ended the program, or "none"
  regs,       \* what the program holds: values, and maybe a tombstone
  running,    \* the values whose destructors are running, innermost last
  destroyed,  \* history: values whose destructor has returned
  leaked      \* history: values overwritten or freed with their storage

vars == <<heap, error, regs, running, destroyed, leaked>>

Cell == Values \cup {Moved}

\* An allocation's two vectors have one length, a count the program asked for.
Lengths == {0} \cup {n \in Counts : n >= 0}
HeapAllocation ==
  UNION {[slots: [0..(n - 1) -> Cell], never_written: [0..(n - 1) -> BOOLEAN],
          live: BOOLEAN] : n \in Lengths}

Errors == {"none", "count", "alignment", "dangling", "use after free", "overflow",
           "bounds", "free", "double free", "uninitialized read", "uninitialized take"}

is_power_of_two(n) == \E k \in 0..n : n = 2^k

InRange(i) == i \in (0 - MaxInt - 1)..MaxInt

----------------------------------------------------------------------------
Fail(e) == error' = e /\ UNCHANGED <<heap, regs, running, destroyed, leaked>>

\* The error heap_index reports for the pointer `allocation`+`base` indexed
\* by `offset`, or "none".  Allocation 0 is the dangling pointer.
heap_index(allocation, base, offset) ==
  IF allocation = 0 THEN "dangling"
  ELSE IF ~heap[allocation].live THEN "use after free"
  ELSE IF ~InRange(base + offset) THEN "overflow"
  ELSE IF base + offset \notin DOMAIN heap[allocation].slots THEN "bounds"
  ELSE "none"

Resolved(allocation, base, offset) == heap_index(allocation, base, offset) = "none"

\* The pointer does not resolve: the operation ends the program.
Unresolved(allocation, base, offset) ==
  /\ ~Resolved(allocation, base, offset)
  /\ Fail(heap_index(allocation, base, offset))

Slot(allocation, i) == heap[allocation].slots[i]
NeverWritten(allocation, i) == heap[allocation].never_written[i]

\* Both vectors of a slot at once.
SetSlot(allocation, i, cell, never) ==
  heap' = [heap EXCEPT ![allocation].slots[i] = cell,
                       ![allocation].never_written[i] = never]

heap_alloc_error(n, alignment) ==
  IF n < 0 THEN "count"
  ELSE IF alignment <= 0 \/ ~is_power_of_two(alignment) THEN "alignment"
  ELSE "none"

\* Mutant: the id of a freed allocation is given out again.
ReuseAllocation(n, alignment) ==
  /\ heap_alloc_error(n, alignment) = "none"
  /\ \E a \in DOMAIN heap \cup {Len(heap) + 1} :
       /\ a \in DOMAIN heap => ~heap[a].live
       /\ a <= MaxAllocations
       /\ heap' = [b \in DOMAIN heap \cup {a} |->
                     IF b = a THEN [slots |-> [i \in 0..(n - 1) |-> Moved],
                                    never_written |-> [i \in 0..(n - 1) |-> TRUE],
                                    live |-> TRUE]
                     ELSE heap[b]]
  /\ UNCHANGED <<error, regs, running, destroyed, leaked>>

heap_alloc(n, alignment) ==
  /\ Len(heap) < MaxAllocations
  /\ \/ /\ heap_alloc_error(n, alignment) # "none"
        /\ Fail(heap_alloc_error(n, alignment))
     \/ /\ heap_alloc_error(n, alignment) = "none"
        /\ heap' = Append(heap, [slots |-> [i \in 0..(n - 1) |-> Moved],
                                 never_written |-> [i \in 0..(n - 1) |-> TRUE],
                                 live |-> TRUE])
        /\ UNCHANGED <<error, regs, running, destroyed, leaked>>

heap_free_error(allocation, offset) ==
  IF allocation = 0 \/ offset # 0 THEN "free"
  ELSE IF ~heap[allocation].live THEN "double free"
  ELSE "none"

Stored(allocation) ==
  {Slot(allocation, i) : i \in DOMAIN heap[allocation].slots} \ {Moved}

heap_free(allocation, offset) ==
  \/ /\ heap_free_error(allocation, offset) # "none"
     /\ Fail(heap_free_error(allocation, offset))
  \/ /\ heap_free_error(allocation, offset) = "none"
     /\ heap' = [heap EXCEPT ![allocation] =
                   [slots |-> [i \in {} |-> Moved],
                    never_written |-> [i \in {} |-> FALSE], live |-> FALSE]]
     /\ leaked' = leaked \cup Stored(allocation)
     /\ UNCHANGED <<error, regs, running, destroyed>>

\* A read copies out the slot's value: a borrow, which moves nothing.
heap_read(allocation, base, offset) ==
  \/ Unresolved(allocation, base, offset)
  \/ /\ Resolved(allocation, base, offset)
     /\ Slot(allocation, base + offset) = Moved
     /\ Fail("uninitialized read")
  \/ /\ Resolved(allocation, base, offset)
     /\ Slot(allocation, base + offset) # Moved
     /\ UNCHANGED vars

\* The bytes from a pointer on, read slot by slot until one of them fails.
heap_bytes(allocation, base, length) ==
  LET bad == {i \in 0..(length - 1) :
                \/ ~Resolved(allocation, base, i)
                \/ Slot(allocation, base + i) = Moved}
  IN  \/ bad = {} /\ UNCHANGED vars
      \/ \E i \in bad :
           /\ \A j \in bad : i <= j
           /\ Fail(IF Resolved(allocation, base, i) THEN "uninitialized read"
                   ELSE heap_index(allocation, base, i))

\* A write below a slot, into the value it holds: the value stays where it is.
write_heap_projection(allocation, base, offset) == heap_read(allocation, base, offset)

\* Mutant: a forwarded tombstone does not re-mark the slot.
StoreUnmarked(allocation, base, offset, v) ==
  /\ Resolved(allocation, base, offset)
  /\ SetSlot(allocation, base + offset, v, FALSE)
  /\ regs' = regs \ {v}
  /\ leaked' = leaked \cup ({Slot(allocation, base + offset)} \ {Moved})
  /\ UNCHANGED <<error, running, destroyed>>

\* A store of what the program holds.  A tombstone re-marks the slot; what the
\* slot held is overwritten without a destructor.
heap_store(allocation, base, offset, v) ==
  \/ Unresolved(allocation, base, offset)
  \/ /\ Resolved(allocation, base, offset)
     /\ SetSlot(allocation, base + offset, v, v = Moved)
     /\ regs' = regs \ {v}
     /\ leaked' = leaked \cup ({Slot(allocation, base + offset)} \ {Moved})
     /\ UNCHANGED <<error, running, destroyed>>

\* Move a value out.  A slot never written yields the tombstone, once.
heap_take(allocation, base, offset) ==
  LET i == base + offset
  IN  \/ Unresolved(allocation, base, offset)
      \/ /\ Resolved(allocation, base, offset)
         /\ ~NeverWritten(allocation, i)
         /\ Slot(allocation, i) = Moved
         /\ Fail("uninitialized take")
      \/ /\ Resolved(allocation, base, offset)
         /\ NeverWritten(allocation, i) \/ Slot(allocation, i) # Moved
         /\ SetSlot(allocation, i, Moved, FALSE)
         /\ regs' = regs \cup {Slot(allocation, i)}
         /\ UNCHANGED <<error, running, destroyed, leaked>>

\* Mutant: the destructor runs on the value in its slot.
DestroyInPlace(allocation, base, offset) ==
  /\ Resolved(allocation, base, offset)
  /\ Slot(allocation, base + offset) # Moved
  /\ Len(running) < MaxNesting
  /\ running' = Append(running, Slot(allocation, base + offset))
  /\ UNCHANGED <<heap, error, regs, destroyed, leaked>>

\* Destroy a slot in place: the value is taken out first, then its destructor
\* runs.  A slot never written has nothing to destroy, and counts as taken.
heap_destroy(allocation, base, offset) ==
  LET i == base + offset
  IN  \/ Unresolved(allocation, base, offset)
      \/ /\ Resolved(allocation, base, offset)
         /\ ~NeverWritten(allocation, i)
         /\ Slot(allocation, i) = Moved
         /\ Fail("uninitialized take")
      \/ /\ Resolved(allocation, base, offset)
         /\ NeverWritten(allocation, i)
         /\ SetSlot(allocation, i, Moved, FALSE)
         /\ UNCHANGED <<error, regs, running, destroyed, leaked>>
      \/ /\ Resolved(allocation, base, offset)
         /\ Slot(allocation, i) # Moved
         /\ Len(running) < MaxNesting
         /\ SetSlot(allocation, i, Moved, FALSE)
         /\ running' = Append(running, Slot(allocation, i))
         /\ UNCHANGED <<error, regs, destroyed, leaked>>

\* The innermost destructor returns: drop_named is done with the value.
drop_named_returns ==
  /\ running # <<>>
  /\ destroyed' = destroyed \cup {running[Len(running)]}
  /\ running' = SubSeq(running, 1, Len(running) - 1)
  /\ UNCHANGED <<heap, error, regs, leaked>>

----------------------------------------------------------------------------
Init ==
  /\ heap = <<>>
  /\ error = "none"
  /\ regs = Values
  /\ running = <<>>
  /\ destroyed = {}
  /\ leaked = {}

Running == error = "none"

\* Pointers cannot be forged: an id is 0 or that of an allocation made.
Allocations == 0..Len(heap)

Next ==
  /\ Running
  /\ \/ \E n \in Counts, alignment \in Alignments : heap_alloc(n, alignment)
     \/ drop_named_returns
     \/ \E allocation \in Allocations, base \in Offsets :
          \/ heap_free(allocation, base)
          \/ \E length \in Counts : heap_bytes(allocation, base, length)
          \/ \E offset \in Offsets :
               \/ heap_read(allocation, base, offset)
               \/ write_heap_projection(allocation, base, offset)
               \/ \E v \in regs : heap_store(allocation, base, offset, v)
               \/ heap_take(allocation, base, offset)
               \/ heap_destroy(allocation, base, offset)

Spec == Init /\ [][Next]_vars

----------------------------------------------------------------------------
(***************************************************************************)
(* Properties.                                                             *)
(***************************************************************************)

\* Every variable keeps its type, the two vectors of an allocation the same
\* length.
TypeOK ==
  /\ heap \in Seq(HeapAllocation)
  /\ error \in Errors
  /\ regs \subseteq Cell
  /\ running \in Seq(Values)
  /\ destroyed \subseteq Values
  /\ leaked \subseteq Values

\* The never-written mark is in step with the slot (the comment on
\* heap_store): a marked slot holds no value, so no value is ever forgotten
\* by a take or a destroy that looks at the mark first.
MarksInStep ==
  \A a \in DOMAIN heap : \A i \in DOMAIN heap[a].slots :
    NeverWritten(a, i) => Slot(a, i) = Moved

\* Who has a value: the program's registers, a heap slot, a running
\* destructor, or nobody any more.
Owners == {"program", "storage", "destructor", "destroyed", "leaked"}
Holds(o, v) ==
  \/ o = "program" /\ v \in regs
  \/ o = "storage" /\ \E a \in DOMAIN heap : v \in Stored(a)
  \/ o = "destructor" /\ \E k \in DOMAIN running : running[k] = v
  \/ o = "destroyed" /\ v \in destroyed
  \/ o = "leaked" /\ v \in leaked

\* A value has exactly one owner and is in one slot or destructor at most,
\* whatever destructors do to the heap while they run: no take, destroy or
\* free duplicates it or loses it, none destroys it twice.
ValueLinear ==
  /\ \A v \in Values : \E o \in Owners : \A p \in Owners : Holds(p, v) <=> p = o
  /\ \A j, k \in DOMAIN running : running[j] = running[k] => j = k
  /\ \A a, b \in DOMAIN heap : \A i \in DOMAIN heap[a].slots, j \in DOMAIN heap[b].slots :
       Slot(a, i) = Slot(b, j) /\ Slot(a, i) # Moved => a = b /\ i = j

\* Freeing is final: no later operation, and no later allocation, revives or
\* changes a freed allocation, so every alias of it stays invalid.
FreedStaysDead ==
  [][\A a \in DOMAIN heap : ~heap[a].live => heap'[a] = heap[a]]_vars

\* The state of a slot that the two vectors encode.
SlotState(a, i) ==
  <<IF NeverWritten(a, i) THEN "raw" ELSE IF Slot(a, i) = Moved THEN "taken" ELSE "full",
    Slot(a, i)>>

AllocationState(a) ==
  [live |-> heap[a].live,
   slots |-> [i \in DOMAIN heap[a].slots |-> SlotState(a, i)]]

OwnerOf(v) == CHOOSE o \in Owners : Holds(o, v)

Abstract == INSTANCE RawStorage WITH
  NoValue <- Moved,
  store <- [a \in DOMAIN heap |-> AllocationState(a)],
  owner <- [v \in Values |-> OwnerOf(v)]

\* The VM's heap implements the storage contract: a slot is raw, taken or
\* holds one value, and an error leaves storage and ownership as they were.
ImplementsRawStorage == Abstract!Spec
=============================================================================
