---------------------------- MODULE VmHeapProofs ----------------------------
(***************************************************************************)
(* Proofs about the VM's heap, for every set of values, counts, offsets    *)
(* and alignments and for destructors nested to any depth.                 *)
(***************************************************************************)
EXTENDS VmHeap, TLAPS

\* A slot a pointer resolves to.
IsSlot(a, i) == a \in DOMAIN heap /\ heap[a].live /\ i \in DOMAIN heap[a].slots

\* The steps by what they do.
Errs == UNCHANGED <<heap, regs, running, destroyed, leaked>> /\ error' \in Errors

Allocates == \E n \in Lengths :
  /\ heap' = Append(heap, [slots |-> [i \in 0..(n - 1) |-> Moved],
                           never_written |-> [i \in 0..(n - 1) |-> TRUE],
                           live |-> TRUE])
  /\ Len(heap) < MaxAllocations
  /\ UNCHANGED <<error, regs, running, destroyed, leaked>>

Frees(a) ==
  /\ a \in DOMAIN heap
  /\ heap[a].live
  /\ heap' = [heap EXCEPT ![a] = [slots |-> [i \in {} |-> Moved],
                                  never_written |-> [i \in {} |-> FALSE], live |-> FALSE]]
  /\ leaked' = leaked \cup Stored(a)
  /\ UNCHANGED <<error, regs, running, destroyed>>

Stores(a, i, v) ==
  /\ IsSlot(a, i)
  /\ v \in regs
  /\ SetSlot(a, i, v, v = Moved)
  /\ regs' = regs \ {v}
  /\ leaked' = leaked \cup ({Slot(a, i)} \ {Moved})
  /\ UNCHANGED <<error, running, destroyed>>

Takes(a, i) ==
  /\ IsSlot(a, i)
  /\ NeverWritten(a, i) \/ Slot(a, i) # Moved
  /\ SetSlot(a, i, Moved, FALSE)
  /\ regs' = regs \cup {Slot(a, i)}
  /\ UNCHANGED <<error, running, destroyed, leaked>>

DestroysRaw(a, i) ==
  /\ IsSlot(a, i)
  /\ NeverWritten(a, i)
  /\ SetSlot(a, i, Moved, FALSE)
  /\ UNCHANGED <<error, regs, running, destroyed, leaked>>

Destroys(a, i) ==
  /\ IsSlot(a, i)
  /\ Slot(a, i) # Moved
  /\ SetSlot(a, i, Moved, FALSE)
  /\ running' = Append(running, Slot(a, i))
  /\ UNCHANGED <<error, regs, destroyed, leaked>>

SlotSteps(a, i) ==
  (\E v \in regs : Stores(a, i, v)) \/ Takes(a, i) \/ DestroysRaw(a, i) \/ Destroys(a, i)

----------------------------------------------------------------------------
\* heap_index accepts a pointer only if it designates a slot of a live
\* allocation.
LEMMA ResolvedIsSlot ==
  ASSUME TypeOK, NEW a \in Allocations, NEW b, NEW o, Resolved(a, b, o)
  PROVE  IsSlot(a, b + o)
  BY DEF Resolved, heap_index, IsSlot, Allocations, TypeOK

\* Every step of the heap is of one of the kinds above.
LEMMA StepKinds ==
  ASSUME TypeOK, Next
  PROVE  \/ Errs \/ Allocates \/ drop_named_returns
         \/ \E a \in DOMAIN heap : Frees(a)
         \/ \E a \in DOMAIN heap : \E i \in DOMAIN heap[a].slots : SlotSteps(a, i)
<1>0. error \in Errors
  BY DEF TypeOK
<1>1. ASSUME NEW n \in Counts, NEW alignment \in Alignments, heap_alloc(n, alignment)
      PROVE  Errs \/ Allocates
  <2>1. heap_alloc_error(n, alignment) \in Errors
    BY DEF heap_alloc_error, Errors
  <2>2. CASE heap_alloc_error(n, alignment) = "none"
    <3>1. n \in Lengths
      BY <2>2, VmHeapAssumption DEF heap_alloc_error, Lengths
    <3>. QED
      BY <1>1, <2>2, <3>1 DEF heap_alloc, Allocates
  <2>. QED
    BY <1>1, <2>1, <2>2 DEF heap_alloc, Fail, Errs
<1>2. ASSUME NEW a \in Allocations, NEW base \in Offsets, heap_free(a, base)
      PROVE  Errs \/ \E x \in DOMAIN heap : Frees(x)
  <2>1. heap_free_error(a, base) \in Errors
    BY DEF heap_free_error, Errors
  <2>2. CASE heap_free_error(a, base) = "none"
    <3>1. a \in DOMAIN heap /\ heap[a].live
      BY <2>2 DEF heap_free_error, Allocations, TypeOK
    <3>. QED
      BY <1>2, <2>2, <3>1 DEF heap_free, Frees
  <2>. QED
    BY <1>2, <2>1, <2>2 DEF heap_free, Fail, Errs
<1>3. \A a, b, o : heap_index(a, b, o) \in Errors
  BY DEF heap_index, Errors
<1>4. \A a, b, o : Unresolved(a, b, o) => Errs
  BY <1>3 DEF Unresolved, Fail, Errs
<1>5. UNCHANGED vars => Errs
  BY <1>0 DEF vars, Errs
<1>6. Fail("uninitialized read") => Errs
  BY DEF Fail, Errs, Errors
<1>7. Fail("uninitialized take") => Errs
  BY DEF Fail, Errs, Errors
<1>8. ASSUME NEW a, NEW b, NEW n, heap_bytes(a, b, n)
      PROVE  Errs
  BY <1>3, <1>5, <1>6, <1>8 DEF heap_bytes, Fail, Errs
<1>9. ASSUME NEW a, NEW b, NEW o, heap_read(a, b, o)
      PROVE  Errs
  BY <1>4, <1>5, <1>6, <1>9 DEF heap_read
<1>10. ASSUME NEW a \in Allocations, NEW b \in Offsets, NEW o \in Offsets,
              \/ \E v \in regs : heap_store(a, b, o, v)
              \/ heap_take(a, b, o)
              \/ heap_destroy(a, b, o)
       PROVE  Errs \/ \E x \in DOMAIN heap : \E i \in DOMAIN heap[x].slots : SlotSteps(x, i)
  <2>1. CASE Unresolved(a, b, o) \/ Fail("uninitialized take")
    BY <2>1, <1>4, <1>7
  <2>2. CASE ~(Unresolved(a, b, o) \/ Fail("uninitialized take"))
    <3>1. Resolved(a, b, o)
      BY <1>10, <2>2 DEF heap_store, heap_take, heap_destroy
    <3>2. IsSlot(a, b + o)
      BY <3>1, ResolvedIsSlot
    <3>3. SlotSteps(a, b + o)
      <4>1. ASSUME NEW v \in regs, heap_store(a, b, o, v)
            PROVE  Stores(a, b + o, v)
        BY <4>1, <2>2, <3>2 DEF heap_store, Stores
      <4>2. ASSUME heap_take(a, b, o)
            PROVE  Takes(a, b + o)
        BY <4>2, <2>2, <3>2 DEF heap_take, Takes
      <4>3. ASSUME heap_destroy(a, b, o)
            PROVE  DestroysRaw(a, b + o) \/ Destroys(a, b + o)
        BY <4>3, <2>2, <3>2 DEF heap_destroy, DestroysRaw, Destroys
      <4>. QED
        BY <1>10, <4>1, <4>2, <4>3 DEF SlotSteps
    <3>. QED
      BY <3>2, <3>3 DEF IsSlot
  <2>. QED
    BY <2>1, <2>2
<1>. QED
  BY <1>1, <1>2, <1>8, <1>9, <1>10 DEF Next, write_heap_projection

----------------------------------------------------------------------------
\* An allocation is its two vectors, of one length, and its life.
LEMMA AllocationShape ==
  ASSUME TypeOK, NEW a \in DOMAIN heap
  PROVE  /\ heap[a] \in HeapAllocation
         /\ \E n \in Lengths :
              /\ heap[a] \in [slots: [0..(n - 1) -> Cell],
                              never_written: [0..(n - 1) -> BOOLEAN], live: BOOLEAN]
              /\ DOMAIN heap[a].slots = 0..(n - 1)
              /\ DOMAIN heap[a].never_written = 0..(n - 1)
<1>1. heap[a] \in HeapAllocation
  BY DEF TypeOK
<1>2. PICK n \in Lengths :
        heap[a] \in [slots: [0..(n - 1) -> Cell],
                     never_written: [0..(n - 1) -> BOOLEAN], live: BOOLEAN]
  BY <1>1 DEF HeapAllocation
<1>. QED
  BY <1>1, <1>2

\* What setting a slot changes: that slot, and nothing else.
LEMMA SetSlotFacts ==
  ASSUME TypeOK, NEW a, NEW i, IsSlot(a, i), NEW cell \in Cell, NEW never \in BOOLEAN,
         SetSlot(a, i, cell, never)
  PROVE  /\ heap' \in Seq(HeapAllocation)
         /\ DOMAIN heap' = DOMAIN heap
         /\ \A b \in DOMAIN heap :
              /\ heap'[b].live = heap[b].live
              /\ b # a => heap'[b] = heap[b]
              /\ DOMAIN heap'[b].slots = DOMAIN heap[b].slots
              /\ \A j \in DOMAIN heap[b].slots :
                   /\ Slot(b, j)' = IF b = a /\ j = i THEN cell ELSE Slot(b, j)
                   /\ NeverWritten(b, j)' =
                        IF b = a /\ j = i THEN never ELSE NeverWritten(b, j)
<1>1. a \in DOMAIN heap /\ i \in DOMAIN heap[a].slots
  BY DEF IsSlot
<1>2. PICK n \in Lengths :
        /\ heap[a] \in [slots: [0..(n - 1) -> Cell],
                        never_written: [0..(n - 1) -> BOOLEAN], live: BOOLEAN]
        /\ DOMAIN heap[a].slots = 0..(n - 1)
        /\ DOMAIN heap[a].never_written = 0..(n - 1)
  BY <1>1, AllocationShape
<1>. DEFINE r == [heap[a] EXCEPT !.slots[i] = cell, !.never_written[i] = never]
<1>3. heap' = [heap EXCEPT ![a] = r]
  BY DEF SetSlot
<1>4. /\ r.slots = [heap[a].slots EXCEPT ![i] = cell]
      /\ r.never_written = [heap[a].never_written EXCEPT ![i] = never]
      /\ r.live = heap[a].live
      /\ r \in [slots: [0..(n - 1) -> Cell],
                never_written: [0..(n - 1) -> BOOLEAN], live: BOOLEAN]
  BY <1>1, <1>2
<1>5. r \in HeapAllocation
  BY <1>4 DEF HeapAllocation
<1>. HIDE DEF r
<1>6. heap' \in Seq(HeapAllocation) /\ DOMAIN heap' = DOMAIN heap
  BY <1>1, <1>3, <1>5 DEF TypeOK
<1>7. heap'[a] = r /\ \A b \in DOMAIN heap : b # a => heap'[b] = heap[b]
  BY <1>1, <1>3 DEF TypeOK
<1>. QED
  BY <1>1, <1>2, <1>4, <1>6, <1>7 DEF Slot, NeverWritten

----------------------------------------------------------------------------
\* The heap of a program that has not started is well typed.
LEMMA TypeInit == Init => TypeOK
  BY DEF Init, TypeOK, Cell, Errors

\* Every heap operation, and every destructor that returns, keeps the types.
LEMMA TypeStep == TypeOK /\ [Next]_vars => TypeOK'
<1>. SUFFICES ASSUME TypeOK, [Next]_vars PROVE TypeOK'
  OBVIOUS
<1>1. CASE Errs
  BY <1>1 DEF Errs, TypeOK
<1>2. CASE Allocates
  <2>1. PICK n \in Lengths :
          heap' = Append(heap, [slots |-> [i \in 0..(n - 1) |-> Moved],
                                never_written |-> [i \in 0..(n - 1) |-> TRUE],
                                live |-> TRUE])
    BY <1>2 DEF Allocates
  <2>2. [slots |-> [i \in 0..(n - 1) |-> Moved],
         never_written |-> [i \in 0..(n - 1) |-> TRUE], live |-> TRUE] \in HeapAllocation
    BY DEF HeapAllocation, Cell
  <2>. QED
    BY <1>2, <2>1, <2>2 DEF Allocates, TypeOK
<1>3. CASE drop_named_returns
  BY <1>3 DEF drop_named_returns, TypeOK
<1>4. ASSUME NEW a \in DOMAIN heap, Frees(a)
      PROVE  TypeOK'
  <2>. DEFINE r == [slots |-> [i \in {} |-> Moved],
                    never_written |-> [i \in {} |-> FALSE], live |-> FALSE]
  <2>1. 0..(0 - 1) = {} /\ 0 \in Lengths
    BY DEF Lengths
  <2>2. r \in [slots: [0..(0 - 1) -> Cell], never_written: [0..(0 - 1) -> BOOLEAN],
               live: BOOLEAN]
    BY <2>1
  <2>3. r \in HeapAllocation
    BY <2>1, <2>2 DEF HeapAllocation
  <2>4. heap' \in Seq(HeapAllocation)
    BY <1>4, <2>3 DEF Frees, TypeOK
  <2>5. Stored(a) \subseteq Values
    <3>1. \A i \in DOMAIN heap[a].slots : heap[a].slots[i] \in Cell
      BY AllocationShape
    <3>. QED
      BY <3>1 DEF Stored, Slot, Cell
  <2>. QED
    BY <1>4, <2>4, <2>5 DEF Frees, TypeOK
<1>5. ASSUME NEW a \in DOMAIN heap, NEW i \in DOMAIN heap[a].slots, SlotSteps(a, i)
      PROVE  TypeOK'
  <2>1. Slot(a, i) \in Cell
    BY AllocationShape DEF Slot
  <2>2. Slot(a, i) # Moved => Slot(a, i) \in Values
    BY <2>1 DEF Cell
  <2>3. ASSUME NEW v \in regs, Stores(a, i, v)
        PROVE  TypeOK'
    <3>1. v \in Cell /\ (v = Moved) \in BOOLEAN
      BY DEF TypeOK
    <3>2. heap' \in Seq(HeapAllocation)
      BY <2>3, <3>1, SetSlotFacts DEF Stores
    <3>. QED
      BY <2>2, <2>3, <3>2 DEF Stores, TypeOK
  <2>4. Moved \in Cell
    BY DEF Cell
  <2>5. CASE Takes(a, i)
    BY <2>1, <2>4, <2>5, SetSlotFacts DEF Takes, TypeOK
  <2>6. CASE DestroysRaw(a, i)
    BY <2>4, <2>6, SetSlotFacts DEF DestroysRaw, TypeOK
  <2>7. CASE Destroys(a, i)
    <3>1. heap' \in Seq(HeapAllocation)
      BY <2>4, <2>7, SetSlotFacts DEF Destroys
    <3>2. running' \in Seq(Values)
      BY <2>2, <2>7 DEF Destroys, TypeOK
    <3>. QED
      BY <2>7, <3>1, <3>2 DEF Destroys, TypeOK
  <2>. QED
    BY <1>5, <2>3, <2>5, <2>6, <2>7 DEF SlotSteps
<1>6. CASE UNCHANGED vars
  BY <1>6 DEF vars, TypeOK
<1>. QED
  BY <1>1, <1>2, <1>3, <1>4, <1>5, <1>6, StepKinds

\* Every variable of the heap keeps its type, whatever the program does with
\* its pointers; the two vectors of an allocation never differ in length.
THEOREM HeapTypeCorrect == Spec => []TypeOK
  BY TypeInit, TypeStep, PTL DEF Spec

----------------------------------------------------------------------------
\* Every heap operation keeps the two vectors of an allocation in step.
LEMMA MarksStep == TypeOK /\ MarksInStep /\ [Next]_vars => MarksInStep'
<1>. SUFFICES ASSUME TypeOK, MarksInStep, [Next]_vars PROVE MarksInStep'
  OBVIOUS
<1>1. CASE UNCHANGED heap
  BY <1>1 DEF MarksInStep, Slot, NeverWritten
<1>2. CASE Allocates
  BY <1>2 DEF Allocates, TypeOK, MarksInStep, Slot, NeverWritten
<1>3. ASSUME NEW a \in DOMAIN heap, Frees(a)
      PROVE  MarksInStep'
  BY <1>3 DEF Frees, TypeOK, MarksInStep, Slot, NeverWritten
<1>4. ASSUME NEW a \in DOMAIN heap, NEW i \in DOMAIN heap[a].slots, SlotSteps(a, i)
      PROVE  MarksInStep'
  <2>1. PICK cell \in Cell, never \in BOOLEAN :
          SetSlot(a, i, cell, never) /\ (never => cell = Moved) /\ IsSlot(a, i)
    <3>1. Moved \in Cell /\ regs \subseteq Cell
      BY DEF Cell, TypeOK
    <3>2. ASSUME NEW v \in regs, Stores(a, i, v)
          PROVE  SetSlot(a, i, v, v = Moved) /\ v \in Cell /\ IsSlot(a, i)
      BY <3>1, <3>2 DEF Stores
    <3>3. ASSUME Takes(a, i) \/ DestroysRaw(a, i) \/ Destroys(a, i)
          PROVE  SetSlot(a, i, Moved, FALSE) /\ IsSlot(a, i)
      BY <3>3 DEF Takes, DestroysRaw, Destroys
    <3>. QED
      BY <1>4, <3>1, <3>2, <3>3 DEF SlotSteps
  <2>. QED
    BY <2>1, SetSlotFacts DEF MarksInStep
<1>. QED
  BY <1>1, <1>2, <1>3, <1>4, StepKinds DEF Errs, drop_named_returns, vars

\* The never-written marks stay in step with the slots: no take or destroy
\* that trusts a mark drops a value on the floor.
THEOREM HeapMarksInStep == Spec => []MarksInStep
<1>1. Init => MarksInStep
  BY DEF Init, MarksInStep
<1>. QED
  BY <1>1, TypeInit, TypeStep, MarksStep, PTL DEF Spec

\* A freed allocation is never touched again, in any program.
THEOREM HeapFreedStaysDead == Spec => FreedStaysDead
<1>1. ASSUME TypeOK, [Next]_vars
      PROVE  [\A a \in DOMAIN heap : ~heap[a].live => heap'[a] = heap[a]]_vars
  <2>1. ASSUME NEW b \in DOMAIN heap, ~heap[b].live
        PROVE  heap'[b] = heap[b]
    <3>1. CASE UNCHANGED heap
      BY <3>1
    <3>2. CASE Allocates
      BY <1>1, <3>2 DEF Allocates, TypeOK
    <3>3. ASSUME NEW a \in DOMAIN heap, Frees(a)
          PROVE  heap'[b] = heap[b]
      BY <1>1, <2>1, <3>3 DEF Frees, TypeOK
    <3>4. ASSUME NEW a \in DOMAIN heap, NEW i \in DOMAIN heap[a].slots, SlotSteps(a, i)
          PROVE  heap'[b] = heap[b]
      BY <1>1, <2>1, <3>4
         DEF SlotSteps, Stores, Takes, DestroysRaw, Destroys, SetSlot, IsSlot, TypeOK
    <3>. QED
      BY <1>1, <3>1, <3>2, <3>3, <3>4, StepKinds DEF Errs, drop_named_returns, vars
  <2>. QED
    BY <2>1
<1>. QED
  BY <1>1, TypeInit, TypeStep, PTL DEF Spec, FreedStaysDead

----------------------------------------------------------------------------
(***************************************************************************)
(* The ownership of values.  A value is in storage if some slot holds it.  *)
(***************************************************************************)
InStorage(v) == \E a \in DOMAIN heap : \E i \in DOMAIN heap[a].slots : Slot(a, i) = v
InDestructor(v) == \E k \in DOMAIN running : running[k] = v

SlotsDistinct ==
  \A a, b \in DOMAIN heap : \A i \in DOMAIN heap[a].slots, j \in DOMAIN heap[b].slots :
    Slot(a, i) = Slot(b, j) /\ Slot(a, i) # Moved => a = b /\ i = j

DestructorsDistinct == \A j, k \in DOMAIN running : running[j] = running[k] => j = k

\* Exactly one of the five places.
OneOwner(v) ==
  /\ v \in regs \/ InStorage(v) \/ InDestructor(v) \/ v \in destroyed \/ v \in leaked
  /\ v \in regs => ~InStorage(v) /\ ~InDestructor(v) /\ v \notin destroyed /\ v \notin leaked
  /\ InStorage(v) => ~InDestructor(v) /\ v \notin destroyed /\ v \notin leaked
  /\ InDestructor(v) => v \notin destroyed /\ v \notin leaked
  /\ v \in destroyed => v \notin leaked

Linear == (\A v \in Values : OneOwner(v)) /\ SlotsDistinct /\ DestructorsDistinct

\* The same fact in the words of the property.
LEMMA LinearMeans == ValueLinear <=> Linear
<1>0. \A v \in Values : (\E a \in DOMAIN heap : v \in Stored(a)) <=> InStorage(v)
  BY VmHeapAssumption DEF Stored, InStorage
<1>1. ASSUME NEW v \in Values
      PROVE  (\E o \in Owners : \A p \in Owners : Holds(p, v) <=> p = o) <=> OneOwner(v)
  <2>1. /\ Holds("program", v) <=> v \in regs
        /\ Holds("storage", v) <=> InStorage(v)
        /\ Holds("destructor", v) <=> InDestructor(v)
        /\ Holds("destroyed", v) <=> v \in destroyed
        /\ Holds("leaked", v) <=> v \in leaked
    BY <1>0 DEF Holds, InDestructor
  <2>. QED
    BY <2>1 DEF Owners, OneOwner
<1>. QED
  BY <1>1 DEF ValueLinear, Linear, SlotsDistinct, DestructorsDistinct

\* What a slot update does to the values in storage: the new content comes
\* in, the old one goes out, every other value stays where it is.
LEMMA SlotStorage ==
  ASSUME TypeOK, SlotsDistinct, NEW a, NEW i, IsSlot(a, i), NEW cell \in Cell,
         NEW never \in BOOLEAN, SetSlot(a, i, cell, never),
         cell # Moved => ~InStorage(cell)
  PROVE  /\ \A v \in Values : InStorage(v)' <=> v = cell \/ (InStorage(v) /\ v # Slot(a, i))
         /\ SlotsDistinct'
<1>1. a \in DOMAIN heap /\ i \in DOMAIN heap[a].slots
  BY DEF IsSlot
<1>2. /\ DOMAIN heap' = DOMAIN heap
      /\ \A b \in DOMAIN heap :
           /\ DOMAIN heap'[b].slots = DOMAIN heap[b].slots
           /\ \A j \in DOMAIN heap[b].slots :
                Slot(b, j)' = IF b = a /\ j = i THEN cell ELSE Slot(b, j)
  BY SetSlotFacts
<1>3. ASSUME NEW v \in Values
      PROVE  InStorage(v)' <=> v = cell \/ (InStorage(v) /\ v # Slot(a, i))
  <2>1. v # Moved
    BY VmHeapAssumption
  <2>2. ASSUME NEW b \in DOMAIN heap, NEW j \in DOMAIN heap[b].slots, Slot(b, j)' = v
        PROVE  v = cell \/ (InStorage(v) /\ v # Slot(a, i))
    <3>1. CASE b = a /\ j = i
      BY <1>2, <2>2, <3>1
    <3>2. CASE ~(b = a /\ j = i)
      <4>1. Slot(b, j) = v
        BY <1>2, <2>2, <3>2
      <4>2. v # Slot(a, i)
        BY <1>1, <2>1, <3>2, <4>1 DEF SlotsDistinct
      <4>. QED
        BY <4>1, <4>2 DEF InStorage
    <3>. QED
      BY <3>1, <3>2
  <2>3. v = cell => InStorage(v)'
    <3>1. Slot(a, i)' = cell
      BY <1>1, <1>2
    <3>. QED
      BY <1>1, <1>2, <3>1 DEF InStorage
  <2>4. InStorage(v) /\ v # Slot(a, i) => InStorage(v)'
    <3>. SUFFICES ASSUME NEW b \in DOMAIN heap, NEW j \in DOMAIN heap[b].slots,
                         Slot(b, j) = v, v # Slot(a, i)
                  PROVE  InStorage(v)'
      BY DEF InStorage
    <3>1. Slot(b, j)' = v
      BY <1>2
    <3>. QED
      BY <1>2, <3>1 DEF InStorage
  <2>5. InStorage(v)' => \E b \in DOMAIN heap : \E j \in DOMAIN heap[b].slots : Slot(b, j)' = v
    BY <1>2 DEF InStorage
  <2>. QED
    BY <2>2, <2>3, <2>4, <2>5
<1>4. SlotsDistinct'
  <2>. SUFFICES ASSUME NEW b \in DOMAIN heap, NEW c \in DOMAIN heap,
                       NEW j \in DOMAIN heap[b].slots, NEW k \in DOMAIN heap[c].slots,
                       Slot(b, j)' = Slot(c, k)', Slot(b, j)' # Moved
                PROVE  b = c /\ j = k
    BY <1>2 DEF SlotsDistinct
  <2>1. CASE (b = a /\ j = i) \/ (c = a /\ k = i)
    BY <1>2, <2>1 DEF InStorage
  <2>2. CASE ~((b = a /\ j = i) \/ (c = a /\ k = i))
    BY <1>2, <2>2 DEF SlotsDistinct
  <2>. QED
    BY <2>1, <2>2
<1>. QED
  BY <1>3, <1>4

\* Every heap operation moves a value from one owner to one other.
LEMMA LinearStep == TypeOK /\ MarksInStep /\ Linear /\ [Next]_vars => Linear'
<1>. SUFFICES ASSUME TypeOK, MarksInStep, Linear, [Next]_vars PROVE Linear'
  OBVIOUS
<1>0. TypeOK' /\ Moved \notin Values /\ Moved \in Cell
  BY TypeStep, VmHeapAssumption DEF Cell
<1>1. CASE UNCHANGED <<heap, regs, running, destroyed, leaked>>
  BY <1>1 DEF Linear, OneOwner, InStorage, InDestructor, SlotsDistinct, DestructorsDistinct, Slot
<1>2. CASE Allocates
  <2>1. /\ DOMAIN heap' = DOMAIN heap \cup {Len(heap) + 1}
        /\ \A a \in DOMAIN heap : heap'[a] = heap[a]
        /\ \A i \in DOMAIN heap'[Len(heap) + 1].slots :
             heap'[Len(heap) + 1].slots[i] = Moved
        /\ Len(heap) + 1 \notin DOMAIN heap
    BY <1>2 DEF Allocates, TypeOK
  <2>2. \A v \in Values : InStorage(v)' <=> InStorage(v)
    BY <1>0, <2>1 DEF InStorage, Slot
  <2>3. SlotsDistinct'
    BY <2>1 DEF Linear, SlotsDistinct, Slot
  <2>. QED
    BY <1>2, <2>2, <2>3 DEF Allocates, Linear, OneOwner, InDestructor, DestructorsDistinct
<1>3. CASE drop_named_returns
  <2>. DEFINE last == running[Len(running)]
  <2>1. /\ running # <<>>
        /\ running' = SubSeq(running, 1, Len(running) - 1)
        /\ destroyed' = destroyed \cup {last}
        /\ UNCHANGED <<heap, regs, leaked>>
    BY <1>3 DEF drop_named_returns
  <2>2. Len(running) \in DOMAIN running /\ last \in Values
    BY <2>1 DEF TypeOK
  <2>3. /\ DOMAIN running' = DOMAIN running \ {Len(running)}
        /\ \A k \in DOMAIN running' : running'[k] = running[k]
    BY <2>1 DEF TypeOK
  <2>. HIDE DEF last
  <2>4. \A v \in Values : InDestructor(v)' <=> InDestructor(v) /\ v # last
    BY <2>2, <2>3 DEF Linear, DestructorsDistinct, InDestructor, last
  <2>5. DestructorsDistinct'
    BY <2>3 DEF Linear, DestructorsDistinct
  <2>6. \A v \in Values : InStorage(v)' <=> InStorage(v)
    BY <2>1 DEF InStorage, Slot
  <2>7. SlotsDistinct'
    BY <2>1 DEF Linear, SlotsDistinct, Slot
  <2>8. InDestructor(last)
    BY <2>2 DEF InDestructor, last
  <2>. QED
    BY <2>1, <2>2, <2>4, <2>5, <2>6, <2>7, <2>8 DEF Linear, OneOwner
<1>4. ASSUME NEW a \in DOMAIN heap, Frees(a)
      PROVE  Linear'
  <2>1. /\ DOMAIN heap' = DOMAIN heap
        /\ \A b \in DOMAIN heap : b # a => heap'[b] = heap[b]
        /\ DOMAIN heap'[a].slots = {}
        /\ leaked' = leaked \cup Stored(a)
        /\ UNCHANGED <<regs, running, destroyed>>
    BY <1>4 DEF Frees, TypeOK
  <2>2. \A v \in Values : v \in Stored(a) => InStorage(v)
    BY DEF Stored, InStorage
  <2>3. ASSUME NEW v \in Values
        PROVE  InStorage(v)' <=> InStorage(v) /\ v \notin Stored(a)
    <3>1. InStorage(v)' => InStorage(v) /\ v \notin Stored(a)
      BY <1>0, <2>1 DEF InStorage, Slot, Stored, Linear, SlotsDistinct
    <3>2. InStorage(v) /\ v \notin Stored(a) => InStorage(v)'
      BY <1>0, <2>1 DEF InStorage, Slot, Stored
    <3>. QED
      BY <3>1, <3>2
  <2>4. SlotsDistinct'
    BY <2>1 DEF Linear, SlotsDistinct, Slot
  <2>. QED
    BY <2>1, <2>2, <2>3, <2>4 DEF Linear, OneOwner, InDestructor, DestructorsDistinct
<1>5. ASSUME NEW a \in DOMAIN heap, NEW i \in DOMAIN heap[a].slots, SlotSteps(a, i)
      PROVE  Linear'
  <2>. DEFINE old == Slot(a, i)
  <2>1. old # Moved => old \in Values /\ InStorage(old)
    <3>1. old \in Cell
      BY AllocationShape DEF Slot
    <3>. QED
      BY <3>1 DEF Cell, InStorage
  <2>2. ASSUME NEW v \in regs, Stores(a, i, v)
        PROVE  Linear'
    <3>1. v \in Cell /\ (v # Moved => v \in Values /\ ~InStorage(v))
      BY <2>2 DEF TypeOK, Cell, Linear, OneOwner
    <3>2. /\ \A w \in Values : InStorage(w)' <=> w = v \/ (InStorage(w) /\ w # old)
          /\ SlotsDistinct'
      BY <2>2, <3>1, SlotStorage DEF Stores, Linear
    <3>. HIDE DEF old
    <3>3. /\ regs' = regs \ {v}
          /\ leaked' = leaked \cup ({old} \ {Moved})
          /\ UNCHANGED <<running, destroyed>>
      BY <2>2 DEF Stores, old
    <3>. QED
      BY <1>0, <2>1, <3>1, <3>2, <3>3 DEF Linear, OneOwner, InDestructor, DestructorsDistinct
  <2>3. ASSUME Takes(a, i) \/ DestroysRaw(a, i) \/ Destroys(a, i)
        PROVE  /\ \A w \in Values : InStorage(w)' <=> InStorage(w) /\ w # old
               /\ SlotsDistinct'
    <3>1. IsSlot(a, i) /\ SetSlot(a, i, Moved, FALSE)
      BY <2>3 DEF Takes, DestroysRaw, Destroys
    <3>. QED
      BY <1>0, <3>1, SlotStorage DEF Linear
  <2>. HIDE DEF old
  <2>4. CASE Takes(a, i)
    <3>1. regs' = regs \cup {old} /\ UNCHANGED <<running, destroyed, leaked>>
      BY <2>4 DEF Takes, old
    <3>. QED
      BY <1>0, <2>1, <2>3, <2>4, <3>1 DEF Linear, OneOwner, InDestructor, DestructorsDistinct
  <2>5. CASE DestroysRaw(a, i)
    <3>1. UNCHANGED <<regs, running, destroyed, leaked>> /\ old = Moved
      BY <2>5 DEF DestroysRaw, MarksInStep, old
    <3>. QED
      BY <1>0, <2>1, <2>3, <2>5, <3>1 DEF Linear, OneOwner, InDestructor, DestructorsDistinct
  <2>6. CASE Destroys(a, i)
    <3>1. /\ old # Moved
          /\ running' = Append(running, old)
          /\ UNCHANGED <<regs, destroyed, leaked>>
      BY <2>6 DEF Destroys, old
    <3>2. /\ DOMAIN running' = DOMAIN running \cup {Len(running) + 1}
          /\ \A k \in DOMAIN running : running'[k] = running[k]
          /\ running'[Len(running) + 1] = old
      BY <3>1 DEF TypeOK
    <3>3. \A w \in Values : InDestructor(w)' <=> InDestructor(w) \/ w = old
      BY <3>2 DEF InDestructor
    <3>4. ~InDestructor(old)
      BY <2>1, <3>1 DEF Linear, OneOwner
    <3>5. DestructorsDistinct'
      BY <3>2, <3>4 DEF Linear, DestructorsDistinct, InDestructor
    <3>. QED
      BY <2>1, <2>3, <2>6, <3>1, <3>3, <3>4, <3>5 DEF Linear, OneOwner
  <2>. QED
    BY <1>5, <2>2, <2>4, <2>5, <2>6 DEF SlotSteps
<1>. QED
  BY <1>1, <1>2, <1>3, <1>4, <1>5, StepKinds DEF Errs, vars

\* Every value has one owner at a time, so none is destroyed twice and none
\* is lost to a take or a destroy, even when its destructor comes back to the
\* same slot: heap_destroy empties the slot before it runs user code.
THEOREM HeapValueLinear == Spec => []ValueLinear
<1>1. Init => Linear
  BY DEF Init, Linear, OneOwner, InStorage, InDestructor, SlotsDistinct, DestructorsDistinct
<1>. QED
  BY <1>1, TypeInit, TypeStep, HeapMarksInStep, LinearStep, LinearMeans, PTL DEF Spec
----------------------------------------------------------------------------
(***************************************************************************)
(* The refinement of RawStorage.  Store and Owner are the refinement       *)
(* mapping of VmHeap's instance, under names of their own.                 *)
(***************************************************************************)
Store == [a \in DOMAIN heap |-> AllocationState(a)]
Owner == [v \in Values |-> OwnerOf(v)]

HeapInv == TypeOK /\ MarksInStep /\ Linear

\* The owner the mapping chooses is the one place that has the value.
OwnersKnown ==
  \A v \in Values :
    /\ OwnerOf(v) \in Owners
    /\ OwnerOf(v) = "program" <=> v \in regs
    /\ OwnerOf(v) = "storage" <=> InStorage(v)
    /\ OwnerOf(v) = "destructor" <=> InDestructor(v)
    /\ OwnerOf(v) = "destroyed" <=> v \in destroyed
    /\ OwnerOf(v) = "leaked" <=> v \in leaked

\* The computed owner of a value is the one place the value is in.
LEMMA OwnerFacts == Linear => OwnersKnown
<1>. SUFFICES ASSUME Linear, NEW v \in Values
              PROVE  /\ OwnerOf(v) \in Owners
                     /\ OwnerOf(v) = "program" <=> v \in regs
                     /\ OwnerOf(v) = "storage" <=> InStorage(v)
                     /\ OwnerOf(v) = "destructor" <=> InDestructor(v)
                     /\ OwnerOf(v) = "destroyed" <=> v \in destroyed
                     /\ OwnerOf(v) = "leaked" <=> v \in leaked
  BY DEF OwnersKnown
<1>1. PICK o \in Owners : \A p \in Owners : Holds(p, v) <=> p = o
  BY LinearMeans DEF ValueLinear
<1>2. OwnerOf(v) \in Owners /\ Holds(OwnerOf(v), v)
  BY <1>1 DEF OwnerOf
<1>3. OwnerOf(v) = o
  BY <1>1, <1>2
<1>4. (\E a \in DOMAIN heap : v \in Stored(a)) <=> InStorage(v)
  BY VmHeapAssumption DEF Stored, InStorage
<1>5. /\ Holds("program", v) <=> v \in regs
      /\ Holds("storage", v) <=> InStorage(v)
      /\ Holds("destructor", v) <=> InDestructor(v)
      /\ Holds("destroyed", v) <=> v \in destroyed
      /\ Holds("leaked", v) <=> v \in leaked
  BY <1>4 DEF Holds, InDestructor
<1>. QED
  BY <1>1, <1>3, <1>5 DEF Owners

\* A slot is full of a value in the mapping just when it holds the value.
SlotsKnown ==
  \A a \in DOMAIN heap : \A i \in DOMAIN heap[a].slots :
    /\ \A v \in Values : SlotState(a, i) = <<"full", v>> <=> Slot(a, i) = v
    /\ NeverWritten(a, i) => SlotState(a, i) = <<"raw", Moved>>
    /\ ~NeverWritten(a, i) /\ Slot(a, i) = Moved => SlotState(a, i) = <<"taken", Moved>>
    /\ NeverWritten(a, i) \/ Slot(a, i) # Moved => SlotState(a, i) # <<"taken", Moved>>

\* The computed state of a slot tells its mark and its value.
LEMMA SlotFacts == MarksInStep => SlotsKnown
  BY VmHeapAssumption DEF MarksInStep, SlotsKnown, SlotState

\* The mapping as a sequence of allocations.
LEMMA StoreShape ==
  ASSUME TypeOK
  PROVE  /\ DOMAIN Store = DOMAIN heap
         /\ Store \in Seq({AllocationState(a) : a \in DOMAIN heap})
         /\ Len(Store) = Len(heap)
         /\ \A a \in DOMAIN heap :
              /\ Store[a] = AllocationState(a)
              /\ Store[a].live = heap[a].live
              /\ DOMAIN Store[a].slots = DOMAIN heap[a].slots
              /\ \A i \in DOMAIN heap[a].slots : Store[a].slots[i] = SlotState(a, i)
<1>1. Len(heap) \in Nat /\ DOMAIN heap = 1..Len(heap)
  BY DEF TypeOK
<1>2. /\ DOMAIN Store = 1..Len(heap)
      /\ Store \in [1..Len(heap) -> {AllocationState(a) : a \in DOMAIN heap}]
  BY <1>1 DEF Store
<1>3. Store \in Seq({AllocationState(a) : a \in DOMAIN heap}) /\ Len(Store) = Len(heap)
  BY <1>1, <1>2
<1>4. \A a \in DOMAIN heap : Store[a] = AllocationState(a)
  BY DEF Store
<1>5. \A a \in DOMAIN heap :
        /\ AllocationState(a).live = heap[a].live
        /\ DOMAIN AllocationState(a).slots = DOMAIN heap[a].slots
        /\ \A i \in DOMAIN heap[a].slots : AllocationState(a).slots[i] = SlotState(a, i)
  BY DEF AllocationState
<1>. QED
  BY <1>1, <1>2, <1>3, <1>4, <1>5

\* A slot set in the heap is the same slot set in the mapping.
LEMMA StoreUpdate ==
  ASSUME TypeOK, NEW a, NEW i, IsSlot(a, i), NEW cell \in Cell, NEW never \in BOOLEAN,
         SetSlot(a, i, cell, never)
  PROVE  /\ Slot(a, i)' = cell /\ NeverWritten(a, i)' = never
         /\ Store' = [Store EXCEPT ![a].slots[i] = SlotState(a, i)']
<1>. DEFINE content == SlotState(a, i)'
<1>1. a \in DOMAIN heap /\ i \in DOMAIN heap[a].slots
  BY DEF IsSlot
<1>2. /\ DOMAIN heap' = DOMAIN heap
      /\ \A b \in DOMAIN heap :
           /\ heap'[b].live = heap[b].live
           /\ DOMAIN heap'[b].slots = DOMAIN heap[b].slots
           /\ \A j \in DOMAIN heap[b].slots : ~(b = a /\ j = i) =>
                Slot(b, j)' = Slot(b, j) /\ NeverWritten(b, j)' = NeverWritten(b, j)
  BY SetSlotFacts
<1>3. \A b \in DOMAIN heap : \A j \in DOMAIN heap[b].slots : ~(b = a /\ j = i) =>
        SlotState(b, j)' = SlotState(b, j)
  BY <1>2 DEF SlotState
<1>4. \A b \in DOMAIN heap : b # a => AllocationState(b)' = AllocationState(b)
  BY <1>2, <1>3 DEF AllocationState
<1>6. Slot(a, i)' = cell /\ NeverWritten(a, i)' = never
  BY <1>1, SetSlotFacts
<1>. HIDE DEF content
<1>5. AllocationState(a)' = [AllocationState(a) EXCEPT !.slots[i] = content]
  <2>. DEFINE S == DOMAIN heap[a].slots
              f == [j \in S |-> SlotState(a, j)]
              g == [f EXCEPT ![i] = content]
  <2>1. AllocationState(a) = [live |-> heap[a].live, slots |-> f]
    BY DEF AllocationState
  <2>2. AllocationState(a)' = [live |-> heap[a].live, slots |-> [j \in S |-> SlotState(a, j)']]
    BY <1>1, <1>2 DEF AllocationState
  <2>3. [j \in S |-> SlotState(a, j)'] = g
    BY <1>1, <1>3 DEF content
  <2>. HIDE DEF f, g
  <2>4. AllocationState(a)' = [live |-> heap[a].live, slots |-> g]
    BY <2>2, <2>3
  <2>5. [AllocationState(a) EXCEPT !.slots[i] = content] = [live |-> heap[a].live, slots |-> g]
    BY <2>1 DEF g
  <2>. QED
    BY <2>4, <2>5
<1>. QED
  BY <1>1, <1>2, <1>4, <1>5, <1>6 DEF Store, content

\* Where every value is after a step, by where it was.
LEMMA OwnerAfter ==
  ASSUME Linear, Linear'
  PROVE  OwnersKnown /\ OwnersKnown'
<1>1. Linear' => OwnersKnown'
  BY OwnerFacts, PTL
<1>. QED
  BY <1>1, OwnerFacts

\* A step that changes a slot moves its content out, and maybe a value in.
LEMMA SlotRefines ==
  ASSUME HeapInv, HeapInv', NEW a \in DOMAIN heap, NEW i \in DOMAIN heap[a].slots,
         SlotSteps(a, i)
  PROVE  \/ \E v \in Values : Abstract!Write(a, i, v)
         \/ Abstract!WriteRaw(a, i)
         \/ Abstract!Remove(a, i, "program")
         \/ Abstract!Remove(a, i, "destructor")
<1>. DEFINE old == Slot(a, i)
<1>0. TypeOK /\ MarksInStep /\ Linear /\ Linear' /\ Moved \notin Values /\ Moved \in Cell
  BY VmHeapAssumption DEF HeapInv, Cell
<1>1. OwnersKnown /\ OwnersKnown' /\ SlotsKnown
  BY <1>0, OwnerAfter, SlotFacts
<1>2. IsSlot(a, i)
  BY DEF SlotSteps, Stores, Takes, DestroysRaw, Destroys
<1>3. /\ Store[a].live /\ a \in DOMAIN Store /\ i \in DOMAIN Store[a].slots
      /\ Store[a].slots[i] = SlotState(a, i)
  BY <1>0, <1>2, StoreShape DEF IsSlot
<1>4. old # Moved => old \in Values /\ InStorage(old)
  <2>1. old \in Cell
    BY <1>0, AllocationShape DEF Slot
  <2>. QED
    BY <2>1 DEF Cell, InStorage
<1>5. \A w \in Values : Store[a].slots[i] = <<"full", w>> <=> old = w
  BY <1>1, <1>3 DEF SlotsKnown
<1>6. DOMAIN Owner = Values /\ \A w \in Values : Owner[w] = OwnerOf(w)
  BY DEF Owner
<1>7. Owner' = [w \in Values |-> OwnerOf(w)']
  BY DEF Owner
<1>8. ASSUME NEW v \in regs, Stores(a, i, v)
      PROVE  (\E w \in Values : Abstract!Write(a, i, w)) \/ Abstract!WriteRaw(a, i)
  <2>1. v \in Cell /\ (v # Moved => v \in Values /\ ~InStorage(v))
    BY <1>0, <1>8 DEF TypeOK, Cell, Linear, OneOwner
  <2>2. SetSlot(a, i, v, v = Moved)
    BY <1>8 DEF Stores
  <2>3. /\ regs' = regs \ {v}
        /\ leaked' = leaked \cup ({old} \ {Moved})
        /\ UNCHANGED <<running, destroyed>>
    BY <1>8 DEF Stores
  <2>4. \A w \in Values : InStorage(w)' <=> w = v \/ (InStorage(w) /\ w # old)
    BY <1>0, <1>2, <2>1, <2>2, SlotStorage DEF Linear
  <2>5. \A w \in Values : InDestructor(w)' <=> InDestructor(w)
    BY <2>3 DEF InDestructor
  <2>6. Slot(a, i)' = v /\ NeverWritten(a, i)' = (v = Moved)
    <3>1. (v = Moved) \in BOOLEAN
      OBVIOUS
    <3>. QED
      BY <1>0, <1>2, <2>1, <2>2, <3>1, StoreUpdate
  <2>9. Store' = [Store EXCEPT ![a].slots[i] = SlotState(a, i)']
    <3>1. (v = Moved) \in BOOLEAN
      OBVIOUS
    <3>. QED
      BY <1>0, <1>2, <2>1, <2>2, <3>1, StoreUpdate
  <2>. HIDE DEF old
  <2>7. CASE v # Moved
    <3>1. SlotState(a, i)' = <<"full", v>>
      BY <2>6, <2>7 DEF SlotState
    <3>2. Store' = [Store EXCEPT ![a].slots[i] = <<"full", v>>]
      BY <2>9, <3>1
    <3>3. Owner[v] = "program"
      BY <1>1, <1>6, <2>1, <2>7 DEF OwnersKnown
    <3>4. \A w \in Values : OwnerOf(w)' = IF old = w THEN "leaked"
                                          ELSE IF w = v THEN "storage" ELSE OwnerOf(w)
      BY <1>0, <1>1, <1>4, <2>1, <2>3, <2>4, <2>5, <2>7 DEF OwnersKnown, Owners
    <3>5. Owner' = [w \in Values |-> IF Store[a].slots[i] = <<"full", w>> THEN "leaked"
                                     ELSE [Owner EXCEPT ![v] = "storage"][w]]
      BY <1>5, <1>6, <1>7, <2>1, <2>7, <3>4
    <3>6. Abstract!Write(a, i, v)
      BY <1>3, <3>2, <3>3, <3>5
         DEF Abstract!Write, Abstract!Overwrite, Abstract!IsSlot, Abstract!Full, Store, Owner
    <3>. QED
      BY <2>1, <2>7, <3>6
  <2>8. CASE v = Moved
    <3>1. SlotState(a, i)' = <<"raw", Moved>>
      BY <2>6, <2>8 DEF SlotState
    <3>2. Store' = [Store EXCEPT ![a].slots[i] = <<"raw", Moved>>]
      BY <2>9, <3>1
    <3>4. \A w \in Values : OwnerOf(w)' = IF old = w THEN "leaked" ELSE OwnerOf(w)
      BY <1>0, <1>1, <1>4, <2>1, <2>3, <2>4, <2>5, <2>8 DEF OwnersKnown, Owners
    <3>5. Owner' = [w \in Values |-> IF Store[a].slots[i] = <<"full", w>> THEN "leaked"
                                     ELSE Owner[w]]
      BY <1>5, <1>6, <1>7, <3>4
    <3>6. Abstract!WriteRaw(a, i)
      BY <1>3, <3>2, <3>5
         DEF Abstract!WriteRaw, Abstract!Overwrite, Abstract!IsSlot, Abstract!Full,
             Abstract!Raw, Store, Owner
    <3>. QED
      BY <3>6
  <2>. QED
    BY <2>7, <2>8
<1>9. ASSUME Takes(a, i) \/ DestroysRaw(a, i) \/ Destroys(a, i),
             NEW newOwner,
             \A w \in Values : OwnerOf(w)' = IF old = w THEN newOwner ELSE OwnerOf(w)
      PROVE  Abstract!Remove(a, i, newOwner)
  <2>1. SetSlot(a, i, Moved, FALSE) /\ (NeverWritten(a, i) \/ old # Moved)
    BY <1>9 DEF Takes, DestroysRaw, Destroys
  <2>2. Slot(a, i)' = Moved /\ NeverWritten(a, i)' = FALSE
    BY <1>0, <1>2, <2>1, StoreUpdate
  <2>3. SlotState(a, i)' = <<"taken", Moved>>
    BY <2>2 DEF SlotState
  <2>4. Store' = [Store EXCEPT ![a].slots[i] = <<"taken", Moved>>]
    BY <1>0, <1>2, <2>1, <2>3, StoreUpdate
  <2>5. Store[a].slots[i] # <<"taken", Moved>>
    BY <1>1, <1>3, <2>1 DEF SlotsKnown
  <2>. HIDE DEF old
  <2>6. Owner' = [w \in Values |-> IF Store[a].slots[i] = <<"full", w>> THEN newOwner
                                   ELSE Owner[w]]
    BY <1>5, <1>6, <1>7, <1>9
  <2>. QED
    BY <1>3, <2>4, <2>5, <2>6
       DEF Abstract!Remove, Abstract!IsSlot, Abstract!Full, Abstract!Taken, Store, Owner
<1>10. ASSUME Takes(a, i) \/ DestroysRaw(a, i) \/ Destroys(a, i)
       PROVE  \A w \in Values : InStorage(w)' <=> InStorage(w) /\ w # old
  <2>1. SetSlot(a, i, Moved, FALSE)
    BY <1>10 DEF Takes, DestroysRaw, Destroys
  <2>. QED
    BY <1>0, <1>2, <2>1, SlotStorage DEF Linear
<1>11. CASE Takes(a, i)
  <2>1. regs' = regs \cup {old} /\ UNCHANGED <<running, destroyed, leaked>>
    BY <1>11 DEF Takes
  <2>2. \A w \in Values : InDestructor(w)' <=> InDestructor(w)
    BY <2>1 DEF InDestructor
  <2>3. \A w \in Values : InStorage(w)' <=> InStorage(w) /\ w # old
    BY <1>10, <1>11
  <2>. HIDE DEF old
  <2>4. \A w \in Values : OwnerOf(w)' = IF old = w THEN "program" ELSE OwnerOf(w)
    BY <1>0, <1>1, <1>4, <2>1, <2>2, <2>3 DEF OwnersKnown, Owners
  <2>. QED
    BY <1>9, <1>11, <2>4
<1>12. CASE DestroysRaw(a, i)
  <2>1. UNCHANGED <<regs, running, destroyed, leaked>> /\ old = Moved
    BY <1>0, <1>12 DEF DestroysRaw, MarksInStep
  <2>2. \A w \in Values : InDestructor(w)' <=> InDestructor(w)
    BY <2>1 DEF InDestructor
  <2>3. \A w \in Values : InStorage(w)' <=> InStorage(w) /\ w # old
    BY <1>10, <1>12
  <2>. HIDE DEF old
  <2>4. \A w \in Values : OwnerOf(w)' = IF old = w THEN "program" ELSE OwnerOf(w)
    BY <1>0, <1>1, <2>1, <2>2, <2>3 DEF OwnersKnown, Owners
  <2>. QED
    BY <1>9, <1>12, <2>4
<1>13. CASE Destroys(a, i)
  <2>1. /\ old # Moved
        /\ running' = Append(running, old)
        /\ UNCHANGED <<regs, destroyed, leaked>>
    BY <1>13 DEF Destroys
  <2>2. /\ DOMAIN running' = DOMAIN running \cup {Len(running) + 1}
        /\ \A k \in DOMAIN running : running'[k] = running[k]
        /\ running'[Len(running) + 1] = old
    BY <1>0, <2>1 DEF TypeOK
  <2>3. \A w \in Values : InDestructor(w)' <=> InDestructor(w) \/ w = old
    BY <2>2 DEF InDestructor
  <2>4. \A w \in Values : InStorage(w)' <=> InStorage(w) /\ w # old
    BY <1>10, <1>13
  <2>. HIDE DEF old
  <2>5. \A w \in Values : OwnerOf(w)' = IF old = w THEN "destructor" ELSE OwnerOf(w)
    BY <1>0, <1>1, <1>4, <2>1, <2>3, <2>4 DEF OwnersKnown, Owners
  <2>. QED
    BY <1>9, <1>13, <2>5
<1>. QED
  BY <1>8, <1>11, <1>12, <1>13 DEF SlotSteps

\* An allocation adds a row of raw slots to the mapping and moves no value.
LEMMA AllocateRefines ==
  ASSUME HeapInv, HeapInv', Allocates
  PROVE  \E n \in Lengths : Abstract!Allocate(n)
<1>0. TypeOK /\ Linear /\ Linear' /\ Moved \notin Values
  BY VmHeapAssumption DEF HeapInv
<1>1. PICK n \in Lengths :
        heap' = Append(heap, [slots |-> [i \in 0..(n - 1) |-> Moved],
                              never_written |-> [i \in 0..(n - 1) |-> TRUE],
                              live |-> TRUE])
  BY DEF Allocates
<1>. DEFINE k == Len(heap) + 1
            new == [live |-> TRUE, slots |-> [i \in 0..(n - 1) |-> <<"raw", Moved>>]]
<1>2. /\ DOMAIN heap' = 1..k /\ DOMAIN heap = 1..Len(heap) /\ Len(heap) \in Nat
      /\ \A a \in DOMAIN heap : heap'[a] = heap[a] /\ a # k
      /\ heap'[k] = [slots |-> [i \in 0..(n - 1) |-> Moved],
                     never_written |-> [i \in 0..(n - 1) |-> TRUE],
                     live |-> TRUE]
  BY <1>0, <1>1 DEF TypeOK
<1>3. \A a \in DOMAIN heap : AllocationState(a)' = AllocationState(a)
  BY <1>2 DEF AllocationState, SlotState, Slot, NeverWritten
<1>4. [live |-> heap'[k].live,
       slots |-> [i \in DOMAIN heap'[k].slots |->
                    <<IF heap'[k].never_written[i] THEN "raw"
                      ELSE IF heap'[k].slots[i] = Moved THEN "taken" ELSE "full",
                      heap'[k].slots[i]>>]] = new
  <2>1. /\ heap'[k].live = TRUE
        /\ heap'[k].slots = [i \in 0..(n - 1) |-> Moved]
        /\ heap'[k].never_written = [i \in 0..(n - 1) |-> TRUE]
    BY <1>2
  <2>. QED
    BY <2>1
<1>5. Store' = [a \in 1..k |-> IF a = k THEN new ELSE AllocationState(a)]
  <2>1. Store' = [a \in 1..k |-> [live |-> heap'[a].live,
            slots |-> [i \in DOMAIN heap'[a].slots |->
                    <<IF heap'[a].never_written[i] THEN "raw"
                      ELSE IF heap'[a].slots[i] = Moved THEN "taken" ELSE "full",
                      heap'[a].slots[i]>>]]]
    BY <1>2 DEF Store, AllocationState, SlotState, Slot, NeverWritten
  <2>2. \A a \in DOMAIN heap : AllocationState(a) = [live |-> heap'[a].live,
            slots |-> [i \in DOMAIN heap'[a].slots |->
                    <<IF heap'[a].never_written[i] THEN "raw"
                      ELSE IF heap'[a].slots[i] = Moved THEN "taken" ELSE "full",
                      heap'[a].slots[i]>>]]
    BY <1>2 DEF AllocationState, SlotState, Slot, NeverWritten
  <2>3. \A a \in 1..k : a # k => a \in DOMAIN heap
    BY <1>2
  <2>. HIDE DEF new, k
  <2>. QED
    BY <1>4, <2>1, <2>2, <2>3
<1>. HIDE DEF new
<1>6. Store' = Append(Store, new)
  <2>1. Store = [a \in 1..Len(heap) |-> AllocationState(a)] /\ Len(Store) = Len(heap)
    BY <1>0, <1>2, StoreShape DEF Store
  <2>2. Store \in Seq({AllocationState(a) : a \in DOMAIN heap})
    BY <1>0, StoreShape
  <2>. QED
    BY <1>2, <1>5, <2>1, <2>2
<1>7. Owner' = Owner
  <2>1. OwnersKnown /\ OwnersKnown'
    BY <1>0, OwnerAfter
  <2>2. UNCHANGED <<regs, running, destroyed, leaked>>
    BY DEF Allocates
  <2>3. \A v \in Values : InStorage(v)' <=> InStorage(v)
    <3>1. /\ DOMAIN heap' = DOMAIN heap \cup {k}
          /\ \A i \in DOMAIN heap'[k].slots : heap'[k].slots[i] = Moved
      BY <1>2
    <3>. HIDE DEF k
    <3>. QED
      BY <1>0, <1>2, <3>1 DEF InStorage, Slot
  <2>4. \A v \in Values : InDestructor(v)' <=> InDestructor(v)
    BY <2>2 DEF InDestructor
  <2>5. \A v \in Values : OwnerOf(v)' = OwnerOf(v)
    BY <2>1, <2>2, <2>3, <2>4 DEF OwnersKnown, Owners
  <2>. QED
    BY <2>5 DEF Owner
<1>8. Len(Store) < MaxAllocations
  BY <1>0, StoreShape DEF Allocates
<1>9. Abstract!Allocate(n)
  BY <1>6, <1>7, <1>8 DEF Abstract!Allocate, Abstract!Raw, Store, Owner, new
<1>. QED
  BY <1>9

\* Freeing an allocation frees it in the mapping.
LEMMA FreeRefines ==
  ASSUME HeapInv, HeapInv', NEW a \in DOMAIN heap, Frees(a)
  PROVE  Abstract!Free(a)
<1>0. TypeOK /\ MarksInStep /\ Linear /\ Linear' /\ Moved \notin Values
  BY VmHeapAssumption DEF HeapInv
<1>1. OwnersKnown /\ OwnersKnown' /\ SlotsKnown
  BY <1>0, OwnerAfter, SlotFacts
<1>2. /\ DOMAIN heap' = DOMAIN heap
      /\ \A b \in DOMAIN heap : b # a => heap'[b] = heap[b]
      /\ heap'[a] = [slots |-> [i \in {} |-> Moved],
                     never_written |-> [i \in {} |-> FALSE], live |-> FALSE]
      /\ heap[a].live
      /\ leaked' = leaked \cup Stored(a)
      /\ UNCHANGED <<regs, running, destroyed>>
  BY <1>0 DEF Frees, TypeOK
<1>3. /\ Store[a].live
      /\ DOMAIN Store[a].slots = DOMAIN heap[a].slots
      /\ \A i \in DOMAIN heap[a].slots : Store[a].slots[i] = SlotState(a, i)
  BY <1>0, <1>2, StoreShape
<1>. DEFINE dead == [live |-> FALSE, slots |-> [i \in {} |-> <<"raw", Moved>>]]
<1>4. AllocationState(a)' = dead
  <2>1. heap'[a].live = FALSE /\ DOMAIN heap'[a].slots = {}
    BY <1>2
  <2>2. AllocationState(a)' =
          [live |-> FALSE, slots |-> [i \in {} |-> SlotState(a, i)']]
    BY <2>1 DEF AllocationState
  <2>3. [i \in {} |-> SlotState(a, i)'] = [i \in {} |-> <<"raw", Moved>>]
    OBVIOUS
  <2>. QED
    BY <2>2, <2>3
<1>5. \A b \in DOMAIN heap : b # a => AllocationState(b)' = AllocationState(b)
  BY <1>2 DEF AllocationState, SlotState, Slot, NeverWritten
<1>. HIDE DEF dead
<1>6. Store' = [Store EXCEPT ![a] = dead]
  BY <1>2, <1>4, <1>5 DEF Store
<1>7. \A v \in Values : v \in Stored(a) <=>
        \E i \in DOMAIN Store[a].slots : Store[a].slots[i] = <<"full", v>>
  <2>1. \A v \in Values : \A i \in DOMAIN heap[a].slots :
          Store[a].slots[i] = <<"full", v>> <=> Slot(a, i) = v
    BY <1>1, <1>3, SMTT(30) DEF SlotsKnown
  <2>. QED
    BY <1>0, <1>3, <2>1 DEF Stored
<1>8. \A v \in Values : OwnerOf(v)' = IF v \in Stored(a) THEN "leaked" ELSE OwnerOf(v)
  <2>1. \A v \in Values : InDestructor(v)' <=> InDestructor(v)
    BY <1>2 DEF InDestructor
  <2>2. \A v \in Values : v \in Stored(a) => InStorage(v)
    BY DEF Stored, InStorage
  <2>3. ASSUME NEW v \in Values
        PROVE  InStorage(v)' <=> InStorage(v) /\ v \notin Stored(a)
    <3>0. DOMAIN heap'[a].slots = {}
      BY <1>2
    <3>1. InStorage(v)' => InStorage(v) /\ v \notin Stored(a)
      BY <1>0, <1>2, <3>0 DEF InStorage, Slot, Stored, Linear, SlotsDistinct
    <3>2. InStorage(v) /\ v \notin Stored(a) => InStorage(v)'
      BY <1>0, <1>2, <3>0 DEF InStorage, Slot, Stored
    <3>. QED
      BY <3>1, <3>2
  <2>. QED
    BY <1>1, <1>2, <2>1, <2>2, <2>3 DEF OwnersKnown, Owners
<1>9. Owner' = [v \in Values |->
                  IF \E i \in DOMAIN Store[a].slots : Store[a].slots[i] = <<"full", v>>
                  THEN "leaked" ELSE Owner[v]]
  BY <1>7, <1>8 DEF Owner
<1>. QED
  BY <1>3, <1>6, <1>9 DEF Abstract!Free, Abstract!Raw, Abstract!Full, Store, Owner, dead

\* A destructor that returns has destroyed the value it ran on.
LEMMA DestroyedRefines ==
  ASSUME HeapInv, HeapInv', drop_named_returns
  PROVE  \E v \in Values : Abstract!Destroyed(v)
<1>0. TypeOK /\ Linear /\ Linear'
  BY DEF HeapInv
<1>1. OwnersKnown /\ OwnersKnown'
  BY <1>0, OwnerAfter
<1>. DEFINE last == running[Len(running)]
<1>2. /\ running # <<>>
      /\ running' = SubSeq(running, 1, Len(running) - 1)
      /\ destroyed' = destroyed \cup {last}
      /\ UNCHANGED <<heap, regs, leaked>>
  BY DEF drop_named_returns
<1>3. Len(running) \in DOMAIN running /\ last \in Values
  BY <1>0, <1>2 DEF TypeOK
<1>4. /\ DOMAIN running' = DOMAIN running \ {Len(running)}
      /\ \A k \in DOMAIN running' : running'[k] = running[k]
  BY <1>0, <1>2 DEF TypeOK
<1>5. InDestructor(last)
  BY <1>3 DEF InDestructor
<1>. HIDE DEF last
<1>6. \A v \in Values : InDestructor(v)' <=> InDestructor(v) /\ v # last
  BY <1>0, <1>3, <1>4 DEF Linear, DestructorsDistinct, InDestructor, last
<1>7. \A v \in Values : InStorage(v)' <=> InStorage(v)
  BY <1>2 DEF InStorage, Slot
<1>8. \A v \in Values : OwnerOf(v)' = IF v = last THEN "destroyed" ELSE OwnerOf(v)
  BY <1>1, <1>2, <1>5, <1>6, <1>7 DEF OwnersKnown, Owners
<1>9. Owner[last] = "destructor" /\ Owner' = [Owner EXCEPT ![last] = "destroyed"]
  BY <1>1, <1>3, <1>5, <1>8 DEF Owner, OwnersKnown
<1>10. Store' = Store
  BY <1>2 DEF Store, AllocationState, SlotState, Slot, NeverWritten
<1>11. Abstract!Destroyed(last)
  BY <1>9, <1>10 DEF Abstract!Destroyed, Store, Owner
<1>. QED
  BY <1>3, <1>11

\* Every step of the heap is a step of the storage contract, or none.
LEMMA RefinesStep == HeapInv /\ HeapInv' /\ [Next]_vars => [Abstract!Next]_(Abstract!rawVars)
<1>. SUFFICES ASSUME HeapInv, HeapInv', [Next]_vars
              PROVE  [Abstract!Next]_(Abstract!rawVars)
  OBVIOUS
<1>0. TypeOK
  BY DEF HeapInv
<1>1. CASE UNCHANGED <<heap, regs, running, destroyed, leaked>>
  <2>1. Store' = Store
    BY <1>1 DEF Store, AllocationState, SlotState, Slot, NeverWritten
  <2>2. \A o, v : Holds(o, v)' <=> Holds(o, v)
    BY <1>1 DEF Holds, Stored, Slot
  <2>3. Owner' = Owner
    BY <1>1 DEF Owner, OwnerOf, Holds, Stored, Slot
  <2>. QED
    BY <2>1, <2>3 DEF Abstract!rawVars, Store, Owner
<1>2. DOMAIN Store = DOMAIN heap
      /\ \A a \in DOMAIN heap : DOMAIN Store[a].slots = DOMAIN heap[a].slots
  BY <1>0, StoreShape
<1>3. CASE Allocates
  BY <1>3, AllocateRefines DEF Abstract!Next
<1>4. CASE drop_named_returns
  BY <1>4, DestroyedRefines DEF Abstract!Next
<1>5. ASSUME NEW a \in DOMAIN heap, Frees(a)
      PROVE  Abstract!Next
  <2>1. a \in DOMAIN Store /\ Abstract!Free(a)
    BY <1>2, <1>5, FreeRefines
  <2>. QED
    BY <2>1 DEF Abstract!Next, Store
<1>6. ASSUME NEW a \in DOMAIN heap, NEW i \in DOMAIN heap[a].slots, SlotSteps(a, i)
      PROVE  Abstract!Next
  <2>1. a \in DOMAIN Store /\ i \in DOMAIN Store[a].slots
    BY <1>2
  <2>2. \/ \E v \in Values : Abstract!Write(a, i, v)
        \/ Abstract!WriteRaw(a, i)
        \/ Abstract!Remove(a, i, "program")
        \/ Abstract!Remove(a, i, "destructor")
    BY <1>6, SlotRefines
  <2>. QED
    BY <2>1, <2>2 DEF Abstract!Next, Store
<1>. QED
  BY <1>0, <1>1, <1>3, <1>4, <1>5, <1>6, StepKinds DEF Errs, vars

\* The VM's heap implements the storage contract of RawStorage, for every
\* program and every nesting of destructors: in each step a slot is written,
\* emptied once or freed and each value has one owner, and an operation that
\* fails changes neither.
THEOREM HeapImplementsRawStorage == Spec => ImplementsRawStorage
<1>1. Init => Abstract!Init
  <2>. SUFFICES ASSUME Init PROVE Abstract!Init
    OBVIOUS
  <2>1. Linear
    BY DEF Init, Linear, OneOwner, InStorage, InDestructor, SlotsDistinct, DestructorsDistinct
  <2>2. Owner = [v \in Values |-> "program"]
    BY <2>1, OwnerFacts DEF Init, Owner, OwnersKnown
  <2>3. Store = <<>>
    BY DEF Init, Store
  <2>. QED
    BY <2>2, <2>3 DEF Abstract!Init, Store, Owner
<1>2. Spec => []HeapInv
  <2>1. Init => Linear
    BY DEF Init, Linear, OneOwner, InStorage, InDestructor, SlotsDistinct, DestructorsDistinct
  <2>2. Init => MarksInStep
    BY DEF Init, MarksInStep
  <2>3. TypeOK /\ MarksInStep /\ Linear /\ [Next]_vars => HeapInv'
    BY TypeStep, MarksStep, LinearStep DEF HeapInv
  <2>. QED
    BY <2>1, <2>2, <2>3, TypeInit, PTL DEF Spec, HeapInv
<1>. QED
  BY <1>1, <1>2, RefinesStep, PTL DEF Spec, ImplementsRawStorage, Abstract!Spec

=============================================================================
