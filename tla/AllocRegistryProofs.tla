------------------------ MODULE AllocRegistryProofs ------------------------
(***************************************************************************)
(* Proofs about the allocation registry, for every number of threads,      *)
(* slots, addresses, sizes and alignments.                                 *)
(***************************************************************************)
EXTENDS AllocRegistry, TLAPS, WellFoundedInduction

\* The layout a record describes.
BlockOf(r) == [base |-> r.base, size |-> r.size, align |-> r.align]

\* Blocks are told apart by their payload addresses.
BlocksDistinct == \A b, c \in blocks : b.base = c.base => b = c

\* A live record describes a block the allocator has handed out.
LiveBacked == \A i \in Taken : records[i].live => BlockOf(records[i]) \in blocks

\* A call in progress holds a block that no live record describes.
CallsBacked ==
  \A t \in Threads : pending[t].op # "idle" =>
    /\ pending[t].block \in blocks
    /\ \A i \in SlotsOf(pending[t].block.base) : ~records[i].live

\* Two calls in progress hold different blocks.
CallsDistinct ==
  \A t, u \in Threads :
    /\ t # u
    /\ pending[t].op # "idle"
    /\ pending[u].op # "idle"
    => pending[t].block.base # pending[u].block.base

\* Every block handed out is described by a live record or held by a call.
BlocksHeld ==
  \A b \in blocks :
    \/ \E i \in Taken : records[i].live /\ BlockOf(records[i]) = b
    \/ \E t \in Threads : InCall(t, b)

IInv ==
  /\ TypeOK
  /\ IdentityUnique
  /\ BlocksDistinct
  /\ LiveBacked
  /\ CallsBacked
  /\ CallsDistinct
  /\ BlocksHeld

----------------------------------------------------------------------------
\* The scan of the slots finds one whenever there is one to find.
LEMMA FirstIsMember ==
  ASSUME NEW S \in SUBSET Slots, S # {}
  PROVE  First(S) \in S
<1>. DEFINE Less == OpToRel(<, Nat)
<1>1. Less = {ss \in Nat \X Nat : ss[1] < ss[2]}
  BY Zenon DEF OpToRel
<1>2. IsWellFoundedOn(Less, Nat)
  BY NatLessThanWellFounded
<1>. HIDE DEF Less
<1>3. S \subseteq Nat
  BY RegistryAssumption DEF Slots
<1>4. PICK x \in S : \A y \in S : ~(<<y, x>> \in Less)
  BY <1>2, <1>3, WFMin
<1>5. \A y \in S : x <= y
  <2>. TAKE y \in S
  <2>1. x \in Nat /\ y \in Nat
    BY <1>3
  <2>2. y < x => <<y, x>> \in Less
    BY <1>1, <2>1
  <2>. QED
    BY <1>4, <2>1, <2>2
<1>. QED
  BY <1>5 DEF First

\* What the searches of the registry return.
LEMMA SearchFacts ==
  ASSUME TypeOK
  PROVE  /\ Taken \subseteq Slots
         /\ \A i \in Taken : records[i] \in AllocationRecord
         /\ \A a : SlotsOf(a) \subseteq Taken
         /\ \A a : SlotsOf(a) # {} => First(SlotsOf(a)) \in SlotsOf(a)
         /\ \A a : SlotsForAlloc(a) \subseteq Slots
         /\ \A a : SlotsForAlloc(a) # {} => First(SlotsForAlloc(a)) \in SlotsForAlloc(a)
<1>1. Taken \subseteq Slots /\ \A i \in Taken : records[i] \in AllocationRecord
  BY DEF TypeOK, Taken
<1>2. \A a : SlotsOf(a) \subseteq Taken
  BY DEF SlotsOf
<1>3. \A a : SlotsForAlloc(a) \subseteq Slots
  BY <1>1, <1>2 DEF SlotsForAlloc, EmptySlots
<1>. QED
  BY <1>1, <1>2, <1>3, FirstIsMember

(***************************************************************************)
(* The steps by what they do to the registry, the blocks and the calls in  *)
(* progress: most leave all three alone.                                   *)
(***************************************************************************)
Quiet == UNCHANGED <<records, blocks, pending>>

HandOut(t) ==
  \E size \in Sizes, align \in Aligns, base \in Address :
    mjrt_alloc_system(t, size, align, base)

Kill(t) ==
  \E h \in DOMAIN handles, address \in Nat :
    pending[t].op = "idle" /\ MarkFreed(t, h, address)

\* Every step of the runtime is one of five kinds, as far as records, blocks and
\* pending calls are concerned.
LEMMA StepKinds ==
  ASSUME TypeOK, [Next]_vars
  PROVE  \/ Quiet
         \/ \E t \in Threads :
              HandOut(t) \/ mjrt_alloc_record(t) \/ Kill(t) \/ release(t)
<1>1. CASE UNCHANGED vars
  BY <1>1 DEF vars, Quiet
<1>2. CASE Next
  <2>1. PICK t \in Threads :
          \/ Allocate(t) \/ mjrt_alloc_record(t) \/ mjrt_alloc_full(t)
          \/ Free(t) \/ release(t) \/ Dereference(t)
    BY <1>2 DEF Next
  <2>2. CASE Allocate(t)
    BY <2>2 DEF Allocate, mjrt_alloc_invalid, mjrt_alloc_zero, mjrt_alloc_null,
                Exit, Quiet, HandOut
  <2>3. CASE mjrt_alloc_full(t)
    BY <2>3 DEF mjrt_alloc_full, Exit, Quiet
  <2>4. CASE Dereference(t)
    BY <2>4 DEF Dereference, guard_pointer_dereference, Exit, Quiet
  <2>5. CASE Free(t)
    <3>1. PICK h \in DOMAIN handles, offset \in 0..MaxOffset :
            \/ mjrt_free(t, h, offset)
            \/ \E size \in Sizes, align \in Aligns : mjrt_dealloc(t, h, offset, size, align)
      BY <2>5 DEF Free
    <3>. DEFINE address == handles[h].base + offset
    <3>2. address \in Nat
      <4>1. handles[h] \in Handle
        BY DEF TypeOK
      <4>2. offset \in Nat
        BY RegistryAssumption
      <4>. QED
        BY <4>1, <4>2 DEF Handle
    <3>. HIDE DEF address
    <3>3. Quiet \/ (pending[t].op = "idle" /\ MarkFreed(t, h, address))
      BY <3>1 DEF mjrt_free, mjrt_dealloc, CanCall, FreeSentinel, FreeUnrecorded,
                  Exit, Quiet, address
    <3>. QED
      BY <3>2, <3>3 DEF Kill
  <2>. QED
    BY <2>1, <2>2, <2>3, <2>4, <2>5
<1>. QED
  BY <1>1, <1>2

----------------------------------------------------------------------------
(***************************************************************************)
(* Type correctness.                                                       *)
(***************************************************************************)
LEMMA TypeInit == Init => TypeOK
<1>. SUFFICES ASSUME Init PROVE TypeOK
  OBVIOUS
<1>1. handles \in Seq(Handle)
  BY DEF Init, Dangling, Handle
<1>. QED
  BY <1>1 DEF Init, TypeOK, Calls, Idle

\* Every call of the runtime leaves the registry well typed.
LEMMA TypeStep == TypeOK /\ [Next]_vars => TypeOK'
<1>. SUFFICES ASSUME TypeOK, [Next]_vars PROVE TypeOK'
  OBVIOUS
<1>. USE DEF TypeOK
<1>1. CASE UNCHANGED vars
  BY <1>1 DEF vars
<1>2. ASSUME NEW t \in Threads, Allocate(t)
      PROVE  TypeOK'
  <2>1. CASE \E align \in Aligns, size \in Sizes :
               mjrt_alloc_invalid(t, size, align) \/ mjrt_alloc_null(t, size, align)
    BY <2>1 DEF mjrt_alloc_invalid, mjrt_alloc_null, Exit, TrapCategories
  <2>2. ASSUME NEW align \in Aligns, mjrt_alloc_zero(t, align)
        PROVE  TypeOK'
    <3>1. [base |-> align, size |-> 0, align |-> align, owned |-> TRUE] \in Handle
      BY RegistryAssumption DEF Handle
    <3>. QED
      BY <2>2, <3>1 DEF mjrt_alloc_zero
  <2>3. ASSUME NEW align \in Aligns, NEW size \in Sizes, NEW base \in Address,
               mjrt_alloc_system(t, size, align, base)
        PROVE  TypeOK'
    <3>. DEFINE b == [base |-> base, size |-> size, align |-> align]
    <3>1. b \in Block
      BY <2>3, RegistryAssumption DEF Block, mjrt_alloc_system
    <3>2. Recording(b) \in Calls
      BY <3>1 DEF Recording, Calls
    <3>. QED
      BY <2>3, <3>1, <3>2 DEF mjrt_alloc_system
  <2>. QED
    BY <1>2, <2>1, <2>2, <2>3 DEF Allocate
<1>3. ASSUME NEW t \in Threads, mjrt_alloc_record(t)
      PROVE  TypeOK'
  <2>. DEFINE b == pending[t].block
              r == [base |-> b.base, size |-> b.size, align |-> b.align, live |-> TRUE]
              g == [base |-> b.base, size |-> b.size, align |-> b.align, owned |-> TRUE]
              i == First(SlotsForAlloc(b.base))
  <2>1. b \in Block
    BY <1>3 DEF mjrt_alloc_record, Calls, Idle
  <2>2. r \in AllocationRecord /\ g \in Handle
    BY <2>1, RegistryAssumption DEF Block, AllocationRecord, Handle, Address
  <2>3. i \in Slots
    BY <1>3, SearchFacts DEF mjrt_alloc_record
  <2>4. /\ records' = [records EXCEPT ![i] = r]
        /\ handles' = Append(handles, g)
        /\ pending' = [pending EXCEPT ![t] = Idle]
        /\ UNCHANGED <<blocks, trap, misused>>
    BY <1>3 DEF mjrt_alloc_record
  <2>. HIDE DEF r, g, i, b
  <2>. QED
    BY <2>2, <2>3, <2>4 DEF Calls
<1>4. ASSUME NEW t \in Threads, mjrt_alloc_full(t)
      PROVE  TypeOK'
  BY <1>4 DEF mjrt_alloc_full, Exit, TrapCategories
<1>5. ASSUME NEW t \in Threads, Free(t)
      PROVE  TypeOK'
  <2>1. PICK h \in DOMAIN handles, offset \in 0..MaxOffset :
          \/ mjrt_free(t, h, offset)
          \/ \E size \in Sizes, align \in Aligns : mjrt_dealloc(t, h, offset, size, align)
    BY <1>5 DEF Free
  <2>. DEFINE address == handles[h].base + offset
  <2>2. misused' \in BOOLEAN
    BY <2>1 DEF mjrt_free, mjrt_dealloc, Use
  <2>3. \/ FreeSentinel(address)
        \/ \E category \in TrapCategories : Exit(category)
        \/ MarkFreed(t, h, address)
    BY <2>1 DEF mjrt_free, mjrt_dealloc, FreeUnrecorded, TrapCategories
  <2>. HIDE DEF address
  <2>4. CASE FreeSentinel(address) \/ \E category \in TrapCategories : Exit(category)
    BY <2>2, <2>4 DEF FreeSentinel, Exit
  <2>5. CASE MarkFreed(t, h, address)
    <3>. DEFINE i == First(SlotsOf(address))
                b == [base |-> address, size |-> records[i].size, align |-> records[i].align]
    <3>1. i \in SlotsOf(address) /\ i \in Slots
      BY <2>5, SearchFacts DEF MarkFreed, LiveRecord
    <3>2. records[i] \in AllocationRecord /\ records[i].base = address
      BY <3>1, SearchFacts DEF SlotsOf
    <3>3. Releasing(b) \in Calls
      BY <3>2 DEF Releasing, Calls, Block, AllocationRecord
    <3>4. [records[i] EXCEPT !.live = FALSE] \in AllocationRecord
      BY <3>2 DEF AllocationRecord
    <3>5. handles[h] \in Handle /\ [handles[h] EXCEPT !.owned = FALSE] \in Handle
      <4>1. handles[h] \in Handle
        OBVIOUS
      <4>. QED
        BY <4>1 DEF Handle
    <3>6. /\ records' = [records EXCEPT ![i] = [records[i] EXCEPT !.live = FALSE]]
          /\ pending' = [pending EXCEPT ![t] = Releasing(b)]
          /\ handles' = [handles EXCEPT ![h] = [handles[h] EXCEPT !.owned = FALSE]]
          /\ UNCHANGED <<blocks, trap>>
      BY <2>5 DEF MarkFreed
    <3>. HIDE DEF i, b
    <3>. QED
      BY <2>2, <3>1, <3>3, <3>4, <3>5, <3>6
  <2>. QED
    BY <2>3, <2>4, <2>5
<1>6. ASSUME NEW t \in Threads, release(t)
      PROVE  TypeOK'
  BY <1>6 DEF release, Calls
<1>7. ASSUME NEW t \in Threads, Dereference(t)
      PROVE  TypeOK'
  BY <1>7 DEF Dereference, guard_pointer_dereference, Use, Exit, TrapCategories
<1>. QED
  BY <1>1, <1>2, <1>3, <1>4, <1>5, <1>6, <1>7 DEF Next

\* The registry, the allocator's blocks, the calls in progress, the trap and
\* the program's pointers keep their types in every behaviour.
THEOREM RegistryTypeCorrect == Spec => []TypeOK
  BY TypeInit, TypeStep, PTL DEF Spec

----------------------------------------------------------------------------
(***************************************************************************)
(* The inductive invariant.                                                *)
(***************************************************************************)
LEMMA InvariantInit == Init => IInv
<1>. SUFFICES ASSUME Init PROVE IInv
  OBVIOUS
<1>1. TypeOK
  BY TypeInit
<1>2. Taken = {} /\ blocks = {} /\ \A t \in Threads : pending[t].op = "idle"
  BY DEF Init, Taken, Idle
<1>. QED
  BY <1>1, <1>2 DEF IInv, IdentityUnique, BlocksDistinct, LiveBacked, CallsBacked,
                    CallsDistinct, BlocksHeld

\* A step that touches neither the records nor the blocks nor a pending call.
LEMMA InvariantQuiet ==
  ASSUME IInv, Quiet, TypeOK'
  PROVE  IInv'
BY DEF IInv, Quiet, IdentityUnique, BlocksDistinct, LiveBacked, CallsBacked,
       CallsDistinct, BlocksHeld, Taken, SlotsOf, InCall

\* The system allocator hands out a block: it is new, and its base with it.
LEMMA InvariantHandOut ==
  ASSUME IInv, NEW t \in Threads, HandOut(t), TypeOK'
  PROVE  IInv'
<1>1. PICK size \in Sizes, align \in Aligns, base \in Address :
        mjrt_alloc_system(t, size, align, base)
  BY DEF HandOut
<1>. DEFINE b == [base |-> base, size |-> size, align |-> align]
<1>2. /\ blocks' = blocks \cup {b}
      /\ pending' = [pending EXCEPT ![t] = Recording(b)]
      /\ records' = records
      /\ size # 0
      /\ pending[t].op = "idle"
      /\ SystemMayReturn(b)
  BY <1>1 DEF mjrt_alloc_system, CanAllocate
<1>3. b \in Block
  BY <1>2, RegistryAssumption DEF Block
<1>4. \A c \in Block : c.base \in Cells(c)
  BY RegistryAssumption DEF Cells, Header, Block, Address
<1>5. \A c \in blocks : c.base # base
  <2>1. SUFFICES ASSUME NEW c \in blocks, c.base = b.base PROVE FALSE
    OBVIOUS
  <2>2. c \in Block
    BY DEF IInv, TypeOK
  <2>3. Cells(b) \cap Cells(c) = {}
    BY <1>2 DEF SystemMayReturn
  <2>. HIDE DEF b
  <2>. QED
    BY <1>3, <1>4, <2>1, <2>2, <2>3
<1>6. /\ Recording(b).op = "record" /\ Recording(b).block = b /\ b.base = base
      /\ pending'[t] = Recording(b)
      /\ \A u \in Threads \ {t} : pending'[u] = pending[u]
  BY <1>2 DEF Recording, IInv, TypeOK
<1>7. Taken' = Taken /\ \A a : SlotsOf(a)' = SlotsOf(a)
  BY <1>2 DEF Taken, SlotsOf
<1>8. \A i \in SlotsOf(base) : ~records[i].live
  BY <1>5 DEF SlotsOf, IInv, LiveBacked, BlockOf
<1>. HIDE DEF b
<1>9. IdentityUnique' /\ BlocksDistinct' /\ LiveBacked'
  BY <1>2, <1>5, <1>6, <1>7 DEF IInv, IdentityUnique, BlocksDistinct, LiveBacked
<1>10. CallsBacked'
  BY <1>2, <1>6, <1>7, <1>8 DEF IInv, CallsBacked
<1>11. CallsDistinct'
  BY <1>5, <1>6 DEF IInv, CallsDistinct, CallsBacked
<1>12. BlocksHeld'
  BY <1>2, <1>6, <1>7 DEF IInv, BlocksHeld, InCall
<1>. QED
  BY <1>9, <1>10, <1>11, <1>12 DEF IInv

\* A call records its block: the only live record of that base.
LEMMA InvariantRecord ==
  ASSUME IInv, NEW t \in Threads, mjrt_alloc_record(t), TypeOK'
  PROVE  IInv'
<1>. DEFINE b == pending[t].block
            s == First(SlotsForAlloc(b.base))
            r == [base |-> b.base, size |-> b.size, align |-> b.align, live |-> TRUE]
<1>1. /\ records' = [records EXCEPT ![s] = r]
      /\ pending' = [pending EXCEPT ![t] = Idle]
      /\ blocks' = blocks
      /\ pending[t].op = "record"
      /\ SlotsForAlloc(b.base) # {}
  BY DEF mjrt_alloc_record
<1>2. TypeOK /\ b \in Block /\ b \in blocks
  BY <1>1 DEF IInv, TypeOK, Calls, Idle, CallsBacked
<1>3. s \in Slots /\ s \in SlotsForAlloc(b.base)
  BY <1>1, <1>2, SearchFacts
<1>4. /\ r # None /\ r.base = b.base /\ r.live = TRUE /\ BlockOf(r) = b
  <2>1. r \in AllocationRecord
    BY <1>2 DEF AllocationRecord, Block
  <2>2. BlockOf(r) = b
    BY <1>2 DEF Block, BlockOf
  <2>. QED
    BY <2>1, <2>2, NoneAssumption
<1>5. \A i \in Slots : records'[i] = IF i = s THEN r ELSE records[i]
  BY <1>1, <1>2 DEF TypeOK
<1>6. Taken' = Taken \cup {s}
  BY <1>3, <1>4, <1>5 DEF Taken
<1>7. \A i \in Taken : i # s => records[i].base # b.base
  BY <1>2, <1>3, SearchFacts DEF IInv, IdentityUnique, SlotsForAlloc, SlotsOf
<1>8. /\ pending'[t].op = "idle"
      /\ \A u \in Threads \ {t} : pending'[u] = pending[u]
  BY <1>1, <1>2 DEF TypeOK, Idle
<1>. HIDE DEF b, s, r
<1>9. IdentityUnique'
  BY <1>2, <1>4, <1>5, <1>6, <1>7, SearchFacts, <1>3 DEF IInv, IdentityUnique
<1>10. BlocksDistinct'
  BY <1>1 DEF IInv, BlocksDistinct
<1>11. LiveBacked'
  BY <1>1, <1>2, <1>3, <1>4, <1>5, <1>6, SearchFacts DEF IInv, LiveBacked
<1>12. \A u \in Threads \ {t} : pending[u].op # "idle" => pending[u].block.base # b.base
  BY <1>1 DEF IInv, CallsDistinct, b
<1>13. CallsBacked'
  <2>1. SUFFICES ASSUME NEW u \in Threads, pending'[u].op # "idle"
                 PROVE  /\ pending'[u].block \in blocks'
                        /\ \A i \in Taken' : records'[i].base = pending'[u].block.base
                                              => ~records'[i].live
    BY Zenon DEF CallsBacked, SlotsOf
  <2>2. u # t /\ pending'[u] = pending[u] /\ pending[u].op # "idle"
    BY <1>8, <2>1
  <2>3. pending[u].block \in blocks
        /\ \A i \in Taken : records[i].base = pending[u].block.base => ~records[i].live
    BY <2>2 DEF IInv, CallsBacked, SlotsOf
  <2>4. ASSUME NEW i \in Taken', records'[i].base = pending'[u].block.base
        PROVE  ~records'[i].live
    <3>1. i # s
      BY <1>3, <1>4, <1>5, <1>12, <2>2, <2>4
    <3>2. i \in Taken /\ records'[i] = records[i]
      BY <1>2, <1>5, <1>6, <3>1, SearchFacts
    <3>. QED
      BY <2>2, <2>3, <2>4, <3>2
  <2>. QED
    BY <1>1, <2>2, <2>3, <2>4
<1>14. CallsDistinct'
  BY <1>8 DEF IInv, CallsDistinct
<1>15. BlocksHeld'
  <2>1. SUFFICES ASSUME NEW c \in blocks
                 PROVE  \/ \E i \in Taken' : records'[i].live /\ BlockOf(records'[i]) = c
                        \/ \E u \in Threads : InCall(u, c)'
    BY <1>1 DEF BlocksHeld
  <2>2. CASE c = b
    BY <1>3, <1>4, <1>5, <1>6, <2>2
  <2>3. CASE c # b
    <3>1. CASE \E u \in Threads : InCall(u, c)
      BY <1>8, <2>3, <3>1 DEF InCall, b
    <3>2. ASSUME NEW i \in Taken, records[i].live, BlockOf(records[i]) = c
          PROVE  i \in Taken' /\ records'[i].live /\ BlockOf(records'[i]) = c
      <4>1. c.base # b.base
        BY <1>2, <2>3 DEF IInv, BlocksDistinct
      <4>2. records[i].base # b.base
        BY <3>2, <4>1 DEF BlockOf
      <4>3. i # s
        BY <1>3, <4>2 DEF SlotsForAlloc, SlotsOf, EmptySlots
      <4>. QED
        BY <1>2, <1>5, <1>6, <3>2, <4>3, SearchFacts
    <3>. QED
      BY <3>1, <3>2 DEF IInv, BlocksHeld
  <2>. QED
    BY <2>2, <2>3
<1>. QED
  BY <1>9, <1>10, <1>11, <1>13, <1>14, <1>15 DEF IInv

\* A free marks its record dead and takes the block the record described.
LEMMA InvariantKill ==
  ASSUME IInv, NEW t \in Threads, Kill(t), TypeOK'
  PROVE  IInv'
<1>1. PICK h \in DOMAIN handles, address \in Nat :
        pending[t].op = "idle" /\ MarkFreed(t, h, address)
  BY DEF Kill
<1>. DEFINE s == First(SlotsOf(address))
            b == [base |-> address, size |-> records[s].size, align |-> records[s].align]
<1>2. /\ records' = [records EXCEPT ![s] = [records[s] EXCEPT !.live = FALSE]]
      /\ pending' = [pending EXCEPT ![t] = Releasing(b)]
      /\ blocks' = blocks
      /\ SlotsOf(address) # {}
      /\ records[s].live
  BY <1>1 DEF MarkFreed, LiveRecord
<1>3. TypeOK
  BY DEF IInv
<1>4. s \in Taken /\ s \in Slots /\ records[s].base = address
  BY <1>2, <1>3, SearchFacts DEF SlotsOf
<1>5. records[s] \in AllocationRecord
  BY <1>3, <1>4, SearchFacts
<1>6. b = BlockOf(records[s]) /\ b \in blocks /\ b.base = address
  BY <1>2, <1>4 DEF IInv, LiveBacked, BlockOf
<1>7. /\ records'[s] \in AllocationRecord /\ records'[s] # None
      /\ records'[s].base = address /\ ~records'[s].live
      /\ \A i \in Slots \ {s} : records'[i] = records[i]
  BY <1>2, <1>3, <1>4, <1>5, NoneAssumption DEF TypeOK, AllocationRecord
<1>8. Taken' = Taken
  BY <1>4, <1>7 DEF Taken
<1>9. /\ pending'[t].op = "release" /\ pending'[t].block = b
      /\ \A u \in Threads \ {t} : pending'[u] = pending[u]
  BY <1>2, <1>3 DEF TypeOK, Releasing
<1>10. \A i \in Taken : records[i].base = address => i = s
  BY <1>4 DEF IInv, IdentityUnique
<1>11. \A u \in Threads \ {t} : pending[u].op # "idle" => pending[u].block.base # address
  BY <1>2, <1>4 DEF IInv, CallsBacked, SlotsOf
<1>. HIDE DEF s, b
<1>12. \A i \in Taken : records'[i].base = records[i].base
  BY <1>3, <1>4, <1>7, SearchFacts
<1>13. \A i \in Taken : records'[i].live => i # s /\ records'[i] = records[i]
  BY <1>3, <1>7, SearchFacts
<1>14. IdentityUnique' /\ BlocksDistinct'
  BY <1>2, <1>8, <1>12 DEF IInv, IdentityUnique, BlocksDistinct
<1>15. LiveBacked'
  BY <1>2, <1>8, <1>13 DEF IInv, LiveBacked
<1>16. CallsBacked'
  <2>1. SUFFICES ASSUME NEW u \in Threads, pending'[u].op # "idle"
                 PROVE  /\ pending'[u].block \in blocks'
                        /\ \A i \in Taken' : records'[i].base = pending'[u].block.base
                                              => ~records'[i].live
    BY Zenon DEF CallsBacked, SlotsOf
  <2>2. CASE u = t
    BY <1>2, <1>6, <1>8, <1>9, <1>10, <1>12, <1>13, <2>2
  <2>3. CASE u # t
    BY <1>2, <1>8, <1>9, <1>12, <1>13, <2>1, <2>3 DEF IInv, CallsBacked, SlotsOf
  <2>. QED
    BY <2>2, <2>3
<1>17. CallsDistinct'
  BY <1>6, <1>9, <1>11 DEF IInv, CallsDistinct
<1>18. BlocksHeld'
  <2>1. SUFFICES ASSUME NEW c \in blocks
                 PROVE  \/ \E i \in Taken' : records'[i].live /\ BlockOf(records'[i]) = c
                        \/ \E u \in Threads : InCall(u, c)'
    BY <1>2 DEF BlocksHeld
  <2>2. CASE c = b
    BY <1>9, <2>2 DEF InCall
  <2>3. CASE c # b
    <3>1. ASSUME NEW u \in Threads, InCall(u, c)
          PROVE  InCall(u, c)'
      BY <1>1, <1>9, <3>1 DEF InCall
    <3>2. ASSUME NEW i \in Taken, records[i].live, BlockOf(records[i]) = c
          PROVE  records'[i].live /\ BlockOf(records'[i]) = c
      <4>1. i # s
        BY <1>6, <2>3, <3>2
      <4>. QED
        BY <1>3, <1>7, <3>2, <4>1, SearchFacts
    <3>. QED
      BY <1>8, <3>1, <3>2 DEF IInv, BlocksHeld
  <2>. QED
    BY <2>2, <2>3
<1>. QED
  BY <1>14, <1>15, <1>16, <1>17, <1>18 DEF IInv

\* The block a call releases is no longer handed out, and nobody holds it.
LEMMA InvariantRelease ==
  ASSUME IInv, NEW t \in Threads, release(t), TypeOK'
  PROVE  IInv'
<1>. DEFINE b == pending[t].block
<1>1. /\ records' = records
      /\ pending' = [pending EXCEPT ![t] = Idle]
      /\ blocks' = blocks \ {b}
      /\ pending[t].op = "release"
  BY DEF release
<1>2. /\ pending'[t].op = "idle"
      /\ \A u \in Threads \ {t} : pending'[u] = pending[u]
  BY <1>1 DEF IInv, TypeOK, Idle
<1>3. Taken' = Taken /\ \A a : SlotsOf(a)' = SlotsOf(a)
  BY <1>1 DEF Taken, SlotsOf
<1>4. IdentityUnique' /\ BlocksDistinct'
  BY <1>1, <1>3 DEF IInv, IdentityUnique, BlocksDistinct
<1>5. LiveBacked'
  <2>1. \A i \in Taken : records[i].live => BlockOf(records[i]) # b
    BY <1>1 DEF IInv, CallsBacked, SlotsOf, BlockOf
  <2>. QED
    BY <1>1, <1>3, <2>1 DEF IInv, LiveBacked
<1>6. \A u \in Threads \ {t} : pending[u].op # "idle" => pending[u].block.base # b.base
  BY <1>1 DEF IInv, CallsDistinct
<1>7. CallsBacked'
  BY <1>1, <1>2, <1>3, <1>6 DEF IInv, CallsBacked
<1>8. CallsDistinct'
  BY <1>2 DEF IInv, CallsDistinct
<1>9. BlocksHeld'
  BY <1>1, <1>2, <1>3 DEF IInv, BlocksHeld, InCall
<1>. QED
  BY <1>4, <1>5, <1>7, <1>8, <1>9 DEF IInv

\* Every step of every thread keeps the invariant.
LEMMA InvariantStep == IInv /\ [Next]_vars => IInv'
<1>. SUFFICES ASSUME IInv, [Next]_vars PROVE IInv'
  OBVIOUS
<1>1. TypeOK /\ TypeOK'
  BY TypeStep DEF IInv
<1>. QED
  BY <1>1, StepKinds, InvariantQuiet, InvariantHandOut, InvariantRecord,
     InvariantKill, InvariantRelease

\* The inductive invariant of the registry: who holds each block the system
\* allocator has handed out, in every interleaving of the two-step calls.
THEOREM RegistryInvariant == Spec => []IInv
  BY InvariantInit, InvariantStep, PTL DEF Spec

\* The scan of mjrt_free and mjrt_dealloc for a payload address has at most
\* one record to find, for any number of slots and threads.
THEOREM RegistryIdentityUnique == Spec => []IdentityUnique
<1>1. IInv => IdentityUnique
  BY DEF IInv
<1>. QED
  BY <1>1, RegistryInvariant, PTL

\* A block goes back to the system allocator once, with its own layout, and
\* only after its record is dead: no program, however it misuses its
\* pointers, makes the runtime call std::alloc::dealloc wrongly.
THEOREM RegistryReleaseSound == Spec => []ReleaseSound
<1>1. IInv => ReleaseSound
  BY DEF IInv, CallsBacked, CallsDistinct, ReleaseSound
<1>. QED
  BY <1>1, RegistryInvariant, PTL

\* No block is leaked by the runtime or held by two parties: it is recorded
\* live or in a half-done call, and never both.
THEOREM RegistryBlocksAccounted == Spec => []BlocksAccounted
<1>1. ASSUME IInv, NEW b \in blocks
      PROVE  RecordedLive(b) # (\E t \in Threads : InCall(t, b))
  <2>1. b \in Block
    BY <1>1 DEF IInv, TypeOK
  <2>2. RecordedLive(b) \/ \E t \in Threads : InCall(t, b)
    <3>1. ASSUME NEW i \in Taken, records[i].live, BlockOf(records[i]) = b
          PROVE  RecordedLive(b)
      <4>1. records[i] \in AllocationRecord
        BY <1>1, SearchFacts DEF IInv
      <4>2. records[i] = [base |-> b.base, size |-> b.size,
                          align |-> b.align, live |-> TRUE]
        BY <2>1, <3>1, <4>1 DEF AllocationRecord, BlockOf, Block
      <4>. QED
        BY <3>1, <4>2 DEF RecordedLive
    <3>. QED
      BY <1>1, <3>1 DEF IInv, BlocksHeld
  <2>3. ASSUME RecordedLive(b), NEW t \in Threads, InCall(t, b)
        PROVE  FALSE
    <3>1. PICK i \in Taken : records[i] = [base |-> b.base, size |-> b.size,
                                           align |-> b.align, live |-> TRUE]
      BY <2>3 DEF RecordedLive
    <3>2. i \in SlotsOf(pending[t].block.base) /\ records[i].live
      BY <2>3, <3>1 DEF SlotsOf, InCall
    <3>3. ~records[i].live
      BY <1>1, <2>3, <3>2 DEF IInv, CallsBacked, InCall
    <3>. QED
      BY <3>2, <3>3
  <2>4. RecordedLive(b) \in BOOLEAN
    BY DEF RecordedLive
  <2>. QED
    BY <2>2, <2>3, <2>4
<1>2. IInv => BlocksAccounted
  BY <1>1 DEF BlocksAccounted
<1>. QED
  BY <1>2, RegistryInvariant, PTL

\* A slot that has been given to a payload address is never emptied and never
\* given to another one: records are never discarded.
THEOREM RegistryIdentityKept == Spec => IdentityKept
<1>1. ASSUME IInv, [Next]_vars
      PROVE  [\A i \in Taken : records'[i] # None /\ records'[i].base = records[i].base]_records
  <2>1. ASSUME NEW i \in Taken
        PROVE  records'[i] # None /\ records'[i].base = records[i].base
    <3>0. /\ TypeOK /\ TypeOK' /\ i \in Slots
          /\ records[i] \in AllocationRecord /\ records[i] # None
      BY <1>1, TypeStep, SearchFacts DEF IInv, Taken
    <3>1. CASE records' = records
      BY <3>0, <3>1
    <3>2. ASSUME NEW t \in Threads, mjrt_alloc_record(t)
          PROVE  records'[i] # None /\ records'[i].base = records[i].base
      <4>. DEFINE b == pending[t].block
                  s == First(SlotsForAlloc(b.base))
                  r == [base |-> b.base, size |-> b.size, align |-> b.align, live |-> TRUE]
      <4>1. /\ records' = [records EXCEPT ![s] = r]
            /\ SlotsForAlloc(b.base) # {}
        BY <3>2 DEF mjrt_alloc_record
      <4>2. s \in SlotsForAlloc(b.base)
        BY <3>0, <4>1, SearchFacts
      <4>3. i = s => records[i].base = b.base
        BY <4>2, <2>1 DEF SlotsForAlloc, SlotsOf, EmptySlots
      <4>4. r.base = b.base
        OBVIOUS
      <4>. HIDE DEF b, s, r
      <4>5. records'[i] = IF i = s THEN r ELSE records[i]
        BY <3>0, <4>1 DEF TypeOK
      <4>6. i = s => r # None
        <5>1. i = s => r \in AllocationRecord \cup {None}
          BY <3>0, <4>5 DEF TypeOK
        <5>2. b \in Block
          BY <3>0, <3>2 DEF mjrt_alloc_record, TypeOK, Calls, Idle, b
        <5>3. r \in AllocationRecord
          BY <5>2 DEF Block, AllocationRecord, r
        <5>. QED
          BY <5>3, NoneAssumption
      <4>. QED
        BY <3>0, <4>3, <4>4, <4>5, <4>6
    <3>3. ASSUME NEW t \in Threads, Kill(t)
          PROVE  records'[i] # None /\ records'[i].base = records[i].base
      <4>1. PICK address \in Nat :
              records' = [records EXCEPT ![First(SlotsOf(address))].live = FALSE]
        BY <3>3 DEF Kill, MarkFreed
      <4>2. records'[i] \in {records[i], [records[i] EXCEPT !.live = FALSE]}
        BY <3>0, <4>1 DEF TypeOK
      <4>3. [records[i] EXCEPT !.live = FALSE] \in AllocationRecord
        BY <3>0 DEF AllocationRecord
      <4>. QED
        BY <3>0, <4>2, <4>3, NoneAssumption DEF AllocationRecord
    <3>. QED
      BY <1>1, <3>0, <3>1, <3>2, <3>3, StepKinds
         DEF Quiet, HandOut, mjrt_alloc_system, release
  <2>. QED
    BY <2>1
<1>. QED
  BY <1>1, RegistryInvariant, PTL DEF Spec, IdentityKept

----------------------------------------------------------------------------
(***************************************************************************)
(* What the program's pointers and the registry's records have to do with  *)
(* one another: detection of freed memory, and what a lawful program may   *)
(* rely on.                                                                *)
(***************************************************************************)

\* Blocks, and the records made of them, lie above the sentinel addresses.
BlocksMapped == \A b \in blocks : b.base >= SentinelLimit
RecordsMapped == \A i \in Taken : records[i].base >= SentinelLimit

\* The last allocation at a base address is the one its record describes.
LastRecorded ==
  \A h \in DOMAIN handles : handles[h].size # 0 /\ ~Recycled(h) =>
    \E i \in Taken : records[i].base = handles[h].base /\ records[i].size = handles[h].size

DetectInv ==
  /\ BlocksMapped
  /\ RecordsMapped
  /\ LastRecorded

\* The alignments whose zero-size pointers are sentinels: a power of two below
\* the limit (65536 in the code), which every type's own alignment is.  The free
\* of an empty allocation with a larger one, asked for by name, does trap.
SmallAligns == \A a \in Aligns : is_power_of_two(a) => a < SentinelLimit

\* A zero-size pointer is a sentinel.
ZeroSentinel ==
  \A h \in DOMAIN handles : handles[h].size = 0 => handles[h].base < SentinelLimit

\* The memory the program owns is recorded live with its own layout, and no
\* other pointer it owns is to the same block.
OwnedRecorded ==
  ~misused => \A h \in DOMAIN handles :
    handles[h].owned /\ handles[h].size # 0 => RecordedLive(handles[h])

OwnedDistinct ==
  ~misused => \A h, k \in DOMAIN handles :
    /\ handles[h].owned /\ handles[h].size # 0
    /\ handles[k].owned /\ handles[k].size # 0
    /\ handles[h].base = handles[k].base
    => h = k

OwnedInv ==
  /\ ZeroSentinel
  /\ OwnedRecorded
  /\ OwnedDistinct
  /\ LawfulNeverTraps

\* The free of the h-th pointer, with what it says of the program's lawfulness.
FreeOf(t, h, offset) ==
  /\ MarkFreed(t, h, handles[h].base + offset)
  /\ ~misused' => ~misused /\ LawfulFree(h, offset)

\* Every step by what it does to the records and the program's pointers.
LEMMA HandleKinds ==
  ASSUME TypeOK, [Next]_vars
  PROVE  \/ UNCHANGED <<records, handles>> /\ (misused => misused')
         \/ \E t \in Threads, align \in Aligns : mjrt_alloc_zero(t, align)
         \/ \E t \in Threads : mjrt_alloc_record(t)
         \/ \E t \in Threads, h \in DOMAIN handles, offset \in 0..MaxOffset : FreeOf(t, h, offset)
<1>. DEFINE Still == UNCHANGED <<records, handles>> /\ (misused => misused')
<1>1. CASE UNCHANGED vars
  BY <1>1 DEF vars
<1>2. ASSUME NEW t \in Threads, Allocate(t)
      PROVE  Still \/ \E align \in Aligns : mjrt_alloc_zero(t, align)
  BY <1>2 DEF Allocate, mjrt_alloc_invalid, mjrt_alloc_null, mjrt_alloc_system, Exit
<1>3. ASSUME NEW t \in Threads, Free(t)
      PROVE  Still \/ \E h \in DOMAIN handles, offset \in 0..MaxOffset : FreeOf(t, h, offset)
  <2>1. PICK h \in DOMAIN handles, offset \in 0..MaxOffset :
          \/ mjrt_free(t, h, offset)
          \/ \E size \in Sizes, align \in Aligns : mjrt_dealloc(t, h, offset, size, align)
    BY <1>3 DEF Free
  <2>. DEFINE address == handles[h].base + offset
  <2>2. (misused => misused') /\ (~misused' => ~misused /\ LawfulFree(h, offset))
    BY <2>1, Zenon DEF mjrt_free, mjrt_dealloc, Use
  <2>3. \/ FreeSentinel(address) \/ \E category \in TrapCategories : Exit(category)
        \/ MarkFreed(t, h, address)
    BY <2>1 DEF mjrt_free, mjrt_dealloc, FreeUnrecorded, TrapCategories
  <2>. HIDE DEF address
  <2>4. UNCHANGED <<records, handles>> \/ MarkFreed(t, h, address)
    BY <2>3 DEF FreeSentinel, Exit
  <2>. QED
    BY <2>2, <2>4 DEF FreeOf, address
<1>4. ASSUME NEW t \in Threads, mjrt_alloc_full(t) \/ release(t)
      PROVE  Still
  BY <1>4 DEF mjrt_alloc_full, release, Exit
<1>5. ASSUME NEW t \in Threads, Dereference(t)
      PROVE  Still
  BY <1>5 DEF Dereference, guard_pointer_dereference, Use, Exit
<1>. QED
  BY <1>1, <1>2, <1>3, <1>4, <1>5 DEF Next

\* A recording: the slot it writes is the only one of its base, and the block
\* is a new pointer of the program.
LEMMA RecordEffect ==
  ASSUME IInv, NEW t \in Threads, mjrt_alloc_record(t)
  PROVE  \E b \in blocks, s \in Slots :
           LET r == [base |-> b.base, size |-> b.size, align |-> b.align, live |-> TRUE]
           IN  /\ b \in Block
               /\ records'[s] = r
               /\ Taken' = Taken \cup {s}
               /\ \A i \in Taken : i # s => records'[i] = records[i] /\ records[i].base # b.base
               /\ \A i \in Taken : records[i].base = b.base => i = s /\ ~records[i].live
               /\ s \in Taken => records[s].base = b.base
               /\ handles' = Append(handles, [base |-> b.base, size |-> b.size,
                                              align |-> b.align, owned |-> TRUE])
               /\ UNCHANGED <<blocks, trap, misused>>
<1>. DEFINE b == pending[t].block
            s == First(SlotsForAlloc(b.base))
            r == [base |-> b.base, size |-> b.size, align |-> b.align, live |-> TRUE]
<1>1. /\ records' = [records EXCEPT ![s] = r]
      /\ pending[t].op = "record"
      /\ SlotsForAlloc(b.base) # {}
      /\ handles' = Append(handles, [base |-> b.base, size |-> b.size,
                                     align |-> b.align, owned |-> TRUE])
      /\ UNCHANGED <<blocks, trap, misused>>
  BY DEF mjrt_alloc_record
<1>2. TypeOK /\ b \in Block /\ b \in blocks
  BY <1>1 DEF IInv, TypeOK, Calls, Idle, CallsBacked
<1>3. s \in Slots /\ s \in SlotsForAlloc(b.base)
  BY <1>1, <1>2, SearchFacts
<1>4. r # None
  <2>1. r \in AllocationRecord
    BY <1>2 DEF AllocationRecord, Block
  <2>. QED
    BY <2>1, NoneAssumption
<1>5. \A i \in Slots : records'[i] = IF i = s THEN r ELSE records[i]
  BY <1>1, <1>2 DEF TypeOK
<1>6. Taken' = Taken \cup {s}
  BY <1>3, <1>4, <1>5 DEF Taken
<1>7. \A i \in Taken : i # s => records[i].base # b.base
  BY <1>2, <1>3, SearchFacts DEF IInv, IdentityUnique, SlotsForAlloc, SlotsOf
<1>8. \A i \in Taken : records[i].base = b.base => ~records[i].live
  BY <1>1 DEF IInv, CallsBacked, SlotsOf
<1>9. s \in Taken => records[s].base = b.base
  BY <1>3 DEF SlotsForAlloc, SlotsOf, EmptySlots
<1>. HIDE DEF s, b
<1>10. records'[s] = r /\ \A i \in Taken : i # s => records'[i] = records[i]
  BY <1>2, <1>3, <1>5, SearchFacts
<1>11. b \in blocks /\ s \in Slots
  BY <1>2, <1>3
<1>. USE <1>11
<1>. WITNESS b \in blocks, s \in Slots
<1>. QED
  BY <1>1, <1>2, <1>6, <1>7, <1>8, <1>9, <1>10

\* A free: its record dies, every other record stays, and the pointer it was
\* called on is no longer owned.
LEMMA FreeEffect ==
  ASSUME IInv, NEW t \in Threads, NEW h \in DOMAIN handles, NEW offset \in 0..MaxOffset,
         FreeOf(t, h, offset)
  PROVE  \E s \in Taken :
           /\ records[s].base = handles[h].base + offset
           /\ records'[s] = [records[s] EXCEPT !.live = FALSE]
           /\ records[s] \in AllocationRecord
           /\ Taken' = Taken
           /\ \A i \in Taken : i # s =>
                records'[i] = records[i] /\ records[i].base # records[s].base
           /\ ~is_dangling_sentinel(handles[h].base + offset)
           /\ handles' = [handles EXCEPT ![h] = [handles[h] EXCEPT !.owned = FALSE]]
           /\ UNCHANGED <<blocks, trap>>
<1>. DEFINE address == handles[h].base + offset
            s == First(SlotsOf(address))
<1>1. /\ records' = [records EXCEPT ![s] = [records[s] EXCEPT !.live = FALSE]]
      /\ handles' = [handles EXCEPT ![h] = [handles[h] EXCEPT !.owned = FALSE]]
      /\ UNCHANGED <<blocks, trap>>
      /\ SlotsOf(address) # {}
      /\ ~is_dangling_sentinel(address)
  BY DEF FreeOf, MarkFreed, LiveRecord
<1>2. TypeOK
  BY DEF IInv
<1>3. s \in Taken /\ s \in Slots /\ records[s].base = address
  BY <1>1, <1>2, SearchFacts DEF SlotsOf
<1>4. records[s] \in AllocationRecord
  BY <1>2, <1>3, SearchFacts
<1>5. /\ records'[s] = [records[s] EXCEPT !.live = FALSE] /\ records'[s] # None
      /\ \A i \in Slots \ {s} : records'[i] = records[i]
  BY <1>1, <1>2, <1>3, <1>4, NoneAssumption DEF TypeOK, AllocationRecord
<1>6. Taken' = Taken
  BY <1>3, <1>5 DEF Taken
<1>7. \A i \in Taken : records[i].base = records[s].base => i = s
  BY <1>3 DEF IInv, IdentityUnique
<1>. HIDE DEF s, address
<1>8. \A i \in Taken : i # s => records'[i] = records[i] /\ records[i].base # records[s].base
  BY <1>2, <1>5, <1>7, SearchFacts
<1>. QED
  BY <1>1, <1>3, <1>4, <1>5, <1>6, <1>8 DEF address

\* The pointers and records stay related, whatever the program does.
LEMMA DetectStep == IInv /\ DetectInv /\ [Next]_vars => DetectInv'
<1>. SUFFICES ASSUME IInv, DetectInv, [Next]_vars PROVE DetectInv'
  OBVIOUS
<1>1. TypeOK /\ TypeOK'
  BY TypeStep DEF IInv
<1>2. BlocksMapped'
  <2>1. CASE blocks' \subseteq blocks
    BY <2>1 DEF DetectInv, BlocksMapped
  <2>2. ASSUME NEW t \in Threads, HandOut(t) PROVE BlocksMapped'
    <3>1. PICK size \in Sizes, align \in Aligns, base \in Address :
            mjrt_alloc_system(t, size, align, base)
      BY <2>2 DEF HandOut
    <3>. DEFINE b == [base |-> base, size |-> size, align |-> align]
    <3>2. blocks' = blocks \cup {b} /\ SystemMayReturn(b) /\ size # 0
      BY <3>1 DEF mjrt_alloc_system
    <3>3. base \in Cells(b)
      BY <3>2, RegistryAssumption DEF Cells, Header, Address
    <3>4. b.base >= SentinelLimit
      BY <3>2, <3>3, RegistryAssumption DEF SystemMayReturn
    <3>. HIDE DEF b
    <3>. QED
      BY <3>2, <3>4 DEF DetectInv, BlocksMapped
  <2>. QED
    BY <1>1, <2>1, <2>2, StepKinds DEF Quiet, mjrt_alloc_record, Kill, MarkFreed, release
<1>3. CASE UNCHANGED <<records, handles>>
  BY <1>2, <1>3 DEF DetectInv, RecordsMapped, LastRecorded, Recycled, Taken
<1>4. ASSUME NEW t \in Threads, NEW align \in Aligns, mjrt_alloc_zero(t, align)
      PROVE  DetectInv'
  <2>. DEFINE g == [base |-> align, size |-> 0, align |-> align, owned |-> TRUE]
  <2>1. handles' = Append(handles, g) /\ g.size = 0 /\ records' = records
    BY <1>4 DEF mjrt_alloc_zero
  <2>. HIDE DEF g
  <2>2. /\ DOMAIN handles \subseteq DOMAIN handles'
        /\ \A k \in DOMAIN handles : handles'[k] = handles[k]
        /\ \A k \in DOMAIN handles' : handles'[k].size # 0 => k \in DOMAIN handles
    BY <1>1, <2>1 DEF TypeOK
  <2>3. RecordsMapped' /\ Taken' = Taken
    BY <2>1 DEF DetectInv, RecordsMapped, Taken
  <2>4. \A h \in DOMAIN handles' : handles'[h].size # 0 => (Recycled(h)' <=> Recycled(h))
    BY <2>2 DEF Recycled
  <2>5. LastRecorded'
    BY <2>1, <2>2, <2>3, <2>4 DEF DetectInv, LastRecorded
  <2>. QED
    BY <1>2, <2>3, <2>5 DEF DetectInv
<1>5. ASSUME NEW t \in Threads, mjrt_alloc_record(t)
      PROVE  DetectInv'
  <2>1. PICK b \in blocks, s \in Slots :
          /\ b \in Block
          /\ records'[s] = [base |-> b.base, size |-> b.size, align |-> b.align, live |-> TRUE]
          /\ Taken' = Taken \cup {s}
          /\ \A i \in Taken : i # s => records'[i] = records[i] /\ records[i].base # b.base
          /\ s \in Taken => records[s].base = b.base
          /\ handles' = Append(handles, [base |-> b.base, size |-> b.size,
                                         align |-> b.align, owned |-> TRUE])
    BY <1>5, RecordEffect
  <2>. DEFINE g == [base |-> b.base, size |-> b.size, align |-> b.align, owned |-> TRUE]
              n == Len(handles) + 1
  <2>2. handles' = Append(handles, g) /\ g.base = b.base /\ g.size = b.size /\ b.size # 0
    BY <2>1 DEF Block
  <2>. HIDE DEF g
  <2>3. /\ DOMAIN handles' = DOMAIN handles \cup {n}
        /\ \A k \in DOMAIN handles : handles'[k] = handles[k] /\ n > k
        /\ handles'[n] = g
    BY <1>1, <2>2 DEF TypeOK
  <2>. HIDE DEF n
  <2>4. RecordsMapped'
    BY <2>1 DEF DetectInv, RecordsMapped, BlocksMapped
  <2>5. LastRecorded'
    <3>1. SUFFICES ASSUME NEW h \in DOMAIN handles', handles'[h].size # 0, ~Recycled(h)'
                   PROVE  \E i \in Taken' : /\ records'[i].base = handles'[h].base
                                            /\ records'[i].size = handles'[h].size
      BY DEF LastRecorded
    <3>2. CASE h = n
      BY <2>1, <2>2, <2>3, <3>2
    <3>3. CASE h # n
      <4>1. h \in DOMAIN handles /\ handles'[h] = handles[h]
        BY <2>3, <3>3
      <4>2. handles[h].base # b.base
        BY <2>2, <2>3, <3>1, <4>1 DEF Recycled
      <4>3. ~Recycled(h)
        BY <2>3, <3>1, <4>1 DEF Recycled
      <4>4. PICK i \in Taken : records[i].base = handles[h].base /\ records[i].size = handles[h].size
        BY <3>1, <4>1, <4>3 DEF DetectInv, LastRecorded
      <4>5. i # s
        BY <2>1, <4>2, <4>4
      <4>. QED
        BY <2>1, <4>1, <4>4, <4>5
    <3>. QED
      BY <3>2, <3>3
  <2>. QED
    BY <1>2, <2>4, <2>5 DEF DetectInv
<1>6. ASSUME NEW t \in Threads, NEW h \in DOMAIN handles, NEW offset \in 0..MaxOffset,
             FreeOf(t, h, offset)
      PROVE  DetectInv'
  <2>1. PICK s \in Taken :
          /\ records'[s] = [records[s] EXCEPT !.live = FALSE]
          /\ records[s] \in AllocationRecord
          /\ Taken' = Taken
          /\ \A i \in Taken : i # s => records'[i] = records[i]
          /\ handles' = [handles EXCEPT ![h] = [handles[h] EXCEPT !.owned = FALSE]]
    BY <1>6, FreeEffect
  <2>2. \A i \in Taken : records'[i].base = records[i].base /\ records'[i].size = records[i].size
    BY <2>1 DEF AllocationRecord
  <2>3. /\ DOMAIN handles' = DOMAIN handles
        /\ \A k \in DOMAIN handles : /\ handles'[k].base = handles[k].base
                                     /\ handles'[k].size = handles[k].size
    <3>1. \A k \in DOMAIN handles : handles[k] \in Handle
      BY <1>1 DEF TypeOK
    <3>. QED
      BY <2>1, <3>1 DEF Handle
  <2>4. \A k \in DOMAIN handles : Recycled(k)' <=> Recycled(k)
    BY <2>3 DEF Recycled
  <2>. QED
    BY <1>2, <2>1, <2>2, <2>3, <2>4 DEF DetectInv, RecordsMapped, LastRecorded
<1>. QED
  BY <1>1, <1>3, <1>4, <1>5, <1>6, HandleKinds

\* At the start the program has the null pointer only and nothing is recorded.
LEMMA OwnedInit == Init => DetectInv /\ OwnedInv
<1>. SUFFICES ASSUME Init PROVE DetectInv /\ OwnedInv
  OBVIOUS
<1>1. Taken = {} /\ blocks = {} /\ trap = NoTrap
  BY DEF Init, Taken
<1>2. \A h \in DOMAIN handles : handles[h].size = 0 /\ handles[h].base = 0
  BY DEF Init, Dangling
<1>3. 0 < SentinelLimit
  BY RegistryAssumption
<1>. QED
  BY <1>1, <1>2, <1>3
     DEF DetectInv, BlocksMapped, RecordsMapped, LastRecorded,
         OwnedInv, ZeroSentinel, OwnedRecorded, OwnedDistinct, LawfulNeverTraps

\* Detection, for every program: an address of a freed allocation is classified
\* freed until its base is handed out again or something live covers it.
THEOREM RegistryFreedDetected == Spec => []FreedDetected
<1>1. Init => DetectInv
  BY OwnedInit
<1>2. ASSUME TypeOK, DetectInv, NEW h \in DOMAIN handles, ~Recycled(h),
             NEW offset \in 0..(handles[h].size - 1)
      PROVE  mjrt_pointer_status(handles[h].base + offset)
               = IF LiveAt(handles[h].base + offset) THEN 0 ELSE 2
  <2>1. handles[h] \in Handle
    BY <1>2 DEF TypeOK
  <2>2. handles[h].base \in Nat /\ handles[h].size \in Nat
    BY <2>1 DEF Handle
  <2>3. PICK i \in Taken : records[i].base = handles[h].base /\ records[i].size = handles[h].size
    BY <1>2, <2>2 DEF DetectInv, LastRecorded
  <2>. DEFINE a == handles[h].base + offset
  <2>4. Contains(records[i], a)
    BY <2>2, <2>3 DEF Contains
  <2>5. ~is_dangling_sentinel(a)
    BY <1>2, <2>2, <2>3, RegistryAssumption DEF DetectInv, RecordsMapped, is_dangling_sentinel
  <2>6. LiveAt(a) \/ StaleAt(a)
    BY <2>4 DEF LiveAt, StaleAt
  <2>. HIDE DEF a
  <2>7. mjrt_pointer_status(a) = IF LiveAt(a) THEN 0 ELSE 2
    BY <2>5, <2>6 DEF mjrt_pointer_status
  <2>. QED
    BY <2>7 DEF a
<1>3. TypeOK /\ DetectInv => FreedDetected
  BY <1>2 DEF FreedDetected
<1>. QED
  BY <1>1, <1>3, DetectStep, RegistryInvariant, RegistryTypeCorrect, PTL DEF Spec

\* The status of an address of an allocation recorded live is "live".
LEMMA RecordedStatus ==
  ASSUME TypeOK, RecordsMapped, NEW h \in DOMAIN handles, RecordedLive(handles[h]),
         NEW offset \in 0..(handles[h].size - 1)
  PROVE  mjrt_pointer_status(handles[h].base + offset) = 0
<1>. DEFINE a == handles[h].base + offset
<1>1. handles[h] \in Handle
  BY DEF TypeOK
<1>2. handles[h].base \in Nat /\ handles[h].size \in Nat
  BY <1>1 DEF Handle
<1>3. PICK i \in Taken : /\ records[i].base = handles[h].base
                         /\ records[i].size = handles[h].size
                         /\ records[i].live
  BY DEF RecordedLive
<1>4. LiveAt(a)
  BY <1>2, <1>3 DEF LiveAt, Contains
<1>5. ~is_dangling_sentinel(a)
  BY <1>2, <1>3, RegistryAssumption DEF RecordsMapped, is_dangling_sentinel
<1>. HIDE DEF a
<1>6. mjrt_pointer_status(a) = 0
  BY <1>4, <1>5 DEF mjrt_pointer_status
<1>. QED
  BY <1>6 DEF a

\* A free finds the record of an allocation recorded live.
LEMMA RecordedFound ==
  ASSUME IInv, NEW h \in DOMAIN handles, RecordedLive(handles[h])
  PROVE  LiveRecord(handles[h].base)
<1>1. PICK i \in Taken : records[i].base = handles[h].base /\ records[i].live
  BY DEF RecordedLive
<1>2. i \in SlotsOf(handles[h].base)
  BY <1>1 DEF SlotsOf
<1>3. First(SlotsOf(handles[h].base)) \in SlotsOf(handles[h].base)
  BY <1>2, SearchFacts DEF IInv
<1>4. First(SlotsOf(handles[h].base)) = i
  BY <1>1, <1>3 DEF IInv, IdentityUnique, SlotsOf
<1>. QED
  BY <1>1, <1>2, <1>4 DEF LiveRecord

\* While the program keeps its contracts, no step ends it with a pointer trap:
\* each free finds its record, and each access is to live memory.
LEMMA OwnedTrapStep ==
  ASSUME IInv, RecordsMapped, OwnedInv, [Next]_vars
  PROVE  LawfulNeverTraps'
<1>. DEFINE Harmless == trap' \in {NoTrap, TRAP_ALLOC_FAILURE}
<1>. SUFFICES ASSUME ~misused' PROVE Harmless
  BY DEF LawfulNeverTraps
<1>1. CASE UNCHANGED vars
  BY <1>1 DEF vars, OwnedInv, LawfulNeverTraps
<1>2. ASSUME NEW t \in Threads, NEW h \in DOMAIN handles, NEW offset \in 0..MaxOffset,
             CanCall(t), Use(LawfulFree(h, offset)),
             FreeUnrecorded(handles[h].base + offset)
      PROVE  FALSE
  <2>1. handles[h] \in Handle
    BY DEF IInv, TypeOK
  <2>2. handles[h].base \in Nat
    BY <2>1 DEF Handle
  <2>3. ~misused /\ LawfulFree(h, offset)
    BY <1>2 DEF Use
  <2>4. offset = 0 /\ handles[h].owned /\ ~is_dangling_sentinel(handles[h].base)
    BY <1>2, <2>2, <2>3 DEF LawfulFree, FreeUnrecorded
  <2>5. handles[h].size # 0
    BY <2>4 DEF OwnedInv, ZeroSentinel, is_dangling_sentinel
  <2>6. RecordedLive(handles[h])
    BY <2>3, <2>4, <2>5 DEF OwnedInv, OwnedRecorded
  <2>7. LiveRecord(handles[h].base)
    BY <2>6, RecordedFound
  <2>8. handles[h].base + offset = handles[h].base
    BY <2>2, <2>4
  <2>. QED
    BY <1>2, <2>7, <2>8 DEF FreeUnrecorded
<1>3. ASSUME NEW t \in Threads, Free(t)
      PROVE  Harmless
  <2>1. PICK h \in DOMAIN handles, offset \in 0..MaxOffset :
          \/ mjrt_free(t, h, offset)
          \/ \E size \in Sizes, align \in Aligns : mjrt_dealloc(t, h, offset, size, align)
    BY <1>3 DEF Free
  <2>. DEFINE a == handles[h].base + offset
  <2>2. CanCall(t) /\ Use(LawfulFree(h, offset))
    BY <2>1, Zenon DEF mjrt_free, mjrt_dealloc, Use
  <2>3. \/ FreeSentinel(a) \/ FreeUnrecorded(a) \/ MarkFreed(t, h, a)
        \/ Exit(TRAP_ALLOC_FAILURE)
    BY <2>1 DEF mjrt_free, mjrt_dealloc
  <2>4. ~FreeUnrecorded(a)
    BY <1>2, <2>2
  <2>. HIDE DEF a
  <2>. QED
    BY <2>2, <2>3, <2>4 DEF CanCall, Running, FreeSentinel, MarkFreed, Exit
<1>4. ASSUME NEW t \in Threads, Dereference(t)
      PROVE  Harmless
  <2>1. PICK h \in DOMAIN handles, offset \in 0..MaxOffset :
          guard_pointer_dereference(t, h, offset)
    BY <1>4 DEF Dereference
  <2>2. CanCall(t) /\ ~misused /\ handles[h].owned /\ offset < handles[h].size
    BY <2>1 DEF guard_pointer_dereference, Use
  <2>3. handles[h] \in Handle
    BY DEF IInv, TypeOK
  <2>4. handles[h].size \in Nat /\ offset \in Nat
    BY <2>3, RegistryAssumption DEF Handle
  <2>5. handles[h].size # 0 /\ offset \in 0..(handles[h].size - 1)
    BY <2>2, <2>4
  <2>6. RecordedLive(handles[h])
    BY <2>2, <2>5 DEF OwnedInv, OwnedRecorded
  <2>7. mjrt_pointer_status(handles[h].base + offset) = 0
    BY <2>5, <2>6, RecordedStatus DEF IInv
  <2>8. trap' = trap
    BY <2>1, <2>7 DEF guard_pointer_dereference
  <2>. QED
    BY <2>2, <2>8 DEF CanCall, Running
<1>5. ASSUME NEW t \in Threads, Allocate(t) \/ mjrt_alloc_full(t)
      PROVE  Harmless
  BY <1>5 DEF Allocate, CanAllocate, Running, mjrt_alloc_invalid, mjrt_alloc_zero,
              mjrt_alloc_null, mjrt_alloc_system, mjrt_alloc_full, Exit
<1>6. ASSUME NEW t \in Threads, mjrt_alloc_record(t) \/ release(t)
      PROVE  Harmless
  BY <1>6 DEF mjrt_alloc_record, release, Running
<1>. QED
  BY <1>1, <1>3, <1>4, <1>5, <1>6 DEF Next

\* What the program owns stays recorded live, under its own pointer alone.
LEMMA OwnedStep ==
  ASSUME SmallAligns, IInv, RecordsMapped, OwnedInv, [Next]_vars
  PROVE  OwnedInv'
<1>. DEFINE LiveAfter(b) == \E i \in Taken' : records'[i] = [base |-> b.base, size |-> b.size,
                                                            align |-> b.align, live |-> TRUE]
<1>0. OwnedRecorded' <=> (~misused' => \A h \in DOMAIN handles' :
                            handles'[h].owned /\ handles'[h].size # 0 => LiveAfter(handles'[h]))
  BY DEF OwnedRecorded, RecordedLive
<1>1. TypeOK /\ TypeOK'
  BY TypeStep DEF IInv
<1>2. LawfulNeverTraps'
  BY OwnedTrapStep
<1>3. CASE UNCHANGED <<records, handles>> /\ (misused => misused')
  BY <1>2, <1>3 DEF OwnedInv, ZeroSentinel, OwnedRecorded, OwnedDistinct, RecordedLive, Taken
<1>4. ASSUME NEW t \in Threads, NEW align \in Aligns, mjrt_alloc_zero(t, align)
      PROVE  OwnedInv'
  <2>. DEFINE g == [base |-> align, size |-> 0, align |-> align, owned |-> TRUE]
              n == Len(handles) + 1
  <2>1. /\ handles' = Append(handles, g) /\ g.size = 0 /\ g.base = align
        /\ records' = records /\ misused' = misused
    BY <1>4 DEF mjrt_alloc_zero
  <2>2. align < SentinelLimit
    BY <1>4 DEF mjrt_alloc_zero, InvalidLayout, SmallAligns
  <2>. HIDE DEF g
  <2>3. /\ DOMAIN handles' = DOMAIN handles \cup {n}
        /\ \A k \in DOMAIN handles : handles'[k] = handles[k]
        /\ handles'[n] = g
    BY <1>1, <2>1 DEF TypeOK
  <2>. HIDE DEF n
  <2>5. ZeroSentinel' /\ OwnedDistinct'
    BY <2>1, <2>2, <2>3 DEF OwnedInv, ZeroSentinel, OwnedDistinct
  <2>6. OwnedRecorded'
    BY <2>1, <2>3 DEF OwnedInv, OwnedRecorded, RecordedLive, Taken
  <2>. QED
    BY <1>2, <2>5, <2>6 DEF OwnedInv
<1>5. ASSUME NEW t \in Threads, mjrt_alloc_record(t)
      PROVE  OwnedInv'
  <2>1. PICK b \in blocks, s \in Slots :
          /\ b \in Block
          /\ records'[s] = [base |-> b.base, size |-> b.size, align |-> b.align, live |-> TRUE]
          /\ Taken' = Taken \cup {s}
          /\ \A i \in Taken : i # s => records'[i] = records[i]
          /\ \A i \in Taken : records[i].base = b.base => ~records[i].live
          /\ s \in Taken => records[s].base = b.base
          /\ handles' = Append(handles, [base |-> b.base, size |-> b.size,
                                         align |-> b.align, owned |-> TRUE])
          /\ misused' = misused
    BY <1>5, RecordEffect
  <2>. DEFINE g == [base |-> b.base, size |-> b.size, align |-> b.align, owned |-> TRUE]
              n == Len(handles) + 1
  <2>2. /\ handles' = Append(handles, g)
        /\ g.base = b.base /\ g.size = b.size /\ g.align = b.align /\ b.size # 0
    BY <2>1 DEF Block
  <2>. HIDE DEF g
  <2>3. /\ DOMAIN handles' = DOMAIN handles \cup {n}
        /\ \A k \in DOMAIN handles : handles'[k] = handles[k]
        /\ handles'[n] = g
    BY <1>1, <2>2 DEF TypeOK
  <2>. HIDE DEF n
  <2>4. ASSUME NEW h \in DOMAIN handles, RecordedLive(handles[h])
        PROVE  /\ handles[h].base # b.base
               /\ LiveAfter(handles'[h])
    <3>1. PICK i \in Taken :
            records[i] = [base |-> handles[h].base, size |-> handles[h].size,
                          align |-> handles[h].align, live |-> TRUE]
      BY <2>4 DEF RecordedLive
    <3>2. records[i].base # b.base
      BY <2>1, <3>1
    <3>3. i # s /\ i \in Taken' /\ records'[i] = records[i]
      BY <2>1, <3>2
    <3>4. records[i].base = handles[h].base /\ handles'[h] = handles[h]
      BY <2>3, <3>1
    <3>5. LiveAfter(handles'[h])
      BY <3>1, <3>3, <3>4
    <3>. QED
      BY <3>2, <3>4, <3>5
  <2>5. LiveAfter(handles'[n])
    <3>1. s \in Taken'
      BY <2>1
    <3>. QED
      BY <2>1, <2>2, <2>3, <3>1
  <2>6. ZeroSentinel'
    BY <2>2, <2>3 DEF OwnedInv, ZeroSentinel
  <2>7. OwnedRecorded'
    <3>. HIDE DEF LiveAfter
    <3>. QED
      BY <1>0, <2>1, <2>3, <2>4, <2>5 DEF OwnedInv, OwnedRecorded
  <2>8. OwnedDistinct'
    <3>1. ~misused' => \A h \in DOMAIN handles :
            handles[h].owned /\ handles[h].size # 0 => handles[h].base # b.base
      BY <2>1, <2>4 DEF OwnedInv, OwnedRecorded
    <3>. QED
      BY <2>1, <2>2, <2>3, <3>1 DEF OwnedInv, OwnedDistinct
  <2>. QED
    BY <1>2, <2>6, <2>7, <2>8 DEF OwnedInv
<1>6. ASSUME NEW t \in Threads, NEW h \in DOMAIN handles, NEW offset \in 0..MaxOffset,
             FreeOf(t, h, offset)
      PROVE  OwnedInv'
  <2>1. PICK s \in Taken :
          /\ records[s].base = handles[h].base + offset
          /\ records'[s] = [records[s] EXCEPT !.live = FALSE]
          /\ records[s] \in AllocationRecord
          /\ Taken' = Taken
          /\ \A i \in Taken : i # s =>
               records'[i] = records[i] /\ records[i].base # records[s].base
          /\ ~is_dangling_sentinel(handles[h].base + offset)
          /\ handles' = [handles EXCEPT ![h] = [handles[h] EXCEPT !.owned = FALSE]]
    BY <1>6, FreeEffect
  <2>2. \A k \in DOMAIN handles : handles[k] \in Handle
    BY <1>1 DEF TypeOK
  <2>3. /\ DOMAIN handles' = DOMAIN handles
        /\ \A k \in DOMAIN handles : k # h => handles'[k] = handles[k]
        /\ handles'[h].base = handles[h].base /\ handles'[h].size = handles[h].size
        /\ ~handles'[h].owned
    BY <2>1, <2>2 DEF Handle
  <2>4. ZeroSentinel'
    BY <2>3 DEF OwnedInv, ZeroSentinel
  <2>5. SUFFICES ASSUME ~misused' PROVE OwnedRecorded' /\ OwnedDistinct'
    BY <1>2, <2>4 DEF OwnedInv, OwnedRecorded, OwnedDistinct
  <2>6. ~misused /\ offset = 0 /\ handles[h].owned
    BY <1>6, <2>1, <2>5 DEF FreeOf, LawfulFree
  <2>7. handles[h].base + offset = handles[h].base
    BY <2>2, <2>6 DEF Handle
  <2>8. handles[h].size # 0
    BY <2>1, <2>7 DEF OwnedInv, ZeroSentinel, is_dangling_sentinel
  <2>9. ASSUME NEW k \in DOMAIN handles, k # h, handles[k].owned, handles[k].size # 0
        PROVE  LiveAfter(handles'[k])
    <3>1. PICK i \in Taken :
            records[i] = [base |-> handles[k].base, size |-> handles[k].size,
                          align |-> handles[k].align, live |-> TRUE]
      BY <2>6, <2>9 DEF OwnedInv, OwnedRecorded, RecordedLive
    <3>2. handles[k].base # handles[h].base
      BY <2>6, <2>8, <2>9 DEF OwnedInv, OwnedDistinct
    <3>3. i # s
      BY <2>1, <2>7, <3>1, <3>2
    <3>. QED
      BY <2>1, <2>3, <2>9, <3>1, <3>3
  <2>10. OwnedRecorded'
    <3>. HIDE DEF LiveAfter
    <3>. QED
      BY <1>0, <2>3, <2>9
  <2>11. OwnedDistinct'
    BY <2>3, <2>6 DEF OwnedInv, OwnedDistinct
  <2>. QED
    BY <2>10, <2>11
<1>. QED
  BY <1>1, <1>3, <1>4, <1>5, <1>6, HandleKinds

\* The invariant of a lawful program: what it owns is recorded live, under one
\* pointer, and it has met no pointer trap.
THEOREM RegistryOwnedInvariant ==
  ASSUME SmallAligns
  PROVE  Spec => [](RecordsMapped /\ OwnedInv)
<1>1. DetectInv => RecordsMapped
  BY DEF DetectInv
<1>2. IInv /\ DetectInv /\ OwnedInv /\ [Next]_vars => OwnedInv'
  BY <1>1, OwnedStep
<1>. QED
  BY <1>1, <1>2, OwnedInit, DetectStep, RegistryInvariant, PTL DEF Spec

\* A program that keeps the contracts of mjrt_free, mjrt_dealloc and of pointer
\* accesses never meets a pointer trap, however its threads interleave and
\* whatever addresses the system allocator recycles, as long as its alignments
\* are below the sentinel limit.
THEOREM RegistryLawfulNeverTraps ==
  ASSUME SmallAligns
  PROVE  Spec => []LawfulNeverTraps
<1>1. OwnedInv => LawfulNeverTraps
  BY DEF OwnedInv
<1>. QED
  BY <1>1, RegistryOwnedInvariant, PTL

\* In such a program every address of what it owns is classified live.
THEOREM RegistryOwnedIsLive ==
  ASSUME SmallAligns
  PROVE  Spec => []OwnedIsLive
<1>1. ASSUME TypeOK, RecordsMapped, OwnedInv, ~misused,
             NEW h \in DOMAIN handles, handles[h].owned,
             NEW offset \in 0..(handles[h].size - 1)
      PROVE  mjrt_pointer_status(handles[h].base + offset) = 0
  <2>1. handles[h] \in Handle
    BY <1>1 DEF TypeOK
  <2>2. handles[h].size # 0
    BY <2>1 DEF Handle
  <2>3. RecordedLive(handles[h])
    BY <1>1, <2>2 DEF OwnedInv, OwnedRecorded
  <2>. QED
    BY <1>1, <2>3, RecordedStatus
<1>2. TypeOK /\ RecordsMapped /\ OwnedInv => OwnedIsLive
  BY <1>1 DEF OwnedIsLive
<1>. QED
  BY <1>2, RegistryTypeCorrect, RegistryOwnedInvariant, PTL

============================================================================
