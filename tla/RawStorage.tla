----------------------------- MODULE RawStorage -----------------------------
(***************************************************************************)
(* What UnsafePointer storage promises its program, without the VM's       *)
(* representation: an allocation is a row of slots, a slot is raw (never   *)
(* written), taken, or holds one value, and every value has one owner at a *)
(* time.  VmHeap is shown to implement this specification.                 *)
(***************************************************************************)
EXTENDS Integers, Sequences

CONSTANTS
  Values,         \* the values a program owns, each told from the others
  NoValue,        \* what a slot without a value holds
  Lengths,        \* how many slots an allocation may have
  MaxAllocations  \* bound: allocations of one program

VARIABLES
  store,  \* allocation -> whether it is live, and its slots
  owner   \* value -> "program", "storage", "destructor", "destroyed" or "leaked"

rawVars == <<store, owner>>

Raw == <<"raw", NoValue>>
Taken == <<"taken", NoValue>>
Full(v) == <<"full", v>>

IsSlot(a, i) == store[a].live /\ i \in DOMAIN store[a].slots

\* Put `content` in a slot: what the slot held is lost, not destroyed.
Overwrite(a, i, content, owners) ==
  /\ IsSlot(a, i)
  /\ store' = [store EXCEPT ![a].slots[i] = content]
  /\ owner' = [v \in Values |->
                 IF store[a].slots[i] = Full(v) THEN "leaked" ELSE owners[v]]

Allocate(n) ==
  /\ Len(store) < MaxAllocations
  /\ store' = Append(store, [live |-> TRUE, slots |-> [i \in 0..(n - 1) |-> Raw]])
  /\ UNCHANGED owner

Write(a, i, v) ==
  /\ owner[v] = "program"
  /\ Overwrite(a, i, Full(v), [owner EXCEPT ![v] = "storage"])

\* A tombstone is forwarded: the slot is raw again.
WriteRaw(a, i) == Overwrite(a, i, Raw, owner)

\* A value leaves its slot for a new owner; a slot is emptied only once.
Remove(a, i, newOwner) ==
  /\ IsSlot(a, i)
  /\ store[a].slots[i] # Taken
  /\ store' = [store EXCEPT ![a].slots[i] = Taken]
  /\ owner' = [v \in Values |->
                 IF store[a].slots[i] = Full(v) THEN newOwner ELSE owner[v]]

Destroyed(v) ==
  /\ owner[v] = "destructor"
  /\ owner' = [owner EXCEPT ![v] = "destroyed"]
  /\ UNCHANGED store

Free(a) ==
  /\ store[a].live
  /\ store' = [store EXCEPT ![a] = [live |-> FALSE, slots |-> [i \in {} |-> Raw]]]
  /\ owner' = [v \in Values |->
                 IF \E i \in DOMAIN store[a].slots : store[a].slots[i] = Full(v)
                 THEN "leaked" ELSE owner[v]]

Init ==
  /\ store = <<>>
  /\ owner = [v \in Values |-> "program"]

Next ==
  \/ \E n \in Lengths : Allocate(n)
  \/ \E a \in DOMAIN store :
       \/ Free(a)
       \/ \E i \in DOMAIN store[a].slots :
            \/ \E v \in Values : Write(a, i, v)
            \/ WriteRaw(a, i)
            \/ Remove(a, i, "program")
            \/ Remove(a, i, "destructor")
  \/ \E v \in Values : Destroyed(v)

Spec == Init /\ [][Next]_rawVars
=============================================================================
