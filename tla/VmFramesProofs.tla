--------------------------- MODULE VmFramesProofs ---------------------------
(***************************************************************************)
(* Proofs about the VM's call frames, for every number of frames and of    *)
(* writes: however direct and synchronous calls nest, and whatever errors  *)
(* unwind, no activation is left without the frame it needs, a child lies  *)
(* on its caller, and no write is lost.                                    *)
(***************************************************************************)
EXTENDS VmFrames, Integers, TLAPS

Acts == 1..Inner

\* The frames of the activation i lie above its base, up to where the views of
\* the call it is making begin, or to the top.
Reach(i) ==
  IF i = Inner THEN Top ELSE activations[i + 1].base - activations[i + 1].views

\* Activations nest: each has its part of the stack.
Nested ==
  /\ Inner >= 1 /\ activations[1].base = 0
  /\ \A i \in Acts : activations[i].base <= Reach(i)
  /\ \A i, j \in Acts : i < j => Reach(i) <= activations[j].base - activations[j].views

\* In it, the root it was called for is lowest, and children lie on it.
Segment(i) ==
  \A k \in (activations[i].base + 1)..Reach(i) :
    /\ k = activations[i].base + 1 =>
         frames[k].kind = "root" /\ frames[k].id = activations[i].target
    /\ k # activations[i].base + 1 =>
         frames[k].kind = "child" /\ frames[k].id # activations[i].target

\* The frame an activation holds was the top of its part.
HeldTop(i) ==
  activations[i].popped # None =>
    \/ /\ activations[i].popped.kind = "root"
       /\ activations[i].popped.id = activations[i].target
       /\ Reach(i) = activations[i].base
    \/ /\ activations[i].popped.kind = "child"
       /\ activations[i].popped.id # activations[i].target
       /\ activations[i].base < Reach(i)
       /\ activations[i].popped.caller = frames[Reach(i)].id

Parts == \A i \in Acts : Segment(i) /\ HeldTop(i) /\ activations[i].target < next_frame_id

\* A child lies on the frame that called it.
OnCaller ==
  \A k \in 1..Top : frames[k].kind = "child" => k > 1 /\ frames[k - 1].id = frames[k].caller

\* A calling activation holds its frame, and the one just returned if it pushed a
\* view of that one too; a running one holds it or has it on
\* the stack, and one that has ended holds none.
Control ==
  /\ \A i \in Acts : i < Inner => activations[i].popped # None
  /\ \A i \in Acts : (i < Inner /\ activations[i + 1].views = 2) => activations[i].returned # None
  /\ (outcome = "none" /\ Current.popped = None) => Current.base < Top
  /\ outcome # "none" => Current.popped = None
  /\ outcome = "ok" => Top = Current.base

Stacked == Nested /\ Parts /\ OnCaller /\ Control

StackInv ==
  /\ TypeOK
  /\ status = "running" => Stacked
  /\ status # "running" => status \in Ends /\ frames = <<>>

\* The views of a call are of the frames its caller holds.
Viewed ==
  \A i \in Acts : i < Inner =>
    LET a == activations[i + 1] IN
    /\ a.views > 0 => frames[Reach(i) + 1].id = activations[i].popped.id
    /\ a.views = 2 => /\ activations[i].returned # None
                      /\ frames[Reach(i) + 2].id = activations[i].returned.id

\* The places frames with their own variables are at, on the stack s under the
\* activations a: the stack, the hands of an activation that has pushed no view of
\* its frame, and the innermost one's last result.
OnStack(k) == <<"stack", k>>
InHand(i) == <<"held", i>>
AsResult(i) == <<"returned", i>>
Place(s, a) ==
  {OnStack(k) : k \in 1..Len(s)}
    \cup {InHand(i) : i \in {j \in 1..Len(a) : /\ a[j].popped # None
                                               /\ j < Len(a) => a[j + 1].views = 0}}
    \cup {AsResult(i) : i \in {j \in 1..Len(a) : j = Len(a) /\ a[j].returned # None}}
At(s, a, x) ==
  IF x[1] = "stack" THEN s[x[2]] ELSE IF x[1] = "held" THEN a[x[2]].popped ELSE a[x[2]].returned

\* A frame is at one place only, has been given its identity, and its variables
\* there are as they were last written; what has no identity was never written.
OnePlace(s, a) == \A x, y \in Place(s, a) : At(s, a, x).id = At(s, a, y).id => x = y
UpToDate(s, a, next, wr) ==
  \A x \in Place(s, a) : At(s, a, x).id \in 1..(next - 1) /\ At(s, a, x).vars = wr[At(s, a, x).id]
Unwritten(next, wr) == \A f \in FrameIds : f >= next => wr[f] = 0

Seen(s, a, next, wr) == OnePlace(s, a) /\ UpToDate(s, a, next, wr) /\ Unwritten(next, wr)

DataInv == status = "running" => Viewed /\ Seen(frames, activations, next_frame_id, written)

-----------------------------------------------------------------------------
(* Sequences. *)

\* A prefix.
LEMMA DownFacts ==
  ASSUME NEW S, NEW s \in Seq(S), NEW n \in 0..Len(s)
  PROVE  /\ Down(s, n) \in Seq(S) /\ Len(Down(s, n)) = n
         /\ \A k \in 1..n : Down(s, n)[k] = s[k]
BY DEF Down

\* One, two or three elements more.
LEMMA MoreFacts ==
  ASSUME NEW S, NEW s \in Seq(S), NEW x \in S, NEW y \in S, NEW z \in S
  PROVE  /\ LET t == s \o <<>> \o <<x>> IN
              /\ t \in Seq(S) /\ Len(t) = Len(s) + 1
              /\ \A k \in 1..Len(s) : t[k] = s[k]
              /\ t[Len(s) + 1] = x
         /\ LET t == s \o <<x, y>> IN
              /\ t \in Seq(S) /\ Len(t) = Len(s) + 2
              /\ \A k \in 1..Len(s) : t[k] = s[k]
              /\ t[Len(s) + 1] = x /\ t[Len(s) + 2] = y
         /\ LET t == s \o <<x>> \o <<y>> IN
              /\ t \in Seq(S) /\ Len(t) = Len(s) + 2
              /\ \A k \in 1..Len(s) : t[k] = s[k]
              /\ t[Len(s) + 1] = x /\ t[Len(s) + 2] = y
         /\ LET t == s \o <<x, y>> \o <<z>> IN
              /\ t \in Seq(S) /\ Len(t) = Len(s) + 3
              /\ \A k \in 1..Len(s) : t[k] = s[k]
              /\ t[Len(s) + 1] = x /\ t[Len(s) + 2] = y /\ t[Len(s) + 3] = z
<1>1. LET t == s \o <<>> \o <<x>> IN
        /\ t \in Seq(S) /\ Len(t) = Len(s) + 1
        /\ \A k \in 1..Len(s) : t[k] = s[k]
        /\ t[Len(s) + 1] = x
  OBVIOUS
<1>2. LET t == s \o <<x, y>> IN
        /\ t \in Seq(S) /\ Len(t) = Len(s) + 2
        /\ \A k \in 1..Len(s) : t[k] = s[k]
        /\ t[Len(s) + 1] = x /\ t[Len(s) + 2] = y
  OBVIOUS
<1>3. LET t == s \o <<x>> \o <<y>> IN
        /\ t \in Seq(S) /\ Len(t) = Len(s) + 2
        /\ \A k \in 1..Len(s) : t[k] = s[k]
        /\ t[Len(s) + 1] = x /\ t[Len(s) + 2] = y
  OBVIOUS
<1>4. LET t == s \o <<x, y>> \o <<z>> IN
        /\ t \in Seq(S) /\ Len(t) = Len(s) + 3
        /\ \A k \in 1..Len(s) : t[k] = s[k]
        /\ t[Len(s) + 1] = x /\ t[Len(s) + 2] = y /\ t[Len(s) + 3] = z
  OBVIOUS
<1>. QED
  BY <1>1, <1>2, <1>3, <1>4

-----------------------------------------------------------------------------
(* Types. *)

\* The fields of frames and activations.
LEMMA Fields ==
  /\ \A f \in Frame : /\ f.id \in FrameIds /\ f.kind \in {"child", "root", "view"}
                      /\ f.edge \in BOOLEAN /\ f.vars \in 0..MaxWrites
                      /\ f.caller \in FrameIds \cup {None}
  /\ \A a \in Activation : /\ a.target \in FrameIds /\ a.base \in Nat /\ a.views \in 0..2
                           /\ a.popped \in Frame \cup {None}
                           /\ a.returned \in Frame \cup {None}
                           /\ a.edge \in BOOLEAN /\ a.mirror \in BOOLEAN
  /\ \A n \in FrameIds : n \in Nat
BY FramesAssumption DEF Frame, Activation, FrameIds

\* What the types say of a running VM.
LEMMA Typed ==
  ASSUME StackInv, status = "running"
  PROVE  /\ frames \in Seq(Frame) /\ Top \in Nat /\ Len(frames) = Top /\ DOMAIN frames = 1..Top
         /\ activations \in Seq(Activation) /\ Inner \in Nat /\ Inner >= 1
         /\ Len(activations) = Inner /\ Inner \in Acts /\ Current = activations[Inner]
         /\ \A i \in Acts : /\ activations[i] \in Activation
                            /\ activations[i].base \in Nat /\ activations[i].views \in 0..2
                            /\ Reach(i) \in Nat /\ Reach(i) <= Top
                            /\ i \in Nat /\ (i < Inner => i + 1 \in Acts)
         /\ \A k \in 1..Top : frames[k] \in Frame /\ frames[k].id \in Nat
         /\ next_frame_id \in Nat
         /\ Stacked
<1>1. TypeOK /\ Stacked /\ Nested
  BY DEF StackInv, Stacked
<1>2. /\ frames \in Seq(Frame) /\ Top \in Nat /\ Len(frames) = Top /\ DOMAIN frames = 1..Top
      /\ \A k \in 1..Top : frames[k] \in Frame
  BY <1>1 DEF TypeOK, Top
<1>3. /\ activations \in Seq(Activation) /\ Inner \in Nat /\ Inner >= 1
      /\ Len(activations) = Inner /\ Inner \in Acts /\ Current = activations[Inner]
      /\ \A i \in Acts : activations[i] \in Activation /\ i \in Nat
      /\ \A i \in Acts : i < Inner => i + 1 \in Acts
  BY <1>1 DEF TypeOK, Nested, Acts, Inner, Current
<1>4. \A i \in Acts : activations[i].base \in Nat /\ activations[i].views \in 0..2
  BY <1>3, Fields
<1>5. ASSUME NEW i \in Acts PROVE Reach(i) \in Nat /\ Reach(i) <= Top
  <2>1. CASE i = Inner
    BY <1>2, <2>1 DEF Reach
  <2>2. CASE i # Inner
    <3>1. i < Inner /\ i + 1 \in Acts
      BY <1>3, <2>2 DEF Acts
    <3>2. Reach(i) = activations[i + 1].base - activations[i + 1].views
      BY <2>2 DEF Reach
    <3>3. activations[i].base <= Reach(i)
      BY <1>1 DEF Nested
    <3>4. Reach(i) <= activations[Inner].base - activations[Inner].views
      BY <1>1, <1>3, <3>1 DEF Nested
    <3>5. activations[Inner].base <= Top
      BY <1>1, <1>3 DEF Nested, Reach
    <3>6. /\ activations[i].base \in Nat /\ activations[Inner].base \in Nat
          /\ activations[i + 1].base \in Nat /\ activations[i + 1].views \in Nat
          /\ activations[Inner].views \in Nat
      BY <1>3, <1>4, <3>1
    <3>7. Reach(i) \in Int
      BY <3>2, <3>6
    <3>8. Reach(i) >= 0
      BY <3>3, <3>6, <3>7
    <3>9. Reach(i) <= Top
      BY <1>2, <3>4, <3>5, <3>6, <3>7
    <3>. QED
      BY <3>7, <3>8, <3>9
  <2>. QED
    BY <2>1, <2>2
<1>6. next_frame_id \in Nat /\ \A k \in 1..Top : frames[k].id \in Nat
  BY <1>1, <1>2, Fields, FramesAssumption DEF TypeOK
<1>. QED
  BY <1>1, <1>2, <1>3, <1>4, <1>5, <1>6

\* Hold changes what the innermost activation holds, and nothing else of it.
LEMMA HoldFacts ==
  ASSUME StackInv, status = "running", NEW f \in Frame \cup {None},
         NEW r \in Frame \cup {None}, Hold(f, r)
  PROVE  /\ activations' \in Seq(Activation) /\ Inner' = Inner /\ Acts' = Acts
         /\ \A i \in Acts : /\ activations'[i].base = activations[i].base
                            /\ activations'[i].views = activations[i].views
                            /\ activations'[i].target = activations[i].target
         /\ \A i \in Acts : i < Inner => activations'[i] = activations[i]
         /\ activations'[Inner].popped = f /\ activations'[Inner].returned = r
         /\ \A i \in Acts : i < Inner => Reach(i)' = Reach(i)
         /\ Reach(Inner)' = Top'
         /\ Current' = activations'[Inner]
<1>1. /\ activations \in Seq(Activation) /\ Inner \in Nat /\ Inner \in Acts
      /\ Len(activations) = Inner
      /\ \A i \in Acts : i \in Nat /\ (i < Inner => i + 1 \in Acts)
  BY Typed
<1>2. PICK a \in Activation : a = activations[Inner]
  BY Typed
<1>3. PICK b : b = [a EXCEPT !.popped = f, !.returned = r]
  OBVIOUS
<1>4. /\ b.base = a.base /\ b.views = a.views /\ b.target = a.target
      /\ b.popped = f /\ b.returned = r
  BY <1>3 DEF Activation
<1>5. b \in Activation
  <2>1. [a EXCEPT !.popped = f] \in Activation
    BY DEF Activation
  <2>2. PICK c \in Activation : c = [a EXCEPT !.popped = f]
    BY <2>1
  <2>3. [c EXCEPT !.returned = r] \in Activation
    BY DEF Activation
  <2>4. b = [c EXCEPT !.returned = r]
    BY <1>3, <2>2
  <2>. QED
    BY <2>3, <2>4
<1>6. activations' = [activations EXCEPT ![Inner] = b]
  BY <1>1, <1>2, <1>3 DEF Hold
<1>7. /\ activations' \in Seq(Activation) /\ Len(activations') = Inner
      /\ activations'[Inner] = b
      /\ \A i \in Acts : i # Inner => activations'[i] = activations[i]
  BY <1>1, <1>5, <1>6 DEF Acts
<1>8. Inner' = Inner /\ Acts' = Acts /\ Current' = activations'[Inner]
  BY <1>7 DEF Inner, Acts, Current
<1>9. \A i \in Acts : /\ activations'[i].base = activations[i].base
                      /\ activations'[i].views = activations[i].views
                      /\ activations'[i].target = activations[i].target
  BY <1>2, <1>4, <1>7
<1>10. \A i \in Acts : i < Inner => activations'[i] = activations[i]
  BY <1>1, <1>7
<1>11. \A i \in Acts : i < Inner => Reach(i)' = Reach(i)
  BY <1>1, <1>8, <1>9 DEF Reach
<1>12. Reach(Inner)' = Top'
  BY <1>8 DEF Reach
<1>. QED
  BY <1>4, <1>7, <1>8, <1>9, <1>10, <1>11, <1>12

-----------------------------------------------------------------------------
(* The stack: what steps leave of an activation's part, and what they make. *)

\* A step that keeps the part of an activation, and what it holds or nothing.
KeepsPart(i) ==
  /\ activations'[i].base = activations[i].base
  /\ activations'[i].target = activations[i].target
  /\ Reach(i)' = Reach(i)
  /\ \A k \in 1..Reach(i) : /\ frames'[k].id = frames[k].id
                            /\ frames'[k].kind = frames[k].kind
  /\ \/ activations'[i].popped = None
     \/ /\ activations[i].popped # None
        /\ activations'[i].popped.id = activations[i].popped.id
        /\ activations'[i].popped.kind = activations[i].popped.kind
        /\ activations'[i].popped.caller = activations[i].popped.caller

\* It keeps what is known of both.
LEMMA KeptPart ==
  ASSUME NEW i, activations[i].base \in Nat, Reach(i) \in Nat, KeepsPart(i),
         Segment(i), HeldTop(i)
  PROVE  Segment(i)' /\ HeldTop(i)'
<1>. PICK b \in Nat, r \in Nat : b = activations[i].base /\ r = Reach(i)
  OBVIOUS
<1>1. /\ activations'[i].base = b /\ Reach(i)' = r
      /\ activations'[i].target = activations[i].target
      /\ \A k \in 1..r : frames'[k].id = frames[k].id /\ frames'[k].kind = frames[k].kind
  BY DEF KeepsPart
<1>2. \A k \in (b + 1)..r : k \in 1..r
  OBVIOUS
<1>3. Segment(i)'
  BY <1>1, <1>2 DEF Segment
<1>4. HeldTop(i)'
  <2>1. CASE activations'[i].popped = None
    BY <2>1 DEF HeldTop
  <2>2. CASE activations'[i].popped # None
    <3>1. /\ activations[i].popped # None
          /\ activations'[i].popped.id = activations[i].popped.id
          /\ activations'[i].popped.kind = activations[i].popped.kind
          /\ activations'[i].popped.caller = activations[i].popped.caller
      BY <2>2 DEF KeepsPart
    <3>2. b < r => frames'[r].id = frames[r].id
      BY <1>1
    <3>. QED
      BY <1>1, <3>1, <3>2 DEF HeldTop
  <2>. QED
    BY <2>1, <2>2
<1>. QED
  BY <1>3, <1>4

\* The parts of the other activations lie below the base of the innermost one.
LEMMA Below ==
  ASSUME StackInv, status = "running", NEW i \in Acts, i < Inner
  PROVE  /\ Reach(i) + activations[i + 1].views <= activations[Inner].base
         /\ Reach(i) <= activations[Inner].base
         /\ activations[Inner].base <= Top
<1>1. /\ Inner \in Acts /\ Inner \in Nat /\ i \in Nat /\ i + 1 \in Acts
      /\ Reach(i) \in Nat
  BY Typed
<1>2. /\ activations[i + 1].base \in Nat /\ activations[i + 1].views \in 0..2
      /\ activations[Inner].base \in Nat /\ activations[Inner].views \in 0..2
      /\ Reach(i + 1) \in Nat
  BY <1>1, Typed
<1>3. Nested
  BY Typed DEF Stacked
<1>4. activations[Inner].base <= Top
  BY <1>1, <1>3 DEF Nested, Reach
<1>5. Reach(i) = activations[i + 1].base - activations[i + 1].views
  BY <1>1 DEF Reach
<1>6. activations[i + 1].base <= activations[Inner].base
  <2>1. CASE i + 1 = Inner
    BY <1>2, <2>1
  <2>2. CASE i + 1 # Inner
    <3>1. i + 1 < Inner
      BY <1>1, <2>2
    <3>2. activations[i + 1].base <= Reach(i + 1)
      BY <1>1, <1>3 DEF Nested
    <3>3. Reach(i + 1) <= activations[Inner].base - activations[Inner].views
      BY <1>1, <1>3, <3>1 DEF Nested
    <3>. QED
      BY <1>2, <3>2, <3>3
  <2>. QED
    BY <2>1, <2>2
<1>. QED
  BY <1>1, <1>2, <1>4, <1>5, <1>6

\* A step of the innermost activation, which keeps the stack up to its base.
LowerKept ==
  /\ Inner' = Inner /\ Acts' = Acts
  /\ \A i \in Acts : /\ activations'[i].base = activations[i].base
                     /\ activations'[i].views = activations[i].views
                     /\ activations'[i].target = activations[i].target
  /\ \A i \in Acts : i < Inner => activations'[i] = activations[i]
  /\ \A i \in Acts : i < Inner => Reach(i)' = Reach(i)
  /\ Reach(Inner)' = Top'
  /\ Top' \in Nat /\ activations[Inner].base <= Top'
  /\ \A k \in 1..activations[Inner].base : /\ frames'[k].id = frames[k].id
                                           /\ frames'[k].kind = frames[k].kind

\* It leaves to show what becomes of its own part.
LEMMA LowerParts ==
  ASSUME StackInv, status = "running", LowerKept, next_frame_id' >= next_frame_id,
         next_frame_id' \in Nat, NEW n, n = Inner, Segment(n)', HeldTop(n)'
  PROVE  Nested' /\ Parts'
<1>1. Inner \in Acts /\ Inner \in Nat /\ Inner >= 1 /\ activations[Inner].base \in Nat
  BY Typed
<1>2. Nested /\ Parts /\ next_frame_id \in Nat
  BY Typed DEF Stacked
<1>3. ASSUME NEW i \in Acts
      PROVE  /\ activations[i].base \in Nat /\ Reach(i) \in Nat /\ i \in Nat /\ i <= Inner
             /\ activations[i].target \in Nat
  BY Typed, Fields DEF Acts
<1>4. ASSUME NEW i \in Acts, i < Inner PROVE KeepsPart(i)
  <2>1. Reach(i) <= activations[Inner].base
    BY <1>4, Below
  <2>2. \A k \in 1..Reach(i) : k \in 1..activations[Inner].base
    BY <1>1, <1>3, <2>1
  <2>3. \A k \in 1..Reach(i) : frames'[k].id = frames[k].id /\ frames'[k].kind = frames[k].kind
    BY <2>2 DEF LowerKept
  <2>4. /\ activations'[i] = activations[i] /\ Reach(i)' = Reach(i)
    BY <1>4 DEF LowerKept
  <2>. QED
    BY <2>3, <2>4 DEF KeepsPart
<1>5. ASSUME NEW i \in Acts
      PROVE  Segment(i)' /\ HeldTop(i)' /\ activations'[i].target < next_frame_id'
  <2>1. activations'[i].target < next_frame_id'
    <3>1. activations[i].target < next_frame_id /\ activations'[i].target = activations[i].target
      BY <1>2 DEF Parts, LowerKept
    <3>. QED
      BY <1>2, <1>3, <3>1
  <2>2. CASE i = n
    BY <2>1, <2>2
  <2>3. CASE i < Inner
    <3>1. Segment(i) /\ HeldTop(i)
      BY <1>2 DEF Parts
    <3>2. Segment(i)' /\ HeldTop(i)'
      BY <1>3, <1>4, <2>3, <3>1, KeptPart
    <3>. QED
      BY <2>1, <3>2
  <2>4. i = n \/ i < Inner
    BY <1>1, <1>3
  <2>. QED
    BY <2>2, <2>3, <2>4
<1>6. Parts'
  BY <1>5 DEF Parts, LowerKept
<1>7. \A i \in Acts : activations'[i].base <= Reach(i)'
  <2>. TAKE i \in Acts
  <2>1. CASE i = Inner
    BY <2>1 DEF LowerKept
  <2>2. CASE i < Inner
    BY <1>2, <2>2 DEF LowerKept, Nested
  <2>. QED
    BY <1>1, <1>3, <2>1, <2>2
<1>8. \A i, j \in Acts : i < j => Reach(i)' <= activations'[j].base - activations'[j].views
  <2>. SUFFICES ASSUME NEW i \in Acts, NEW j \in Acts, i < j
                PROVE  Reach(i)' <= activations'[j].base - activations'[j].views
    OBVIOUS
  <2>1. i < Inner
    BY <1>1, <1>3
  <2>2. Reach(i)' = Reach(i) /\ activations'[j].base = activations[j].base
        /\ activations'[j].views = activations[j].views
    BY <2>1 DEF LowerKept
  <2>. QED
    BY <1>2, <2>2 DEF Nested
<1>9. activations'[1].base = 0 /\ Inner' >= 1
  <2>1. 1 \in Acts
    BY <1>1 DEF Acts
  <2>. QED
    BY <1>1, <1>2, <2>1 DEF LowerKept, Nested
<1>10. Nested'
  BY <1>7, <1>8, <1>9 DEF Nested, LowerKept
<1>. QED
  BY <1>6, <1>10

-----------------------------------------------------------------------------
(* Steps of the innermost activation. *)

\* What is known of the part of the innermost activation.
LEMMA OwnPart ==
  ASSUME StackInv, status = "running", NEW n, n = Inner, NEW b, b = activations[n].base,
         NEW t, t = activations[n].target
  PROVE  /\ n \in Nat /\ n >= 1 /\ n \in Acts /\ b \in Nat /\ Top \in Nat /\ b <= Top
         /\ t \in FrameIds /\ t \in Nat /\ next_frame_id \in Nat /\ t < next_frame_id
         /\ activations[n] \in Activation /\ Current = activations[n]
         /\ \A k \in (b + 1)..Top :
              /\ k = b + 1 => frames[k].kind = "root" /\ frames[k].id = t
              /\ k # b + 1 => frames[k].kind = "child" /\ frames[k].id # t
         /\ activations[n].popped # None =>
              LET f == activations[n].popped IN
              \/ f.kind = "root" /\ f.id = t /\ Top = b
              \/ f.kind = "child" /\ f.id # t /\ b < Top /\ f.caller = frames[Top].id
         /\ OnCaller
<1>1. /\ n \in Nat /\ n >= 1 /\ n \in Acts /\ b \in Nat /\ Top \in Nat
      /\ next_frame_id \in Nat /\ activations[n] \in Activation /\ Current = activations[n]
  BY Typed
<1>2. Nested /\ Parts /\ OnCaller
  BY Typed DEF Stacked
<1>3. Reach(n) = Top
  BY DEF Reach
<1>4. b <= Top
  BY <1>1, <1>2, <1>3 DEF Nested
<1>5. t \in FrameIds /\ t \in Nat
  BY <1>1, Fields
<1>6. Segment(n) /\ HeldTop(n) /\ t < next_frame_id
  BY <1>1, <1>2 DEF Parts
<1>7. \A k \in (b + 1)..Top :
        /\ k = b + 1 => frames[k].kind = "root" /\ frames[k].id = t
        /\ k # b + 1 => frames[k].kind = "child" /\ frames[k].id # t
  BY <1>3, <1>6 DEF Segment
<1>8. activations[n].popped # None =>
        LET f == activations[n].popped IN
        \/ f.kind = "root" /\ f.id = t /\ Top = b
        \/ f.kind = "child" /\ f.id # t /\ b < Top /\ f.caller = frames[Top].id
  BY <1>3, <1>6 DEF HeldTop
<1>. QED
  BY <1>1, <1>2, <1>4, <1>5, <1>6, <1>7, <1>8

\* A step that changes only what the innermost activation holds, and the stack
\* from its base on, has to keep its own part in order.
LEMMA HoldKeeps ==
  ASSUME StackInv, status = "running", NEW n, n = Inner, NEW b, b = activations[n].base,
         NEW t, t = activations[n].target,
         NEW f \in Frame \cup {None}, NEW r \in Frame \cup {None}, Hold(f, r),
         frames' \in Seq(Frame), next_frame_id' \in 1..(MaxFrames + 1),
         next_frame_id' >= next_frame_id, outcome' \in {"none"} \cup Ends,
         status' = "running", written' \in [FrameIds -> 0..MaxWrites],
         NEW m, m = Len(frames'), b <= m,
         \A k \in 1..b : frames'[k].id = frames[k].id /\ frames'[k].kind = frames[k].kind,
         \A k \in (b + 1)..m :
           /\ k = b + 1 => frames'[k].kind = "root" /\ frames'[k].id = t
           /\ k # b + 1 => frames'[k].kind = "child" /\ frames'[k].id # t,
         f # None => \/ f.kind = "root" /\ f.id = t /\ m = b
                     \/ f.kind = "child" /\ f.id # t /\ b < m /\ f.caller = frames'[m].id,
         OnCaller',
         (outcome' = "none" /\ f = None) => b < m,
         outcome' # "none" => f = None,
         outcome' = "ok" => m = b
  PROVE  StackInv'
<1>1. n \in Nat /\ n >= 1 /\ n \in Acts /\ b \in Nat /\ next_frame_id \in Nat
  BY OwnPart
<1>2. m \in Nat /\ Top' = m
  BY DEF Top
<1>3. /\ activations' \in Seq(Activation) /\ Inner' = n /\ Acts' = Acts
      /\ activations'[n].base = b /\ activations'[n].target = t
      /\ activations'[n].popped = f /\ activations'[n].returned = r
      /\ Current' = activations'[n]
  BY <1>1, HoldFacts
<1>4. Reach(n)' = m
  BY <1>2, <1>3 DEF Reach
<1>5. LowerKept
  <2>1. /\ Inner' = Inner /\ Acts' = Acts
        /\ \A i \in Acts : /\ activations'[i].base = activations[i].base
                           /\ activations'[i].views = activations[i].views
                           /\ activations'[i].target = activations[i].target
        /\ \A i \in Acts : i < Inner => activations'[i] = activations[i]
        /\ \A i \in Acts : i < Inner => Reach(i)' = Reach(i)
        /\ Reach(Inner)' = Top'
    BY HoldFacts
  <2>2. Top' \in Nat /\ activations[Inner].base <= Top'
    BY <1>2
  <2>3. \A k \in 1..activations[Inner].base : /\ frames'[k].id = frames[k].id
                                              /\ frames'[k].kind = frames[k].kind
    OBVIOUS
  <2>. QED
    BY <2>1, <2>2, <2>3 DEF LowerKept
<1>6. Segment(n)'
  BY <1>3, <1>4 DEF Segment
<1>7. HeldTop(n)'
  BY <1>3, <1>4 DEF HeldTop
<1>8. next_frame_id' \in Nat
  BY FramesAssumption
<1>9. Nested' /\ Parts'
  BY <1>5, <1>6, <1>7, <1>8, LowerParts
<1>10. \A i \in Acts : i < n => activations'[i].popped # None
  <2>1. \A i \in Acts : i < n => activations[i].popped # None
    BY Typed DEF Stacked, Control
  <2>2. \A i \in Acts : i < n => activations'[i] = activations[i]
    BY HoldFacts
  <2>. QED
    BY <2>1, <2>2
<1>13. \A i \in Acts : (i < n /\ activations'[i + 1].views = 2) => activations'[i].returned # None
  <2>1. \A i \in Acts : (i < n /\ activations[i + 1].views = 2) => activations[i].returned # None
    BY Typed DEF Stacked, Control
  <2>2. \A i \in Acts : i < n => activations'[i] = activations[i] /\ i + 1 \in Acts
    BY HoldFacts, Typed
  <2>3. \A i \in Acts : activations'[i].views = activations[i].views
    BY HoldFacts
  <2>. QED
    BY <2>1, <2>2, <2>3
<1>11. Control'
  <2>1. (outcome' = "none" /\ Current'.popped = None) => Current'.base < Top'
    BY <1>2, <1>3
  <2>2. outcome' # "none" => Current'.popped = None
    BY <1>3
  <2>3. outcome' = "ok" => Top' = Current'.base
    BY <1>2, <1>3
  <2>. QED
    BY <1>3, <1>10, <1>13, <2>1, <2>2, <2>3 DEF Control
<1>12. TypeOK'
  BY <1>3 DEF TypeOK
<1>. QED
  BY <1>9, <1>11, <1>12 DEF StackInv, Stacked

\* A stack that is cut leaves children on their callers.
LEMMA OnCallerCut ==
  ASSUME OnCaller, Top \in Nat, NEW m \in 0..Top, Len(frames') = m,
         \A k \in 1..m : frames'[k] = frames[k]
  PROVE  OnCaller'
<1>1. ASSUME NEW k \in 1..m, frames'[k].kind = "child"
      PROVE  k > 1 /\ frames'[k - 1].id = frames'[k].caller
  <2>1. frames'[k] = frames[k] /\ k \in 1..Top
    OBVIOUS
  <2>2. k > 1 /\ frames[k - 1].id = frames[k].caller
    BY <1>1, <2>1 DEF OnCaller
  <2>3. k - 1 \in 1..m
    BY <2>2
  <2>. QED
    BY <2>1, <2>2, <2>3
<1>2. Top' = m
  BY DEF Top
<1>. QED
  BY <1>1, <1>2 DEF OnCaller

\* By its top, say.
LEMMA OnCallerDown ==
  ASSUME OnCaller, frames \in Seq(Frame), NEW m \in 0..Top, frames' = Down(frames, m)
  PROVE  /\ frames' \in Seq(Frame) /\ Top' = m /\ Len(frames') = m
         /\ \A k \in 1..m : frames'[k] = frames[k]
         /\ OnCaller'
<1>1. /\ frames' \in Seq(Frame) /\ Top' = m /\ Len(frames') = m
      /\ \A k \in 1..m : frames'[k] = frames[k]
  BY DownFacts DEF Top
<1>2. Top \in Nat
  BY DEF Top
<1>. QED
  BY <1>1, <1>2, OnCallerCut

\* The head of the loop finds a frame to run.
LEMMA PopForms ==
  ASSUME StackInv, pop, NEW n, n = Inner, NEW b, b = activations[n].base
  PROVE  /\ status = "running" /\ outcome = "none" /\ activations[n].popped = None
         /\ b \in Nat /\ Top \in Nat /\ b < Top
         /\ Hold(frames[Top], None) /\ frames' = Down(frames, Top - 1)
         /\ next_frame_id' = next_frame_id /\ outcome' = outcome
         /\ status' = status /\ written' = written
<1>1. status = "running" /\ outcome = "none" /\ Current.popped = None
  BY DEF pop, Driving
<1>2. b \in Nat /\ Top \in Nat /\ Current = activations[n]
  BY <1>1, OwnPart
<1>3. b < Top
  BY <1>1, <1>2, Typed DEF Stacked, Control
<1>4. \A k \in (b + 1)..Top :
        /\ k = b + 1 => frames[k].kind = "root"
        /\ k # b + 1 => frames[k].kind = "child"
  BY <1>1, OwnPart
<1>5. Top > 0 /\ Top # 0 /\ frames[Top].kind # "view"
  BY <1>2, <1>3, <1>4
<1>6. /\ Hold(frames[Top], None) /\ frames' = Down(frames, Top - 1)
      /\ next_frame_id' = next_frame_id /\ outcome' = outcome
      /\ status' = status /\ written' = written
  BY <1>5, Zenon DEF pop
<1>. QED
  BY <1>1, <1>2, <1>3, <1>6

\* It leaves the stack in order.
LEMMA PopStep == StackInv /\ pop => StackInv'
<1>. SUFFICES ASSUME StackInv, pop PROVE StackInv'
  OBVIOUS
<1>2. PICK n : n = Inner
  OBVIOUS
<1>3. PICK b : b = activations[n].base
  OBVIOUS
<1>4. PICK t : t = activations[n].target
  OBVIOUS
<1>1. status = "running" /\ outcome = "none" /\ b < Top
  BY <1>2, <1>3, PopForms
<1>5. /\ n \in Nat /\ b \in Nat /\ Top \in Nat /\ next_frame_id \in Nat /\ OnCaller
  BY <1>1, <1>2, <1>3, <1>4, OwnPart
<1>6. \A k \in (b + 1)..Top :
        /\ k = b + 1 => frames[k].kind = "root" /\ frames[k].id = t
        /\ k # b + 1 => frames[k].kind = "child" /\ frames[k].id # t
  BY <1>1, <1>2, <1>3, <1>4, OwnPart
<1>7. b < Top /\ Top > 0
  BY <1>1, <1>5
<1>9. /\ Hold(frames[Top], None) /\ frames' = Down(frames, Top - 1)
      /\ next_frame_id' = next_frame_id /\ outcome' = outcome
      /\ status' = status /\ written' = written
  BY <1>2, PopForms
<1>10. PICK m : m = Top - 1
  OBVIOUS
<1>11. PICK f : f = frames[Top]
  OBVIOUS
<1>12. frames \in Seq(Frame) /\ f \in Frame
  BY <1>1, <1>5, <1>7, <1>11, Typed
<1>13. m \in 0..Top /\ m \in Nat /\ b <= m
  BY <1>5, <1>7, <1>10
<1>14. /\ frames' \in Seq(Frame) /\ Len(frames') = m /\ OnCaller'
       /\ \A k \in 1..m : frames'[k] = frames[k]
  BY <1>5, <1>9, <1>10, <1>12, <1>13, OnCallerDown
<1>15. \A k \in (b + 1)..m :
         /\ k = b + 1 => frames'[k].kind = "root" /\ frames'[k].id = t
         /\ k # b + 1 => frames'[k].kind = "child" /\ frames'[k].id # t
  <2>1. \A k \in (b + 1)..m : k \in (b + 1)..Top /\ k \in 1..m
    BY <1>5, <1>13
  <2>. QED
    BY <1>6, <1>14, <2>1
<1>16. \/ f.kind = "root" /\ f.id = t /\ m = b
       \/ f.kind = "child" /\ f.id # t /\ b < m /\ f.caller = frames'[m].id
  <2>1. CASE Top = b + 1
    BY <1>5, <1>6, <1>7, <1>10, <1>11, <2>1
  <2>2. CASE Top # b + 1
    <3>1. f.kind = "child" /\ f.id # t /\ b < m
      BY <1>5, <1>6, <1>7, <1>10, <1>11, <2>2
    <3>2. f.caller = frames[m].id
      BY <1>5, <1>7, <1>10, <1>11, <3>1 DEF OnCaller
    <3>3. frames'[m] = frames[m]
      BY <1>5, <1>13, <1>14, <3>1
    <3>. QED
      BY <3>1, <3>2, <3>3
  <2>. QED
    BY <2>1, <2>2
<1>17. \A k \in 1..b : frames'[k] = frames[k]
  BY <1>5, <1>13, <1>14
<1>18. /\ next_frame_id' \in 1..(MaxFrames + 1) /\ next_frame_id' >= next_frame_id
       /\ outcome' = "none" /\ status' = "running" /\ written' \in [FrameIds -> 0..MaxWrites]
  BY <1>1, <1>5, <1>9 DEF StackInv, TypeOK
<1>19. f \in Frame \cup {None} /\ None \in Frame \cup {None} /\ f # None /\ Hold(f, None)
  BY <1>9, <1>11, <1>12, NoneAssumption
<1>. QED
  BY <1>1, <1>2, <1>3, <1>4, <1>13, <1>14, <1>15, <1>16, <1>17, <1>18, <1>19, HoldKeeps

\* What the innermost activation holds while it interprets an instruction.
LEMMA Runs ==
  ASSUME StackInv, Executing, NEW n, n = Inner, NEW b, b = activations[n].base,
         NEW t, t = activations[n].target, NEW f, f = activations[n].popped
  PROVE  /\ status = "running" /\ outcome = "none" /\ Current = activations[n]
         /\ f \in Frame /\ f # None /\ b \in Nat /\ Top \in Nat /\ b <= Top
         /\ activations[n].returned \in Frame \cup {None}
         /\ \/ f.kind = "root" /\ f.id = t /\ Top = b
            \/ f.kind = "child" /\ f.id # t /\ b < Top /\ f.caller = frames[Top].id
<1>1. status = "running" /\ outcome = "none" /\ Current.popped # None
  BY DEF Executing, Driving
<1>2. /\ b \in Nat /\ Top \in Nat /\ b <= Top /\ Current = activations[n]
      /\ activations[n] \in Activation
  BY <1>1, OwnPart
<1>3. f # None /\ f \in Frame /\ activations[n].returned \in Frame \cup {None}
  BY <1>1, <1>2, Fields
<1>4. \/ f.kind = "root" /\ f.id = t /\ Top = b
      \/ f.kind = "child" /\ f.id # t /\ b < Top /\ f.caller = frames[Top].id
  BY <1>1, <1>3, OwnPart
<1>. QED
  BY <1>1, <1>2, <1>3, <1>4

\* A step that only lets go of the frame held.
LEMMA LetGo ==
  ASSUME StackInv, status = "running", NEW n, n = Inner, NEW r \in Frame \cup {None},
         Hold(None, r), frames' = frames, next_frame_id' = next_frame_id,
         status' = status, written' = written, outcome' \in {"none"} \cup Ends,
         outcome' = "none" => activations[n].base < Top,
         outcome' = "ok" => Top = activations[n].base
  PROVE  StackInv'
<1>1. PICK b : b = activations[n].base
  OBVIOUS
<1>2. PICK t : t = activations[n].target
  OBVIOUS
<1>3. b \in Nat /\ Top \in Nat /\ b <= Top /\ OnCaller /\ next_frame_id \in Nat
  BY <1>1, <1>2, OwnPart
<1>4. \A k \in (b + 1)..Top :
        /\ k = b + 1 => frames[k].kind = "root" /\ frames[k].id = t
        /\ k # b + 1 => frames[k].kind = "child" /\ frames[k].id # t
  BY <1>1, <1>2, OwnPart
<1>5. PICK m : m = Top
  OBVIOUS
<1>6. m = Len(frames') /\ frames' \in Seq(Frame)
  BY <1>5, Typed DEF Top
<1>7. OnCaller'
  BY <1>3 DEF OnCaller, Top
<1>8. \A k \in (b + 1)..m :
        /\ k = b + 1 => frames'[k].kind = "root" /\ frames'[k].id = t
        /\ k # b + 1 => frames'[k].kind = "child" /\ frames'[k].id # t
  BY <1>4, <1>5
<1>9. next_frame_id' \in 1..(MaxFrames + 1) /\ written' \in [FrameIds -> 0..MaxWrites]
  BY DEF StackInv, TypeOK
<1>10. next_frame_id' >= next_frame_id /\ status' = "running" /\ b <= m
  BY <1>3, <1>5
<1>11. \A k \in 1..b : frames'[k].id = frames[k].id /\ frames'[k].kind = frames[k].kind
  OBVIOUS
<1>12. PICK f \in Frame \cup {None} : f = None
  OBVIOUS
<1>13. Hold(f, r)
  BY <1>12
<1>14. f # None => \/ f.kind = "root" /\ f.id = t /\ m = b
                   \/ f.kind = "child" /\ f.id # t /\ b < m /\ f.caller = frames'[m].id
  BY <1>12
<1>15. (outcome' = "none" /\ f = None) => b < m
  BY <1>1, <1>5
<1>16. outcome' # "none" => f = None
  BY <1>12
<1>17. outcome' = "ok" => m = b
  BY <1>1, <1>5
<1>. QED
  BY <1>1, <1>2, <1>6, <1>7, <1>8, <1>9, <1>10, <1>11, <1>12, <1>13, <1>14, <1>15, <1>16,
     <1>17, HoldKeeps, SMTT(60)

\* The target's return ends its activation with the stack at its base; any other
\* frame is a child, and lies on its caller.
LEMMA FinishStep == StackInv /\ finish_frame => StackInv'
<1>. SUFFICES ASSUME StackInv, finish_frame PROVE StackInv'
  OBVIOUS
<1>1. PICK n : n = Inner
  OBVIOUS
<1>2. PICK f : f = activations[n].popped
  OBVIOUS
<1>3. Executing
  BY DEF finish_frame
<1>4. /\ status = "running" /\ outcome = "none" /\ Current = activations[n] /\ f \in Frame
      /\ activations[n].base \in Nat /\ Top \in Nat
  BY <1>1, <1>2, <1>3, Runs
<1>5. \/ f.kind = "root" /\ f.id = activations[n].target /\ Top = activations[n].base
      \/ f.kind = "child" /\ f.id # activations[n].target /\ activations[n].base < Top
  BY <1>1, <1>2, <1>3, Runs
<1>6. CASE f.id = Current.target /\ End("ok", f)
  <2>1. /\ outcome' = "ok" /\ Hold(None, f) /\ frames' = frames
        /\ next_frame_id' = next_frame_id /\ status' = status /\ written' = written
    BY <1>6 DEF End
  <2>2. Top = activations[n].base
    BY <1>4, <1>5, <1>6
  <2>3. f \in Frame \cup {None} /\ outcome' \in {"none"} \cup Ends /\ outcome' # "none"
    BY <1>4, <2>1 DEF Ends
  <2>. QED
    BY <1>1, <1>4, <2>1, <2>2, <2>3, LetGo
<1>7. CASE f.id # Current.target /\ f.kind = "child" /\ ToCaller
  <2>1. /\ outcome' = outcome /\ Hold(None, None) /\ frames' = frames
        /\ next_frame_id' = next_frame_id /\ status' = status /\ written' = written
    BY <1>7 DEF ToCaller
  <2>2. activations[n].base < Top
    BY <1>4, <1>5, <1>7
  <2>3. None \in Frame \cup {None} /\ outcome' \in {"none"} \cup Ends /\ outcome' # "ok"
    BY <1>4, <2>1
  <2>. QED
    BY <1>1, <1>4, <2>1, <2>2, <2>3, LetGo
<1>8. Current.popped = f /\ ~(f.id # Current.target /\ f.kind # "child")
      /\ ~(f.id # Current.target /\ f.kind = "child" /\ Top = 0)
  BY <1>2, <1>4, <1>5
<1>. QED
  BY <1>6, <1>7, <1>8, Zenon DEF finish_frame

\* A raise reaches the caller it lies on, or ends its activation.
LEMMA ErrorReturnStep == StackInv /\ error_return => StackInv'
<1>. SUFFICES ASSUME StackInv, error_return PROVE StackInv'
  OBVIOUS
<1>1. PICK n : n = Inner
  OBVIOUS
<1>2. PICK f : f = activations[n].popped
  OBVIOUS
<1>3. Executing
  BY DEF error_return
<1>4. /\ status = "running" /\ outcome = "none" /\ Current = activations[n] /\ f \in Frame
      /\ activations[n].base \in Nat /\ Top \in Nat
  BY <1>1, <1>2, <1>3, Runs
<1>5. \/ f.kind = "root" /\ f.id = activations[n].target /\ Top = activations[n].base
      \/ f.kind = "child" /\ f.id # activations[n].target /\ activations[n].base < Top
  BY <1>1, <1>2, <1>3, Runs
<1>6. CASE End("raised", None)
  <2>1. /\ outcome' = "raised" /\ Hold(None, None) /\ frames' = frames
        /\ next_frame_id' = next_frame_id /\ status' = status /\ written' = written
    BY <1>6 DEF End
  <2>2. None \in Frame \cup {None} /\ outcome' \in {"none"} \cup Ends
        /\ outcome' # "none" /\ outcome' # "ok"
    BY <2>1 DEF Ends
  <2>. QED
    BY <1>1, <1>4, <2>1, <2>2, LetGo
<1>7. CASE f.id # Current.target /\ ToCaller
  <2>1. /\ outcome' = outcome /\ Hold(None, None) /\ frames' = frames
        /\ next_frame_id' = next_frame_id /\ status' = status /\ written' = written
    BY <1>7 DEF ToCaller
  <2>2. activations[n].base < Top
    BY <1>4, <1>5, <1>7
  <2>3. None \in Frame \cup {None} /\ outcome' \in {"none"} \cup Ends /\ outcome' # "ok"
    BY <1>4, <2>1
  <2>. QED
    BY <1>1, <1>4, <2>1, <2>2, <2>3, LetGo
<1>8. Current.popped = f /\ ~(f.id # Current.target /\ Top = 0)
  BY <1>2, <1>4, <1>5
<1>. QED
  BY <1>6, <1>7, <1>8, Zenon DEF error_return

\* An instruction that fails ends its activation.
LEMMA FailStep == StackInv /\ fail => StackInv'
<1>. SUFFICES ASSUME StackInv, fail PROVE StackInv'
  OBVIOUS
<1>1. PICK n : n = Inner
  OBVIOUS
<1>2. PICK o \in {"raised", "error"} : End(o, None)
  BY DEF fail
<1>3. status = "running"
  BY DEF fail, Executing, Driving
<1>4. /\ outcome' = o /\ Hold(None, None) /\ frames' = frames
      /\ next_frame_id' = next_frame_id /\ status' = status /\ written' = written
  BY <1>2 DEF End
<1>5. None \in Frame \cup {None} /\ outcome' \in {"none"} \cup Ends
      /\ outcome' # "none" /\ outcome' # "ok"
  BY <1>4 DEF Ends
<1>. QED
  BY <1>1, <1>3, <1>4, <1>5, LetGo

\* A stack that grows leaves children on their callers, if the new ones are.
LEMMA OnCallerUp ==
  ASSUME OnCaller, frames \in Seq(Frame), frames' \in Seq(Frame), NEW m \in Nat,
         Len(frames') = m, Top <= m, \A k \in 1..Top : frames'[k] = frames[k],
         \A k \in (Top + 1)..m :
           frames'[k].kind = "child" => k > 1 /\ frames'[k - 1].id = frames'[k].caller
  PROVE  OnCaller'
<1>1. Top \in Nat /\ Top' = m
  BY DEF Top
<1>2. ASSUME NEW k \in 1..m, frames'[k].kind = "child"
      PROVE  k > 1 /\ frames'[k - 1].id = frames'[k].caller
  <2>1. CASE k \in 1..Top
    <3>1. k > 1 /\ frames[k - 1].id = frames[k].caller
      BY <1>2, <2>1 DEF OnCaller
    <3>2. k - 1 \in 1..Top
      BY <1>1, <2>1, <3>1
    <3>. QED
      BY <2>1, <3>1, <3>2
  <2>2. CASE k \notin 1..Top
    <3>1. k \in (Top + 1)..m
      BY <1>1, <2>2
    <3>. QED
      BY <1>2, <3>1
  <2>. QED
    BY <2>1, <2>2
<1>. QED
  BY <1>1, <1>2 DEF OnCaller

\* The frame held goes back where it was: on its caller, or on the base.
LEMMA PushBackStep == StackInv /\ push_back => StackInv'
<1>. SUFFICES ASSUME StackInv, push_back PROVE StackInv'
  OBVIOUS
<1>0. Executing
  BY DEF push_back
<1>1. PICK n : n = Inner
  OBVIOUS
<1>2. PICK b : b = activations[n].base
  OBVIOUS
<1>3. PICK t : t = activations[n].target
  OBVIOUS
<1>4. PICK g : g = activations[n].popped
  OBVIOUS
<1>5. /\ status = "running" /\ outcome = "none" /\ Current = activations[n]
      /\ g \in Frame /\ b \in Nat /\ Top \in Nat /\ b <= Top
  BY <1>0, <1>1, <1>2, <1>3, <1>4, Runs
<1>6. \/ g.kind = "root" /\ g.id = t /\ Top = b
      \/ g.kind = "child" /\ g.id # t /\ b < Top /\ g.caller = frames[Top].id
  BY <1>0, <1>1, <1>2, <1>3, <1>4, Runs
<1>7. OnCaller /\ next_frame_id \in Nat
  BY <1>1, <1>2, <1>3, <1>5, OwnPart
<1>8. \A k \in (b + 1)..Top :
        /\ k = b + 1 => frames[k].kind = "root" /\ frames[k].id = t
        /\ k # b + 1 => frames[k].kind = "child" /\ frames[k].id # t
  BY <1>1, <1>2, <1>3, <1>5, OwnPart
<1>9. frames \in Seq(Frame) /\ Len(frames) = Top
  BY <1>5, Typed
<1>10. /\ frames' = Append(frames, g) /\ Hold(None, None)
       /\ next_frame_id' = next_frame_id /\ outcome' = outcome
       /\ status' = status /\ written' = written
  BY <1>4, <1>5 DEF push_back
<1>11. PICK m : m = Top + 1
  OBVIOUS
<1>12. /\ frames' \in Seq(Frame) /\ m = Len(frames') /\ frames'[m] = g
       /\ \A k \in 1..Top : frames'[k] = frames[k]
  BY <1>5, <1>9, <1>10, <1>11
<1>13. m \in Nat /\ b <= m /\ b < m /\ Top <= m
  BY <1>5, <1>11
<1>14. \A k \in (b + 1)..m :
         /\ k = b + 1 => frames'[k].kind = "root" /\ frames'[k].id = t
         /\ k # b + 1 => frames'[k].kind = "child" /\ frames'[k].id # t
  <2>. TAKE k \in (b + 1)..m
  <2>1. CASE k = m
    BY <1>5, <1>6, <1>11, <1>12, <2>1
  <2>2. CASE k # m
    <3>1. k \in (b + 1)..Top /\ k \in 1..Top
      BY <1>5, <1>11, <2>2
    <3>. QED
      BY <1>8, <1>12, <3>1
  <2>. QED
    BY <2>1, <2>2
<1>15. OnCaller'
  <2>1. \A k \in (Top + 1)..m :
          frames'[k].kind = "child" => k > 1 /\ frames'[k - 1].id = frames'[k].caller
    <3>. SUFFICES ASSUME NEW k \in (Top + 1)..m, frames'[k].kind = "child"
                  PROVE  k > 1 /\ frames'[k - 1].id = frames'[k].caller
      OBVIOUS
    <3>1. k = m /\ k - 1 = Top
      BY <1>5, <1>11
    <3>2. b < Top /\ g.caller = frames[Top].id
      BY <1>6, <1>12, <3>1
    <3>3. Top \in 1..Top
      BY <1>5, <3>2
    <3>. QED
      BY <1>5, <1>12, <1>11, <3>1, <3>2, <3>3
  <2>. QED
    BY <1>7, <1>9, <1>12, <1>13, <2>1, OnCallerUp
<1>16. \A k \in 1..b : frames'[k] = frames[k]
  BY <1>5, <1>12
<1>17. /\ next_frame_id' \in 1..(MaxFrames + 1) /\ next_frame_id' >= next_frame_id
       /\ outcome' = "none" /\ status' = "running" /\ written' \in [FrameIds -> 0..MaxWrites]
  BY <1>5, <1>7, <1>10 DEF StackInv, TypeOK
<1>18. PICK f \in Frame \cup {None} : f = None
  OBVIOUS
<1>19. Hold(f, f)
  BY <1>10, <1>18
<1>. QED
  BY <1>1, <1>2, <1>3, <1>5, <1>12, <1>13, <1>14, <1>15, <1>16, <1>17, <1>18, <1>19,
     HoldKeeps, SMTT(60)

\* A frame just made.
LEMMA NewFrameFacts ==
  ASSUME StackInv, status = "running", next_frame_id <= MaxFrames,
         NEW kind \in {"child", "root"}, NEW edge \in BOOLEAN,
         NEW caller \in FrameIds \cup {None}
  PROVE  /\ NewFrame(kind, edge, caller) \in Frame
         /\ NewFrame(kind, edge, caller).kind = kind
         /\ NewFrame(kind, edge, caller).id = next_frame_id
         /\ NewFrame(kind, edge, caller).caller = caller
         /\ NewFrame(kind, edge, caller).vars = 0
         /\ next_frame_id \in FrameIds
         /\ next_frame_id + 1 \in 1..(MaxFrames + 1)
<1>1. next_frame_id \in 1..(MaxFrames + 1)
  BY DEF StackInv, TypeOK
<1>2. next_frame_id \in FrameIds /\ next_frame_id + 1 \in 1..(MaxFrames + 1)
  BY <1>1, FramesAssumption DEF FrameIds
<1>3. 0 \in 0..MaxWrites
  BY FramesAssumption
<1>. QED
  BY <1>2, <1>3 DEF NewFrame, Frame

\* A direct call puts its caller back, and the callee on it.
LEMMA DirectCallStep ==
  ASSUME StackInv, NEW edge \in BOOLEAN, direct_call(edge)
  PROVE  StackInv'
<1>0. Executing /\ next_frame_id <= MaxFrames
  BY DEF direct_call, CanCall
<1>1. PICK n : n = Inner
  OBVIOUS
<1>2. PICK b : b = activations[n].base
  OBVIOUS
<1>3. PICK t : t = activations[n].target
  OBVIOUS
<1>4. PICK g : g = activations[n].popped
  OBVIOUS
<1>5. /\ status = "running" /\ outcome = "none" /\ Current = activations[n]
      /\ g \in Frame /\ b \in Nat /\ Top \in Nat /\ b <= Top
  BY <1>0, <1>1, <1>2, <1>3, <1>4, Runs
<1>6. \/ g.kind = "root" /\ g.id = t /\ Top = b
      \/ g.kind = "child" /\ g.id # t /\ b < Top /\ g.caller = frames[Top].id
  BY <1>0, <1>1, <1>2, <1>3, <1>4, Runs
<1>7. OnCaller /\ next_frame_id \in Nat /\ t \in Nat /\ t < next_frame_id
  BY <1>1, <1>2, <1>3, <1>5, OwnPart
<1>8. \A k \in (b + 1)..Top :
        /\ k = b + 1 => frames[k].kind = "root" /\ frames[k].id = t
        /\ k # b + 1 => frames[k].kind = "child" /\ frames[k].id # t
  BY <1>1, <1>2, <1>3, <1>5, OwnPart
<1>9. frames \in Seq(Frame) /\ Len(frames) = Top
  BY <1>5, Typed
<1>10. PICK h : h = NewFrame("child", edge, g.id)
  OBVIOUS
<1>11. /\ h \in Frame /\ h.kind = "child" /\ h.id = next_frame_id /\ h.caller = g.id
       /\ next_frame_id + 1 \in 1..(MaxFrames + 1)
  <2>1. g.id \in FrameIds \cup {None}
    BY <1>5, Fields
  <2>. QED
    BY <1>0, <1>5, <1>10, <2>1, NewFrameFacts
<1>12. /\ frames' = frames \o <<g, h>> /\ Hold(None, None)
       /\ next_frame_id' = next_frame_id + 1 /\ outcome' = outcome
       /\ status' = status /\ written' = written
  BY <1>4, <1>5, <1>10 DEF direct_call
<1>13. PICK m : m = Top + 2
  OBVIOUS
<1>14. /\ frames' \in Seq(Frame) /\ m = Len(frames') /\ frames'[Top + 1] = g
       /\ frames'[m] = h /\ \A k \in 1..Top : frames'[k] = frames[k]
  BY <1>5, <1>9, <1>11, <1>12, <1>13, MoreFacts
<1>15. m \in Nat /\ b <= m /\ b < m /\ Top <= m
  BY <1>5, <1>13
<1>16. \A k \in (b + 1)..m :
         /\ k = b + 1 => frames'[k].kind = "root" /\ frames'[k].id = t
         /\ k # b + 1 => frames'[k].kind = "child" /\ frames'[k].id # t
  <2>. TAKE k \in (b + 1)..m
  <2>1. CASE k = m
    <3>1. k # b + 1 /\ frames'[k] = h
      BY <1>5, <1>13, <1>14, <2>1
    <3>. QED
      BY <1>7, <1>11, <3>1
  <2>2. CASE k = Top + 1
    BY <1>5, <1>6, <1>14, <2>2
  <2>3. CASE k # m /\ k # Top + 1
    <3>1. k \in (b + 1)..Top /\ k \in 1..Top
      BY <1>5, <1>13, <2>3
    <3>. QED
      BY <1>8, <1>14, <3>1
  <2>. QED
    BY <2>1, <2>2, <2>3
<1>17. OnCaller'
  <2>1. \A k \in (Top + 1)..m :
          frames'[k].kind = "child" => k > 1 /\ frames'[k - 1].id = frames'[k].caller
    <3>. SUFFICES ASSUME NEW k \in (Top + 1)..m, frames'[k].kind = "child"
                  PROVE  k > 1 /\ frames'[k - 1].id = frames'[k].caller
      OBVIOUS
    <3>1. CASE k = m
      BY <1>5, <1>11, <1>13, <1>14, <3>1
    <3>2. CASE k # m
      <4>1. k = Top + 1 /\ k - 1 = Top
        BY <1>5, <1>13, <3>2
      <4>2. b < Top /\ g.caller = frames[Top].id
        BY <1>6, <1>14, <4>1
      <4>3. Top \in 1..Top
        BY <1>5, <4>2
      <4>. QED
        BY <1>5, <1>14, <4>1, <4>2, <4>3
    <3>. QED
      BY <3>1, <3>2
  <2>. QED
    BY <1>7, <1>9, <1>14, <1>15, <2>1, OnCallerUp
<1>18. \A k \in 1..b : frames'[k] = frames[k]
  BY <1>5, <1>14
<1>19. /\ next_frame_id' \in 1..(MaxFrames + 1) /\ next_frame_id' >= next_frame_id
       /\ outcome' = "none" /\ status' = "running" /\ written' \in [FrameIds -> 0..MaxWrites]
  BY <1>5, <1>7, <1>11, <1>12 DEF StackInv, TypeOK
<1>20. PICK f \in Frame \cup {None} : f = None
  OBVIOUS
<1>21. Hold(f, f)
  BY <1>12, <1>20
<1>22. status = "running" /\ frames' \in Seq(Frame) /\ m = Len(frames') /\ b <= m /\ b < m
  BY <1>5, <1>14, <1>15
<1>. QED
  BY <1>1, <1>2, <1>3, <1>16, <1>17, <1>18, <1>19, <1>20, <1>21, <1>22, HoldKeeps, ZenonT(60)

\* A frame, a stack and the frame held after a write.
Written(f, w) == [f EXCEPT !.vars = w]
WrittenAt(s, k, w) == [s EXCEPT ![k].vars = w]
HeldWritten(w) == [activations EXCEPT ![Inner].popped.vars = w]

\* A write on the stack changes the variables of one frame.
LEMMA WriteThrough ==
  ASSUME NEW s \in Seq(Frame), NEW K, NEW w \in 0..MaxWrites,
         NEW s2, s2 = WrittenAt(s, K, w)
  PROVE  /\ s2 \in Seq(Frame) /\ Len(s2) = Len(s)
         /\ \A k \in 1..Len(s) : /\ s2[k].id = s[k].id /\ s2[k].kind = s[k].kind
                                 /\ s2[k].caller = s[k].caller
                                 /\ s2[k].vars = IF k = K THEN w ELSE s[k].vars
<1>1. ASSUME NEW g \in Frame
      PROVE  /\ [g EXCEPT !.vars = w] \in Frame /\ [g EXCEPT !.vars = w].id = g.id
             /\ [g EXCEPT !.vars = w].kind = g.kind /\ [g EXCEPT !.vars = w].caller = g.caller
             /\ [g EXCEPT !.vars = w].vars = w
  BY DEF Frame
<1>2. CASE K \in 1..Len(s)
  <2>1. PICK h : h = [s[K] EXCEPT !.vars = w]
    OBVIOUS
  <2>2. /\ h \in Frame /\ h.id = s[K].id /\ h.kind = s[K].kind /\ h.caller = s[K].caller
        /\ h.vars = w
    <3>1. s[K] \in Frame
      BY <1>2
    <3>. QED
      BY <1>1, <2>1, <3>1
  <2>3. s2 = [s EXCEPT ![K] = h]
    BY <2>1 DEF WrittenAt
  <2>4. /\ s2 \in Seq(Frame) /\ Len(s2) = Len(s) /\ s2[K] = h
        /\ \A k \in 1..Len(s) : k # K => s2[k] = s[k]
    BY <1>2, <2>2, <2>3
  <2>. QED
    BY <2>2, <2>4
<1>3. CASE K \notin 1..Len(s)
  <2>1. s2 = s
    BY <1>3 DEF WrittenAt
  <2>. QED
    BY <1>3, <2>1
<1>. QED
  BY <1>2, <1>3

\* A write to its own variables changes nothing else of the frame held.
LEMMA WriteHeld ==
  ASSUME StackInv, Executing, NEW n, n = Inner, NEW w \in 0..MaxWrites,
         NEW h, h = Written(activations[n].popped, w), activations' = HeldWritten(w)
  PROVE  /\ Hold(h, activations[n].returned)
         /\ h \in Frame /\ h.id = activations[n].popped.id
         /\ h.kind = activations[n].popped.kind /\ h.caller = activations[n].popped.caller
         /\ h.vars = w
<1>1. PICK a \in Activation : a = activations[n]
  <2>1. status = "running"
    BY DEF Executing, Driving
  <2>. QED
    BY <2>1, Typed
<1>2. PICK g \in Frame : g = a.popped
  BY <1>1, Runs
<1>3. h = [g EXCEPT !.vars = w]
  BY <1>1, <1>2 DEF Written
<1>4. h \in Frame /\ h.id = g.id /\ h.kind = g.kind /\ h.caller = g.caller /\ h.vars = w
  BY <1>3 DEF Frame
<1>5. [a EXCEPT !.popped = h, !.returned = a.returned] = [a EXCEPT !.popped.vars = w]
  <2>1. [a EXCEPT !.popped.vars = w] = [a EXCEPT !.popped = h]
    BY <1>2, <1>3
  <2>2. [a EXCEPT !.popped = h, !.returned = a.returned] = [a EXCEPT !.popped = h]
    BY DEF Activation
  <2>. QED
    BY <2>1, <2>2
<1>6. activations' = [activations EXCEPT ![Inner] = [a EXCEPT !.popped = h, !.returned = a.returned]]
  <2>1. activations' = [activations EXCEPT ![Inner] = [a EXCEPT !.popped.vars = w]]
    BY <1>1 DEF HeldWritten
  <2>. QED
    BY <1>5, <2>1
<1>7. Hold(h, activations[n].returned)
  BY <1>1, <1>6 DEF Hold
<1>. QED
  BY <1>1, <1>2, <1>4, <1>7

\* Writes leave the stack and the frame held where they are.
LEMMA WriteKeeps ==
  ASSUME StackInv, Executing, NEW n, n = Inner, NEW h \in Frame, NEW r \in Frame \cup {None},
         Hold(h, r), h.id = activations[n].popped.id, h.kind = activations[n].popped.kind,
         h.caller = activations[n].popped.caller,
         frames' \in Seq(Frame), Len(frames') = Len(frames),
         \A k \in 1..Len(frames) : /\ frames'[k].id = frames[k].id
                                   /\ frames'[k].kind = frames[k].kind
                                   /\ frames'[k].caller = frames[k].caller,
         next_frame_id' = next_frame_id, outcome' = outcome, status' = status,
         written' \in [FrameIds -> 0..MaxWrites]
  PROVE  StackInv'
<1>1. PICK b : b = activations[n].base
  OBVIOUS
<1>2. PICK t : t = activations[n].target
  OBVIOUS
<1>3. PICK m : m = Len(frames')
  OBVIOUS
<1>4. status = "running" /\ outcome = "none" /\ b \in Nat /\ Top \in Nat /\ b <= Top /\ m = Top
  BY <1>1, <1>2, <1>3, Runs DEF Top
<1>5. \/ h.kind = "root" /\ h.id = t /\ Top = b
      \/ h.kind = "child" /\ h.id # t /\ b < Top /\ h.caller = frames[Top].id
  BY <1>1, <1>2, Runs
<1>6. OnCaller /\ next_frame_id \in Nat
  BY <1>1, <1>2, <1>4, OwnPart
<1>7. \A k \in (b + 1)..Top :
        /\ k = b + 1 => frames[k].kind = "root" /\ frames[k].id = t
        /\ k # b + 1 => frames[k].kind = "child" /\ frames[k].id # t
  BY <1>1, <1>2, <1>4, OwnPart
<1>8. \A k \in 1..m : /\ frames'[k].id = frames[k].id
                      /\ frames'[k].kind = frames[k].kind
                      /\ frames'[k].caller = frames[k].caller
  BY <1>3
<1>9. \A k \in (b + 1)..m :
        /\ k = b + 1 => frames'[k].kind = "root" /\ frames'[k].id = t
        /\ k # b + 1 => frames'[k].kind = "child" /\ frames'[k].id # t
  <2>1. \A k \in (b + 1)..m : k \in (b + 1)..Top /\ k \in 1..m
    BY <1>4
  <2>. QED
    BY <1>7, <1>8, <2>1
<1>10. \/ h.kind = "root" /\ h.id = t /\ m = b
       \/ h.kind = "child" /\ h.id # t /\ b < m /\ h.caller = frames'[m].id
  <2>1. b < m => m \in 1..m
    BY <1>4
  <2>. QED
    BY <1>4, <1>5, <1>8, <2>1
<1>11. OnCaller'
  <2>1. ASSUME NEW k \in 1..m, frames'[k].kind = "child"
        PROVE  k > 1 /\ frames'[k - 1].id = frames'[k].caller
    <3>1. k > 1 /\ frames[k - 1].id = frames[k].caller
      BY <1>4, <1>6, <1>8, <2>1 DEF OnCaller
    <3>2. k - 1 \in 1..m
      BY <1>4, <3>1
    <3>. QED
      BY <1>8, <3>1, <3>2
  <2>2. Top' = m
    BY <1>3 DEF Top
  <2>. QED
    BY <2>1, <2>2 DEF OnCaller
<1>12. \A k \in 1..b : frames'[k].id = frames[k].id /\ frames'[k].kind = frames[k].kind
  BY <1>4, <1>8
<1>13. /\ next_frame_id' \in 1..(MaxFrames + 1) /\ next_frame_id' >= next_frame_id
       /\ outcome' = "none" /\ status' = "running"
  BY <1>4, <1>6 DEF StackInv, TypeOK
<1>14. h \in Frame \cup {None} /\ h # None /\ b <= m
  BY <1>4, NoneAssumption
<1>. QED
  BY <1>1, <1>2, <1>3, <1>4, <1>9, <1>10, <1>11, <1>12, <1>13, <1>14, HoldKeeps, SMTT(60)

\* The two forms of a write.
LEMMA WriteForms ==
  ASSUME StackInv, NEW f \in FrameIds, write(f), NEW n, n = Inner
  PROVE  /\ Executing /\ next_frame_id' = next_frame_id /\ outcome' = outcome
         /\ status' = status /\ status = "running"
         /\ written[f] + 1 \in 0..MaxWrites /\ written' = [written EXCEPT ![f] = written[f] + 1]
         /\ written' \in [FrameIds -> 0..MaxWrites]
         /\ \E h \in Frame :
              /\ Hold(h, activations[n].returned)
              /\ h.id = activations[n].popped.id /\ h.kind = activations[n].popped.kind
              /\ h.caller = activations[n].popped.caller
              /\ h.vars = IF f = activations[n].popped.id THEN written[f] + 1
                          ELSE activations[n].popped.vars
         /\ frames' \in Seq(Frame) /\ Len(frames') = Len(frames)
         /\ \A k \in 1..Len(frames) : /\ frames'[k].id = frames[k].id
                                      /\ frames'[k].kind = frames[k].kind
                                      /\ frames'[k].caller = frames[k].caller
         /\ f = activations[n].popped.id => frames' = frames
         /\ f # activations[n].popped.id =>
              /\ \E k \in DOMAIN frames : frames[k].id = f
              /\ \A k \in 1..Len(frames) :
                   frames'[k].vars = IF k = FirstOf(f) THEN written[f] + 1 ELSE frames[k].vars
<1>1. Executing /\ next_frame_id' = next_frame_id /\ outcome' = outcome /\ status' = status
  BY DEF write
<1>2. status = "running" /\ Current = activations[n] /\ activations[n].popped \in Frame
  BY <1>1, Runs
<1>3. PICK w : w = written[f] + 1
  OBVIOUS
<1>4. w \in 0..MaxWrites /\ written' = [written EXCEPT ![f] = w]
      /\ written' \in [FrameIds -> 0..MaxWrites]
  <2>1. written[f] \in 0..MaxWrites /\ written[f] < MaxWrites
        /\ written \in [FrameIds -> 0..MaxWrites] /\ written' = [written EXCEPT ![f] = w]
    BY <1>3 DEF write, StackInv, TypeOK
  <2>2. w \in 0..MaxWrites
    BY <1>3, <2>1, FramesAssumption
  <2>. QED
    BY <2>1, <2>2
<1>5. frames \in Seq(Frame) /\ activations[n] \in Activation /\ activations \in Seq(Activation)
      /\ n \in 1..Len(activations)
  BY <1>2, Typed DEF Acts
<1>6. CASE f = activations[n].popped.id
  <2>1. activations' = HeldWritten(w) /\ frames' = frames
    BY <1>2, <1>3, <1>6 DEF write, HeldWritten
  <2>2. PICK h : h = Written(activations[n].popped, w)
    OBVIOUS
  <2>3. /\ Hold(h, activations[n].returned)
        /\ h \in Frame /\ h.id = activations[n].popped.id
        /\ h.kind = activations[n].popped.kind /\ h.caller = activations[n].popped.caller
        /\ h.vars = w
    BY <1>1, <1>4, <2>1, <2>2, WriteHeld
  <2>. QED
    BY <1>1, <1>2, <1>3, <1>4, <1>5, <1>6, <2>1, <2>3
<1>7. CASE f # activations[n].popped.id
  <2>1. /\ activations' = activations /\ frames' = [frames EXCEPT ![FirstOf(f)].vars = w]
        /\ \E k \in DOMAIN frames : frames[k].id = f
    BY <1>2, <1>3, <1>7 DEF write
  <2>2. PICK h \in Frame : h = activations[n].popped
    BY <1>2
  <2>3. Hold(h, activations[n].returned)
    <3>1. PICK a \in Activation : a = activations[n]
      BY <1>5
    <3>2. [a EXCEPT !.popped = a.popped, !.returned = a.returned] = a
      BY DEF Activation
    <3>3. activations' = [activations EXCEPT ![Inner] = a]
      BY <1>5, <2>1, <3>1
    <3>. QED
      BY <2>2, <3>1, <3>2, <3>3 DEF Hold
  <2>4. PICK K : K = FirstOf(f)
    OBVIOUS
  <2>5. /\ frames' \in Seq(Frame) /\ Len(frames') = Len(frames)
        /\ \A k \in 1..Len(frames) : /\ frames'[k].id = frames[k].id
                                     /\ frames'[k].kind = frames[k].kind
                                     /\ frames'[k].caller = frames[k].caller
                                     /\ frames'[k].vars = IF k = K THEN w ELSE frames[k].vars
    <3>1. frames' = WrittenAt(frames, K, w)
      BY <2>1, <2>4 DEF WrittenAt
    <3>. QED
      BY <1>4, <1>5, <3>1, WriteThrough
  <2>6. \E x \in Frame :
          /\ Hold(x, activations[n].returned)
          /\ x.id = activations[n].popped.id /\ x.kind = activations[n].popped.kind
          /\ x.caller = activations[n].popped.caller
          /\ x.vars = IF f = activations[n].popped.id THEN written[f] + 1
                      ELSE activations[n].popped.vars
    BY <1>7, <2>2, <2>3
  <2>. QED
    BY <1>1, <1>2, <1>3, <1>4, <1>7, <2>1, <2>4, <2>5, <2>6
<1>. QED
  BY <1>6, <1>7

\* A write, to whatever frame.
LEMMA WriteStep ==
  ASSUME StackInv, NEW f \in FrameIds, write(f)
  PROVE  StackInv'
<1>1. PICK n : n = Inner
  OBVIOUS
<1>2. /\ Executing /\ next_frame_id' = next_frame_id /\ outcome' = outcome
      /\ status' = status /\ written' \in [FrameIds -> 0..MaxWrites]
  BY <1>1, WriteForms
<1>3. PICK h \in Frame :
        /\ Hold(h, activations[n].returned)
        /\ h.id = activations[n].popped.id /\ h.kind = activations[n].popped.kind
        /\ h.caller = activations[n].popped.caller
  BY <1>1, WriteForms
<1>4. /\ frames' \in Seq(Frame) /\ Len(frames') = Len(frames)
      /\ \A k \in 1..Len(frames) : /\ frames'[k].id = frames[k].id
                                   /\ frames'[k].kind = frames[k].kind
                                   /\ frames'[k].caller = frames[k].caller
  BY <1>1, WriteForms
<1>5. PICK r \in Frame \cup {None} : r = activations[n].returned
  BY <1>1, <1>2, Runs
<1>6. Hold(h, r)
  BY <1>3, <1>5
<1>. QED
  BY <1>1, <1>2, <1>3, <1>4, <1>6, WriteKeeps

-----------------------------------------------------------------------------
(* Synchronous calls: a new activation on the stack. *)

\* An activation just made.
LEMMA NewActivationFacts ==
  ASSUME next_frame_id \in FrameIds, NEW base \in Nat, NEW views \in 0..2,
         NEW edge \in BOOLEAN, NEW mirror \in BOOLEAN,
         NEW a, a = NewActivation(base, views, edge, mirror)
  PROVE  /\ a \in Activation /\ a.base = base /\ a.views = views /\ a.popped = None
         /\ a.returned = None /\ a.target = next_frame_id /\ a.edge = edge /\ a.mirror = mirror
BY DEF NewActivation, Activation

\* The calling activation keeps its part, up to the views, and the new one has
\* its root on them.
LEMMA CallKeeps ==
  ASSUME StackInv, Executing, next_frame_id <= MaxFrames, NEW n, n = Inner, NEW v \in 0..2,
         v = 2 => activations[n].returned # None,
         NEW a \in Activation, a.base = Top + v, a.views = v, a.popped = None,
         a.target = next_frame_id, activations' = Append(activations, a),
         frames' \in Seq(Frame), NEW m, m = Len(frames'), m = Top + v + 1,
         \A k \in 1..Top : frames'[k] = frames[k],
         \A k \in (Top + 1)..(Top + v) : frames'[k].kind = "view",
         frames'[m].kind = "root", frames'[m].id = next_frame_id,
         next_frame_id' = next_frame_id + 1, outcome' = outcome, status' = status,
         written' = written
  PROVE  StackInv'
<1>1. /\ status = "running" /\ outcome = "none" /\ activations[n].popped # None
      /\ Top \in Nat
  BY Runs
<1>2. /\ n \in Nat /\ n >= 1 /\ n \in Acts /\ activations \in Seq(Activation)
      /\ Len(activations) = n /\ next_frame_id \in Nat /\ frames \in Seq(Frame)
      /\ Acts = 1..n
  BY <1>1, Typed DEF Acts
<1>3. Nested /\ Parts /\ OnCaller /\ Control
  BY <1>1, Typed DEF Stacked
<1>4. PICK T \in Nat : T = Top
  BY <1>1
<1>5. /\ activations' \in Seq(Activation) /\ Len(activations') = n + 1
      /\ activations'[n + 1] = a /\ \A i \in 1..n : activations'[i] = activations[i]
  BY <1>2
<1>6. Inner' = n + 1 /\ Acts' = 1..(n + 1) /\ Current' = a /\ Top' = m /\ m \in Nat
  BY <1>4, <1>5 DEF Inner, Acts, Current, Top
<1>7. ASSUME NEW i \in 1..n
      PROVE  /\ Reach(i)' = Reach(i) /\ Reach(i) \in Nat /\ Reach(i) <= T
             /\ activations[i].base \in Nat /\ activations[i].target \in Nat
  <2>1. Reach(i) \in Nat /\ Reach(i) <= T /\ activations[i].base \in Nat
        /\ activations[i] \in Activation
    BY <1>1, <1>2, <1>4, Typed
  <2>2. activations[i].target \in Nat
    BY <2>1, Fields
  <2>3. CASE i = n
    <3>1. Reach(i)' = a.base - a.views
      BY <1>2, <1>5, <1>6, <2>3 DEF Reach
    <3>2. Reach(i) = T
      BY <1>4, <2>3 DEF Reach
    <3>. QED
      BY <1>4, <2>1, <2>2, <3>1, <3>2
  <2>4. CASE i # n
    <3>1. i + 1 \in 1..n /\ i # n + 1
      BY <1>2, <2>4
    <3>2. Reach(i)' = activations'[i + 1].base - activations'[i + 1].views
      BY <1>6, <3>1 DEF Reach
    <3>3. Reach(i) = activations[i + 1].base - activations[i + 1].views
      BY <2>4 DEF Reach
    <3>. QED
      BY <1>5, <2>1, <2>2, <3>1, <3>2, <3>3
  <2>. QED
    BY <2>3, <2>4
<1>8. PICK p : p = n + 1
  OBVIOUS
<1>9. Reach(p)' = m /\ activations'[p] = a /\ p \in Nat
  BY <1>2, <1>5, <1>6, <1>8 DEF Reach
<1>10. \A i \in 1..(n + 1) : i \in 1..n \/ i = p
  BY <1>2, <1>8
<1>16. a.base = T + v /\ a.views = v /\ m = T + v + 1 /\ a.base - a.views = T /\ a.base <= m
  BY <1>4
<1>11. Parts'
  <2>1. ASSUME NEW i \in 1..n
        PROVE  Segment(i)' /\ HeldTop(i)' /\ activations'[i].target < next_frame_id'
    <3>1. KeepsPart(i)
      <4>1. \A k \in 1..Reach(i) : frames'[k] = frames[k]
        BY <1>4, <1>7
      <4>. QED
        BY <1>5, <1>7, <4>1 DEF KeepsPart
    <3>2. Segment(i) /\ HeldTop(i) /\ activations[i].target < next_frame_id
      BY <1>2, <1>3 DEF Parts
    <3>3. Segment(i)' /\ HeldTop(i)'
      BY <1>7, <3>1, <3>2, KeptPart
    <3>4. activations'[i].target = activations[i].target
      BY <1>5
    <3>. QED
      BY <1>2, <1>7, <3>2, <3>3, <3>4
  <2>2. Segment(p)'
    <3>1. \A k \in (T + v + 1)..m : k = m /\ k = T + v + 1
      BY <1>4
    <3>2. activations'[p].base = T + v /\ activations'[p].target = next_frame_id
      BY <1>4, <1>9
    <3>. QED
      BY <1>9, <3>1, <3>2 DEF Segment
  <2>3. HeldTop(p)'
    BY <1>9 DEF HeldTop
  <2>4. activations'[p].target < next_frame_id'
    BY <1>2, <1>9
  <2>. QED
    BY <1>6, <1>10, <2>1, <2>2, <2>3, <2>4 DEF Parts
<1>12. Nested'
  <2>1. Inner' >= 1 /\ activations'[1].base = 0
    BY <1>2, <1>3, <1>5, <1>6 DEF Nested
  <2>2. ASSUME NEW i \in 1..(n + 1) PROVE activations'[i].base <= Reach(i)'
    <3>1. CASE i \in 1..n
      BY <1>2, <1>3, <1>5, <1>7, <3>1 DEF Nested
    <3>2. CASE i = p
      BY <1>9, <1>16, <3>2
    <3>. QED
      BY <1>10, <3>1, <3>2
  <2>3. ASSUME NEW i \in 1..(n + 1), NEW j \in 1..(n + 1), i < j
        PROVE  Reach(i)' <= activations'[j].base - activations'[j].views
    <3>1. i \in 1..n
      BY <1>2, <2>3
    <3>2. CASE j \in 1..n
      <4>1. Reach(i) <= activations[j].base - activations[j].views
        BY <1>2, <1>3, <2>3, <3>1, <3>2 DEF Nested
      <4>. QED
        BY <1>5, <1>7, <3>1, <3>2, <4>1
    <3>3. CASE j = p
      <4>1. activations'[j].base - activations'[j].views = T
        BY <1>9, <1>16, <3>3
      <4>. QED
        BY <1>7, <3>1, <4>1
    <3>. QED
      BY <1>10, <3>2, <3>3
  <2>. QED
    BY <1>6, <2>1, <2>2, <2>3 DEF Nested
<1>13. OnCaller'
  <2>1. \A k \in (Top + 1)..m : frames'[k].kind # "child"
    <3>1. \A k \in (T + 1)..m : k \in (T + 1)..(T + v) \/ k = m
      BY <1>4
    <3>. QED
      BY <1>4, <3>1
  <2>2. Top <= m
    BY <1>4
  <2>. QED
    BY <1>2, <1>3, <1>6, <2>1, <2>2, OnCallerUp
<1>14. Control'
  <2>1. ASSUME NEW i \in 1..n PROVE activations'[i].popped # None
    <3>1. activations'[i] = activations[i]
      BY <1>5
    <3>2. i = n \/ i < n
      BY <1>2
    <3>. QED
      BY <1>1, <1>2, <1>3, <3>1, <3>2 DEF Control
  <2>5. ASSUME NEW i \in 1..n, activations'[i + 1].views = 2 PROVE activations'[i].returned # None
    <3>1. activations'[i] = activations[i]
      BY <1>5
    <3>2. CASE i = n
      BY <1>5, <2>5, <3>1, <3>2
    <3>3. CASE i # n
      <4>1. i < n /\ i + 1 \in 1..n
        BY <1>2, <3>3
      <4>2. activations'[i + 1] = activations[i + 1]
        BY <1>5, <4>1
      <4>. QED
        BY <1>2, <1>3, <2>5, <3>1, <4>1, <4>2 DEF Control
    <3>. QED
      BY <3>2, <3>3
  <2>2. \A i \in 1..(n + 1) : i < n + 1 => i \in 1..n
    BY <1>2
  <2>3. Current'.base < Top'
    BY <1>4, <1>6
  <2>4. outcome' = "none"
    BY <1>1
  <2>. QED
    BY <1>6, <2>1, <2>2, <2>3, <2>4, <2>5 DEF Control
<1>15. TypeOK'
  <2>1. next_frame_id' \in 1..(MaxFrames + 1)
    BY <1>2, FramesAssumption
  <2>. QED
    BY <1>5, <2>1 DEF StackInv, TypeOK
<1>. QED
  BY <1>1, <1>11, <1>12, <1>13, <1>14, <1>15 DEF StackInv, Stacked

\* A view is a frame under the identity of the one it stands for.
LEMMA ViewFacts ==
  ASSUME NEW f \in Frame
  PROVE  /\ View(f) \in Frame /\ View(f).kind = "view" /\ View(f).id = f.id
         /\ View(f).vars = f.vars
BY DEF View, Frame

\* The views a call of the activation n may push: of the frame it holds, and of
\* the one just returned to it.
ViewsOf(n, views) ==
  \/ views = <<>>
  \/ views = <<View(activations[n].popped)>>
  \/ /\ views = <<View(activations[n].popped), View(activations[n].returned)>>
     /\ activations[n].returned # None

\* A call that pushes v views makes the activation a, and a stack of m frames.
CallMade(n, v, a, m) ==
  /\ a.base = Top + v /\ a.views = v /\ a.popped = None /\ a.returned = None
  /\ a.target = next_frame_id /\ activations' = Append(activations, a)
  /\ frames' \in Seq(Frame) /\ m = Len(frames') /\ m = Top + v + 1
  /\ \A k \in 1..Top : frames'[k] = frames[k]
  /\ \A k \in (Top + 1)..(Top + v) : frames'[k].kind = "view"
  /\ v > 0 => /\ frames'[Top + 1].id = activations[n].popped.id
              /\ frames'[Top + 1].vars = activations[n].popped.vars
  /\ v = 2 => /\ activations[n].returned # None
              /\ frames'[Top + 2].id = activations[n].returned.id
              /\ frames'[Top + 2].vars = activations[n].returned.vars
  /\ frames'[m].kind = "root" /\ frames'[m].id = next_frame_id /\ frames'[m].vars = 0
  /\ next_frame_id' = next_frame_id + 1 /\ outcome' = outcome /\ status' = status
  /\ written' = written

\* What a call pushes.
LEMMA Pushed ==
  ASSUME StackInv, Executing, next_frame_id <= MaxFrames, NEW edge \in BOOLEAN,
         NEW mirror \in BOOLEAN, NEW n, n = Inner, NEW views, ViewsOf(n, views),
         CallFrame(views, edge, mirror)
  PROVE  \E v \in 0..2, a \in Activation, m \in Nat : CallMade(n, v, a, m)
<1>1. /\ status = "running" /\ Top \in Nat /\ Current = activations[n]
      /\ activations[n].popped \in Frame /\ activations[n].returned \in Frame \cup {None}
  BY Runs
<1>2. frames \in Seq(Frame) /\ Len(frames) = Top
  BY <1>1, Typed
<1>3. PICK f : f = NewFrame("root", FALSE, activations[n].popped.id)
  OBVIOUS
<1>4. /\ f \in Frame /\ f.kind = "root" /\ f.id = next_frame_id /\ f.vars = 0
      /\ next_frame_id \in FrameIds
  <2>1. activations[n].popped.id \in FrameIds \cup {None}
    BY <1>1, Fields
  <2>. QED
    BY <1>1, <1>3, <2>1, NewFrameFacts
<1>5. PICK x : x = View(activations[n].popped)
  OBVIOUS
<1>6. x \in Frame /\ x.kind = "view" /\ x.id = activations[n].popped.id
      /\ x.vars = activations[n].popped.vars
  BY <1>1, <1>5, ViewFacts
<1>7. PICK a : a = NewActivation(Top + Len(views), Len(views), edge, mirror)
  OBVIOUS
<1>8. /\ frames' = frames \o views \o <<f>> /\ activations' = Append(activations, a)
      /\ next_frame_id' = next_frame_id + 1 /\ outcome' = outcome /\ status' = status
      /\ written' = written
  BY <1>1, <1>3, <1>7 DEF CallFrame
<1>9. ASSUME NEW v \in 0..2, v = Len(views)
      PROVE  /\ a \in Activation /\ a.base = Top + v /\ a.views = v /\ a.popped = None
             /\ a.returned = None /\ a.target = next_frame_id
  <2>1. Top + v \in Nat
    BY <1>1
  <2>2. a = NewActivation(Top + v, v, edge, mirror)
    BY <1>7, <1>9
  <2>. QED
    BY <1>4, <2>1, <2>2, NewActivationFacts
<1>10. PICK m : m = Len(frames')
  OBVIOUS
<1>11. CASE views = <<>>
  <2>1. Len(views) = 0
    BY <1>11
  <2>2. /\ frames' \in Seq(Frame) /\ m = Top + 0 + 1 /\ frames'[m] = f /\ m \in Nat
        /\ \A k \in 1..Top : frames'[k] = frames[k]
    BY <1>1, <1>2, <1>4, <1>8, <1>10, <1>11, MoreFacts, SMTT(30)
  <2>3. \A k \in (Top + 1)..(Top + 0) : frames'[k].kind = "view"
    BY <1>1
  <2>4. a \in Activation /\ a.base = Top + 0 /\ a.views = 0 /\ a.popped = None
        /\ a.returned = None /\ a.target = next_frame_id
    BY <1>9, <2>1
  <2>5. CallMade(n, 0, a, m)
    BY <1>1, <1>4, <1>8, <1>10, <2>2, <2>3, <2>4, SMTT(30) DEF CallMade
  <2>. QED
    BY <2>2, <2>4, <2>5
<1>12. CASE views = <<x>>
  <2>1. Len(views) = 1
    BY <1>12
  <2>2. /\ frames' \in Seq(Frame) /\ m = Top + 1 + 1 /\ frames'[m] = f /\ m \in Nat
        /\ \A k \in 1..Top : frames'[k] = frames[k]
        /\ frames'[Top + 1] = x
    BY <1>1, <1>2, <1>4, <1>6, <1>8, <1>10, <1>12, MoreFacts
  <2>3. \A k \in (Top + 1)..(Top + 1) : frames'[k].kind = "view"
    BY <1>1, <1>6, <2>2
  <2>4. a \in Activation /\ a.base = Top + 1 /\ a.views = 1 /\ a.popped = None
        /\ a.returned = None /\ a.target = next_frame_id
    BY <1>9, <2>1
  <2>5. CallMade(n, 1, a, m)
    BY <1>1, <1>4, <1>6, <1>8, <1>10, <2>2, <2>3, <2>4, SMTT(30) DEF CallMade
  <2>. QED
    BY <2>2, <2>4, <2>5
<1>13. CASE /\ views = <<x, View(activations[n].returned)>>
            /\ activations[n].returned # None
  <2>1. PICK y : y = View(activations[n].returned)
    OBVIOUS
  <2>2. y \in Frame /\ y.kind = "view" /\ y.id = activations[n].returned.id
        /\ y.vars = activations[n].returned.vars
    BY <1>1, <1>13, <2>1, ViewFacts
  <2>3. Len(views) = 2
    BY <1>13
  <2>4. /\ frames' \in Seq(Frame) /\ m = Top + 2 + 1 /\ frames'[m] = f /\ m \in Nat
        /\ \A k \in 1..Top : frames'[k] = frames[k]
        /\ frames'[Top + 1] = x /\ frames'[Top + 2] = y
    BY <1>1, <1>2, <1>4, <1>6, <1>8, <1>10, <1>13, <2>1, <2>2, MoreFacts
  <2>5. \A k \in (Top + 1)..(Top + 2) : frames'[k].kind = "view"
    <3>1. \A k \in (Top + 1)..(Top + 2) : k = Top + 1 \/ k = Top + 2
      BY <1>1
    <3>. QED
      BY <1>6, <2>2, <2>4, <3>1
  <2>6. a \in Activation /\ a.base = Top + 2 /\ a.views = 2 /\ a.popped = None
        /\ a.returned = None /\ a.target = next_frame_id
    BY <1>9, <2>3
  <2>7. CallMade(n, 2, a, m)
    BY <1>4, <1>6, <1>8, <1>10, <1>13, <2>2, <2>4, <2>5, <2>6 DEF CallMade
  <2>. QED
    BY <2>4, <2>6, <2>7
<1>. QED
  BY <1>5, <1>11, <1>12, <1>13 DEF ViewsOf

\* The three instructions that call synchronously.
SyncCall(edge) ==
  \/ call_frame(edge)
  \/ call_mirrored(edge)
  \/ clone_value_with_reachable_frames(edge)

\* They push views of what the caller holds.
LEMMA CallForms ==
  ASSUME StackInv, NEW edge \in BOOLEAN, SyncCall(edge), NEW n, n = Inner
  PROVE  /\ Executing /\ next_frame_id <= MaxFrames
         /\ \E v \in 0..2, a \in Activation, m \in Nat : CallMade(n, v, a, m)
<1>1. Executing /\ next_frame_id <= MaxFrames
  BY DEF SyncCall, call_frame, call_mirrored, clone_value_with_reachable_frames, CanCall
<1>2. Current = activations[n]
  BY <1>1, Runs
<1>3. ASSUME NEW mirror \in BOOLEAN, NEW views, ViewsOf(n, views), CallFrame(views, edge, mirror)
      PROVE  \E v \in 0..2, a \in Activation, m \in Nat : CallMade(n, v, a, m)
  BY <1>1, <1>3, Pushed
<1>4. CASE call_frame(edge)
  <2>1. CallFrame(<<>>, edge, FALSE) /\ ViewsOf(n, <<>>)
    BY <1>4 DEF call_frame, ViewsOf
  <2>. QED
    BY <1>1, <1>3, <2>1
<1>5. PICK x : x = <<View(activations[n].popped)>>
  OBVIOUS
<1>6. ViewsOf(n, x)
  BY <1>5 DEF ViewsOf
<1>7. CASE call_mirrored(edge)
  <2>1. CallFrame(x, edge, TRUE)
    BY <1>2, <1>5, <1>7 DEF call_mirrored
  <2>. QED
    BY <1>1, <1>3, <1>6, <2>1
<1>8. CASE clone_value_with_reachable_frames(edge)
  <2>1. PICK y : y = <<View(activations[n].popped), View(activations[n].returned)>>
    OBVIOUS
  <2>2. \/ CallFrame(x, edge, FALSE)
        \/ CallFrame(y, edge, FALSE) /\ activations[n].returned # None
    BY <1>2, <1>5, <1>8, <2>1 DEF clone_value_with_reachable_frames
  <2>3. activations[n].returned # None => ViewsOf(n, y)
    BY <2>1 DEF ViewsOf
  <2>. QED
    BY <1>1, <1>3, <1>6, <2>2, <2>3
<1>. QED
  BY <1>4, <1>7, <1>8 DEF SyncCall

\* A synchronous call.
LEMMA CallStep ==
  ASSUME StackInv, NEW edge \in BOOLEAN, SyncCall(edge)
  PROVE  StackInv'
<1>1. PICK n : n = Inner
  OBVIOUS
<1>2. Executing /\ next_frame_id <= MaxFrames
  BY <1>1, CallForms
<1>3. PICK v \in 0..2, a \in Activation, m \in Nat : CallMade(n, v, a, m)
  BY <1>1, CallForms
<1>4. /\ v = 2 => activations[n].returned # None
      /\ a.base = Top + v /\ a.views = v /\ a.popped = None
      /\ a.target = next_frame_id /\ activations' = Append(activations, a)
      /\ frames' \in Seq(Frame) /\ m = Len(frames') /\ m = Top + v + 1
      /\ \A k \in 1..Top : frames'[k] = frames[k]
      /\ \A k \in (Top + 1)..(Top + v) : frames'[k].kind = "view"
      /\ frames'[m].kind = "root" /\ frames'[m].id = next_frame_id
      /\ next_frame_id' = next_frame_id + 1 /\ outcome' = outcome /\ status' = status
      /\ written' = written
  BY <1>3 DEF CallMade
<1>. QED
  BY <1>1, <1>2, <1>4, CallKeeps

-----------------------------------------------------------------------------
(* The end of an activation. *)

\* A frame with its variables back is the same frame.
LEMMA RestoredFacts ==
  ASSUME StackInv, NEW f \in Frame, NEW at \in 1..Len(frames)
  PROVE  /\ Restored(f, at) \in Frame /\ Restored(f, at).id = f.id
         /\ Restored(f, at).kind = f.kind /\ Restored(f, at).caller = f.caller
         /\ Restored(f, at).vars = frames[at].vars
<1>1. frames[at] \in Frame
  BY DEF StackInv, TypeOK
<1>2. PICK w \in 0..MaxWrites : w = frames[at].vars
  BY <1>1, Fields
<1>3. Restored(f, at) = [f EXCEPT !.vars = w]
  BY <1>2 DEF Restored
<1>. QED
  BY <1>2, <1>3 DEF Frame

\* What the end of the activation a leaves of its stack: what lies below its
\* views, after an error too.
LEMMA ResumeStack ==
  ASSUME StackInv, status = "running", outcome # "none", NEW n, n = Inner, NEW a,
         a = activations[n], NEW R \in Nat, R = a.base - a.views
  PROVE  /\ Len(Unwound) = a.base /\ ViewsOff(Unwound, a) \in Seq(Frame)
         /\ Len(ViewsOff(Unwound, a)) = R
         /\ \A k \in 1..R : ViewsOff(Unwound, a)[k] = frames[k]
<1>1. PICK b \in Nat : b = a.base
  BY Typed
<1>2. /\ frames \in Seq(Frame) /\ Len(frames) = Top /\ Top \in Nat
      /\ a.views \in 0..2 /\ Current = a /\ n \in Acts
  BY Typed
<1>3. b <= Top
  BY <1>1, OwnPart
<1>4. outcome = "ok" => Top = b
  BY <1>1, <1>2, Typed DEF Stacked, Control
<1>5. Unwound \in Seq(Frame) /\ Len(Unwound) = b /\ \A k \in 1..b : Unwound[k] = frames[k]
  <2>1. CASE outcome = "ok"
    BY <1>2, <1>4, <2>1 DEF Unwound
  <2>2. CASE outcome # "ok"
    <3>1. b \in 0..Len(frames)
      BY <1>2, <1>3
    <3>2. Unwound = Down(frames, b)
      BY <1>1, <1>2, <2>2 DEF Unwound
    <3>. QED
      BY <1>2, <3>1, <3>2, DownFacts
  <2>. QED
    BY <2>1, <2>2
<1>6. PICK s \in Seq(Frame) : s = Unwound
  BY <1>5
<1>7. R \in 0..Len(s) /\ R <= b
  BY <1>1, <1>2, <1>5, <1>6
<1>8. ViewsOff(s, a) = Down(s, R)
  <2>1. Len(s) - a.views = R /\ a.base - a.views = R
    BY <1>1, <1>5, <1>6
  <2>. QED
    BY <2>1 DEF ViewsOff
<1>9. /\ Down(s, R) \in Seq(Frame) /\ Len(Down(s, R)) = R
      /\ \A k \in 1..R : Down(s, R)[k] = s[k]
  BY <1>7, DownFacts
<1>10. \A k \in 1..R : s[k] = frames[k]
  BY <1>1, <1>5, <1>6, <1>7
<1>. QED
  BY <1>1, <1>5, <1>6, <1>8, <1>9, <1>10

\* What the caller's activation is left with: x, made of o.
ResumedAs(o, a, R, x) ==
  /\ x.base = o.base /\ x.views = o.views /\ x.target = o.target
  /\ Taken =>
       /\ x.popped \in Frame /\ x.popped.id = o.popped.id /\ x.popped.kind = o.popped.kind
       /\ x.popped.caller = o.popped.caller
       /\ x.popped.vars = IF a.views > 0 THEN frames[R + 1].vars ELSE o.popped.vars
       /\ a.views = 2 => /\ x.returned \in Frame /\ x.returned.id = o.returned.id
                         /\ x.returned.vars = frames[R + 2].vars
       /\ a.views # 2 => x.returned = None \/ x.returned = a.returned
  /\ ~Taken => x.popped = None /\ x.returned = None

\* An activation that holds f, and has just been returned r.
Holding(o, f, r) == [o EXCEPT !.popped = f, !.returned = r]

\* It is made so.
LEMMA ResumedActivation ==
  ASSUME StackInv, NEW o \in Activation, o.popped \in Frame, NEW a \in Activation,
         a.views = 2 => o.returned \in Frame, NEW R \in Nat,
         a.views > 0 => R + 1 \in 1..Len(frames), a.views = 2 => R + 2 \in 1..Len(frames),
         NEW held, held = IF a.views > 0 THEN Restored(o.popped, R + 1) ELSE o.popped,
         NEW kept, kept = IF a.views = 2 THEN Restored(o.returned, R + 2)
                          ELSE IF a.mirror THEN a.returned
                          ELSE None,
         NEW x, x = IF Taken THEN Holding(o, held, kept)
                    ELSE Holding(o, None, None)
  PROVE  x \in Activation /\ ResumedAs(o, a, R, x)
<1>1. ASSUME NEW f \in Frame \cup {None}, NEW r \in Frame \cup {None},
             NEW y, y = Holding(o, f, r)
      PROVE  /\ y \in Activation /\ y.base = o.base /\ y.views = o.views /\ y.target = o.target
             /\ y.popped = f /\ y.returned = r
  <2>1. [o EXCEPT !.popped = f] \in Activation
    BY DEF Activation
  <2>2. PICK c \in Activation : c = [o EXCEPT !.popped = f]
    BY <2>1
  <2>3. y = [c EXCEPT !.returned = r]
    BY <1>1, <2>2 DEF Holding
  <2>4. y \in Activation
    BY <2>3 DEF Activation
  <2>5. /\ y.base = o.base /\ y.views = o.views /\ y.target = o.target
        /\ y.popped = f /\ y.returned = r
    BY <1>1 DEF Activation, Holding
  <2>. QED
    BY <2>4, <2>5
<1>2. /\ held \in Frame /\ held.id = o.popped.id /\ held.kind = o.popped.kind
      /\ held.caller = o.popped.caller
      /\ held.vars = IF a.views > 0 THEN frames[R + 1].vars ELSE o.popped.vars
  <2>1. CASE a.views > 0
    BY <2>1, RestoredFacts
  <2>2. CASE ~(a.views > 0)
    BY <2>2
  <2>. QED
    BY <2>1, <2>2
<1>3. /\ kept \in Frame \cup {None}
      /\ a.views = 2 => /\ kept \in Frame /\ kept.id = o.returned.id
                        /\ kept.vars = frames[R + 2].vars
      /\ a.views # 2 => kept = None \/ kept = a.returned
  <2>1. CASE a.views = 2
    BY <2>1, RestoredFacts
  <2>2. CASE a.views # 2
    BY <2>2, Fields
  <2>. QED
    BY <2>1, <2>2
<1>4. CASE Taken
  <2>1. x = Holding(o, held, kept)
    BY <1>4
  <2>2. /\ x \in Activation /\ x.base = o.base /\ x.views = o.views /\ x.target = o.target
        /\ x.popped = held /\ x.returned = kept
    BY <1>1, <1>2, <1>3, <2>1
  <2>. QED
    BY <1>2, <1>3, <1>4, <2>2 DEF ResumedAs
<1>5. CASE ~Taken
  <2>1. x = Holding(o, None, None)
    BY <1>5
  <2>2. /\ x \in Activation /\ x.base = o.base /\ x.views = o.views /\ x.target = o.target
        /\ x.popped = None /\ x.returned = None
    BY <1>1, <2>1, SMTT(30)
  <2>. QED
    BY <1>5, <2>2 DEF ResumedAs
<1>. QED
  BY <1>4, <1>5

\* An activation that ends in x, its caller's, and a stack cut to R.
Resumed(p, a, R, x) ==
  /\ frames' \in Seq(Frame) /\ Len(frames') = R
  /\ \A k \in 1..R : frames'[k] = frames[k]
  /\ activations' \in Seq(Activation) /\ Len(activations') = p /\ activations'[p] = x
  /\ \A i \in 1..(p - 1) : activations'[i] = activations[i]
  /\ outcome' = IF Taken THEN "none" ELSE outcome
  /\ next_frame_id' = next_frame_id /\ status' = status /\ written' = written

\* The views are still there, and the caller's activation goes on.
LEMMA ResumeForms ==
  ASSUME StackInv, resume, NEW n, n = Inner, NEW p, p = n - 1, NEW a, a = activations[n],
         NEW o, o = activations[p], NEW R, R = a.base - a.views
  PROVE  /\ status = "running" /\ outcome # "none" /\ n \in Nat /\ n > 1 /\ p \in Acts
         /\ n \in Acts
         /\ R = Reach(p) /\ R \in Nat /\ R <= Top /\ a \in Activation /\ o \in Activation
         /\ o.popped \in Frame
         /\ a.views > 0 => R + 1 \in 1..Top
         /\ a.views = 2 => R + 2 \in 1..Top /\ o.returned \in Frame
         /\ \E x \in Activation : ResumedAs(o, a, R, x) /\ Resumed(p, a, R, x)
<1>1. status = "running" /\ outcome # "none" /\ n > 1
  BY DEF resume
<1>2. /\ n \in Nat /\ n \in Acts /\ a \in Activation /\ Current = a /\ Top \in Nat
      /\ activations \in Seq(Activation) /\ Len(activations) = n /\ Len(frames) = Top
      /\ Acts = 1..n
  BY <1>1, Typed DEF Acts
<1>3. p \in Nat /\ p \in Acts /\ p < n /\ p # n /\ p + 1 = n /\ n - 2 = p - 1
  BY <1>1, <1>2
<1>4. R = Reach(p)
  BY <1>3 DEF Reach
<1>5. R \in Nat /\ R <= Top /\ o \in Activation
  BY <1>1, <1>3, <1>4, Typed
<1>6. /\ \A i \in Acts : i < n => activations[i].popped # None
      /\ \A i \in Acts : (i < n /\ activations[i + 1].views = 2) => activations[i].returned # None
  BY <1>1, Typed DEF Stacked, Control
<1>7. o.popped \in Frame /\ (a.views = 2 => o.returned \in Frame)
  BY <1>3, <1>5, <1>6, Fields
<1>8. a.base \in Nat /\ a.views \in 0..2 /\ a.base <= Top
  <2>1. a.base <= Top
    BY <1>1, OwnPart
  <2>. QED
    BY <1>2, <2>1, Fields
<1>9. (a.views > 0 => R + 1 \in 1..Top) /\ (a.views = 2 => R + 2 \in 1..Top)
  BY <1>2, <1>5, <1>8
<1>10. /\ Len(Unwound) = a.base /\ ViewsOff(Unwound, a) \in Seq(Frame)
       /\ Len(ViewsOff(Unwound, a)) = R
       /\ \A k \in 1..R : ViewsOff(Unwound, a)[k] = frames[k]
  BY <1>1, <1>5, ResumeStack
<1>11. PICK held : held = IF a.views > 0 THEN Restored(o.popped, R + 1) ELSE o.popped
  OBVIOUS
<1>12. PICK kept : kept = IF a.views = 2 THEN Restored(o.returned, R + 2)
                          ELSE IF a.mirror THEN a.returned
                          ELSE None
  OBVIOUS
<1>13. PICK x : x = IF Taken THEN Holding(o, held, kept) ELSE Holding(o, None, None)
  OBVIOUS
<1>14. x \in Activation /\ ResumedAs(o, a, R, x)
  BY <1>2, <1>5, <1>7, <1>9, <1>11, <1>12, <1>13, ResumedActivation
<1>15. /\ frames' = ViewsOff(Unwound, a)
       /\ activations' = Append(Down(activations, p - 1), x)
       /\ outcome' = IF Taken THEN "none" ELSE outcome
       /\ next_frame_id' = next_frame_id /\ status' = status /\ written' = written
  <2>1. activations[Inner - 1] = o /\ Current = a
    BY <1>2
  <2>2. Inner - 2 = p - 1
    BY <1>3
  <2>3. a.base - a.views + 1 = R + 1 /\ R + 1 + 1 = R + 2
    BY <1>5
  <2>4. ~(a.views > 0 /\ R + 1 > Len(Unwound))
    BY <1>5, <1>8, <1>10
  <2>5. /\ frames' = ViewsOff(Unwound, a)
        /\ outcome' = IF Taken THEN "none" ELSE outcome
        /\ next_frame_id' = next_frame_id /\ status' = status /\ written' = written
    BY <2>1, <2>3, <2>4 DEF resume
  <2>6. activations' = Append(Down(activations, p - 1), x)
    BY <1>11, <1>12, <1>13, <2>1, <2>2, <2>3, <2>4 DEF resume, Holding
  <2>. QED
    BY <2>5, <2>6
<1>16. PICK d \in Seq(Activation) :
         /\ d = Down(activations, p - 1) /\ Len(d) = p - 1
         /\ \A i \in 1..(p - 1) : d[i] = activations[i]
  <2>1. p - 1 \in 0..Len(activations)
    BY <1>1, <1>2, <1>3
  <2>. QED
    BY <1>2, <2>1, DownFacts
<1>17. /\ activations' \in Seq(Activation) /\ Len(activations') = p /\ activations'[p] = x
       /\ \A i \in 1..(p - 1) : activations'[i] = activations[i]
  <2>1. activations' = Append(d, x)
    BY <1>15, <1>16
  <2>2. /\ Append(d, x) \in Seq(Activation) /\ Len(Append(d, x)) = p /\ Append(d, x)[p] = x
        /\ \A i \in 1..(p - 1) : Append(d, x)[i] = d[i]
    BY <1>3, <1>14, <1>16
  <2>. QED
    BY <1>16, <2>1, <2>2
<1>18. Resumed(p, a, R, x)
  BY <1>10, <1>15, <1>17 DEF Resumed
<1>. QED
  BY <1>1, <1>2, <1>3, <1>4, <1>5, <1>7, <1>9, <1>14, <1>18

\* The end of an activation leaves the stack of its caller in order.
LEMMA ResumeStep == StackInv /\ resume => StackInv'
<1>. SUFFICES ASSUME StackInv, resume PROVE StackInv'
  OBVIOUS
<1>1. PICK n : n = Inner
  OBVIOUS
<1>2. PICK p : p = n - 1
  OBVIOUS
<1>3. PICK a : a = activations[n]
  OBVIOUS
<1>4. PICK o : o = activations[p]
  OBVIOUS
<1>5. PICK R : R = a.base - a.views
  OBVIOUS
<1>6. /\ status = "running" /\ outcome # "none" /\ n \in Nat /\ n > 1 /\ p \in Acts
      /\ R = Reach(p) /\ R \in Nat /\ R <= Top /\ o \in Activation
      /\ o.popped \in Frame
  BY <1>1, <1>2, <1>3, <1>4, <1>5, ResumeForms
<1>7. PICK x \in Activation : ResumedAs(o, a, R, x) /\ Resumed(p, a, R, x)
  BY <1>1, <1>2, <1>3, <1>4, <1>5, ResumeForms
<1>8. /\ frames' \in Seq(Frame) /\ Len(frames') = R
      /\ \A k \in 1..R : frames'[k] = frames[k]
      /\ activations' \in Seq(Activation) /\ Len(activations') = p /\ activations'[p] = x
      /\ \A i \in 1..(p - 1) : activations'[i] = activations[i]
      /\ outcome' = IF Taken THEN "none" ELSE outcome
      /\ next_frame_id' = next_frame_id /\ status' = status /\ written' = written
  BY <1>7 DEF Resumed
<1>9. /\ x.base = o.base /\ x.views = o.views /\ x.target = o.target
      /\ Taken => /\ x.popped \in Frame /\ x.popped.id = o.popped.id
                  /\ x.popped.kind = o.popped.kind /\ x.popped.caller = o.popped.caller
      /\ ~Taken => x.popped = None
  BY <1>7 DEF ResumedAs
<1>10. /\ Inner' = p /\ Acts' = 1..p /\ Current' = x /\ Top' = R /\ p \in Nat /\ p >= 1
       /\ Acts = 1..n
  BY <1>1, <1>2, <1>6, <1>8 DEF Inner, Acts, Current, Top
<1>11. Nested /\ Parts /\ OnCaller /\ Control /\ Top \in Nat /\ next_frame_id \in Nat
  BY <1>6, Typed DEF Stacked
<1>12. ASSUME NEW i \in 1..p
       PROVE  /\ i \in Acts /\ Reach(i)' = Reach(i) /\ Reach(i) \in Nat /\ Reach(i) <= R
              /\ activations'[i].base = activations[i].base
              /\ activations'[i].views = activations[i].views
              /\ activations'[i].target = activations[i].target
              /\ activations[i].base \in Nat
  <2>1. i \in Acts
    BY <1>2, <1>6, <1>10
  <2>2. /\ activations'[i].base = activations[i].base
        /\ activations'[i].views = activations[i].views
        /\ activations'[i].target = activations[i].target
    <3>1. CASE i = p
      BY <1>4, <1>8, <1>9, <3>1
    <3>2. CASE i # p
      BY <1>8, <1>10, <3>2
    <3>. QED
      BY <3>1, <3>2
  <2>3. Reach(i) \in Nat /\ activations[i].base \in Nat
    BY <1>6, <2>1, Typed
  <2>4. CASE i = p
    BY <1>6, <1>10, <2>1, <2>2, <2>3, <2>4 DEF Reach
  <2>5. CASE i # p
    <3>1. i + 1 \in 1..p /\ i < p /\ i + 1 \in Acts /\ i # n /\ i < n /\ i # Inner' /\ n \in Acts
      BY <1>2, <1>6, <1>10, <2>5
    <3>2. Reach(i)' = activations'[i + 1].base - activations'[i + 1].views
      BY <3>1 DEF Reach
    <3>3. Reach(i) = activations[i + 1].base - activations[i + 1].views
      BY <1>1, <3>1 DEF Reach
    <3>4. /\ activations'[i + 1].base = activations[i + 1].base
          /\ activations'[i + 1].views = activations[i + 1].views
      <4>1. CASE i + 1 = p
        BY <1>4, <1>8, <1>9, <4>1
      <4>2. CASE i + 1 # p
        BY <1>8, <1>10, <3>1, <4>2
      <4>. QED
        BY <4>1, <4>2
    <3>5. Reach(i) <= R
      BY <1>3, <1>5, <1>11, <2>1, <3>1 DEF Nested
    <3>. QED
      BY <2>1, <2>2, <2>3, <3>2, <3>3, <3>4, <3>5
  <2>. QED
    BY <2>4, <2>5
<1>13. Parts'
  <2>1. ASSUME NEW i \in 1..p
        PROVE  Segment(i)' /\ HeldTop(i)' /\ activations'[i].target < next_frame_id'
    <3>1. \A k \in 1..Reach(i) : frames'[k] = frames[k]
      BY <1>6, <1>8, <1>12
    <3>2. \/ activations'[i].popped = None
          \/ /\ activations[i].popped # None
             /\ activations'[i].popped.id = activations[i].popped.id
             /\ activations'[i].popped.kind = activations[i].popped.kind
             /\ activations'[i].popped.caller = activations[i].popped.caller
      <4>1. CASE i = p
        BY <1>4, <1>6, <1>8, <1>9, <4>1, NoneAssumption
      <4>2. CASE i # p
        BY <1>8, <1>10, <4>2
      <4>. QED
        BY <4>1, <4>2
    <3>3. KeepsPart(i)
      BY <1>12, <3>1, <3>2 DEF KeepsPart
    <3>4. Segment(i) /\ HeldTop(i) /\ activations[i].target < next_frame_id
      BY <1>11, <1>12 DEF Parts
    <3>5. Segment(i)' /\ HeldTop(i)'
      BY <1>12, <3>3, <3>4, KeptPart
    <3>. QED
      BY <1>8, <1>12, <3>4, <3>5
  <2>. QED
    BY <1>10, <2>1 DEF Parts
<1>14. Nested'
  <2>1. Inner' >= 1 /\ activations'[1].base = 0
    <3>1. 1 \in 1..p
      BY <1>10
    <3>. QED
      BY <1>10, <1>11, <1>12, <3>1 DEF Nested
  <2>2. \A i \in 1..p : activations'[i].base <= Reach(i)'
    BY <1>11, <1>12 DEF Nested
  <2>3. \A i, j \in 1..p : i < j => Reach(i)' <= activations'[j].base - activations'[j].views
    <3>. SUFFICES ASSUME NEW i \in 1..p, NEW j \in 1..p, i < j
                  PROVE  Reach(i)' <= activations'[j].base - activations'[j].views
      OBVIOUS
    <3>1. Reach(i) <= activations[j].base - activations[j].views
      BY <1>11, <1>12 DEF Nested
    <3>2. Reach(i)' = Reach(i)
      BY <1>12
    <3>3. activations'[j].base = activations[j].base /\ activations'[j].views = activations[j].views
      BY <1>12
    <3>. QED
      BY <3>1, <3>2, <3>3
  <2>. QED
    BY <1>10, <2>1, <2>2, <2>3 DEF Nested
<1>15. OnCaller'
  <2>1. R \in 0..Top
    BY <1>6, <1>11
  <2>. QED
    BY <1>8, <1>11, <2>1, OnCallerCut
<1>16. Control'
  <2>1. ASSUME NEW i \in 1..p, i < p
        PROVE  /\ activations'[i].popped # None
               /\ activations'[i + 1].views = 2 => activations'[i].returned # None
    <3>1. i \in 1..(p - 1) /\ i + 1 \in 1..p /\ i < n
      BY <1>2, <1>6, <1>10, <2>1
    <3>2. activations'[i] = activations[i] /\ i \in Acts
      BY <1>8, <1>12, <3>1
    <3>3. activations'[i + 1].views = activations[i + 1].views
      BY <1>12, <3>1
    <3>. QED
      BY <1>1, <1>11, <3>1, <3>2, <3>3 DEF Control
  <2>2. CASE Taken
    <3>1. outcome' = "none" /\ x.popped # None
      BY <1>8, <1>9, <2>2, NoneAssumption
    <3>. QED
      BY <1>10, <2>1, <3>1 DEF Control
  <2>3. CASE ~Taken
    <3>1. outcome' # "none" /\ outcome' # "ok" /\ x.popped = None
      BY <1>6, <1>8, <1>9, <2>3 DEF Taken
    <3>. QED
      BY <1>10, <2>1, <3>1 DEF Control
  <2>. QED
    BY <2>2, <2>3
<1>17. TypeOK'
  BY <1>8 DEF StackInv, TypeOK
<1>. QED
  BY <1>6, <1>8, <1>13, <1>14, <1>15, <1>16, <1>17 DEF StackInv, Stacked

\* The stack is empty when the outermost activation has ended.
LEMMA OutermostEnds ==
  ASSUME StackInv, status = "running", outcome # "none", Inner = 1
  PROVE  /\ Current \in Activation /\ Current.base = 0 /\ Current = activations[1]
         /\ Unwound = <<>> /\ Unwound \in Seq(Frame)
         /\ outcome = "ok" => Top = 0 /\ frames = <<>>
<1>1. /\ Current = activations[1] /\ Current \in Activation /\ frames \in Seq(Frame)
      /\ Len(frames) = Top /\ Top \in Nat
  BY Typed
<1>2. Current.base = 0 /\ (outcome = "ok" => Top = Current.base)
  BY <1>1, Typed DEF Stacked, Nested, Control
<1>3. outcome = "ok" => frames = <<>>
  BY <1>1, <1>2
<1>4. Unwound = <<>>
  <2>1. CASE outcome = "ok"
    BY <1>3, <2>1 DEF Unwound
  <2>2. CASE outcome # "ok"
    <3>1. Unwound = Down(frames, 0)
      BY <1>2, <2>2 DEF Unwound
    <3>. QED
      BY <1>1, <3>1 DEF Down
  <2>. QED
    BY <2>1, <2>2
<1>. QED
  BY <1>1, <1>2, <1>3, <1>4

\* The run ends with the stack empty.
LEMMA ExitStep == StackInv /\ exit => StackInv'
<1>. SUFFICES ASSUME StackInv, exit PROVE StackInv'
  OBVIOUS
<1>1. /\ status = "running" /\ outcome # "none" /\ Inner = 1 /\ status' = outcome
      /\ frames' = Unwound /\ activations' = activations /\ next_frame_id' = next_frame_id
      /\ outcome' = outcome /\ written' = written
  BY DEF exit
<1>2. frames' = <<>> /\ frames' \in Seq(Frame)
  BY <1>1, OutermostEnds
<1>3. outcome \in Ends
  BY <1>1 DEF StackInv, TypeOK
<1>4. status' \in Ends /\ status' # "running"
  BY <1>1, <1>3 DEF Ends
<1>5. TypeOK'
  BY <1>1, <1>2, <1>4 DEF StackInv, TypeOK
<1>. QED
  BY <1>2, <1>4, <1>5 DEF StackInv

\* main starts on an empty stack, as the initialisation did.
LEMMA MainStep == StackInv /\ run_main => StackInv'
<1>. SUFFICES ASSUME StackInv, run_main PROVE StackInv'
  OBVIOUS
<1>1. /\ status = "running" /\ outcome = "ok" /\ Inner = 1 /\ next_frame_id <= MaxFrames
      /\ frames' = Append(frames, NewFrame("root", FALSE, None))
      /\ activations' = <<NewActivation(Top, 0, FALSE, FALSE)>>
      /\ next_frame_id' = next_frame_id + 1 /\ outcome' = "none" /\ status' = status
      /\ written' = written
  BY DEF run_main
<1>2. Top = 0 /\ frames = <<>>
  BY <1>1, OutermostEnds
<1>3. PICK f : f = NewFrame("root", FALSE, None)
  OBVIOUS
<1>4. /\ f \in Frame /\ f.kind = "root" /\ f.id = next_frame_id
      /\ next_frame_id \in FrameIds /\ next_frame_id + 1 \in 1..(MaxFrames + 1)
  <2>1. None \in FrameIds \cup {None} /\ FALSE \in BOOLEAN
    OBVIOUS
  <2>. QED
    BY <1>1, <1>3, <2>1, NewFrameFacts
<1>5. PICK a : a = NewActivation(0, 0, FALSE, FALSE)
  OBVIOUS
<1>6. /\ a \in Activation /\ a.base = 0 /\ a.views = 0 /\ a.popped = None
      /\ a.target = next_frame_id
  <2>1. 0 \in Nat /\ 0 \in 0..2 /\ FALSE \in BOOLEAN
    OBVIOUS
  <2>. QED
    BY <1>4, <1>5, <2>1 DEF NewActivation, Activation
<1>7. frames' = <<f>> /\ activations' = <<a>>
  BY <1>1, <1>2, <1>3, <1>5
<1>8. /\ Inner' = 1 /\ Acts' = {1} /\ Top' = 1 /\ Current' = a /\ activations'[1] = a
      /\ frames'[1] = f /\ frames' \in Seq(Frame) /\ activations' \in Seq(Activation)
  BY <1>4, <1>6, <1>7 DEF Inner, Acts, Top, Current
<1>9. Reach(1)' = 1
  BY <1>8 DEF Reach
<1>10. Nested'
  BY <1>6, <1>8, <1>9 DEF Nested
<1>11. Segment(1)' /\ HeldTop(1)'
  BY <1>4, <1>6, <1>8, <1>9 DEF Segment, HeldTop
<1>12. next_frame_id < next_frame_id'
  BY <1>1, <1>4, Fields
<1>13. Parts'
  BY <1>6, <1>8, <1>11, <1>12 DEF Parts
<1>14. OnCaller'
  BY <1>4, <1>8 DEF OnCaller
<1>15. Control'
  BY <1>1, <1>6, <1>8 DEF Control
<1>16. TypeOK'
  BY <1>1, <1>4, <1>8 DEF StackInv, TypeOK
<1>. QED
  BY <1>1, <1>10, <1>13, <1>14, <1>15, <1>16 DEF StackInv, Stacked

\* The initialisation is called on an empty stack.
LEMMA InitStack == Init => StackInv
<1>. SUFFICES ASSUME Init PROVE StackInv
  OBVIOUS
<1>1. PICK f : f = [id |-> 1, kind |-> "root", edge |-> FALSE, vars |-> 0, caller |-> None]
  OBVIOUS
<1>2. PICK a : a = [target |-> 1, base |-> 0, popped |-> None, returned |-> None,
                    views |-> 0, edge |-> FALSE, mirror |-> FALSE]
  OBVIOUS
<1>3. 1 \in FrameIds /\ 0 \in 0..MaxWrites /\ 2 \in 1..(MaxFrames + 1)
  BY FramesAssumption DEF FrameIds
<1>4. f \in Frame /\ f.kind = "root" /\ f.id = 1
  BY <1>1, <1>3 DEF Frame
<1>5. a \in Activation /\ a.base = 0 /\ a.views = 0 /\ a.popped = None /\ a.target = 1
  BY <1>2, <1>3 DEF Activation
<1>6. /\ frames = <<f>> /\ activations = <<a>> /\ next_frame_id = 2 /\ outcome = "none"
      /\ status = "running" /\ written = [g \in FrameIds |-> 0]
  BY <1>1, <1>2 DEF Init
<1>7. /\ Inner = 1 /\ Acts = {1} /\ Top = 1 /\ Current = a /\ activations[1] = a
      /\ frames[1] = f /\ frames \in Seq(Frame) /\ activations \in Seq(Activation)
  BY <1>4, <1>5, <1>6 DEF Inner, Acts, Top, Current
<1>8. Reach(1) = 1
  BY <1>7 DEF Reach
<1>9. Nested
  BY <1>5, <1>7, <1>8 DEF Nested
<1>10. Segment(1) /\ HeldTop(1)
  BY <1>4, <1>5, <1>7, <1>8 DEF Segment, HeldTop
<1>11. Parts
  BY <1>5, <1>6, <1>7, <1>10 DEF Parts
<1>12. OnCaller
  BY <1>4, <1>7 DEF OnCaller
<1>13. Control
  BY <1>5, <1>6, <1>7 DEF Control
<1>14. TypeOK
  BY <1>3, <1>6, <1>7 DEF TypeOK
<1>. QED
  BY <1>6, <1>9, <1>11, <1>12, <1>13, <1>14 DEF StackInv, Stacked

\* Nothing changes.
LEMMA StackStutter == StackInv /\ UNCHANGED vars => StackInv'
<1>. SUFFICES ASSUME StackInv, UNCHANGED vars PROVE StackInv'
  OBVIOUS
<1>1. /\ frames' = frames /\ activations' = activations /\ next_frame_id' = next_frame_id
      /\ outcome' = outcome /\ status' = status /\ written' = written
  BY DEF vars
<1>2. Inner' = Inner /\ Acts' = Acts /\ Top' = Top /\ Current' = Current
  BY <1>1 DEF Inner, Acts, Top, Current
<1>3. ASSUME NEW i PROVE Reach(i)' = Reach(i) /\ Segment(i)' = Segment(i) /\ HeldTop(i)' = HeldTop(i)
  BY <1>1, <1>2 DEF Reach, Segment, HeldTop
<1>4. Nested' = Nested /\ Parts' = Parts
  BY <1>1, <1>2, <1>3 DEF Nested, Parts
<1>5. OnCaller' = OnCaller /\ Control' = Control /\ TypeOK' = TypeOK
  BY <1>1, <1>2 DEF OnCaller, Control, TypeOK
<1>. QED
  BY <1>1, <1>4, <1>5 DEF StackInv, Stacked

-----------------------------------------------------------------------------
(* Theorems about the stack. *)

\* The invariant of the stack: every activation of drive_frames has its part of
\* the shared stack, above the views of the call that made it, its own root
\* lowest and each child on its caller, however calls nest and errors unwind.
THEOREM FramesStackInvariant == Spec => []StackInv
<1>1. StackInv /\ [Next]_vars => StackInv'
  <2>. SUFFICES ASSUME StackInv, [Next]_vars PROVE StackInv'
    OBVIOUS
  <2>1. CASE pop
    BY <2>1, PopStep
  <2>2. CASE push_back
    BY <2>2, PushBackStep
  <2>3. ASSUME NEW edge \in BOOLEAN, direct_call(edge) PROVE StackInv'
    BY <2>3, DirectCallStep
  <2>4. ASSUME NEW edge \in BOOLEAN, SyncCall(edge) PROVE StackInv'
    BY <2>4, CallStep
  <2>5. ASSUME NEW f \in FrameIds, write(f) PROVE StackInv'
    BY <2>5, WriteStep
  <2>6. CASE finish_frame
    BY <2>6, FinishStep
  <2>7. CASE error_return
    BY <2>7, ErrorReturnStep
  <2>8. CASE fail
    BY <2>8, FailStep
  <2>9. CASE resume
    BY <2>9, ResumeStep
  <2>10. CASE run_main
    BY <2>10, MainStep
  <2>11. CASE exit
    BY <2>11, ExitStep
  <2>12. CASE UNCHANGED vars
    BY <2>12, StackStutter
  <2>. QED
    BY <2>1, <2>2, <2>3, <2>4, <2>5, <2>6, <2>7, <2>8, <2>9, <2>10, <2>11, <2>12
       DEF Next, SyncCall
<1>. QED
  BY <1>1, InitStack, PTL DEF Spec

\* The state keeps its types: frames restored from views, abandoned and returned
\* are frames.
THEOREM FramesTypeCorrect == Spec => []TypeOK
<1>1. StackInv => TypeOK
  BY DEF StackInv
<1>. QED
  BY <1>1, FramesStackInvariant, PTL

\* No activation runs out of frames, runs a view, finds no frame to return to or
\* loses the view its caller is restored from (the internal errors of
\* drive_frames, finish_frame and call_synchronously_with_references).
THEOREM FramesNoInternalError == Spec => []NoInternalError
<1>1. StackInv => NoInternalError
  BY DEF StackInv, NoInternalError, Ends, InternalErrors
<1>. QED
  BY <1>1, FramesStackInvariant, PTL

\* A child lies on the frame that called it, so that its result, its raise and
\* its write-backs reach that frame; a root lies on its activation's base.
THEOREM FramesCallersBelow == Spec => []CallersBelow
<1>1. StackInv => CallersBelow
  <2>. SUFFICES ASSUME StackInv PROVE CallersBelow
    OBVIOUS
  <2>1. CASE status = "running"
    <3>1. OnCaller /\ DOMAIN frames = 1..Top
      BY <2>1, Typed DEF Stacked
    <3>2. \A k \in DOMAIN frames : frames[k].kind = "child" =>
            k > 1 /\ frames[k - 1].id = frames[k].caller
      BY <3>1 DEF OnCaller
    <3>3. ASSUME Executing
          PROVE  /\ Current.popped.kind = "child" =>
                      Top > 0 /\ frames[Top].id = Current.popped.caller
                 /\ Current.popped.kind = "root" => Top = Current.base
      <4>1. PICK n : n = Inner
        OBVIOUS
      <4>2. PICK f : f = activations[n].popped
        OBVIOUS
      <4>3. PICK b : b = activations[n].base
        OBVIOUS
      <4>4. Current = activations[n] /\ b \in Nat /\ Top \in Nat
        BY <3>3, <4>1, <4>2, <4>3, Runs
      <4>5. \/ f.kind = "root" /\ Top = b
            \/ f.kind = "child" /\ b < Top /\ f.caller = frames[Top].id
        BY <3>3, <4>1, <4>2, <4>3, Runs
      <4>. QED
        BY <4>2, <4>3, <4>4, <4>5
    <3>. QED
      BY <3>2, <3>3 DEF CallersBelow
  <2>2. CASE status # "running"
    <3>1. DOMAIN frames = {} /\ ~Executing
      BY <2>2 DEF StackInv, Executing, Driving
    <3>. QED
      BY <3>1 DEF CallersBelow
  <2>. QED
    BY <2>1, <2>2
<1>. QED
  BY <1>1, FramesStackInvariant, PTL

-----------------------------------------------------------------------------
(* The places of frames, and what moves between them. *)

\* Which places there are, and what is there.
LEMMA Places ==
  ASSUME NEW s, NEW a
  PROVE  /\ \A k : /\ OnStack(k) \in Place(s, a) <=> k \in 1..Len(s)
                   /\ At(s, a, OnStack(k)) = s[k]
         /\ \A i : /\ InHand(i) \in Place(s, a) <=>
                        /\ i \in 1..Len(a) /\ a[i].popped # None
                        /\ i < Len(a) => a[i + 1].views = 0
                   /\ At(s, a, InHand(i)) = a[i].popped
         /\ \A i : /\ AsResult(i) \in Place(s, a) <=>
                        i \in 1..Len(a) /\ i = Len(a) /\ a[i].returned # None
                   /\ At(s, a, AsResult(i)) = a[i].returned
         /\ \A x \in Place(s, a) : \E j : x = OnStack(j) \/ x = InHand(j) \/ x = AsResult(j)
<1>1. \A k : OnStack(k) \in Place(s, a) <=> k \in 1..Len(s)
  BY DEF Place, OnStack, InHand, AsResult
<1>2. \A i : InHand(i) \in Place(s, a) <=>
        i \in 1..Len(a) /\ a[i].popped # None /\ (i < Len(a) => a[i + 1].views = 0)
  BY DEF Place, OnStack, InHand, AsResult
<1>3. \A i : AsResult(i) \in Place(s, a) <=>
        i \in 1..Len(a) /\ i = Len(a) /\ a[i].returned # None
  BY DEF Place, OnStack, InHand, AsResult
<1>4. \A x \in Place(s, a) : \E j : x = OnStack(j) \/ x = InHand(j) \/ x = AsResult(j)
  BY DEF Place
<1>5. \A j : /\ At(s, a, OnStack(j)) = s[j] /\ At(s, a, InHand(j)) = a[j].popped
             /\ At(s, a, AsResult(j)) = a[j].returned
  BY DEF At, OnStack, InHand, AsResult
<1>. QED
  BY <1>1, <1>2, <1>3, <1>4, <1>5

\* What is there, for one of them.
LEMMA AtPlace ==
  ASSUME NEW s, NEW a, NEW j
  PROVE  /\ At(s, a, OnStack(j)) = s[j] /\ At(s, a, InHand(j)) = a[j].popped
         /\ At(s, a, AsResult(j)) = a[j].returned
BY DEF At, OnStack, InHand, AsResult

\* Places differ in kind or in number.
LEMMA PlacesDiffer ==
  ASSUME NEW i, NEW j
  PROVE  /\ OnStack(i) # InHand(j) /\ OnStack(i) # AsResult(j) /\ InHand(i) # AsResult(j)
         /\ OnStack(i) = OnStack(j) => i = j
         /\ InHand(i) = InHand(j) => i = j
         /\ AsResult(i) = AsResult(j) => i = j
BY DEF OnStack, InHand, AsResult

\* The same frame, unwritten between.
Same(f, g) == f.id = g.id /\ f.vars = g.vars

\* Frames stay at their places, or go, but for the one that moves from y1 to x1,
\* the one from y2 to x2, and the new one at z.
Moves(s, a, s2, a2, x1, y1, x2, y2, z) ==
  /\ \A x \in Place(s2, a2) : (x # x1 /\ x # x2 /\ x # z) =>
       x \in Place(s, a) /\ Same(At(s2, a2, x), At(s, a, x))
  /\ x1 \in Place(s2, a2) =>
       /\ y1 \in Place(s, a) /\ y1 \notin Place(s2, a2)
       /\ Same(At(s2, a2, x1), At(s, a, y1))
  /\ x2 \in Place(s2, a2) =>
       /\ y2 \in Place(s, a) /\ y2 \notin Place(s2, a2)
       /\ Same(At(s2, a2, x2), At(s, a, y2))
  /\ y1 # y2 /\ x1 # z /\ x2 # z

\* Such steps lose no write.
LEMMA Moved ==
  ASSUME NEW s, NEW a, NEW s2, NEW a2, NEW x1, NEW y1, NEW x2, NEW y2, NEW z,
         NEW nx \in Nat, NEW nx2 \in Nat, NEW wr, nx <= nx2,
         Seen(s, a, nx, wr), Moves(s, a, s2, a2, x1, y1, x2, y2, z),
         z \in Place(s2, a2) => /\ At(s2, a2, z).id = nx /\ At(s2, a2, z).vars = 0
                                /\ nx \in FrameIds /\ nx < nx2
  PROVE  Seen(s2, a2, nx2, wr)
<1>1. PICK P, Q : P = Place(s, a) /\ Q = Place(s2, a2)
  OBVIOUS
<1>2. PICK old : old = [x \in Q |-> IF x = x1 THEN y1 ELSE IF x = x2 THEN y2 ELSE x]
  OBVIOUS
<1>3. ASSUME NEW x \in Q, x # z
      PROVE  /\ old[x] \in P /\ At(s2, a2, x).id = At(s, a, old[x]).id
             /\ At(s2, a2, x).vars = At(s, a, old[x]).vars
  BY <1>1, <1>2, <1>3 DEF Moves, Same
<1>4. ASSUME NEW x \in Q, NEW y \in Q, x # z, y # z, old[x] = old[y]
      PROVE  x = y
  BY <1>1, <1>2, <1>4 DEF Moves
<1>5. OnePlace(s, a) /\ UpToDate(s, a, nx, wr) /\ Unwritten(nx, wr)
  BY DEF Seen
<1>6. ASSUME NEW x \in Q, x # z
      PROVE  At(s2, a2, x).id \in 1..(nx - 1) /\ At(s2, a2, x).vars = wr[At(s2, a2, x).id]
  BY <1>1, <1>3, <1>5, <1>6 DEF UpToDate
<1>7. ASSUME NEW x \in Q, NEW y \in Q, At(s2, a2, x).id = At(s2, a2, y).id
      PROVE  x = y
  <2>1. CASE x # z /\ y # z
    <3>1. At(s, a, old[x]).id = At(s, a, old[y]).id /\ old[x] \in P /\ old[y] \in P
      BY <1>3, <1>7, <2>1
    <3>2. old[x] = old[y]
      BY <1>1, <1>5, <3>1 DEF OnePlace
    <3>. QED
      BY <1>4, <2>1, <3>2
  <2>2. CASE x = z /\ y # z
    BY <1>1, <1>6, <1>7, <2>2
  <2>3. CASE x # z /\ y = z
    BY <1>1, <1>6, <1>7, <2>3
  <2>. QED
    BY <2>1, <2>2, <2>3
<1>8. OnePlace(s2, a2)
  BY <1>1, <1>7 DEF OnePlace
<1>9. \A x \in Q : At(s2, a2, x).id \in 1..(nx2 - 1) /\ At(s2, a2, x).vars = wr[At(s2, a2, x).id]
  <2>. TAKE x \in Q
  <2>1. CASE x = z
    <3>1. At(s2, a2, x).id = nx /\ At(s2, a2, x).vars = 0 /\ nx \in FrameIds /\ nx < nx2
      BY <1>1, <2>1
    <3>2. wr[nx] = 0
      BY <1>5, <3>1 DEF Unwritten
    <3>. QED
      BY <3>1, <3>2 DEF FrameIds
  <2>2. CASE x # z
    <3>1. At(s2, a2, x).id \in 1..(nx - 1) /\ At(s2, a2, x).vars = wr[At(s2, a2, x).id]
      BY <1>6, <2>2
    <3>. QED
      BY <3>1
  <2>. QED
    BY <2>1, <2>2
<1>10. Unwritten(nx2, wr)
  BY <1>5, Fields DEF Unwritten
<1>. QED
  BY <1>1, <1>8, <1>9, <1>10 DEF Seen, UpToDate

\* What stays, kind by kind.
LEMMA MovesByKind ==
  ASSUME NEW s, NEW a, NEW s2, NEW a2, NEW x1, NEW y1, NEW x2, NEW y2, NEW z,
         \A k \in 1..Len(s2) : (OnStack(k) # x1 /\ OnStack(k) # x2 /\ OnStack(k) # z) =>
           k \in 1..Len(s) /\ s2[k] = s[k],
         \A i : (InHand(i) \in Place(s2, a2) /\ InHand(i) # x1) =>
           InHand(i) \in Place(s, a) /\ Same(a2[i].popped, a[i].popped),
         \A i : (AsResult(i) \in Place(s2, a2) /\ AsResult(i) # x2) =>
           AsResult(i) \in Place(s, a) /\ Same(a2[i].returned, a[i].returned),
         x1 \in Place(s2, a2) =>
           /\ y1 \in Place(s, a) /\ y1 \notin Place(s2, a2)
           /\ Same(At(s2, a2, x1), At(s, a, y1)),
         x2 \in Place(s2, a2) =>
           /\ y2 \in Place(s, a) /\ y2 \notin Place(s2, a2)
           /\ Same(At(s2, a2, x2), At(s, a, y2)),
         y1 # y2, x1 # z, x2 # z
  PROVE  Moves(s, a, s2, a2, x1, y1, x2, y2, z)
<1>1. ASSUME NEW x \in Place(s2, a2), x # x1, x # x2, x # z
      PROVE  x \in Place(s, a) /\ Same(At(s2, a2, x), At(s, a, x))
  <2>1. PICK j : x = OnStack(j) \/ x = InHand(j) \/ x = AsResult(j)
    BY Places
  <2>2. CASE x = OnStack(j)
    <3>1. j \in 1..Len(s2)
      BY <2>2, Places
    <3>2. j \in 1..Len(s) /\ s2[j] = s[j]
      BY <1>1, <2>2, <3>1
    <3>3. x \in Place(s, a) /\ At(s2, a2, x) = s2[j] /\ At(s, a, x) = s[j]
      BY <2>2, <3>2, Places
    <3>. QED
      BY <3>2, <3>3 DEF Same
  <2>3. CASE x = InHand(j)
    <3>1. At(s2, a2, x) = a2[j].popped /\ At(s, a, x) = a[j].popped
      BY <2>3, Places
    <3>. QED
      BY <1>1, <2>3, <3>1
  <2>4. CASE x = AsResult(j)
    <3>1. At(s2, a2, x) = a2[j].returned /\ At(s, a, x) = a[j].returned
      BY <2>4, Places
    <3>. QED
      BY <1>1, <2>4, <3>1
  <2>. QED
    BY <2>1, <2>2, <2>3, <2>4
<1>. QED
  BY <1>1 DEF Moves

\* The places in the hands of activations when only the innermost one changes
\* what it holds.
LEMMA HoldPlaces ==
  ASSUME StackInv, status = "running", NEW n, n = Inner, NEW f \in Frame \cup {None},
         NEW r \in Frame \cup {None}, Hold(f, r), NEW a, a = activations, NEW a2,
         a2 = activations', NEW s, NEW s2
  PROVE  /\ n \in Nat /\ n >= 1 /\ Len(a) = n /\ Len(a2) = n
         /\ a2[n].popped = f /\ a2[n].returned = r
         /\ \A i : (InHand(i) \in Place(s2, a2) /\ i # n) =>
              InHand(i) \in Place(s, a) /\ Same(a2[i].popped, a[i].popped)
         /\ \A i : AsResult(i) \in Place(s2, a2) => i = n
         /\ InHand(n) \in Place(s2, a2) <=> f # None
         /\ AsResult(n) \in Place(s2, a2) <=> r # None
         /\ InHand(n) \in Place(s, a) <=> a[n].popped # None
         /\ AsResult(n) \in Place(s, a) <=> a[n].returned # None
<1>1. /\ n \in Nat /\ n >= 1 /\ Len(a) = n /\ Acts = 1..n
  BY Typed DEF Acts
<1>2. /\ a2[n].popped = f /\ a2[n].returned = r
      /\ \A i \in 1..n : a2[i].views = a[i].views
      /\ \A i \in 1..n : i < n => a2[i] = a[i]
  BY <1>1, HoldFacts
<1>3. Len(a2) = n
  BY HoldFacts DEF Inner
<1>4. ASSUME NEW i, InHand(i) \in Place(s2, a2), i # n
      PROVE  InHand(i) \in Place(s, a) /\ Same(a2[i].popped, a[i].popped)
  <2>1. i \in 1..n /\ a2[i].popped # None /\ (i < n => a2[i + 1].views = 0)
    BY <1>3, <1>4, Places
  <2>2. i < n /\ i + 1 \in 1..n
    BY <1>1, <1>4, <2>1
  <2>3. a2[i] = a[i] /\ a2[i + 1].views = a[i + 1].views
    BY <1>2, <2>1, <2>2
  <2>. QED
    BY <1>1, <2>1, <2>2, <2>3, Places DEF Same
<1>5. \A i : AsResult(i) \in Place(s2, a2) => i = n
  BY <1>3, Places
<1>6. n \in 1..n /\ ~(n < n)
  BY <1>1
<1>7. (InHand(n) \in Place(s2, a2) <=> f # None) /\ (AsResult(n) \in Place(s2, a2) <=> r # None)
  BY <1>2, <1>3, <1>6, Places
<1>8. /\ InHand(n) \in Place(s, a) <=> a[n].popped # None
      /\ AsResult(n) \in Place(s, a) <=> a[n].returned # None
  BY <1>1, <1>6, Places
<1>. QED
  BY <1>1, <1>2, <1>3, <1>4, <1>5, <1>7, <1>8

\* Views stay the views of what is held below.
LEMMA HoldViewed ==
  ASSUME StackInv, status = "running", Viewed, NEW f \in Frame \cup {None},
         NEW r \in Frame \cup {None}, Hold(f, r),
         \A k \in 1..activations[Inner].base : frames'[k].id = frames[k].id
  PROVE  Viewed'
<1>1. Inner' = Inner /\ Acts' = Acts
  BY HoldFacts
<1>2. ASSUME NEW i \in Acts, i < Inner
      PROVE  /\ activations'[i + 1].views > 0 =>
                  frames'[Reach(i)' + 1].id = activations'[i].popped.id
             /\ activations'[i + 1].views = 2 =>
                  /\ activations'[i].returned # None
                  /\ frames'[Reach(i)' + 2].id = activations'[i].returned.id
  <2>1. i + 1 \in Acts /\ Reach(i) \in Nat
    BY <1>2, Typed
  <2>2. /\ activations'[i] = activations[i] /\ Reach(i)' = Reach(i)
        /\ activations'[i + 1].views = activations[i + 1].views
    BY <1>2, <2>1, HoldFacts
  <2>3. Reach(i) + activations[i + 1].views <= activations[Inner].base
    BY <1>2, Below
  <2>4. activations[i + 1].views \in 0..2 /\ activations[Inner].base \in Nat
    BY <2>1, Typed
  <2>5. /\ activations[i + 1].views > 0 => Reach(i) + 1 \in 1..activations[Inner].base
        /\ activations[i + 1].views = 2 => Reach(i) + 2 \in 1..activations[Inner].base
    BY <2>1, <2>3, <2>4
  <2>6. /\ activations[i + 1].views > 0 => frames[Reach(i) + 1].id = activations[i].popped.id
        /\ activations[i + 1].views = 2 =>
             /\ activations[i].returned # None
             /\ frames[Reach(i) + 2].id = activations[i].returned.id
    BY <1>2 DEF Viewed
  <2>. QED
    BY <2>2, <2>5, <2>6
<1>. QED
  BY <1>1, <1>2 DEF Viewed

\* A step of the innermost activation that pushes and pops frames loses no write
\* when what it moves stays the same.
LEMMA HoldSees ==
  ASSUME StackInv, DataInv, status = "running", NEW n, n = Inner,
         NEW f \in Frame \cup {None}, NEW r \in Frame \cup {None}, Hold(f, r),
         NEW s, s = frames, NEW a, a = activations, NEW s2, s2 = frames', NEW a2,
         a2 = activations', NEW x1, NEW y1, NEW x2, NEW y2, NEW z,
         \A k \in 1..activations[Inner].base : frames'[k].id = frames[k].id,
         Moves(s, a, s2, a2, x1, y1, x2, y2, z),
         next_frame_id' \in Nat, next_frame_id <= next_frame_id', written' = written,
         z \in Place(s2, a2) => /\ At(s2, a2, z).id = next_frame_id /\ At(s2, a2, z).vars = 0
                                /\ next_frame_id \in FrameIds
                                /\ next_frame_id < next_frame_id'
  PROVE  DataInv'
<1>1. Viewed /\ Seen(s, a, next_frame_id, written)
  BY DEF DataInv
<1>2. Viewed'
  BY <1>1, HoldViewed
<1>3. PICK nx \in Nat : nx = next_frame_id
  BY Typed
<1>4. PICK nx2 \in Nat : nx2 = next_frame_id'
  OBVIOUS
<1>5. PICK wr : wr = written
  OBVIOUS
<1>6. Seen(s, a, nx, wr) /\ nx <= nx2
  BY <1>1, <1>3, <1>4, <1>5
<1>7. z \in Place(s2, a2) => /\ At(s2, a2, z).id = nx /\ At(s2, a2, z).vars = 0
                             /\ nx \in FrameIds /\ nx < nx2
  BY <1>3, <1>4
<1>8. Seen(s2, a2, nx2, wr)
  BY <1>6, <1>7, Moved
<1>. QED
  BY <1>2, <1>4, <1>5, <1>8 DEF DataInv

\* A frame comes off the stack into the hands of its activation.
LEMMA PopData == StackInv /\ DataInv /\ pop => DataInv'
<1>. SUFFICES ASSUME StackInv, DataInv, pop PROVE DataInv'
  OBVIOUS
<1>1. PICK n, b : n = Inner /\ b = activations[n].base
  OBVIOUS
<1>2. /\ status = "running" /\ activations[n].popped = None /\ b \in Nat /\ Top \in Nat /\ b < Top
      /\ Hold(frames[Top], None) /\ frames' = Down(frames, Top - 1)
      /\ next_frame_id' = next_frame_id /\ written' = written
  BY <1>1, PopForms
<1>3. PICK s, a, s2, a2 : s = frames /\ a = activations /\ s2 = frames' /\ a2 = activations'
  OBVIOUS
<1>4. PICK T \in Nat : T = Top
  BY <1>2
<1>5. PICK f : f = s[T]
  OBVIOUS
<1>6. s \in Seq(Frame) /\ Len(s) = T /\ T > 0 /\ next_frame_id \in Nat
  BY <1>2, <1>3, <1>4, Typed
<1>7. f \in Frame /\ f # None /\ f \in Frame \cup {None} /\ None \in Frame \cup {None}
  BY <1>5, <1>6, NoneAssumption
<1>8. Hold(f, None)
  BY <1>2, <1>3, <1>4, <1>5
<1>9. Len(s2) = T - 1 /\ \A k \in 1..(T - 1) : s2[k] = s[k]
  <2>1. T - 1 \in 0..Len(s)
    BY <1>6
  <2>2. s2 = Down(s, T - 1)
    BY <1>2, <1>3, <1>4
  <2>. QED
    BY <1>6, <2>1, <2>2, DownFacts
<1>10. /\ a2[n].popped = f /\ a2[n].returned = None
       /\ \A i : (InHand(i) \in Place(s2, a2) /\ i # n) =>
            InHand(i) \in Place(s, a) /\ Same(a2[i].popped, a[i].popped)
       /\ \A i : AsResult(i) \in Place(s2, a2) => i = n
       /\ AsResult(n) \notin Place(s2, a2)
  BY <1>1, <1>2, <1>3, <1>7, <1>8, HoldPlaces
<1>11. /\ OnStack(T) \in Place(s, a) /\ OnStack(T) \notin Place(s2, a2)
       /\ OnStack(0) \notin Place(s2, a2) /\ AsResult(0) \notin Place(s2, a2)
  BY <1>6, <1>9, Places
<1>12. Same(At(s2, a2, InHand(n)), At(s, a, OnStack(T)))
  <2>1. At(s2, a2, InHand(n)) = f /\ At(s, a, OnStack(T)) = f
    BY <1>5, <1>10, Places
  <2>. QED
    BY <2>1 DEF Same
<1>13. /\ \A k \in 1..Len(s2) : k \in 1..Len(s) /\ s2[k] = s[k]
       /\ \A i : InHand(i) # InHand(n) => i # n
       /\ \A i : AsResult(i) \notin Place(s2, a2)
  BY <1>6, <1>9, <1>10
<1>14. Moves(s, a, s2, a2, InHand(n), OnStack(T), OnStack(0), InHand(0), AsResult(0))
  <2>1. /\ OnStack(T) # InHand(0) /\ InHand(n) # AsResult(0) /\ OnStack(0) # AsResult(0)
    BY PlacesDiffer
  <2>. QED
    BY <1>10, <1>11, <1>12, <1>13, <2>1, MovesByKind
<1>15. \A k \in 1..activations[Inner].base : frames'[k].id = frames[k].id
  BY <1>1, <1>2, <1>3, <1>4, <1>9
<1>. QED
  BY <1>1, <1>2, <1>3, <1>6, <1>7, <1>8, <1>11, <1>14, <1>15, HoldSees

\* A frame that is let go is gone, or is the result.
LEMMA LetGoData ==
  ASSUME StackInv, DataInv, status = "running", NEW n, n = Inner,
         NEW r \in Frame \cup {None}, r # None => r = activations[n].popped, Hold(None, r),
         frames' = frames, next_frame_id' = next_frame_id, written' = written
  PROVE  DataInv'
<1>1. PICK f \in Frame \cup {None} : f = None
  OBVIOUS
<1>2. Hold(f, r)
  BY <1>1
<1>3. PICK s, a, s2, a2 : s = frames /\ a = activations /\ s2 = frames' /\ a2 = activations'
  OBVIOUS
<1>4. /\ a2[n].popped = f /\ a2[n].returned = r
      /\ \A i : (InHand(i) \in Place(s2, a2) /\ i # n) =>
           InHand(i) \in Place(s, a) /\ Same(a2[i].popped, a[i].popped)
      /\ \A i : AsResult(i) \in Place(s2, a2) => i = n
  BY <1>2, <1>3, HoldPlaces
<1>5. /\ InHand(n) \notin Place(s2, a2)
      /\ AsResult(n) \in Place(s2, a2) <=> r # None
      /\ InHand(n) \in Place(s, a) <=> a[n].popped # None
  BY <1>1, <1>2, <1>3, HoldPlaces
<1>6. OnStack(0) \notin Place(s2, a2)
  BY Places
<1>7. AsResult(n) \in Place(s2, a2) =>
        /\ InHand(n) \in Place(s, a) /\ InHand(n) \notin Place(s2, a2)
        /\ Same(At(s2, a2, AsResult(n)), At(s, a, InHand(n)))
  <2>1. At(s2, a2, AsResult(n)) = r /\ At(s, a, InHand(n)) = a[n].popped
    BY <1>4, Places
  <2>. QED
    BY <1>3, <1>5, <2>1 DEF Same
<1>8. /\ \A k \in 1..Len(s2) : k \in 1..Len(s) /\ s2[k] = s[k]
      /\ \A i : InHand(i) # InHand(n) => i # n
      /\ \A i : AsResult(i) \in Place(s2, a2) => AsResult(i) = AsResult(n)
  BY <1>3, <1>4
<1>9. Moves(s, a, s2, a2, InHand(n), OnStack(0), AsResult(n), InHand(n), OnStack(0))
  <2>1. OnStack(0) # InHand(n) /\ InHand(n) # OnStack(0) /\ AsResult(n) # OnStack(0)
    BY PlacesDiffer
  <2>. QED
    BY <1>4, <1>5, <1>7, <1>8, <2>1, MovesByKind
<1>10. /\ \A k \in 1..activations[Inner].base : frames'[k].id = frames[k].id
       /\ next_frame_id' \in Nat /\ next_frame_id <= next_frame_id'
  BY Typed
<1>. QED
  BY <1>2, <1>3, <1>6, <1>9, <1>10, HoldSees

\* The steps that let a frame go.
LEMMA LetGoForms ==
  ASSUME StackInv, finish_frame \/ error_return \/ fail, NEW n, n = Inner
  PROVE  /\ status = "running"
         /\ \E r \in Frame \cup {None} :
              /\ Hold(None, r) /\ (r # None => r = activations[n].popped)
              /\ frames' = frames /\ next_frame_id' = next_frame_id /\ written' = written
<1>1. Executing
  BY DEF finish_frame, error_return, fail
<1>2. PICK f : f = activations[n].popped
  OBVIOUS
<1>3. /\ status = "running" /\ outcome = "none" /\ Current = activations[n] /\ f \in Frame
      /\ activations[n].base \in Nat /\ Top \in Nat
  BY <1>1, <1>2, Runs
<1>4. \/ f.kind = "root" /\ f.id = activations[n].target /\ Top = activations[n].base
      \/ f.kind = "child" /\ f.id # activations[n].target /\ activations[n].base < Top
  BY <1>1, <1>2, Runs
<1>5. /\ Current.popped = f /\ ~(f.id # Current.target /\ f.kind # "child")
      /\ ~(f.id # Current.target /\ Top = 0)
  BY <1>2, <1>3, <1>4
<1>6. ToCaller \/ End("ok", f) \/ \E o \in {"raised", "error"} : End(o, None)
  <2>1. CASE finish_frame
    BY <1>5, <2>1, Zenon DEF finish_frame
  <2>2. CASE error_return
    BY <1>5, <2>2, Zenon DEF error_return
  <2>3. CASE fail
    BY <2>3 DEF fail
  <2>. QED
    BY <2>1, <2>2, <2>3
<1>7. CASE ToCaller
  BY <1>3, <1>7 DEF ToCaller
<1>8. CASE End("ok", f)
  BY <1>2, <1>3, <1>8 DEF End
<1>9. CASE \E o \in {"raised", "error"} : End(o, None)
  BY <1>3, <1>9 DEF End
<1>. QED
  BY <1>6, <1>7, <1>8, <1>9

\* A frame that finishes, raises or fails is let go.
LEMMA EndData == StackInv /\ DataInv /\ (finish_frame \/ error_return \/ fail) => DataInv'
<1>. SUFFICES ASSUME StackInv, DataInv, finish_frame \/ error_return \/ fail PROVE DataInv'
  OBVIOUS
<1>1. PICK n : n = Inner
  OBVIOUS
<1>2. status = "running"
  BY <1>1, LetGoForms
<1>3. PICK r \in Frame \cup {None} :
        /\ Hold(None, r) /\ (r # None => r = activations[n].popped)
        /\ frames' = frames /\ next_frame_id' = next_frame_id /\ written' = written
  BY <1>1, LetGoForms
<1>. QED
  BY <1>1, <1>2, <1>3, LetGoData

\* A frame goes back on the stack, and perhaps a new one on it.
LEMMA PushData ==
  ASSUME StackInv, DataInv, Executing, NEW n, n = Inner, NEW g, g = activations[n].popped,
         NEW T, T = Top, NEW c \in {0, 1}, Hold(None, None),
         frames' \in Seq(Frame), Len(frames') = T + 1 + c,
         \A k \in 1..T : frames'[k] = frames[k], frames'[T + 1] = g,
         c = 1 => /\ frames'[T + 2].id = next_frame_id /\ frames'[T + 2].vars = 0
                  /\ next_frame_id \in FrameIds,
         next_frame_id' = next_frame_id + c, written' = written
  PROVE  DataInv'
<1>1. /\ status = "running" /\ g \in Frame /\ g # None /\ T \in Nat
      /\ activations[n].base \in Nat /\ activations[n].base <= T
  BY Runs
<1>2. PICK f \in Frame \cup {None} : f = None
  OBVIOUS
<1>3. Hold(f, f)
  BY <1>2
<1>4. PICK s, a, s2, a2 : s = frames /\ a = activations /\ s2 = frames' /\ a2 = activations'
  OBVIOUS
<1>5. Len(s) = T /\ next_frame_id \in Nat
  BY <1>1, <1>4, Typed
<1>6. /\ \A i : (InHand(i) \in Place(s2, a2) /\ i # n) =>
           InHand(i) \in Place(s, a) /\ Same(a2[i].popped, a[i].popped)
      /\ \A i : AsResult(i) \in Place(s2, a2) => i = n
      /\ InHand(n) \notin Place(s2, a2) /\ AsResult(n) \notin Place(s2, a2)
      /\ InHand(n) \in Place(s, a)
  BY <1>1, <1>2, <1>3, <1>4, HoldPlaces, ZenonT(60)
<1>7. PICK u, v : u = T + 1 /\ v = T + 2
  OBVIOUS
<1>8. /\ u \in Nat /\ v \in Nat /\ u # v
      /\ \A k \in 1..Len(s2) : (k # u /\ k # v) => k \in 1..T
  BY <1>1, <1>4, <1>7
<1>9. \A k \in 1..Len(s2) : (OnStack(k) # OnStack(u) /\ OnStack(k) # OnStack(v)) =>
        k \in 1..Len(s) /\ s2[k] = s[k]
  BY <1>4, <1>5, <1>8
<1>10. OnStack(u) \in Place(s2, a2) =>
         /\ InHand(n) \in Place(s, a) /\ InHand(n) \notin Place(s2, a2)
         /\ Same(At(s2, a2, OnStack(u)), At(s, a, InHand(n)))
  <2>1. s2[u] = g /\ a[n].popped = g
    BY <1>4, <1>7
  <2>2. At(s2, a2, OnStack(u)) = g /\ At(s, a, InHand(n)) = g
    BY <2>1, AtPlace
  <2>. QED
    BY <1>6, <2>2 DEF Same
<1>11. /\ \A i : InHand(i) \in Place(s2, a2) => i # n
       /\ \A i : AsResult(i) \notin Place(s2, a2)
  BY <1>6
<1>12. AsResult(0) \notin Place(s2, a2)
  BY <1>11
<1>13. Moves(s, a, s2, a2, OnStack(u), InHand(n), AsResult(0), OnStack(0), OnStack(v))
  <2>1. /\ InHand(n) # OnStack(0) /\ OnStack(u) # OnStack(v) /\ AsResult(0) # OnStack(v)
    BY <1>8, PlacesDiffer
  <2>. QED
    BY <1>6, <1>9, <1>10, <1>11, <1>12, <2>1, MovesByKind
<1>14. OnStack(v) \in Place(s2, a2) =>
         /\ At(s2, a2, OnStack(v)).id = next_frame_id /\ At(s2, a2, OnStack(v)).vars = 0
         /\ next_frame_id \in FrameIds /\ next_frame_id < next_frame_id'
  <2>1. OnStack(v) \in Place(s2, a2) => v \in 1..Len(s2)
    BY Places
  <2>2. v \in 1..Len(s2) => c = 1
    BY <1>1, <1>4, <1>7
  <2>3. At(s2, a2, OnStack(v)) = s2[v] /\ s2[v] = frames'[T + 2]
    BY <1>4, <1>7, AtPlace
  <2>4. c = 1 => next_frame_id < next_frame_id'
    BY <1>5
  <2>. QED
    BY <2>1, <2>2, <2>3, <2>4
<1>15. /\ \A k \in 1..activations[Inner].base : frames'[k].id = frames[k].id
       /\ next_frame_id' \in Nat /\ next_frame_id <= next_frame_id'
  BY <1>1, <1>5
<1>. QED
  BY <1>1, <1>3, <1>4, <1>13, <1>14, <1>15, HoldSees

\* The frame goes back.
LEMMA PushBackData == StackInv /\ DataInv /\ push_back => DataInv'
<1>. SUFFICES ASSUME StackInv, DataInv, push_back PROVE DataInv'
  OBVIOUS
<1>1. PICK n, g, T : n = Inner /\ g = activations[n].popped /\ T = Top
  OBVIOUS
<1>2. Executing
  BY DEF push_back
<1>3. status = "running" /\ Current = activations[n] /\ g \in Frame /\ T \in Nat
  BY <1>1, <1>2, Runs
<1>4. frames \in Seq(Frame) /\ Len(frames) = T /\ next_frame_id \in Nat
  BY <1>1, <1>3, Typed
<1>5. /\ frames' = Append(frames, g) /\ Hold(None, None) /\ next_frame_id' = next_frame_id
      /\ written' = written
  BY <1>1, <1>3 DEF push_back
<1>6. PICK c \in {0, 1} : c = 0
  OBVIOUS
<1>7. /\ frames' \in Seq(Frame) /\ Len(frames') = T + 1 + c /\ frames'[T + 1] = g
      /\ \A k \in 1..T : frames'[k] = frames[k]
      /\ next_frame_id' = next_frame_id + c /\ c # 1
  BY <1>3, <1>4, <1>5, <1>6
<1>. QED
  BY <1>1, <1>2, <1>5, <1>6, <1>7, PushData

\* It goes back, and its callee on it.
LEMMA DirectCallData ==
  ASSUME StackInv, DataInv, NEW edge \in BOOLEAN, direct_call(edge)
  PROVE  DataInv'
<1>1. PICK n, g, T : n = Inner /\ g = activations[n].popped /\ T = Top
  OBVIOUS
<1>2. Executing /\ next_frame_id <= MaxFrames
  BY DEF direct_call, CanCall
<1>3. status = "running" /\ Current = activations[n] /\ g \in Frame /\ T \in Nat
  BY <1>1, <1>2, Runs
<1>4. frames \in Seq(Frame) /\ Len(frames) = T
  BY <1>1, <1>3, Typed
<1>5. PICK h : h = NewFrame("child", edge, g.id)
  OBVIOUS
<1>6. h \in Frame /\ h.id = next_frame_id /\ h.vars = 0 /\ next_frame_id \in FrameIds
  <2>1. g.id \in FrameIds \cup {None}
    BY <1>3, Fields
  <2>. QED
    BY <1>2, <1>3, <1>5, <2>1, NewFrameFacts
<1>7. /\ frames' = frames \o <<g, h>> /\ Hold(None, None)
      /\ next_frame_id' = next_frame_id + 1 /\ written' = written
  BY <1>1, <1>3, <1>5 DEF direct_call
<1>8. PICK c \in {0, 1} : c = 1
  OBVIOUS
<1>9. PICK s \in Seq(Frame) : s = frames
  BY <1>4
<1>10. LET t == s \o <<g, h>> IN
         /\ t \in Seq(Frame) /\ Len(t) = Len(s) + 2
         /\ \A k \in 1..Len(s) : t[k] = s[k]
         /\ t[Len(s) + 1] = g /\ t[Len(s) + 2] = h
  BY <1>3, <1>6, MoreFacts
<1>11. PICK t : t = s \o <<g, h>>
  OBVIOUS
<1>12. t = frames' /\ Len(s) = T
  BY <1>4, <1>7, <1>9, <1>11
<1>13. /\ frames' \in Seq(Frame) /\ Len(frames') = T + 2
       /\ \A k \in 1..T : frames'[k] = frames[k]
       /\ frames'[T + 1] = g /\ frames'[T + 2] = h
  BY <1>9, <1>10, <1>11, <1>12
<1>14. /\ frames'[T + 2].id = next_frame_id /\ frames'[T + 2].vars = 0
       /\ Len(frames') = T + 1 + c /\ next_frame_id' = next_frame_id + c
  <2>1. frames'[T + 2].id = next_frame_id /\ frames'[T + 2].vars = 0
    BY <1>6, <1>13
  <2>2. Len(frames') = T + 1 + c
    BY <1>3, <1>8, <1>13
  <2>3. next_frame_id' = next_frame_id + c
    BY <1>7, <1>8
  <2>. QED
    BY <2>1, <2>2, <2>3
<1>. QED
  BY <1>1, <1>2, <1>6, <1>7, <1>13, <1>14, PushData, ZenonT(60)

\* A write at the one place its frame is at is seen.
LEMMA WriteSees ==
  ASSUME NEW s, NEW a, NEW s2, NEW a2, NEW nx \in 1..(MaxFrames + 1), NEW wr, NEW wr2,
         NEW f \in FrameIds, Seen(s, a, nx, wr),
         NEW y \in Place(s, a), At(s, a, y).id = f,
         \A x \in Place(s2, a2) :
           /\ x \in Place(s, a) /\ At(s2, a2, x).id = At(s, a, x).id
           /\ x # y => At(s2, a2, x).vars = At(s, a, x).vars,
         At(s2, a2, y).vars = wr[f] + 1, wr2[f] = wr[f] + 1,
         \A g \in FrameIds : g # f => wr2[g] = wr[g]
  PROVE  Seen(s2, a2, nx, wr2)
<1>1. OnePlace(s, a) /\ UpToDate(s, a, nx, wr) /\ Unwritten(nx, wr)
  BY DEF Seen
<1>2. OnePlace(s2, a2)
  BY <1>1 DEF OnePlace
<1>3. \A x \in Place(s2, a2) : x # y => At(s2, a2, x).id # f
  BY <1>1 DEF OnePlace
<1>4. \A x \in Place(s2, a2) : At(s2, a2, x).id \in 1..(nx - 1) /\ At(s2, a2, x).id \in FrameIds
  <2>1. \A x \in Place(s2, a2) : At(s2, a2, x).id \in 1..(nx - 1)
    BY <1>1 DEF UpToDate
  <2>2. \A k \in 1..(nx - 1) : k \in FrameIds
    BY FramesAssumption DEF FrameIds
  <2>. QED
    BY <2>1, <2>2
<1>5. UpToDate(s2, a2, nx, wr2)
  <2>1. ASSUME NEW x \in Place(s2, a2)
        PROVE  At(s2, a2, x).vars = wr2[At(s2, a2, x).id]
    <3>1. CASE x = y
      BY <3>1
    <3>2. CASE x # y
      <4>1. At(s2, a2, x).vars = wr[At(s2, a2, x).id]
        BY <1>1, <3>2 DEF UpToDate
      <4>. QED
        BY <1>3, <1>4, <3>2, <4>1
    <3>. QED
      BY <3>1, <3>2
  <2>. QED
    BY <1>4, <2>1 DEF UpToDate
<1>6. Unwritten(nx, wr2)
  <2>1. f \in 1..(nx - 1)
    BY <1>1 DEF UpToDate
  <2>2. ASSUME NEW g \in FrameIds, g >= nx PROVE wr2[g] = 0
    <3>1. g # f
      BY <2>1, <2>2, Fields
    <3>. QED
      BY <1>1, <2>2, <3>1 DEF Unwritten
  <2>. QED
    BY <2>2 DEF Unwritten
<1>. QED
  BY <1>2, <1>5, <1>6 DEF Seen

\* The frame of an identity on the stack is found.
LEMMA Found ==
  ASSUME NEW f, NEW k \in DOMAIN frames, frames[k].id = f, DOMAIN frames \subseteq Nat,
         \A i, j \in DOMAIN frames : frames[i].id = frames[j].id => i = j
  PROVE  FirstOf(f) = k
<1>1. frames[k].id = f /\ \A j \in DOMAIN frames : frames[j].id = f => k <= j
  OBVIOUS
<1>2. /\ FirstOf(f) \in DOMAIN frames /\ frames[FirstOf(f)].id = f
  BY <1>1 DEF FirstOf
<1>. QED
  BY <1>2

\* Writes, to the frame itself and through references, are seen.
LEMMA WriteData ==
  ASSUME StackInv, DataInv, NEW f \in FrameIds, write(f)
  PROVE  DataInv'
<1>1. PICK n : n = Inner
  OBVIOUS
<1>2. PICK s, a, s2, a2, wr, wr2 :
        /\ s = frames /\ a = activations /\ s2 = frames' /\ a2 = activations'
        /\ wr = written /\ wr2 = written'
  OBVIOUS
<1>3. /\ Executing /\ next_frame_id' = next_frame_id /\ status = "running"
  BY <1>1, WriteForms
<1>4. PICK h \in Frame :
        /\ Hold(h, a[n].returned) /\ h.id = a[n].popped.id
        /\ h.vars = IF f = a[n].popped.id THEN wr[f] + 1 ELSE a[n].popped.vars
  BY <1>1, <1>2, WriteForms
<1>5. /\ Len(s2) = Len(s)
      /\ \A k \in 1..Len(s) : s2[k].id = s[k].id
      /\ f = a[n].popped.id => s2 = s
      /\ f # a[n].popped.id =>
           /\ \E k \in DOMAIN s : s[k].id = f
           /\ \A k \in 1..Len(s) : s2[k].vars = IF k = FirstOf(f) THEN wr[f] + 1 ELSE s[k].vars
  BY <1>1, <1>2, WriteForms
<1>6. /\ wr2[f] = wr[f] + 1 /\ \A g \in FrameIds : g # f => wr2[g] = wr[g]
  <2>1. wr2 = [wr EXCEPT ![f] = wr[f] + 1] /\ wr \in [FrameIds -> 0..MaxWrites]
    BY <1>1, <1>2, WriteForms DEF StackInv, TypeOK
  <2>. QED
    BY <2>1
<1>7. PICK r \in Frame \cup {None} : r = a[n].returned
  BY <1>1, <1>2, <1>3, Runs
<1>8. Hold(h, r) /\ h \in Frame \cup {None} /\ h # None
  BY <1>4, <1>7, NoneAssumption
<1>9. a[n].popped \in Frame /\ a[n].popped # None
  BY <1>1, <1>2, <1>3, Runs
<1>10. /\ a2[n].popped = h /\ a2[n].returned = r
       /\ \A i : (InHand(i) \in Place(s2, a2) /\ i # n) =>
            InHand(i) \in Place(s, a) /\ Same(a2[i].popped, a[i].popped)
       /\ \A i : AsResult(i) \in Place(s2, a2) => i = n
       /\ InHand(n) \in Place(s, a)
       /\ AsResult(n) \in Place(s2, a2) => AsResult(n) \in Place(s, a)
  BY <1>1, <1>2, <1>3, <1>7, <1>8, <1>9, HoldPlaces
<1>11. Viewed /\ Seen(s, a, next_frame_id, wr)
  BY <1>2, <1>3 DEF DataInv
<1>12. s \in Seq(Frame) /\ DOMAIN s = 1..Len(s) /\ Len(s) \in Nat
       /\ activations[Inner].base \in Nat /\ activations[Inner].base <= Len(s)
  BY <1>1, <1>2, <1>3, Runs, Typed
<1>13. Viewed'
  <2>1. \A k \in 1..activations[Inner].base : frames'[k].id = frames[k].id
    BY <1>2, <1>5, <1>12
  <2>. QED
    BY <1>3, <1>7, <1>8, <1>11, <2>1, HoldViewed
<1>14. ASSUME NEW j
       PROVE  /\ At(s, a, OnStack(j)) = s[j] /\ At(s2, a2, OnStack(j)) = s2[j]
              /\ At(s, a, InHand(j)) = a[j].popped /\ At(s2, a2, InHand(j)) = a2[j].popped
              /\ At(s, a, AsResult(j)) = a[j].returned
              /\ At(s2, a2, AsResult(j)) = a2[j].returned
  BY AtPlace
<1>15. /\ \A x \in Place(s2, a2) : \E j : x = OnStack(j) \/ x = InHand(j) \/ x = AsResult(j)
       /\ \A k : OnStack(k) \in Place(s, a) <=> k \in 1..Len(s)
       /\ \A k : OnStack(k) \in Place(s2, a2) <=> k \in 1..Len(s)
  BY <1>5, Places
<1>16. \A x \in Place(s2, a2) : x \in Place(s, a) /\ At(s2, a2, x).id = At(s, a, x).id
  <2>. TAKE x \in Place(s2, a2)
  <2>1. PICK j : x = OnStack(j) \/ x = InHand(j) \/ x = AsResult(j)
    BY <1>15
  <2>2. CASE x = OnStack(j)
    BY <1>5, <1>14, <1>15, <2>2
  <2>3. CASE x = InHand(j) /\ j # n
    BY <1>10, <1>14, <2>3 DEF Same
  <2>4. CASE x = InHand(j) /\ j = n
    BY <1>4, <1>10, <1>14, <2>4
  <2>5. CASE x = AsResult(j)
    BY <1>7, <1>10, <1>14, <2>5
  <2>. QED
    BY <2>1, <2>2, <2>3, <2>4, <2>5
<1>17. \E y \in Place(s, a) :
         /\ At(s, a, y).id = f /\ At(s2, a2, y).vars = wr[f] + 1
         /\ \A x \in Place(s2, a2) : x # y => At(s2, a2, x).vars = At(s, a, x).vars
  <2>1. CASE f = a[n].popped.id
    <3>1. InHand(n) \in Place(s, a) /\ At(s, a, InHand(n)).id = f
          /\ At(s2, a2, InHand(n)).vars = wr[f] + 1
      BY <1>4, <1>10, <1>14, <2>1
    <3>2. ASSUME NEW x \in Place(s2, a2), x # InHand(n)
          PROVE  At(s2, a2, x).vars = At(s, a, x).vars
      <4>1. PICK j : x = OnStack(j) \/ x = InHand(j) \/ x = AsResult(j)
        BY <1>15
      <4>2. CASE x = OnStack(j)
        BY <1>5, <1>14, <2>1, <4>2
      <4>3. CASE x = InHand(j)
        BY <1>10, <1>14, <3>2, <4>3 DEF Same
      <4>4. CASE x = AsResult(j)
        BY <1>7, <1>10, <1>14, <4>4
      <4>. QED
        BY <4>1, <4>2, <4>3, <4>4
    <3>. QED
      BY <3>1, <3>2
  <2>2. CASE f # a[n].popped.id
    <3>1. PICK k \in 1..Len(s) : s[k].id = f
      BY <1>5, <1>12, <2>2
    <3>2. \A i, j \in 1..Len(s) : s[i].id = s[j].id => i = j
      <4>. SUFFICES ASSUME NEW i \in 1..Len(s), NEW j \in 1..Len(s), s[i].id = s[j].id
                    PROVE  i = j
        OBVIOUS
      <4>1. OnStack(i) \in Place(s, a) /\ OnStack(j) \in Place(s, a)
        BY <1>15
      <4>2. At(s, a, OnStack(i)).id = At(s, a, OnStack(j)).id
        BY <1>14
      <4>3. OnStack(i) = OnStack(j)
        BY <1>11, <4>1, <4>2 DEF Seen, OnePlace
      <4>. QED
        BY <4>3, PlacesDiffer
    <3>3. FirstOf(f) = k
      <4>1. k \in DOMAIN frames /\ frames[k].id = f /\ DOMAIN frames \subseteq Nat
        BY <1>2, <1>12, <3>1
      <4>2. \A i, j \in DOMAIN frames : frames[i].id = frames[j].id => i = j
        BY <1>2, <1>12, <3>2
      <4>. QED
        BY <4>1, <4>2, Found
    <3>4. OnStack(k) \in Place(s, a) /\ At(s, a, OnStack(k)).id = f
          /\ At(s2, a2, OnStack(k)).vars = wr[f] + 1
      BY <1>5, <1>14, <1>15, <2>2, <3>1, <3>3
    <3>5. ASSUME NEW x \in Place(s2, a2), x # OnStack(k)
          PROVE  At(s2, a2, x).vars = At(s, a, x).vars
      <4>1. PICK j : x = OnStack(j) \/ x = InHand(j) \/ x = AsResult(j)
        BY <1>15
      <4>2. CASE x = OnStack(j)
        BY <1>5, <1>14, <1>15, <2>2, <3>3, <3>5, <4>2
      <4>3. CASE x = InHand(j) /\ j # n
        BY <1>10, <1>14, <4>3 DEF Same
      <4>4. CASE x = InHand(j) /\ j = n
        BY <1>4, <1>10, <1>14, <2>2, <4>4
      <4>5. CASE x = AsResult(j)
        BY <1>7, <1>10, <1>14, <4>5
      <4>. QED
        BY <4>1, <4>2, <4>3, <4>4, <4>5
    <3>. QED
      BY <3>4, <3>5
  <2>. QED
    BY <2>1, <2>2
<1>18. PICK nx \in 1..(MaxFrames + 1) : nx = next_frame_id
  BY DEF StackInv, TypeOK
<1>19. Seen(s2, a2, nx, wr2)
  BY <1>6, <1>11, <1>16, <1>17, <1>18, WriteSees
<1>. QED
  BY <1>2, <1>3, <1>13, <1>18, <1>19 DEF DataInv

\* The two steps that change which activations there are keep the views of those
\* that stay below.
LEMMA ViewsBelow ==
  ASSUME StackInv, status = "running", Viewed, NEW q \in Acts,
         \A i \in 1..(q - 1) : activations'[i] = activations[i],
         \A i \in 1..q : /\ activations'[i].base = activations[i].base
                         /\ activations'[i].views = activations[i].views,
         NEW R \in Nat, activations[q].base <= R, \A k \in 1..R : frames'[k] = frames[k],
         q <= Inner', Inner' \in Nat
  PROVE  \A i \in 1..(q - 1) :
           /\ activations'[i + 1].views > 0 =>
                frames'[Reach(i)' + 1].id = activations'[i].popped.id
           /\ activations'[i + 1].views = 2 =>
                /\ activations'[i].returned # None
                /\ frames'[Reach(i)' + 2].id = activations'[i].returned.id
<1>. TAKE i \in 1..(q - 1)
<1>1. Inner \in Nat /\ q \in Nat /\ q <= Inner /\ q >= 1 /\ Acts = 1..Inner
  BY Typed DEF Acts
<1>2. i \in Acts /\ i + 1 \in Acts /\ i < Inner /\ i # Inner /\ i + 1 \in 1..q /\ i # Inner'
      /\ i \in Nat
  BY <1>1
<1>3. Reach(i) = activations[i + 1].base - activations[i + 1].views /\ Reach(i) \in Nat
  BY <1>2, Typed DEF Reach
<1>4. Reach(i)' = activations'[i + 1].base - activations'[i + 1].views
  BY <1>2 DEF Reach
<1>5. /\ activations[i + 1].base \in Nat /\ activations[i + 1].views \in 0..2
      /\ Reach(i + 1) \in Nat /\ activations[q].base \in Nat /\ activations[q].views \in 0..2
  BY <1>2, Typed
<1>6. activations[i + 1].base <= activations[q].base
  <2>1. CASE i + 1 = q
    BY <1>5, <2>1
  <2>2. CASE i + 1 # q
    <3>1. i + 1 < q
      BY <1>1, <1>2, <2>2
    <3>2. Nested
      BY Typed DEF Stacked
    <3>3. activations[i + 1].base <= Reach(i + 1)
      BY <1>2, <3>2 DEF Nested
    <3>4. Reach(i + 1) <= activations[q].base - activations[q].views
      BY <1>2, <3>1, <3>2 DEF Nested
    <3>. QED
      BY <1>5, <3>3, <3>4
  <2>. QED
    BY <2>1, <2>2
<1>7. Reach(i) + activations[i + 1].views <= R
  BY <1>3, <1>5, <1>6
<1>8. Reach(i)' = Reach(i) /\ activations'[i + 1].views = activations[i + 1].views
      /\ activations'[i] = activations[i]
  BY <1>2, <1>3, <1>4
<1>9. /\ activations[i + 1].views > 0 => Reach(i) + 1 \in 1..R
      /\ activations[i + 1].views = 2 => Reach(i) + 2 \in 1..R
  BY <1>3, <1>5, <1>7
<1>10. /\ activations[i + 1].views > 0 => frames[Reach(i) + 1].id = activations[i].popped.id
       /\ activations[i + 1].views = 2 =>
            /\ activations[i].returned # None
            /\ frames[Reach(i) + 2].id = activations[i].returned.id
  BY <1>2 DEF Viewed
<1>. QED
  BY <1>8, <1>9, <1>10

\* A call moves the frames of its views to the stack, and its root is new.
LEMMA CallData ==
  ASSUME StackInv, DataInv, NEW edge \in BOOLEAN, SyncCall(edge)
  PROVE  DataInv'
<1>1. PICK n, T : n = Inner /\ T = Top
  OBVIOUS
<1>2. Executing /\ next_frame_id <= MaxFrames
  BY <1>1, CallForms
<1>3. PICK v \in 0..2, b \in Activation, m \in Nat : CallMade(n, v, b, m)
  BY <1>1, CallForms
<1>4. PICK s, a, s2, a2 : s = frames /\ a = activations /\ s2 = frames' /\ a2 = activations'
  OBVIOUS
<1>5. /\ status = "running" /\ T \in Nat /\ a[n].popped \in Frame /\ a[n].popped # None
      /\ activations[n].base \in Nat /\ activations[n].base <= T
  BY <1>1, <1>2, <1>4, Runs
<1>6. /\ b.base = T + v /\ b.views = v /\ b.popped = None /\ b.returned = None
      /\ a2 = Append(a, b) /\ m = Len(s2) /\ m = T + v + 1
      /\ \A k \in 1..T : s2[k] = s[k]
      /\ s2[m].id = next_frame_id /\ s2[m].vars = 0
      /\ next_frame_id' = next_frame_id + 1 /\ status' = status /\ written' = written
  BY <1>1, <1>3, <1>4 DEF CallMade
<1>7. /\ v > 0 => s2[T + 1].id = a[n].popped.id /\ s2[T + 1].vars = a[n].popped.vars
      /\ v = 2 => /\ a[n].returned # None /\ s2[T + 2].id = a[n].returned.id
                  /\ s2[T + 2].vars = a[n].returned.vars
  BY <1>1, <1>3, <1>4 DEF CallMade
<1>8. /\ n \in Nat /\ n >= 1 /\ n \in Acts /\ a \in Seq(Activation) /\ Len(a) = n
      /\ Len(s) = T /\ next_frame_id \in Nat
  BY <1>1, <1>4, <1>5, Typed
<1>9. /\ Len(a2) = n + 1 /\ a2[n + 1] = b /\ \A i \in 1..n : a2[i] = a[i]
  BY <1>6, <1>8
<1>10. next_frame_id \in FrameIds
  BY <1>2, <1>8 DEF StackInv, TypeOK, FrameIds
<1>11. /\ \A k : OnStack(k) \in Place(s, a) <=> k \in 1..T
       /\ \A k : OnStack(k) \in Place(s2, a2) <=> k \in 1..m
       /\ InHand(n) \in Place(s, a)
       /\ AsResult(n) \in Place(s, a) <=> a[n].returned # None
  <2>1. n \in 1..Len(a) /\ n = Len(a) /\ ~(n < Len(a))
    BY <1>8
  <2>2. \A k : OnStack(k) \in Place(s, a) <=> k \in 1..T
    BY <1>8, Places
  <2>3. \A k : OnStack(k) \in Place(s2, a2) <=> k \in 1..m
    BY <1>6, Places
  <2>4. InHand(n) \in Place(s, a)
    BY <1>5, <2>1, Places
  <2>5. AsResult(n) \in Place(s, a) <=> a[n].returned # None
    BY <2>1, Places
  <2>. QED
    BY <2>2, <2>3, <2>4, <2>5
<1>12. ASSUME NEW i, InHand(i) \in Place(s2, a2)
       PROVE  InHand(i) \in Place(s, a) /\ a2[i].popped = a[i].popped /\ (i = n => v = 0)
  <2>1. i \in 1..(n + 1) /\ a2[i].popped # None /\ (i < n + 1 => a2[i + 1].views = 0)
    BY <1>9, <1>12, Places
  <2>2. i \in 1..n /\ i < n + 1
    BY <1>6, <1>8, <1>9, <2>1
  <2>3. a2[i] = a[i] /\ (i < n => a2[i + 1] = a[i + 1])
    BY <1>8, <1>9, <2>2
  <2>4. i = n => v = 0
    BY <1>6, <1>9, <2>1, <2>2
  <2>. QED
    BY <1>8, <2>1, <2>2, <2>3, <2>4, Places
<1>13. ASSUME NEW i PROVE AsResult(i) \notin Place(s2, a2)
  <2>1. AsResult(i) \in Place(s2, a2) => i = n + 1 /\ a2[i].returned # None
    BY <1>9, Places
  <2>2. a2[n + 1].returned = None
    BY <1>6, <1>9
  <2>. QED
    BY <2>1, <2>2
<1>14. PICK p1, p2 : p1 = (IF v > 0 THEN T + 1 ELSE 0) /\ p2 = (IF v = 2 THEN T + 2 ELSE 0)
  OBVIOUS
<1>15. /\ \A k \in 1..m : (k # p1 /\ k # p2 /\ k # m) => k \in 1..T
       /\ p1 # m /\ p2 # m /\ (p1 \in 1..m => v > 0 /\ p1 = T + 1)
       /\ (p2 \in 1..m => v = 2 /\ p2 = T + 2)
  BY <1>5, <1>6, <1>14
<1>16. Moves(s, a, s2, a2, OnStack(p1), InHand(n), OnStack(p2), AsResult(n), OnStack(m))
  <2>1. \A k \in 1..Len(s2) :
          (OnStack(k) # OnStack(p1) /\ OnStack(k) # OnStack(p2) /\ OnStack(k) # OnStack(m)) =>
            k \in 1..Len(s) /\ s2[k] = s[k]
    BY <1>6, <1>8, <1>15
  <2>2. \A i : InHand(i) \in Place(s2, a2) =>
          InHand(i) \in Place(s, a) /\ Same(a2[i].popped, a[i].popped)
    BY <1>12 DEF Same
  <2>3. OnStack(p1) \in Place(s2, a2) =>
          /\ InHand(n) \in Place(s, a) /\ InHand(n) \notin Place(s2, a2)
          /\ Same(At(s2, a2, OnStack(p1)), At(s, a, InHand(n)))
    <3>. SUFFICES ASSUME OnStack(p1) \in Place(s2, a2)
                  PROVE  /\ InHand(n) \in Place(s, a) /\ InHand(n) \notin Place(s2, a2)
                         /\ Same(At(s2, a2, OnStack(p1)), At(s, a, InHand(n)))
      OBVIOUS
    <3>1. v > 0 /\ p1 = T + 1
      BY <1>11, <1>15
    <3>2. InHand(n) \notin Place(s2, a2)
      BY <1>12, <3>1
    <3>3. At(s2, a2, OnStack(p1)) = s2[p1] /\ At(s, a, InHand(n)) = a[n].popped
      BY AtPlace
    <3>. QED
      BY <1>7, <1>11, <3>1, <3>2, <3>3 DEF Same
  <2>4. OnStack(p2) \in Place(s2, a2) =>
          /\ AsResult(n) \in Place(s, a) /\ AsResult(n) \notin Place(s2, a2)
          /\ Same(At(s2, a2, OnStack(p2)), At(s, a, AsResult(n)))
    <3>. SUFFICES ASSUME OnStack(p2) \in Place(s2, a2)
                  PROVE  /\ AsResult(n) \in Place(s, a) /\ AsResult(n) \notin Place(s2, a2)
                         /\ Same(At(s2, a2, OnStack(p2)), At(s, a, AsResult(n)))
      OBVIOUS
    <3>1. v = 2 /\ p2 = T + 2
      BY <1>11, <1>15
    <3>2. At(s2, a2, OnStack(p2)) = s2[p2] /\ At(s, a, AsResult(n)) = a[n].returned
      BY AtPlace
    <3>. QED
      BY <1>7, <1>11, <1>13, <3>1, <3>2 DEF Same
  <2>5. InHand(n) # AsResult(n) /\ OnStack(p1) # OnStack(m) /\ OnStack(p2) # OnStack(m)
    BY <1>15, PlacesDiffer
  <2>. QED
    BY <1>13, <2>1, <2>2, <2>3, <2>4, <2>5, MovesByKind
<1>17. Viewed /\ Seen(s, a, next_frame_id, written)
  BY <1>4, <1>5 DEF DataInv
<1>18. Seen(s2, a2, next_frame_id', written')
  <2>1. PICK nx \in Nat, nx2 \in Nat, wr \in {written} :
          nx = next_frame_id /\ nx2 = next_frame_id + 1 /\ wr = written
    BY <1>8
  <2>2. At(s2, a2, OnStack(m)).id = nx /\ At(s2, a2, OnStack(m)).vars = 0
    BY <1>6, <2>1, AtPlace
  <2>3. Seen(s, a, nx, wr) /\ nx <= nx2 /\ nx < nx2 /\ nx \in FrameIds
    BY <1>10, <1>17, <2>1
  <2>4. Seen(s2, a2, nx2, wr)
    BY <1>16, <2>2, <2>3, Moved
  <2>. QED
    BY <1>6, <2>1, <2>4
<1>19. Viewed'
  <2>1. Inner' = n + 1 /\ Acts' = 1..(n + 1)
    BY <1>4, <1>9 DEF Inner, Acts
  <2>2. \A i \in 1..(n - 1) :
          /\ activations'[i + 1].views > 0 =>
               frames'[Reach(i)' + 1].id = activations'[i].popped.id
          /\ activations'[i + 1].views = 2 =>
               /\ activations'[i].returned # None
               /\ frames'[Reach(i)' + 2].id = activations'[i].returned.id
    <3>1. \A i \in 1..n : activations'[i] = activations[i]
      BY <1>4, <1>9
    <3>2. \A i \in 1..(n - 1) : activations'[i] = activations[i]
      BY <1>8, <3>1
    <3>3. \A k \in 1..T : frames'[k] = frames[k]
      BY <1>4, <1>6
    <3>4. n <= Inner' /\ Inner' \in Nat
      BY <1>8, <2>1
    <3>. QED
      BY <1>5, <1>8, <1>17, <3>1, <3>2, <3>3, <3>4, ViewsBelow
  <2>3. /\ activations'[n + 1].views > 0 =>
             frames'[Reach(n)' + 1].id = activations'[n].popped.id
        /\ activations'[n + 1].views = 2 =>
             /\ activations'[n].returned # None
             /\ frames'[Reach(n)' + 2].id = activations'[n].returned.id
    <3>1. n # Inner' /\ activations'[n] = a[n] /\ activations'[n + 1] = b
      BY <1>4, <1>8, <1>9, <2>1
    <3>2. Reach(n)' = b.base - b.views
      BY <3>1 DEF Reach
    <3>3. Reach(n)' = T
      BY <1>5, <1>6, <3>2
    <3>. QED
      BY <1>4, <1>6, <1>7, <3>1, <3>3
  <2>4. \A i \in 1..(n + 1) : i < n + 1 => i \in 1..(n - 1) \/ i = n
    BY <1>8
  <2>. QED
    BY <2>1, <2>2, <2>3, <2>4 DEF Viewed
<1>. QED
  BY <1>4, <1>18, <1>19 DEF DataInv

\* The variables of the caller, and of the frame returned to it, come back from
\* their views, or stay where they are.
LEMMA ResumeData == StackInv /\ DataInv /\ resume => DataInv'
<1>. SUFFICES ASSUME StackInv, DataInv, resume PROVE DataInv'
  OBVIOUS
<1>1. PICK n : n = Inner
  OBVIOUS
<1>2. PICK p : p = n - 1
  OBVIOUS
<1>3. PICK c : c = activations[n]
  OBVIOUS
<1>4. PICK o : o = activations[p]
  OBVIOUS
<1>5. PICK R : R = c.base - c.views
  OBVIOUS
<1>6. /\ status = "running" /\ n \in Nat /\ n > 1 /\ p \in Acts /\ n \in Acts
      /\ R = Reach(p) /\ R \in Nat /\ R <= Top /\ c \in Activation /\ o \in Activation
      /\ o.popped \in Frame
  BY <1>1, <1>2, <1>3, <1>4, <1>5, ResumeForms
<1>7. /\ c.views > 0 => R + 1 \in 1..Top
      /\ c.views = 2 => R + 2 \in 1..Top /\ o.returned \in Frame
  BY <1>1, <1>2, <1>3, <1>4, <1>5, ResumeForms
<1>8. PICK x \in Activation : ResumedAs(o, c, R, x) /\ Resumed(p, c, R, x)
  BY <1>1, <1>2, <1>3, <1>4, <1>5, ResumeForms
<1>9. PICK s, a, s2, a2 : s = frames /\ a = activations /\ s2 = frames' /\ a2 = activations'
  OBVIOUS
<1>10. /\ Len(s2) = R /\ \A k \in 1..R : s2[k] = s[k]
       /\ Len(a2) = p /\ a2[p] = x /\ \A i \in 1..(p - 1) : a2[i] = a[i]
       /\ next_frame_id' = next_frame_id /\ status' = status /\ written' = written
  BY <1>8, <1>9 DEF Resumed
<1>11. /\ Len(s) = Top /\ Top \in Nat /\ Len(a) = n /\ a[n] = c /\ a[p] = o /\ Acts = 1..n
       /\ next_frame_id \in Nat
  BY <1>1, <1>3, <1>4, <1>6, <1>9, Typed DEF Acts
<1>12. p \in Nat /\ p >= 1 /\ p < n /\ p + 1 = n /\ p # n
  BY <1>2, <1>6
<1>13. /\ x.base = o.base /\ x.views = o.views
       /\ x.popped # None =>
            /\ x.popped.id = o.popped.id
            /\ x.popped.vars = IF c.views > 0 THEN frames[R + 1].vars ELSE o.popped.vars
       /\ (x.returned # None /\ c.views = 2) =>
            /\ x.returned.id = o.returned.id /\ x.returned.vars = frames[R + 2].vars
       /\ (x.returned # None /\ c.views # 2) => x.returned = c.returned
  BY <1>8 DEF ResumedAs
<1>14. Viewed /\ Seen(s, a, next_frame_id, written)
  BY <1>6, <1>9 DEF DataInv
<1>15. /\ c.views > 0 => s[R + 1].id = o.popped.id
       /\ c.views = 2 => s[R + 2].id = o.returned.id
  BY <1>1, <1>4, <1>6, <1>9, <1>11, <1>12, <1>14 DEF Viewed
<1>16. c.views \in 0..2
  BY <1>6, Fields
<1>17. /\ \A k : OnStack(k) \in Place(s, a) <=> k \in 1..Top
       /\ \A k : OnStack(k) \in Place(s2, a2) <=> k \in 1..R
  BY <1>10, <1>11, Places
<1>18. AsResult(n) \in Place(s, a) <=> c.returned # None
  BY <1>6, <1>11, Places
<1>19. /\ \A i : AsResult(i) \in Place(s2, a2) => i = p
       /\ AsResult(p) \in Place(s2, a2) => x.returned # None
       /\ InHand(p) \in Place(s2, a2) => x.popped # None
  BY <1>10, Places
<1>20. c.views = 0 => InHand(p) \in Place(s, a)
  <2>1. p \in 1..Len(a) /\ a[p].popped # None /\ a[p + 1].views = c.views
    BY <1>6, <1>11, <1>12, NoneAssumption
  <2>. QED
    BY <2>1, Places
<1>21. ASSUME NEW i, InHand(i) \in Place(s2, a2), i # p
       PROVE  InHand(i) \in Place(s, a) /\ Same(a2[i].popped, a[i].popped)
  <2>1. i \in 1..p /\ a2[i].popped # None /\ (i < p => a2[i + 1].views = 0)
    BY <1>10, <1>21, Places
  <2>2. i \in 1..(p - 1) /\ i < p /\ i \in 1..n /\ i < n
    BY <1>12, <1>21, <2>1
  <2>3. a2[i] = a[i]
    BY <1>10, <2>2
  <2>4. a2[i + 1].views = a[i + 1].views
    <3>1. CASE i + 1 = p
      BY <1>10, <1>11, <1>13, <3>1
    <3>2. CASE i + 1 # p
      <4>1. i + 1 \in 1..(p - 1)
        BY <1>12, <2>2, <3>2
      <4>. QED
        BY <1>10, <4>1
    <3>. QED
      BY <3>1, <3>2
  <2>. QED
    BY <1>11, <2>1, <2>2, <2>3, <2>4, Places DEF Same
<1>22. PICK p1 : p1 = IF c.views > 0 THEN p ELSE 0
  OBVIOUS
<1>23. PICK y2 : y2 = IF c.views = 2 THEN OnStack(R + 2) ELSE AsResult(n)
  OBVIOUS
<1>24. Moves(s, a, s2, a2, InHand(p1), OnStack(R + 1), AsResult(p), y2, OnStack(0))
  <2>1. \A k \in 1..Len(s2) : k \in 1..Len(s) /\ s2[k] = s[k]
    BY <1>6, <1>10, <1>11
  <2>2. \A i : (InHand(i) \in Place(s2, a2) /\ InHand(i) # InHand(p1)) =>
          InHand(i) \in Place(s, a) /\ Same(a2[i].popped, a[i].popped)
    <3>. SUFFICES ASSUME NEW i, InHand(i) \in Place(s2, a2), InHand(i) # InHand(p1)
                  PROVE  InHand(i) \in Place(s, a) /\ Same(a2[i].popped, a[i].popped)
      OBVIOUS
    <3>1. CASE i # p
      BY <1>21, <3>1
    <3>2. CASE i = p
      <4>1. c.views = 0 /\ ~(c.views > 0)
        BY <1>16, <1>22, <3>2
      <4>2. x.popped # None
        BY <1>19, <3>2
      <4>3. a2[i].popped.id = a[i].popped.id /\ a2[i].popped.vars = a[i].popped.vars
        BY <1>10, <1>11, <1>13, <3>2, <4>1, <4>2
      <4>. QED
        BY <1>20, <3>2, <4>1, <4>3 DEF Same
    <3>. QED
      BY <3>1, <3>2
  <2>3. InHand(p1) \in Place(s2, a2) =>
          /\ OnStack(R + 1) \in Place(s, a) /\ OnStack(R + 1) \notin Place(s2, a2)
          /\ Same(At(s2, a2, InHand(p1)), At(s, a, OnStack(R + 1)))
    <3>. SUFFICES ASSUME InHand(p1) \in Place(s2, a2)
                  PROVE  /\ OnStack(R + 1) \in Place(s, a) /\ OnStack(R + 1) \notin Place(s2, a2)
                         /\ Same(At(s2, a2, InHand(p1)), At(s, a, OnStack(R + 1)))
      OBVIOUS
    <3>1. p1 \in 1..p
      BY <1>10, Places
    <3>2. c.views > 0 /\ p1 = p
      BY <1>12, <1>22, <3>1
    <3>3. x.popped # None
      BY <1>19, <3>2
    <3>4. At(s2, a2, InHand(p1)) = x.popped /\ At(s, a, OnStack(R + 1)) = s[R + 1]
      BY <1>10, <3>2, AtPlace
    <3>5. Same(x.popped, s[R + 1])
      BY <1>9, <1>13, <1>15, <3>2, <3>3 DEF Same
    <3>6. R + 1 \in 1..Top /\ R + 1 \notin 1..R
      BY <1>6, <1>7, <3>2
    <3>. QED
      BY <1>17, <3>4, <3>5, <3>6
  <2>4. AsResult(p) \in Place(s2, a2) =>
          /\ y2 \in Place(s, a) /\ y2 \notin Place(s2, a2)
          /\ Same(At(s2, a2, AsResult(p)), At(s, a, y2))
    <3>. SUFFICES ASSUME AsResult(p) \in Place(s2, a2)
                  PROVE  /\ y2 \in Place(s, a) /\ y2 \notin Place(s2, a2)
                         /\ Same(At(s2, a2, AsResult(p)), At(s, a, y2))
      OBVIOUS
    <3>1. x.returned # None /\ At(s2, a2, AsResult(p)) = x.returned
      BY <1>10, <1>19, AtPlace
    <3>2. CASE c.views = 2
      <4>1. y2 = OnStack(R + 2) /\ At(s, a, y2) = s[R + 2]
        BY <1>23, <3>2, AtPlace
      <4>2. Same(x.returned, s[R + 2])
        BY <1>9, <1>13, <1>15, <3>1, <3>2 DEF Same
      <4>3. R + 2 \in 1..Top /\ R + 2 \notin 1..R
        BY <1>6, <1>7, <3>2
      <4>. QED
        BY <1>17, <3>1, <4>1, <4>2, <4>3
    <3>3. CASE c.views # 2
      <4>1. y2 = AsResult(n) /\ At(s, a, y2) = c.returned
        BY <1>11, <1>23, <3>3, AtPlace
      <4>2. x.returned = c.returned
        BY <1>13, <3>1, <3>3
      <4>3. AsResult(n) \in Place(s, a) /\ AsResult(n) \notin Place(s2, a2)
        BY <1>12, <1>18, <1>19, <3>1, <4>2
      <4>. QED
        BY <3>1, <4>1, <4>2, <4>3 DEF Same
    <3>. QED
      BY <3>2, <3>3
  <2>5. OnStack(R + 1) # y2 /\ InHand(p1) # OnStack(0) /\ AsResult(p) # OnStack(0)
    <3>1. OnStack(R + 1) # AsResult(n) /\ InHand(p1) # OnStack(0) /\ AsResult(p) # OnStack(0)
      BY PlacesDiffer
    <3>2. OnStack(R + 1) # OnStack(R + 2)
      <4>1. R + 1 # R + 2
        BY <1>6
      <4>. QED
        BY <4>1, PlacesDiffer
    <3>. QED
      BY <1>23, <3>1, <3>2
  <2>6. \A i : AsResult(i) \in Place(s2, a2) => AsResult(i) = AsResult(p)
    BY <1>19
  <2>. QED
    BY <2>1, <2>2, <2>3, <2>4, <2>5, <2>6, MovesByKind
<1>25. Seen(s2, a2, next_frame_id', written')
  <2>1. PICK nx \in Nat, wr \in {written} : nx = next_frame_id /\ wr = written
    BY <1>11
  <2>2. Seen(s, a, nx, wr) /\ nx <= nx
    BY <1>14, <2>1
  <2>3. OnStack(0) \notin Place(s2, a2)
    BY <1>6, <1>17
  <2>4. Seen(s2, a2, nx, wr)
    BY <1>24, <2>2, <2>3, Moved
  <2>. QED
    BY <1>10, <2>1, <2>4
<1>26. Viewed'
  <2>1. Inner' = p /\ Acts' = 1..p
    BY <1>9, <1>10 DEF Inner, Acts
  <2>2. \A i \in 1..(p - 1) : activations'[i] = activations[i]
    BY <1>9, <1>10
  <2>3. \A i \in 1..p : /\ activations'[i].base = activations[i].base
                        /\ activations'[i].views = activations[i].views
    <3>. TAKE i \in 1..p
    <3>1. CASE i = p
      BY <1>4, <1>9, <1>10, <1>13, <3>1
    <3>2. CASE i # p
      BY <1>12, <2>2, <3>2
    <3>. QED
      BY <3>1, <3>2
  <2>4. \A k \in 1..R : frames'[k] = frames[k]
    BY <1>9, <1>10
  <2>5. activations[p].base <= R
    BY <1>6, Typed DEF Stacked, Nested
  <2>6. p <= Inner' /\ Inner' \in Nat
    BY <1>12, <2>1
  <2>7. \A i \in 1..(p - 1) :
          /\ activations'[i + 1].views > 0 =>
               frames'[Reach(i)' + 1].id = activations'[i].popped.id
          /\ activations'[i + 1].views = 2 =>
               /\ activations'[i].returned # None
               /\ frames'[Reach(i)' + 2].id = activations'[i].returned.id
    BY <1>6, <1>14, <2>2, <2>3, <2>4, <2>5, <2>6, ViewsBelow
  <2>8. \A i \in 1..p : i < p => i \in 1..(p - 1)
    BY <1>12
  <2>. QED
    BY <2>1, <2>7, <2>8 DEF Viewed
<1>. QED
  BY <1>9, <1>25, <1>26 DEF DataInv

\* main begins with one frame, new.
LEMMA MainData == StackInv /\ DataInv /\ run_main => DataInv'
<1>. SUFFICES ASSUME StackInv, DataInv, run_main PROVE DataInv'
  OBVIOUS
<1>1. /\ status = "running" /\ outcome = "ok" /\ Inner = 1 /\ next_frame_id <= MaxFrames
      /\ frames' = Append(frames, NewFrame("root", FALSE, None))
      /\ activations' = <<NewActivation(Top, 0, FALSE, FALSE)>>
      /\ next_frame_id' = next_frame_id + 1 /\ written' = written
  BY DEF run_main
<1>2. frames = <<>> /\ Top = 0
  BY <1>1, OutermostEnds
<1>3. PICK f : f = NewFrame("root", FALSE, None)
  OBVIOUS
<1>4. f.id = next_frame_id /\ f.vars = 0 /\ next_frame_id \in FrameIds
  <2>1. None \in FrameIds \cup {None} /\ FALSE \in BOOLEAN
    OBVIOUS
  <2>. QED
    BY <1>1, <1>3, <2>1, NewFrameFacts
<1>5. PICK b : b = NewActivation(0, 0, FALSE, FALSE)
  OBVIOUS
<1>6. b.popped = None /\ b.returned = None
  BY <1>5 DEF NewActivation
<1>7. PICK s, a, s2, a2 : s = frames /\ a = activations /\ s2 = frames' /\ a2 = activations'
  OBVIOUS
<1>8. Len(s2) = 1 /\ s2[1] = f /\ Len(a2) = 1 /\ a2[1] = b
  BY <1>1, <1>2, <1>3, <1>5, <1>7
<1>9. \A x \in Place(s2, a2) : x = OnStack(1)
  <2>. TAKE x \in Place(s2, a2)
  <2>1. PICK j : x = OnStack(j) \/ x = InHand(j) \/ x = AsResult(j)
    BY Places
  <2>2. x # InHand(j) /\ x # AsResult(j)
    <3>1. \A i \in 1..Len(a2) : a2[i].popped = None /\ a2[i].returned = None
      BY <1>6, <1>8
    <3>. QED
      BY <3>1, Places
  <2>3. x = OnStack(j) => j = 1
    <3>1. x = OnStack(j) => j \in 1..Len(s2)
      BY Places
    <3>. QED
      BY <1>8, <3>1
  <2>. QED
    BY <2>1, <2>2, <2>3
<1>10. At(s2, a2, OnStack(1)) = f
  BY <1>8, AtPlace
<1>11. PICK nx \in Nat, wr \in {written} : nx = next_frame_id /\ wr = written
  BY <1>1, Typed
<1>12. Unwritten(nx, wr) /\ nx \in FrameIds /\ nx \in 1..(nx + 1 - 1)
  BY <1>1, <1>4, <1>11 DEF DataInv, Seen, FrameIds
<1>13. OnePlace(s2, a2)
  BY <1>9 DEF OnePlace
<1>14. UpToDate(s2, a2, nx + 1, wr)
  <2>1. wr[nx] = 0
    BY <1>12 DEF Unwritten
  <2>. QED
    BY <1>4, <1>9, <1>10, <1>11, <1>12, <2>1 DEF UpToDate
<1>15. Unwritten(nx + 1, wr)
  <2>1. \A g \in FrameIds : g >= nx + 1 => g >= nx
    BY Fields
  <2>. QED
    BY <1>12, <2>1 DEF Unwritten
<1>16. Seen(s2, a2, next_frame_id', written')
  BY <1>1, <1>11, <1>13, <1>14, <1>15 DEF Seen
<1>17. Viewed'
  <2>1. Inner' = 1 /\ Acts' = 1..1
    BY <1>7, <1>8 DEF Inner, Acts
  <2>. QED
    BY <2>1 DEF Viewed
<1>. QED
  BY <1>7, <1>16, <1>17 DEF DataInv

\* At first there is one frame, never written.
LEMMA InitData == Init => DataInv
<1>. SUFFICES ASSUME Init PROVE DataInv
  OBVIOUS
<1>1. PICK s, a : s = frames /\ a = activations
  OBVIOUS
<1>2. /\ Len(s) = 1 /\ s[1].id = 1 /\ s[1].vars = 0 /\ Len(a) = 1 /\ a[1].popped = None
      /\ a[1].returned = None /\ next_frame_id = 2 /\ written = [g \in FrameIds |-> 0]
  BY <1>1 DEF Init
<1>3. \A x \in Place(s, a) : x = OnStack(1)
  <2>. TAKE x \in Place(s, a)
  <2>1. PICK j : x = OnStack(j) \/ x = InHand(j) \/ x = AsResult(j)
    BY Places
  <2>2. x # InHand(j) /\ x # AsResult(j)
    <3>1. \A i \in 1..Len(a) : a[i].popped = None /\ a[i].returned = None
      BY <1>2
    <3>. QED
      BY <3>1, Places
  <2>3. x = OnStack(j) => j = 1
    <3>1. x = OnStack(j) => j \in 1..Len(s)
      BY Places
    <3>. QED
      BY <1>2, <3>1
  <2>. QED
    BY <2>1, <2>2, <2>3
<1>4. At(s, a, OnStack(1)) = s[1]
  BY AtPlace
<1>5. OnePlace(s, a)
  BY <1>3 DEF OnePlace
<1>6. 1 \in FrameIds /\ 1 \in 1..(2 - 1)
  BY FramesAssumption DEF FrameIds
<1>7. UpToDate(s, a, next_frame_id, written) /\ Unwritten(next_frame_id, written)
  BY <1>2, <1>3, <1>4, <1>6 DEF UpToDate, Unwritten
<1>8. Viewed
  <2>1. Inner = 1 /\ Acts = 1..1
    BY <1>1, <1>2 DEF Inner, Acts
  <2>. QED
    BY <2>1 DEF Viewed
<1>. QED
  BY <1>1, <1>5, <1>7, <1>8 DEF DataInv, Seen

-----------------------------------------------------------------------------
(* Theorems about the variables. *)

\* The invariant of the variables: a frame is up to date at the one place it is
\* at, whoever wrote it, and a view has the identity of the frame it stands for.
THEOREM FramesDataInvariant == Spec => []DataInv
<1>1. StackInv /\ DataInv /\ [Next]_vars => DataInv'
  <2>. SUFFICES ASSUME StackInv, DataInv, [Next]_vars PROVE DataInv'
    OBVIOUS
  <2>1. CASE pop
    BY <2>1, PopData
  <2>2. CASE push_back
    BY <2>2, PushBackData
  <2>3. ASSUME NEW edge \in BOOLEAN, direct_call(edge) PROVE DataInv'
    BY <2>3, DirectCallData
  <2>4. ASSUME NEW edge \in BOOLEAN, SyncCall(edge) PROVE DataInv'
    BY <2>4, CallData
  <2>5. ASSUME NEW f \in FrameIds, write(f) PROVE DataInv'
    BY <2>5, WriteData
  <2>6. CASE finish_frame \/ error_return \/ fail
    BY <2>6, EndData
  <2>7. CASE resume
    BY <2>7, ResumeData
  <2>8. CASE run_main
    BY <2>8, MainData
  <2>9. CASE exit
    <3>1. status' = outcome /\ outcome # "none"
      BY <2>9 DEF exit
    <3>2. status' # "running"
      BY <3>1 DEF StackInv, TypeOK, Ends
    <3>. QED
      BY <3>2 DEF DataInv
  <2>10. CASE UNCHANGED vars
    <3>1. /\ frames' = frames /\ activations' = activations /\ next_frame_id' = next_frame_id
          /\ status' = status /\ written' = written
      BY <2>10 DEF vars
    <3>2. Inner' = Inner /\ Acts' = Acts /\ Top' = Top
      BY <3>1 DEF Inner, Acts, Top
    <3>3. \A i : Reach(i)' = Reach(i)
      BY <3>1, <3>2 DEF Reach
    <3>4. Viewed' = Viewed
      BY <3>1, <3>2, <3>3 DEF Viewed
    <3>. QED
      BY <3>1, <3>4 DEF DataInv
  <2>. QED
    BY <2>1, <2>2, <2>3, <2>4, <2>5, <2>6, <2>7, <2>8, <2>9, <2>10 DEF Next, SyncCall
<1>. QED
  BY <1>1, InitData, FramesStackInvariant, PTL DEF Spec

\* A write through a reference is seen by its frame when it runs again, also when
\* the call that made it raised: "mutations are immediate even on raising paths"
\* (call_synchronously_with_references).
THEOREM FramesWritesSeen == Spec => []WritesSeen
<1>1. StackInv /\ DataInv => WritesSeen
  <2>. SUFFICES ASSUME StackInv, DataInv PROVE WritesSeen
    OBVIOUS
  <2>1. CASE status = "running"
    <3>1. PICK s, a, n : s = frames /\ a = activations /\ n = Inner
      OBVIOUS
    <3>2. UpToDate(s, a, next_frame_id, written)
      BY <2>1, <3>1 DEF DataInv, Seen
    <3>3. DOMAIN frames = 1..Len(s) /\ Len(a) = n /\ n \in Nat /\ n >= 1 /\ Current = a[n]
      BY <2>1, <3>1, Typed
    <3>4. ASSUME NEW k \in DOMAIN frames PROVE frames[k].vars = written[frames[k].id]
      <4>1. OnStack(k) \in Place(s, a) /\ At(s, a, OnStack(k)) = frames[k]
        BY <3>1, <3>3, Places
      <4>. QED
        BY <3>2, <4>1 DEF UpToDate
    <3>5. ASSUME Executing PROVE Current.popped.vars = written[Current.popped.id]
      <4>1. Current.popped # None
        BY <3>5 DEF Executing
      <4>2. n \in 1..Len(a) /\ ~(n < Len(a)) /\ a[n].popped # None
        BY <3>3, <4>1
      <4>3. InHand(n) \in Place(s, a) /\ At(s, a, InHand(n)) = a[n].popped
        <5>1. n < Len(a) => a[n + 1].views = 0
          BY <4>2
        <5>2. InHand(n) \in Place(s, a)
          BY <4>2, <5>1, Places, Zenon
        <5>3. At(s, a, InHand(n)) = a[n].popped
          BY DEF At, InHand
        <5>. QED
          BY <5>2, <5>3
      <4>4. At(s, a, InHand(n)) = Current.popped
        BY <3>3, <4>3
      <4>. QED
        BY <3>2, <4>3, <4>4 DEF UpToDate
    <3>. QED
      BY <3>4, <3>5 DEF WritesSeen
  <2>2. CASE status # "running"
    <3>1. ~Executing
      BY <2>2 DEF Executing, Driving
    <3>. QED
      BY <2>2, <3>1 DEF WritesSeen
  <2>. QED
    BY <2>1, <2>2
<1>. QED
  BY <1>1, FramesStackInvariant, FramesDataInvariant, PTL

=============================================================================
