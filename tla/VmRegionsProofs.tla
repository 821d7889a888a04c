-------------------------- MODULE VmRegionsProofs ---------------------------
(***************************************************************************)
(* Proofs about the region cursor, for every verified function: any        *)
(* nesting of regions, any labels, any outcome of its conditions.          *)
(***************************************************************************)
EXTENDS VmRegions, TLAPS, WellFoundedInduction

\* The function running is a tree the verifier admitted, and the cursor is in
\* it.
Positioned ==
  /\ IsTree(body)
  /\ Verified(body)
  /\ levels \in Seq(RegionLevel)
  /\ status \in {"running"} \cup Ends
  /\ CursorInTree

IInv == Positioned /\ BindsVerified /\ ArgumentsDefined

----------------------------------------------------------------------------
\* A set of levels has an innermost one.
LEMMA GreatestIsMember ==
  ASSUME NEW n \in Nat, NEW S \in SUBSET (1..n), S # {}
  PROVE  /\ Innermost(S) \in S
         /\ \A j \in S : j <= Innermost(S)
<1>. DEFINE Less == OpToRel(<, Nat)
            T == {n - k : k \in S}
<1>1. Less = {ss \in Nat \X Nat : ss[1] < ss[2]}
  BY Zenon DEF OpToRel
<1>2. IsWellFoundedOn(Less, Nat)
  BY NatLessThanWellFounded
<1>3. T \subseteq Nat /\ T # {}
  OBVIOUS
<1>. HIDE DEF Less
<1>4. PICK x \in T : \A y \in T : ~(<<y, x>> \in Less)
  BY <1>2, <1>3, WFMin
<1>5. PICK m \in S : x = n - m
  OBVIOUS
<1>6. \A j \in S : j <= m
  <2>. TAKE j \in S
  <2>1. n - j \in T /\ n - j \in Nat /\ x \in Nat
    BY <1>3
  <2>2. (n - j) < x => <<n - j, x>> \in Less
    BY <1>1, <2>1
  <2>. QED
    BY <1>4, <1>5, <2>1, <2>2
<1>7. \E k \in S : \A j \in S : j <= k
  BY <1>6
<1>. QED
  BY <1>7 DEF Innermost

\* The parts of a level.
LEMMA LevelFacts ==
  ASSUME NEW l \in RegionLevel
  PROVE  l.instruction \in Nat \ {0} /\ l.region \in RegionRef
BY DEF RegionLevel

\* The path of a prefix of the cursor's levels.
LEMMA PathFacts ==
  ASSUME NEW ls \in Seq(RegionLevel), NEW k \in 1..Len(ls)
  PROVE  /\ PathOf(ls, k) \in Seq(Nat \X RegionRef)
         /\ Len(PathOf(ls, k)) = k - 1
         /\ \A j \in 1..(k - 1) : PathOf(ls, k)[j] = <<ls[j].instruction, ls[j + 1].region>>
         /\ \A j \in 1..(k - 1) :
              SubSeq(PathOf(ls, k), 1, j - 1) = PathOf(ls, j)
<1>1. \A j \in 1..Len(ls) : /\ ls[j] \in RegionLevel
                            /\ ls[j].instruction \in Nat
                            /\ ls[j].region \in RegionRef
  <2>1. \A j \in 1..Len(ls) : ls[j] \in RegionLevel
    OBVIOUS
  <2>. QED
    BY <2>1, LevelFacts
<1>2. \A n \in 1..Len(ls) :
        /\ PathOf(ls, n) = [j \in 1..(n - 1) |-> <<ls[j].instruction, ls[j + 1].region>>]
        /\ PathOf(ls, n) \in Seq(Nat \X RegionRef)
        /\ Len(PathOf(ls, n)) = n - 1
        /\ \A j \in 1..(n - 1) : PathOf(ls, n)[j] = <<ls[j].instruction, ls[j + 1].region>>
  <2>. SUFFICES ASSUME NEW n \in 1..Len(ls)
                PROVE  /\ PathOf(ls, n) = [j \in 1..(n - 1) |-> <<ls[j].instruction, ls[j + 1].region>>]
                       /\ PathOf(ls, n) \in Seq(Nat \X RegionRef)
                       /\ Len(PathOf(ls, n)) = n - 1
                       /\ \A j \in 1..(n - 1) :
                            PathOf(ls, n)[j] = <<ls[j].instruction, ls[j + 1].region>>
    OBVIOUS
  <2>. DEFINE path == [j \in 1..(n - 1) |-> <<ls[j].instruction, ls[j + 1].region>>]
  <2>1. n - 1 \in Nat /\ \A j \in 1..(n - 1) : j \in 1..Len(ls) /\ j + 1 \in 1..Len(ls)
    OBVIOUS
  <2>2. \A j \in 1..(n - 1) : <<ls[j].instruction, ls[j + 1].region>> \in Nat \X RegionRef
    BY <1>1, <2>1
  <2>3. path \in [1..(n - 1) -> Nat \X RegionRef]
    BY <2>2
  <2>4. path \in Seq(Nat \X RegionRef) /\ Len(path) = n - 1
    <3>. HIDE DEF path
    <3>. QED
      BY <2>1, <2>3
  <2>. QED
    BY <2>4 DEF PathOf
<1>3. ASSUME NEW j \in 1..(k - 1)
      PROVE  SubSeq(PathOf(ls, k), 1, j - 1) = PathOf(ls, j)
  <2>1. j \in 1..Len(ls)
    OBVIOUS
  <2>2. SubSeq(PathOf(ls, k), 1, j - 1) = [i \in 1..(j - 1) |-> PathOf(ls, k)[i]]
    BY <1>2 
  <2>3. \A i \in 1..(j - 1) : PathOf(ls, k)[i] = <<ls[i].instruction, ls[i + 1].region>>
    <3>1. \A i \in 1..(k - 1) : PathOf(ls, k)[i] = <<ls[i].instruction, ls[i + 1].region>>
      BY Zenon, <1>2
    <3>2. \A i \in 1..(j - 1) : i \in 1..(k - 1)
      OBVIOUS
    <3>. QED
      BY Zenon, <3>1, <3>2
  <2>4. PathOf(ls, j) = [i \in 1..(j - 1) |-> <<ls[i].instruction, ls[i + 1].region>>]
    BY DEF PathOf
  <2>. QED
    BY <2>2, <2>3, <2>4, Zenon
<1>. QED
  BY <1>2, <1>3

\* Two cursors whose first levels agree have the same path down to there.
LEMMA SamePath ==
  ASSUME NEW ls \in Seq(RegionLevel), NEW ms \in Seq(RegionLevel), NEW k \in Nat \ {0},
         \A j \in 1..(k - 1) : ms[j].instruction = ls[j].instruction,
         \A j \in 2..k : ms[j].region = ls[j].region
  PROVE  PathOf(ms, k) = PathOf(ls, k)
<1>1. \A j \in 1..(k - 1) : j + 1 \in 2..k
  OBVIOUS
<1>2. \A j \in 1..(k - 1) : <<ms[j].instruction, ms[j + 1].region>>
                            = <<ls[j].instruction, ls[j + 1].region>>
  BY <1>1
<1>. QED
  BY <1>2, Zenon DEF PathOf

\* Leaving the op of level k: level k - 1 goes on after it.
LEMMA LeftFacts ==
  ASSUME NEW ls \in Seq(RegionLevel), NEW k \in 2..Len(ls), NEW ms,
         ms = Append(SubSeq(ls, 1, k - 2), [ls[k - 1] EXCEPT !.instruction = @ + 1])
  PROVE  /\ ms \in Seq(RegionLevel)
         /\ Len(ms) = k - 1
         /\ ms[k - 1].instruction = ls[k - 1].instruction + 1
         /\ PathOf(ms, k - 1) = PathOf(ls, k - 1)
<1>. DEFINE ss == SubSeq(ls, 1, k - 2)
            l == [ls[k - 1] EXCEPT !.instruction = @ + 1]
<1>1. /\ ss \in Seq(RegionLevel)
      /\ Len(ss) = k - 2
      /\ \A j \in 1..(k - 2) : ss[j] = ls[j]
  OBVIOUS
<1>2. PICK t \in RegionLevel : t = ls[k - 1]
  OBVIOUS
<1>3. /\ l \in RegionLevel
      /\ l.instruction = ls[k - 1].instruction + 1
      /\ l.region = ls[k - 1].region
  <2>1. l = [t EXCEPT !.instruction = @ + 1]
    BY <1>2, Zenon
  <2>2. /\ [t EXCEPT !.instruction = @ + 1] \in RegionLevel
        /\ [t EXCEPT !.instruction = @ + 1].instruction = t.instruction + 1
        /\ [t EXCEPT !.instruction = @ + 1].region = t.region
    <3>1. t = [region |-> t.region, instruction |-> t.instruction]
      BY DEF RegionLevel
    <3>2. [t EXCEPT !.instruction = @ + 1] =
            [region |-> t.region, instruction |-> t.instruction + 1]
      BY <3>1
    <3>3. t.region \in RegionRef /\ t.instruction + 1 \in Nat \ {0}
      BY LevelFacts
    <3>. QED
      BY <3>2, <3>3 DEF RegionLevel
  <2>. QED
    BY <1>2, <2>1, <2>2, Zenon
<1>. HIDE DEF ss, l
<1>4. ms = Append(ss, l)
  BY DEF ss, l
<1>5. /\ ms \in Seq(RegionLevel)
      /\ Len(ms) = k - 1
      /\ \A j \in 1..(k - 2) : ms[j] = ls[j]
      /\ ms[k - 1] = l
  BY <1>1, <1>3, <1>4
<1>6. \A j \in 1..((k - 1) - 1) : ms[j].instruction = ls[j].instruction
  <2>1. \A j \in 1..((k - 1) - 1) : j \in 1..(k - 2)
    OBVIOUS
  <2>. QED
    BY <1>5, <2>1, Zenon
<1>7. \A j \in 2..(k - 1) : ms[j].region = ls[j].region
  <2>1. \A j \in 2..(k - 1) : j \in 1..(k - 2) \/ j = k - 1
    OBVIOUS
  <2>. QED
    BY <1>3, <1>5, <2>1, Zenon
<1>8. k - 1 \in Nat \ {0}
  OBVIOUS
<1>. QED
  BY <1>3, <1>5, <1>6, <1>7, <1>8, SamePath

\* Entering the region r of the op that level k - 1 is at.
LEMMA SwitchedFacts ==
  ASSUME NEW ls \in Seq(RegionLevel), NEW k \in 2..(Len(ls) + 1), NEW r \in RegionRef, NEW ms,
         ms = Append(SubSeq(ls, 1, k - 1), Entry(r))
  PROVE  /\ ms \in Seq(RegionLevel)
         /\ Len(ms) = k
         /\ ms[k] = Entry(r)
         /\ ms[k - 1] = ls[k - 1]
         /\ PathOf(ms, k - 1) = PathOf(ls, k - 1)
         /\ PathOf(ms, k) = Append(PathOf(ls, k - 1), <<ls[k - 1].instruction, r>>)
<1>. DEFINE ss == SubSeq(ls, 1, k - 1)
<1>1. ss \in Seq(RegionLevel) /\ Len(ss) = k - 1 /\ \A j \in 1..(k - 1) : ss[j] = ls[j]
  OBVIOUS
<1>2. Entry(r) \in RegionLevel
  BY DEF Entry, RegionLevel
<1>. HIDE DEF ss
<1>3. /\ ms \in Seq(RegionLevel)
      /\ Len(ms) = k
      /\ \A j \in 1..(k - 1) : ms[j] = ls[j]
      /\ ms[k] = Entry(r)
  BY <1>1, <1>2 DEF ss
<1>4. k - 1 \in Nat \ {0}
  OBVIOUS
<1>5. PathOf(ms, k - 1) = PathOf(ls, k - 1)
  <2>1. \A j \in 1..((k - 1) - 1) : ms[j].instruction = ls[j].instruction
    BY <1>3
  <2>2. \A j \in 2..(k - 1) : ms[j].region = ls[j].region
    BY <1>3
  <2>. QED
    BY <1>3, <1>4, <2>1, <2>2, SamePath
<1>6. PathOf(ms, k) = Append(PathOf(ls, k - 1), <<ls[k - 1].instruction, r>>)
  <2>1. k - 1 \in 1..Len(ls) /\ k \in 1..Len(ms) /\ k - 1 \in 1..Len(ms)
    BY <1>3
  <2>2. /\ PathOf(ms, k) \in Seq(Nat \X RegionRef)
        /\ Len(PathOf(ms, k)) = k - 1
        /\ \A j \in 1..(k - 1) : PathOf(ms, k)[j] = <<ms[j].instruction, ms[j + 1].region>>
    BY <1>3, <2>1, PathFacts
  <2>. PICK n \in 1..Len(ls) : n = k - 1
    BY <2>1
  <2>3. /\ PathOf(ls, n) \in Seq(Nat \X RegionRef)
        /\ Len(PathOf(ls, n)) = n - 1
        /\ \A j \in 1..(n - 1) :
             PathOf(ls, n)[j] = <<ls[j].instruction, ls[j + 1].region>>
    BY PathFacts
  <2>4. ms[k].region = r
    BY <1>3 DEF Entry
  <2>5. \A j \in 1..(n - 1) : PathOf(ms, k)[j] = PathOf(ls, n)[j]
    <3>. TAKE j \in 1..(n - 1)
    <3>1. j \in 1..(k - 1) /\ j + 1 \in 1..(k - 1)
      OBVIOUS
    <3>. QED
      BY <1>3, <2>2, <2>3, <3>1
  <2>6. PathOf(ms, k)[k - 1] = <<ls[k - 1].instruction, r>>
    <3>1. k - 1 \in 1..(k - 1) /\ (k - 1) + 1 = k
      OBVIOUS
    <3>2. PathOf(ms, k)[k - 1] = <<ms[k - 1].instruction, ms[(k - 1) + 1].region>>
      BY <2>2, <3>1, Zenon
    <3>. QED
      BY <1>3, <2>4, <3>1, <3>2, Zenon
  <2>7. <<ls[k - 1].instruction, r>> \in Nat \X RegionRef
    BY <2>2, <2>6
  <2>8. ASSUME NEW a \in Seq(Nat \X RegionRef), NEW b \in Seq(Nat \X RegionRef),
               NEW e \in Nat \X RegionRef,
               Len(a) = n, Len(b) = n - 1,
               \A j \in 1..(n - 1) : a[j] = b[j],
               a[n] = e
        PROVE  a = Append(b, e)
    BY <2>8, SMTT(30)
  <2>9. PathOf(ms, k) = Append(PathOf(ls, n), <<ls[k - 1].instruction, r>>)
    <3>1. Len(PathOf(ms, k)) = n /\ PathOf(ms, k)[n] = <<ls[k - 1].instruction, r>>
      BY <2>2, <2>6, Zenon
    <3>. QED
      BY <2>2, <2>3, <2>5, <2>7, <2>8, <3>1, Zenon
  <2>. QED
    BY <2>9, Zenon
<1>. QED
  BY <1>3, <1>5, <1>6

----------------------------------------------------------------------------
\* What each kind of instruction holds.
LEMMA InstrKinds ==
  ASSUME NEW o \in Instr
  PROVE  /\ o.op \in RegionOps \cup {"plain"}
         /\ o.op = "if" => o.elifs \in Nat
         /\ o.op = "match" => o.cases \in Nat
         /\ o.op = "loop" => o.label \in Labels
         /\ o.op = "try" => o.label \in Labels /\ o.handler \in BOOLEAN /\ o.orelse \in BOOLEAN
BY DEF Instr, Plain, Labels, RegionOps

\* The parts of a region's name.
LEMMA RefParts ==
  ASSUME NEW s \in RegionNames, NEW x \in Nat \cup Labels
  PROVE  <<s, x>> \in RegionRef /\ <<s, x>>[1] = s /\ <<s, x>>[2] = x
BY DEF RegionRef

\* The fixed names.
LEMMA FixedRefs ==
  /\ Then \in RegionRef /\ Then[1] = "then"
  /\ Else \in RegionRef /\ Else[1] = "else"
  /\ TryHandler \in RegionRef /\ TryHandler[1] = "handler"
  /\ TryElse \in RegionRef /\ TryElse[1] = "try else"
<1>1. 0 \in Nat \cup Labels
  OBVIOUS
<1>2. {"then", "else", "handler", "try else"} \subseteq RegionNames
  BY DEF RegionNames
<1>. QED
  BY <1>1, <1>2, RefParts, Zenon DEF Then, Else, TryHandler, TryElse

\* The indexed and the labelled names.
LEMMA OtherRefs ==
  ASSUME NEW x \in Nat \cup Labels
  PROVE  /\ ElifCond(x) \in RegionRef /\ ElifCond(x)[1] = "elif cond" /\ ElifCond(x)[2] = x
         /\ ElifThen(x) \in RegionRef /\ ElifThen(x)[1] = "elif then" /\ ElifThen(x)[2] = x
         /\ Case(x) \in RegionRef /\ Case(x)[1] = "case" /\ Case(x)[2] = x
         /\ Body(x) \in RegionRef /\ Body(x)[1] = "body" /\ Body(x)[2] = x
         /\ TryBody(x) \in RegionRef /\ TryBody(x)[1] = "try body" /\ TryBody(x)[2] = x
<1>1. {"elif cond", "elif then", "case", "body", "try body"} \subseteq RegionNames
  BY DEF RegionNames
<1>. QED
  BY <1>1, RefParts, Zenon DEF ElifCond, ElifThen, Case, Body, TryBody

\* A region tells which instruction may hold it.
LEMMA RegionKinds ==
  ASSUME NEW o \in Instr, NEW r \in region(o)
  PROVE  /\ r \in RegionRef
         /\ o.op \in RegionOps
         /\ r[1] \in {"then", "elif cond", "elif then"} => o.op = "if"
         /\ r[1] \in {"elif cond", "elif then"} => r[2] \in 1..o.elifs
         /\ r[1] = "body" => o.op = "loop"
         /\ r[1] = "case" => o.op = "match" /\ r[2] \in 1..o.cases
         /\ r[1] \in {"try body", "handler", "try else"} => o.op = "try"
<1>1. CASE o.op = "if"
  <2>1. \/ r = Then \/ r = Else
        \/ \E i \in 1..o.elifs : r = ElifCond(i)
        \/ \E i \in 1..o.elifs : r = ElifThen(i)
    BY <1>1 DEF region
  <2>2. \A i \in 1..o.elifs : i \in Nat \cup Labels
    BY <1>1, InstrKinds
  <2>3. /\ r \in RegionRef
        /\ \/ r[1] \in {"then", "else"}
           \/ r[1] \in {"elif cond", "elif then"} /\ r[2] \in 1..o.elifs
    <3>1. CASE r = Then \/ r = Else
      BY <3>1, FixedRefs
    <3>2. ASSUME NEW i \in 1..o.elifs, r = ElifCond(i) \/ r = ElifThen(i)
          PROVE  r \in RegionRef /\ r[1] \in {"elif cond", "elif then"} /\ r[2] = i
      <4>1. i \in Nat \cup Labels
        BY <2>2
      <4>2. CASE r = ElifCond(i)
        BY <4>1, <4>2, OtherRefs
      <4>3. CASE r = ElifThen(i)
        BY <4>1, <4>3, OtherRefs
      <4>. QED
        BY <3>2, <4>2, <4>3
    <3>. QED
      BY <2>1, <3>1, <3>2
  <2>. QED
    BY <1>1, <2>3 DEF RegionOps
<1>2. CASE o.op = "loop"
  <2>1. r = Body(o.label)
    BY <1>2 DEF region
  <2>2. r \in RegionRef /\ r[1] = "body"
    BY <1>2, <2>1, InstrKinds, OtherRefs
  <2>. QED
    BY <1>2, <2>2 DEF RegionOps
<1>3. CASE o.op = "match"
  <2>1. r = Else \/ \E i \in 1..o.cases : r = Case(i)
    BY <1>3 DEF region
  <2>2. \A i \in 1..o.cases : i \in Nat \cup Labels
    BY <1>3, InstrKinds
  <2>3. /\ r \in RegionRef
        /\ \/ r[1] = "else"
           \/ r[1] = "case" /\ r[2] \in 1..o.cases
    <3>1. CASE r = Else
      BY <3>1, FixedRefs
    <3>2. ASSUME NEW i \in 1..o.cases, r = Case(i)
          PROVE  r \in RegionRef /\ r[1] = "case" /\ r[2] = i
      <4>1. i \in Nat \cup Labels
        BY <2>2
      <4>. QED
        BY <3>2, <4>1, OtherRefs
    <3>. QED
      BY <2>1, <3>1, <3>2
  <2>. QED
    BY <1>3, <2>3 DEF RegionOps
<1>4. CASE o.op = "try"
  <2>1. r = TryBody(o.label) \/ r = TryHandler \/ r = TryElse
    BY <1>4 DEF region
  <2>2. o.label \in Nat \cup Labels
    BY <1>4, InstrKinds
  <2>3. r \in RegionRef /\ r[1] \in {"try body", "handler", "try else"}
    <3>1. CASE r = TryBody(o.label)
      BY <2>2, <3>1, OtherRefs
    <3>2. CASE r = TryHandler \/ r = TryElse
      BY <3>2, FixedRefs
    <3>. QED
      BY <2>1, <3>1, <3>2
  <2>. QED
    BY <1>4, <2>3 DEF RegionOps
<1>5. CASE o.op = "plain"
  BY <1>5 DEF region
<1>. QED
  BY <1>1, <1>2, <1>3, <1>4, <1>5, InstrKinds DEF RegionOps

\* Every level but the innermost is at the op that the next level is a region
\* of, and that op is the one the verifier finds on the terminator's path.
LEMMA OnPath ==
  ASSUME Positioned, NEW k \in 2..Depth
  PROVE  /\ HasOp(k)
         /\ op(k) \in Instr
         /\ op(k) = OpAt(body, Here, k - 1)
         /\ levels[k].region \in region(op(k))
         /\ PathTo(k - 1) = Holder(Here, k - 1)
         /\ PathTo(k - 1) \in DOMAIN body
         /\ Here[k - 1][1] = levels[k - 1].instruction
         /\ Here[k - 1][2] = levels[k].region
         /\ levels[k - 1].instruction \in 1..Len(body[PathTo(k - 1)].instrs)
<1>. DEFINE i == k - 1
<1>1. levels \in Seq(RegionLevel) /\ Depth \in 1..Len(levels) /\ Here \in DOMAIN body
  BY DEF Positioned, CursorInTree, Depth
<1>2. /\ Len(Here) = Depth - 1
      /\ \A j \in 1..(Depth - 1) : Here[j] = <<levels[j].instruction, levels[j + 1].region>>
      /\ \A j \in 1..(Depth - 1) : SubSeq(Here, 1, j - 1) = PathTo(j)
  BY <1>1, PathFacts DEF Here, PathTo
<1>3. i \in 1..(Depth - 1) /\ i + 1 = k
  BY <1>1
<1>4. Here[i] = <<levels[i].instruction, levels[k].region>> /\ Holder(Here, i) = PathTo(i)
  BY <1>2, <1>3, Zenon DEF Holder
<1>5. /\ Holder(Here, i) \in DOMAIN body
      /\ Here[i][1] \in 1..Len(body[Holder(Here, i)].instrs)
      /\ Here[i][2] \in region(OpAt(body, Here, i))
  BY <1>1, <1>2, <1>3 DEF Positioned, IsTree
<1>6. body[PathTo(i)] \in Block
  BY <1>4, <1>5 DEF Positioned, IsTree
<1>7. OpAt(body, Here, i) = op(k)
  BY <1>4 DEF OpAt, op
<1>8. op(k) \in Instr
  <2>1. body[PathTo(i)].instrs \in Seq(Instr)
    BY <1>6 DEF Block
  <2>. QED
    BY <1>4, <1>5, <2>1 DEF op
<1>. QED
  BY <1>3, <1>4, <1>5, <1>7, <1>8 DEF HasOp

\* Leaving an op keeps the cursor in the tree.
LEMMA LeaveKeeps ==
  ASSUME Positioned, NEW k \in 2..Depth, levels' = Left(k), body' = body, status' = "running"
  PROVE  Positioned' /\ ArgumentsDefined'
<1>1. levels \in Seq(RegionLevel) /\ k \in 2..Len(levels)
  BY DEF Positioned, Depth
<1>2. /\ levels' \in Seq(RegionLevel)
      /\ Len(levels') = k - 1
      /\ levels'[k - 1].instruction = levels[k - 1].instruction + 1
      /\ PathOf(levels', k - 1) = PathOf(levels, k - 1)
  BY <1>1, LeftFacts DEF Left
<1>3. /\ PathTo(k - 1) \in DOMAIN body
      /\ levels[k - 1].instruction \in 1..Len(body[PathTo(k - 1)].instrs)
  BY OnPath
<1>4. Depth' = k - 1 /\ Here' = PathTo(k - 1)
  BY <1>2, Zenon DEF Depth, Here, PathTo
<1>5. Len(body[PathTo(k - 1)].instrs) \in Nat
  <2>1. body[PathTo(k - 1)] \in Block
    BY <1>3 DEF Positioned, IsTree
  <2>. QED
    BY <2>1 DEF Block
<1>6. levels'[Depth'].instruction \in 2..(Len(body[PathTo(k - 1)].instrs) + 1)
  BY <1>2, <1>3, <1>4, <1>5
<1>7. CursorInTree'
  BY <1>1, <1>3, <1>4, <1>5, <1>6 DEF CursorInTree
<1>8. ArgumentsDefined'
  BY <1>6 DEF ArgumentsDefined
<1>. QED
  BY <1>2, <1>7, <1>8 DEF Positioned

\* Entering a region of the op that level k - 1 is at keeps it there too.
LEMMA SwitchKeeps ==
  ASSUME Positioned, NEW k \in 2..(Depth + 1), NEW r,
         PathTo(k - 1) \in DOMAIN body,
         levels[k - 1].instruction \in 1..Len(body[PathTo(k - 1)].instrs),
         r \in region(body[PathTo(k - 1)].instrs[levels[k - 1].instruction]),
         levels' = Switched(k, r), body' = body, status' = "running",
         \/ moved'.bound = Arguments(PathTo(k - 1), levels[k - 1].instruction, r)
         \/ r \in ArgumentFree(body[PathTo(k - 1)].instrs[levels[k - 1].instruction])
  PROVE  Positioned' /\ ArgumentsDefined'
<1>. DEFINE p == PathTo(k - 1)
            i == levels[k - 1].instruction
<1>1. levels \in Seq(RegionLevel) /\ k \in 2..(Len(levels) + 1)
  BY DEF Positioned, Depth
<1>2. body[p] \in Block /\ body[p].instrs \in Seq(Instr) /\ body[p].instrs[i] \in Instr
  <2>1. body[p] \in Block
    BY DEF Positioned, IsTree
  <2>. QED
    BY <2>1 DEF Block
<1>3. r \in RegionRef
  BY <1>2, RegionKinds
<1>4. /\ levels' \in Seq(RegionLevel)
      /\ Len(levels') = k
      /\ levels'[k] = Entry(r)
      /\ levels'[k - 1] = levels[k - 1]
      /\ PathOf(levels', k - 1) = PathOf(levels, k - 1)
      /\ PathOf(levels', k) = Append(PathOf(levels, k - 1), <<levels[k - 1].instruction, r>>)
  <2>1. levels' = Append(SubSeq(levels, 1, k - 1), Entry(r))
    BY DEF Switched
  <2>. QED
    BY <1>1, <1>3, <2>1, SwitchedFacts, Zenon
<1>5. Depth' = k /\ Here' = Append(p, <<i, r>>) /\ PathTo(k - 1)' = p
  BY <1>4, Zenon DEF Depth, Here, PathTo
<1>6. Here' \in DOMAIN body
  BY <1>5 DEF Positioned, IsTree
<1>7. levels'[k].instruction = 1 /\ levels'[k].region = r
  BY <1>4 DEF Entry
<1>8. Len(body[Here'].instrs) \in Nat
  <2>1. body[Here'] \in Block
    BY <1>6 DEF Positioned, IsTree
  <2>. QED
    BY <2>1 DEF Block
<1>9. CursorInTree'
  BY <1>5, <1>6, <1>7, <1>8 DEF CursorInTree
<1>10. op(k)' = body[p].instrs[i]
  BY <1>4, <1>5, Zenon DEF op
<1>11. ArgumentsDefined'
  BY <1>4, <1>5, <1>7, <1>10 DEF ArgumentsDefined
<1>. QED
  BY <1>4, <1>9, <1>11 DEF Positioned

----------------------------------------------------------------------------
\* The innermost region, as the cursor and as the verifier see it.
LEMMA LastOnPath ==
  ASSUME Positioned
  PROVE  /\ Depth \in Nat \ {0}
         /\ Len(Here) = Depth - 1
         /\ Depth = 1 => Kind(Here) = "root"
         /\ Depth > 1 => /\ Kind(Here) = levels[Depth].region[1]
                         /\ Here[Len(Here)][2] = levels[Depth].region
<1>1. Depth \in Nat \ {0} /\ levels \in Seq(RegionLevel) /\ Depth = Len(levels)
  BY DEF Positioned, CursorInTree, Depth
<1>2. Len(Here) = Depth - 1 /\ Here \in Seq(Nat \X RegionRef)
  BY <1>1, PathFacts DEF Here, PathTo
<1>3. Depth = 1 => Here = <<>>
  BY <1>2
<1>4. ASSUME Depth > 1
      PROVE  Here # <<>> /\ Here[Len(Here)][2] = levels[Depth].region
  <2>1. Depth \in 2..Depth
    BY <1>1, <1>4
  <2>2. Here[Depth - 1][2] = levels[Depth].region
    BY <2>1, OnPath
  <2>. QED
    BY <1>1, <1>2, <1>4, <2>2
<1>. QED
  BY <1>1, <1>2, <1>3, <1>4 DEF Kind

\* A cursor that is not at the top level has an op around it.
LEMMA InRegion ==
  ASSUME Positioned, Kind(Here) # "root"
  PROVE  /\ Depth \in 2..Depth
         /\ Depth \in 2..(Depth + 1)
         /\ Len(Here) = Depth - 1
         /\ Kind(Here) = levels[Depth].region[1]
         /\ Here[Len(Here)][2] = levels[Depth].region
<1>1. Depth \in Nat \ {0} /\ Depth # 1
  BY LastOnPath
<1>2. Depth > 1
  BY <1>1
<1>. QED
  BY <1>1, <1>2, LastOnPath

\* The lists of an op on the path are the same for both.
LEMMA SameLists ==
  ASSUME Positioned, NEW k \in 2..Depth
  PROVE  /\ Results(PathTo(k - 1), levels[k - 1].instruction) = ResultsAt(Here, k - 1)
         /\ \A r : Arguments(PathTo(k - 1), levels[k - 1].instruction, r)
                    = ArgumentsAt(Here, k - 1, r)
BY OnPath, Zenon DEF ResultsAt, ArgumentsAt

\* The search down the levels and the verifier's search up the path end at
\* the same region.
LEMMA SameSearch ==
  ASSUME Positioned,
         NEW S \in SUBSET (2..Depth), NEW T \in SUBSET (1..Len(Here)),
         \A k \in 2..Depth : k \in S <=> k - 1 \in T,
         T # {}
  PROVE  /\ S # {}
         /\ Innermost(S) \in S
         /\ Innermost(S) \in 2..Depth
         /\ Nearest(T) = Innermost(S) - 1
<1>1. Depth \in Nat \ {0} /\ Len(Here) = Depth - 1
  BY LastOnPath
<1>2. \A k \in T : k + 1 \in S
  <2>. TAKE k \in T
  <2>1. k \in Int /\ k + 1 \in 2..Depth /\ (k + 1) - 1 = k
    BY <1>1
  <2>. QED
    BY <2>1, Zenon
<1>3. S \in SUBSET (1..Depth) /\ S # {}
  <2>1. \A k \in 2..Depth : k \in 1..Depth
    BY <1>1
  <2>. QED
    BY <1>2, <2>1, Zenon
<1>4. Innermost(S) \in S /\ \A j \in S : j <= Innermost(S)
  BY <1>1, <1>3, GreatestIsMember
<1>5. Innermost(T) \in T /\ \A j \in T : j <= Innermost(T)
  <2>1. Len(Here) \in Nat
    BY <1>1
  <2>. QED
    BY <2>1, GreatestIsMember
<1>6. Innermost(S) - 1 \in T
  BY <1>4
<1>7. Innermost(T) = Innermost(S) - 1
  <2>1. Innermost(T) + 1 <= Innermost(S)
    BY <1>2, <1>4, <1>5
  <2>2. Innermost(S) - 1 <= Innermost(T)
    BY <1>5, <1>6
  <2>3. Innermost(T) \in Int /\ Innermost(S) \in Int
    <3>1. \A k \in 2..Depth : k \in Int
      BY <1>1
    <3>2. \A k \in 1..Len(Here) : k \in Int
      BY <1>1
    <3>. QED
      BY <1>4, <1>5, <3>1, <3>2, Zenon
  <2>. QED
    BY <2>1, <2>2, <2>3
<1>8. Nearest(T) = Innermost(T)
  BY DEF Nearest, Innermost
<1>. QED
  BY <1>3, <1>4, <1>7, <1>8

\* The same for loops, cases and try bodies.
LEMMA SameExits ==
  ASSUME Positioned, NEW label
  PROVE  /\ LoopLevels(label) \subseteq 2..Depth
         /\ enclosing_loop(Here, label) \subseteq 1..Len(Here)
         /\ \A k \in 2..Depth : k \in LoopLevels(label) <=> k - 1 \in enclosing_loop(Here, label)
         /\ CaseLevels \subseteq 2..Depth
         /\ enclosing_case(Here) \subseteq 1..Len(Here)
         /\ \A k \in 2..Depth : k \in CaseLevels <=> k - 1 \in enclosing_case(Here)
         /\ TryLevels(label) \subseteq 2..Depth
         /\ raise_target(Here, label) \subseteq 1..Len(Here)
         /\ \A k \in 2..Depth : k \in TryLevels(label) <=> k - 1 \in raise_target(Here, label)
<1>1. Depth \in Nat \ {0} /\ Len(Here) = Depth - 1
  BY LastOnPath
<1>2. \A k \in 2..Depth : Here[k - 1][2] = levels[k].region /\ k - 1 \in 1..Len(Here)
  BY <1>1, OnPath
<1>. QED
  BY <1>2, Zenon DEF LoopLevels, enclosing_loop, CaseLevels, enclosing_case, TryLevels, raise_target

----------------------------------------------------------------------------
\* What the verifier admitted of the terminator the cursor is at.
LEMMA TermVerified ==
  ASSUME Positioned
  PROVE  verify_region_terminator(body, Here)
BY DEF Positioned, CursorInTree, Verified

\* An exit that leaves an op on the path, with values checked against its
\* results.
LEMMA LeaveStep ==
  ASSUME Positioned, NEW k \in 2..Depth, NEW ok \in BOOLEAN, ok, NEW failure,
         Leave(ok, failure, k),
         ResultsAt(Here, k - 1) \in CheckedTargets(body, Here)
  PROVE  IInv'
<1>1. /\ levels' = Left(k)
      /\ status' = "running"
      /\ body' = body
      /\ moved' = [by |-> Here, exit |-> TRUE,
                   bound |-> Results(PathTo(k - 1), levels[k - 1].instruction)]
  BY Zenon DEF Leave, Move
<1>2. Positioned' /\ ArgumentsDefined'
  BY <1>1, LeaveKeeps
<1>3. moved'.bound = ResultsAt(Here, k - 1) /\ moved'.by = Here
  BY <1>1, SameLists
<1>. QED
  BY <1>1, <1>2, <1>3 DEF IInv, BindsVerified

\* An exit into a region of an op on the path, with values checked against the
\* region's arguments.
LEMMA SwitchStep ==
  ASSUME Positioned, NEW k \in 2..Depth, NEW ok \in BOOLEAN, ok, NEW failure,
         NEW r \in region(op(k)),
         Switch(ok, failure, k, r),
         ArgumentsAt(Here, k - 1, r) \in CheckedTargets(body, Here)
  PROVE  IInv'
<1>1. /\ levels' = Switched(k, r)
      /\ status' = "running"
      /\ body' = body
      /\ moved' = [by |-> Here, exit |-> TRUE,
                   bound |-> Arguments(PathTo(k - 1), levels[k - 1].instruction, r)]
  BY Zenon DEF Switch, Move
<1>2. Positioned' /\ ArgumentsDefined'
  <2>1. k \in 2..(Depth + 1)
    BY LastOnPath
  <2>2. moved'.bound = Arguments(PathTo(k - 1), levels[k - 1].instruction, r)
    BY <1>1
  <2>. QED
    BY <1>1, <2>1, <2>2, OnPath, SwitchKeeps DEF op
<1>3. moved'.bound = ArgumentsAt(Here, k - 1, r) /\ moved'.by = Here
  BY <1>1, SameLists
<1>. QED
  BY <1>1, <1>2, <1>3 DEF IInv, BindsVerified

\* The end of an if's arm.
LEMMA CompleteStep ==
  ASSUME IInv, complete
  PROVE  IInv'
<1>1. Positioned
  BY DEF IInv
<1>2. body[Here].term.op = "yield"
  BY DEF complete, AtTerm
<1>3. Depth \in 2..Depth /\ Len(Here) = Depth - 1
  <2>1. Kind(Here) \in {"then", "elif then", "else"}
    BY <1>1, <1>2, TermVerified DEF verify_region_terminator
  <2>. QED
    BY <1>1, <2>1, InRegion
<1>4. HasOpOf(Depth, RegionOps)
  BY <1>1, <1>3, OnPath, RegionKinds DEF HasOpOf
<1>5. CheckedTargets(body, Here) = {ResultsAt(Here, Len(Here))}
  BY <1>2 DEF CheckedTargets
<1>. QED
  BY <1>1, <1>3, <1>4, <1>5, LeaveStep DEF complete, HasOpOf

\* The end of an elif's condition.
LEMMA ElifStep ==
  ASSUME IInv, NEW holds \in BOOLEAN, elif(holds)
  PROVE  IInv'
<1>. DEFINE index == levels[Depth].region[2]
            r == IF holds THEN ElifThen(index) ELSE NextElif(op(Depth), index)
            ok == levels[Depth].region[1] = "elif cond" /\ HasOpOf(Depth, {"if"})
<1>1. Positioned
  BY DEF IInv
<1>2. body[Here].term.op = "elif cond"
  BY DEF elif, AtTerm
<1>3. /\ Depth \in 2..Depth
      /\ Len(Here) = Depth - 1
      /\ levels[Depth].region[1] = "elif cond"
      /\ Here[Len(Here)][2] = levels[Depth].region
  <2>1. Kind(Here) = "elif cond"
    BY <1>1, <1>2, TermVerified DEF verify_region_terminator
  <2>. QED
    BY <1>1, <2>1, InRegion
<1>4. /\ HasOp(Depth)
      /\ op(Depth) \in Instr
      /\ op(Depth) = OpAt(body, Here, Len(Here))
      /\ levels[Depth].region \in region(op(Depth))
  BY <1>1, <1>3, OnPath
<1>5. op(Depth).op = "if" /\ index \in 1..op(Depth).elifs /\ op(Depth).elifs \in Nat
  BY <1>3, <1>4, RegionKinds, InstrKinds
<1>6. r \in region(op(Depth))
  <2>1. \/ r = Else
        \/ r = ElifThen(index)
        \/ r = ElifCond(index + 1) /\ index + 1 \in 1..op(Depth).elifs
    BY <1>5 DEF NextElif
  <2>. QED
    BY <1>5, <2>1 DEF region
<1>7. CheckedTargets(body, Here) =
         {ArgumentsAt(Here, Len(Here), ElifThen(index)),
          ArgumentsAt(Here, Len(Here), NextElif(op(Depth), index))}
  BY <1>2, <1>3, <1>4 DEF CheckedTargets
<1>8. ArgumentsAt(Here, Depth - 1, r) \in CheckedTargets(body, Here)
  BY <1>3, <1>7
<1>9. ok /\ Switch(ok, "lost position", Depth, r)
  BY <1>3, <1>4, <1>5, Zenon DEF HasOpOf, elif
<1>. HIDE DEF r
<1>. QED
  BY <1>1, <1>3, <1>6, <1>8, <1>9, SwitchStep

\* The end of a try's part.
LEMMA TryYieldStep ==
  ASSUME IInv, try_yield
  PROVE  IInv'
<1>. DEFINE part == levels[Depth].region[1]
            ok == HasOpOf(Depth, {"try"}) /\ part \in {"try body", "handler", "try else"}
<1>1. Positioned
  BY DEF IInv
<1>2. body[Here].term.op = "try yield"
  BY DEF try_yield, AtTerm
<1>3. /\ Depth \in 2..Depth
      /\ Len(Here) = Depth - 1
      /\ Kind(Here) = part
      /\ part \in {"try body", "handler", "try else"}
  <2>1. Kind(Here) \in {"try body", "handler", "try else"}
    BY <1>1, <1>2, TermVerified DEF verify_region_terminator
  <2>. QED
    BY <1>1, <2>1, InRegion
<1>4. /\ HasOp(Depth)
      /\ op(Depth) \in Instr
      /\ op(Depth) = OpAt(body, Here, Len(Here))
      /\ levels[Depth].region \in region(op(Depth))
  BY <1>1, <1>3, OnPath
<1>5. op(Depth).op = "try"
  BY <1>3, <1>4, RegionKinds
<1>6. ok
  BY <1>3, <1>4, <1>5 DEF HasOpOf
<1>7. CheckedTargets(body, Here) =
        {IF part = "try body" /\ op(Depth).orelse THEN ArgumentsAt(Here, Len(Here), TryElse)
         ELSE ResultsAt(Here, Len(Here))}
  BY <1>2, <1>3, <1>4 DEF CheckedTargets
<1>8. CASE part = "try body" /\ op(Depth).orelse
  <2>1. TryElse \in region(op(Depth))
    BY <1>5, <1>8 DEF region
  <2>2. Switch(ok, "lost position", Depth, TryElse)
    BY <1>6, <1>8, Zenon DEF try_yield
  <2>. HIDE DEF ok
  <2>. QED
    BY <1>1, <1>3, <1>6, <1>7, <1>8, <2>1, <2>2, SwitchStep DEF ok
<1>9. CASE ~(part = "try body" /\ op(Depth).orelse)
  <2>1. Leave(ok, "lost position", Depth)
    BY <1>9, Zenon DEF try_yield
  <2>. QED
    BY <1>1, <1>3, <1>6, <1>7, <1>9, <2>1, LeaveStep
<1>. QED
  BY <1>8, <1>9

\* break, continue, match.complete and match.next.
LEMMA ExitStep ==
  ASSUME IInv, transfer_exit
  PROVE  IInv'
<1>. DEFINE L == LoopLevels(Label)
            C == CaseLevels
<1>1. Positioned
  BY DEF IInv
<1>2. verify_region_terminator(body, Here)
  BY <1>1, TermVerified
<1>3. ASSUME body[Here].term.op \in {"break", "continue"}
      PROVE  /\ L # {}
             /\ Innermost(L) \in 2..Depth
             /\ Nearest(enclosing_loop(Here, Label)) = Innermost(L) - 1
             /\ levels[Innermost(L)].region[1] = "body"
  <2>1. enclosing_loop(Here, Label) # {}
    BY <1>2, <1>3 DEF verify_region_terminator, Label
  <2>2. /\ L # {}
        /\ Innermost(L) \in L
        /\ Innermost(L) \in 2..Depth
        /\ Nearest(enclosing_loop(Here, Label)) = Innermost(L) - 1
    BY <1>1, <2>1, SameExits, SameSearch
  <2>. QED
    BY <2>2 DEF LoopLevels
<1>4. ASSUME body[Here].term.op \in {"match next", "match complete"}
      PROVE  /\ C # {}
             /\ Innermost(C) \in 2..Depth
             /\ Nearest(enclosing_case(Here)) = Innermost(C) - 1
             /\ levels[Innermost(C)].region[1] = "case"
  <2>1. enclosing_case(Here) # {}
    BY <1>2, <1>4 DEF verify_region_terminator
  <2>2. /\ C # {}
        /\ Innermost(C) \in C
        /\ Innermost(C) \in 2..Depth
        /\ Nearest(enclosing_case(Here)) = Innermost(C) - 1
    BY <1>1, <2>1, SameExits, SameSearch
  <2>. QED
    BY <2>2 DEF CaseLevels
<1>5. CASE AtTerm({"break"}) /\ resolve_leave(L, RegionOps)
  <2>1. body[Here].term.op = "break"
    BY <1>5 DEF AtTerm
  <2>2. PICK k \in 2..Depth : k = Innermost(L)
    BY <1>3, <2>1
  <2>3. CanExit(L, RegionOps)
    BY <1>1, <1>3, <2>1, <2>2, OnPath, RegionKinds DEF CanExit, HasOpOf
  <2>4. CheckedTargets(body, Here) = {ResultsAt(Here, k - 1)}
    BY <1>3, <2>1, <2>2 DEF CheckedTargets, Label
  <2>5. Leave(CanExit(L, RegionOps), ExitFailure(L), k)
    BY <1>5, <2>2 DEF resolve_leave
  <2>6. CanExit(L, RegionOps) \in BOOLEAN
    BY DEF CanExit, HasOpOf, HasOp
  <2>. QED
    BY <1>1, <2>3, <2>4, <2>5, <2>6, LeaveStep
<1>6. CASE AtTerm({"continue"}) /\ resolve_continue(L)
  <2>1. body[Here].term.op = "continue"
    BY <1>6 DEF AtTerm
  <2>2. PICK k \in 2..Depth : k = Innermost(L)
    BY <1>3, <2>1
  <2>3. HasOp(k) /\ op(k) \in Instr /\ levels[k].region \in region(op(k))
        /\ Here[k - 1][2] = levels[k].region
    BY <1>1, OnPath
  <2>4. CanExit(L, {"loop"})
    BY <1>3, <2>1, <2>2, <2>3, RegionKinds DEF CanExit, HasOpOf
  <2>5. CheckedTargets(body, Here) = {ArgumentsAt(Here, k - 1, levels[k].region)}
    BY <1>3, <2>1, <2>2, <2>3 DEF CheckedTargets, Label
  <2>6. Switch(CanExit(L, {"loop"}), ExitFailure(L), k, levels[k].region)
    BY <1>6, <2>2 DEF resolve_continue
  <2>7. CanExit(L, {"loop"}) \in BOOLEAN
    BY DEF CanExit, HasOpOf, HasOp
  <2>. QED
    BY <1>1, <2>3, <2>4, <2>5, <2>6, <2>7, SwitchStep
<1>7. CASE AtTerm({"match complete"}) /\ resolve_leave(C, RegionOps)
  <2>1. body[Here].term.op = "match complete"
    BY <1>7 DEF AtTerm
  <2>2. PICK k \in 2..Depth : k = Innermost(C)
    BY <1>4, <2>1
  <2>3. CanExit(C, RegionOps)
    BY <1>1, <1>4, <2>1, <2>2, OnPath, RegionKinds DEF CanExit, HasOpOf
  <2>4. CheckedTargets(body, Here) = {ResultsAt(Here, k - 1)}
    BY <1>4, <2>1, <2>2 DEF CheckedTargets
  <2>5. Leave(CanExit(C, RegionOps), ExitFailure(C), k)
    BY <1>7, <2>2 DEF resolve_leave
  <2>6. CanExit(C, RegionOps) \in BOOLEAN
    BY DEF CanExit, HasOpOf, HasOp
  <2>. QED
    BY <1>1, <2>3, <2>4, <2>5, <2>6, LeaveStep
<1>8. CASE AtTerm({"match next"}) /\ resolve_next(C)
  <2>1. body[Here].term.op = "match next"
    BY <1>8 DEF AtTerm
  <2>2. PICK k \in 2..Depth : k = Innermost(C)
    BY <1>4, <2>1
  <2>. DEFINE index == levels[k].region[2]
              r == NextCase(op(k), index)
  <2>3. HasOp(k) /\ op(k) \in Instr /\ levels[k].region \in region(op(k))
        /\ Here[k - 1][2] = levels[k].region /\ op(k) = OpAt(body, Here, k - 1)
    BY <1>1, OnPath
  <2>4. op(k).op = "match" /\ index \in 1..op(k).cases /\ op(k).cases \in Nat
    BY <1>4, <2>1, <2>2, <2>3, RegionKinds, InstrKinds
  <2>5. r \in region(op(k))
    <3>1. r = Else \/ (r = Case(index + 1) /\ index + 1 \in 1..op(k).cases)
      BY <2>4 DEF NextCase
    <3>. QED
      BY <2>4, <3>1 DEF region
  <2>6. CanExit(C, {"match"})
    BY <1>4, <2>1, <2>2, <2>3, <2>4 DEF CanExit, HasOpOf
  <2>7. CheckedTargets(body, Here) = {ArgumentsAt(Here, k - 1, r)}
    BY <1>4, <2>1, <2>2, <2>3 DEF CheckedTargets
  <2>8. Switch(CanExit(C, {"match"}), ExitFailure(C), k, r)
    BY <1>8, <2>2 DEF resolve_next
  <2>9. CanExit(C, {"match"}) \in BOOLEAN
    BY DEF CanExit, HasOpOf, HasOp
  <2>. HIDE DEF r
  <2>. QED
    BY <1>1, <2>5, <2>6, <2>7, <2>8, <2>9, SwitchStep
<1>. QED
  BY <1>5, <1>6, <1>7, <1>8 DEF transfer_exit

\* A raise: the verifier required the handler of the try it names.
LEMMA CatchStep ==
  ASSUME IInv, catch
  PROVE  IInv'
<1>. DEFINE S == TryLevels(Label)
            T == raise_target(Here, Label)
            found == S # {} /\ HasOpOf(Innermost(S), {"try"})
            failure == IF S = {} THEN "does not enclose"
                       ELSE IF found THEN "has no handler" ELSE "lost position"
<1>1. Positioned
  BY DEF IInv
<1>2. body[Here].term.op = "try raise"
  BY DEF catch, AtTerm
<1>3. T # {} /\ OpAt(body, Here, Nearest(T)).handler
  BY <1>1, <1>2, TermVerified DEF verify_region_terminator, Label
<1>4. /\ S # {}
      /\ Innermost(S) \in S
      /\ Innermost(S) \in 2..Depth
      /\ Nearest(T) = Innermost(S) - 1
  BY <1>1, <1>3, SameExits, SameSearch
<1>5. PICK k \in 2..Depth : k = Innermost(S)
  BY <1>4
<1>6. /\ HasOp(k)
      /\ op(k) \in Instr
      /\ op(k) = OpAt(body, Here, k - 1)
      /\ levels[k].region \in region(op(k))
      /\ levels[k] \in RegionLevel
  <2>1. levels[k] \in RegionLevel
    BY <1>1 DEF Positioned, Depth
  <2>. QED
    BY <1>1, <2>1, OnPath
<1>7. op(k).handler
  BY <1>3, <1>4, <1>5, <1>6
<1>8. op(k).op = "try"
  <2>1. levels[k].region = TryBody(Label)
    BY <1>4, <1>5 DEF TryLevels
  <2>2. Label \in Nat \cup Labels
    <3>1. body[Here] \in Block
      BY <1>1 DEF Positioned, CursorInTree, IsTree
    <3>2. body[Here].term \in Term
      BY <3>1 DEF Block
    <3>. QED
      BY <3>2 DEF Term, Label, Labels
  <2>3. TryBody(Label)[1] = "try body"
    BY <2>2, OtherRefs, Zenon
  <2>4. levels[k].region[1] = "try body"
    BY <2>1, <2>3, Zenon
  <2>. QED
    BY <1>6, <2>4, RegionKinds
<1>9. found /\ op(k).handler
  BY <1>4, <1>5, <1>6, <1>7, <1>8 DEF HasOpOf
<1>10. TryHandler \in region(op(k))
  BY <1>7, <1>8 DEF region
<1>11. CheckedTargets(body, Here) = {ArgumentsAt(Here, k - 1, TryHandler)}
  BY <1>2, <1>4, <1>5 DEF CheckedTargets, Label
<1>12. Switch(found /\ op(k).handler, failure, k, TryHandler)
  BY <1>5 DEF catch
<1>13. (found /\ op(k).handler) \in BOOLEAN
  BY DEF HasOpOf, HasOp
<1>. HIDE DEF found, failure
<1>. QED
  BY <1>1, <1>9, <1>10, <1>11, <1>12, <1>13, SwitchStep

\* A region op is entered: only a loop's region takes arguments, and they are
\* bound.  A match has a first case because the verifier refuses an empty one.
LEMMA EnterStep ==
  ASSUME IInv, status = "running", NEW holds \in BOOLEAN, enter(holds)
  PROVE  IInv'
<1>. DEFINE k == Depth + 1
            r == EnteredRegion(Instruction, holds)
<1>1. Positioned /\ Depth \in Nat \ {0} /\ levels \in Seq(RegionLevel) /\ Depth = Len(levels)
  BY LastOnPath DEF IInv, Positioned, Depth
<1>2. /\ Here \in DOMAIN body
      /\ levels[Depth].instruction \in 1..Len(body[Here].instrs)
      /\ Instruction \in Instr
      /\ verify_regions(Instruction)
  <2>1. Here \in DOMAIN body /\ body[Here] \in Block /\ levels[Depth].instruction \in Nat \ {0}
    BY <1>1 DEF Positioned, CursorInTree, IsTree
  <2>2. body[Here].instrs \in Seq(Instr)
    BY <2>1 DEF Block
  <2>3. levels[Depth].instruction \in 1..Len(body[Here].instrs)
    BY <2>1, <2>2 DEF enter, AtInstruction
  <2>4. Instruction \in Instr
    BY <2>2, <2>3 DEF Instruction
  <2>5. verify_regions(Instruction)
    BY <1>1, <2>1, <2>3 DEF Positioned, Verified, Instruction
  <2>. QED
    BY <2>1, <2>3, <2>4, <2>5
<1>3. Instruction.op \in {"if", "loop", "match", "try"}
  BY DEF enter, RegionOps
<1>4. r \in region(Instruction) /\ (Instruction.op = "loop" \/ r \in ArgumentFree(Instruction))
  <2>1. CASE Instruction.op = "if"
    <3>1. Instruction.elifs \in Nat
      BY <1>2, <2>1, InstrKinds
    <3>2. r = Then \/ r = (IF Instruction.elifs = 0 THEN Else ELSE ElifCond(1))
      BY <2>1 DEF EnteredRegion
    <3>3. r \in ArgumentFree(Instruction)
      BY <2>1, <3>2 DEF ArgumentFree
    <3>4. r = Then \/ r = Else \/ (r = ElifCond(1) /\ 1 \in 1..Instruction.elifs)
      BY <3>1, <3>2
    <3>5. r \in region(Instruction)
      BY <2>1, <3>4 DEF region
    <3>. QED
      BY <3>3, <3>5
  <2>2. CASE Instruction.op = "loop"
    BY <2>2 DEF EnteredRegion, region
  <2>3. CASE Instruction.op = "match"
    <3>1. Instruction.cases \in Nat /\ Instruction.cases > 0
      BY <1>2, <2>3, InstrKinds DEF verify_regions
    <3>2. r = Case(1) /\ 1 \in 1..Instruction.cases
      BY <2>3, <3>1 DEF EnteredRegion
    <3>. QED
      BY <2>3, <3>2 DEF region, ArgumentFree
  <2>4. CASE Instruction.op = "try"
    BY <2>4 DEF EnteredRegion, region, ArgumentFree
  <2>. QED
    BY <1>3, <2>1, <2>2, <2>3, <2>4
<1>5. /\ levels' = Append(levels, Entry(r))
      /\ body' = body
      /\ status' = "running"
      /\ moved' = [by |-> Here, exit |-> FALSE,
                   bound |-> IF Instruction.op = "loop"
                             THEN Arguments(Here, levels[Depth].instruction, r)
                             ELSE NoBinding]
  BY Zenon DEF enter
<1>6. k \in 2..(Depth + 1) /\ k - 1 = Depth
  BY <1>1
<1>7. levels' = Switched(k, r)
  <2>1. SubSeq(levels, 1, k - 1) = levels
    BY <1>1, <1>6
  <2>. QED
    BY <1>5, <2>1, Zenon DEF Switched
<1>8. PathTo(k - 1) = Here
      /\ body[PathTo(k - 1)].instrs[levels[k - 1].instruction] = Instruction
  BY <1>6, Zenon DEF Here, Instruction
<1>9. \/ moved'.bound = Arguments(PathTo(k - 1), levels[k - 1].instruction, r)
      \/ r \in ArgumentFree(body[PathTo(k - 1)].instrs[levels[k - 1].instruction])
  BY <1>4, <1>5, <1>6, <1>8
<1>10. ~moved'.exit
  BY <1>5
<1>. HIDE DEF r
<1>11. Positioned' /\ ArgumentsDefined'
  <2>1. /\ PathTo(k - 1) \in DOMAIN body
        /\ levels[k - 1].instruction \in 1..Len(body[PathTo(k - 1)].instrs)
        /\ r \in region(body[PathTo(k - 1)].instrs[levels[k - 1].instruction])
    BY <1>2, <1>4, <1>6, <1>8
  <2>. QED
    BY <1>1, <1>5, <1>6, <1>7, <1>9, <2>1, SwitchKeeps
<1>. QED
  BY <1>10, <1>11 DEF IInv, BindsVerified

\* Any other instruction: the innermost level goes on.
LEMMA AdvanceStep ==
  ASSUME IInv, status = "running", advance
  PROVE  IInv'
<1>1. Positioned /\ Depth \in Nat \ {0} /\ levels \in Seq(RegionLevel) /\ Depth = Len(levels)
  BY LastOnPath DEF IInv, Positioned, Depth
<1>2. PICK l \in RegionLevel : l = levels[Depth]
  BY <1>1
<1>3. levels' = [levels EXCEPT ![Depth] = [l EXCEPT !.instruction = @ + 1]]
  BY <1>2 DEF advance
<1>4. /\ [l EXCEPT !.instruction = @ + 1] \in RegionLevel
      /\ [l EXCEPT !.instruction = @ + 1].instruction = l.instruction + 1
      /\ [l EXCEPT !.instruction = @ + 1].region = l.region
  <2>1. l = [region |-> l.region, instruction |-> l.instruction]
    BY DEF RegionLevel
  <2>2. [l EXCEPT !.instruction = @ + 1] =
          [region |-> l.region, instruction |-> l.instruction + 1]
    BY <2>1
  <2>3. l.region \in RegionRef /\ l.instruction + 1 \in Nat \ {0}
    BY LevelFacts
  <2>. QED
    BY <2>2, <2>3 DEF RegionLevel
<1>5. /\ levels' \in Seq(RegionLevel)
      /\ Len(levels') = Depth
      /\ levels'[Depth].instruction = l.instruction + 1
      /\ levels'[Depth].region = l.region
      /\ \A j \in 1..Depth : j # Depth => levels'[j] = levels[j]
  BY <1>1, <1>3, <1>4
<1>6. PathOf(levels', Depth) = PathOf(levels, Depth)
  <2>1. \A j \in 1..(Depth - 1) : levels'[j].instruction = levels[j].instruction
    BY <1>1, <1>5
  <2>2. \A j \in 2..Depth : levels'[j].region = levels[j].region
    <3>. TAKE j \in 2..Depth
    <3>1. j \in 1..Depth
      BY <1>1
    <3>. QED
      BY <1>2, <1>5, <3>1
  <2>. QED
    BY <1>1, <1>5, <2>1, <2>2, SamePath
<1>7. Depth' = Depth /\ Here' = Here
  BY <1>5, <1>6, Zenon DEF Depth, Here, PathTo
<1>8. Here \in DOMAIN body /\ Len(body[Here].instrs) \in Nat
      /\ l.instruction \in 1..Len(body[Here].instrs)
  <2>1. Here \in DOMAIN body /\ body[Here] \in Block /\ l.instruction \in Nat \ {0}
    BY <1>1, <1>2 DEF Positioned, CursorInTree, IsTree
  <2>2. Len(body[Here].instrs) \in Nat
    BY <2>1 DEF Block
  <2>. QED
    BY <1>2, <2>1, <2>2 DEF advance, AtInstruction
<1>9. body' = body /\ status' = status /\ moved' = moved
  BY DEF advance
<1>10. levels'[Depth'].instruction \in 2..(Len(body[Here].instrs) + 1)
  BY <1>5, <1>7, <1>8
<1>11. CursorInTree'
  BY <1>1, <1>7, <1>8, <1>9, <1>10 DEF CursorInTree
<1>12. Positioned'
  BY <1>1, <1>5, <1>9, <1>11 DEF Positioned
<1>13. BindsVerified'
  BY <1>9 DEF IInv, BindsVerified
<1>14. ArgumentsDefined'
  BY <1>10 DEF ArgumentsDefined
<1>. QED
  BY <1>12, <1>13, <1>14 DEF IInv

\* A step that leaves the cursor where it is.
LEMMA StayStep ==
  ASSUME IInv, UNCHANGED <<body, levels, moved>>, status' \in {"running"} \cup Ends
  PROVE  IInv'
<1>1. /\ Here' = Here
      /\ Depth' = Depth
      /\ PathTo(Depth - 1)' = PathTo(Depth - 1)
      /\ op(Depth)' = op(Depth)
  BY Zenon DEF Here, Depth, PathTo, op
<1>2. CursorInTree'
  BY <1>1 DEF IInv, Positioned, CursorInTree
<1>3. ArgumentsDefined'
  BY <1>1, Zenon DEF IInv, ArgumentsDefined
<1>. QED
  BY <1>2, <1>3 DEF IInv, Positioned, BindsVerified

----------------------------------------------------------------------------
\* The invariant holds at the start of every verified function ...
LEMMA InvInit ==
  ASSUME Init
  PROVE  IInv
<1>1. Root \in RegionRef
  <2>1. "root" \in RegionNames
    BY DEF RegionNames
  <2>. QED
    BY <2>1, RefParts DEF Root
<1>2. Entry(Root) \in RegionLevel /\ Entry(Root).instruction = 1
  BY <1>1 DEF Entry, RegionLevel
<1>3. levels \in Seq(RegionLevel) /\ Depth = 1 /\ levels[Depth].instruction = 1
  BY <1>2 DEF Init, Depth
<1>4. IsTree(body) /\ Verified(body)
  BY FunctionsAssumption DEF Init
<1>5. Here = <<>>
  <2>1. Depth \in 1..Len(levels)
    BY <1>3 DEF Depth
  <2>2. Len(Here) = Depth - 1 /\ Here \in Seq(Nat \X RegionRef)
    BY <1>3, <2>1, PathFacts DEF Here, PathTo
  <2>. QED
    BY <1>3, <2>2
<1>6. <<>> \in DOMAIN body /\ Len(body[<<>>].instrs) \in Nat
  <2>1. <<>> \in DOMAIN body /\ body[<<>>] \in Block
    BY <1>4 DEF IsTree
  <2>. QED
    BY <2>1 DEF Block
<1>7. CursorInTree
  BY <1>3, <1>5, <1>6 DEF CursorInTree
<1>8. status = "running" /\ ~moved.exit
  BY DEF Init
<1>. QED
  BY <1>3, <1>4, <1>7, <1>8 DEF IInv, Positioned, BindsVerified, ArgumentsDefined

\* ... and every step keeps it: the cursor is in the tree, so it is never lost.
LEMMA InvStep ==
  ASSUME IInv, [Next]_vars
  PROVE  IInv'
<1>1. ASSUME Next
      PROVE  IInv'
  <2>1. status = "running" /\ Step
    BY <1>1 DEF Next, IInv, Positioned, CursorInTree
  <2>2. ASSUME NEW holds \in BOOLEAN, enter(holds)
        PROVE  IInv'
    BY <2>1, <2>2, EnterStep
  <2>3. ASSUME NEW holds \in BOOLEAN, elif(holds)
        PROVE  IInv'
    BY <2>3, ElifStep
  <2>4. CASE advance
    BY <2>1, <2>4, AdvanceStep
  <2>5. CASE complete
    BY <2>5, CompleteStep
  <2>6. CASE try_yield
    BY <2>6, TryYieldStep
  <2>7. CASE transfer_exit
    BY <2>7, ExitStep
  <2>8. CASE catch
    BY <2>8, CatchStep
  <2>9. CASE finish
    <3>1. UNCHANGED <<body, levels, moved>> /\ status' \in Ends
      BY <2>9 DEF finish, AtTerm, Ends
    <3>. QED
      BY <3>1, StayStep
  <2>. QED
    BY <2>1, <2>2, <2>3, <2>4, <2>5, <2>6, <2>7, <2>8, <2>9 DEF Step
<1>2. CASE UNCHANGED vars
  <2>1. UNCHANGED <<body, levels, moved>> /\ status' \in {"running"} \cup Ends
    BY <1>2 DEF vars, IInv, Positioned
  <2>. QED
    BY <2>1, StayStep
<1>. QED
  BY <1>1, <1>2

\* The inductive invariant: the function running is a verified tree, the
\* cursor is in it, and what the last move bound is what the verifier checked.
THEOREM RegionsInvariant == Spec => []IInv
<1>1. Init => IInv
  BY InvInit
<1>2. IInv /\ [Next]_vars => IInv'
  BY InvStep
<1>. QED
  BY <1>1, <1>2, PTL DEF Spec

\* The cursor keeps its type, with any nesting and any labels.
THEOREM RegionsTypeCorrect == Spec => []TypeOK
<1>1. IInv => TypeOK
  BY DEF IInv, Positioned, TypeOK
<1>. QED
  BY <1>1, RegionsInvariant, PTL

\* The cursor is always at an instruction or a terminator of its function
\* (RegionCursor's comment on `levels`).
THEOREM RegionsCursorInTree == Spec => []CursorInTree
<1>1. IInv => CursorInTree
  BY DEF IInv, Positioned
<1>. QED
  BY <1>1, RegionsInvariant, PTL

\* What the verifier admits suffices: no exit, raise or move of a verified
\* function ends in one of the cursor's internal errors (lost_position).
THEOREM RegionsNeverLost == Spec => []NeverLost
<1>1. IInv => NeverLost
  BY DEF IInv, Positioned, NeverLost, Failures, Ends
<1>. QED
  BY <1>1, RegionsInvariant, PTL

\* Values are bound to the registers they were checked against: the cursor's
\* search down its levels (resolve_leave, catch) ends at the region the
\* verifier's search (enclosing_loop, enclosing_case, raise_target) ended at.
THEOREM RegionsBindsVerified == Spec => []BindsVerified
<1>1. IInv => BindsVerified
  BY DEF IInv
<1>. QED
  BY <1>1, RegionsInvariant, PTL

\* No region starts with arguments left unbound by the move that entered it
\* (enter, transfer and catch bind them).
THEOREM RegionsArgumentsDefined == Spec => []ArgumentsDefined
<1>1. IInv => ArgumentsDefined
  BY DEF IInv
<1>. QED
  BY <1>1, RegionsInvariant, PTL
=============================================================================
