---------------------------- MODULE LinkerProofs ----------------------------
(***************************************************************************)
(* Proofs about the linker, for any modules, names and programs, and any   *)
(* nesting of loads, lookups and forced modules.                           *)
(***************************************************************************)
EXTENDS Linker, WellFoundedInduction, TLAPS

-----------------------------------------------------------------------------
(* Types. *)

Bindings == UNION {[D -> Pairs] : D \in SUBSET Names}
Hoists == [mod : Modules, members : [Modules -> Bindings]]
Records == [loads : Seq(Modules), exports : Bindings, decls : Hoists]
Packages == UNION {[D -> Records] : D \in SUBSET Modules}
Linkers ==
    [loaded : SUBSET Modules, exports : [Modules -> Bindings], pending : SUBSET Modules,
     decls : Seq(Hoists), loads : Seq(Seq(Modules)), records : Packages]

EntryFrames == [call : {"entry"}, todo : Seq(Modules)]
LoadFrames ==
    [call : {"load"}, mod : Modules, at : Nat \ {0}, stage : {"load", "lookup", "bind", "member"},
     bindings : Bindings, explicit : SUBSET Names, members : [Modules -> Bindings],
     loading : SUBSET Modules, asked : Modules, reads : SUBSET Pairs]
ReplayFrames == [call : {"replay"}, mod : Modules, todo : Seq(Modules)]
ResolveFrames ==
    [call : {"resolve"}, mod : Modules, name : Names, todo : SUBSET Nat,
     stage : {"load", "lookup", "publish"}]
ForceFrames ==
    [call : {"force"}, mod : Modules, stage : {"load", "lookup", "collect", "name"},
     todo : SUBSET Nat, names : SUBSET Names]
Frames == EntryFrames \cup LoadFrames \cup ReplayFrames \cup ResolveFrames \cup ForceFrames

Errors == {"self", "missing", "duplicate", "recursive"}

ProgramOK ==
    /\ DOMAIN program = Modules
    /\ \A m \in Modules : program[m].decls \subseteq Names /\ program[m].imports \in Seq(Statement)

TypeOK ==
    /\ ProgramOK
    /\ package \in Packages
    /\ linker \in Linkers
    /\ stack \in Seq(Frames)
    /\ found \in BOOLEAN
    /\ result \in {"linking", "linked"} \cup Errors

-----------------------------------------------------------------------------
(* The stack. *)

\* The modules that each imports, and who depends on whom.
Uses == [m \in Modules |-> {s.mod : s \in ToSet(Imports(m))}]
Deps == {p \in Modules \X Modules : p[2] \in Depends(p[1])}

\* The pairs that a lookup leads to.
Looks == {p \in Pairs \X Pairs : p[2] \in Reached(Pairs, LookupEdges, p[1])}

\* What a frame has left to do is of its own module.
Fits(f) ==
    /\ f.call = "load" => \A r \in f.reads : r[1] \in Uses[f.mod]
    /\ f.call = "replay" =>
          f.mod \in DOMAIN package /\ ToSet(f.todo) \subseteq ToSet(package[f.mod].loads)
    /\ f.call = "resolve" =>
          /\ ~Declared(<<f.mod, f.name>>)
          /\ f.todo # {} /\ f.todo \subseteq PendingSources(f.mod, f.name)
    /\ f.call = "force" =>
          /\ f.todo \subseteq Wildcards(f.mod)
          /\ f.stage \in {"lookup", "collect"} => f.todo # {}
FitFrames == {f \in Frames : Fits(f)}

\* A lookup that waits for its source is below the lookup of that source.
Pair(f) == <<f.mod, f.name>>
SourceOf(f) == Source(f.mod, f.name, Min(f.todo))
Waits(f) == f.call = "resolve" /\ f.stage = "publish"
Follows ==
    {p \in FitFrames \X FitFrames :
        Waits(p[1]) => p[2].call = "resolve" /\ Pair(p[2]) = SourceOf(p[1])}

\* What a call has found loaded: the imports that a load is past, and what a
\* packaged module no longer has to load.
Passed(f, j) == j < f.at \/ (j = f.at /\ f.stage # "load")
Needs ==
    [f \in FitFrames |->
        IF f.call = "load"
        THEN {Imports(f.mod)[j].mod : j \in {j \in DOMAIN Imports(f.mod) : Passed(f, j)}}
        ELSE IF f.call = "replay" THEN ToSet(package[f.mod].loads) \ ToSet(f.todo)
        ELSE {}]

\* The entry is at the bottom.
Grounded(st) == \A i \in DOMAIN st : st[i].call = "entry" <=> i = 1

\* A call is for a module that those of the calls below depend on.
Chain(st, R) == \A i, j \in DOMAIN st : 1 < i /\ i < j => <<st[i].mod, st[j].mod>> \in R

\* Lookups above one another, with no other call in between, follow what is
\* looked up where.
Walk(st, R) ==
    \A i, j \in DOMAIN st :
        i <= j /\ (\A k \in i..j : st[k].call = "resolve") => <<Pair(st[i]), Pair(st[j])>> \in R

Linked(st, R) == \A i \in DOMAIN st : i + 1 \in DOMAIN st => <<st[i], st[i + 1]>> \in R

\* What holds of every program: the calls under way are ones the program makes,
\* the answer of a lookup is right when it is read, and a module that is
\* loading exports what it declares.
TypedAt(lk, st, fd) ==
    /\ lk \in Linkers
    /\ st \in Seq(FitFrames)
    /\ Linked(st, Follows)
    /\ st # <<>> /\ Waits(Last(st)) /\ fd =>
          SourceOf(Last(st))[2] \in DOMAIN lk.exports[SourceOf(Last(st))[1]]
    /\ \A m \in lk.pending : m \in lk.loaded /\ program[m].decls \subseteq DOMAIN lk.exports[m]

TypeInv ==
    /\ ProgramOK
    /\ package \in Packages
    /\ TypedAt(linker, stack, found)
    /\ found \in BOOLEAN
    /\ result \in {"linking", "linked"} \cup Errors

-----------------------------------------------------------------------------
(* What is loaded. *)

\* A module is loaded if it is hoisted or being loaded, and not both, and
\* being loaded by one call.
Held(st) == {i \in DOMAIN st : st[i].call \in {"load", "replay"}}
Apart(st, hoisted) ==
    /\ \A i, j \in Held(st) : st[i].mod = st[j].mod => i = j
    /\ \A i \in Held(st) : st[i].mod \notin hoisted
Accounted(st, hoisted, loaded) == loaded = hoisted \cup {st[i].mod : i \in Held(st)}

\* Each load under way has its list of what was asked for since it began.
Lists(st, loads, at, N, R) ==
    /\ at \in [1..Len(loads) -> DOMAIN st]
    /\ \A k, l \in 1..Len(loads) : k < l => at[k] < at[l]
    /\ \A i \in DOMAIN st : st[i].call = "load" <=> \E k \in 1..Len(loads) : at[k] = i
    /\ \A k \in 1..Len(loads) :
          /\ N[st[at[k]]] \subseteq ToSet(loads[k])
          /\ \A x \in ToSet(loads[k]) : <<st[at[k]].mod, x>> \in R
Listed(st, loads, N, R) == \E at \in [1..Len(loads) -> DOMAIN st] : Lists(st, loads, at, N, R)

\* A record loads what its module imports, and nothing it does not depend on.
Faithful(rs, U, R) ==
    \A m \in DOMAIN rs :
        /\ U[m] \subseteq ToSet(rs[m].loads)
        /\ \A x \in ToSet(rs[m].loads) : <<m, x>> \in R
        /\ rs[m].decls.mod = m

\* What is hoisted comes after what it uses, or with it.
Ordered(hs, U, R) ==
    \A i \in DOMAIN hs : \A x \in U[hs[i]] :
        (\E k \in DOMAIN hs : k < i /\ hs[k] = x) \/ <<x, hs[i]>> \in R

\* What holds where no lookup leads back to itself.
HoistedOf(lk) == [i \in DOMAIN lk.decls |-> lk.decls[i].mod]
OrderAt(lk, st, res) ==
    /\ res # "linking" => st = <<>>
    /\ Grounded(st) /\ Chain(st, Deps) /\ Walk(st, Looks)
    /\ Apart(st, ToSet(HoistedOf(lk)))
    /\ res \notin Errors => Accounted(st, ToSet(HoistedOf(lk)), lk.loaded)
    /\ \A i \in DOMAIN st : Needs[st[i]] \subseteq lk.loaded
    /\ res = "linking" /\ Recording => Listed(st, lk.loads, Needs, Deps)
    /\ ~Recording => lk.loads = <<>>
    /\ Faithful(lk.records, Uses, Deps)
    /\ IsInjective(HoistedOf(lk)) /\ Ordered(HoistedOf(lk), Uses, Deps)

OrderInv ==
    DirectLookups => Faithful(package, Uses, Deps) /\ OrderAt(linker, stack, result)

-----------------------------------------------------------------------------
(* Sequences and sets. *)

\* A set of numbers that has a member has a least one.
LEMMA MinFacts ==
    ASSUME NEW T \in SUBSET Nat, T # {}
    PROVE  Min(T) \in T /\ \A y \in T : Min(T) <= y
<1>. DEFINE Less == OpToRel(<, Nat)
<1>1. Less = {p \in Nat \X Nat : p[1] < p[2]}
  BY Zenon DEF OpToRel
<1>2. IsWellFoundedOn(Less, Nat)
  BY NatLessThanWellFounded
<1>. HIDE DEF Less
<1>3. PICK x \in T : \A y \in T : ~(<<y, x>> \in Less)
  BY <1>2, WFMin
<1>4. \A y \in T : x <= y
  <2>. TAKE y \in T
  <2>1. x \in Nat /\ y \in Nat
    OBVIOUS
  <2>2. y < x => <<y, x>> \in Less
    BY <1>1, <2>1
  <2>. QED
    BY <1>3, <2>1, <2>2
<1>. QED
  BY <1>4, Zenon DEF Min

\* And, if it is bounded, a greatest one.
LEMMA MaxFacts ==
    ASSUME NEW n \in Nat, NEW T \in SUBSET (1..n), T # {}
    PROVE  Max(T) \in T
<1>. DEFINE U == {n - t : t \in T}
<1>1. U \in SUBSET Nat /\ U # {}
  OBVIOUS
<1>2. Min(U) \in U /\ \A y \in U : Min(U) <= y
  BY <1>1, MinFacts
<1>3. PICK x \in T : Min(U) = n - x
  BY <1>2
<1>4. \A y \in T : x >= y
  <2>. TAKE y \in T
  <2>1. n - x <= n - y
    BY <1>2, <1>3
  <2>. QED
    BY <2>1
<1>. QED
  BY <1>4, Zenon DEF Max

\* Sequences over a set are sequences over a larger one.
LEMMA SeqMono ==
    ASSUME NEW X, NEW Y, X \subseteq Y
    PROVE  Seq(X) \subseteq Seq(Y)
<1>. SUFFICES ASSUME NEW s \in Seq(X) PROVE s \in Seq(Y)
  OBVIOUS
<1>1. s \in [1..Len(s) -> X] /\ Len(s) \in Nat
  OBVIOUS
<1>2. s \in [1..Len(s) -> Y]
  BY <1>1
<1>. QED
  BY <1>1, <1>2

\* The members of a sequence.
LEMMA MembersFacts ==
    ASSUME NEW X, NEW s \in Seq(X)
    PROVE  /\ DOMAIN s = 1..Len(s) /\ Len(s) \in Nat
           /\ ToSet(s) \subseteq X
           /\ \A i \in DOMAIN s : s[i] \in ToSet(s)
           /\ \A x \in ToSet(s) : \E i \in DOMAIN s : s[i] = x
BY DEF ToSet

\* What is left to do, and what is done first.
LEMMA HeadFacts ==
    ASSUME NEW X, NEW q \in Seq(X), q # <<>>
    PROVE  Head(q) \in X /\ Tail(q) \in Seq(X) /\ ToSet(q) = ToSet(Tail(q)) \cup {Head(q)}
<1>1. /\ Len(q) \in Nat \ {0} /\ DOMAIN q = 1..Len(q) /\ Head(q) = q[1] /\ q[1] \in X
      /\ Tail(q) \in Seq(X) /\ Len(Tail(q)) = Len(q) - 1 /\ DOMAIN Tail(q) = 1..(Len(q) - 1)
      /\ \A i \in 1..(Len(q) - 1) : Tail(q)[i] = q[i + 1]
  OBVIOUS
<1>2. ToSet(Tail(q)) \cup {Head(q)} \subseteq ToSet(q)
  BY <1>1 DEF ToSet
<1>3. ASSUME NEW y \in ToSet(q) PROVE y \in ToSet(Tail(q)) \cup {Head(q)}
  <2>1. PICK i \in DOMAIN q : q[i] = y
    BY MembersFacts
  <2>2. CASE i = 1
    BY <1>1, <2>1, <2>2
  <2>3. CASE i # 1
    <3>1. i - 1 \in 1..(Len(q) - 1) /\ (i - 1) + 1 = i
      BY <1>1, <2>1, <2>3
    <3>2. Tail(q)[i - 1] = y
      BY <1>1, <2>1, <3>1
    <3>. QED
      BY <1>1, <3>1, <3>2, MembersFacts
  <2>. QED
    BY <2>2, <2>3
<1>. QED
  BY <1>1, <1>2, <1>3

\* What an element added at the end adds.
LEMMA PushFacts ==
    ASSUME NEW X, NEW s \in Seq(X), NEW x \in X
    PROVE  /\ Append(s, x) \in Seq(X)
           /\ DOMAIN s = 1..Len(s) /\ Len(s) \in Nat
           /\ DOMAIN Append(s, x) = 1..(Len(s) + 1)
           /\ Len(Append(s, x)) = Len(s) + 1
           /\ \A i \in 1..Len(s) : Append(s, x)[i] = s[i]
           /\ Append(s, x)[Len(s) + 1] = x
           /\ Last(Append(s, x)) = x
           /\ Append(s, x) # <<>>
           /\ ToSet(Append(s, x)) = ToSet(s) \cup {x}
<1>1. /\ Append(s, x) \in Seq(X)
      /\ Len(Append(s, x)) = Len(s) + 1
      /\ \A i \in 1..Len(s) : Append(s, x)[i] = s[i]
      /\ Append(s, x)[Len(s) + 1] = x
      /\ DOMAIN s = 1..Len(s) /\ Len(s) \in Nat
  OBVIOUS
<1>2. /\ DOMAIN Append(s, x) = 1..(Len(s) + 1)
      /\ 1..(Len(s) + 1) = 1..Len(s) \cup {Len(s) + 1}
      /\ Append(s, x) # <<>>
  BY <1>1
<1>3. ToSet(Append(s, x)) = ToSet(s) \cup {x}
  BY <1>1, <1>2 DEF ToSet
<1>4. Last(Append(s, x)) = x
  BY <1>1 DEF Last
<1>. QED
  BY <1>1, <1>2, <1>3, <1>4

\* What is left without the last element.
LEMMA PopFacts ==
    ASSUME NEW X, NEW s \in Seq(X), s # <<>>
    PROVE  /\ Len(s) \in Nat \ {0} /\ DOMAIN s = 1..Len(s)
           /\ Front(s) \in Seq(X)
           /\ Len(Front(s)) = Len(s) - 1
           /\ DOMAIN Front(s) = 1..(Len(s) - 1)
           /\ \A i \in 1..(Len(s) - 1) : Front(s)[i] = s[i]
           /\ Last(s) = s[Len(s)] /\ Last(s) \in X /\ Len(s) \in DOMAIN s
<1>1. Len(s) \in Nat \ {0} /\ DOMAIN s = 1..Len(s)
  OBVIOUS
<1>2. /\ Front(s) \in Seq(X)
      /\ Len(Front(s)) = Len(s) - 1
      /\ \A i \in 1..(Len(s) - 1) : Front(s)[i] = s[i]
  BY <1>1 DEF Front
<1>3. Last(s) = s[Len(s)] /\ Last(s) \in X
  BY <1>1 DEF Last
<1>4. DOMAIN Front(s) = 1..(Len(s) - 1)
  BY <1>1, <1>2
<1>. QED
  BY <1>1, <1>2, <1>3, <1>4

\* A last element replaced.
LEMMA PutFacts ==
    ASSUME NEW X, NEW s \in Seq(X), s # <<>>, NEW x \in X
    PROVE  LET t == [s EXCEPT ![Len(s)] = x]
           IN  /\ t \in Seq(X) /\ t # <<>>
               /\ Len(s) \in Nat \ {0} /\ DOMAIN s = 1..Len(s)
               /\ Len(t) = Len(s) /\ DOMAIN t = DOMAIN s
               /\ \A i \in 1..(Len(s) - 1) : t[i] = s[i]
               /\ t[Len(s)] = x /\ Last(t) = x
<1>. DEFINE t == [s EXCEPT ![Len(s)] = x]
<1>1. Len(s) \in Nat \ {0} /\ DOMAIN s = 1..Len(s)
  OBVIOUS
<1>2. t \in Seq(X) /\ Len(t) = Len(s) /\ DOMAIN t = DOMAIN s
  BY <1>1
<1>. DEFINE n == Len(s)
<1>3. t[n] = x /\ \A i \in 1..(n - 1) : t[i] = s[i]
  <2>1. t = [i \in 1..n |-> IF i = n THEN x ELSE s[i]]
    BY <1>1
  <2>2. n \in Nat \ {0}
    BY <1>1
  <2>. HIDE DEF t, n
  <2>. QED
    BY <2>1, <2>2
<1>4. t # <<>>
  BY <1>1, <1>2
<1>. HIDE DEF t
<1>5. Last(t) = x
  BY <1>2, <1>3 DEF Last
<1>. QED
  BY <1>1, <1>2, <1>3, <1>4, <1>5 DEF t

-----------------------------------------------------------------------------
(* What is reached. *)

\* A node reaches itself, what its edges lead to, and what that reaches.
LEMMA ReachedFacts ==
    ASSUME NEW nodes, NEW edges
    PROVE  /\ \A x \in nodes : x \in Reached(nodes, edges, x)
           /\ \A x, y, z \in nodes :
                 y \in Reached(nodes, edges, x) /\ z \in Reached(nodes, edges, y)
                 => z \in Reached(nodes, edges, x)
           /\ \A x, y \in nodes : <<x, y>> \in edges => y \in Reached(nodes, edges, x)
BY DEF Reached, Closed

-----------------------------------------------------------------------------
(* What the program says does not change. *)

\* The operators on the program, as long as it is the same.
LEMMA SameProgram ==
    ASSUME program' = program
    PROVE  /\ Uses' = Uses
           /\ Deps' = Deps
           /\ Looks' = Looks
           /\ DirectLookups' = DirectLookups
           /\ ProgramOK' = ProgramOK
<1>1. Uses' = Uses
  BY DEF Uses, Imports
<1>2. ImportEdges' = ImportEdges
  BY DEF ImportEdges, Statements, Imports
<1>3. Deps' = Deps
  BY <1>2 DEF Deps, Depends
<1>4. LookupEdges' = LookupEdges
  BY DEF LookupEdges, Declared, PendingSources, Source, Named, Wildcards, Imports
<1>5. Looks' = Looks
  BY <1>4 DEF Looks
<1>6. DirectLookups' = DirectLookups
  BY <1>4 DEF DirectLookups
<1>7. ProgramOK' = ProgramOK
  BY DEF ProgramOK
<1>. QED
  BY <1>1, <1>3, <1>5, <1>6, <1>7

\* What is asked of a frame, as long as the program and the package are.
LEMMA SameFrames ==
    ASSUME program' = program, package' = package
    PROVE  /\ FitFrames' = FitFrames
           /\ Follows' = Follows
           /\ Needs' = Needs
<1>1. ASSUME NEW f PROVE Fits(f)' = Fits(f)
  <2>1. Uses' = Uses
    BY SameProgram
  <2>. QED
    BY <2>1, Zenon DEF Fits, Declared, PendingSources, Named, Wildcards, Imports
<1>2. FitFrames' = FitFrames
  BY <1>1 DEF FitFrames
<1>3. ASSUME NEW f PROVE SourceOf(f)' = SourceOf(f)
  BY DEF SourceOf, Source, Imports
<1>4. Follows' = Follows
  BY <1>2, <1>3 DEF Follows
<1>5. Needs' = Needs
  BY <1>2 DEF Needs, Imports
<1>. QED
  BY <1>2, <1>4, <1>5

\* Dependence is reflexive and transitive, and a module depends on what it
\* imports.
LEMMA DepsFacts ==
    ASSUME ProgramOK
    PROVE  /\ \A x \in Modules : <<x, x>> \in Deps
           /\ \A x, y, z \in Modules : <<x, y>> \in Deps /\ <<y, z>> \in Deps => <<x, z>> \in Deps
           /\ \A x \in Modules : \A y \in Uses[x] : y \in Modules /\ <<x, y>> \in Deps
<1>1. ASSUME NEW x \in Modules, NEW y \in Uses[x] PROVE y \in Modules /\ <<x, y>> \in ImportEdges
  <2>. PICK s \in ToSet(Imports(x)) : y = s.mod
    BY DEF Uses
  <2>1. s \in Statement
    BY MembersFacts DEF ProgramOK, Imports
  <2>2. <<x, s>> \in Statements
    BY DEF Statements
  <2>3. <<x, y>> \in ImportEdges
    BY <2>2 DEF ImportEdges
  <2>. QED
    BY <2>1, <2>3 DEF Statement
<1>. QED
  BY <1>1, ReachedFacts DEF Deps, Depends

\* So is leading to a lookup; and where no lookup leads back to itself, none
\* that is led to leads back.
LEMMA LooksFacts ==
    /\ \A x \in Pairs : <<x, x>> \in Looks
    /\ \A x, y, z \in Pairs : <<x, y>> \in Looks /\ <<y, z>> \in Looks => <<x, z>> \in Looks
    /\ \A x, y \in Pairs : <<x, y>> \in LookupEdges => <<x, y>> \in Looks
    /\ DirectLookups =>
          \A x, y \in Pairs : <<x, y>> \in LookupEdges => <<y, x>> \notin Looks
BY ReachedFacts DEF Looks, DirectLookups, Acyclic

\* What an import says is of modules and names.
LEMMA ImportFacts ==
    ASSUME ProgramOK, NEW m \in Modules
    PROVE  /\ Imports(m) \in Seq(Statement)
           /\ DOMAIN Imports(m) = 1..Len(Imports(m)) /\ Len(Imports(m)) \in Nat
           /\ \A i \in DOMAIN Imports(m) :
                 /\ Imports(m)[i] \in Statement
                 /\ Imports(m)[i].mod \in Modules
                 /\ Imports(m)[i].mod \in Uses[m]
                 /\ Imports(m)[i].kind = "from" => Imports(m)[i].name \in Names /\ Imports(m)[i].as \in Names
                 /\ Imports(m)[i].kind = "import" => Imports(m)[i].read \in Names
<1>1. Imports(m) \in Seq(Statement)
  BY DEF ProgramOK, Imports
<1>2. ASSUME NEW i \in DOMAIN Imports(m)
      PROVE  Imports(m)[i] \in Statement /\ Imports(m)[i].mod \in Uses[m]
  <2>1. Imports(m)[i] \in Statement /\ Imports(m)[i] \in ToSet(Imports(m))
    BY <1>1, MembersFacts
  <2>. QED
    BY <2>1 DEF Uses
<1>3. ASSUME NEW s \in Statement
      PROVE  /\ s.mod \in Modules
             /\ s.kind = "from" => s.name \in Names /\ s.as \in Names
             /\ s.kind = "import" => s.read \in Names
  BY DEF Statement
<1>. QED
  BY <1>1, <1>2, <1>3

\* A pending lookup looks where its module imports from.
LEMMA SourceFacts ==
    ASSUME ProgramOK, NEW m \in Modules, NEW n \in Names, NEW i \in PendingSources(m, n)
    PROVE  /\ i \in DOMAIN Imports(m)
           /\ Source(m, n, i) \in Pairs
           /\ Source(m, n, i)[1] \in Uses[m]
           /\ ~Declared(<<m, n>>) => <<<<m, n>>, Source(m, n, i)>> \in LookupEdges
<1>1. i \in DOMAIN Imports(m)
  <2>1. CASE Named(m, n) # {}
    <3>1. Named(m, n) \subseteq 1..Len(Imports(m)) /\ Len(Imports(m)) \in Nat
      BY ImportFacts DEF Named
    <3>2. Max(Named(m, n)) \in Named(m, n)
      BY <2>1, <3>1, MaxFacts
    <3>. QED
      BY <2>1, <3>2 DEF PendingSources, Named
  <2>2. CASE Named(m, n) = {}
    BY <2>2 DEF PendingSources, Wildcards
  <2>. QED
    BY <2>1, <2>2
<1>2. Source(m, n, i) \in Pairs /\ Source(m, n, i)[1] \in Uses[m]
  BY <1>1, ImportFacts DEF Source, Pairs
<1>3. ASSUME ~Declared(<<m, n>>) PROVE <<<<m, n>>, Source(m, n, i)>> \in LookupEdges
  <2>1. <<m, n>> \in {p \in Pairs : ~Declared(p)}
    BY <1>3 DEF Pairs
  <2>2. <<m, n>>[1] = m /\ <<m, n>>[2] = n
    OBVIOUS
  <2>. QED
    BY <2>1, <2>2 DEF LookupEdges
<1>. QED
  BY <1>1, <1>2, <1>3

\* The sources of a lookup are positions.
LEMMA SourcesTyped ==
    ASSUME ProgramOK, NEW m \in Modules, NEW n \in Names
    PROVE  PendingSources(m, n) \in SUBSET Nat
<1>1. DOMAIN Imports(m) \subseteq Nat
  BY ImportFacts
<1>. QED
  BY <1>1, SourceFacts

\* Wildcards are imports.
LEMMA WildcardFacts ==
    ASSUME ProgramOK, NEW m \in Modules
    PROVE  /\ Wildcards(m) \in SUBSET Nat
           /\ \A i \in Wildcards(m) : Imports(m)[i].mod \in Modules /\ Imports(m)[i].mod \in Uses[m]
BY ImportFacts DEF Wildcards

-----------------------------------------------------------------------------
(* Frames. *)

\* A frame's fields, by its call.
LEMMA FrameFacts ==
    ASSUME NEW f \in FitFrames
    PROVE  /\ Fits(f)
           /\ f.call \in {"entry", "load", "replay", "resolve", "force"}
           /\ f.call = "entry" <=> f \in EntryFrames
           /\ f.call = "load" <=> f \in LoadFrames
           /\ f.call = "replay" <=> f \in ReplayFrames
           /\ f.call = "resolve" <=> f \in ResolveFrames
           /\ f.call = "force" <=> f \in ForceFrames
           /\ f.call # "entry" => f.mod \in Modules
BY DEF FitFrames, Frames, EntryFrames, LoadFrames, ReplayFrames, ResolveFrames, ForceFrames

\* The frame of the entry.
LEMMA EntryFits ==
    ASSUME NEW todo \in Seq(Modules)
    PROVE  EntryFrame(todo) \in FitFrames
BY DEF EntryFrame, FitFrames, Frames, EntryFrames, Fits

\* The empty function binds nothing.
LEMMA NoBindings == <<>> \in Bindings /\ DOMAIN <<>> = {}
<1>1. <<>> \in [{} -> Pairs] /\ DOMAIN <<>> = {}
  OBVIOUS
<1>. QED
  BY <1>1 DEF Bindings

\* The frame of a load.
LEMMA LoadFits ==
    ASSUME ProgramOK, NEW m \in Modules
    PROVE  LoadFrame(m) \in FitFrames /\ LoadFrame(m).call = "load" /\ LoadFrame(m).mod = m
<1>. DEFINE reads == {<<s.mod, s.read>> : s \in {s \in ToSet(Imports(m)) : s.kind = "import"}}
<1>1. reads \in SUBSET Pairs /\ \A r \in reads : r[1] \in Uses[m]
  <2>. SUFFICES ASSUME NEW s \in ToSet(Imports(m)), s.kind = "import"
                PROVE  <<s.mod, s.read>> \in Pairs /\ s.mod \in Uses[m]
    OBVIOUS
  <2>1. PICK i \in DOMAIN Imports(m) : Imports(m)[i] = s
    BY ImportFacts, MembersFacts
  <2>. QED
    BY <2>1, ImportFacts DEF Pairs
<1>. HIDE DEF reads
<1>2. LoadFrame(m) =
        [call |-> "load", mod |-> m, at |-> 1, stage |-> "load", bindings |-> <<>>, explicit |-> {},
         members |-> [x \in Modules |-> <<>>], loading |-> {}, asked |-> m, reads |-> reads]
  BY DEF LoadFrame, reads
<1>3. LoadFrame(m) \in LoadFrames
  BY <1>1, <1>2, NoBindings DEF LoadFrames
<1>4. LoadFrame(m).call = "load" /\ LoadFrame(m).mod = m /\ LoadFrame(m).reads = reads
  BY <1>2
<1>5. Fits(LoadFrame(m))
  BY <1>1, <1>4 DEF Fits
<1>. QED
  BY <1>3, <1>4, <1>5 DEF FitFrames, Frames

\* The frame of a packaged load.
LEMMA ReplayFits ==
    ASSUME package \in Packages, NEW m \in DOMAIN package
    PROVE  /\ ReplayFrame(m) \in FitFrames /\ ReplayFrame(m).call = "replay"
           /\ ReplayFrame(m).mod = m /\ ReplayFrame(m).todo = package[m].loads
           /\ m \in Modules /\ package[m] \in Records
<1>1. m \in Modules /\ package[m] \in Records
  BY DEF Packages
<1>2. ReplayFrame(m) \in ReplayFrames
  BY <1>1 DEF ReplayFrame, ReplayFrames, Records
<1>. QED
  BY <1>1, <1>2 DEF ReplayFrame, FitFrames, Frames, Fits

\* The frame of a lookup.
LEMMA ResolveFits ==
    ASSUME ProgramOK, NEW m \in Modules, NEW n \in Names,
           ~Declared(<<m, n>>), PendingSources(m, n) # {}
    PROVE  /\ ResolveFrame(m, n) \in FitFrames /\ ResolveFrame(m, n).call = "resolve"
           /\ Pair(ResolveFrame(m, n)) = <<m, n>> /\ ResolveFrame(m, n).mod = m
           /\ ~Waits(ResolveFrame(m, n))
<1>1. ResolveFrame(m, n) \in ResolveFrames
  BY SourcesTyped DEF ResolveFrame, ResolveFrames
<1>. QED
  BY <1>1 DEF ResolveFrame, FitFrames, Frames, Fits, Pair, Waits

\* The frame of a forced module.
LEMMA ForceFits ==
    ASSUME ProgramOK, NEW m \in Modules
    PROVE  ForceFrame(m) \in FitFrames /\ ForceFrame(m).call = "force" /\ ForceFrame(m).mod = m
<1>1. ForceFrame(m) \in ForceFrames
  BY WildcardFacts DEF ForceFrame, ForceFrames
<1>. QED
  BY <1>1 DEF ForceFrame, FitFrames, Frames, Fits

-----------------------------------------------------------------------------
(* Stacks. *)

\* Two frames of one call.
Same(f, g) ==
    /\ f.call = g.call
    /\ f.call # "entry" => f.mod = g.mod
    /\ f.call = "resolve" => f.name = g.name
Alike(t, st) == DOMAIN t = DOMAIN st /\ \A i \in DOMAIN st : Same(t[i], st[i])

\* What is kept when the calls of a stack go on.
LEMMA AlikeShape ==
    ASSUME NEW X, NEW st \in Seq(X), NEW t \in Seq(X), Alike(t, st), Grounded(st)
    PROVE  /\ Grounded(t)
           /\ \A R : Chain(st, R) => Chain(t, R)
           /\ \A R : Walk(st, R) => Walk(t, R)
<1>. DOMAIN st = 1..Len(st) /\ Len(st) \in Nat
  OBVIOUS
<1>1. DOMAIN t = DOMAIN st /\ \A i \in DOMAIN st : t[i].call = st[i].call
  BY DEF Alike, Same
<1>2. Grounded(t)
  BY <1>1 DEF Grounded
<1>3. \A i \in DOMAIN st : i # 1 => t[i].mod = st[i].mod
  BY DEF Alike, Same, Grounded
<1>4. \A i \in DOMAIN st : st[i].call = "resolve" => Pair(t[i]) = Pair(st[i])
  BY DEF Alike, Same, Pair
<1>5. ASSUME NEW R, Chain(st, R) PROVE Chain(t, R)
  BY <1>1, <1>3, <1>5 DEF Chain
<1>6. ASSUME NEW R, Walk(st, R) PROVE Walk(t, R)
  <2>. SUFFICES ASSUME NEW i \in DOMAIN st, NEW j \in DOMAIN st, i <= j,
                       \A k \in i..j : t[k].call = "resolve"
                PROVE  <<Pair(t[i]), Pair(t[j])>> \in R
    BY <1>1 DEF Walk
  <2>1. \A k \in i..j : k \in DOMAIN st
    OBVIOUS
  <2>2. \A k \in i..j : st[k].call = "resolve"
    BY <1>1, <2>1
  <2>3. <<Pair(st[i]), Pair(st[j])>> \in R
    BY <1>6, <2>2 DEF Walk
  <2>4. i \in i..j /\ j \in i..j
    OBVIOUS
  <2>. QED
    BY <1>4, <2>2, <2>3, <2>4
<1>. QED
  BY <1>2, <1>5, <1>6

\* And of what is loaded.
LEMMA AlikeLoaded ==
    ASSUME NEW X, NEW st \in Seq(X), NEW t \in Seq(X), Alike(t, st)
    PROVE  /\ Held(t) = Held(st)
           /\ \A i \in Held(st) : t[i].mod = st[i].mod
           /\ {t[i].mod : i \in Held(t)} = {st[i].mod : i \in Held(st)}
           /\ \A hs : Apart(st, hs) => Apart(t, hs)
           /\ \A hs, ld : Accounted(st, hs, ld) => Accounted(t, hs, ld)
<1>1. Held(t) = Held(st)
  BY DEF Alike, Same, Held
<1>2. \A i \in Held(st) : t[i].mod = st[i].mod
  BY DEF Alike, Same, Held
<1>3. {t[i].mod : i \in Held(t)} = {st[i].mod : i \in Held(st)}
  BY <1>1, <1>2
<1>4. \A hs : Apart(st, hs) => Apart(t, hs)
  BY <1>1, <1>2 DEF Apart
<1>5. \A hs, ld : Accounted(st, hs, ld) => Accounted(t, hs, ld)
  BY <1>3 DEF Accounted
<1>. QED
  BY <1>1, <1>2, <1>3, <1>4, <1>5

\* A call on top of the others.
LEMMA PushShape ==
    ASSUME NEW X, NEW st \in Seq(X), st # <<>>, NEW g \in X, g.call # "entry", Grounded(st)
    PROVE  /\ Grounded(Append(st, g))
           /\ \A R : /\ Chain(st, R)
                     /\ \A i \in DOMAIN st : 1 < i => <<st[i].mod, g.mod>> \in R
                     => Chain(Append(st, g), R)
           /\ \A R : /\ Walk(st, R)
                     /\ g.call = "resolve" => <<Pair(g), Pair(g)>> \in R
                     /\ g.call = "resolve" =>
                           \A i \in DOMAIN st :
                              (\A k \in i..Len(st) : st[k].call = "resolve")
                              => <<Pair(st[i]), Pair(g)>> \in R
                     => Walk(Append(st, g), R)
<1>. DEFINE t == Append(st, g)
            n == Len(st)
<1>1. /\ DOMAIN st = 1..n /\ n \in Nat /\ n # 0 /\ DOMAIN t = 1..(n + 1)
      /\ \A i \in 1..n : t[i] = st[i]
      /\ t[n + 1] = g
  BY PushFacts
<1>. HIDE DEF t, n
<1>2. Grounded(t)
  BY <1>1 DEF Grounded
<1>3. ASSUME NEW R, Chain(st, R), \A i \in DOMAIN st : 1 < i => <<st[i].mod, g.mod>> \in R
      PROVE  Chain(t, R)
  BY <1>1, <1>3 DEF Chain
<1>4. ASSUME NEW R, Walk(st, R),
             g.call = "resolve" => <<Pair(g), Pair(g)>> \in R,
             g.call = "resolve" =>
                \A i \in DOMAIN st :
                    (\A k \in i..Len(st) : st[k].call = "resolve") => <<Pair(st[i]), Pair(g)>> \in R
      PROVE  Walk(t, R)
  <2>. SUFFICES ASSUME NEW i \in DOMAIN t, NEW j \in DOMAIN t, i <= j,
                       \A k \in i..j : t[k].call = "resolve"
                PROVE  <<Pair(t[i]), Pair(t[j])>> \in R
    BY DEF Walk
  <2>1. CASE j = n + 1 /\ i = n + 1
    <3>1. t[j].call = "resolve"
      BY <1>1, <2>1
    <3>. QED
      BY <1>1, <1>4, <2>1, <3>1
  <2>2. CASE j = n + 1 /\ i \in 1..n
    <3>1. g.call = "resolve" /\ \A k \in i..n : st[k].call = "resolve"
      BY <1>1, <2>2
    <3>. QED
      BY <1>1, <1>4, <2>2, <3>1 DEF n
  <2>3. CASE j \in 1..n
    <3>1. i \in 1..n /\ \A k \in i..j : k \in 1..n
      BY <1>1, <2>3
    <3>2. \A k \in i..j : st[k].call = "resolve"
      BY <1>1, <3>1
    <3>. QED
      BY <1>1, <1>4, <2>3, <3>1, <3>2 DEF Walk
  <2>. QED
    BY <1>1, <2>1, <2>2, <2>3
<1>. QED
  BY <1>2, <1>3, <1>4 DEF t, n

\* And the call on top gone.
LEMMA PopShape ==
    ASSUME NEW X, NEW st \in Seq(X), st # <<>>
    PROVE  /\ Grounded(st) => Grounded(Front(st))
           /\ \A R : Chain(st, R) => Chain(Front(st), R)
           /\ \A R : Walk(st, R) => Walk(Front(st), R)
           /\ \A R : Linked(st, R) => Linked(Front(st), R)
<1>. DEFINE t == Front(st)
            n == Len(st)
<1>1. /\ DOMAIN st = 1..n /\ n \in Nat /\ n # 0 /\ DOMAIN t = 1..(n - 1)
      /\ \A i \in 1..(n - 1) : t[i] = st[i]
  BY PopFacts
<1>. HIDE DEF t, n
<1>2. Grounded(st) => Grounded(t)
  BY <1>1 DEF Grounded
<1>3. ASSUME NEW R, Chain(st, R) PROVE  Chain(t, R)
  BY <1>1, <1>3 DEF Chain
<1>4. ASSUME NEW R, Walk(st, R) PROVE  Walk(t, R)
  <2>. SUFFICES ASSUME NEW i \in DOMAIN t, NEW j \in DOMAIN t, i <= j,
                       \A k \in i..j : t[k].call = "resolve"
                PROVE  <<Pair(t[i]), Pair(t[j])>> \in R
    BY DEF Walk
  <2>1. i \in 1..n /\ j \in 1..n /\ \A k \in i..j : k \in 1..(n - 1)
    BY <1>1
  <2>2. \A k \in i..j : st[k].call = "resolve"
    BY <1>1, <2>1
  <2>. QED
    BY <1>1, <1>4, <2>1, <2>2 DEF Walk
<1>5. ASSUME NEW R, Linked(st, R) PROVE  Linked(t, R)
  BY <1>1, <1>5 DEF Linked
<1>. QED
  BY <1>2, <1>3, <1>4, <1>5 DEF t, n

\* What a call on top loads.
LEMMA PushLoaded ==
    ASSUME NEW X, NEW st \in Seq(X), NEW g \in X, NEW hs, NEW ld,
           Apart(st, hs), Accounted(st, hs, ld)
    PROVE  LET t == Append(st, g)
           IN  /\ g.call \notin {"load", "replay"} => Apart(t, hs) /\ Accounted(t, hs, ld)
               /\ g.call \in {"load", "replay"} /\ g.mod \notin ld =>
                     Apart(t, hs) /\ Accounted(t, hs, ld \cup {g.mod})
<1>. DEFINE t == Append(st, g)
            n == Len(st)
<1>1. /\ DOMAIN st = 1..n /\ n \in Nat /\ DOMAIN t = 1..(n + 1)
      /\ \A i \in 1..n : t[i] = st[i]
      /\ t[n + 1] = g
  BY PushFacts
<1>. HIDE DEF t, n
<1>2. \A i \in Held(st) : i \in 1..n /\ i # n + 1 /\ i \in Held(t) /\ t[i] = st[i]
  BY <1>1 DEF Held
<1>3. CASE g.call \notin {"load", "replay"}
  <2>1. Held(t) = Held(st)
    BY <1>1, <1>3 DEF Held
  <2>2. {t[i].mod : i \in Held(t)} = {st[i].mod : i \in Held(st)}
    BY <1>2, <2>1
  <2>. QED
    BY <1>2, <1>3, <2>1, <2>2 DEF Apart, Accounted, t
<1>4. CASE g.call \in {"load", "replay"} /\ g.mod \notin ld
  <2>1. Held(t) = Held(st) \cup {n + 1}
    BY <1>1, <1>4 DEF Held
  <2>2. {t[i].mod : i \in Held(t)} = {st[i].mod : i \in Held(st)} \cup {g.mod}
    BY <1>1, <1>2, <2>1
  <2>3. Accounted(t, hs, ld \cup {g.mod})
    BY <2>2 DEF Accounted
  <2>4. g.mod \notin hs /\ \A i \in Held(st) : st[i].mod # g.mod
    BY <1>4 DEF Accounted
  <2>5. Apart(t, hs)
    BY <1>1, <1>2, <2>1, <2>4 DEF Apart
  <2>. QED
    BY <1>4, <2>3, <2>5 DEF t
<1>. QED
  BY <1>3, <1>4 DEF t

\* And the call on top gone, its module hoisted if it was a load.
LEMMA PopLoaded ==
    ASSUME NEW X, NEW st \in Seq(X), st # <<>>, NEW hs, Apart(st, hs)
    PROVE  /\ Last(st).call \notin {"load", "replay"} =>
                 /\ Apart(Front(st), hs)
                 /\ \A ld : Accounted(st, hs, ld) => Accounted(Front(st), hs, ld)
           /\ Last(st).call \in {"load", "replay"} =>
                 /\ Last(st).mod \notin hs
                 /\ Apart(Front(st), hs \cup {Last(st).mod})
                 /\ \A ld : Accounted(st, hs, ld) =>
                        Accounted(Front(st), hs \cup {Last(st).mod}, ld)
<1>. DEFINE t == Front(st)
            n == Len(st)
            g == Last(st)
<1>1. /\ DOMAIN st = 1..n /\ n \in Nat /\ n # 0 /\ DOMAIN t = 1..(n - 1)
      /\ \A i \in 1..(n - 1) : t[i] = st[i]
      /\ g = st[n]
  BY PopFacts
<1>. HIDE DEF t, n, g
<1>2. \A i \in Held(t) : i \in 1..n /\ i # n /\ i \in Held(st) /\ t[i] = st[i]
  BY <1>1 DEF Held
<1>3. \A i \in Held(st) : i # n => i \in Held(t)
  BY <1>1 DEF Held
<1>4. CASE g.call \notin {"load", "replay"}
  <2>1. Held(t) = Held(st)
    BY <1>1, <1>2, <1>3, <1>4 DEF Held
  <2>2. {t[i].mod : i \in Held(t)} = {st[i].mod : i \in Held(st)}
    BY <1>2, <2>1
  <2>. QED
    BY <1>2, <1>4, <2>1, <2>2 DEF Apart, Accounted, t, g
<1>5. CASE g.call \in {"load", "replay"}
  <2>1. n \in Held(st) /\ Held(st) = Held(t) \cup {n}
    BY <1>1, <1>2, <1>3, <1>5 DEF Held
  <2>2. {st[i].mod : i \in Held(st)} = {t[i].mod : i \in Held(t)} \cup {g.mod}
    BY <1>1, <1>2, <2>1
  <2>3. ASSUME NEW ld, Accounted(st, hs, ld) PROVE Accounted(t, hs \cup {g.mod}, ld)
    BY <2>2, <2>3 DEF Accounted
  <2>4. g.mod \notin hs /\ \A i \in Held(t) : t[i].mod # g.mod
    BY <1>1, <1>2, <2>1 DEF Apart
  <2>5. Apart(t, hs \cup {g.mod})
    BY <1>2, <2>1, <2>4 DEF Apart
  <2>. QED
    BY <1>5, <2>3, <2>4, <2>5 DEF t, g
<1>. QED
  BY <1>4, <1>5 DEF t, g

-----------------------------------------------------------------------------
(* The lists of what is asked for. *)

\* The calls of the stack go on, and the last of them asks for x.
LEMMA ListsAsk ==
    ASSUME NEW X, NEW st \in Seq(X), st # <<>>, NEW t \in Seq(X), Alike(t, st), Grounded(st),
           NEW loads \in Seq(Seq(Modules)), NEW N, NEW R, NEW x \in Modules,
           Listed(st, loads, N, R), loads # <<>>,
           \A i \in DOMAIN st : i # Len(st) => N[t[i]] \subseteq N[st[i]],
           N[Last(t)] \subseteq N[Last(st)] \cup {x},
           \A i \in DOMAIN st : 1 < i => <<st[i].mod, x>> \in R
    PROVE  Listed(t, [loads EXCEPT ![Len(loads)] = Append(@, x)], N, R)
<1>. DEFINE n == Len(loads)
            new == [loads EXCEPT ![Len(loads)] = Append(@, x)]
<1>1. /\ n \in Nat \ {0} /\ DOMAIN loads = 1..n /\ \A k \in 1..n : loads[k] \in Seq(Modules)
      /\ DOMAIN st = 1..Len(st) /\ Len(st) \in Nat \ {0} /\ DOMAIN t = DOMAIN st
      /\ Len(t) = Len(st)
  BY DEF Alike
<1>2. Append(loads[n], x) \in Seq(Modules) /\ ToSet(Append(loads[n], x)) = ToSet(loads[n]) \cup {x}
  BY <1>1, PushFacts
<1>3. /\ Len(new) = n /\ new[n] = Append(loads[n], x)
      /\ \A k \in 1..(n - 1) : new[k] = loads[k]
  <2>1. new = [loads EXCEPT ![Len(loads)] = Append(loads[n], x)]
    BY <1>1
  <2>. DEFINE y == Append(loads[n], x)
  <2>2. y \in Seq(Modules)
    BY <1>2
  <2>. HIDE DEF y
  <2>3. /\ Len([loads EXCEPT ![Len(loads)] = y]) = Len(loads)
        /\ [loads EXCEPT ![Len(loads)] = y][Len(loads)] = y
        /\ \A k \in 1..(Len(loads) - 1) : [loads EXCEPT ![Len(loads)] = y][k] = loads[k]
    BY <2>2, PutFacts
  <2>. QED
    BY <2>1, <2>3 DEF y
<1>. PICK at \in [1..n -> DOMAIN st] : Lists(st, loads, at, N, R)
  BY DEF Listed
<1>. HIDE DEF n, new
<1>4. /\ \A k, l \in 1..n : k < l => at[k] < at[l]
      /\ \A i \in DOMAIN st : st[i].call = "load" <=> \E k \in 1..n : at[k] = i
      /\ \A k \in 1..n : /\ N[st[at[k]]] \subseteq ToSet(loads[k])
                         /\ \A y \in ToSet(loads[k]) : <<st[at[k]].mod, y>> \in R
  BY DEF Lists, n
<1>5. \A i \in DOMAIN st : t[i].call = st[i].call
  BY DEF Alike, Same
<1>6. \A k \in 1..n : /\ at[k] \in DOMAIN st /\ 1 < at[k]
                      /\ t[at[k]].mod = st[at[k]].mod
  <2>. TAKE k \in 1..n
  <2>1. at[k] \in DOMAIN st /\ st[at[k]].call = "load"
    BY <1>4
  <2>2. at[k] # 1
    BY <2>1 DEF Grounded
  <2>3. t[at[k]].mod = st[at[k]].mod
    BY <2>1 DEF Alike, Same
  <2>4. 1 < at[k]
    BY <1>1, <2>1, <2>2
  <2>. QED
    BY <2>1, <2>3, <2>4
<1>7. Last(t) = t[Len(st)] /\ Last(st) = st[Len(st)]
  BY <1>1 DEF Last
<1>8. ASSUME NEW k \in 1..n
      PROVE  /\ N[t[at[k]]] \subseteq ToSet(new[k])
             /\ \A y \in ToSet(new[k]) : <<t[at[k]].mod, y>> \in R
  <2>1. CASE k = n
    <3>1. N[t[at[k]]] \subseteq N[st[at[k]]] \cup {x}
      BY <1>6, <1>7
    <3>2. <<t[at[k]].mod, x>> \in R
      BY <1>6
    <3>. QED
      BY <1>2, <1>3, <1>4, <1>6, <2>1, <3>1, <3>2
  <2>2. CASE k # n
    <3>1. k \in 1..(n - 1) /\ n \in 1..n /\ k < n
      BY <1>1, <2>2
    <3>2. at[k] # Len(st)
      BY <1>1, <1>4, <1>6, <3>1
    <3>3. N[t[at[k]]] \subseteq N[st[at[k]]]
      BY <1>6, <3>2
    <3>. QED
      BY <1>3, <1>4, <1>6, <3>1, <3>3
  <2>. QED
    BY <2>1, <2>2
<1>9. Lists(t, new, at, N, R)
  BY <1>1, <1>3, <1>4, <1>5, <1>8 DEF Lists
<1>. QED
  BY <1>1, <1>3, <1>9 DEF Listed, new

\* The calls go on, and no load finds more loaded.
LEMMA ListsAlike ==
    ASSUME NEW X, NEW st \in Seq(X), NEW t \in Seq(X), Alike(t, st), Grounded(st),
           NEW loads, NEW N, NEW R, Listed(st, loads, N, R),
           \A i \in DOMAIN st : st[i].call = "load" => N[t[i]] \subseteq N[st[i]]
    PROVE  Listed(t, loads, N, R)
<1>. PICK at \in [1..Len(loads) -> DOMAIN st] : Lists(st, loads, at, N, R)
  BY DEF Listed
<1>. DEFINE K == 1..Len(loads)
<1>1. /\ at \in [K -> DOMAIN st]
      /\ \A k, l \in K : k < l => at[k] < at[l]
      /\ \A i \in DOMAIN st : st[i].call = "load" <=> \E k \in K : at[k] = i
      /\ \A k \in K : /\ N[st[at[k]]] \subseteq ToSet(loads[k])
                      /\ \A y \in ToSet(loads[k]) : <<st[at[k]].mod, y>> \in R
  BY DEF Lists
<1>. HIDE DEF K
<1>2. DOMAIN t = DOMAIN st /\ \A i \in DOMAIN st : t[i].call = st[i].call
  BY DEF Alike, Same
<1>3. \A k \in K : at[k] \in DOMAIN st /\ st[at[k]].call = "load" /\ t[at[k]].mod = st[at[k]].mod
  <2>. TAKE k \in K
  <2>1. at[k] \in DOMAIN st /\ st[at[k]].call = "load"
    BY <1>1
  <2>. QED
    BY <2>1 DEF Alike, Same
<1>4. \A k \in K : /\ N[t[at[k]]] \subseteq ToSet(loads[k])
                   /\ \A y \in ToSet(loads[k]) : <<t[at[k]].mod, y>> \in R
  BY <1>1, <1>3
<1>5. Lists(t, loads, at, N, R)
  BY <1>1, <1>2, <1>4 DEF Lists, K
<1>. QED
  BY <1>1, <1>2, <1>5 DEF Listed, K

\* A call that is no load on top of the others.
LEMMA ListsPush ==
    ASSUME NEW X, NEW st \in Seq(X), NEW g \in X, g.call # "load",
           NEW loads, NEW N, NEW R, Listed(st, loads, N, R)
    PROVE  Listed(Append(st, g), loads, N, R)
<1>. DEFINE t == Append(st, g)
            n == Len(st)
            K == 1..Len(loads)
<1>. PICK at \in [K -> DOMAIN st] : Lists(st, loads, at, N, R)
  BY DEF Listed
<1>1. /\ DOMAIN st = 1..n /\ n \in Nat /\ DOMAIN t = 1..(n + 1)
      /\ \A i \in 1..n : t[i] = st[i]
      /\ t[n + 1] = g
  BY PushFacts
<1>2. /\ \A k, l \in K : k < l => at[k] < at[l]
      /\ \A i \in DOMAIN st : st[i].call = "load" <=> \E k \in K : at[k] = i
      /\ \A k \in K : /\ N[st[at[k]]] \subseteq ToSet(loads[k])
                      /\ \A y \in ToSet(loads[k]) : <<st[at[k]].mod, y>> \in R
  BY DEF Lists
<1>. HIDE DEF K, t, n
<1>3. \A k \in K : at[k] \in 1..n /\ at[k] # n + 1 /\ t[at[k]] = st[at[k]]
  BY <1>1
<1>4. at \in [K -> DOMAIN t]
  BY <1>1
<1>5. \A i \in DOMAIN t : t[i].call = "load" <=> \E k \in K : at[k] = i
  <2>. TAKE i \in DOMAIN t
  <2>1. CASE i = n + 1
    BY <1>1, <1>3, <2>1
  <2>2. CASE i \in 1..n
    BY <1>1, <1>2, <2>2
  <2>. QED
    BY <1>1, <2>1, <2>2
<1>6. Lists(t, loads, at, N, R)
  BY <1>2, <1>3, <1>4, <1>5 DEF Lists, K
<1>. QED
  BY <1>4, <1>6 DEF Listed, K, t

\* A load on top of the others, with a list of its own.
LEMMA ListsPushLoad ==
    ASSUME NEW X, NEW st \in Seq(X), NEW g \in X, g.call = "load",
           NEW loads \in Seq(Seq(Modules)), NEW N, NEW R, Listed(st, loads, N, R), N[g] = {}
    PROVE  Listed(Append(st, g), Append(loads, <<>>), N, R)
<1>. DEFINE t == Append(st, g)
            n == Len(st)
            c == Len(loads)
            new == Append(loads, <<>>)
<1>. PICK at \in [1..c -> DOMAIN st] : Lists(st, loads, at, N, R)
  BY DEF Listed
<1>1. /\ DOMAIN st = 1..n /\ n \in Nat /\ DOMAIN t = 1..(n + 1)
      /\ \A i \in 1..n : t[i] = st[i]
      /\ t[n + 1] = g
  BY PushFacts
<1>2. /\ \A k, l \in 1..c : k < l => at[k] < at[l]
      /\ \A i \in DOMAIN st : st[i].call = "load" <=> \E k \in 1..c : at[k] = i
      /\ \A k \in 1..c : /\ N[st[at[k]]] \subseteq ToSet(loads[k])
                         /\ \A y \in ToSet(loads[k]) : <<st[at[k]].mod, y>> \in R
  BY DEF Lists
<1>3. /\ c \in Nat /\ Len(new) = c + 1 /\ new[c + 1] = <<>>
      /\ \A k \in 1..c : new[k] = loads[k]
  BY PushFacts
<1>4. ToSet(<<>>) = {}
  BY DEF ToSet
<1>. DEFINE up == [k \in 1..(c + 1) |-> IF k = c + 1 THEN n + 1 ELSE at[k]]
<1>. HIDE DEF t, n, c, new
<1>5. /\ \A k \in 1..c : at[k] \in 1..n /\ up[k] = at[k] /\ t[up[k]] = st[at[k]] /\ k \in 1..(c + 1)
      /\ up[c + 1] = n + 1 /\ t[up[c + 1]] = g /\ c + 1 \in 1..(c + 1)
      /\ \A k \in 1..(c + 1) : k = c + 1 \/ k \in 1..c
  BY <1>1, <1>3
<1>6. up \in [1..(c + 1) -> DOMAIN t]
  BY <1>1, <1>3
<1>. HIDE DEF up
<1>7. \A k, l \in 1..(c + 1) : k < l => up[k] < up[l]
  <2>. SUFFICES ASSUME NEW k \in 1..(c + 1), NEW l \in 1..(c + 1), k < l PROVE up[k] < up[l]
    OBVIOUS
  <2>1. k \in 1..c
    BY <1>3
  <2>2. CASE l = c + 1
    BY <1>1, <1>5, <2>1, <2>2
  <2>3. CASE l \in 1..c
    BY <1>2, <1>5, <2>1, <2>3
  <2>. QED
    BY <1>5, <2>2, <2>3
<1>8. \A i \in DOMAIN t : t[i].call = "load" <=> \E k \in 1..(c + 1) : up[k] = i
  <2>. TAKE i \in DOMAIN t
  <2>1. CASE i = n + 1
    BY <1>1, <1>5, <2>1
  <2>2. CASE i \in 1..n
    <3>1. t[i].call = "load" <=> \E k \in 1..c : at[k] = i
      BY <1>1, <1>2, <2>2
    <3>2. i # n + 1
      BY <1>1, <2>2
    <3>. QED
      BY <1>5, <3>1, <3>2
  <2>. QED
    BY <1>1, <2>1, <2>2
<1>9. \A k \in 1..(c + 1) : /\ N[t[up[k]]] \subseteq ToSet(new[k])
                            /\ \A y \in ToSet(new[k]) : <<t[up[k]].mod, y>> \in R
  <2>. TAKE k \in 1..(c + 1)
  <2>1. CASE k = c + 1
    BY <1>3, <1>4, <1>5, <2>1
  <2>2. CASE k \in 1..c
    BY <1>2, <1>3, <1>5, <2>2
  <2>. QED
    BY <1>5, <2>1, <2>2
<1>10. Lists(t, new, up, N, R)
  BY <1>3, <1>6, <1>7, <1>8, <1>9 DEF Lists
<1>. QED
  BY <1>3, <1>6, <1>10 DEF Listed, t, new

\* A call that is no load is gone from the top.
LEMMA ListsPop ==
    ASSUME NEW X, NEW st \in Seq(X), st # <<>>, Last(st).call # "load",
           NEW loads, NEW N, NEW R, Listed(st, loads, N, R)
    PROVE  Listed(Front(st), loads, N, R)
<1>. DEFINE t == Front(st)
            n == Len(st)
            K == 1..Len(loads)
<1>. PICK at \in [K -> DOMAIN st] : Lists(st, loads, at, N, R)
  BY DEF Listed
<1>1. /\ DOMAIN st = 1..n /\ n \in Nat /\ n # 0 /\ DOMAIN t = 1..(n - 1)
      /\ \A i \in 1..(n - 1) : t[i] = st[i]
      /\ st[n].call # "load"
  BY PopFacts
<1>2. /\ \A k, l \in K : k < l => at[k] < at[l]
      /\ \A i \in DOMAIN st : st[i].call = "load" <=> \E k \in K : at[k] = i
      /\ \A k \in K : /\ N[st[at[k]]] \subseteq ToSet(loads[k])
                      /\ \A y \in ToSet(loads[k]) : <<st[at[k]].mod, y>> \in R
  BY DEF Lists
<1>. HIDE DEF K, t, n
<1>3. \A k \in K : at[k] \in 1..(n - 1) /\ t[at[k]] = st[at[k]]
  <2>. TAKE k \in K
  <2>1. at[k] \in DOMAIN st /\ st[at[k]].call = "load"
    BY <1>2
  <2>2. at[k] # n
    BY <1>1, <2>1
  <2>. QED
    BY <1>1, <2>1, <2>2
<1>4. at \in [K -> DOMAIN t]
  BY <1>1, <1>3
<1>5. \A i \in DOMAIN t : t[i].call = "load" <=> \E k \in K : at[k] = i
  BY <1>1, <1>2
<1>6. Lists(t, loads, at, N, R)
  BY <1>2, <1>3, <1>4, <1>5 DEF Lists, K
<1>. QED
  BY <1>4, <1>6 DEF Listed, K, t

\* The load on top is gone, with the last list, which was its own.
LEMMA ListsPopLoad ==
    ASSUME NEW X, NEW st \in Seq(X), st # <<>>, Last(st).call = "load",
           NEW loads \in Seq(Seq(Modules)), NEW N, NEW R, Listed(st, loads, N, R)
    PROVE  /\ loads # <<>>
           /\ Listed(Front(st), Front(loads), N, R)
           /\ N[Last(st)] \subseteq ToSet(Last(loads))
           /\ \A x \in ToSet(Last(loads)) : <<Last(st).mod, x>> \in R
<1>. DEFINE t == Front(st)
            n == Len(st)
            c == Len(loads)
            new == Front(loads)
<1>. PICK at \in [1..c -> DOMAIN st] : Lists(st, loads, at, N, R)
  BY DEF Listed
<1>1. /\ DOMAIN st = 1..n /\ n \in Nat /\ n # 0 /\ DOMAIN t = 1..(n - 1)
      /\ \A i \in 1..(n - 1) : t[i] = st[i]
      /\ Last(st) = st[n]
  BY PopFacts
<1>2. /\ \A k, l \in 1..c : k < l => at[k] < at[l]
      /\ \A i \in DOMAIN st : st[i].call = "load" <=> \E k \in 1..c : at[k] = i
      /\ \A k \in 1..c : /\ N[st[at[k]]] \subseteq ToSet(loads[k])
                         /\ \A y \in ToSet(loads[k]) : <<st[at[k]].mod, y>> \in R
  BY DEF Lists
<1>3. c \in Nat
  OBVIOUS
<1>. HIDE DEF t, n, c, new
<1>4. PICK q \in 1..c : at[q] = n
  BY <1>1, <1>2
<1>5. q = c /\ c # 0
  <2>1. c \in 1..c /\ at[c] \in 1..n
    BY <1>1, <1>3
  <2>2. ~(q < c)
    BY <1>1, <1>2, <1>4, <2>1
  <2>. QED
    BY <1>3, <2>2
<1>6. loads # <<>>
  BY <1>5 DEF c
<1>7. /\ Len(new) = c - 1 /\ Last(loads) = loads[c]
      /\ \A k \in 1..(c - 1) : new[k] = loads[k] /\ k \in 1..c
  <2>1. /\ Len(Front(loads)) = Len(loads) - 1 /\ Last(loads) = loads[Len(loads)]
        /\ \A k \in 1..(Len(loads) - 1) : Front(loads)[k] = loads[k]
    BY <1>6, PopFacts
  <2>2. \A k \in 1..(c - 1) : k \in 1..c
    BY <1>3
  <2>. QED
    BY <2>1, <2>2 DEF c, new
<1>8. N[Last(st)] \subseteq ToSet(Last(loads)) /\ \A x \in ToSet(Last(loads)) : <<Last(st).mod, x>> \in R
  BY <1>1, <1>2, <1>4, <1>5, <1>7
<1>. DEFINE down == [k \in 1..(c - 1) |-> at[k]]
<1>9. \A k \in 1..(c - 1) : /\ at[k] \in 1..(n - 1) /\ down[k] = at[k] /\ t[down[k]] = st[at[k]]
  <2>. TAKE k \in 1..(c - 1)
  <2>1. k \in 1..c /\ c \in 1..c /\ k < c
    BY <1>3
  <2>2. at[k] \in 1..n /\ at[k] < n
    BY <1>1, <1>2, <1>4, <1>5, <2>1
  <2>. QED
    BY <1>1, <2>2
<1>10. down \in [1..(c - 1) -> DOMAIN t]
  BY <1>1, <1>9
<1>. HIDE DEF down
<1>11. \A k, l \in 1..(c - 1) : k < l => down[k] < down[l]
  BY <1>2, <1>3, <1>9
<1>12. \A i \in DOMAIN t : t[i].call = "load" <=> \E k \in 1..(c - 1) : down[k] = i
  <2>. TAKE i \in DOMAIN t
  <2>1. t[i].call = "load" <=> \E k \in 1..c : at[k] = i
    BY <1>1, <1>2
  <2>2. i # n
    BY <1>1
  <2>3. ASSUME NEW k \in 1..c, at[k] = i PROVE k \in 1..(c - 1)
    BY <1>3, <1>4, <1>5, <2>2, <2>3
  <2>4. ASSUME NEW k \in 1..(c - 1) PROVE k \in 1..c /\ down[k] = at[k]
    BY <1>3, <1>9
  <2>. QED
    BY <2>1, <2>3, <2>4
<1>13. \A k \in 1..(c - 1) : /\ N[t[down[k]]] \subseteq ToSet(new[k])
                             /\ \A y \in ToSet(new[k]) : <<t[down[k]].mod, y>> \in R
  BY <1>2, <1>7, <1>9
<1>14. Lists(t, new, down, N, R)
  BY <1>7, <1>10, <1>11, <1>12, <1>13 DEF Lists
<1>. QED
  BY <1>6, <1>7, <1>8, <1>10, <1>14 DEF Listed, t, new

-----------------------------------------------------------------------------
(* What the invariants say of the state after a step, with the program as it *)
(* was.                                                                      *)

\* The types after a step.
LEMMA TypedNext ==
    ASSUME TypeInv, program' = program, package' = package,
           TypedAt(linker', stack', found'), found' \in BOOLEAN,
           result' \in {"linking", "linked"} \cup Errors
    PROVE  TypeInv'
<1>1. FitFrames' = FitFrames /\ Follows' = Follows /\ ProgramOK' = ProgramOK
  BY SameFrames, SameProgram
<1>2. SourceOf(Last(stack))' = SourceOf(Last(stack'))
  BY DEF SourceOf, Source, Imports
<1>3. TypedAt(linker, stack, found)'
  BY <1>1, <1>2 DEF TypedAt
<1>. QED
  BY <1>1, <1>3 DEF TypeInv

\* The order after a step.
LEMMA OrderNext ==
    ASSUME OrderInv, program' = program, package' = package,
           DirectLookups => OrderAt(linker', stack', result')
    PROVE  OrderInv'
<1>1. /\ Uses' = Uses /\ Deps' = Deps /\ Looks' = Looks /\ Needs' = Needs
      /\ DirectLookups' = DirectLookups
  BY SameFrames, SameProgram
<1>2. OrderAt(linker, stack, result)' = OrderAt(linker', stack', result')
  BY <1>1 DEF OrderAt, Recording
<1>. QED
  BY <1>1, <1>2 DEF OrderInv

\* A call goes on.
LEMMA TypedPut ==
    ASSUME NEW lk, NEW st, NEW fd, TypedAt(lk, st, fd), st # <<>>,
           NEW f \in FitFrames, Same(f, Last(st)), NEW fe \in BOOLEAN,
           Waits(f) /\ fe => SourceOf(f)[2] \in DOMAIN lk.exports[SourceOf(f)[1]]
    PROVE  TypedAt(lk, [st EXCEPT ![Len(st)] = f], fe)
<1>. DEFINE t == [st EXCEPT ![Len(st)] = f]
            n == Len(st)
<1>1. st \in Seq(FitFrames) /\ lk \in Linkers /\ Linked(st, Follows)
      /\ \A m \in lk.pending : m \in lk.loaded /\ program[m].decls \subseteq DOMAIN lk.exports[m]
  BY DEF TypedAt
<1>2. /\ t \in Seq(FitFrames) /\ n \in Nat \ {0} /\ DOMAIN st = 1..n /\ DOMAIN t = 1..n
      /\ \A i \in 1..(n - 1) : t[i] = st[i]
      /\ t[n] = f /\ Last(t) = f
  BY <1>1, PutFacts
<1>3. Last(st) = st[n]
  BY DEF Last
<1>. HIDE DEF t, n
<1>4. Linked(t, Follows)
  <2>. SUFFICES ASSUME NEW i \in 1..n, i + 1 \in 1..n PROVE <<t[i], t[i + 1]>> \in Follows
    BY <1>2 DEF Linked
  <2>1. i \in 1..(n - 1) /\ t[i] = st[i] /\ <<st[i], st[i + 1]>> \in Follows
    <3>1. i \in 1..(n - 1) /\ t[i] = st[i]
      BY <1>2
    <3>2. <<st[i], st[i + 1]>> \in Follows
      BY <1>1, <1>2 DEF Linked
    <3>. QED
      BY <3>1, <3>2
  <2>2. CASE i + 1 = n
    <3>1. t[i + 1] = f /\ st[i + 1] = Last(st)
      BY <1>2, <1>3, <2>2
    <3>2. st[i] \in FitFrames
      BY <1>1, <1>2
    <3>. QED
      BY <2>1, <3>1, <3>2 DEF Follows, Same, Pair
  <2>3. CASE i + 1 # n
    <3>1. i + 1 \in 1..(n - 1)
      BY <1>2, <2>3
    <3>. QED
      BY <1>2, <2>1, <3>1
  <2>. QED
    BY <2>2, <2>3
<1>. QED
  BY <1>1, <1>2, <1>4 DEF TypedAt, t

\* A call is made.
LEMMA TypedPush ==
    ASSUME NEW lk, NEW st, NEW fd, TypedAt(lk, st, fd), st # <<>>,
           NEW g \in FitFrames, <<Last(st), g>> \in Follows, ~Waits(g), NEW fe
    PROVE  TypedAt(lk, Append(st, g), fe)
<1>. DEFINE t == Append(st, g)
            n == Len(st)
<1>1. st \in Seq(FitFrames) /\ lk \in Linkers /\ Linked(st, Follows)
      /\ \A m \in lk.pending : m \in lk.loaded /\ program[m].decls \subseteq DOMAIN lk.exports[m]
  BY DEF TypedAt
<1>2. /\ t \in Seq(FitFrames) /\ n \in Nat /\ DOMAIN st = 1..n /\ DOMAIN t = 1..(n + 1)
      /\ \A i \in 1..n : t[i] = st[i]
      /\ t[n + 1] = g /\ Last(t) = g
  BY <1>1, PushFacts
<1>3. Last(st) = st[n]
  BY DEF Last
<1>. HIDE DEF t, n
<1>4. Linked(t, Follows)
  <2>. SUFFICES ASSUME NEW i \in 1..(n + 1), i + 1 \in 1..(n + 1) PROVE <<t[i], t[i + 1]>> \in Follows
    BY <1>2 DEF Linked
  <2>1. i \in 1..n /\ t[i] = st[i]
    BY <1>2
  <2>2. CASE i = n
    BY <1>2, <1>3, <2>1, <2>2
  <2>3. CASE i # n
    <3>1. i + 1 \in 1..n
      BY <1>2, <2>1, <2>3
    <3>. QED
      BY <1>1, <1>2, <2>1, <3>1 DEF Linked
  <2>. QED
    BY <2>2, <2>3
<1>. QED
  BY <1>1, <1>2, <1>4 DEF TypedAt, t

\* A call returns.
LEMMA TypedPop ==
    ASSUME NEW lk, NEW st, NEW fd, TypedAt(lk, st, fd), st # <<>>, NEW fe,
           Front(st) # <<>> /\ Waits(Last(Front(st))) /\ fe =>
              SourceOf(Last(Front(st)))[2] \in DOMAIN lk.exports[SourceOf(Last(Front(st)))[1]]
    PROVE  TypedAt(lk, Front(st), fe)
BY PopFacts, PopShape DEF TypedAt

\* Only a link under way has calls.
LEMMA OrderRunning ==
    ASSUME NEW lk, NEW st, NEW res, OrderAt(lk, st, res), st # <<>>
    PROVE  res = "linking" /\ res \notin Errors
BY DEF OrderAt, Errors

\* What the last call depends on, those below it do.
LEMMA Below ==
    ASSUME ProgramOK, NEW st \in Seq(FitFrames), st # <<>>, Grounded(st), Chain(st, Deps),
           NEW x \in Modules, Last(st).call = "entry" \/ <<Last(st).mod, x>> \in Deps
    PROVE  \A i \in DOMAIN st : 1 < i => <<st[i].mod, x>> \in Deps
<1>. SUFFICES ASSUME NEW i \in DOMAIN st, 1 < i PROVE <<st[i].mod, x>> \in Deps
  OBVIOUS
<1>1. Len(st) \in DOMAIN st /\ Last(st) = st[Len(st)] /\ DOMAIN st = 1..Len(st) /\ Len(st) \in Nat
  BY PopFacts
<1>2. Len(st) # 1 /\ i # 1 /\ i <= Len(st)
  BY <1>1
<1>3. Last(st).call # "entry" /\ st[i].call # "entry"
  BY <1>1, <1>2 DEF Grounded
<1>4. st[i].mod \in Modules /\ Last(st).mod \in Modules
  BY <1>1, <1>3, FrameFacts
<1>5. CASE i = Len(st)
  BY <1>1, <1>3, <1>5
<1>6. CASE i < Len(st)
  <2>1. <<st[i].mod, Last(st).mod>> \in Deps
    BY <1>1, <1>6 DEF Chain
  <2>. QED
    BY <1>3, <1>4, <2>1, DepsFacts
<1>. QED
  BY <1>1, <1>2, <1>5, <1>6

\* A stack whose last call goes on is alike.
LEMMA PutAlike ==
    ASSUME NEW X, NEW st \in Seq(X), st # <<>>, NEW f \in X, Same(f, Last(st))
    PROVE  Alike([st EXCEPT ![Len(st)] = f], st)
<1>. DEFINE t == [st EXCEPT ![Len(st)] = f]
            n == Len(st)
<1>1. /\ n \in Nat \ {0} /\ DOMAIN st = 1..n /\ DOMAIN t = 1..n
      /\ \A i \in 1..(n - 1) : t[i] = st[i]
      /\ t[n] = f
  BY PutFacts
<1>2. Last(st) = st[n]
  BY DEF Last
<1>. HIDE DEF t, n
<1>3. ASSUME NEW i \in 1..n PROVE Same(t[i], st[i])
  <2>1. CASE i = n
    BY <1>1, <1>2, <2>1
  <2>2. CASE i # n
    <3>1. t[i] = st[i]
      BY <1>1, <2>2
    <3>. QED
      BY <3>1 DEF Same
  <2>. QED
    BY <2>1, <2>2
<1>. QED
  BY <1>1, <1>3 DEF Alike, t

\* A call goes on, and finds no more loaded.
LEMMA OrderPut ==
    ASSUME NEW lk, NEW st \in Seq(FitFrames), NEW res, OrderAt(lk, st, res), st # <<>>,
           NEW f \in FitFrames, Same(f, Last(st)), Needs[f] \subseteq Needs[Last(st)]
    PROVE  OrderAt(lk, [st EXCEPT ![Len(st)] = f], res)
<1>. DEFINE t == [st EXCEPT ![Len(st)] = f]
            n == Len(st)
<1>1. /\ t \in Seq(FitFrames) /\ n \in Nat \ {0} /\ DOMAIN st = 1..n /\ DOMAIN t = 1..n
      /\ \A i \in 1..(n - 1) : t[i] = st[i]
      /\ t[n] = f
  BY PutFacts
<1>2. Last(st) = st[n] /\ Alike(t, st) /\ res = "linking" /\ res \notin Errors
  BY PutAlike, OrderRunning DEF Last
<1>. HIDE DEF t, n
<1>3. \A i \in DOMAIN st : Needs[t[i]] \subseteq Needs[st[i]]
  <2>. TAKE i \in DOMAIN st
  <2>1. CASE i = n
    BY <1>1, <1>2, <2>1
  <2>2. CASE i # n
    BY <1>1, <2>2
  <2>. QED
    BY <2>1, <2>2
<1>4. Grounded(t) /\ Chain(t, Deps) /\ Walk(t, Looks)
  BY <1>1, <1>2, AlikeShape DEF OrderAt
<1>5. Apart(t, ToSet(HoistedOf(lk))) /\ Accounted(t, ToSet(HoistedOf(lk)), lk.loaded)
  BY <1>1, <1>2, AlikeLoaded DEF OrderAt
<1>6. \A i \in DOMAIN t : Needs[t[i]] \subseteq lk.loaded
  BY <1>1, <1>3 DEF OrderAt
<1>7. Recording => Listed(t, lk.loads, Needs, Deps)
  BY <1>1, <1>2, <1>3, ListsAlike DEF OrderAt
<1>. QED
  BY <1>2, <1>4, <1>5, <1>6, <1>7 DEF OrderAt, t

\* A lookup is made or a module forced.
LEMMA OrderPush ==
    ASSUME ProgramOK, NEW lk, NEW st \in Seq(FitFrames), NEW res, OrderAt(lk, st, res), st # <<>>,
           NEW g \in FitFrames, g.call \in {"resolve", "force"},
           Last(st).call # "entry", <<Last(st).mod, g.mod>> \in Deps,
           g.call = "resolve" /\ Last(st).call = "resolve" => <<Pair(Last(st)), Pair(g)>> \in Looks
    PROVE  OrderAt(lk, Append(st, g), res)
<1>. DEFINE t == Append(st, g)
            n == Len(st)
<1>1. /\ n \in Nat /\ DOMAIN st = 1..n /\ DOMAIN t = 1..(n + 1)
      /\ \A i \in 1..n : t[i] = st[i]
      /\ t[n + 1] = g
  BY PushFacts
<1>2. /\ res = "linking" /\ res \notin Errors
      /\ Grounded(st) /\ Chain(st, Deps) /\ Walk(st, Looks)
  BY OrderRunning DEF OrderAt
<1>3. g.mod \in Modules /\ g.call \notin {"load", "replay"}
  BY FrameFacts
<1>4. Last(st) = st[n] /\ n \in DOMAIN st
  BY PopFacts
<1>5. \A i \in DOMAIN st : 1 < i => <<st[i].mod, g.mod>> \in Deps
  BY <1>2, <1>3, Below
<1>6. g.call = "resolve" => Pair(g) \in Pairs /\ <<Pair(g), Pair(g)>> \in Looks
  BY FrameFacts, LooksFacts DEF Pair, Pairs, ResolveFrames
<1>7. ASSUME g.call = "resolve", NEW i \in DOMAIN st, \A k \in i..n : st[k].call = "resolve"
      PROVE  <<Pair(st[i]), Pair(g)>> \in Looks
  <2>1. i \in i..n /\ n \in i..n /\ i <= n
    BY <1>1, <1>4
  <2>2. st[i].call = "resolve" /\ st[n].call = "resolve" /\ st[i] \in FitFrames /\ st[n] \in FitFrames
    BY <1>1, <1>4, <1>7, <2>1
  <2>3. Pair(st[i]) \in Pairs /\ Pair(st[n]) \in Pairs
    BY <2>2, FrameFacts DEF Pair, Pairs, ResolveFrames
  <2>4. <<Pair(st[i]), Pair(st[n])>> \in Looks
    BY <1>2, <1>4, <1>7, <2>1 DEF Walk
  <2>5. <<Pair(st[n]), Pair(g)>> \in Looks
    BY <1>4, <1>7, <2>2
  <2>. QED
    BY <1>6, <1>7, <2>3, <2>4, <2>5, LooksFacts
<1>8. Grounded(t) /\ Chain(t, Deps)
  BY <1>2, <1>5, PushShape
<1>9. Walk(t, Looks)
  BY <1>2, <1>6, <1>7, PushShape
<1>10. Apart(t, ToSet(HoistedOf(lk))) /\ Accounted(t, ToSet(HoistedOf(lk)), lk.loaded)
  BY <1>2, <1>3, PushLoaded DEF OrderAt
<1>11. \A i \in DOMAIN t : Needs[t[i]] \subseteq lk.loaded
  <2>1. Needs[g] = {}
    BY DEF Needs
  <2>. HIDE DEF t, n
  <2>. QED
    BY <1>1, <2>1 DEF OrderAt
<1>12. Recording => Listed(t, lk.loads, Needs, Deps)
  BY <1>2, <1>3, ListsPush DEF OrderAt
<1>. QED
  BY <1>2, <1>8, <1>9, <1>10, <1>11, <1>12 DEF OrderAt

\* A lookup or a forced module returns.
LEMMA OrderPop ==
    ASSUME NEW lk, NEW st \in Seq(FitFrames), NEW res, OrderAt(lk, st, res), st # <<>>,
           Last(st).call \in {"resolve", "force"}
    PROVE  OrderAt(lk, Front(st), res)
<1>. DEFINE t == Front(st)
            n == Len(st)
<1>1. /\ n \in Nat \ {0} /\ DOMAIN st = 1..n /\ DOMAIN t = 1..(n - 1)
      /\ \A i \in 1..(n - 1) : t[i] = st[i]
  BY PopFacts
<1>2. res = "linking" /\ res \notin Errors
  BY OrderRunning
<1>3. Grounded(t) /\ Chain(t, Deps) /\ Walk(t, Looks)
  BY PopShape DEF OrderAt
<1>4. Apart(t, ToSet(HoistedOf(lk))) /\ Accounted(t, ToSet(HoistedOf(lk)), lk.loaded)
  BY <1>2, PopLoaded DEF OrderAt
<1>5. \A i \in DOMAIN t : Needs[t[i]] \subseteq lk.loaded
  <2>. HIDE DEF t, n
  <2>. QED
    BY <1>1 DEF OrderAt
<1>6. Recording => Listed(t, lk.loads, Needs, Deps)
  BY <1>2, ListsPop DEF OrderAt
<1>. QED
  BY <1>2, <1>3, <1>4, <1>5, <1>6 DEF OrderAt

\* Only the order of what is hoisted outlives a link.
LEMMA OrderStop ==
    ASSUME NEW lk, NEW st, NEW res, OrderAt(lk, st, res), NEW err \in Errors
    PROVE  OrderAt(lk, <<>>, err)
<1>1. err # "linking" /\ DOMAIN <<>> = {}
  BY DEF Errors
<1>2. Grounded(<<>>) /\ Chain(<<>>, Deps) /\ Walk(<<>>, Looks)
  BY <1>1 DEF Grounded, Chain, Walk
<1>3. Apart(<<>>, ToSet(HoistedOf(lk)))
  BY <1>1 DEF Apart, Held
<1>. QED
  BY <1>1, <1>2, <1>3 DEF OrderAt

-----------------------------------------------------------------------------
(* Errors and loads. *)

\* A stack of calls that waits for no answer, under another linker.
LEMMA TypedMore ==
    ASSUME NEW lk, NEW st, NEW fd, TypedAt(lk, st, fd), NEW lm \in Linkers, NEW fe,
           st # <<>> => ~Waits(Last(st)),
           \A m \in lm.pending : m \in lm.loaded /\ program[m].decls \subseteq DOMAIN lm.exports[m]
    PROVE  TypedAt(lm, st, fe)
BY DEF TypedAt

\* The calls below a point that waits for no answer.
LEMMA TypedCut ==
    ASSUME NEW lk, NEW st, NEW fd, TypedAt(lk, st, fd), NEW fe,
           NEW p \in DOMAIN st, ~Waits(st[p])
    PROVE  TypedAt(lk, SubSeq(st, 1, p), fe)
<1>. DEFINE t == SubSeq(st, 1, p)
            n == Len(st)
<1>1. st \in Seq(FitFrames) /\ lk \in Linkers /\ Linked(st, Follows)
      /\ \A m \in lk.pending : m \in lk.loaded /\ program[m].decls \subseteq DOMAIN lk.exports[m]
  BY DEF TypedAt
<1>2. n \in Nat /\ DOMAIN st = 1..n /\ p \in 1..n
  BY <1>1
<1>3. t \in Seq(FitFrames) /\ Len(t) = p /\ DOMAIN t = 1..p /\ \A i \in 1..p : t[i] = st[i]
  BY <1>1, <1>2
<1>4. Last(t) = st[p]
  BY <1>2, <1>3 DEF Last
<1>. HIDE DEF t, n
<1>5. Linked(t, Follows)
  BY <1>1, <1>2, <1>3 DEF Linked
<1>. QED
  BY <1>1, <1>3, <1>4, <1>5 DEF TypedAt, t

\* An error ends the link, or is dropped by a module that is being forced.
LEMMA TypedRaise ==
    ASSUME TypeInv, NEW err \in Errors, Raise(err),
           UNCHANGED <<program, package, linker, found>>
    PROVE  TypeInv'
<1>. DEFINE catching == {i \in DOMAIN stack : stack[i].call = "force" /\ stack[i].stage = "name"}
<1>1. CASE err = "recursive" /\ catching # {}
  <2>1. stack' = SubSeq(stack, 1, Max(catching)) /\ result' = result
    BY <1>1 DEF Raise
  <2>2. stack \in Seq(FitFrames)
    BY DEF TypeInv, TypedAt
  <2>3. catching \in SUBSET (1..Len(stack)) /\ Len(stack) \in Nat
    BY <2>2
  <2>4. Max(catching) \in catching
    BY <1>1, <2>3, MaxFacts
  <2>5. Max(catching) \in DOMAIN stack /\ ~Waits(stack[Max(catching)])
    BY <2>4 DEF Waits
  <2>6. TypedAt(linker, SubSeq(stack, 1, Max(catching)), found)
    BY <2>5, TypedCut DEF TypeInv
  <2>7. TypedAt(linker', stack', found')
    BY <2>1, <2>6
  <2>. QED
    BY <2>1, <2>7, TypedNext DEF TypeInv
<1>2. CASE ~(err = "recursive" /\ catching # {})
  <2>1. stack' = <<>> /\ result' = err
    BY <1>2 DEF Raise
  <2>2. TypedAt(linker, <<>>, found)
    <3>1. <<>> \in Seq(FitFrames) /\ DOMAIN <<>> = {}
      OBVIOUS
    <3>. QED
      BY <3>1 DEF TypeInv, TypedAt, Linked
  <2>3. TypedAt(linker', stack', found')
    BY <2>1, <2>2
  <2>. QED
    BY <2>1, <2>3, TypedNext DEF TypeInv
<1>. QED
  BY <1>1, <1>2

\* An error other than the one that is dropped.
LEMMA OrderRaise ==
    ASSUME OrderInv, NEW err \in Errors \ {"recursive"}, Raise(err),
           UNCHANGED <<program, package, linker, found>>
    PROVE  OrderInv'
<1>1. stack' = <<>> /\ result' = err
  BY DEF Raise
<1>2. DirectLookups => OrderAt(linker, <<>>, err)
  BY OrderStop DEF OrderInv
<1>. QED
  BY <1>1, <1>2, OrderNext

\* What is asked for is noted in the last list, if there is one.
LEMMA AskedFacts ==
    ASSUME linker \in Linkers, NEW x \in Modules
    PROVE  /\ AskedLoads(x) \in Seq(Seq(Modules))
           /\ linker.loads = <<>> => AskedLoads(x) = <<>>
           /\ linker.loads # <<>> =>
                 AskedLoads(x) = [linker.loads EXCEPT ![Len(linker.loads)] = Append(@, x)]
<1>1. linker.loads \in Seq(Seq(Modules))
  BY DEF Linkers
<1>2. CASE linker.loads = <<>>
  BY <1>2 DEF AskedLoads
<1>3. CASE linker.loads # <<>>
  <2>1. AskedLoads(x) = [linker.loads EXCEPT ![Len(linker.loads)] = Append(@, x)]
    BY <1>3 DEF AskedLoads
  <2>2. linker.loads[Len(linker.loads)] \in Seq(Modules)
    BY <1>1, <1>3
  <2>3. Append(linker.loads[Len(linker.loads)], x) \in Seq(Modules)
    BY <2>2
  <2>. DEFINE y == Append(linker.loads[Len(linker.loads)], x)
  <2>4. AskedLoads(x) = [linker.loads EXCEPT ![Len(linker.loads)] = y]
    BY <1>1, <1>3, <2>1
  <2>5. y \in Seq(Modules)
    BY <2>3
  <2>. HIDE DEF y
  <2>6. AskedLoads(x) \in Seq(Seq(Modules))
    BY <1>1, <1>3, <2>4, <2>5, PutFacts
  <2>. QED
    BY <1>3, <2>1, <2>6
<1>. QED
  BY <1>2, <1>3

\* The three ways of a load.
LEMMA LoadFacts ==
    ASSUME TypeInv, NEW x \in Modules, NEW below, load_module(x, below)
    PROVE  /\ UNCHANGED <<program, package, found, result>>
           /\ linker' \in Linkers
           /\ linker'.loaded = linker.loaded \cup {x}
           /\ linker'.decls = linker.decls /\ linker'.records = linker.records
           /\ \/ /\ x \in linker.loaded
                 /\ linker'.loads = AskedLoads(x) /\ linker'.pending = linker.pending
                 /\ linker'.exports = linker.exports
                 /\ stack' = below
              \/ /\ x \notin linker.loaded /\ x \in DOMAIN package
                 /\ linker'.loads = AskedLoads(x) /\ linker'.pending = linker.pending
                 /\ linker'.exports = [linker.exports EXCEPT ![x] = package[x].exports]
                 /\ stack' = Append(below, ReplayFrame(x))
              \/ /\ x \notin linker.loaded /\ x \notin DOMAIN package
                 /\ linker'.loads = IF Recording THEN Append(AskedLoads(x), <<>>) ELSE AskedLoads(x)
                 /\ linker'.pending = linker.pending \cup {x}
                 /\ linker'.exports = [linker.exports EXCEPT ![x] = Local(x)]
                 /\ stack' = Append(below, LoadFrame(x))
<1>. DEFINE entered == [linker EXCEPT !.loads = AskedLoads(x), !.loaded = @ \cup {x}]
<1>1. linker \in Linkers /\ AskedLoads(x) \in Seq(Seq(Modules))
  BY AskedFacts DEF TypeInv, TypedAt
<1>2. /\ entered \in Linkers
      /\ entered.loaded = linker.loaded \cup {x} /\ entered.loads = AskedLoads(x)
      /\ entered.decls = linker.decls /\ entered.records = linker.records
      /\ entered.pending = linker.pending /\ entered.exports = linker.exports
  BY <1>1 DEF Linkers
<1>3. UNCHANGED <<program, package, found, result>>
  BY DEF load_module
<1>. HIDE DEF entered
<1>4. CASE x \in linker.loaded
  <2>1. linker' = entered /\ stack' = below
    BY <1>4 DEF load_module, entered
  <2>. QED
    BY <1>2, <1>3, <1>4, <2>1
<1>5. CASE x \notin linker.loaded /\ x \in DOMAIN package
  <2>1. /\ linker' = [entered EXCEPT !.exports[x] = package[x].exports]
        /\ stack' = Append(below, ReplayFrame(x))
    BY <1>5 DEF load_module, entered
  <2>2. package[x].exports \in Bindings
    BY <1>5, ReplayFits DEF TypeInv, Records
  <2>3. /\ linker' \in Linkers
        /\ linker'.loaded = entered.loaded /\ linker'.loads = entered.loads
        /\ linker'.decls = entered.decls /\ linker'.records = entered.records
        /\ linker'.pending = entered.pending
        /\ linker'.exports = [entered.exports EXCEPT ![x] = package[x].exports]
    BY <1>2, <2>1, <2>2 DEF Linkers
  <2>. QED
    BY <1>2, <1>3, <1>5, <2>1, <2>3
<1>6. CASE x \notin linker.loaded /\ x \notin DOMAIN package
  <2>. DEFINE lds == IF Recording THEN Append(AskedLoads(x), <<>>) ELSE AskedLoads(x)
  <2>1. /\ linker' = [entered EXCEPT
              !.loads = IF Recording THEN Append(@, <<>>) ELSE @,
              !.exports[x] = Local(x),
              !.pending = @ \cup {x}]
        /\ stack' = Append(below, LoadFrame(x))
    BY <1>6 DEF load_module, entered
  <2>2. Local(x) \in Bindings
    BY DEF Local, Bindings, TypeInv, ProgramOK, Pairs
  <2>3. lds \in Seq(Seq(Modules))
    BY <1>1
  <2>4. linker' = [entered EXCEPT !.loads = lds, !.exports[x] = Local(x), !.pending = @ \cup {x}]
    BY <1>2, <2>1 DEF Linkers
  <2>. HIDE DEF lds
  <2>5. /\ linker' \in Linkers
        /\ linker'.loaded = entered.loaded /\ linker'.loads = lds
        /\ linker'.decls = entered.decls /\ linker'.records = entered.records
        /\ linker'.pending = entered.pending \cup {x}
        /\ linker'.exports = [entered.exports EXCEPT ![x] = Local(x)]
    BY <1>2, <2>2, <2>3, <2>4 DEF Linkers
  <2>. QED
    BY <1>2, <1>3, <1>6, <2>1, <2>5 DEF lds
<1>. QED
  BY <1>4, <1>5, <1>6

\* A call that waits for no answer may be below any other.
LEMMA FollowsAny ==
    ASSUME NEW f \in FitFrames, NEW g \in FitFrames, ~Waits(f)
    PROVE  <<f, g>> \in Follows
BY DEF Follows

\* A call goes on and loads.
LEMMA TypedLoad ==
    ASSUME TypeInv, stack # <<>>, NEW f \in FitFrames, Same(f, Top), ~Waits(f),
           NEW x \in Modules, load_module(x, Resumed(f))
    PROVE  TypeInv'
<1>. DEFINE below == [stack EXCEPT ![Len(stack)] = f]
<1>1. /\ ProgramOK /\ package \in Packages /\ TypedAt(linker, stack, found) /\ found \in BOOLEAN
      /\ stack \in Seq(FitFrames) /\ linker \in Linkers
      /\ result \in {"linking", "linked"} \cup Errors
      /\ \A m \in linker.pending : m \in linker.loaded /\ program[m].decls \subseteq DOMAIN linker.exports[m]
  BY DEF TypeInv, TypedAt
<1>2. TypedAt(linker, below, found)
  BY <1>1, TypedPut DEF Top
<1>3. below # <<>> /\ Last(below) = f /\ below \in Seq(FitFrames)
  BY <1>1, PutFacts
<1>4. load_module(x, below)
  BY DEF Resumed
<1>. HIDE DEF below
<1>5. linker' \in Linkers /\ UNCHANGED <<program, package, found, result>>
  BY <1>4, LoadFacts
<1>6. \A m \in linker'.pending : m \in linker'.loaded /\ program[m].decls \subseteq DOMAIN linker'.exports[m]
  <2>1. linker.exports \in [Modules -> Bindings] /\ linker.pending \subseteq Modules
    BY <1>1 DEF Linkers
  <2>2. program[x].decls = DOMAIN Local(x)
    BY DEF Local
  <2>3. linker'.loaded = linker.loaded \cup {x}
    BY <1>4, LoadFacts
  <2>4. CASE linker'.pending = linker.pending /\ linker'.exports = linker.exports
    BY <1>1, <2>3, <2>4
  <2>5. CASE /\ x \notin linker.loaded /\ linker'.pending = linker.pending
             /\ linker'.exports = [linker.exports EXCEPT ![x] = package[x].exports]
    BY <1>1, <2>1, <2>3, <2>5
  <2>6. CASE /\ x \notin linker.loaded /\ linker'.pending = linker.pending \cup {x}
             /\ linker'.exports = [linker.exports EXCEPT ![x] = Local(x)]
    BY <1>1, <2>1, <2>2, <2>3, <2>6
  <2>. QED
    BY <1>4, <2>4, <2>5, <2>6, LoadFacts
<1>7. TypedAt(linker', below, found)
  BY <1>2, <1>3, <1>5, <1>6, TypedMore
<1>8. TypedAt(linker', stack', found)
  <2>1. CASE stack' = below
    BY <1>7, <2>1
  <2>2. CASE x \in DOMAIN package /\ stack' = Append(below, ReplayFrame(x))
    <3>1. ReplayFrame(x) \in FitFrames /\ ~Waits(ReplayFrame(x))
      BY <1>1, <2>2, ReplayFits DEF Waits
    <3>2. <<Last(below), ReplayFrame(x)>> \in Follows
      BY <1>3, <3>1, FollowsAny
    <3>3. TypedAt(linker', Append(below, ReplayFrame(x)), found)
      BY <1>3, <1>7, <3>1, <3>2, TypedPush
    <3>. QED
      BY <2>2, <3>3
  <2>3. CASE stack' = Append(below, LoadFrame(x))
    <3>1. LoadFrame(x) \in FitFrames /\ ~Waits(LoadFrame(x))
      BY <1>1, LoadFits DEF Waits
    <3>2. <<Last(below), LoadFrame(x)>> \in Follows
      BY <1>3, <3>1, FollowsAny
    <3>3. TypedAt(linker', Append(below, LoadFrame(x)), found)
      BY <1>3, <1>7, <3>1, <3>2, TypedPush
    <3>. QED
      BY <2>3, <3>3
  <2>. QED
    BY <1>4, <2>1, <2>2, <2>3, LoadFacts
<1>9. TypedAt(linker', stack', found')
  BY <1>5, <1>8
<1>. QED
  BY <1>1, <1>5, <1>9, TypedNext

\* What is loaded after a load: the calls below have the lists and the modules
\* they had, and what was asked for besides.
LEMMA OrderAsk ==
    ASSUME TypeInv, NEW st \in Seq(FitFrames), st # <<>>, NEW t \in Seq(FitFrames), Alike(t, st),
           Grounded(st), Chain(st, Deps), NEW x \in Modules,
           Last(st).call = "entry" \/ <<Last(st).mod, x>> \in Deps,
           \A i \in DOMAIN st : i # Len(st) => Needs[t[i]] \subseteq Needs[st[i]],
           Needs[Last(t)] \subseteq Needs[Last(st)] \cup {x},
           Listed(st, linker.loads, Needs, Deps)
    PROVE  Listed(t, AskedLoads(x), Needs, Deps)
<1>1. linker \in Linkers /\ ProgramOK
  BY DEF TypeInv, TypedAt
<1>2. linker.loads \in Seq(Seq(Modules))
  BY <1>1 DEF Linkers
<1>3. CASE linker.loads # <<>>
  <2>1. \A i \in DOMAIN st : 1 < i => <<st[i].mod, x>> \in Deps
    BY <1>1, Below
  <2>2. Listed(t, [linker.loads EXCEPT ![Len(linker.loads)] = Append(@, x)], Needs, Deps)
    BY <1>2, <1>3, <2>1, ListsAsk
  <2>. QED
    BY <1>1, <1>3, <2>2, AskedFacts
<1>4. CASE linker.loads = <<>>
  <2>1. AskedLoads(x) = <<>>
    BY <1>1, <1>4, AskedFacts
  <2>2. \A i \in DOMAIN st : st[i].call # "load"
    <3>1. 1..Len(linker.loads) = {}
      BY <1>4
    <3>. QED
      BY <3>1 DEF Listed, Lists
  <2>3. Listed(t, linker.loads, Needs, Deps)
    BY <2>2, ListsAlike
  <2>. QED
    BY <1>4, <2>1, <2>3
<1>. QED
  BY <1>3, <1>4

\* A load that begins has found nothing loaded.
LEMMA FirstNeeds ==
    ASSUME TypeInv, NEW x \in Modules
    PROVE  /\ Needs[LoadFrame(x)] = {}
           /\ x \in DOMAIN package => Needs[ReplayFrame(x)] = {}
<1>1. ProgramOK /\ package \in Packages
  BY DEF TypeInv
<1>2. Needs[LoadFrame(x)] = {}
  <2>1. LoadFrame(x) \in FitFrames /\ LoadFrame(x).call = "load" /\ LoadFrame(x).mod = x
    BY <1>1, LoadFits
  <2>2. LoadFrame(x).at = 1 /\ LoadFrame(x).stage = "load"
    BY DEF LoadFrame
  <2>3. \A j \in DOMAIN Imports(x) : ~Passed(LoadFrame(x), j)
    BY <1>1, <2>2, ImportFacts DEF Passed
  <2>. QED
    BY <2>1, <2>3 DEF Needs
<1>3. ASSUME x \in DOMAIN package PROVE Needs[ReplayFrame(x)] = {}
  <2>1. /\ ReplayFrame(x) \in FitFrames /\ ReplayFrame(x).call = "replay" /\ ReplayFrame(x).mod = x
        /\ ReplayFrame(x).todo = package[x].loads
    BY <1>1, <1>3, ReplayFits
  <2>. QED
    BY <2>1 DEF Needs
<1>. QED
  BY <1>2, <1>3

\* A load on top of calls that are in order.
LEMMA OrderPushLoad ==
    ASSUME ProgramOK, NEW lk, NEW lm, NEW st \in Seq(FitFrames), st # <<>>,
           Grounded(st), Chain(st, Deps), Walk(st, Looks),
           NEW g \in FitFrames, g.call \in {"load", "replay"}, g.mod \notin lk.loaded, Needs[g] = {},
           Last(st).call = "entry" \/ <<Last(st).mod, g.mod>> \in Deps,
           Apart(st, ToSet(HoistedOf(lk))), Accounted(st, ToSet(HoistedOf(lk)), lk.loaded),
           lm.decls = lk.decls, lm.records = lk.records, lm.loaded = lk.loaded \cup {g.mod},
           \A i \in DOMAIN st : Needs[st[i]] \subseteq lm.loaded,
           Recording => Listed(Append(st, g), lm.loads, Needs, Deps),
           ~Recording => lm.loads = <<>>,
           Faithful(lk.records, Uses, Deps),
           IsInjective(HoistedOf(lk)), Ordered(HoistedOf(lk), Uses, Deps)
    PROVE  OrderAt(lm, Append(st, g), "linking")
<1>. DEFINE t == Append(st, g)
            n == Len(st)
<1>1. /\ n \in Nat /\ DOMAIN st = 1..n /\ DOMAIN t = 1..(n + 1)
      /\ \A i \in 1..n : t[i] = st[i]
      /\ t[n + 1] = g
  BY PushFacts
<1>2. HoistedOf(lm) = HoistedOf(lk)
  BY DEF HoistedOf
<1>3. g.mod \in Modules /\ g.call # "entry" /\ g.call # "resolve"
  BY FrameFacts
<1>4. \A i \in DOMAIN st : 1 < i => <<st[i].mod, g.mod>> \in Deps
  BY <1>3, Below
<1>5. Grounded(t) /\ Chain(t, Deps)
  BY <1>3, <1>4, PushShape
<1>6. Walk(t, Looks)
  BY <1>3, PushShape
<1>7. Apart(t, ToSet(HoistedOf(lk))) /\ Accounted(t, ToSet(HoistedOf(lk)), lm.loaded)
  BY PushLoaded
<1>8. \A i \in DOMAIN t : Needs[t[i]] \subseteq lm.loaded
  <2>. HIDE DEF t, n
  <2>. QED
    BY <1>1
<1>. QED
  BY <1>2, <1>5, <1>6, <1>7, <1>8 DEF OrderAt

\* A call goes on and loads, what its module depends on.
LEMMA OrderLoad ==
    ASSUME TypeInv, OrderInv, stack # <<>>, NEW f \in FitFrames, Same(f, Top),
           NEW x \in Modules, load_module(x, Resumed(f)),
           DirectLookups => Top.call = "entry" \/ <<Top.mod, x>> \in Deps,
           Needs[f] \subseteq Needs[Top] \cup {x}
    PROVE  OrderInv'
<1>. DEFINE st == [stack EXCEPT ![Len(stack)] = f]
            n == Len(stack)
            hs == ToSet(HoistedOf(linker))
<1>1. /\ ProgramOK /\ package \in Packages /\ stack \in Seq(FitFrames) /\ linker \in Linkers
  BY DEF TypeInv, TypedAt
<1>2. load_module(x, st) /\ UNCHANGED <<program, package, found, result>>
  BY LoadFacts DEF Resumed
<1>. SUFFICES ASSUME DirectLookups PROVE OrderAt(linker', stack', result')
  BY <1>2, OrderNext
<1>3. OrderAt(linker, stack, result) /\ result = "linking" /\ result \notin Errors
  BY OrderRunning DEF OrderInv
<1>4. /\ Grounded(stack) /\ Chain(stack, Deps) /\ Walk(stack, Looks) /\ Apart(stack, hs)
      /\ Accounted(stack, hs, linker.loaded)
      /\ \A i \in DOMAIN stack : Needs[stack[i]] \subseteq linker.loaded
      /\ Recording => Listed(stack, linker.loads, Needs, Deps)
      /\ ~Recording => linker.loads = <<>>
      /\ Faithful(linker.records, Uses, Deps)
      /\ IsInjective(HoistedOf(linker)) /\ Ordered(HoistedOf(linker), Uses, Deps)
  BY <1>3 DEF OrderAt
<1>5. /\ st \in Seq(FitFrames) /\ st # <<>> /\ DOMAIN st = 1..n /\ DOMAIN stack = 1..n
      /\ n \in Nat \ {0} /\ st[n] = f /\ Last(st) = f /\ \A i \in 1..(n - 1) : st[i] = stack[i]
      /\ Last(stack) = stack[n]
  BY <1>1, PutFacts DEF Last
<1>6. Alike(st, stack)
  BY <1>1, PutAlike DEF Top
<1>. HIDE DEF st
<1>7. Grounded(st) /\ Chain(st, Deps) /\ Walk(st, Looks)
  BY <1>1, <1>4, <1>5, <1>6, AlikeShape
<1>8. Apart(st, hs) /\ Accounted(st, hs, linker.loaded)
  BY <1>1, <1>4, <1>5, <1>6, AlikeLoaded
<1>9. Last(st).call = "entry" \/ <<Last(st).mod, x>> \in Deps
  BY <1>5 DEF Same
<1>10. /\ \A i \in DOMAIN stack : i # Len(stack) => Needs[st[i]] \subseteq Needs[stack[i]]
       /\ Needs[Last(st)] \subseteq Needs[Last(stack)] \cup {x}
  BY <1>5 DEF Top
<1>11. \A i \in DOMAIN st : Needs[st[i]] \subseteq linker.loaded \cup {x}
  BY <1>4, <1>5, <1>10
<1>12. Recording => Listed(st, AskedLoads(x), Needs, Deps)
  BY <1>1, <1>4, <1>5, <1>6, <1>10, OrderAsk DEF Top
<1>13. ~Recording => AskedLoads(x) = <<>>
  BY <1>1, <1>4, AskedFacts
<1>14. /\ linker'.loaded = linker.loaded \cup {x}
       /\ linker'.decls = linker.decls /\ linker'.records = linker.records
       /\ HoistedOf(linker') = HoistedOf(linker)
  BY <1>2, LoadFacts DEF HoistedOf
<1>15. CASE x \in linker.loaded /\ linker'.loads = AskedLoads(x) /\ stack' = st
  <2>1. linker'.loaded = linker.loaded
    BY <1>14, <1>15
  <2>2. OrderAt(linker', st, "linking")
    BY <1>4, <1>7, <1>8, <1>11, <1>12, <1>13, <1>14, <1>15, <2>1 DEF OrderAt
  <2>. QED
    BY <1>2, <1>3, <1>15, <2>2
<1>16. CASE /\ x \notin linker.loaded /\ x \in DOMAIN package
            /\ linker'.loads = AskedLoads(x) /\ stack' = Append(st, ReplayFrame(x))
  <2>1. /\ ReplayFrame(x) \in FitFrames /\ ReplayFrame(x).call = "replay"
        /\ ReplayFrame(x).mod = x /\ Needs[ReplayFrame(x)] = {}
    BY <1>1, <1>16, ReplayFits, FirstNeeds
  <2>2. ~Recording
    BY <1>16 DEF Recording
  <2>. DEFINE g == ReplayFrame(x)
  <2>. HIDE DEF g
  <2>3. /\ g \in FitFrames /\ g.call = "replay" /\ g.mod = x /\ Needs[g] = {} /\ stack' = Append(st, g)
    BY <1>16, <2>1 DEF g
  <2>4. OrderAt(linker', Append(st, g), "linking")
    BY <1>1, <1>4, <1>5, <1>7, <1>8, <1>9, <1>11, <1>13, <1>14, <1>16, <2>2, <2>3, OrderPushLoad
  <2>. QED
    BY <1>2, <1>3, <2>3, <2>4
<1>17. CASE /\ x \notin linker.loaded
            /\ linker'.loads = IF Recording THEN Append(AskedLoads(x), <<>>) ELSE AskedLoads(x)
            /\ stack' = Append(st, LoadFrame(x))
  <2>1. /\ LoadFrame(x) \in FitFrames /\ LoadFrame(x).call = "load"
        /\ LoadFrame(x).mod = x /\ Needs[LoadFrame(x)] = {}
    BY <1>1, LoadFits, FirstNeeds
  <2>. DEFINE g == LoadFrame(x)
  <2>. HIDE DEF g
  <2>2. /\ g \in FitFrames /\ g.call = "load" /\ g.mod = x /\ Needs[g] = {} /\ stack' = Append(st, g)
    BY <1>17, <2>1 DEF g
  <2>3. Recording => Listed(Append(st, g), linker'.loads, Needs, Deps)
    <3>1. AskedLoads(x) \in Seq(Seq(Modules))
      BY <1>1, AskedFacts
    <3>2. Recording => Listed(Append(st, g), Append(AskedLoads(x), <<>>), Needs, Deps)
      BY <1>5, <1>12, <2>2, <3>1, ListsPushLoad
    <3>. QED
      BY <1>17, <3>2
  <2>4. ~Recording => linker'.loads = <<>>
    BY <1>13, <1>17
  <2>5. OrderAt(linker', Append(st, g), "linking")
    BY <1>1, <1>4, <1>5, <1>7, <1>8, <1>9, <1>11, <1>14, <1>17, <2>2, <2>3, <2>4, OrderPushLoad
  <2>. QED
    BY <1>2, <1>3, <2>2, <2>5
<1>. QED
  BY <1>2, <1>15, <1>16, <1>17, LoadFacts

-----------------------------------------------------------------------------
(* Lookups and forced modules. *)

\* A lookup that goes on is one of what its module does not declare.
LEMMA PendingUndeclared ==
    ASSUME TypeInv, NEW m \in linker.pending, NEW n \in Names, n \notin DOMAIN Exports(m)
    PROVE  m \in Modules /\ ~Declared(<<m, n>>)
<1>1. m \in Modules /\ program[m].decls \subseteq DOMAIN linker.exports[m]
  BY DEF TypeInv, TypedAt, Linkers
<1>. QED
  BY <1>1 DEF Declared, Exports

\* A call goes on and looks a name up.
LEMMA TypedResolve ==
    ASSUME TypeInv, stack # <<>>, NEW f \in FitFrames, Same(f, Top),
           NEW m \in Modules, NEW n \in Names, NEW visiting,
           resolve_pending(m, n, visiting, Resumed(f)),
           Waits(f) => SourceOf(f) = <<m, n>>
    PROVE  TypeInv'
<1>. DEFINE below == [stack EXCEPT ![Len(stack)] = f]
            published == n \in DOMAIN Exports(m)
<1>1. /\ ProgramOK /\ TypedAt(linker, stack, found) /\ stack \in Seq(FitFrames)
      /\ result \in {"linking", "linked"} \cup Errors
  BY DEF TypeInv, TypedAt
<1>2. resolve_pending(m, n, visiting, below) /\ UNCHANGED <<program, package, linker>>
  BY DEF Resumed, resolve_pending
<1>3. below # <<>> /\ Last(below) = f /\ below \in Seq(FitFrames)
  BY <1>1, PutFacts
<1>4. CASE published \/ m \notin linker.pending \/ PendingSources(m, n) = {}
  <2>1. found' = published /\ stack' = below /\ result' = result
    BY <1>2, <1>4 DEF resolve_pending
  <2>2. Waits(f) /\ found' => SourceOf(f)[2] \in DOMAIN linker.exports[SourceOf(f)[1]]
    <3>. SUFFICES ASSUME Waits(f), found'
                  PROVE  SourceOf(f)[2] \in DOMAIN linker.exports[SourceOf(f)[1]]
      OBVIOUS
    <3>1. published
      BY <2>1, Zenon
    <3>. QED
      BY <3>1 DEF Exports
  <2>3. found' \in BOOLEAN
    BY <2>1
  <2>4. TypedAt(linker, below, found')
    BY <1>1, <2>2, <2>3, TypedPut DEF Top
  <2>5. TypedAt(linker', stack', found')
    BY <1>2, <2>1, <2>4
  <2>. QED
    BY <1>1, <1>2, <2>1, <2>3, <2>5, TypedNext
<1>5. CASE ~(published \/ m \notin linker.pending \/ PendingSources(m, n) = {})
  <2>1. found' = found
    BY <1>2, <1>5 DEF resolve_pending
  <2>2. CASE <<m, n>> \in visiting
    <3>1. Raise("recursive")
      BY <1>2, <1>5, <2>2 DEF resolve_pending
    <3>2. "recursive" \in Errors
      BY DEF Errors
    <3>. QED
      BY <1>2, <2>1, <3>1, <3>2, TypedRaise
  <2>3. CASE <<m, n>> \notin visiting
    <3>1. stack' = Append(below, ResolveFrame(m, n)) /\ result' = result
      BY <1>2, <1>5, <2>3 DEF resolve_pending
    <3>2. ~Declared(<<m, n>>)
      BY <1>5, PendingUndeclared
    <3>3. /\ ResolveFrame(m, n) \in FitFrames /\ ~Waits(ResolveFrame(m, n))
          /\ ResolveFrame(m, n).call = "resolve" /\ Pair(ResolveFrame(m, n)) = <<m, n>>
      BY <1>1, <1>5, <3>2, ResolveFits
    <3>4. <<f, ResolveFrame(m, n)>> \in Follows
      BY <3>3 DEF Follows
    <3>. DEFINE g == ResolveFrame(m, n)
    <3>. HIDE DEF g
    <3>5. g \in FitFrames /\ ~Waits(g) /\ <<f, g>> \in Follows /\ stack' = Append(below, g)
      BY <3>1, <3>3, <3>4 DEF g
    <3>6. TypedAt(linker, below, FALSE)
      BY <1>1, TypedPut DEF Top
    <3>. HIDE DEF below
    <3>7. TypedAt(linker, Append(below, g), found)
      BY <1>3, <3>5, <3>6, TypedPush
    <3>8. TypedAt(linker', stack', found')
      BY <1>2, <2>1, <3>5, <3>7
    <3>9. found' \in BOOLEAN
      BY <2>1 DEF TypeInv
    <3>. QED
      BY <1>1, <1>2, <3>1, <3>8, <3>9, TypedNext
  <2>. QED
    BY <2>2, <2>3
<1>. QED
  BY <1>4, <1>5

\* A call goes on and looks a name up, where that is not under way already.
LEMMA OrderResolve ==
    ASSUME TypeInv, OrderInv, stack # <<>>, NEW f \in FitFrames, Same(f, Top),
           Needs[f] \subseteq Needs[Top],
           NEW m \in Modules, NEW n \in Names, NEW visiting,
           resolve_pending(m, n, visiting, Resumed(f)),
           Top.call # "entry", <<Top.mod, m>> \in Deps,
           Top.call = "resolve" => <<Pair(Top), <<m, n>>>> \in Looks,
           DirectLookups /\ Walk(stack, Looks) => <<m, n>> \notin visiting
    PROVE  OrderInv'
<1>. DEFINE below == [stack EXCEPT ![Len(stack)] = f]
            published == n \in DOMAIN Exports(m)
<1>1. /\ ProgramOK /\ stack \in Seq(FitFrames)
  BY DEF TypeInv, TypedAt
<1>2. resolve_pending(m, n, visiting, below) /\ UNCHANGED <<program, package, linker>>
  BY DEF Resumed, resolve_pending
<1>3. below # <<>> /\ Last(below) = f /\ below \in Seq(FitFrames)
  BY <1>1, PutFacts
<1>. SUFFICES ASSUME DirectLookups PROVE OrderAt(linker', stack', result')
  BY <1>2, OrderNext
<1>4. OrderAt(linker, stack, result)
  BY DEF OrderInv
<1>5. OrderAt(linker, below, result)
  BY <1>1, <1>4, OrderPut DEF Top
<1>. HIDE DEF below
<1>6. CASE published \/ m \notin linker.pending \/ PendingSources(m, n) = {}
  <2>1. stack' = below /\ result' = result
    BY <1>2, <1>6 DEF resolve_pending
  <2>. QED
    BY <1>2, <1>5, <2>1
<1>7. CASE ~(published \/ m \notin linker.pending \/ PendingSources(m, n) = {})
  <2>1. <<m, n>> \notin visiting
    BY <1>4 DEF OrderAt
  <2>2. stack' = Append(below, ResolveFrame(m, n)) /\ result' = result
    BY <1>2, <1>7, <2>1 DEF resolve_pending
  <2>3. ~Declared(<<m, n>>)
    BY <1>7, PendingUndeclared
  <2>4. /\ ResolveFrame(m, n) \in FitFrames /\ ResolveFrame(m, n).mod = m
        /\ ResolveFrame(m, n).call = "resolve" /\ Pair(ResolveFrame(m, n)) = <<m, n>>
    BY <1>1, <1>7, <2>3, ResolveFits
  <2>. DEFINE g == ResolveFrame(m, n)
  <2>. HIDE DEF g
  <2>5. /\ g \in FitFrames /\ g.call = "resolve" /\ g.mod = m /\ Pair(g) = <<m, n>>
        /\ stack' = Append(below, g)
    BY <2>2, <2>4 DEF g
  <2>6. /\ f.call # "entry" /\ <<f.mod, m>> \in Deps
        /\ f.call = "resolve" => <<Pair(f), <<m, n>>>> \in Looks
    BY DEF Same, Pair
  <2>7. OrderAt(linker, Append(below, g), result)
    BY <1>1, <1>3, <1>5, <2>5, <2>6, OrderPush
  <2>. QED
    BY <1>2, <2>2, <2>5, <2>7
<1>. QED
  BY <1>6, <1>7

\* A call goes on and forces a module.
LEMMA TypedForce ==
    ASSUME TypeInv, stack # <<>>, NEW f \in FitFrames, Same(f, Top), ~Waits(f),
           NEW m \in Modules, force_pending(m, Resumed(f))
    PROVE  TypeInv'
<1>. DEFINE below == [stack EXCEPT ![Len(stack)] = f]
<1>1. /\ ProgramOK /\ TypedAt(linker, stack, found) /\ stack \in Seq(FitFrames) /\ found \in BOOLEAN
      /\ result \in {"linking", "linked"} \cup Errors
  BY DEF TypeInv, TypedAt
<1>2. /\ UNCHANGED <<program, package, linker, found, result>>
      /\ stack' = IF m \in linker.pending THEN Append(below, ForceFrame(m)) ELSE below
  BY DEF Resumed, force_pending
<1>3. below # <<>> /\ Last(below) = f
  BY <1>1, PutFacts
<1>4. TypedAt(linker, below, found)
  BY <1>1, TypedPut DEF Top
<1>. HIDE DEF below
<1>5. ForceFrame(m) \in FitFrames /\ ~Waits(ForceFrame(m)) /\ <<f, ForceFrame(m)>> \in Follows
  BY <1>1, ForceFits, FollowsAny DEF Waits
<1>6. TypedAt(linker, Append(below, ForceFrame(m)), found)
  BY <1>3, <1>4, <1>5, TypedPush
<1>7. TypedAt(linker', stack', found')
  BY <1>2, <1>4, <1>6
<1>. QED
  BY <1>1, <1>2, <1>7, TypedNext

\* And one that its module depends on.
LEMMA OrderForce ==
    ASSUME TypeInv, OrderInv, stack # <<>>, NEW f \in FitFrames, Same(f, Top),
           Needs[f] \subseteq Needs[Top],
           NEW m \in Modules, force_pending(m, Resumed(f)),
           Top.call # "entry", <<Top.mod, m>> \in Deps
    PROVE  OrderInv'
<1>. DEFINE below == [stack EXCEPT ![Len(stack)] = f]
<1>1. ProgramOK /\ stack \in Seq(FitFrames)
  BY DEF TypeInv, TypedAt
<1>2. /\ UNCHANGED <<program, package, linker, found, result>>
      /\ stack' = IF m \in linker.pending THEN Append(below, ForceFrame(m)) ELSE below
  BY DEF Resumed, force_pending
<1>3. below # <<>> /\ Last(below) = f /\ below \in Seq(FitFrames)
  BY <1>1, PutFacts
<1>. SUFFICES ASSUME DirectLookups PROVE OrderAt(linker', stack', result')
  BY <1>2, OrderNext
<1>4. OrderAt(linker, below, result)
  BY <1>1, OrderPut DEF Top, OrderInv
<1>. HIDE DEF below
<1>5. ForceFrame(m) \in FitFrames /\ ForceFrame(m).call = "force" /\ ForceFrame(m).mod = m
  BY <1>1, ForceFits
<1>. DEFINE g == ForceFrame(m)
<1>. HIDE DEF g
<1>6. /\ g \in FitFrames /\ g.call = "force" /\ g.mod = m
      /\ stack' = IF m \in linker.pending THEN Append(below, g) ELSE below
  BY <1>2, <1>5 DEF g
<1>7. f.call # "entry" /\ <<f.mod, m>> \in Deps
  BY DEF Same
<1>8. OrderAt(linker, Append(below, g), result)
  BY <1>1, <1>3, <1>4, <1>6, <1>7, OrderPush
<1>. QED
  BY <1>2, <1>4, <1>6, <1>8

\* A call goes on by itself.
LEMMA ResumeStep ==
    ASSUME TypeInv, OrderInv, stack # <<>>, NEW f \in FitFrames, Same(f, Top), ~Waits(f),
           Needs[f] \subseteq Needs[Top], stack' = Resumed(f),
           UNCHANGED <<program, package, linker, found, result>>
    PROVE  TypeInv' /\ OrderInv'
<1>1. /\ TypedAt(linker, stack, found) /\ stack \in Seq(FitFrames) /\ found \in BOOLEAN
      /\ result \in {"linking", "linked"} \cup Errors
  BY DEF TypeInv, TypedAt
<1>2. TypedAt(linker, [stack EXCEPT ![Len(stack)] = f], found)
  BY <1>1, TypedPut DEF Top
<1>3. TypedAt(linker', stack', found')
  BY <1>2 DEF Resumed
<1>4. DirectLookups => OrderAt(linker, [stack EXCEPT ![Len(stack)] = f], result)
  BY <1>1, OrderPut DEF OrderInv, Top
<1>5. DirectLookups => OrderAt(linker', stack', result')
  BY <1>4 DEF Resumed
<1>. QED
  BY <1>1, <1>3, <1>5, TypedNext, OrderNext

-----------------------------------------------------------------------------
(* The steps, one by one. *)

\* What is bound together, published or public.
LEMMA BindingsFacts ==
    ASSUME NEW b \in Bindings, NEW c \in Bindings
    PROVE  /\ DOMAIN b \subseteq Names /\ \A n \in DOMAIN b : b[n] \in Pairs
           /\ Over(b, c) \in Bindings /\ DOMAIN Over(b, c) = DOMAIN b \cup DOMAIN c
           /\ Public(b) \in Bindings /\ DOMAIN Public(b) \subseteq Names
           /\ \A n \in Names, p \in Pairs :
                 Publish(b, n, p) \in Bindings /\ DOMAIN Publish(b, n, p) = DOMAIN b \cup {n}
<1>1. DOMAIN b \subseteq Names /\ DOMAIN c \subseteq Names
      /\ (\A n \in DOMAIN b : b[n] \in Pairs) /\ (\A n \in DOMAIN c : c[n] \in Pairs)
  BY DEF Bindings
<1>2. DOMAIN Over(b, c) = DOMAIN b \cup DOMAIN c
      /\ Over(b, c) \in [DOMAIN b \cup DOMAIN c -> Pairs]
  BY <1>1 DEF Over
<1>3. Over(b, c) \in Bindings
  BY <1>1, <1>2 DEF Bindings
<1>4. Public(b) \in [DOMAIN b \ Private -> Pairs] /\ DOMAIN b \ Private \subseteq Names
  BY <1>1 DEF Public
<1>5. Public(b) \in Bindings /\ DOMAIN Public(b) \subseteq Names
  BY <1>4 DEF Bindings
<1>6. ASSUME NEW n \in Names, NEW p \in Pairs
      PROVE  Publish(b, n, p) \in Bindings /\ DOMAIN Publish(b, n, p) = DOMAIN b \cup {n}
  <2>1. /\ Publish(b, n, p) \in [DOMAIN b \cup {n} -> Pairs]
        /\ DOMAIN Publish(b, n, p) = DOMAIN b \cup {n}
    BY <1>1 DEF Publish
  <2>. QED
    BY <1>1, <2>1 DEF Bindings
<1>. QED
  BY <1>1, <1>2, <1>3, <1>5, <1>6

\* The call on top.
LEMMA TopFacts ==
    ASSUME TypeInv, stack # <<>>
    PROVE  /\ ProgramOK /\ linker \in Linkers /\ stack \in Seq(FitFrames)
           /\ Top = Last(stack) /\ Top \in FitFrames /\ Fits(Top)
           /\ Top.call = "entry" => Top \in EntryFrames
           /\ Top.call = "load" => Top \in LoadFrames
           /\ Top.call = "replay" => Top \in ReplayFrames
           /\ Top.call = "resolve" => Top \in ResolveFrames
           /\ Top.call = "force" => Top \in ForceFrames
           /\ Top.call # "entry" => Top.mod \in Modules
           /\ \A m \in Modules : Exports(m) \in Bindings
<1>1. ProgramOK /\ linker \in Linkers /\ stack \in Seq(FitFrames)
  BY DEF TypeInv, TypedAt
<1>2. Top = Last(stack) /\ Top \in FitFrames
  BY <1>1, PopFacts DEF Top
<1>3. \A m \in Modules : Exports(m) \in Bindings
  BY <1>1 DEF Linkers, Exports
<1>. QED
  BY <1>1, <1>2, <1>3, FrameFacts

\* Going to another stage is going on as that frame.
LEMMA GotoFacts ==
    ASSUME TypeInv, stack # <<>>, NEW s
    PROVE  Goto(s) = Resumed([Top EXCEPT !.stage = s])
<1>1. stack \in Seq(FitFrames) /\ Top = stack[Len(stack)]
  BY TopFacts, PopFacts
<1>. QED
  BY <1>1 DEF Goto, Resumed

\* A load goes on.
LEMMA LoadGoesOn ==
    ASSUME NEW f \in FitFrames, f.call = "load", NEW g \in LoadFrames,
           g.mod = f.mod, g.reads \subseteq f.reads
    PROVE  g \in FitFrames /\ Same(g, f) /\ ~Waits(g) /\ g.call = "load"
<1>1. g.call = "load"
  BY DEF LoadFrames
<1>2. Fits(g)
  BY <1>1, FrameFacts DEF Fits
<1>. QED
  BY <1>1, <1>2 DEF FitFrames, Frames, Same, Waits

\* It has found loaded the imports it is past.
LEMMA LoadNeeds ==
    ASSUME NEW f \in FitFrames, f.call = "load", NEW g \in FitFrames, g.call = "load", g.mod = f.mod
    PROVE  /\ (\A j \in DOMAIN Imports(f.mod) : Passed(g, j) => Passed(f, j)) => Needs[g] \subseteq Needs[f]
           /\ \A i \in DOMAIN Imports(f.mod) :
                (\A j \in DOMAIN Imports(f.mod) : Passed(g, j) => Passed(f, j) \/ j = i)
                => Needs[g] \subseteq Needs[f] \cup {Imports(f.mod)[i].mod}
BY DEF Needs

\* The entry imports a module.
LEMMA LinkRootStep ==
    ASSUME TypeInv, OrderInv, LinkRoot
    PROVE  TypeInv' /\ OrderInv'
<1>. DEFINE f == EntryFrame(Tail(Top.todo))
            x == Head(Top.todo)
<1>1. stack # <<>> /\ Top.call = "entry" /\ Top.todo # <<>> /\ load_module(x, Resumed(f))
  BY DEF LinkRoot
<1>2. Top \in FitFrames /\ Top.todo \in Seq(Modules)
  BY <1>1, TopFacts DEF EntryFrames
<1>3. x \in Modules /\ f \in FitFrames
  <2>1. Head(Top.todo) \in Modules /\ Tail(Top.todo) \in Seq(Modules)
    BY <1>1, <1>2
  <2>. QED
    BY <2>1, EntryFits
<1>4. Same(f, Top) /\ ~Waits(f) /\ f.call = "entry"
  BY <1>1 DEF Same, Waits, EntryFrame
<1>5. Needs[f] = {}
  BY <1>3, <1>4 DEF Needs
<1>. HIDE DEF f, x
<1>. QED
  BY <1>1, <1>3, <1>4, <1>5, TypedLoad, OrderLoad

\* The statement a load is at.
LEMMA StatementFacts ==
    ASSUME TypeInv, NEW s, AtStatement(s)
    PROVE  /\ stack # <<>> /\ Top \in LoadFrames /\ Top \in FitFrames /\ Top.stage = s /\ Top.call = "load"
           /\ Top.mod \in Modules /\ Top.at \in DOMAIN Imports(Top.mod)
           /\ S = Imports(Top.mod)[Top.at] /\ S \in Statement
           /\ S.mod \in Modules /\ <<Top.mod, S.mod>> \in Deps
           /\ S.kind = "from" => S.name \in Names /\ S.as \in Names
<1>1. stack # <<>> /\ Top.call = "load" /\ Top.stage = s /\ Top.at <= Len(Imports(Top.mod))
  BY DEF AtStatement, Running
<1>2. Top \in LoadFrames /\ Top \in FitFrames /\ Top.mod \in Modules /\ ProgramOK
  BY <1>1, TopFacts
<1>3. Top.at \in Nat \ {0}
  BY <1>2 DEF LoadFrames
<1>4. Top.at \in DOMAIN Imports(Top.mod)
  BY <1>1, <1>2, <1>3, ImportFacts
<1>5. S = Imports(Top.mod)[Top.at]
  BY DEF S
<1>. QED
  BY <1>1, <1>2, <1>4, <1>5, ImportFacts, DepsFacts

\* A load at a statement goes to another stage of it.
LEMMA StageFacts ==
    ASSUME TypeInv, NEW s, AtStatement(s), NEW u \in {"lookup", "bind"}
    PROVE  LET f == [Top EXCEPT !.stage = u]
           IN  /\ f \in FitFrames /\ Same(f, Top) /\ ~Waits(f)
               /\ s # "load" => Needs[f] \subseteq Needs[Top]
               /\ Needs[f] \subseteq Needs[Top] \cup {S.mod}
<1>. DEFINE f == [Top EXCEPT !.stage = u]
<1>1. f \in LoadFrames /\ f.mod = Top.mod /\ f.reads = Top.reads /\ f.at = Top.at /\ f.stage = u
  BY StatementFacts DEF LoadFrames
<1>. HIDE DEF f
<1>2. f \in FitFrames /\ Same(f, Top) /\ ~Waits(f) /\ f.call = "load"
  BY <1>1, StatementFacts, LoadGoesOn
<1>3. \A j \in DOMAIN Imports(Top.mod) :
         /\ Passed(f, j) => Passed(Top, j) \/ j = Top.at
         /\ s # "load" /\ Passed(f, j) => Passed(Top, j)
  BY <1>1, StatementFacts DEF Passed
<1>4. s # "load" => Needs[f] \subseteq Needs[Top]
  BY <1>1, <1>2, <1>3, StatementFacts, LoadNeeds
<1>5. Needs[f] \subseteq Needs[Top] \cup {S.mod}
  BY <1>1, <1>2, <1>3, StatementFacts, LoadNeeds
<1>. QED
  BY <1>2, <1>4, <1>5 DEF f

\* A load is past a statement.
LEMMA PastFacts ==
    ASSUME TypeInv, NEW s, AtStatement(s), s # "load", NEW g \in LoadFrames,
           g.mod = Top.mod, g.reads = Top.reads, g.at = Top.at
    PROVE  /\ Past(g) \in FitFrames /\ Same(Past(g), Top) /\ ~Waits(Past(g))
           /\ Needs[Past(g)] \subseteq Needs[Top]
<1>. DEFINE f == Past(g)
<1>1. f \in LoadFrames /\ f.mod = Top.mod /\ f.reads = Top.reads /\ f.at = Top.at + 1 /\ f.stage = "load"
  <2>1. g.at \in Nat \ {0}
    BY DEF LoadFrames
  <2>2. f = [g EXCEPT !.at = g.at + 1, !.stage = "load"]
    BY DEF Past, LoadFrames
  <2>3. f \in LoadFrames
    <3>. DEFINE k == g.at + 1
    <3>1. k \in Nat \ {0} /\ f = [g EXCEPT !.at = k, !.stage = "load"]
      BY <2>1, <2>2
    <3>. HIDE DEF k, f
    <3>. QED
      BY <3>1 DEF LoadFrames
  <2>4. f.mod = g.mod /\ f.reads = g.reads /\ f.at = g.at + 1 /\ f.stage = "load"
    BY <2>2 DEF LoadFrames
  <2>. QED
    BY <2>3, <2>4
<1>. HIDE DEF f
<1>2. f \in FitFrames /\ Same(f, Top) /\ ~Waits(f) /\ f.call = "load"
  BY <1>1, StatementFacts, LoadGoesOn
<1>3. ProgramOK /\ Top.mod \in Modules /\ Top.at \in Nat /\ Top.stage = s
  BY StatementFacts, TopFacts DEF LoadFrames
<1>4. DOMAIN Imports(Top.mod) \subseteq Nat
  BY <1>3, ImportFacts
<1>5. \A j \in DOMAIN Imports(Top.mod) : Passed(f, j) => Passed(Top, j)
  BY <1>1, <1>3, <1>4 DEF Passed
<1>6. Needs[f] \subseteq Needs[Top]
  BY <1>1, <1>2, <1>5, StatementFacts, LoadNeeds
<1>. QED
  BY <1>2, <1>6 DEF f

\* A load follows a statement.
LEMMA LoadImportedStep ==
    ASSUME TypeInv, OrderInv, LoadImported
    PROVE  TypeInv' /\ OrderInv'
<1>1. AtStatement("load")
  BY DEF LoadImported
<1>2. stack # <<>> /\ S.mod \in Modules /\ <<Top.mod, S.mod>> \in Deps
  BY <1>1, StatementFacts
<1>3. CASE S.mod = Top.mod
  <2>1. Raise("self") /\ UNCHANGED <<program, package, linker, found>>
    BY <1>3 DEF LoadImported
  <2>2. "self" \in Errors /\ "self" \in Errors \ {"recursive"}
    BY DEF Errors
  <2>. QED
    BY <2>1, <2>2, TypedRaise, OrderRaise
<1>4. CASE S.mod # Top.mod
  <2>. DEFINE f == [Top EXCEPT !.stage = "lookup"]
              x == S.mod
  <2>1. load_module(x, Resumed(f))
    BY <1>2, <1>4, GotoFacts DEF LoadImported
  <2>2. f \in FitFrames /\ Same(f, Top) /\ ~Waits(f) /\ Needs[f] \subseteq Needs[Top] \cup {x}
    BY <1>1, StageFacts
  <2>3. x \in Modules /\ <<Top.mod, x>> \in Deps
    BY <1>2
  <2>. HIDE DEF f, x
  <2>. QED
    BY <1>2, <2>1, <2>2, <2>3, TypedLoad, OrderLoad
<1>. QED
  BY <1>3, <1>4

\* It binds a module's namespace.
LEMMA ApplyImportStep ==
    ASSUME TypeInv, OrderInv, apply_import
    PROVE  TypeInv' /\ OrderInv'
<1>. DEFINE ms == [Top.members EXCEPT ![S.mod] = Exports(S.mod)]
            ld == IF S.mod \in linker.pending THEN Top.loading \cup {S.mod} ELSE Top.loading
            g == [Top EXCEPT !.members = ms, !.loading = ld]
<1>1. AtStatement("lookup") /\ UNCHANGED <<program, package, linker, found, result>>
  BY DEF apply_import
<1>2. /\ stack # <<>> /\ Top \in LoadFrames /\ S.mod \in Modules
      /\ Exports(S.mod) \in Bindings
  BY <1>1, StatementFacts, TopFacts
<1>3. stack' = Resumed(Past(g))
  BY <1>2 DEF apply_import, LoadFrames
<1>4. ms \in [Modules -> Bindings] /\ ld \in SUBSET Modules
  BY <1>2 DEF LoadFrames
<1>. HIDE DEF ms, ld
<1>5. g \in LoadFrames /\ g.mod = Top.mod /\ g.reads = Top.reads /\ g.at = Top.at
  BY <1>2, <1>4 DEF LoadFrames
<1>. HIDE DEF g
<1>6. /\ Past(g) \in FitFrames /\ Same(Past(g), Top) /\ ~Waits(Past(g))
      /\ Needs[Past(g)] \subseteq Needs[Top]
  BY <1>1, <1>5, PastFacts
<1>. QED
  BY <1>1, <1>2, <1>3, <1>6, ResumeStep

\* It looks a name up.
LEMMA LookUpNameStep ==
    ASSUME TypeInv, OrderInv, LookUpName
    PROVE  TypeInv' /\ OrderInv'
<1>. DEFINE f == [Top EXCEPT !.stage = "bind"]
            x == S.mod
            n == S.name
<1>1. AtStatement("lookup") /\ S.kind = "from"
  BY DEF LookUpName
<1>2. /\ stack # <<>> /\ x \in Modules /\ <<Top.mod, x>> \in Deps /\ n \in Names
      /\ Top.call # "entry" /\ Top.call # "resolve"
  BY <1>1, StatementFacts
<1>3. resolve_pending(x, n, {}, Resumed(f))
  BY <1>2, GotoFacts DEF LookUpName
<1>4. f \in FitFrames /\ Same(f, Top) /\ ~Waits(f) /\ Needs[f] \subseteq Needs[Top]
  BY <1>1, StageFacts
<1>. HIDE DEF f, x, n
<1>5. TypeInv'
  BY <1>2, <1>3, <1>4, TypedResolve
<1>6. OrderInv'
  BY <1>2, <1>3, <1>4, OrderResolve
<1>. QED
  BY <1>5, <1>6

\* It forces a module whose names it imports.
LEMMA ForceImportedStep ==
    ASSUME TypeInv, OrderInv, ForceImported
    PROVE  TypeInv' /\ OrderInv'
<1>. DEFINE f == [Top EXCEPT !.stage = "bind"]
            x == S.mod
<1>1. AtStatement("lookup")
  BY DEF ForceImported
<1>2. stack # <<>> /\ x \in Modules /\ <<Top.mod, x>> \in Deps /\ Top.call # "entry"
  BY <1>1, StatementFacts
<1>3. force_pending(x, Resumed(f))
  BY <1>2, GotoFacts DEF ForceImported
<1>4. f \in FitFrames /\ Same(f, Top) /\ ~Waits(f) /\ Needs[f] \subseteq Needs[Top]
  BY <1>1, StageFacts
<1>. HIDE DEF f, x
<1>. QED
  BY <1>2, <1>3, <1>4, TypedForce, OrderForce

\* It binds the names of a statement.
LEMMA BindStep ==
    ASSUME TypeInv, OrderInv, bind_from_imports
    PROVE  TypeInv' /\ OrderInv'
<1>. DEFINE target == Exports(S.mod)[S.name]
<1>1. AtStatement("bind") /\ UNCHANGED <<program, package, linker, found>>
  BY DEF bind_from_imports
<1>2. /\ stack # <<>> /\ Top \in LoadFrames /\ S.mod \in Modules /\ S \in Statement
      /\ Exports(S.mod) \in Bindings /\ Top.bindings \in Bindings
      /\ S.kind = "from" => S.name \in Names /\ S.as \in Names
  BY <1>1, StatementFacts, TopFacts DEF LoadFrames
<1>3. ASSUME NEW b \in Bindings, NEW e \in SUBSET Names,
             stack' = Resumed(Past([Top EXCEPT !.bindings = b, !.explicit = e])),
             result' = result
      PROVE  TypeInv' /\ OrderInv'
  <2>. DEFINE g == [Top EXCEPT !.bindings = b, !.explicit = e]
  <2>1. g \in LoadFrames /\ g.mod = Top.mod /\ g.reads = Top.reads /\ g.at = Top.at
    BY <1>2 DEF LoadFrames
  <2>2. stack' = Resumed(Past(g))
    BY <1>3
  <2>. HIDE DEF g
  <2>3. /\ Past(g) \in FitFrames /\ Same(Past(g), Top) /\ ~Waits(Past(g))
        /\ Needs[Past(g)] \subseteq Needs[Top]
    BY <1>1, <2>1, PastFacts
  <2>. QED
    BY <1>1, <1>2, <1>3, <2>2, <2>3, ResumeStep
<1>4. ASSUME NEW err \in {"missing", "duplicate"}, Raise(err) PROVE TypeInv' /\ OrderInv'
  <2>1. err \in Errors /\ err \in Errors \ {"recursive"}
    BY DEF Errors
  <2>. QED
    BY <1>1, <1>4, <2>1, TypedRaise, OrderRaise
<1>5. CASE S.kind = "star"
  <2>1. /\ stack' = Resumed(Past([Top EXCEPT !.bindings = Over(Public(Exports(S.mod)), @)]))
        /\ result' = result
    BY <1>5 DEF bind_from_imports
  <2>. DEFINE b == Over(Public(Exports(S.mod)), Top.bindings)
  <2>2. b \in Bindings
    <3>1. Public(Exports(S.mod)) \in Bindings
      BY <1>2, BindingsFacts
    <3>. QED
      BY <1>2, <3>1, BindingsFacts
  <2>3. [Top EXCEPT !.bindings = Over(Public(Exports(S.mod)), @)]
          = [Top EXCEPT !.bindings = b, !.explicit = Top.explicit]
    BY <1>2 DEF LoadFrames
  <2>4. Top.explicit \in SUBSET Names
    BY <1>2 DEF LoadFrames
  <2>. HIDE DEF b
  <2>. QED
    BY <1>3, <2>1, <2>2, <2>3, <2>4
<1>6. CASE S.kind = "from" /\ S.name \notin DOMAIN Exports(S.mod)
  <2>1. Raise("missing")
    BY <1>6 DEF bind_from_imports
  <2>. QED
    BY <1>4, <2>1
<1>7. CASE S.kind = "from" /\ S.name \in DOMAIN Exports(S.mod)
  <2>1. \/ Raise("duplicate")
        \/ /\ stack' = Resumed(Past([Top EXCEPT !.bindings = Publish(@, S.as, target),
                                                !.explicit = @ \cup {S.as}]))
           /\ result' = result
    BY <1>7 DEF bind_from_imports
  <2>2. target \in Pairs
    BY <1>2, <1>7, BindingsFacts
  <2>. DEFINE b == Publish(Top.bindings, S.as, target)
              e == Top.explicit \cup {S.as}
  <2>3. b \in Bindings /\ e \in SUBSET Names
    BY <1>2, <1>7, <2>2, BindingsFacts DEF LoadFrames
  <2>4. [Top EXCEPT !.bindings = Publish(@, S.as, target), !.explicit = @ \cup {S.as}]
          = [Top EXCEPT !.bindings = b, !.explicit = e]
    BY <1>2 DEF LoadFrames
  <2>. HIDE DEF b, e, target
  <2>. QED
    BY <1>3, <1>4, <2>1, <2>3, <2>4
<1>8. S.kind \in {"star", "from"}
  BY DEF bind_from_imports
<1>. QED
  BY <1>5, <1>6, <1>7, <1>8

\* The lookup on top: the source it is to try.
LEMMA LookupFacts ==
    ASSUME TypeInv, NEW s, Running("resolve", s)
    PROVE  /\ stack # <<>> /\ Top \in ResolveFrames /\ Top \in FitFrames /\ Top.call = "resolve" /\ Top.stage = s
           /\ Top.mod \in Modules /\ Top.name \in Names /\ Top.todo \in SUBSET Nat /\ Top.todo # {}
           /\ Top.todo \subseteq PendingSources(Top.mod, Top.name) /\ ~Declared(Pair(Top))
           /\ Pair(Top) \in Pairs /\ NextSource = SourceOf(Top)
           /\ NextSource \in Pairs /\ NextSource[1] \in Modules /\ NextSource[2] \in Names
           /\ NextSource = <<NextSource[1], NextSource[2]>>
           /\ <<Top.mod, NextSource[1]>> \in Deps
           /\ <<Pair(Top), NextSource>> \in LookupEdges
<1>1. stack # <<>> /\ Top.call = "resolve" /\ Top.stage = s
  BY DEF Running
<1>2. Top \in ResolveFrames /\ Top \in FitFrames /\ Fits(Top) /\ ProgramOK
  BY <1>1, TopFacts
<1>3. Top.mod \in Modules /\ Top.name \in Names /\ Top.todo \in SUBSET Nat
  BY <1>2 DEF ResolveFrames
<1>4. /\ Top.todo # {} /\ Top.todo \subseteq PendingSources(Top.mod, Top.name)
      /\ ~Declared(<<Top.mod, Top.name>>)
  BY <1>1, <1>2 DEF Fits
<1>5. Min(Top.todo) \in PendingSources(Top.mod, Top.name)
  BY <1>3, <1>4, MinFacts
<1>6. /\ Source(Top.mod, Top.name, Min(Top.todo)) \in Pairs
      /\ Source(Top.mod, Top.name, Min(Top.todo))[1] \in Uses[Top.mod]
      /\ <<<<Top.mod, Top.name>>, Source(Top.mod, Top.name, Min(Top.todo))>> \in LookupEdges
  BY <1>2, <1>3, <1>4, <1>5, SourceFacts
<1>7. NextSource = SourceOf(Top) /\ NextSource \in Pairs /\ NextSource[1] \in Uses[Top.mod]
      /\ <<Pair(Top), NextSource>> \in LookupEdges /\ ~Declared(Pair(Top))
  BY <1>4, <1>6 DEF NextSource, SourceOf, Pair
<1>8. /\ NextSource[1] \in Modules /\ NextSource[2] \in Names
      /\ NextSource = <<NextSource[1], NextSource[2]>>
      /\ Pair(Top) \in Pairs
  BY <1>3, <1>7 DEF Pairs, Pair
<1>9. <<Top.mod, NextSource[1]>> \in Deps
  BY <1>2, <1>3, <1>7, DepsFacts
<1>. QED
  BY <1>1, <1>2, <1>3, <1>4, <1>7, <1>8, <1>9

\* A lookup goes on.
LEMMA LookupGoesOn ==
    ASSUME TypeInv, stack # <<>>, Top.call = "resolve", NEW u \in {"load", "lookup", "publish"},
           NEW rest \in SUBSET Top.todo, rest # {}
    PROVE  LET f == [Top EXCEPT !.todo = rest, !.stage = u]
           IN  f \in FitFrames /\ Same(f, Top) /\ Needs[f] = {}
<1>. DEFINE f == [Top EXCEPT !.todo = rest, !.stage = u]
<1>. Running("resolve", Top.stage)
  BY DEF Running
<1>1. /\ f \in ResolveFrames /\ f.call = "resolve" /\ f.mod = Top.mod /\ f.name = Top.name
      /\ f.todo = rest /\ f.stage = u
  BY LookupFacts DEF ResolveFrames
<1>. HIDE DEF f
<1>2. Fits(f)
  BY <1>1, LookupFacts DEF Fits, Pair
<1>3. f \in FitFrames /\ Same(f, Top)
  BY <1>1, <1>2, LookupFacts DEF FitFrames, Frames, Same
<1>4. Needs[f] = {}
  BY <1>1, <1>3 DEF Needs
<1>. QED
  BY <1>1, <1>3, <1>4 DEF f

\* And at the same source.
LEMMA LookupStage ==
    ASSUME TypeInv, NEW s, Running("resolve", s), NEW u \in {"load", "lookup", "publish"}
    PROVE  LET f == [Top EXCEPT !.stage = u]
           IN  /\ f \in FitFrames /\ Same(f, Top) /\ Needs[f] = {} /\ f.call = "resolve"
               /\ f.stage = u /\ SourceOf(f) = NextSource
<1>. DEFINE f == [Top EXCEPT !.stage = u]
            rest == Top.todo
            g == [Top EXCEPT !.todo = rest, !.stage = u]
<1>1. f = g
  BY LookupFacts DEF ResolveFrames
<1>2. rest \in SUBSET Top.todo /\ rest # {} /\ stack # <<>> /\ Top.call = "resolve"
  BY LookupFacts
<1>. HIDE DEF rest, f
<1>3. g \in FitFrames /\ Same(g, Top) /\ Needs[g] = {}
  BY <1>2, LookupGoesOn
<1>4. g.stage = u /\ g.todo = rest
  BY LookupFacts DEF ResolveFrames
<1>. HIDE DEF g
<1>5. g.call = "resolve" /\ g.mod = Top.mod /\ g.name = Top.name
  BY <1>2, <1>3 DEF Same
<1>6. SourceOf(g) = NextSource
  BY <1>4, <1>5 DEF SourceOf, NextSource, rest
<1>. QED
  BY <1>1, <1>3, <1>4, <1>5, <1>6 DEF f

\* A lookup loads the module of its source.
LEMMA LoadSourceStep ==
    ASSUME TypeInv, OrderInv, LoadSource
    PROVE  TypeInv' /\ OrderInv'
<1>. DEFINE f == [Top EXCEPT !.stage = "lookup"]
            x == NextSource[1]
<1>1. Running("resolve", "load")
  BY DEF LoadSource
<1>2. stack # <<>> /\ x \in Modules /\ <<Top.mod, x>> \in Deps
  BY <1>1, LookupFacts
<1>3. load_module(x, Resumed(f))
  BY <1>2, GotoFacts DEF LoadSource
<1>4. f \in FitFrames /\ Same(f, Top) /\ Needs[f] = {} /\ f.stage = "lookup"
  BY <1>1, LookupStage
<1>5. ~Waits(f)
  BY <1>4 DEF Waits
<1>. HIDE DEF f, x
<1>. QED
  BY <1>2, <1>3, <1>4, <1>5, TypedLoad, OrderLoad

\* A lookup of what is looked up already would lead back to itself.
LEMMA NotVisited ==
    ASSUME TypeInv, NEW s, Running("resolve", s), DirectLookups, Walk(stack, Looks)
    PROVE  NextSource \notin Visiting
<1>. SUFFICES ASSUME NextSource \in Visiting PROVE FALSE
  OBVIOUS
<1>1. PICK i \in DOMAIN stack : /\ \A j \in i..Len(stack) : stack[j].call = "resolve"
                                /\ NextSource = Pair(stack[i])
  BY DEF Visiting, Pair
<1>2. stack # <<>> /\ stack \in Seq(FitFrames)
  BY LookupFacts, TopFacts
<1>3. Len(stack) \in DOMAIN stack /\ DOMAIN stack = 1..Len(stack) /\ Len(stack) \in Nat /\ Top = stack[Len(stack)]
  BY <1>2, PopFacts DEF Top
<1>4. <<Pair(stack[i]), Pair(stack[Len(stack)])>> \in Looks
  BY <1>1, <1>3 DEF Walk
<1>5. <<NextSource, Pair(Top)>> \in Looks
  BY <1>1, <1>3, <1>4
<1>. QED
  BY <1>5, LookupFacts, LooksFacts

\* A lookup asks for the name at its source.
LEMMA ResolveSourceStep ==
    ASSUME TypeInv, OrderInv, ResolveSource
    PROVE  TypeInv' /\ OrderInv'
<1>. DEFINE f == [Top EXCEPT !.stage = "publish"]
            x == NextSource[1]
            n == NextSource[2]
<1>1. Running("resolve", "lookup")
  BY DEF ResolveSource
<1>2. /\ stack # <<>> /\ x \in Modules /\ n \in Names /\ <<Top.mod, x>> \in Deps
      /\ Top.call = "resolve" /\ <<Pair(Top), <<x, n>>>> \in LookupEdges
      /\ Pair(Top) \in Pairs /\ <<x, n>> \in Pairs /\ NextSource = <<x, n>>
  BY <1>1, LookupFacts
<1>3. resolve_pending(x, n, Visiting, Resumed(f))
  BY <1>2, GotoFacts DEF ResolveSource
<1>4. f \in FitFrames /\ Same(f, Top) /\ Needs[f] = {} /\ SourceOf(f) = <<x, n>>
  BY <1>1, <1>2, LookupStage
<1>5. DirectLookups /\ Walk(stack, Looks) => <<x, n>> \notin Visiting
  BY <1>1, <1>2, NotVisited
<1>6. <<Pair(Top), <<x, n>>>> \in Looks
  BY <1>2, LooksFacts
<1>. HIDE DEF f, x, n
<1>7. TypeInv'
  BY <1>2, <1>3, <1>4, TypedResolve
<1>8. OrderInv'
  BY <1>2, <1>3, <1>4, <1>5, <1>6, OrderResolve
<1>. QED
  BY <1>7, <1>8

\* A lookup that waits for the one on top is for what that one looks up.
LEMMA AnswerFacts ==
    ASSUME TypeInv, stack # <<>>, Front(stack) # <<>>, Waits(Last(Front(stack)))
    PROVE  Top.call = "resolve" /\ SourceOf(Last(Front(stack))) = Pair(Top)
<1>. DEFINE n == Len(stack)
<1>1. stack \in Seq(FitFrames) /\ Linked(stack, Follows)
  BY DEF TypeInv, TypedAt
<1>2. /\ n \in Nat \ {0} /\ DOMAIN stack = 1..n /\ Front(stack) \in Seq(FitFrames)
      /\ Len(Front(stack)) = n - 1 /\ \A i \in 1..(n - 1) : Front(stack)[i] = stack[i]
      /\ Top = stack[n]
  BY <1>1, PopFacts DEF Top
<1>3. n - 1 \in 1..(n - 1) /\ Last(Front(stack)) = Front(stack)[n - 1]
  BY <1>2, PopFacts
<1>4. Last(Front(stack)) = stack[n - 1] /\ n - 1 \in DOMAIN stack /\ (n - 1) + 1 = n /\ n \in DOMAIN stack
  BY <1>2, <1>3
<1>5. <<stack[n - 1], stack[n]>> \in Follows
  BY <1>1, <1>4 DEF Linked
<1>. QED
  BY <1>2, <1>4, <1>5 DEF Follows

\* The answer of a lookup is right when it is read.
LEMMA FoundFacts ==
    ASSUME TypeInv, Running("resolve", "publish"), found
    PROVE  Exports(NextSource[1])[NextSource[2]] \in Pairs
<1>1. Waits(Top) /\ Top = Last(stack) /\ stack # <<>> /\ NextSource = SourceOf(Top)
  BY LookupFacts, TopFacts DEF Waits
<1>2. NextSource[2] \in DOMAIN Exports(NextSource[1])
  BY <1>1 DEF TypeInv, TypedAt, Exports
<1>3. Exports(NextSource[1]) \in Bindings
  BY <1>1, LookupFacts, TopFacts
<1>. QED
  BY <1>2, <1>3, BindingsFacts

\* A lookup publishes what it found.
LEMMA PublishedFacts ==
    ASSUME TypeInv, publish_pending
    PROVE  /\ linker' \in Linkers
           /\ linker'.loaded = linker.loaded /\ linker'.pending = linker.pending
           /\ linker'.decls = linker.decls /\ linker'.loads = linker.loads
           /\ linker'.records = linker.records
           /\ \A m \in Modules : DOMAIN Exports(m) \subseteq DOMAIN linker'.exports[m]
           /\ found => Top.name \in DOMAIN linker'.exports[Top.mod]
<1>. DEFINE target == Exports(NextSource[1])[NextSource[2]]
            b == Publish(Exports(Top.mod), Top.name, target)
            e == [linker.exports EXCEPT ![Top.mod] = b]
<1>1. Running("resolve", "publish")
  BY DEF publish_pending
<1>2. linker \in Linkers /\ Top.mod \in Modules /\ Top.name \in Names /\ Exports(Top.mod) \in Bindings
  BY <1>1, LookupFacts, TopFacts
<1>3. CASE ~found
  <2>1. linker' = linker
    BY <1>3 DEF publish_pending
  <2>. QED
    BY <1>2, <1>3, <2>1 DEF Exports
<1>4. CASE found
  <2>1. target \in Pairs
    BY <1>1, <1>4, FoundFacts
  <2>2. linker' = [linker EXCEPT !.exports = e]
    <3>1. linker' = [linker EXCEPT !.exports[Top.mod] = Publish(@, Top.name, target)]
      BY <1>4 DEF publish_pending
    <3>. QED
      BY <1>2, <3>1 DEF Exports, Linkers
  <2>. HIDE DEF target
  <2>3. b \in Bindings /\ DOMAIN b = DOMAIN Exports(Top.mod) \cup {Top.name}
    BY <1>2, <2>1, BindingsFacts
  <2>4. e \in [Modules -> Bindings] /\ e[Top.mod] = b /\ \A m \in Modules : m # Top.mod => e[m] = Exports(m)
    <3>. HIDE DEF b
    <3>. QED
      BY <1>2, <2>3 DEF Linkers, Exports
  <2>. HIDE DEF e
  <2>5. /\ linker' \in Linkers /\ linker'.exports = e
        /\ linker'.loaded = linker.loaded /\ linker'.pending = linker.pending
        /\ linker'.decls = linker.decls /\ linker'.loads = linker.loads
        /\ linker'.records = linker.records
    BY <1>2, <2>2, <2>4 DEF Linkers
  <2>6. \A m \in Modules : DOMAIN Exports(m) \subseteq DOMAIN e[m]
    BY <1>2, <2>3, <2>4
  <2>. QED
    BY <1>2, <2>3, <2>4, <2>5, <2>6
<1>. QED
  BY <1>3, <1>4

\* The order is not about what is exported.
LEMMA OrderExports ==
    ASSUME NEW lk, NEW lm, NEW st, NEW res, OrderAt(lk, st, res),
           lm.loaded = lk.loaded, lm.decls = lk.decls, lm.loads = lk.loads, lm.records = lk.records
    PROVE  OrderAt(lm, st, res)
BY DEF OrderAt, HoistedOf

\* And returns, or goes on with its next source.
LEMMA PublishStep ==
    ASSUME TypeInv, OrderInv, publish_pending
    PROVE  TypeInv' /\ OrderInv'
<1>1. Running("resolve", "publish") /\ UNCHANGED <<program, package, found, result>>
  BY DEF publish_pending
<1>2. /\ stack # <<>> /\ Top.call = "resolve" /\ Top = Last(stack) /\ stack \in Seq(FitFrames)
      /\ Top.todo \in SUBSET Nat /\ Top.todo # {} /\ Top.mod \in Modules /\ Top \in FitFrames
      /\ TypedAt(linker, stack, found) /\ found \in BOOLEAN
      /\ result \in {"linking", "linked"} \cup Errors
  BY <1>1, LookupFacts, TopFacts DEF TypeInv
<1>3. /\ linker' \in Linkers
      /\ \A m \in linker'.pending : m \in linker'.loaded /\ program[m].decls \subseteq DOMAIN linker'.exports[m]
  <2>1. \A m \in linker.pending : m \in linker.loaded /\ program[m].decls \subseteq DOMAIN Exports(m)
    BY <1>2 DEF TypedAt, Exports
  <2>2. linker.pending \subseteq Modules
    BY <1>2 DEF TypedAt, Linkers
  <2>. QED
    BY <2>1, <2>2, PublishedFacts
<1>4. CASE found \/ Rest = {}
  <2>1. stack' = Front(stack)
    BY <1>4 DEF publish_pending, Return
  <2>2. Front(stack) # <<>> /\ Waits(Last(Front(stack))) /\ found =>
            SourceOf(Last(Front(stack)))[2] \in DOMAIN linker'.exports[SourceOf(Last(Front(stack)))[1]]
    <3>. SUFFICES ASSUME Front(stack) # <<>>, Waits(Last(Front(stack))), found
                  PROVE  SourceOf(Last(Front(stack)))[2] \in DOMAIN linker'.exports[SourceOf(Last(Front(stack)))[1]]
      OBVIOUS
    <3>1. SourceOf(Last(Front(stack))) = Pair(Top)
      BY <1>2, AnswerFacts
    <3>2. Pair(Top)[1] = Top.mod /\ Pair(Top)[2] = Top.name
      BY DEF Pair
    <3>. QED
      BY <3>1, <3>2, PublishedFacts
  <2>3. Front(stack) \in Seq(FitFrames) /\ Linked(Front(stack), Follows)
    BY <1>2, PopFacts, PopShape DEF TypedAt
  <2>4. TypedAt(linker', Front(stack), found)
    BY <1>3, <2>2, <2>3 DEF TypedAt
  <2>5. TypedAt(linker', stack', found')
    BY <1>1, <2>1, <2>4
  <2>6. DirectLookups => OrderAt(linker', stack', result')
    <3>1. DirectLookups => OrderAt(linker, Front(stack), result)
      BY <1>2, OrderPop DEF OrderInv
    <3>2. DirectLookups => OrderAt(linker', Front(stack), result)
      BY <3>1, PublishedFacts, OrderExports
    <3>. QED
      BY <1>1, <2>1, <3>2
  <2>. QED
    BY <1>1, <1>2, <2>5, <2>6, TypedNext, OrderNext
<1>5. CASE ~(found \/ Rest = {})
  <2>1. linker' = linker /\ stack' = Resumed([Top EXCEPT !.todo = Rest, !.stage = "load"])
    BY <1>5 DEF publish_pending
  <2>2. Rest \in SUBSET Top.todo /\ Rest # {}
    BY <1>5 DEF Rest
  <2>. DEFINE rest == Rest
              f == [Top EXCEPT !.todo = rest, !.stage = "load"]
  <2>. HIDE DEF rest
  <2>3. f \in FitFrames /\ Same(f, Top) /\ Needs[f] = {}
    BY <1>2, <2>2, LookupGoesOn DEF rest
  <2>4. stack' = Resumed(f)
    BY <2>1 DEF rest
  <2>5. ~Waits(f)
    <3>1. f.stage = "load"
      BY <1>1, LookupFacts DEF ResolveFrames
    <3>. QED
      BY <3>1 DEF Waits
  <2>. HIDE DEF f
  <2>. QED
    BY <1>1, <1>2, <2>1, <2>3, <2>4, <2>5, ResumeStep
<1>. QED
  BY <1>4, <1>5

\* The forced module on top: the wildcard it is to follow.
LEMMA ForcedFacts ==
    ASSUME TypeInv, stack # <<>>, Top.call = "force"
    PROVE  /\ Top \in ForceFrames /\ Top \in FitFrames /\ Top.mod \in Modules
           /\ Top.todo \in SUBSET Nat /\ Top.todo \subseteq Wildcards(Top.mod) /\ Top.names \in SUBSET Names
           /\ Top.stage \in {"lookup", "collect"} => Top.todo # {}
           /\ Top.todo # {} => NextWildcard \in Modules /\ <<Top.mod, NextWildcard>> \in Deps
<1>1. Top \in ForceFrames /\ Top \in FitFrames /\ Fits(Top) /\ ProgramOK
  BY TopFacts
<1>2. Top.mod \in Modules /\ Top.todo \in SUBSET Nat /\ Top.names \in SUBSET Names
  BY <1>1 DEF ForceFrames
<1>3. /\ Top.todo \subseteq Wildcards(Top.mod)
      /\ Top.stage \in {"lookup", "collect"} => Top.todo # {}
  BY <1>1 DEF Fits
<1>4. ASSUME Top.todo # {} PROVE NextWildcard \in Modules /\ <<Top.mod, NextWildcard>> \in Deps
  <2>1. Min(Top.todo) \in Wildcards(Top.mod)
    BY <1>2, <1>3, <1>4, MinFacts
  <2>2. Imports(Top.mod)[Min(Top.todo)].mod \in Modules /\ Imports(Top.mod)[Min(Top.todo)].mod \in Uses[Top.mod]
    BY <1>1, <1>2, <2>1, WildcardFacts
  <2>. QED
    BY <1>1, <1>2, <2>2, DepsFacts DEF NextWildcard
<1>. QED
  BY <1>1, <1>2, <1>3, <1>4

\* A forced module goes on.
LEMMA ForcedGoesOn ==
    ASSUME TypeInv, stack # <<>>, Top.call = "force", NEW u \in {"load", "lookup", "collect", "name"},
           NEW rest \in SUBSET Top.todo, NEW names \in SUBSET Names, u \in {"lookup", "collect"} => rest # {}
    PROVE  LET f == [Top EXCEPT !.todo = rest, !.stage = u, !.names = names]
           IN  f \in FitFrames /\ Same(f, Top) /\ Needs[f] = {} /\ ~Waits(f)
<1>. DEFINE f == [Top EXCEPT !.todo = rest, !.stage = u, !.names = names]
<1>1. /\ f \in ForceFrames /\ f.call = "force" /\ f.mod = Top.mod /\ f.todo = rest /\ f.stage = u
  BY ForcedFacts DEF ForceFrames
<1>. HIDE DEF f
<1>2. Fits(f)
  BY <1>1, ForcedFacts DEF Fits
<1>3. f \in FitFrames /\ Same(f, Top) /\ ~Waits(f)
  BY <1>1, <1>2 DEF FitFrames, Frames, Same, Waits
<1>4. Needs[f] = {}
  BY <1>1, <1>3 DEF Needs
<1>. QED
  BY <1>3, <1>4 DEF f

\* And with the wildcards and the names it has.
LEMMA ForcedStage ==
    ASSUME TypeInv, stack # <<>>, Top.call = "force", NEW u \in {"lookup", "collect"}, Top.todo # {}
    PROVE  LET f == [Top EXCEPT !.stage = u]
           IN  f \in FitFrames /\ Same(f, Top) /\ Needs[f] = {} /\ ~Waits(f)
<1>. DEFINE f == [Top EXCEPT !.stage = u]
            rest == Top.todo
            names == Top.names
            g == [Top EXCEPT !.todo = rest, !.stage = u, !.names = names]
<1>1. f = g /\ rest \in SUBSET Top.todo /\ rest # {} /\ names \in SUBSET Names
  BY ForcedFacts DEF ForceFrames
<1>. HIDE DEF rest, names, f
<1>2. g \in FitFrames /\ Same(g, Top) /\ Needs[g] = {} /\ ~Waits(g)
  BY <1>1, ForcedGoesOn
<1>. HIDE DEF g
<1>. QED
  BY <1>1, <1>2 DEF f

\* A forced module loads what a wildcard names.
LEMMA LoadWildcardStep ==
    ASSUME TypeInv, OrderInv, LoadWildcard
    PROVE  TypeInv' /\ OrderInv'
<1>. DEFINE f == [Top EXCEPT !.stage = "lookup"]
            x == NextWildcard
<1>1. stack # <<>> /\ Top.call = "force" /\ Top.todo # {}
  BY DEF LoadWildcard, Running
<1>2. x \in Modules /\ <<Top.mod, x>> \in Deps
  BY <1>1, ForcedFacts
<1>3. load_module(x, Resumed(f))
  BY <1>1, GotoFacts DEF LoadWildcard
<1>4. f \in FitFrames /\ Same(f, Top) /\ Needs[f] = {} /\ ~Waits(f)
  BY <1>1, ForcedStage
<1>. HIDE DEF f, x
<1>. QED
  BY <1>1, <1>2, <1>3, <1>4, TypedLoad, OrderLoad

\* It forces that module.
LEMMA ForceWildcardStep ==
    ASSUME TypeInv, OrderInv, ForceWildcard
    PROVE  TypeInv' /\ OrderInv'
<1>. DEFINE f == [Top EXCEPT !.stage = "collect"]
            x == NextWildcard
<1>1. stack # <<>> /\ Top.call = "force" /\ Top.stage = "lookup"
  BY DEF ForceWildcard, Running
<1>2. x \in Modules /\ <<Top.mod, x>> \in Deps /\ Top.todo # {}
  BY <1>1, ForcedFacts
<1>3. force_pending(x, Resumed(f))
  BY <1>1, GotoFacts DEF ForceWildcard
<1>4. f \in FitFrames /\ Same(f, Top) /\ Needs[f] = {} /\ ~Waits(f)
  BY <1>1, <1>2, ForcedStage
<1>. HIDE DEF f, x
<1>5. Top.call # "entry" /\ Needs[f] \subseteq Needs[Top]
  BY <1>1, <1>4
<1>. QED
  BY <1>1, <1>2, <1>3, <1>4, <1>5, TypedForce, OrderForce

\* It takes the names of that module.
LEMMA CollectNamesStep ==
    ASSUME TypeInv, OrderInv, CollectNames
    PROVE  TypeInv' /\ OrderInv'
<1>. DEFINE names == Top.names \cup DOMAIN Public(Exports(NextWildcard))
            rest == Rest
            f == [Top EXCEPT !.todo = rest, !.stage = "load", !.names = names]
<1>1. /\ stack # <<>> /\ Top.call = "force" /\ Top.stage = "collect"
      /\ UNCHANGED <<program, package, linker, found, result>>
  BY DEF CollectNames, Running
<1>2. Top \in ForceFrames /\ NextWildcard \in Modules /\ Top.names \in SUBSET Names
  BY <1>1, ForcedFacts
<1>3. stack' = Resumed(f)
  <2>1. [Top EXCEPT !.names = @ \cup DOMAIN Public(Exports(NextWildcard)), !.todo = Rest, !.stage = "load"] = f
    BY <1>2 DEF ForceFrames
  <2>. QED
    BY <2>1 DEF CollectNames
<1>4. names \in SUBSET Names
  <2>1. Exports(NextWildcard) \in Bindings
    BY <1>1, <1>2, TopFacts
  <2>2. DOMAIN Public(Exports(NextWildcard)) \subseteq Names
    BY <2>1, BindingsFacts
  <2>. QED
    BY <1>2, <2>2
<1>5. rest \in SUBSET Top.todo
  BY DEF Rest
<1>. HIDE DEF names, rest
<1>6. f \in FitFrames /\ Same(f, Top) /\ Needs[f] = {} /\ ~Waits(f)
  BY <1>1, <1>4, <1>5, ForcedGoesOn
<1>. HIDE DEF f
<1>. QED
  BY <1>1, <1>3, <1>6, ResumeStep

\* It looks each name up.
LEMMA ForceNameStep ==
    ASSUME TypeInv, OrderInv, ForceName
    PROVE  TypeInv' /\ OrderInv'
<1>. DEFINE T == {i \in DOMAIN NameOrder : NameOrder[i] \in Top.names}
            next == NameOrder[Min(T)]
            names == Top.names \ {next}
            rest == Top.todo
            f == [Top EXCEPT !.todo = rest, !.stage = "name", !.names = names]
            x == Top.mod
<1>1. stack # <<>> /\ Top.call = "force" /\ Top.names # {}
  BY DEF ForceName, AtNames
<1>2. /\ Top \in ForceFrames /\ x \in Modules /\ Top.names \in SUBSET Names /\ ProgramOK
      /\ rest \in SUBSET Top.todo
  BY <1>1, ForcedFacts, TopFacts
<1>3. next \in Names
  <2>1. NameOrder \in Seq(Names)
    BY NamesAssumption
  <2>2. PICK n \in Top.names : TRUE
    BY <1>1
  <2>3. n \in ToSet(NameOrder)
    BY <1>2, <2>2 DEF Names
  <2>4. \E i \in DOMAIN NameOrder : NameOrder[i] = n
    BY <2>1, <2>3, MembersFacts
  <2>5. T # {} /\ T \in SUBSET Nat
    BY <2>1, <2>2, <2>4
  <2>6. Min(T) \in T
    BY <2>5, MinFacts
  <2>. QED
    BY <1>2, <2>6
<1>4. resolve_pending(x, next, {}, Resumed(f))
  <2>1. [Top EXCEPT !.stage = "name", !.names = @ \ {next}] = f
    BY <1>2 DEF ForceFrames
  <2>. QED
    BY <2>1 DEF ForceName
<1>5. names \in SUBSET Names
  BY <1>2
<1>6. <<Top.mod, x>> \in Deps
  BY <1>2, DepsFacts
<1>. HIDE DEF next, names, rest
<1>7. f \in FitFrames /\ Same(f, Top) /\ Needs[f] = {} /\ ~Waits(f)
  BY <1>1, <1>2, <1>5, ForcedGoesOn
<1>. HIDE DEF f, x
<1>8. TypeInv'
  BY <1>1, <1>2, <1>3, <1>4, <1>7, TypedResolve
<1>9. OrderInv'
  BY <1>1, <1>2, <1>3, <1>4, <1>6, <1>7, OrderResolve
<1>. QED
  BY <1>8, <1>9

\* A call other than a lookup returns.
LEMMA TypedReturn ==
    ASSUME TypeInv, stack # <<>>, Top.call # "resolve"
    PROVE  TypedAt(linker, Front(stack), found) /\ (Front(stack) # <<>> => ~Waits(Last(Front(stack))))
<1>1. TypedAt(linker, stack, found)
  BY DEF TypeInv
<1>2. Front(stack) # <<>> => ~Waits(Last(Front(stack)))
  BY AnswerFacts
<1>. QED
  BY <1>1, <1>2, TypedPop

\* A forced module returns.
LEMMA FinishForceStep ==
    ASSUME TypeInv, OrderInv, FinishForce
    PROVE  TypeInv' /\ OrderInv'
<1>1. /\ stack # <<>> /\ Top.call = "force" /\ stack' = Front(stack)
      /\ UNCHANGED <<program, package, linker, found, result>>
  BY DEF FinishForce, AtNames, Return
<1>2. /\ stack \in Seq(FitFrames) /\ Top = Last(stack)
      /\ found \in BOOLEAN /\ result \in {"linking", "linked"} \cup Errors
  BY <1>1, TopFacts DEF TypeInv
<1>3. TypedAt(linker', stack', found')
  <2>1. TypedAt(linker, Front(stack), found)
    BY <1>1, TypedReturn
  <2>. QED
    BY <1>1, <2>1
<1>4. DirectLookups => OrderAt(linker', stack', result')
  <2>1. DirectLookups => OrderAt(linker, Front(stack), result)
    BY <1>1, <1>2, OrderPop DEF OrderInv
  <2>. QED
    BY <1>1, <2>1
<1>. QED
  BY <1>1, <1>2, <1>3, <1>4, TypedNext, OrderNext

-----------------------------------------------------------------------------
(* What a load does when its imports are bound. *)

\* A load at its body.
LEMMA BodyFacts ==
    ASSUME TypeInv, stack # <<>>, Top.call = "load"
    PROVE  /\ Top \in LoadFrames /\ Top \in FitFrames /\ Top.mod \in Modules /\ Top.at \in Nat \ {0}
           /\ Top.bindings \in Bindings /\ Top.members \in [Modules -> Bindings] /\ Top.asked \in Modules
           /\ \A r \in Top.reads : /\ r \in Pairs /\ r[1] \in Modules /\ r[2] \in Names
                                   /\ <<Top.mod, r[1]>> \in Deps
           /\ Top.at > Len(Imports(Top.mod)) => Needs[Top] = Uses[Top.mod]
<1>1. Top \in LoadFrames /\ Top \in FitFrames /\ Fits(Top) /\ ProgramOK
  BY TopFacts
<1>2. /\ Top.mod \in Modules /\ Top.at \in Nat \ {0} /\ Top.bindings \in Bindings
      /\ Top.members \in [Modules -> Bindings] /\ Top.asked \in Modules /\ Top.reads \in SUBSET Pairs
  BY <1>1 DEF LoadFrames
<1>3. ASSUME NEW r \in Top.reads
      PROVE  r \in Pairs /\ r[1] \in Modules /\ r[2] \in Names /\ <<Top.mod, r[1]>> \in Deps
  <2>1. r \in Pairs /\ r[1] \in Uses[Top.mod]
    BY <1>1, <1>2 DEF Fits
  <2>. QED
    BY <1>1, <1>2, <2>1, DepsFacts DEF Pairs
<1>4. ASSUME Top.at > Len(Imports(Top.mod)) PROVE Needs[Top] = Uses[Top.mod]
  <2>1. /\ Imports(Top.mod) \in Seq(Statement)
        /\ DOMAIN Imports(Top.mod) = 1..Len(Imports(Top.mod)) /\ Len(Imports(Top.mod)) \in Nat
    BY <1>1, <1>2, ImportFacts
  <2>2. \A j \in DOMAIN Imports(Top.mod) : Passed(Top, j)
    BY <1>2, <1>4, <2>1 DEF Passed
  <2>3. Needs[Top] = {Imports(Top.mod)[j].mod : j \in DOMAIN Imports(Top.mod)}
    BY <1>1, <2>2 DEF Needs
  <2>4. Uses[Top.mod] = {s.mod : s \in ToSet(Imports(Top.mod))}
    BY <1>2 DEF Uses
  <2>. QED
    BY <2>3, <2>4 DEF ToSet
<1>. QED
  BY <1>1, <1>2, <1>3, <1>4

\* A load past its imports stays there.
LEMMA BodyGoesOn ==
    ASSUME TypeInv, stack # <<>>, Top.call = "load", NEW u \in {"load", "member"},
           NEW rs \in SUBSET Top.reads, NEW a \in Modules, NEW ms \in [Modules -> Bindings],
           u # "load" => Top.at > Len(Imports(Top.mod))
    PROVE  LET f == [Top EXCEPT !.stage = u, !.asked = a, !.reads = rs, !.members = ms]
           IN  f \in FitFrames /\ Same(f, Top) /\ ~Waits(f) /\ Needs[f] \subseteq Needs[Top]
<1>. DEFINE f == [Top EXCEPT !.stage = u, !.asked = a, !.reads = rs, !.members = ms]
<1>1. f \in LoadFrames /\ f.mod = Top.mod /\ f.reads = rs /\ f.at = Top.at /\ f.stage = u
  BY BodyFacts DEF LoadFrames
<1>. HIDE DEF f
<1>2. f \in FitFrames /\ Same(f, Top) /\ ~Waits(f) /\ f.call = "load"
  BY <1>1, BodyFacts, LoadGoesOn
<1>3. DOMAIN Imports(Top.mod) = 1..Len(Imports(Top.mod)) /\ Len(Imports(Top.mod)) \in Nat
  BY BodyFacts, ImportFacts DEF TypeInv
<1>4. \A j \in DOMAIN Imports(Top.mod) : Passed(f, j) => Passed(Top, j)
  BY <1>1, <1>3, BodyFacts DEF Passed
<1>5. Needs[f] \subseteq Needs[Top]
  BY <1>1, <1>2, <1>4, BodyFacts, LoadNeeds
<1>. QED
  BY <1>2, <1>5 DEF f

\* A load looks a member up that its body reads.
LEMMA MembersStep ==
    ASSUME TypeInv, OrderInv, resolve_namespace_members
    PROVE  TypeInv' /\ OrderInv'
<1>1. /\ stack # <<>> /\ Top.call = "load" /\ Top.at > Len(Imports(Top.mod))
  BY DEF resolve_namespace_members, AtBody, Running
<1>2. PICK r \in Top.reads : resolve_pending(r[1], r[2], {},
                Resumed([Top EXCEPT !.stage = "member", !.asked = r[1], !.reads = @ \ {r}]))
  BY DEF resolve_namespace_members, Lacking
<1>. DEFINE x == r[1]
            n == r[2]
            rs == Top.reads \ {r}
            ms == Top.members
            f == [Top EXCEPT !.stage = "member", !.asked = x, !.reads = rs, !.members = ms]
<1>3. /\ x \in Modules /\ n \in Names /\ <<Top.mod, x>> \in Deps /\ rs \in SUBSET Top.reads
      /\ ms \in [Modules -> Bindings] /\ Top \in LoadFrames /\ Top.call # "entry" /\ Top.call # "resolve"
  BY <1>1, BodyFacts
<1>4. [Top EXCEPT !.stage = "member", !.asked = r[1], !.reads = @ \ {r}] = f
  BY <1>3 DEF LoadFrames
<1>5. resolve_pending(x, n, {}, Resumed(f))
  BY <1>2, <1>4
<1>. HIDE DEF x, n, rs, ms
<1>6. f \in FitFrames /\ Same(f, Top) /\ ~Waits(f) /\ Needs[f] \subseteq Needs[Top]
  BY <1>1, <1>3, BodyGoesOn
<1>. HIDE DEF f
<1>7. TypeInv'
  BY <1>1, <1>3, <1>5, <1>6, TypedResolve
<1>8. OrderInv'
  BY <1>1, <1>3, <1>5, <1>6, OrderResolve
<1>. QED
  BY <1>7, <1>8

\* It binds that member.
LEMMA BindMemberStep ==
    ASSUME TypeInv, OrderInv, BindMember
    PROVE  TypeInv' /\ OrderInv'
<1>. DEFINE b == IF found THEN Exports(Top.asked) ELSE Top.members[Top.asked]
            ms == [Top.members EXCEPT ![Top.asked] = b]
            rs == Top.reads
            a == Top.asked
            f == [Top EXCEPT !.stage = "load", !.asked = a, !.reads = rs, !.members = ms]
<1>1. /\ stack # <<>> /\ Top.call = "load" /\ Top.stage = "member"
      /\ UNCHANGED <<program, package, linker, found, result>>
  BY DEF BindMember, Running
<1>2. /\ Top \in LoadFrames /\ a \in Modules /\ Top.members \in [Modules -> Bindings]
      /\ rs \in SUBSET Top.reads /\ Exports(a) \in Bindings
  BY <1>1, BodyFacts, TopFacts
<1>3. b \in Bindings
  BY <1>2
<1>4. stack' = Resumed(f)
  <2>1. [Top EXCEPT !.stage = "load", !.members[Top.asked] = IF found THEN Exports(Top.asked) ELSE @] = f
    BY <1>2 DEF LoadFrames
  <2>. QED
    BY <2>1 DEF BindMember
<1>. HIDE DEF b
<1>5. ms \in [Modules -> Bindings]
  BY <1>2, <1>3
<1>. HIDE DEF ms, rs, a
<1>6. f \in FitFrames /\ Same(f, Top) /\ ~Waits(f) /\ Needs[f] \subseteq Needs[Top]
  BY <1>1, <1>2, <1>5, BodyGoesOn
<1>. HIDE DEF f
<1>. QED
  BY <1>1, <1>4, <1>6, ResumeStep

-----------------------------------------------------------------------------
(* What is hoisted. *)

\* One more module is hoisted.
LEMMA HoistMore ==
    ASSUME NEW lk, lk.decls \in Seq(Hoists), NEW h \in Hoists, NEW lm, lm.decls = Append(lk.decls, h)
    PROVE  /\ HoistedOf(lk) \in Seq(Modules)
           /\ HoistedOf(lm) = Append(HoistedOf(lk), h.mod)
           /\ h.mod \in Modules
<1>. DEFINE hs == HoistedOf(lk)
            n == Len(lk.decls)
<1>1. n \in Nat /\ DOMAIN lk.decls = 1..n /\ \A i \in 1..n : lk.decls[i] \in Hoists
  OBVIOUS
<1>2. h.mod \in Modules /\ \A i \in 1..n : lk.decls[i].mod \in Modules
  BY <1>1 DEF Hoists
<1>3. hs = [i \in 1..n |-> lk.decls[i].mod]
  BY <1>1 DEF HoistedOf
<1>4. hs \in Seq(Modules) /\ Len(hs) = n
  BY <1>1, <1>2, <1>3
<1>5. /\ DOMAIN lm.decls = 1..(n + 1) /\ lm.decls[n + 1] = h
      /\ \A i \in 1..n : lm.decls[i] = lk.decls[i]
  BY <1>1, PushFacts
<1>6. HoistedOf(lm) = [i \in 1..(n + 1) |-> lm.decls[i].mod]
  BY <1>5 DEF HoistedOf
<1>. DEFINE t == Append(hs, h.mod)
<1>. HIDE DEF hs, n
<1>7. t = [i \in 1..(n + 1) |-> IF i = n + 1 THEN h.mod ELSE hs[i]]
  BY <1>1, <1>4
<1>8. HoistedOf(lm) = t
  BY <1>1, <1>3, <1>5, <1>6, <1>7
<1>. QED
  BY <1>2, <1>4, <1>8 DEF hs

\* What is hoisted last comes after what it uses, if that is loaded and those
\* that are being loaded depend on it.
LEMMA OrderedMore ==
    ASSUME NEW hs \in Seq(Modules), NEW m \in Modules, NEW U, NEW R,
           IsInjective(hs), Ordered(hs, U, R), m \notin ToSet(hs),
           \A x \in U[m] : x \in ToSet(hs) \/ <<x, m>> \in R
    PROVE  IsInjective(Append(hs, m)) /\ Ordered(Append(hs, m), U, R)
<1>. DEFINE t == Append(hs, m)
            n == Len(hs)
<1>1. /\ DOMAIN hs = 1..n /\ n \in Nat /\ DOMAIN t = 1..(n + 1)
      /\ (\A i \in 1..n : t[i] = hs[i]) /\ t[n + 1] = m
  BY PushFacts
<1>2. \A i \in 1..n : hs[i] \in ToSet(hs)
  BY <1>1, MembersFacts
<1>3. \A x \in ToSet(hs) : \E k \in 1..n : hs[k] = x
  BY <1>1, MembersFacts
<1>. HIDE DEF t, n
<1>4. IsInjective(t)
  BY <1>1, <1>2 DEF IsInjective
<1>5. Ordered(t, U, R)
  <2>. SUFFICES ASSUME NEW i \in DOMAIN t, NEW x \in U[t[i]]
                PROVE  (\E k \in DOMAIN t : k < i /\ t[k] = x) \/ <<x, t[i]>> \in R
    BY DEF Ordered
  <2>1. CASE i \in 1..n
    <3>1. x \in U[hs[i]] /\ t[i] = hs[i]
      BY <1>1, <2>1
    <3>2. (\E k \in DOMAIN hs : k < i /\ hs[k] = x) \/ <<x, hs[i]>> \in R
      BY <1>1, <2>1, <3>1 DEF Ordered
    <3>. QED
      BY <1>1, <3>1, <3>2
  <2>2. CASE i = n + 1
    <3>1. x \in ToSet(hs) \/ <<x, m>> \in R
      BY <1>1, <2>2
    <3>. QED
      BY <1>1, <1>3, <2>2, <3>1
  <2>. QED
    BY <1>1, <2>1, <2>2
<1>. QED
  BY <1>4, <1>5 DEF t

\* A load ends: its module is hoisted.
LEMMA OrderHoist ==
    ASSUME ProgramOK, NEW lk, NEW st \in Seq(FitFrames), OrderAt(lk, st, "linking"), st # <<>>,
           Last(st).call \in {"load", "replay"}, Uses[Last(st).mod] \subseteq lk.loaded,
           NEW lm, lm.loaded = lk.loaded,
           HoistedOf(lk) \in Seq(Modules), HoistedOf(lm) = Append(HoistedOf(lk), Last(st).mod),
           Recording => Listed(Front(st), lm.loads, Needs, Deps),
           ~Recording => lm.loads = <<>>,
           Faithful(lm.records, Uses, Deps)
    PROVE  OrderAt(lm, Front(st), "linking")
<1>. DEFINE hs == HoistedOf(lk)
            m == Last(st).mod
            n == Len(st)
<1>1. /\ Grounded(st) /\ Chain(st, Deps) /\ Walk(st, Looks) /\ Apart(st, ToSet(hs))
      /\ Accounted(st, ToSet(hs), lk.loaded)
      /\ \A i \in DOMAIN st : Needs[st[i]] \subseteq lk.loaded
      /\ IsInjective(hs) /\ Ordered(hs, Uses, Deps)
  BY DEF OrderAt, Errors
<1>2. /\ n \in Nat \ {0} /\ DOMAIN st = 1..n /\ DOMAIN Front(st) = 1..(n - 1)
      /\ Front(st) \in Seq(FitFrames) /\ \A i \in 1..(n - 1) : Front(st)[i] = st[i]
      /\ Last(st) = st[n] /\ Last(st) \in FitFrames
  BY PopFacts
<1>3. m \in Modules
  BY <1>2, FrameFacts
<1>4. Grounded(Front(st)) /\ Chain(Front(st), Deps) /\ Walk(Front(st), Looks)
  BY <1>1, PopShape
<1>5. /\ m \notin ToSet(hs) /\ Apart(Front(st), ToSet(hs) \cup {m})
      /\ Accounted(Front(st), ToSet(hs) \cup {m}, lk.loaded)
  BY <1>1, PopLoaded
<1>6. ToSet(Append(hs, m)) = ToSet(hs) \cup {m}
  BY <1>3, PushFacts
<1>7. \A i \in DOMAIN Front(st) : Needs[Front(st)[i]] \subseteq lk.loaded
  BY <1>1, <1>2
<1>8. \A x \in Uses[m] : x \in ToSet(hs) \/ <<x, m>> \in Deps
  <2>. SUFFICES ASSUME NEW x \in Uses[m], x \notin ToSet(hs) PROVE <<x, m>> \in Deps
    OBVIOUS
  <2>1. PICK i \in Held(st) : x = st[i].mod
    BY <1>1 DEF Accounted
  <2>2. i \in 1..n /\ i # 1
    BY <1>1, <1>2, <2>1 DEF Held, Grounded
  <2>3. CASE i = n
    BY <1>2, <1>3, <2>1, <2>3, DepsFacts
  <2>4. CASE i # n
    <3>. HIDE DEF n
    <3>1. i \in 1..n /\ n \in 1..n /\ 1 < i /\ i < n
      BY <1>2, <2>2, <2>4
    <3>. QED
      BY <1>1, <1>2, <2>1, <3>1 DEF Chain
  <2>. QED
    BY <2>3, <2>4
<1>9. IsInjective(Append(hs, m)) /\ Ordered(Append(hs, m), Uses, Deps)
  BY <1>1, <1>3, <1>5, <1>8, OrderedMore
<1>10. HoistedOf(lm) = Append(hs, m)
  OBVIOUS
<1>. HIDE DEF hs, m, n
<1>. QED
  BY <1>4, <1>5, <1>6, <1>7, <1>9, <1>10 DEF OrderAt, Errors

\* What the end of a load leaves.
LEMMA FinishFacts ==
    ASSUME TypeInv, FinishModule, Recording => linker.loads # <<>>
    PROVE  LET m == Top.mod
               h == [mod |-> m, members |-> Top.members]
           IN  /\ stack # <<>> /\ Top.call = "load" /\ m \in Modules /\ h \in Hoists /\ h.mod = m
               /\ Needs[Top] = Uses[m] /\ stack' = Front(stack)
               /\ linker' \in Linkers
               /\ linker'.loaded = linker.loaded /\ linker'.decls = Append(linker.decls, h)
               /\ linker'.pending = linker.pending \ {m}
               /\ linker'.exports = [linker.exports EXCEPT ![m] = Over(Local(m), Top.bindings)]
               /\ \A x \in Modules : x # m => linker'.exports[x] = Exports(x)
               /\ Recording =>
                     /\ linker'.loads = Front(linker.loads)
                     /\ DOMAIN linker'.records = DOMAIN linker.records \cup {m}
                     /\ \A x \in DOMAIN linker.records : x # m => linker'.records[x] = linker.records[x]
                     /\ linker'.records[m].loads = Last(linker.loads) /\ linker'.records[m].decls = h
                     /\ linker'.records[m].exports = Over(Local(m), Top.bindings)
               /\ ~Recording => linker'.loads = linker.loads /\ linker'.records = linker.records
<1>. DEFINE m == Top.mod
            h == [mod |-> m, members |-> Top.members]
            final == Over(Local(m), Top.bindings)
            ds == Append(linker.decls, h)
            ps == linker.pending \ {m}
            es == [linker.exports EXCEPT ![m] = final]
            done == [linker EXCEPT !.decls = ds, !.pending = ps, !.exports = es]
            record == [loads |-> Last(linker.loads), exports |-> final, decls |-> h]
            rs == Publish(linker.records, m, record)
            ls == Front(linker.loads)
<1>1. /\ stack # <<>> /\ Top.call = "load" /\ Top.at > Len(Imports(Top.mod))
      /\ stack' = Front(stack)
  BY DEF FinishModule, AtBody, Running, Return
<1>2. linker \in Linkers /\ ProgramOK /\ m \in Modules
  BY <1>1, TopFacts
<1>3. /\ Top.bindings \in Bindings /\ Top.members \in [Modules -> Bindings] /\ Needs[Top] = Uses[m]
  BY <1>1, BodyFacts
<1>4. Local(m) \in Bindings
  <2>1. program[m].decls \subseteq Names
    BY <1>2 DEF ProgramOK
  <2>2. Local(m) \in [program[m].decls -> Pairs]
    BY <1>2, <2>1 DEF Local, Pairs
  <2>. QED
    BY <2>1, <2>2 DEF Bindings
<1>5. final \in Bindings
  BY <1>3, <1>4, BindingsFacts
<1>6. h \in Hoists /\ h.mod = m
  BY <1>2, <1>3 DEF Hoists
<1>7. linker' = IF Recording THEN [done EXCEPT !.loads = ls, !.records = rs] ELSE done
  <2>1. [linker EXCEPT !.decls = Append(@, h), !.pending = @ \ {m}, !.exports[m] = final] = done
    BY <1>2 DEF Linkers
  <2>2. [done EXCEPT !.loads = Front(@), !.records = Publish(@, m, record)]
          = [done EXCEPT !.loads = ls, !.records = rs]
    BY <1>2 DEF Linkers
  <2>. QED
    BY <2>1, <2>2 DEF FinishModule
<1>. HIDE DEF h, final
<1>8. ds \in Seq(Hoists) /\ ps \in SUBSET Modules
  BY <1>2, <1>6 DEF Linkers
<1>9. es \in [Modules -> Bindings] /\ \A x \in Modules : x # m => es[x] = Exports(x)
  BY <1>2, <1>5 DEF Linkers, Exports
<1>10. Recording => /\ ls \in Seq(Seq(Modules)) /\ rs \in Packages
                    /\ DOMAIN rs = DOMAIN linker.records \cup {m}
                    /\ \A x \in DOMAIN linker.records : x # m => rs[x] = linker.records[x]
                    /\ rs[m].loads = Last(linker.loads) /\ rs[m].decls = h /\ rs[m].exports = final
  <2>. SUFFICES ASSUME Recording
                PROVE  /\ ls \in Seq(Seq(Modules)) /\ rs \in Packages
                       /\ DOMAIN rs = DOMAIN linker.records \cup {m}
                       /\ \A x \in DOMAIN linker.records : x # m => rs[x] = linker.records[x]
                       /\ rs[m].loads = Last(linker.loads) /\ rs[m].decls = h /\ rs[m].exports = final
    OBVIOUS
  <2>1. linker.loads \in Seq(Seq(Modules)) /\ linker.loads # <<>> /\ linker.records \in Packages
    BY <1>2 DEF Linkers
  <2>2. ls \in Seq(Seq(Modules)) /\ Last(linker.loads) \in Seq(Modules)
    BY <2>1, PopFacts
  <2>3. /\ record \in Records /\ record.loads = Last(linker.loads)
        /\ record.decls = h /\ record.exports = final
    BY <1>5, <1>6, <2>2 DEF Records
  <2>. HIDE DEF record
  <2>4. /\ DOMAIN linker.records \in SUBSET Modules
        /\ \A x \in DOMAIN linker.records : linker.records[x] \in Records
    BY <2>1 DEF Packages
  <2>5. /\ DOMAIN rs = DOMAIN linker.records \cup {m} /\ rs[m] = record
        /\ \A x \in DOMAIN linker.records : x # m => rs[x] = linker.records[x]
        /\ rs \in [DOMAIN linker.records \cup {m} -> Records]
    BY <2>3, <2>4 DEF Publish
  <2>6. rs \in Packages
    BY <1>2, <2>4, <2>5 DEF Packages
  <2>. QED
    BY <2>2, <2>3, <2>5, <2>6
<1>. HIDE DEF ds, ps, es, rs, ls, m
<1>11. /\ done \in Linkers /\ done.loaded = linker.loaded /\ done.decls = ds /\ done.pending = ps
       /\ done.exports = es /\ done.loads = linker.loads /\ done.records = linker.records
  BY <1>2, <1>8, <1>9 DEF Linkers
<1>. HIDE DEF done
<1>12. CASE Recording
  <2>1. linker' = [done EXCEPT !.loads = ls, !.records = rs]
    BY <1>7, <1>12
  <2>2. /\ linker' \in Linkers /\ linker'.loaded = linker.loaded /\ linker'.decls = ds
        /\ linker'.pending = ps /\ linker'.exports = es /\ linker'.loads = ls /\ linker'.records = rs
    BY <1>10, <1>11, <1>12, <2>1 DEF Linkers
  <2>. QED
    BY <1>1, <1>2, <1>3, <1>6, <1>9, <1>10, <1>12, <2>2 DEF m, h, ds, ps, ls, es, final
<1>13. CASE ~Recording
  <2>1. linker' = done
    BY <1>7, <1>13
  <2>. QED
    BY <1>1, <1>2, <1>3, <1>6, <1>9, <1>11, <1>13, <2>1 DEF m, h, ds, ps, es, final
<1>. QED
  BY <1>12, <1>13

\* A load ends.
LEMMA FinishModuleStep ==
    ASSUME TypeInv, OrderInv, DirectLookups, FinishModule
    PROVE  TypeInv' /\ OrderInv'
<1>. DEFINE m == Top.mod
            h == [mod |-> m, members |-> Top.members]
<1>1. /\ stack # <<>> /\ Top.call = "load" /\ UNCHANGED <<program, package, found, result>>
  BY DEF FinishModule, AtBody, Running
<1>2. /\ TypedAt(linker, stack, found) /\ found \in BOOLEAN /\ ProgramOK
      /\ result \in {"linking", "linked"} \cup Errors /\ stack \in Seq(FitFrames)
      /\ linker \in Linkers /\ Top = Last(stack)
  BY <1>1, TopFacts DEF TypeInv
<1>3. OrderAt(linker, stack, "linking") /\ result = "linking"
  <2>1. OrderAt(linker, stack, result) /\ result = "linking"
    BY <1>1, OrderRunning DEF OrderInv
  <2>. QED
    BY <2>1
<1>4. linker.loads \in Seq(Seq(Modules)) /\ linker.decls \in Seq(Hoists)
  BY <1>2 DEF Linkers
<1>5. Recording => /\ linker.loads # <<>>
                   /\ Listed(Front(stack), Front(linker.loads), Needs, Deps)
                   /\ Needs[Top] \subseteq ToSet(Last(linker.loads))
                   /\ \A x \in ToSet(Last(linker.loads)) : <<m, x>> \in Deps
  <2>1. Recording => Listed(stack, linker.loads, Needs, Deps)
    BY <1>3 DEF OrderAt
  <2>. QED
    BY <1>1, <1>2, <1>4, <2>1, ListsPopLoad
<1>6. /\ m \in Modules /\ h \in Hoists /\ h.mod = m
      /\ Needs[Top] = Uses[m] /\ stack' = Front(stack)
      /\ linker' \in Linkers
      /\ linker'.loaded = linker.loaded /\ linker'.decls = Append(linker.decls, h)
      /\ linker'.pending = linker.pending \ {m}
      /\ \A x \in Modules : x # m => linker'.exports[x] = Exports(x)
      /\ Recording =>
            /\ linker'.loads = Front(linker.loads)
            /\ DOMAIN linker'.records = DOMAIN linker.records \cup {m}
            /\ \A x \in DOMAIN linker.records : x # m => linker'.records[x] = linker.records[x]
            /\ linker'.records[m].loads = Last(linker.loads) /\ linker'.records[m].decls = h
      /\ ~Recording => linker'.loads = linker.loads /\ linker'.records = linker.records
  BY <1>5, FinishFacts
<1>. HIDE DEF h, m
<1>7. TypeInv'
  <2>1. /\ TypedAt(linker, Front(stack), found)
        /\ Front(stack) # <<>> => ~Waits(Last(Front(stack)))
    BY <1>1, TypedReturn
  <2>2. \A x \in linker'.pending : x \in linker'.loaded /\ program[x].decls \subseteq DOMAIN linker'.exports[x]
    <3>1. \A x \in linker.pending : x \in linker.loaded /\ program[x].decls \subseteq DOMAIN Exports(x)
      BY <1>2 DEF TypedAt, Exports
    <3>2. linker.pending \subseteq Modules
      BY <1>2 DEF Linkers
    <3>. QED
      BY <1>6, <3>1, <3>2
  <2>3. TypedAt(linker', Front(stack), found)
    BY <1>6, <2>1, <2>2, TypedMore
  <2>4. TypedAt(linker', stack', found')
    BY <1>1, <1>6, <2>3
  <2>. QED
    BY <1>1, <1>2, <2>4, TypedNext
<1>8. OrderInv'
  <2>1. Uses[Last(stack).mod] \subseteq linker.loaded
    <3>1. Len(stack) \in DOMAIN stack /\ Top = stack[Len(stack)]
      BY <1>1, <1>2, PopFacts
    <3>2. Needs[Top] \subseteq linker.loaded
      BY <1>3, <3>1 DEF OrderAt
    <3>. QED
      BY <1>2, <1>6, <3>2 DEF m
  <2>2. HoistedOf(linker) \in Seq(Modules) /\ HoistedOf(linker') = Append(HoistedOf(linker), m)
    BY <1>4, <1>6, HoistMore
  <2>3. Recording => Listed(Front(stack), linker'.loads, Needs, Deps)
    BY <1>5, <1>6
  <2>4. ~Recording => linker'.loads = <<>>
    BY <1>3, <1>6 DEF OrderAt
  <2>5. Faithful(linker'.records, Uses, Deps)
    <3>1. Faithful(linker.records, Uses, Deps)
      BY <1>3 DEF OrderAt
    <3>. QED
      BY <1>5, <1>6, <3>1 DEF Faithful
  <2>6. OrderAt(linker', Front(stack), "linking")
    BY <1>1, <1>2, <1>3, <1>6, <2>1, <2>2, <2>3, <2>4, <2>5, OrderHoist DEF m
  <2>7. OrderAt(linker', stack', result')
    BY <1>1, <1>3, <1>6, <2>6
  <2>. QED
    BY <1>1, <2>7, OrderNext
<1>. QED
  BY <1>7, <1>8

-----------------------------------------------------------------------------
(* Packaged modules, and whole links. *)

\* A packaged module being loaded.
LEMMA ReplayFacts ==
    ASSUME TypeInv, stack # <<>>, Top.call = "replay"
    PROVE  /\ Top \in ReplayFrames /\ Top \in FitFrames /\ Top.mod \in DOMAIN package /\ Top.mod \in Modules
           /\ Top.todo \in Seq(Modules) /\ ToSet(Top.todo) \subseteq ToSet(package[Top.mod].loads)
           /\ package[Top.mod] \in Records
           /\ Needs[Top] = ToSet(package[Top.mod].loads) \ ToSet(Top.todo)
<1>1. Top \in ReplayFrames /\ Top \in FitFrames /\ Fits(Top)
  BY TopFacts
<1>2. Top.todo \in Seq(Modules) /\ Top.mod \in Modules
  BY <1>1 DEF ReplayFrames
<1>3. Top.mod \in DOMAIN package /\ ToSet(Top.todo) \subseteq ToSet(package[Top.mod].loads)
  BY <1>1 DEF Fits
<1>4. package[Top.mod] \in Records
  BY <1>3 DEF TypeInv, Packages
<1>5. Needs[Top] = ToSet(package[Top.mod].loads) \ ToSet(Top.todo)
  BY <1>1 DEF Needs
<1>. QED
  BY <1>1, <1>2, <1>3, <1>4, <1>5

\* A packaged module loads what its record names.
LEMMA ReplayLoadStep ==
    ASSUME TypeInv, OrderInv, ReplayLoad
    PROVE  TypeInv' /\ OrderInv'
<1>. DEFINE x == Head(Top.todo)
            rest == Tail(Top.todo)
            f == [Top EXCEPT !.todo = rest]
<1>1. stack # <<>> /\ Top.call = "replay" /\ Top.todo # <<>>
  BY DEF ReplayLoad
<1>2. /\ Top \in ReplayFrames /\ Top \in FitFrames /\ Top.mod \in DOMAIN package /\ Top.mod \in Modules
      /\ Top.todo \in Seq(Modules) /\ ToSet(Top.todo) \subseteq ToSet(package[Top.mod].loads)
      /\ Needs[Top] = ToSet(package[Top.mod].loads) \ ToSet(Top.todo)
  BY <1>1, ReplayFacts
<1>3. load_module(x, Resumed(f))
  <2>1. [Top EXCEPT !.todo = Tail(@)] = f
    BY <1>2 DEF ReplayFrames
  <2>. QED
    BY <2>1 DEF ReplayLoad
<1>4. /\ x \in Modules /\ rest \in Seq(Modules)
      /\ ToSet(Top.todo) = ToSet(rest) \cup {x}
  BY <1>1, <1>2, HeadFacts
<1>. HIDE DEF x, rest
<1>5. f \in ReplayFrames /\ f.call = "replay" /\ f.mod = Top.mod /\ f.todo = rest
  BY <1>2, <1>4 DEF ReplayFrames
<1>. HIDE DEF f
<1>6. Fits(f)
  BY <1>2, <1>4, <1>5 DEF Fits
<1>7. f \in FitFrames /\ Same(f, Top) /\ ~Waits(f)
  BY <1>1, <1>5, <1>6 DEF FitFrames, Frames, Same, Waits
<1>8. Needs[f] \subseteq Needs[Top] \cup {x}
  <2>1. Needs[f] = ToSet(package[Top.mod].loads) \ ToSet(rest)
    BY <1>5, <1>7 DEF Needs
  <2>. QED
    BY <1>2, <1>4, <2>1
<1>9. DirectLookups => <<Top.mod, x>> \in Deps
  BY <1>2, <1>4 DEF OrderInv, Faithful
<1>10. TypeInv'
  BY <1>1, <1>3, <1>4, <1>7, TypedLoad
<1>11. OrderInv'
  BY <1>1, <1>3, <1>4, <1>7, <1>8, <1>9, OrderLoad
<1>. QED
  BY <1>10, <1>11

\* It is hoisted.
LEMMA FinishReplayStep ==
    ASSUME TypeInv, OrderInv, FinishReplay
    PROVE  TypeInv' /\ OrderInv'
<1>. DEFINE m == Top.mod
            h == package[m].decls
<1>1. /\ stack # <<>> /\ Top.call = "replay" /\ Top.todo = <<>> /\ stack' = Front(stack)
      /\ linker' = [linker EXCEPT !.decls = Append(@, h)]
      /\ UNCHANGED <<program, package, found, result>>
  BY DEF FinishReplay, Return
<1>2. /\ TypedAt(linker, stack, found) /\ found \in BOOLEAN /\ ProgramOK
      /\ result \in {"linking", "linked"} \cup Errors /\ stack \in Seq(FitFrames)
      /\ linker \in Linkers /\ Top = Last(stack)
  BY <1>1, TopFacts DEF TypeInv
<1>3. m \in DOMAIN package /\ m \in Modules /\ h \in Hoists /\ Needs[Top] = ToSet(package[m].loads)
  <2>1. /\ m \in DOMAIN package /\ m \in Modules /\ package[m] \in Records
        /\ Needs[Top] = ToSet(package[m].loads) \ ToSet(Top.todo)
    BY <1>1, ReplayFacts
  <2>2. ToSet(Top.todo) = {}
    BY <1>1 DEF ToSet
  <2>. QED
    BY <2>1, <2>2 DEF Records
<1>. HIDE DEF h, m
<1>4. /\ linker' \in Linkers /\ linker'.loaded = linker.loaded /\ linker'.pending = linker.pending
      /\ linker'.exports = linker.exports /\ linker'.decls = Append(linker.decls, h)
      /\ linker'.loads = linker.loads /\ linker'.records = linker.records
      /\ linker.decls \in Seq(Hoists)
  <2>1. linker.decls \in Seq(Hoists)
    BY <1>2 DEF Linkers
  <2>. DEFINE ds == Append(linker.decls, h)
  <2>2. ds \in Seq(Hoists)
    BY <1>3, <2>1
  <2>3. linker' = [linker EXCEPT !.decls = ds]
    BY <1>1, <1>2 DEF Linkers
  <2>. HIDE DEF ds
  <2>4. /\ linker' \in Linkers /\ linker'.loaded = linker.loaded /\ linker'.pending = linker.pending
        /\ linker'.exports = linker.exports /\ linker'.decls = ds
        /\ linker'.loads = linker.loads /\ linker'.records = linker.records
    BY <1>2, <2>2, <2>3 DEF Linkers
  <2>. QED
    BY <2>1, <2>4 DEF ds
<1>5. TypeInv'
  <2>1. /\ TypedAt(linker, Front(stack), found)
        /\ Front(stack) # <<>> => ~Waits(Last(Front(stack)))
    BY <1>1, TypedReturn
  <2>2. \A x \in linker'.pending : x \in linker'.loaded /\ program[x].decls \subseteq DOMAIN linker'.exports[x]
    BY <1>2, <1>4 DEF TypedAt
  <2>3. TypedAt(linker', Front(stack), found)
    BY <1>4, <2>1, <2>2, TypedMore
  <2>4. TypedAt(linker', stack', found')
    BY <1>1, <2>3
  <2>. QED
    BY <1>1, <1>2, <2>4, TypedNext
<1>6. OrderInv'
  <2>. SUFFICES ASSUME DirectLookups PROVE OrderAt(linker', stack', result')
    BY <1>1, OrderNext
  <2>1. /\ OrderAt(linker, stack, result) /\ result = "linking"
        /\ Faithful(package, Uses, Deps)
    BY <1>1, OrderRunning DEF OrderInv
  <2>2. OrderAt(linker, stack, "linking")
    BY <2>1
  <2>3. h.mod = m /\ Uses[m] \subseteq ToSet(package[m].loads)
    BY <1>3, <2>1 DEF Faithful, h
  <2>4. Uses[Last(stack).mod] \subseteq linker.loaded
    <3>1. Len(stack) \in DOMAIN stack /\ Top = stack[Len(stack)]
      BY <1>1, <1>2, PopFacts
    <3>2. Needs[Top] \subseteq linker.loaded
      BY <2>2, <3>1 DEF OrderAt
    <3>. QED
      BY <1>2, <1>3, <2>3, <3>2 DEF m
  <2>5. HoistedOf(linker) \in Seq(Modules) /\ HoistedOf(linker') = Append(HoistedOf(linker), m)
    BY <1>3, <1>4, <2>3, HoistMore
  <2>6. ~Recording
    BY <1>3 DEF Recording
  <2>7. linker'.loads = <<>> /\ Faithful(linker'.records, Uses, Deps)
    BY <1>4, <2>2, <2>6 DEF OrderAt
  <2>8. OrderAt(linker', Front(stack), "linking")
    BY <1>1, <1>2, <1>4, <2>2, <2>4, <2>5, <2>6, <2>7, OrderHoist DEF m
  <2>. QED
    BY <1>1, <2>1, <2>8
<1>. QED
  BY <1>5, <1>6

\* A link ends: nothing is left under way.
LEMMA FinishLinkStep ==
    ASSUME TypeInv, OrderInv, FinishLink
    PROVE  TypeInv' /\ OrderInv'
<1>1. /\ stack # <<>> /\ Top.call = "entry" /\ stack' = Front(stack) /\ result' = "linked"
      /\ UNCHANGED <<program, package, linker, found>>
  BY DEF FinishLink, Return
<1>2. found \in BOOLEAN /\ stack \in Seq(FitFrames) /\ Top = Last(stack)
  BY <1>1, TopFacts DEF TypeInv
<1>3. TypeInv'
  <2>1. TypedAt(linker, Front(stack), found)
    BY <1>1, TypedReturn
  <2>2. TypedAt(linker', stack', found')
    BY <1>1, <2>1
  <2>. QED
    BY <1>1, <1>2, <2>2, TypedNext
<1>4. OrderInv'
  <2>. SUFFICES ASSUME DirectLookups PROVE OrderAt(linker', stack', result')
    BY <1>1, OrderNext
  <2>1. OrderAt(linker, stack, result) /\ result \notin Errors
    BY <1>1, OrderRunning DEF OrderInv
  <2>2. /\ Len(stack) \in Nat \ {0} /\ DOMAIN stack = 1..Len(stack) /\ Top = stack[Len(stack)]
        /\ Len(Front(stack)) = Len(stack) - 1 /\ Front(stack) \in Seq(FitFrames)
    BY <1>1, <1>2, PopFacts
  <2>3. Len(stack) = 1
    BY <1>1, <2>1, <2>2 DEF OrderAt, Grounded
  <2>4. Front(stack) = <<>>
    BY <2>2, <2>3
  <2>5. /\ Grounded(<<>>) /\ Chain(<<>>, Deps) /\ Walk(<<>>, Looks) /\ \A hs : Apart(<<>>, hs)
        /\ \A i \in DOMAIN <<>> : Needs[<<>>[i]] \subseteq linker.loaded
    BY DEF Grounded, Chain, Walk, Apart, Held
  <2>6. Accounted(<<>>, ToSet(HoistedOf(linker)), linker.loaded)
    <3>1. Last(stack).call \notin {"load", "replay"}
      BY <1>1, <1>2
    <3>2. Accounted(stack, ToSet(HoistedOf(linker)), linker.loaded) /\ Apart(stack, ToSet(HoistedOf(linker)))
      BY <2>1 DEF OrderAt
    <3>3. Accounted(Front(stack), ToSet(HoistedOf(linker)), linker.loaded)
      BY <1>1, <1>2, <3>1, <3>2, PopLoaded
    <3>. QED
      BY <2>4, <3>3
  <2>7. OrderAt(linker, <<>>, "linked")
    BY <2>1, <2>5, <2>6 DEF OrderAt
  <2>. QED
    BY <1>1, <2>4, <2>7
<1>. QED
  BY <1>3, <1>4

\* No module is packaged.
LEMMA NoRecords == <<>> \in Packages /\ DOMAIN <<>> = {}
<1>1. <<>> \in [{} -> Records] /\ DOMAIN <<>> = {}
  OBVIOUS
<1>2. {} \in SUBSET Modules
  OBVIOUS
<1>. QED
  BY <1>1, <1>2 DEF Packages

\* A link that is to begin, from source or with a package.
Fresh ==
    /\ ProgramOK /\ package \in Packages /\ found \in BOOLEAN /\ result = "linking"
    /\ DirectLookups => Faithful(package, Uses, Deps)
    /\ linker = Unlinked
    /\ \E todo \in Seq(Modules) : stack = <<EntryFrame(todo)>>

\* It is in order.
LEMMA FreshFacts == Fresh => TypeInv /\ OrderInv
<1>. SUFFICES ASSUME Fresh PROVE TypeInv /\ OrderInv
  OBVIOUS
<1>1. PICK todo \in Seq(Modules) : stack = <<EntryFrame(todo)>>
  BY DEF Fresh
<1>. DEFINE f == EntryFrame(todo)
<1>2. f \in FitFrames /\ f.call = "entry"
  BY EntryFits DEF EntryFrame
<1>3. stack = <<f>>
  BY <1>1
<1>. HIDE DEF f
<1>4. /\ stack \in Seq(FitFrames) /\ stack # <<>> /\ DOMAIN stack = {1} /\ Len(stack) = 1 /\ stack[1] = f
  BY <1>2, <1>3
<1>5. Last(stack) = f
  BY <1>4 DEF Last
<1>6. <<>> \in Packages /\ DOMAIN <<>> = {}
  BY NoRecords
<1>7. /\ Unlinked \in Linkers /\ Unlinked.loaded = {} /\ Unlinked.pending = {} /\ Unlinked.decls = <<>>
      /\ Unlinked.loads = <<>> /\ Unlinked.records = <<>>
  <2>. DEFINE es == [m \in Modules |-> <<>>]
  <2>1. es \in [Modules -> Bindings]
    BY NoBindings
  <2>2. /\ Unlinked = [loaded |-> {}, exports |-> es, pending |-> {}, decls |-> <<>>,
                       loads |-> <<>>, records |-> <<>>]
    BY DEF Unlinked
  <2>. HIDE DEF es
  <2>3. <<>> \in Seq(Hoists) /\ <<>> \in Seq(Seq(Modules))
    OBVIOUS
  <2>. QED
    BY <1>6, <2>1, <2>2, <2>3 DEF Linkers
<1>8. TypedAt(linker, stack, found)
  <2>1. Linked(stack, Follows)
    BY <1>4 DEF Linked
  <2>2. ~Waits(Last(stack))
    BY <1>2, <1>5 DEF Waits
  <2>. QED
    BY <1>4, <1>7, <2>1, <2>2 DEF TypedAt, Fresh
<1>9. TypeInv
  BY <1>8 DEF TypeInv, Fresh
<1>10. OrderAt(linker, stack, result)
  <2>. DEFINE hs == HoistedOf(linker)
  <2>1. DOMAIN hs = {} /\ linker = Unlinked /\ result = "linking" /\ ToSet(hs) = {}
    BY <1>7 DEF HoistedOf, Fresh, ToSet
  <2>2. Grounded(stack) /\ Chain(stack, Deps) /\ Held(stack) = {}
    BY <1>2, <1>4 DEF Grounded, Chain, Held
  <2>3. Walk(stack, Looks)
    <3>. SUFFICES ASSUME NEW i \in DOMAIN stack, NEW j \in DOMAIN stack,
                         \A k \in i..j : stack[k].call = "resolve", i <= j
                  PROVE  FALSE
      BY DEF Walk
    <3>1. i = 1 /\ j = 1
      BY <1>4
    <3>2. 1 \in i..j
      BY <3>1
    <3>. QED
      BY <1>2, <1>4, <3>1, <3>2
  <2>. HIDE DEF hs
  <2>4. Apart(stack, ToSet(hs)) /\ Accounted(stack, ToSet(hs), linker.loaded)
    BY <1>7, <2>1, <2>2 DEF Apart, Accounted
  <2>5. \A i \in DOMAIN stack : Needs[stack[i]] \subseteq linker.loaded
    <3>1. Needs[f] = {}
      BY <1>2 DEF Needs
    <3>. QED
      BY <1>4, <3>1
  <2>6. Listed(stack, linker.loads, Needs, Deps)
    <3>1. Len(linker.loads) = 0
      BY <1>7, <2>1
    <3>. DEFINE at == [k \in 1..Len(linker.loads) |-> 1]
    <3>2. 1..Len(linker.loads) = {}
      BY <3>1
    <3>3. at \in [1..Len(linker.loads) -> DOMAIN stack]
      BY <3>2
    <3>4. \A i \in DOMAIN stack : stack[i].call # "load"
      BY <1>2, <1>4
    <3>. HIDE DEF at
    <3>5. Lists(stack, linker.loads, at, Needs, Deps)
      BY <3>2, <3>3, <3>4 DEF Lists
    <3>. QED
      BY <3>3, <3>5 DEF Listed
  <2>7. Faithful(linker.records, Uses, Deps)
    BY <1>6, <1>7, <2>1 DEF Faithful
  <2>8. IsInjective(hs) /\ Ordered(hs, Uses, Deps)
    BY <2>1 DEF IsInjective, Ordered
  <2>. QED
    BY <1>7, <2>1, <2>2, <2>3, <2>4, <2>5, <2>6, <2>7, <2>8 DEF OrderAt, hs
<1>. QED
  BY <1>9, <1>10 DEF OrderInv, Fresh

\* A later link begins.
LEMMA LinkPackagedStep ==
    ASSUME TypeInv, OrderInv, LinkPackaged
    PROVE  TypeInv' /\ OrderInv'
<1>1. PICK m \in DOMAIN linker.records, torn \in {{}} \cup {{x} : x \in DOMAIN linker.records} :
          /\ package' = [x \in DOMAIN linker.records \ torn |-> linker.records[x]]
          /\ stack' = <<EntryFrame(<<m>>)>>
  BY DEF LinkPackaged
<1>2. linker' = Unlinked /\ result' = "linking" /\ UNCHANGED <<program, found>>
  BY DEF LinkPackaged
<1>3. /\ Uses' = Uses /\ Deps' = Deps /\ DirectLookups' = DirectLookups /\ ProgramOK' = ProgramOK
      /\ Unlinked' = Unlinked
  BY <1>2, SameProgram DEF Unlinked
<1>4. linker \in Linkers /\ ProgramOK /\ found \in BOOLEAN
  BY DEF TypeInv, TypedAt
<1>5. DOMAIN linker.records \in SUBSET Modules /\ \A x \in DOMAIN linker.records : linker.records[x] \in Records
  BY <1>4 DEF Linkers, Packages
<1>6. package' \in Packages
  <2>. DEFINE D == DOMAIN linker.records \ torn
  <2>1. D \in SUBSET Modules
    BY <1>5
  <2>2. package' \in [D -> Records]
    BY <1>1, <1>5
  <2>. HIDE DEF D
  <2>. QED
    BY <2>1, <2>2 DEF Packages
<1>7. DirectLookups => Faithful(package', Uses, Deps)
  <2>1. DirectLookups => Faithful(linker.records, Uses, Deps)
    BY DEF OrderInv, OrderAt
  <2>. QED
    BY <1>1, <2>1 DEF Faithful
<1>8. <<m>> \in Seq(Modules) /\ stack' = <<EntryFrame(<<m>>)>>
  BY <1>1, <1>5
<1>9. \E todo \in Seq(Modules) : stack' = <<EntryFrame(todo)>>
  BY <1>8
<1>10. Packages' = Packages
  OBVIOUS
<1>11. Fresh'
  BY <1>2, <1>3, <1>4, <1>6, <1>7, <1>9, <1>10 DEF Fresh
<1>12. (Fresh => TypeInv /\ OrderInv)'
  BY FreshFacts, PTL
<1>. QED
  BY <1>11, <1>12

-----------------------------------------------------------------------------
(* Every step. *)

\* A link that starts from source is in order.
LEMMA LinkInit ==
    ASSUME Init
    PROVE  TypeInv /\ OrderInv
<1>1. ProgramOK
  BY SourcesAssumption DEF Init, ProgramOK
<1>2. package \in Packages /\ DOMAIN package = {}
  BY NoRecords DEF Init
<1>3. Faithful(package, Uses, Deps)
  BY <1>2 DEF Faithful
<1>4. Fresh
  BY <1>1, <1>2, <1>3, RootsAssumption DEF Init, Fresh
<1>. QED
  BY <1>4, FreshFacts

\* No step changes the program.
LEMMA ProgramKept ==
    ASSUME [Next]_vars
    PROVE  program' = program
BY DEF Next, vars, LinkRoot, FinishLink, LinkPackaged, LoadImported, apply_import, LookUpName,
       ForceImported, bind_from_imports, resolve_namespace_members, BindMember, FinishModule,
       LoadSource, ResolveSource, publish_pending, LoadWildcard, ForceWildcard, CollectNames,
       ForceName, FinishForce, ReplayLoad, FinishReplay, load_module, resolve_pending, force_pending

\* And every step keeps it so, where no lookup leads back to itself.
LEMMA LinkStep ==
    ASSUME TypeInv, OrderInv, DirectLookups, [Next]_vars
    PROVE  TypeInv' /\ OrderInv' /\ program' = program
<1>1. program' = program
  BY ProgramKept
<1>2. CASE UNCHANGED vars
  <2>1. /\ UNCHANGED <<program, package, linker, stack, found, result>>
    BY <1>2 DEF vars
  <2>2. TypedAt(linker', stack', found') /\ found' \in BOOLEAN /\ result' \in {"linking", "linked"} \cup Errors
    BY <2>1 DEF TypeInv
  <2>3. OrderAt(linker', stack', result')
    BY <2>1 DEF OrderInv
  <2>. QED
    BY <1>1, <2>1, <2>2, <2>3, TypedNext, OrderNext
<1>3. CASE Next
  <2>1. CASE LinkRoot \/ FinishLink \/ LinkPackaged
    BY <1>1, <2>1, LinkRootStep, FinishLinkStep, LinkPackagedStep
  <2>2. CASE LoadImported \/ apply_import \/ LookUpName \/ ForceImported \/ bind_from_imports
    BY <1>1, <2>2, LoadImportedStep, ApplyImportStep, LookUpNameStep, ForceImportedStep, BindStep
  <2>3. CASE resolve_namespace_members \/ BindMember \/ FinishModule
    BY <1>1, <2>3, MembersStep, BindMemberStep, FinishModuleStep
  <2>4. CASE LoadSource \/ ResolveSource \/ publish_pending
    BY <1>1, <2>4, LoadSourceStep, ResolveSourceStep, PublishStep
  <2>5. CASE LoadWildcard \/ ForceWildcard \/ CollectNames \/ ForceName \/ FinishForce
    BY <1>1, <2>5, LoadWildcardStep, ForceWildcardStep, CollectNamesStep, ForceNameStep, FinishForceStep
  <2>6. CASE ReplayLoad \/ FinishReplay
    BY <1>1, <2>6, ReplayLoadStep, FinishReplayStep
  <2>. QED
    BY <1>1, <1>3, <2>1, <2>2, <2>3, <2>4, <2>5, <2>6 DEF Next
<1>. QED
  BY <1>1, <1>2, <1>3

\* The inductive invariant.
LinkInv == DirectLookups => TypeInv /\ OrderInv

\* It holds of every link.
LEMMA LinkInvariant == Spec => []LinkInv
<1>1. Init => LinkInv
  BY LinkInit DEF LinkInv
<1>2. LinkInv /\ [Next]_vars => LinkInv'
  <2>1. SUFFICES ASSUME LinkInv, [Next]_vars PROVE LinkInv'
    OBVIOUS
  <2>2. CASE DirectLookups
    BY <1>1, <2>1, <2>2, LinkStep DEF LinkInv
  <2>3. CASE ~DirectLookups
    <3>1. program' = program
      BY <2>1, ProgramKept
    <3>. QED
      BY <2>3, <3>1, SameProgram DEF LinkInv
  <2>. QED
    BY <2>2, <2>3
<1>. QED
  BY <1>1, <1>2, PTL DEF Spec

\* The types, where no lookup leads back to itself: the calls under way are
\* frames of their kinds and the fields of the Linker hold what they should,
\* whatever is loaded, looked up or forced inside what.  load_module ends by
\* recording the last list of loads; that there is one, and that it is its
\* own, is the invariant's doing.
THEOREM LinkerTypeCorrect == Spec => [](DirectLookups => TypeOK)
<1>1. LinkInv => (DirectLookups => TypeOK)
  <2>1. FitFrames \subseteq Frames
    BY DEF FitFrames
  <2>2. Seq(FitFrames) \subseteq Seq(Frames)
    BY <2>1, SeqMono
  <2>. QED
    BY <2>2 DEF LinkInv, TypeInv, TypedAt, TypeOK
<1>. QED
  BY <1>1, LinkInvariant, PTL

\* Each module's declarations are hoisted once, after those of every module it
\* imports but its peers on an import cycle, and when a link is done those of
\* all that was loaded: for every program in which no lookup leads back to
\* itself, from source, from a package or from both (load_module,
\* resolve_pending and force_pending of module.rs).
THEOREM LinkerDependencyFirst == Spec => []DependencyFirst
<1>1. LinkInv => DependencyFirst
  <2>. SUFFICES ASSUME TypeInv, OrderInv, DirectLookups PROVE InOrder
    BY DEF LinkInv, DependencyFirst
  <2>. DEFINE hs == Hoisted
              n == Len(linker.decls)
  <2>1. OrderAt(linker, stack, result) /\ hs = HoistedOf(linker)
    BY DEF OrderInv, Hoisted, HoistedOf
  <2>2. /\ IsInjective(hs) /\ Ordered(hs, Uses, Deps)
        /\ result # "linking" => stack = <<>>
        /\ result \notin Errors => Accounted(stack, ToSet(hs), linker.loaded)
    BY <2>1 DEF OrderAt
  <2>3. /\ n \in Nat /\ DOMAIN hs = 1..n /\ \A i \in 1..n : hs[i] \in Modules
        /\ hs \in Seq(Modules) /\ Len(hs) = n
    <3>1. linker.decls \in Seq(Hoists)
      BY DEF TypeInv, TypedAt, Linkers
    <3>2. DOMAIN linker.decls = 1..n /\ n \in Nat /\ \A i \in 1..n : linker.decls[i] \in Hoists
      BY <3>1
    <3>3. hs = [i \in 1..n |-> linker.decls[i].mod] /\ \A i \in 1..n : linker.decls[i].mod \in Modules
      BY <3>2 DEF Hoisted, Hoists
    <3>. HIDE DEF hs, n
    <3>. QED
      BY <3>2, <3>3
  <2>. HIDE DEF hs, n
  <2>4. ASSUME NEW i \in DOMAIN hs, NEW s \in ToSet(Imports(hs[i]))
        PROVE  s.mod \in ToSet(SubSeq(hs, 1, i - 1)) \/ hs[i] \in Depends(s.mod)
    <3>1. i \in 1..n /\ hs[i] \in Modules
      BY <2>3
    <3>2. s.mod \in Uses[hs[i]]
      BY <3>1 DEF Uses
    <3>3. CASE \E k \in DOMAIN hs : k < i /\ hs[k] = s.mod
      <4>1. PICK k \in 1..n : k < i /\ hs[k] = s.mod
        BY <2>3, <3>3
      <4>. DEFINE t == SubSeq(hs, 1, i - 1)
      <4>2. /\ DOMAIN t = 1..(i - 1) /\ t[k] = hs[k] /\ k \in 1..(i - 1)
        BY <2>3, <3>1, <4>1
      <4>. HIDE DEF t
      <4>3. s.mod \in ToSet(t)
        BY <4>1, <4>2 DEF ToSet
      <4>. QED
        BY <4>3 DEF t
    <3>4. CASE <<s.mod, hs[i]>> \in Deps
      BY <3>4 DEF Deps
    <3>. QED
      BY <2>2, <3>2, <3>3, <3>4 DEF Ordered
  <2>5. result = "linked" => ToSet(hs) = linker.loaded
    <3>. SUFFICES ASSUME result = "linked" PROVE ToSet(hs) = linker.loaded
      OBVIOUS
    <3>1. Accounted(stack, ToSet(hs), linker.loaded)
      BY <2>2 DEF Errors
    <3>2. Held(stack) = {}
      BY <2>2 DEF Held
    <3>. QED
      BY <3>1, <3>2 DEF Accounted
  <2>. QED
    BY <2>2, <2>4, <2>5 DEF InOrder, hs
<1>. QED
  BY <1>1, LinkInvariant, PTL

-----------------------------------------------------------------------------
(* What the names stand for. *)

\* The modules that the roots depend on, and whether their imports all name
\* something.
Reach == UNION {Depends(r) : r \in ToSet(Roots)}
Good == ~Wrong(Denotes)

\* Names bound to what they stand for in m, to what an import of m says, and
\* every name that stands for something bound.
Sound(m, f) == \A n \in DOMAIN f : f[n] \in Denotes[<<m, n>>]
Brought(m, f) == \A n \in DOMAIN f : \E q \in Imported(m, n) : f[n] \in Denotes[q]
Whole(m, X) == \A n \in Names : Denotes[<<m, n>>] # {} => n \in X
SoundAll(g) == \A x \in Modules : Sound(x, g[x])

\* The member that an import of a namespace is for, and those of m all found.
Read(m, j) == <<Imports(m)[j].mod, Imports(m)[j].read>>
ReadsFound(m, g) ==
    \A j \in DOMAIN Imports(m) :
        Imports(m)[j].kind = "import" /\ Denotes[Read(m, j)] # {} =>
            Read(m, j)[2] \in DOMAIN g[Read(m, j)[1]]

\* A statement of m that names something.
Meant(m, j) ==
    /\ Imports(m)[j].mod # m
    /\ Imports(m)[j].kind = "from" => Denotes[<<Imports(m)[j].mod, Imports(m)[j].name>>] # {}

\* Records of modules as the program has them.
Exacted(rs) ==
    \A m \in DOMAIN rs :
        /\ m \in Reach
        /\ Sound(m, rs[m].exports) /\ SoundAll(rs[m].decls.members)
        /\ Good => Whole(m, DOMAIN rs[m].exports) /\ ReadsFound(m, rs[m].decls.members)

\* What a call has found so far is right: the statements a load is past, the
\* sources that a lookup has tried.
PastRight(f, j) ==
    /\ j < f.at => Meant(f.mod, j)
    /\ j = f.at /\ f.stage # "load" => Imports(f.mod)[j].mod # f.mod
    /\ j < f.at /\ Imports(f.mod)[j].kind = "from" => Imports(f.mod)[j].as \in DOMAIN f.bindings
    /\ Good /\ j < f.at /\ Imports(f.mod)[j].kind = "star" =>
          \A n \in Names \ Private :
              Denotes[<<Imports(f.mod)[j].mod, n>>] # {} => n \in DOMAIN f.bindings
LoadRight(f) ==
    /\ Brought(f.mod, f.bindings) /\ SoundAll(f.members)
    /\ f.explicit \subseteq DOMAIN f.bindings
    /\ \A j \in DOMAIN Imports(f.mod) : PastRight(f, j)
    /\ f.at \in DOMAIN Imports(f.mod) =>
          \A j \in DOMAIN Imports(f.mod) : Imports(f.mod)[j].kind = "import" => Read(f.mod, j) \in f.reads
Exactly(f) ==
    /\ f.call = "entry" => ToSet(f.todo) \subseteq Reach
    /\ f.call # "entry" => f.mod \in Reach
    /\ f.call = "load" => LoadRight(f)
    /\ f.call = "resolve" /\ Good =>
          \A i \in PendingSources(f.mod, f.name) : i \in f.todo \/ Denotes[Source(f.mod, f.name, i)] = {}
ExactFrames == {f \in FitFrames : Exactly(f)}

\* Each call was made by the one below it, which waits for it.
StatementOf(f) == Imports(f.mod)[f.at]
WildcardOf(f) == Imports(f.mod)[Min(f.todo)].mod
Binds(f, kind) ==
    /\ f.call = "load" /\ f.stage = "bind"
    /\ f.at \in DOMAIN Imports(f.mod) /\ StatementOf(f).kind = kind
Asking(f) == (f.call = "load" /\ f.stage = "member") \/ (f.call = "force" /\ f.stage = "name")
AwaitsName(f, p) ==
    \/ Binds(f, "from") /\ p = <<StatementOf(f).mod, StatementOf(f).name>>
    \/ f.call = "load" /\ f.stage = "member" /\ p[1] = f.asked
    \/ Waits(f) /\ p = SourceOf(f)
    \/ f.call = "force" /\ f.stage = "name" /\ p[1] = f.mod
AwaitsNames(f, m) ==
    \/ Binds(f, "star") /\ m = StatementOf(f).mod
    \/ f.call = "force" /\ f.stage = "collect" /\ m = WildcardOf(f)
AwaitsLoad(f) == f.call \in {"load", "resolve", "force"} => f.stage = "lookup"
Awaiting(f, g) ==
    /\ g.call = "resolve" => AwaitsName(f, Pair(g))
    /\ g.call = "force" => AwaitsNames(f, g.mod)
    /\ g.call \in {"load", "replay"} => AwaitsLoad(f)
Awaits == {p \in FitFrames \X FitFrames : Awaiting(p[1], p[2])}

\* What a call has asked about is loaded.
Entered(f, loaded) ==
    /\ f.call \in {"resolve", "force"} => f.mod \in loaded
    /\ f.call = "resolve" /\ f.stage # "load" => SourceOf(f)[1] \in loaded
    /\ f.call = "force" /\ f.stage \in {"lookup", "collect"} => WildcardOf(f) \in loaded

\* What a load or a forced module still lacks is to be asked for, or is being
\* asked for now (E).
Gathered(f, ex, E) ==
    /\ \A x \in Modules : DOMAIN f.members[x] \subseteq DOMAIN ex[x]
    /\ \A j \in DOMAIN Imports(f.mod) :
          j < f.at /\ Imports(f.mod)[j].kind = "import" /\ Denotes[Read(f.mod, j)] # {} =>
              \/ Read(f.mod, j)[2] \in DOMAIN f.members[Read(f.mod, j)[1]]
              \/ Read(f.mod, j) \in f.reads /\ Read(f.mod, j)[1] \in f.loading
              \/ Read(f.mod, j) \in E
Forced(f, ex, E) ==
    \A n \in Names : Denotes[<<f.mod, n>>] # {} =>
        \/ n \in f.names \/ n \in DOMAIN ex[f.mod] \/ <<f.mod, n>> \in E
        \/ n \notin Private /\ \E i \in f.todo : Denotes[<<Imports(f.mod)[i].mod, n>>] # {}
Settled(f, ex, E) ==
    (f.call = "load" => Gathered(f, ex, E)) /\ (f.call = "force" => Forced(f, ex, E))

\* What is being asked for by the call above, or was by one that has answered.
Asked(f, g) == {q \in Pairs : Asking(f) /\ g.call = "resolve" /\ q = Pair(g)}
Told(f, fd, ex) ==
    {q \in Pairs : f.call = "load" /\ f.stage = "member" /\ fd /\ q[1] = f.asked /\ q[2] \in DOMAIN ex[f.asked]}

\* The answer that the last call reads is right.
Answered(f, fd, ex) ==
    /\ Binds(f, "from") => StatementOf(f).name \in DOMAIN ex[StatementOf(f).mod]
    /\ Binds(f, "star") => Whole(StatementOf(f).mod, DOMAIN ex[StatementOf(f).mod])
    /\ Waits(f) /\ ~fd => Denotes[SourceOf(f)] = {}
    /\ f.call = "force" /\ f.stage = "collect" => Whole(WildcardOf(f), DOMAIN ex[WildcardOf(f)])
Ready(f, fd, ex) == Settled(f, ex, Told(f, fd, ex)) /\ Answered(f, fd, ex)

\* The calls that wait lack only what those above them were asked for.
Under(st, ex) ==
    \A i \in DOMAIN st : i + 1 \in DOMAIN st => Settled(st[i], ex, Asked(st[i], st[i + 1]))

\* What holds while a program whose imports all name something is linked.
CompleteAt(lk, st, fd) ==
    /\ \A m \in lk.loaded \ lk.pending : Whole(m, DOMAIN lk.exports[m])
    /\ Under(st, lk.exports)
    /\ st # <<>> => Ready(Last(st), fd, lk.exports)

\* The calls under way, and what is exported, recorded and hoisted.
CallsAt(st, loaded, pending) ==
    /\ st \in Seq(ExactFrames) /\ Linked(st, Awaits)
    /\ \A i \in DOMAIN st : Entered(st[i], loaded)
    /\ \A m \in pending : \E i \in DOMAIN st : st[i].call = "load" /\ st[i].mod = m
    /\ Recording => \A r \in ToSet(Roots) : r \in loaded \/ (st # <<>> /\ r \in ToSet(st[1].todo))
HoistRight(h, loaded) ==
    /\ h.mod \in Reach /\ Uses[h.mod] \subseteq loaded
    /\ SoundAll(h.members)
    /\ Good => ReadsFound(h.mod, h.members)
    /\ Recording => \A j \in DOMAIN Imports(h.mod) : Meant(h.mod, j)
KeptAt(lk) ==
    /\ SoundAll(lk.exports)
    /\ \A m \in Modules \ lk.loaded : DOMAIN lk.exports[m] = {}
    /\ Exacted(lk.records)
    /\ \A i \in DOMAIN lk.decls : HoistRight(lk.decls[i], lk.loaded)
ExactAt(lk, st, fd) ==
    /\ CallsAt(st, lk.loaded, lk.pending)
    /\ KeptAt(lk)
    /\ Good => CompleteAt(lk, st, fd)

\* What holds where no lookup leads back to itself and no name is imported from
\* two places.
ExactInv ==
    DirectLookups /\ Unambiguous(Denotes) =>
        /\ Good => result \notin Errors
        /\ ~Recording => Good
        /\ Exacted(package)
        /\ result \notin Errors => ExactAt(linker, stack, found)

-----------------------------------------------------------------------------
(* What the program says. *)

\* What an import says of a name, and that what is said is an import's doing.
LEMMA ImportedFacts ==
    ASSUME ProgramOK, NEW m \in Modules, NEW n \in Names
    PROVE  /\ \A j \in DOMAIN Imports(m) :
                 /\ Imports(m)[j].kind = "from" /\ Imports(m)[j].as = n =>
                       <<Imports(m)[j].mod, Imports(m)[j].name>> \in Imported(m, n)
                 /\ Imports(m)[j].kind = "star" /\ n \notin Private =>
                       <<Imports(m)[j].mod, n>> \in Imported(m, n)
           /\ \A q \in Imported(m, n) :
                 /\ q \in Pairs /\ q[1] \in Uses[m]
                 /\ \E j \in DOMAIN Imports(m) :
                       \/ /\ Imports(m)[j].kind = "from" /\ Imports(m)[j].as = n
                          /\ q = <<Imports(m)[j].mod, Imports(m)[j].name>>
                       \/ /\ Imports(m)[j].kind = "star" /\ n \notin Private
                          /\ q = <<Imports(m)[j].mod, n>>
<1>1. /\ Imports(m) \in Seq(Statement)
      /\ \A i \in DOMAIN Imports(m) :
            /\ Imports(m)[i].mod \in Modules /\ Imports(m)[i].mod \in Uses[m]
            /\ Imports(m)[i].kind = "from" => Imports(m)[i].name \in Names
  BY ImportFacts
<1>2. /\ \A j \in DOMAIN Imports(m) : Imports(m)[j] \in ToSet(Imports(m))
      /\ \A s \in ToSet(Imports(m)) : \E j \in DOMAIN Imports(m) : Imports(m)[j] = s
  BY <1>1, MembersFacts
<1>3. ASSUME NEW j \in DOMAIN Imports(m)
      PROVE  /\ Imports(m)[j].kind = "from" /\ Imports(m)[j].as = n =>
                   <<Imports(m)[j].mod, Imports(m)[j].name>> \in Imported(m, n)
             /\ Imports(m)[j].kind = "star" /\ n \notin Private =>
                   <<Imports(m)[j].mod, n>> \in Imported(m, n)
  BY <1>2 DEF Imported
<1>4. ASSUME NEW q \in Imported(m, n)
      PROVE  /\ q \in Pairs /\ q[1] \in Uses[m]
             /\ \E j \in DOMAIN Imports(m) :
                   \/ /\ Imports(m)[j].kind = "from" /\ Imports(m)[j].as = n
                      /\ q = <<Imports(m)[j].mod, Imports(m)[j].name>>
                   \/ /\ Imports(m)[j].kind = "star" /\ n \notin Private
                      /\ q = <<Imports(m)[j].mod, n>>
  <2>1. \E j \in DOMAIN Imports(m) :
           \/ /\ Imports(m)[j].kind = "from" /\ Imports(m)[j].as = n
              /\ q = <<Imports(m)[j].mod, Imports(m)[j].name>>
           \/ /\ Imports(m)[j].kind = "star" /\ n \notin Private
              /\ q = <<Imports(m)[j].mod, n>>
    BY <1>2, <1>4 DEF Imported
  <2>. QED
    BY <1>1, <2>1 DEF Pairs
<1>. QED
  BY <1>3, <1>4

\* A name that is declared stands for its declaration, and another for what
\* those stand for that it is imported from.
LEMMA DenotesFacts ==
    ASSUME ProgramOK, NEW p \in Pairs
    PROVE  /\ \A q \in Denotes[p] : q \in Reached(Pairs, NameEdges, p) /\ q \in Pairs /\ Declared(q)
           /\ Declared(p) => Denotes[p] = {p}
           /\ ~Declared(p) => \A q \in Imported(p[1], p[2]) : Denotes[q] \subseteq Denotes[p]
           /\ ~Declared(p) /\ Denotes[p] # {} => \E q \in Imported(p[1], p[2]) : Denotes[q] # {}
<1>1. \A x \in Pairs : Denotes[x] = {q \in Reached(Pairs, NameEdges, x) : Declared(q)}
  BY DEF Denotes
<1>2. \A x \in Pairs : Reached(Pairs, NameEdges, x) \subseteq Pairs
  BY DEF Reached
<1>3. p[1] \in Modules /\ p[2] \in Names
  BY DEF Pairs
<1>4. \A q \in Imported(p[1], p[2]) : q \in Pairs
  BY <1>3, ImportedFacts
<1>5. \A x, q : <<x, q>> \in NameEdges <=> x \in Pairs /\ ~Declared(x) /\ q \in Imported(x[1], x[2])
  BY DEF NameEdges
<1>6. Declared(p) => Denotes[p] = {p}
  <2>. SUFFICES ASSUME Declared(p) PROVE Denotes[p] = {p}
    OBVIOUS
  <2>1. Closed({p}, NameEdges)
    BY DEF Closed, NameEdges
  <2>2. {p} \in SUBSET Pairs
    OBVIOUS
  <2>3. Reached(Pairs, NameEdges, p) \subseteq {p}
    BY <2>1, <2>2 DEF Reached
  <2>4. p \in Reached(Pairs, NameEdges, p)
    BY ReachedFacts
  <2>. QED
    BY <1>1, <2>3, <2>4
<1>7. ~Declared(p) => \A q \in Imported(p[1], p[2]) : Denotes[q] \subseteq Denotes[p]
  <2>. SUFFICES ASSUME ~Declared(p), NEW q \in Imported(p[1], p[2])
                PROVE  Denotes[q] \subseteq Denotes[p]
    OBVIOUS
  <2>1. <<p, q>> \in NameEdges /\ q \in Pairs
    BY <1>4, <1>5
  <2>2. Reached(Pairs, NameEdges, q) \subseteq Reached(Pairs, NameEdges, p)
    BY <1>2, <2>1, ReachedFacts
  <2>. QED
    BY <1>1, <2>1, <2>2
<1>8. ~Declared(p) /\ Denotes[p] # {} => \E q \in Imported(p[1], p[2]) : Denotes[q] # {}
  <2>. SUFFICES ASSUME ~Declared(p), NEW d \in Denotes[p]
                PROVE  \E q \in Imported(p[1], p[2]) : Denotes[q] # {}
    OBVIOUS
  <2>. DEFINE X == {x \in Pairs : x = p \/ \E q \in Imported(p[1], p[2]) : x \in Reached(Pairs, NameEdges, q)}
  <2>1. ASSUME NEW e \in NameEdges, e[1] \in X PROVE e[2] \in X
    <3>. PICK x \in Pairs : ~Declared(x) /\ \E q \in Imported(x[1], x[2]) : e = <<x, q>>
      BY DEF NameEdges
    <3>1. PICK q \in Imported(x[1], x[2]) : e = <<x, q>>
      OBVIOUS
    <3>2. q \in Pairs
      BY <3>1, ImportedFacts DEF Pairs
    <3>3. CASE x = p
      <4>1. q \in Reached(Pairs, NameEdges, q)
        BY <3>2, ReachedFacts
      <4>. QED
        BY <3>1, <3>2, <3>3, <4>1
    <3>4. CASE \E r \in Imported(p[1], p[2]) : x \in Reached(Pairs, NameEdges, r)
      <4>1. PICK r \in Imported(p[1], p[2]) : x \in Reached(Pairs, NameEdges, r)
        BY <3>4
      <4>2. q \in Reached(Pairs, NameEdges, x)
        BY <3>1, <3>2, ReachedFacts
      <4>3. q \in Reached(Pairs, NameEdges, r)
        BY <1>4, <3>2, <4>1, <4>2, ReachedFacts
      <4>. QED
        BY <3>1, <3>2, <4>3
    <3>. QED
      BY <2>1, <3>1, <3>3, <3>4
  <2>2. X \in SUBSET Pairs /\ p \in X
    OBVIOUS
  <2>3. Closed(X, NameEdges)
    BY <2>1 DEF Closed
  <2>4. d \in X /\ Declared(d)
    <3>1. d \in Reached(Pairs, NameEdges, p) /\ Declared(d)
      BY <1>1
    <3>. HIDE DEF X
    <3>. QED
      BY <2>2, <2>3, <3>1 DEF Reached
  <2>5. PICK q \in Imported(p[1], p[2]) : d \in Reached(Pairs, NameEdges, q)
    BY <2>4
  <2>. QED
    BY <1>1, <1>4, <2>4, <2>5
<1>. QED
  BY <1>1, <1>2, <1>6, <1>7, <1>8

\* The modules that the roots depend on are the least that have the roots and
\* what each of them uses.
LEMMA ReachFacts ==
    ASSUME ProgramOK
    PROVE  /\ Reach \subseteq Modules
           /\ ToSet(Roots) \subseteq Reach
           /\ \A m \in Reach : \A x : <<m, x>> \in Deps => x \in Reach
           /\ \A m \in Reach : Uses[m] \subseteq Reach
           /\ \A X \in SUBSET Modules :
                 ToSet(Roots) \subseteq X /\ (\A m \in X : Uses[m] \subseteq X) => Reach \subseteq X
<1>1. \A x \in Modules : Depends(x) \subseteq Modules
  BY DEF Depends, Reached
<1>2. ToSet(Roots) \subseteq Modules
  BY RootsAssumption, MembersFacts
<1>3. Reach \subseteq Modules
  BY <1>1, <1>2 DEF Reach
<1>4. ToSet(Roots) \subseteq Reach
  <2>1. \A r \in Modules : r \in Depends(r)
    BY ReachedFacts DEF Depends
  <2>. QED
    BY <1>2, <2>1 DEF Reach
<1>5. \A m \in Reach : \A x : <<m, x>> \in Deps => x \in Reach
  <2>. SUFFICES ASSUME NEW m \in Reach, NEW x, <<m, x>> \in Deps PROVE x \in Reach
    OBVIOUS
  <2>1. PICK r \in ToSet(Roots) : m \in Depends(r)
    BY DEF Reach
  <2>2. m \in Modules /\ x \in Modules /\ x \in Depends(m)
    BY DEF Deps
  <2>3. x \in Depends(r)
    BY <1>2, <2>1, <2>2, ReachedFacts DEF Depends
  <2>. QED
    BY <2>1, <2>3 DEF Reach
<1>6. \A m \in Reach : Uses[m] \subseteq Reach
  BY <1>3, <1>5, DepsFacts
<1>7. ASSUME NEW X \in SUBSET Modules, ToSet(Roots) \subseteq X, \A m \in X : Uses[m] \subseteq X
      PROVE  Reach \subseteq X
  <2>1. ASSUME NEW e \in ImportEdges, e[1] \in X PROVE e[2] \in X
    <3>. PICK m \in Modules : \E s \in ToSet(Imports(m)) : e = <<m, s.mod>>
      BY DEF ImportEdges, Statements
    <3>1. PICK s \in ToSet(Imports(m)) : e = <<m, s.mod>>
      OBVIOUS
    <3>2. s.mod \in Uses[m]
      BY <3>1 DEF Uses
    <3>. QED
      BY <1>7, <2>1, <3>1, <3>2
  <2>2. Closed(X, ImportEdges)
    BY <2>1 DEF Closed
  <2>3. \A r \in X : Depends(r) \subseteq X
    BY <2>2 DEF Depends, Reached
  <2>. QED
    BY <1>7, <2>3 DEF Reach
<1>. QED
  BY <1>3, <1>4, <1>5, <1>6, <1>7

\* A program is good if every statement it reaches names something.
LEMMA GoodFacts ==
    ASSUME ProgramOK
    PROVE  Good <=> \A m \in Reach : \A j \in DOMAIN Imports(m) : Meant(m, j)
<1>1. \A m \in Reach : m \in Modules
  BY ReachFacts
<1>2. ASSUME NEW m \in Reach
      PROVE  /\ \A j \in DOMAIN Imports(m) : Imports(m)[j] \in ToSet(Imports(m))
             /\ \A s \in ToSet(Imports(m)) : \E j \in DOMAIN Imports(m) : Imports(m)[j] = s
  BY <1>1, ImportFacts, MembersFacts
<1>3. Wrong(Denotes) <=> \E m \in Reach : \E s \in ToSet(Imports(m)) :
        s.mod = m \/ (s.kind = "from" /\ Denotes[<<s.mod, s.name>>] = {})
  BY DEF Wrong, Reach
<1>4. ASSUME NEW m \in Reach
      PROVE  (\E s \in ToSet(Imports(m)) : s.mod = m \/ (s.kind = "from" /\ Denotes[<<s.mod, s.name>>] = {}))
                <=> ~(\A j \in DOMAIN Imports(m) : Meant(m, j))
  <2>. DEFINE Says(s) == s.mod # m /\ (s.kind = "from" => Denotes[<<s.mod, s.name>>] # {})
  <2>1. \A j : Meant(m, j) <=> Says(Imports(m)[j])
    BY DEF Meant
  <2>2. \A s : (s.mod = m \/ (s.kind = "from" /\ Denotes[<<s.mod, s.name>>] = {})) <=> ~Says(s)
    OBVIOUS
  <2>. HIDE DEF Says
  <2>3. (\E s \in ToSet(Imports(m)) : ~Says(s)) <=> ~(\A j \in DOMAIN Imports(m) : Says(Imports(m)[j]))
    BY <1>2, <1>4, Zenon
  <2>. QED
    BY <2>1, <2>2, <2>3
<1>. QED
  BY <1>3, <1>4 DEF Good

\* What the names stand for, as long as the program is the same.
LEMMA SameMeaning ==
    ASSUME program' = program
    PROVE  /\ Denotes' = Denotes /\ Reach' = Reach /\ Good' = Good
           /\ Unambiguous(Denotes)' = Unambiguous(Denotes)
<1>1. Denotes' = Denotes
  <2>1. NameEdges' = NameEdges
    BY DEF NameEdges, Imported, Declared, Imports
  <2>. QED
    BY <2>1 DEF Denotes, Declared
<1>2. Reach' = Reach
  <2>1. ImportEdges' = ImportEdges
    BY DEF ImportEdges, Statements, Imports
  <2>. QED
    BY <2>1 DEF Reach, Depends
<1>3. Good' = Good
  <2>1. ImportEdges' = ImportEdges
    BY DEF ImportEdges, Statements, Imports
  <2>. QED
    BY <1>1, <2>1 DEF Good, Wrong, Depends, Imports
<1>4. Unambiguous(Denotes)' = Unambiguous(Denotes)
  BY <1>1 DEF Unambiguous, Imported, Imports
<1>. QED
  BY <1>1, <1>2, <1>3, <1>4

\* What holds of the program does not change with the link.
LEMMA SameExact ==
    ASSUME program' = program, package' = package
    PROVE  /\ Denotes' = Denotes /\ Reach' = Reach /\ Good' = Good
           /\ Unambiguous(Denotes)' = Unambiguous(Denotes)
           /\ ExactFrames' = ExactFrames /\ Awaits' = Awaits
<1>1. /\ Denotes' = Denotes /\ Reach' = Reach /\ Good' = Good
      /\ Unambiguous(Denotes)' = Unambiguous(Denotes)
  BY SameMeaning
<1>2. FitFrames' = FitFrames
  BY SameFrames
<1>3. ASSUME NEW f PROVE Exactly(f)' = Exactly(f)
  <2>1. Brought(f.mod, f.bindings)' = Brought(f.mod, f.bindings)
    BY <1>1 DEF Brought, Imported, Imports
  <2>2. SoundAll(f.members)' = SoundAll(f.members)
    BY <1>1 DEF SoundAll, Sound
  <2>3. (\A j \in DOMAIN Imports(f.mod) : PastRight(f, j))' = (\A j \in DOMAIN Imports(f.mod) : PastRight(f, j))
    BY <1>1 DEF PastRight, Meant, Imports
  <2>4. LoadRight(f)' = LoadRight(f)
    BY <2>1, <2>2, <2>3, Zenon DEF LoadRight, Read, Imports
  <2>5. PendingSources(f.mod, f.name)' = PendingSources(f.mod, f.name)
    BY DEF PendingSources, Named, Wildcards, Imports
  <2>. QED
    BY <1>1, <2>4, <2>5, Zenon DEF Exactly, Source, Imports
<1>4. ExactFrames' = ExactFrames
  BY <1>2, <1>3 DEF ExactFrames
<1>5. ASSUME NEW f, NEW g PROVE Awaiting(f, g)' = Awaiting(f, g)
  BY Zenon DEF Awaiting, AwaitsName, AwaitsNames, AwaitsLoad, Binds, Waits, SourceOf, Source, StatementOf,
               WildcardOf, Pair, Imports
<1>6. Awaits' = Awaits
  BY <1>2, <1>5 DEF Awaits
<1>. QED
  BY <1>1, <1>4, <1>6

-----------------------------------------------------------------------------
(* What the invariant says of the state after a step. *)

\* The state after a step that leaves the package as it was.
LEMMA ExactNext ==
    ASSUME ExactInv, program' = program, package' = package,
           DirectLookups /\ Unambiguous(Denotes) =>
              /\ Good => result' \notin Errors
              /\ result' \notin Errors => ExactAt(linker', stack', found')
    PROVE  ExactInv'
<1>1. /\ Denotes' = Denotes /\ Reach' = Reach /\ Good' = Good
      /\ Unambiguous(Denotes)' = Unambiguous(Denotes)
      /\ ExactFrames' = ExactFrames /\ Awaits' = Awaits
  BY SameExact
<1>2. DirectLookups' = DirectLookups /\ Uses' = Uses
  BY SameProgram
<1>3. Recording' = Recording
  BY DEF Recording
<1>4. Exacted(package)' = Exacted(package)
  BY <1>1 DEF Exacted, Sound, SoundAll, Whole, ReadsFound, Read, Imports
<1>5. CallsAt(stack, linker.loaded, linker.pending)' = CallsAt(stack', linker'.loaded, linker'.pending)
  BY <1>1, <1>3 DEF CallsAt, Entered, SourceOf, Source, WildcardOf, Imports
<1>6. KeptAt(linker)' = KeptAt(linker')
  <2>1. Exacted(linker.records)' = Exacted(linker'.records)
    BY <1>1 DEF Exacted, Sound, SoundAll, Whole, ReadsFound, Read, Imports
  <2>2. SoundAll(linker.exports)' = SoundAll(linker'.exports)
    BY <1>1 DEF SoundAll, Sound
  <2>3. (\A i \in DOMAIN linker.decls : HoistRight(linker.decls[i], linker.loaded))'
          = (\A i \in DOMAIN linker'.decls : HoistRight(linker'.decls[i], linker'.loaded))
    BY <1>1, <1>2, <1>3 DEF HoistRight, SoundAll, Sound, ReadsFound, Read, Meant, Imports
  <2>. QED
    BY <2>1, <2>2, <2>3 DEF KeptAt
<1>7. CompleteAt(linker, stack, found)' = CompleteAt(linker', stack', found')
  <2>1. Under(stack, linker.exports)' = Under(stack', linker'.exports)
    BY <1>1 DEF Under, Settled, Gathered, Forced, Asked, Asking, Read, Imports
  <2>2. Settled(Last(stack), linker.exports, Told(Last(stack), found, linker.exports))'
          = Settled(Last(stack'), linker'.exports, Told(Last(stack'), found', linker'.exports))
    BY <1>1 DEF Settled, Gathered, Forced, Told, Read, Imports
  <2>3. Answered(Last(stack), found, linker.exports)' = Answered(Last(stack'), found', linker'.exports)
    BY <1>1 DEF Answered, Binds, StatementOf, Whole, SourceOf, Source, WildcardOf, Imports
  <2>4. (\A m \in linker.loaded \ linker.pending : Whole(m, DOMAIN linker.exports[m]))'
          = (\A m \in linker'.loaded \ linker'.pending : Whole(m, DOMAIN linker'.exports[m]))
    BY <1>1 DEF Whole
  <2>. QED
    BY <2>1, <2>2, <2>3, <2>4 DEF CompleteAt, Ready
<1>. QED
  BY <1>1, <1>2, <1>3, <1>4, <1>5, <1>6, <1>7 DEF ExactInv, ExactAt

\* Modules that export no less.
Grows(ex, ey) == \A x \in Modules : DOMAIN ex[x] \subseteq DOMAIN ey[x]

\* What a call lacks, when more is exported and more is asked for.
LEMMA SettledMore ==
    ASSUME NEW f \in FitFrames, NEW ex, NEW ey, Grows(ex, ey), NEW E, NEW F, E \subseteq F,
           Settled(f, ex, E)
    PROVE  Settled(f, ey, F)
<1>1. f.call # "entry" => f.mod \in Modules
  BY FrameFacts
<1>2. f.call = "load" => Gathered(f, ey, F)
  BY DEF Settled, Gathered, Grows
<1>3. f.call = "force" => Forced(f, ey, F)
  BY <1>1 DEF Settled, Forced, Grows
<1>. QED
  BY <1>2, <1>3 DEF Settled

\* The calls that wait, when more is exported.
LEMMA UnderMore ==
    ASSUME NEW st \in Seq(FitFrames), NEW ex, NEW ey, Grows(ex, ey), Under(st, ex)
    PROVE  Under(st, ey)
<1>. SUFFICES ASSUME NEW i \in DOMAIN st, i + 1 \in DOMAIN st
              PROVE  Settled(st[i], ey, Asked(st[i], st[i + 1]))
  BY DEF Under
<1>1. st[i] \in FitFrames
  OBVIOUS
<1>. QED
  BY <1>1, SettledMore DEF Under

\* When the last of them goes on.
LEMMA UnderPut ==
    ASSUME NEW st \in Seq(FitFrames), st # <<>>, NEW ex, Under(st, ex),
           NEW f \in FitFrames, Same(f, Last(st))
    PROVE  Under([st EXCEPT ![Len(st)] = f], ex)
<1>. DEFINE t == [st EXCEPT ![Len(st)] = f]
<1>1. /\ Len(st) \in Nat \ {0} /\ DOMAIN st = 1..Len(st) /\ DOMAIN t = DOMAIN st
      /\ \A i \in 1..(Len(st) - 1) : t[i] = st[i]
      /\ t[Len(st)] = f
  BY PutFacts
<1>2. Last(st) = st[Len(st)]
  BY PopFacts
<1>. HIDE DEF t
<1>. SUFFICES ASSUME NEW i \in DOMAIN t, i + 1 \in DOMAIN t
              PROVE  Settled(t[i], ex, Asked(t[i], t[i + 1]))
  BY DEF Under, t
<1>3. t[i] = st[i] /\ i \in DOMAIN st /\ i + 1 \in DOMAIN st
  BY <1>1
<1>4. Settled(st[i], ex, Asked(st[i], st[i + 1]))
  BY <1>3 DEF Under
<1>5. Asked(t[i], t[i + 1]) = Asked(st[i], st[i + 1])
  <2>1. CASE i + 1 = Len(st)
    BY <1>1, <1>2, <1>3, <2>1 DEF Asked, Same, Pair
  <2>2. CASE i + 1 # Len(st)
    BY <1>1, <1>3, <2>2
  <2>. QED
    BY <2>1, <2>2
<1>. QED
  BY <1>3, <1>4, <1>5

\* When one more is made.
LEMMA UnderPush ==
    ASSUME NEW st \in Seq(FitFrames), st # <<>>, NEW ex, Under(st, ex), NEW g \in FitFrames,
           Settled(Last(st), ex, Asked(Last(st), g))
    PROVE  Under(Append(st, g), ex)
<1>. DEFINE t == Append(st, g)
<1>1. /\ DOMAIN st = 1..Len(st) /\ Len(st) \in Nat /\ DOMAIN t = 1..(Len(st) + 1)
      /\ \A i \in 1..Len(st) : t[i] = st[i]
      /\ t[Len(st) + 1] = g
  BY PushFacts
<1>2. Last(st) = st[Len(st)]
  BY PopFacts
<1>. HIDE DEF t
<1>. SUFFICES ASSUME NEW i \in DOMAIN t, i + 1 \in DOMAIN t
              PROVE  Settled(t[i], ex, Asked(t[i], t[i + 1]))
  BY DEF Under, t
<1>3. CASE i = Len(st)
  BY <1>1, <1>2, <1>3
<1>4. CASE i # Len(st)
  <2>1. i \in DOMAIN st /\ i + 1 \in DOMAIN st /\ t[i] = st[i] /\ t[i + 1] = st[i + 1]
    BY <1>1, <1>4
  <2>. QED
    BY <2>1 DEF Under
<1>. QED
  BY <1>3, <1>4

\* And when the last is gone.
LEMMA UnderPop ==
    ASSUME NEW st \in Seq(FitFrames), st # <<>>, NEW ex, Under(st, ex)
    PROVE  /\ Under(Front(st), ex)
           /\ Front(st) # <<>> => Settled(Last(Front(st)), ex, Asked(Last(Front(st)), Last(st)))
<1>. DEFINE t == Front(st)
<1>1. /\ Len(st) \in Nat \ {0} /\ DOMAIN st = 1..Len(st) /\ t \in Seq(FitFrames)
      /\ Len(t) = Len(st) - 1 /\ DOMAIN t = 1..(Len(st) - 1)
      /\ \A i \in 1..(Len(st) - 1) : t[i] = st[i]
      /\ Last(st) = st[Len(st)]
  BY PopFacts
<1>. HIDE DEF t
<1>2. Under(t, ex)
  <2>. SUFFICES ASSUME NEW i \in DOMAIN t, i + 1 \in DOMAIN t
                PROVE  Settled(t[i], ex, Asked(t[i], t[i + 1]))
    BY DEF Under
  <2>1. i \in DOMAIN st /\ i + 1 \in DOMAIN st /\ t[i] = st[i] /\ t[i + 1] = st[i + 1]
    BY <1>1
  <2>. QED
    BY <2>1 DEF Under
<1>3. ASSUME t # <<>> PROVE Settled(Last(t), ex, Asked(Last(t), Last(st)))
  <2>1. Len(t) \in Nat \ {0} /\ Last(t) = t[Len(t)]
    BY <1>1, <1>3, PopFacts
  <2>2. Len(t) \in DOMAIN st /\ Len(t) + 1 \in DOMAIN st /\ t[Len(t)] = st[Len(t)] /\ Len(t) + 1 = Len(st)
    BY <1>1, <2>1
  <2>. QED
    BY <1>1, <2>1, <2>2 DEF Under
<1>. QED
  BY <1>2, <1>3 DEF t

\* The frames that hold what they should.
LEMMA ExactFits == ExactFrames \subseteq FitFrames /\ Seq(ExactFrames) \subseteq Seq(FitFrames)
<1>1. ExactFrames \subseteq FitFrames
  BY DEF ExactFrames
<1>. QED
  BY <1>1, SeqMono

\* What a call has asked about stays loaded.
LEMMA EnteredMore ==
    ASSUME NEW f, NEW ld, NEW le, ld \subseteq le, Entered(f, ld)
    PROVE  Entered(f, le)
BY DEF Entered

\* A call awaits another whatever stage that is at.
LEMMA AwaitsSame ==
    ASSUME NEW f \in FitFrames, NEW g \in FitFrames, NEW h \in FitFrames, <<f, g>> \in Awaits, Same(h, g)
    PROVE  <<f, h>> \in Awaits
<1>1. g.call # "entry" => h.mod = g.mod /\ (g.call = "resolve" => Pair(h) = Pair(g))
  BY DEF Same, Pair
<1>2. Awaiting(f, g) /\ h.call = g.call
  BY DEF Awaits, Same
<1>3. Awaiting(f, h)
  BY <1>1, <1>2 DEF Awaiting
<1>. QED
  BY <1>3 DEF Awaits

\* A call goes on.
LEMMA CallsPut ==
    ASSUME NEW st, NEW ld, NEW pd, CallsAt(st, ld, pd), st # <<>>, Grounded(st),
           NEW f \in ExactFrames, Same(f, Last(st)), NEW le, ld \subseteq le, Entered(f, le),
           f.call = "entry" /\ Recording => \A r \in ToSet(Roots) : r \in le \/ r \in ToSet(f.todo)
    PROVE  CallsAt([st EXCEPT ![Len(st)] = f], le, pd)
<1>. DEFINE t == [st EXCEPT ![Len(st)] = f]
<1>1. st \in Seq(ExactFrames) /\ st \in Seq(FitFrames)
  BY ExactFits DEF CallsAt
<1>2. /\ Len(st) \in Nat \ {0} /\ DOMAIN st = 1..Len(st) /\ DOMAIN t = DOMAIN st /\ t # <<>>
      /\ \A i \in 1..(Len(st) - 1) : t[i] = st[i]
      /\ t[Len(st)] = f /\ t \in Seq(ExactFrames)
  BY <1>1, PutFacts
<1>3. Last(st) = st[Len(st)] /\ Last(st) \in FitFrames /\ f \in FitFrames
  BY <1>1, PopFacts, ExactFits
<1>. HIDE DEF t
<1>4. Linked(t, Awaits)
  <2>. SUFFICES ASSUME NEW i \in DOMAIN t, i + 1 \in DOMAIN t PROVE <<t[i], t[i + 1]>> \in Awaits
    BY DEF Linked
  <2>1. <<st[i], st[i + 1]>> \in Awaits /\ t[i] = st[i] /\ st[i] \in FitFrames
    BY <1>1, <1>2 DEF CallsAt, Linked
  <2>2. CASE i + 1 = Len(st)
    BY <1>2, <1>3, <2>1, <2>2, AwaitsSame
  <2>3. CASE i + 1 # Len(st)
    BY <1>2, <2>1, <2>3
  <2>. QED
    BY <2>2, <2>3
<1>5. ASSUME NEW i \in DOMAIN t PROVE Entered(t[i], le)
  <2>1. CASE i = Len(st)
    BY <1>2, <2>1
  <2>2. CASE i # Len(st)
    <3>1. t[i] = st[i] /\ i \in DOMAIN st
      BY <1>2, <1>5, <2>2
    <3>2. Entered(st[i], ld)
      BY <3>1 DEF CallsAt
    <3>. QED
      BY <3>1, <3>2, EnteredMore
  <2>. QED
    BY <2>1, <2>2
<1>6. ASSUME NEW m \in pd PROVE \E i \in DOMAIN t : t[i].call = "load" /\ t[i].mod = m
  <2>1. PICK i \in DOMAIN st : st[i].call = "load" /\ st[i].mod = m
    BY <1>6 DEF CallsAt
  <2>2. t[i].call = "load" /\ t[i].mod = m
    BY <1>2, <1>3, <2>1 DEF Same
  <2>. QED
    BY <1>2, <2>2
<1>7. ASSUME Recording, NEW r \in ToSet(Roots) PROVE r \in le \/ (t # <<>> /\ r \in ToSet(t[1].todo))
  <2>1. r \in ld \/ r \in ToSet(st[1].todo)
    BY <1>7 DEF CallsAt
  <2>2. CASE Len(st) = 1
    <3>1. f.call = "entry" /\ t[1] = f
      BY <1>2, <1>3, <2>2 DEF Grounded, Same
    <3>. QED
      BY <1>2, <1>7, <3>1
  <2>3. CASE Len(st) # 1
    <3>1. t[1] = st[1]
      BY <1>2, <2>3
    <3>. QED
      BY <1>2, <2>1, <3>1
  <2>. QED
    BY <2>2, <2>3
<1>. QED
  BY <1>2, <1>4, <1>5, <1>6, <1>7 DEF CallsAt, t

\* A call is made.
LEMMA CallsPush ==
    ASSUME NEW st, NEW ld, NEW pd, CallsAt(st, ld, pd), st # <<>>,
           NEW g \in ExactFrames, Awaiting(Last(st), g), Entered(g, ld), NEW pe,
           \A m \in pe : m \in pd \/ (g.call = "load" /\ g.mod = m)
    PROVE  CallsAt(Append(st, g), ld, pe)
<1>. DEFINE t == Append(st, g)
<1>1. st \in Seq(ExactFrames) /\ st \in Seq(FitFrames) /\ g \in FitFrames
  BY ExactFits DEF CallsAt
<1>2. /\ DOMAIN st = 1..Len(st) /\ Len(st) \in Nat /\ DOMAIN t = 1..(Len(st) + 1)
      /\ \A i \in 1..Len(st) : t[i] = st[i]
      /\ t[Len(st) + 1] = g /\ t \in Seq(ExactFrames) /\ t # <<>>
  BY <1>1, PushFacts
<1>3. Last(st) = st[Len(st)] /\ Last(st) \in FitFrames /\ Len(st) # 0
  BY <1>1, PopFacts
<1>4. <<Last(st), g>> \in Awaits
  BY <1>1, <1>3 DEF Awaits
<1>. HIDE DEF t
<1>5. Linked(t, Awaits)
  <2>. SUFFICES ASSUME NEW i \in DOMAIN t, i + 1 \in DOMAIN t PROVE <<t[i], t[i + 1]>> \in Awaits
    BY DEF Linked
  <2>1. CASE i = Len(st)
    BY <1>2, <1>3, <1>4, <2>1
  <2>2. CASE i # Len(st)
    <3>1. i \in DOMAIN st /\ i + 1 \in DOMAIN st /\ t[i] = st[i] /\ t[i + 1] = st[i + 1]
      BY <1>2, <2>2
    <3>. QED
      BY <3>1 DEF CallsAt, Linked
  <2>. QED
    BY <2>1, <2>2
<1>6. ASSUME NEW i \in DOMAIN t PROVE Entered(t[i], ld)
  <2>1. CASE i = Len(st) + 1
    BY <1>2, <2>1
  <2>2. CASE i # Len(st) + 1
    BY <1>2, <1>6, <2>2 DEF CallsAt
  <2>. QED
    BY <2>1, <2>2
<1>7. ASSUME NEW m \in pe PROVE \E i \in DOMAIN t : t[i].call = "load" /\ t[i].mod = m
  <2>1. CASE m \in pd
    <3>1. PICK i \in DOMAIN st : st[i].call = "load" /\ st[i].mod = m
      BY <2>1 DEF CallsAt
    <3>. QED
      BY <1>2, <3>1
  <2>2. CASE g.call = "load" /\ g.mod = m
    BY <1>2, <2>2
  <2>. QED
    BY <1>7, <2>1, <2>2
<1>8. ASSUME Recording, NEW r \in ToSet(Roots) PROVE r \in ld \/ (t # <<>> /\ r \in ToSet(t[1].todo))
  <2>1. t[1] = st[1]
    BY <1>2, <1>3
  <2>. QED
    BY <1>2, <1>8, <2>1 DEF CallsAt
<1>. QED
  BY <1>2, <1>5, <1>6, <1>7, <1>8 DEF CallsAt, t

\* A call returns to another.
LEMMA CallsPop ==
    ASSUME NEW st, NEW ld, NEW pd, CallsAt(st, ld, pd), st # <<>>, Front(st) # <<>>,
           NEW pe, pe \subseteq pd, Last(st).call = "load" => Last(st).mod \notin pe
    PROVE  /\ CallsAt(Front(st), ld, pe)
           /\ Last(Front(st)) \in ExactFrames /\ Awaiting(Last(Front(st)), Last(st))
<1>. DEFINE t == Front(st)
<1>1. st \in Seq(ExactFrames)
  BY DEF CallsAt
<1>2. /\ Len(st) \in Nat \ {0} /\ DOMAIN st = 1..Len(st) /\ t \in Seq(ExactFrames)
      /\ Len(t) = Len(st) - 1 /\ DOMAIN t = 1..(Len(st) - 1)
      /\ \A i \in 1..(Len(st) - 1) : t[i] = st[i]
      /\ Last(st) = st[Len(st)]
  BY <1>1, PopFacts
<1>3. Len(t) \in Nat \ {0} /\ Last(t) = t[Len(t)] /\ Last(t) \in ExactFrames
  BY <1>2, PopFacts
<1>. HIDE DEF t
<1>4. Linked(t, Awaits)
  BY <1>2 DEF CallsAt, Linked
<1>5. \A i \in DOMAIN t : Entered(t[i], ld)
  BY <1>2 DEF CallsAt
<1>6. ASSUME NEW m \in pe PROVE \E i \in DOMAIN t : t[i].call = "load" /\ t[i].mod = m
  <2>1. PICK i \in DOMAIN st : st[i].call = "load" /\ st[i].mod = m
    BY <1>6 DEF CallsAt
  <2>2. i # Len(st)
    BY <1>2, <1>6, <2>1
  <2>. QED
    BY <1>2, <2>1, <2>2
<1>7. ASSUME Recording, NEW r \in ToSet(Roots) PROVE r \in ld \/ (t # <<>> /\ r \in ToSet(t[1].todo))
  <2>1. t[1] = st[1] /\ t # <<>>
    BY <1>2, <1>3 DEF t
  <2>. QED
    BY <1>7, <2>1 DEF CallsAt
<1>8. Awaiting(Last(t), Last(st))
  <2>1. Len(t) \in DOMAIN st /\ Len(t) + 1 \in DOMAIN st /\ Len(t) + 1 = Len(st) /\ st[Len(t)] = t[Len(t)]
    BY <1>2, <1>3
  <2>2. <<st[Len(t)], st[Len(t) + 1]>> \in Awaits
    BY <2>1 DEF CallsAt, Linked
  <2>. QED
    BY <1>2, <1>3, <2>1, <2>2 DEF Awaits
<1>. QED
  BY <1>2, <1>3, <1>4, <1>5, <1>6, <1>7, <1>8 DEF CallsAt, t

\* What is exported, recorded and hoisted, with more of each.
LEMMA KeptNext ==
    ASSUME NEW lk, lk.decls \in Seq(Hoists), NEW lm, KeptAt(lk), lk.loaded \subseteq lm.loaded,
           SoundAll(lm.exports),
           \A m \in Modules \ lm.loaded : lm.exports[m] = lk.exports[m],
           Exacted(lm.records),
           \/ lm.decls = lk.decls
           \/ \E h \in Hoists : lm.decls = Append(lk.decls, h) /\ HoistRight(h, lm.loaded)
    PROVE  KeptAt(lm)
<1>1. ASSUME NEW h, HoistRight(h, lk.loaded) PROVE HoistRight(h, lm.loaded)
  BY <1>1 DEF HoistRight
<1>2. \A i \in DOMAIN lk.decls : HoistRight(lk.decls[i], lm.loaded)
  BY <1>1 DEF KeptAt
<1>3. \A i \in DOMAIN lm.decls : HoistRight(lm.decls[i], lm.loaded)
  <2>1. CASE lm.decls = lk.decls
    BY <1>2, <2>1
  <2>2. CASE \E h \in Hoists : lm.decls = Append(lk.decls, h) /\ HoistRight(h, lm.loaded)
    <3>1. PICK h \in Hoists : lm.decls = Append(lk.decls, h) /\ HoistRight(h, lm.loaded)
      BY <2>2
    <3>2. /\ DOMAIN lk.decls = 1..Len(lk.decls) /\ Len(lk.decls) \in Nat
          /\ DOMAIN lm.decls = 1..(Len(lk.decls) + 1)
          /\ \A i \in 1..Len(lk.decls) : lm.decls[i] = lk.decls[i]
          /\ lm.decls[Len(lk.decls) + 1] = h
      BY <3>1, PushFacts
    <3>. SUFFICES ASSUME NEW i \in DOMAIN lm.decls PROVE HoistRight(lm.decls[i], lm.loaded)
      OBVIOUS
    <3>3. i \in DOMAIN lk.decls \/ i = Len(lk.decls) + 1
      BY <3>2
    <3>. QED
      BY <1>2, <3>1, <3>2, <3>3
  <2>. QED
    BY <2>1, <2>2
<1>4. \A m \in Modules \ lm.loaded : DOMAIN lm.exports[m] = {}
  BY DEF KeptAt
<1>. QED
  BY <1>3, <1>4 DEF KeptAt

\* A call at a stage that reads no answer.
Plain(f) == AwaitsLoad(f) \/ (f.call \in {"load", "resolve", "force"} /\ f.stage = "load")

\* It is ready as soon as it lacks only what it is to ask for.
LEMMA PlainReady ==
    ASSUME NEW f \in FitFrames, Plain(f), NEW ex
    PROVE  /\ \A fd : Settled(f, ex, {}) => Ready(f, fd, ex)
           /\ \A fd : Ready(f, fd, ex) => Settled(f, ex, {})
           /\ \A g : Asked(f, g) = {}
<1>1. f.call \in {"load", "resolve", "force"} => f.stage \in {"lookup", "load"}
  BY DEF Plain, AwaitsLoad
<1>2. \A fd : Told(f, fd, ex) = {}
  BY <1>1 DEF Told
<1>3. \A fd : Answered(f, fd, ex)
  BY <1>1 DEF Answered, Binds, Waits
<1>4. \A g : Asked(f, g) = {}
  BY <1>1 DEF Asked, Asking
<1>. QED
  BY <1>2, <1>3, <1>4 DEF Ready

-----------------------------------------------------------------------------
(* Calls made, going on and returning. *)

\* The invariant, of a program that it says something of.
Sane == TypeInv /\ OrderInv /\ DirectLookups /\ Unambiguous(Denotes) /\ ExactInv

\* What it says while a link is under way.
LEMMA RunningFacts ==
    ASSUME Sane, stack # <<>>
    PROVE  /\ result = "linking" /\ result \notin Errors /\ ProgramOK /\ package \in Packages
           /\ linker \in Linkers /\ stack \in Seq(FitFrames) /\ Grounded(stack)
           /\ Exacted(package) /\ (~Recording => Good)
           /\ CallsAt(stack, linker.loaded, linker.pending) /\ KeptAt(linker)
           /\ Top = Last(stack) /\ Top \in ExactFrames /\ Top \in FitFrames /\ Exactly(Top)
           /\ Entered(Top, linker.loaded) /\ Needs[Top] \subseteq linker.loaded
           /\ Good => /\ CompleteAt(linker, stack, found) /\ Under(stack, linker.exports)
                      /\ Ready(Top, found, linker.exports)
           /\ Top.call # "entry" => Front(stack) # <<>>
<1>1. OrderAt(linker, stack, result) /\ ProgramOK /\ package \in Packages /\ linker \in Linkers
  BY DEF Sane, OrderInv, TypeInv, TypedAt
<1>2. result = "linking" /\ result \notin Errors
  BY <1>1, OrderRunning
<1>3. Exacted(package) /\ (~Recording => Good) /\ ExactAt(linker, stack, found)
  BY <1>2 DEF Sane, ExactInv
<1>4. CallsAt(stack, linker.loaded, linker.pending) /\ KeptAt(linker) /\ stack \in Seq(ExactFrames)
  BY <1>3 DEF ExactAt, CallsAt
<1>5. stack \in Seq(FitFrames)
  BY <1>4, ExactFits
<1>6. /\ Len(stack) \in Nat \ {0} /\ DOMAIN stack = 1..Len(stack) /\ Last(stack) = stack[Len(stack)]
      /\ Last(stack) \in ExactFrames /\ Len(stack) \in DOMAIN stack /\ Len(Front(stack)) = Len(stack) - 1
  BY <1>4, PopFacts
<1>7. Top = Last(stack) /\ Top \in ExactFrames /\ Top \in FitFrames /\ Exactly(Top)
  BY <1>6 DEF Top, ExactFrames
<1>8. Entered(Top, linker.loaded) /\ Needs[Top] \subseteq linker.loaded
  BY <1>1, <1>4, <1>6, <1>7 DEF CallsAt, OrderAt
<1>9. Grounded(stack)
  BY <1>1 DEF OrderAt
<1>10. Top.call # "entry" => Front(stack) # <<>>
  BY <1>6, <1>7, <1>9 DEF Grounded
<1>11. Good => /\ CompleteAt(linker, stack, found) /\ Under(stack, linker.exports)
               /\ Ready(Top, found, linker.exports)
  BY <1>3, <1>7 DEF ExactAt, CompleteAt
<1>. QED
  BY <1>1, <1>2, <1>3, <1>4, <1>5, <1>7, <1>8, <1>9, <1>10, <1>11

\* A call that waits for a name, when that is answered.
LEMMA ReplyName ==
    ASSUME ProgramOK, Good, NEW f \in ExactFrames, NEW p \in Pairs, AwaitsName(f, p), NEW ex, NEW fd,
           fd => p[2] \in DOMAIN ex[p[1]], ~fd => Denotes[p] = {},
           Settled(f, ex, {q \in Pairs : Asking(f) /\ q = p})
    PROVE  Ready(f, fd, ex)
<1>1. f \in FitFrames /\ Exactly(f) /\ (f.call # "entry" => f.mod \in Modules)
  BY FrameFacts DEF ExactFrames
<1>2. CASE Binds(f, "from") /\ p = <<StatementOf(f).mod, StatementOf(f).name>>
  <2>1. f.call = "load" /\ f.stage = "bind" /\ f.at \in DOMAIN Imports(f.mod) /\ StatementOf(f).kind = "from"
    BY <1>2 DEF Binds
  <2>2. f.mod \in Reach
    BY <1>1, <2>1 DEF Exactly
  <2>3. Meant(f.mod, f.at)
    BY <2>1, <2>2, GoodFacts
  <2>4. fd
    BY <1>2, <2>1, <2>3 DEF Meant, StatementOf
  <2>5. {q \in Pairs : Asking(f) /\ q = p} = {} /\ Told(f, fd, ex) = {}
    BY <2>1 DEF Asking, Told
  <2>6. Answered(f, fd, ex)
    BY <1>2, <2>1, <2>4 DEF Answered, Binds, Waits
  <2>. QED
    BY <2>5, <2>6 DEF Ready
<1>3. CASE f.call = "load" /\ f.stage = "member" /\ p[1] = f.asked
  <2>1. Answered(f, fd, ex)
    BY <1>3 DEF Answered, Binds, Waits
  <2>2. CASE fd
    <3>1. {q \in Pairs : Asking(f) /\ q = p} \subseteq Told(f, fd, ex)
      BY <1>3, <2>2 DEF Told
    <3>2. Grows(ex, ex)
      BY DEF Grows
    <3>. QED
      BY <1>1, <2>1, <3>1, <3>2, SettledMore DEF Ready
  <2>3. CASE ~fd
    <3>1. Gathered(f, ex, {q \in Pairs : Asking(f) /\ q = p}) /\ f.call # "force"
      BY <1>3 DEF Settled
    <3>2. Denotes[p] = {}
      BY <2>3
    <3>3. Gathered(f, ex, Told(f, fd, ex))
      BY <3>1, <3>2 DEF Gathered
    <3>. QED
      BY <2>1, <3>1, <3>3 DEF Ready, Settled
  <2>. QED
    BY <2>2, <2>3
<1>4. CASE Waits(f) /\ p = SourceOf(f)
  <2>1. f.call = "resolve" /\ f.stage = "publish"
    BY <1>4 DEF Waits
  <2>2. Answered(f, fd, ex)
    BY <1>4, <2>1 DEF Answered, Binds
  <2>. QED
    BY <2>1, <2>2 DEF Ready, Settled
<1>5. CASE f.call = "force" /\ f.stage = "name" /\ p[1] = f.mod
  <2>1. Answered(f, fd, ex)
    BY <1>5 DEF Answered, Binds, Waits
  <2>2. Forced(f, ex, {q \in Pairs : Asking(f) /\ q = p})
    BY <1>5 DEF Settled
  <2>3. p = <<f.mod, p[2]>>
    BY <1>5 DEF Pairs
  <2>4. Forced(f, ex, Told(f, fd, ex))
    BY <1>5, <2>2, <2>3 DEF Forced
  <2>. QED
    BY <1>5, <2>1, <2>4 DEF Ready, Settled
<1>. QED
  BY <1>2, <1>3, <1>4, <1>5 DEF AwaitsName

\* A call that waits for all the names of a module, when those are there.
LEMMA ReplyNames ==
    ASSUME NEW f \in FitFrames, NEW m, AwaitsNames(f, m), NEW ex
    PROVE  /\ Whole(m, DOMAIN ex[m]) /\ Settled(f, ex, {}) => \A fd : Ready(f, fd, ex)
           /\ \A g : Asked(f, g) = {}
<1>1. (f.call = "load" /\ f.stage = "bind") \/ (f.call = "force" /\ f.stage = "collect")
  BY DEF AwaitsNames, Binds
<1>2. \A fd : Told(f, fd, ex) = {}
  BY <1>1 DEF Told
<1>3. Whole(m, DOMAIN ex[m]) => \A fd : Answered(f, fd, ex)
  BY <1>1 DEF Answered, AwaitsNames, Binds, Waits
<1>4. \A g : Asked(f, g) = {}
  BY <1>1 DEF Asked, Asking
<1>. QED
  BY <1>2, <1>3, <1>4 DEF Ready

\* A call goes on by itself.
LEMMA ExactResume ==
    ASSUME Sane, stack # <<>>, NEW f \in ExactFrames, Same(f, Top), f.call # "entry",
           Entered(f, linker.loaded), Good => Ready(f, found', linker.exports),
           stack' = Resumed(f), UNCHANGED <<program, package, linker, result>>
    PROVE  ExactInv'
<1>1. /\ stack \in Seq(FitFrames) /\ Grounded(stack) /\ CallsAt(stack, linker.loaded, linker.pending)
      /\ KeptAt(linker) /\ Top = Last(stack) /\ f \in FitFrames /\ result \notin Errors
      /\ Good => CompleteAt(linker, stack, found) /\ Under(stack, linker.exports)
  BY RunningFacts, ExactFits
<1>. DEFINE t == [stack EXCEPT ![Len(stack)] = f]
<1>2. stack' = t
  BY DEF Resumed
<1>3. t # <<>> /\ Last(t) = f
  BY <1>1, PutFacts
<1>4. CallsAt(t, linker.loaded, linker.pending)
  BY <1>1, CallsPut
<1>5. Good => Under(t, linker.exports)
  BY <1>1, UnderPut
<1>. HIDE DEF t
<1>6. Good => CompleteAt(linker, t, found')
  BY <1>1, <1>3, <1>5 DEF CompleteAt
<1>7. ExactAt(linker', stack', found')
  BY <1>1, <1>2, <1>4, <1>6 DEF ExactAt
<1>. QED
  BY <1>1, <1>7, ExactNext DEF Sane

\* A call returns.
LEMMA ExactReturn ==
    ASSUME Sane, stack # <<>>, Top.call # "entry", stack' = Front(stack),
           UNCHANGED <<program, package, result>>,
           linker'.loaded = linker.loaded, linker'.pending \subseteq linker.pending,
           Top.call = "load" => Top.mod \notin linker'.pending,
           KeptAt(linker'),
           Good => /\ Grows(linker.exports, linker'.exports)
                   /\ \A m \in linker'.loaded \ linker'.pending : Whole(m, DOMAIN linker'.exports[m])
                   /\ \A f \in ExactFrames :
                         Awaiting(f, Top) /\ Settled(f, linker'.exports, Asked(f, Top))
                         => Ready(f, found', linker'.exports)
    PROVE  ExactInv'
<1>1. /\ stack \in Seq(FitFrames) /\ CallsAt(stack, linker.loaded, linker.pending)
      /\ Top = Last(stack) /\ Front(stack) # <<>> /\ result \notin Errors
      /\ Good => Under(stack, linker.exports)
  BY RunningFacts
<1>. DEFINE f == Last(Front(stack))
<1>2. /\ CallsAt(stack', linker'.loaded, linker'.pending) /\ f \in ExactFrames /\ Awaiting(f, Top)
  BY <1>1, CallsPop
<1>3. Good => Under(stack, linker'.exports)
  BY <1>1, UnderMore
<1>4. Good => Under(stack', linker'.exports) /\ Settled(f, linker'.exports, Asked(f, Top))
  BY <1>1, <1>3, UnderPop
<1>5. Good => CompleteAt(linker', stack', found')
  BY <1>2, <1>4 DEF CompleteAt
<1>6. ExactAt(linker', stack', found')
  BY <1>2, <1>5 DEF ExactAt
<1>. QED
  BY <1>1, <1>6, ExactNext DEF Sane

\* A call is made that is no load.
LEMMA ExactCall ==
    ASSUME Sane, stack # <<>>, NEW f \in ExactFrames, Same(f, Top), f.call # "entry",
           Entered(f, linker.loaded),
           NEW g \in ExactFrames, g.call \in {"resolve", "force"}, Awaiting(f, g), Entered(g, linker.loaded),
           Good => Settled(f, linker.exports, Asked(f, g)) /\ Ready(g, found', linker.exports),
           stack' = Append(Resumed(f), g), UNCHANGED <<program, package, linker, result>>
    PROVE  ExactInv'
<1>1. /\ stack \in Seq(FitFrames) /\ Grounded(stack) /\ CallsAt(stack, linker.loaded, linker.pending)
      /\ KeptAt(linker) /\ Top = Last(stack) /\ f \in FitFrames /\ g \in FitFrames /\ result \notin Errors
      /\ Good => CompleteAt(linker, stack, found) /\ Under(stack, linker.exports)
  BY RunningFacts, ExactFits
<1>. DEFINE t == [stack EXCEPT ![Len(stack)] = f]
            u == Append(t, g)
<1>2. stack' = u
  BY DEF Resumed
<1>3. t # <<>> /\ Last(t) = f /\ t \in Seq(FitFrames)
  BY <1>1, PutFacts
<1>4. CallsAt(t, linker.loaded, linker.pending)
  BY <1>1, CallsPut
<1>5. Good => Under(t, linker.exports)
  BY <1>1, UnderPut
<1>. HIDE DEF t
<1>6. u # <<>> /\ Last(u) = g
  BY <1>1, <1>3, PushFacts
<1>7. CallsAt(u, linker.loaded, linker.pending)
  BY <1>3, <1>4, CallsPush
<1>8. Good => Under(u, linker.exports)
  BY <1>1, <1>3, <1>5, UnderPush
<1>. HIDE DEF u
<1>9. Good => CompleteAt(linker, u, found')
  BY <1>1, <1>6, <1>8 DEF CompleteAt
<1>10. ExactAt(linker', stack', found')
  BY <1>1, <1>2, <1>7, <1>9 DEF ExactAt
<1>. QED
  BY <1>1, <1>10, ExactNext DEF Sane

\* A name that no lookup has a source for is not imported.
LEMMA NoSources ==
    ASSUME ProgramOK, NEW m \in Modules, NEW n \in Names, PendingSources(m, n) = {}
    PROVE  Imported(m, n) = {}
<1>1. Named(m, n) = {} /\ (n \notin Private => Wildcards(m) = {})
  BY DEF PendingSources
<1>. QED
  BY <1>1, ImportedFacts DEF Named, Wildcards

\* A call goes on and looks a name up.
LEMMA ExactResolve ==
    ASSUME Sane, stack # <<>>, NEW f \in ExactFrames, Same(f, Top), f.call # "entry",
           Entered(f, linker.loaded), NEW m \in Modules, NEW n \in Names, AwaitsName(f, <<m, n>>),
           m \in linker.loaded, m \in Reach, NEW visiting, <<m, n>> \notin visiting,
           Good => Settled(f, linker.exports, {q \in Pairs : Asking(f) /\ q = <<m, n>>}),
           resolve_pending(m, n, visiting, Resumed(f))
    PROVE  ExactInv'
<1>. DEFINE published == n \in DOMAIN Exports(m)
<1>1. /\ ProgramOK /\ linker \in Linkers /\ TypeInv /\ <<m, n>> \in Pairs
      /\ Good => CompleteAt(linker, stack, found)
  BY RunningFacts DEF Sane, Pairs
<1>2. UNCHANGED <<program, package, linker>>
  BY DEF resolve_pending
<1>3. CASE published \/ m \notin linker.pending \/ PendingSources(m, n) = {}
  <2>1. found' = published /\ stack' = Resumed(f) /\ result' = result
    BY <1>3 DEF resolve_pending
  <2>2. ASSUME Good, ~published PROVE Denotes[<<m, n>>] = {}
    <3>1. CASE m \notin linker.pending
      BY <1>1, <2>2, <3>1 DEF CompleteAt, Whole, Exports
    <3>2. CASE m \in linker.pending
      <4>1. ~Declared(<<m, n>>)
        BY <1>1, <2>2, <3>2, PendingUndeclared
      <4>2. Imported(m, n) = {}
        BY <1>1, <1>3, <2>2, <3>2, NoSources
      <4>. QED
        BY <1>1, <4>1, <4>2, DenotesFacts
    <3>. QED
      BY <3>1, <3>2
  <2>3. Good => Ready(f, found', linker.exports)
    <3>1. SUFFICES ASSUME Good PROVE Ready(f, found', linker.exports)
      OBVIOUS
    <3>2. found' => <<m, n>>[2] \in DOMAIN linker.exports[<<m, n>>[1]]
      BY <2>1 DEF Exports
    <3>3. ~found' => Denotes[<<m, n>>] = {}
      BY <2>1, <2>2, <3>1
    <3>. QED
      BY <1>1, <3>1, <3>2, <3>3, ReplyName
  <2>. QED
    BY <1>2, <2>1, <2>3, ExactResume
<1>4. CASE ~(published \/ m \notin linker.pending \/ PendingSources(m, n) = {})
  <2>. DEFINE g == ResolveFrame(m, n)
  <2>1. found' = found /\ stack' = Append(Resumed(f), g) /\ result' = result
    BY <1>4 DEF resolve_pending
  <2>2. ~Declared(<<m, n>>)
    BY <1>1, <1>4, PendingUndeclared
  <2>3. g \in FitFrames /\ g.call = "resolve" /\ Pair(g) = <<m, n>> /\ g.mod = m
    BY <1>1, <1>4, <2>2, ResolveFits
  <2>4. g.stage = "load" /\ g.name = n /\ g.todo = PendingSources(m, n)
    BY DEF ResolveFrame
  <2>. HIDE DEF g
  <2>5. g \in ExactFrames
    BY <2>3, <2>4 DEF ExactFrames, Exactly
  <2>6. Awaiting(f, g)
    BY <2>3 DEF Awaiting
  <2>7. Entered(g, linker.loaded)
    BY <2>3, <2>4 DEF Entered
  <2>8. Asked(f, g) = {q \in Pairs : Asking(f) /\ q = <<m, n>>}
    BY <2>3 DEF Asked
  <2>9. Ready(g, found', linker.exports)
    <3>1. Plain(g) /\ Settled(g, linker.exports, {})
      BY <2>3, <2>4 DEF Plain, Settled
    <3>. QED
      BY <2>3, <3>1, PlainReady
  <2>. QED
    BY <1>2, <2>1, <2>3, <2>5, <2>6, <2>7, <2>8, <2>9, ExactCall
<1>. QED
  BY <1>3, <1>4

\* A call goes on and forces a module.
LEMMA ExactForce ==
    ASSUME Sane, stack # <<>>, NEW f \in ExactFrames, Same(f, Top), f.call # "entry",
           Entered(f, linker.loaded), NEW m \in Modules, AwaitsNames(f, m),
           m \in linker.loaded, m \in Reach,
           Good => Settled(f, linker.exports, {}),
           force_pending(m, Resumed(f))
    PROVE  ExactInv'
<1>1. /\ ProgramOK /\ linker \in Linkers /\ TypeInv /\ f \in FitFrames
      /\ Good => CompleteAt(linker, stack, found)
  BY RunningFacts, ExactFits DEF Sane
<1>2. UNCHANGED <<program, package, linker, found, result>>
  BY DEF force_pending
<1>3. CASE m \notin linker.pending
  <2>1. stack' = Resumed(f)
    BY <1>3 DEF force_pending
  <2>2. Good => Whole(m, DOMAIN linker.exports[m])
    BY <1>1, <1>3 DEF CompleteAt
  <2>3. Good => Ready(f, found', linker.exports)
    BY <1>1, <2>2, ReplyNames
  <2>. QED
    BY <1>2, <2>1, <2>3, ExactResume
<1>4. CASE m \in linker.pending
  <2>. DEFINE g == ForceFrame(m)
  <2>1. stack' = Append(Resumed(f), g)
    BY <1>4 DEF force_pending
  <2>2. g \in FitFrames /\ g.call = "force" /\ g.mod = m
    BY <1>1, ForceFits
  <2>3. g.stage = "load" /\ g.todo = Wildcards(m) /\ g.names = {n \in Names : Named(m, n) # {}}
    BY DEF ForceFrame
  <2>. HIDE DEF g
  <2>4. g \in ExactFrames
    BY <2>2 DEF ExactFrames, Exactly
  <2>5. Awaiting(f, g)
    BY <2>2 DEF Awaiting
  <2>6. Entered(g, linker.loaded)
    BY <2>2, <2>3 DEF Entered
  <2>7. Forced(g, linker.exports, {})
    <3>. SUFFICES ASSUME NEW n \in Names, Denotes[<<m, n>>] # {}
                  PROVE  \/ n \in g.names \/ n \in DOMAIN linker.exports[m]
                         \/ n \notin Private /\ \E i \in g.todo : Denotes[<<Imports(m)[i].mod, n>>] # {}
      BY <2>2 DEF Forced
    <3>1. <<m, n>> \in Pairs
      BY DEF Pairs
    <3>2. CASE Declared(<<m, n>>)
      BY <1>1, <1>4, <3>2 DEF TypeInv, TypedAt, Declared
    <3>3. CASE ~Declared(<<m, n>>)
      <4>1. PICK q \in Imported(m, n) : Denotes[q] # {}
        BY <1>1, <3>1, <3>3, DenotesFacts
      <4>2. PICK j \in DOMAIN Imports(m) :
               \/ /\ Imports(m)[j].kind = "from" /\ Imports(m)[j].as = n
                  /\ q = <<Imports(m)[j].mod, Imports(m)[j].name>>
               \/ /\ Imports(m)[j].kind = "star" /\ n \notin Private
                  /\ q = <<Imports(m)[j].mod, n>>
        BY <1>1, ImportedFacts
      <4>3. CASE Imports(m)[j].kind = "from" /\ Imports(m)[j].as = n
        <5>1. j \in Named(m, n)
          BY <4>3 DEF Named
        <5>. QED
          BY <2>3, <5>1
      <4>4. CASE Imports(m)[j].kind = "star" /\ n \notin Private /\ q = <<Imports(m)[j].mod, n>>
        <5>1. j \in g.todo
          BY <2>3, <4>4 DEF Wildcards
        <5>. QED
          BY <4>1, <4>4, <5>1
      <4>. QED
        BY <4>2, <4>3, <4>4
    <3>. QED
      BY <3>2, <3>3
  <2>8. Ready(g, found', linker.exports)
    <3>1. Plain(g) /\ Settled(g, linker.exports, {})
      BY <2>2, <2>3, <2>7 DEF Plain, Settled
    <3>. QED
      BY <2>2, <3>1, PlainReady
  <2>9. Asked(f, g) = {}
    BY <1>1, ReplyNames
  <2>. QED
    BY <1>2, <2>1, <2>2, <2>4, <2>5, <2>6, <2>8, <2>9, ExactCall
<1>. QED
  BY <1>3, <1>4

\* A call is made that loads x, which exports b so far.
LEMMA ExactEnter ==
    ASSUME Sane, NEW t \in Seq(FitFrames), t # <<>>, AwaitsLoad(Last(t)), NEW x \in Modules \ linker.loaded,
           CallsAt(t, linker.loaded \cup {x}, linker.pending),
           Good => Under(t, linker.exports) /\ Settled(Last(t), linker.exports, {}),
           stack # <<>>, UNCHANGED <<program, package, found, result>>,
           NEW g \in ExactFrames, g.call \in {"load", "replay"}, g.mod = x, Plain(g),
           NEW b, Sound(x, b), x \notin linker'.pending /\ Good => Whole(x, DOMAIN b),
           linker'.loaded = linker.loaded \cup {x},
           linker'.pending \subseteq linker.pending \cup {x}, linker.pending \subseteq linker'.pending,
           x \in linker'.pending => g.call = "load" \/ x \in linker.pending,
           linker'.exports = [linker.exports EXCEPT ![x] = b],
           linker'.decls = linker.decls, linker'.records = linker.records,
           Good => Settled(g, linker'.exports, {}),
           stack' = Append(t, g)
    PROVE  ExactInv'
<1>1. /\ linker \in Linkers /\ KeptAt(linker) /\ result \notin Errors
      /\ g \in FitFrames /\ Last(t) \in FitFrames
      /\ Good => CompleteAt(linker, stack, found)
  BY RunningFacts, ExactFits, PopFacts
<1>2. linker.exports \in [Modules -> Bindings] /\ linker.decls \in Seq(Hoists)
  BY <1>1 DEF Linkers
<1>3. Grows(linker.exports, linker'.exports)
  BY <1>1, <1>2 DEF Grows, KeptAt
<1>4. SoundAll(linker'.exports)
  BY <1>1, <1>2 DEF KeptAt, SoundAll
<1>5. KeptAt(linker')
  <2>1. \A m \in Modules \ linker'.loaded : linker'.exports[m] = linker.exports[m]
    BY <1>2
  <2>2. Exacted(linker'.records)
    BY <1>1 DEF KeptAt
  <2>. QED
    BY <1>1, <1>2, <1>4, <2>1, <2>2, KeptNext
<1>6. CallsAt(stack', linker'.loaded, linker'.pending)
  <2>1. Awaiting(Last(t), g)
    BY DEF Awaiting
  <2>2. Entered(g, linker'.loaded)
    BY DEF Entered
  <2>3. \A m \in linker'.pending : m \in linker.pending \/ (g.call = "load" /\ g.mod = m)
    OBVIOUS
  <2>. QED
    BY <2>1, <2>2, <2>3, CallsPush
<1>7. ASSUME Good PROVE CompleteAt(linker', stack', found')
  <2>1. Under(t, linker'.exports)
    BY <1>3, <1>7, UnderMore
  <2>2. Settled(Last(t), linker'.exports, {})
    BY <1>1, <1>3, <1>7, SettledMore
  <2>3. Asked(Last(t), g) = {}
    BY <1>1, PlainReady DEF Plain
  <2>4. Under(Append(t, g), linker'.exports)
    <3>1. Settled(Last(t), linker'.exports, Asked(Last(t), g))
      BY <2>2, <2>3
    <3>. QED
      BY <1>1, <2>1, <3>1, UnderPush
  <2>5. stack' # <<>> /\ Last(stack') = g
    BY <1>1, PushFacts
  <2>6. Ready(g, found', linker'.exports)
    BY <1>1, <1>7, PlainReady
  <2>7. ASSUME NEW m \in linker'.loaded \ linker'.pending PROVE Whole(m, DOMAIN linker'.exports[m])
    <3>1. CASE m = x
      BY <1>2, <1>7, <2>7, <3>1
    <3>2. CASE m # x
      <4>1. m \in linker.loaded \ linker.pending /\ linker.loaded \in SUBSET Modules
        BY <1>1, <2>7, <3>2 DEF Linkers
      <4>2. linker'.exports[m] = linker.exports[m]
        BY <1>2, <3>2, <4>1
      <4>. QED
        BY <1>1, <1>7, <4>1, <4>2 DEF CompleteAt
    <3>. QED
      BY <3>1, <3>2
  <2>. QED
    BY <2>4, <2>5, <2>6, <2>7 DEF CompleteAt
<1>8. ExactAt(linker', stack', found')
  BY <1>5, <1>6, <1>7 DEF ExactAt
<1>. QED
  BY <1>1, <1>8, ExactNext DEF Sane

\* A load that begins has all its statements before it.
LEMMA LoadBegins ==
    ASSUME ProgramOK, NEW x \in Modules, x \in Reach
    PROVE  /\ LoadFrame(x) \in ExactFrames /\ Plain(LoadFrame(x))
           /\ \A ex : Settled(LoadFrame(x), ex, {})
<1>. DEFINE g == LoadFrame(x)
            rs == {<<s.mod, s.read>> : s \in {s \in ToSet(Imports(x)) : s.kind = "import"}}
            none == [y \in Modules |-> <<>>]
<1>1. g \in FitFrames /\ g.call = "load" /\ g.mod = x
  BY LoadFits
<1>2. g.stage = "load" /\ g.at = 1 /\ g.bindings = <<>> /\ g.explicit = {} /\ g.members = none /\ g.reads = rs
  BY DEF LoadFrame
<1>. HIDE DEF g
<1>3. DOMAIN <<>> = {} /\ \A y \in Modules : none[y] = <<>>
  BY NoBindings
<1>4. /\ DOMAIN Imports(x) = 1..Len(Imports(x)) /\ Len(Imports(x)) \in Nat
      /\ \A j \in DOMAIN Imports(x) : Imports(x)[j] \in ToSet(Imports(x))
  BY ImportFacts, MembersFacts
<1>. HIDE DEF none
<1>5. Brought(g.mod, g.bindings) /\ SoundAll(g.members) /\ g.explicit \subseteq DOMAIN g.bindings
  BY <1>2, <1>3 DEF Brought, SoundAll, Sound
<1>6. \A j \in DOMAIN Imports(x) : PastRight(g, j)
  BY <1>1, <1>2, <1>4 DEF PastRight
<1>7. \A j \in DOMAIN Imports(x) : Imports(x)[j].kind = "import" => Read(x, j) \in rs
  BY <1>4 DEF Read
<1>. HIDE DEF rs
<1>8. LoadRight(g)
  BY <1>1, <1>2, <1>5, <1>6, <1>7 DEF LoadRight
<1>9. g \in ExactFrames
  BY <1>1, <1>8 DEF ExactFrames, Exactly
<1>10. ASSUME NEW ex PROVE Settled(g, ex, {})
  <2>1. Gathered(g, ex, {})
    BY <1>1, <1>2, <1>3, <1>4 DEF Gathered
  <2>. QED
    BY <1>1, <2>1 DEF Settled
<1>. QED
  BY <1>1, <1>2, <1>9, <1>10 DEF Plain, g

\* A call goes on and loads a module that the roots depend on.
LEMMA ExactLoad ==
    ASSUME Sane, stack # <<>>, NEW f \in ExactFrames, Same(f, Top), AwaitsLoad(f),
           NEW x \in Modules, x \in Reach, Entered(f, linker.loaded \cup {x}),
           f.call = "entry" => ToSet(Top.todo) \subseteq ToSet(f.todo) \cup {x},
           Good => Settled(f, linker.exports, {}),
           load_module(x, Resumed(f))
    PROVE  ExactInv'
<1>1. /\ stack \in Seq(FitFrames) /\ Grounded(stack) /\ CallsAt(stack, linker.loaded, linker.pending)
      /\ ProgramOK /\ linker \in Linkers /\ TypeInv /\ KeptAt(linker) /\ Top = Last(stack)
      /\ f \in FitFrames /\ result \notin Errors /\ Exacted(package) /\ package \in Packages
      /\ Good => CompleteAt(linker, stack, found) /\ Under(stack, linker.exports)
      /\ ~Recording => Good
  BY RunningFacts, ExactFits DEF Sane
<1>. DEFINE t == [stack EXCEPT ![Len(stack)] = f]
<1>2. Resumed(f) = t
  BY DEF Resumed
<1>3. t # <<>> /\ Last(t) = f /\ t \in Seq(FitFrames)
  BY <1>1, PutFacts
<1>4. CallsAt(t, linker.loaded \cup {x}, linker.pending)
  <2>1. ASSUME f.call = "entry", Recording, NEW r \in ToSet(Roots)
        PROVE  r \in linker.loaded \cup {x} \/ r \in ToSet(f.todo)
    <3>1. /\ Len(stack) \in DOMAIN stack /\ Last(stack) = stack[Len(stack)]
      BY <1>1, PopFacts
    <3>2. stack[1] = Top
      BY <1>1, <2>1, <3>1 DEF Same, Grounded
    <3>3. r \in linker.loaded \/ r \in ToSet(Top.todo)
      BY <1>1, <2>1, <3>2 DEF CallsAt
    <3>. QED
      BY <2>1, <3>3
  <2>. QED
    BY <1>1, <2>1, CallsPut
<1>5. Good => Under(t, linker.exports)
  BY <1>1, UnderPut
<1>. HIDE DEF t
<1>6. load_module(x, t)
  BY <1>2
<1>7. /\ UNCHANGED <<program, package, found, result>>
      /\ linker' \in Linkers /\ linker'.loaded = linker.loaded \cup {x}
      /\ linker'.decls = linker.decls /\ linker'.records = linker.records
  BY <1>1, <1>6, LoadFacts
<1>8. CASE x \in linker.loaded
  <2>1. linker'.exports = linker.exports /\ linker'.pending = linker.pending /\ stack' = t
    BY <1>1, <1>6, <1>8, LoadFacts
  <2>2. linker'.loaded = linker.loaded
    BY <1>7, <1>8
  <2>3. KeptAt(linker')
    BY <1>1, <1>7, <2>1, <2>2 DEF KeptAt
  <2>4. ASSUME Good PROVE CompleteAt(linker', stack', found')
    <3>1. Ready(f, found', linker.exports)
      BY <1>1, <2>4, PlainReady DEF Plain
    <3>. QED
      BY <1>1, <1>3, <1>5, <2>1, <2>2, <2>4, <3>1 DEF CompleteAt
  <2>5. ExactAt(linker', stack', found')
    BY <1>4, <1>7, <2>1, <2>3, <2>4 DEF ExactAt
  <2>. QED
    BY <1>1, <1>7, <2>5, ExactNext DEF Sane
<1>9. CASE x \notin linker.loaded /\ x \in DOMAIN package
  <2>. DEFINE g == ReplayFrame(x)
  <2>1. /\ linker'.exports = [linker.exports EXCEPT ![x] = package[x].exports]
        /\ linker'.pending = linker.pending /\ stack' = Append(t, g)
    BY <1>1, <1>6, <1>9, LoadFacts
  <2>2. g \in FitFrames /\ g.call = "replay" /\ g.mod = x
    BY <1>1, <1>9, ReplayFits
  <2>. HIDE DEF g
  <2>3. g \in ExactFrames /\ Plain(g) /\ Settled(g, linker'.exports, {})
    BY <2>2 DEF ExactFrames, Exactly, Plain, AwaitsLoad, Settled
  <2>4. Good
    BY <1>1, <1>9, NoRecords DEF Recording
  <2>5. Sound(x, package[x].exports) /\ Whole(x, DOMAIN package[x].exports)
    BY <1>1, <1>9, <2>4 DEF Exacted
  <2>. QED
    BY <1>3, <1>4, <1>5, <1>7, <1>9, <2>1, <2>2, <2>3, <2>5, ExactEnter
<1>10. CASE x \notin linker.loaded /\ x \notin DOMAIN package
  <2>. DEFINE g == LoadFrame(x)
  <2>1. /\ linker'.exports = [linker.exports EXCEPT ![x] = Local(x)]
        /\ linker'.pending = linker.pending \cup {x} /\ stack' = Append(t, g)
    BY <1>1, <1>6, <1>10, LoadFacts
  <2>2. g \in FitFrames /\ g.call = "load" /\ g.mod = x
    BY <1>1, LoadFits
  <2>3. g \in ExactFrames /\ Plain(g) /\ Settled(g, linker'.exports, {})
    BY <1>1, LoadBegins
  <2>. HIDE DEF g
  <2>4. Sound(x, Local(x))
    <3>1. DOMAIN Local(x) = program[x].decls /\ \A n \in program[x].decls : Local(x)[n] = <<x, n>>
      BY DEF Local
    <3>2. program[x].decls \subseteq Names
      BY <1>1 DEF ProgramOK
    <3>3. ASSUME NEW n \in program[x].decls PROVE Local(x)[n] \in Denotes[<<x, n>>]
      <4>1. <<x, n>> \in Pairs /\ Declared(<<x, n>>)
        BY <3>2 DEF Pairs, Declared
      <4>. QED
        BY <1>1, <3>1, <4>1, DenotesFacts
    <3>. QED
      BY <3>1, <3>3 DEF Sound
  <2>. QED
    BY <1>3, <1>4, <1>5, <1>7, <1>10, <2>1, <2>2, <2>3, <2>4, ExactEnter
<1>. QED
  BY <1>8, <1>9, <1>10

-----------------------------------------------------------------------------
(* The steps, one by one. *)

\* The entry imports a module.
LEMMA ExactLinkRoot ==
    ASSUME Sane, LinkRoot
    PROVE  ExactInv'
<1>. DEFINE f == EntryFrame(Tail(Top.todo))
            x == Head(Top.todo)
<1>1. stack # <<>> /\ Top.call = "entry" /\ Top.todo # <<>> /\ load_module(x, Resumed(f))
  BY DEF LinkRoot
<1>2. Top \in FitFrames /\ Top.todo \in Seq(Modules) /\ Exactly(Top)
  BY <1>1, TopFacts, RunningFacts DEF EntryFrames, Sane
<1>3. x \in Modules /\ Tail(Top.todo) \in Seq(Modules) /\ ToSet(Top.todo) = ToSet(Tail(Top.todo)) \cup {x}
  BY <1>1, <1>2, HeadFacts
<1>4. f \in FitFrames
  BY <1>3, EntryFits
<1>5. f.call = "entry" /\ f.todo = Tail(Top.todo)
  BY DEF EntryFrame
<1>. HIDE DEF f, x
<1>6. Same(f, Top) /\ AwaitsLoad(f) /\ Entered(f, linker.loaded \cup {x})
  BY <1>1, <1>5 DEF Same, AwaitsLoad, Entered
<1>7. x \in Reach /\ f \in ExactFrames
  BY <1>1, <1>2, <1>3, <1>4, <1>5 DEF Exactly, ExactFrames
<1>8. Settled(f, linker.exports, {})
  BY <1>5 DEF Settled
<1>9. ToSet(Top.todo) \subseteq ToSet(f.todo) \cup {x}
  BY <1>3, <1>5
<1>. QED
  BY <1>1, <1>3, <1>6, <1>7, <1>8, <1>9, ExactLoad

\* An error is raised for a program whose imports do not all name something.
LEMMA ExactRaise ==
    ASSUME Sane, NEW err \in Errors \ {"recursive"}, Raise(err), ~Good,
           UNCHANGED <<program, package, linker, found>>
    PROVE  ExactInv'
<1>1. result' \in Errors
  BY DEF Raise
<1>. QED
  BY <1>1, ExactNext DEF Sane

\* A load at another stage of its statement has the rest as it was.
LEMMA StageFields ==
    ASSUME NEW f \in LoadFrames, NEW u
    PROVE  LET g == [f EXCEPT !.stage = u]
           IN  /\ g.call = f.call /\ g.mod = f.mod /\ g.at = f.at /\ g.stage = u
               /\ g.bindings = f.bindings /\ g.explicit = f.explicit /\ g.members = f.members
               /\ g.loading = f.loading /\ g.asked = f.asked /\ g.reads = f.reads
BY DEF LoadFrames

\* A load goes to another stage of the statement it is at.
LEMMA StageExact ==
    ASSUME Sane, NEW s, AtStatement(s), NEW u \in {"lookup", "bind"}, S.mod # Top.mod
    PROVE  LET f == [Top EXCEPT !.stage = u]
           IN  /\ f \in ExactFrames /\ Same(f, Top) /\ f.call = "load" /\ f.mod = Top.mod /\ f.stage = u
               /\ f.at = Top.at /\ StatementOf(f) = S
               /\ \A ld : Entered(f, ld)
               /\ s \in {"load", "lookup"} /\ Good => Settled(f, linker.exports, {})
<1>. DEFINE f == [Top EXCEPT !.stage = u]
<1>0. TypeInv
  BY DEF Sane
<1>1. /\ stack # <<>> /\ Top \in LoadFrames /\ Top.stage = s /\ Top.call = "load"
      /\ Top.at \in DOMAIN Imports(Top.mod) /\ S = Imports(Top.mod)[Top.at]
  BY <1>0, StatementFacts
<1>2. f \in FitFrames /\ Same(f, Top)
  BY <1>0, StageFacts
<1>3. /\ f.call = Top.call /\ f.mod = Top.mod /\ f.at = Top.at /\ f.stage = u
      /\ f.bindings = Top.bindings /\ f.explicit = Top.explicit /\ f.members = Top.members
      /\ f.loading = Top.loading /\ f.asked = Top.asked /\ f.reads = Top.reads
  BY <1>1, StageFields
<1>. HIDE DEF f
<1>4. Exactly(Top) /\ (Good => Ready(Top, found, linker.exports)) /\ Top \in FitFrames
  BY <1>1, RunningFacts
<1>5. LoadRight(Top)
  BY <1>1, <1>4 DEF Exactly
<1>6. ASSUME NEW j \in DOMAIN Imports(f.mod) PROVE PastRight(f, j)
  <2>1. PastRight(Top, j)
    BY <1>3, <1>5, <1>6 DEF LoadRight
  <2>. QED
    BY <1>1, <1>3, <2>1 DEF PastRight
<1>7. LoadRight(f)
  BY <1>3, <1>5, <1>6 DEF LoadRight
<1>8. f \in ExactFrames
  BY <1>1, <1>2, <1>3, <1>4, <1>7 DEF ExactFrames, Exactly
<1>9. \A ld : Entered(f, ld)
  BY <1>1, <1>3 DEF Entered
<1>10. ASSUME Good, s \in {"load", "lookup"} PROVE Settled(f, linker.exports, {})
  <2>1. Plain(Top)
    BY <1>1, <1>10 DEF Plain, AwaitsLoad
  <2>2. Settled(Top, linker.exports, {})
    BY <1>4, <1>10, <2>1, PlainReady
  <2>. QED
    BY <1>1, <1>3, <2>2 DEF Settled, Gathered
<1>. QED
  BY <1>1, <1>2, <1>3, <1>8, <1>9, <1>10 DEF f, StatementOf

\* A load follows a statement.
LEMMA ExactLoadImported ==
    ASSUME Sane, LoadImported
    PROVE  ExactInv'
<1>0. TypeInv
  BY DEF Sane
<1>1. AtStatement("load")
  BY DEF LoadImported
<1>2. /\ stack # <<>> /\ S.mod \in Modules /\ <<Top.mod, S.mod>> \in Deps /\ Top.call = "load"
      /\ Top.at \in DOMAIN Imports(Top.mod) /\ S = Imports(Top.mod)[Top.at]
  BY <1>0, <1>1, StatementFacts
<1>3. Top.mod \in Reach /\ ProgramOK
  BY <1>2, RunningFacts DEF Exactly
<1>4. CASE S.mod = Top.mod
  <2>1. Raise("self") /\ UNCHANGED <<program, package, linker, found>>
    BY <1>4 DEF LoadImported
  <2>2. "self" \in Errors \ {"recursive"}
    BY DEF Errors
  <2>3. ~Meant(Top.mod, Top.at)
    BY <1>2, <1>4 DEF Meant
  <2>4. ~Good
    BY <1>2, <1>3, <2>3, GoodFacts
  <2>. QED
    BY <2>1, <2>2, <2>4, ExactRaise
<1>5. CASE S.mod # Top.mod
  <2>. DEFINE f == [Top EXCEPT !.stage = "lookup"]
              x == S.mod
  <2>1. load_module(x, Resumed(f))
    BY <1>0, <1>2, <1>5, GotoFacts DEF LoadImported
  <2>2. /\ f \in ExactFrames /\ Same(f, Top) /\ f.call = "load" /\ f.stage = "lookup"
        /\ Entered(f, linker.loaded \cup {x}) /\ (Good => Settled(f, linker.exports, {}))
    BY <1>1, <1>5, StageExact
  <2>3. x \in Modules /\ x \in Reach
    BY <1>2, <1>3, ReachFacts
  <2>. HIDE DEF f, x
  <2>4. AwaitsLoad(f) /\ f.call # "entry"
    BY <2>2 DEF AwaitsLoad
  <2>. QED
    BY <1>2, <2>1, <2>2, <2>3, <2>4, ExactLoad
<1>. QED
  BY <1>4, <1>5

\* What a load at a statement that it has loaded is about.
LEMMA StatementExact ==
    ASSUME Sane, NEW s, AtStatement(s), s # "load"
    PROVE  /\ stack # <<>> /\ Top \in LoadFrames /\ Top.stage = s /\ Top.call = "load"
           /\ Top.mod \in Modules /\ Top.at \in DOMAIN Imports(Top.mod)
           /\ S = Imports(Top.mod)[Top.at] /\ S = StatementOf(Top) /\ S.mod # Top.mod
           /\ S.mod \in Modules /\ S.mod \in Reach /\ S.mod \in linker.loaded
           /\ S.kind = "from" => S.name \in Names /\ S.as \in Names
           /\ LoadRight(Top) /\ Top.mod \in Reach
<1>0. TypeInv
  BY DEF Sane
<1>1. /\ stack # <<>> /\ Top \in LoadFrames /\ Top.stage = s /\ Top.call = "load" /\ Top \in FitFrames
      /\ Top.mod \in Modules /\ Top.at \in DOMAIN Imports(Top.mod)
      /\ S = Imports(Top.mod)[Top.at] /\ S.mod \in Modules /\ <<Top.mod, S.mod>> \in Deps
      /\ S.kind = "from" => S.name \in Names /\ S.as \in Names
  BY <1>0, StatementFacts
<1>2. LoadRight(Top) /\ Top.mod \in Reach /\ ProgramOK /\ Needs[Top] \subseteq linker.loaded
  BY <1>1, RunningFacts DEF Exactly
<1>3. S.mod # Top.mod
  BY <1>1, <1>2 DEF LoadRight, PastRight
<1>4. S.mod \in Reach
  BY <1>1, <1>2, ReachFacts
<1>5. S.mod \in Needs[Top]
  BY <1>1 DEF Needs, Passed
<1>. QED
  BY <1>1, <1>2, <1>3, <1>4, <1>5 DEF StatementOf

\* It looks a name up.
LEMMA ExactLookUpName ==
    ASSUME Sane, LookUpName
    PROVE  ExactInv'
<1>. DEFINE f == [Top EXCEPT !.stage = "bind"]
            x == S.mod
            n == S.name
<1>0. TypeInv
  BY DEF Sane
<1>1. AtStatement("lookup") /\ S.kind = "from"
  BY DEF LookUpName
<1>2. /\ stack # <<>> /\ x \in Modules /\ n \in Names /\ x \in linker.loaded /\ x \in Reach /\ S.mod # Top.mod
      /\ Top.at \in DOMAIN Imports(Top.mod)
  BY <1>1, StatementExact
<1>3. resolve_pending(x, n, {}, Resumed(f))
  BY <1>0, <1>2, GotoFacts DEF LookUpName
<1>4. /\ f \in ExactFrames /\ Same(f, Top) /\ f.call = "load" /\ f.mod = Top.mod /\ f.stage = "bind" /\ f.at = Top.at
      /\ StatementOf(f) = S /\ Entered(f, linker.loaded) /\ (Good => Settled(f, linker.exports, {}))
  BY <1>1, <1>2, StageExact
<1>. HIDE DEF f
<1>5. AwaitsName(f, <<x, n>>)
  BY <1>1, <1>2, <1>4 DEF AwaitsName, Binds
<1>6. {q \in Pairs : Asking(f) /\ q = <<x, n>>} = {}
  BY <1>4 DEF Asking
<1>. HIDE DEF x, n
<1>7. f.call # "entry" /\ (Good => Settled(f, linker.exports, {q \in Pairs : Asking(f) /\ q = <<x, n>>}))
  BY <1>4, <1>6
<1>. QED
  BY <1>2, <1>3, <1>4, <1>5, <1>7, ExactResolve

\* It forces a module whose names it imports.
LEMMA ExactForceImported ==
    ASSUME Sane, ForceImported
    PROVE  ExactInv'
<1>. DEFINE f == [Top EXCEPT !.stage = "bind"]
            x == S.mod
<1>0. TypeInv
  BY DEF Sane
<1>1. AtStatement("lookup") /\ S.kind = "star"
  BY DEF ForceImported
<1>2. /\ stack # <<>> /\ x \in Modules /\ x \in linker.loaded /\ x \in Reach /\ S.mod # Top.mod
      /\ Top.at \in DOMAIN Imports(Top.mod)
  BY <1>1, StatementExact
<1>3. force_pending(x, Resumed(f))
  BY <1>0, <1>2, GotoFacts DEF ForceImported
<1>4. /\ f \in ExactFrames /\ Same(f, Top) /\ f.call = "load" /\ f.mod = Top.mod /\ f.stage = "bind" /\ f.at = Top.at
      /\ StatementOf(f) = S /\ Entered(f, linker.loaded) /\ (Good => Settled(f, linker.exports, {}))
  BY <1>1, <1>2, StageExact
<1>. HIDE DEF f
<1>5. AwaitsNames(f, x) /\ f.call # "entry"
  BY <1>1, <1>2, <1>4 DEF AwaitsNames, Binds
<1>. HIDE DEF x
<1>. QED
  BY <1>2, <1>3, <1>4, <1>5, ExactForce

\* A load past a statement has the rest as it was.
LEMMA PastFields ==
    ASSUME NEW g \in LoadFrames
    PROVE  /\ Past(g).call = "load" /\ Past(g).mod = g.mod /\ Past(g).at = g.at + 1 /\ Past(g).stage = "load"
           /\ Past(g).bindings = g.bindings /\ Past(g).explicit = g.explicit /\ Past(g).members = g.members
           /\ Past(g).loading = g.loading /\ Past(g).reads = g.reads
BY DEF LoadFrames, Past

\* A load binds what a statement names.
LEMMA ExactPast ==
    ASSUME Sane, NEW s, AtStatement(s), s # "load", NEW g \in LoadFrames,
           g.mod = Top.mod, g.reads = Top.reads, g.at = Top.at,
           Brought(g.mod, g.bindings), SoundAll(g.members), g.explicit \subseteq DOMAIN g.bindings,
           DOMAIN Top.bindings \subseteq DOMAIN g.bindings,
           S.kind = "from" => S.as \in DOMAIN g.bindings /\ Denotes[<<S.mod, S.name>>] # {},
           Good /\ S.kind = "star" =>
              \A n \in Names \ Private : Denotes[<<S.mod, n>>] # {} => n \in DOMAIN g.bindings,
           Good => Gathered(Past(g), linker.exports, {}),
           stack' = Resumed(Past(g)), UNCHANGED <<program, package, linker, found, result>>
    PROVE  ExactInv'
<1>. DEFINE f == Past(g)
<1>0. TypeInv
  BY DEF Sane
<1>1. /\ stack # <<>> /\ Top \in LoadFrames /\ Top.stage = s /\ Top.call = "load"
      /\ Top.mod \in Modules /\ Top.at \in DOMAIN Imports(Top.mod)
      /\ S = Imports(Top.mod)[Top.at] /\ S.mod # Top.mod
      /\ LoadRight(Top) /\ Top.mod \in Reach
  BY StatementExact
<1>2. f \in FitFrames /\ Same(f, Top)
  BY <1>0, PastFacts
<1>3. /\ f.call = "load" /\ f.mod = Top.mod /\ f.at = Top.at + 1 /\ f.stage = "load"
      /\ f.bindings = g.bindings /\ f.explicit = g.explicit /\ f.members = g.members /\ f.reads = Top.reads
  BY PastFields
<1>4. DOMAIN Imports(Top.mod) = 1..Len(Imports(Top.mod)) /\ Len(Imports(Top.mod)) \in Nat
  BY <1>0, <1>1, ImportFacts, TopFacts
<1>. HIDE DEF f
<1>5. ASSUME NEW j \in DOMAIN Imports(f.mod) PROVE PastRight(f, j)
  <2>1. CASE j < Top.at
    <3>1. PastRight(Top, j)
      BY <1>1, <1>3, <1>5 DEF LoadRight
    <3>. QED
      BY <1>1, <1>3, <1>4, <1>5, <2>1, <3>1 DEF PastRight
  <2>2. CASE j = Top.at
    <3>1. Meant(f.mod, j)
      BY <1>1, <1>3, <2>2 DEF Meant
    <3>. QED
      BY <1>1, <1>3, <2>2, <3>1 DEF PastRight
  <2>3. CASE j > Top.at
    BY <1>1, <1>3, <1>4, <1>5, <2>3 DEF PastRight
  <2>. QED
    BY <1>1, <1>3, <1>4, <1>5, <2>1, <2>2, <2>3
<1>6. LoadRight(f)
  BY <1>1, <1>3, <1>5 DEF LoadRight
<1>7. f \in ExactFrames
  BY <1>1, <1>2, <1>3, <1>6 DEF ExactFrames, Exactly
<1>8. Entered(f, linker.loaded) /\ f.call # "entry" /\ Plain(f)
  BY <1>3 DEF Entered, Plain
<1>9. Good => Ready(f, found, linker.exports)
  <2>1. Good => Settled(f, linker.exports, {})
    BY <1>3 DEF Settled, f
  <2>. QED
    BY <1>2, <1>8, <2>1, PlainReady
<1>10. stack' = Resumed(f)
  BY DEF f
<1>. QED
  BY <1>1, <1>2, <1>7, <1>8, <1>9, <1>10, ExactResume

\* What a load at a statement lacks.
LEMMA StatementLacks ==
    ASSUME Sane, NEW s, AtStatement(s), s # "member", Good
    PROVE  Gathered(Top, linker.exports, {})
<1>1. stack # <<>> /\ Top.stage = s /\ Top.call = "load" /\ Top.at \in DOMAIN Imports(Top.mod)
  BY StatementFacts DEF Sane
<1>2. Settled(Top, linker.exports, Told(Top, found, linker.exports))
  BY <1>1, RunningFacts DEF Ready
<1>3. Told(Top, found, linker.exports) = {}
  BY <1>1 DEF Told
<1>. QED
  BY <1>1, <1>2, <1>3 DEF Settled

\* A load binds a module's namespace.
LEMMA ExactApplyImport ==
    ASSUME Sane, apply_import
    PROVE  ExactInv'
<1>. DEFINE ms == [Top.members EXCEPT ![S.mod] = Exports(S.mod)]
            ld == IF S.mod \in linker.pending THEN Top.loading \cup {S.mod} ELSE Top.loading
            g == [Top EXCEPT !.members = ms, !.loading = ld]
<1>0. TypeInv
  BY DEF Sane
<1>1. AtStatement("lookup") /\ S.kind = "import" /\ UNCHANGED <<program, package, linker, found, result>>
  BY DEF apply_import
<1>2. /\ stack # <<>> /\ Top \in LoadFrames /\ S.mod \in Modules /\ Exports(S.mod) \in Bindings
      /\ Top.mod \in Modules /\ Top.at \in DOMAIN Imports(Top.mod) /\ S = Imports(Top.mod)[Top.at]
      /\ LoadRight(Top) /\ S.mod \in linker.loaded /\ ProgramOK
  BY <1>0, <1>1, StatementExact, TopFacts
<1>3. stack' = Resumed(Past(g))
  BY <1>2 DEF apply_import, LoadFrames
<1>4. ms \in [Modules -> Bindings] /\ ld \in SUBSET Modules
  BY <1>2 DEF LoadFrames
<1>5. /\ ms[S.mod] = Exports(S.mod) /\ \A x \in Modules : x # S.mod => ms[x] = Top.members[x]
      /\ Top.loading \subseteq ld /\ (S.mod \in linker.pending => S.mod \in ld)
  BY <1>2 DEF LoadFrames
<1>. HIDE DEF ms, ld
<1>6. /\ g \in LoadFrames /\ g.mod = Top.mod /\ g.reads = Top.reads /\ g.at = Top.at /\ g.members = ms
      /\ g.loading = ld /\ g.bindings = Top.bindings /\ g.explicit = Top.explicit
  BY <1>2, <1>4 DEF LoadFrames
<1>. HIDE DEF g
<1>7. KeptAt(linker) /\ (Good => CompleteAt(linker, stack, found))
  BY <1>2, RunningFacts
<1>8. SoundAll(g.members)
  <2>1. SoundAll(Top.members) /\ SoundAll(linker.exports)
    BY <1>2, <1>7 DEF LoadRight, KeptAt
  <2>. QED
    BY <1>2, <1>5, <1>6, <2>1 DEF SoundAll, Exports
<1>9. ASSUME Good PROVE Gathered(Past(g), linker.exports, {})
  <2>1. Gathered(Top, linker.exports, {})
    BY <1>1, <1>9, StatementLacks
  <2>. DEFINE f == Past(g)
  <2>2. f.mod = Top.mod /\ f.at = Top.at + 1 /\ f.members = ms /\ f.loading = ld /\ f.reads = Top.reads
    BY <1>6, PastFields
  <2>. HIDE DEF f
  <2>3. ASSUME NEW x \in Modules PROVE /\ DOMAIN f.members[x] \subseteq DOMAIN linker.exports[x]
                                       /\ DOMAIN Top.members[x] \subseteq DOMAIN f.members[x]
    BY <1>5, <2>1, <2>2, <2>3 DEF Gathered, Exports
  <2>4. /\ DOMAIN Imports(Top.mod) = 1..Len(Imports(Top.mod)) /\ Len(Imports(Top.mod)) \in Nat
        /\ \A j \in DOMAIN Imports(Top.mod) :
              /\ Imports(Top.mod)[j].mod \in Modules
              /\ Imports(Top.mod)[j].kind = "import" => Imports(Top.mod)[j].read \in Names
    BY <1>2, ImportFacts
  <2>5. ASSUME NEW j \in DOMAIN Imports(f.mod), j < f.at, Imports(f.mod)[j].kind = "import",
               Denotes[Read(f.mod, j)] # {}
        PROVE  \/ Read(f.mod, j)[2] \in DOMAIN f.members[Read(f.mod, j)[1]]
               \/ Read(f.mod, j) \in f.reads /\ Read(f.mod, j)[1] \in f.loading
    <3>1. Read(f.mod, j)[1] = Imports(Top.mod)[j].mod /\ Read(f.mod, j)[2] = Imports(Top.mod)[j].read
      BY <2>2 DEF Read
    <3>2. CASE j < Top.at
      <4>1. \/ Read(Top.mod, j)[2] \in DOMAIN Top.members[Read(Top.mod, j)[1]]
            \/ Read(Top.mod, j) \in Top.reads /\ Read(Top.mod, j)[1] \in Top.loading
        BY <2>1, <2>2, <2>5, <3>2 DEF Gathered
      <4>. QED
        BY <1>5, <2>2, <2>3, <2>4, <2>5, <3>1, <4>1
    <3>3. CASE j = Top.at
      <4>1. Read(f.mod, j)[1] = S.mod
        BY <1>2, <3>1, <3>3
      <4>2. CASE S.mod \in linker.pending
        <5>1. Read(Top.mod, j) \in Top.reads
          BY <1>1, <1>2, <3>3 DEF LoadRight
        <5>. QED
          BY <1>5, <2>2, <4>1, <4>2, <5>1
      <4>3. CASE S.mod \notin linker.pending
        <5>1. Whole(S.mod, DOMAIN linker.exports[S.mod])
          BY <1>2, <1>7, <1>9, <4>3 DEF CompleteAt
        <5>2. Read(f.mod, j) = <<S.mod, S.read>> /\ S.read \in Names
          BY <1>1, <1>2, <2>2, <2>4, <3>3 DEF Read
        <5>3. S.read \in DOMAIN linker.exports[S.mod]
          BY <2>5, <5>1, <5>2 DEF Whole
        <5>. QED
          BY <1>5, <2>2, <5>2, <5>3 DEF Exports
      <4>. QED
        BY <4>2, <4>3
    <3>. QED
      BY <1>2, <2>2, <2>4, <2>5, <3>2, <3>3
  <2>. QED
    BY <2>3, <2>5 DEF Gathered, f
<1>10. Brought(g.mod, g.bindings) /\ g.explicit \subseteq DOMAIN g.bindings
  BY <1>2, <1>6 DEF LoadRight
<1>. QED
  BY <1>1, <1>3, <1>6, <1>8, <1>9, <1>10, ExactPast

\* A load binds the names of a statement.
LEMMA ExactBind ==
    ASSUME Sane, bind_from_imports
    PROVE  ExactInv'
<1>. DEFINE ex == Exports(S.mod)
            target == ex[S.name]
<1>0. TypeInv /\ Unambiguous(Denotes)
  BY DEF Sane
<1>1. AtStatement("bind") /\ UNCHANGED <<program, package, linker, found>>
  BY DEF bind_from_imports
<1>2. /\ stack # <<>> /\ Top \in LoadFrames /\ S.mod \in Modules /\ ex \in Bindings /\ Top.call = "load"
      /\ Top.stage = "bind" /\ Top.mod \in Modules /\ Top.mod \in Reach
      /\ Top.at \in DOMAIN Imports(Top.mod) /\ S = Imports(Top.mod)[Top.at] /\ S = StatementOf(Top)
      /\ LoadRight(Top) /\ ProgramOK /\ Top.bindings \in Bindings
      /\ S.kind = "from" => S.name \in Names /\ S.as \in Names
  BY <1>0, <1>1, StatementExact, TopFacts DEF LoadFrames
<1>3. KeptAt(linker) /\ (Good => Answered(Top, found, linker.exports))
  BY <1>2, RunningFacts DEF Ready
<1>4. Sound(S.mod, ex)
  BY <1>2, <1>3 DEF KeptAt, SoundAll, Exports
<1>5. ASSUME NEW b \in Bindings, NEW e \in SUBSET Names,
             stack' = Resumed(Past([Top EXCEPT !.bindings = b, !.explicit = e])),
             result' = result, S.kind \in {"from", "star"},
             Brought(Top.mod, b), e \subseteq DOMAIN b, DOMAIN Top.bindings \subseteq DOMAIN b,
             S.kind = "from" => S.as \in DOMAIN b /\ Denotes[<<S.mod, S.name>>] # {},
             Good /\ S.kind = "star" =>
                \A n \in Names \ Private : Denotes[<<S.mod, n>>] # {} => n \in DOMAIN b
      PROVE  ExactInv'
  <2>. DEFINE g == [Top EXCEPT !.bindings = b, !.explicit = e]
  <2>1. /\ g \in LoadFrames /\ g.mod = Top.mod /\ g.reads = Top.reads /\ g.at = Top.at
        /\ g.bindings = b /\ g.explicit = e /\ g.members = Top.members /\ g.loading = Top.loading
    BY <1>2 DEF LoadFrames
  <2>2. stack' = Resumed(Past(g))
    BY <1>5
  <2>. HIDE DEF g
  <2>3. SoundAll(g.members)
    BY <1>2, <2>1 DEF LoadRight
  <2>4. ASSUME Good PROVE Gathered(Past(g), linker.exports, {})
    <3>1. Gathered(Top, linker.exports, {})
      BY <1>1, <2>4, StatementLacks
    <3>. DEFINE f == Past(g)
    <3>2. /\ f.mod = Top.mod /\ f.at = Top.at + 1 /\ f.members = Top.members
          /\ f.loading = Top.loading /\ f.reads = Top.reads
      BY <2>1, PastFields
    <3>. HIDE DEF f
    <3>3. DOMAIN Imports(Top.mod) = 1..Len(Imports(Top.mod)) /\ Len(Imports(Top.mod)) \in Nat
      BY <1>2, ImportFacts
    <3>4. ASSUME NEW j \in DOMAIN Imports(f.mod), j < f.at, Imports(f.mod)[j].kind = "import"
          PROVE  j < Top.at
      <4>1. j # Top.at
        BY <1>1, <1>2, <1>5, <3>2, <3>4
      <4>2. j \in Nat /\ Top.at \in Nat /\ j < Top.at + 1
        BY <1>2, <3>2, <3>3, <3>4
      <4>. QED
        BY <4>1, <4>2
    <3>. QED
      BY <3>1, <3>2, <3>4 DEF Gathered, f
  <2>. QED
    BY <1>1, <1>5, <2>1, <2>2, <2>3, <2>4, ExactPast
<1>6. CASE S.kind = "star"
  <2>. DEFINE pub == Public(ex)
              b == Over(pub, Top.bindings)
  <2>1. /\ stack' = Resumed(Past([Top EXCEPT !.bindings = Over(Public(Exports(S.mod)), @)]))
        /\ result' = result
    BY <1>6 DEF bind_from_imports
  <2>2. pub \in Bindings /\ DOMAIN pub = DOMAIN ex \ Private /\ \A n \in DOMAIN pub : pub[n] = ex[n]
    BY <1>2, BindingsFacts DEF Public
  <2>3. [Top EXCEPT !.bindings = Over(Public(Exports(S.mod)), @)]
          = [Top EXCEPT !.bindings = b, !.explicit = Top.explicit]
    BY <1>2 DEF LoadFrames
  <2>4. Top.explicit \in SUBSET Names /\ Top.explicit \subseteq DOMAIN Top.bindings
    BY <1>2 DEF LoadFrames, LoadRight
  <2>. HIDE DEF pub
  <2>5. /\ b \in Bindings /\ DOMAIN b = DOMAIN pub \cup DOMAIN Top.bindings /\ DOMAIN b \subseteq Names
        /\ \A n \in DOMAIN b : b[n] = IF n \in DOMAIN pub THEN pub[n] ELSE Top.bindings[n]
    BY <1>2, <2>2, BindingsFacts DEF Over
  <2>6. stack' = Resumed(Past([Top EXCEPT !.bindings = b, !.explicit = Top.explicit]))
    BY <2>1, <2>3
  <2>. HIDE DEF b
  <2>7. Brought(Top.mod, b)
    <3>. SUFFICES ASSUME NEW n \in DOMAIN b PROVE \E q \in Imported(Top.mod, n) : b[n] \in Denotes[q]
      BY DEF Brought
    <3>1. CASE n \in DOMAIN pub
      <4>0. n \in Names /\ n \notin Private
        BY <2>2, <2>5, <3>1
      <4>1. <<S.mod, n>> \in Imported(Top.mod, n)
        <5>1. Imports(Top.mod)[Top.at].kind = "star" => <<Imports(Top.mod)[Top.at].mod, n>> \in Imported(Top.mod, n)
          BY <1>2, <4>0, ImportedFacts
        <5>. QED
          BY <1>2, <1>6, <5>1
      <4>2. b[n] \in Denotes[<<S.mod, n>>]
        BY <1>4, <2>2, <2>5, <3>1 DEF Sound
      <4>. QED
        BY <4>1, <4>2
    <3>2. CASE n \notin DOMAIN pub
      BY <1>2, <2>5, <3>2 DEF LoadRight, Brought
    <3>. QED
      BY <3>1, <3>2
  <2>8. ASSUME Good PROVE \A n \in Names \ Private : Denotes[<<S.mod, n>>] # {} => n \in DOMAIN b
    <3>1. Binds(Top, "star")
      BY <1>2, <1>6 DEF Binds
    <3>2. Whole(S.mod, DOMAIN ex)
      BY <1>2, <1>3, <2>8, <3>1 DEF Answered, Exports
    <3>. QED
      BY <2>2, <2>5, <3>2 DEF Whole
  <2>. QED
    BY <1>5, <1>6, <2>1, <2>4, <2>5, <2>6, <2>7, <2>8
<1>7. CASE S.kind = "from" /\ S.name \notin DOMAIN ex
  <2>1. Raise("missing")
    BY <1>7 DEF bind_from_imports
  <2>2. "missing" \in Errors \ {"recursive"}
    BY DEF Errors
  <2>3. ~Good
    BY <1>2, <1>3, <1>7 DEF Answered, Binds, Exports
  <2>. QED
    BY <1>1, <2>1, <2>2, <2>3, ExactRaise
<1>8. CASE S.kind = "from" /\ S.name \in DOMAIN ex
  <2>1. target \in Pairs /\ target \in Denotes[<<S.mod, S.name>>]
    BY <1>2, <1>4, <1>8, BindingsFacts DEF Sound
  <2>2. <<S.mod, S.name>> \in Imported(Top.mod, S.as)
    <3>. DEFINE n == S.as
    <3>1. n \in Names
      BY <1>2, <1>8
    <3>. HIDE DEF n
    <3>2. \A j \in DOMAIN Imports(Top.mod) : Imports(Top.mod)[j].kind = "from" /\ Imports(Top.mod)[j].as = n =>
             <<Imports(Top.mod)[j].mod, Imports(Top.mod)[j].name>> \in Imported(Top.mod, n)
      BY <1>2, <3>1, ImportedFacts
    <3>. QED
      BY <1>2, <1>8, <3>2 DEF n
  <2>3. ~(S.as \in Top.explicit /\ Top.bindings[S.as] # target)
    <3>. SUFFICES ASSUME S.as \in Top.explicit PROVE Top.bindings[S.as] = target
      OBVIOUS
    <3>1. S.as \in DOMAIN Top.bindings
      BY <1>2 DEF LoadRight
    <3>2. PICK q \in Imported(Top.mod, S.as) : Top.bindings[S.as] \in Denotes[q]
      BY <1>2, <3>1 DEF LoadRight, Brought
    <3>3. <<Top.mod, S.as>> \in Pairs
      BY <1>2, <1>8 DEF Pairs
    <3>. HIDE DEF target
    <3>. QED
      BY <1>0, <2>1, <2>2, <3>2, <3>3 DEF Unambiguous
  <2>4. /\ stack' = Resumed(Past([Top EXCEPT !.bindings = Publish(@, S.as, target),
                                             !.explicit = @ \cup {S.as}]))
        /\ result' = result
    BY <1>8, <2>3 DEF bind_from_imports
  <2>. DEFINE b == Publish(Top.bindings, S.as, target)
              e == Top.explicit \cup {S.as}
  <2>5. [Top EXCEPT !.bindings = Publish(@, S.as, target), !.explicit = @ \cup {S.as}]
          = [Top EXCEPT !.bindings = b, !.explicit = e]
    BY <1>2 DEF LoadFrames
  <2>6. /\ b \in Bindings /\ e \in SUBSET Names /\ DOMAIN b = DOMAIN Top.bindings \cup {S.as}
        /\ \A n \in DOMAIN b : b[n] = IF n = S.as THEN target ELSE Top.bindings[n]
    BY <1>2, <1>8, <2>1, BindingsFacts DEF LoadFrames, Publish
  <2>7. e \subseteq DOMAIN b
    BY <1>2, <2>6 DEF LoadRight
  <2>8. stack' = Resumed(Past([Top EXCEPT !.bindings = b, !.explicit = e]))
    BY <2>4, <2>5
  <2>. HIDE DEF b, e, target
  <2>9. Brought(Top.mod, b)
    <3>. SUFFICES ASSUME NEW n \in DOMAIN b PROVE \E q \in Imported(Top.mod, n) : b[n] \in Denotes[q]
      BY DEF Brought
    <3>1. CASE n = S.as
      BY <2>1, <2>2, <2>6, <3>1
    <3>2. CASE n # S.as
      BY <1>2, <2>6, <3>2 DEF LoadRight, Brought
    <3>. QED
      BY <3>1, <3>2
  <2>. QED
    BY <1>5, <1>8, <2>1, <2>4, <2>6, <2>7, <2>8, <2>9
<1>9. S.kind \in {"star", "from"}
  BY DEF bind_from_imports
<1>. QED
  BY <1>6, <1>7, <1>8, <1>9

\* A load past its statements goes on.
LEMMA BodyExact ==
    ASSUME Sane, stack # <<>>, Top.call = "load", NEW u \in {"load", "member"},
           NEW rs \in SUBSET Top.reads, NEW a \in Modules, NEW ms \in [Modules -> Bindings],
           u # "load" => Top.at > Len(Imports(Top.mod)),
           Top.reads \subseteq rs \/ Top.at > Len(Imports(Top.mod)), SoundAll(ms)
    PROVE  LET f == [Top EXCEPT !.stage = u, !.asked = a, !.reads = rs, !.members = ms]
           IN  /\ f \in ExactFrames /\ Same(f, Top) /\ f.call = "load" /\ f.mod = Top.mod /\ f.at = Top.at
               /\ f.stage = u /\ f.asked = a /\ f.reads = rs /\ f.members = ms /\ f.loading = Top.loading
               /\ Entered(f, linker.loaded)
<1>. DEFINE f == [Top EXCEPT !.stage = u, !.asked = a, !.reads = rs, !.members = ms]
<1>0. TypeInv
  BY DEF Sane
<1>1. Top \in LoadFrames /\ Top.mod \in Modules /\ Top.at \in Nat \ {0} /\ ProgramOK
  BY <1>0, BodyFacts, TopFacts
<1>2. f \in FitFrames /\ Same(f, Top)
  BY <1>0, BodyGoesOn
<1>3. /\ f.call = "load" /\ f.mod = Top.mod /\ f.at = Top.at
      /\ f.stage = u /\ f.asked = a /\ f.reads = rs /\ f.members = ms /\ f.loading = Top.loading
      /\ f.bindings = Top.bindings /\ f.explicit = Top.explicit
  BY <1>1 DEF LoadFrames
<1>. HIDE DEF f
<1>4. LoadRight(Top) /\ Top.mod \in Reach
  BY RunningFacts DEF Exactly
<1>5. DOMAIN Imports(Top.mod) = 1..Len(Imports(Top.mod)) /\ Len(Imports(Top.mod)) \in Nat
  BY <1>1, ImportFacts
<1>6. u = "load" \/ Top.at \notin DOMAIN Imports(Top.mod)
  BY <1>1, <1>5
<1>7. Top.reads \subseteq rs \/ Top.at \notin DOMAIN Imports(Top.mod)
  BY <1>1, <1>5
<1>8. ASSUME NEW j \in DOMAIN Imports(f.mod) PROVE PastRight(f, j)
  <2>1. PastRight(Top, j)
    BY <1>3, <1>4, <1>8 DEF LoadRight
  <2>. QED
    BY <1>3, <1>6, <1>8, <2>1 DEF PastRight
<1>9. LoadRight(f)
  BY <1>3, <1>4, <1>7, <1>8 DEF LoadRight
<1>10. f \in ExactFrames
  BY <1>2, <1>3, <1>4, <1>9 DEF ExactFrames, Exactly
<1>11. Entered(f, linker.loaded)
  BY <1>3 DEF Entered
<1>. QED
  BY <1>2, <1>3, <1>10, <1>11 DEF f

\* A load looks up a member that its body reads.
LEMMA ExactMembers ==
    ASSUME Sane, resolve_namespace_members
    PROVE  ExactInv'
<1>0. TypeInv
  BY DEF Sane
<1>1. /\ stack # <<>> /\ Top.call = "load" /\ Top.stage = "load" /\ Top.at > Len(Imports(Top.mod))
  BY DEF resolve_namespace_members, AtBody, Running
<1>2. PICK r \in Top.reads : resolve_pending(r[1], r[2], {},
                Resumed([Top EXCEPT !.stage = "member", !.asked = r[1], !.reads = @ \ {r}]))
  BY DEF resolve_namespace_members, Lacking
<1>. DEFINE x == r[1]
            n == r[2]
            rs == Top.reads \ {r}
            ms == Top.members
            f == [Top EXCEPT !.stage = "member", !.asked = x, !.reads = rs, !.members = ms]
<1>3. /\ x \in Modules /\ n \in Names /\ <<Top.mod, x>> \in Deps /\ rs \in SUBSET Top.reads
      /\ ms \in [Modules -> Bindings] /\ Top \in LoadFrames /\ Top.mod \in Modules /\ r \in Pairs
      /\ Needs[Top] = Uses[Top.mod] /\ Top \in FitFrames
  BY <1>0, <1>1, BodyFacts
<1>4. [Top EXCEPT !.stage = "member", !.asked = r[1], !.reads = @ \ {r}] = f
  BY <1>3 DEF LoadFrames
<1>5. resolve_pending(x, n, {}, Resumed(f))
  BY <1>2, <1>4
<1>6. LoadRight(Top) /\ Top.mod \in Reach /\ ProgramOK /\ Needs[Top] \subseteq linker.loaded
  BY <1>1, RunningFacts DEF Exactly
<1>7. SoundAll(ms)
  BY <1>6 DEF LoadRight
<1>8. r = <<x, n>>
  BY <1>3 DEF Pairs
<1>9. x \in Uses[Top.mod]
  BY <1>1, <1>3, FrameFacts DEF Fits
<1>10. x \in linker.loaded /\ x \in Reach
  BY <1>3, <1>6, <1>9, ReachFacts
<1>. HIDE DEF x, n
<1>11. /\ f \in ExactFrames /\ Same(f, Top) /\ f.call = "load" /\ f.mod = Top.mod /\ f.at = Top.at
       /\ f.stage = "member" /\ f.asked = x /\ f.reads = rs /\ f.members = ms /\ f.loading = Top.loading
       /\ Entered(f, linker.loaded)
  BY <1>1, <1>3, <1>7, BodyExact
<1>. HIDE DEF f
<1>12. AwaitsName(f, <<x, n>>) /\ f.call # "entry"
  BY <1>11 DEF AwaitsName
<1>13. ASSUME Good PROVE Settled(f, linker.exports, {q \in Pairs : Asking(f) /\ q = <<x, n>>})
  <2>. DEFINE E == {q \in Pairs : Asking(f) /\ q = <<x, n>>}
  <2>1. r \in E
    BY <1>3, <1>8, <1>11 DEF Asking
  <2>2. Settled(Top, linker.exports, {})
    <3>1. Plain(Top)
      BY <1>1 DEF Plain
    <3>. QED
      BY <1>1, <1>3, <1>13, <3>1, RunningFacts, PlainReady
  <2>. HIDE DEF E
  <2>3. Gathered(Top, linker.exports, {})
    BY <1>1, <2>2 DEF Settled
  <2>4. Gathered(f, linker.exports, E)
    <3>1. \A y \in Modules : DOMAIN f.members[y] \subseteq DOMAIN linker.exports[y]
      BY <1>11, <2>3 DEF Gathered
    <3>2. ASSUME NEW j \in DOMAIN Imports(f.mod), j < f.at, Imports(f.mod)[j].kind = "import",
                 Denotes[Read(f.mod, j)] # {}
          PROVE  \/ Read(f.mod, j)[2] \in DOMAIN f.members[Read(f.mod, j)[1]]
                 \/ Read(f.mod, j) \in f.reads /\ Read(f.mod, j)[1] \in f.loading
                 \/ Read(f.mod, j) \in E
      <4>1. \/ Read(Top.mod, j)[2] \in DOMAIN Top.members[Read(Top.mod, j)[1]]
            \/ Read(Top.mod, j) \in Top.reads /\ Read(Top.mod, j)[1] \in Top.loading
        BY <1>11, <2>3, <3>2 DEF Gathered
      <4>. QED
        BY <1>11, <2>1, <4>1
    <3>. QED
      BY <3>1, <3>2 DEF Gathered
  <2>. QED
    BY <1>11, <2>4 DEF Settled, E
<1>. QED
  BY <1>1, <1>3, <1>5, <1>10, <1>11, <1>12, <1>13, ExactResolve

\* It binds that member.
LEMMA ExactBindMember ==
    ASSUME Sane, BindMember
    PROVE  ExactInv'
<1>. DEFINE b == IF found THEN Exports(Top.asked) ELSE Top.members[Top.asked]
            ms == [Top.members EXCEPT ![Top.asked] = b]
            rs == Top.reads
            a == Top.asked
            f == [Top EXCEPT !.stage = "load", !.asked = a, !.reads = rs, !.members = ms]
<1>0. TypeInv
  BY DEF Sane
<1>1. /\ stack # <<>> /\ Top.call = "load" /\ Top.stage = "member"
      /\ UNCHANGED <<program, package, linker, found, result>>
  BY DEF BindMember, Running
<1>2. /\ Top \in LoadFrames /\ Top \in FitFrames /\ a \in Modules /\ Top.members \in [Modules -> Bindings]
      /\ rs \in SUBSET Top.reads /\ Exports(a) \in Bindings
  BY <1>0, <1>1, BodyFacts, TopFacts
<1>3. b \in Bindings
  BY <1>2
<1>4. stack' = Resumed(f)
  <2>1. [Top EXCEPT !.stage = "load", !.members[Top.asked] = IF found THEN Exports(Top.asked) ELSE @] = f
    BY <1>2 DEF LoadFrames
  <2>. QED
    BY <2>1 DEF BindMember
<1>5. /\ ms \in [Modules -> Bindings] /\ ms[a] = b
      /\ \A y \in Modules : y # a => ms[y] = Top.members[y]
  BY <1>2, <1>3
<1>6. LoadRight(Top) /\ KeptAt(linker)
  BY <1>1, RunningFacts DEF Exactly
<1>7. SoundAll(ms)
  <2>1. SoundAll(Top.members) /\ SoundAll(linker.exports)
    BY <1>6 DEF LoadRight, KeptAt
  <2>2. Sound(a, b)
    BY <1>2, <2>1 DEF SoundAll, Exports
  <2>. HIDE DEF b, ms, a
  <2>. QED
    BY <1>5, <2>1, <2>2 DEF SoundAll
<1>8. /\ found => b = linker.exports[a]
      /\ ~found => b = Top.members[a]
      /\ rs = Top.reads
  BY DEF Exports
<1>. HIDE DEF b, ms, rs, a
<1>9. /\ f \in ExactFrames /\ Same(f, Top) /\ f.call = "load" /\ f.mod = Top.mod /\ f.at = Top.at
      /\ f.stage = "load" /\ f.reads = Top.reads /\ f.members = ms /\ f.loading = Top.loading
      /\ Entered(f, linker.loaded)
  <2>. DEFINE u == "load"
  <2>1. /\ ms \in [Modules -> Bindings] /\ a \in Modules /\ rs \in SUBSET Top.reads /\ Top.reads \subseteq rs
        /\ u \in {"load", "member"} /\ u = "load"
        /\ f = [Top EXCEPT !.stage = u, !.asked = a, !.reads = rs, !.members = ms]
    BY <1>2, <1>5, <1>8
  <2>. HIDE DEF f, u
  <2>2. SoundAll(ms) /\ stack # <<>> /\ Top.call = "load"
    BY <1>1, <1>7
  <2>3. f \in ExactFrames
    BY <2>1, <2>2, BodyExact
  <2>4. Same(f, Top)
    BY <1>0, <2>1, <2>2, BodyGoesOn
  <2>5. /\ f.call = "load" /\ f.mod = Top.mod /\ f.at = Top.at
        /\ f.stage = u /\ f.reads = rs /\ f.members = ms /\ f.loading = Top.loading
    BY <1>2, <2>1 DEF LoadFrames
  <2>6. Entered(f, linker.loaded)
    BY <2>5 DEF Entered
  <2>. QED
    BY <1>8, <2>1, <2>3, <2>4, <2>5, <2>6
<1>. HIDE DEF f
<1>10. ASSUME Good PROVE Settled(f, linker.exports, {})
  <2>. DEFINE T == Told(Top, found, linker.exports)
  <2>1. Gathered(Top, linker.exports, T)
    BY <1>1, <1>10, RunningFacts DEF Ready, Settled
  <2>2. \A q \in T : found /\ q[1] = a /\ q[2] \in DOMAIN linker.exports[a]
    BY DEF Told, a
  <2>. HIDE DEF T
  <2>3. \A y \in Modules : DOMAIN Top.members[y] \subseteq DOMAIN linker.exports[y]
    BY <2>1 DEF Gathered
  <2>4. \A y \in Modules : /\ DOMAIN ms[y] \subseteq DOMAIN linker.exports[y]
                           /\ DOMAIN Top.members[y] \subseteq DOMAIN ms[y]
    BY <1>5, <1>8, <2>3
  <2>5. ASSUME NEW j \in DOMAIN Imports(f.mod), j < f.at, Imports(f.mod)[j].kind = "import",
               Denotes[Read(f.mod, j)] # {}
        PROVE  \/ Read(f.mod, j)[2] \in DOMAIN f.members[Read(f.mod, j)[1]]
               \/ Read(f.mod, j) \in f.reads /\ Read(f.mod, j)[1] \in f.loading
    <3>1. \/ Read(Top.mod, j)[2] \in DOMAIN Top.members[Read(Top.mod, j)[1]]
          \/ Read(Top.mod, j) \in Top.reads /\ Read(Top.mod, j)[1] \in Top.loading
          \/ Read(Top.mod, j) \in T
      BY <1>9, <2>1, <2>5 DEF Gathered
    <3>2. Read(Top.mod, j)[1] \in Modules
      <4>1. Top.mod \in Modules /\ ProgramOK
        BY <1>0, <1>1, TopFacts
      <4>2. Imports(Top.mod)[j].mod \in Modules
        BY <1>9, <2>5, <4>1, ImportFacts
      <4>. QED
        BY <4>2 DEF Read
    <3>3. CASE Read(Top.mod, j) \in T
      BY <1>5, <1>8, <1>9, <2>2, <3>3
    <3>. QED
      BY <1>9, <2>4, <3>1, <3>2, <3>3
  <2>6. Gathered(f, linker.exports, {})
    BY <1>9, <2>4, <2>5 DEF Gathered
  <2>. QED
    BY <1>9, <2>6 DEF Settled
<1>11. Good => Ready(f, found', linker.exports)
  <2>1. Plain(f) /\ f \in FitFrames
    BY <1>9, ExactFits DEF Plain
  <2>. QED
    BY <1>10, <2>1, PlainReady
<1>. QED
  BY <1>1, <1>4, <1>9, <1>11, ExactResume

\* What a load has bound when it is past its statements.
LEMMA BodyFinal ==
    ASSUME Sane, stack # <<>>, Top.call = "load", Top.at > Len(Imports(Top.mod))
    PROVE  /\ Top.mod \in Modules /\ Top.mod \in Reach /\ LoadRight(Top)
           /\ \A j \in DOMAIN Imports(Top.mod) : j < Top.at /\ PastRight(Top, j)
           /\ Over(Local(Top.mod), Top.bindings) \in Bindings
           /\ Sound(Top.mod, Over(Local(Top.mod), Top.bindings))
           /\ Good => Whole(Top.mod, DOMAIN Over(Local(Top.mod), Top.bindings))
<1>. DEFINE m == Top.mod
            own == Local(m)
            b == Top.bindings
            final == Over(own, b)
<1>0. TypeInv
  BY DEF Sane
<1>1. m \in Modules /\ Top.at \in Nat \ {0} /\ b \in Bindings /\ ProgramOK
  BY <1>0, BodyFacts, TopFacts
<1>2. LoadRight(Top) /\ m \in Reach
  BY RunningFacts DEF Exactly
<1>3. DOMAIN Imports(m) = 1..Len(Imports(m)) /\ Len(Imports(m)) \in Nat
  BY <1>1, ImportFacts
<1>4. ASSUME NEW j \in DOMAIN Imports(m) PROVE j < Top.at /\ PastRight(Top, j)
  BY <1>1, <1>2, <1>3, <1>4 DEF LoadRight
<1>5. /\ DOMAIN own = program[m].decls /\ program[m].decls \subseteq Names
      /\ \A n \in program[m].decls : own[n] = <<m, n>> /\ <<m, n>> \in Pairs
  BY <1>1 DEF Local, ProgramOK, Pairs
<1>6. own \in Bindings
  <2>1. own \in [program[m].decls -> Pairs]
    BY <1>5 DEF Local
  <2>. HIDE DEF own
  <2>. QED
    BY <1>5, <2>1 DEF Bindings
<1>7. /\ final \in Bindings /\ DOMAIN final = DOMAIN own \cup DOMAIN b /\ DOMAIN final \subseteq Names
      /\ \A n \in DOMAIN final : final[n] = IF n \in DOMAIN own THEN own[n] ELSE b[n]
  BY <1>1, <1>6, BindingsFacts DEF Over
<1>. HIDE DEF final, own, b, m
<1>8. Sound(m, final)
  <2>. SUFFICES ASSUME NEW n \in DOMAIN final PROVE final[n] \in Denotes[<<m, n>>]
    BY DEF Sound
  <2>1. <<m, n>> \in Pairs
    BY <1>1, <1>7 DEF Pairs
  <2>2. Declared(<<m, n>>) <=> n \in DOMAIN own
    BY <1>5 DEF Declared
  <2>3. CASE n \in DOMAIN own
    BY <1>1, <1>5, <1>7, <2>1, <2>2, <2>3, DenotesFacts
  <2>4. CASE n \notin DOMAIN own
    <3>1. PICK q \in Imported(m, n) : b[n] \in Denotes[q]
      BY <1>2, <1>7, <2>4 DEF LoadRight, Brought, m, b
    <3>2. Denotes[q] \subseteq Denotes[<<m, n>>]
      BY <1>1, <2>1, <2>2, <2>4, <3>1, DenotesFacts
    <3>. QED
      BY <1>7, <2>4, <3>1, <3>2
  <2>. QED
    BY <2>3, <2>4
<1>9. ASSUME Good PROVE Whole(m, DOMAIN final)
  <2>. SUFFICES ASSUME NEW n \in Names, Denotes[<<m, n>>] # {} PROVE n \in DOMAIN final
    BY DEF Whole
  <2>1. <<m, n>> \in Pairs
    BY <1>1 DEF Pairs
  <2>2. Declared(<<m, n>>) => n \in DOMAIN own
    BY <1>5 DEF Declared
  <2>3. CASE Declared(<<m, n>>)
    BY <1>7, <2>2, <2>3
  <2>4. CASE ~Declared(<<m, n>>)
    <3>1. PICK q \in Imported(m, n) : Denotes[q] # {}
      BY <1>1, <2>1, <2>4, DenotesFacts
    <3>2. PICK j \in DOMAIN Imports(m) :
             \/ /\ Imports(m)[j].kind = "from" /\ Imports(m)[j].as = n
                /\ q = <<Imports(m)[j].mod, Imports(m)[j].name>>
             \/ /\ Imports(m)[j].kind = "star" /\ n \notin Private
                /\ q = <<Imports(m)[j].mod, n>>
      BY <1>1, ImportedFacts
    <3>3. j < Top.at /\ PastRight(Top, j)
      BY <1>4
    <3>4. n \in DOMAIN b
      BY <1>9, <3>1, <3>2, <3>3 DEF PastRight, m, b
    <3>. QED
      BY <1>7, <3>4
  <2>. QED
    BY <2>3, <2>4
<1>. QED
  BY <1>1, <1>2, <1>4, <1>7, <1>8, <1>9 DEF m, final, own, b

\* A module that is loading is loaded.
LEMMA HeldLoaded ==
    ASSUME Sane, stack # <<>>, Top.call \in {"load", "replay"}
    PROVE  Top.mod \in linker.loaded
<1>1. stack \in Seq(FitFrames) /\ Top = Last(stack) /\ result \notin Errors
  BY RunningFacts
<1>2. Len(stack) \in DOMAIN stack /\ Top = stack[Len(stack)]
  BY <1>1, PopFacts
<1>3. Len(stack) \in Held(stack)
  BY <1>2 DEF Held
<1>4. Accounted(stack, ToSet(HoistedOf(linker)), linker.loaded)
  BY <1>1 DEF Sane, OrderInv, OrderAt
<1>. QED
  BY <1>2, <1>3, <1>4 DEF Accounted

\* A load is done.
LEMMA ExactFinishModule ==
    ASSUME Sane, FinishModule
    PROVE  ExactInv'
<1>. DEFINE m == Top.mod
            final == Over(Local(m), Top.bindings)
            h == [mod |-> m, members |-> Top.members]
<1>0. TypeInv /\ OrderInv /\ DirectLookups
  BY DEF Sane
<1>1. /\ stack # <<>> /\ Top.call = "load" /\ Top.stage = "load" /\ Top.at > Len(Imports(Top.mod))
      /\ Lacking = {} /\ UNCHANGED <<program, package, found, result>>
  BY DEF FinishModule, AtBody, Running
<1>2. /\ stack \in Seq(FitFrames) /\ linker \in Linkers /\ Top = Last(stack) /\ Top \in FitFrames
      /\ result = "linking" /\ KeptAt(linker) /\ Needs[Top] \subseteq linker.loaded /\ ProgramOK
      /\ Good => CompleteAt(linker, stack, found) /\ Ready(Top, found, linker.exports)
  BY <1>1, RunningFacts
<1>3. Recording => linker.loads # <<>>
  <2>1. linker.loads \in Seq(Seq(Modules))
    BY <1>2 DEF Linkers
  <2>2. Recording => Listed(stack, linker.loads, Needs, Deps)
    BY <1>0, <1>2 DEF OrderInv, OrderAt
  <2>. QED
    BY <1>1, <1>2, <2>1, <2>2, ListsPopLoad
<1>4. /\ m \in Modules /\ h \in Hoists /\ h.mod = m /\ h.members = Top.members
      /\ Needs[Top] = Uses[m] /\ stack' = Front(stack)
      /\ linker' \in Linkers
      /\ linker'.loaded = linker.loaded /\ linker'.decls = Append(linker.decls, h)
      /\ linker'.pending = linker.pending \ {m}
      /\ linker'.exports = [linker.exports EXCEPT ![m] = final]
  BY <1>0, <1>3, FinishFacts
<1>5. /\ Recording =>
            /\ DOMAIN linker'.records = DOMAIN linker.records \cup {m}
            /\ \A x \in DOMAIN linker.records : x # m => linker'.records[x] = linker.records[x]
            /\ linker'.records[m].decls = h /\ linker'.records[m].exports = final
      /\ ~Recording => linker'.records = linker.records
  BY <1>0, <1>3, FinishFacts
<1>6. /\ m \in Reach /\ LoadRight(Top) /\ final \in Bindings /\ Sound(m, final)
      /\ \A j \in DOMAIN Imports(m) : j < Top.at /\ PastRight(Top, j)
      /\ Good => Whole(m, DOMAIN final)
  BY <1>1, BodyFinal
<1>. HIDE DEF final, h
<1>7. linker.exports \in [Modules -> Bindings] /\ linker.decls \in Seq(Hoists) /\ linker.loaded \subseteq Modules
  BY <1>2 DEF Linkers
<1>8. m \in linker.loaded
  BY <1>1, HeldLoaded
<1>9. /\ linker'.exports[m] = final
      /\ \A x \in Modules : x # m => linker'.exports[x] = linker.exports[x]
  BY <1>4, <1>7
<1>10. SoundAll(linker'.exports) /\ SoundAll(Top.members)
  BY <1>2, <1>6, <1>9 DEF KeptAt, SoundAll, LoadRight
<1>11. ASSUME Good PROVE ReadsFound(m, Top.members)
  <2>1. Plain(Top)
    BY <1>1 DEF Plain
  <2>2. Settled(Top, linker.exports, {})
    BY <1>2, <1>11, <2>1, PlainReady
  <2>3. Gathered(Top, linker.exports, {})
    BY <1>1, <2>2 DEF Settled
  <2>. SUFFICES ASSUME NEW j \in DOMAIN Imports(m), Imports(m)[j].kind = "import", Denotes[Read(m, j)] # {}
                PROVE  Read(m, j)[2] \in DOMAIN Top.members[Read(m, j)[1]]
    BY DEF ReadsFound
  <2>4. \/ Read(m, j)[2] \in DOMAIN Top.members[Read(m, j)[1]]
        \/ Read(m, j) \in Top.reads /\ Read(m, j)[1] \in Top.loading
    BY <1>6, <2>3 DEF Gathered
  <2>. QED
    BY <1>1, <2>4 DEF Lacking
<1>12. Exacted(linker'.records)
  <2>1. Exacted(linker.records)
    BY <1>2 DEF KeptAt
  <2>. QED
    BY <1>4, <1>5, <1>6, <1>10, <1>11, <2>1 DEF Exacted
<1>13. HoistRight(h, linker'.loaded)
  <2>1. \A j \in DOMAIN Imports(m) : Meant(m, j)
    BY <1>6 DEF PastRight
  <2>. QED
    BY <1>2, <1>4, <1>6, <1>10, <1>11, <2>1 DEF HoistRight
<1>14. KeptAt(linker')
  <2>1. \A x \in Modules \ linker'.loaded : linker'.exports[x] = linker.exports[x]
    BY <1>4, <1>8, <1>9
  <2>. QED
    BY <1>2, <1>4, <1>7, <1>10, <1>12, <1>13, <2>1, KeptNext
<1>15. ASSUME Good
       PROVE  /\ Grows(linker.exports, linker'.exports)
              /\ \A x \in linker'.loaded \ linker'.pending : Whole(x, DOMAIN linker'.exports[x])
              /\ \A f \in ExactFrames :
                    Awaiting(f, Top) /\ Settled(f, linker'.exports, Asked(f, Top))
                    => Ready(f, found', linker'.exports)
  <2>1. DOMAIN linker.exports[m] \subseteq DOMAIN final
    <3>. SUFFICES ASSUME NEW n \in DOMAIN linker.exports[m] PROVE n \in DOMAIN final
      OBVIOUS
    <3>1. n \in Names
      BY <1>4, <1>7, BindingsFacts
    <3>2. linker.exports[m][n] \in Denotes[<<m, n>>]
      BY <1>2, <1>4 DEF KeptAt, SoundAll, Sound
    <3>. QED
      BY <1>6, <1>15, <3>1, <3>2 DEF Whole
  <2>2. Grows(linker.exports, linker'.exports)
    BY <1>9, <2>1 DEF Grows
  <2>3. ASSUME NEW x \in linker'.loaded \ linker'.pending PROVE Whole(x, DOMAIN linker'.exports[x])
    <3>1. CASE x = m
      BY <1>6, <1>9, <1>15, <3>1
    <3>2. CASE x # m
      <4>1. x \in linker.loaded \ linker.pending /\ x \in Modules
        BY <1>4, <1>7, <2>3, <3>2
      <4>. QED
        BY <1>2, <1>9, <1>15, <3>2, <4>1 DEF CompleteAt
    <3>. QED
      BY <3>1, <3>2
  <2>4. ASSUME NEW f \in ExactFrames, Awaiting(f, Top), Settled(f, linker'.exports, Asked(f, Top))
        PROVE  Ready(f, found', linker'.exports)
    <3>1. Plain(f) /\ f \in FitFrames
      BY <1>1, <2>4, ExactFits DEF Plain, Awaiting
    <3>. QED
      BY <2>4, <3>1, PlainReady
  <2>. QED
    BY <2>2, <2>3, <2>4
<1>16. /\ linker'.pending \subseteq linker.pending /\ Top.mod \notin linker'.pending /\ Top.call # "entry"
       /\ UNCHANGED <<program, package, result>>
  BY <1>1, <1>4
<1>. QED
  BY <1>1, <1>4, <1>14, <1>15, <1>16, ExactReturn

\* The source of a lookup is what an import says, and those of a name that is
\* not declared have all that it stands for.
LEMMA SourceExact ==
    ASSUME ProgramOK, NEW m \in Modules, NEW n \in Names
    PROVE  /\ \A i \in PendingSources(m, n) : Source(m, n, i) \in Imported(m, n)
           /\ Good /\ m \in Reach /\ ~Declared(<<m, n>>)
              /\ (\A i \in PendingSources(m, n) : Denotes[Source(m, n, i)] = {})
              => Denotes[<<m, n>>] = {}
<1>1. /\ \A j \in DOMAIN Imports(m) :
            /\ Imports(m)[j].kind = "from" /\ Imports(m)[j].as = n =>
                  <<Imports(m)[j].mod, Imports(m)[j].name>> \in Imported(m, n)
            /\ Imports(m)[j].kind = "star" /\ n \notin Private =>
                  <<Imports(m)[j].mod, n>> \in Imported(m, n)
      /\ \A q \in Imported(m, n) : \E j \in DOMAIN Imports(m) :
            \/ /\ Imports(m)[j].kind = "from" /\ Imports(m)[j].as = n
               /\ q = <<Imports(m)[j].mod, Imports(m)[j].name>>
            \/ /\ Imports(m)[j].kind = "star" /\ n \notin Private
               /\ q = <<Imports(m)[j].mod, n>>
  BY ImportedFacts
<1>2. Named(m, n) # {} => Max(Named(m, n)) \in Named(m, n)
  <2>1. Named(m, n) \subseteq 1..Len(Imports(m)) /\ Len(Imports(m)) \in Nat
    BY ImportFacts DEF Named
  <2>. QED
    BY <2>1, MaxFacts
<1>3. /\ \A j \in DOMAIN Imports(m) : Imports(m)[j].kind = "from" =>
            Source(m, n, j) = <<Imports(m)[j].mod, Imports(m)[j].name>>
      /\ \A j \in DOMAIN Imports(m) : Imports(m)[j].kind = "star" => Source(m, n, j) = <<Imports(m)[j].mod, n>>
  BY DEF Source
<1>4. ASSUME NEW i \in PendingSources(m, n) PROVE Source(m, n, i) \in Imported(m, n)
  <2>1. CASE Named(m, n) # {}
    <3>1. i \in Named(m, n)
      BY <1>2, <1>4, <2>1 DEF PendingSources
    <3>. QED
      BY <1>1, <1>3, <3>1 DEF Named
  <2>2. CASE Named(m, n) = {}
    <3>1. i \in Wildcards(m) /\ n \notin Private
      BY <1>4, <2>2 DEF PendingSources
    <3>. QED
      BY <1>1, <1>3, <3>1 DEF Wildcards
  <2>. QED
    BY <2>1, <2>2
<1>5. ASSUME Good, m \in Reach, ~Declared(<<m, n>>),
             \A i \in PendingSources(m, n) : Denotes[Source(m, n, i)] = {}
      PROVE  Denotes[<<m, n>>] = {}
  <2>. SUFFICES ASSUME Denotes[<<m, n>>] # {} PROVE FALSE
    OBVIOUS
  <2>1. <<m, n>> \in Pairs /\ <<m, n>>[1] = m /\ <<m, n>>[2] = n
    BY DEF Pairs
  <2>2. PICK q \in Imported(m, n) : Denotes[q] # {}
    BY <1>5, <2>1, DenotesFacts
  <2>3. CASE Named(m, n) # {}
    <3>. DEFINE k == Max(Named(m, n))
    <3>1. k \in Named(m, n) /\ k \in PendingSources(m, n)
      BY <1>2, <2>3 DEF PendingSources
    <3>2. k \in DOMAIN Imports(m) /\ Imports(m)[k].kind = "from"
      BY <3>1 DEF Named
    <3>. HIDE DEF k
    <3>3. Denotes[Source(m, n, k)] = {} /\ Source(m, n, k) = <<Imports(m)[k].mod, Imports(m)[k].name>>
      BY <1>3, <1>5, <3>1, <3>2
    <3>4. Meant(m, k)
      BY <1>5, <3>2, GoodFacts
    <3>. QED
      BY <3>2, <3>3, <3>4 DEF Meant
  <2>4. CASE Named(m, n) = {}
    <3>1. PICK j \in DOMAIN Imports(m) :
             \/ /\ Imports(m)[j].kind = "from" /\ Imports(m)[j].as = n
                /\ q = <<Imports(m)[j].mod, Imports(m)[j].name>>
             \/ /\ Imports(m)[j].kind = "star" /\ n \notin Private
                /\ q = <<Imports(m)[j].mod, n>>
      BY <1>1, <2>2
    <3>2. Imports(m)[j].kind = "star" /\ n \notin Private /\ q = <<Imports(m)[j].mod, n>>
      BY <2>4, <3>1 DEF Named
    <3>3. j \in PendingSources(m, n)
      BY <2>4, <3>1, <3>2 DEF PendingSources, Wildcards
    <3>4. Source(m, n, j) = q
      BY <1>3, <3>1, <3>2
    <3>. QED
      BY <1>5, <2>2, <3>3, <3>4
  <2>. QED
    BY <2>3, <2>4
<1>. QED
  BY <1>4, <1>5

\* A lookup goes on with the sources that may have its name.
LEMMA LookupExact ==
    ASSUME Sane, NEW s, Running("resolve", s), NEW f \in FitFrames, Same(f, Top),
           Good => \A i \in Top.todo : i \in f.todo \/ Denotes[Source(Top.mod, Top.name, i)] = {}
    PROVE  /\ f \in ExactFrames /\ f.call = "resolve" /\ f.mod = Top.mod /\ f.name = Top.name
           /\ \A ex, E : Settled(f, ex, E)
           /\ Top.mod \in linker.loaded
           /\ Top.mod \in Reach
<1>1. stack # <<>> /\ Top.call = "resolve"
  BY DEF Running
<1>2. f.call = "resolve" /\ f.mod = Top.mod /\ f.name = Top.name
  BY <1>1 DEF Same
<1>3. Exactly(Top) /\ Entered(Top, linker.loaded)
  BY <1>1, RunningFacts
<1>4. Exactly(f)
  BY <1>1, <1>2, <1>3 DEF Exactly
<1>. QED
  BY <1>1, <1>2, <1>3, <1>4 DEF ExactFrames, Settled, Entered, Exactly

\* A lookup at another stage.
LEMMA LookupStaged ==
    ASSUME Sane, NEW s, Running("resolve", s), NEW u \in {"load", "lookup", "publish"}
    PROVE  LET f == [Top EXCEPT !.stage = u]
           IN  /\ f \in ExactFrames /\ Same(f, Top) /\ f.call = "resolve" /\ f.mod = Top.mod
               /\ f.stage = u /\ SourceOf(f) = NextSource
               /\ \A ex, E : Settled(f, ex, E)
               /\ \A ld : linker.loaded \subseteq ld /\ NextSource[1] \in ld => Entered(f, ld)
<1>. DEFINE f == [Top EXCEPT !.stage = u]
<1>0. TypeInv
  BY DEF Sane
<1>1. f \in FitFrames /\ Same(f, Top) /\ f.call = "resolve" /\ f.stage = u /\ SourceOf(f) = NextSource
  BY <1>0, LookupStage
<1>2. f.todo = Top.todo
  BY <1>0, LookupFacts DEF ResolveFrames
<1>. HIDE DEF f
<1>3. /\ f \in ExactFrames /\ f.mod = Top.mod /\ Top.mod \in linker.loaded
      /\ \A ex, E : Settled(f, ex, E)
  BY <1>1, <1>2, LookupExact
<1>4. \A ld : linker.loaded \subseteq ld /\ NextSource[1] \in ld => Entered(f, ld)
  BY <1>1, <1>3 DEF Entered
<1>. QED
  BY <1>1, <1>3, <1>4 DEF f

\* A lookup loads the module of its source.
LEMMA ExactLoadSource ==
    ASSUME Sane, LoadSource
    PROVE  ExactInv'
<1>. DEFINE f == [Top EXCEPT !.stage = "lookup"]
            x == NextSource[1]
<1>0. TypeInv
  BY DEF Sane
<1>1. Running("resolve", "load")
  BY DEF LoadSource
<1>2. stack # <<>> /\ x \in Modules /\ <<Top.mod, x>> \in Deps /\ Top.call = "resolve"
  BY <1>0, <1>1, LookupFacts
<1>3. load_module(x, Resumed(f))
  BY <1>0, <1>2, GotoFacts DEF LoadSource
<1>4. /\ f \in ExactFrames /\ Same(f, Top) /\ f.call = "resolve" /\ f.stage = "lookup"
      /\ Settled(f, linker.exports, {}) /\ Entered(f, linker.loaded \cup {x})
  BY <1>1, LookupStaged
<1>5. x \in Reach
  <2>1. Top.mod \in Reach /\ ProgramOK
    BY <1>2, RunningFacts DEF Exactly
  <2>. QED
    BY <1>2, <2>1, ReachFacts
<1>. HIDE DEF f, x
<1>6. AwaitsLoad(f) /\ f.call # "entry"
  BY <1>4 DEF AwaitsLoad
<1>. QED
  BY <1>2, <1>3, <1>4, <1>5, <1>6, ExactLoad

\* It looks its source up.
LEMMA ExactResolveSource ==
    ASSUME Sane, ResolveSource
    PROVE  ExactInv'
<1>. DEFINE f == [Top EXCEPT !.stage = "publish"]
            x == NextSource[1]
            n == NextSource[2]
<1>0. TypeInv /\ OrderInv /\ DirectLookups
  BY DEF Sane
<1>1. Running("resolve", "lookup")
  BY DEF ResolveSource
<1>2. /\ stack # <<>> /\ x \in Modules /\ n \in Names /\ <<Top.mod, x>> \in Deps
      /\ Top.call = "resolve" /\ Top.stage = "lookup" /\ NextSource = <<x, n>> /\ NextSource = SourceOf(Top)
  BY <1>0, <1>1, LookupFacts
<1>3. resolve_pending(x, n, Visiting, Resumed(f))
  BY <1>0, <1>2, GotoFacts DEF ResolveSource
<1>4. x \in linker.loaded /\ x \in Reach
  <2>1. Top.mod \in Reach /\ ProgramOK /\ Entered(Top, linker.loaded)
    BY <1>2, RunningFacts DEF Exactly
  <2>. QED
    BY <1>2, <2>1, ReachFacts DEF Entered
<1>5. /\ f \in ExactFrames /\ Same(f, Top) /\ f.call = "resolve" /\ f.stage = "publish" /\ SourceOf(f) = <<x, n>>
      /\ Entered(f, linker.loaded)
  BY <1>1, <1>2, <1>4, LookupStaged
<1>6. \A E : Settled(f, linker.exports, E)
  BY <1>1, LookupStaged
<1>7. <<x, n>> \notin Visiting
  <2>1. Walk(stack, Looks)
    BY <1>0 DEF OrderInv, OrderAt
  <2>. QED
    BY <1>0, <1>1, <1>2, <2>1, NotVisited
<1>. HIDE DEF f, x, n
<1>8. AwaitsName(f, <<x, n>>) /\ f.call # "entry"
  BY <1>5 DEF AwaitsName, Waits
<1>. QED
  BY <1>2, <1>3, <1>4, <1>5, <1>6, <1>7, <1>8, ExactResolve

\* What a lookup publishes is what its name stands for.
LEMMA PublishExact ==
    ASSUME Sane, publish_pending
    PROVE  /\ KeptAt(linker') /\ Grows(linker.exports, linker'.exports)
           /\ linker'.loaded = linker.loaded /\ linker'.pending = linker.pending
           /\ found => Top.name \in DOMAIN linker'.exports[Top.mod]
<1>. DEFINE target == Exports(NextSource[1])[NextSource[2]]
            p == Pair(Top)
            b == Publish(Exports(Top.mod), Top.name, target)
<1>0. TypeInv
  BY DEF Sane
<1>1. Running("resolve", "publish")
  BY DEF publish_pending
<1>2. /\ stack # <<>> /\ Top.call = "resolve" /\ Top.stage = "publish" /\ Top.mod \in Modules /\ Top.name \in Names
      /\ Top.todo \in SUBSET Nat /\ Top.todo # {} /\ Top.todo \subseteq PendingSources(Top.mod, Top.name)
      /\ ~Declared(p) /\ p \in Pairs /\ NextSource \in Pairs /\ NextSource = <<NextSource[1], NextSource[2]>>
      /\ NextSource[1] \in Modules /\ NextSource = SourceOf(Top)
  BY <1>0, <1>1, LookupFacts
<1>3. /\ linker \in Linkers /\ KeptAt(linker) /\ ProgramOK /\ Entered(Top, linker.loaded)
      /\ stack \in Seq(FitFrames) /\ Top = Last(stack)
  BY <1>2, RunningFacts
<1>4. /\ linker' \in Linkers
      /\ linker'.loaded = linker.loaded /\ linker'.pending = linker.pending
      /\ linker'.decls = linker.decls /\ linker'.records = linker.records
      /\ \A m \in Modules : DOMAIN Exports(m) \subseteq DOMAIN linker'.exports[m]
      /\ found => Top.name \in DOMAIN linker'.exports[Top.mod]
  BY <1>0, PublishedFacts
<1>5. Grows(linker.exports, linker'.exports)
  BY <1>4 DEF Grows, Exports
<1>6. linker.exports \in [Modules -> Bindings] /\ linker.decls \in Seq(Hoists)
  BY <1>3 DEF Linkers
<1>7. Exacted(linker'.records)
  BY <1>3, <1>4 DEF KeptAt
<1>8. CASE ~found
  <2>1. linker' = linker
    BY <1>8 DEF publish_pending
  <2>. QED
    BY <1>3, <1>4, <1>5, <1>8, <2>1
<1>9. CASE found
  <2>1. linker'.exports = [linker.exports EXCEPT ![Top.mod] = b]
    <3>1. linker' = [linker EXCEPT !.exports[Top.mod] = Publish(@, Top.name, target)]
      BY <1>9 DEF publish_pending
    <3>. QED
      BY <1>2, <1>3, <3>1 DEF Exports, Linkers
  <2>2. target \in Denotes[NextSource]
    <3>1. NextSource[2] \in DOMAIN Exports(NextSource[1])
      BY <1>0, <1>2, <1>3, <1>9 DEF TypeInv, TypedAt, Waits, Exports
    <3>2. Sound(NextSource[1], Exports(NextSource[1]))
      BY <1>2, <1>3 DEF KeptAt, SoundAll, Exports
    <3>. QED
      BY <1>2, <3>1, <3>2 DEF Sound
  <2>3. NextSource \in Imported(Top.mod, Top.name)
    <3>. DEFINE i == Min(Top.todo)
    <3>1. i \in PendingSources(Top.mod, Top.name)
      BY <1>2, MinFacts
    <3>2. NextSource = Source(Top.mod, Top.name, i)
      BY DEF NextSource
    <3>3. Top.mod \in Modules /\ Top.name \in Names
      BY <1>2
    <3>. HIDE DEF i
    <3>4. \A j \in PendingSources(Top.mod, Top.name) : Source(Top.mod, Top.name, j) \in Imported(Top.mod, Top.name)
      BY <1>3, <3>3, SourceExact
    <3>. QED
      BY <3>1, <3>2, <3>4
  <2>4. target \in Denotes[<<Top.mod, Top.name>>]
    <3>1. p = <<Top.mod, Top.name>> /\ p[1] = Top.mod /\ p[2] = Top.name
      BY DEF Pair
    <3>2. Denotes[NextSource] \subseteq Denotes[p]
      BY <1>2, <1>3, <2>3, <3>1, DenotesFacts
    <3>. HIDE DEF p, target
    <3>. QED
      BY <2>2, <3>1, <3>2
  <2>. HIDE DEF target
  <2>5. /\ DOMAIN b = DOMAIN Exports(Top.mod) \cup {Top.name}
        /\ \A n \in DOMAIN b : b[n] = IF n = Top.name THEN target ELSE Exports(Top.mod)[n]
    BY DEF Publish
  <2>6. Sound(Top.mod, b)
    <3>1. Sound(Top.mod, Exports(Top.mod))
      BY <1>2, <1>3 DEF KeptAt, SoundAll, Exports
    <3>. HIDE DEF b
    <3>. QED
      BY <2>4, <2>5, <3>1 DEF Sound
  <2>. HIDE DEF b
  <2>7. SoundAll(linker'.exports)
    BY <1>2, <1>3, <1>6, <2>1, <2>6 DEF KeptAt, SoundAll
  <2>8. \A m \in Modules \ linker'.loaded : linker'.exports[m] = linker.exports[m]
    BY <1>2, <1>3, <1>4, <1>6, <2>1 DEF Entered
  <2>9. KeptAt(linker')
    BY <1>3, <1>4, <1>6, <1>7, <2>7, <2>8, KeptNext
  <2>. QED
    BY <1>4, <1>5, <2>9
<1>. QED
  BY <1>8, <1>9

\* A lookup takes its answer.
LEMMA ExactPublish ==
    ASSUME Sane, publish_pending
    PROVE  ExactInv'
<1>. DEFINE p == Pair(Top)
<1>0. TypeInv
  BY DEF Sane
<1>1. Running("resolve", "publish") /\ UNCHANGED <<program, package, found, result>>
  BY DEF publish_pending
<1>2. /\ stack # <<>> /\ Top.call = "resolve" /\ Top.stage = "publish" /\ Top.mod \in Modules /\ Top.name \in Names
      /\ Top.todo \in SUBSET Nat /\ Top.todo # {} /\ Top.todo \subseteq PendingSources(Top.mod, Top.name)
      /\ ~Declared(p) /\ p \in Pairs /\ NextSource = SourceOf(Top)
  BY <1>0, <1>1, LookupFacts
<1>3. /\ linker \in Linkers /\ KeptAt(linker) /\ ProgramOK /\ Exactly(Top) /\ Entered(Top, linker.loaded)
      /\ Good => CompleteAt(linker, stack, found) /\ Answered(Top, found, linker.exports)
  BY <1>2, RunningFacts DEF Ready
<1>4. /\ KeptAt(linker') /\ Grows(linker.exports, linker'.exports)
      /\ linker'.loaded = linker.loaded /\ linker'.pending = linker.pending
      /\ found => Top.name \in DOMAIN linker'.exports[Top.mod]
  BY PublishExact
<1>5. Good /\ ~found => Denotes[Source(Top.mod, Top.name, Min(Top.todo))] = {}
  BY <1>2, <1>3 DEF Answered, Waits, SourceOf
<1>6. p = <<Top.mod, Top.name>> /\ p[1] = Top.mod /\ p[2] = Top.name
  BY DEF Pair
<1>7. CASE found \/ Rest = {}
  <2>1. stack' = Front(stack)
    BY <1>7 DEF publish_pending, Return
  <2>2. ASSUME Good, ~found PROVE Denotes[p] = {}
    <3>1. Top.todo = {Min(Top.todo)}
      BY <1>2, <1>7, <2>2, MinFacts DEF Rest
    <3>2. ASSUME NEW i \in PendingSources(Top.mod, Top.name) PROVE Denotes[Source(Top.mod, Top.name, i)] = {}
      <4>1. i \in Top.todo \/ Denotes[Source(Top.mod, Top.name, i)] = {}
        BY <1>2, <1>3, <2>2, <3>2 DEF Exactly
      <4>2. CASE i \in Top.todo
        BY <1>5, <2>2, <3>1, <4>2
      <4>. QED
        BY <4>1, <4>2
    <3>3. Top.mod \in Reach /\ ~Declared(<<Top.mod, Top.name>>)
      BY <1>2, <1>3, <1>6 DEF Exactly
    <3>. QED
      BY <1>2, <1>3, <1>6, <2>2, <3>2, <3>3, SourceExact
  <2>. HIDE DEF p
  <2>3. ASSUME Good, NEW f \in ExactFrames, Awaiting(f, Top), Settled(f, linker'.exports, Asked(f, Top))
        PROVE  Ready(f, found', linker'.exports)
    <3>1. AwaitsName(f, p)
      BY <1>2, <2>3 DEF Awaiting, p
    <3>2. Asked(f, Top) = {q \in Pairs : Asking(f) /\ q = p}
      BY <1>2 DEF Asked, p
    <3>3. found' => p[2] \in DOMAIN linker'.exports[p[1]]
      BY <1>1, <1>4, <1>6
    <3>4. ~found' => Denotes[p] = {}
      BY <1>1, <2>2, <2>3
    <3>5. Settled(f, linker'.exports, {q \in Pairs : Asking(f) /\ q = p})
      BY <2>3, <3>2
    <3>. QED
      BY <1>2, <1>3, <2>3, <3>1, <3>3, <3>4, <3>5, ReplyName
  <2>4. ASSUME Good, NEW m \in linker'.loaded \ linker'.pending PROVE Whole(m, DOMAIN linker'.exports[m])
    <3>1. m \in Modules /\ Whole(m, DOMAIN linker.exports[m])
      BY <1>3, <1>4, <2>4 DEF CompleteAt, Linkers
    <3>. QED
      BY <1>4, <3>1 DEF Whole, Grows
  <2>5. UNCHANGED <<program, package, result>> /\ Top.call # "entry" /\ Top.call # "load"
    BY <1>1, <1>2
  <2>. QED
    BY <1>2, <1>4, <2>1, <2>3, <2>4, <2>5, ExactReturn
<1>8. CASE ~(found \/ Rest = {})
  <2>1. linker' = linker /\ stack' = Resumed([Top EXCEPT !.todo = Rest, !.stage = "load"])
    BY <1>8 DEF publish_pending
  <2>2. Rest \in SUBSET Top.todo /\ Rest # {}
    BY <1>8 DEF Rest
  <2>. DEFINE rest == Rest
              f == [Top EXCEPT !.todo = rest, !.stage = "load"]
  <2>. HIDE DEF rest
  <2>3. f \in FitFrames /\ Same(f, Top)
    BY <1>0, <1>2, <2>2, LookupGoesOn DEF rest
  <2>4. stack' = Resumed(f)
    BY <2>1 DEF rest
  <2>5. f.stage = "load" /\ f.todo = Rest
    BY <1>0, <1>1, LookupFacts DEF ResolveFrames, rest
  <2>. HIDE DEF f
  <2>6. ASSUME Good, NEW i \in Top.todo PROVE i \in f.todo \/ Denotes[Source(Top.mod, Top.name, i)] = {}
    <3>1. CASE i = Min(Top.todo)
      BY <1>5, <1>8, <2>6, <3>1
    <3>2. CASE i # Min(Top.todo)
      BY <2>5, <2>6, <3>2 DEF Rest
    <3>. QED
      BY <3>1, <3>2
  <2>7. /\ f \in ExactFrames /\ f.call = "resolve" /\ f.mod = Top.mod
        /\ Settled(f, linker.exports, {}) /\ Top.mod \in linker.loaded
    BY <1>1, <2>3, <2>6, LookupExact
  <2>8. Entered(f, linker.loaded) /\ Plain(f) /\ f.call # "entry"
    BY <2>5, <2>7 DEF Entered, Plain
  <2>9. Ready(f, found', linker.exports)
    BY <2>3, <2>7, <2>8, PlainReady
  <2>. QED
    BY <1>1, <1>2, <2>1, <2>3, <2>4, <2>7, <2>8, <2>9, ExactResume
<1>. QED
  BY <1>7, <1>8

\* The forced module on top, and what it still lacks.
LEMMA ForcedExact ==
    ASSUME Sane, stack # <<>>, Top.call = "force"
    PROVE  /\ Top.mod \in Modules /\ Top.mod \in linker.loaded /\ Top.mod \in Reach
           /\ Good => Forced(Top, linker.exports, {})
           /\ \A f \in FitFrames : Same(f, Top) =>
                 f \in ExactFrames /\ f.call = "force" /\ f.mod = Top.mod
<1>1. /\ Exactly(Top) /\ Entered(Top, linker.loaded) /\ Top \in FitFrames
      /\ Good => Ready(Top, found, linker.exports)
  BY RunningFacts
<1>2. Top.mod \in linker.loaded /\ Top.mod \in Reach
  BY <1>1 DEF Exactly, Entered
<1>3. Top.mod \in Modules
  BY <1>1, FrameFacts
<1>4. ASSUME Good PROVE Forced(Top, linker.exports, {})
  <2>1. Told(Top, found, linker.exports) = {}
    BY DEF Told
  <2>2. Settled(Top, linker.exports, {})
    BY <1>1, <1>4, <2>1 DEF Ready
  <2>. QED
    BY <2>2 DEF Settled
<1>5. ASSUME NEW f \in FitFrames, Same(f, Top)
      PROVE  f \in ExactFrames /\ f.call = "force" /\ f.mod = Top.mod
  BY <1>1, <1>5 DEF Same, Exactly, ExactFrames
<1>. QED
  BY <1>2, <1>3, <1>4, <1>5

\* It goes to another stage of a wildcard.
LEMMA ForcedStaged ==
    ASSUME Sane, stack # <<>>, Top.call = "force", NEW u \in {"lookup", "collect"}, Top.todo # {}
    PROVE  LET f == [Top EXCEPT !.stage = u]
           IN  /\ f \in ExactFrames /\ Same(f, Top) /\ f.call = "force" /\ f.mod = Top.mod /\ f.stage = u
               /\ WildcardOf(f) = NextWildcard
               /\ Good => Settled(f, linker.exports, {})
               /\ \A ld : linker.loaded \subseteq ld /\ NextWildcard \in ld => Entered(f, ld)
<1>. DEFINE f == [Top EXCEPT !.stage = u]
<1>0. TypeInv
  BY DEF Sane
<1>1. f \in FitFrames /\ Same(f, Top)
  BY <1>0, ForcedStage
<1>2. f.todo = Top.todo /\ f.names = Top.names /\ f.stage = u
  BY <1>0, ForcedFacts DEF ForceFrames
<1>. HIDE DEF f
<1>3. f \in ExactFrames /\ f.call = "force" /\ f.mod = Top.mod /\ Top.mod \in linker.loaded
  BY <1>1, ForcedExact
<1>4. WildcardOf(f) = NextWildcard
  BY <1>2, <1>3 DEF WildcardOf, NextWildcard
<1>5. Good => Settled(f, linker.exports, {})
  <2>1. Good => Forced(Top, linker.exports, {})
    BY ForcedExact
  <2>. QED
    BY <1>2, <1>3, <2>1 DEF Settled, Forced
<1>6. \A ld : linker.loaded \subseteq ld /\ NextWildcard \in ld => Entered(f, ld)
  BY <1>3, <1>4 DEF Entered
<1>. QED
  BY <1>1, <1>2, <1>3, <1>4, <1>5, <1>6 DEF f

\* A forced module loads what a wildcard names.
LEMMA ExactLoadWildcard ==
    ASSUME Sane, LoadWildcard
    PROVE  ExactInv'
<1>. DEFINE f == [Top EXCEPT !.stage = "lookup"]
            x == NextWildcard
<1>0. TypeInv
  BY DEF Sane
<1>1. stack # <<>> /\ Top.call = "force" /\ Top.todo # {}
  BY DEF LoadWildcard, Running
<1>2. x \in Modules /\ <<Top.mod, x>> \in Deps
  BY <1>0, <1>1, ForcedFacts
<1>3. load_module(x, Resumed(f))
  BY <1>0, <1>1, GotoFacts DEF LoadWildcard
<1>4. /\ f \in ExactFrames /\ Same(f, Top) /\ f.call = "force" /\ f.stage = "lookup"
      /\ (Good => Settled(f, linker.exports, {})) /\ Entered(f, linker.loaded \cup {x})
  BY <1>1, ForcedStaged
<1>5. x \in Reach
  <2>1. Top.mod \in Reach /\ ProgramOK
    BY <1>1, ForcedExact, RunningFacts
  <2>. QED
    BY <1>2, <2>1, ReachFacts
<1>. HIDE DEF f, x
<1>6. AwaitsLoad(f) /\ f.call # "entry"
  BY <1>4 DEF AwaitsLoad
<1>. QED
  BY <1>1, <1>2, <1>3, <1>4, <1>5, <1>6, ExactLoad

\* It forces that module.
LEMMA ExactForceWildcard ==
    ASSUME Sane, ForceWildcard
    PROVE  ExactInv'
<1>. DEFINE f == [Top EXCEPT !.stage = "collect"]
            x == NextWildcard
<1>0. TypeInv
  BY DEF Sane
<1>1. stack # <<>> /\ Top.call = "force" /\ Top.stage = "lookup"
  BY DEF ForceWildcard, Running
<1>2. x \in Modules /\ <<Top.mod, x>> \in Deps /\ Top.todo # {}
  BY <1>0, <1>1, ForcedFacts
<1>3. force_pending(x, Resumed(f))
  BY <1>0, <1>1, GotoFacts DEF ForceWildcard
<1>4. x \in Reach /\ x \in linker.loaded
  <2>1. Top.mod \in Reach /\ ProgramOK /\ Entered(Top, linker.loaded)
    BY <1>1, ForcedExact, RunningFacts
  <2>2. WildcardOf(Top) = x
    BY DEF WildcardOf, NextWildcard
  <2>. QED
    BY <1>1, <1>2, <2>1, <2>2, ReachFacts DEF Entered
<1>5. /\ f \in ExactFrames /\ Same(f, Top) /\ f.call = "force" /\ f.stage = "collect" /\ WildcardOf(f) = x
      /\ (Good => Settled(f, linker.exports, {})) /\ Entered(f, linker.loaded)
  BY <1>1, <1>2, <1>4, ForcedStaged
<1>. HIDE DEF f, x
<1>6. AwaitsNames(f, x) /\ f.call # "entry"
  BY <1>5 DEF AwaitsNames
<1>. QED
  BY <1>1, <1>2, <1>3, <1>4, <1>5, <1>6, ExactForce

\* It takes the names of that module.
LEMMA ExactCollectNames ==
    ASSUME Sane, CollectNames
    PROVE  ExactInv'
<1>. DEFINE names == Top.names \cup DOMAIN Public(Exports(NextWildcard))
            rest == Rest
            f == [Top EXCEPT !.todo = rest, !.stage = "load", !.names = names]
<1>0. TypeInv
  BY DEF Sane
<1>1. /\ stack # <<>> /\ Top.call = "force" /\ Top.stage = "collect"
      /\ UNCHANGED <<program, package, linker, found, result>>
  BY DEF CollectNames, Running
<1>2. Top \in ForceFrames /\ NextWildcard \in Modules /\ Top.names \in SUBSET Names
  BY <1>0, <1>1, ForcedFacts
<1>3. stack' = Resumed(f)
  <2>1. [Top EXCEPT !.names = @ \cup DOMAIN Public(Exports(NextWildcard)), !.todo = Rest, !.stage = "load"] = f
    BY <1>2 DEF ForceFrames
  <2>. QED
    BY <2>1 DEF CollectNames
<1>4. names \in SUBSET Names
  <2>1. Exports(NextWildcard) \in Bindings
    BY <1>0, <1>1, <1>2, TopFacts
  <2>2. DOMAIN Public(Exports(NextWildcard)) \subseteq Names
    BY <2>1, BindingsFacts
  <2>. QED
    BY <1>2, <2>2
<1>5. rest \in SUBSET Top.todo /\ \A i \in Top.todo : i # Min(Top.todo) => i \in rest
  BY DEF Rest
<1>6. Top.names \subseteq names /\ \A n \in DOMAIN linker.exports[NextWildcard] : n \notin Private => n \in names
  BY DEF Public, Exports
<1>. HIDE DEF names, rest
<1>7. f \in FitFrames /\ Same(f, Top)
  BY <1>0, <1>1, <1>4, <1>5, ForcedGoesOn
<1>8. f.todo = rest /\ f.names = names /\ f.stage = "load"
  BY <1>2 DEF ForceFrames
<1>. HIDE DEF f
<1>9. f \in ExactFrames /\ f.call = "force" /\ f.mod = Top.mod /\ Top.mod \in linker.loaded
  BY <1>1, <1>7, ForcedExact
<1>10. Entered(f, linker.loaded) /\ f.call # "entry" /\ Plain(f)
  BY <1>8, <1>9 DEF Entered, Plain
<1>11. ASSUME Good PROVE Settled(f, linker.exports, {})
  <2>1. Forced(Top, linker.exports, {})
    BY <1>1, <1>11, ForcedExact
  <2>2. Whole(NextWildcard, DOMAIN linker.exports[NextWildcard])
    <3>1. WildcardOf(Top) = NextWildcard
      BY DEF WildcardOf, NextWildcard
    <3>. QED
      BY <1>1, <1>11, <3>1, RunningFacts DEF Ready, Answered
  <2>3. ASSUME NEW n \in Names, Denotes[<<f.mod, n>>] # {}
        PROVE  \/ n \in f.names \/ n \in DOMAIN linker.exports[f.mod]
               \/ n \notin Private /\ \E i \in f.todo : Denotes[<<Imports(f.mod)[i].mod, n>>] # {}
    <3>1. \/ n \in Top.names \/ n \in DOMAIN linker.exports[Top.mod]
          \/ n \notin Private /\ \E i \in Top.todo : Denotes[<<Imports(Top.mod)[i].mod, n>>] # {}
      BY <1>9, <2>1, <2>3 DEF Forced
    <3>2. CASE n \notin Private /\ \E i \in Top.todo : Denotes[<<Imports(Top.mod)[i].mod, n>>] # {}
      <4>1. PICK i \in Top.todo : Denotes[<<Imports(Top.mod)[i].mod, n>>] # {}
        BY <3>2
      <4>2. CASE i = Min(Top.todo)
        <5>1. Denotes[<<NextWildcard, n>>] # {}
          BY <4>1, <4>2 DEF NextWildcard
        <5>. QED
          BY <1>6, <1>8, <2>2, <3>2, <5>1 DEF Whole
      <4>3. CASE i # Min(Top.todo)
        BY <1>5, <1>8, <1>9, <3>2, <4>1, <4>3
      <4>. QED
        BY <4>2, <4>3
    <3>. QED
      BY <1>6, <1>8, <1>9, <3>1, <3>2
  <2>. QED
    BY <1>9, <2>3 DEF Settled, Forced
<1>12. Good => Ready(f, found', linker.exports)
  BY <1>7, <1>10, <1>11, PlainReady
<1>. QED
  BY <1>1, <1>3, <1>7, <1>9, <1>10, <1>12, ExactResume

\* It looks each name up.
LEMMA ExactForceName ==
    ASSUME Sane, ForceName
    PROVE  ExactInv'
<1>. DEFINE T == {i \in DOMAIN NameOrder : NameOrder[i] \in Top.names}
            next == NameOrder[Min(T)]
            names == Top.names \ {next}
            rest == Top.todo
            f == [Top EXCEPT !.todo = rest, !.stage = "name", !.names = names]
            x == Top.mod
<1>0. TypeInv
  BY DEF Sane
<1>1. stack # <<>> /\ Top.call = "force" /\ Top.names # {}
  BY DEF ForceName, AtNames
<1>2. /\ Top \in ForceFrames /\ x \in Modules /\ Top.names \in SUBSET Names /\ ProgramOK
      /\ rest \in SUBSET Top.todo /\ x \in linker.loaded /\ x \in Reach
  BY <1>0, <1>1, ForcedFacts, TopFacts, ForcedExact
<1>3. next \in Names
  <2>1. NameOrder \in Seq(Names)
    BY NamesAssumption
  <2>2. PICK n \in Top.names : TRUE
    BY <1>1
  <2>3. n \in ToSet(NameOrder)
    BY <1>2, <2>2 DEF Names
  <2>4. \E i \in DOMAIN NameOrder : NameOrder[i] = n
    BY <2>1, <2>3, MembersFacts
  <2>5. T # {} /\ T \in SUBSET Nat
    BY <2>1, <2>2, <2>4
  <2>6. Min(T) \in T
    BY <2>5, MinFacts
  <2>. QED
    BY <1>2, <2>6
<1>4. resolve_pending(x, next, {}, Resumed(f))
  <2>1. [Top EXCEPT !.stage = "name", !.names = @ \ {next}] = f
    BY <1>2 DEF ForceFrames
  <2>. QED
    BY <2>1 DEF ForceName
<1>5. names \in SUBSET Names /\ \A n \in Top.names : n = next \/ n \in names
  BY <1>2
<1>. HIDE DEF next, names
<1>6. f \in FitFrames /\ Same(f, Top)
  <2>. HIDE DEF rest
  <2>. QED
    BY <1>0, <1>1, <1>2, <1>5, ForcedGoesOn
<1>7. f.todo = Top.todo /\ f.names = names /\ f.stage = "name"
  BY <1>2 DEF ForceFrames
<1>. HIDE DEF f
<1>8. f \in ExactFrames /\ f.call = "force" /\ f.mod = x
  BY <1>1, <1>6, ForcedExact
<1>9. Entered(f, linker.loaded) /\ AwaitsName(f, <<x, next>>) /\ Asking(f)
  BY <1>2, <1>7, <1>8 DEF Entered, AwaitsName, Asking
<1>10. ASSUME Good PROVE Settled(f, linker.exports, {q \in Pairs : Asking(f) /\ q = <<x, next>>})
  <2>. DEFINE E == {q \in Pairs : Asking(f) /\ q = <<x, next>>}
  <2>1. <<x, next>> \in E
    BY <1>2, <1>3, <1>9 DEF Pairs
  <2>2. Forced(Top, linker.exports, {})
    BY <1>1, <1>10, ForcedExact
  <2>. HIDE DEF E
  <2>3. Forced(f, linker.exports, E)
    BY <1>5, <1>7, <1>8, <2>1, <2>2 DEF Forced
  <2>. QED
    BY <1>8, <2>3 DEF Settled, E
<1>. HIDE DEF x
<1>. QED
  BY <1>1, <1>2, <1>3, <1>4, <1>6, <1>8, <1>9, <1>10, ExactResolve

\* A forced module is done.
LEMMA ExactFinishForce ==
    ASSUME Sane, FinishForce
    PROVE  ExactInv'
<1>1. /\ stack # <<>> /\ Top.call = "force" /\ Top.names = {} /\ Top.todo = {} /\ stack' = Front(stack)
      /\ UNCHANGED <<program, package, linker, found, result>>
  BY DEF FinishForce, AtNames, Return
<1>2. KeptAt(linker) /\ (Good => CompleteAt(linker, stack, found))
  BY <1>1, RunningFacts
<1>3. ASSUME Good, NEW f \in ExactFrames, Awaiting(f, Top), Settled(f, linker'.exports, Asked(f, Top))
      PROVE  Ready(f, found', linker'.exports)
  <2>1. Whole(Top.mod, DOMAIN linker.exports[Top.mod])
    BY <1>1, <1>3, ForcedExact DEF Whole, Forced
  <2>2. AwaitsNames(f, Top.mod) /\ f \in FitFrames
    BY <1>1, <1>3, ExactFits DEF Awaiting
  <2>3. Asked(f, Top) = {}
    BY <2>2, ReplyNames
  <2>4. Settled(f, linker.exports, {})
    BY <1>1, <1>3, <2>3
  <2>. QED
    BY <1>1, <2>1, <2>2, <2>4, ReplyNames
<1>4. Grows(linker.exports, linker'.exports)
  BY <1>1 DEF Grows
<1>5. Good => \A m \in linker'.loaded \ linker'.pending : Whole(m, DOMAIN linker'.exports[m])
  BY <1>1, <1>2 DEF CompleteAt
<1>6. /\ linker'.loaded = linker.loaded /\ linker'.pending \subseteq linker.pending
      /\ Top.call # "entry" /\ Top.call # "load" /\ KeptAt(linker')
      /\ UNCHANGED <<program, package, result>>
  BY <1>1, <1>2
<1>. QED
  BY <1>1, <1>3, <1>4, <1>5, <1>6, ExactReturn

\* A packaged module loads a module.
LEMMA ExactReplayLoad ==
    ASSUME Sane, ReplayLoad
    PROVE  ExactInv'
<1>. DEFINE x == Head(Top.todo)
            rest == Tail(Top.todo)
            f == [Top EXCEPT !.todo = rest]
<1>0. TypeInv /\ OrderInv /\ DirectLookups
  BY DEF Sane
<1>1. stack # <<>> /\ Top.call = "replay" /\ Top.todo # <<>>
  BY DEF ReplayLoad
<1>2. /\ Top \in ReplayFrames /\ Top.mod \in DOMAIN package /\ Top.mod \in Modules
      /\ Top.todo \in Seq(Modules) /\ ToSet(Top.todo) \subseteq ToSet(package[Top.mod].loads)
  BY <1>0, <1>1, ReplayFacts
<1>3. load_module(x, Resumed(f))
  <2>1. [Top EXCEPT !.todo = Tail(@)] = f
    BY <1>2 DEF ReplayFrames
  <2>. QED
    BY <2>1 DEF ReplayLoad
<1>4. /\ x \in Modules /\ rest \in Seq(Modules)
      /\ ToSet(Top.todo) = ToSet(rest) \cup {x}
  BY <1>1, <1>2, HeadFacts
<1>. HIDE DEF x, rest
<1>5. f \in ReplayFrames /\ f.call = "replay" /\ f.mod = Top.mod /\ f.todo = rest
  BY <1>2, <1>4 DEF ReplayFrames
<1>. HIDE DEF f
<1>6. Fits(f)
  BY <1>2, <1>4, <1>5 DEF Fits
<1>7. f \in FitFrames /\ Same(f, Top)
  BY <1>1, <1>5, <1>6 DEF FitFrames, Frames, Same
<1>8. Top.mod \in Reach /\ ProgramOK
  BY <1>1, RunningFacts DEF Exactly
<1>9. x \in Reach
  <2>1. <<Top.mod, x>> \in Deps
    BY <1>0, <1>2, <1>4 DEF OrderInv, Faithful
  <2>. QED
    BY <1>8, <2>1, ReachFacts
<1>10. /\ f \in ExactFrames /\ AwaitsLoad(f) /\ Entered(f, linker.loaded \cup {x}) /\ f.call # "entry"
       /\ Settled(f, linker.exports, {})
  BY <1>5, <1>7, <1>8 DEF ExactFrames, Exactly, AwaitsLoad, Entered, Settled
<1>. QED
  BY <1>1, <1>3, <1>4, <1>7, <1>9, <1>10, ExactLoad

\* It is hoisted.
LEMMA ExactFinishReplay ==
    ASSUME Sane, FinishReplay
    PROVE  ExactInv'
<1>. DEFINE m == Top.mod
            h == package[m].decls
<1>0. TypeInv /\ OrderInv /\ DirectLookups
  BY DEF Sane
<1>1. /\ stack # <<>> /\ Top.call = "replay" /\ Top.todo = <<>> /\ stack' = Front(stack)
      /\ linker' = [linker EXCEPT !.decls = Append(@, h)]
      /\ UNCHANGED <<program, package, found, result>>
  BY DEF FinishReplay, Return
<1>2. /\ linker \in Linkers /\ KeptAt(linker) /\ Needs[Top] \subseteq linker.loaded /\ Exactly(Top)
      /\ Exacted(package) /\ (~Recording => Good)
      /\ Good => CompleteAt(linker, stack, found)
  BY <1>1, RunningFacts
<1>3. /\ m \in DOMAIN package /\ m \in Modules /\ h \in Hoists /\ Needs[Top] = ToSet(package[m].loads)
  <2>1. /\ m \in DOMAIN package /\ m \in Modules /\ package[m] \in Records
        /\ Needs[Top] = ToSet(package[m].loads) \ ToSet(Top.todo)
    BY <1>0, <1>1, ReplayFacts
  <2>2. ToSet(Top.todo) = {}
    BY <1>1 DEF ToSet
  <2>. QED
    BY <2>1, <2>2 DEF Records
<1>4. h.mod = m /\ Uses[m] \subseteq linker.loaded /\ m \in Reach
  <2>1. Faithful(package, Uses, Deps)
    BY <1>0 DEF OrderInv
  <2>. QED
    BY <1>1, <1>2, <1>3, <2>1 DEF Faithful, Exactly
<1>5. SoundAll(h.members) /\ (Good => ReadsFound(m, h.members)) /\ ~Recording
  BY <1>2, <1>3, NoRecords DEF Exacted, Recording
<1>. HIDE DEF h, m
<1>6. /\ linker'.loaded = linker.loaded /\ linker'.pending = linker.pending
      /\ linker'.exports = linker.exports /\ linker'.decls = Append(linker.decls, h)
      /\ linker'.records = linker.records
      /\ linker.decls \in Seq(Hoists)
  BY <1>1, <1>2 DEF Linkers
<1>7. KeptAt(linker')
  <2>1. HoistRight(h, linker'.loaded)
    BY <1>4, <1>5, <1>6 DEF HoistRight
  <2>2. SoundAll(linker'.exports) /\ Exacted(linker'.records)
    BY <1>2, <1>6 DEF KeptAt
  <2>. QED
    BY <1>2, <1>3, <1>6, <2>1, <2>2, KeptNext
<1>8. ASSUME Good, NEW f \in ExactFrames, Awaiting(f, Top), Settled(f, linker'.exports, Asked(f, Top))
      PROVE  Ready(f, found', linker'.exports)
  <2>1. Plain(f) /\ f \in FitFrames
    BY <1>1, <1>8, ExactFits DEF Plain, Awaiting
  <2>. QED
    BY <1>8, <2>1, PlainReady
<1>9. Grows(linker.exports, linker'.exports)
  BY <1>6 DEF Grows
<1>10. Good => \A x \in linker'.loaded \ linker'.pending : Whole(x, DOMAIN linker'.exports[x])
  BY <1>2, <1>6 DEF CompleteAt
<1>11. /\ linker'.pending \subseteq linker.pending /\ Top.call # "entry" /\ Top.call # "load"
       /\ UNCHANGED <<program, package, result>>
  BY <1>1, <1>6
<1>. QED
  BY <1>1, <1>6, <1>7, <1>8, <1>9, <1>10, <1>11, ExactReturn

\* A link ends.
LEMMA ExactFinishLink ==
    ASSUME Sane, FinishLink
    PROVE  ExactInv'
<1>1. /\ stack # <<>> /\ Top.call = "entry" /\ Top.todo = <<>> /\ stack' = Front(stack) /\ result' = "linked"
      /\ UNCHANGED <<program, package, linker, found>>
  BY DEF FinishLink, Return
<1>2. /\ stack \in Seq(FitFrames) /\ Top = Last(stack) /\ Grounded(stack) /\ KeptAt(linker)
      /\ CallsAt(stack, linker.loaded, linker.pending)
      /\ Good => CompleteAt(linker, stack, found)
  BY <1>1, RunningFacts
<1>3. /\ Len(stack) \in Nat \ {0} /\ DOMAIN stack = 1..Len(stack) /\ Top = stack[Len(stack)]
      /\ Len(Front(stack)) = Len(stack) - 1 /\ Front(stack) \in Seq(FitFrames)
  BY <1>1, <1>2, PopFacts
<1>4. Len(stack) = 1
  BY <1>1, <1>2, <1>3 DEF Grounded
<1>5. stack' = <<>>
  BY <1>1, <1>3, <1>4
<1>6. linker.pending = {}
  BY <1>1, <1>2, <1>3, <1>4 DEF CallsAt
<1>7. Recording => \A r \in ToSet(Roots) : r \in linker.loaded
  <2>1. ToSet(stack[1].todo) = {}
    BY <1>1, <1>3, <1>4 DEF ToSet
  <2>. QED
    BY <1>2, <2>1 DEF CallsAt
<1>8. CallsAt(<<>>, linker.loaded, linker.pending)
  BY <1>6, <1>7 DEF CallsAt, Linked
<1>9. Good => CompleteAt(linker, <<>>, found)
  BY <1>2 DEF CompleteAt, Under
<1>10. ExactAt(linker', stack', found')
  BY <1>1, <1>2, <1>5, <1>8, <1>9 DEF ExactAt
<1>11. result' \notin Errors
  BY <1>1 DEF Errors
<1>. QED
  BY <1>1, <1>10, <1>11, ExactNext DEF Sane

\* What is linked when a link is done: all that the modules loaded use, and
\* only a program whose imports all name something.
LEMMA LinkedFacts ==
    ASSUME Sane, result = "linked"
    PROVE  /\ ProgramOK /\ linker \in Linkers /\ ExactAt(linker, stack, found) /\ linker.loaded \subseteq Modules
           /\ linker.loaded = ToSet(Hoisted) /\ linker.pending = {}
           /\ \A m \in linker.loaded : Uses[m] \subseteq linker.loaded
           /\ Good
<1>1. /\ ProgramOK /\ linker \in Linkers /\ result \notin Errors
  BY DEF Sane, TypeInv, TypedAt, Errors
<1>2. linker.loaded \subseteq Modules /\ linker.decls \in Seq(Hoists)
  BY <1>1 DEF Linkers
<1>3. stack = <<>> /\ Accounted(stack, ToSet(HoistedOf(linker)), linker.loaded)
  BY <1>1 DEF Sane, OrderInv, OrderAt
<1>4. linker.loaded = ToSet(Hoisted)
  <2>1. Held(stack) = {}
    BY <1>3 DEF Held
  <2>2. Hoisted = HoistedOf(linker)
    BY DEF Hoisted, HoistedOf
  <2>. QED
    BY <1>3, <2>1, <2>2 DEF Accounted
<1>5. ExactAt(linker, stack, found) /\ (~Recording => Good)
  BY <1>1 DEF Sane, ExactInv
<1>6. linker.pending = {}
  BY <1>3, <1>5 DEF ExactAt, CallsAt
<1>7. ASSUME NEW m \in linker.loaded
      PROVE  Uses[m] \subseteq linker.loaded /\ (Recording => \A j \in DOMAIN Imports(m) : Meant(m, j))
  <2>1. PICK i \in DOMAIN linker.decls : linker.decls[i].mod = m
    BY <1>2, <1>4 DEF Hoisted, ToSet
  <2>2. HoistRight(linker.decls[i], linker.loaded)
    BY <1>5, <2>1 DEF ExactAt, KeptAt
  <2>. QED
    BY <2>1, <2>2 DEF HoistRight
<1>8. ASSUME Recording PROVE Good
  <2>1. ToSet(Roots) \subseteq linker.loaded
    BY <1>3, <1>5, <1>8 DEF ExactAt, CallsAt
  <2>2. Reach \subseteq linker.loaded
    BY <1>1, <1>2, <1>7, <2>1, ReachFacts
  <2>. QED
    BY <1>1, <1>7, <1>8, <2>2, GoodFacts
<1>. QED
  BY <1>1, <1>2, <1>4, <1>5, <1>6, <1>7, <1>8

-----------------------------------------------------------------------------
(* Every link. *)

\* A link that is to begin, of modules the roots depend on and with records
\* that are right.
Begins ==
    /\ Fresh
    /\ DirectLookups /\ Unambiguous(Denotes) =>
          /\ ~Recording => Good
          /\ Exacted(package)
          /\ \A todo \in Seq(Modules) : stack = <<EntryFrame(todo)>> =>
                /\ ToSet(todo) \subseteq Reach
                /\ Recording => ToSet(Roots) \subseteq ToSet(todo)

\* It is right.
LEMMA BeginsFacts == Begins => ExactInv
<1>. SUFFICES ASSUME Begins, DirectLookups, Unambiguous(Denotes)
              PROVE  /\ Good => result \notin Errors
                     /\ ~Recording => Good
                     /\ Exacted(package)
                     /\ ExactAt(linker, stack, found)
  BY DEF ExactInv
<1>1. PICK todo \in Seq(Modules) : stack = <<EntryFrame(todo)>>
  BY DEF Begins, Fresh
<1>. DEFINE f == EntryFrame(todo)
<1>2. /\ ToSet(todo) \subseteq Reach /\ (Recording => ToSet(Roots) \subseteq ToSet(todo))
      /\ Exacted(package) /\ (~Recording => Good)
  BY <1>1 DEF Begins
<1>3. f \in FitFrames /\ f.call = "entry" /\ f.todo = todo
  BY EntryFits DEF EntryFrame
<1>4. stack = <<f>>
  BY <1>1
<1>. HIDE DEF f
<1>5. f \in ExactFrames
  BY <1>2, <1>3 DEF ExactFrames, Exactly
<1>6. stack \in Seq(ExactFrames) /\ stack # <<>> /\ DOMAIN stack = {1} /\ Len(stack) = 1 /\ stack[1] = f
  BY <1>4, <1>5
<1>7. Last(stack) = f
  BY <1>6 DEF Last
<1>8. /\ linker.loaded = {} /\ linker.pending = {} /\ linker.decls = <<>> /\ linker.records = <<>>
      /\ \A m \in Modules : linker.exports[m] = <<>>
  BY DEF Begins, Fresh, Unlinked
<1>9. CallsAt(stack, linker.loaded, linker.pending)
  <2>1. Linked(stack, Awaits)
    BY <1>6 DEF Linked
  <2>2. \A i \in DOMAIN stack : Entered(stack[i], linker.loaded)
    BY <1>3, <1>6 DEF Entered
  <2>3. Recording => \A r \in ToSet(Roots) : r \in ToSet(stack[1].todo)
    BY <1>2, <1>3, <1>6
  <2>. QED
    BY <1>6, <1>8, <2>1, <2>2, <2>3 DEF CallsAt
<1>10. KeptAt(linker)
  <2>1. DOMAIN <<>> = {}
    OBVIOUS
  <2>. QED
    BY <1>8, <2>1 DEF KeptAt, SoundAll, Sound, Exacted
<1>11. CompleteAt(linker, stack, found)
  <2>1. Under(stack, linker.exports)
    BY <1>6 DEF Under
  <2>2. Ready(f, found, linker.exports)
    BY <1>3 DEF Ready, Settled, Answered, Binds, Waits
  <2>. QED
    BY <1>7, <1>8, <2>1, <2>2 DEF CompleteAt
<1>12. result \notin Errors
  BY DEF Begins, Fresh, Errors
<1>. QED
  BY <1>2, <1>9, <1>10, <1>11, <1>12 DEF ExactAt

\* A link that starts from source is right.
LEMMA ExactInit ==
    ASSUME Init
    PROVE  ExactInv
<1>1. ProgramOK
  BY SourcesAssumption DEF Init, ProgramOK
<1>2. package \in Packages /\ DOMAIN package = {} /\ Recording
  BY NoRecords DEF Init, Recording
<1>3. Faithful(package, Uses, Deps) /\ Exacted(package)
  BY <1>2 DEF Faithful, Exacted
<1>4. Fresh
  BY <1>1, <1>2, <1>3, RootsAssumption DEF Init, Fresh
<1>5. ASSUME NEW todo \in Seq(Modules), stack = <<EntryFrame(todo)>>
      PROVE  todo = Roots
  <2>1. <<EntryFrame(todo)>> = <<EntryFrame(Roots)>>
    BY <1>5 DEF Init
  <2>2. EntryFrame(todo) = EntryFrame(Roots)
    BY <2>1
  <2>. QED
    BY <2>2 DEF EntryFrame
<1>6. ToSet(Roots) \subseteq Reach
  BY <1>1, ReachFacts
<1>. QED
  BY <1>2, <1>3, <1>4, <1>5, <1>6, BeginsFacts DEF Begins

\* A later link begins with the records of one that is done.
LEMMA ExactLinkPackaged ==
    ASSUME Sane, LinkPackaged
    PROVE  ExactInv'
<1>1. PICK m \in DOMAIN linker.records, torn \in {{}} \cup {{x} : x \in DOMAIN linker.records} :
          /\ DOMAIN linker.records # torn
          /\ package' = [x \in DOMAIN linker.records \ torn |-> linker.records[x]]
          /\ stack' = <<EntryFrame(<<m>>)>>
  BY DEF LinkPackaged
<1>2. /\ linker' = Unlinked /\ result' = "linking" /\ UNCHANGED <<program, found>>
      /\ result = "linked"
  BY DEF LinkPackaged
<1>3. /\ linker \in Linkers /\ ProgramOK /\ Good /\ Exacted(linker.records) /\ found \in BOOLEAN
  BY <1>2, LinkedFacts DEF ExactAt, KeptAt, Sane, TypeInv
<1>4. /\ Uses' = Uses /\ Deps' = Deps /\ DirectLookups' = DirectLookups /\ ProgramOK' = ProgramOK
      /\ Unlinked' = Unlinked
  BY <1>2, SameProgram DEF Unlinked
<1>5. /\ Denotes' = Denotes /\ Reach' = Reach /\ Good' = Good
      /\ Unambiguous(Denotes)' = Unambiguous(Denotes)
  BY <1>2, SameMeaning
<1>6. DOMAIN linker.records \in SUBSET Modules /\ \A x \in DOMAIN linker.records : linker.records[x] \in Records
  BY <1>3 DEF Linkers, Packages
<1>7. package' \in Packages
  <2>. DEFINE D == DOMAIN linker.records \ torn
  <2>1. D \in SUBSET Modules
    BY <1>6
  <2>2. package' \in [D -> Records]
    BY <1>1, <1>6
  <2>. HIDE DEF D
  <2>. QED
    BY <2>1, <2>2 DEF Packages
<1>8. Faithful(package', Uses, Deps)
  <2>1. Faithful(linker.records, Uses, Deps)
    BY DEF Sane, OrderInv, OrderAt
  <2>. QED
    BY <1>1, <2>1 DEF Faithful
<1>9. Exacted(package)'
  <2>1. Exacted(package')
    BY <1>1, <1>3 DEF Exacted
  <2>. QED
    BY <1>2, <1>5, <2>1 DEF Exacted, Sound, SoundAll, Whole, ReadsFound, Read, Imports
<1>10. ~Recording'
  <2>1. DOMAIN package' # {}
    BY <1>1
  <2>. QED
    BY <2>1, NoRecords DEF Recording
<1>11. ASSUME NEW todo \in Seq(Modules), stack' = <<EntryFrame(todo)>>
       PROVE  ToSet(todo) \subseteq Reach
  <2>1. <<EntryFrame(todo)>> = <<EntryFrame(<<m>>)>>
    BY <1>1, <1>11
  <2>2. EntryFrame(todo) = EntryFrame(<<m>>)
    BY <2>1
  <2>3. todo = <<m>>
    BY <2>2 DEF EntryFrame
  <2>4. m \in Reach
    BY <1>3 DEF Exacted
  <2>. QED
    BY <2>3, <2>4 DEF ToSet
<1>12. \E todo \in Seq(Modules) : stack' = <<EntryFrame(todo)>>
  <2>1. <<m>> \in Seq(Modules)
    BY <1>6
  <2>. QED
    BY <1>1, <2>1
<1>13. Packages' = Packages
  OBVIOUS
<1>14. Fresh'
  BY <1>2, <1>3, <1>4, <1>7, <1>8, <1>12, <1>13 DEF Fresh
<1>15. Begins'
  BY <1>3, <1>5, <1>9, <1>10, <1>11, <1>14 DEF Begins
<1>16. (Begins => ExactInv)'
  BY BeginsFacts, PTL
<1>. QED
  BY <1>15, <1>16

\* Every step keeps it so.
LEMMA ExactStep ==
    ASSUME LinkInv, ExactInv, [Next]_vars
    PROVE  ExactInv'
<1>1. program' = program
  BY ProgramKept
<1>2. DirectLookups' = DirectLookups /\ Unambiguous(Denotes)' = Unambiguous(Denotes)
  BY <1>1, SameProgram, SameMeaning
<1>. SUFFICES ASSUME DirectLookups, Unambiguous(Denotes) PROVE ExactInv'
  BY <1>2 DEF ExactInv
<1>3. Sane
  BY DEF Sane, LinkInv
<1>4. CASE UNCHANGED vars
  <2>1. UNCHANGED <<program, package, linker, stack, found, result>>
    BY <1>4 DEF vars
  <2>. QED
    BY <2>1, ExactNext DEF ExactInv
<1>5. CASE LinkRoot \/ FinishLink \/ LinkPackaged
  BY <1>3, <1>5, ExactLinkRoot, ExactFinishLink, ExactLinkPackaged
<1>6. CASE LoadImported \/ apply_import \/ LookUpName \/ ForceImported \/ bind_from_imports
  BY <1>3, <1>6, ExactLoadImported, ExactApplyImport, ExactLookUpName, ExactForceImported, ExactBind
<1>7. CASE resolve_namespace_members \/ BindMember \/ FinishModule
  BY <1>3, <1>7, ExactMembers, ExactBindMember, ExactFinishModule
<1>8. CASE LoadSource \/ ResolveSource \/ publish_pending
  BY <1>3, <1>8, ExactLoadSource, ExactResolveSource, ExactPublish
<1>9. CASE LoadWildcard \/ ForceWildcard \/ CollectNames \/ ForceName \/ FinishForce
  BY <1>3, <1>9, ExactLoadWildcard, ExactForceWildcard, ExactCollectNames, ExactForceName, ExactFinishForce
<1>10. CASE ReplayLoad \/ FinishReplay
  BY <1>3, <1>10, ExactReplayLoad, ExactFinishReplay
<1>. QED
  BY <1>4, <1>5, <1>6, <1>7, <1>8, <1>9, <1>10 DEF Next

\* It holds of every link.
LEMMA ExactInvariant == Spec => [](LinkInv /\ ExactInv)
<1>1. Init => ExactInv
  BY ExactInit
<1>2. LinkInv /\ ExactInv /\ [Next]_vars => ExactInv'
  BY ExactStep
<1>. QED
  BY <1>1, <1>2, LinkInvariant, PTL DEF Spec

\* What is linked is what the names stand for, when a link is done.
LEMMA LinkedExact ==
    ASSUME Sane, result = "linked"
    PROVE  /\ \A m \in linker.loaded : Exact(Exports(m), Denotes, {m} \X Names)
           /\ \A i \in DOMAIN linker.decls, s \in Statement :
                 s.kind = "import" /\ s \in ToSet(Imports(Hoisted[i])) =>
                     Exact(linker.decls[i].members[s.mod], Denotes, {<<s.mod, s.read>>})
<1>1. /\ ProgramOK /\ linker \in Linkers /\ ExactAt(linker, stack, found) /\ linker.loaded \subseteq Modules
      /\ linker.pending = {} /\ Good
  BY LinkedFacts
<1>2. KeptAt(linker) /\ CompleteAt(linker, stack, found)
  BY <1>1 DEF ExactAt
<1>3. ASSUME NEW m \in linker.loaded
      PROVE  Exact(Exports(m), Denotes, {m} \X Names)
  <2>1. m \in Modules /\ Sound(m, Exports(m)) /\ Whole(m, DOMAIN Exports(m))
    BY <1>1, <1>2 DEF KeptAt, SoundAll, CompleteAt, Exports
  <2>. SUFFICES ASSUME NEW n \in Names
                PROVE  IF Denotes[<<m, n>>] = {} THEN n \notin DOMAIN Exports(m)
                       ELSE n \in DOMAIN Exports(m) /\ Exports(m)[n] \in Denotes[<<m, n>>]
    BY DEF Exact
  <2>. QED
    BY <2>1 DEF Sound, Whole
<1>4. ASSUME NEW i \in DOMAIN linker.decls, NEW s \in Statement,
             s.kind = "import", s \in ToSet(Imports(Hoisted[i]))
      PROVE  Exact(linker.decls[i].members[s.mod], Denotes, {<<s.mod, s.read>>})
  <2>. DEFINE h == linker.decls[i]
              g == h.members[s.mod]
  <2>1. Hoisted[i] = h.mod /\ HoistRight(h, linker.loaded)
    BY <1>2 DEF Hoisted, KeptAt
  <2>2. h.mod \in Modules /\ s.mod \in Modules
    <3>1. linker.decls \in Seq(Hoists)
      BY <1>1 DEF Linkers
    <3>2. h \in Hoists
      BY <3>1
    <3>. QED
      BY <3>2 DEF Hoists, Statement
  <2>3. PICK j \in DOMAIN Imports(h.mod) : Imports(h.mod)[j] = s
    BY <1>1, <1>4, <2>1, <2>2, ImportFacts, MembersFacts
  <2>4. Read(h.mod, j) = <<s.mod, s.read>>
    BY <2>3 DEF Read
  <2>5. ReadsFound(h.mod, h.members) /\ Sound(s.mod, g)
    BY <1>1, <2>1, <2>2 DEF HoistRight, SoundAll
  <2>6. Denotes[<<s.mod, s.read>>] # {} => s.read \in DOMAIN g
    BY <1>4, <2>3, <2>4, <2>5 DEF ReadsFound
  <2>7. s.read \in DOMAIN g => g[s.read] \in Denotes[<<s.mod, s.read>>]
    BY <2>5 DEF Sound
  <2>. HIDE DEF g
  <2>8. IF Denotes[<<s.mod, s.read>>] = {} THEN s.read \notin DOMAIN g
        ELSE s.read \in DOMAIN g /\ g[s.read] \in Denotes[<<s.mod, s.read>>]
    BY <2>6, <2>7
  <2>9. Exact(g, Denotes, {<<s.mod, s.read>>})
    BY <2>8 DEF Exact
  <2>. QED
    BY <2>9 DEF g
<1>. QED
  BY <1>3, <1>4

\* Linking does what the modules say, whatever module is reached first and
\* whatever is still loading when a name is asked for, from source, from a
\* package or from both: it fails exactly if an import names nothing, and every
\* name and every member a body reads is bound to the declaration it stands for
\* (load_module, resolve_pending, force_pending and resolve_namespace_members
\* of module.rs).  For any program in which no lookup leads back to itself and
\* no name is imported from two places.
THEOREM LinkerLinkExact == Spec => []LinkExact
<1>1. LinkInv /\ ExactInv => LinkExact
  <2>. SUFFICES ASSUME LinkInv, ExactInv, result # "linking", DirectLookups, Unambiguous(Denotes)
                PROVE  /\ (result = "linked") <=> ~Wrong(Denotes)
                       /\ result = "linked" =>
                            /\ \A m \in linker.loaded : Exact(Exports(m), Denotes, {m} \X Names)
                            /\ \A i \in DOMAIN linker.decls, s \in Statement :
                                  s.kind = "import" /\ s \in ToSet(Imports(Hoisted[i])) =>
                                      Exact(linker.decls[i].members[s.mod], Denotes, {<<s.mod, s.read>>})
    BY DEF LinkExact
  <2>1. Sane
    BY DEF Sane, LinkInv
  <2>2. result = "linked" \/ result \in Errors
    BY <2>1 DEF Sane, TypeInv
  <2>3. Good => result \notin Errors
    BY DEF ExactInv
  <2>4. result = "linked" => Good
    BY <2>1, LinkedFacts
  <2>. QED
    BY <2>1, <2>2, <2>3, <2>4, LinkedExact DEF Good
<1>. QED
  BY <1>1, ExactInvariant, PTL

\* A package stands for the source it was made from: whichever of its modules
\* a later link enters by, that link succeeds, and every declaration a loaded
\* module's exports name is hoisted (load_module replaying a record's loads,
\* module.rs).  For any program in which no lookup leads back to itself and no
\* name is imported from two places.
THEOREM LinkerPackageWhole == Spec => []PackageWhole
<1>1. LinkInv /\ ExactInv => PackageWhole
  <2>. SUFFICES ASSUME LinkInv, ExactInv, ~Recording, result # "linking",
                       DirectLookups, Unambiguous(Denotes)
                PROVE  /\ result = "linked"
                       /\ \A m \in linker.loaded : \A n \in DOMAIN Exports(m) :
                             Exports(m)[n][1] \in ToSet(Hoisted)
    BY DEF PackageWhole
  <2>1. Sane
    BY DEF Sane, LinkInv
  <2>2. result = "linked"
    <3>1. result = "linked" \/ result \in Errors
      BY <2>1 DEF Sane, TypeInv
    <3>. QED
      BY <3>1 DEF ExactInv
  <2>3. /\ ProgramOK /\ linker \in Linkers /\ ExactAt(linker, stack, found) /\ linker.loaded \subseteq Modules
        /\ linker.loaded = ToSet(Hoisted)
        /\ \A m \in linker.loaded : Uses[m] \subseteq linker.loaded
    BY <2>1, <2>2, LinkedFacts
  <2>. DEFINE X == {p \in Pairs : p[1] \in linker.loaded}
  <2>4. ASSUME NEW e \in NameEdges, e[1] \in X PROVE e[2] \in X
    <3>. PICK p \in Pairs : \E q \in Imported(p[1], p[2]) : e = <<p, q>>
      BY DEF NameEdges
    <3>1. PICK q \in Imported(p[1], p[2]) : e = <<p, q>>
      OBVIOUS
    <3>2. p[1] \in Modules /\ p[2] \in Names /\ p[1] \in linker.loaded
      BY <2>4, <3>1 DEF Pairs
    <3>3. q \in Pairs /\ q[1] \in Uses[p[1]]
      BY <2>3, <3>1, <3>2, ImportedFacts
    <3>. QED
      BY <2>3, <3>1, <3>2, <3>3
  <2>5. Closed(X, NameEdges) /\ X \in SUBSET Pairs
    BY <2>4 DEF Closed
  <2>6. ASSUME NEW m \in linker.loaded, NEW n \in DOMAIN Exports(m)
        PROVE  Exports(m)[n][1] \in linker.loaded
    <3>1. m \in Modules /\ n \in Names
      <4>1. linker.exports[m] \in Bindings
        BY <2>3 DEF Linkers
      <4>. QED
        BY <2>3, <4>1 DEF Exports, Bindings
    <3>2. Exports(m)[n] \in Denotes[<<m, n>>]
      BY <2>3, <3>1 DEF ExactAt, KeptAt, SoundAll, Sound, Exports
    <3>3. <<m, n>> \in Pairs /\ <<m, n>> \in X
      BY <3>1 DEF Pairs
    <3>4. Exports(m)[n] \in Reached(Pairs, NameEdges, <<m, n>>)
      BY <2>3, <3>2, <3>3, DenotesFacts
    <3>5. Exports(m)[n] \in X
      BY <2>5, <3>3, <3>4 DEF Reached
    <3>. QED
      BY <3>5
  <2>. QED
    BY <2>2, <2>3, <2>6
<1>. QED
  BY <1>1, ExactInvariant, PTL

=============================================================================
