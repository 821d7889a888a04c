------------------------------- MODULE Linker -------------------------------
(***************************************************************************)
(* The module linker (crates/mojito-module/src/module.rs).  A module's own *)
(* declarations are published before its imports are followed, so that the *)
(* peers of an import cycle can bind them, and a lookup that misses them   *)
(* resolves the loading module's pending imports on demand.  A link that   *)
(* records what each module produced makes a package, from which later     *)
(* links read the modules without their source.                            *)
(*                                                                         *)
(* The mutual recursion of load_module, resolve_pending and force_pending  *)
(* is a stack of frames, one per call under way; a frame's stage is where  *)
(* it is to go on when the call it has made returns.                       *)
(***************************************************************************)
EXTENDS Naturals, Sequences, FiniteSets, SequencesExt, FiniteSetsExt

CONSTANTS
    Modules,    \* the modules there are, beside the entry
    NameOrder,  \* the names, in the order force_pending sorts them
    Private,    \* those that start with an underscore
    Shapes,     \* the shapes of program to link
    Written(_), \* the programs of a shape: what each module says
    Roots       \* the modules the entry imports, in order

Names == ToSet(NameOrder)
Pairs == Modules \X Names

\* `from mod import name as as`, `from mod import *`, and `import mod` in a
\* module whose body reads mod.read.
Statement ==
    [kind : {"from"}, mod : Modules, name : Names, as : Names]
    \cup [kind : {"star"}, mod : Modules]
    \cup [kind : {"import"}, mod : Modules, read : Names]

ASSUME NamesAssumption == NameOrder \in Seq(Names) /\ Private \subseteq Names
ASSUME RootsAssumption == Roots \in Seq(Modules)
ASSUME SourcesAssumption ==
    \A shape \in Shapes : \A p \in Written(shape) :
        /\ DOMAIN p = Modules
        /\ \A m \in Modules : /\ p[m].decls \subseteq Names
                              /\ p[m].imports \in Seq(Statement)

VARIABLES
    program,  \* what each module says
    package,  \* the records the link may read
    linker,   \* the fields of the struct Linker
    stack,    \* the calls under way, innermost last
    found,    \* the answer of the lookup that has just returned
    result    \* "linking", "linked", or the error

vars == <<program, package, linker, stack, found, result>>

Unlinked ==
    [loaded |-> {}, exports |-> [m \in Modules |-> <<>>], pending |-> {},
     decls |-> <<>>, loads |-> <<>>, records |-> <<>>]

Recording == package = <<>>
Exports(m) == linker.exports[m]
\* Bindings with one more, and those of f before those of g.
Publish(f, n, target) == [x \in DOMAIN f \cup {n} |-> IF x = n THEN target ELSE f[x]]
Over(f, g) == [x \in DOMAIN f \cup DOMAIN g |-> IF x \in DOMAIN f THEN f[x] ELSE g[x]]

\* What a module declares and what it imports, in order.
Local(m) == [n \in program[m].decls |-> <<m, n>>]
Imports(m) == program[m].imports
Public(f) == [n \in DOMAIN f \ Private |-> f[n]]

-----------------------------------------------------------------------------
(* Where a pending lookup of n in m looks: the named import that binds n,   *)
(* the last one of several, or else every wildcard, in order.  Imports are  *)
(* known by their positions.                                                *)
Named(m, n) == {i \in DOMAIN Imports(m) : Imports(m)[i].kind = "from" /\ Imports(m)[i].as = n}
Wildcards(m) == {i \in DOMAIN Imports(m) : Imports(m)[i].kind = "star"}
PendingSources(m, n) ==
    IF Named(m, n) # {} THEN {Max(Named(m, n))}
    ELSE IF n \in Private THEN {}
    ELSE Wildcards(m)
Source(m, n, i) ==
    LET s == Imports(m)[i] IN <<s.mod, IF s.kind = "from" THEN s.name ELSE n>>

-----------------------------------------------------------------------------
(* Frames.                                                                  *)
EntryFrame(roots) == [call |-> "entry", todo |-> roots]
LoadFrame(m) ==
    [call |-> "load", mod |-> m, at |-> 1, stage |-> "load", bindings |-> <<>>, explicit |-> {},
     members |-> [x \in Modules |-> <<>>], loading |-> {}, asked |-> m,
     reads |-> {<<s.mod, s.read>> : s \in {s \in ToSet(Imports(m)) : s.kind = "import"}}]
ReplayFrame(m) == [call |-> "replay", mod |-> m, todo |-> package[m].loads]
ResolveFrame(m, n) ==
    [call |-> "resolve", mod |-> m, name |-> n, todo |-> PendingSources(m, n), stage |-> "load"]
ForceFrame(m) ==
    [call |-> "force", mod |-> m, stage |-> "load", todo |-> Wildcards(m),
     names |-> {n \in Names : Named(m, n) # {}}]

Top == Last(stack)
NextSource == Source(Top.mod, Top.name, Min(Top.todo))
NextWildcard == Imports(Top.mod)[Min(Top.todo)].mod
Rest == Top.todo \ {Min(Top.todo)}
Running(call, stage) == stack # <<>> /\ Top.call = call /\ Top.stage = stage
Goto(stage) == [stack EXCEPT ![Len(stack)].stage = stage]
Resumed(frame) == [stack EXCEPT ![Len(stack)] = frame]
Return == stack' = Front(stack)

\* The lookups under way that this one continues: load_module and
\* force_pending start afresh.
Visiting ==
    {<<stack[i].mod, stack[i].name>> :
        i \in {i \in DOMAIN stack : \A j \in i..Len(stack) : stack[j].call = "resolve"}}

\* Rust's `?` leaves every call under way.  Only a recursive reference met
\* below the lookup of one name in force_pending is dropped there.
Raise(error) ==
    LET catching == {i \in DOMAIN stack : stack[i].call = "force" /\ stack[i].stage = "name"}
    IN  IF error = "recursive" /\ catching # {}
        THEN stack' = SubSeq(stack, 1, Max(catching)) /\ UNCHANGED result
        ELSE stack' = <<>> /\ result' = error

-----------------------------------------------------------------------------
(* Calls.  `below` is the stack with the caller's frame gone on.            *)

\* Each module being loaded from source keeps what it asks to load.
\* Mutant: a load of a module that is there already is not recorded.
AskedLoads_first(m) ==
    IF linker.loads = <<>> \/ m \in linker.loaded THEN linker.loads
    ELSE [linker.loads EXCEPT ![Len(linker.loads)] = Append(@, m)]

AskedLoads(m) ==
    IF linker.loads = <<>> THEN <<>>
    ELSE [linker.loads EXCEPT ![Len(linker.loads)] = Append(@, m)]

load_module(m, below) ==
    LET entered == [linker EXCEPT !.loads = AskedLoads(m), !.loaded = @ \cup {m}]
    IN  /\ CASE m \in linker.loaded ->
                  linker' = entered /\ stack' = below
             [] m \notin linker.loaded /\ m \in DOMAIN package ->
                  /\ linker' = [entered EXCEPT !.exports[m] = package[m].exports]
                  /\ stack' = Append(below, ReplayFrame(m))
             [] OTHER ->
                  /\ linker' = [entered EXCEPT
                        !.loads = IF Recording THEN Append(@, <<>>) ELSE @,
                        !.exports[m] = Local(m),
                        !.pending = @ \cup {m}]
                  /\ stack' = Append(below, LoadFrame(m))
        /\ UNCHANGED <<program, package, found, result>>

resolve_pending(m, n, visiting, below) ==
    LET published == n \in DOMAIN Exports(m)
    IN  /\ IF published \/ m \notin linker.pending \/ PendingSources(m, n) = {}
           THEN found' = published /\ stack' = below /\ UNCHANGED result
           ELSE /\ UNCHANGED found
                /\ IF <<m, n>> \in visiting THEN Raise("recursive")
                   ELSE stack' = Append(below, ResolveFrame(m, n)) /\ UNCHANGED result
        /\ UNCHANGED <<program, package, linker>>

\* Mutant: a wildcard import takes what a loading module exports so far.
force_pending_none(m, below) ==
    /\ stack' = below
    /\ UNCHANGED <<program, package, linker, found, result>>

force_pending(m, below) ==
    /\ stack' = IF m \in linker.pending THEN Append(below, ForceFrame(m)) ELSE below
    /\ UNCHANGED <<program, package, linker, found, result>>

-----------------------------------------------------------------------------
(* The entry: the modules it imports, and then the link is done.  It binds  *)
(* nothing: a root module does all that an entry does with an import.       *)
LinkRoot ==
    /\ stack # <<>> /\ Top.call = "entry" /\ Top.todo # <<>>
    /\ load_module(Head(Top.todo), Resumed(EntryFrame(Tail(Top.todo))))

FinishLink ==
    /\ stack # <<>> /\ Top.call = "entry" /\ Top.todo = <<>>
    /\ result' = "linked"
    /\ Return
    /\ UNCHANGED <<program, package, linker, found>>

(* A module's statements: load what each imports, look its name up or force *)
(* a loading module's imports, and bind.                                    *)
AtStatement(stage) == Running("load", stage) /\ Top.at <= Len(Imports(Top.mod))
S == Imports(Top.mod)[Top.at]
Past(frame) == [frame EXCEPT !.at = @ + 1, !.stage = "load"]

LoadImported ==
    /\ AtStatement("load")
    /\ IF S.mod = Top.mod
       THEN Raise("self") /\ UNCHANGED <<program, package, linker, found>>
       ELSE load_module(S.mod, Goto("lookup"))

apply_import ==
    /\ AtStatement("lookup") /\ S.kind = "import"
    /\ stack' = Resumed(Past([Top EXCEPT
            !.members[S.mod] = Exports(S.mod),
            !.loading = IF S.mod \in linker.pending THEN @ \cup {S.mod} ELSE @]))
    /\ UNCHANGED <<program, package, linker, found, result>>

LookUpName ==
    /\ AtStatement("lookup") /\ S.kind = "from"
    /\ resolve_pending(S.mod, S.name, {}, Goto("bind"))

ForceImported ==
    /\ AtStatement("lookup") /\ S.kind = "star"
    /\ force_pending(S.mod, Goto("bind"))

bind_from_imports ==
    LET exported == Exports(S.mod)
        target == exported[S.name]
        repeated == S.as \in Top.explicit /\ Top.bindings[S.as] # target
    IN  /\ AtStatement("bind")
        /\ \/ /\ S.kind = "star"
              /\ stack' = Resumed(Past([Top EXCEPT !.bindings = Over(Public(exported), @)]))
              /\ UNCHANGED result
           \/ S.kind = "from" /\ S.name \notin DOMAIN exported /\ Raise("missing")
           \/ /\ S.kind = "from" /\ S.name \in DOMAIN exported
              /\ IF repeated THEN Raise("duplicate")
                 ELSE /\ stack' = Resumed(Past([Top EXCEPT
                              !.bindings = Publish(@, S.as, target),
                              !.explicit = @ \cup {S.as}]))
                      /\ UNCHANGED result
        /\ UNCHANGED <<program, package, linker, found>>

(* After the imports: each member the body reads through the namespace of a *)
(* module that was still loading, and that its namespace lacks.             *)
AtBody == Running("load", "load") /\ Top.at > Len(Imports(Top.mod))
Lacking ==
    {r \in Top.reads : r[1] \in Top.loading /\ r[2] \notin DOMAIN Top.members[r[1]]}

\* Mutant: members are looked up until the namespace lacks none.
resolve_namespace_members_again ==
    /\ AtBody
    /\ \E r \in Lacking :
          resolve_pending(r[1], r[2], {}, Resumed([Top EXCEPT !.stage = "member", !.asked = r[1]]))

resolve_namespace_members ==
    /\ AtBody
    /\ \E r \in Lacking :
          resolve_pending(r[1], r[2], {},
              Resumed([Top EXCEPT !.stage = "member", !.asked = r[1], !.reads = @ \ {r}]))

BindMember ==
    /\ Running("load", "member")
    /\ stack' = Resumed([Top EXCEPT
            !.stage = "load",
            !.members[Top.asked] = IF found THEN Exports(Top.asked) ELSE @])
    /\ UNCHANGED <<program, package, linker, found, result>>

(* The declarations are rewritten and hoisted, and the exports are final.   *)
FinishModule ==
    LET m == Top.mod
        final == Over(Local(m), Top.bindings)
        hoisted == [mod |-> m, members |-> Top.members]
        record == [loads |-> Last(linker.loads), exports |-> final, decls |-> hoisted]
        done == [linker EXCEPT
                    !.decls = Append(@, hoisted),
                    !.pending = @ \ {m},
                    !.exports[m] = final]
    IN  /\ AtBody /\ Lacking = {}
        /\ linker' = IF Recording
                     THEN [done EXCEPT !.loads = Front(@), !.records = Publish(@, m, record)]
                     ELSE done
        /\ Return
        /\ UNCHANGED <<program, package, found, result>>

-----------------------------------------------------------------------------
(* A lookup tries its sources: load the source's module, resolve the name   *)
(* there, and publish it here.                                              *)
LoadSource == Running("resolve", "load") /\ load_module(NextSource[1], Goto("lookup"))

ResolveSource ==
    /\ Running("resolve", "lookup")
    /\ resolve_pending(NextSource[1], NextSource[2], Visiting, Goto("publish"))

publish_pending ==
    LET target == Exports(NextSource[1])[NextSource[2]]
    IN  /\ Running("resolve", "publish")
        /\ linker' = IF found
                     THEN [linker EXCEPT !.exports[Top.mod] = Publish(@, Top.name, target)]
                     ELSE linker
        /\ IF found \/ Rest = {} THEN Return
           ELSE stack' = Resumed([Top EXCEPT !.todo = Rest, !.stage = "load"])
        /\ UNCHANGED <<program, package, found, result>>

(* Forcing: every wildcard of the loading module first, for the names it    *)
(* brings, and then every name.                                             *)
LoadWildcard ==
    /\ Running("force", "load") /\ Top.todo # {}
    /\ load_module(NextWildcard, Goto("lookup"))

ForceWildcard == Running("force", "lookup") /\ force_pending(NextWildcard, Goto("collect"))

CollectNames ==
    /\ Running("force", "collect")
    /\ stack' = Resumed([Top EXCEPT
            !.names = @ \cup DOMAIN Public(Exports(NextWildcard)),
            !.todo = Rest,
            !.stage = "load"])
    /\ UNCHANGED <<program, package, linker, found, result>>

AtNames == stack # <<>> /\ Top.call = "force" /\ Top.stage \in {"load", "name"} /\ Top.todo = {}
ForceName ==
    LET next == NameOrder[Min({i \in DOMAIN NameOrder : NameOrder[i] \in Top.names})]
    IN  /\ AtNames /\ Top.names # {}
        /\ resolve_pending(Top.mod, next, {},
               Resumed([Top EXCEPT !.stage = "name", !.names = @ \ {next}]))

FinishForce ==
    /\ AtNames /\ Top.names = {}
    /\ Return
    /\ UNCHANGED <<program, package, linker, found, result>>

-----------------------------------------------------------------------------
(* A packaged module: what its record loads, and then its declarations.  A  *)
(* load the package's table does not list is an error in the source; every  *)
(* load of a record was linked with it, so the table lists them all.        *)
ReplayLoad ==
    /\ stack # <<>> /\ Top.call = "replay" /\ Top.todo # <<>>
    /\ load_module(Head(Top.todo), Resumed([Top EXCEPT !.todo = Tail(@)]))

\* Mutant: a packaged module is done before what it loads.
FinishReplay_early ==
    /\ stack # <<>> /\ Top.call = "replay"
    /\ linker' = [linker EXCEPT !.decls = Append(@, package[Top.mod].decls)]
    /\ Return
    /\ UNCHANGED <<program, package, found, result>>

FinishReplay ==
    /\ stack # <<>> /\ Top.call = "replay" /\ Top.todo = <<>>
    /\ linker' = [linker EXCEPT !.decls = Append(@, package[Top.mod].decls)]
    /\ Return
    /\ UNCHANGED <<program, package, found, result>>

(* A later link imports one of the recorded modules.  A record that does    *)
(* not decode is no record, and its module links from source.               *)
LinkPackaged ==
    /\ result = "linked" /\ Recording
    /\ \E m \in DOMAIN linker.records, torn \in {{}} \cup {{x} : x \in DOMAIN linker.records} :
          /\ DOMAIN linker.records # torn
          /\ package' = [x \in DOMAIN linker.records \ torn |-> linker.records[x]]
          /\ stack' = <<EntryFrame(<<m>>)>>
    /\ linker' = Unlinked
    /\ result' = "linking"
    /\ UNCHANGED <<program, found>>

-----------------------------------------------------------------------------
(* What the modules say, whatever the order they are linked in.             *)
Closed(X, edges) == \A e \in edges : e[1] \in X => e[2] \in X
Reached(nodes, edges, x) ==
    {y \in nodes : \A X \in SUBSET nodes : x \in X /\ Closed(X, edges) => y \in X}
Acyclic(nodes, edges) == \A e \in edges : e[1] \notin Reached(nodes, edges, e[2])

Statements == UNION {{<<m, s>> : s \in ToSet(Imports(m))} : m \in Modules}
ImportEdges == {<<x[1], x[2].mod>> : x \in Statements}
WildcardEdges == {<<x[1], x[2].mod>> : x \in {x \in Statements : x[2].kind = "star"}}
Depends(m) == Reached(Modules, ImportEdges, m)

\* What an import of m says of the name n, every one of them counted.
Imported(m, n) ==
    {<<s.mod, s.name>> : s \in {s \in ToSet(Imports(m)) : s.kind = "from" /\ s.as = n}}
    \cup {<<s.mod, n>> : s \in {s \in ToSet(Imports(m)) : s.kind = "star" /\ n \notin Private}}
Declared(p) == p[2] \in program[p[1]].decls
NameEdges == UNION {{<<p, q>> : q \in Imported(p[1], p[2])} : p \in {p \in Pairs : ~Declared(p)}}
LookupEdges ==
    UNION {{<<p, Source(p[1], p[2], i)>> : i \in PendingSources(p[1], p[2])}
           : p \in {p \in Pairs : ~Declared(p)}}

\* The declarations that each name of each module stands for.
Denotes ==
    LET edges == NameEdges
    IN  [p \in Pairs |-> {q \in Reached(Pairs, edges, p) : Declared(q)}]

\* No lookup leads back to itself, and no name is imported from two places.
DirectLookups == Acyclic(Pairs, LookupEdges)
Unambiguous(denoted) ==
    \A p \in Pairs : \A q, r \in Imported(p[1], p[2]) :
        \A x \in denoted[q], y \in denoted[r] : x = y

\* An import of a module the roots depend on that names nothing.
Wrong(denoted) ==
    \E m \in UNION {Depends(r) : r \in ToSet(Roots)} : \E s \in ToSet(Imports(m)) :
        s.mod = m \/ (s.kind = "from" /\ denoted[<<s.mod, s.name>>] = {})

-----------------------------------------------------------------------------
\* A cycle of wildcard imports alone is left out: force_pending keeps no list
\* of the modules it is forcing and would call itself without end.
Init ==
    /\ \E shape \in Shapes : program \in Written(shape)
    /\ Acyclic(Modules, WildcardEdges)
    /\ package = <<>>
    /\ linker = Unlinked
    /\ stack = <<EntryFrame(Roots)>>
    /\ found = FALSE
    /\ result = "linking"

Next ==
    \/ LinkRoot \/ FinishLink \/ LinkPackaged
    \/ LoadImported \/ apply_import \/ LookUpName \/ ForceImported \/ bind_from_imports
    \/ resolve_namespace_members \/ BindMember \/ FinishModule
    \/ LoadSource \/ ResolveSource \/ publish_pending
    \/ LoadWildcard \/ ForceWildcard \/ CollectNames \/ ForceName \/ FinishForce
    \/ ReplayLoad \/ FinishReplay

\* One thread links: it takes its next step.
Spec == Init /\ [][Next]_vars /\ WF_vars(Next)

-----------------------------------------------------------------------------
Hoisted == [i \in DOMAIN linker.decls |-> linker.decls[i].mod]

(* Linking does what the modules say, whatever module is reached first and  *)
(* whatever is still loading when a name is asked for, from source, from a  *)
(* package, or from both: it fails exactly if an import names nothing, and  *)
(* every name and every member a body reads is bound to the declaration it  *)
(* stands for.  For programs in which no lookup leads back to itself and no *)
(* name is imported from two places.                                        *)
Exact(f, denoted, names) ==
    \A p \in names :
        IF denoted[p] = {} THEN p[2] \notin DOMAIN f
        ELSE p[2] \in DOMAIN f /\ f[p[2]] \in denoted[p]
LinkExact ==
    result # "linking" =>
        LET denoted == Denotes
            Right == /\ (result = "linked") <=> ~Wrong(denoted)
                     /\ result = "linked" =>
                          /\ \A m \in linker.loaded : Exact(Exports(m), denoted, {m} \X Names)
                          /\ \A i \in DOMAIN linker.decls, s \in Statement :
                                s.kind = "import" /\ s \in ToSet(Imports(Hoisted[i])) =>
                                    Exact(linker.decls[i].members[s.mod], denoted, {<<s.mod, s.read>>})
        IN  DirectLookups /\ Unambiguous(denoted) => Right

(* Each module's declarations are hoisted once, after those of every module *)
(* it imports but its peers on an import cycle, and when a link is done     *)
(* those of all that was loaded.  For programs in which no lookup leads     *)
(* back to itself.                                                          *)
InOrder ==
    /\ IsInjective(Hoisted)
    /\ \A i \in DOMAIN Hoisted : \A s \in ToSet(Imports(Hoisted[i])) :
          s.mod \in ToSet(SubSeq(Hoisted, 1, i - 1)) \/ Hoisted[i] \in Depends(s.mod)
    /\ result = "linked" => ToSet(Hoisted) = linker.loaded
DependencyFirst == InOrder \/ ~DirectLookups

(* A package stands for the source it was made from: whichever of its       *)
(* modules a later link enters by, that link succeeds, and every            *)
(* declaration a loaded module's exports name is hoisted.  For programs in  *)
(* which no lookup leads back to itself and no name is imported from two    *)
(* places.                                                                  *)
PackageWhole ==
    ~Recording /\ result # "linking" /\ DirectLookups /\ Unambiguous(Denotes) =>
        /\ result = "linked"
        /\ \A m \in linker.loaded : \A n \in DOMAIN Exports(m) :
              Exports(m)[n][1] \in ToSet(Hoisted)

(* Every link ends: no cycle of imports, lookups or forced modules but one  *)
(* of wildcards alone is followed round for ever.                           *)
Terminates == result = "linking" ~> result # "linking"
=============================================================================
