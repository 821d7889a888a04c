------------------------------ MODULE MCLinker ------------------------------
(***************************************************************************)
(* Linker over three modules and two names, one of them private, and every *)
(* program of up to MaxStatements imports and MaxDecls declarations in all.*)
(***************************************************************************)
EXTENDS Linker

CONSTANTS
    MaxStatements,  \* the bound on a program's imports
    MaxDecls        \* the bound on its declarations

MCModules == {"a", "b", "c"}
MCNameOrder == <<"x", "y">>
MCRoots == <<"a">>

From(m, n, l) == [kind |-> "from", mod |-> m, name |-> n, as |-> l]
Star(m) == [kind |-> "star", mod |-> m]
Import(m, n) == [kind |-> "import", mod |-> m, read |-> n]

\* What a module may say of the others, and c of itself.
Says(m) ==
    UNION {{From(o, "x", "x"), From(o, "y", "y"), From(o, "x", "y"), Star(o), Import(o, "x")}
           : o \in MCModules \ {m}}
    \cup (IF m = "c" THEN {From(m, "x", "x")} ELSE {})
Texts(m, k) == [1..k -> Says(m)]

\* How many imports each module has: the root at least one, none over two.
Sizes == {k \in (1..2) \X (0..2) \X (0..2) : k[1] + k[2] + k[3] <= MaxStatements}
\* Modules that declare x, or b alone y, which wildcards skip.
DeclSets == {d \in (SUBSET {"x"}) \X (SUBSET {"x"}) \X (SUBSET {"x"}) :
                Cardinality(d[1]) + Cardinality(d[2]) + Cardinality(d[3]) <= MaxDecls}
            \cup {<<{}, {"y"}, {}>>}
Text(d, t) == [decls |-> d, imports |-> t]
MCShapes == Sizes \X DeclSets

\* A module that no other imports is never loaded, whatever it says.
Mentions(t, m) == \E s \in ToSet(t) : s.mod = m
Connected(t) ==
    /\ t[2] = <<>> \/ Mentions(t[1] \o t[3], "b")
    /\ t[3] = <<>> \/ Mentions(t[1] \o t[2], "c")
MCWritten(shape) ==
    LET k == shape[1]
        d == shape[2]
    IN  {[m \in MCModules |-> CASE m = "a" -> Text(d[1], t[1])
                                [] m = "b" -> Text(d[2], t[2])
                                [] m = "c" -> Text(d[3], t[3])]
         : t \in {t \in Texts("a", k[1]) \X Texts("b", k[2]) \X Texts("c", k[3]) : Connected(t)}}
=============================================================================
