--------------------------- MODULE MCSpecializer ---------------------------
(***************************************************************************)
(* Programs for the elaborator's worklist: every way to write at most      *)
(* MaxItems items into the bodies of three instances, where the entry      *)
(* reaches every instance that has items and at most one instance does not *)
(* elaborate, may not run or raises.  The second and the third instance    *)
(* are interchangeable, so a program names 2 before 3; a fourth, with an   *)
(* empty body, is named by the third alone, past the budget.               *)
(***************************************************************************)
EXTENDS Specializer

CONSTANTS MaxItems, PassOps, RestOps

Main == 1
Names == 1..4

\* The bodies of `size` items that name `targets`.
Of(items, ops, targets) == {i \in items : i.op \in ops /\ (i.op # "unroll" => i.to \in targets)}
Parts(size, targets) ==
    UNION {[pass : [1..k -> Of(PassItem, PassOps, targets)],
            rest : [1..(size - k) -> Of(RestItem, RestOps, targets)]] : k \in 0..size}
Written(part) == part.pass \o part.rest

\* The instances an item sequence names, in order.
NamedIn(items) == LET named == SelectSeq(items, LAMBDA i : i.op # "unroll")
                  IN [i \in DOMAIN named |-> named[i].to]

\* Instance 2 is named by the entry, and before 3; 3 only has items when
\* something names it.
Numbered(parts) ==
    LET one == NamedIn(Written(parts[1]))
        two == NamedIn(Written(parts[2]))
        others == SelectSeq(one, LAMBDA n : n # 1)
    IN /\ others # <<>> => others[1] = 2
       /\ others = <<>> => Written(parts[2]) = <<>>
       /\ Written(parts[3]) # <<>> => 3 \in Range(one \o two)

Layouts ==
    UNION {{parts \in Parts(k[1], 1..3) \X Parts(k[2], 1..3) \X Parts(k[3], 1..4) \X Parts(0, {}) :
                  Numbered(parts)} :
              k \in {k \in (0..MaxItems) \X (0..MaxItems) \X (0..MaxItems) :
                        k[1] + k[2] + k[3] <= MaxItems}}

Outcomes(parts) ==
    LET written == Written(parts[1]) \o Written(parts[2]) \o Written(parts[3])
        named == Range(NamedIn(written))
        applied == Range(NamedIn(SelectSeq(written, LAMBDA i : i.op # "call")))
        fine == [n \in Names |-> "fine"]
    IN {fine}
       \cup {[fine EXCEPT ![n] = "fails"] : n \in named}
       \cup {[fine EXCEPT ![n] = o] : n \in applied, o \in {"refused", "raises"}}

OneWrong == {o \in [Names -> Outcome] : Cardinality({n \in Names : o[n] # "fine"}) <= 1}

MCPrograms ==
    {p \in [body : Layouts, outcome : OneWrong] : p.outcome \in Outcomes(p.body)}
=============================================================================
