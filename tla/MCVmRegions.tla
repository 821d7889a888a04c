---------------------------- MODULE MCVmRegions -----------------------------
(***************************************************************************)
(* VmRegions for TLC: every nesting of three region ops, each in any       *)
(* region of the one around it, with every terminator in any region of the *)
(* innermost op.  The regions off that path end the ordinary way.          *)
(***************************************************************************)
EXTENDS VmRegions

CONSTANTS L1, T1, T2

Terms(kinds) == [op: kinds, label: {NoLabel}]
AllTerms ==
  Terms({"yield", "elif cond", "match next", "match complete", "try yield", "return",
         "error return", "unreachable", "break", "continue"})
  \cup [op: {"break", "continue"}, label: {L1}]
  \cup [op: {"try raise"}, label: {T1, T2}]

OrdinaryTerm(p) ==
  [op |-> CASE Kind(p) \in {"then", "elif then", "else"} -> "yield"
            [] Kind(p) = "elif cond" -> "elif cond"
            [] Kind(p) = "body" -> "continue"
            [] Kind(p) = "case" -> "match next"
            [] Kind(p) = "root" -> "return"
            [] OTHER -> "try yield",
   label |-> NoLabel]

\* op1 in the function's top level, op2 in its region r1, op3 in the region r2
\* of op2; the region r3 of op3 ends with t.
Nested(op1, r1, op2, r2, op3, r3, t) ==
  LET p1 == <<<<2, r1>>>>
      p2 == Append(p1, <<1, r2>>)
      p3 == Append(p2, <<1, r3>>)
      paths == {<<>>} \cup {<<<<2, r>>>> : r \in region(op1)}
                 \cup {Append(p1, <<1, r>>) : r \in region(op2)}
                 \cup {Append(p2, <<1, r>>) : r \in region(op3)}
  IN  [p \in paths |->
         [instrs |-> IF p = <<>> THEN <<Plain, op1>>
                     ELSE IF p = p1 THEN <<op2>>
                     ELSE IF p = p2 THEN <<op3>>
                     ELSE <<>>,
          term |-> IF p = p3 THEN t ELSE OrdinaryTerm(p)]]

OuterOps == {If(0), Loop(L1), Match(0), Match(1), Try(T1, TRUE, TRUE), Try(T1, FALSE, TRUE)}
MiddleOps == {If(1), Loop(NoLabel), Match(2), Try(T1, TRUE, FALSE)}
InnerOps == {If(2), Loop(NoLabel), Try(T2, TRUE, FALSE)}

NestedFunctions ==
  UNION {{Nested(op1, r1, op2, r2, op3, r3, t) :
            r1 \in region(op1), r2 \in region(op2), r3 \in region(op3), t \in AllTerms} :
           op1 \in OuterOps, op2 \in MiddleOps, op3 \in InnerOps}
=============================================================================
