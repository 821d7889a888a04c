----------------------------- MODULE VmRegions ------------------------------
(***************************************************************************)
(* The region cursor of the register VM: where a frame executes next       *)
(* inside the `if`, `loop`, `match` and `try` regions it is in             *)
(* (crates/mojito-vm/src/backend/vm/regions.rs), on functions the MIR      *)
(* verifier admits (crates/mojito-mir/src/mir/verify/structure.rs).        *)
(*                                                                         *)
(* The cursor is a stack of levels, one per region it is inside, and every *)
(* exit is resolved when it is taken by a search down that stack.  The     *)
(* verifier resolved the same exit before the function ran, by a search of *)
(* its own up the region tree, and checked the values the exit carries     *)
(* against the list of registers it found.  Here the two meet.             *)
(*                                                                         *)
(* A function is a tree of regions, each one block: a sequence of          *)
(* instructions and a terminator.  A region is named by its path from the  *)
(* function's top level: at each level, the instruction that holds it and  *)
(* which of that instruction's regions it is.                              *)
(***************************************************************************)
EXTENDS Integers, Sequences

CONSTANTS
  LoopLabels,  \* the labels loops carry
  TryLabels,   \* the labels tries carry
  NoLabel,     \* an unlabelled loop, break or continue
  Functions    \* the functions given to the verifier

VARIABLES
  body,    \* the function the frame runs: path -> block
  levels,  \* RegionCursor.levels, the top level first
  status,  \* "running", or how the frame ended
  moved    \* history: who moved the cursor last, and what it bound

vars == <<body, levels, status, moved>>

----------------------------------------------------------------------------
(***************************************************************************)
(* MIR: region ops, the regions they hold (RegionRef), and terminators.    *)
(***************************************************************************)
Labels == LoopLabels \cup TryLabels \cup {NoLabel}

If(elifs) == [op |-> "if", elifs |-> elifs]
Loop(label) == [op |-> "loop", label |-> label]
Match(cases) == [op |-> "match", cases |-> cases]
Try(label, handler, orelse) ==
  [op |-> "try", label |-> label, handler |-> handler, orelse |-> orelse]
Plain == [op |-> "plain"]

Instr ==
  {Plain} \cup [op: {"if"}, elifs: Nat] \cup [op: {"match"}, cases: Nat]
    \cup [op: {"loop"}, label: LoopLabels \cup {NoLabel}]
    \cup [op: {"try"}, label: TryLabels, handler: BOOLEAN, orelse: BOOLEAN]

RegionNames == {"root", "then", "elif cond", "elif then", "else", "body", "case", "try body",
                "handler", "try else"}
RegionRef == RegionNames \X (Nat \cup Labels)

Root == <<"root", 0>>
Then == <<"then", 0>>
ElifCond(i) == <<"elif cond", i>>
ElifThen(i) == <<"elif then", i>>
Else == <<"else", 0>>
Body(label) == <<"body", label>>
Case(i) == <<"case", i>>
TryBody(label) == <<"try body", label>>
TryHandler == <<"handler", 0>>
TryElse == <<"try else", 0>>

\* The regions an instruction holds.
region(op) ==
  CASE op.op = "if" -> {Then, Else} \cup {ElifCond(i) : i \in 1..op.elifs}
                         \cup {ElifThen(i) : i \in 1..op.elifs}
    [] op.op = "loop" -> {Body(op.label)}
    [] op.op = "match" -> {Case(i) : i \in 1..op.cases} \cup {Else}
    [] op.op = "try" -> {TryBody(op.label)}
                          \cup (IF op.handler THEN {TryHandler} ELSE {})
                          \cup (IF op.orelse THEN {TryElse} ELSE {})
    [] OTHER -> {}

\* The region after the i-th elif condition or case: the next one, or the else.
NextElif(op, i) == IF i < op.elifs THEN ElifCond(i + 1) ELSE Else
NextCase(op, i) == IF i < op.cases THEN Case(i + 1) ELSE Else

Term ==
  [op: {"yield", "elif cond", "match next", "match complete", "try yield", "return",
        "error return", "unreachable"}, label: {NoLabel}]
  \cup [op: {"break", "continue"}, label: LoopLabels \cup {NoLabel}]
  \cup [op: {"try raise"}, label: TryLabels]

Block == [instrs: Seq(Instr), term: Term]

\* The op that holds the k-th region of the path p of function f.
Holder(p, k) == SubSeq(p, 1, k - 1)
OpAt(f, p, k) == f[Holder(p, k)].instrs[p[k][1]]

\* The paths of a function are those of a tree: each region is held by an
\* instruction of the function, and all an instruction's regions are there.
IsTree(f) ==
  /\ <<>> \in DOMAIN f
  /\ \A p \in DOMAIN f :
       /\ p \in Seq(Nat \X RegionRef)
       /\ f[p] \in Block
       /\ \A k \in 1..Len(p) :
            /\ Holder(p, k) \in DOMAIN f
            /\ p[k][1] \in 1..Len(f[Holder(p, k)].instrs)
            /\ p[k][2] \in region(OpAt(f, p, k))
       /\ \A i \in 1..Len(f[p].instrs) : \A r \in region(f[p].instrs[i]) :
            Append(p, <<i, r>>) \in DOMAIN f

ASSUME FunctionsAssumption == \A f \in Functions : IsTree(f)

----------------------------------------------------------------------------
(***************************************************************************)
(* The verifier.  The regions enclosing a terminator are those of its      *)
(* path; an exit names the nearest one of its kind.                        *)
(***************************************************************************)
Nearest(S) == CHOOSE k \in S : \A j \in S : j <= k

enclosing_loop(p, label) ==
  {k \in 1..Len(p) : p[k][2][1] = "body" /\ (label = NoLabel \/ p[k][2][2] = label)}
enclosing_case(p) == {k \in 1..Len(p) : p[k][2][1] = "case"}
raise_target(p, label) == {k \in 1..Len(p) : p[k][2] = TryBody(label)}

Kind(p) == IF p = <<>> THEN "root" ELSE p[Len(p)][2][1]

\* Mutant: a raise may name a try without a handler.
AdmitUnhandled(f, p) ==
  LET t == f[p].term
  IN  /\ t.op = "yield" => Kind(p) \in {"then", "elif then", "else"}
      /\ t.op = "elif cond" => Kind(p) = "elif cond"
      /\ t.op = "try yield" => Kind(p) \in {"try body", "handler", "try else"}
      /\ t.op \in {"break", "continue"} => enclosing_loop(p, t.label) # {}
      /\ t.op \in {"match next", "match complete"} => enclosing_case(p) # {}
      /\ t.op = "try raise" => raise_target(p, t.label) # {}

verify_region_terminator(f, p) ==
  LET t == f[p].term
  IN  /\ t.op = "yield" => Kind(p) \in {"then", "elif then", "else"}
      /\ t.op = "elif cond" => Kind(p) = "elif cond"
      /\ t.op = "try yield" => Kind(p) \in {"try body", "handler", "try else"}
      /\ t.op \in {"break", "continue"} => enclosing_loop(p, t.label) # {}
      /\ t.op \in {"match next", "match complete"} => enclosing_case(p) # {}
      /\ t.op = "try raise" =>
           /\ raise_target(p, t.label) # {}
           /\ OpAt(f, p, Nearest(raise_target(p, t.label))).handler

\* Mutant: a match may hold no case.
AdmitEmptyMatch(op) == TRUE

verify_regions(op) == op.op = "match" => op.cases > 0

Verified(f) ==
  \A p \in DOMAIN f :
    /\ verify_region_terminator(f, p)
    /\ \A i \in 1..Len(f[p].instrs) : verify_regions(f[p].instrs[i])

\* The lists of registers that values are bound to: the results of the i-th
\* instruction of the region p, and the arguments of one of its regions.
Results(p, i) == <<p, i, Root>>
Arguments(p, i, r) == <<p, i, r>>

ResultsAt(p, k) == Results(Holder(p, k), p[k][1])
ArgumentsAt(p, k, r) == Arguments(Holder(p, k), p[k][1], r)

\* The lists that the values of the terminator of region p were checked
\* against (yielded_values): a value is bound to nothing else.
CheckedTargets(f, p) ==
  LET t == f[p].term
      last == Len(p)
      op == OpAt(f, p, last)
      index == p[last][2][2]
  IN  CASE t.op = "yield" -> {ResultsAt(p, last)}
        [] t.op = "elif cond" -> {ArgumentsAt(p, last, ElifThen(index)),
                                  ArgumentsAt(p, last, NextElif(op, index))}
        [] t.op = "try yield" ->
             {IF Kind(p) = "try body" /\ op.orelse THEN ArgumentsAt(p, last, TryElse)
              ELSE ResultsAt(p, last)}
        [] t.op = "try raise" ->
             {ArgumentsAt(p, Nearest(raise_target(p, t.label)), TryHandler)}
        [] t.op = "break" -> {ResultsAt(p, Nearest(enclosing_loop(p, t.label)))}
        [] t.op = "continue" ->
             LET k == Nearest(enclosing_loop(p, t.label)) IN {ArgumentsAt(p, k, p[k][2])}
        [] t.op = "match complete" -> {ResultsAt(p, Nearest(enclosing_case(p)))}
        [] t.op = "match next" ->
             LET k == Nearest(enclosing_case(p))
             IN  {ArgumentsAt(p, k, NextCase(OpAt(f, p, k), p[k][2][2]))}
        [] OTHER -> {}

\* The regions of an op that the verifier lets have no arguments (the ones it
\* checks against no values at all, and those whose op has no such list).
ArgumentFree(op) ==
  CASE op.op = "if" -> {Then, IF op.elifs = 0 THEN Else ELSE ElifCond(1)}
    [] op.op = "match" -> {Case(1)}
    [] op.op = "try" -> {TryBody(op.label)}
    [] OTHER -> {}
----------------------------------------------------------------------------
(***************************************************************************)
(* The cursor.  Level k + 1 is in a region of the op that level k is at.   *)
(***************************************************************************)
RegionLevel == [region: RegionRef, instruction: Nat \ {0}]

Entry(r) == [region |-> r, instruction |-> 1]

PathOf(ls, k) == [j \in 1..(k - 1) |-> <<ls[j].instruction, ls[j + 1].region>>]

Depth == Len(levels)
PathTo(k) == PathOf(levels, k)
Here == PathTo(Depth)

\* The op that level k is a region of, if the cursor's path names one.
HasOp(k) ==
  /\ k > 1
  /\ PathTo(k - 1) \in DOMAIN body
  /\ levels[k - 1].instruction \in 1..Len(body[PathTo(k - 1)].instrs)
op(k) == body[PathTo(k - 1)].instrs[levels[k - 1].instruction]

HasOpOf(k, kinds) == HasOp(k) /\ op(k).op \in kinds

\* A move of the cursor by the terminator it is at, or the error instead.
Move(ok, failure, ls, target) ==
  /\ levels' = IF ok THEN ls ELSE levels
  /\ moved' = IF ok THEN [by |-> Here, exit |-> TRUE, bound |-> target] ELSE moved
  /\ status' = IF ok THEN "running" ELSE failure
  /\ UNCHANGED body

\* Out of the op of level k, whose results are bound.
Left(k) == Append(SubSeq(levels, 1, k - 2), [levels[k - 1] EXCEPT !.instruction = @ + 1])
Leave(ok, failure, k) ==
  Move(ok, failure, Left(k), Results(PathTo(k - 1), levels[k - 1].instruction))

\* Into the region r of the op of level k, whose arguments are bound.
Switched(k, r) == Append(SubSeq(levels, 1, k - 1), Entry(r))
Switch(ok, failure, k, r) ==
  Move(ok, failure, Switched(k, r), Arguments(PathTo(k - 1), levels[k - 1].instruction, r))

RegionOps == {"if", "loop", "match", "try"}

\* The region a region op runs first.
EnteredRegion(i, holds) ==
  CASE i.op = "if" -> IF holds THEN Then ELSE IF i.elifs = 0 THEN Else ELSE ElifCond(1)
    [] i.op = "loop" -> Body(i.label)
    [] i.op = "match" -> IF i.cases = 0 THEN Else ELSE Case(1)
    [] i.op = "try" -> TryBody(i.label)

Instruction == body[Here].instrs[levels[Depth].instruction]
AtInstruction == levels[Depth].instruction <= Len(body[Here].instrs)
AtTerm(kinds) == ~AtInstruction /\ body[Here].term.op \in kinds
Label == body[Here].term.label

NoBinding == <<>>

\* A region op is interpreted: only a loop's operands are bound.
enter(holds) ==
  /\ AtInstruction
  /\ Instruction.op \in RegionOps
  /\ LET r == EnteredRegion(Instruction, holds)
     IN  /\ levels' = Append(levels, Entry(r))
         /\ moved' = [by |-> Here, exit |-> FALSE,
                      bound |-> IF Instruction.op = "loop"
                                THEN Arguments(Here, levels[Depth].instruction, r)
                                ELSE NoBinding]
  /\ UNCHANGED <<body, status>>

\* Any other instruction is executed where it is.
advance ==
  /\ AtInstruction
  /\ Instruction.op \notin RegionOps
  /\ levels' = [levels EXCEPT ![Depth].instruction = @ + 1]
  /\ UNCHANGED <<body, status, moved>>

\* hlcf.yield: leave the innermost region to its op.
complete ==
  /\ AtTerm({"yield"})
  /\ Leave(HasOpOf(Depth, RegionOps), "lost position", Depth)

\* The end of an elif condition.
elif(holds) ==
  LET index == levels[Depth].region[2]
      ok == levels[Depth].region[1] = "elif cond" /\ HasOpOf(Depth, {"if"})
  IN  /\ AtTerm({"elif cond"})
      /\ Switch(ok, "lost position", Depth,
                IF holds THEN ElifThen(index) ELSE NextElif(op(Depth), index))

\* The end of a try's part: from the body into the else if there is one.
try_yield ==
  LET part == levels[Depth].region[1]
      ok == HasOpOf(Depth, {"try"}) /\ part \in {"try body", "handler", "try else"}
  IN  /\ AtTerm({"try yield"})
      /\ IF ok /\ part = "try body" /\ op(Depth).orelse
         THEN Switch(ok, "lost position", Depth, TryElse)
         ELSE Leave(ok, "lost position", Depth)

\* The levels that a region exit may resolve to, and the search for one.
LoopLevels(label) ==
  {k \in 2..Depth : levels[k].region[1] = "body"
                      /\ (label = NoLabel \/ levels[k].region[2] = label)}
CaseLevels == {k \in 2..Depth : levels[k].region[1] = "case"}
TryLevels(label) == {k \in 2..Depth : levels[k].region = TryBody(label)}

\* Mutant: the outermost level instead.
Outermost(S) == CHOOSE k \in S : \A j \in S : k <= j

Innermost(S) == CHOOSE k \in S : \A j \in S : j <= k

\* The failure of an exit to one of the levels S, whose op is of `kinds`.
ExitFailure(S) == IF S = {} THEN "left its function" ELSE "lost position"
CanExit(S, kinds) == S # {} /\ HasOpOf(Innermost(S), kinds)

\* resolve_leave for break and match.complete ...
resolve_leave(S, kinds) == Leave(CanExit(S, kinds), ExitFailure(S), Innermost(S))

\* ... and for continue and match.next, which resume the op they name.
resolve_continue(S) ==
  Switch(CanExit(S, {"loop"}), ExitFailure(S), Innermost(S), levels[Innermost(S)].region)

resolve_next(S) ==
  Switch(CanExit(S, {"match"}), ExitFailure(S), Innermost(S),
         NextCase(op(Innermost(S)), levels[Innermost(S)].region[2]))

transfer_exit ==
  \/ AtTerm({"break"}) /\ resolve_leave(LoopLevels(Label), RegionOps)
  \/ AtTerm({"continue"}) /\ resolve_continue(LoopLevels(Label))
  \/ AtTerm({"match complete"}) /\ resolve_leave(CaseLevels, RegionOps)
  \/ AtTerm({"match next"}) /\ resolve_next(CaseLevels)

\* lit.try.raise: unwind to the body of the try that the raise names.
catch ==
  LET S == TryLevels(Label)
      k == Innermost(S)
      found == S # {} /\ HasOpOf(k, {"try"})
  IN  /\ AtTerm({"try raise"})
      /\ Switch(found /\ op(k).handler,
                IF S = {} THEN "does not enclose"
                ELSE IF found THEN "has no handler" ELSE "lost position",
                k, TryHandler)

\* The terminators that the frame's driver runs: they end the frame.
finish ==
  /\ AtTerm({"return", "error return", "unreachable"})
  /\ status' = body[Here].term.op
  /\ UNCHANGED <<body, levels, moved>>

lost_position == status' = "lost position" /\ UNCHANGED <<body, levels, moved>>

Init ==
  /\ body \in {f \in Functions : Verified(f)}
  /\ levels = <<Entry(Root)>>
  /\ status = "running"
  /\ moved = [by |-> <<>>, exit |-> FALSE, bound |-> NoBinding]

Step ==
  \/ \E holds \in BOOLEAN : enter(holds) \/ elif(holds)
  \/ advance
  \/ complete
  \/ try_yield
  \/ transfer_exit
  \/ catch
  \/ finish

Next ==
  /\ status = "running"
  /\ IF Here \in DOMAIN body THEN Step ELSE lost_position

Spec == Init /\ [][Next]_vars

----------------------------------------------------------------------------
Ends == {"return", "error return", "unreachable"}
Failures == {"lost position", "left its function", "does not enclose", "has no handler"}

\* The variables keep their types.
TypeOK ==
  /\ levels \in Seq(RegionLevel)
  /\ status \in {"running"} \cup Ends \cup Failures

\* The levels name a path of the function: every level but the innermost is
\* at the op that the next level is a region of (the comment on `levels`),
\* and the innermost is in its block or at its terminator.
CursorInTree ==
  /\ Depth > 0
  /\ Here \in DOMAIN body
  /\ levels[Depth].instruction \in 1..(Len(body[Here].instrs) + 1)

\* On a verified function the cursor never loses its position, and no exit or
\* raise is left without the op or the handler it names (lost_position:
\* "the verifier admits only region terminators whose region and op exist").
NeverLost == status \notin Failures

\* The values an exit carries are bound to a list that the verifier checked
\* them against: the search down the cursor's levels finds the op that the
\* verifier's search up the region tree found, however regions nest.
BindsVerified == moved.exit => moved.bound \in CheckedTargets(body, moved.by)

\* A region starts with its arguments bound by the move that entered it,
\* unless the verifier lets it have none.
ArgumentsDefined ==
  Depth > 1 /\ levels[Depth].instruction = 1 =>
    LET r == levels[Depth].region
    IN  \/ moved.bound = Arguments(PathTo(Depth - 1), levels[Depth - 1].instruction, r)
        \/ r \in ArgumentFree(op(Depth))
=============================================================================
