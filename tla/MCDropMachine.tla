---------------------------- MODULE MCDropMachine ----------------------------
(***************************************************************************)
(* DropMachine over one slot of two fields, every kind of slot, and the     *)
(* region shapes below, each with up to MaxLeaves instructions of the slot  *)
(* at any of its points.  One slot is enough: without loans no rule of the  *)
(* passes relates the bits of two slots but the order of their drops.       *)
(***************************************************************************)
EXTENDS DropMachine

CONSTANT MaxLeaves  \* the bound on a body's instructions besides its shape

MCFieldOrder == <<"f", "g">>

Whole1(op_set) == {Whole(o, 1) : o \in op_set}
Parts1(pairs) == {Part(p[1], 1, p[2]) : p \in pairs}

(* What lowering writes of each kind of slot.  A local is defined first.    *)
Leaves(kind) ==
    CASE kind \in {"local", "owned"} ->
            Whole1({"def", "use", "move"}) \cup
            Parts1({<<"load", "g">>, <<"store", "f">>, <<"movepart", "f">>})
      [] kind = "deinit" ->
            Whole1({"use", "move"}) \cup
            Parts1({<<"load", "f">>, <<"store", "f">>, <<"movepart", "f">>, <<"movepart", "g">>})
      [] kind = "mut" ->
            Whole1({"use"}) \cup
            Parts1({<<"load", "g">>, <<"store", "f">>, <<"movepart", "f">>})
      [] kind = "read" -> Whole1({"use"}) \cup Parts1({<<"load", "f">>})
      [] kind = "self" ->
            Whole1({"use"}) \cup Parts1({<<"load", "f">>, <<"store", "f">>, <<"store", "g">>})
      [] kind = "error" -> Whole1({"def"})

Points == 1..5
Prefix(kind) == IF kind = "local" THEN <<DefVar(1)>> ELSE <<>>

(* Which points have an instruction, at most MaxLeaves of them.  A `var`     *)
(* parameter differs from a local only at the entry: one fewer.             *)
UsedPoints(kind) ==
    {used \in SUBSET Points :
        Cardinality(used) + (IF kind = "owned" THEN 1 ELSE 0) <= MaxLeaves}
Fillings(kind, used) ==
    {[p \in Points |-> IF p \in used THEN <<leaf[p]>> ELSE <<>>] : leaf \in [used -> Leaves(kind)]}

Exit == {Yield, Return, ErrorReturn}
Branch(x, tx, y, ty) == If(<<Region(x, tx), Region(y, ty)>>)

(* The else arm of a `match` whose last case repeats an earlier key is      *)
(* unreachable and holds no code; it is let in by Admits.                   *)
IfShapes(s) ==
    {Region(s[1] \o <<Branch(s[2], t, s[3], Yield)>> \o s[4], Return) : t \in Exit}
    \cup {Region(s[1] \o <<Branch(s[2], Yield, s[3], Yield)>> \o s[4], ErrorReturn)}
    \cup {Region(s[1] \o <<Branch(s[3], Yield, <<>>, Unreachable)>> \o s[4], Return)
          : a \in Admits \cap {"unreachable"}}
ElifShapes(s) ==
    {Region(<<If(<<Region(s[1], Yield), Region(s[2], Yield), Region(s[3], t),
                   Region(s[4], Yield)>>)>> \o s[5], Return) : t \in {Yield, ErrorReturn}}
ComptimeIfShapes(s) ==
    {Region(s[1] \o <<ComptimeIf(<<Region(s[2], Yield), Region(s[3], t), Region(s[4], Yield)>>)>>
            \o s[5], Return) : t \in {Yield, ErrorReturn}}
LoopShapes(s) ==
    {Region(s[1] \o <<Loop(1, Region(s[2] \o <<Branch(s[3], Break(0), <<>>, t)>> \o s[4],
                                     Continue(1)))>> \o s[5], Return)
     : t \in {Yield, Continue(0), ErrorReturn}}
    \cup {Region(<<Loop(1, Region(s[1] \o <<Branch(s[2], Break(0), <<>>, Yield)>> \o s[3],
                                  Continue(1)))>> \o s[4], ErrorReturn)}
ComptimeForShapes(s) ==
    {Region(s[1] \o <<ComptimeFor(Region(<<ComptimeIf(<<
                Region(s[2] \o <<Branch(s[3], ComptimeBreak, <<>>, Yield)>> \o s[4],
                       ComptimeContinue),
                Region(<<>>, ComptimeBreak)>>)>>, Unreachable))>> \o s[5], Return)}
MatchShapes(s) ==
    {Region(<<Match(<<Region(<<Branch(s[1], MatchComplete, s[2], MatchNext)>>, Unreachable),
                      Region(s[3], t), Region(s[4], Yield)>>)>> \o s[5], Return)
     : t \in {MatchComplete, MatchNext}}
TryShapes(s) ==
    {Region(s[1] \o <<Try(1, <<Region(<<Branch(s[2], TryRaise(1), <<>>, Yield)>> \o s[3], Yield),
                               Region(s[4], t), Region(<<>>, Yield)>>)>> \o s[5], Return)
     : t \in {Yield, ErrorReturn}}
TryElseShapes(s) ==
    {Region(<<Try(1, <<Region(s[1] \o <<Branch(s[2], TryRaise(1), <<>>, Yield)>>, Yield),
                       Region(s[3], Yield), Region(s[4], Yield)>>)>> \o s[5], Return)}
LoopTryShapes(s) ==
    {Region(s[1] \o <<Loop(1, Region(<<Try(2, <<
                Region(s[2] \o <<Branch(<<>>, TryRaise(2), s[3], Break(1))>>, Yield),
                Region(s[4], t), Region(<<>>, Yield)>>)>>, Continue(1)))>> \o s[5], Return)
     : t \in {Yield, Break(1)}}

Shapes(shape, s) ==
    CASE shape = "if" -> IfShapes(s)
      [] shape = "elif" -> ElifShapes(s)
      [] shape = "comptime if" -> ComptimeIfShapes(s)
      [] shape = "loop" -> LoopShapes(s)
      [] shape = "comptime for" -> ComptimeForShapes(s)
      [] shape = "match" -> MatchShapes(s)
      [] shape = "try" -> TryShapes(s)
      [] shape = "try else" -> TryElseShapes(s)
      [] shape = "loop try" -> LoopTryShapes(s)
ShapeNames == {"if", "elif", "comptime if", "loop", "comptime for", "match", "try", "try else",
               "loop try"}

MCPrograms == UNION {{kind} \X UsedPoints(kind) \X ShapeNames : kind \in Kinds}
MCLowered(p) ==
    LET kind == p[1]
    IN  UNION {{Function([v \in Vars |-> kind], Entry(Prefix(kind), body))
                : body \in Shapes(p[3], s)}
               : s \in Fillings(kind, p[2])}
=============================================================================
