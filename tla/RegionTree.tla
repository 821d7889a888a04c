----------------------------- MODULE RegionTree -----------------------------
(***************************************************************************)
(* The structured MIR bodies the ownership passes walk.  A function body is *)
(* a tree of regions, every region one block: a sequence of instructions    *)
(* and a terminator.  An instruction that owns regions is a region op.      *)
(*                                                                          *)
(* What the passes tell apart is kept: which slot or which field of a slot  *)
(* an instruction defines, reads, moves out or ends, and where a terminator *)
(* goes.  Registers, types and literals are left out: a value is read or    *)
(* moved at the instruction that names its slot, and every field needs      *)
(* destroying.  A slot has one level of fields.                             *)
(***************************************************************************)
EXTENDS Naturals, Sequences

CONSTANTS
    Vars,       \* the slots of a function, its VarIds
    FieldOrder  \* the fields of a slot's struct, in declaration order

ASSUME VarsAssumption == Vars \subseteq Nat \ {0}

Fields == {FieldOrder[i] : i \in DOMAIN FieldOrder}

(* How the function holds a slot: a local, a `var` parameter it owns, a     *)
(* `deinit` parameter it consumes, a `mut` or `ref` parameter of the        *)
(* caller's, a borrowed parameter, an initializer's `out self`, and the     *)
(* slot a raise out of the function hands its error out through.            *)
Kinds == {"local", "owned", "deinit", "mut", "read", "self", "error"}
Parameters == {"owned", "deinit", "mut", "read", "self"}

-----------------------------------------------------------------------------
(* Instructions.                                                            *)

Whole(op, v) == [op |-> op, var |-> v]
Part(op, v, fld) == [op |-> op, var |-> v, field |-> fld]

DefVar(v)   == Whole("def", v)          \* fills the slot
UseVar(v)   == Whole("use", v)          \* reads it
MoveVar(v)  == Whole("move", v)         \* `v^`
DropVar(v)  == Whole("drop", v)         \* runs the whole value's destructor
ConsumeVar(v) == Whole("consume", v)    \* ends the slot, destroying nothing
LoadPlace(v, fld) == Part("load", v, fld)
Store(v, fld)     == Part("store", v, fld)
MovePlace(v, fld) == Part("movepart", v, fld)
DropPlace(v, fld) == Part("droppart", v, fld)

(* Region ops, their regions in the order instruction_regions lists them:   *)
(* an `if` its then arm, a condition and an arm for each elif, and its else *)
(* arm; a `match` its cases and its else region; a `try` its body, handler  *)
(* and else.  A `try` without an else has an empty one, which is the same   *)
(* flow.                                                                    *)
If(regions)         == [op |-> "if", label |-> 0, regions |-> regions]
ComptimeIf(regions) == [op |-> "cif", label |-> 0, regions |-> regions]
Loop(l, body)       == [op |-> "loop", label |-> l, regions |-> <<body>>]
ComptimeFor(body)   == [op |-> "cfor", label |-> 0, regions |-> <<body>>]
Match(regions)      == [op |-> "match", label |-> 0, regions |-> regions]
Try(l, regions)     == [op |-> "try", label |-> l, regions |-> regions]

RegionOps == {"if", "cif", "loop", "cfor", "match", "try"}
region_op(i) == i.op \in RegionOps

-----------------------------------------------------------------------------
(* Terminators.  A region terminator leaves or resumes the frame it names;  *)
(* a labelled raise leaves its `try`'s body.  `consume` lists the `deinit`  *)
(* parameters drop elaboration ends right before an exit.                   *)

Term(t, to) == [t |-> t, to |-> to, consume |-> <<>>]
NoFrame == <<"none", 0>>

Yield       == Term("yield", NoFrame)
Return      == Term("return", NoFrame)
ErrorReturn == Term("error", NoFrame)
Unreachable == Term("unreachable", NoFrame)
Break(l)    == Term("leave", <<"loop", l>>)
Continue(l) == Term("resume", <<"loop", l>>)
ComptimeBreak    == Term("leave", <<"cfor", 0>>)
ComptimeContinue == Term("resume", <<"cfor", 0>>)
MatchComplete == Term("leave", <<"match", 0>>)
MatchNext     == Term("resume", <<"match", 0>>)
TryRaise(l) == Term("leave", <<"try", l>>)

Region(code, term) == [code |-> code, term |-> term]

(* The frame region k of the op i gives its terminators to name.            *)
FrameOf(i, k) ==
    CASE i.op = "loop" -> <<"loop", i.label>>
      [] i.op = "cfor" -> <<"cfor", 0>>
      [] i.op = "match" /\ k < Len(i.regions) -> <<"match", 0>>
      [] i.op = "try" /\ k = 1 -> <<"try", i.label>>
      [] OTHER -> NoFrame

(* Whether a terminator naming `to` resolves to the frame `kind`: an        *)
(* unlabelled break or continue names any loop.                             *)
names(to, kind) ==
    /\ to[1] = kind[1]
    /\ \/ to[2] = kind[2]
       \/ to = <<"loop", 0>>

(* The innermost of the enclosing frames `to` names; 0 when none does.      *)
Innermost(kinds, to) ==
    LET named == {d \in DOMAIN kinds : names(to, kinds[d])}
    IN  IF named = {} THEN 0 ELSE CHOOSE d \in named : \A e \in named : e <= d

(* The instructions under a region, at any depth.                           *)
RECURSIVE InstructionsDeep(_)
InstructionsDeep(r) ==
    UNION {{i} \cup (IF region_op(i)
                     THEN UNION {InstructionsDeep(i.regions[k]) : k \in DOMAIN i.regions}
                     ELSE {})
           : i \in {r.code[n] : n \in DOMAIN r.code}}

-----------------------------------------------------------------------------
(* A function: how it holds each slot, its body, and the slots drop         *)
(* elaboration lays out per field (DropValues::new): a `deinit` parameter,  *)
(* and every other slot but an initializer's receiver whose fields the body *)
(* stores into and the function drops or hands back.                        *)

split_roots(kind, body) ==
    {v \in Vars :
        \/ kind[v] = "deinit"
        \/ /\ kind[v] \in {"local", "owned", "error", "mut"}
           /\ \E i \in InstructionsDeep(body) : i.op = "store" /\ i.var = v}

Function(kind, body) ==
    [kind |-> kind, body |-> body, split |-> split_roots(kind, body)]

(* Whether the function drops the value in the slot whole.                  *)
droppable(f, v) == f.kind[v] \in {"local", "owned", "deinit", "self", "error"}
=============================================================================
