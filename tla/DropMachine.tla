----------------------------- MODULE DropMachine -----------------------------
(***************************************************************************)
(* Ownership end to end: a body is checked by the lifetime scan, elaborated *)
(* with drops, and run.  The run keeps what each slot really holds, with no *)
(* drop flag, as both backends do: a drop destroys whatever the elaborated  *)
(* body says is there.  Every branch is open, so a run is any path through  *)
(* the region tree: loops repeated, cases tried in turn, raises caught or   *)
(* handed out.                                                              *)
(***************************************************************************)
EXTENDS DropElaboration

CONSTANTS
    Programs,       \* the programs compiled
    Lowered(_),     \* the functions a program is lowered to
    Admits          \* which of the joins the passes disagree about are let in

VARIABLES
    fn,     \* the function, as lowered and then as elaborated
    phase,  \* "lowered", "rejected", "checked", "running", "returned", "raised", "trapped"
    stack,  \* the regions being run, innermost last
    slot    \* what each slot holds

vars == <<fn, phase, stack, slot>>

(* What a slot holds: whether there is an object in it, and the fields of   *)
(* it that hold a value.                                                    *)
Full  == [obj |-> TRUE, parts |-> Fields]
Empty == [obj |-> FALSE, parts |-> {}]
Unset == [obj |-> TRUE, parts |-> {}]   \* an initializer's receiver on entry

Arrives(kind) ==
    CASE kind = "self" -> Unset
      [] kind \in Parameters \ {"self"} -> Full
      [] OTHER -> Empty

Init ==
    /\ \E p \in Programs : fn \in Lowered(p)
    /\ phase = "lowered"
    /\ stack = <<>>
    /\ slot = [v \in Vars |-> Arrives(fn.kind[v])]

-----------------------------------------------------------------------------
(* What reaches ownership analysis.  The checker has established that a     *)
(* slot is assigned before it is read, a receiver's fields before it is     *)
(* returned, and the error before it is handed out.  A path that raises     *)
(* need not set a receiver's fields.                                        *)
Initialized(f, flow) ==
    LET Holds(st, kind) == \A v \in Vars : f.kind[v] = kind => whole(st.moves[v]) = "owned"
    IN  /\ \A o \in flow.seen :
              LET node == o.st.moves[o.i.var]
              IN  /\ o.i.op \in {"use", "move"} => whole(node) = "owned"
                  /\ o.i.op \in {"load", "movepart"} => read(node, o.i.field) = "owned"
                  /\ o.i.op = "store" => node.base = "owned"
        /\ \A e \in flow.ends :
              /\ e.term.t = "return" => Holds(e.st, "self")
              /\ e.term.t = "error" => Holds(e.st, "error")

(* Two joins the lifetime scan accepts and the drops that follow it do not  *)
(* provide for: a `deinit` parameter at an exit, moved out whole on some of *)
(* the paths there, and a slot moved out whole on one path and in part on   *)
(* another.                                                                 *)
DecidedDeinit(f, flow) ==
    \A e \in flow.ends, v \in Vars :
        e.term.t \in {"return", "error"} /\ f.kind[v] = "deinit" => e.st.moves[v].base # "maybe"

DecidedHoles(f, flow) ==
    \A v \in Vars :
        (\E i \in InstructionsDeep(f.body) : i.op = "movepart" /\ i.var = v)
        => \A x \in flow.seen \cup flow.ends : x.st.moves[v].base # "maybe"

Admitted(f) ==
    LET flow == walk_forward(f, entry_move_states(f))
    IN  /\ Initialized(f, flow)
        /\ "deinit" \in Admits \/ DecidedDeinit(f, flow)
        /\ "holes" \in Admits \/ DecidedHoles(f, flow)

CheckOwnership ==
    /\ phase = "lowered"
    /\ Admitted(fn)
    /\ phase' = IF analyze_lifetimes(fn) THEN "checked" ELSE "rejected"
    /\ UNCHANGED <<fn, stack, slot>>

-----------------------------------------------------------------------------
(* The run.  An activation is a region being run: the op that owns it and   *)
(* which of its regions it is, and the next instruction.                    *)

Activation(i, k, r) == [op |-> i, k |-> k, region |-> r, pc |-> 1]
Top == stack[Len(stack)]
AtEnd == Top.pc > Len(Top.region.code)
Current == Top.region.code[Top.pc]
Running == phase = "running"
AtLeaf == Running /\ ~AtEnd /\ ~region_op(Current)
AtTerm(ts) == Running /\ AtEnd /\ Top.region.term.t \in ts

ElaborateDrops ==
    /\ phase = "checked"
    /\ LET f == elaborate_drops_function(fn)
       IN  /\ fn' = f
           /\ stack' = <<Activation(If(<<>>), 0, f.body)>>
    /\ phase' = "running"
    /\ UNCHANGED slot

(* The stack s with its innermost op run past, or in its region k.          *)
Past(s) == LET n == Len(s) IN [s EXCEPT ![n].pc = @ + 1]
In(s, i, k) == Append(s, Activation(i, k, i.regions[k]))

After(content, i) ==
    CASE i.op = "def" -> Full
      [] i.op \in {"move", "drop", "consume"} -> Empty
      [] i.op = "store" -> [content EXCEPT !.parts = @ \cup {i.field}]
      [] i.op \in {"movepart", "droppart"} -> [content EXCEPT !.parts = @ \ {i.field}]
      [] OTHER -> content

Execute ==
    /\ AtLeaf
    /\ slot' = [slot EXCEPT ![Current.var] = After(@, Current)]
    /\ stack' = Past(stack)
    /\ UNCHANGED <<fn, phase>>

(* A branch takes its arm or goes on to the next condition or the else arm. *)
EnterRegion ==
    /\ Running /\ ~AtEnd /\ region_op(Current)
    /\ \E k \in DOMAIN Current.regions :
          /\ Current.op = "if" => k \in {1, 2}
          /\ Current.op \notin {"if", "cif"} => k = 1
          /\ stack' = In(stack, Current, k)
    /\ UNCHANGED <<fn, phase, slot>>

(* A condition yields to its arm or to the next region, a `try` body to the *)
(* else, and any other region to what follows its op.                       *)
Yields ==
    LET i == Top.op
        k == Top.k
        below == Front(stack)
    IN  /\ AtTerm({"yield"}) /\ Len(stack) > 1
        /\ CASE i.op = "if" /\ k % 2 = 0 /\ k < Len(i.regions) ->
                    \E next \in {k + 1, k + 2} : stack' = In(below, i, next)
             [] i.op = "try" /\ k = 1 -> stack' = In(below, i, 3)
             [] OTHER -> stack' = Past(below)
        /\ UNCHANGED <<fn, phase, slot>>

(* A break, a complete or a raise leaves its frame, a continue runs the     *)
(* loop's body again, a next runs the following case.                       *)
Jump ==
    LET kinds == [d \in DOMAIN stack |->
                    IF d = 1 THEN NoFrame ELSE FrameOf(stack[d].op, stack[d].k)]
        depth == Innermost(kinds, Top.region.term.to)
        i == stack[depth].op
        below == SubSeq(stack, 1, depth - 1)
    IN  /\ AtTerm({"leave", "resume"}) /\ depth > 0
        /\ stack' = CASE i.op = "try" -> In(below, i, 2)
                      [] i.op # "try" /\ Top.region.term.t = "leave" -> Past(below)
                      [] i.op = "match" /\ Top.region.term.t = "resume" ->
                            In(below, i, stack[depth].k + 1)
                      [] OTHER -> In(below, i, 1)
        /\ UNCHANGED <<fn, phase, slot>>

Leave ==
    /\ AtTerm({"return", "error", "unreachable"})
    /\ phase' = CASE Top.region.term.t = "return" -> "returned"
                  [] Top.region.term.t = "error" -> "raised"
                  [] OTHER -> "trapped"
    /\ stack' = <<>>
    /\ UNCHANGED <<fn, slot>>

Next == CheckOwnership \/ ElaborateDrops \/ Execute \/ EnterRegion \/ Yields \/ Jump \/ Leave

Spec == Init /\ [][Next]_vars

-----------------------------------------------------------------------------
(* No use finds a hole and no value is destroyed twice: in a body the       *)
(* lifetime scan accepts, every read, every move, and every drop, part drop *)
(* and consume that elaboration places finds the value it names, on every   *)
(* path, those round a loop, past a continue and out of a handler included. *)
ValuesFound ==
    AtLeaf =>
        LET held == slot[Current.var]
        IN  /\ Current.op \in {"use", "move", "drop"} => held = Full
            /\ Current.op \in {"load", "movepart", "droppart"} => Current.field \in held.parts
            /\ Current.op \in {"store", "consume"} => held.obj

(* What the passes cannot decide about an initializer's receiver: a field   *)
(* that some paths to a point have set and others have not, by the          *)
(* instructions lowering wrote.  No drop flag tells the paths apart, and a  *)
(* drop is placed of what every path has set alone (receiver_drops.rs:57,   *)
(* store_drops.rs:146); docs/roadmap.md records the limit as R1295.         *)
Here ==
    LET steps == FlattenSeq([d \in DOMAIN stack |->
                    IF d = 1 THEN <<stack[d].pc>> ELSE <<stack[d].k, stack[d].pc>>])
    IN  IF AtEnd THEN Front(steps) ELSE steps

(* The body f with each end of a slot in it read as a use.                  *)
Unended(f) ==
    LET drops == {o \in walk_forward(f, AllOwned).seen : o.i.op \in {"drop", "droppart"}}
        uses == [at \in {o.at : o \in drops} |->
                    <<UseVar((CHOOSE o \in drops : o.at = at).i.var)>>]
    IN  [f EXCEPT !.body = rewrite(@, <<>>, uses, <<>>)]

LoweredFlow == LET f == Unended(fn) IN walk_forward(f, entry_move_states(f))
SetOnSomePaths(v, points) ==
    {fld \in Fields : \E x \in points : x.st.moves[v].kids[fld] = "maybe"}

(* The fields undecided where the run is, and those of them that are so at  *)
(* an access too: a receiver with no access to come is ended on each path   *)
(* before the paths meet, where nothing is undecided.                       *)
Undecided(v) ==
    SetOnSomePaths(v, {x \in LoweredFlow.seen \cup LoweredFlow.ends : x.at = Here})
UndecidedInUse(v) ==
    Undecided(v)
    \cap SetOnSomePaths(v, {o \in LoweredFlow.seen : o.i.op \in {"load", "store"}})

(* No value is overwritten or forgotten: a definition finds its slot empty, *)
(* a store its field, and a consume, which destroys nothing, finds every    *)
(* field of the parameter destroyed or moved already.  A store may lose one *)
(* value: that of a receiver's field which only some paths to it have set.  *)
NothingOverwritten ==
    AtLeaf =>
        LET held == slot[Current.var]
        IN  /\ Current.op = "def" => held = Empty
            /\ Current.op = "store" /\ Current.field \in held.parts =>
                  /\ fn.kind[Current.var] = "self"
                  /\ Current.field \in Undecided(Current.var)
            /\ Current.op = "consume" => held.parts = {}

(* What is left where the function leaves: nothing of its own, the whole    *)
(* value in the caller's storage, a receiver complete at a return and, at a *)
(* raise, with no field left but those that only some paths to that raise,  *)
(* and to an access of the receiver, have set; the error at a raise alone.  *)
LeftAtExit(v, exit) ==
    LET kind == fn.kind[v]
    IN  CASE kind \in {"local", "owned", "deinit"} -> slot[v] = Empty
          [] kind \in {"mut", "read"} -> slot[v] = Full
          [] kind = "self" /\ exit = "return" -> slot[v] = Full
          [] kind = "self" /\ exit = "error" -> slot[v].parts \subseteq UndecidedInUse(v)
          [] kind = "error" -> slot[v] = (IF exit = "error" THEN Full ELSE Empty)
NothingLeaked ==
    AtTerm({"return", "error"}) => \A v \in Vars : LeftAtExit(v, Top.region.term.t)

(* What moves.rs:596 says of every body the lifetime scan accepts: a field  *)
(* moved out is written back before the slot is redefined and before the    *)
(* function exits, so no whole drop meets a hole.                           *)
HolesWrittenBack ==
    AtLeaf /\ Current.op = "drop" => slot[Current.var].parts = Fields

(* The MIR verifier's independent walk finds nothing wrong with any end     *)
(* drop elaboration placed.                                                 *)
VerifierAccepts ==
    Running /\ Len(stack) = 1 /\ Top.pc = 1 => verify_slot_ends(fn)
=============================================================================
