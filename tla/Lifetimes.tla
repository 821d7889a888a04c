------------------------------ MODULE Lifetimes ------------------------------
(***************************************************************************)
(* The forward walk the ownership checks share, and what each of its        *)
(* clients reads from it: the lifetime scan that accepts or rejects a body, *)
(* the store drops and receiver drops that rewrite one, and the MIR         *)
(* verifier's slot ends.                                                    *)
(*                                                                          *)
(* The source runs one walk per client, each with its own state; here one   *)
(* state holds the parts of all of them, joined part by part, and a client  *)
(* looks at its own.  `moves` is the lifetime scan's init/move tree, `ended` *)
(* the drop facts' parameters ended on every path, `held` and `gone` the    *)
(* verifier's slots held on every path and parts ended on some.             *)
(***************************************************************************)
EXTENDS RegionTree, FiniteSets, SequencesExt

-----------------------------------------------------------------------------
(* The init/move lattice (moves.rs).                                        *)

Own == {"owned", "moved", "maybe"}

severity(o) == CASE o = "owned" -> 0 [] o = "maybe" -> 1 [] o = "moved" -> 2

JoinOwn(owns) == IF Cardinality(owns) = 1 THEN CHOOSE o \in owns : TRUE ELSE "maybe"

(* A place tree: the slot's own state and each field's.  The source keeps a *)
(* field only once it differs; a field not kept has its parent's state.     *)
Node(base, own) == [base |-> base, kids |-> [fld \in Fields |-> own]]

whole(node) ==
    LET owns == {node.base} \cup {node.kids[fld] : fld \in Fields}
    IN  CHOOSE o \in owns : \A p \in owns : severity(p) <= severity(o)

read(node, fld) == IF node.base # "owned" THEN node.base ELSE node.kids[fld]

(* Some field off `skip` is more moved than the slot itself.                *)
moved_below(node, skip) ==
    \E fld \in Fields \ skip : severity(node.kids[fld]) > severity(node.base)

do_def(node, fld) ==
    IF node.base = "moved" THEN node ELSE [node EXCEPT !.kids[fld] = "owned"]

-----------------------------------------------------------------------------
(* States, and the state where paths meet.                                  *)

JoinAll(S) ==
    [moves |-> [v \in Vars |->
        [base |-> JoinOwn({st.moves[v].base : st \in S}),
         kids |-> [fld \in Fields |-> JoinOwn({st.moves[v].kids[fld] : st \in S})]]],
     ended |-> {v \in Vars : \A st \in S : v \in st.ended},
     held  |-> {v \in Vars : \A st \in S : v \in st.held},
     gone  |-> UNION {st.gone : st \in S}]

parts(v) == {v} \X Fields

apply_effects(node, i) ==
    CASE i.op = "def" -> Node("owned", "owned")
      [] i.op \in {"move", "consume"} -> Node("moved", "moved")
      [] i.op \in {"movepart", "droppart"} -> [node EXCEPT !.kids[i.field] = "moved"]
      [] i.op = "store" -> do_def(node, i.field)
      [] OTHER -> node

(* A `deinit` parameter moved out whole is ended until it is defined again. *)
EndedAfter(f, st, i) ==
    CASE i.op = "def" -> st.ended \ {i.var}
      [] i.op \in {"move", "consume"} /\ f.kind[i.var] = "deinit" -> st.ended \cup {i.var}
      [] OTHER -> st.ended

(* The verifier's step: an end empties the slot or the part it names, and   *)
(* anything else that names a slot fills what it names.                     *)
HeldAfter(st, i) ==
    IF i.op \in {"drop", "consume", "move"} THEN st.held \ {i.var} ELSE st.held \cup {i.var}
GoneAfter(st, i) ==
    CASE i.op \in {"load", "store"} -> st.gone \ {<<i.var, i.field>>}
      [] i.op \in {"movepart", "droppart"} -> st.gone \cup {<<i.var, i.field>>}
      [] OTHER -> st.gone \ parts(i.var)

transfer(f, st, i) ==
    [moves |-> [st.moves EXCEPT ![i.var] = apply_effects(@, i)],
     ended |-> EndedAfter(f, st, i),
     held  |-> HeldAfter(st, i),
     gone  |-> GoneAfter(st, i)]

-----------------------------------------------------------------------------
(* The walk.  A flow holds the states on each exit channel, the states that *)
(* leave or resume each enclosing frame, the state reaching each            *)
(* instruction and the state at each block's end, by the position in the    *)
(* tree.                                                                    *)

Unreached == [normal |-> {}, raises |-> {}, exits |-> {}, frames |-> {},
              seen |-> {}, ends |-> {}]
FallsOff(st) == [Unreached EXCEPT !.normal = {st}]

absorb(a, b) ==
    [normal |-> a.normal \cup b.normal, raises |-> a.raises \cup b.raises,
     exits |-> a.exits \cup b.exits, frames |-> a.frames \cup b.frames,
     seen |-> a.seen \cup b.seen, ends |-> a.ends \cup b.ends]
absorb_abnormal(a, b) == absorb(a, [b EXCEPT !.normal = {}])

FrameStates(flow, depth, resume) ==
    {x.st : x \in {y \in flow.frames : y.depth = depth /\ y.resume = resume}}
TakeFrame(flow, depth) == [flow EXCEPT !.frames = {x \in @ : x.depth # depth}]

RECURSIVE walk_region(_, _, _, _, _)
RECURSIVE walk_block(_, _, _, _, _, _)
RECURSIVE walk_op(_, _, _, _, _)

(* What leaves a region whose block flows as `block`, `depth` the frame its *)
(* terminator names.                                                        *)
leave_region(r, at, depth, block) ==
    LET left == [block EXCEPT !.normal = {},
                              !.ends = @ \cup {[at |-> at, term |-> r.term, st |-> st]
                                               : st \in block.normal}]
    IN  CASE r.term.t = "yield"  -> [left EXCEPT !.normal = block.normal]
          [] r.term.t = "return" -> [left EXCEPT !.exits = @ \cup block.normal]
          [] r.term.t = "error"  -> [left EXCEPT !.raises = @ \cup block.normal]
          [] r.term.t \in {"leave", "resume"} /\ depth > 0 ->
                [left EXCEPT !.frames = @ \cup
                    {[depth |-> depth, resume |-> r.term.t = "resume", st |-> st]
                     : st \in block.normal}]
          [] OTHER -> left

(* One region, from the join of the states entering it: `at` its position,  *)
(* `kinds` the frames around it.                                            *)
walk_region(f, S, r, at, kinds) ==
    IF S = {} THEN Unreached
    ELSE leave_region(r, at, Innermost(kinds, r.term.to),
                      walk_block(f, JoinAll(S), r.code, 1, at, kinds))

walk_step(f, st, i, here, kinds) ==
    IF region_op(i) THEN walk_op(f, st, i, here, kinds)
    ELSE [FallsOff(transfer(f, st, i)) EXCEPT !.seen = {[at |-> here, i |-> i, st |-> st]}]

(* The instructions after the n-th, which flows as `one`.                   *)
walk_on(f, one, code, n, at, kinds) ==
    IF one.normal = {} THEN one
    ELSE absorb_abnormal(walk_block(f, JoinAll(one.normal), code, n + 1, at, kinds), one)

walk_block(f, st, code, n, at, kinds) ==
    IF n > Len(code) THEN FallsOff(st)
    ELSE walk_on(f, walk_step(f, st, code[n], Append(at, n), kinds), code, n, at, kinds)

(* The rest of an `if` from its region k on, a condition or the else arm.   *)
RECURSIVE walk_if(_, _, _, _, _, _)
walk_if(f, S, i, k, at, kinds) ==
    IF k = Len(i.regions)
    THEN walk_region(f, S, i.regions[k], Append(at, k), kinds)
    ELSE LET cond == walk_region(f, S, i.regions[k], Append(at, k), kinds)
             arm == walk_region(f, cond.normal, i.regions[k + 1], Append(at, k + 1), kinds)
         IN  absorb_abnormal(absorb(arm, walk_if(f, cond.normal, i, k + 2, at, kinds)), cond)

RECURSIVE walk_arms(_, _, _, _, _, _)
walk_arms(f, st, i, k, at, kinds) ==
    IF k > Len(i.regions) THEN Unreached
    ELSE absorb(walk_region(f, {st}, i.regions[k], Append(at, k), kinds),
                walk_arms(f, st, i, k + 1, at, kinds))

(* The continue set of a loop entered in st: st joined with what the body   *)
(* resumes in, until it is stable.                                          *)
RECURSIVE converged(_, _, _, _, _)
converged(f, st, i, at, kinds) ==
    LET inside == Append(kinds, FrameOf(i, 1))
        flow == walk_region(f, {st}, i.regions[1], Append(at, 1), inside)
        next == JoinAll({st} \cup FrameStates(flow, Len(inside), TRUE))
    IN  IF next = st THEN st ELSE converged(f, next, i, at, kinds)

walk_loop(f, st, i, at, kinds) ==
    LET inside == Append(kinds, FrameOf(i, 1))
        flow == walk_region(f, {converged(f, st, i, at, kinds)}, i.regions[1],
                            Append(at, 1), inside)
    IN  [TakeFrame(flow, Len(inside)) EXCEPT !.normal = FrameStates(flow, Len(inside), FALSE)]

(* A `match` from its case k on; the else region is outside its frame.      *)
RECURSIVE walk_match(_, _, _, _, _, _)
walk_match(f, S, i, k, at, kinds) ==
    IF k = Len(i.regions)
    THEN walk_region(f, S, i.regions[k], Append(at, k), kinds)
    ELSE LET inside == Append(kinds, FrameOf(i, k))
             flow == walk_region(f, S, i.regions[k], Append(at, k), inside)
             case == [TakeFrame(flow, Len(inside)) EXCEPT
                        !.normal = FrameStates(flow, Len(inside), FALSE)]
         IN  absorb(case, walk_match(f, FrameStates(flow, Len(inside), TRUE),
                                     i, k + 1, at, kinds))

walk_try(f, st, i, at, kinds) ==
    LET inside == Append(kinds, FrameOf(i, 1))
        body == walk_region(f, {st}, i.regions[1], Append(at, 1), inside)
        handler == walk_region(f, FrameStates(body, Len(inside), FALSE), i.regions[2],
                               Append(at, 2), kinds)
        orelse == walk_region(f, body.normal, i.regions[3], Append(at, 3), kinds)
    IN  absorb_abnormal(absorb(orelse, handler), TakeFrame(body, Len(inside)))

walk_op(f, st, i, at, kinds) ==
    CASE i.op = "if" ->
            absorb(walk_region(f, {st}, i.regions[1], Append(at, 1), kinds),
                   walk_if(f, {st}, i, 2, at, kinds))
      [] i.op = "cif" -> walk_arms(f, st, i, 1, at, kinds)
      [] i.op \in {"loop", "cfor"} -> walk_loop(f, st, i, at, kinds)
      [] i.op = "match" -> walk_match(f, {st}, i, 1, at, kinds)
      [] i.op = "try" -> walk_try(f, st, i, at, kinds)

(* The walk of a whole body from the move states `moves`.  The verifier     *)
(* enters it holding the parameters.                                        *)
walk_forward(f, moves) ==
    walk_region(f, {[moves |-> moves, ended |-> {}, gone |-> {},
                     held |-> {v \in Vars : f.kind[v] \in Parameters}]},
                f.body, <<>>, <<>>)

-----------------------------------------------------------------------------
(* The lifetime scan (analyze_lifetimes): the body it accepts.              *)

AllOwned == [v \in Vars |-> Node("owned", "owned")]

(* A read finds its place owned, a store its slot, and neither is beside a  *)
(* moved-out field of the same value; a further move is no use.             *)
check_instruction_uses(f, st, i) ==
    LET node == st.moves[i.var]
    IN  /\ i.op \in {"use", "move"} => whole(node) = "owned"
        /\ i.op \in {"load", "movepart"} => read(node, i.field) = "owned"
        /\ i.op = "store" => node.base = "owned"
        /\ i.op \in {"load", "store"} =>
              f.kind[i.var] = "deinit" \/ ~moved_below(node, {i.field})

(* A `deinit` parameter's direct fields are independent values.             *)
check_whole_destruction(f, st, v) ==
    f.kind[v] = "deinit" \/ ~moved_below(st.moves[v], {})

check_reference_parameter_refilled(f, st, v) ==
    f.kind[v] = "mut" => whole(st.moves[v]) = "owned"

analyze_lifetimes(f) ==
    LET flow == walk_forward(f, AllOwned)
        left == {JoinAll(S) : S \in {flow.normal, flow.exits, flow.raises} \ {{}}}
    IN  /\ \A o \in flow.seen :
              /\ check_instruction_uses(f, o.st, o.i)
              /\ o.i.op = "def" => check_whole_destruction(f, o.st, o.i.var)
        /\ \A st \in left, v \in Vars :
              /\ check_reference_parameter_refilled(f, st, v)
              /\ check_whole_destruction(f, st, v)

(* Every slot's state entering the function: parameters hold a value, other *)
(* slots do not, and an initializer's receiver has its storage and no field. *)
entry_move_states(f) ==
    [v \in Vars |-> CASE f.kind[v] = "self" -> Node("owned", "moved")
                      [] f.kind[v] \in Parameters \ {"self"} -> Node("owned", "owned")
                      [] OTHER -> Node("moved", "moved")]

-----------------------------------------------------------------------------
(* The verifier's slot ends (verify/drops.rs): an end finds its slot held   *)
(* on every path, and a destroy every part of what it names.                *)

verify_slot_ends(f) ==
    \A o \in walk_forward(f, AllOwned).seen :
        LET v == o.i.var
        IN  /\ o.i.op \in {"drop", "consume", "droppart"} => v \in o.st.held
            /\ o.i.op = "drop" => o.st.gone \cap parts(v) = {}
            /\ o.i.op = "droppart" => <<v, o.i.field>> \notin o.st.gone
=============================================================================
