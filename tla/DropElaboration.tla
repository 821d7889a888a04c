--------------------------- MODULE DropElaboration ---------------------------
(***************************************************************************)
(* Drop elaboration: where each value dies in the structured body, and the  *)
(* drop placed there.  One backward walk finds what is live at each point   *)
(* over the bits of DropValues, and a splice places the drops; here a       *)
(* region is walked and spliced in one recursion that returns both its      *)
(* live-in and its elaborated form.                                         *)
(*                                                                          *)
(* The passes around the walk are here too: the drops before the stores the *)
(* walk does not follow, and the refinement of an initializer's receiver.   *)
(* Loans, owned registers and in-place bindings are left out: no            *)
(* instruction of RegionTree borrows a slot or leaves a value in a register. *)
(***************************************************************************)
EXTENDS Lifetimes

-----------------------------------------------------------------------------
(* The bits (drop_values.rs): a slot laid out in parts has one per field    *)
(* and its whole-object bit, any other slot its whole-object bit alone.     *)
(* The sentinel is set where a path reaches an exit.                        *)

WholeBit(v) == <<v, "whole">>
Reached == <<0, "reached">>

range(f, v) ==
    {WholeBit(v)} \cup (IF v \in f.split THEN parts(v) ELSE {})

(* The part of its slot an instruction names.                               *)
access(f, i) ==
    IF "field" \in DOMAIN i /\ i.var \in f.split THEN {<<i.var, i.field>>} ELSE range(f, i.var)

(* The bits a use of the part makes live: the part alone only while the     *)
(* whole-object bit is live, so the last use of any part of a value that    *)
(* dies whole marks it whole.                                               *)
ref_bits(f, live, i) ==
    IF WholeBit(i.var) \in live THEN access(f, i) ELSE range(f, i.var)

(* Mutant of unify: the levels' whole-object bits are not looked at.        *)
unify_Union(f, state, other) ==
    CASE Reached \notin other -> state
      [] Reached \in other /\ Reached \notin state -> other
      [] OTHER -> state \cup other

(* The join of two live sets: a side no exit is reached from yields to the  *)
(* other, and a slot whose whole-object bit is live on one side only is     *)
(* live whole.                                                              *)
unify(f, state, other) ==
    LET both == state \cup other
        one_sided == {v \in f.split :
                        /\ ~(WholeBit(v) \in state /\ WholeBit(v) \in other)
                        /\ range(f, v) \cap both # {}}
    IN  CASE Reached \notin other -> state
          [] Reached \in other /\ Reached \notin state -> other
          [] OTHER -> both \cup UNION {range(f, v) : v \in one_sided}

-----------------------------------------------------------------------------
(* One instruction, walked backward over the live set after it.             *)

(* The part a store into a laid-out slot defines, or the slot a definition  *)
(* does.                                                                    *)
Defined(f, i) ==
    CASE i.op = "def" -> range(f, i.var)
      [] i.op = "store" /\ i.var \in f.split -> access(f, i)
      [] OTHER -> {}

Marked(f, live, i) == IF i.op = "def" THEN {} ELSE ref_bits(f, live, i)

(* What it moves out or ends, which its new owner destroys.                 *)
Ended(f, i) ==
    CASE i.op \in {"move", "consume", "drop"} -> range(f, i.var)
      [] i.op \in {"movepart", "droppart"} /\ i.var \in f.split -> access(f, i)
      [] OTHER -> {}

effects(f, live, i) == (live \cup Marked(f, live, i)) \ Defined(f, i)

(* What dies right after the instruction.                                   *)
Dying(f, live, i) == ((Defined(f, i) \cup Marked(f, live, i)) \ live) \ Ended(f, i)

-----------------------------------------------------------------------------
(* The deaths at one point, in the order they drop: an initializer's        *)
(* receiver first, then descending slots, a slot's parts in field order.    *)

Receivers(f) == {v \in Vars : f.kind[v] = "self"}
order_deaths(f) ==
    SetToSortSeq(Vars, LAMBDA v, w : \/ v \in Receivers(f) /\ w \notin Receivers(f)
                                     \/ (v \in Receivers(f) <=> w \in Receivers(f)) /\ v > w)

(* The whole value when its whole-object bit is dead, and otherwise each    *)
(* dying part.  A `deinit` parameter that dies whole is consumed.           *)
SlotDeaths(f, v, dying, live) ==
    CASE dying \cap range(f, v) = {} -> <<>>
      [] dying \cap range(f, v) # {} /\ WholeBit(v) \in live ->
            LET fields == SelectSeq(FieldOrder, LAMBDA fld : <<v, fld>> \in dying)
            IN  [n \in DOMAIN fields |-> DropPlace(v, fields[n])]
      [] OTHER ->
            CASE f.kind[v] = "deinit" -> <<ConsumeVar(v)>>
              [] f.kind[v] # "deinit" /\ droppable(f, v) -> <<DropVar(v)>>
              [] OTHER -> <<>>

deaths(f, dying, live) ==
    LET order == order_deaths(f)
    IN  FlattenSeq([n \in DOMAIN order |-> SlotDeaths(f, order[n], dying, live)])

-----------------------------------------------------------------------------
(* The live sets at a block's end.                                          *)

(* What an exit reads: a return the receiver, a raise out of the function   *)
(* the error slot, and both every part of a laid-out `mut` parameter and    *)
(* the whole-object bit of a `deinit` parameter.                            *)
at_exit(f, live, term) ==
    LET kinds == CASE term.t = "return" -> {"self", "mut"}
                   [] term.t = "error" -> {"error", "mut"}
                   [] OTHER -> {}
        read_whole == {v \in Vars : f.kind[v] \in kinds /\ (f.kind[v] = "mut" => v \in f.split)}
    IN  IF kinds = {} THEN live
        ELSE live \cup {Reached} \cup UNION {range(f, v) : v \in read_whole}
                  \cup {WholeBit(v) : v \in {w \in f.split : f.kind[w] = "deinit"}}

(* A frame of the backward walk: the sets live where its two exits go.      *)
BackFrame(i, k, leave, resume) == [kind |-> FrameOf(i, k), leave |-> leave, resume |-> resume]

live_out(term, exit, frames) ==
    LET depth == Innermost([d \in DOMAIN frames |-> frames[d].kind], term.to)
    IN  CASE term.t = "yield" -> exit
          [] term.t = "leave" /\ depth > 0 -> frames[depth].leave
          [] term.t = "resume" /\ depth > 0 -> frames[depth].resume
          [] OTHER -> {}

-----------------------------------------------------------------------------
(* The backward walk and the splice.                                        *)

Entry(drops, r) == [r EXCEPT !.code = drops \o @]

(* The drops at the entry of a region whose live-in is `live`, its siblings' *)
(* and its own unified being `unified`.                                     *)
dying_at_entry(f, live, unified) == deaths(f, unified \ live, live)

RECURSIVE region(_, _, _, _)
RECURSIVE block(_, _, _, _, _)
RECURSIVE op(_, _, _, _)

(* A region around its walked block, ending with the parameters consumed at *)
(* its exit.                                                                *)
Spliced(r, b) ==
    [live |-> b.live,
     region |-> Region(b.code \o [n \in DOMAIN r.term.consume |-> ConsumeVar(r.term.consume[n])],
                       r.term)]

(* A region whose yields continue to `exit`: its live-in and its elaborated *)
(* form.                                                                    *)
region(f, r, exit, frames) ==
    Spliced(r, block(f, r.code, Len(r.code),
                     at_exit(f, live_out(r.term, exit, frames), r.term), frames))

(* The walked block b with instructions after it.                           *)
Then(b, code) == [b EXCEPT !.code = @ \o code]

(* What precedes a region op that was walked as o.                          *)
block_to(f, code, n, o, frames) ==
    Then(block(f, code, n - 1, o.live, frames), <<[code[n] EXCEPT !.regions = o.regions]>>)

(* The first n instructions of a block, with `live` live after them.        *)
block(f, code, n, live, frames) ==
    CASE n = 0 -> [live |-> live, code |-> <<>>]
      [] n > 0 /\ region_op(code[n]) -> block_to(f, code, n, op(f, code[n], live, frames), frames)
      [] OTHER -> Then(block(f, code, n - 1, effects(f, live, code[n]), frames),
                       <<code[n]>> \o deaths(f, Dying(f, live, code[n]), live))

(* Where a branch goes to the arm or on to the first of the rest: what the  *)
(* unified live-in keeps and a side does not dies at that side's entry.     *)
Fork(f, arm, rest) ==
    LET unified == unify(f, arm.live, rest.live)
    IN  <<Entry(dying_at_entry(f, arm.live, unified), arm.region)>>
        \o <<Entry(dying_at_entry(f, rest.live, unified), rest.regions[1])>>
        \o Tail(rest.regions)

(* The rest of an `if` from its region k on, a condition or the else arm.   *)
RECURSIVE elifs(_, _, _, _, _)
elifs(f, i, k, exit, frames) ==
    IF k = Len(i.regions)
    THEN LET orelse == region(f, i.regions[k], exit, frames)
         IN  [live |-> orelse.live, regions |-> <<orelse.region>>]
    ELSE LET rest == elifs(f, i, k + 2, exit, frames)
             arm == region(f, i.regions[k + 1], exit, frames)
             cond == region(f, i.regions[k], unify(f, rest.live, arm.live), frames)
         IN  [live |-> cond.live, regions |-> <<cond.region>> \o Fork(f, arm, rest)]

if_op(f, i, exit, frames) ==
    LET rest == elifs(f, i, 2, exit, frames)
        then == region(f, i.regions[1], exit, frames)
    IN  [live |-> unify(f, then.live, rest.live), regions |-> Fork(f, then, rest)]

(* A `comptime if` from its arm k on: each arm is unified against the ones  *)
(* after it, and what dies on the way on dies in each of them first.        *)
UnifyAll(f, lives) == FoldLeft(LAMBDA state, other : unify(f, state, other), {}, lives)
comptime_if(f, i, exit, frames) ==
    LET n == Len(i.regions)
        arms == [k \in 1..n |-> region(f, i.regions[k], exit, frames)]
        lives == [k \in 1..n |-> arms[k].live]
        rest(k) == UnifyAll(f, SubSeq(lives, k + 1, n))
        unified(k) == unify(f, lives[k], rest(k))
        on(k) == dying_at_entry(f, rest(k), unified(k))
        own(k) == IF k = n THEN <<>> ELSE dying_at_entry(f, lives[k], unified(k))
        drops(k) == FlattenSeq([j \in 1..(k - 1) |-> on(j)]) \o own(k)
    IN  [live |-> UnifyAll(f, lives),
         regions |-> [k \in 1..n |-> Entry(drops(k), arms[k].region)]]

(* Mutant of stable: the body is walked once, nothing live around the loop. *)
stable_Once(f, i, exit, resume, frames) ==
    region(f, i.regions[1], {}, Append(frames, BackFrame(i, 1, exit, resume))).live
        \cup {Reached}

(* A loop's continue set: what is live into its body, until it is stable.   *)
RECURSIVE stable(_, _, _, _, _)
stable(f, i, exit, resume, frames) ==
    LET inside == Append(frames, BackFrame(i, 1, exit, resume))
        next == unify(f, region(f, i.regions[1], {}, inside).live \cup {Reached}, resume)
    IN  IF next = resume THEN resume ELSE stable(f, i, exit, next, frames)

looped(f, i, exit, frames) ==
    LET resume == stable(f, i, exit, {}, frames)
        inside == Append(frames, BackFrame(i, 1, exit, resume))
    IN  [live |-> resume, regions |-> <<region(f, i.regions[1], {}, inside).region>>]

(* A `match` from its case k on.                                            *)
RECURSIVE cases(_, _, _, _, _)
cases(f, i, k, exit, frames) ==
    IF k = Len(i.regions)
    THEN LET orelse == region(f, i.regions[k], exit, frames)
         IN  [live |-> orelse.live, regions |-> <<orelse.region>>]
    ELSE LET rest == cases(f, i, k + 1, exit, frames)
             inside == Append(frames, BackFrame(i, k, exit, rest.live))
             body == region(f, i.regions[k], {}, inside)
         IN  [live |-> body.live, regions |-> <<body.region>> \o rest.regions]

tried(f, i, exit, frames) ==
    LET handler == region(f, i.regions[2], exit, frames)
        orelse == region(f, i.regions[3], exit, frames)
        body == region(f, i.regions[1], orelse.live,
                       Append(frames, BackFrame(i, 1, handler.live, {})))
    IN  [live |-> body.live, regions |-> <<body.region, handler.region, orelse.region>>]

op(f, i, exit, frames) ==
    CASE i.op = "if" -> if_op(f, i, exit, frames)
      [] i.op = "cif" -> comptime_if(f, i, exit, frames)
      [] i.op \in {"loop", "cfor"} -> looped(f, i, exit, frames)
      [] i.op = "match" -> cases(f, i, 1, exit, frames)
      [] i.op = "try" -> tried(f, i, exit, frames)

(* A parameter, or a part of one, dead on arrival drops at the entry.       *)
elaborate_drops(f) ==
    LET walked == region(f, f.body, {}, <<>>)
        parameters == UNION {range(f, v) : v \in {w \in Vars : f.kind[w] \in Parameters}}
    IN  [f EXCEPT !.body =
            Entry(deaths(f, parameters \ walked.live, walked.live), walked.region)]

-----------------------------------------------------------------------------
(* The passes around the walk, each a rewrite of the instructions at the    *)
(* positions a forward walk observed.  Code no path reaches is left alone:  *)
(* the source drops a receiver's end there.                                 *)

RECURSIVE rewrite(_, _, _, _)
rewrite(r, at, ends, consume) ==
    LET one(n) ==
            LET here == Append(at, n)
                i == r.code[n]
            IN  CASE region_op(i) ->
                        <<[i EXCEPT !.regions =
                            [k \in DOMAIN @ |-> rewrite(@[k], Append(here, k), ends, consume)]]>>
                  [] ~region_op(i) /\ here \in DOMAIN ends -> ends[here]
                  [] OTHER -> <<i>>
        at_end == IF at \in DOMAIN consume THEN consume[at] ELSE <<>>
    IN  Region(FlattenSeq([n \in DOMAIN r.code |-> one(n)]),
               [r.term EXCEPT !.consume = at_end])

(* Mutant of overwrites_initialized: a receiver's stores are all the first. *)
overwrites_initialized_Never(f, o) == FALSE

(* A store into a field of a slot the walk keeps whole, holding a value on  *)
(* every path, destroys it first.                                           *)
overwrites_initialized(f, o) ==
    /\ o.i.op = "store" /\ o.i.var \notin f.split
    /\ read(o.st.moves[o.i.var], o.i.field) = "owned"

elaborate_store_drops(f, flow) ==
    LET stores == {o \in flow.seen : overwrites_initialized(f, o)}
    IN  [here \in {o.at : o \in stores} |->
            LET o == CHOOSE x \in stores : x.at = here
            IN  <<DropPlace(o.i.var, o.i.field), o.i>>]

(* The `deinit` parameters a block's exit ends: those not already ended on  *)
(* every path to it.                                                        *)
consumed_at_exit(f, flow) ==
    LET leaves == {e \in flow.ends : e.term.t \in {"return", "error"}}
        ending(e) == {v \in Vars : f.kind[v] = "deinit" /\ v \notin e.st.ended}
    IN  [at \in {e.at : e \in leaves} |->
            SetToSortSeq(ending(CHOOSE e \in leaves : e.at = at), <)]

(* Mutant of receiver_end: a partly built receiver drops nothing.           *)
receiver_end_Whole(v, node) == IF whole(node) = "owned" THEN <<DropVar(v)>> ELSE <<>>

(* What ends a receiver: itself whole when every field is set, and          *)
(* otherwise each field set on every path.                                  *)
receiver_end(v, node) ==
    LET fields == SelectSeq(FieldOrder, LAMBDA fld : read(node, fld) = "owned")
    IN  IF whole(node) = "owned" THEN <<DropVar(v)>>
        ELSE [n \in DOMAIN fields |-> DropPlace(v, fields[n])]

refine_receiver_drops(f) ==
    LET flow == walk_forward(f, entry_move_states(f))
        drops == {o \in flow.seen : o.i.op = "drop" /\ o.i.var \in Receivers(f)}
        ends == [here \in {o.at : o \in drops} |->
                    LET o == CHOOSE x \in drops : x.at = here
                    IN  receiver_end(o.i.var, o.st.moves[o.i.var])]
    IN  [f EXCEPT !.body = rewrite(@, <<>>, ends, <<>>)]

elaborate_drops_function(f) ==
    LET flow == walk_forward(f, entry_move_states(f))
        stored == [f EXCEPT !.body = rewrite(@, <<>>, elaborate_store_drops(f, flow),
                                             consumed_at_exit(f, flow))]
    IN  refine_receiver_drops(elaborate_drops(stored))
=============================================================================
