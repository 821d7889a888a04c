------------------------------ MODULE VmFrames ------------------------------
(***************************************************************************)
(* The call frames of the register VM: drive_frames, finish_frame,         *)
(* prepare_direct_call and raise_into_caller of                            *)
(* crates/mojito-vm/src/backend/vm/frames.rs, and the synchronous calls    *)
(* made from inside an instruction (call_synchronously_with_references of  *)
(* invoke.rs, clone_value_with_reachable_frames of values.rs).             *)
(*                                                                         *)
(* All activations of drive_frames share one stack of frames.  A direct    *)
(* call suspends its frame on that stack.  A synchronous one runs a new    *)
(* activation while its caller is held off the stack, by the instruction   *)
(* being interpreted; for references into the caller to resolve meanwhile, *)
(* a view of it under the caller's own identity is pushed and taken off    *)
(* again.  An error abandons every frame of its activation.                *)
(*                                                                         *)
(* A program is abstracted to what each frame does next, and a frame's     *)
(* variables to how often they have been written.                          *)
(***************************************************************************)
EXTENDS Naturals, Sequences

CONSTANTS
  MaxFrames,  \* bound: frames made in one run
  MaxWrites,  \* bound: writes to the variables of one frame
  None        \* no frame

ASSUME FramesAssumption ==
  /\ MaxFrames \in Nat \ {0}
  /\ MaxWrites \in Nat

VARIABLES
  frames,         \* self.frames, the bottom first
  activations,    \* the activations of drive_frames, the innermost last
  next_frame_id,  \* the identity of the next frame
  outcome,        \* what the innermost activation has ended with, or "none"
  status,         \* "running", or how the run ended
  written         \* history: frame -> how often its variables were written

vars == <<frames, activations, next_frame_id, outcome, status, written>>

FrameIds == 1..MaxFrames

\* A child returns into the frame below it; a root was called synchronously
\* and has no continuation; a view stands for a frame held off the stack.
\* `caller` is history: the frame that made the call.
Frame ==
  [id: FrameIds, kind: {"child", "root", "view"}, edge: BOOLEAN, vars: 0..MaxWrites,
   caller: FrameIds \cup {None}]

\* target and base as in call_frame_with_id; the frame popped from the stack;
\* the frame of the synchronous call just completed; and, of the instruction
\* that made this call: how many views it pushed, its raise edge, and whether
\* it holds the frame's variables as a copy (a mirror) or has moved them.
Activation ==
  [target: FrameIds, base: Nat, popped: Frame \cup {None}, returned: Frame \cup {None},
   views: 0..2, edge: BOOLEAN, mirror: BOOLEAN]

ASSUME NoneAssumption == None \notin Frame \cup FrameIds

Top == Len(frames)
Inner == Len(activations)
Current == activations[Inner]

\* Truncation of the stack.
Down(s, n) == SubSeq(s, 1, n)

NewFrame(kind, edge, caller) ==
  [id |-> next_frame_id, kind |-> kind, edge |-> edge, vars |-> 0, caller |-> caller]

NewActivation(base, views, edge, mirror) ==
  [target |-> next_frame_id, base |-> base, popped |-> None, returned |-> None,
   views |-> views, edge |-> edge, mirror |-> mirror]

View(f) == [f EXCEPT !.kind = "view"]

\* run_prog: call_frame on the module's initialisation.
Init ==
  /\ frames = <<[id |-> 1, kind |-> "root", edge |-> FALSE, vars |-> 0, caller |-> None]>>
  /\ activations = <<[target |-> 1, base |-> 0, popped |-> None, returned |-> None,
                      views |-> 0, edge |-> FALSE, mirror |-> FALSE]>>
  /\ next_frame_id = 2
  /\ outcome = "none"
  /\ status = "running"
  /\ written = [f \in FrameIds |-> 0]

Driving == status = "running" /\ outcome = "none"
Executing == Driving /\ Current.popped # None
CanCall == Executing /\ next_frame_id <= MaxFrames

Lost(error) ==
  /\ status' = error
  /\ UNCHANGED <<frames, activations, next_frame_id, outcome, written>>

\* The innermost activation continues with `f` off the stack.
Hold(f, returned) ==
  activations' = [activations EXCEPT ![Inner].popped = f, ![Inner].returned = returned]

----------------------------------------------------------------------------
\* The head of the loop: take the top frame off the stack.  A view names no
\* function to run.
pop ==
  /\ Driving
  /\ Current.popped = None
  /\ \/ Top = 0 /\ Lost("frame stack underflow")
     \/ Top > 0 /\ frames[Top].kind = "view" /\ Lost("ran a view")
     \/ /\ Top > 0
        /\ frames[Top].kind # "view"
        /\ Hold(frames[Top], None)
        /\ frames' = Down(frames, Top - 1)
        /\ UNCHANGED <<next_frame_id, outcome, status, written>>

\* The frame enters a region, or leaves one: it goes back on the stack.
push_back ==
  /\ Executing
  /\ frames' = Append(frames, Current.popped)
  /\ Hold(None, None)
  /\ UNCHANGED <<next_frame_id, outcome, status, written>>

\* Mutant: the caller is left off the stack.
DirectCallDropsCaller(edge) ==
  /\ CanCall
  /\ frames' = Append(frames, NewFrame("child", edge, Current.popped.id))
  /\ next_frame_id' = next_frame_id + 1
  /\ Hold(None, None)
  /\ UNCHANGED <<outcome, status, written>>

\* A call that prepare_direct_call takes: the caller goes back on the stack and
\* the callee above it.
direct_call(edge) ==
  /\ CanCall
  /\ frames' = frames \o <<Current.popped, NewFrame("child", edge, Current.popped.id)>>
  /\ next_frame_id' = next_frame_id + 1
  /\ Hold(None, None)
  /\ UNCHANGED <<outcome, status, written>>

\* call_frame with the views `views` pushed before it: a new activation, whose
\* root lies on the views.
CallFrame(views, edge, mirror) ==
  /\ frames' = frames \o views \o <<NewFrame("root", FALSE, Current.popped.id)>>
  /\ activations' =
       Append(activations, NewActivation(Top + Len(views), Len(views), edge, mirror))
  /\ next_frame_id' = next_frame_id + 1
  /\ UNCHANGED <<outcome, status, written>>

\* An instruction calls a lifecycle member: the frame is nowhere on the stack.
call_frame(edge) == CanCall /\ CallFrame(<<>>, edge, FALSE)

\* An instruction makes a call that may hold references into the frame: a copy
\* of it is pushed (push_caller_mirror).
call_mirrored(edge) == CanCall /\ CallFrame(<<View(Current.popped)>>, edge, TRUE)

\* A result is copied while references into the frame, and into the frame that
\* has just returned it, resolve: the variables of both are moved to the stack.
clone_value_with_reachable_frames(edge) ==
  /\ CanCall
  /\ \/ CallFrame(<<View(Current.popped)>>, edge, FALSE)
     \/ /\ Current.returned # None
        /\ CallFrame(<<View(Current.popped), View(Current.returned)>>, edge, FALSE)

\* The frame of the stack that frame_variable finds: the first of that identity.
FirstOf(f) == CHOOSE k \in DOMAIN frames :
  frames[k].id = f /\ \A j \in DOMAIN frames : frames[j].id = f => k <= j

\* A write to a variable of the frame itself or, through a reference, of a
\* frame on the stack.  A reference into any other frame is an error (fail).
write(f) ==
  /\ Executing
  /\ written[f] < MaxWrites
  /\ \/ /\ f = Current.popped.id
        /\ activations' = [activations EXCEPT ![Inner].popped.vars = written[f] + 1]
        /\ UNCHANGED frames
     \/ /\ f # Current.popped.id
        /\ \E k \in DOMAIN frames : frames[k].id = f
        /\ frames' = [frames EXCEPT ![FirstOf(f)].vars = written[f] + 1]
        /\ UNCHANGED activations
  /\ written' = [written EXCEPT ![f] = @ + 1]
  /\ UNCHANGED <<next_frame_id, outcome, status>>

\* The activation ends, its popped frame gone.
End(o, returned) ==
  /\ outcome' = o
  /\ Hold(None, returned)
  /\ UNCHANGED <<frames, next_frame_id, status, written>>

\* The popped child leaves for its caller, the frame below.
ToCaller ==
  /\ Top > 0
  /\ Hold(None, None)
  /\ UNCHANGED <<frames, next_frame_id, outcome, status, written>>

\* finish_frame: the target's return ends its activation; any other frame
\* returns into the top of the stack.
finish_frame ==
  LET f == Current.popped IN
  /\ Executing
  /\ \/ f.id = Current.target /\ End("ok", f)
     \/ f.id # Current.target /\ f.kind # "child" /\ Lost("no return continuation")
     \/ f.id # Current.target /\ f.kind = "child" /\ Top = 0 /\ Lost("no caller frame")
     \/ f.id # Current.target /\ f.kind = "child" /\ ToCaller

\* lit.error_return: a raise goes into the caller if its call has a raise edge,
\* and out of the activation if it has none.
error_return ==
  LET f == Current.popped
      into_caller == f.id # Current.target /\ f.kind = "child" /\ f.edge
  IN
  /\ Executing
  /\ \/ ~into_caller /\ End("raised", None)
     \/ into_caller /\ Top = 0 /\ Lost("no caller frame")
     \/ into_caller /\ ToCaller

\* The instruction itself fails, and has no raise edge: a builtin raises, or any
\* other runtime error, compile-time fuel among them, occurs.
fail == Executing /\ \E o \in {"raised", "error"} : End(o, None)

----------------------------------------------------------------------------
(***************************************************************************)
(* The end of an activation: call_frame_with_id, then the instruction that *)
(* made the call.                                                          *)
(***************************************************************************)
\* Mutant: an error leaves the frames of its activation.
KeepAbandoned == frames

\* An error abandons every frame above the base.
Unwound == IF outcome = "ok" THEN frames ELSE Down(frames, Current.base)

\* Mutant: an error leaves before the view is copied back.
RestoreOnSuccess(f, at) == IF outcome = "ok" THEN [f EXCEPT !.vars = frames[at].vars] ELSE f

\* The variables come back from the view.
Restored(f, at) == [f EXCEPT !.vars = frames[at].vars]

\* The views of the call `a` come off the stack: a mirror by truncation to where
\* it was pushed, moved frames by one pop each.
ViewsOff(stack, a) == Down(stack, IF a.mirror THEN a.base - a.views ELSE Len(stack) - a.views)

\* raise_into_edge: a raise is taken by the edge of the calling instruction;
\* any other error, or a raise without an edge, ends the caller's activation.
Taken == outcome = "ok" \/ (outcome = "raised" /\ Current.edge)

resume ==
  LET a == Current
      outer == activations[Inner - 1]
      at == a.base - a.views + 1
      held == IF a.views > 0 THEN Restored(outer.popped, at) ELSE outer.popped
      kept == IF a.views = 2 THEN Restored(outer.returned, at + 1)
              ELSE IF a.mirror THEN a.returned
              ELSE None
  IN
  /\ status = "running"
  /\ outcome # "none"
  /\ Inner > 1
  /\ \/ a.views > 0 /\ at > Len(Unwound) /\ Lost("lost its mirrored caller frame")
     \/ /\ a.views > 0 => at <= Len(Unwound)
        /\ frames' = ViewsOff(Unwound, a)
        /\ activations' =
             Append(Down(activations, Inner - 2),
                    IF Taken THEN [outer EXCEPT !.popped = held, !.returned = kept]
                    ELSE [outer EXCEPT !.popped = None, !.returned = None])
        /\ outcome' = IF Taken THEN "none" ELSE outcome
        /\ UNCHANGED <<next_frame_id, status, written>>

\* run_prog: the module's initialisation, the first frame, has returned, and main
\* is called on what is left of the stack.
run_main ==
  /\ status = "running"
  /\ outcome = "ok"
  /\ Inner = 1
  /\ Current.target = 1
  /\ next_frame_id <= MaxFrames
  /\ frames' = Append(frames, NewFrame("root", FALSE, None))
  /\ activations' = <<NewActivation(Top, 0, FALSE, FALSE)>>
  /\ next_frame_id' = next_frame_id + 1
  /\ outcome' = "none"
  /\ UNCHANGED <<status, written>>

\* The last entry's activation has ended, and the run with it.
exit ==
  /\ status = "running"
  /\ outcome # "none"
  /\ Inner = 1
  /\ status' = outcome
  /\ frames' = Unwound
  /\ UNCHANGED <<activations, next_frame_id, outcome, written>>

Next ==
  \/ pop
  \/ push_back
  \/ \E edge \in BOOLEAN :
       \/ direct_call(edge)
       \/ call_frame(edge)
       \/ call_mirrored(edge)
       \/ clone_value_with_reachable_frames(edge)
  \/ \E f \in FrameIds : write(f)
  \/ finish_frame
  \/ error_return
  \/ fail
  \/ resume
  \/ run_main
  \/ exit

Spec == Init /\ [][Next]_vars

----------------------------------------------------------------------------
Ends == {"ok", "raised", "error"}
InternalErrors == {"frame stack underflow", "ran a view", "no return continuation",
                   "no caller frame", "lost its mirrored caller frame"}

\* Types.
TypeOK ==
  /\ frames \in Seq(Frame)
  /\ activations \in Seq(Activation)
  /\ next_frame_id \in 1..(MaxFrames + 1)
  /\ outcome \in {"none"} \cup Ends
  /\ status \in {"running"} \cup Ends \cup InternalErrors
  /\ written \in [FrameIds -> 0..MaxWrites]

\* No activation runs out of frames, runs a view, or finishes a frame that has
\* nowhere to return to, whatever errors abandoned before.
NoInternalError == status \notin InternalErrors

\* A child lies on the frame that called it, so that its result, its raise and
\* its write-backs go to that frame, and a root on what its call pushed: "no
\* abandoned child frame may leak into the next call" (call_frame_with_id).
CallersBelow ==
  /\ \A k \in DOMAIN frames : frames[k].kind = "child" =>
       k > 1 /\ frames[k - 1].id = frames[k].caller
  /\ Executing /\ Current.popped.kind = "child" =>
       Top > 0 /\ frames[Top].id = Current.popped.caller
  /\ Executing /\ Current.popped.kind = "root" => Top = Current.base

\* A write through a reference is seen by its frame when it runs again, also
\* when the call that made it raised ("mutations are immediate even on raising
\* paths", call_synchronously_with_references).
WritesSeen ==
  /\ Executing => Current.popped.vars = written[Current.popped.id]
  /\ \A k \in DOMAIN frames : status = "running" => frames[k].vars = written[frames[k].id]
=============================================================================
