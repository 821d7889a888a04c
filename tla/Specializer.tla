---------------------------- MODULE Specializer ----------------------------
(***************************************************************************)
(* The elaborator's worklist (crates/mojito-native/src/native/mono.rs and  *)
(* mono/specializer.rs): instances are demanded by the calls of a body,    *)
(* which queue them, and by compile-time applications, which materialize   *)
(* their reference closure at once, in the middle of the body that applies *)
(* them, and run it on the VM.                                             *)
(*                                                                         *)
(* A program is abstracted to what its bodies ask of the worklist.  The    *)
(* recursion materialize -> demand_application -> materialize_closure ->   *)
(* materialize is a stack of frames of two kinds, and Rust's `?` is the    *)
(* flag `raised` that unwinds it.                                          *)
(***************************************************************************)
EXTENDS Naturals, Sequences, FiniteSets, SequencesExt

CONSTANTS
    Instances,        \* the instances a program can name
    Entry,            \* the entry function's instance
    Programs,         \* the programs to elaborate
    INSTANCE_BUDGET,  \* the most instances one elaboration demands
    CTFE_FUEL,        \* the compile-time steps of one compilation
    Steps,            \* the numbers of steps an evaluation can execute
    None              \* no instance

ASSUME EntryAssumption == Entry \in Instances /\ None \notin Instances
ASSUME BoundsAssumption == /\ INSTANCE_BUDGET \in Nat \ {0}
                           /\ CTFE_FUEL \in Nat
                           /\ Steps \subseteq Nat \ {0}

\* What a body asks for.  In the substitution pass: the application an
\* expression is, the application a type carries (answered by substituting
\* again), the argument of a parameter its function removed (whose error is
\* dropped), one iteration of a `comptime for`.  In the rewriting of the
\* substituted body: calls, and applications again.
Targeted(ops) == [op : ops, to : Instances]
PassItem == Targeted({"apply", "type", "drop"}) \cup {[op |-> "unroll"]}
RestItem == Targeted({"call", "apply", "drop"})

\* What becomes of an instance besides what its items do: its body does not
\* elaborate, the fragment it would run in is refused, its run raises.
Outcome == {"fine", "fails", "refused", "raises"}

ProgramOK(p) ==
    /\ p.body \in [Instances -> [pass : Seq(PassItem), rest : Seq(RestItem)]]
    /\ p.outcome \in [Instances -> Outcome]

ASSUME ProgramsAssumption == \A p \in Programs : ProgramOK(p)

VARIABLES
    program,      \* the program being elaborated
    instances,    \* the demanded instances, in order
    states,       \* where each stands
    queue,        \* the worklist
    references,   \* what each instance's materialization demanded
    stack,        \* materializations and demands under way, innermost last
    raised,       \* the error being propagated
    enclosing,    \* the instance whose bindings the scratch state holds
    answered,     \* the applications of types answered so far
    fragments,    \* the fragment each demanded instance runs in
    evaluations,  \* the applications evaluated so far
    fuel,         \* the compile-time steps left
    result,       \* how the elaboration ended
    spent,        \* history: the steps really executed
    made          \* history: how often each instance was materialized

vars == <<program, instances, states, queue, references, stack, raised,
          enclosing, answered, fragments, evaluations, fuel, result, spent,
          made>>

demand == <<instances, states, queue>>
memo == <<answered, fragments, evaluations>>
meter == <<fuel, spent>>

-----------------------------------------------------------------------------
(* The stack of materializations and demands. *)

Top == Last(stack)

BodyFrame(n) == [kind |-> "body", inst |-> n, phase |-> "pass", at |-> 1, refs |-> <<>>]

\* Mutant of DemandFrame: the scratch state is put back empty.
DemandFrame_Unsaved(n, how, todo) ==
    [kind |-> "demand", inst |-> n, how |-> how, saved |-> None,
     todo |-> todo, seen |-> {}, closure |-> {}]

\* `how` is the item that demands; `saved` the FunctionFrame taken; `todo`,
\* `seen` and `closure` the locals of materialize_closure.
DemandFrame(n, how, todo) ==
    [kind |-> "demand", inst |-> n, how |-> how, saved |-> enclosing,
     todo |-> todo, seen |-> {}, closure |-> {}]

Replaced(frame) == Append(Front(stack), frame)

Running == result = "running" /\ raised = "none"
InBody == Running /\ stack # <<>> /\ Top.kind = "body"
InDemand == Running /\ stack # <<>> /\ Top.kind = "demand"

Items(frame) ==
    IF frame.phase = "pass" THEN program.body[frame.inst].pass ELSE program.body[frame.inst].rest
AtItem == InBody /\ Top.at <= Len(Items(Top))
AtEnd(phase) == InBody /\ Top.phase = phase /\ Top.at > Len(Items(Top))
Item == Items(Top)[Top.at]

Advanced(frame) == [frame EXCEPT !.at = @ + 1]

\* Mutant of Noted: a known instance is returned before it is noted.
Noted_New(frame, n) ==
    IF n \in DOMAIN states THEN frame ELSE [frame EXCEPT !.refs = Append(@, n)]

Noted(frame, n) == [frame EXCEPT !.refs = Append(@, n)]

-----------------------------------------------------------------------------
(* Operations. *)

Init ==
    /\ program \in Programs
    /\ instances = <<Entry>>
    /\ states = [n \in {Entry} |-> "Pending"]
    /\ queue = <<Entry>>
    /\ references = [n \in Instances |-> <<>>]
    /\ stack = <<>>
    /\ raised = "none"
    /\ enclosing = None
    /\ answered = {}
    /\ fragments = [n \in {} |-> {}]
    /\ evaluations = {}
    /\ fuel = CTFE_FUEL
    /\ result = "running"
    /\ spent = 0
    /\ made = [n \in Instances |-> 0]

\* enqueue: a known instance is found by its key; a new one is refused past
\* the budget, else it is pending and queued.
Known(n) == n \in DOMAIN states

WithinBudget(n) == Known(n) \/ Len(instances) < INSTANCE_BUDGET

Enqueue(n) ==
    IF Known(n)
    THEN UNCHANGED demand
    ELSE /\ instances' = Append(instances, n)
         /\ states' = [m \in DOMAIN states \cup {n} |->
                          IF m = n THEN "Pending" ELSE states[m]]
         /\ queue' = Append(queue, n)

\* materialize, up to its body.
Begin(n) ==
    /\ states' = [states EXCEPT ![n] = "Active"]
    /\ stack' = Append(stack, BodyFrame(n))
    /\ made' = [made EXCEPT ![n] = @ + 1]

\* drain: take the next instance of the queue, unless a demand has already
\* materialized it.

\* Mutant of DrainTakes: what a demand has materialized is taken again.
DrainTakes_Any ==
    /\ Running /\ stack = <<>> /\ queue # <<>>
    /\ queue' = Tail(queue)
    /\ Begin(Head(queue))
    /\ UNCHANGED <<program, instances, references, raised, enclosing, memo, meter, result>>

DrainTakes ==
    /\ Running /\ stack = <<>> /\ queue # <<>>
    /\ states[Head(queue)] = "Pending"
    /\ queue' = Tail(queue)
    /\ Begin(Head(queue))
    /\ UNCHANGED <<program, instances, references, raised, enclosing, memo, meter, result>>

\* Mutant of DrainSkips: what is skipped is put back.
DrainSkips_Requeued ==
    /\ Running /\ stack = <<>> /\ queue # <<>>
    /\ states[Head(queue)] # "Pending"
    /\ queue' = Append(Tail(queue), Head(queue))
    /\ UNCHANGED <<program, instances, states, references, stack, raised, enclosing, memo,
                   meter, result, made>>

DrainSkips ==
    /\ Running /\ stack = <<>> /\ queue # <<>>
    /\ states[Head(queue)] # "Pending"
    /\ queue' = Tail(queue)
    /\ UNCHANGED <<program, instances, states, references, stack, raised, enclosing, memo,
                   meter, result, made>>

Drained ==
    /\ Running /\ stack = <<>> /\ queue = <<>>
    /\ result' = "ok"
    /\ UNCHANGED <<program, demand, references, stack, raised, enclosing, memo, meter, made>>

\* A call of the body: a reference edge, which never waits.
Call ==
    /\ AtItem /\ Item.op = "call"
    /\ \/ /\ WithinBudget(Item.to)
          /\ Enqueue(Item.to)
          /\ stack' = Replaced(Advanced(Noted(Top, Item.to)))
          /\ UNCHANGED raised
       \/ /\ ~WithinBudget(Item.to)
          /\ raised' = "error"
          /\ UNCHANGED <<demand, stack>>
    /\ UNCHANGED <<program, references, enclosing, memo, meter, result, made>>

\* One iteration of a `comptime for` costs one step.
Unroll ==
    /\ AtItem /\ Item.op = "unroll"
    /\ \/ /\ fuel > 0
          /\ fuel' = fuel - 1
          /\ spent' = spent + 1
          /\ stack' = Replaced(Advanced(Top))
          /\ UNCHANGED raised
       \/ /\ fuel = 0
          /\ raised' = "fuel"
          /\ UNCHANGED <<fuel, spent, stack>>
    /\ UNCHANGED <<program, demand, references, enclosing, memo, result, made>>

\* An error at the item of the body on top: dropped, or the body's own.
Refuse(frame, error) ==
    IF Item.op = "drop"
    THEN stack' = Replaced(Advanced(frame)) /\ UNCHANGED raised
    ELSE stack' = Replaced(frame) /\ raised' = error

\* demand_application of the item: its instance is enqueued, and a reference
\* of the body whatever becomes of it.  An evaluation made before answers it;
\* a fragment made before is run again; else the closure is materialized now,
\* and the scratch state of the body put aside.
Applying == AtItem /\ Item.op \in {"apply", "type", "drop"}

Apply ==
    /\ Applying
    /\ Item.op = "type" => Item.to \notin answered
    /\ LET n == Item.to
           site == Noted(Top, n)
       IN \/ /\ ~WithinBudget(n)
             /\ Refuse(Top, "error")
             /\ UNCHANGED <<demand, enclosing, answered>>
          \/ /\ WithinBudget(n)
             /\ Enqueue(n)
             /\ \/ /\ n \in evaluations
                   /\ IF Item.op = "type"
                      THEN /\ answered' = answered \cup {n}
                           /\ stack' = Replaced([site EXCEPT !.at = 1])
                      ELSE /\ stack' = Replaced(Advanced(site))
                           /\ UNCHANGED answered
                   /\ UNCHANGED <<raised, enclosing>>
                \/ /\ n \notin evaluations
                   /\ n \in DOMAIN fragments
                   /\ stack' = Append(Replaced(site), DemandFrame(n, Item.op, <<>>))
                   /\ UNCHANGED <<raised, enclosing, answered>>
                \/ /\ n \notin evaluations \cup DOMAIN fragments
                   /\ Known(n) => states[n] \in {"Pending", "Completed"}
                   /\ stack' = Append(Replaced(site), DemandFrame(n, Item.op, <<n>>))
                   /\ enclosing' = None
                   /\ UNCHANGED <<raised, answered>>
                \/ /\ n \notin evaluations \cup DOMAIN fragments
                   /\ Known(n) /\ states[n] \in {"Active", "Failed"}
                   /\ Refuse(site, "error")
                   /\ UNCHANGED <<enclosing, answered>>
    /\ UNCHANGED <<program, references, fragments, evaluations, meter, result, made>>

\* A type whose application has its value folds.
Fold ==
    /\ Applying /\ Item.op = "type" /\ Item.to \in answered
    /\ stack' = Replaced(Advanced(Top))
    /\ UNCHANGED <<program, demand, references, raised, enclosing, memo, meter, result, made>>

\* The end of the substitution pass: the scratch state becomes this body's.
Settle ==
    /\ AtEnd("pass")
    /\ enclosing' = Top.inst
    /\ stack' = Replaced([Top EXCEPT !.phase = "rest", !.at = 1])
    /\ UNCHANGED <<program, demand, references, raised, memo, meter, result, made>>

\* An assertion, a rebind, a declaration or a type that does not elaborate
\* fails the body, before its calls are rewritten or after.
BodyFails ==
    /\ AtEnd("pass") \/ AtEnd("rest")
    /\ program.outcome[Top.inst] = "fails"
    /\ raised' = "error"
    /\ UNCHANGED <<program, demand, references, stack, enclosing, memo, meter, result, made>>

\* materialize, after its body.
End(state) ==
    /\ states' = [states EXCEPT ![Top.inst] = state]
    /\ references' = [references EXCEPT ![Top.inst] = Top.refs]
    /\ stack' = Front(stack)

Complete ==
    /\ AtEnd("rest")
    /\ program.outcome[Top.inst] # "fails"
    /\ End("Completed")
    /\ UNCHANGED <<program, instances, queue, raised, enclosing, memo, meter, result, made>>

\* materialize_closure: how the last of `todo` is met.  One seen before is
\* passed over, a pending one is materialized and met again, a completed one
\* joins the closure and its references are to do; one that failed, or that is
\* being materialized, is an error.
\* Mutant of Meets: one being materialized is passed over.
Meets_SkipsActive(m) ==
    IF m \in Top.seen \/ states[m] = "Active" THEN "Seen" ELSE states[m]

Meets(m) == IF m \in Top.seen THEN "Seen" ELSE states[m]

CloseOver ==
    /\ InDemand /\ Top.todo # <<>>
    /\ LET m == Last(Top.todo)
       IN \/ /\ Meets(m) = "Seen"
             /\ stack' = Replaced([Top EXCEPT !.todo = Front(@)])
             /\ UNCHANGED <<states, raised, made>>
          \/ /\ Meets(m) = "Pending"
             /\ Begin(m)
             /\ UNCHANGED raised
          \/ /\ Meets(m) = "Completed"
             /\ stack' = Replaced([Top EXCEPT !.todo = Front(@) \o references[m],
                                              !.seen = @ \cup {m},
                                              !.closure = @ \cup {m}])
             /\ UNCHANGED <<states, raised, made>>
          \/ /\ Meets(m) \in {"Failed", "Active"}
             /\ raised' = "error"
             /\ UNCHANGED <<states, stack, made>>
    /\ UNCHANGED <<program, instances, queue, references, enclosing, memo, meter, result>>

\* verified_fragment: the closure is verified, and must reach no effect.
MakeFragment ==
    /\ InDemand /\ Top.todo = <<>> /\ Top.inst \notin DOMAIN fragments
    /\ \/ /\ program.outcome[Top.inst] # "refused"
          /\ fragments' = [n \in DOMAIN fragments \cup {Top.inst} |->
                              IF n = Top.inst THEN Top.closure ELSE fragments[n]]
          /\ UNCHANGED raised
       \/ /\ program.outcome[Top.inst] = "refused"
          /\ raised' = "error"
          /\ UNCHANGED fragments
    /\ UNCHANGED <<program, demand, references, stack, enclosing, answered, evaluations,
                   meter, result, made>>

\* The frame the demand on top returns to, once its value is there: the item
\* is done, or the pass is made again with the type's application answered.
Returned ==
    LET site == stack[Len(stack) - 1]
    IN IF Top.how = "type" THEN [site EXCEPT !.at = 1] ELSE Advanced(site)

\* Mutant of Remaining: the fuel a run leaves is not taken.
Remaining_Untaken(steps) == fuel - 1

\* What a run that succeeds leaves.
Remaining(steps) == fuel - 1 - steps

\* The VM runs the fragment on the fuel there is, one step paid for entering.
\* What a run leaves is taken only from one that succeeds.
Evaluate ==
    /\ InDemand /\ Top.todo = <<>> /\ Top.inst \in DOMAIN fragments
    /\ \/ /\ fuel = 0
          /\ raised' = "fuel"
          /\ UNCHANGED <<stack, enclosing, answered, evaluations, meter>>
       \/ \E steps \in Steps :
             /\ fuel > 0 /\ steps > fuel - 1
             /\ fuel' = fuel - 1
             /\ spent' = spent + fuel
             /\ raised' = "fuel"
             /\ UNCHANGED <<stack, enclosing, answered, evaluations>>
       \/ \E steps \in Steps :
             /\ fuel > 0 /\ steps <= fuel - 1
             /\ program.outcome[Top.inst] = "raises"
             /\ fuel' = fuel - 1
             /\ spent' = spent + 1 + steps
             /\ raised' = "error"
             /\ UNCHANGED <<stack, enclosing, answered, evaluations>>
       \/ \E steps \in Steps :
             /\ fuel > 0 /\ steps <= fuel - 1
             /\ program.outcome[Top.inst] # "raises"
             /\ fuel' = Remaining(steps)
             /\ spent' = spent + 1 + steps
             /\ evaluations' = evaluations \cup {Top.inst}
             /\ answered' = IF Top.how = "type" THEN answered \cup {Top.inst} ELSE answered
             /\ enclosing' = Top.saved
             /\ stack' = Append(SubSeq(stack, 1, Len(stack) - 2), Returned)
             /\ UNCHANGED raised
    /\ UNCHANGED <<program, demand, references, fragments, result, made>>

\* An error leaves a body: its instance has failed, with what it had demanded.
UnwindBody ==
    /\ result = "running" /\ raised # "none" /\ stack # <<>> /\ Top.kind = "body"
    /\ End("Failed")
    /\ UNCHANGED <<program, instances, queue, raised, enclosing, memo, meter, result, made>>

\* An error leaves a demand: it is dropped at the argument of a removed
\* parameter, and the error of the body that demands everywhere else.
UnwindDemand ==
    /\ result = "running" /\ raised # "none" /\ stack # <<>> /\ Top.kind = "demand"
    /\ enclosing' = Top.saved
    /\ IF Top.how = "drop"
       THEN /\ raised' = "none"
            /\ stack' = Append(SubSeq(stack, 1, Len(stack) - 2), Returned)
       ELSE /\ stack' = Front(stack)
            /\ UNCHANGED raised
    /\ UNCHANGED <<program, demand, references, memo, meter, result, made>>

\* An error leaves drain, and ends the elaboration.
Fail ==
    /\ result = "running" /\ raised # "none" /\ stack = <<>>
    /\ result' = raised
    /\ UNCHANGED <<program, demand, references, stack, raised, enclosing, memo, meter, made>>

Next ==
    \/ DrainTakes \/ DrainSkips \/ Drained
    \/ Call \/ Unroll \/ Apply \/ Fold \/ Settle \/ BodyFails \/ Complete
    \/ CloseOver \/ MakeFragment \/ Evaluate
    \/ UnwindBody \/ UnwindDemand \/ Fail

\* The elaborator is one thread: it runs until it ends.
Spec == Init /\ [][Next]_vars /\ WF_vars(Next)

-----------------------------------------------------------------------------
(* What the bodies name. *)

Targets(items, ops) == {items[i].to : i \in {j \in DOMAIN items : items[j].op \in ops}}
Called(n) == Targets(program.body[n].rest, {"call"})
Applied(n) == Targets(program.body[n].pass, {"apply", "type"}) \cup Targets(program.body[n].rest, {"apply"})

\* No body asks for an argument whose error is dropped.
DropsNothing ==
    \A n \in Instances : /\ Targets(program.body[n].pass, {"drop"}) = {}
                         /\ Targets(program.body[n].rest, {"drop"}) = {}

\* The instances reached from n along the edges of `Edge`: the members of
\* every set that holds n and is closed under them.
Reached(n, Edge) ==
    {m \in Instances :
        \A S \in SUBSET Instances : (n \in S /\ UNION {Edge[k] : k \in S} \subseteq S) => m \in S}

AllEdges == [n \in Instances |-> Called(n) \cup Applied(n)]

-----------------------------------------------------------------------------
(* Properties. *)

\* Every variable holds a value of its type (InstanceState, FunctionFrame and
\* the fields of Specializer).
FrameOK(f) ==
    \/ /\ f.kind = "body"
       /\ f.inst \in DOMAIN states /\ f.phase \in {"pass", "rest"}
       /\ f.at \in 1..Len(Items(f)) + 1
       /\ f.refs \in Seq(DOMAIN states)
    \/ /\ f.kind = "demand"
       /\ f.inst \in DOMAIN states /\ f.how \in {"apply", "type", "drop"}
       /\ f.saved \in Instances \cup {None}
       /\ f.todo \in Seq(DOMAIN states)
       /\ f.seen \subseteq DOMAIN states /\ f.closure \subseteq DOMAIN states
TypeOK ==
    /\ ProgramOK(program)
    /\ instances \in Seq(Instances) /\ Len(instances) <= INSTANCE_BUDGET
    /\ DOMAIN states = Range(instances)
    /\ \A n \in DOMAIN states : states[n] \in {"Pending", "Active", "Completed", "Failed"}
    /\ queue \in Seq(DOMAIN states)
    /\ references \in [Instances -> Seq(DOMAIN states)]
    /\ \A i \in DOMAIN stack : FrameOK(stack[i])
    /\ raised \in {"none", "error", "fuel"}
    /\ enclosing \in Instances \cup {None}
    /\ answered \subseteq evaluations /\ evaluations \subseteq DOMAIN fragments
    /\ \A n \in DOMAIN fragments : n \in Instances /\ fragments[n] \subseteq Instances
    /\ fuel \in 0..CTFE_FUEL /\ spent \in Nat
    /\ result \in {"running", "ok", "error", "fuel"}
    /\ made \in [Instances -> Nat]

\* An instance is active exactly while a materialization of it is on the
\* stack, and a pending one is on the queue, where materialize_closure takes
\* its bindings from (the `expect` of "a pending instance is queued").
StatesInStep ==
    /\ \A n \in DOMAIN states :
          /\ states[n] = "Active"
                <=> \E i \in DOMAIN stack : stack[i].kind = "body" /\ stack[i].inst = n
          /\ states[n] = "Pending" => \E i \in DOMAIN queue : queue[i] = n
    /\ \A i, j \in DOMAIN stack :
          (stack[i].kind = "body" /\ stack[j].kind = "body" /\ stack[i].inst = stack[j].inst)
          => i = j

\* The queue, the states and the bodies under way tell one story, however
\* calls and demands meet: a demand that finds an instance pending finds it
\* queued, and an instance a demand has materialized, which stays on the
\* queue, is written once.
WorklistSound == StatesInStep /\ \A n \in Instances : made[n] <= 1

\* The fragment an application runs in holds its instance and everything the
\* members call, each with its body written: a fragment is kept for every
\* later run, so none may be made before its closure is complete.
FragmentClosed ==
    \A n \in DOMAIN fragments :
        /\ n \in fragments[n]
        /\ \A m \in fragments[n] : /\ states[m] = "Completed"
                                   /\ Called(m) \subseteq fragments[n]

\* While a body is rewritten the scratch state holds its own bindings, however
\* many bodies its demands have materialized in between (take_frame and
\* restore_frame).
OwnBindings ==
    (InBody /\ Top.phase = "rest") => enclosing = Top.inst

\* The verdict depends on the program and not on the order in which the
\* worklist meets its instances: where no error is dropped, an elaboration
\* that ends for another reason than fuel fails exactly when something the
\* entry reaches does not elaborate, is applied and cannot run, or is applied
\* by an instance it reaches in turn, or when more instances are reached than
\* the budget admits.
Wrong ==
    LET reached == Reached(Entry, AllEdges)
    IN \/ \E S \in SUBSET reached : IsFiniteSet(S) /\ Cardinality(S) > INSTANCE_BUDGET
       \/ \E n \in reached :
             \/ program.outcome[n] = "fails"
             \/ \E m \in Applied(n) : \/ program.outcome[m] \in {"refused", "raises"}
                                      \/ n \in Reached(m, AllEdges)
VerdictExact ==
    DropsNothing => /\ result = "ok" => ~Wrong
                    /\ result = "error" => Wrong

\* Where no error is dropped, the evaluations and the unrolled iterations of
\* one compilation, nested ones included, execute no more steps than its quota
\* (CTFE_FUEL: "a hard bound").
FuelBound == DropsNothing => spent <= CTFE_FUEL

\* The elaboration ends, recursion through calls and through applications
\* included.
Terminates == <>(result # "running")
=============================================================================
