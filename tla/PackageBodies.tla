---------------------------- MODULE PackageBodies ----------------------------
(***************************************************************************)
(* The lazily finished function bodies of an imported package:             *)
(* PackageBodies of mir/text/package.rs (get, finished, finish_body,       *)
(* unit_body, on_cycle, finishing_body) and the reader its finishing hook  *)
(* uses, Callees::body of analysis/pre_elaboration.rs.                     *)
(*                                                                         *)
(* A package is shared by the threads of a process.  Each body is finished *)
(* once, inside the OnceLock of its row of the function table, by the      *)
(* first thread that asks for it; a second thread waits.  Finishing a body *)
(* asks for the finished bodies of the callees its passes follow, so       *)
(* OnceLocks nest.  Two guards keep a thread out of its own: a callee on a *)
(* cycle of the LOWERED bodies' calls is refused, and so is one this       *)
(* thread is finishing, which it can reach through a call its finish has   *)
(* added (a destructor call that drop elaboration inserted, or a call of   *)
(* an inlined body).                                                       *)
(*                                                                         *)
(* A body is abstracted to the callees it asks for.  Lowering a unit takes *)
(* no lock but its own and is part of the step that reads it.              *)
(***************************************************************************)
EXTENDS Naturals, Sequences, FiniteSets

CONSTANTS
  Threads,      \* the threads that share the package
  Rows,         \* the rows of the package's function table
  MaxEdges,     \* bound: calls of all the bodies together
  MaxBroken,    \* bound: rows whose unit does not lower
  MaxRequests,  \* bound: bodies a thread asks for
  None

ASSUME BodiesAssumption ==
  /\ MaxEdges \in Nat
  /\ MaxBroken \in Nat
  /\ MaxRequests \in Nat
  /\ None \notin Threads \cup Rows

VARIABLES
  calls,      \* row -> the followed callees of its lowered body
  late,       \* row -> the followed callees its finish adds to them
  broken,     \* the rows whose unit does not lower
  decoded,    \* row -> its OnceLock: empty, its initialiser, or its body
  cycles,     \* row -> the memoized answer of on_cycle, or Unknown
  FINISHING,  \* thread -> the rows it is finishing (a thread_local)
  stack,      \* thread -> the finishes it is inside, innermost first
  op,         \* thread -> what it is doing for the innermost one
  requests    \* thread -> how many bodies it has asked for

graph == <<calls, late, broken>>
vars == <<calls, late, broken, decoded, cycles, FINISHING, stack, op, requests>>

\* Answers of on_cycle.
Unknown == "unknown"
Cyclic == "cyclic"
Acyclic == "acyclic"

Empty == [state |-> "empty"]
Running(t) == [state |-> "running", by |-> t]
Finished(read) == [state |-> "finished", read |-> read]

\* A finish under way: the callees it has yet to ask for and those it read.
Frame == [row: Rows, todo: SUBSET Rows, read: SUBSET Rows]

\* A thread between two calls; one that walks the lowered bodies for on_cycle;
\* one about to ask whether it is finishing a row; one inside get.
Idle == [do |-> "idle"]
Walk(c, seen, pending) == [do |-> "walk", row |-> c, seen |-> seen, pending |-> pending]
Guard(c) == [do |-> "guard", row |-> c]
Get(c) == [do |-> "get", row |-> c]

\* The followed callees of a body as its unit lowers to it.
Lowered(r) == IF r \in broken THEN {} ELSE calls[r]

\* Every callee a finish of the body asks for.
Asked(r) == IF r \in broken THEN {} ELSE calls[r] \cup late[r]

\* Whether r reaches itself along the graph g by one step or more: every set
\* that holds r's successors and is closed under g holds r.
ReachesItself(r, g) ==
  \A S \in SUBSET Rows :
    (/\ g[r] \subseteq S
     /\ \A s \in S : g[s] \subseteq S) => r \in S

OnCycle(r) == ReachesItself(r, [s \in Rows |-> Lowered(s)])

Edges(g) == {e \in Rows \X Rows : e[2] \in g[e[1]]}

Init ==
  /\ calls \in [Rows -> SUBSET Rows]
  /\ late \in [Rows -> SUBSET Rows]
  /\ Edges(calls) \cap Edges(late) = {}
  /\ Cardinality(Edges(calls) \cup Edges(late)) =< MaxEdges
  /\ broken \in SUBSET Rows
  /\ Cardinality(broken) =< MaxBroken
  /\ decoded = [r \in Rows |-> Empty]
  /\ cycles = [r \in Rows |-> Unknown]
  /\ FINISHING = [t \in Threads |-> {}]
  /\ stack = [t \in Threads |-> <<>>]
  /\ op = [t \in Threads |-> Idle]
  /\ requests = [t \in Threads |-> 0]

Do(t, o) == op' = [op EXCEPT ![t] = o]

----------------------------------------------------------------------------
\* A compilation asks for a body, outside any finish.
Request(t) ==
  /\ op[t] = Idle
  /\ stack[t] = <<>>
  /\ requests[t] < MaxRequests
  /\ \E r \in Rows : Do(t, Get(r))
  /\ requests' = [requests EXCEPT ![t] = @ + 1]
  /\ UNCHANGED <<graph, decoded, cycles, FINISHING, stack>>

\* get_or_init on an empty cell: this thread initialises it.  A unit that
\* lowers is finished by asking for its callees; one that does not has none.
Begin(t) ==
  LET r == op[t].row IN
  /\ op[t].do = "get"
  /\ decoded[r] = Empty
  /\ decoded' = [decoded EXCEPT ![r] = Running(t)]
  /\ FINISHING' = [FINISHING EXCEPT ![t] = @ \cup {r}]
  /\ stack' = [stack EXCEPT
       ![t] = <<[row |-> r, todo |-> Asked(r), read |-> {}]>> \o @]
  /\ Do(t, Idle)
  /\ UNCHANGED <<graph, cycles, requests>>

\* Mutant: a body another thread is finishing is taken to be missing.
ReturnWithoutWaiting(t) ==
  LET r == op[t].row IN
  /\ op[t].do = "get"
  /\ decoded[r] # Empty
  /\ stack' = IF stack[t] = <<>> \/ decoded[r].state = "running" THEN stack
              ELSE [stack EXCEPT ![t][1].read = @ \cup {r}]
  /\ Do(t, Idle)
  /\ UNCHANGED <<graph, decoded, cycles, FINISHING, requests>>

\* get_or_init on an initialised cell: the finish that asked for it reads the
\* body, if its unit lowered to one.  While another thread initialises the
\* cell the caller waits.
Return(t) ==
  LET r == op[t].row IN
  /\ op[t].do = "get"
  /\ decoded[r].state = "finished"
  /\ stack' = IF stack[t] = <<>> \/ r \in broken THEN stack
              ELSE [stack EXCEPT ![t][1].read = @ \cup {r}]
  /\ Do(t, Idle)
  /\ UNCHANGED <<graph, decoded, cycles, FINISHING, requests>>

\* Callees::body for the next callee asks on_cycle, which answers from its
\* memo or starts a walk of the lowered bodies.
Ask(t) ==
  /\ op[t] = Idle
  /\ stack[t] # <<>>
  /\ \E c \in stack[t][1].todo :
       /\ stack' = [stack EXCEPT ![t][1].todo = @ \ {c}]
       /\ \/ cycles[c] = Unknown /\ Do(t, Walk(c, {}, {c}))
          \/ cycles[c] = Cyclic /\ Do(t, Idle)
          \/ cycles[c] = Acyclic /\ Do(t, Guard(c))
  /\ UNCHANGED <<graph, decoded, cycles, FINISHING, requests>>

\* Mutant: a callee on a cycle is asked for like any other.
AnswerIgnored(t, answer) ==
  /\ cycles' = [cycles EXCEPT ![op[t].row] = answer]
  /\ Do(t, Guard(op[t].row))

\* on_cycle records its answer: a callee on a cycle is refused.
Answer(t, answer) ==
  /\ cycles' = [cycles EXCEPT ![op[t].row] = answer]
  /\ Do(t, IF answer = Cyclic THEN Idle ELSE Guard(op[t].row))

\* Mutant: the walk stops at the callees of the row asked about.
WalkShallow(t) ==
  LET w == op[t] IN
  /\ w.do = "walk"
  /\ \/ \E n \in w.pending :
          IF w.row \in Lowered(n)
          THEN Answer(t, Cyclic)
          ELSE Do(t, Walk(w.row, w.seen, w.pending \ {n})) /\ UNCHANGED cycles
     \/ w.pending = {} /\ Answer(t, Acyclic)
  /\ UNCHANGED <<graph, decoded, FINISHING, stack, requests>>

\* One turn of on_cycle's loop: a pending body's successors either hold the
\* row asked about, or join what is pending unless seen before.
WalkOn(t) ==
  LET w == op[t] IN
  /\ w.do = "walk"
  /\ \/ \E n \in w.pending :
          LET new == Lowered(n) \ w.seen IN
          IF w.row \in Lowered(n)
          THEN Answer(t, Cyclic)
          ELSE /\ Do(t, Walk(w.row, w.seen \cup new, (w.pending \ {n}) \cup new))
               /\ UNCHANGED cycles
     \/ w.pending = {} /\ Answer(t, Acyclic)
  /\ UNCHANGED <<graph, decoded, FINISHING, stack, requests>>

\* Mutant: only cycles of the lowered bodies are refused.
FinishingUnchecked(t, r) == FALSE

\* Callees::body refuses a callee this thread is finishing, and gets any other.
finishing_body(t, r) == r \in FINISHING[t]

GuardBody(t) ==
  /\ op[t].do = "guard"
  /\ Do(t, IF finishing_body(t, op[t].row) THEN Idle ELSE Get(op[t].row))
  /\ UNCHANGED <<graph, decoded, cycles, FINISHING, stack, requests>>

\* The finish is done: the row leaves FINISHING, its OnceLock is set, and the
\* get that began it returns to the finish below, which reads the body.
Finish(t) ==
  LET f == stack[t][1]
      below == Tail(stack[t])
  IN
  /\ op[t] = Idle
  /\ stack[t] # <<>>
  /\ f.todo = {}
  /\ decoded' = [decoded EXCEPT ![f.row] = Finished(f.read)]
  /\ FINISHING' = [FINISHING EXCEPT ![t] = @ \ {f.row}]
  /\ stack' = [stack EXCEPT ![t] =
       IF below = <<>> \/ f.row \in broken THEN below
       ELSE [below EXCEPT ![1].read = @ \cup {f.row}]]
  /\ UNCHANGED <<graph, cycles, op, requests>>

Step(t) ==
  \/ Begin(t) \/ Return(t) \/ Ask(t) \/ WalkOn(t) \/ GuardBody(t) \/ Finish(t)

Next == \E t \in Threads : Request(t) \/ Step(t)

Spec == Init /\ [][Next]_vars

\* A thread inside a call keeps running; whether it makes another is its own
\* affair.
FairSpec == Spec /\ \A t \in Threads : WF_vars(Step(t))

----------------------------------------------------------------------------
\* Types.
TypeOK ==
  /\ calls \in [Rows -> SUBSET Rows]
  /\ late \in [Rows -> SUBSET Rows]
  /\ broken \in SUBSET Rows
  /\ decoded \in [Rows -> {Empty} \cup [state: {"running"}, by: Threads]
                                  \cup [state: {"finished"}, read: SUBSET Rows]]
  /\ cycles \in [Rows -> {Unknown, Cyclic, Acyclic}]
  /\ FINISHING \in [Threads -> SUBSET Rows]
  /\ stack \in [Threads -> Seq(Frame)]
  /\ op \in [Threads -> {Idle} \cup [do: {"guard", "get"}, row: Rows]
                 \cup [do: {"walk"}, row: Rows, seen: SUBSET Rows, pending: SUBSET Rows]]
  /\ requests \in [Threads -> 0..MaxRequests]

\* No thread enters a OnceLock it is initialising, which std leaves to
\* deadlock or panic: not around a cycle of lowered calls and not around one
\* its finish closed.
NoReentry ==
  \A t \in Threads : op[t].do = "get" => decoded[op[t].row] # Running(t)

\* The memo of on_cycle tells, for every row it has an answer for, whether
\* the row lies on a cycle of the lowered bodies, whichever thread asked and
\* whichever body was finished first.
MemoSound == \A r \in Rows : cycles[r] # Unknown => (cycles[r] = Cyclic <=> OnCycle(r))

\* Finishing closes a cycle that the lowered bodies do not have.
ClosesCycle ==
  \E r \in Rows : ReachesItself(r, [s \in Rows |-> Asked(s)]) /\ ~OnCycle(r)

\* A finished body does not depend on the order bodies were asked for: it
\* read every callee it follows but those on a cycle and those that do not
\* lower.  So it is while finishing closes no cycle; around one it closes, the
\* body asked for first reads the others.
OrderIndependent ==
  ~ClosesCycle => \A r \in Rows : decoded[r].state = "finished" =>
    decoded[r].read = {c \in Asked(r) : ~OnCycle(c) /\ c \notin broken}

Waiting(t) == op[t].do = "get"
Returned(t) == op[t] = Idle /\ stack[t] = <<>>

\* Every call of get returns while finishing closes no cycle: no two threads
\* end up each waiting for a body the other is finishing.
Answered == \A t \in Threads : (Waiting(t) /\ ~ClosesCycle) ~> Returned(t)
=============================================================================
