--------------------------- MODULE PackageProofs ----------------------------
(***************************************************************************)
(* Proofs about the standard library's package: its lazily finished bodies *)
(* (PackageBodies), for packages of any number of functions, any calls     *)
(* between them, cycles that finishing closes included, and any number of  *)
(* threads; and its cache (PackageCache), for any number of processes and  *)
(* builds, whatever calls fail and whoever dies.                           *)
(***************************************************************************)
EXTENDS PackageBodies, PackageCache, TLAPS

\* A thread's FINISHING holds no row but those of the finishes it is inside.
FinishingStacked ==
  \A t \in Threads : \A r \in FINISHING[t] :
    \E i \in DOMAIN stack[t] : stack[t][i].row = r

\* A row whose OnceLock a thread is initialising is in its FINISHING.
RunningFinishing ==
  \A r \in Rows, t \in Threads : decoded[r] = Running(t) => r \in FINISHING[t]

\* A thread inside get is not finishing the row it asked for.
GetGuarded ==
  \A t \in Threads : op[t].do = "get" => op[t].row \notin FINISHING[t]

EntryInv == TypeOK /\ FinishingStacked /\ RunningFinishing /\ GetGuarded

\* What a walk for the row c has established: it has seen only rows c reaches,
\* and every row it has looked at leads only to rows seen, never to c.
Walked(c, seen, pending) ==
  /\ pending \subseteq seen \cup {c}
  /\ c \notin seen
  /\ \A n \in (seen \cup {c}) \ pending : Lowered(n) \subseteq seen
  /\ \A S \in SUBSET Rows :
       (/\ Lowered(c) \subseteq S
        /\ \A s \in S : Lowered(s) \subseteq S) => seen \subseteq S

WalksSound ==
  \A t \in Threads : op[t].do = "walk" => Walked(op[t].row, op[t].seen, op[t].pending)

MemoInv == TypeOK /\ WalksSound /\ MemoSound

----------------------------------------------------------------------------
\* What a thread may be doing.
Ops == {Idle} \cup [do: {"guard", "get"}, row: Rows]
         \cup [do: {"walk"}, row: Rows, seen: SUBSET Rows, pending: SUBSET Rows]

\* Replacing the head of a stack of finishes leaves a stack of finishes.
LEMMA HeadReplaced ==
  ASSUME NEW s \in Seq(Frame), s # <<>>, NEW f \in Frame
  PROVE  [s EXCEPT ![1] = f] \in Seq(Frame)
<1>1. s \in [1..Len(s) -> Frame] /\ Len(s) \in Nat
  OBVIOUS
<1>2. [s EXCEPT ![1] = f] \in [1..Len(s) -> Frame]
  BY <1>1
<1>. QED
  BY <1>1, <1>2

\* The parts of a thread's state.
LEMMA OpParts ==
  ASSUME TypeOK, NEW t \in Threads
  PROVE  /\ op[t] = Idle \/ op[t].row \in Rows
         /\ op[t].do = "walk" => /\ op[t].row \in Rows
                                 /\ op[t].seen \in SUBSET Rows
                                 /\ op[t].pending \in SUBSET Rows
         /\ op[t].do \in {"get", "guard"} => op[t].row \in Rows
BY DEF TypeOK, Idle

\* A package just read, with no body asked for, is well typed.
LEMMA TypeInit == Init => TypeOK
BY BodiesAssumption DEF Init, TypeOK, Empty, Unknown, Idle, Frame

\* Every step of a request keeps the types.
LEMMA TypeStep == TypeOK /\ [Next]_vars => TypeOK'
<1>. SUFFICES ASSUME TypeOK, [Next]_vars PROVE TypeOK'
  OBVIOUS
<1>1. CASE UNCHANGED vars
  BY <1>1 DEF vars, TypeOK
<1>2. CASE Next
  <2>1. PICK t \in Threads : Request(t) \/ Step(t)
    BY <1>2 DEF Next
  <2>2. CASE Request(t)
    BY <2>2, BodiesAssumption DEF Request, Do, Get, TypeOK, graph
  <2>3. CASE Begin(t)
    <3>1. op[t].row \in Rows
      BY <2>3, OpParts DEF Begin
    <3>2. [row |-> op[t].row, todo |-> Asked(op[t].row), read |-> {}] \in Frame
      BY <3>1 DEF TypeOK, Frame, Asked
    <3>3. stack' \in [Threads -> Seq(Frame)]
      BY <2>3, <3>2 DEF Begin, TypeOK
    <3>4. decoded' \in [Rows -> {Empty} \cup [state: {"running"}, by: Threads]
                                  \cup [state: {"finished"}, read: SUBSET Rows]]
      BY <2>3, <3>1 DEF Begin, TypeOK, Running
    <3>. QED
      BY <2>3, <3>1, <3>3, <3>4 DEF Begin, TypeOK, Do, graph
  <2>4. CASE Return(t)
    <3>1. op[t].row \in Rows
      BY <2>4, OpParts DEF Return
    <3>2. stack' \in [Threads -> Seq(Frame)]
      <4>1. CASE stack' = stack
        BY <4>1 DEF TypeOK
      <4>2. CASE stack[t] # <<>> /\ stack' = [stack EXCEPT ![t][1].read = @ \cup {op[t].row}]
        <5>1. stack[t] \in Seq(Frame) /\ stack[t][1] \in Frame
          BY <4>2 DEF TypeOK
        <5>2. [stack[t][1] EXCEPT !.read = @ \cup {op[t].row}] \in Frame
          BY <5>1, <3>1 DEF Frame
        <5>. QED
          BY <4>2, <5>1, <5>2 DEF TypeOK
      <4>. QED
        BY <2>4, <4>1, <4>2 DEF Return
    <3>. QED
      BY <2>4, <3>2 DEF Return, TypeOK, Do, graph
  <2>5. CASE Ask(t)
    <3>1. PICK c \in stack[t][1].todo :
            /\ stack' = [stack EXCEPT ![t][1].todo = @ \ {c}]
            /\ \/ Do(t, Walk(c, {}, {c}))
               \/ Do(t, Idle)
               \/ Do(t, Guard(c))
      BY <2>5 DEF Ask
    <3>2. stack[t] \in Seq(Frame) /\ stack[t] # <<>> /\ stack[t][1] \in Frame
      BY <2>5 DEF Ask, TypeOK
    <3>3. c \in Rows
      BY <3>1, <3>2 DEF Frame
    <3>4. [stack[t][1] EXCEPT !.todo = @ \ {c}] \in Frame
      BY <3>2 DEF Frame
    <3>5. stack' \in [Threads -> Seq(Frame)]
      BY <3>1, <3>2, <3>4 DEF TypeOK
    <3>6. /\ Walk(c, {}, {c}) \in Ops
          /\ Guard(c) \in Ops
          /\ Idle \in Ops
      BY <3>3 DEF Walk, Guard, Ops
    <3>7. op' \in [Threads -> Ops]
      BY <3>1, <3>6 DEF TypeOK, Do, Ops
    <3>. QED
      BY <2>5, <3>5, <3>7 DEF Ask, TypeOK, Ops, graph
  <2>6. CASE WalkOn(t)
    <3>1. /\ op[t].row \in Rows
          /\ op[t].seen \in SUBSET Rows
          /\ op[t].pending \in SUBSET Rows
      BY <2>6, OpParts DEF WalkOn
    <3>2. CASE \E answer \in {Cyclic, Acyclic} : Answer(t, answer)
      BY <2>6, <3>1, <3>2 DEF WalkOn, Answer, Do, Guard, TypeOK, graph
    <3>3. CASE \E n \in op[t].pending :
                 /\ Do(t, Walk(op[t].row, op[t].seen \cup (Lowered(n) \ op[t].seen),
                               (op[t].pending \ {n}) \cup (Lowered(n) \ op[t].seen)))
                 /\ UNCHANGED cycles
      <4>1. \A n \in Rows : Lowered(n) \in SUBSET Rows
        BY DEF Lowered, TypeOK
      <4>. QED
        BY <2>6, <3>1, <3>3, <4>1 DEF WalkOn, Do, Walk, TypeOK, graph
    <3>. QED
      BY <2>6, <3>2, <3>3 DEF WalkOn
  <2>7. CASE GuardBody(t)
    <3>1. op[t].row \in Rows
      BY <2>7, OpParts DEF GuardBody
    <3>. QED
      BY <2>7, <3>1 DEF GuardBody, Do, Get, TypeOK, graph
  <2>8. CASE Finish(t)
    <3>1. stack[t] \in Seq(Frame) /\ stack[t] # <<>> /\ stack[t][1] \in Frame
      BY <2>8 DEF Finish, TypeOK
    <3>2. Tail(stack[t]) \in Seq(Frame)
      BY <3>1
    <3>3. stack[t][1].row \in Rows /\ stack[t][1].read \in SUBSET Rows
      BY <3>1 DEF Frame
    <3>4. Tail(stack[t]) # <<>> =>
            [Tail(stack[t]) EXCEPT ![1].read = @ \cup {stack[t][1].row}] \in Seq(Frame)
      <4>1. SUFFICES ASSUME Tail(stack[t]) # <<>>
                     PROVE  [Tail(stack[t]) EXCEPT ![1].read = @ \cup {stack[t][1].row}]
                              \in Seq(Frame)
        OBVIOUS
      <4>2. Tail(stack[t])[1] \in Frame
        BY <3>2, <4>1
      <4>3. [Tail(stack[t])[1] EXCEPT !.read = @ \cup {stack[t][1].row}] \in Frame
        BY <3>3, <4>2 DEF Frame
      <4>. QED
        BY <3>2, <4>1, <4>2, <4>3, HeadReplaced
    <3>5. stack' \in [Threads -> Seq(Frame)]
      BY <2>8, <3>2, <3>4 DEF Finish, TypeOK
    <3>6. decoded' \in [Rows -> {Empty} \cup [state: {"running"}, by: Threads]
                                  \cup [state: {"finished"}, read: SUBSET Rows]]
      BY <2>8, <3>3 DEF Finish, Finished, TypeOK
    <3>. QED
      BY <2>8, <3>5, <3>6 DEF Finish, TypeOK, graph
  <2>. QED
    BY <2>1, <2>2, <2>3, <2>4, <2>5, <2>6, <2>7, <2>8 DEF Step
<1>. QED
  BY <1>1, <1>2

\* Whatever bodies are asked for by whatever threads, the state keeps its types.
THEOREM BodiesTypeCorrect == Spec => []TypeOK
<1>. QED
  BY TypeInit, TypeStep, PTL DEF Spec

----------------------------------------------------------------------------
(***************************************************************************)
(* No thread enters a OnceLock it is initialising.                         *)
(***************************************************************************)
\* Every step of a request keeps what the guards rest on.
LEMMA EntryStep == EntryInv /\ [Next]_vars => EntryInv'
<1>. SUFFICES ASSUME EntryInv, [Next]_vars PROVE EntryInv'
  OBVIOUS
<1>0. TypeOK /\ TypeOK'
  BY TypeStep DEF EntryInv
<1>1. CASE UNCHANGED vars
  BY <1>0, <1>1 DEF vars, EntryInv, FinishingStacked, RunningFinishing, GetGuarded
<1>2. CASE Next
  <2>1. PICK t \in Threads : Request(t) \/ Step(t)
    BY <1>2 DEF Next
  <2>2. CASE Request(t)
    <3>1. FINISHING[t] = {}
      BY <2>2, <1>0 DEF Request, EntryInv, FinishingStacked, TypeOK
    <3>2. GetGuarded'
      BY <2>2, <1>0, <3>1 DEF Request, Do, EntryInv, GetGuarded, TypeOK
    <3>. QED
      BY <2>2, <1>0, <3>2 DEF Request, EntryInv, FinishingStacked, RunningFinishing
  <2>3. CASE Begin(t)
    <3>1. op[t].row \in Rows
      BY <2>3, <1>0, OpParts DEF Begin
    <3>. DEFINE r == op[t].row
                f == [row |-> r, todo |-> Asked(r), read |-> {}]
    <3>2. /\ FINISHING' = [FINISHING EXCEPT ![t] = @ \cup {r}]
          /\ stack' = [stack EXCEPT ![t] = <<f>> \o @]
          /\ decoded' = [decoded EXCEPT ![r] = Running(t)]
          /\ op' = [op EXCEPT ![t] = Idle]
      BY <2>3 DEF Begin, Do
    <3>3. FinishingStacked'
      <4>1. stack[t] \in Seq(Frame) /\ f \in Frame
        BY <1>0, <3>1 DEF TypeOK, Frame, Asked
      <4>2. \A i \in DOMAIN stack[t] :
              i + 1 \in DOMAIN (<<f>> \o stack[t]) /\ (<<f>> \o stack[t])[i + 1] = stack[t][i]
        BY <4>1
      <4>3. 1 \in DOMAIN (<<f>> \o stack[t]) /\ (<<f>> \o stack[t])[1] = f
        BY <4>1
      <4>4. f.row = r
        OBVIOUS
      <4>. HIDE DEF f, r
      <4>5. \A q \in FINISHING[t] \cup {r} : \E i \in DOMAIN (<<f>> \o stack[t]) :
              (<<f>> \o stack[t])[i].row = q
        <5>1. ASSUME NEW q \in FINISHING[t]
              PROVE  \E i \in DOMAIN (<<f>> \o stack[t]) : (<<f>> \o stack[t])[i].row = q
          <6>1. PICK i \in DOMAIN stack[t] : stack[t][i].row = q
            BY DEF EntryInv, FinishingStacked
          <6>. QED
            BY <4>2, <6>1, Zenon
        <5>. QED
          BY <4>3, <4>4, <5>1, Zenon
      <4>6. \A u \in Threads \ {t} : FINISHING'[u] = FINISHING[u] /\ stack'[u] = stack[u]
        BY <3>2, <1>0 DEF TypeOK
      <4>7. FINISHING'[t] = FINISHING[t] \cup {r} /\ stack'[t] = <<f>> \o stack[t]
        BY <3>2, <1>0 DEF TypeOK
      <4>8. ASSUME NEW u \in Threads, NEW q \in FINISHING'[u]
            PROVE  \E i \in DOMAIN stack'[u] : stack'[u][i].row = q
        <5>1. CASE u = t
          BY <4>5, <4>7, <4>8, <5>1, Zenon
        <5>2. CASE u # t
          BY <4>6, <4>8, <5>2 DEF EntryInv, FinishingStacked
        <5>. QED
          BY <5>1, <5>2
      <4>. QED
        BY <4>8 DEF FinishingStacked
    <3>4. RunningFinishing'
      BY <3>1, <3>2, <1>0 DEF EntryInv, RunningFinishing, TypeOK, Running
    <3>5. GetGuarded'
      BY <3>2, <1>0 DEF EntryInv, GetGuarded, TypeOK, Idle
    <3>. QED
      BY <1>0, <3>3, <3>4, <3>5 DEF EntryInv
  <2>4. CASE Return(t) \/ Ask(t)
    <3>1. /\ FINISHING' = FINISHING
          /\ decoded' = decoded
      BY <2>4 DEF Return, Ask
    <3>2. \A u \in Threads : op'[u].do = "get" => op'[u] = op[u]
      <4>1. \/ op' = [op EXCEPT ![t] = Idle]
            \/ \E c : op' = [op EXCEPT ![t] = Walk(c, {}, {c})]
            \/ \E c : op' = [op EXCEPT ![t] = Guard(c)]
        BY <2>4 DEF Return, Ask, Do
      <4>. QED
        BY <4>1, <1>0 DEF TypeOK, Idle, Walk, Guard
    <3>3. \A u \in Threads : /\ DOMAIN stack'[u] = DOMAIN stack[u]
                             /\ \A i \in DOMAIN stack[u] : stack'[u][i].row = stack[u][i].row
      <4>1. \/ stack' = stack
            \/ /\ stack[t] # <<>>
               /\ \E c : \/ stack' = [stack EXCEPT ![t][1].todo = @ \ {c}]
                         \/ stack' = [stack EXCEPT ![t][1].read = @ \cup {c}]
        BY <2>4 DEF Return, Ask
      <4>2. stack \in [Threads -> Seq(Frame)]
        BY <1>0 DEF TypeOK
      <4>3. ASSUME NEW u \in Threads \ {t} PROVE stack'[u] = stack[u]
        BY <4>1, <4>2
      <4>4. CASE stack' = stack
        BY <4>4
      <4>5. ASSUME stack[t] # <<>>, NEW c,
                   \/ stack' = [stack EXCEPT ![t][1].todo = @ \ {c}]
                   \/ stack' = [stack EXCEPT ![t][1].read = @ \cup {c}]
            PROVE  /\ DOMAIN stack'[t] = DOMAIN stack[t]
                   /\ \A i \in DOMAIN stack[t] : stack'[t][i].row = stack[t][i].row
        <5>1. stack[t] \in Seq(Frame) /\ 1 \in DOMAIN stack[t] /\ stack[t][1] \in Frame
          BY <4>2, <4>5
        <5>2. \/ stack'[t] = [stack[t] EXCEPT ![1] = [stack[t][1] EXCEPT !.todo = @ \ {c}]]
              \/ stack'[t] = [stack[t] EXCEPT ![1] = [stack[t][1] EXCEPT !.read = @ \cup {c}]]
          BY <4>2, <4>5, <5>1
        <5>3. /\ [stack[t][1] EXCEPT !.todo = @ \ {c}].row = stack[t][1].row
              /\ [stack[t][1] EXCEPT !.read = @ \cup {c}].row = stack[t][1].row
          BY <5>1 DEF Frame
        <5>4. ASSUME NEW f, f.row = stack[t][1].row, stack'[t] = [stack[t] EXCEPT ![1] = f]
              PROVE  /\ DOMAIN stack'[t] = DOMAIN stack[t]
                     /\ \A i \in DOMAIN stack[t] : stack'[t][i].row = stack[t][i].row
          BY <5>1, <5>4
        <5>. QED
          BY <5>2, <5>3, <5>4
      <4>. QED
        BY <4>1, <4>3, <4>4, <4>5
    <3>. QED
      BY <1>0, <3>1, <3>2, <3>3
      DEF EntryInv, FinishingStacked, RunningFinishing, GetGuarded
  <2>5. CASE WalkOn(t)
    <3>1. UNCHANGED <<FINISHING, decoded, stack>>
      BY <2>5 DEF WalkOn
    <3>2. \A u \in Threads : op'[u].do = "get" => op'[u] = op[u]
      <4>1. \/ op' = [op EXCEPT ![t] = Idle]
            \/ \E c, seen, pending : op' = [op EXCEPT ![t] = Walk(c, seen, pending)]
            \/ \E c : op' = [op EXCEPT ![t] = Guard(c)]
        BY <2>5 DEF WalkOn, Answer, Do
      <4>. QED
        BY <4>1, <1>0 DEF TypeOK, Idle, Walk, Guard
    <3>. QED
      BY <1>0, <3>1, <3>2 DEF EntryInv, FinishingStacked, RunningFinishing, GetGuarded
  <2>6. CASE GuardBody(t)
    <3>1. UNCHANGED <<FINISHING, decoded, stack>>
      BY <2>6 DEF GuardBody
    <3>2. \/ op' = [op EXCEPT ![t] = Idle]
          \/ op[t].row \notin FINISHING[t] /\ op' = [op EXCEPT ![t] = Get(op[t].row)]
      BY <2>6 DEF GuardBody, Do, finishing_body
    <3>3. GetGuarded'
      <4>1. \A u \in Threads \ {t} : op'[u] = op[u]
        BY <1>0, <3>2 DEF TypeOK
      <4>2. op'[t].do = "get" => op'[t].row \notin FINISHING[t]
        BY <1>0, <3>2 DEF TypeOK, Idle, Get
      <4>. QED
        BY <3>1, <4>1, <4>2 DEF EntryInv, GetGuarded
    <3>. QED
      BY <1>0, <3>1, <3>3 DEF EntryInv, FinishingStacked, RunningFinishing
  <2>7. CASE Finish(t)
    <3>. DEFINE f == stack[t][1]
                below == Tail(stack[t])
    <3>1. /\ stack[t] \in Seq(Frame) /\ stack[t] # <<>>
          /\ f \in Frame /\ f.row \in Rows
          /\ below \in Seq(Frame)
      <4>1. stack[t] \in Seq(Frame) /\ stack[t] # <<>>
        BY <2>7, <1>0 DEF Finish, TypeOK
      <4>2. f \in Frame /\ below \in Seq(Frame)
        BY <4>1
      <4>. QED
        BY <4>1, <4>2 DEF Frame
    <3>2. /\ FINISHING' = [FINISHING EXCEPT ![t] = @ \ {f.row}]
          /\ decoded' = [decoded EXCEPT ![f.row] = Finished(f.read)]
          /\ op' = op
          /\ op[t] = Idle
      BY <2>7 DEF Finish
    <3>3. /\ DOMAIN stack'[t] = DOMAIN below
          /\ \A i \in DOMAIN below : stack'[t][i].row = below[i].row
      <4>1. CASE stack' = [stack EXCEPT ![t] = below]
        BY <4>1, <1>0 DEF TypeOK
      <4>2. CASE /\ below # <<>>
                 /\ stack' = [stack EXCEPT ![t] = [below EXCEPT ![1].read = @ \cup {f.row}]]
        <5>1. stack'[t] = [below EXCEPT ![1].read = @ \cup {f.row}]
          BY <4>2, <1>0 DEF TypeOK
        <5>. HIDE DEF below, f
        <5>. QED
          BY <5>1, <3>1, <4>2 DEF Frame
      <4>. QED
        BY <2>7, <4>1, <4>2 DEF Finish
    <3>4. \A u \in Threads \ {t} : stack'[u] = stack[u] /\ FINISHING'[u] = FINISHING[u]
      BY <2>7, <1>0, <3>2 DEF Finish, TypeOK
    <3>5. \A i \in DOMAIN stack[t] : i = 1 \/ (i - 1 \in DOMAIN below /\ below[i - 1] = stack[t][i])
      BY <3>1
    <3>6. \A r \in FINISHING[t] \ {f.row} : \E i \in DOMAIN below : below[i].row = r
      BY <3>5 DEF EntryInv, FinishingStacked
    <3>7. FINISHING'[t] = FINISHING[t] \ {f.row}
      BY <1>0, <3>2 DEF TypeOK
    <3>. HIDE DEF below, f
    <3>8. FinishingStacked'
      BY <3>3, <3>4, <3>6, <3>7 DEF EntryInv, FinishingStacked
    <3>9. RunningFinishing'
      <4>1. \A u \in Threads : Finished(f.read) # Running(u)
        BY DEF Finished, Running
      <4>2. \A r \in Rows : decoded'[r] = IF r = f.row THEN Finished(f.read) ELSE decoded[r]
        BY <1>0, <3>1, <3>2 DEF TypeOK
      <4>. QED
        BY <3>4, <3>7, <4>1, <4>2 DEF EntryInv, RunningFinishing
    <3>10. GetGuarded'
      BY <3>2, <3>4, <3>7 DEF EntryInv, GetGuarded, Idle
    <3>. QED
      BY <1>0, <3>8, <3>9, <3>10 DEF EntryInv
  <2>. QED
    BY <2>1, <2>2, <2>3, <2>4, <2>5, <2>6, <2>7 DEF Step
<1>. QED
  BY <1>1, <1>2

\* The invariant the guards of Callees::body keep: a thread's FINISHING covers
\* every OnceLock it is initialising, and get is called outside it.
THEOREM BodiesEntryInvariant == Spec => []EntryInv
<1>1. Init => EntryInv
  <2>. SUFFICES ASSUME Init PROVE EntryInv
    OBVIOUS
  <2>1. TypeOK
    BY TypeInit
  <2>. QED
    BY <2>1 DEF Init, EntryInv, FinishingStacked, RunningFinishing, GetGuarded, Idle, Empty,
                Running
<1>. QED
  BY <1>1, EntryStep, PTL DEF Spec

\* No thread calls get_or_init on a OnceLock it is itself initialising.
THEOREM BodiesNoReentry == Spec => []NoReentry
<1>1. EntryInv => NoReentry
  <2>. SUFFICES ASSUME EntryInv, NEW t \in Threads, op[t].do = "get"
                PROVE  decoded[op[t].row] # Running(t)
    BY DEF NoReentry
  <2>1. op[t].row \in Rows
    BY OpParts DEF EntryInv
  <2>. QED
    BY <2>1 DEF EntryInv, RunningFinishing, GetGuarded
<1>. QED
  BY <1>1, BodiesEntryInvariant, PTL

----------------------------------------------------------------------------
(***************************************************************************)
(* The memo of on_cycle.                                                   *)
(***************************************************************************)
\* A walk that has nothing pending has shown its row to be on no cycle, and
\* one that meets its row again that it is on one.
LEMMA WalkAnswers ==
  ASSUME TypeOK, NEW c \in Rows, NEW seen \in SUBSET Rows, NEW pending,
         Walked(c, seen, pending)
  PROVE  /\ pending = {} => ~OnCycle(c)
         /\ (\E n \in pending : c \in Lowered(n)) => OnCycle(c)
<1>. DEFINE g == [s \in Rows |-> Lowered(s)]
<1>1. pending = {} => ~OnCycle(c)
  <2>. SUFFICES ASSUME pending = {} PROVE ~OnCycle(c)
    OBVIOUS
  <2>1. g[c] \subseteq seen /\ \A s \in seen : g[s] \subseteq seen
    BY DEF Walked
  <2>2. c \notin seen
    BY DEF Walked
  <2>. QED
    BY <2>1, <2>2 DEF OnCycle, ReachesItself
<1>2. ASSUME NEW n \in pending, c \in Lowered(n) PROVE OnCycle(c)
  <2>. SUFFICES ASSUME NEW S \in SUBSET Rows, g[c] \subseteq S, \A s \in S : g[s] \subseteq S
                PROVE  c \in S
    BY DEF OnCycle, ReachesItself
  <2>1. Lowered(c) \subseteq S /\ \A s \in S : Lowered(s) \subseteq S
    OBVIOUS
  <2>2. seen \subseteq S
    BY <2>1 DEF Walked
  <2>3. n = c \/ n \in seen
    BY DEF Walked
  <2>. QED
    BY <1>2, <2>1, <2>2, <2>3
<1>. QED
  BY <1>1, <1>2

\* A turn of the walk keeps what it has established.
LEMMA WalkTurn ==
  ASSUME NEW c \in Rows, NEW seen, NEW pending, Walked(c, seen, pending),
         NEW n \in pending, c \notin Lowered(n)
  PROVE  Walked(c, seen \cup (Lowered(n) \ seen), (pending \ {n}) \cup (Lowered(n) \ seen))
<1>1. n = c \/ n \in seen
  BY DEF Walked
<1>2. ASSUME NEW S \in SUBSET Rows, Lowered(c) \subseteq S, \A s \in S : Lowered(s) \subseteq S
      PROVE  seen \cup (Lowered(n) \ seen) \subseteq S
  <2>1. seen \subseteq S
    BY <1>2 DEF Walked
  <2>. QED
    BY <1>1, <1>2, <2>1
<1>. QED
  BY <1>1, <1>2 DEF Walked

\* Every step of every thread keeps the memo and the walks sound.
LEMMA MemoStep == MemoInv /\ [Next]_vars => MemoInv'
<1>. SUFFICES ASSUME MemoInv, [Next]_vars PROVE MemoInv'
  OBVIOUS
<1>0. TypeOK /\ TypeOK'
  BY TypeStep DEF MemoInv
<1>1. UNCHANGED graph
  BY DEF Next, Step, Request, Begin, Return, Ask, WalkOn, GuardBody, Finish, vars, graph
<1>2. \A r : Lowered(r)' = Lowered(r)
  BY <1>1 DEF graph, Lowered
<1>3. /\ \A c, seen, pending : Walked(c, seen, pending)' <=> Walked(c, seen, pending)
      /\ \A r : OnCycle(r)' <=> OnCycle(r)
  BY <1>1 DEF graph, Walked, Lowered, OnCycle, ReachesItself
<1>4. CASE cycles' = cycles /\ \A u \in Threads : op'[u].do = "walk" => op'[u] = op[u]
  BY <1>0, <1>3, <1>4 DEF MemoInv, WalksSound, MemoSound
<1>5. CASE Next
  <2>1. PICK t \in Threads : Request(t) \/ Step(t)
    BY <1>5 DEF Next
  <2>2. CASE Request(t) \/ Begin(t) \/ Return(t) \/ GuardBody(t) \/ Finish(t)
    <3>1. cycles' = cycles /\ \E o : o.do # "walk" /\ (op' = op \/ op' = [op EXCEPT ![t] = o])
      BY <2>2 DEF Request, Begin, Return, GuardBody, Finish, Do, Idle, Get
    <3>. QED
      BY <3>1, <1>0, <1>4 DEF TypeOK
  <2>3. CASE Ask(t)
    <3>1. PICK c \in stack[t][1].todo :
             op' \in {[op EXCEPT ![t] = o] : o \in {Walk(c, {}, {c}), Idle, Guard(c)}}
      BY <2>3 DEF Ask, Do
    <3>2. stack[t][1] \in Frame
      BY <2>3, <1>0 DEF Ask, TypeOK
    <3>3. c \in Rows
      BY <3>2 DEF Frame
    <3>4. Walked(c, {}, {c})
      BY <3>3 DEF Walked
    <3>5. WalksSound'
      <4>1. \A u \in Threads : op'[u].do = "walk" =>
              op'[u] = op[u] \/ op'[u] = Walk(c, {}, {c})
        BY <3>1, <1>0 DEF TypeOK, Idle, Guard
      <4>2. \A u \in Threads : op'[u].do = "walk" =>
              Walked(op'[u].row, op'[u].seen, op'[u].pending)
        <5>1. /\ Walk(c, {}, {c}).row = c
              /\ Walk(c, {}, {c}).seen = {}
              /\ Walk(c, {}, {c}).pending = {c}
          BY DEF Walk
        <5>. QED
          BY <4>1, <3>4, <5>1, Zenon DEF MemoInv, WalksSound
      <4>. QED
        BY <4>2, <1>3 DEF WalksSound
    <3>6. cycles' = cycles
      BY <2>3 DEF Ask
    <3>. QED
      BY <1>0, <1>3, <3>5, <3>6 DEF MemoInv, MemoSound
  <2>4. CASE WalkOn(t)
    <3>. DEFINE c == op[t].row
                seen == op[t].seen
                pending == op[t].pending
    <3>1. /\ c \in Rows /\ seen \in SUBSET Rows
          /\ Walked(c, seen, pending)
      BY <2>4, <1>0, OpParts DEF WalkOn, MemoInv, WalksSound
    <3>2. CASE \E n \in pending : c \in Lowered(n) /\ Answer(t, Cyclic)
      <4>1. OnCycle(c)
        BY <1>0, <3>1, <3>2, WalkAnswers
      <4>2. cycles' = [cycles EXCEPT ![c] = Cyclic] /\ op' = [op EXCEPT ![t] = Idle]
        BY <3>2 DEF Answer, Do
      <4>3. MemoSound'
        BY <4>1, <4>2, <1>0, <1>3 DEF MemoInv, MemoSound, TypeOK
      <4>4. WalksSound'
        BY <4>2, <1>0, <1>3 DEF MemoInv, WalksSound, TypeOK, Idle
      <4>. QED
        BY <1>0, <4>3, <4>4 DEF MemoInv
    <3>3. CASE pending = {} /\ Answer(t, Acyclic)
      <4>1. ~OnCycle(c)
        BY <1>0, <3>1, <3>3, WalkAnswers
      <4>2. /\ cycles' = [cycles EXCEPT ![c] = Acyclic]
            /\ op' = [op EXCEPT ![t] = Guard(c)]
        BY <3>3 DEF Answer, Do, Cyclic, Acyclic
      <4>3. MemoSound'
        BY <4>1, <4>2, <1>0, <1>3 DEF MemoInv, MemoSound, TypeOK, Cyclic, Acyclic
      <4>4. WalksSound'
        BY <4>2, <1>0, <1>3 DEF MemoInv, WalksSound, TypeOK, Guard
      <4>. QED
        BY <1>0, <4>3, <4>4 DEF MemoInv
    <3>4. CASE \E n \in pending :
                 /\ c \notin Lowered(n)
                 /\ Do(t, Walk(c, seen \cup (Lowered(n) \ seen),
                               (pending \ {n}) \cup (Lowered(n) \ seen)))
                 /\ UNCHANGED cycles
      <4>1. PICK n \in pending :
                 /\ c \notin Lowered(n)
                 /\ Do(t, Walk(c, seen \cup (Lowered(n) \ seen),
                               (pending \ {n}) \cup (Lowered(n) \ seen)))
                 /\ UNCHANGED cycles
        BY <3>4
      <4>. DEFINE s2 == seen \cup (Lowered(n) \ seen)
                  p2 == (pending \ {n}) \cup (Lowered(n) \ seen)
      <4>2. Walked(c, s2, p2)
        BY <3>1, <4>1, WalkTurn
      <4>3. op' = [op EXCEPT ![t] = Walk(c, s2, p2)]
        BY <4>1 DEF Do
      <4>. HIDE DEF s2, p2, c, seen, pending
      <4>4. \A u \in Threads : op'[u].do = "walk" =>
              op'[u] = op[u] \/ op'[u] = Walk(c, s2, p2)
        BY <4>3, <1>0 DEF TypeOK
      <4>5. \A u \in Threads : op'[u].do = "walk" =>
              Walked(op'[u].row, op'[u].seen, op'[u].pending)
        BY <4>2, <4>4 DEF MemoInv, WalksSound, Walk
      <4>6. WalksSound'
        BY <4>5, <1>3 DEF WalksSound
      <4>. QED
        BY <1>0, <1>3, <4>1, <4>6 DEF MemoInv, MemoSound
    <3>. QED
      BY <2>4, <3>2, <3>3, <3>4 DEF WalkOn
  <2>. QED
    BY <2>1, <2>2, <2>3, <2>4 DEF Step
<1>6. CASE UNCHANGED vars
  BY <1>4, <1>6 DEF vars
<1>. QED
  BY <1>5, <1>6

\* For any package and any number of threads filling one memo, on_cycle's
\* answers say exactly which bodies lie on a cycle of the lowered calls.
THEOREM BodiesMemoSound == Spec => []MemoSound
<1>1. Init => MemoInv
  <2>. SUFFICES ASSUME Init PROVE MemoInv
    OBVIOUS
  <2>1. TypeOK
    BY TypeInit
  <2>. QED
    BY <2>1 DEF Init, MemoInv, WalksSound, MemoSound, Idle
<1>2. MemoInv => MemoSound
  BY DEF MemoInv
<1>. QED
  BY <1>1, <1>2, MemoStep, PTL DEF Spec
----------------------------------------------------------------------------
(***************************************************************************)
(* What a finished body has read.                                          *)
(*                                                                         *)
(* Each finish a thread is inside accounts for the callees it has to read: *)
(* it has read them, has yet to ask for them, or is asking for one now.    *)
(* The guard of Callees::body is what could drop one.  It refuses only a   *)
(* row this thread is finishing, and the finishes of a thread lead from    *)
(* each row to every row above it, so a refused row reaches itself along   *)
(* the calls that finishes ask for: finishing closes a cycle.              *)
(***************************************************************************)
\* Some path of followed callees, those finishing adds included, leads from a to b.
Leads(a, b) ==
  \A S \in SUBSET Rows :
    (/\ Asked(a) \subseteq S
     /\ \A q \in S : Asked(q) \subseteq S) => b \in S

\* The bodies a finish of r reads when no callee is refused but those on a
\* cycle of the lowered bodies.
Readable(r) == {c \in Asked(r) : ~OnCycle(c) /\ c \notin broken}

\* The callee that the i-th finish of the stack s is asking for: the row of
\* the finish above it, or of what its thread is doing.
Under(s, o, i) == IF i > 1 THEN {s[i - 1].row} ELSE IF o = Idle THEN {} ELSE {o.row}

\* A finish has read nothing else, and misses no body it should read.
Accounted(f, now) ==
  /\ f.todo \subseteq Asked(f.row)
  /\ f.read \subseteq Readable(f.row)
  /\ ~ClosesCycle => Readable(f.row) \subseteq f.read \cup f.todo \cup now

\* Every finish but the outermost is of a callee of the one below it that lies
\* on no cycle, so each leads to all those above it.
Nested(s) ==
  \A i \in DOMAIN s :
    /\ \A j \in 1..(i - 1) : Leads(s[i].row, s[j].row)
    /\ i > 1 => s[i - 1].row \in Asked(s[i].row) /\ ~OnCycle(s[i - 1].row)

\* What a thread is doing inside a finish is about a callee of its body, one
\* on no cycle once on_cycle has answered.
Followed(s, o) ==
  s # <<>> /\ o # Idle =>
    /\ o.row \in Asked(s[1].row)
    /\ o.do # "walk" => ~OnCycle(o.row)

FollowsCalls(s, o) ==
  /\ \A i \in DOMAIN s : Accounted(s[i], Under(s, o, i))
  /\ Nested(s)
  /\ Followed(s, o)

ReadInv ==
  /\ EntryInv
  /\ MemoInv
  /\ \A t \in Threads : FollowsCalls(stack[t], op[t])
  /\ OrderIndependent

\* The reading of a package fixes its graph, and with it what finishes read.
LEMMA GraphFixed ==
  ASSUME UNCHANGED graph
  PROVE  /\ \A s, o : FollowsCalls(s, o)' <=> FollowsCalls(s, o)
         /\ ClosesCycle' <=> ClosesCycle
         /\ \A r : Readable(r)' = Readable(r)
<1>1. /\ calls' = calls /\ late' = late /\ broken' = broken
  BY DEF graph
<1>2. \A r : Asked(r)' = Asked(r) /\ Lowered(r)' = Lowered(r)
  BY <1>1 DEF Asked, Lowered
<1>3. \A r : OnCycle(r)' <=> OnCycle(r)
  BY <1>1 DEF OnCycle, ReachesItself, Lowered
<1>4. ClosesCycle' <=> ClosesCycle
  BY <1>1 DEF ClosesCycle, OnCycle, ReachesItself, Asked, Lowered
<1>5. \A r : Readable(r)' = Readable(r)
  BY <1>1, <1>2, <1>3 DEF Readable
<1>6. \A a, b : Leads(a, b)' <=> Leads(a, b)
  BY <1>2 DEF Leads
<1>7. \A f, now : Accounted(f, now)' <=> Accounted(f, now)
  BY <1>2, <1>4, <1>5 DEF Accounted
<1>8. \A s : Nested(s)' <=> Nested(s)
  BY <1>2, <1>3, <1>6 DEF Nested
<1>9. \A s, o : Followed(s, o)' <=> Followed(s, o)
  BY <1>2, <1>3 DEF Followed
<1>10. \A s, o, i : Under(s, o, i)' = Under(s, o, i)
  BY DEF Under
<1>. QED
  BY <1>4, <1>5, <1>7, <1>8, <1>9, <1>10 DEF FollowsCalls

\* A callee of a body that a leads to is one that a leads to.
LEMMA LeadsOn ==
  ASSUME NEW a, NEW b \in Rows, NEW c, Leads(a, b) \/ a = b, c \in Asked(b)
  PROVE  Leads(a, c)
BY DEF Leads

\* A step inside the innermost finish that keeps its row and accounts for its
\* callees leaves the finishes below it as they were.
LEMMA HeadAccounts ==
  ASSUME NEW s \in Seq(Frame), NEW s2 \in Seq(Frame), NEW o, NEW o2, FollowsCalls(s, o),
         Len(s2) = Len(s),
         \A i \in 1..Len(s) : s2[i].row = s[i].row /\ (i > 1 => s2[i] = s[i]),
         s # <<>> => Accounted(s2[1], Under(s2, o2, 1)),
         Followed(s2, o2)
  PROVE  FollowsCalls(s2, o2)
<1>1. DOMAIN s = 1..Len(s) /\ DOMAIN s2 = 1..Len(s) /\ Len(s) \in Nat
  OBVIOUS
<1>2. ASSUME NEW i \in DOMAIN s2 PROVE Accounted(s2[i], Under(s2, o2, i))
  <2>1. CASE i = 1
    BY <1>1, <2>1
  <2>2. CASE i > 1
    <3>1. i - 1 \in 1..Len(s) /\ i \in 1..Len(s)
      BY <1>1, <2>2
    <3>2. Under(s2, o2, i) = Under(s, o, i)
      BY <2>2, <3>1 DEF Under
    <3>3. s2[i] = s[i]
      BY <2>2, <3>1
    <3>4. Accounted(s[i], Under(s, o, i))
      BY <1>1, <3>1 DEF FollowsCalls
    <3>. QED
      BY <3>2, <3>3, <3>4
  <2>. QED
    BY <1>1, <2>1, <2>2
<1>3. Nested(s2)
  <2>1. Nested(s)
    BY DEF FollowsCalls
  <2>2. ASSUME NEW i \in DOMAIN s2
        PROVE  /\ \A j \in 1..(i - 1) : Leads(s2[i].row, s2[j].row)
               /\ i > 1 => s2[i - 1].row \in Asked(s2[i].row) /\ ~OnCycle(s2[i - 1].row)
    <3>1. i \in 1..Len(s) /\ \A j \in 1..(i - 1) : j \in 1..Len(s)
      BY <1>1
    <3>2. s2[i].row = s[i].row /\ \A j \in 1..(i - 1) : s2[j].row = s[j].row
      BY <3>1
    <3>3. i > 1 => i - 1 \in 1..(i - 1)
      BY <3>1
    <3>. QED
      BY <1>1, <2>1, <3>1, <3>2, <3>3 DEF Nested
  <2>. QED
    BY <2>2 DEF Nested
<1>. QED
  BY <1>2, <1>3 DEF FollowsCalls

\* A body just begun has all its callees to ask for.
LEMMA BegunAccounts ==
  ASSUME TypeOK, NEW s \in Seq(Frame), NEW r \in Rows, NEW f \in Frame, NEW o,
         f.row = r, f.todo = Asked(r), f.read = {},
         o # Idle, o.row = r, o.do # "walk", FollowsCalls(s, o)
  PROVE  FollowsCalls(<<f>> \o s, Idle)
<1>. DEFINE s2 == <<f>> \o s
<1>1. /\ s2 \in Seq(Frame) /\ Len(s2) = Len(s) + 1 /\ Len(s) \in Nat
      /\ DOMAIN s2 = 1..(Len(s) + 1) /\ DOMAIN s = 1..Len(s)
      /\ s2[1] = f
      /\ \A i \in 2..(Len(s) + 1) : s2[i] = s[i - 1]
  OBVIOUS
<1>. HIDE DEF s2
<1>2. ASSUME NEW i \in DOMAIN s2 PROVE Accounted(s2[i], Under(s2, Idle, i))
  <2>1. CASE i = 1
    BY <1>1, <2>1 DEF Accounted, Readable
  <2>2. CASE i = 2
    <3>1. Under(s2, Idle, i) = {r} /\ Under(s, o, 1) = {r} /\ s2[i] = s[1] /\ 1 \in DOMAIN s
      BY <1>1, <2>2 DEF Under
    <3>. QED
      BY <3>1 DEF FollowsCalls
  <2>3. CASE i > 2
    <3>1. i - 1 \in DOMAIN s /\ s2[i] = s[i - 1] /\ s2[i - 1] = s[i - 1 - 1]
      BY <1>1, <2>3
    <3>2. Under(s2, Idle, i) = Under(s, o, i - 1)
      BY <1>1, <2>3, <3>1 DEF Under
    <3>3. Accounted(s[i - 1], Under(s, o, i - 1))
      BY <3>1 DEF FollowsCalls
    <3>. QED
      BY <3>1, <3>2, <3>3
  <2>. QED
    BY <1>1, <2>1, <2>2, <2>3
<1>3. ASSUME NEW i \in DOMAIN s2
      PROVE  /\ \A j \in 1..(i - 1) : Leads(s2[i].row, s2[j].row)
             /\ i > 1 => s2[i - 1].row \in Asked(s2[i].row) /\ ~OnCycle(s2[i - 1].row)
  <2>1. CASE i = 1
    BY <2>1
  <2>2. CASE i > 1
    <3>1. i - 1 \in DOMAIN s /\ s2[i] = s[i - 1] /\ 1 \in DOMAIN s /\ s # <<>>
      BY <1>1, <2>2
    <3>2. r \in Asked(s[1].row) /\ ~OnCycle(r)
      BY <3>1 DEF FollowsCalls, Followed
    <3>3. Nested(s)
      BY DEF FollowsCalls
    <3>4. s[1].row \in Rows
      <4>1. s[1] \in Frame
        BY <3>1
      <4>. QED
        BY <4>1 DEF Frame
    <3>5. Leads(s[i - 1].row, s[1].row) \/ s[i - 1].row = s[1].row
      <4>1. i - 1 = 1 \/ 1 \in 1..(i - 1 - 1)
        BY <1>1, <2>2
      <4>. QED
        BY <3>1, <3>3, <4>1 DEF Nested
    <3>6. Leads(s[i - 1].row, r)
      BY <3>2, <3>4, <3>5, LeadsOn
    <3>7. ASSUME NEW j \in 1..(i - 1) PROVE Leads(s2[i].row, s2[j].row)
      <4>1. CASE j = 1
        BY <1>1, <3>1, <3>6, <4>1
      <4>2. CASE j > 1
        <5>1. j - 1 \in 1..(i - 1 - 1) /\ s2[j] = s[j - 1]
          BY <1>1, <2>2, <4>2
        <5>. QED
          BY <3>1, <3>3, <5>1 DEF Nested
      <4>. QED
        BY <4>1, <4>2
    <3>8. s2[i - 1].row \in Asked(s2[i].row) /\ ~OnCycle(s2[i - 1].row)
      <4>1. CASE i = 2
        BY <1>1, <3>1, <3>2, <4>1
      <4>2. CASE i > 2
        <5>1. s2[i - 1] = s[i - 1 - 1] /\ i - 1 > 1
          BY <1>1, <4>2
        <5>. QED
          BY <3>1, <3>3, <5>1 DEF Nested
      <4>. QED
        BY <1>1, <2>2, <4>1, <4>2
    <3>. QED
      BY <3>7, <3>8
  <2>. QED
    BY <1>1, <2>1, <2>2
<1>4. Nested(s2)
  BY <1>3 DEF Nested
<1>5. Followed(s2, Idle)
  BY DEF Followed
<1>6. FollowsCalls(s2, Idle)
  BY <1>2, <1>4, <1>5 DEF FollowsCalls
<1>. QED
  BY <1>6 DEF s2

\* A finish that has asked for every callee returns to the one below, which
\* reads the body unless its unit does not lower.
LEMMA FinishedAccounts ==
  ASSUME NEW s \in Seq(Frame), s # <<>>, FollowsCalls(s, Idle),
         NEW s2 \in Seq(Frame), Len(s2) = Len(s) - 1,
         \A i \in 1..Len(s2) : i > 1 => s2[i] = s[i + 1],
         s2 # <<>> =>
           /\ s2[1].row = s[2].row
           /\ s2[1].todo = s[2].todo
           /\ s2[1].read = IF s[1].row \in broken THEN s[2].read ELSE s[2].read \cup {s[1].row}
  PROVE  FollowsCalls(s2, Idle)
<1>1. /\ DOMAIN s = 1..Len(s) /\ DOMAIN s2 = 1..(Len(s) - 1) /\ Len(s) \in Nat /\ Len(s) > 0
      /\ s2 # <<>> => 1 \in DOMAIN s2 /\ 2 \in DOMAIN s
  OBVIOUS
<1>2. ASSUME NEW i \in DOMAIN s2 PROVE i + 1 \in DOMAIN s /\ s2[i].row = s[i + 1].row
  <2>1. i + 1 \in DOMAIN s /\ s2 # <<>>
    BY <1>1
  <2>2. CASE i = 1
    BY <2>1, <2>2
  <2>3. CASE i > 1
    BY <1>1, <2>3
  <2>. QED
    BY <1>1, <2>1, <2>2, <2>3
<1>3. Nested(s)
  BY DEF FollowsCalls
<1>4. ASSUME NEW i \in DOMAIN s2 PROVE Accounted(s2[i], Under(s2, Idle, i))
  <2>1. CASE i = 1
    <3>1. s2 # <<>> /\ 2 \in DOMAIN s
      BY <1>1, <2>1
    <3>2. Accounted(s[2], {s[1].row})
      <4>1. Under(s, Idle, 2) = {s[1].row}
        BY DEF Under
      <4>. QED
        BY <3>1, <4>1 DEF FollowsCalls
    <3>3. s[1].row \in Asked(s[2].row) /\ ~OnCycle(s[1].row)
      <4>1. 2 > 1 /\ 2 - 1 = 1
        OBVIOUS
      <4>. QED
        BY <1>3, <3>1, <4>1 DEF Nested
    <3>4. Under(s2, Idle, i) = {}
      BY <2>1 DEF Under
    <3>. QED
      BY <2>1, <3>1, <3>2, <3>3, <3>4 DEF Accounted, Readable
  <2>2. CASE i > 1
    <3>1. i \in 1..Len(s2) /\ i - 1 \in DOMAIN s2
      BY <1>1, <2>2
    <3>2. s2[i] = s[i + 1] /\ s2[i - 1].row = s[i - 1 + 1].row /\ i - 1 + 1 = i
      BY <1>1, <1>2, <2>2, <3>1
    <3>3. Under(s2, Idle, i) = Under(s, Idle, i + 1)
      BY <1>1, <2>2, <3>2 DEF Under
    <3>4. Accounted(s[i + 1], Under(s, Idle, i + 1))
      BY <1>2 DEF FollowsCalls
    <3>. QED
      BY <3>2, <3>3, <3>4
  <2>. QED
    BY <1>1, <2>1, <2>2
<1>5. ASSUME NEW i \in DOMAIN s2
      PROVE  /\ \A j \in 1..(i - 1) : Leads(s2[i].row, s2[j].row)
             /\ i > 1 => s2[i - 1].row \in Asked(s2[i].row) /\ ~OnCycle(s2[i - 1].row)
  <2>1. /\ \A k \in 1..i : Leads(s[i + 1].row, s[k].row)
        /\ s[i].row \in Asked(s[i + 1].row) /\ ~OnCycle(s[i].row)
    <3>1. i + 1 \in DOMAIN s /\ i + 1 > 1 /\ i + 1 - 1 = i
      BY <1>1, <1>2
    <3>. QED
      BY <1>3, <3>1 DEF Nested
  <2>2. ASSUME NEW j \in 1..(i - 1) PROVE Leads(s2[i].row, s2[j].row)
    <3>1. j \in DOMAIN s2 /\ j + 1 \in 1..i
      BY <1>1
    <3>. QED
      BY <1>2, <2>1, <3>1
  <2>3. i > 1 => i - 1 \in DOMAIN s2 /\ i - 1 + 1 = i
    BY <1>1
  <2>. QED
    BY <1>2, <2>1, <2>2, <2>3
<1>6. Nested(s2)
  BY <1>5 DEF Nested
<1>. QED
  BY <1>4, <1>6 DEF FollowsCalls, Followed

\* What the innermost finish of a stack accounts for.
LEMMA InnermostAccounts ==
  ASSUME NEW s \in Seq(Frame), s # <<>>, NEW o, FollowsCalls(s, o)
  PROVE  /\ Accounted(s[1], IF o = Idle THEN {} ELSE {o.row})
         /\ o # Idle => /\ o.row \in Asked(s[1].row)
                        /\ o.do # "walk" => ~OnCycle(o.row)
<1>1. 1 \in DOMAIN s
  OBVIOUS
<1>2. Under(s, o, 1) = IF o = Idle THEN {} ELSE {o.row}
  BY DEF Under
<1>3. Accounted(s[1], Under(s, o, 1)) /\ Followed(s, o)
  BY <1>1 DEF FollowsCalls
<1>. QED
  BY <1>2, <1>3 DEF Followed

\* Replacing the innermost finish leaves the others.
LEMMA HeadSet ==
  ASSUME NEW s \in Seq(Frame), s # <<>>, NEW f \in Frame
  PROVE  /\ Len([s EXCEPT ![1] = f]) = Len(s)
         /\ [s EXCEPT ![1] = f][1] = f
         /\ \A i \in 1..Len(s) : i > 1 => [s EXCEPT ![1] = f][i] = s[i]
<1>1. s \in [1..Len(s) -> Frame] /\ Len(s) \in Nat /\ 1 \in 1..Len(s)
  OBVIOUS
<1>2. [s EXCEPT ![1] = f] \in Seq(Frame) /\ DOMAIN [s EXCEPT ![1] = f] = 1..Len(s)
  BY <1>1, HeadReplaced
<1>. QED
  BY <1>1, <1>2

\* A row the guard refuses lies on a cycle of the calls finishes ask for.
LEMMA RefusedCloses ==
  ASSUME ReadInv, NEW t \in Threads, stack[t] # <<>>,
         op[t].do = "guard", op[t].row \in FINISHING[t]
  PROVE  ClosesCycle
<1>. DEFINE r == op[t].row
            g == [q \in Rows |-> Asked(q)]
<1>1. PICK i \in DOMAIN stack[t] : stack[t][i].row = r
  BY DEF ReadInv, EntryInv, FinishingStacked
<1>2. /\ stack[t] \in Seq(Frame) /\ r \in Rows /\ op[t] # Idle
  BY OpParts DEF ReadInv, EntryInv, TypeOK, Idle
<1>3. FollowsCalls(stack[t], op[t])
  BY DEF ReadInv
<1>4. r \in Asked(stack[t][1].row) /\ ~OnCycle(r)
  BY <1>2, <1>3 DEF FollowsCalls, Followed
<1>5. stack[t][1].row \in Rows
  <2>1. stack[t][1] \in Frame
    BY <1>2
  <2>. QED
    BY <2>1 DEF Frame
<1>6. Leads(r, stack[t][1].row) \/ r = stack[t][1].row
  <2>1. i = 1 \/ 1 \in 1..(i - 1)
    BY <1>1, <1>2
  <2>. QED
    BY <1>1, <1>3, <2>1 DEF FollowsCalls, Nested
<1>7. Leads(r, r)
  BY <1>4, <1>5, <1>6, LeadsOn
<1>8. ReachesItself(r, g)
  <2>. SUFFICES ASSUME NEW S \in SUBSET Rows, g[r] \subseteq S, \A q \in S : g[q] \subseteq S
                PROVE  r \in S
    BY DEF ReachesItself
  <2>1. Asked(r) \subseteq S /\ \A q \in S : Asked(q) \subseteq S
    BY <1>2
  <2>. QED
    BY <1>7, <2>1 DEF Leads
<1>. QED
  BY <1>2, <1>4, <1>8 DEF ClosesCycle

\* Every step of every thread keeps the finishes accounting for their callees.
LEMMA ReadStep == ReadInv /\ [Next]_vars => ReadInv'
<1>. SUFFICES ASSUME ReadInv, [Next]_vars PROVE ReadInv'
  OBVIOUS
<1>0. TypeOK /\ TypeOK' /\ EntryInv' /\ MemoInv'
  BY TypeStep, EntryStep, MemoStep DEF ReadInv, EntryInv
<1>1. UNCHANGED graph
  BY DEF Next, Step, Request, Begin, Return, Ask, WalkOn, GuardBody, Finish, vars, graph
<1>2. /\ \A s, o : FollowsCalls(s, o)' <=> FollowsCalls(s, o)
      /\ ClosesCycle' <=> ClosesCycle
      /\ \A r : Readable(r)' = Readable(r)
  BY <1>1, GraphFixed
<1>3. \A t \in Threads : /\ stack[t] \in Seq(Frame) /\ stack'[t] \in Seq(Frame)
                         /\ FollowsCalls(stack[t], op[t])
  BY <1>0 DEF TypeOK, ReadInv
<1>4. ASSUME decoded' = decoded PROVE OrderIndependent'
  <2>1. OrderIndependent <=> (~ClosesCycle => \A r \in Rows :
          decoded[r].state = "finished" => decoded[r].read = Readable(r))
    BY DEF OrderIndependent, Readable
  <2>2. OrderIndependent' <=> (~ClosesCycle' => \A r \in Rows :
          decoded'[r].state = "finished" => decoded'[r].read = Readable(r)')
    BY DEF OrderIndependent, Readable
  <2>. QED
    BY <1>2, <1>4, <2>1, <2>2 DEF ReadInv
<1>5. ASSUME NEW t \in Threads, \A u \in Threads \ {t} : stack'[u] = stack[u] /\ op'[u] = op[u],
             FollowsCalls(stack'[t], op'[t])
      PROVE  (\A u \in Threads : FollowsCalls(stack[u], op[u]))'
  <2>1. \A u \in Threads : FollowsCalls(stack'[u], op'[u])
    BY <1>3, <1>5
  <2>. QED
    BY <1>2, <2>1
<1>6. CASE UNCHANGED vars
  <2>1. decoded' = decoded /\ stack' = stack /\ op' = op
    BY <1>6 DEF vars
  <2>2. (\A u \in Threads : FollowsCalls(stack[u], op[u]))'
    BY <1>2, <1>3, <2>1
  <2>. QED
    BY <1>0, <1>4, <2>1, <2>2 DEF ReadInv
<1>7. CASE Next
  <2>1. PICK t \in Threads : Request(t) \/ Step(t)
    BY <1>7 DEF Next
  <2>2. ASSUME decoded' = decoded,
               \A u \in Threads \ {t} : stack'[u] = stack[u] /\ op'[u] = op[u],
               FollowsCalls(stack'[t], op'[t])
        PROVE  ReadInv'
    <3>1. (\A u \in Threads : FollowsCalls(stack[u], op[u]))'
      BY <1>5, <2>2
    <3>. QED
      BY <1>0, <1>4, <2>2, <3>1 DEF ReadInv
  <2>3. CASE Request(t)
    <3>1. stack' = stack /\ stack[t] = <<>> /\ decoded' = decoded
      BY <2>3 DEF Request
    <3>2. FollowsCalls(stack'[t], op'[t])
      BY <3>1 DEF FollowsCalls, Nested, Followed
    <3>3. \A u \in Threads \ {t} : stack'[u] = stack[u] /\ op'[u] = op[u]
      BY <2>3, <1>0, <3>1 DEF Request, Do, TypeOK
    <3>. QED
      BY <2>2, <3>1, <3>2, <3>3
  <2>4. CASE Begin(t)
    <3>. DEFINE r == op[t].row
                f == [row |-> r, todo |-> Asked(r), read |-> {}]
    <3>1. /\ r \in Rows /\ op[t] # Idle /\ op[t].do # "walk"
          /\ decoded[r] = Empty
          /\ decoded' = [decoded EXCEPT ![r] = Running(t)]
          /\ stack' = [stack EXCEPT ![t] = <<f>> \o @]
          /\ op' = [op EXCEPT ![t] = Idle]
      BY <2>4, <1>0, OpParts DEF Begin, Do, Idle
    <3>2. f \in Frame /\ f.row = r /\ f.todo = Asked(r) /\ f.read = {}
      BY <1>0, <3>1 DEF TypeOK, Frame, Asked
    <3>. HIDE DEF f
    <3>3. FollowsCalls(<<f>> \o stack[t], Idle)
      BY <1>0, <1>3, <3>1, <3>2, BegunAccounts
    <3>4. stack'[t] = <<f>> \o stack[t] /\ op'[t] = Idle
      BY <1>0, <3>1 DEF TypeOK
    <3>5. \A u \in Threads \ {t} : stack'[u] = stack[u] /\ op'[u] = op[u]
      BY <1>0, <3>1 DEF TypeOK
    <3>6. (\A u \in Threads : FollowsCalls(stack[u], op[u]))'
      BY <1>5, <3>3, <3>4, <3>5
    <3>7. OrderIndependent'
      <4>1. \A q \in Rows : decoded'[q].state = "finished" => decoded'[q] = decoded[q]
        BY <1>0, <3>1 DEF TypeOK, Running
      <4>2. ~ClosesCycle => \A q \in Rows :
              decoded[q].state = "finished" => decoded[q].read = Readable(q)
        BY DEF ReadInv, OrderIndependent, Readable
      <4>3. ~ClosesCycle' => \A q \in Rows :
              decoded'[q].state = "finished" => decoded'[q].read = Readable(q)'
        BY <1>2, <4>1, <4>2
      <4>. QED
        BY <4>3 DEF OrderIndependent, Readable
    <3>. QED
      BY <1>0, <3>6, <3>7 DEF ReadInv
  <2>5. CASE Return(t)
    <3>. DEFINE r == op[t].row
    <3>1. /\ r \in Rows /\ op[t] # Idle /\ op[t].do # "walk"
          /\ decoded' = decoded
          /\ op' = [op EXCEPT ![t] = Idle]
      BY <2>5, <1>0, OpParts DEF Return, Do, Idle
    <3>2. op'[t] = Idle /\ \A u \in Threads \ {t} : stack'[u] = stack[u] /\ op'[u] = op[u]
      BY <2>5, <1>0, <3>1 DEF Return, TypeOK
    <3>3. CASE stack[t] = <<>>
      <4>1. stack'[t] = <<>>
        BY <2>5, <3>3 DEF Return
      <4>2. FollowsCalls(stack'[t], op'[t])
        BY <4>1 DEF FollowsCalls, Nested, Followed
      <4>. QED
        BY <2>2, <3>1, <3>2, <4>2
    <3>4. CASE stack[t] # <<>>
      <4>1. 1 \in 1..Len(stack[t]) /\ stack[t][1] \in Frame /\ DOMAIN stack[t] = 1..Len(stack[t])
        BY <1>3, <3>4
      <4>2. /\ Len(stack'[t]) = Len(stack[t])
            /\ \A i \in 1..Len(stack[t]) :
                 stack'[t][i].row = stack[t][i].row /\ (i > 1 => stack'[t][i] = stack[t][i])
            /\ stack'[t][1].todo = stack[t][1].todo
            /\ stack'[t][1].read = IF r \in broken THEN stack[t][1].read
                                   ELSE stack[t][1].read \cup {r}
        <5>1. CASE r \in broken
          BY <2>5, <5>1 DEF Return
        <5>2. CASE r \notin broken
          <6>1. stack'[t] = [stack[t] EXCEPT ![1] = [stack[t][1] EXCEPT !.read = @ \cup {r}]]
            BY <2>5, <1>0, <3>4, <5>2 DEF Return, TypeOK
          <6>. QED
            BY <1>3, <4>1, <5>2, <6>1 DEF Frame
        <5>. QED
          BY <5>1, <5>2
      <4>3. Accounted(stack[t][1], {r}) /\ r \in Asked(stack[t][1].row) /\ ~OnCycle(r)
        BY <1>3, <3>1, <3>4, InnermostAccounts
      <4>4. Under(stack'[t], Idle, 1) = {} /\ stack'[t][1].row = stack[t][1].row
        BY <4>1, <4>2 DEF Under
      <4>5. Accounted(stack'[t][1], Under(stack'[t], Idle, 1))
        BY <4>2, <4>3, <4>4 DEF Accounted, Readable
      <4>6. FollowsCalls(stack'[t], Idle)
        BY <1>3, <4>2, <4>5, HeadAccounts DEF Followed
      <4>. QED
        BY <2>2, <3>1, <3>2, <4>6
    <3>. QED
      BY <3>3, <3>4
  <2>6. CASE Ask(t)
    <3>1. PICK c \in stack[t][1].todo :
            /\ stack' = [stack EXCEPT ![t][1].todo = @ \ {c}]
            /\ \/ cycles[c] = Unknown /\ Do(t, Walk(c, {}, {c}))
               \/ cycles[c] = Cyclic /\ Do(t, Idle)
               \/ cycles[c] = Acyclic /\ Do(t, Guard(c))
      BY <2>6 DEF Ask
    <3>2. op[t] = Idle /\ stack[t] # <<>> /\ decoded' = decoded
      BY <2>6 DEF Ask
    <3>3. 1 \in 1..Len(stack[t]) /\ stack[t][1] \in Frame /\ DOMAIN stack[t] = 1..Len(stack[t])
      BY <1>3, <3>2
    <3>4. /\ Len(stack'[t]) = Len(stack[t])
          /\ \A i \in 1..Len(stack[t]) :
               stack'[t][i].row = stack[t][i].row /\ (i > 1 => stack'[t][i] = stack[t][i])
          /\ stack'[t][1].todo = stack[t][1].todo \ {c}
          /\ stack'[t][1].read = stack[t][1].read
      <4>1. stack'[t] = [stack[t] EXCEPT ![1] = [stack[t][1] EXCEPT !.todo = @ \ {c}]]
        BY <1>0, <3>1, <3>2 DEF TypeOK
      <4>. QED
        BY <1>3, <3>3, <4>1 DEF Frame
    <3>5. Accounted(stack[t][1], {})
      BY <1>3, <3>2, InnermostAccounts
    <3>6. c \in Rows /\ c \in Asked(stack[t][1].row)
      BY <3>3, <3>5 DEF Frame, Accounted
    <3>7. cycles[c] # Unknown => (cycles[c] = Cyclic <=> OnCycle(c))
      BY <3>6 DEF ReadInv, MemoInv, MemoSound
    <3>8. \/ op'[t] = Idle /\ OnCycle(c)
          \/ op'[t] # Idle /\ op'[t].row = c /\ (op'[t].do # "walk" => ~OnCycle(c))
      BY <1>0, <3>1, <3>7
         DEF Do, TypeOK, Walk, Guard, Idle, Unknown, Cyclic, Acyclic
    <3>9. stack'[t][1].row = stack[t][1].row
      BY <3>3, <3>4
    <3>10. Followed(stack'[t], op'[t])
      BY <3>6, <3>8, <3>9 DEF Followed
    <3>11. Accounted(stack'[t][1], Under(stack'[t], op'[t], 1))
      <4>1. \/ OnCycle(c) /\ Under(stack'[t], op'[t], 1) = {}
            \/ Under(stack'[t], op'[t], 1) = {c}
        BY <3>8 DEF Under
      <4>. QED
        BY <3>4, <3>5, <3>9, <4>1 DEF Accounted, Readable
    <3>12. FollowsCalls(stack'[t], op'[t])
      BY <1>3, <3>4, <3>10, <3>11, HeadAccounts
    <3>13. \A u \in Threads \ {t} : stack'[u] = stack[u] /\ op'[u] = op[u]
      BY <1>0, <3>1 DEF Do, TypeOK
    <3>. QED
      BY <2>2, <3>2, <3>12, <3>13
  <2>7. ASSUME stack' = stack, decoded' = decoded,
               \A u \in Threads \ {t} : op'[u] = op[u],
               op[t] # Idle,
               \/ /\ op'[t] = Idle
                  /\ stack[t] # <<>> => OnCycle(op[t].row) \/ ClosesCycle
               \/ /\ op'[t] # Idle /\ op'[t].row = op[t].row
                  /\ op'[t].do # "walk" /\ op[t].do = "walk" => ~OnCycle(op[t].row)
        PROVE  ReadInv'
    <3>1. CASE stack[t] = <<>>
      <4>1. FollowsCalls(stack'[t], op'[t])
        BY <2>7, <3>1 DEF FollowsCalls, Nested, Followed
      <4>. QED
        BY <2>2, <2>7, <4>1
    <3>2. CASE stack[t] # <<>>
      <4>1. 1 \in 1..Len(stack[t]) /\ DOMAIN stack[t] = 1..Len(stack[t])
        BY <1>3, <3>2
      <4>2. /\ Accounted(stack[t][1], {op[t].row})
            /\ op[t].row \in Asked(stack[t][1].row)
            /\ op[t].do # "walk" => ~OnCycle(op[t].row)
        BY <1>3, <2>7, <3>2, InnermostAccounts
      <4>3. Accounted(stack[t][1], Under(stack[t], op'[t], 1))
        <5>1. \/ (OnCycle(op[t].row) \/ ClosesCycle) /\ Under(stack[t], op'[t], 1) = {}
              \/ Under(stack[t], op'[t], 1) = {op[t].row}
          BY <2>7, <3>2 DEF Under
        <5>. QED
          BY <4>2, <5>1 DEF Accounted, Readable
      <4>4. Followed(stack[t], op'[t])
        BY <2>7, <3>2, <4>2 DEF Followed
      <4>5. FollowsCalls(stack[t], op'[t])
        BY <1>3, <4>3, <4>4, HeadAccounts
      <4>. QED
        BY <2>2, <2>7, <4>5
    <3>. QED
      BY <3>1, <3>2
  <2>8. CASE WalkOn(t)
    <3>1. /\ stack' = stack /\ decoded' = decoded /\ op[t] # Idle /\ op[t].do = "walk"
          /\ op[t].row \in Rows
      BY <2>8, <1>0, OpParts DEF WalkOn, Idle
    <3>2. \A u \in Threads \ {t} : op'[u] = op[u]
      BY <2>8, <1>0 DEF WalkOn, Answer, Do, TypeOK
    <3>3. \A r \in Rows : cycles'[r] # Unknown => (cycles'[r] = Cyclic <=> OnCycle(r))
      <4>1. \A r \in Rows : cycles'[r] # Unknown => (cycles'[r] = Cyclic <=> OnCycle(r)')
        BY <1>0 DEF MemoInv, MemoSound
      <4>2. \A r : OnCycle(r)' <=> OnCycle(r)
        BY <1>1 DEF graph, OnCycle, ReachesItself, Lowered
      <4>. QED
        BY <4>1, <4>2
    <3>4. CASE Answer(t, Cyclic)
      <4>1. cycles'[op[t].row] = Cyclic /\ op'[t] = Idle
        BY <1>0, <3>1, <3>4 DEF Answer, Do, TypeOK
      <4>2. OnCycle(op[t].row)
        BY <3>1, <3>3, <4>1 DEF Unknown, Cyclic
      <4>. QED
        BY <2>7, <3>1, <3>2, <4>1, <4>2
    <3>5. CASE Answer(t, Acyclic)
      <4>1. cycles'[op[t].row] = Acyclic /\ op'[t] = Guard(op[t].row)
        BY <1>0, <3>1, <3>5 DEF Answer, Do, TypeOK, Cyclic, Acyclic
      <4>2. ~OnCycle(op[t].row)
        BY <3>1, <3>3, <4>1 DEF Unknown, Cyclic, Acyclic
      <4>3. op'[t] # Idle /\ op'[t].row = op[t].row
        BY <4>1 DEF Guard, Idle
      <4>. QED
        BY <2>7, <3>1, <3>2, <4>2, <4>3
    <3>6. CASE \E seen, pending : Do(t, Walk(op[t].row, seen, pending))
      <4>1. op'[t] # Idle /\ op'[t].row = op[t].row /\ op'[t].do = "walk"
        BY <1>0, <3>6 DEF Do, TypeOK, Walk, Idle
      <4>. QED
        BY <2>7, <3>1, <3>2, <4>1
    <3>. QED
      BY <2>8, <3>4, <3>5, <3>6 DEF WalkOn
  <2>9. CASE GuardBody(t)
    <3>1. /\ stack' = stack /\ decoded' = decoded /\ op[t] # Idle /\ op[t].do = "guard"
      BY <2>9 DEF GuardBody, Idle
    <3>2. \A u \in Threads \ {t} : op'[u] = op[u]
      BY <2>9, <1>0 DEF GuardBody, Do, TypeOK
    <3>3. CASE finishing_body(t, op[t].row)
      <4>1. op'[t] = Idle
        BY <2>9, <1>0, <3>3 DEF GuardBody, Do, TypeOK
      <4>2. stack[t] # <<>> => ClosesCycle
        BY <3>1, <3>3, RefusedCloses DEF finishing_body
      <4>. QED
        BY <2>7, <3>1, <3>2, <4>1, <4>2
    <3>4. CASE ~finishing_body(t, op[t].row)
      <4>1. op'[t] # Idle /\ op'[t].row = op[t].row
        BY <2>9, <1>0, <3>4 DEF GuardBody, Do, TypeOK, Get, Idle
      <4>. QED
        BY <2>7, <3>1, <3>2, <4>1
    <3>. QED
      BY <3>3, <3>4
  <2>10. CASE Finish(t)
    <3>. DEFINE f == stack[t][1]
                below == Tail(stack[t])
    <3>1. /\ stack[t] # <<>> /\ op[t] = Idle /\ op' = op /\ f.todo = {}
          /\ decoded' = [decoded EXCEPT ![f.row] = Finished(f.read)]
          /\ stack' = [stack EXCEPT ![t] =
               IF below = <<>> \/ f.row \in broken THEN below
               ELSE [below EXCEPT ![1].read = @ \cup {f.row}]]
      BY <2>10 DEF Finish
    <3>2. /\ below \in Seq(Frame) /\ Len(below) = Len(stack[t]) - 1 /\ f \in Frame
          /\ \A i \in 1..Len(below) : below[i] = stack[t][i + 1]
          /\ Len(stack[t]) \in Nat /\ Len(stack[t]) > 0
          /\ 1 \in DOMAIN stack[t]
      BY <1>3, <3>1
    <3>3. stack'[t] = IF below = <<>> \/ f.row \in broken THEN below
                      ELSE [below EXCEPT ![1].read = @ \cup {f.row}]
      BY <1>0, <3>1, ZenonT(60) DEF TypeOK
    <3>4. below # <<>> => /\ 1 \in 1..Len(below) /\ below[1] = stack[t][2]
                          /\ below[1] \in Frame
      <4>1. below # <<>> => 1 \in 1..Len(below) /\ below[1] \in Frame
        BY <3>2
      <4>. QED
        BY <3>2, <4>1
    <3>5. /\ Len(stack'[t]) = Len(stack[t]) - 1
          /\ \A i \in 1..Len(stack'[t]) : i > 1 => stack'[t][i] = stack[t][i + 1]
          /\ stack'[t] # <<>> =>
               /\ stack'[t][1].row = stack[t][2].row
               /\ stack'[t][1].todo = stack[t][2].todo
               /\ stack'[t][1].read = IF stack[t][1].row \in broken THEN stack[t][2].read
                                      ELSE stack[t][2].read \cup {stack[t][1].row}
      <4>. HIDE DEF below
      <4>1. CASE below = <<>>
        BY <3>2, <3>3, <4>1
      <4>2. CASE below # <<>> /\ f.row \in broken
        BY <3>2, <3>3, <3>4, <4>2
      <4>3. CASE below # <<>> /\ f.row \notin broken
        <5>1. stack'[t] = [below EXCEPT ![1] = [below[1] EXCEPT !.read = @ \cup {f.row}]]
          BY <3>3, <4>3
        <5>2. /\ Len(stack'[t]) = Len(below)
              /\ stack'[t][1] = [below[1] EXCEPT !.read = @ \cup {f.row}]
              /\ \A i \in 1..Len(below) : i > 1 => stack'[t][i] = below[i]
          <6>1. [below[1] EXCEPT !.read = @ \cup {f.row}] \in Frame
            <7>1. f.row \in Rows
              BY <3>2 DEF Frame
            <7>. QED
              BY <3>4, <4>3, <7>1 DEF Frame
          <6>2. PICK h \in Frame : h = [below[1] EXCEPT !.read = @ \cup {f.row}]
            BY <6>1
          <6>3. stack'[t] = [below EXCEPT ![1] = h]
            BY <5>1, <6>2
          <6>4. /\ Len(stack'[t]) = Len(below)
                /\ stack'[t][1] = h
                /\ \A i \in 1..Len(below) : i > 1 => stack'[t][i] = below[i]
            BY <3>2, <4>3, <6>3, HeadSet
          <6>. QED
            BY <6>2, <6>4
        <5>3. /\ stack'[t][1].row = below[1].row
              /\ stack'[t][1].todo = below[1].todo
              /\ stack'[t][1].read = below[1].read \cup {f.row}
          BY <3>4, <4>3, <5>2 DEF Frame
        <5>. QED
          BY <3>2, <3>4, <4>3, <5>2, <5>3
      <4>. QED
        BY <4>1, <4>2, <4>3
    <3>6. FollowsCalls(stack'[t], Idle)
      BY <1>3, <3>1, <3>5, FinishedAccounts
    <3>7. \A u \in Threads \ {t} : stack'[u] = stack[u] /\ op'[u] = op[u]
      BY <1>0, <3>1 DEF TypeOK
    <3>8. (\A u \in Threads : FollowsCalls(stack[u], op[u]))'
      BY <1>5, <3>1, <3>6, <3>7
    <3>9. ~ClosesCycle => f.read = Readable(f.row)
      <4>1. Accounted(f, {})
        BY <1>3, <3>1, InnermostAccounts
      <4>. QED
        BY <3>1, <4>1 DEF Accounted
    <3>. HIDE DEF f, below
    <3>10. OrderIndependent'
      <4>1. f.row \in Rows
        BY <3>2 DEF Frame
      <4>2. \A q \in Rows : decoded'[q] = IF q = f.row THEN Finished(f.read) ELSE decoded[q]
        BY <1>0, <3>1, <4>1 DEF TypeOK
      <4>3. Finished(f.read).read = f.read
        BY DEF Finished
      <4>4. ~ClosesCycle => \A q \in Rows :
              decoded[q].state = "finished" => decoded[q].read = Readable(q)
        BY DEF ReadInv, OrderIndependent, Readable
      <4>5. ~ClosesCycle' => \A q \in Rows :
              decoded'[q].state = "finished" => decoded'[q].read = Readable(q)'
        BY <1>2, <3>9, <4>2, <4>3, <4>4
      <4>. QED
        BY <4>5 DEF OrderIndependent, Readable
    <3>. QED
      BY <1>0, <3>8, <3>10 DEF ReadInv
  <2>. QED
    BY <2>1, <2>3, <2>4, <2>5, <2>6, <2>8, <2>9, <2>10 DEF Step
<1>. QED
  BY <1>6, <1>7

\* For any package and any number of threads: unless finishing closes a cycle
\* that the lowered bodies do not have, a finished body has read exactly the
\* callees it follows that lie on no cycle and lower, whichever thread
\* finished it and in whatever order bodies were asked for.
THEOREM BodiesOrderIndependent == Spec => []OrderIndependent
<1>1. Init => ReadInv
  <2>. SUFFICES ASSUME Init PROVE ReadInv
    OBVIOUS
  <2>1. TypeOK
    BY TypeInit
  <2>2. EntryInv
    BY <2>1 DEF Init, EntryInv, FinishingStacked, RunningFinishing, GetGuarded, Idle, Empty,
                Running
  <2>3. MemoInv
    BY <2>1 DEF Init, MemoInv, WalksSound, MemoSound, Idle
  <2>4. ASSUME NEW t \in Threads PROVE FollowsCalls(stack[t], op[t])
    <3>1. stack[t] = <<>>
      BY DEF Init
    <3>. QED
      BY <3>1 DEF FollowsCalls, Nested, Followed
  <2>5. OrderIndependent
    BY DEF Init, OrderIndependent, Empty
  <2>. QED
    BY <2>2, <2>3, <2>4, <2>5 DEF ReadInv
<1>2. ReadInv => OrderIndependent
  BY DEF ReadInv
<1>. QED
  BY <1>1, <1>2, ReadStep, PTL DEF Spec

----------------------------------------------------------------------------
(* The cache. *)

\* No two calls share a process identifier.
DistinctProcesses ==
  \A a, c \in Actors : ProcessOf[a] = ProcessOf[c] => a = c

\* The steps after the package was renamed into place.
Renamed == {"list", "prune", "unlock", "done", "crashed"}

\* The parts of CacheTypeOK the argument needs.
Shape ==
  /\ pc \in [Actors -> Steps]
  /\ path \in [Builds -> Actors \cup {NoFile}]
  /\ partial \in [Processes \X Builds -> Actors \cup {NoFile}]
  /\ file \in [Actors -> File \cup {NoFile}]
  /\ handle \in [Actors -> Actors \cup {NoFile}]
  /\ mapped \in [Actors -> Actors \cup {NoFile}]
  /\ doomed \in [Actors -> SUBSET Builds]

\* A partial name names a file its own process created.
PartialOwn ==
  \A n \in Processes \X Builds : partial[n] # NoFile => n = PartialOf(partial[n])

\* A process that writes has its own partial file open, and one about to
\* rename has written it whole.
WritesOwn ==
  \A a \in Actors :
    /\ pc[a] = "write" => /\ handle[a] = a /\ partial[PartialOf(a)] = a
                          /\ file[a] # NoFile /\ file[a].by = a
    /\ pc[a] = "rename" => partial[PartialOf(a)] \in {a, NoFile} /\ Whole(a)

\* A file that a path names, or a process has mapped, is whole and its writer
\* is past writing.
Published(i) == i \in Actors /\ Whole(i) /\ pc[i] \in Renamed

PathPublished == \A b \in Builds : path[b] # NoFile => Published(path[b])
MappedPublished == \A a \in Actors : mapped[a] # NoFile => Published(mapped[a])

CacheInv == Shape /\ PartialOwn /\ WritesOwn /\ PathPublished /\ MappedPublished

----------------------------------------------------------------------------
\* An actor's names are names of the cache.
LEMMA Names ==
  ASSUME NEW a \in Actors
  PROVE  BuildOf[a] \in Builds /\ PartialOf(a) \in Processes \X Builds
BY DEF Builds, Processes, PartialOf

\* The steps that touch no file, no name of one and no mapping.
Apart(a) ==
  \/ MakeDir(a) \/ Acquire(a) \/ Stat(a) \/ Break(a)
  \/ Build(a) \/ PruneList(a) \/ Unlock(a) \/ PrivateBuild(a)

\* Where such a step may go, and from where.
LEMMA ApartSteps ==
  ASSUME Shape, NEW a \in Actors, Apart(a)
  PROVE  /\ UNCHANGED <<path, partial, file, handle, mapped>>
         /\ pc[a] \notin {"write", "rename"}
         /\ \E s \in Steps \ {"write", "rename"} :
              /\ pc' = [pc EXCEPT ![a] = s]
              /\ pc[a] \in Renamed => s \in Renamed
         /\ doomed' \in [Actors -> SUBSET Builds]
<1>1. Doomed(BuildOf[a]) \in SUBSET Builds
  BY DEF Doomed
<1>2. CASE MakeDir(a)
  BY <1>2 DEF MakeDir, Goto, Shape, Steps, Renamed
<1>3. CASE Acquire(a)
  BY <1>3 DEF Acquire, Goto, Shape, Steps, Holding, Renamed
<1>4. CASE Stat(a)
  BY <1>4 DEF Stat, Goto, Shape, Steps, Renamed
<1>5. CASE Break(a)
  BY <1>5 DEF Break, Goto, Shape, Steps, Renamed
<1>6. CASE Build(a)
  BY <1>6 DEF Build, Goto, Shape, Steps, Holding, Renamed
<1>7. CASE PruneList(a)
  BY <1>1, <1>7 DEF PruneList, Goto, Shape, Steps, Holding, Renamed
<1>8. CASE Unlock(a)
  BY <1>8 DEF Unlock, Goto, Shape, Steps, Ended, Renamed
<1>9. CASE PrivateBuild(a)
  BY <1>9 DEF PrivateBuild, Goto, Shape, Steps, Ended, Renamed
<1>. QED
  BY <1>2, <1>3, <1>4, <1>5, <1>6, <1>7, <1>8, <1>9 DEF Apart

\* The file a process truncates is its own.
LEMMA TruncatesOwn ==
  ASSUME CacheInv, DistinctProcesses, NEW a \in Actors, partial[PartialOf(a)] # NoFile
  PROVE  partial[PartialOf(a)] = a
<1>1. partial[PartialOf(a)] \in Actors
  BY Names DEF CacheInv, Shape
<1>2. PartialOf(a) = PartialOf(partial[PartialOf(a)])
  BY Names DEF CacheInv, PartialOwn
<1>. QED
  BY <1>1, <1>2 DEF PartialOf, DistinctProcesses

\* A published file stays so unless it is written or its writer goes back.
LEMMA PublishedKept ==
  ASSUME NEW i, Published(i), file'[i] = file[i], pc'[i] \in Renamed
  PROVE  Published(i)'
BY DEF Published, Whole

\* What a step of an actor on its own files keeps: the other actors', and what
\* is published.
LEMMA OthersKept ==
  ASSUME CacheInv, DistinctProcesses, NEW a \in Actors, pc[a] \notin Renamed,
         \E s \in Steps : pc' = [pc EXCEPT ![a] = s],
         \A c \in Actors \ {a} : file'[c] = file[c] /\ handle'[c] = handle[c],
         \A n \in (Processes \X Builds) \ {PartialOf(a)} : partial'[n] = partial[n]
  PROVE  /\ \A i : Published(i) => Published(i)'
         /\ \A c \in Actors \ {a} :
              /\ pc'[c] = "write" => /\ handle'[c] = c /\ partial'[PartialOf(c)] = c
                                     /\ file'[c] # NoFile /\ file'[c].by = c
              /\ pc'[c] = "rename" => partial'[PartialOf(c)] \in {c, NoFile} /\ Whole(c)'
<1>1. \A c \in Actors \ {a} : pc'[c] = pc[c]
  BY DEF CacheInv, Shape
<1>2. \A i : Published(i) => i \in Actors \ {a}
  BY DEF Published
<1>3. \A i : Published(i) => Published(i)'
  BY <1>1, <1>2 DEF Published, Whole
<1>4. \A c \in Actors \ {a} : PartialOf(c) \in (Processes \X Builds) \ {PartialOf(a)}
  BY Names DEF PartialOf, DistinctProcesses
<1>. QED
  BY <1>1, <1>3, <1>4 DEF CacheInv, WritesOwn, Whole

\* Every step of every process keeps the invariant.
LEMMA CacheStep ==
  DistinctProcesses /\ CacheInv /\ [CacheNext]_cache => CacheInv'
<1>. SUFFICES ASSUME DistinctProcesses, CacheInv, [CacheNext]_cache PROVE CacheInv'
  OBVIOUS
<1>. USE DEF CacheInv
<1>1. CASE UNCHANGED cache
  BY <1>1 DEF cache, Shape, PartialOwn, WritesOwn, PathPublished, MappedPublished,
              Published, Whole
<1>2. ASSUME NEW a \in Actors, Apart(a) PROVE CacheInv'
  <2>1. PICK s \in Steps \ {"write", "rename"} :
          /\ UNCHANGED <<path, partial, file, handle, mapped>>
          /\ pc' = [pc EXCEPT ![a] = s]
          /\ pc[a] \in Renamed => s \in Renamed
          /\ doomed' \in [Actors -> SUBSET Builds]
    BY <1>2, ApartSteps
  <2>2. Shape'
    BY <2>1 DEF Shape
  <2>3. PartialOwn'
    BY <2>1 DEF PartialOwn
  <2>4. WritesOwn'
    BY <2>1 DEF Shape, WritesOwn, Whole
  <2>5. \A i : Published(i) => Published(i)'
    BY <2>1 DEF Shape, Published, Whole
  <2>. QED
    BY <2>1, <2>2, <2>3, <2>4, <2>5 DEF PathPublished, MappedPublished
<1>3. ASSUME NEW a \in Actors, Load(a) PROVE CacheInv'
  <2>1. /\ UNCHANGED <<path, partial, file, handle, doomed>>
        /\ \E s \in {"done", "dir"} : pc' = [pc EXCEPT ![a] = s]
        /\ pc[a] = "load"
    BY <1>3 DEF Load, Goto
  <2>2. BuildOf[a] \in Builds
    BY Names
  <2>3. Shape'
    BY <1>3, <2>1, <2>2 DEF Load, Shape, Steps, Ended
  <2>4. PartialOwn'
    BY <2>1 DEF PartialOwn
  <2>5. WritesOwn'
    BY <2>1 DEF Shape, WritesOwn, Whole
  <2>6. \A i : Published(i) => Published(i)'
    BY <2>1 DEF Shape, Published, Whole, Renamed
  <2>7. MappedPublished'
    BY <1>3, <2>2, <2>6 DEF Load, Shape, Whole, PathPublished, MappedPublished
  <2>. QED
    BY <2>1, <2>3, <2>4, <2>5, <2>6, <2>7 DEF PathPublished
<1>4. ASSUME NEW a \in Actors, Truncate(a) PROVE CacheInv'
  <2>1. PartialOf(a) \in Processes \X Builds
    BY Names
  <2>2. CASE UNCHANGED <<partial, handle, file>> /\ pc' = [pc EXCEPT ![a] = "list"]
    <3>1. /\ UNCHANGED <<path, mapped, doomed>>
          /\ pc[a] = "truncate"
      BY <1>4 DEF Truncate
    <3>2. Shape' /\ PartialOwn' /\ WritesOwn'
      BY <2>2, <3>1 DEF Shape, Steps, Holding, PartialOwn, WritesOwn, Whole
    <3>3. \A i : Published(i) => Published(i)'
      BY <2>2, <3>1 DEF Shape, Published, Whole, Renamed
    <3>. QED
      BY <3>1, <3>2, <3>3 DEF PathPublished, MappedPublished
  <2>3. CASE /\ partial' = [partial EXCEPT ![PartialOf(a)] = a]
             /\ handle' = [handle EXCEPT ![a] = a]
             /\ file' = [file EXCEPT ![a] = [by |-> a, whole |-> FALSE]]
             /\ pc' = [pc EXCEPT ![a] = "write"]
    <3>1. /\ UNCHANGED <<path, mapped, doomed>>
          /\ pc[a] = "truncate"
      BY <1>4 DEF Truncate
    <3>2. Shape'
      BY <2>1, <2>3, <3>1 DEF Shape, Steps, Holding, File
    <3>3. PartialOwn'
      BY <2>1, <2>3 DEF Shape, PartialOwn
    <3>4. /\ \A i : Published(i) => Published(i)'
          /\ \A c \in Actors \ {a} :
              /\ pc'[c] = "write" => /\ handle'[c] = c /\ partial'[PartialOf(c)] = c
                                     /\ file'[c] # NoFile /\ file'[c].by = c
              /\ pc'[c] = "rename" => partial'[PartialOf(c)] \in {c, NoFile} /\ Whole(c)'
      <4>1. pc[a] \notin Renamed
        BY <3>1 DEF Renamed
      <4>2. \E s \in Steps : pc' = [pc EXCEPT ![a] = s]
        BY <2>3 DEF Steps, Holding
      <4>3. \A c \in Actors \ {a} : file'[c] = file[c] /\ handle'[c] = handle[c]
        BY <2>3 DEF Shape
      <4>4. \A n \in (Processes \X Builds) \ {PartialOf(a)} : partial'[n] = partial[n]
        BY <2>3 DEF Shape
      <4>. QED
        BY <4>1, <4>2, <4>3, <4>4, OthersKept
    <3>5. /\ pc'[a] = "write" /\ handle'[a] = a /\ partial'[PartialOf(a)] = a
          /\ file'[a] = [by |-> a, whole |-> FALSE]
      BY <2>1, <2>3 DEF Shape
    <3>6. file'[a] # NoFile /\ file'[a].by = a
      <4>1. /\ [by |-> a, whole |-> FALSE] \in File
            /\ [by |-> a, whole |-> FALSE].by = a
        BY DEF File
      <4>2. [by |-> a, whole |-> FALSE] # NoFile
        BY <4>1, NoFileAssumption
      <4>. QED
        BY <3>5, <4>1, <4>2
    <3>7. WritesOwn'
      BY <3>4, <3>5, <3>6 DEF WritesOwn
    <3>. QED
      BY <3>1, <3>2, <3>3, <3>4, <3>7 DEF PathPublished, MappedPublished
  <2>4. partial[PartialOf(a)] # NoFile => partial[PartialOf(a)] = a
    BY TruncatesOwn
  <2>. QED
    BY <1>4, <2>2, <2>3, <2>4 DEF Truncate, Goto
<1>5. ASSUME NEW a \in Actors, Write(a) PROVE CacheInv'
  <2>1. /\ UNCHANGED <<path, partial, mapped, doomed>>
        /\ pc[a] = "write"
        /\ handle' = [handle EXCEPT ![a] = NoFile]
    BY <1>5 DEF Write
  <2>2. handle[a] = a /\ partial[PartialOf(a)] = a /\ file[a] \in File /\ file[a].by = a
    BY <2>1 DEF Shape, WritesOwn
  <2>3. \/ file' = [file EXCEPT ![a].whole = TRUE] /\ pc' = [pc EXCEPT ![a] = "rename"]
        \/ file' = file /\ pc' = [pc EXCEPT ![a] = "list"]
    BY <1>5, <2>2 DEF Write, Goto
  <2>. DEFINE full == [file[a] EXCEPT !.whole = TRUE]
  <2>10. full \in File /\ full.whole
    BY <2>2 DEF File
  <2>11. \/ file' = [file EXCEPT ![a] = full] /\ pc' = [pc EXCEPT ![a] = "rename"]
         \/ file' = file /\ pc' = [pc EXCEPT ![a] = "list"]
    BY <2>3
  <2>. HIDE DEF full
  <2>4. Shape'
    <3>1. file' \in [Actors -> File \cup {NoFile}]
      BY <2>10, <2>11 DEF Shape
    <3>2. pc' \in [Actors -> Steps]
      BY <2>11 DEF Shape, Steps, Holding
    <3>. QED
      BY <2>1, <3>1, <3>2 DEF Shape
  <2>5. PartialOwn'
    BY <2>1 DEF PartialOwn
  <2>6. /\ \A i : Published(i) => Published(i)'
        /\ \A c \in Actors \ {a} :
            /\ pc'[c] = "write" => /\ handle'[c] = c /\ partial'[PartialOf(c)] = c
                                   /\ file'[c] # NoFile /\ file'[c].by = c
            /\ pc'[c] = "rename" => partial'[PartialOf(c)] \in {c, NoFile} /\ Whole(c)'
    <3>1. pc[a] \notin Renamed
      BY <2>1 DEF Renamed
    <3>2. \E s \in Steps : pc' = [pc EXCEPT ![a] = s]
      BY <2>3 DEF Steps, Holding
    <3>3. \A c \in Actors \ {a} : file'[c] = file[c] /\ handle'[c] = handle[c]
      BY <2>1, <2>3 DEF Shape
    <3>. QED
      BY <2>1, <3>1, <3>2, <3>3, OthersKept
  <2>7. /\ pc'[a] # "write"
        /\ pc'[a] = "rename" => file'[a].whole /\ file'[a] \in File
    BY <2>10, <2>11 DEF Shape
  <2>8. WritesOwn'
    <3>1. \A x \in File : x # NoFile
      BY NoFileAssumption
    <3>2. pc'[a] = "rename" => partial'[PartialOf(a)] \in {a, NoFile} /\ Whole(a)'
      BY <2>1, <2>2, <2>7, <3>1, NoFileAssumption DEF Whole
    <3>. QED
      BY <2>6, <2>7, <3>2 DEF WritesOwn
  <2>. QED
    BY <2>1, <2>4, <2>5, <2>6, <2>8 DEF PathPublished, MappedPublished
<1>6. ASSUME NEW a \in Actors, Rename(a) \/ DropPartial(a) PROVE CacheInv'
  <2>0. PartialOf(a) \in Processes \X Builds /\ BuildOf[a] \in Builds
    BY Names
  <2>1. /\ UNCHANGED <<file, handle, mapped, doomed>>
        /\ pc[a] \in {"rename", "drop_partial"}
        /\ \E s \in {"list", "drop_partial"} : pc' = [pc EXCEPT ![a] = s]
        /\ partial' = partial \/ partial' = [partial EXCEPT ![PartialOf(a)] = NoFile]
    BY <1>6 DEF Rename, DropPartial, Goto
  <2>2. \/ path' = path
        \/ /\ path' = [path EXCEPT ![BuildOf[a]] = partial[PartialOf(a)]]
           /\ partial[PartialOf(a)] # NoFile
           /\ pc[a] = "rename"
           /\ pc' = [pc EXCEPT ![a] = "list"]
    BY <1>6 DEF Rename, DropPartial, Goto
  <2>3. Shape'
    BY <2>0, <2>1, <2>2 DEF Shape, Steps, Holding
  <2>4. PartialOwn'
    BY <2>0, <2>1 DEF Shape, PartialOwn
  <2>5. /\ \A i : Published(i) => Published(i)'
        /\ \A c \in Actors \ {a} :
            /\ pc'[c] = "write" => /\ handle'[c] = c /\ partial'[PartialOf(c)] = c
                                   /\ file'[c] # NoFile /\ file'[c].by = c
            /\ pc'[c] = "rename" => partial'[PartialOf(c)] \in {c, NoFile} /\ Whole(c)'
    <3>1. pc[a] \notin Renamed
      BY <2>1 DEF Renamed
    <3>2. \E s \in Steps : pc' = [pc EXCEPT ![a] = s]
      BY <2>1 DEF Steps, Holding
    <3>3. \A n \in (Processes \X Builds) \ {PartialOf(a)} : partial'[n] = partial[n]
      BY <2>1 DEF Shape
    <3>. QED
      BY <2>1, <3>1, <3>2, <3>3, OthersKept
  <2>6. pc'[a] \notin {"write", "rename"}
    BY <2>1 DEF Shape
  <2>7. WritesOwn'
    BY <2>5, <2>6 DEF WritesOwn
  <2>8. PathPublished'
    <3>1. CASE path' = path
      BY <2>5, <3>1 DEF PathPublished
    <3>2. CASE /\ path' = [path EXCEPT ![BuildOf[a]] = partial[PartialOf(a)]]
               /\ partial[PartialOf(a)] # NoFile
               /\ pc[a] = "rename"
               /\ pc' = [pc EXCEPT ![a] = "list"]
      <4>1. partial[PartialOf(a)] = a /\ Whole(a)
        BY <3>2 DEF WritesOwn
      <4>2. Published(a)'
        BY <2>1, <3>2, <4>1 DEF Published, Whole, Shape, Renamed
      <4>. QED
        BY <2>0, <2>5, <3>2, <4>1, <4>2 DEF PathPublished, Shape
    <3>. QED
      BY <2>2, <3>1, <3>2
  <2>. QED
    BY <2>1, <2>3, <2>4, <2>5, <2>7, <2>8 DEF MappedPublished
<1>7. ASSUME NEW a \in Actors, PruneRemove(a) PROVE CacheInv'
  <2>1. /\ UNCHANGED <<partial, file, handle, mapped>>
        /\ pc[a] = "prune"
        /\ pc' = pc \/ pc' = [pc EXCEPT ![a] = "unlock"]
        /\ path' = path \/ \E b \in Builds : path' = [path EXCEPT ![b] = NoFile]
        /\ doomed' \in [Actors -> SUBSET Builds]
    BY <1>7 DEF PruneRemove, Goto, Shape
  <2>2. Shape'
    BY <2>1 DEF Shape, Steps, Holding
  <2>3. PartialOwn' /\ WritesOwn'
    BY <2>1 DEF Shape, PartialOwn, WritesOwn, Whole
  <2>4. \A i : Published(i) => Published(i)'
    BY <2>1 DEF Shape, Published, Whole, Renamed
  <2>. QED
    BY <2>1, <2>2, <2>3, <2>4 DEF PathPublished, MappedPublished, Shape
<1>8. ASSUME NEW p \in Processes, Crash(p) PROVE CacheInv'
  <2>1. /\ UNCHANGED <<path, partial, file, doomed>>
        /\ pc' = [a \in Actors |-> IF ProcessOf[a] = p THEN "crashed" ELSE pc[a]]
        /\ mapped' = [a \in Actors |-> IF ProcessOf[a] = p THEN NoFile ELSE mapped[a]]
        /\ handle' = [a \in Actors |-> IF ProcessOf[a] = p THEN NoFile ELSE handle[a]]
    BY <1>8 DEF Crash
  <2>2. Shape'
    BY <2>1 DEF Shape, Steps, Ended
  <2>3. PartialOwn' /\ WritesOwn'
    BY <2>1 DEF PartialOwn, WritesOwn, Whole
  <2>4. \A i : Published(i) => Published(i)'
    BY <2>1 DEF Published, Whole, Renamed
  <2>. QED
    BY <2>1, <2>2, <2>3, <2>4 DEF PathPublished, MappedPublished
<1>9. ASSUME NEW b \in Builds, Age(b) PROVE CacheInv'
  BY <1>9 DEF Age, Shape, PartialOwn, WritesOwn, PathPublished, MappedPublished,
              Published, Whole
<1>. QED
  BY <1>1, <1>2, <1>3, <1>4, <1>5, <1>6, <1>7, <1>8, <1>9 DEF CacheNext, load_or_build,
     Apart

\* The invariant of the partial-file-and-rename protocol.
THEOREM CacheInvariant == DistinctProcesses => (CacheSpec => []CacheInv)
<1>. SUFFICES ASSUME DistinctProcesses PROVE CacheSpec => []CacheInv
  OBVIOUS
<1>1. CacheInit => CacheInv
  BY NoFileAssumption DEF CacheInit, CacheInv, Shape, PartialOwn, WritesOwn, PathPublished,
     MappedPublished, Steps
<1>2. CacheInv /\ [CacheNext]_cache => CacheInv'
  BY CacheStep
<1>. QED
  BY <1>1, <1>2, PTL DEF CacheSpec

\* Whatever fails and whoever dies, however slow the builds and however often
\* the lock is broken, the package's path never names a file that is not a
\* whole package, as long as no two calls share a process identifier.
THEOREM CacheAlwaysComplete ==
  DistinctProcesses => (CacheSpec => []CachedComplete)
<1>. SUFFICES ASSUME DistinctProcesses PROVE CacheSpec => []CachedComplete
  OBVIOUS
<1>1. CacheInv => CachedComplete
  BY DEF CacheInv, PathPublished, Published, CachedComplete
<1>. QED
  BY <1>1, CacheInvariant, PTL

\* Under the same assumption the bytes under a mapping never change.
THEOREM CacheMappedStable == DistinctProcesses => (CacheSpec => MappedStable)
<1>. SUFFICES ASSUME DistinctProcesses PROVE CacheSpec => MappedStable
  OBVIOUS
<1>. DEFINE Stable == \A a \in Actors : mapped[a] # NoFile => file'[mapped[a]] = file[mapped[a]]
<1>1. CacheInv /\ [CacheNext]_cache => [Stable]_cache
  <2>. SUFFICES ASSUME CacheInv, CacheNext, NEW m \in Actors, mapped[m] # NoFile
                PROVE  file'[mapped[m]] = file[mapped[m]]
    OBVIOUS
  <2>1. mapped[m] \in Actors /\ pc[mapped[m]] \in Renamed
    BY DEF CacheInv, MappedPublished, Published
  <2>2. \/ file' = file
        \/ \E a \in Actors : Truncate(a) \/ Write(a)
    BY DEF CacheNext, load_or_build, Load, MakeDir, Acquire,
           Stat, Break, Build, Rename,
           DropPartial, PruneList, PruneRemove, Unlock,
           PrivateBuild, Crash, Age
  <2>3. ASSUME NEW a \in Actors, Truncate(a) PROVE file'[mapped[m]] = file[mapped[m]]
    <3>1. mapped[m] # a
      BY <2>1, <2>3 DEF Truncate, Renamed
    <3>2. partial[PartialOf(a)] # NoFile => partial[PartialOf(a)] = a
      BY TruncatesOwn
    <3>3. file' = file \/ file' = [file EXCEPT ![a] = [by |-> a, whole |-> FALSE]]
      BY <2>3, <3>2 DEF Truncate
    <3>. QED
      BY <2>1, <3>1, <3>3 DEF CacheInv, Shape
  <2>4. ASSUME NEW a \in Actors, Write(a) PROVE file'[mapped[m]] = file[mapped[m]]
    <3>1. mapped[m] # a
      BY <2>1, <2>4 DEF Write, Renamed
    <3>2. handle[a] = a
      BY <2>4 DEF Write, CacheInv, WritesOwn
    <3>3. file' = file \/ file' = [file EXCEPT ![a].whole = TRUE]
      BY <2>4, <3>2 DEF Write
    <3>. QED
      BY <2>1, <3>1, <3>3 DEF CacheInv, Shape
  <2>. QED
    BY <2>2, <2>3, <2>4
<1>. QED
  BY <1>1, CacheInvariant, PTL DEF CacheSpec, MappedStable

----------------------------------------------------------------------------
(***************************************************************************)
(* The lock, until one is broken.                                          *)
(***************************************************************************)
Owns(a) == lock[BuildOf[a]] # NoFile /\ lock[BuildOf[a]].owner = a

\* Until a lock is broken, whoever is between taking and removing a lock owns
\* the lock file that is there.
LockInv ==
  /\ pc \in [Actors -> Steps]
  /\ lock \in [Builds -> LockFile \cup {NoFile}]
  /\ ~overruled => \A a \in Actors : pc[a] \in Holding => Owns(a)

\* A step that leaves the locks alone and takes no one into a build.
LEMMA LockKept ==
  ASSUME LockInv, lock' = lock, overruled' = overruled, pc' \in [Actors -> Steps],
         \A a \in Actors : pc'[a] \in Holding => pc[a] \in Holding
  PROVE  LockInv'
BY DEF LockInv, Owns

\* The lock file of an actor is a lock file.
LEMMA NewLock ==
  ASSUME NEW a \in Actors, NEW s \in BOOLEAN
  PROVE  /\ [owner |-> a, stale |-> s] \in LockFile
         /\ [owner |-> a, stale |-> s] # NoFile
         /\ [owner |-> a, stale |-> s].owner = a
<1>1. [owner |-> a, stale |-> s] \in LockFile
  BY DEF LockFile
<1>. QED
  BY <1>1, NoFileAssumption

\* Every step of every process keeps the lock's invariant.
LEMMA LockStep == LockInv /\ [CacheNext]_cache => LockInv'
<1>. SUFFICES ASSUME LockInv, [CacheNext]_cache PROVE LockInv'
  OBVIOUS
<1>1. CASE UNCHANGED cache
  BY <1>1, LockKept DEF cache, LockInv
<1>2. ASSUME NEW a \in Actors,
             \/ Load(a) \/ MakeDir(a) \/ Stat(a) \/ Build(a)
             \/ Truncate(a) \/ Write(a) \/ Rename(a) \/ DropPartial(a)
             \/ PruneList(a) \/ PruneRemove(a) \/ PrivateBuild(a)
      PROVE  LockInv'
  <2>1. lock' = lock /\ overruled' = overruled
    BY <1>2 DEF Load, MakeDir, Stat, Build, Truncate, Write,
                Rename, DropPartial, PruneList,
                PruneRemove, PrivateBuild
  <2>2. CASE pc' = pc
    BY <2>1, <2>2, LockKept DEF LockInv
  <2>3. CASE pc' # pc
    <3>1. \E s \in Steps : pc' = [pc EXCEPT ![a] = s] /\ (s \in Holding => pc[a] \in Holding)
      <4>1. CASE Load(a) \/ MakeDir(a) \/ PrivateBuild(a)
        BY <4>1 DEF Load, MakeDir, PrivateBuild, Goto, Steps,
                    Holding, Ended
      <4>2. CASE Stat(a)
        <5>1. \E s \in {"load", "break"} : pc' = [pc EXCEPT ![a] = s]
          BY <4>2 DEF Stat, Goto
        <5>. QED
          BY <5>1 DEF Steps, Holding
      <4>3. CASE Build(a) \/ Truncate(a) \/ Write(a)
        BY <4>3 DEF Build, Truncate, Write, Goto, Steps,
                    Holding
      <4>4. CASE Rename(a) \/ DropPartial(a) \/ PruneList(a)
        BY <4>4 DEF Rename, DropPartial, PruneList, Goto, Steps,
                    Holding
      <4>5. CASE PruneRemove(a)
        BY <2>3, <4>5 DEF PruneRemove, Goto, Steps, Holding
      <4>. QED
        BY <1>2, <4>1, <4>2, <4>3, <4>4, <4>5
    <3>2. /\ pc' \in [Actors -> Steps]
          /\ \A c \in Actors : pc'[c] \in Holding => pc[c] \in Holding
      BY <3>1 DEF LockInv
    <3>. QED
      BY <2>1, <3>2, LockKept
  <2>. QED
    BY <2>2, <2>3
<1>3. ASSUME NEW a \in Actors, Acquire(a) PROVE LockInv'
  <2>1. BuildOf[a] \in Builds /\ pc[a] = "acquire" /\ overruled' = overruled
    BY <1>3, Names DEF Acquire
  <2>2. CASE lock' = lock /\ \E s \in {"stat", "private"} : pc' = [pc EXCEPT ![a] = s]
    <3>1. /\ pc' \in [Actors -> Steps]
          /\ \A c \in Actors : pc'[c] \in Holding => pc[c] \in Holding
      BY <2>2 DEF LockInv, Steps, Holding
    <3>. QED
      BY <2>1, <2>2, <3>1, LockKept
  <2>3. CASE /\ lock[BuildOf[a]] = NoFile
             /\ lock' = [lock EXCEPT ![BuildOf[a]] = [owner |-> a, stale |-> FALSE]]
             /\ pc' = [pc EXCEPT ![a] = "build"]
    <3>. DEFINE l == [owner |-> a, stale |-> FALSE]
    <3>1. l \in LockFile /\ l # NoFile /\ l.owner = a
      BY NewLock
    <3>. HIDE DEF l
    <3>2. /\ pc' \in [Actors -> Steps]
          /\ lock' \in [Builds -> LockFile \cup {NoFile}]
          /\ lock'[BuildOf[a]] = l
          /\ \A b \in Builds \ {BuildOf[a]} : lock'[b] = lock[b]
          /\ \A c \in Actors \ {a} : pc'[c] = pc[c]
      BY <2>1, <2>3, <3>1 DEF LockInv, Steps, Holding, l
    <3>3. ASSUME ~overruled, NEW c \in Actors, pc'[c] \in Holding PROVE Owns(c)'
      <4>1. CASE c = a
        BY <3>1, <3>2, <4>1 DEF Owns
      <4>2. CASE c # a
        <5>1. Owns(c) /\ BuildOf[c] \in Builds
          BY <3>2, <3>3, <4>2, Names DEF LockInv
        <5>2. BuildOf[c] # BuildOf[a]
          BY <2>3, <5>1 DEF Owns
        <5>. QED
          BY <3>2, <5>1, <5>2 DEF Owns
      <4>. QED
        BY <4>1, <4>2
    <3>. QED
      BY <2>1, <3>2, <3>3 DEF LockInv
  <2>. QED
    BY <1>3, <2>2, <2>3 DEF Acquire, Goto
<1>4. ASSUME NEW a \in Actors, Unlock(a) PROVE LockInv'
  <2>1. /\ BuildOf[a] \in Builds
        /\ pc[a] \in Holding
        /\ overruled' = overruled
        /\ lock' = [lock EXCEPT ![BuildOf[a]] = NoFile] \/ lock' = lock
        /\ \E s \in {"done", "failed"} : pc' = [pc EXCEPT ![a] = s]
    BY <1>4, Names DEF Unlock, RemoveLock, Goto, Holding
  <2>2. /\ pc' \in [Actors -> Steps]
        /\ lock' \in [Builds -> LockFile \cup {NoFile}]
        /\ \A c \in Actors \ {a} : pc'[c] = pc[c]
        /\ pc'[a] \notin Holding
        /\ \A b \in Builds \ {BuildOf[a]} : lock'[b] = lock[b]
    BY <2>1 DEF LockInv, Steps, Ended, Holding
  <2>3. ASSUME ~overruled, NEW c \in Actors, pc'[c] \in Holding PROVE Owns(c)'
    <3>1. c # a /\ Owns(c) /\ Owns(a) /\ BuildOf[c] \in Builds
      BY <2>1, <2>2, <2>3, Names DEF LockInv
    <3>2. BuildOf[c] # BuildOf[a]
      BY <3>1 DEF Owns
    <3>. QED
      BY <2>2, <3>1, <3>2 DEF Owns
  <2>. QED
    BY <2>1, <2>2, <2>3 DEF LockInv
<1>5. ASSUME NEW a \in Actors, Break(a) PROVE LockInv'
  <2>1. /\ BuildOf[a] \in Builds
        /\ overruled'
        /\ lock' = [lock EXCEPT ![BuildOf[a]] = NoFile] \/ lock' = lock
        /\ pc' = [pc EXCEPT ![a] = "load"]
    BY <1>5, Names DEF Break, RemoveLock, Goto
  <2>. QED
    BY <2>1 DEF LockInv, Steps
<1>6. ASSUME NEW p \in Processes, Crash(p) PROVE LockInv'
  <2>1. /\ pc' \in [Actors -> Steps]
        /\ \A c \in Actors : pc'[c] \in Holding => pc[c] \in Holding
    BY <1>6 DEF Crash, LockInv, Steps, Ended, Holding
  <2>. QED
    BY <1>6, <2>1, LockKept DEF Crash
<1>7. ASSUME NEW b \in Builds, Age(b) PROVE LockInv'
  <2>1. lock[b] \in LockFile
    BY <1>7 DEF Age, LockInv
  <2>2. PICK w \in Actors, s \in BOOLEAN : lock[b] = [owner |-> w, stale |-> s]
    BY <2>1 DEF LockFile
  <2>3. /\ lock'[b] = [owner |-> w, stale |-> TRUE]
        /\ lock' \in [Builds -> LockFile \cup {NoFile}]
        /\ \A c \in Builds \ {b} : lock'[c] = lock[c]
        /\ pc' = pc /\ overruled' = overruled
    <3>1. [owner |-> w, stale |-> TRUE] \in LockFile
      BY NewLock
    <3>2. lock[b].owner = w
      BY <2>2
    <3>3. lock' = [lock EXCEPT ![b] = [owner |-> w, stale |-> TRUE]]
      BY <1>7, <3>2 DEF Age
    <3>. QED
      BY <1>7, <3>1, <3>3 DEF Age, LockInv
  <2>4. lock'[b] # NoFile /\ lock'[b].owner = lock[b].owner
    <3>1. lock[b].owner = w
      BY <2>2
    <3>2. [owner |-> w, stale |-> TRUE] # NoFile /\ [owner |-> w, stale |-> TRUE].owner = w
      BY NewLock
    <3>. QED
      BY <2>3, <3>1, <3>2
  <2>5. ASSUME ~overruled, NEW c \in Actors, pc[c] \in Holding PROVE Owns(c)'
    BY <2>3, <2>4, <2>5, Names DEF LockInv, Owns
  <2>. QED
    BY <2>3, <2>5 DEF LockInv
<1>. QED
  BY <1>1, <1>2, <1>3, <1>4, <1>5, <1>6, <1>7 DEF CacheNext, load_or_build

\* Until some process takes a lock for stale, one process at a time builds a
\* package, whatever fails and whoever dies, threads of one process included.
THEOREM CacheLockExcludes == CacheSpec => []LockExcludes
<1>1. CacheInit => LockInv
  BY DEF CacheInit, LockInv, Steps, Holding
<1>2. LockInv => LockExcludes
  <2>. SUFFICES ASSUME LockInv, ~overruled, NEW a \in Actors, NEW c \in Actors, a # c,
                       BuildOf[a] = BuildOf[c], pc[a] \in Holding, pc[c] \in Holding
                PROVE  FALSE
    BY DEF LockExcludes, OneBuilder
  <2>1. Owns(a) /\ Owns(c)
    BY DEF LockInv
  <2>. QED
    BY <2>1 DEF Owns
<1>. QED
  BY <1>1, <1>2, LockStep, PTL DEF CacheSpec
----------------------------------------------------------------------------
(***************************************************************************)
(* Who leaves a lock behind, when removing a file does not fail.           *)
(***************************************************************************)
Guarding == Holding \cup {"crashed"}

\* Each lock file is its owner's build's, and the owner is inside its build or
\* has died there.
HolderInv ==
  /\ pc \in [Actors -> Steps]
  /\ lock \in [Builds -> LockFile \cup {NoFile}]
  /\ \A b \in Builds : lock[b] # NoFile =>
       BuildOf[lock[b].owner] = b /\ pc[lock[b].owner] \in Guarding

\* A lock file has an owner among the actors.
LEMMA LockOwner ==
  ASSUME NEW l \in LockFile
  PROVE  l.owner \in Actors
BY DEF LockFile

\* A step that makes no lock and takes nobody out of a build while it may own one.
LEMMA HolderKept ==
  ASSUME HolderInv, pc' \in [Actors -> Steps],
         lock' \in [Builds -> LockFile \cup {NoFile}],
         \A b \in Builds : lock'[b] # NoFile =>
           /\ lock[b] # NoFile
           /\ lock'[b].owner = lock[b].owner
           /\ pc[lock[b].owner] \in Guarding => pc'[lock[b].owner] \in Guarding
  PROVE  HolderInv'
BY DEF HolderInv

\* Every step of every process keeps each lock with a builder or a dead process.
LEMMA HolderStep ==
  ASSUME "remove" \notin Faults, HolderInv, [CacheNext]_cache
  PROVE  HolderInv'
<1>0. \A b \in Builds : lock[b] # NoFile => lock[b] \in LockFile /\ lock[b].owner \in Actors
  BY LockOwner DEF HolderInv
<1>1. CASE UNCHANGED cache
  BY <1>1, HolderKept DEF cache, HolderInv
<1>2. ASSUME NEW a \in Actors,
             \/ Load(a) \/ MakeDir(a) \/ Stat(a) \/ Build(a)
             \/ Truncate(a) \/ Write(a) \/ Rename(a) \/ DropPartial(a)
             \/ PruneList(a) \/ PruneRemove(a) \/ PrivateBuild(a)
      PROVE  HolderInv'
  <2>1. lock' = lock
    BY <1>2 DEF Load, MakeDir, Stat, Build, Truncate, Write,
                Rename, DropPartial, PruneList,
                PruneRemove, PrivateBuild
  <2>2. pc' = pc \/ \E s \in Steps :
                       pc' = [pc EXCEPT ![a] = s] /\ (pc[a] \in Guarding => s \in Guarding)
    <3>1. CASE Load(a) \/ MakeDir(a) \/ PrivateBuild(a)
      BY <3>1 DEF Load, MakeDir, PrivateBuild, Goto, Steps,
                  Holding, Ended, Guarding
    <3>2. CASE Stat(a)
      <4>1. pc[a] = "stat" /\ \E s \in {"load", "break"} : pc' = [pc EXCEPT ![a] = s]
        BY <3>2 DEF Stat, Goto
      <4>. QED
        BY <4>1 DEF Steps, Holding, Guarding
    <3>3. CASE Build(a) \/ Truncate(a) \/ Write(a)
      BY <3>3 DEF Build, Truncate, Write, Goto, Steps,
                  Holding, Guarding
    <3>4. CASE Rename(a) \/ DropPartial(a) \/ PruneList(a)
      BY <3>4 DEF Rename, DropPartial, PruneList, Goto, Steps,
                  Holding, Guarding
    <3>5. CASE PruneRemove(a)
      BY <3>5 DEF PruneRemove, Goto, Steps, Holding, Guarding
    <3>. QED
      BY <1>2, <3>1, <3>2, <3>3, <3>4, <3>5
  <2>3. /\ pc' \in [Actors -> Steps]
        /\ \A c \in Actors : pc[c] \in Guarding => pc'[c] \in Guarding
    <3>1. pc \in [Actors -> Steps]
      BY DEF HolderInv
    <3>2. CASE pc' = pc
      BY <3>1, <3>2
    <3>3. ASSUME NEW s \in Steps, pc' = [pc EXCEPT ![a] = s],
                 pc[a] \in Guarding => s \in Guarding
          PROVE  /\ pc' \in [Actors -> Steps]
                 /\ \A c \in Actors : pc[c] \in Guarding => pc'[c] \in Guarding
      <4>1. pc' \in [Actors -> Steps] /\ pc'[a] = s
        BY <3>1, <3>3
      <4>2. \A c \in Actors : c # a => pc'[c] = pc[c]
        BY <3>1, <3>3
      <4>. QED
        BY <3>3, <4>1, <4>2
    <3>. QED
      BY <2>2, <3>2, <3>3
  <2>. QED
    BY <1>0, <2>1, <2>3, HolderKept DEF HolderInv
<1>3. ASSUME NEW a \in Actors, Acquire(a) PROVE HolderInv'
  <2>1. BuildOf[a] \in Builds /\ pc[a] = "acquire"
    BY <1>3, Names DEF Acquire
  <2>2. CASE lock' = lock /\ \E s \in {"stat", "private"} : pc' = [pc EXCEPT ![a] = s]
    <3>1. /\ pc' \in [Actors -> Steps]
          /\ \A c \in Actors : pc[c] \in Guarding => pc'[c] \in Guarding
      BY <2>1, <2>2 DEF HolderInv, Steps, Holding, Guarding
    <3>. QED
      BY <1>0, <2>2, <3>1, HolderKept DEF HolderInv
  <2>3. CASE /\ lock[BuildOf[a]] = NoFile
             /\ lock' = [lock EXCEPT ![BuildOf[a]] = [owner |-> a, stale |-> FALSE]]
             /\ pc' = [pc EXCEPT ![a] = "build"]
    <3>. DEFINE l == [owner |-> a, stale |-> FALSE]
    <3>1. l \in LockFile /\ l # NoFile /\ l.owner = a
      BY NewLock
    <3>. HIDE DEF l
    <3>2. /\ pc' \in [Actors -> Steps]
          /\ lock' \in [Builds -> LockFile \cup {NoFile}]
          /\ lock'[BuildOf[a]] = l
          /\ \A b \in Builds \ {BuildOf[a]} : lock'[b] = lock[b]
          /\ \A c \in Actors : pc[c] \in Guarding => pc'[c] \in Guarding
          /\ pc'[a] \in Guarding
      BY <2>1, <2>3, <3>1 DEF HolderInv, Steps, Holding, Guarding, l
    <3>. QED
      BY <1>0, <3>1, <3>2 DEF HolderInv
  <2>. QED
    BY <1>3, <2>2, <2>3 DEF Acquire, Goto
<1>4. ASSUME NEW a \in Actors, Unlock(a) \/ Break(a) PROVE HolderInv'
  <2>1. /\ BuildOf[a] \in Builds
        /\ lock' = [lock EXCEPT ![BuildOf[a]] = NoFile]
        /\ \E s \in {"done", "failed", "load"} : pc' = [pc EXCEPT ![a] = s]
    BY <1>4, Names DEF Unlock, Break, RemoveLock, Goto
  <2>2. /\ pc' \in [Actors -> Steps]
        /\ lock' \in [Builds -> LockFile \cup {NoFile}]
        /\ \A c \in Actors \ {a} : pc'[c] = pc[c]
        /\ lock'[BuildOf[a]] = NoFile
        /\ \A b \in Builds \ {BuildOf[a]} : lock'[b] = lock[b]
    BY <2>1 DEF HolderInv, Steps, Ended
  <2>3. \A b \in Builds \ {BuildOf[a]} : lock[b] # NoFile => lock[b].owner # a
    BY DEF HolderInv
  <2>. QED
    BY <1>0, <2>2, <2>3, HolderKept
<1>5. ASSUME NEW p \in Processes, Crash(p) PROVE HolderInv'
  <2>1. /\ pc' \in [Actors -> Steps]
        /\ lock' = lock
        /\ \A c \in Actors : pc[c] \in Guarding => pc'[c] \in Guarding
    BY <1>5 DEF Crash, HolderInv, Steps, Ended, Guarding
  <2>. QED
    BY <1>0, <2>1, HolderKept DEF HolderInv
<1>6. ASSUME NEW b \in Builds, Age(b) PROVE HolderInv'
  <2>. DEFINE w == lock[b].owner
              l == [owner |-> w, stale |-> TRUE]
  <2>1. w \in Actors /\ lock[b] # NoFile /\ lock' = [lock EXCEPT ![b] = l] /\ pc' = pc
    BY <1>0, <1>6 DEF Age
  <2>2. l \in LockFile /\ l # NoFile /\ l.owner = w
    BY <2>1, NewLock
  <2>. HIDE DEF l
  <2>3. /\ lock' \in [Builds -> LockFile \cup {NoFile}]
        /\ lock'[b] = l
        /\ \A c \in Builds \ {b} : lock'[c] = lock[c]
    BY <2>1, <2>2 DEF HolderInv
  <2>. QED
    BY <2>1, <2>2, <2>3, HolderKept DEF HolderInv
<1>. QED
  BY <1>1, <1>2, <1>3, <1>4, <1>5, <1>6 DEF CacheNext, load_or_build

\* A lock is left behind only by a builder that died, as long as the calls that
\* remove a lock succeed: a failed compilation, write or rename, a broken lock
\* and a slow build leave none.
THEOREM CacheLockHasHolder ==
  "remove" \notin Faults => (CacheSpec => []LockHasHolder)
<1>. SUFFICES ASSUME "remove" \notin Faults PROVE CacheSpec => []LockHasHolder
  OBVIOUS
<1>1. CacheInit => HolderInv
  BY DEF CacheInit, HolderInv, Steps
<1>2. HolderInv /\ [CacheNext]_cache => HolderInv'
  BY HolderStep
<1>3. HolderInv => LockHasHolder
  BY DEF HolderInv, LockHasHolder, Guarding
<1>. QED
  BY <1>1, <1>2, <1>3, PTL DEF CacheSpec

=============================================================================
