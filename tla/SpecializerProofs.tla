------------------------- MODULE SpecializerProofs -------------------------
(***************************************************************************)
(* Proofs about the elaborator's worklist, for every program, every number *)
(* of instances and every budget and quota.                                *)
(***************************************************************************)
EXTENDS Specializer, FiniteSetTheorems, TLAPS

InstanceState == {"Pending", "Active", "Completed", "Failed"}

\* The frames of a stack whose instances are the known ones, D.
BodyFrames(D) ==
    [kind : {"body"}, inst : D, phase : {"pass", "rest"}, at : Nat \ {0}, refs : Seq(D)]
DemandFrames(D) ==
    [kind : {"demand"}, inst : D, how : {"apply", "type", "drop"},
     saved : Instances \cup {None}, todo : Seq(D), seen : SUBSET D, closure : SUBSET D]
Frames(D) == BodyFrames(D) \cup DemandFrames(D)

\* The parts of TypeOK that do not look at the stack.
Typed ==
    /\ ProgramOK(program)
    /\ instances \in Seq(Instances) /\ Len(instances) <= INSTANCE_BUDGET
    /\ DOMAIN states = Range(instances)
    /\ states \in [DOMAIN states -> InstanceState]
    /\ queue \in Seq(DOMAIN states)
    /\ references \in [Instances -> Seq(DOMAIN states)]
    /\ raised \in {"none", "error", "fuel"}
    /\ enclosing \in Instances \cup {None}
    /\ answered \subseteq evaluations /\ evaluations \subseteq DOMAIN fragments
    /\ \A n \in DOMAIN fragments : n \in Instances /\ fragments[n] \subseteq Instances
    /\ fuel \in 0..CTFE_FUEL /\ spent \in Nat
    /\ result \in {"running", "ok", "error", "fuel"}
    /\ made \in [Instances -> Nat]

-----------------------------------------------------------------------------
(* Sequences. *)

\* Sequences over a set are sequences over a larger one.
LEMMA SeqMono ==
    ASSUME NEW S, NEW T, S \subseteq T
    PROVE  Seq(S) \subseteq Seq(T)
<1>. SUFFICES ASSUME NEW s \in Seq(S) PROVE s \in Seq(T)
  OBVIOUS
<1>1. s \in [1..Len(s) -> S] /\ Len(s) \in Nat
  OBVIOUS
<1>2. s \in [1..Len(s) -> T]
  BY <1>1
<1>. QED
  BY <1>1, <1>2

\* What an element added at the end adds.
LEMMA AppendFacts ==
    ASSUME NEW S, NEW s \in Seq(S), NEW x \in S
    PROVE  /\ Append(s, x) \in Seq(S)
           /\ Len(Append(s, x)) = Len(s) + 1
           /\ \A i \in 1..Len(s) : Append(s, x)[i] = s[i]
           /\ Append(s, x)[Len(s) + 1] = x
           /\ Range(Append(s, x)) = Range(s) \cup {x}
<1>1. /\ Append(s, x) \in Seq(S)
      /\ Len(Append(s, x)) = Len(s) + 1
      /\ \A i \in 1..Len(s) : Append(s, x)[i] = s[i]
      /\ Append(s, x)[Len(s) + 1] = x
  OBVIOUS
<1>2. /\ DOMAIN Append(s, x) = 1..(Len(s) + 1) /\ DOMAIN s = 1..Len(s)
      /\ 1..(Len(s) + 1) = 1..Len(s) \cup {Len(s) + 1}
  OBVIOUS
<1>3. Range(Append(s, x)) = Range(s) \cup {x}
  BY <1>1, <1>2 DEF Range
<1>. QED
  BY <1>1, <1>3

\* What is left without the last element.
LEMMA FrontFacts ==
    ASSUME NEW S, NEW s \in Seq(S), s # <<>>
    PROVE  /\ Len(s) \in Nat \ {0}
           /\ Front(s) \in Seq(S)
           /\ Len(Front(s)) = Len(s) - 1
           /\ \A i \in 1..(Len(s) - 1) : Front(s)[i] = s[i]
           /\ Last(s) = s[Len(s)] /\ Last(s) \in S
           /\ Range(s) = Range(Front(s)) \cup {Last(s)}
<1>1. Len(s) \in Nat \ {0} /\ DOMAIN s = 1..Len(s)
  OBVIOUS
<1>2. /\ Front(s) \in Seq(S)
      /\ Len(Front(s)) = Len(s) - 1
      /\ \A i \in 1..(Len(s) - 1) : Front(s)[i] = s[i]
  BY <1>1 DEF Front
<1>3. Last(s) = s[Len(s)] /\ Last(s) \in S
  BY <1>1 DEF Last
<1>4. /\ DOMAIN Front(s) = 1..(Len(s) - 1)
      /\ 1..Len(s) = 1..(Len(s) - 1) \cup {Len(s)}
  BY <1>1, <1>2
<1>5. Range(s) = Range(Front(s)) \cup {Last(s)}
  BY <1>1, <1>2, <1>3, <1>4 DEF Range
<1>. QED
  BY <1>1, <1>2, <1>3, <1>5

\* The last element is one of them.
LEMMA LastIn ==
    ASSUME NEW S, NEW s \in Seq(S), s # <<>>
    PROVE  Last(s) \in S /\ Last(s) \in Range(s)
BY FrontFacts

\* The range of a concatenation.
LEMMA ConcatFacts ==
    ASSUME NEW S, NEW s \in Seq(S), NEW t \in Seq(S)
    PROVE  /\ s \o t \in Seq(S)
           /\ Range(s \o t) = Range(s) \cup Range(t)
<1>1. /\ s \o t \in Seq(S) /\ Len(s \o t) = Len(s) + Len(t)
      /\ DOMAIN s = 1..Len(s) /\ DOMAIN t = 1..Len(t)
      /\ DOMAIN (s \o t) = 1..(Len(s) + Len(t))
      /\ Len(s) \in Nat /\ Len(t) \in Nat
  OBVIOUS
<1>2. \A i \in 1..Len(s) : i \in DOMAIN (s \o t) /\ (s \o t)[i] = s[i]
  BY <1>1
<1>3. \A i \in 1..Len(t) : Len(s) + i \in DOMAIN (s \o t) /\ (s \o t)[Len(s) + i] = t[i]
  BY <1>1
<1>4. ASSUME NEW i \in DOMAIN (s \o t)
      PROVE  (s \o t)[i] \in Range(s) \cup Range(t)
  <2>1. CASE i <= Len(s)
    BY <1>1, <1>2, <2>1 DEF Range
  <2>2. CASE i > Len(s)
    <3>1. i - Len(s) \in 1..Len(t) /\ Len(s) + (i - Len(s)) = i
      BY <1>1, <2>2
    <3>. QED
      BY <1>1, <1>3, <3>1 DEF Range
  <2>. QED
    BY <1>1, <2>1, <2>2
<1>5. Range(s) \cup Range(t) \subseteq Range(s \o t)
  BY <1>1, <1>2, <1>3 DEF Range
<1>6. Range(s \o t) \subseteq Range(s) \cup Range(t)
  BY <1>4 DEF Range
<1>. QED
  BY <1>1, <1>5, <1>6

\* Taking the head of a queue.
LEMMA TailFacts ==
    ASSUME NEW S, NEW s \in Seq(S), s # <<>>
    PROVE  /\ Head(s) \in S /\ Tail(s) \in Seq(S)
           /\ Range(s) \subseteq Range(Tail(s)) \cup {Head(s)}
<1>1. /\ Head(s) \in S /\ Tail(s) \in Seq(S) /\ Head(s) = s[1]
      /\ DOMAIN s = 1..Len(s) /\ DOMAIN Tail(s) = 1..(Len(s) - 1) /\ Len(s) \in Nat \ {0}
      /\ \A i \in 1..(Len(s) - 1) : Tail(s)[i] = s[i + 1]
  OBVIOUS
<1>2. ASSUME NEW i \in 1..Len(s), i # 1
      PROVE  s[i] \in Range(Tail(s))
  <2>1. i - 1 \in DOMAIN Tail(s) /\ (i - 1) + 1 = i
    BY <1>1, <1>2
  <2>2. Tail(s)[i - 1] = s[i]
    BY <1>1, <2>1
  <2>. QED
    BY <2>1, <2>2 DEF Range
<1>3. Range(s) \subseteq Range(Tail(s)) \cup {Head(s)}
  BY <1>1, <1>2 DEF Range
<1>. QED
  BY <1>1, <1>3
-----------------------------------------------------------------------------
(* What the stack says.  A frame lies on the one it was made from. *)

ItemsOf(p, b) == IF b.phase = "pass" THEN p.body[b.inst].pass ELSE p.body[b.inst].rest

\* The demand d was made by the item that the body b is at, and has put aside
\* the scratch state of b if b is being rewritten.
Under(p, b, d) ==
    /\ b.kind = "body"
    /\ b.at <= Len(ItemsOf(p, b))
    /\ ItemsOf(p, b)[b.at].op = d.how
    /\ b.phase = "rest" => d.saved = b.inst

\* A body is taken from the queue or by a demand, a demand is made by a body:
\* f may be put on s, and every frame of s was put on those below it.
On(p, s, f) ==
    IF f.kind = "body" THEN s = <<>> \/ s[Len(s)].kind = "demand"
                       ELSE s # <<>> /\ Under(p, s[Len(s)], f)
Chain(p, s) ==
    \A i \in 1..Len(s) :
        IF s[i].kind = "body" THEN i = 1 \/ s[i - 1].kind = "demand"
                              ELSE i > 1 /\ Under(p, s[i - 1], s[i])

\* The instances whose bodies are on the stack, and that none is twice.
Bodies(s) == {s[i].inst : i \in {j \in 1..Len(s) : s[j].kind = "body"}}
Once(s) ==
    \A i, j \in 1..Len(s) :
        (s[i].kind = "body" /\ s[j].kind = "body" /\ s[i].inst = s[j].inst) => i = j

\* The scratch state e is the bindings of the body on top, if that is being
\* rewritten, also while an error unwinds the stack.
Scratch(s, e) ==
    (s # <<>> /\ Last(s).kind = "body" /\ Last(s).phase = "rest") => e = Last(s).inst

StackOK(p, D, s, e) == s \in Seq(Frames(D)) /\ Chain(p, s) /\ Scratch(s, e)

StackInv == Typed /\ StackOK(program, DOMAIN states, stack, enclosing)

\* States, bodies, queue and history in step.
WorkInv ==
    /\ \A n \in DOMAIN states : states[n] = "Active" <=> n \in Bodies(stack)
    /\ Once(stack)
    /\ \A n \in DOMAIN states : states[n] = "Pending" => n \in Range(queue)
    /\ \A n \in Instances :
          made[n] = IF n \in DOMAIN states /\ states[n] # "Pending" THEN 1 ELSE 0

\* A body is at one of its items or past the last, and the calls it has passed
\* are among its references.
Gathered(p, f) ==
    /\ f.at <= Len(ItemsOf(p, f)) + 1
    /\ f.phase = "rest" =>
          \A j \in 1..Len(ItemsOf(p, f)) :
              (j < f.at /\ ItemsOf(p, f)[j].op = "call") => ItemsOf(p, f)[j].to \in Range(f.refs)

\* What the members of an unfinished closure refer to is in it or to do.
Closing(f) ==
    /\ f.seen = f.closure
    /\ \A m \in f.closure : /\ states[m] = "Completed"
                            /\ Range(references[m]) \subseteq f.closure \cup Range(f.todo)
    /\ f.inst \in DOMAIN fragments \cup f.closure \cup Range(f.todo)

FrameInv(f) == IF f.kind = "body" THEN Gathered(program, f) ELSE Closing(f)

GoodFrames == {f \in Frames(DOMAIN states) : FrameInv(f)}

\* A completed instance refers to all it calls.
CallsReferenced ==
    \A m \in DOMAIN states : states[m] = "Completed" => Called(m) \subseteq Range(references[m])

FragmentsKnown == \A n \in DOMAIN fragments : fragments[n] \subseteq DOMAIN states

ClosureInv == stack \in Seq(GoodFrames) /\ CallsReferenced /\ FragmentsKnown /\ FragmentClosed

\* Until an error, what was executed is what was paid for.
FuelInv ==
    DropsNothing => /\ spent <= CTFE_FUEL
                    /\ raised = "none" => spent + fuel = CTFE_FUEL

-----------------------------------------------------------------------------
(* What putting a frame on the stack and taking one off do to them. *)

\* A stack is what is below the top, with the top on it.
LEMMA TopAndBelow ==
    ASSUME NEW S, NEW s \in Seq(S), s # <<>>
    PROVE  /\ Front(s) \in Seq(S) /\ Last(s) \in S
           /\ s = Append(Front(s), Last(s))
<1>1. /\ Len(s) \in Nat \ {0} /\ Front(s) \in Seq(S) /\ Len(Front(s)) = Len(s) - 1
      /\ \A i \in 1..(Len(s) - 1) : Front(s)[i] = s[i]
      /\ Last(s) = s[Len(s)] /\ Last(s) \in S
  BY FrontFacts
<1>2. /\ Append(Front(s), Last(s)) \in Seq(S)
      /\ Len(Append(Front(s), Last(s))) = Len(s)
      /\ \A i \in 1..(Len(s) - 1) : Append(Front(s), Last(s))[i] = Front(s)[i]
      /\ Append(Front(s), Last(s))[Len(s)] = Last(s)
  <2>. PICK t \in Seq(S) : t = Front(s)
    BY <1>1
  <2>. PICK x \in S : x = Last(s)
    BY <1>1
  <2>. QED
    BY <1>1, AppendFacts
<1>3. \A i \in 1..Len(s) : Append(Front(s), Last(s))[i] = s[i]
  BY <1>1, <1>2
<1>. PICK t : t = Append(Front(s), Last(s))
  OBVIOUS
<1>4. s = t
  BY <1>1, <1>2, <1>3
<1>. QED
  BY <1>1, <1>4

\* A chain is one frame put on a chain.
LEMMA ChainAppend ==
    ASSUME NEW S, NEW s \in Seq(S), NEW f \in S, NEW p
    PROVE  Chain(p, Append(s, f)) <=> Chain(p, s) /\ On(p, s, f)
<1>. DEFINE t == Append(s, f)
            Ok(u, i) == IF u[i].kind = "body" THEN i = 1 \/ u[i - 1].kind = "demand"
                                              ELSE i > 1 /\ Under(p, u[i - 1], u[i])
<1>1. /\ Len(s) \in Nat /\ Len(t) = Len(s) + 1
      /\ \A i \in 1..Len(s) : t[i] = s[i]
      /\ t[Len(s) + 1] = f
  BY AppendFacts
<1>2. \A i \in 1..Len(s) : i > 1 => i - 1 \in 1..Len(s)
  BY <1>1
<1>3. \A i \in 1..Len(s) : Ok(t, i) <=> Ok(s, i)
  BY <1>1, <1>2
<1>4. Ok(t, Len(s) + 1) <=> On(p, s, f)
  <2>1. s = <<>> <=> Len(s) = 0
    OBVIOUS
  <2>2. Len(s) # 0 => Len(s) \in 1..Len(s)
    BY <1>1
  <2>. QED
    BY <1>1, <2>1, <2>2 DEF On
<1>5. 1..Len(t) = 1..Len(s) \cup {Len(s) + 1}
  BY <1>1
<1>6. Chain(p, t) <=> \A i \in 1..Len(t) : Ok(t, i)
  BY DEF Chain
<1>7. Chain(p, s) <=> \A i \in 1..Len(s) : Ok(s, i)
  BY DEF Chain
<1>. HIDE DEF t, Ok
<1>8. Chain(p, t) <=> Chain(p, s) /\ On(p, s, f)
  BY <1>3, <1>4, <1>5, <1>6, <1>7
<1>. QED
  BY <1>8 DEF t

\* The bodies of one frame put on a stack.
LEMMA BodiesAppend ==
    ASSUME NEW S, NEW s \in Seq(S), NEW f \in S
    PROVE  /\ Bodies(Append(s, f)) = IF f.kind = "body" THEN Bodies(s) \cup {f.inst}
                                                        ELSE Bodies(s)
           /\ Once(Append(s, f)) <=> Once(s) /\ (f.kind = "body" => f.inst \notin Bodies(s))
<1>. DEFINE t == Append(s, f)
<1>1. /\ Len(s) \in Nat /\ Len(t) = Len(s) + 1
      /\ \A i \in 1..Len(s) : t[i] = s[i]
      /\ t[Len(s) + 1] = f
      /\ 1..Len(t) = 1..Len(s) \cup {Len(s) + 1}
      /\ Len(s) + 1 \notin 1..Len(s)
  BY AppendFacts
<1>. HIDE DEF t
<1>2. \A n : n \in Bodies(s) <=> \E i \in 1..Len(s) : s[i].kind = "body" /\ s[i].inst = n
  BY DEF Bodies
<1>3. \A n : n \in Bodies(t) <=> \E i \in 1..Len(t) : t[i].kind = "body" /\ t[i].inst = n
  BY DEF Bodies
<1>4. \A n : n \in Bodies(t) <=> n \in Bodies(s) \/ (f.kind = "body" /\ n = f.inst)
  BY <1>1, <1>2, <1>3
<1>5. Bodies(t) = IF f.kind = "body" THEN Bodies(s) \cup {f.inst} ELSE Bodies(s)
  BY <1>4
<1>6. Once(t) => Once(s) /\ (f.kind = "body" => f.inst \notin Bodies(s))
  <2>. SUFFICES ASSUME Once(t) PROVE Once(s) /\ (f.kind = "body" => f.inst \notin Bodies(s))
    OBVIOUS
  <2>1. Once(s)
    BY <1>1 DEF Once
  <2>2. ASSUME f.kind = "body", NEW i \in 1..Len(s), s[i].kind = "body", s[i].inst = f.inst
        PROVE  FALSE
    BY <1>1, <2>2 DEF Once
  <2>. QED
    BY <1>2, <2>1, <2>2
<1>7. Once(s) /\ (f.kind = "body" => f.inst \notin Bodies(s)) => Once(t)
  <2>. SUFFICES ASSUME Once(s), f.kind = "body" => f.inst \notin Bodies(s),
                       NEW i \in 1..Len(t), NEW j \in 1..Len(t),
                       t[i].kind = "body", t[j].kind = "body", t[i].inst = t[j].inst
                PROVE  i = j
    BY DEF Once
  <2>1. CASE i \in 1..Len(s) /\ j \in 1..Len(s)
    BY <1>1, <2>1 DEF Once
  <2>2. CASE i \in 1..Len(s) /\ j = Len(s) + 1
    BY <1>1, <1>2, <2>2
  <2>3. CASE j \in 1..Len(s) /\ i = Len(s) + 1
    BY <1>1, <1>2, <2>3
  <2>. QED
    BY <1>1, <2>1, <2>2, <2>3
<1>. QED
  BY <1>5, <1>6, <1>7 DEF t

\* The empty stack.
LEMMA EmptyStack ==
    ASSUME NEW p
    PROVE  Chain(p, <<>>) /\ Bodies(<<>>) = {} /\ Once(<<>>)
BY DEF Chain, Bodies, Once

-----------------------------------------------------------------------------
(* What the steps of the elaborator do to the stack. *)

\* Frames stay frames as instances become known.
LEMMA FramesMono ==
    ASSUME NEW D, NEW E, D \subseteq E
    PROVE  /\ BodyFrames(D) \subseteq BodyFrames(E)
           /\ DemandFrames(D) \subseteq DemandFrames(E)
           /\ Frames(D) \subseteq Frames(E)
           /\ Seq(Frames(D)) \subseteq Seq(Frames(E))
<1>1. Seq(D) \subseteq Seq(E) /\ SUBSET D \subseteq SUBSET E
  BY SeqMono
<1>2. BodyFrames(D) \subseteq BodyFrames(E)
  BY <1>1 DEF BodyFrames
<1>3. DemandFrames(D) \subseteq DemandFrames(E)
  BY <1>1 DEF DemandFrames
<1>4. Frames(D) \subseteq Frames(E)
  BY <1>2, <1>3 DEF Frames
<1>. QED
  BY <1>2, <1>3, <1>4, SeqMono

\* A frame is of one kind.
LEMMA FrameKinds ==
    ASSUME NEW D, NEW f \in Frames(D)
    PROVE  /\ f.kind \in {"body", "demand"}
           /\ f.kind = "body" <=> f \in BodyFrames(D)
           /\ f.kind = "demand" <=> f \in DemandFrames(D)
<1>1. \A g \in BodyFrames(D) : g.kind = "body"
  BY DEF BodyFrames
<1>2. \A g \in DemandFrames(D) : g.kind = "demand"
  BY DEF DemandFrames
<1>. QED
  BY <1>1, <1>2 DEF Frames

\* A frame that may lie where it is put.
LEMMA PutFrame ==
    ASSUME NEW p, NEW D, NEW e, NEW s \in Seq(Frames(D)), NEW f \in Frames(D),
           Chain(p, s), On(p, s, f), (f.kind = "body" /\ f.phase = "rest") => e = f.inst
    PROVE  /\ StackOK(p, D, Append(s, f), e)
           /\ Append(s, f) # <<>> /\ Last(Append(s, f)) = f
<1>1. /\ Append(s, f) \in Seq(Frames(D)) /\ Len(Append(s, f)) = Len(s) + 1
      /\ Append(s, f)[Len(s) + 1] = f /\ Len(s) \in Nat
  BY AppendFacts
<1>2. Last(Append(s, f)) = f
  BY <1>1 DEF Last
<1>3. Append(s, f) # <<>>
  BY <1>1
<1>4. Chain(p, Append(s, f))
  BY ChainAppend
<1>. QED
  BY <1>1, <1>2, <1>3, <1>4 DEF StackOK, Scratch

\* The top frame and what is below it.
LEMMA OpenStack ==
    ASSUME NEW p, NEW D, NEW e, NEW s, StackOK(p, D, s, e), s # <<>>
    PROVE  /\ s = Append(Front(s), Last(s))
           /\ Front(s) \in Seq(Frames(D)) /\ Last(s) \in Frames(D)
           /\ Chain(p, Front(s)) /\ On(p, Front(s), Last(s))
<1>1. s \in Seq(Frames(D)) /\ Chain(p, s)
  BY DEF StackOK
<1>2. /\ s = Append(Front(s), Last(s))
      /\ Front(s) \in Seq(Frames(D)) /\ Last(s) \in Frames(D)
  BY <1>1, TopAndBelow
<1>. PICK t \in Seq(Frames(D)), f \in Frames(D) : t = Front(s) /\ f = Last(s)
  BY <1>2
<1>3. Chain(p, t) /\ On(p, t, f)
  BY <1>1, <1>2, ChainAppend
<1>. QED
  BY <1>2, <1>3

\* More instances are known.
LEMMA GrowStack ==
    ASSUME NEW p, NEW D, NEW E, NEW e, NEW s, StackOK(p, D, s, e), D \subseteq E
    PROVE  StackOK(p, E, s, e)
BY FramesMono DEF StackOK

\* The body on top goes on.
LEMMA ReplaceBody ==
    ASSUME NEW p, NEW D, NEW E, NEW e, NEW e2, NEW s,
           StackOK(p, D, s, e), D \subseteq E, s # <<>>, Last(s).kind = "body",
           NEW f \in BodyFrames(E), f.phase = "rest" => e2 = f.inst
    PROVE  LET t == Append(Front(s), f)
           IN StackOK(p, E, t, e2) /\ t # <<>> /\ Last(t) = f
<1>1. /\ Front(s) \in Seq(Frames(E)) /\ Last(s) \in Frames(E)
      /\ Chain(p, Front(s)) /\ On(p, Front(s), Last(s))
  BY OpenStack, FramesMono
<1>2. f \in Frames(E) /\ f.kind = "body"
  BY DEF Frames, BodyFrames
<1>3. On(p, Front(s), f)
  BY <1>1, <1>2 DEF On
<1>. PICK t \in Seq(Frames(E)) : t = Front(s)
  BY <1>1
<1>. QED
  BY <1>1, <1>2, <1>3, PutFrame

\* The demand on top goes on.
LEMMA ReplaceDemand ==
    ASSUME NEW p, NEW D, NEW e, NEW e2, NEW s,
           StackOK(p, D, s, e), s # <<>>, Last(s).kind = "demand",
           NEW f \in DemandFrames(D), f.how = Last(s).how, f.saved = Last(s).saved
    PROVE  StackOK(p, D, Append(Front(s), f), e2)
<1>1. /\ Front(s) \in Seq(Frames(D)) /\ Last(s) \in Frames(D)
      /\ Chain(p, Front(s)) /\ On(p, Front(s), Last(s))
  BY OpenStack
<1>2. f \in Frames(D) /\ f.kind = "demand"
  BY DEF Frames, DemandFrames
<1>3. On(p, Front(s), f)
  BY <1>1, <1>2 DEF On, Under
<1>. PICK t \in Seq(Frames(D)) : t = Front(s)
  BY <1>1
<1>. QED
  BY <1>1, <1>2, <1>3, PutFrame

\* A body is begun, by the worklist or by the demand on top.
LEMMA PushBody ==
    ASSUME NEW p, NEW D, NEW e, NEW e2, NEW s,
           StackOK(p, D, s, e), s # <<>> => Last(s).kind = "demand",
           NEW f \in BodyFrames(D), f.phase = "pass"
    PROVE  StackOK(p, D, Append(s, f), e2)
<1>1. s \in Seq(Frames(D)) /\ Chain(p, s)
  BY DEF StackOK
<1>2. f \in Frames(D) /\ f.kind = "body" /\ f.phase # "rest"
  BY DEF Frames, BodyFrames
<1>3. On(p, s, f)
  BY <1>2 DEF On, Last
<1>. QED
  BY <1>1, <1>2, <1>3, PutFrame

\* The body on top makes a demand.
LEMMA PushDemand ==
    ASSUME NEW p, NEW D, NEW e, NEW e2, NEW s,
           StackOK(p, D, s, e), s # <<>>, NEW d \in DemandFrames(D), Under(p, Last(s), d)
    PROVE  StackOK(p, D, Append(s, d), e2)
<1>1. s \in Seq(Frames(D)) /\ Chain(p, s)
  BY DEF StackOK
<1>2. d \in Frames(D) /\ d.kind = "demand"
  BY DEF Frames, DemandFrames
<1>3. On(p, s, d)
  BY <1>2 DEF On, Last
<1>. QED
  BY <1>1, <1>2, <1>3, PutFrame

\* The body on top ends: nothing is left, or the demand that took it.
LEMMA PopBody ==
    ASSUME NEW p, NEW D, NEW e, NEW e2, NEW s,
           StackOK(p, D, s, e), s # <<>>, Last(s).kind = "body"
    PROVE  StackOK(p, D, Front(s), e2)
<1>1. Front(s) \in Seq(Frames(D)) /\ Chain(p, Front(s)) /\ On(p, Front(s), Last(s))
  BY OpenStack
<1>2. Front(s) = <<>> \/ Last(Front(s)).kind = "demand"
  BY <1>1 DEF On, Last
<1>. QED
  BY <1>1, <1>2 DEF StackOK, Scratch

\* The demand on top ends: the body that made it finds its scratch state.
LEMMA PopDemand ==
    ASSUME NEW p, NEW D, NEW e, NEW s,
           StackOK(p, D, s, e), s # <<>>, Last(s).kind = "demand"
    PROVE  /\ StackOK(p, D, Front(s), Last(s).saved)
           /\ Front(s) # <<>> /\ Last(Front(s)).kind = "body"
           /\ Under(p, Last(Front(s)), Last(s))
           /\ s[Len(s) - 1] = Last(Front(s))
           /\ SubSeq(s, 1, Len(s) - 2) = Front(Front(s))
<1>1. /\ s = Append(Front(s), Last(s))
      /\ Front(s) \in Seq(Frames(D)) /\ Chain(p, Front(s)) /\ On(p, Front(s), Last(s))
  BY OpenStack
<1>2. Front(s) # <<>> /\ Under(p, Last(Front(s)), Last(s))
  BY <1>1 DEF On, Last
<1>3. StackOK(p, D, Front(s), Last(s).saved) /\ Last(Front(s)).kind = "body"
  BY <1>1, <1>2 DEF StackOK, Scratch, Under
<1>4. /\ s \in Seq(Frames(D)) /\ Len(s) \in Nat \ {0}
      /\ Len(Front(s)) = Len(s) - 1 /\ \A i \in 1..(Len(s) - 1) : Front(s)[i] = s[i]
  BY FrontFacts DEF StackOK
<1>5. Len(Front(s)) # 0 /\ Len(s) - 1 \in 1..(Len(s) - 1)
  BY <1>1, <1>2, <1>4
<1>6. s[Len(s) - 1] = Last(Front(s))
  BY <1>4, <1>5 DEF Last
<1>7. Front(Front(s)) = SubSeq(Front(s), 1, Len(s) - 2)
  BY <1>4, <1>5 DEF Front
<1>8. SubSeq(Front(s), 1, Len(s) - 2) = SubSeq(s, 1, Len(s) - 2)
  <2>. PICK t \in Seq(Frames(D)) : t = Front(s)
    BY <1>1
  <2>. PICK k \in Nat : k = Len(s) - 2
    BY <1>4, <1>5, SMTT(30)
  <2>1. \A i \in 1..k : t[i] = s[i] /\ i \in 1..Len(t) /\ i \in 1..Len(s)
    BY <1>4
  <2>2. SubSeq(t, 1, k) = [i \in 1..k |-> t[i]] /\ SubSeq(s, 1, k) = [i \in 1..k |-> s[i]]
    BY <1>4, <2>1
  <2>. QED
    BY <2>1, <2>2
<1>. QED
  BY <1>2, <1>3, <1>6, <1>7, <1>8

-----------------------------------------------------------------------------
(* What the steps do to the frame on top, to the worklist and to the rest. *)

\* A body frame put back to the start of its items.
LEMMA RestartStep ==
    ASSUME NEW D, NEW f \in BodyFrames(D)
    PROVE  LET g == [f EXCEPT !.at = 1]
           IN /\ g \in BodyFrames(D) /\ g.inst = f.inst /\ g.phase = f.phase
              /\ g.at = 1 /\ g.refs = f.refs
BY DEF BodyFrames

\* A body frame that has moved on.
LEMMA BodySteps ==
    ASSUME NEW D, NEW f \in BodyFrames(D)
    PROVE  /\ LET g == Advanced(f)
              IN /\ g \in BodyFrames(D) /\ g.inst = f.inst /\ g.phase = f.phase
                 /\ g.at = f.at + 1 /\ g.refs = f.refs
           /\ LET g == [f EXCEPT !.phase = "rest", !.at = 1]
              IN /\ g \in BodyFrames(D) /\ g.inst = f.inst /\ g.phase = "rest"
                 /\ g.at = 1 /\ g.refs = f.refs
<1>1. /\ f.at + 1 \in Nat \ {0}
      /\ f = [kind |-> "body", inst |-> f.inst, phase |-> f.phase, at |-> f.at,
              refs |-> f.refs]
  BY DEF BodyFrames
<1>2. LET g == Advanced(f)
      IN /\ g \in BodyFrames(D) /\ g.inst = f.inst /\ g.phase = f.phase
         /\ g.at = f.at + 1 /\ g.refs = f.refs
  BY <1>1 DEF BodyFrames, Advanced
<1>4. LET g == [f EXCEPT !.phase = "rest", !.at = 1]
      IN /\ g \in BodyFrames(D) /\ g.inst = f.inst /\ g.phase = "rest"
         /\ g.at = 1 /\ g.refs = f.refs
  <2>1. [f EXCEPT !.phase = "rest"] \in BodyFrames(D)
    BY DEF BodyFrames
  <2>. PICK h \in BodyFrames(D) : h = [f EXCEPT !.phase = "rest"]
    BY <2>1
  <2>2. [h EXCEPT !.at = 1] \in BodyFrames(D)
    BY RestartStep
  <2>3. [f EXCEPT !.phase = "rest", !.at = 1] = [h EXCEPT !.at = 1]
    OBVIOUS
  <2>. PICK g : g = [f EXCEPT !.phase = "rest", !.at = 1]
    OBVIOUS
  <2>4. g.inst = f.inst /\ g.phase = "rest" /\ g.at = 1 /\ g.refs = f.refs
    BY DEF BodyFrames
  <2>. QED
    BY <2>2, <2>3, <2>4
<1>. QED
  BY <1>2, <1>4

\* A body frame with one more reference.
LEMMA NotedStep ==
    ASSUME NEW D, NEW f \in BodyFrames(D), NEW n \in D
    PROVE  LET g == Noted(f, n)
           IN /\ g \in BodyFrames(D) /\ g.inst = f.inst /\ g.phase = f.phase
              /\ g.at = f.at /\ Range(g.refs) = Range(f.refs) \cup {n}
<1>1. f.refs \in Seq(D)
  BY DEF BodyFrames
<1>2. Append(f.refs, n) \in Seq(D) /\ Range(Append(f.refs, n)) = Range(f.refs) \cup {n}
  BY <1>1, AppendFacts
<1>. QED
  BY <1>2 DEF BodyFrames, Noted

\* A body frame that has noted a reference and starts again.
LEMMA NotedRestart ==
    ASSUME NEW D, NEW f \in BodyFrames(D), NEW n \in D
    PROVE  LET g == [Noted(f, n) EXCEPT !.at = 1]
           IN /\ g \in BodyFrames(D) /\ g.inst = f.inst /\ g.phase = f.phase
              /\ g.at = 1 /\ Range(g.refs) = Range(f.refs) \cup {n}
<1>1. LET g == Noted(f, n)
      IN /\ g \in BodyFrames(D) /\ g.inst = f.inst /\ g.phase = f.phase /\ g.at = f.at
         /\ Range(g.refs) = Range(f.refs) \cup {n}
  BY NotedStep
<1>. PICK h \in BodyFrames(D) : h = Noted(f, n)
  BY <1>1
<1>2. LET g == [h EXCEPT !.at = 1]
      IN /\ g \in BodyFrames(D) /\ g.inst = h.inst /\ g.phase = h.phase
         /\ g.at = 1 /\ g.refs = h.refs
  BY RestartStep
<1>. QED
  BY <1>1, <1>2

\* What the items of a body can be.
LEMMA ItemFacts ==
    ASSUME Typed, NEW f \in BodyFrames(DOMAIN states), f.at <= Len(Items(f))
    PROVE  LET i == Items(f)[f.at]
           IN /\ i.op \in {"call", "apply", "type", "drop", "unroll"}
              /\ i.op # "unroll" => i.to \in Instances
              /\ f.phase = "rest" => i.op \notin {"type", "unroll"}
              /\ f.phase = "pass" => i.op # "call"
<1>1. DOMAIN states \subseteq Instances
  BY DEF Typed, Range
<1>2. f.inst \in Instances /\ f.phase \in {"pass", "rest"} /\ f.at \in Nat \ {0}
  BY <1>1 DEF BodyFrames
<1>3. program.body[f.inst] \in [pass : Seq(PassItem), rest : Seq(RestItem)]
  BY <1>2 DEF Typed, ProgramOK
<1>4. CASE f.phase = "pass"
  <2>1. Items(f) \in Seq(PassItem)
    BY <1>3, <1>4 DEF Items
  <2>2. Items(f)[f.at] \in PassItem
    BY <1>2, <2>1
  <2>. QED
    BY <1>4, <2>2 DEF PassItem, Targeted
<1>5. CASE f.phase = "rest"
  <2>1. Items(f) \in Seq(RestItem)
    BY <1>3, <1>5 DEF Items
  <2>2. Items(f)[f.at] \in RestItem
    BY <1>2, <2>1
  <2>. QED
    BY <1>5, <2>2 DEF RestItem, Targeted
<1>. QED
  BY <1>2, <1>4, <1>5

\* enqueue: a new instance is pending and on the queue, nothing else moves.
LEMMA EnqueueFacts ==
    ASSUME Typed, NEW n \in Instances, WithinBudget(n), Enqueue(n)
    PROVE  /\ instances' \in Seq(Instances) /\ Len(instances') <= INSTANCE_BUDGET
           /\ (DOMAIN states)' = Range(instances')
           /\ states' \in [DOMAIN states' -> InstanceState]
           /\ queue' \in Seq(DOMAIN states')
           /\ DOMAIN states' = DOMAIN states \cup {n}
           /\ \A m \in DOMAIN states : states'[m] = states[m]
           /\ \A m \in DOMAIN states' : m \notin DOMAIN states =>
                  states'[m] = "Pending" /\ m \in Range(queue')
           /\ Range(queue) \subseteq Range(queue')
<1>1. /\ instances \in Seq(Instances) /\ Len(instances) <= INSTANCE_BUDGET
      /\ DOMAIN states = Range(instances) /\ states \in [DOMAIN states -> InstanceState]
      /\ queue \in Seq(DOMAIN states) /\ INSTANCE_BUDGET \in Nat
  BY BoundsAssumption DEF Typed
<1>2. CASE Known(n)
  BY <1>1, <1>2 DEF Enqueue, Known, demand
<1>3. CASE ~Known(n)
  <2>1. /\ instances' = Append(instances, n) /\ queue' = Append(queue, n)
        /\ states' = [m \in DOMAIN states \cup {n} |->
                         IF m = n THEN "Pending" ELSE states[m]]
        /\ Len(instances) < INSTANCE_BUDGET /\ n \notin DOMAIN states
    BY <1>3 DEF Enqueue, WithinBudget, Known
  <2>2. DOMAIN states' = DOMAIN states \cup {n}
    BY <2>1
  <2>3. /\ instances' \in Seq(Instances) /\ Len(instances') = Len(instances) + 1
        /\ Range(instances') = Range(instances) \cup {n}
    BY <1>1, <2>1, AppendFacts
  <2>4. Len(instances') <= INSTANCE_BUDGET
    BY <1>1, <2>1, <2>3
  <2>5. queue \in Seq(DOMAIN states') /\ n \in DOMAIN states'
    BY <1>1, <2>2, SeqMono
  <2>6. queue' \in Seq(DOMAIN states') /\ Range(queue') = Range(queue) \cup {n}
    BY <2>1, <2>5, AppendFacts
  <2>7. states' \in [DOMAIN states' -> InstanceState]
    BY <1>1, <2>1, <2>2 DEF InstanceState
  <2>. QED
    BY <1>1, <2>1, <2>2, <2>3, <2>4, <2>6, <2>7
<1>. QED
  BY <1>2, <1>3

\* The instances known are instances of the program.
LEMMA KnownInstances ==
    ASSUME Typed
    PROVE  DOMAIN states \subseteq Instances
BY DEF Typed, Range

-----------------------------------------------------------------------------
(* The stack invariant: types, who lies on whom, whose scratch state. *)

\* Before anything is demanded but the entry.
LEMMA StackInit == Init => StackInv
<1>. SUFFICES ASSUME Init PROVE StackInv
  OBVIOUS
<1>1. Entry \in Instances /\ <<Entry>> \in Seq(Instances) /\ Len(<<Entry>>) = 1
  BY EntryAssumption
<1>2. DOMAIN states = {Entry} /\ states \in [{Entry} -> InstanceState]
  BY DEF Init, InstanceState
<1>3. Range(instances) = {Entry}
  BY DEF Init, Range
<1>4. queue \in Seq(DOMAIN states) /\ references \in [Instances -> Seq(DOMAIN states)]
  BY <1>2 DEF Init
<1>5. DOMAIN fragments = {}
  BY DEF Init
<1>6. Typed
  BY <1>1, <1>2, <1>3, <1>4, <1>5, BoundsAssumption, ProgramsAssumption DEF Init, Typed
<1>7. StackOK(program, DOMAIN states, stack, enclosing)
  BY EmptyStack DEF StackOK, Scratch, Init
<1>. QED
  BY <1>6, <1>7 DEF StackInv

\* The frame on top of a stack that is in order.
LEMMA TopFacts ==
    ASSUME StackInv, stack # <<>>
    PROVE  /\ Top \in Frames(DOMAIN states) /\ Top = Last(stack)
           /\ Top.kind \in {"body", "demand"}
           /\ Top.kind = "body" => Top \in BodyFrames(DOMAIN states)
           /\ Top.kind = "demand" => Top \in DemandFrames(DOMAIN states)
<1>1. Last(stack) \in Frames(DOMAIN states)
  BY OpenStack DEF StackInv
<1>. QED
  BY <1>1, FrameKinds DEF Top

\* The fields of a body frame and of a demand frame.
LEMMA FrameFields ==
    ASSUME NEW D
    PROVE  /\ \A f \in BodyFrames(D) :
                 /\ f.kind = "body" /\ f.inst \in D /\ f.phase \in {"pass", "rest"}
                 /\ f.at \in Nat \ {0} /\ f.refs \in Seq(D)
           /\ \A f \in DemandFrames(D) :
                 /\ f.kind = "demand" /\ f.inst \in D /\ f.how \in {"apply", "type", "drop"}
                 /\ f.saved \in Instances \cup {None} /\ f.todo \in Seq(D)
                 /\ f.seen \subseteq D /\ f.closure \subseteq D
BY DEF BodyFrames, DemandFrames

\* Begin: what it needs is a known instance that the worklist or a demand takes.
LEMMA BeginStack ==
    ASSUME StackInv, NEW n \in DOMAIN states, Begin(n), UNCHANGED <<program, enclosing>>,
           stack # <<>> => Top.kind = "demand"
    PROVE  /\ DOMAIN states' = DOMAIN states
           /\ states' \in [DOMAIN states' -> InstanceState]
           /\ made' \in [Instances -> Nat]
           /\ StackOK(program', DOMAIN states', stack', enclosing')
<1>1. /\ states \in [DOMAIN states -> InstanceState] /\ made \in [Instances -> Nat]
      /\ n \in Instances
  BY KnownInstances DEF StackInv, Typed
<1>2. /\ DOMAIN states' = DOMAIN states /\ states' \in [DOMAIN states' -> InstanceState]
  BY <1>1 DEF Begin, InstanceState
<1>3. made' \in [Instances -> Nat]
  BY <1>1 DEF Begin
<1>4. BodyFrame(n) \in BodyFrames(DOMAIN states) /\ BodyFrame(n).phase = "pass"
  BY DEF BodyFrame, BodyFrames
<1>. PICK f \in BodyFrames(DOMAIN states) : f = BodyFrame(n)
  BY <1>4
<1>5. StackOK(program, DOMAIN states, Append(stack, f), enclosing)
  BY <1>4, PushBody DEF StackInv, Top
<1>. QED
  BY <1>2, <1>3, <1>5 DEF Begin

\* The steps of drain.
LEMMA DrainStack ==
    ASSUME StackInv, DrainTakes \/ DrainSkips \/ Drained \/ Fail
    PROVE  StackInv'
<1>1. CASE DrainTakes
  <2>1. Head(queue) \in DOMAIN states /\ Tail(queue) \in Seq(DOMAIN states)
    BY <1>1, TailFacts DEF DrainTakes, StackInv, Typed
  <2>2. /\ DOMAIN states' = DOMAIN states
        /\ states' \in [DOMAIN states' -> InstanceState]
        /\ made' \in [Instances -> Nat]
        /\ StackOK(program', DOMAIN states', stack', enclosing')
    BY <1>1, <2>1, BeginStack DEF DrainTakes
  <2>. QED
    BY <1>1, <2>1, <2>2 DEF DrainTakes, StackInv, Typed, memo, meter
<1>2. CASE DrainSkips
  <2>1. Tail(queue) \in Seq(DOMAIN states)
    BY <1>2, TailFacts DEF DrainSkips, StackInv, Typed
  <2>. QED
    BY <1>2, <2>1 DEF DrainSkips, StackInv, Typed, memo, meter
<1>3. CASE Drained
  BY <1>3 DEF Drained, StackInv, Typed, memo, meter, demand
<1>4. CASE Fail
  BY <1>4 DEF Fail, StackInv, Typed, memo, meter, demand
<1>. QED
  BY <1>1, <1>2, <1>3, <1>4

\* The steps of a body that neither demand nor end it.
LEMMA BodyStack ==
    ASSUME StackInv, Unroll \/ Fold \/ Settle \/ BodyFails
    PROVE  StackInv'
<1>1. InBody
  BY DEF Unroll, Fold, Settle, BodyFails, Applying, AtItem, AtEnd
<1>2. /\ Top \in BodyFrames(DOMAIN states) /\ Top = Last(stack) /\ Last(stack).kind = "body"
      /\ stack # <<>>
  BY <1>1, TopFacts DEF InBody
<1>. PICK f \in BodyFrames(DOMAIN states) : f = Top
  BY <1>2
<1>3. f.phase = "rest" => enclosing = f.inst
  BY <1>2 DEF StackInv, StackOK, Scratch
<1>4. Advanced(f) \in BodyFrames(DOMAIN states)
      /\ Advanced(f).inst = f.inst /\ Advanced(f).phase = f.phase
  BY BodySteps
<1>. PICK g \in BodyFrames(DOMAIN states) : g = Advanced(f)
  BY <1>4
<1>5. StackOK(program, DOMAIN states, Replaced(Advanced(Top)), enclosing)
  BY <1>2, <1>3, <1>4, ReplaceBody DEF StackInv, Replaced
<1>6. CASE Unroll
  <2>1. /\ UNCHANGED <<program, states, enclosing>>
        /\ stack' = stack \/ stack' = Replaced(Advanced(Top))
    BY <1>6 DEF Unroll, demand
  <2>2. StackOK(program', DOMAIN states', stack', enclosing')
    BY <1>5, <2>1 DEF StackInv
  <2>3. fuel' \in 0..CTFE_FUEL /\ spent' \in Nat /\ raised' \in {"none", "error", "fuel"}
    BY <1>6, BoundsAssumption DEF Unroll, StackInv, Typed
  <2>4. Typed'
    BY <1>6, <2>3 DEF Unroll, StackInv, Typed, memo, demand
  <2>. QED
    BY <2>2, <2>4 DEF StackInv
<1>7. CASE Fold
  BY <1>5, <1>7 DEF Fold, StackInv, Typed, memo, meter, demand
<1>8. CASE Settle
  <2>1. /\ UNCHANGED <<program, states>> /\ enclosing' = Top.inst
        /\ stack' = Replaced([Top EXCEPT !.phase = "rest", !.at = 1])
    BY <1>8 DEF Settle, demand
  <2>2. /\ [f EXCEPT !.phase = "rest", !.at = 1] \in BodyFrames(DOMAIN states)
        /\ [f EXCEPT !.phase = "rest", !.at = 1].inst = f.inst
    BY BodySteps
  <2>. PICK h \in BodyFrames(DOMAIN states) : h = [f EXCEPT !.phase = "rest", !.at = 1]
    BY <2>2
  <2>6. stack' = Append(Front(stack), h) /\ enclosing' = h.inst
    BY <2>1, <2>2 DEF Replaced
  <2>7. StackOK(program, DOMAIN states, Append(Front(stack), h), h.inst)
    BY <1>2, ReplaceBody DEF StackInv
  <2>3. StackOK(program', DOMAIN states', stack', enclosing')
    BY <2>1, <2>6, <2>7
  <2>4. enclosing' \in Instances
    BY <1>2, <2>1, KnownInstances, FrameFields DEF StackInv
  <2>5. Typed'
    BY <1>8, <2>4 DEF Settle, StackInv, Typed, memo, meter, demand
  <2>. QED
    BY <2>3, <2>5 DEF StackInv
<1>9. CASE BodyFails
  BY <1>9 DEF BodyFails, StackInv, Typed, memo, meter, demand
<1>. QED
  BY <1>6, <1>7, <1>8, <1>9

\* The types the worklist has after an enqueue, for what the step leaves alone.
LEMMA EnqueueTyped ==
    ASSUME Typed, NEW n \in Instances, WithinBudget(n), Enqueue(n),
           UNCHANGED <<program, references, fragments, evaluations, fuel, spent, result, made>>,
           raised' \in {"none", "error", "fuel"}, enclosing' \in Instances \cup {None},
           answered' \subseteq evaluations
    PROVE  Typed'
<1>1. /\ instances' \in Seq(Instances) /\ Len(instances') <= INSTANCE_BUDGET
      /\ DOMAIN states' = Range(instances')
      /\ states' \in [DOMAIN states' -> InstanceState]
      /\ queue' \in Seq(DOMAIN states')
      /\ DOMAIN states \subseteq DOMAIN states'
  BY EnqueueFacts
<1>2. references' \in [Instances -> Seq(DOMAIN states')]
  BY <1>1, SeqMono DEF Typed
<1>. QED
  BY <1>1, <1>2 DEF Typed

\* A call notes its instance and goes on, or fails on the budget.
LEMMA CallStack ==
    ASSUME StackInv, Call
    PROVE  StackInv'
<1>1. AtItem /\ InBody /\ stack # <<>> /\ Top.kind = "body" /\ Top.at <= Len(Items(Top))
  BY DEF Call, AtItem, InBody
<1>2. Top \in BodyFrames(DOMAIN states) /\ Top = Last(stack)
  BY <1>1, TopFacts
<1>. PICK f \in BodyFrames(DOMAIN states) : f = Top
  BY <1>2
<1>3. Item.to \in Instances
  <2>1. f.at <= Len(Items(f)) /\ Items(f)[f.at].op = "call" /\ Item = Items(f)[f.at]
    BY <1>1 DEF Call, Item
  <2>. QED
    BY <2>1, ItemFacts DEF StackInv
<1>. PICK n \in Instances : n = Item.to
  BY <1>3
<1>4. CASE WithinBudget(n) /\ Enqueue(n) /\ stack' = Replaced(Advanced(Noted(Top, n)))
           /\ UNCHANGED raised
  <2>1. Typed'
    BY <1>4, EnqueueTyped DEF Call, StackInv, Typed, memo, meter
  <2>2. DOMAIN states \subseteq DOMAIN states' /\ n \in DOMAIN states'
    BY <1>4, EnqueueFacts DEF StackInv
  <2>3. f \in BodyFrames(DOMAIN states')
    BY <2>2, FramesMono
  <2>4. Noted(f, n) \in BodyFrames(DOMAIN states')
        /\ Noted(f, n).inst = f.inst /\ Noted(f, n).phase = f.phase
    BY <2>2, <2>3, NotedStep
  <2>. PICK g \in BodyFrames(DOMAIN states') : g = Noted(f, n)
    BY <2>4
  <2>5. Advanced(g) \in BodyFrames(DOMAIN states')
        /\ Advanced(g).inst = f.inst /\ Advanced(g).phase = f.phase
    BY <2>4, BodySteps, ZenonT(60)
  <2>. PICK h \in BodyFrames(DOMAIN states') : h = Advanced(g)
    BY <2>5
  <2>6. h.phase = "rest" => enclosing = h.inst
    BY <1>1, <1>2, <2>5 DEF StackInv, StackOK, Scratch
  <2>7. StackOK(program, DOMAIN states', Append(Front(stack), h), enclosing)
    BY <1>1, <1>2, <2>2, <2>6, ReplaceBody DEF StackInv
  <2>8. stack' = Append(Front(stack), h) /\ UNCHANGED <<program, enclosing>>
    BY <1>4 DEF Replaced, Call
  <2>. QED
    BY <2>1, <2>7, <2>8 DEF StackInv
<1>5. CASE raised' = "error" /\ UNCHANGED <<demand, stack>>
  BY <1>5 DEF Call, StackInv, Typed, memo, meter, demand
<1>. QED
  BY <1>4, <1>5 DEF Call

\* materialize ends: the frame goes, and its references stay.
LEMMA EndStack ==
    ASSUME StackInv, Complete \/ UnwindBody
    PROVE  StackInv'
<1>1. stack # <<>> /\ Top.kind = "body"
  BY DEF Complete, UnwindBody, AtEnd, InBody
<1>2. Top \in BodyFrames(DOMAIN states) /\ Top = Last(stack)
  BY <1>1, TopFacts
<1>3. Top.inst \in DOMAIN states /\ Top.inst \in Instances /\ Top.refs \in Seq(DOMAIN states)
  BY <1>2, FrameFields, KnownInstances DEF StackInv
<1>4. /\ \E st \in {"Completed", "Failed"} : states' = [states EXCEPT ![Top.inst] = st]
      /\ references' = [references EXCEPT ![Top.inst] = Top.refs]
      /\ stack' = Front(stack)
      /\ UNCHANGED <<program, instances, queue, raised, enclosing, memo, meter, result, made>>
  BY DEF Complete, UnwindBody, End
<1>5. DOMAIN states' = DOMAIN states /\ states' \in [DOMAIN states' -> InstanceState]
  BY <1>3, <1>4 DEF StackInv, Typed, InstanceState
<1>6. references' \in [Instances -> Seq(DOMAIN states')]
  BY <1>3, <1>4, <1>5 DEF StackInv, Typed
<1>7. Typed'
  BY <1>4, <1>5, <1>6 DEF StackInv, Typed, memo, meter
<1>8. StackOK(program, DOMAIN states, Front(stack), enclosing)
  BY <1>1, <1>2, PopBody DEF StackInv
<1>. QED
  BY <1>4, <1>5, <1>7, <1>8 DEF StackInv

\* A demand frame with another list of what is to do.
LEMMA TodoStep ==
    ASSUME NEW D, NEW f \in DemandFrames(D), NEW todo \in Seq(D),
           NEW g, g = [f EXCEPT !.todo = todo]
    PROVE  /\ g \in DemandFrames(D) /\ g.how = f.how /\ g.saved = f.saved
           /\ g.inst = f.inst /\ g.todo = todo /\ g.seen = f.seen /\ g.closure = f.closure
BY DEF DemandFrames

\* A demand frame with one more instance in its closure.
Joined(f, todo, m) == [f EXCEPT !.todo = todo, !.seen = @ \cup {m}, !.closure = @ \cup {m}]

\* Its fields.
LEMMA ClosureStep ==
    ASSUME NEW D, NEW f \in DemandFrames(D), NEW todo \in Seq(D), NEW m \in D
    PROVE  LET g == Joined(f, todo, m)
           IN /\ g \in DemandFrames(D) /\ g.how = f.how /\ g.saved = f.saved
              /\ g.inst = f.inst /\ g.todo = todo
              /\ g.seen = f.seen \cup {m} /\ g.closure = f.closure \cup {m}
<1>. PICK g : g = Joined(f, todo, m)
  OBVIOUS
<1>1. g = [kind |-> f.kind, inst |-> f.inst, how |-> f.how, saved |-> f.saved, todo |-> todo,
           seen |-> f.seen \cup {m}, closure |-> f.closure \cup {m}]
  BY DEF DemandFrames, Joined
<1>2. f.seen \cup {m} \in SUBSET D /\ f.closure \cup {m} \in SUBSET D
  BY DEF DemandFrames
<1>3. g \in DemandFrames(D)
  BY <1>1, <1>2 DEF DemandFrames
<1>. QED
  BY <1>1, <1>3

\* The body that demands, at its item.
LEMMA ApplySite ==
    ASSUME StackInv, Applying
    PROVE  /\ stack # <<>> /\ Top.kind = "body" /\ Top = Last(stack)
           /\ Top \in BodyFrames(DOMAIN states) /\ Top.at <= Len(Items(Top))
           /\ Item = Items(Top)[Top.at] /\ Item.to \in Instances
           /\ Item.op \in {"apply", "type", "drop"}
           /\ Top.phase = "rest" => enclosing = Top.inst /\ Item.op # "type"
<1>1. /\ stack # <<>> /\ Top.kind = "body" /\ Top.at <= Len(Items(Top))
      /\ Item.op \in {"apply", "type", "drop"}
  BY DEF Applying, AtItem, InBody
<1>2. Top \in BodyFrames(DOMAIN states) /\ Top = Last(stack)
  BY <1>1, TopFacts
<1>. PICK f \in BodyFrames(DOMAIN states) : f = Top
  BY <1>2
<1>3. Items(f)[f.at] = Item
  BY DEF Item
<1>4. Item.to \in Instances /\ (f.phase = "rest" => Item.op # "type")
  BY <1>1, <1>3, ItemFacts DEF StackInv
<1>5. Top.phase = "rest" => enclosing = Top.inst
  BY <1>1, <1>2 DEF StackInv, StackOK, Scratch
<1>. QED
  BY <1>1, <1>2, <1>3, <1>4, <1>5

\* The demand made at the item is on a body that waits for it.
LEMMA DemandUnder ==
    ASSUME StackInv, Applying, NEW E, DOMAIN states \subseteq E, Item.to \in E,
           NEW todo \in Seq(E)
    PROVE  /\ DemandFrame(Item.to, Item.op, todo) \in DemandFrames(E)
           /\ Under(program, Noted(Top, Item.to), DemandFrame(Item.to, Item.op, todo))
<1>1. /\ Top \in BodyFrames(DOMAIN states) /\ Top.at <= Len(Items(Top))
      /\ Item = Items(Top)[Top.at] /\ Item.op \in {"apply", "type", "drop"}
      /\ Top.phase = "rest" => enclosing = Top.inst
  BY ApplySite
<1>2. Top \in BodyFrames(E)
  BY <1>1, FramesMono
<1>. PICK f \in BodyFrames(E), n \in E : f = Top /\ n = Item.to
  BY <1>2
<1>3. LET g == Noted(f, n)
      IN /\ g \in BodyFrames(E) /\ g.inst = f.inst /\ g.phase = f.phase /\ g.at = f.at
  BY NotedStep
<1>. PICK g \in BodyFrames(E) : g = Noted(f, n)
  BY <1>3
<1>4. g.kind = "body" /\ ItemsOf(program, g) = Items(f)
  BY <1>3, FrameFields DEF ItemsOf, Items
<1>. PICK d : d = DemandFrame(n, Item.op, todo)
  OBVIOUS
<1>5. d.how = Item.op /\ d.saved = enclosing
  BY DEF DemandFrame
<1>6. Under(program, g, d)
  BY <1>1, <1>3, <1>4, <1>5 DEF Under
<1>7. d \in DemandFrames(E)
  <2>1. enclosing \in Instances \cup {None}
    BY DEF StackInv, Typed
  <2>. QED
    BY <1>1, <2>1 DEF DemandFrame, DemandFrames
<1>. QED
  BY <1>6, <1>7

\* A demand is refused, answered from what was evaluated, or put on the stack.
LEMMA ApplyStack ==
    ASSUME StackInv, Apply
    PROVE  StackInv'
<1>1. Applying
  BY DEF Apply
<1>2. /\ stack # <<>> /\ Top.kind = "body" /\ Top = Last(stack)
      /\ Top \in BodyFrames(DOMAIN states) /\ Item.to \in Instances
      /\ Item.op \in {"apply", "type", "drop"}
      /\ Top.phase = "rest" => enclosing = Top.inst /\ Item.op # "type"
  BY <1>1, ApplySite
<1>. PICK f \in BodyFrames(DOMAIN states), n \in Instances : f = Top /\ n = Item.to
  BY <1>2
<1>3. UNCHANGED <<program, references, fragments, evaluations, meter, result, made>>
  BY DEF Apply
<1>4. ASSUME NEW E, DOMAIN states \subseteq E, NEW g \in BodyFrames(E),
             g.inst = f.inst, g.phase = f.phase
      PROVE  StackOK(program, E, Append(Front(stack), g), enclosing)
             /\ Append(Front(stack), g) # <<>> /\ Last(Append(Front(stack), g)) = g
  BY <1>2, <1>4, ReplaceBody DEF StackInv
<1>5. CASE ~WithinBudget(n) /\ Refuse(Top, "error") /\ UNCHANGED <<demand, enclosing, answered>>
  <2>1. /\ Advanced(f) \in BodyFrames(DOMAIN states)
        /\ Advanced(f).inst = f.inst /\ Advanced(f).phase = f.phase
    BY BodySteps
  <2>2. /\ StackOK(program, DOMAIN states, Append(Front(stack), f), enclosing)
        /\ StackOK(program, DOMAIN states, Append(Front(stack), Advanced(f)), enclosing)
    BY <1>4, <2>1
  <2>3. StackOK(program', DOMAIN states', stack', enclosing')
    BY <1>3, <1>5, <2>2 DEF Refuse, Replaced, demand
  <2>4. Typed'
    BY <1>3, <1>5 DEF Refuse, StackInv, Typed, demand, meter
  <2>. QED
    BY <2>3, <2>4 DEF StackInv
<1>6. CASE WithinBudget(n) /\ Enqueue(n)
  <2>1. DOMAIN states \subseteq DOMAIN states' /\ n \in DOMAIN states'
    BY <1>6, EnqueueFacts DEF StackInv
  <2>2. f \in BodyFrames(DOMAIN states')
    BY <2>1, FramesMono
  <2>3. /\ Noted(f, n) \in BodyFrames(DOMAIN states')
        /\ Noted(f, n).inst = f.inst /\ Noted(f, n).phase = f.phase
    BY <2>1, <2>2, NotedStep
  <2>. PICK site \in BodyFrames(DOMAIN states') : site = Noted(f, n)
    BY <2>3
  <2>4. /\ Advanced(site) \in BodyFrames(DOMAIN states')
        /\ Advanced(site).inst = f.inst /\ Advanced(site).phase = f.phase
    BY <2>3, BodySteps, ZenonT(60)
  <2>5. /\ [site EXCEPT !.at = 1] \in BodyFrames(DOMAIN states')
        /\ [site EXCEPT !.at = 1].inst = f.inst /\ [site EXCEPT !.at = 1].phase = f.phase
    BY <2>3, RestartStep
  <2>6. /\ StackOK(program, DOMAIN states', Append(Front(stack), site), enclosing)
        /\ Append(Front(stack), site) # <<>> /\ Last(Append(Front(stack), site)) = site
    BY <1>4, <2>1, <2>3
  <2>7. StackOK(program, DOMAIN states', Append(Front(stack), Advanced(site)), enclosing)
    BY <1>4, <2>1, <2>4
  <2>8. StackOK(program, DOMAIN states', Append(Front(stack), [site EXCEPT !.at = 1]), enclosing)
    BY <1>4, <2>1, <2>5
  <2>9. raised \in {"none", "error", "fuel"} /\ enclosing \in Instances \cup {None}
        /\ answered \subseteq evaluations
    BY DEF StackInv, Typed
  <2>10. ASSUME raised' \in {"none", "error", "fuel"}, enclosing' \in Instances \cup {None},
                answered' \subseteq evaluations
         PROVE  Typed'
    BY <1>3, <1>6, <2>10, EnqueueTyped DEF StackInv, meter
  <2>11. CASE /\ n \in evaluations
              /\ IF Item.op = "type"
                 THEN /\ answered' = answered \cup {n}
                      /\ stack' = Replaced([site EXCEPT !.at = 1])
                 ELSE /\ stack' = Replaced(Advanced(site))
                      /\ UNCHANGED answered
              /\ UNCHANGED <<raised, enclosing>>
    <3>1. Typed'
      BY <2>9, <2>10, <2>11
    <3>. QED
      BY <1>3, <2>7, <2>8, <2>11, <3>1 DEF StackInv, Replaced
  <2>12. CASE /\ stack' = Append(Replaced(site), DemandFrame(n, Item.op, <<>>))
              /\ UNCHANGED <<raised, enclosing, answered>>
    <3>1. <<>> \in Seq(DOMAIN states')
      OBVIOUS
    <3>2. /\ DemandFrame(n, Item.op, <<>>) \in DemandFrames(DOMAIN states')
          /\ Under(program, site, DemandFrame(n, Item.op, <<>>))
      BY <1>1, <2>1, <3>1, DemandUnder
    <3>. PICK d \in DemandFrames(DOMAIN states') : d = DemandFrame(n, Item.op, <<>>)
      BY <3>2
    <3>3. StackOK(program, DOMAIN states', Append(Append(Front(stack), site), d), enclosing)
      BY <2>6, <3>2, PushDemand
    <3>4. Typed'
      BY <2>9, <2>10, <2>12
    <3>. QED
      BY <1>3, <2>12, <3>3, <3>4 DEF StackInv, Replaced
  <2>13. CASE /\ stack' = Append(Replaced(site), DemandFrame(n, Item.op, <<n>>))
              /\ enclosing' = None /\ UNCHANGED <<raised, answered>>
    <3>1. <<n>> \in Seq(DOMAIN states')
      BY <2>1
    <3>2. /\ DemandFrame(n, Item.op, <<n>>) \in DemandFrames(DOMAIN states')
          /\ Under(program, site, DemandFrame(n, Item.op, <<n>>))
      BY <1>1, <2>1, <3>1, DemandUnder
    <3>. PICK d \in DemandFrames(DOMAIN states') : d = DemandFrame(n, Item.op, <<n>>)
      BY <3>2
    <3>3. StackOK(program, DOMAIN states', Append(Append(Front(stack), site), d), None)
      BY <2>6, <3>2, PushDemand
    <3>4. Typed'
      BY <2>9, <2>10, <2>13
    <3>. QED
      BY <1>3, <2>13, <3>3, <3>4 DEF StackInv, Replaced
  <2>14. CASE Refuse(site, "error") /\ UNCHANGED <<enclosing, answered>>
    <3>1. /\ stack' \in {Append(Front(stack), site), Append(Front(stack), Advanced(site))}
          /\ raised' \in {"none", "error", "fuel"}
      BY <2>9, <2>14 DEF Refuse, Replaced
    <3>2. Typed'
      BY <2>9, <2>10, <2>14, <3>1
    <3>. QED
      BY <1>3, <2>6, <2>7, <2>14, <3>1, <3>2 DEF StackInv
  <2>. QED
    BY <1>5, <1>6, <2>11, <2>12, <2>13, <2>14 DEF Apply
<1>. QED
  BY <1>5, <1>6 DEF Apply

\* materialize_closure changes only what its demand has to do.
LEMMA CloseStack ==
    ASSUME StackInv, CloseOver
    PROVE  StackInv'
<1>1. /\ stack # <<>> /\ Top.kind = "demand" /\ Top.todo # <<>>
      /\ UNCHANGED <<program, instances, queue, references, enclosing, memo, meter, result>>
  BY DEF CloseOver, InDemand
<1>2. Top \in DemandFrames(DOMAIN states) /\ Top = Last(stack)
  BY <1>1, TopFacts
<1>. PICK f \in DemandFrames(DOMAIN states) : f = Top
  BY <1>2
<1>3. f.todo \in Seq(DOMAIN states)
  BY FrameFields
<1>4. Front(f.todo) \in Seq(DOMAIN states) /\ Last(f.todo) \in DOMAIN states
  BY <1>1, <1>3, FrontFacts
<1>. PICK m \in DOMAIN states : m = Last(f.todo)
  BY <1>4
<1>5. references[m] \in Seq(DOMAIN states)
  BY KnownInstances DEF StackInv, Typed
<1>6. Front(f.todo) \o references[m] \in Seq(DOMAIN states)
  BY <1>4, <1>5, ConcatFacts
<1>7. ASSUME NEW g \in DemandFrames(DOMAIN states), g.how = f.how, g.saved = f.saved
      PROVE  StackOK(program, DOMAIN states, Append(Front(stack), g), enclosing)
  BY <1>1, <1>2, <1>7, ReplaceDemand DEF StackInv
<1>8. CASE /\ stack' = Replaced([Top EXCEPT !.todo = Front(@)])
           /\ UNCHANGED <<states, raised, made>>
  <2>. PICK todo \in Seq(DOMAIN states) : todo = Front(f.todo)
    BY <1>4
  <2>. PICK g : g = [f EXCEPT !.todo = todo]
    OBVIOUS
  <2>1. g \in DemandFrames(DOMAIN states) /\ g.how = f.how /\ g.saved = f.saved
    BY TodoStep
  <2>2. StackOK(program, DOMAIN states, stack', enclosing)
    BY <1>7, <1>8, <2>1 DEF Replaced
  <2>3. Typed'
    BY <1>1, <1>8 DEF StackInv, Typed, memo, meter
  <2>. QED
    BY <1>1, <1>8, <2>2, <2>3 DEF StackInv
<1>9. CASE Begin(m) /\ UNCHANGED raised
  <2>1. /\ DOMAIN states' = DOMAIN states
        /\ states' \in [DOMAIN states' -> InstanceState]
        /\ made' \in [Instances -> Nat]
        /\ StackOK(program', DOMAIN states', stack', enclosing')
    BY <1>1, <1>9, BeginStack
  <2>. QED
    BY <1>1, <1>9, <2>1 DEF StackInv, Typed, memo, meter
<1>10. CASE /\ stack' = Replaced([Top EXCEPT !.todo = Front(@) \o references[m],
                                             !.seen = @ \cup {m},
                                             !.closure = @ \cup {m}])
            /\ UNCHANGED <<states, raised, made>>
  <2>4. ASSUME NEW todo \in Seq(DOMAIN states)
        PROVE  /\ Joined(f, todo, m) \in DemandFrames(DOMAIN states)
               /\ Joined(f, todo, m).how = f.how /\ Joined(f, todo, m).saved = f.saved
    BY ClosureStep
  <2>. PICK todo \in Seq(DOMAIN states) : todo = Front(f.todo) \o references[m]
    BY <1>6
  <2>. PICK g : g = Joined(f, todo, m)
    OBVIOUS
  <2>1. g \in DemandFrames(DOMAIN states) /\ g.how = f.how /\ g.saved = f.saved
    BY <2>4
  <2>2. StackOK(program, DOMAIN states, stack', enclosing)
    BY <1>7, <1>10, <2>1 DEF Replaced, Joined
  <2>3. Typed'
    BY <1>1, <1>10 DEF StackInv, Typed, memo, meter
  <2>. QED
    BY <1>1, <1>10, <2>2, <2>3 DEF StackInv
<1>11. CASE raised' = "error" /\ UNCHANGED <<states, stack, made>>
  BY <1>1, <1>11 DEF StackInv, Typed, memo, meter
<1>. QED
  BY <1>8, <1>9, <1>10, <1>11 DEF CloseOver

\* A fragment is recorded, and the stack left alone.
LEMMA FragmentStack ==
    ASSUME StackInv, MakeFragment
    PROVE  StackInv'
<1>1. stack # <<>> /\ Top.kind = "demand"
  BY DEF MakeFragment, InDemand
<1>2. Top.inst \in Instances /\ Top.closure \subseteq Instances
  BY <1>1, TopFacts, FrameFields, KnownInstances DEF StackInv
<1>3. CASE fragments' = [n \in DOMAIN fragments \cup {Top.inst} |->
                            IF n = Top.inst THEN Top.closure ELSE fragments[n]]
           /\ UNCHANGED raised
  <2>1. /\ evaluations \subseteq DOMAIN fragments'
        /\ \A n \in DOMAIN fragments' : n \in Instances /\ fragments'[n] \subseteq Instances
    BY <1>2, <1>3 DEF StackInv, Typed
  <2>2. UNCHANGED <<program, instances, states, queue, references, stack, raised, enclosing,
                    answered, evaluations, fuel, spent, result, made>>
    BY <1>3 DEF MakeFragment, demand, meter
  <2>3. Typed'
    BY <2>1, <2>2 DEF StackInv, Typed
  <2>. QED
    BY <2>2, <2>3 DEF StackInv
<1>4. CASE raised' = "error" /\ UNCHANGED fragments
  BY <1>4 DEF MakeFragment, StackInv, Typed, demand, meter
<1>. QED
  BY <1>3, <1>4 DEF MakeFragment

\* The body a demand returns to, and the stack it leaves.
LEMMA ReturnedFacts ==
    ASSUME StackInv, stack # <<>>, Top.kind = "demand"
    PROVE  LET site == Last(Front(stack))
           IN /\ site \in BodyFrames(DOMAIN states)
              /\ Under(program, site, Top)
              /\ Returned = IF Top.how = "type" THEN [site EXCEPT !.at = 1] ELSE Advanced(site)
              /\ Returned \in BodyFrames(DOMAIN states)
              /\ Returned.inst = site.inst /\ Returned.phase = site.phase
              /\ Returned.refs = site.refs
              /\ SubSeq(stack, 1, Len(stack) - 2) = Front(Front(stack))
              /\ StackOK(program, DOMAIN states,
                         Append(SubSeq(stack, 1, Len(stack) - 2), Returned), Top.saved)
              /\ StackOK(program, DOMAIN states, Front(stack), Top.saved)
<1>1. /\ StackOK(program, DOMAIN states, Front(stack), Top.saved)
      /\ Front(stack) # <<>> /\ Last(Front(stack)).kind = "body"
      /\ Under(program, Last(Front(stack)), Top)
      /\ stack[Len(stack) - 1] = Last(Front(stack))
      /\ SubSeq(stack, 1, Len(stack) - 2) = Front(Front(stack))
  BY PopDemand DEF StackInv, Top
<1>2. Last(Front(stack)) \in BodyFrames(DOMAIN states)
  BY <1>1, OpenStack, FrameKinds
<1>. PICK site \in BodyFrames(DOMAIN states) : site = Last(Front(stack))
  BY <1>2
<1>3. Returned = IF Top.how = "type" THEN [site EXCEPT !.at = 1] ELSE Advanced(site)
  BY <1>1 DEF Returned
<1>4. /\ Returned \in BodyFrames(DOMAIN states)
      /\ Returned.inst = site.inst /\ Returned.phase = site.phase
      /\ Returned.refs = site.refs
  <2>1. CASE Top.how = "type"
    BY <1>3, <2>1, RestartStep
  <2>2. CASE Top.how # "type"
    BY <1>3, <2>2, BodySteps
  <2>. QED
    BY <2>1, <2>2
<1>. PICK r \in BodyFrames(DOMAIN states) : r = Returned
  BY <1>4
<1>5. r.phase = "rest" => Top.saved = r.inst
  BY <1>1, <1>4 DEF Under
<1>6. StackOK(program, DOMAIN states, Append(Front(Front(stack)), r), Top.saved)
  BY <1>1, <1>5, ReplaceBody
<1>. QED
  BY <1>1, <1>2, <1>3, <1>4, <1>6

\* A run answers the demand, or raises and leaves the stack to be unwound.
LEMMA EvaluateStack ==
    ASSUME StackInv, Evaluate
    PROVE  StackInv'
<1>1. /\ stack # <<>> /\ Top.kind = "demand" /\ Top.inst \in DOMAIN fragments
      /\ UNCHANGED <<program, demand, references, fragments, result, made>>
  BY DEF Evaluate, InDemand
<1>2. StackOK(program, DOMAIN states, Append(SubSeq(stack, 1, Len(stack) - 2), Returned), Top.saved)
  BY <1>1, ReturnedFacts
<1>3. Top.saved \in Instances \cup {None}
  BY <1>1, TopFacts, FrameFields
<1>4. fuel \in 0..CTFE_FUEL /\ spent \in Nat /\ CTFE_FUEL \in Nat /\ Steps \subseteq Nat
  BY BoundsAssumption DEF StackInv, Typed
<1>5. CASE fuel = 0 /\ raised' = "fuel"
           /\ UNCHANGED <<stack, enclosing, answered, evaluations, meter>>
  BY <1>1, <1>5 DEF StackInv, Typed, demand, meter
<1>6. ASSUME NEW steps \in Steps, fuel > 0, fuel' = fuel - 1,
             spent' = spent + fuel \/ spent' = spent + 1 + steps,
             raised' = "fuel" \/ raised' = "error",
             UNCHANGED <<stack, enclosing, answered, evaluations>>
      PROVE  StackInv'
  <2>1. fuel' \in 0..CTFE_FUEL /\ spent' \in Nat
    BY <1>4, <1>6
  <2>. QED
    BY <1>1, <1>6, <2>1 DEF StackInv, Typed, demand
<1>7. ASSUME NEW steps \in Steps, fuel > 0, steps <= fuel - 1, fuel' = Remaining(steps),
             spent' = spent + 1 + steps,
             evaluations' = evaluations \cup {Top.inst},
             answered' = IF Top.how = "type" THEN answered \cup {Top.inst} ELSE answered,
             enclosing' = Top.saved,
             stack' = Append(SubSeq(stack, 1, Len(stack) - 2), Returned),
             UNCHANGED raised
      PROVE  StackInv'
  <2>1. fuel' \in 0..CTFE_FUEL /\ spent' \in Nat
    BY <1>4, <1>7 DEF Remaining
  <2>2. answered' \subseteq evaluations' /\ evaluations' \subseteq DOMAIN fragments
    BY <1>1, <1>7 DEF StackInv, Typed
  <2>3. Typed'
    BY <1>1, <1>3, <1>7, <2>1, <2>2 DEF StackInv, Typed, demand
  <2>. QED
    BY <1>1, <1>2, <1>7, <2>3 DEF StackInv, demand
<1>. QED
  BY <1>5, <1>6, <1>7 DEF Evaluate

\* An error leaves a demand.
LEMMA UnwindStack ==
    ASSUME StackInv, UnwindDemand
    PROVE  StackInv'
<1>1. /\ stack # <<>> /\ Top.kind = "demand" /\ enclosing' = Top.saved
      /\ UNCHANGED <<program, demand, references, memo, meter, result, made>>
  BY DEF UnwindDemand
<1>2. /\ StackOK(program, DOMAIN states, Append(SubSeq(stack, 1, Len(stack) - 2), Returned),
                 Top.saved)
      /\ StackOK(program, DOMAIN states, Front(stack), Top.saved)
  BY <1>1, ReturnedFacts
<1>3. Top.saved \in Instances \cup {None}
  BY <1>1, TopFacts, FrameFields
<1>4. /\ raised' \in {"none", "error", "fuel"}
      /\ stack' \in {Front(stack), Append(SubSeq(stack, 1, Len(stack) - 2), Returned)}
  BY DEF UnwindDemand, StackInv, Typed
<1>5. Typed'
  BY <1>1, <1>3, <1>4 DEF StackInv, Typed, demand, memo, meter
<1>. QED
  BY <1>1, <1>2, <1>4, <1>5 DEF StackInv, demand

\* Every step keeps the stack in order.
LEMMA StackStep == StackInv /\ [Next]_vars => StackInv'
<1>. SUFFICES ASSUME StackInv, [Next]_vars PROVE StackInv'
  OBVIOUS
<1>1. CASE UNCHANGED vars
  BY <1>1 DEF vars, StackInv, Typed
<1>2. CASE Next
  BY <1>2, DrainStack, BodyStack, CallStack, ApplyStack, EndStack, CloseStack, FragmentStack,
     EvaluateStack, UnwindStack DEF Next
<1>. QED
  BY <1>1, <1>2

-----------------------------------------------------------------------------
(* The worklist invariant: the states, the bodies on the stack, the queue    *)
(* and how often each instance was materialized.                             *)

\* The same bodies are under way.
SameBodies(s, t) == Bodies(t) = Bodies(s) /\ (Once(s) => Once(t))

\* The top goes on, as the frame of the same body or as a demand still.
LEMMA ReplaceBodies ==
    ASSUME NEW S, NEW s \in Seq(S), s # <<>>, NEW g \in S,
           g.kind = Last(s).kind, g.kind = "body" => g.inst = Last(s).inst
    PROVE  SameBodies(s, Append(Front(s), g))
<1>1. Front(s) \in Seq(S) /\ Last(s) \in S /\ s = Append(Front(s), Last(s))
  BY TopAndBelow
<1>. PICK t \in Seq(S), f \in S : t = Front(s) /\ f = Last(s)
  BY <1>1
<1>4. s = Append(t, f)
  BY <1>1
<1>5. /\ Bodies(Append(t, f)) = IF f.kind = "body" THEN Bodies(t) \cup {f.inst} ELSE Bodies(t)
      /\ Once(Append(t, f)) <=> Once(t) /\ (f.kind = "body" => f.inst \notin Bodies(t))
  BY BodiesAppend
<1>2. /\ Bodies(s) = IF f.kind = "body" THEN Bodies(t) \cup {f.inst} ELSE Bodies(t)
      /\ Once(s) <=> Once(t) /\ (f.kind = "body" => f.inst \notin Bodies(t))
  BY <1>4, <1>5
<1>3. /\ Bodies(Append(t, g)) = IF g.kind = "body" THEN Bodies(t) \cup {g.inst} ELSE Bodies(t)
      /\ Once(Append(t, g)) <=> Once(t) /\ (g.kind = "body" => g.inst \notin Bodies(t))
  BY BodiesAppend
<1>. QED
  BY <1>2, <1>3 DEF SameBodies

\* A demand comes or goes.
LEMMA DemandBodies ==
    ASSUME NEW S, NEW s \in Seq(S)
    PROVE  /\ \A d \in S : d.kind = "demand" => SameBodies(s, Append(s, d))
           /\ (s # <<>> /\ Last(s).kind = "demand") => SameBodies(s, Front(s))
<1>1. ASSUME NEW d \in S, d.kind = "demand" PROVE SameBodies(s, Append(s, d))
  BY <1>1, BodiesAppend DEF SameBodies
<1>2. ASSUME s # <<>>, Last(s).kind = "demand" PROVE SameBodies(s, Front(s))
  <2>1. Front(s) \in Seq(S) /\ Last(s) \in S /\ s = Append(Front(s), Last(s))
    BY <1>2, TopAndBelow
  <2>. PICK t \in Seq(S), f \in S : t = Front(s) /\ f = Last(s)
    BY <2>1
  <2>2. /\ Bodies(s) = Bodies(t)
        /\ Once(s) <=> Once(t)
    BY <1>2, <2>1, BodiesAppend, ZenonT(60)
  <2>. QED
    BY <2>2 DEF SameBodies
<1>. QED
  BY <1>1, <1>2

\* One change of the stack after another.
LEMMA SameTwice ==
    ASSUME NEW s, NEW t, NEW u, SameBodies(s, t), SameBodies(t, u)
    PROVE  SameBodies(s, u)
BY DEF SameBodies

\* A step of the body on top that replaces its frame.
LEMMA TopBodies ==
    ASSUME StackInv, stack # <<>>, Top.kind = "body", NEW E, DOMAIN states \subseteq E,
           NEW g \in BodyFrames(E), g.inst = Top.inst
    PROVE  SameBodies(stack, Append(Front(stack), g))
<1>1. stack \in Seq(Frames(E)) /\ g \in Frames(E) /\ g.kind = "body"
  BY FramesMono, FrameFields DEF StackInv, StackOK, Frames
<1>. QED
  BY <1>1, ReplaceBodies DEF Top

\* Apply keeps the bodies of the stack.
LEMMA ApplyBodies ==
    ASSUME StackInv, Apply
    PROVE  SameBodies(stack, stack')
<1>1. Applying
  BY DEF Apply
<1>2. /\ stack # <<>> /\ Top.kind = "body" /\ Top = Last(stack)
      /\ Top \in BodyFrames(DOMAIN states) /\ Item.to \in Instances
  BY <1>1, ApplySite
<1>. PICK f \in BodyFrames(DOMAIN states), n \in Instances : f = Top /\ n = Item.to
  BY <1>2
<1>3. CASE ~WithinBudget(n) /\ Refuse(Top, "error")
  <2>1. Advanced(f) \in BodyFrames(DOMAIN states) /\ Advanced(f).inst = f.inst
    BY BodySteps
  <2>2. /\ SameBodies(stack, Append(Front(stack), f))
        /\ SameBodies(stack, Append(Front(stack), Advanced(f)))
    BY <1>2, <2>1, TopBodies
  <2>. QED
    BY <1>3, <2>2 DEF Refuse, Replaced
<1>4. CASE WithinBudget(n) /\ Enqueue(n)
  <2>1. DOMAIN states \subseteq DOMAIN states' /\ n \in DOMAIN states'
    BY <1>4, EnqueueFacts DEF StackInv
  <2>2. f \in BodyFrames(DOMAIN states')
    BY <2>1, FramesMono
  <2>3. Noted(f, n) \in BodyFrames(DOMAIN states') /\ Noted(f, n).inst = f.inst
    BY <2>1, <2>2, NotedStep
  <2>. PICK site \in BodyFrames(DOMAIN states') : site = Noted(f, n)
    BY <2>3
  <2>4. Advanced(site) \in BodyFrames(DOMAIN states') /\ Advanced(site).inst = f.inst
    BY <2>3, BodySteps
  <2>5. /\ [site EXCEPT !.at = 1] \in BodyFrames(DOMAIN states')
        /\ [site EXCEPT !.at = 1].inst = f.inst
    BY <2>3, RestartStep
  <2>6. SameBodies(stack, Append(Front(stack), site))
    BY <1>2, <2>1, <2>3, TopBodies
  <2>7. SameBodies(stack, Append(Front(stack), Advanced(site)))
    BY <1>2, <2>1, <2>4, TopBodies
  <2>8. SameBodies(stack, Append(Front(stack), [site EXCEPT !.at = 1]))
    BY <1>2, <2>1, <2>5, TopBodies
  <2>9. ASSUME NEW todo
        PROVE  SameBodies(stack, Append(Append(Front(stack), site), DemandFrame(n, Item.op, todo)))
    <3>. DEFINE d == DemandFrame(n, Item.op, todo)
                S == Frames(DOMAIN states') \cup {d}
                t == Append(Front(stack), site)
    <3>1. d.kind = "demand" /\ d \in S /\ site \in S
      BY DEF DemandFrame, Frames
    <3>2. stack \in Seq(S)
      <4>1. stack \in Seq(Frames(DOMAIN states))
        BY DEF StackInv, StackOK
      <4>2. Frames(DOMAIN states) \subseteq S
        BY <2>1, FramesMono
      <4>. QED
        BY <4>1, <4>2, SeqMono
    <3>3. Front(stack) \in Seq(S)
      BY <1>2, <3>2, FrontFacts
    <3>4. t \in Seq(S)
      BY <3>1, <3>3, AppendFacts
    <3>. HIDE DEF d, S, t
    <3>5. SameBodies(t, Append(t, d))
      BY <3>1, <3>4, DemandBodies
    <3>6. SameBodies(stack, t)
      BY <2>6 DEF t
    <3>7. SameBodies(stack, Append(t, d))
      BY <3>5, <3>6, SameTwice
    <3>. QED
      BY <3>7 DEF d, t
  <2>. QED
    BY <1>3, <1>4, <2>6, <2>7, <2>8, <2>9 DEF Apply, Refuse, Replaced
<1>. QED
  BY <1>3, <1>4 DEF Apply

\* The steps that neither begin nor end a body.
LEMMA KeptBodies ==
    ASSUME StackInv,
           \/ Drained \/ DrainSkips \/ Fail \/ Call \/ Unroll \/ Apply \/ Fold \/ Settle
           \/ BodyFails \/ MakeFragment \/ Evaluate \/ UnwindDemand
           \/ (CloseOver /\ \A m \in DOMAIN states : ~Begin(m))
    PROVE  SameBodies(stack, stack')
<1>1. SameBodies(stack, stack)
  BY DEF SameBodies
<1>2. CASE Drained \/ DrainSkips \/ Fail \/ MakeFragment \/ BodyFails
  BY <1>1, <1>2 DEF Drained, DrainSkips, Fail, MakeFragment, BodyFails
<1>3. CASE Call \/ Unroll \/ Fold \/ Settle
  <2>1. /\ stack # <<>> /\ Top.kind = "body"
    BY <1>3 DEF Call, Unroll, Fold, Settle, Applying, AtItem, AtEnd, InBody
  <2>2. Top \in BodyFrames(DOMAIN states)
    BY <2>1, TopFacts
  <2>. PICK f \in BodyFrames(DOMAIN states) : f = Top
    BY <2>2
  <2>3. CASE Call
    <3>1. CASE WithinBudget(Item.to) /\ Enqueue(Item.to)
               /\ stack' = Replaced(Advanced(Noted(Top, Item.to)))
      <4>1. f.at <= Len(Items(f)) /\ Items(f)[f.at].op = "call" /\ Item = Items(f)[f.at]
        BY <2>3 DEF Call, AtItem, Item
      <4>2. Item.to \in Instances
        BY <4>1, ItemFacts DEF StackInv
      <4>. PICK n \in Instances : n = Item.to
        BY <4>2
      <4>3. DOMAIN states \subseteq DOMAIN states' /\ n \in DOMAIN states'
        BY <3>1, EnqueueFacts DEF StackInv
      <4>4. f \in BodyFrames(DOMAIN states')
        BY <4>3, FramesMono
      <4>5. Noted(f, n) \in BodyFrames(DOMAIN states') /\ Noted(f, n).inst = f.inst
        BY <4>3, <4>4, NotedStep
      <4>. PICK g \in BodyFrames(DOMAIN states') : g = Noted(f, n)
        BY <4>5
      <4>6. Advanced(g) \in BodyFrames(DOMAIN states') /\ Advanced(g).inst = f.inst
        BY <4>5, BodySteps
      <4>. QED
        BY <2>1, <3>1, <4>3, <4>6, TopBodies DEF Replaced
    <3>2. CASE stack' = stack
      BY <1>1, <3>2
    <3>. QED
      BY <2>3, <3>1, <3>2 DEF Call
  <2>4. CASE Unroll \/ Fold
    <3>1. Advanced(f) \in BodyFrames(DOMAIN states) /\ Advanced(f).inst = f.inst
      BY BodySteps
    <3>2. SameBodies(stack, Append(Front(stack), Advanced(f)))
      BY <2>1, <3>1, TopBodies
    <3>. QED
      BY <1>1, <2>4, <3>2 DEF Unroll, Fold, Replaced
  <2>5. CASE Settle
    <3>. PICK h : h = [f EXCEPT !.phase = "rest", !.at = 1]
      OBVIOUS
    <3>1. h \in BodyFrames(DOMAIN states) /\ h.inst = f.inst
      BY BodySteps
    <3>2. SameBodies(stack, Append(Front(stack), h))
      BY <2>1, <3>1, TopBodies
    <3>. QED
      BY <2>5, <3>2 DEF Settle, Replaced
  <2>. QED
    BY <1>3, <2>3, <2>4, <2>5
<1>4. CASE Evaluate \/ UnwindDemand
  <2>1. /\ stack # <<>> /\ Top.kind = "demand" /\ Top = Last(stack)
        /\ stack' \in {stack, Front(stack), Append(SubSeq(stack, 1, Len(stack) - 2), Returned)}
    BY <1>4 DEF Evaluate, UnwindDemand, InDemand, Top
  <2>2. LET site == Last(Front(stack))
        IN /\ site \in BodyFrames(DOMAIN states) /\ Returned \in BodyFrames(DOMAIN states)
           /\ Returned.inst = site.inst
           /\ SubSeq(stack, 1, Len(stack) - 2) = Front(Front(stack))
    BY <2>1, ReturnedFacts
  <2>3. Front(stack) # <<>>
    BY <2>1, PopDemand DEF StackInv
  <2>4. stack \in Seq(Frames(DOMAIN states)) /\ Front(stack) \in Seq(Frames(DOMAIN states))
    BY <2>1, OpenStack DEF StackInv, StackOK
  <2>5. SameBodies(stack, Front(stack))
    BY <2>1, <2>4, DemandBodies
  <2>6. /\ Returned \in Frames(DOMAIN states) /\ Returned.kind = "body"
        /\ Last(Front(stack)).kind = "body"
    BY <2>2, FrameFields DEF Frames
  <2>7. SameBodies(Front(stack), Append(Front(Front(stack)), Returned))
    <3>. PICK t \in Seq(Frames(DOMAIN states)), r \in Frames(DOMAIN states) :
              t = Front(stack) /\ r = Returned
      BY <2>4, <2>6
    <3>. QED
      BY <2>2, <2>3, <2>6, ReplaceBodies
  <2>8. SameBodies(stack, Append(Front(Front(stack)), Returned))
    BY <2>5, <2>7, SameTwice
  <2>. QED
    BY <1>1, <2>1, <2>2, <2>5, <2>8
<1>5. CASE CloseOver /\ \A m \in DOMAIN states : ~Begin(m)
  <2>1. stack # <<>> /\ Top.kind = "demand" /\ Top.todo # <<>> /\ Top = Last(stack)
    BY <1>5 DEF CloseOver, InDemand, Top
  <2>2. Top \in DemandFrames(DOMAIN states) /\ Top.todo \in Seq(DOMAIN states)
    BY <2>1, TopFacts, FrameFields
  <2>3. Last(Top.todo) \in DOMAIN states
    BY <2>1, <2>2, FrontFacts
  <2>4. stack' = stack \/ \E g : stack' = Append(Front(stack), g) /\ g.kind = "demand"
    <3>. PICK f \in DemandFrames(DOMAIN states) : f = Top
      BY <2>2
    <3>1. [f EXCEPT !.todo = Front(@)].kind = "demand"
      BY DEF DemandFrames
    <3>2. [f EXCEPT !.todo = Front(@) \o references[Last(f.todo)],
                    !.seen = @ \cup {Last(f.todo)},
                    !.closure = @ \cup {Last(f.todo)}].kind = "demand"
      BY DEF DemandFrames
    <3>. QED
      BY <1>5, <2>3, <3>1, <3>2 DEF CloseOver, Replaced
  <2>5. ASSUME NEW g, stack' = Append(Front(stack), g), g.kind = "demand"
        PROVE  SameBodies(stack, stack')
    <3>. DEFINE S == Frames(DOMAIN states) \cup {g}
    <3>1. stack \in Seq(S) /\ g \in S
      BY SeqMono DEF StackInv, StackOK
    <3>. HIDE DEF S
    <3>. QED
      BY <2>1, <2>5, <3>1, ReplaceBodies
  <2>. QED
    BY <1>1, <2>4, <2>5
<1>. QED
  BY <1>2, <1>3, <1>4, <1>5, ApplyBodies

\* Initially.
LEMMA WorkInit == Init => WorkInv
<1>. SUFFICES ASSUME Init PROVE WorkInv
  OBVIOUS
<1>1. Bodies(stack) = {} /\ Once(stack)
  BY EmptyStack DEF Init
<1>2. DOMAIN states = {Entry} /\ states[Entry] = "Pending" /\ Entry \in Range(queue)
  BY DEF Init, Range
<1>3. \A n \in Instances : made[n] = 0
  BY DEF Init
<1>. QED
  BY <1>1, <1>2, <1>3 DEF WorkInv

\* The body on top is active, and no other body is it.
LEMMA TopActive ==
    ASSUME StackInv, WorkInv, stack # <<>>, Top.kind = "body"
    PROVE  /\ Top.inst \in DOMAIN states /\ states[Top.inst] = "Active"
           /\ Bodies(stack) = Bodies(Front(stack)) \cup {Top.inst}
           /\ Once(Front(stack)) /\ Top.inst \notin Bodies(Front(stack))
<1>1. /\ stack = Append(Front(stack), Top) /\ Top \in Frames(DOMAIN states)
      /\ Front(stack) \in Seq(Frames(DOMAIN states))
  BY OpenStack DEF StackInv, Top
<1>2. Top.inst \in DOMAIN states
  BY TopFacts, FrameFields
<1>. PICK t \in Seq(Frames(DOMAIN states)), f \in Frames(DOMAIN states) :
          t = Front(stack) /\ f = Top
  BY <1>1
<1>3. stack = Append(t, f) /\ f.kind = "body"
  BY <1>1
<1>4. /\ Bodies(Append(t, f)) = Bodies(t) \cup {f.inst}
      /\ Once(Append(t, f)) <=> Once(t) /\ f.inst \notin Bodies(t)
  BY <1>3, BodiesAppend
<1>. QED
  BY <1>2, <1>3, <1>4 DEF WorkInv

\* A pending instance is begun, from the queue or by a demand.
LEMMA BeginWork ==
    ASSUME StackInv, WorkInv, NEW n \in DOMAIN states, states[n] = "Pending", Begin(n),
           \A m \in Range(queue) : m # n => m \in Range(queue')
    PROVE  WorkInv'
<1>1. /\ n \in Instances /\ made \in [Instances -> Nat] /\ DOMAIN states \subseteq Instances
  BY KnownInstances DEF StackInv, Typed
<1>2. stack \in Seq(Frames(DOMAIN states)) /\ BodyFrame(n) \in Frames(DOMAIN states)
  BY DEF StackInv, StackOK, BodyFrame, Frames, BodyFrames
<1>. PICK f \in Frames(DOMAIN states) : f = BodyFrame(n)
  BY <1>2
<1>3. f.kind = "body" /\ f.inst = n /\ n \notin Bodies(stack)
  BY DEF BodyFrame, WorkInv
<1>4. Bodies(Append(stack, f)) = Bodies(stack) \cup {n} /\ Once(Append(stack, f))
  BY <1>2, <1>3, BodiesAppend DEF WorkInv
<1>5. /\ DOMAIN states' = DOMAIN states /\ states'[n] = "Active"
      /\ \A m \in DOMAIN states : m # n => states'[m] = states[m]
      /\ stack' = Append(stack, f)
  BY DEF Begin
<1>6. \A m \in DOMAIN states' : states'[m] = "Active" <=> m \in Bodies(stack')
  BY <1>4, <1>5 DEF WorkInv
<1>7. \A m \in DOMAIN states' : states'[m] = "Pending" => m \in Range(queue')
  BY <1>5 DEF WorkInv
<1>8. \A m \in Instances :
          made'[m] = IF m \in DOMAIN states' /\ states'[m] # "Pending" THEN 1 ELSE 0
  <2>1. made'[n] = made[n] + 1 /\ \A m \in Instances : m # n => made'[m] = made[m]
    BY <1>1 DEF Begin
  <2>2. made[n] = 0
    BY <1>1 DEF WorkInv
  <2>. QED
    BY <1>1, <1>5, <2>1, <2>2 DEF WorkInv
<1>. QED
  BY <1>4, <1>5, <1>6, <1>7, <1>8 DEF WorkInv

\* The steps that keep the bodies keep the worklist in step.
LEMMA KeptWork ==
    ASSUME StackInv, WorkInv, SameBodies(stack, stack'), UNCHANGED made,
           \/ /\ UNCHANGED states
              /\ \A n \in DOMAIN states : (states[n] = "Pending" /\ n \in Range(queue))
                     => n \in Range(queue')
           \/ \E n \in Instances : WithinBudget(n) /\ Enqueue(n)
    PROVE  WorkInv'
<1>0. Bodies(stack') = Bodies(stack) /\ Once(stack')
  BY DEF SameBodies, WorkInv
<1>1. CASE /\ UNCHANGED states
           /\ \A n \in DOMAIN states : (states[n] = "Pending" /\ n \in Range(queue))
                  => n \in Range(queue')
  BY <1>0, <1>1 DEF WorkInv
<1>2. ASSUME NEW n \in Instances, WithinBudget(n), Enqueue(n) PROVE WorkInv'
  <2>1. /\ DOMAIN states' = DOMAIN states \cup {n}
        /\ \A m \in DOMAIN states : states'[m] = states[m]
        /\ \A m \in DOMAIN states' : m \notin DOMAIN states =>
               states'[m] = "Pending" /\ m \in Range(queue')
        /\ Range(queue) \subseteq Range(queue')
    BY <1>2, EnqueueFacts DEF StackInv
  <2>2. Bodies(stack) \subseteq DOMAIN states
    <3>1. \A f \in Frames(DOMAIN states) : f.inst \in DOMAIN states
      BY DEF Frames, BodyFrames, DemandFrames
    <3>2. \A i \in 1..Len(stack) : stack[i] \in Frames(DOMAIN states)
      BY DEF StackInv, StackOK
    <3>. QED
      BY <3>1, <3>2 DEF Bodies
  <2>3. \A m \in DOMAIN states' : states'[m] = "Active" <=> m \in Bodies(stack')
    BY <1>0, <2>1, <2>2 DEF WorkInv
  <2>4. \A m \in DOMAIN states' : states'[m] = "Pending" => m \in Range(queue')
    BY <2>1 DEF WorkInv
  <2>5. \A m \in Instances :
            made'[m] = IF m \in DOMAIN states' /\ states'[m] # "Pending" THEN 1 ELSE 0
    BY <2>1 DEF WorkInv
  <2>. QED
    BY <1>0, <2>3, <2>4, <2>5 DEF WorkInv
<1>. QED
  BY <1>1, <1>2

\* materialize ends: its instance is no longer active.
LEMMA EndWork ==
    ASSUME StackInv, WorkInv, Complete \/ UnwindBody
    PROVE  WorkInv'
<1>1. stack # <<>> /\ Top.kind = "body"
  BY DEF Complete, UnwindBody, AtEnd, InBody
<1>2. /\ Top.inst \in DOMAIN states /\ states[Top.inst] = "Active"
      /\ Bodies(stack) = Bodies(Front(stack)) \cup {Top.inst}
      /\ Once(Front(stack)) /\ Top.inst \notin Bodies(Front(stack))
  BY <1>1, TopActive
<1>3. PICK st \in {"Completed", "Failed"} : states' = [states EXCEPT ![Top.inst] = st]
  BY DEF Complete, UnwindBody, End
<1>4. stack' = Front(stack) /\ UNCHANGED <<queue, made>>
  BY DEF Complete, UnwindBody, End
<1>5. /\ DOMAIN states' = DOMAIN states /\ states'[Top.inst] = st
      /\ \A m \in DOMAIN states : m # Top.inst => states'[m] = states[m]
  BY <1>2, <1>3
<1>6. \A m \in DOMAIN states' : states'[m] = "Active" <=> m \in Bodies(stack')
  BY <1>2, <1>4, <1>5 DEF WorkInv
<1>7. \A m \in DOMAIN states' : states'[m] = "Pending" => m \in Range(queue')
  BY <1>4, <1>5 DEF WorkInv
<1>8. \A m \in Instances :
          made'[m] = IF m \in DOMAIN states' /\ states'[m] # "Pending" THEN 1 ELSE 0
  BY <1>2, <1>4, <1>5 DEF WorkInv
<1>. QED
  BY <1>2, <1>4, <1>6, <1>7, <1>8 DEF WorkInv

\* Every step keeps the worklist in step.
LEMMA WorkStep == StackInv /\ WorkInv /\ [Next]_vars => WorkInv'
<1>. SUFFICES ASSUME StackInv, WorkInv, [Next]_vars PROVE WorkInv'
  OBVIOUS
<1>1. CASE UNCHANGED vars
  BY <1>1 DEF vars, WorkInv
<1>2. CASE DrainTakes
  <2>1. queue # <<>> /\ queue \in Seq(DOMAIN states)
    BY <1>2 DEF DrainTakes, StackInv, Typed
  <2>2. Head(queue) \in DOMAIN states /\ Range(queue) \subseteq Range(Tail(queue)) \cup {Head(queue)}
    BY <2>1, TailFacts
  <2>. QED
    BY <1>2, <2>2, BeginWork DEF DrainTakes
<1>3. CASE DrainSkips
  <2>1. queue # <<>> /\ queue \in Seq(DOMAIN states)
    BY <1>3 DEF DrainSkips, StackInv, Typed
  <2>2. Range(queue) \subseteq Range(Tail(queue)) \cup {Head(queue)}
    BY <2>1, TailFacts
  <2>3. SameBodies(stack, stack')
    BY <1>3, KeptBodies
  <2>. QED
    BY <1>3, <2>2, <2>3, KeptWork DEF DrainSkips
<1>4. CASE Drained \/ Fail \/ Unroll \/ Fold \/ Settle \/ BodyFails \/ MakeFragment \/ Evaluate
           \/ UnwindDemand
  <2>1. SameBodies(stack, stack')
    BY <1>4, KeptBodies
  <2>2. UNCHANGED <<states, queue, made>>
    BY <1>4 DEF Drained, Fail, Unroll, Fold, Settle, BodyFails, MakeFragment, Evaluate,
                UnwindDemand, demand
  <2>. QED
    BY <2>1, <2>2, KeptWork
<1>5. CASE Call
  <2>1. SameBodies(stack, stack')
    BY <1>5, KeptBodies
  <2>2. Item.to \in Instances
    <3>1. stack # <<>> /\ Top.kind = "body" /\ Top.at <= Len(Items(Top))
      BY <1>5 DEF Call, AtItem, InBody
    <3>2. Top \in BodyFrames(DOMAIN states)
      BY <3>1, TopFacts
    <3>. PICK f \in BodyFrames(DOMAIN states) : f = Top
      BY <3>2
    <3>3. f.at <= Len(Items(f)) /\ Items(f)[f.at].op = "call" /\ Item = Items(f)[f.at]
      BY <1>5, <3>1 DEF Call, Item
    <3>. QED
      BY <3>3, ItemFacts DEF StackInv
  <2>3. UNCHANGED made /\ (UNCHANGED demand \/ (WithinBudget(Item.to) /\ Enqueue(Item.to)))
    BY <1>5 DEF Call
  <2>. QED
    BY <2>1, <2>2, <2>3, KeptWork DEF demand
<1>6. CASE Apply
  <2>1. SameBodies(stack, stack')
    BY <1>6, KeptBodies
  <2>2. Item.to \in Instances
    BY <1>6, ApplySite DEF Apply
  <2>3. UNCHANGED made /\ (UNCHANGED demand \/ (WithinBudget(Item.to) /\ Enqueue(Item.to)))
    BY <1>6 DEF Apply
  <2>. QED
    BY <2>1, <2>2, <2>3, KeptWork DEF demand
<1>7. CASE Complete \/ UnwindBody
  BY <1>7, EndWork
<1>8. CASE CloseOver
  <2>1. stack # <<>> /\ Top.kind = "demand" /\ Top.todo # <<>> /\ UNCHANGED queue
    BY <1>8 DEF CloseOver, InDemand
  <2>2. Top.todo \in Seq(DOMAIN states)
    BY <2>1, TopFacts, FrameFields
  <2>3. Last(Top.todo) \in DOMAIN states
    BY <2>1, <2>2, FrontFacts
  <2>4. CASE \E m \in DOMAIN states : Begin(m)
    <3>1. Meets(Last(Top.todo)) = "Pending" /\ Begin(Last(Top.todo))
      <4>. SUFFICES ASSUME NEW m \in DOMAIN states, Begin(m), UNCHANGED made PROVE FALSE
        BY <1>8, <2>3, <2>4 DEF CloseOver
      <4>1. made[m] \in Nat /\ m \in Instances /\ made \in [Instances -> Nat]
        BY KnownInstances DEF StackInv, Typed
      <4>2. made'[m] = made[m] + 1
        BY <4>1 DEF Begin
      <4>. QED
        BY <4>1, <4>2
    <3>2. states[Last(Top.todo)] = "Pending"
      BY <3>1 DEF Meets
    <3>. QED
      BY <2>1, <2>3, <3>1, <3>2, BeginWork
  <2>5. CASE \A m \in DOMAIN states : ~Begin(m)
    <3>1. SameBodies(stack, stack')
      BY <1>8, <2>5, KeptBodies
    <3>2. UNCHANGED <<states, made>>
      BY <1>8, <2>3, <2>5 DEF CloseOver
    <3>. QED
      BY <2>1, <3>1, <3>2, KeptWork
  <2>. QED
    BY <2>4, <2>5
<1>. QED
  BY <1>1, <1>2, <1>3, <1>4, <1>5, <1>6, <1>7, <1>8 DEF Next

-----------------------------------------------------------------------------
(* The closure invariant: what a body refers to, what a closure holds, what  *)
(* a fragment keeps.                                                         *)

\* What no step takes back: known instances, completed ones with their
\* references, and fragments.
Grows ==
    /\ UNCHANGED program
    /\ DOMAIN states \subseteq DOMAIN states'
    /\ \A m \in DOMAIN states : states[m] = "Completed" =>
           states'[m] = "Completed" /\ references'[m] = references[m]
    /\ DOMAIN fragments \subseteq DOMAIN fragments'

\* An enqueue takes nothing back.
LEMMA EnqueueGrows ==
    ASSUME StackInv, NEW n \in Instances, WithinBudget(n), Enqueue(n),
           UNCHANGED <<program, references, fragments>>
    PROVE  Grows
<1>1. DOMAIN states \subseteq DOMAIN states' /\ \A m \in DOMAIN states : states'[m] = states[m]
  BY EnqueueFacts DEF StackInv
<1>. QED
  BY <1>1 DEF Grows

\* Nor does any step.
LEMMA StepGrows ==
    ASSUME StackInv, WorkInv, Next
    PROVE  Grows
<1>1. ASSUME NEW n \in DOMAIN states, states[n] = "Pending", Begin(n),
             UNCHANGED <<program, references, fragments>>
      PROVE  Grows
  BY <1>1 DEF Begin, Grows
<1>2. CASE DrainTakes
  <2>1. Head(queue) \in DOMAIN states
    BY <1>2, TailFacts DEF DrainTakes, StackInv, Typed
  <2>. QED
    BY <1>1, <1>2, <2>1 DEF DrainTakes, memo
<1>3. CASE \/ DrainSkips \/ Drained \/ Fail \/ Unroll \/ Fold \/ Settle \/ BodyFails \/ Evaluate
           \/ UnwindDemand
  <2>1. UNCHANGED <<program, states, references, fragments>>
    BY <1>3 DEF DrainSkips, Drained, Fail, Unroll, Fold, Settle, BodyFails, Evaluate,
                UnwindDemand, demand, memo
  <2>. QED
    BY <2>1 DEF Grows
<1>4. CASE MakeFragment
  <2>1. UNCHANGED <<program, states, references>> /\ DOMAIN fragments \subseteq DOMAIN fragments'
    BY <1>4 DEF MakeFragment, demand
  <2>. QED
    BY <2>1 DEF Grows
<1>5. CASE Call
  <2>1. stack # <<>> /\ Top.kind = "body" /\ Top.at <= Len(Items(Top))
    BY <1>5 DEF Call, AtItem, InBody
  <2>2. Top \in BodyFrames(DOMAIN states)
    BY <2>1, TopFacts
  <2>. PICK f \in BodyFrames(DOMAIN states) : f = Top
    BY <2>2
  <2>3. f.at <= Len(Items(f)) /\ Items(f)[f.at].op = "call" /\ Item = Items(f)[f.at]
    BY <1>5, <2>1 DEF Call, Item
  <2>4. Item.to \in Instances
    BY <2>3, ItemFacts DEF StackInv
  <2>5. UNCHANGED <<program, references, fragments>>
        /\ (UNCHANGED states \/ (WithinBudget(Item.to) /\ Enqueue(Item.to)))
    BY <1>5 DEF Call, memo, demand
  <2>. QED
    BY <2>4, <2>5, EnqueueGrows DEF Grows
<1>6. CASE Apply
  <2>1. Item.to \in Instances
    BY <1>6, ApplySite DEF Apply
  <2>2. UNCHANGED <<program, references, fragments>>
        /\ (UNCHANGED states \/ (WithinBudget(Item.to) /\ Enqueue(Item.to)))
    BY <1>6 DEF Apply, demand
  <2>. QED
    BY <2>1, <2>2, EnqueueGrows DEF Grows
<1>7. CASE Complete \/ UnwindBody
  <2>1. stack # <<>> /\ Top.kind = "body"
    BY <1>7 DEF Complete, UnwindBody, AtEnd, InBody
  <2>2. Top.inst \in DOMAIN states /\ states[Top.inst] = "Active"
    BY <2>1, TopActive
  <2>3. \E st \in {"Completed", "Failed"} :
            /\ states' = [states EXCEPT ![Top.inst] = st]
            /\ references' = [references EXCEPT ![Top.inst] = Top.refs]
            /\ UNCHANGED <<program, fragments>>
    BY <1>7 DEF Complete, UnwindBody, End, memo
  <2>4. references \in [Instances -> Seq(DOMAIN states)] /\ DOMAIN states \subseteq Instances
    BY KnownInstances DEF StackInv, Typed
  <2>. QED
    BY <2>2, <2>3, <2>4 DEF Grows
<1>8. CASE CloseOver
  <2>1. stack # <<>> /\ Top.kind = "demand" /\ Top.todo # <<>>
        /\ UNCHANGED <<program, references, fragments>>
    BY <1>8 DEF CloseOver, InDemand, memo
  <2>2. Top.todo \in Seq(DOMAIN states)
    BY <2>1, TopFacts, FrameFields
  <2>3. Last(Top.todo) \in DOMAIN states
    BY <2>1, <2>2, FrontFacts
  <2>4. UNCHANGED states \/ (states[Last(Top.todo)] = "Pending" /\ Begin(Last(Top.todo)))
    BY <1>8 DEF CloseOver, Meets
  <2>. QED
    BY <1>1, <2>1, <2>3, <2>4 DEF Grows
<1>. QED
  BY <1>2, <1>3, <1>4, <1>5, <1>6, <1>7, <1>8 DEF Next

\* Good frames stay good.
LEMMA GoodMono ==
    ASSUME Grows
    PROVE  GoodFrames \subseteq GoodFrames'
<1>. SUFFICES ASSUME NEW f \in GoodFrames PROVE f \in GoodFrames'
  OBVIOUS
<1>1. f \in Frames(DOMAIN states) /\ FrameInv(f)
  BY DEF GoodFrames
<1>2. f \in Frames(DOMAIN states')
  BY <1>1, FramesMono DEF Grows
<1>3. FrameInv(f)'
  <2>1. CASE f.kind = "body"
    BY <1>1, <2>1 DEF FrameInv, Grows
  <2>2. CASE f.kind # "body"
    <3>1. f.closure \subseteq DOMAIN states
      BY <1>1, <2>2, FrameKinds, FrameFields
    <3>2. Closing(f)
      BY <1>1, <2>2 DEF FrameInv
    <3>3. Closing(f)'
      BY <3>1, <3>2 DEF Closing, Grows
    <3>. QED
      BY <2>2, <3>3 DEF FrameInv
  <2>. QED
    BY <2>1, <2>2
<1>. QED
  BY <1>2, <1>3 DEF GoodFrames

\* A body frame that has gathered its calls is good after the step.
LEMMA GoodBody ==
    ASSUME Grows, NEW g \in BodyFrames(DOMAIN states'), Gathered(program, g)
    PROVE  g \in GoodFrames'
<1>1. g \in Frames(DOMAIN states') /\ g.kind = "body"
  BY FrameFields DEF Frames
<1>2. FrameInv(g)'
  BY <1>1 DEF FrameInv, Grows
<1>. QED
  BY <1>1, <1>2 DEF GoodFrames

\* So is a demand whose closure is on its way.
LEMMA GoodDemand ==
    ASSUME NEW g \in DemandFrames(DOMAIN states'),
           g.seen = g.closure,
           \A m \in g.closure :
               /\ states'[m] = "Completed"
               /\ Range(references'[m]) \subseteq g.closure \cup Range(g.todo),
           g.inst \in DOMAIN fragments' \cup g.closure \cup Range(g.todo)
    PROVE  g \in GoodFrames'
<1>1. g \in Frames(DOMAIN states') /\ g.kind # "body"
  BY FrameFields DEF Frames
<1>2. Closing(g)'
  BY DEF Closing
<1>3. FrameInv(g)'
  BY <1>1, <1>2 DEF FrameInv
<1>. QED
  BY <1>1, <1>3 DEF GoodFrames

\* How a body frame goes on gathering.
LEMMA GatherStep ==
    ASSUME NEW D, NEW p, NEW f \in BodyFrames(D), NEW g \in BodyFrames(D),
           g.inst = f.inst, g.phase = f.phase, Gathered(p, f),
           Range(f.refs) \subseteq Range(g.refs),
           \/ g.at = f.at
           \/ g.at = 1
           \/ /\ g.at = f.at + 1 /\ f.at <= Len(ItemsOf(p, f))
              /\ ItemsOf(p, f)[f.at].op = "call" => ItemsOf(p, f)[f.at].to \in Range(g.refs),
           Len(ItemsOf(p, f)) \in Nat
    PROVE  Gathered(p, g)
<1>1. f.at \in Nat \ {0} /\ g.at \in Nat \ {0}
  BY FrameFields
<1>. PICK s : s = ItemsOf(p, f)
  OBVIOUS
<1>2. ItemsOf(p, g) = s
  BY DEF ItemsOf
<1>3. f.at <= Len(s) + 1 /\ (f.phase = "rest" =>
          \A j \in 1..Len(s) : (j < f.at /\ s[j].op = "call") => s[j].to \in Range(f.refs))
  BY DEF Gathered
<1>4. g.at <= Len(s) + 1
  BY <1>1, <1>3
<1>5. ASSUME g.phase = "rest", NEW j \in 1..Len(s), j < g.at, s[j].op = "call"
      PROVE  s[j].to \in Range(g.refs)
  <2>1. CASE j < f.at
    BY <1>3, <1>5, <2>1
  <2>2. CASE ~(j < f.at)
    <3>1. j = f.at /\ g.at = f.at + 1
      BY <1>1, <1>5, <2>2
    <3>. QED
      BY <1>1, <1>5, <3>1
  <2>. QED
    BY <2>1, <2>2
<1>. QED
  BY <1>2, <1>4, <1>5 DEF Gathered

\* A body frame that notes the instance of its item has gathered it.
LEMMA NotedGathers ==
    ASSUME NEW D, NEW p, NEW f \in BodyFrames(D), NEW n \in D,
           Gathered(p, f), Len(ItemsOf(p, f)) \in Nat, f.at <= Len(ItemsOf(p, f)),
           ItemsOf(p, f)[f.at].op = "call" => ItemsOf(p, f)[f.at].to = n
    PROVE  /\ Noted(f, n) \in BodyFrames(D) /\ Gathered(p, Noted(f, n))
           /\ Advanced(Noted(f, n)) \in BodyFrames(D) /\ Gathered(p, Advanced(Noted(f, n)))
           /\ [Noted(f, n) EXCEPT !.at = 1] \in BodyFrames(D)
           /\ Gathered(p, [Noted(f, n) EXCEPT !.at = 1])
<1>1. LET g == Noted(f, n)
      IN /\ g \in BodyFrames(D) /\ g.inst = f.inst /\ g.phase = f.phase /\ g.at = f.at
         /\ Range(g.refs) = Range(f.refs) \cup {n}
  BY NotedStep
<1>2. LET g == Advanced(Noted(f, n))
      IN /\ g \in BodyFrames(D) /\ g.inst = f.inst /\ g.phase = f.phase
         /\ g.at = f.at + 1 /\ Range(g.refs) = Range(f.refs) \cup {n}
  <2>1. PICK h \in BodyFrames(D) : h = Noted(f, n)
    BY <1>1
  <2>2. LET g == Advanced(h)
        IN /\ g \in BodyFrames(D) /\ g.inst = h.inst /\ g.phase = h.phase
           /\ g.at = h.at + 1 /\ g.refs = h.refs
    BY <2>1, BodySteps
  <2>. QED
    BY <1>1, <2>1, <2>2
<1>6. LET g == [Noted(f, n) EXCEPT !.at = 1]
      IN /\ g \in BodyFrames(D) /\ g.inst = f.inst /\ g.phase = f.phase
         /\ g.at = 1 /\ Range(g.refs) = Range(f.refs) \cup {n}
  BY NotedRestart
<1>. PICK g \in BodyFrames(D), h \in BodyFrames(D), k \in BodyFrames(D) :
          /\ g = Noted(f, n) /\ h = Advanced(Noted(f, n))
          /\ k = [Noted(f, n) EXCEPT !.at = 1]
  BY <1>1, <1>2, <1>6
<1>3. Gathered(p, g)
  BY <1>1, GatherStep
<1>4. Gathered(p, h)
  BY <1>2, GatherStep
<1>5. Gathered(p, k)
  BY <1>6, GatherStep
<1>. QED
  BY <1>3, <1>4, <1>5

\* What the body on top has gathered, and what its items are.
LEMMA TopGathered ==
    ASSUME StackInv, stack \in Seq(GoodFrames), stack # <<>>, Top.kind = "body"
    PROVE  /\ Top \in BodyFrames(DOMAIN states) /\ Gathered(program, Top)
           /\ ItemsOf(program, Top) = Items(Top) /\ Len(Items(Top)) \in Nat
           /\ Top.at \in Nat \ {0} /\ Top.at <= Len(Items(Top)) + 1
<1>1. Top \in BodyFrames(DOMAIN states)
  BY TopFacts
<1>2. Top \in GoodFrames
  BY TopAndBelow DEF Top
<1>. PICK f \in BodyFrames(DOMAIN states) : f = Top
  BY <1>1
<1>3. Gathered(program, f)
  BY <1>2 DEF GoodFrames, FrameInv
<1>4. ItemsOf(program, f) = Items(f)
  BY DEF ItemsOf, Items
<1>5. Len(Items(f)) \in Nat
  <2>1. f.inst \in Instances
    BY FrameFields, KnownInstances DEF StackInv
  <2>2. program.body[f.inst] \in [pass : Seq(PassItem), rest : Seq(RestItem)]
    BY <2>1 DEF StackInv, Typed, ProgramOK
  <2>3. Items(f) \in Seq(PassItem) \cup Seq(RestItem)
    BY <2>2 DEF Items
  <2>. QED
    BY <2>3
<1>6. f.at \in Nat \ {0}
  BY FrameFields
<1>. QED
  BY <1>3, <1>4, <1>5, <1>6 DEF Gathered

\* The frames of a stack after a step, when those it keeps are as they were.
LEMMA KeptGood ==
    ASSUME Grows, stack \in Seq(GoodFrames)
    PROVE  /\ stack \in Seq(GoodFrames')
           /\ stack # <<>> => /\ Front(stack) \in Seq(GoodFrames')
                              /\ Last(stack) \in GoodFrames'
                              /\ Front(stack) # <<>> =>
                                     Front(Front(stack)) \in Seq(GoodFrames')
<1>1. stack \in Seq(GoodFrames')
  BY GoodMono, SeqMono
<1>. PICK G : G = GoodFrames'
  OBVIOUS
<1>2. stack # <<>> => Front(stack) \in Seq(G) /\ Last(stack) \in G
  BY <1>1, TopAndBelow
<1>3. (stack # <<>> /\ Front(stack) # <<>>) => Front(Front(stack)) \in Seq(G)
  BY <1>2, TopAndBelow
<1>. QED
  BY <1>1, <1>2, <1>3

\* Frames put on a stack of good ones.
LEMMA PutGood ==
    ASSUME NEW G, NEW s \in Seq(G), NEW g \in G
    PROVE  Append(s, g) \in Seq(G)
OBVIOUS

\* A body just begun has nothing to gather.
LEMMA BeginGood ==
    ASSUME StackInv, Grows, stack \in Seq(GoodFrames), NEW m \in DOMAIN states, Begin(m)
    PROVE  stack' \in Seq(GoodFrames')
<1>1. m \in DOMAIN states' /\ BodyFrame(m) \in BodyFrames(DOMAIN states')
  BY DEF Grows, BodyFrame, BodyFrames
<1>. PICK g \in BodyFrames(DOMAIN states') : g = BodyFrame(m)
  BY <1>1
<1>2. m \in Instances /\ g.inst = m /\ g.phase = "pass" /\ g.at = 1
  BY KnownInstances DEF StackInv, BodyFrame
<1>3. program.body[m] \in [pass : Seq(PassItem), rest : Seq(RestItem)]
  BY <1>2 DEF StackInv, Typed, ProgramOK
<1>4. Len(ItemsOf(program, g)) \in Nat
  BY <1>2, <1>3 DEF ItemsOf
<1>5. Gathered(program, g)
  BY <1>2, <1>4 DEF Gathered
<1>6. g \in GoodFrames'
  BY <1>5, GoodBody
<1>7. Append(stack, g) \in Seq(GoodFrames')
  BY <1>6, KeptGood, PutGood
<1>. QED
  BY <1>7 DEF Begin

\* The steps of the body on top, but for its demands.
LEMMA BodyGood ==
    ASSUME StackInv, Grows, stack \in Seq(GoodFrames), Call \/ Unroll \/ Fold \/ Settle
    PROVE  stack' \in Seq(GoodFrames')
<1>1. stack # <<>> /\ Top.kind = "body"
  BY DEF Call, Unroll, Fold, Settle, Applying, AtItem, AtEnd, InBody
<1>2. /\ Top \in BodyFrames(DOMAIN states) /\ Gathered(program, Top)
      /\ ItemsOf(program, Top) = Items(Top) /\ Len(Items(Top)) \in Nat
      /\ Top.at \in Nat \ {0}
  BY <1>1, TopGathered
<1>. PICK D : D = DOMAIN states'
  OBVIOUS
<1>3. Top \in BodyFrames(D)
  BY <1>2, FramesMono DEF Grows
<1>. PICK f \in BodyFrames(D) : f = Top
  BY <1>3
<1>. PICK p : p = program
  OBVIOUS
<1>4. Gathered(p, f) /\ Len(ItemsOf(p, f)) \in Nat /\ ItemsOf(p, f) = Items(Top)
  BY <1>2
<1>5. ASSUME NEW g \in BodyFrames(D), Gathered(p, g)
      PROVE  Append(Front(stack), g) \in Seq(GoodFrames')
  <2>1. g \in GoodFrames'
    BY <1>5, GoodBody
  <2>2. Front(stack) \in Seq(GoodFrames')
    BY <1>1, KeptGood
  <2>. QED
    BY <2>1, <2>2, PutGood
<1>6. stack \in Seq(GoodFrames')
  BY KeptGood
<1>7. CASE Unroll \/ Fold
  <2>1. f.at <= Len(ItemsOf(p, f)) /\ ItemsOf(p, f)[f.at].op # "call"
    BY <1>4, <1>7 DEF Unroll, Fold, Applying, AtItem, Item
  <2>. PICK g : g = Advanced(f)
    OBVIOUS
  <2>2. g \in BodyFrames(D) /\ g.inst = f.inst /\ g.phase = f.phase /\ g.at = f.at + 1
        /\ g.refs = f.refs
    BY BodySteps
  <2>3. Gathered(p, g)
    BY <1>4, <2>1, <2>2, GatherStep
  <2>4. Append(Front(stack), g) \in Seq(GoodFrames')
    BY <1>5, <2>2, <2>3
  <2>5. stack' = stack \/ stack' = Append(Front(stack), g)
    BY <1>7 DEF Unroll, Fold, Replaced
  <2>. QED
    BY <1>6, <2>4, <2>5
<1>8. CASE Settle
  <2>. PICK g : g = [f EXCEPT !.phase = "rest", !.at = 1]
    OBVIOUS
  <2>1. g \in BodyFrames(D) /\ g.at = 1
    BY BodySteps
  <2>2. Len(ItemsOf(p, g)) \in Nat
    <3>1. g.inst \in Instances /\ g.phase = "rest"
      <4>1. g.inst = f.inst /\ g.phase = "rest"
        BY BodySteps
      <4>. QED
        BY <1>2, <4>1, FrameFields, KnownInstances DEF StackInv
    <3>2. p.body[g.inst] \in [pass : Seq(PassItem), rest : Seq(RestItem)]
      BY <3>1 DEF StackInv, Typed, ProgramOK
    <3>. QED
      BY <3>1, <3>2 DEF ItemsOf
  <2>3. Gathered(p, g)
    BY <2>1, <2>2 DEF Gathered
  <2>4. Append(Front(stack), g) \in Seq(GoodFrames')
    BY <1>5, <2>1, <2>3
  <2>. QED
    BY <1>8, <2>4 DEF Settle, Replaced
<1>9. CASE Call
  <2>1. /\ f.at <= Len(ItemsOf(p, f)) /\ ItemsOf(p, f)[f.at].op = "call"
        /\ Item = ItemsOf(p, f)[f.at]
    BY <1>4, <1>9 DEF Call, AtItem, Item
  <2>2. CASE WithinBudget(Item.to) /\ Enqueue(Item.to)
             /\ stack' = Replaced(Advanced(Noted(Top, Item.to)))
    <3>1. Item.to \in Instances
      <4>1. Top.at <= Len(Items(Top)) /\ Items(Top)[Top.at].op = "call"
        BY <1>4, <2>1
      <4>2. Items(Top)[Top.at].to \in Instances
        BY <1>2, <4>1, ItemFacts DEF StackInv
      <4>. QED
        BY <4>2 DEF Item
    <3>2. Item.to \in D
      BY <2>2, <3>1, EnqueueFacts DEF StackInv
    <3>3. ASSUME NEW n \in D, n = Item.to
          PROVE  Advanced(Noted(f, n)) \in BodyFrames(D) /\ Gathered(p, Advanced(Noted(f, n)))
      BY <1>4, <2>1, <3>3, NotedGathers
    <3>. PICK n \in D : n = Item.to
      BY <3>2
    <3>. PICK g \in BodyFrames(D) : g = Advanced(Noted(f, n)) /\ Gathered(p, g)
      BY <3>3
    <3>6. Append(Front(stack), g) \in Seq(GoodFrames')
      BY <1>5
    <3>. QED
      BY <2>2, <3>6 DEF Replaced
  <2>3. CASE stack' = stack
    BY <1>6, <2>3
  <2>. QED
    BY <1>9, <2>2, <2>3 DEF Call
<1>. QED
  BY <1>7, <1>8, <1>9

\* The demands of the body on top.
LEMMA ApplyGood ==
    ASSUME StackInv, Grows, stack \in Seq(GoodFrames), Apply
    PROVE  stack' \in Seq(GoodFrames')
<1>1. Applying
  BY DEF Apply
<1>2. /\ stack # <<>> /\ Top.kind = "body" /\ Item = Items(Top)[Top.at]
      /\ Item.to \in Instances /\ Top.at <= Len(Items(Top))
      /\ Item.op \in {"apply", "type", "drop"}
  BY <1>1, ApplySite
<1>3. /\ Top \in BodyFrames(DOMAIN states) /\ Gathered(program, Top)
      /\ ItemsOf(program, Top) = Items(Top) /\ Len(Items(Top)) \in Nat
  BY <1>2, TopGathered
<1>. PICK D : D = DOMAIN states'
  OBVIOUS
<1>4. Top \in BodyFrames(D)
  BY <1>3, FramesMono DEF Grows
<1>. PICK f \in BodyFrames(D), p \in {program} : f = Top /\ p = program
  BY <1>4
<1>5. /\ Gathered(p, f) /\ Len(ItemsOf(p, f)) \in Nat /\ ItemsOf(p, f) = Items(Top)
      /\ f.at <= Len(ItemsOf(p, f)) /\ ItemsOf(p, f)[f.at].op # "call"
  BY <1>2, <1>3
<1>6. ASSUME NEW g \in BodyFrames(D), Gathered(p, g)
      PROVE  Append(Front(stack), g) \in Seq(GoodFrames')
  <2>1. g \in GoodFrames'
    BY <1>6, GoodBody
  <2>2. Front(stack) \in Seq(GoodFrames')
    BY <1>2, KeptGood
  <2>. QED
    BY <2>1, <2>2, PutGood
<1>7. CASE ~WithinBudget(Item.to) /\ Refuse(Top, "error")
  <2>1. LET g == Advanced(f)
        IN /\ g \in BodyFrames(D) /\ g.inst = f.inst /\ g.phase = f.phase
           /\ g.at = f.at + 1 /\ g.refs = f.refs
    BY BodySteps
  <2>. PICK g \in BodyFrames(D) : g = Advanced(f)
    BY <2>1
  <2>2. Gathered(p, g)
    BY <1>5, <2>1, GatherStep
  <2>3. /\ Append(Front(stack), f) \in Seq(GoodFrames')
        /\ Append(Front(stack), g) \in Seq(GoodFrames')
    BY <1>5, <1>6, <2>2
  <2>. QED
    BY <1>7, <2>3 DEF Refuse, Replaced
<1>8. CASE WithinBudget(Item.to) /\ Enqueue(Item.to)
  <2>1. Item.to \in D
    BY <1>2, <1>8, EnqueueFacts DEF StackInv
  <2>2. ASSUME NEW n \in D
        PROVE  /\ Append(Front(stack), Noted(f, n)) \in Seq(GoodFrames')
               /\ Append(Front(stack), Advanced(Noted(f, n))) \in Seq(GoodFrames')
               /\ Append(Front(stack), [Noted(f, n) EXCEPT !.at = 1]) \in Seq(GoodFrames')
    <3>1. /\ Noted(f, n) \in BodyFrames(D) /\ Gathered(p, Noted(f, n))
          /\ Advanced(Noted(f, n)) \in BodyFrames(D) /\ Gathered(p, Advanced(Noted(f, n)))
          /\ [Noted(f, n) EXCEPT !.at = 1] \in BodyFrames(D)
          /\ Gathered(p, [Noted(f, n) EXCEPT !.at = 1])
      BY <1>5, NotedGathers
    <3>. QED
      BY <1>6, <3>1
  <2>3. ASSUME NEW todo \in Seq(D),
               Item.to \in DOMAIN fragments' \cup Range(todo)
        PROVE  Append(Append(Front(stack), Noted(f, Item.to)), DemandFrame(Item.to, Item.op, todo))
                 \in Seq(GoodFrames')
    <3>1. DemandFrame(Item.to, Item.op, todo) \in DemandFrames(D)
      BY <1>1, <2>1, DemandUnder DEF Grows
    <3>. PICK d \in DemandFrames(D) : d = DemandFrame(Item.to, Item.op, todo)
      BY <3>1
    <3>2. d.inst = Item.to /\ d.todo = todo /\ d.seen = {} /\ d.closure = {}
      BY DEF DemandFrame
    <3>3. d \in GoodFrames'
      BY <2>3, <3>2, GoodDemand
    <3>4. Append(Front(stack), Noted(f, Item.to)) \in Seq(GoodFrames')
      BY <2>1, <2>2
    <3>. QED
      BY <3>3, <3>4, PutGood
  <2>4. <<>> \in Seq(D) /\ <<Item.to>> \in Seq(D) /\ Item.to \in Range(<<Item.to>>)
    BY <2>1 DEF Range
  <2>5. UNCHANGED fragments
    BY DEF Apply
  <2>6. CASE Item.to \in DOMAIN fragments
             /\ stack' = Append(Replaced(Noted(Top, Item.to)), DemandFrame(Item.to, Item.op, <<>>))
    BY <2>3, <2>4, <2>5, <2>6 DEF Replaced
  <2>7. CASE stack' = Append(Replaced(Noted(Top, Item.to)),
                             DemandFrame(Item.to, Item.op, <<Item.to>>))
    BY <2>3, <2>4, <2>7 DEF Replaced
  <2>8. CASE stack' \in {Replaced(Noted(Top, Item.to)), Replaced(Advanced(Noted(Top, Item.to))),
                         Replaced([Noted(Top, Item.to) EXCEPT !.at = 1])}
    BY <2>1, <2>2, <2>8 DEF Replaced
  <2>. QED
    BY <1>8, <2>6, <2>7, <2>8 DEF Apply, Refuse
<1>. QED
  BY <1>7, <1>8 DEF Apply

\* The steps of the demand on top.
LEMMA DemandGood ==
    ASSUME StackInv, Grows, stack \in Seq(GoodFrames), CloseOver \/ Evaluate \/ UnwindDemand
    PROVE  stack' \in Seq(GoodFrames')
<1>1. stack # <<>> /\ Top.kind = "demand" /\ Top = Last(stack)
  BY DEF CloseOver, Evaluate, UnwindDemand, InDemand, Top
<1>2. Top \in DemandFrames(DOMAIN states) /\ Top.kind # "body"
  BY <1>1, TopFacts
<1>3. Top \in GoodFrames
  BY <1>1, TopAndBelow
<1>4. Closing(Top)
  BY <1>2, <1>3 DEF GoodFrames, FrameInv
<1>5. stack \in Seq(GoodFrames') /\ Front(stack) \in Seq(GoodFrames')
  BY <1>1, KeptGood
<1>6. CASE Evaluate \/ UnwindDemand
  <2>1. stack' \in {stack, Front(stack), Append(SubSeq(stack, 1, Len(stack) - 2), Returned)}
    BY <1>6 DEF Evaluate, UnwindDemand
  <2>2. Front(stack) # <<>> /\ Last(Front(stack)).kind = "body"
    BY <1>1, PopDemand DEF StackInv
  <2>. PICK site : site = Last(Front(stack))
    OBVIOUS
  <2>3. /\ site \in BodyFrames(DOMAIN states)
        /\ Under(program, site, Top)
        /\ Returned = IF Top.how = "type" THEN [site EXCEPT !.at = 1] ELSE Advanced(site)
        /\ Returned \in BodyFrames(DOMAIN states)
        /\ Returned.inst = site.inst /\ Returned.phase = site.phase
        /\ Returned.refs = site.refs
        /\ SubSeq(stack, 1, Len(stack) - 2) = Front(Front(stack))
    BY <1>1, ReturnedFacts
  <2>4. site \in GoodFrames
    <3>1. Front(stack) \in Seq(GoodFrames)
      BY <1>1, TopAndBelow
    <3>. PICK t \in Seq(GoodFrames) : t = Front(stack)
      BY <3>1
    <3>. QED
      BY <2>2, TopAndBelow
  <2>5. Gathered(program, site)
    BY <2>2, <2>4 DEF GoodFrames, FrameInv
  <2>. PICK D, p : D = DOMAIN states /\ p = program
    OBVIOUS
  <2>. PICK f \in BodyFrames(D), r \in BodyFrames(D) : f = site /\ r = Returned
    BY <2>3
  <2>6. r.at = 1 \/ r.at = f.at + 1
    <3>1. [f EXCEPT !.at = 1].at = 1
      BY RestartStep
    <3>2. Advanced(f).at = f.at + 1
      BY BodySteps
    <3>. QED
      BY <2>3, <3>1, <3>2
  <2>7. /\ f.at <= Len(ItemsOf(p, f)) /\ ItemsOf(p, f)[f.at].op = Top.how
        /\ Top.how # "call" /\ Len(ItemsOf(p, f)) \in Nat
    <3>1. Top.how \in {"apply", "type", "drop"} /\ f.inst \in Instances
      BY <1>2, <2>3, FrameFields, KnownInstances DEF StackInv
    <3>2. program.body[f.inst] \in [pass : Seq(PassItem), rest : Seq(RestItem)]
      BY <3>1 DEF StackInv, Typed, ProgramOK
    <3>3. ItemsOf(p, f) \in Seq(PassItem) \cup Seq(RestItem)
      BY <3>2 DEF ItemsOf
    <3>. QED
      BY <2>3, <3>1, <3>3 DEF Under
  <2>8. Gathered(p, r)
    BY <2>3, <2>5, <2>6, <2>7, GatherStep
  <2>9. r \in BodyFrames(DOMAIN states')
    BY FramesMono DEF Grows
  <2>10. r \in GoodFrames'
    BY <2>8, <2>9, GoodBody
  <2>11. Front(Front(stack)) \in Seq(GoodFrames')
    BY <1>1, <2>2, KeptGood
  <2>12. Append(Front(Front(stack)), r) \in Seq(GoodFrames')
    BY <2>10, <2>11, PutGood
  <2>. QED
    BY <1>5, <2>1, <2>3, <2>12
<1>7. CASE CloseOver
  <2>1. Top.todo # <<>> /\ UNCHANGED <<references, fragments>>
    BY <1>7 DEF CloseOver, memo
  <2>. PICK D : D = DOMAIN states
    OBVIOUS
  <2>. PICK f \in DemandFrames(D) : f = Top
    BY <1>2
  <2>2. f.todo \in Seq(D) /\ f.closure \subseteq D
    BY FrameFields
  <2>3. /\ Front(f.todo) \in Seq(D) /\ Last(f.todo) \in D
        /\ Range(f.todo) = Range(Front(f.todo)) \cup {Last(f.todo)}
    BY <2>1, <2>2, FrontFacts
  <2>. PICK m \in D : m = Last(f.todo)
    BY <2>3
  <2>4. ASSUME NEW todo \in Seq(D), m \in f.closure,
               Range(f.todo) \subseteq Range(todo) \cup {m}, UNCHANGED states
        PROVE  Append(Front(stack), [f EXCEPT !.todo = todo]) \in Seq(GoodFrames')
    <3>. PICK g : g = [f EXCEPT !.todo = todo]
      OBVIOUS
    <3>1. /\ g \in DemandFrames(D) /\ g.inst = f.inst /\ g.todo = todo
          /\ g.seen = f.seen /\ g.closure = f.closure
      BY TodoStep
    <3>2. /\ g.seen = g.closure
          /\ g.inst \in DOMAIN fragments' \cup g.closure \cup Range(g.todo)
      BY <1>4, <2>1, <2>4, <3>1 DEF Closing
    <3>3. \A k \in g.closure :
              /\ states'[k] = "Completed"
              /\ Range(references'[k]) \subseteq g.closure \cup Range(g.todo)
      BY <1>4, <2>1, <2>4, <3>1 DEF Closing
    <3>4. g \in GoodFrames'
      BY <2>4, <3>1, <3>2, <3>3, GoodDemand
    <3>. QED
      BY <1>5, <3>4, PutGood
  <2>5. ASSUME NEW todo \in Seq(D), states[m] = "Completed", UNCHANGED states,
               Range(f.todo) \subseteq Range(todo) \cup {m},
               Range(references[m]) \subseteq Range(todo)
        PROVE  Append(Front(stack), Joined(f, todo, m)) \in Seq(GoodFrames')
    <3>. PICK g : g = Joined(f, todo, m)
      OBVIOUS
    <3>1. /\ g \in DemandFrames(D) /\ g.inst = f.inst /\ g.todo = todo
          /\ g.seen = f.seen \cup {m} /\ g.closure = f.closure \cup {m}
      BY ClosureStep
    <3>2. /\ g.seen = g.closure
          /\ g.inst \in DOMAIN fragments' \cup g.closure \cup Range(g.todo)
      BY <1>4, <2>1, <2>5, <3>1 DEF Closing
    <3>3. \A k \in g.closure :
              /\ states'[k] = "Completed"
              /\ Range(references'[k]) \subseteq g.closure \cup Range(g.todo)
      BY <1>4, <2>1, <2>5, <3>1 DEF Closing
    <3>4. g \in GoodFrames'
      BY <2>5, <3>1, <3>2, <3>3, GoodDemand, ZenonT(60)
    <3>. QED
      BY <1>5, <3>4, PutGood
  <2>6. CASE /\ Meets(m) = "Seen"
             /\ stack' = Replaced([Top EXCEPT !.todo = Front(@)])
             /\ UNCHANGED states
    <3>1. m \in f.closure
      <4>1. states[m] \in InstanceState
        BY DEF StackInv, Typed
      <4>2. m \in f.seen
        BY <2>6, <4>1 DEF Meets, InstanceState
      <4>. QED
        BY <1>4, <4>2 DEF Closing
    <3>2. Append(Front(stack), [f EXCEPT !.todo = Front(f.todo)]) \in Seq(GoodFrames')
      <4>. PICK todo \in Seq(D) : todo = Front(f.todo)
        BY <2>3
      <4>. QED
        BY <2>3, <2>4, <2>6, <3>1
    <3>. QED
      BY <2>6, <3>2 DEF Replaced
  <2>7. CASE Meets(m) = "Pending" /\ Begin(m)
    BY <2>7, BeginGood
  <2>8. CASE /\ Meets(m) = "Completed"
             /\ stack' = Replaced([Top EXCEPT !.todo = Front(@) \o references[m],
                                              !.seen = @ \cup {m},
                                              !.closure = @ \cup {m}])
             /\ UNCHANGED states
    <3>1. references[m] \in Seq(D)
      BY KnownInstances DEF StackInv, Typed
    <3>2. /\ Front(f.todo) \o references[m] \in Seq(D)
          /\ Range(Front(f.todo) \o references[m]) = Range(Front(f.todo)) \cup Range(references[m])
      BY <2>3, <3>1, ConcatFacts
    <3>3. states[m] = "Completed"
      BY <2>8 DEF Meets
    <3>4. Append(Front(stack), Joined(f, Front(f.todo) \o references[m], m)) \in Seq(GoodFrames')
      BY <2>3, <2>5, <2>8, <3>2, <3>3
    <3>. QED
      BY <2>8, <3>4 DEF Replaced, Joined
  <2>9. CASE stack' = stack
    BY <1>5, <2>9
  <2>. QED
    BY <1>7, <2>6, <2>7, <2>8, <2>9 DEF CloseOver
<1>. QED
  BY <1>6, <1>7

\* The frames stay good.
LEMMA StackGood ==
    ASSUME StackInv, WorkInv, ClosureInv, Next
    PROVE  stack' \in Seq(GoodFrames')
<1>1. Grows
  BY StepGrows
<1>2. stack \in Seq(GoodFrames)
  BY DEF ClosureInv
<1>3. stack \in Seq(GoodFrames') /\ (stack # <<>> => Front(stack) \in Seq(GoodFrames'))
  BY <1>1, <1>2, KeptGood
<1>4. CASE DrainTakes
  <2>1. Head(queue) \in DOMAIN states /\ Begin(Head(queue))
    BY <1>4, TailFacts DEF DrainTakes, StackInv, Typed
  <2>. QED
    BY <1>1, <1>2, <2>1, BeginGood
<1>5. CASE DrainSkips \/ Drained \/ Fail \/ BodyFails \/ MakeFragment
  BY <1>3, <1>5 DEF DrainSkips, Drained, Fail, BodyFails, MakeFragment
<1>6. CASE Complete \/ UnwindBody
  BY <1>3, <1>6 DEF Complete, UnwindBody, AtEnd, InBody, End
<1>7. CASE Call \/ Unroll \/ Fold \/ Settle
  BY <1>1, <1>2, <1>7, BodyGood
<1>8. CASE Apply
  BY <1>1, <1>2, <1>8, ApplyGood
<1>9. CASE CloseOver \/ Evaluate \/ UnwindDemand
  BY <1>1, <1>2, <1>9, DemandGood
<1>. QED
  BY <1>4, <1>5, <1>6, <1>7, <1>8, <1>9 DEF Next

\* A body that ends has gathered every call.
LEMMA CompleteCalls ==
    ASSUME StackInv, ClosureInv, Complete
    PROVE  Called(Top.inst) \subseteq Range(Top.refs)
<1>1. stack # <<>> /\ Top.kind = "body" /\ Top.phase = "rest" /\ Top.at > Len(Items(Top))
  BY DEF Complete, AtEnd, InBody
<1>2. /\ Gathered(program, Top) /\ ItemsOf(program, Top) = Items(Top)
      /\ Len(Items(Top)) \in Nat /\ Top.at \in Nat \ {0}
  BY <1>1, TopGathered DEF ClosureInv
<1>3. Items(Top) = program.body[Top.inst].rest
  BY <1>1 DEF Items
<1>4. Items(Top) \in Seq(RestItem)
  <2>1. Top.inst \in Instances
    BY <1>1, TopFacts, FrameFields, KnownInstances DEF StackInv
  <2>2. program.body[Top.inst] \in [pass : Seq(PassItem), rest : Seq(RestItem)]
    BY <2>1 DEF StackInv, Typed, ProgramOK
  <2>. QED
    BY <1>3, <2>2
<1>5. DOMAIN Items(Top) = 1..Len(Items(Top))
  BY <1>4
<1>6. ASSUME NEW j \in 1..Len(Items(Top)), Items(Top)[j].op = "call"
      PROVE  Items(Top)[j].to \in Range(Top.refs)
  <2>1. j < Top.at
    BY <1>1, <1>2
  <2>. QED
    BY <1>1, <1>2, <1>6, <2>1 DEF Gathered
<1>. QED
  BY <1>3, <1>5, <1>6 DEF Called, Targets

\* No step but that end completes an instance.
LEMMA CompletedOnly ==
    ASSUME StackInv, WorkInv, Next, ~Complete,
           NEW m \in DOMAIN states', states'[m] = "Completed"
    PROVE  m \in DOMAIN states /\ states[m] = "Completed"
<1>1. CASE UNCHANGED states
  BY <1>1
<1>2. ASSUME NEW n \in Instances, WithinBudget(n), Enqueue(n)
      PROVE  m \in DOMAIN states /\ states[m] = "Completed"
  <2>1. /\ \A k \in DOMAIN states : states'[k] = states[k]
        /\ \A k \in DOMAIN states' : k \notin DOMAIN states => states'[k] = "Pending"
    BY <1>2, EnqueueFacts DEF StackInv
  <2>. QED
    BY <2>1
<1>3. ASSUME NEW n, Begin(n)
      PROVE  m \in DOMAIN states /\ states[m] = "Completed"
  BY <1>3 DEF Begin
<1>4. CASE UnwindBody
  BY <1>4 DEF UnwindBody, End
<1>5. CASE Call
  <2>1. stack # <<>> /\ Top.kind = "body" /\ Top.at <= Len(Items(Top))
    BY <1>5 DEF Call, AtItem, InBody
  <2>2. Top \in BodyFrames(DOMAIN states)
    BY <2>1, TopFacts
  <2>. PICK f \in BodyFrames(DOMAIN states) : f = Top
    BY <2>2
  <2>3. f.at <= Len(Items(f)) /\ Items(f)[f.at].op = "call" /\ Item = Items(f)[f.at]
    BY <1>5, <2>1 DEF Call, Item
  <2>4. Item.to \in Instances
    BY <2>3, ItemFacts DEF StackInv
  <2>5. UNCHANGED states \/ (WithinBudget(Item.to) /\ Enqueue(Item.to))
    BY <1>5 DEF Call, demand
  <2>. QED
    BY <1>1, <1>2, <2>4, <2>5
<1>6. CASE Apply
  <2>1. Item.to \in Instances
    BY <1>6, ApplySite DEF Apply
  <2>2. UNCHANGED states \/ (WithinBudget(Item.to) /\ Enqueue(Item.to))
    BY <1>6 DEF Apply, demand
  <2>. QED
    BY <1>1, <1>2, <2>1, <2>2
<1>7. CASE DrainTakes \/ CloseOver
  BY <1>1, <1>3, <1>7 DEF DrainTakes, CloseOver
<1>8. CASE \/ DrainSkips \/ Drained \/ Fail \/ Unroll \/ Fold \/ Settle \/ BodyFails \/ Evaluate
           \/ UnwindDemand \/ MakeFragment
  <2>1. UNCHANGED states
    BY <1>8 DEF DrainSkips, Drained, Fail, Unroll, Fold, Settle, BodyFails, Evaluate,
                UnwindDemand, MakeFragment, demand
  <2>. QED
    BY <1>1, <2>1
<1>. QED
  BY <1>4, <1>5, <1>6, <1>7, <1>8 DEF Next

\* Every step keeps closures and fragments closed.
LEMMA ClosureKept == StackInv /\ WorkInv /\ ClosureInv /\ [Next]_vars => ClosureInv'
<1>. SUFFICES ASSUME StackInv, WorkInv, ClosureInv, [Next]_vars PROVE ClosureInv'
  OBVIOUS
<1>1. CASE UNCHANGED vars
  <2>1. UNCHANGED <<program, states, references, stack, fragments>>
    BY <1>1 DEF vars
  <2>2. GoodFrames' = GoodFrames
    BY <2>1 DEF GoodFrames, FrameInv, Closing
  <2>. QED
    BY <2>1, <2>2 DEF ClosureInv, CallsReferenced, FragmentsKnown, FragmentClosed, Called
<1>2. CASE Next
  <2>1. Grows
    BY <1>2, StepGrows
  <2>2. stack' \in Seq(GoodFrames')
    BY <1>2, StackGood
  <2>3. CallsReferenced'
    <3>. SUFFICES ASSUME NEW m \in DOMAIN states', states'[m] = "Completed"
                  PROVE  Called(m)' \subseteq Range(references'[m])
      BY DEF CallsReferenced
    <3>0. Called(m)' = Called(m)
      BY <2>1 DEF Called, Grows
    <3>1. CASE m \in DOMAIN states /\ states[m] = "Completed"
      BY <2>1, <3>0, <3>1 DEF ClosureInv, CallsReferenced, Grows
    <3>2. CASE Complete /\ m = Top.inst
      <4>1. Called(Top.inst) \subseteq Range(Top.refs)
        BY <3>2, CompleteCalls
      <4>2. stack # <<>> /\ Top.kind = "body"
        BY <3>2 DEF Complete, AtEnd, InBody
      <4>3. Top.inst \in Instances /\ references \in [Instances -> Seq(DOMAIN states)]
        BY <4>2, TopFacts, FrameFields, KnownInstances DEF StackInv, Typed
      <4>4. references'[m] = Top.refs
        BY <3>2, <4>3 DEF Complete, End
      <4>. QED
        BY <3>0, <3>2, <4>1, <4>4
    <3>3. CASE Complete /\ m # Top.inst
      BY <3>1, <3>3 DEF Complete, End
    <3>. QED
      BY <1>2, <3>1, <3>2, <3>3, CompletedOnly
  <2>4. ASSUME NEW n \in DOMAIN fragments, fragments'[n] = fragments[n]
        PROVE  /\ fragments'[n] \subseteq DOMAIN states' /\ n \in fragments'[n]
               /\ \A m \in fragments'[n] : /\ states'[m] = "Completed"
                                           /\ Called(m)' \subseteq fragments'[n]
    <3>1. \A m : Called(m)' = Called(m)
      BY <2>1 DEF Called, Grows
    <3>. QED
      BY <2>1, <2>4, <3>1 DEF ClosureInv, FragmentsKnown, FragmentClosed, Grows
  <2>5. FragmentsKnown' /\ FragmentClosed'
    <3>1. CASE UNCHANGED fragments
      BY <2>4, <3>1 DEF FragmentsKnown, FragmentClosed
    <3>2. CASE MakeFragment /\ fragments' = [n \in DOMAIN fragments \cup {Top.inst} |->
                                    IF n = Top.inst THEN Top.closure ELSE fragments[n]]
      <4>1. /\ stack # <<>> /\ Top.kind = "demand" /\ Top.todo = <<>>
            /\ Top.inst \notin DOMAIN fragments /\ UNCHANGED <<states, program>>
        BY <3>2 DEF MakeFragment, InDemand, demand
      <4>2. Top \in GoodFrames /\ Top \in DemandFrames(DOMAIN states) /\ Top.kind # "body"
        BY <4>1, TopFacts, TopAndBelow DEF ClosureInv
      <4>3. Closing(Top)
        BY <4>2 DEF GoodFrames, FrameInv
      <4>4. Range(Top.todo) = {}
        BY <4>1 DEF Range
      <4>5. Top.closure \subseteq DOMAIN states
        BY <4>2, FrameFields
      <4>6. Top.inst \in Top.closure
        BY <4>1, <4>3, <4>4 DEF Closing
      <4>7. ASSUME NEW m \in Top.closure
            PROVE  states[m] = "Completed" /\ Called(m) \subseteq Top.closure
        <5>1. states[m] = "Completed" /\ Range(references[m]) \subseteq Top.closure
          BY <4>3, <4>4 DEF Closing
        <5>. QED
          BY <4>5, <5>1 DEF ClosureInv, CallsReferenced
      <4>8. \A m : Called(m)' = Called(m)
        BY <4>1 DEF Called
      <4>9. /\ DOMAIN fragments' = DOMAIN fragments \cup {Top.inst}
            /\ fragments'[Top.inst] = Top.closure
            /\ \A n \in DOMAIN fragments : fragments'[n] = fragments[n]
        BY <3>2, <4>1
      <4>10. FragmentsKnown'
        BY <2>4, <4>1, <4>5, <4>9 DEF FragmentsKnown
      <4>11. FragmentClosed'
        BY <2>4, <4>1, <4>6, <4>7, <4>8, <4>9 DEF FragmentClosed
      <4>. QED
        BY <4>10, <4>11
    <3>. QED
      BY <1>2, <3>1, <3>2 DEF Next, DrainTakes, DrainSkips, Drained, Call, Unroll, Apply, Fold,
         Settle, BodyFails, Complete, CloseOver, MakeFragment, Evaluate, UnwindBody,
         UnwindDemand, Fail, memo
  <2>. QED
    BY <2>2, <2>3, <2>5 DEF ClosureInv
<1>. QED
  BY <1>1, <1>2

\* Initially there is nothing to close.
LEMMA ClosureInit == Init => ClosureInv
<1>. SUFFICES ASSUME Init PROVE ClosureInv
  OBVIOUS
<1>1. stack \in Seq(GoodFrames)
  BY DEF Init
<1>2. DOMAIN states = {Entry} /\ states[Entry] = "Pending"
  BY DEF Init
<1>3. CallsReferenced
  BY <1>2 DEF CallsReferenced
<1>4. DOMAIN fragments = {}
  BY DEF Init
<1>. QED
  BY <1>1, <1>3, <1>4 DEF ClosureInv, FragmentsKnown, FragmentClosed

-----------------------------------------------------------------------------
(* The fuel invariant. *)

\* Where no body drops an error, no demand under way does.
LEMMA NoDropUnderWay ==
    ASSUME StackInv, DropsNothing, stack # <<>>, Top.kind = "demand"
    PROVE  Top.how # "drop"
<1>. SUFFICES ASSUME Top.how = "drop" PROVE FALSE
  OBVIOUS
<1>. PICK site : site = Last(Front(stack))
  OBVIOUS
<1>1. site \in BodyFrames(DOMAIN states) /\ Under(program, site, Top)
  BY ReturnedFacts
<1>2. /\ site.inst \in Instances /\ site.at \in Nat \ {0} /\ site.phase \in {"pass", "rest"}
  BY <1>1, FrameFields, KnownInstances DEF StackInv
<1>3. program.body[site.inst] \in [pass : Seq(PassItem), rest : Seq(RestItem)]
  BY <1>2 DEF StackInv, Typed, ProgramOK
<1>. PICK s : s = ItemsOf(program, site)
  OBVIOUS
<1>4. /\ s \in Seq(PassItem) \cup Seq(RestItem)
      /\ s \in {program.body[site.inst].pass, program.body[site.inst].rest}
  BY <1>3 DEF ItemsOf
<1>5. site.at \in DOMAIN s /\ s[site.at].op = "drop"
  BY <1>1, <1>2, <1>4 DEF Under
<1>6. s[site.at].to \in Targets(s, {"drop"})
  BY <1>5 DEF Targets
<1>7. Targets(s, {"drop"}) = {}
  BY <1>2, <1>4 DEF DropsNothing
<1>. QED
  BY <1>6, <1>7

\* The program is an input.
LEMMA StepProgram == Next => UNCHANGED program
BY DEF Next, DrainTakes, DrainSkips, Drained, Call, Unroll, Apply, Fold, Settle, BodyFails,
       Complete, CloseOver, MakeFragment, Evaluate, UnwindBody, UnwindDemand, Fail

\* Every step keeps the account.
LEMMA FuelStep == StackInv /\ FuelInv /\ [Next]_vars => FuelInv'
<1>. SUFFICES ASSUME StackInv, FuelInv, [Next]_vars PROVE FuelInv'
  OBVIOUS
<1>1. fuel \in Nat /\ spent \in Nat /\ CTFE_FUEL \in Nat /\ Steps \subseteq Nat
  BY BoundsAssumption DEF StackInv, Typed
<1>2. CASE UNCHANGED vars
  BY <1>2 DEF vars, FuelInv, DropsNothing
<1>3. CASE Next
  <2>1. UNCHANGED program
    BY <1>3, StepProgram
  <2>2. DropsNothing' = DropsNothing
    BY <2>1 DEF DropsNothing
  <2>. SUFFICES ASSUME DropsNothing
                PROVE  /\ spent' <= CTFE_FUEL
                       /\ raised' = "none" => spent' + fuel' = CTFE_FUEL
    BY <2>2 DEF FuelInv
  <2>3. spent <= CTFE_FUEL /\ (raised = "none" => spent + fuel = CTFE_FUEL)
    BY DEF FuelInv
  <2>4. CASE UNCHANGED <<fuel, spent>> /\ (raised' = "none" => raised = "none")
    BY <2>3, <2>4
  <2>5. CASE Unroll
    BY <1>1, <2>3, <2>5 DEF Unroll, AtItem, InBody, Running
  <2>6. CASE Evaluate
    <3>1. raised = "none"
      BY <2>6 DEF Evaluate, InDemand, Running
    <3>2. CASE raised' = "fuel" /\ UNCHANGED meter
      BY <2>3, <3>2 DEF meter
    <3>3. CASE \E steps \in Steps :
                 /\ fuel > 0 /\ steps > fuel - 1
                 /\ spent' = spent + fuel /\ raised' = "fuel"
      BY <1>1, <2>3, <3>1, <3>3
    <3>4. CASE \E steps \in Steps :
                 /\ fuel > 0 /\ steps <= fuel - 1
                 /\ spent' = spent + 1 + steps /\ raised' = "error"
      BY <1>1, <2>3, <3>1, <3>4
    <3>5. CASE \E steps \in Steps :
                 /\ fuel > 0 /\ steps <= fuel - 1 /\ fuel' = Remaining(steps)
                 /\ spent' = spent + 1 + steps
      BY <1>1, <2>3, <3>1, <3>5 DEF Remaining
    <3>. QED
      BY <2>6, <3>2, <3>3, <3>4, <3>5 DEF Evaluate
  <2>7. CASE UnwindDemand
    <3>1. Top.how # "drop"
      BY <2>7, NoDropUnderWay DEF UnwindDemand
    <3>. QED
      BY <2>4, <2>7, <3>1 DEF UnwindDemand, meter
  <2>8. CASE Apply
    BY <2>4, <2>8 DEF Apply, Refuse, Applying, AtItem, InBody, Running, meter
  <2>9. CASE \/ DrainTakes \/ DrainSkips \/ Drained \/ Call \/ Fold \/ Settle \/ BodyFails
             \/ Complete \/ CloseOver \/ MakeFragment \/ UnwindBody \/ Fail
    <3>1. UNCHANGED <<fuel, spent>>
      BY <2>9 DEF DrainTakes, DrainSkips, Drained, Call, Fold, Settle, BodyFails, Complete,
                  CloseOver, MakeFragment, UnwindBody, Fail, meter
    <3>2. raised' = "none" => raised = "none"
      BY <2>9 DEF DrainTakes, DrainSkips, Drained, Call, Fold, Settle, BodyFails, Complete,
                  CloseOver, MakeFragment, UnwindBody, Fail
    <3>. QED
      BY <2>4, <3>1, <3>2
  <2>. QED
    BY <1>3, <2>5, <2>6, <2>7, <2>8, <2>9 DEF Next
<1>. QED
  BY <1>2, <1>3

-----------------------------------------------------------------------------
(* The theorems. *)

ElabInv == StackInv /\ WorkInv /\ ClosureInv /\ FuelInv

\* The inductive invariant of the elaborator: who lies on whom on the stack of
\* materializations, the states in step with it, the calls gathered, the
\* closures on their way and the account of the fuel, at every step of every
\* elaboration.
THEOREM SpecializerInvariant == Spec => []ElabInv
<1>1. Init => ElabInv
  <2>1. Init => FuelInv
    BY BoundsAssumption DEF Init, FuelInv
  <2>. QED
    BY <2>1, StackInit, WorkInit, ClosureInit DEF ElabInv
<1>2. ElabInv /\ [Next]_vars => ElabInv'
  BY StackStep, WorkStep, ClosureKept, FuelStep DEF ElabInv
<1>. QED
  BY <1>1, <1>2, PTL DEF Spec

\* Every variable keeps its type, and a frame's position stays in its items.
THEOREM SpecializerTypeCorrect == Spec => []TypeOK
<1>1. ElabInv => TypeOK
  <2>. SUFFICES ASSUME ElabInv PROVE TypeOK
    OBVIOUS
  <2>1. Typed /\ stack \in Seq(GoodFrames) /\ StackInv
    BY DEF ElabInv, StackInv, ClosureInv
  <2>2. ASSUME NEW i \in DOMAIN stack PROVE FrameOK(stack[i])
    <3>1. stack[i] \in GoodFrames
      BY <2>1
    <3>. PICK f \in GoodFrames : f = stack[i]
      BY <3>1
    <3>2. f \in Frames(DOMAIN states) /\ FrameInv(f)
      BY DEF GoodFrames
    <3>3. CASE f.kind = "body"
      <4>1. f \in BodyFrames(DOMAIN states)
        BY <3>2, <3>3, FrameKinds
      <4>2. /\ f.inst \in DOMAIN states /\ f.phase \in {"pass", "rest"}
            /\ f.at \in Nat \ {0} /\ f.refs \in Seq(DOMAIN states)
        BY <4>1, FrameFields
      <4>3. f.at <= Len(Items(f)) + 1
        BY <3>2, <3>3 DEF FrameInv, Gathered, ItemsOf, Items
      <4>4. Len(Items(f)) \in Nat
        <5>1. program.body[f.inst] \in [pass : Seq(PassItem), rest : Seq(RestItem)]
          BY <2>1, <4>2, KnownInstances DEF Typed, ProgramOK
        <5>2. Items(f) \in Seq(PassItem) \cup Seq(RestItem)
          BY <5>1 DEF Items
        <5>. QED
          BY <5>2
      <4>5. f.at \in 1..Len(Items(f)) + 1
        BY <4>2, <4>3, <4>4
      <4>. QED
        BY <3>3, <4>2, <4>5 DEF FrameOK
    <3>4. CASE f.kind # "body"
      <4>1. f.kind = "demand" /\ f \in DemandFrames(DOMAIN states)
        BY <3>2, <3>4, FrameKinds
      <4>2. /\ f.inst \in DOMAIN states /\ f.how \in {"apply", "type", "drop"}
            /\ f.saved \in Instances \cup {None} /\ f.todo \in Seq(DOMAIN states)
            /\ f.seen \subseteq DOMAIN states /\ f.closure \subseteq DOMAIN states
        BY <4>1, FrameFields
      <4>. QED
        BY <4>1, <4>2 DEF FrameOK
    <3>. QED
      BY <3>3, <3>4
  <2>. QED
    BY <2>1, <2>2 DEF Typed, TypeOK, InstanceState
<1>. QED
  BY <1>1, SpecializerInvariant, PTL

\* The queue, the states and the bodies under way tell one story, and no
\* instance is written twice, for every program and however calls and demands
\* meet.
THEOREM SpecializerWorklistSound == Spec => []WorklistSound
<1>1. ElabInv => WorklistSound
  <2>. SUFFICES ASSUME ElabInv PROVE WorklistSound
    OBVIOUS
  <2>1. WorkInv /\ Typed /\ stack \in Seq(Frames(DOMAIN states))
    BY DEF ElabInv, StackInv, StackOK
  <2>2. DOMAIN stack = 1..Len(stack)
    BY <2>1
  <2>3. \A n : n \in Bodies(stack)
               <=> \E i \in DOMAIN stack : stack[i].kind = "body" /\ stack[i].inst = n
    BY <2>2 DEF Bodies
  <2>4. \A n : n \in Range(queue) <=> \E i \in DOMAIN queue : queue[i] = n
    BY DEF Range
  <2>5. StatesInStep
    BY <2>1, <2>2, <2>3, <2>4 DEF WorkInv, StatesInStep, Once
  <2>6. \A n \in Instances : made[n] <= 1
    BY <2>1 DEF WorkInv
  <2>. QED
    BY <2>5, <2>6 DEF WorklistSound
<1>. QED
  BY <1>1, SpecializerInvariant, PTL

\* While a body is rewritten the scratch state holds its own bindings, however
\* deep the demands nest that were made and unwound in between.
THEOREM SpecializerOwnBindings == Spec => []OwnBindings
<1>1. ElabInv => OwnBindings
  BY DEF ElabInv, StackInv, StackOK, Scratch, OwnBindings, InBody, Top
<1>. QED
  BY <1>1, SpecializerInvariant, PTL

\* No fragment is kept that misses a body its members call.
THEOREM SpecializerFragmentClosed == Spec => []FragmentClosed
<1>1. ElabInv => FragmentClosed
  BY DEF ElabInv, ClosureInv
<1>. QED
  BY <1>1, SpecializerInvariant, PTL

\* Where no error is dropped, one compilation executes no more compile-time
\* steps than its quota.
THEOREM SpecializerFuelBound == Spec => []FuelBound
<1>1. ElabInv => FuelBound
  BY DEF ElabInv, FuelInv, FuelBound
<1>. QED
  BY <1>1, SpecializerInvariant, PTL

-----------------------------------------------------------------------------
(* The verdict.  What an instance names and what it reaches, in a program p. *)

Uses(p, n) == Targets(p.body[n].pass, {"apply", "type"}) \cup Targets(p.body[n].rest, {"apply"})
Edges(p) == [n \in Instances |-> Targets(p.body[n].rest, {"call"}) \cup Uses(p, n)]
From(p, n) == Reached(n, Edges(p))

\* The application m of n is evaluated, and does not lead back to n.
Apart(p, V, n, m) == m \in V /\ n \notin From(p, m)

\* A body refers to what it reaches, and the applications it has passed are
\* evaluated; a closure is made of what its demand reaches.
Sound(p, V, f) ==
    IF f.kind = "body"
    THEN /\ Range(f.refs) \subseteq From(p, f.inst)
         /\ \A j \in 1..Len(ItemsOf(p, f)) :
               (j < f.at /\ ItemsOf(p, f)[j].op \in {"apply", "type"})
               => Apart(p, V, f.inst, ItemsOf(p, f)[j].to)
         /\ f.phase = "rest" =>
               \A m \in Targets(p.body[f.inst].pass, {"apply", "type"}) : Apart(p, V, f.inst, m)
    ELSE Range(f.todo) \subseteq From(p, f.inst)

\* A frame is reached from every one below it, and a demand is for what the
\* item below it applies.
Linked(p, s, f) ==
    /\ \A i \in 1..Len(s) : f.inst \in From(p, s[i].inst)
    /\ f.kind = "demand" => s # <<>> /\ ItemsOf(p, s[Len(s)])[s[Len(s)].at].to = f.inst
Path(p, V, s) ==
    \A j \in 1..Len(s) :
        /\ Sound(p, V, s[j])
        /\ \A i \in 1..(j - 1) : s[j].inst \in From(p, s[i].inst)
        /\ s[j].kind = "demand" => j > 1 /\ ItemsOf(p, s[j - 1])[s[j - 1].at].to = s[j].inst

\* The entry is known, what is known it reaches, and each instance once.
KnownInv ==
    /\ Entry \in DOMAIN states /\ DOMAIN states \subseteq From(program, Entry)
    /\ \A n \in Instances : Range(references[n]) \subseteq From(program, n)

Distinct == \A i, j \in DOMAIN instances : instances[i] = instances[j] => i = j

\* A completed instance elaborates, and its applications are evaluated and do
\* not lead back to it; what is verified is not refused and what is evaluated
\* does not raise.
Elaborated(p, V, n) == p.outcome[n] # "fails" /\ \A m \in Uses(p, n) : Apart(p, V, n, m)
DoneInv ==
    /\ \A n \in DOMAIN states : states[n] = "Completed" => Elaborated(program, evaluations, n)
    /\ \A n \in DOMAIN fragments : program.outcome[n] # "refused"
    /\ \A n \in evaluations : program.outcome[n] # "raises"

\* An error that is under way or has ended the elaboration is the program's,
\* and without one nothing has failed.
ErrorInv ==
    /\ raised = "none" => \A n \in DOMAIN states : states[n] # "Failed"
    /\ raised = "error" \/ result = "error" => Wrong
    /\ result = "ok" => stack = <<>> /\ queue = <<>> /\ raised = "none"

PathInv == Path(program, evaluations, stack)
VerdictInv == Distinct /\ (DropsNothing => PathInv /\ KnownInv /\ DoneInv /\ ErrorInv)

\* An instance reaches itself, what it names, and what those reach.
LEMMA ReachFacts ==
    ASSUME NEW p, NEW n \in Instances
    PROVE  /\ From(p, n) \subseteq Instances /\ n \in From(p, n)
           /\ \A m \in Edges(p)[n] : m \in Instances => m \in From(p, n)
<1>. PICK E : E = Edges(p)
  OBVIOUS
<1>1. From(p, n) = Reached(n, E)
  BY DEF From
<1>2. Reached(n, E) \subseteq Instances /\ n \in Reached(n, E)
  BY DEF Reached
<1>3. ASSUME NEW m \in E[n], m \in Instances PROVE m \in Reached(n, E)
  <2>1. ASSUME NEW S \in SUBSET Instances, n \in S, UNION {E[k] : k \in S} \subseteq S
        PROVE  m \in S
    <3>1. E[n] \in {E[k] : k \in S}
      BY <2>1
    <3>. QED
      BY <2>1, <3>1
  <2>. QED
    BY <1>3, <2>1 DEF Reached
<1>. QED
  BY <1>1, <1>2, <1>3

\* Reaching is transitive.
LEMMA ReachOn ==
    ASSUME NEW p, NEW k, NEW m \in From(p, k)
    PROVE  From(p, m) \subseteq From(p, k)
BY DEF From, Reached

\* What is reached from a closed set is in it.
LEMMA ReachWithin ==
    ASSUME NEW p, NEW S \in SUBSET Instances, NEW n \in S,
           \A k \in S : Edges(p)[k] \subseteq S
    PROVE  From(p, n) \subseteq S
<1>1. UNION {Edges(p)[k] : k \in S} \subseteq S
  OBVIOUS
<1>. QED
  BY <1>1 DEF From, Reached

\* The edges of the program under way.
LEMMA EdgesNow ==
    /\ AllEdges = Edges(program)
    /\ \A n \in Instances : /\ Called(n) = Targets(program.body[n].rest, {"call"})
                            /\ Applied(n) = Uses(program, n)
                            /\ Edges(program)[n] = Called(n) \cup Applied(n)
BY DEF AllEdges, Edges, Uses, Called, Applied

\* Wrong, in the words of this section.
LEMMA WrongNow ==
    Wrong <=>
      \/ \E S \in SUBSET From(program, Entry) : IsFiniteSet(S) /\ Cardinality(S) > INSTANCE_BUDGET
      \/ \E n \in From(program, Entry) :
            \/ program.outcome[n] = "fails"
            \/ \E m \in Uses(program, n) : \/ program.outcome[m] \in {"refused", "raises"}
                                           \/ n \in From(program, m)
<1>1. AllEdges = Edges(program)
  BY EdgesNow
<1>2. \A n : Applied(n) = Uses(program, n)
  BY DEF Applied, Uses
<1>. QED
  BY <1>1, <1>2 DEF Wrong, From

\* A path is a frame put on a path.
LEMMA PathAppend ==
    ASSUME NEW p, NEW V, NEW S, NEW s \in Seq(S), NEW f \in S
    PROVE  Path(p, V, Append(s, f)) <=> Path(p, V, s) /\ Sound(p, V, f) /\ Linked(p, s, f)
<1>. PICK t \in Seq(S) : t = Append(s, f)
  BY AppendFacts
<1>1. /\ Len(t) = Len(s) + 1 /\ Len(s) \in Nat /\ t[Len(s) + 1] = f
      /\ \A i \in 1..Len(s) : t[i] = s[i]
  BY AppendFacts
<1>. DEFINE At(q, j) == /\ Sound(p, V, q[j])
                        /\ \A i \in 1..(j - 1) : q[j].inst \in From(p, q[i].inst)
                        /\ q[j].kind = "demand" =>
                              j > 1 /\ ItemsOf(p, q[j - 1])[q[j - 1].at].to = q[j].inst
<1>2. ASSUME NEW j \in 1..Len(s) PROVE At(t, j) <=> At(s, j)
  <2>1. t[j] = s[j] /\ \A i \in 1..(j - 1) : t[i] = s[i]
    BY <1>1
  <2>2. j > 1 => j - 1 \in 1..(j - 1)
    OBVIOUS
  <2>. QED
    BY <2>1, <2>2
<1>3. At(t, Len(s) + 1) <=> Sound(p, V, f) /\ Linked(p, s, f)
  <2>1. (Len(s) + 1) - 1 = Len(s) /\ (Len(s) + 1 > 1 <=> s # <<>>)
    BY <1>1
  <2>2. s # <<>> => t[Len(s)] = s[Len(s)]
    BY <1>1
  <2>. QED
    BY <1>1, <2>1, <2>2 DEF Linked
<1>4. /\ Path(p, V, t) <=> \A j \in 1..(Len(s) + 1) : At(t, j)
      /\ Path(p, V, s) <=> \A j \in 1..Len(s) : At(s, j)
  BY <1>1 DEF Path
<1>. HIDE DEF At
<1>5. 1..(Len(s) + 1) = 1..Len(s) \cup {Len(s) + 1}
  BY <1>1
<1>. QED
  BY <1>2, <1>3, <1>4, <1>5

\* More evaluations leave a path sound.
LEMMA PathMono ==
    ASSUME NEW p, NEW V, NEW W, V \subseteq W
    PROVE  /\ \A f : Sound(p, V, f) => Sound(p, W, f)
           /\ \A s : Path(p, V, s) => Path(p, W, s)
<1>1. \A n, m : Apart(p, V, n, m) => Apart(p, W, n, m)
  BY DEF Apart
<1>2. ASSUME NEW f, Sound(p, V, f) PROVE Sound(p, W, f)
  BY <1>1, <1>2 DEF Sound
<1>3. \A s : Path(p, V, s) => Path(p, W, s)
  BY <1>2 DEF Path
<1>. QED
  BY <1>2, <1>3

\* The top of a path and what is below it.
LEMMA PathOpen ==
    ASSUME NEW p, NEW V, NEW S, NEW s \in Seq(S), s # <<>>, Path(p, V, s)
    PROVE  /\ Path(p, V, Front(s)) /\ Sound(p, V, Last(s)) /\ Linked(p, Front(s), Last(s))
           /\ \A i \in 1..(Len(s) - 1) : Last(s).inst \in From(p, s[i].inst)
<1>1. Front(s) \in Seq(S) /\ Last(s) \in S /\ s = Append(Front(s), Last(s))
  BY TopAndBelow
<1>. PICK t \in Seq(S), f \in S : t = Front(s) /\ f = Last(s)
  BY <1>1
<1>2. Path(p, V, t) /\ Sound(p, V, f) /\ Linked(p, t, f)
  <2>1. Path(p, V, Append(t, f))
    BY <1>1
  <2>. QED
    BY <2>1, PathAppend
<1>3. Len(t) = Len(s) - 1 /\ \A i \in 1..(Len(s) - 1) : t[i] = s[i]
  BY FrontFacts
<1>4. \A i \in 1..(Len(s) - 1) : f.inst \in From(p, s[i].inst)
  BY <1>2, <1>3 DEF Linked
<1>. QED
  BY <1>2, <1>4

\* The top goes on as a frame of the same instance.
LEMMA PathReplace ==
    ASSUME NEW p, NEW V, NEW S, NEW s \in Seq(S), s # <<>>, Path(p, V, s),
           NEW g \in S, g.kind = Last(s).kind, g.inst = Last(s).inst, Sound(p, V, g)
    PROVE  Path(p, V, Append(Front(s), g))
<1>1. Front(s) \in Seq(S) /\ Path(p, V, Front(s)) /\ Linked(p, Front(s), Last(s))
  BY TopAndBelow, PathOpen
<1>2. Linked(p, Front(s), g)
  BY <1>1 DEF Linked
<1>. PICK t \in Seq(S) : t = Front(s)
  BY <1>1
<1>. QED
  BY <1>1, <1>2, PathAppend

\* A frame for what the top reaches is put on a path.
LEMMA PathPush ==
    ASSUME NEW p, NEW V, NEW S, NEW s \in Seq(S), s # <<>>, Path(p, V, s),
           NEW g \in S, g.inst \in From(p, Last(s).inst), Sound(p, V, g),
           Last(s).inst \in Instances,
           g.kind = "demand" => ItemsOf(p, Last(s))[Last(s).at].to = g.inst
    PROVE  Path(p, V, Append(s, g))
<1>1. Len(s) \in Nat \ {0} /\ Last(s) = s[Len(s)]
  BY FrontFacts
<1>2. ASSUME NEW i \in 1..Len(s) PROVE g.inst \in From(p, s[i].inst)
  <2>1. CASE i = Len(s)
    BY <1>1, <2>1
  <2>2. CASE i # Len(s)
    <3>1. i \in 1..(Len(s) - 1)
      BY <1>1, <2>2
    <3>2. Last(s).inst \in From(p, s[i].inst)
      BY <3>1, PathOpen
    <3>. PICK m \in From(p, s[i].inst) : m = Last(s).inst
      BY <3>2
    <3>. QED
      BY ReachOn
  <2>. QED
    BY <2>1, <2>2
<1>3. Linked(p, s, g)
  BY <1>1, <1>2 DEF Linked
<1>. QED
  BY <1>3, PathAppend

\* What the item of a body names, where no error is dropped.
LEMMA SoundItem ==
    ASSUME Typed, DropsNothing, NEW f \in BodyFrames(DOMAIN states), f.at <= Len(Items(f))
    PROVE  LET i == Items(f)[f.at]
           IN /\ i.op # "drop"
              /\ i.op = "call" => i.to \in Called(f.inst)
              /\ i.op \in {"apply", "type"} => i.to \in Uses(program, f.inst)
              /\ i.op \in {"call", "apply", "type"} =>
                    /\ i.to \in Instances /\ i.to \in Edges(program)[f.inst]
                    /\ i.to \in From(program, f.inst)
<1>. PICK i : i = Items(f)[f.at]
  OBVIOUS
<1>1. f.inst \in Instances /\ f.phase \in {"pass", "rest"} /\ f.at \in Nat \ {0}
  BY FrameFields, KnownInstances
<1>2. program.body[f.inst] \in [pass : Seq(PassItem), rest : Seq(RestItem)]
  BY <1>1 DEF Typed, ProgramOK
<1>3. /\ i.op \in {"call", "apply", "type", "drop", "unroll"}
      /\ i.op # "unroll" => i.to \in Instances
      /\ f.phase = "rest" => i.op \notin {"type", "unroll"}
      /\ f.phase = "pass" => i.op # "call"
  BY ItemFacts
<1>. PICK ps \in Seq(PassItem), rs \in Seq(RestItem) :
       ps = program.body[f.inst].pass /\ rs = program.body[f.inst].rest
  BY <1>2
<1>4. Targets(ps, {"drop"}) = {} /\ Targets(rs, {"drop"}) = {}
  BY <1>1 DEF DropsNothing
<1>5. /\ i.op # "drop"
      /\ i.op = "call" => i.to \in Called(f.inst)
      /\ i.op \in {"apply", "type"} => i.to \in Uses(program, f.inst)
  <2>1. CASE f.phase = "pass"
    <3>1. f.at \in DOMAIN ps /\ i = ps[f.at]
      BY <1>1, <2>1 DEF Items
    <3>2. \A ops : i.op \in ops => i.to \in Targets(ps, ops)
      BY <3>1 DEF Targets
    <3>3. i.op # "drop" /\ (i.op \in {"apply", "type"} => i.to \in Targets(ps, {"apply", "type"}))
      BY <1>4, <3>2
    <3>. QED
      BY <1>3, <2>1, <3>3 DEF Uses
  <2>2. CASE f.phase = "rest"
    <3>1. f.at \in DOMAIN rs /\ i = rs[f.at]
      BY <1>1, <2>2 DEF Items
    <3>2. \A ops : i.op \in ops => i.to \in Targets(rs, ops)
      BY <3>1 DEF Targets
    <3>3. /\ i.op # "drop"
          /\ i.op = "call" => i.to \in Targets(rs, {"call"})
          /\ i.op = "apply" => i.to \in Targets(rs, {"apply"})
      BY <1>4, <3>2
    <3>. QED
      BY <1>3, <2>2, <3>3 DEF Uses, Called
  <2>. QED
    BY <1>1, <2>1, <2>2
<1>6. Edges(program)[f.inst] = Called(f.inst) \cup Uses(program, f.inst)
  BY <1>1 DEF Edges, Called
<1>7. i.op \in {"call", "apply", "type"} =>
         i.to \in Instances /\ i.to \in Edges(program)[f.inst]
  BY <1>3, <1>5, <1>6
<1>8. \A m \in Edges(program)[f.inst] : m \in Instances => m \in From(program, f.inst)
  BY <1>1, ReachFacts
<1>. QED
  BY <1>5, <1>7, <1>8

\* A body that goes on from an item that is no application, or from one that
\* is evaluated and does not lead back to it.
LEMMA SoundStep ==
    ASSUME NEW p, NEW V, NEW D, NEW f \in BodyFrames(D), Sound(p, V, f),
           f.at <= Len(ItemsOf(p, f)), Len(ItemsOf(p, f)) \in Nat,
           NEW g \in BodyFrames(D), g.inst = f.inst, g.phase = f.phase,
           Range(g.refs) \subseteq From(p, f.inst),
           \/ g.at \in {1, f.at}
           \/ /\ g.at = f.at + 1
              /\ ItemsOf(p, f)[f.at].op \in {"apply", "type"} =>
                    Apart(p, V, f.inst, ItemsOf(p, f)[f.at].to)
    PROVE  Sound(p, V, g)
<1>1. f.kind = "body" /\ g.kind = "body" /\ f.at \in Nat \ {0} /\ g.at \in Nat \ {0}
  BY FrameFields
<1>2. ItemsOf(p, g) = ItemsOf(p, f)
  BY DEF ItemsOf
<1>3. ASSUME NEW j \in 1..Len(ItemsOf(p, f)), j < g.at,
             ItemsOf(p, f)[j].op \in {"apply", "type"}
      PROVE  Apart(p, V, f.inst, ItemsOf(p, f)[j].to)
  <2>1. CASE j = f.at
    BY <1>1, <1>3, <2>1
  <2>2. CASE j # f.at
    <3>1. j < f.at
      BY <1>1, <1>3, <2>2
    <3>. QED
      BY <1>1, <1>3, <3>1 DEF Sound
  <2>. QED
    BY <2>1, <2>2
<1>4. f.phase = "rest" =>
          \A m \in Targets(p.body[f.inst].pass, {"apply", "type"}) : Apart(p, V, f.inst, m)
  BY <1>1 DEF Sound
<1>. QED
  BY <1>1, <1>2, <1>3, <1>4 DEF Sound

\* A body that notes what it reaches, and then stays, starts again or goes on.
LEMMA NotedSound ==
    ASSUME NEW p, NEW V, NEW D, NEW f \in BodyFrames(D), Sound(p, V, f),
           f.at <= Len(ItemsOf(p, f)), Len(ItemsOf(p, f)) \in Nat,
           NEW n \in D, n \in From(p, f.inst)
    PROVE  /\ Noted(f, n) \in BodyFrames(D) /\ Sound(p, V, Noted(f, n))
           /\ Noted(f, n).inst = f.inst /\ Noted(f, n).phase = f.phase
           /\ Noted(f, n).at = f.at
           /\ [Noted(f, n) EXCEPT !.at = 1] \in BodyFrames(D)
           /\ [Noted(f, n) EXCEPT !.at = 1].inst = f.inst
           /\ Sound(p, V, [Noted(f, n) EXCEPT !.at = 1])
           /\ Advanced(Noted(f, n)) \in BodyFrames(D) /\ Advanced(Noted(f, n)).inst = f.inst
           /\ (ItemsOf(p, f)[f.at].op \in {"apply", "type"} =>
                  Apart(p, V, f.inst, ItemsOf(p, f)[f.at].to))
              => Sound(p, V, Advanced(Noted(f, n)))
<1>1. LET g == Noted(f, n)
      IN /\ g \in BodyFrames(D) /\ g.inst = f.inst /\ g.phase = f.phase /\ g.at = f.at
         /\ Range(g.refs) = Range(f.refs) \cup {n}
  BY NotedStep
<1>2. LET g == [Noted(f, n) EXCEPT !.at = 1]
      IN /\ g \in BodyFrames(D) /\ g.inst = f.inst /\ g.phase = f.phase /\ g.at = 1
         /\ Range(g.refs) = Range(f.refs) \cup {n}
  BY NotedRestart
<1>. PICK site \in BodyFrames(D) : site = Noted(f, n)
  BY <1>1
<1>3. LET g == Advanced(site)
      IN /\ g \in BodyFrames(D) /\ g.inst = f.inst /\ g.phase = f.phase /\ g.at = f.at + 1
         /\ Range(g.refs) = Range(f.refs) \cup {n}
  BY <1>1, BodySteps
<1>4. Range(f.refs) \cup {n} \subseteq From(p, f.inst)
  BY FrameFields DEF Sound
<1>5. Sound(p, V, site)
  BY <1>1, <1>4, SoundStep
<1>6. Sound(p, V, [Noted(f, n) EXCEPT !.at = 1])
  <2>. PICK g \in BodyFrames(D) : g = [Noted(f, n) EXCEPT !.at = 1]
    BY <1>2
  <2>. QED
    BY <1>2, <1>4, SoundStep
<1>7. ASSUME ItemsOf(p, f)[f.at].op \in {"apply", "type"} =>
                Apart(p, V, f.inst, ItemsOf(p, f)[f.at].to)
      PROVE  Sound(p, V, Advanced(site))
  <2>. PICK g \in BodyFrames(D) : g = Advanced(site)
    BY <1>3
  <2>. QED
    BY <1>3, <1>4, <1>7, SoundStep
<1>. QED
  BY <1>1, <1>2, <1>3, <1>5, <1>6, <1>7

\* A body whose pass is over has passed all its applications of the pass.
LEMMA SoundSettle ==
    ASSUME NEW p, NEW V, NEW D, NEW f \in BodyFrames(D), Sound(p, V, f),
           f.at > Len(ItemsOf(p, f)), f.phase = "pass", p.body[f.inst].pass \in Seq(PassItem),
           NEW g \in BodyFrames(D), g.inst = f.inst, g.at = 1, g.refs = f.refs
    PROVE  Sound(p, V, g)
<1>1. f.kind = "body" /\ g.kind = "body" /\ f.at \in Nat \ {0}
  BY FrameFields
<1>. PICK ps \in Seq(PassItem) : ps = p.body[f.inst].pass
  OBVIOUS
<1>2. ItemsOf(p, f) = ps /\ DOMAIN ps = 1..Len(ps) /\ Len(ps) \in Nat
  BY DEF ItemsOf
<1>3. \A j \in DOMAIN ps : ps[j].op \in {"apply", "type"} => Apart(p, V, f.inst, ps[j].to)
  BY <1>1, <1>2 DEF Sound
<1>4. \A m \in Targets(ps, {"apply", "type"}) : Apart(p, V, f.inst, m)
  BY <1>3 DEF Targets
<1>5. Range(g.refs) \subseteq From(p, g.inst)
  BY <1>1 DEF Sound
<1>6. \A j \in 1..Len(ItemsOf(p, g)) : ~(j < g.at)
  OBVIOUS
<1>. QED
  BY <1>1, <1>4, <1>5, <1>6 DEF Sound

\* A body at its end has passed all its applications.
LEMMA SoundEnd ==
    ASSUME NEW p, NEW V, NEW D, NEW f \in BodyFrames(D), Sound(p, V, f),
           f.at > Len(ItemsOf(p, f)), f.phase = "rest", p.body[f.inst].rest \in Seq(RestItem)
    PROVE  \A m \in Uses(p, f.inst) : Apart(p, V, f.inst, m)
<1>1. f.kind = "body" /\ f.at \in Nat \ {0}
  BY FrameFields
<1>. PICK rs \in Seq(RestItem) : rs = p.body[f.inst].rest
  OBVIOUS
<1>2. ItemsOf(p, f) = rs /\ DOMAIN rs = 1..Len(rs) /\ Len(rs) \in Nat
  BY DEF ItemsOf
<1>3. \A j \in DOMAIN rs : rs[j].op \in {"apply", "type"} => Apart(p, V, f.inst, rs[j].to)
  BY <1>1, <1>2 DEF Sound
<1>4. \A m \in Targets(rs, {"apply"}) : Apart(p, V, f.inst, m)
  BY <1>3 DEF Targets
<1>5. \A m \in Targets(p.body[f.inst].pass, {"apply", "type"}) : Apart(p, V, f.inst, m)
  BY <1>1 DEF Sound
<1>. QED
  BY <1>4, <1>5 DEF Uses

\* What a fragment was made for is apart from what is under way: the fragments
\* are completed, and with the evaluations of their members closed.
LEMMA EvaluatedApart ==
    ASSUME StackInv, WorkInv, ClosureInv, DoneInv,
           NEW m \in DOMAIN fragments, NEW n \in DOMAIN states, states[n] = "Active"
    PROVE  n \notin From(program, m)
<1>. PICK F : F = UNION {fragments[k] : k \in DOMAIN fragments}
  OBVIOUS
<1>1. F \subseteq DOMAIN states /\ F \subseteq Instances
  BY KnownInstances DEF ClosureInv, FragmentsKnown, StackInv
<1>2. ASSUME NEW k \in F PROVE states[k] = "Completed" /\ Edges(program)[k] \subseteq F
  <2>1. PICK h \in DOMAIN fragments : k \in fragments[h]
    OBVIOUS
  <2>2. states[k] = "Completed" /\ Called(k) \subseteq fragments[h] /\ fragments[h] \subseteq F
    BY <2>1 DEF ClosureInv, FragmentClosed
  <2>3. Uses(program, k) \subseteq evaluations
    BY <1>1, <2>2 DEF DoneInv, Elaborated, Apart
  <2>4. evaluations \subseteq F
    BY DEF ClosureInv, FragmentClosed, StackInv, Typed
  <2>5. Edges(program)[k] = Called(k) \cup Uses(program, k)
    BY <1>1 DEF Edges, Called
  <2>. QED
    BY <2>2, <2>3, <2>4, <2>5
<1>3. m \in F
  BY DEF ClosureInv, FragmentClosed
<1>4. From(program, m) \subseteq F
  BY <1>1, <1>2, <1>3, ReachWithin
<1>. QED
  BY <1>2, <1>4

\* A path whose top is a body at an item goes on: the body notes what it
\* reaches, or passes an item that is no application or is evaluated apart.
LEMMA PathNoted ==
    ASSUME NEW p, NEW V, NEW D, NEW s \in Seq(Frames(D)), s # <<>>, Path(p, V, s),
           NEW f \in BodyFrames(D), f = Last(s),
           f.at <= Len(ItemsOf(p, f)), Len(ItemsOf(p, f)) \in Nat,
           NEW n \in D, n \in From(p, f.inst)
    PROVE  /\ Path(p, V, Append(Front(s), Noted(f, n)))
           /\ Path(p, V, Append(Front(s), [Noted(f, n) EXCEPT !.at = 1]))
           /\ (ItemsOf(p, f)[f.at].op \in {"apply", "type"} =>
                 Apart(p, V, f.inst, ItemsOf(p, f)[f.at].to))
              => Path(p, V, Append(Front(s), Advanced(Noted(f, n))))
<1>1. Sound(p, V, f)
  BY PathOpen
<1>2. ASSUME NEW g \in BodyFrames(D), g.inst = f.inst, Sound(p, V, g)
      PROVE  Path(p, V, Append(Front(s), g))
  <2>1. g \in Frames(D) /\ g.kind = Last(s).kind /\ g.inst = Last(s).inst
    BY <1>2, FrameFields DEF Frames
  <2>. QED
    BY <1>2, <2>1, PathReplace
<1>3. /\ Noted(f, n) \in BodyFrames(D) /\ Sound(p, V, Noted(f, n)) /\ Noted(f, n).inst = f.inst
      /\ [Noted(f, n) EXCEPT !.at = 1] \in BodyFrames(D)
      /\ [Noted(f, n) EXCEPT !.at = 1].inst = f.inst
      /\ Sound(p, V, [Noted(f, n) EXCEPT !.at = 1])
      /\ Advanced(Noted(f, n)) \in BodyFrames(D) /\ Advanced(Noted(f, n)).inst = f.inst
      /\ (ItemsOf(p, f)[f.at].op \in {"apply", "type"} =>
            Apart(p, V, f.inst, ItemsOf(p, f)[f.at].to))
         => Sound(p, V, Advanced(Noted(f, n)))
  BY <1>1, NotedSound
<1>. QED
  BY <1>2, <1>3

\* The same body passes an item without noting anything, or starts again.
LEMMA PathPassed ==
    ASSUME NEW p, NEW V, NEW D, NEW s \in Seq(Frames(D)), s # <<>>, Path(p, V, s),
           NEW f \in BodyFrames(D), f = Last(s),
           f.at <= Len(ItemsOf(p, f)), Len(ItemsOf(p, f)) \in Nat
    PROVE  /\ Path(p, V, Append(Front(s), [f EXCEPT !.at = 1]))
           /\ (ItemsOf(p, f)[f.at].op \in {"apply", "type"} =>
                 Apart(p, V, f.inst, ItemsOf(p, f)[f.at].to))
              => Path(p, V, Append(Front(s), Advanced(f)))
<1>1. Sound(p, V, f)
  BY PathOpen
<1>2. ASSUME NEW g \in BodyFrames(D), g.inst = f.inst, Sound(p, V, g)
      PROVE  Path(p, V, Append(Front(s), g))
  <2>1. g \in Frames(D) /\ g.kind = Last(s).kind /\ g.inst = Last(s).inst
    BY <1>2, FrameFields DEF Frames
  <2>. QED
    BY <1>2, <2>1, PathReplace
<1>3. Range(f.refs) \subseteq From(p, f.inst)
  BY <1>1, FrameFields DEF Sound
<1>4. Path(p, V, Append(Front(s), [f EXCEPT !.at = 1]))
  <2>. PICK g : g = [f EXCEPT !.at = 1]
    OBVIOUS
  <2>1. g \in BodyFrames(D) /\ g.inst = f.inst /\ g.phase = f.phase /\ g.at = 1
        /\ g.refs = f.refs
    BY RestartStep
  <2>2. Sound(p, V, g)
    BY <1>1, <1>3, <2>1, SoundStep
  <2>. QED
    BY <1>2, <2>1, <2>2
<1>5. ASSUME ItemsOf(p, f)[f.at].op \in {"apply", "type"} =>
                 Apart(p, V, f.inst, ItemsOf(p, f)[f.at].to)
      PROVE  Path(p, V, Append(Front(s), Advanced(f)))
  <2>. PICK g : g = Advanced(f)
    OBVIOUS
  <2>1. g \in BodyFrames(D) /\ g.inst = f.inst /\ g.phase = f.phase /\ g.at = f.at + 1
        /\ g.refs = f.refs
    BY BodySteps
  <2>2. Sound(p, V, g)
    BY <1>1, <1>3, <1>5, <2>1, SoundStep
  <2>. QED
    BY <1>2, <2>1, <2>2
<1>. QED
  BY <1>4, <1>5

\* The pass of the body on top is over.
LEMMA PathSettled ==
    ASSUME NEW p, NEW V, NEW D, NEW s \in Seq(Frames(D)), s # <<>>, Path(p, V, s),
           NEW f \in BodyFrames(D), f = Last(s), f.phase = "pass",
           f.at > Len(ItemsOf(p, f)), p.body[f.inst].pass \in Seq(PassItem)
    PROVE  Path(p, V, Append(Front(s), [f EXCEPT !.phase = "rest", !.at = 1]))
<1>1. Sound(p, V, f)
  BY PathOpen
<1>. PICK g : g = [f EXCEPT !.phase = "rest", !.at = 1]
  OBVIOUS
<1>2. g \in BodyFrames(D) /\ g.inst = f.inst /\ g.at = 1 /\ g.refs = f.refs
  BY BodySteps
<1>3. Sound(p, V, g)
  BY <1>1, <1>2, SoundSettle
<1>4. g \in Frames(D) /\ g.kind = Last(s).kind /\ g.inst = Last(s).inst
  BY <1>2, FrameFields DEF Frames
<1>. QED
  BY <1>3, <1>4, PathReplace

\* The stack as a path over what is known after a step.
LEMMA PathNow ==
    ASSUME StackInv, Grows, PathInv, evaluations \subseteq evaluations'
    PROVE  /\ stack \in Seq(Frames(DOMAIN states'))
           /\ Path(program, evaluations', stack)
<1>1. stack \in Seq(Frames(DOMAIN states))
  BY DEF StackInv, StackOK
<1>2. stack \in Seq(Frames(DOMAIN states'))
  BY <1>1, FramesMono DEF Grows
<1>. PICK p, V, W, s : p = program /\ V = evaluations /\ W = evaluations' /\ s = stack
  OBVIOUS
<1>3. V \subseteq W /\ Path(p, V, s)
  BY DEF PathInv
<1>4. Path(p, W, s)
  BY <1>3, PathMono
<1>. QED
  BY <1>2, <1>4

\* A body is begun on nothing, or on a demand that reaches it.
LEMMA BeginPath ==
    ASSUME StackInv, Grows, PathInv, evaluations \subseteq evaluations',
           NEW m \in DOMAIN states, Begin(m),
           stack # <<>> => Top.kind = "demand" /\ m \in From(program, Top.inst)
    PROVE  PathInv'
<1>1. stack \in Seq(Frames(DOMAIN states')) /\ Path(program, evaluations', stack)
  BY PathNow
<1>. PICK p \in {program}, V \in {evaluations'}, S \in {Frames(DOMAIN states')} : TRUE
  OBVIOUS
<1>. PICK s \in Seq(S) : s = stack
  BY <1>1
<1>. PICK g : g = BodyFrame(m)
  OBVIOUS
<1>2. g \in S
  <2>1. BodyFrame(m) \in BodyFrames(DOMAIN states')
    BY DEF Grows, BodyFrame, BodyFrames
  <2>. QED
    BY <2>1 DEF Frames
<1>3. g.inst = m /\ g.kind = "body" /\ g.at = 1 /\ g.phase = "pass" /\ Range(g.refs) = {}
  BY DEF BodyFrame, Range
<1>4. \A j \in 1..Len(ItemsOf(p, g)) : ~(j < g.at)
  BY <1>3
<1>5. Sound(p, V, g)
  BY <1>3, <1>4 DEF Sound
<1>6. Path(p, V, Append(s, g))
  <2>1. CASE s = <<>>
    <3>1. Path(p, V, s) /\ Linked(p, s, g)
      BY <1>3, <2>1 DEF Path, Linked
    <3>. QED
      BY <1>2, <1>5, <3>1, PathAppend
  <2>2. CASE s # <<>>
    <3>1. Last(s).inst \in Instances /\ g.inst \in From(p, Last(s).inst)
      BY <1>3, <2>2, TopFacts, FrameFields, KnownInstances DEF StackInv, Top
    <3>. QED
      BY <1>1, <1>2, <1>3, <1>5, <2>2, <3>1, PathPush
  <2>. QED
    BY <2>1, <2>2
<1>7. program' = p /\ stack' = Append(s, g)
  BY DEF Begin, Grows
<1>. QED
  BY <1>6, <1>7 DEF PathInv

\* The body on top of a path, over what is known after a step.
LEMMA TopPath ==
    ASSUME StackInv, ClosureInv, Grows, PathInv, evaluations \subseteq evaluations',
           stack # <<>>, Top.kind = "body"
    PROVE  /\ stack \in Seq(Frames(DOMAIN states')) /\ Path(program, evaluations', stack)
           /\ Top \in BodyFrames(DOMAIN states') /\ Top = Last(stack)
           /\ Top \in BodyFrames(DOMAIN states)
           /\ Top.inst \in DOMAIN states /\ Top.inst \in Instances
           /\ ItemsOf(program, Top) = Items(Top) /\ Len(ItemsOf(program, Top)) \in Nat
<1>1. stack \in Seq(Frames(DOMAIN states')) /\ Path(program, evaluations', stack)
  BY PathNow
<1>2. /\ Top \in BodyFrames(DOMAIN states) /\ Top = Last(stack)
      /\ ItemsOf(program, Top) = Items(Top) /\ Len(Items(Top)) \in Nat
  BY TopGathered DEF ClosureInv, Top
<1>3. Top \in BodyFrames(DOMAIN states')
  BY <1>2, FramesMono DEF Grows
<1>4. Top.inst \in DOMAIN states /\ Top.inst \in Instances
  BY <1>2, FrameFields, KnownInstances DEF StackInv
<1>. QED
  BY <1>1, <1>2, <1>3, <1>4

\* An application that has a fragment is apart from the body on top.
LEMMA TopApart ==
    ASSUME StackInv, WorkInv, ClosureInv, DoneInv, stack # <<>>, Top.kind = "body",
           NEW m \in evaluations
    PROVE  Apart(program, evaluations, Top.inst, m)
<1>1. Top.inst \in DOMAIN states /\ states[Top.inst] = "Active"
  BY TopActive
<1>2. m \in DOMAIN fragments
  BY DEF StackInv, Typed
<1>. QED
  BY <1>1, <1>2, EvaluatedApart DEF Apart

\* The steps of the body on top, but for its demands.
LEMMA StepsPath ==
    ASSUME StackInv, WorkInv, ClosureInv, Grows, DropsNothing, PathInv, DoneInv,
           Call \/ Unroll \/ Fold \/ Settle
    PROVE  PathInv'
<1>1. stack # <<>> /\ Top.kind = "body" /\ UNCHANGED evaluations
  BY DEF Call, Unroll, Fold, Settle, Applying, AtItem, AtEnd, InBody, memo
<1>2. /\ stack \in Seq(Frames(DOMAIN states')) /\ Path(program, evaluations', stack)
      /\ Top \in BodyFrames(DOMAIN states') /\ Top = Last(stack)
      /\ Top \in BodyFrames(DOMAIN states)
      /\ Top.inst \in DOMAIN states /\ Top.inst \in Instances
      /\ ItemsOf(program, Top) = Items(Top) /\ Len(ItemsOf(program, Top)) \in Nat
  BY <1>1, TopPath
<1>3. program' = program
  BY DEF Grows
<1>4. CASE Unroll \/ Fold
  <2>1. Top.at <= Len(ItemsOf(program, Top)) /\ Item = ItemsOf(program, Top)[Top.at]
    BY <1>2, <1>4 DEF Unroll, Fold, Applying, AtItem, Item
  <2>2. Item.op \in {"apply", "type"} => Apart(program, evaluations', Top.inst, Item.to)
    <3>1. CASE Unroll
      BY <3>1 DEF Unroll
    <3>2. CASE Fold
      <4>1. Item.to \in evaluations
        BY <3>2 DEF Fold, StackInv, Typed
      <4>. QED
        BY <1>1, <4>1, TopApart
    <3>. QED
      BY <1>4, <3>1, <3>2
  <2>3. Path(program, evaluations', Append(Front(stack), Advanced(Top)))
    BY <1>1, <1>2, <2>1, <2>2, PathPassed
  <2>4. stack' = stack \/ stack' = Append(Front(stack), Advanced(Top))
    BY <1>4 DEF Unroll, Fold, Replaced
  <2>. QED
    BY <1>2, <1>3, <2>3, <2>4 DEF PathInv
<1>5. CASE Settle
  <2>1. Top.phase = "pass" /\ Top.at > Len(ItemsOf(program, Top))
    BY <1>2, <1>5 DEF Settle, AtEnd
  <2>2. program.body[Top.inst].pass \in Seq(PassItem)
    BY <1>2 DEF StackInv, Typed, ProgramOK
  <2>3. Path(program, evaluations',
             Append(Front(stack), [Top EXCEPT !.phase = "rest", !.at = 1]))
    BY <1>1, <1>2, <2>1, <2>2, PathSettled
  <2>. QED
    BY <1>3, <1>5, <2>3 DEF PathInv, Settle, Replaced
<1>6. CASE Call
  <2>1. /\ Top.at <= Len(ItemsOf(program, Top)) /\ Item = ItemsOf(program, Top)[Top.at]
        /\ Item.op = "call"
    BY <1>2, <1>6 DEF Call, AtItem, Item
  <2>2. Item.to \in Instances /\ Item.to \in From(program, Top.inst)
    BY <1>2, <2>1, SoundItem DEF StackInv
  <2>3. CASE WithinBudget(Item.to) /\ Enqueue(Item.to)
             /\ stack' = Replaced(Advanced(Noted(Top, Item.to)))
    <3>1. Item.to \in DOMAIN states'
      BY <2>2, <2>3, EnqueueFacts DEF StackInv
    <3>2. ItemsOf(program, Top)[Top.at].op \notin {"apply", "type"}
      BY <2>1
    <3>3. Path(program, evaluations', Append(Front(stack), Advanced(Noted(Top, Item.to))))
      BY <1>1, <1>2, <2>1, <2>2, <3>1, <3>2, PathNoted
    <3>. QED
      BY <1>3, <2>3, <3>3 DEF PathInv, Replaced
  <2>4. CASE stack' = stack
    BY <1>2, <1>3, <2>4 DEF PathInv
  <2>. QED
    BY <1>6, <2>3, <2>4 DEF Call
<1>. QED
  BY <1>4, <1>5, <1>6

\* The body on top demands what its item applies.
LEMMA PathDemand ==
    ASSUME NEW p, NEW V, NEW D, NEW s \in Seq(Frames(D)), s # <<>>, Path(p, V, s),
           NEW f \in BodyFrames(D), f = Last(s), f.inst \in Instances,
           f.at <= Len(ItemsOf(p, f)), Len(ItemsOf(p, f)) \in Nat,
           NEW n \in D, n \in From(p, f.inst), n = ItemsOf(p, f)[f.at].to, n \in Instances,
           NEW d \in DemandFrames(D), d.inst = n, Range(d.todo) \subseteq {n}
    PROVE  Path(p, V, Append(Append(Front(s), Noted(f, n)), d))
<1>1. /\ Noted(f, n) \in BodyFrames(D) /\ Noted(f, n).inst = f.inst
      /\ Noted(f, n).phase = f.phase /\ Noted(f, n).at = f.at
  BY NotedStep
<1>2. Path(p, V, Append(Front(s), Noted(f, n)))
  BY PathNoted
<1>. PICK site \in BodyFrames(D) : site = Noted(f, n)
  BY <1>1
<1>3. Front(s) \in Seq(Frames(D)) /\ site \in Frames(D) /\ d \in Frames(D)
  BY TopAndBelow DEF Frames
<1>4. Append(Front(s), site) \in Seq(Frames(D)) /\ Len(Append(Front(s), site)) = Len(Front(s)) + 1
      /\ Append(Front(s), site)[Len(Front(s)) + 1] = site /\ Len(Front(s)) \in Nat
  BY <1>3, AppendFacts
<1>. PICK t \in Seq(Frames(D)) : t = Append(Front(s), site)
  BY <1>4
<1>5. t # <<>> /\ Last(t) = site
  BY <1>4 DEF Last
<1>6. d.kind = "demand" /\ n \in From(p, n)
  BY FrameFields, ReachFacts
<1>7. Sound(p, V, d)
  BY <1>6 DEF Sound
<1>8. ItemsOf(p, site) = ItemsOf(p, f)
  BY <1>1 DEF ItemsOf
<1>9. Last(t).inst \in Instances /\ d.inst \in From(p, Last(t).inst)
      /\ ItemsOf(p, Last(t))[Last(t).at].to = d.inst
  BY <1>1, <1>5, <1>8
<1>. QED
  BY <1>2, <1>3, <1>5, <1>7, <1>9, PathPush

\* The demand on top goes on, with what it reaches to do.
LEMMA PathClosing ==
    ASSUME NEW p, NEW V, NEW D, NEW s \in Seq(Frames(D)), s # <<>>, Path(p, V, s),
           Last(s).kind = "demand", NEW g \in DemandFrames(D), g.inst = Last(s).inst,
           Range(g.todo) \subseteq From(p, g.inst)
    PROVE  Path(p, V, Append(Front(s), g))
<1>1. g \in Frames(D) /\ g.kind = "demand"
  BY FrameFields DEF Frames
<1>2. Sound(p, V, g)
  BY <1>1 DEF Sound
<1>. QED
  BY <1>1, <1>2, PathReplace

\* The demands of the body on top.
LEMMA ApplyPath ==
    ASSUME StackInv, WorkInv, ClosureInv, Grows, DropsNothing, PathInv, DoneInv, Apply
    PROVE  PathInv'
<1>1. Applying /\ UNCHANGED evaluations
  BY DEF Apply
<1>2. /\ stack # <<>> /\ Top.kind = "body" /\ Item = Items(Top)[Top.at]
      /\ Item.to \in Instances /\ Top.at <= Len(Items(Top))
      /\ Item.op \in {"apply", "type", "drop"}
  BY <1>1, ApplySite
<1>3. /\ stack \in Seq(Frames(DOMAIN states')) /\ Path(program, evaluations', stack)
      /\ Top \in BodyFrames(DOMAIN states') /\ Top = Last(stack)
      /\ Top \in BodyFrames(DOMAIN states)
      /\ Top.inst \in DOMAIN states /\ Top.inst \in Instances
      /\ ItemsOf(program, Top) = Items(Top) /\ Len(ItemsOf(program, Top)) \in Nat
  BY <1>1, <1>2, TopPath
<1>4. /\ Top.at <= Len(ItemsOf(program, Top)) /\ Item = ItemsOf(program, Top)[Top.at]
      /\ program' = program
  BY <1>2, <1>3 DEF Grows
<1>5. Item.op # "drop" /\ Item.to \in From(program, Top.inst)
  BY <1>2, <1>3, SoundItem DEF StackInv
<1>6. CASE ~WithinBudget(Item.to) /\ Refuse(Top, "error")
  <2>1. stack' = Append(Front(stack), Last(stack))
    BY <1>3, <1>5, <1>6 DEF Refuse, Replaced
  <2>2. stack' = stack
    BY <1>2, <1>3, <2>1, TopAndBelow
  <2>. QED
    BY <1>3, <1>4, <2>2 DEF PathInv
<1>7. CASE WithinBudget(Item.to) /\ Enqueue(Item.to)
  <2>1. Item.to \in DOMAIN states'
    BY <1>2, <1>7, EnqueueFacts DEF StackInv
  <2>2. /\ Path(program, evaluations', Append(Front(stack), Noted(Top, Item.to)))
        /\ Path(program, evaluations', Append(Front(stack), [Noted(Top, Item.to) EXCEPT !.at = 1]))
        /\ Apart(program, evaluations', Top.inst, Item.to) =>
              Path(program, evaluations', Append(Front(stack), Advanced(Noted(Top, Item.to))))
    BY <1>2, <1>3, <1>4, <1>5, <2>1, PathNoted
  <2>3. ASSUME NEW todo \in Seq(DOMAIN states'), Range(todo) \subseteq {Item.to}
        PROVE  Path(program, evaluations',
                    Append(Append(Front(stack), Noted(Top, Item.to)),
                           DemandFrame(Item.to, Item.op, todo)))
    <3>1. DemandFrame(Item.to, Item.op, todo) \in DemandFrames(DOMAIN states')
      BY <1>1, <2>1, DemandUnder DEF Grows
    <3>2. /\ DemandFrame(Item.to, Item.op, todo).inst = Item.to
          /\ DemandFrame(Item.to, Item.op, todo).todo = todo
      BY DEF DemandFrame
    <3>. QED
      BY <1>2, <1>3, <1>4, <1>5, <2>1, <2>3, <3>1, <3>2, PathDemand
  <2>4. /\ <<>> \in Seq(DOMAIN states') /\ <<Item.to>> \in Seq(DOMAIN states')
        /\ Range(<<>>) \subseteq {Item.to} /\ Range(<<Item.to>>) \subseteq {Item.to}
    BY <2>1 DEF Range
  <2>5. Item.to \in evaluations => Apart(program, evaluations', Top.inst, Item.to)
    BY <1>1, <1>2, TopApart
  <2>6. CASE stack' = Append(Replaced(Noted(Top, Item.to)), DemandFrame(Item.to, Item.op, <<>>))
    BY <1>4, <2>3, <2>4, <2>6 DEF Replaced, PathInv
  <2>7. CASE stack' = Append(Replaced(Noted(Top, Item.to)),
                             DemandFrame(Item.to, Item.op, <<Item.to>>))
    BY <1>4, <2>3, <2>4, <2>7 DEF Replaced, PathInv
  <2>8. CASE stack' \in {Replaced(Noted(Top, Item.to)),
                         Replaced([Noted(Top, Item.to) EXCEPT !.at = 1])}
    BY <1>4, <2>2, <2>8 DEF Replaced, PathInv
  <2>9. CASE Item.to \in evaluations /\ stack' = Replaced(Advanced(Noted(Top, Item.to)))
    BY <1>4, <2>2, <2>5, <2>9 DEF Replaced, PathInv
  <2>. QED
    BY <1>5, <1>7, <2>6, <2>7, <2>8, <2>9 DEF Apply, Refuse
<1>. QED
  BY <1>6, <1>7 DEF Apply

\* The body that waits for the demand on top: it is being materialized, and
\* its item applies what the demand is for.
LEMMA Waiting ==
    ASSUME StackInv, WorkInv, ClosureInv, DropsNothing, PathInv, stack # <<>>, Top.kind = "demand"
    PROVE  LET site == Last(Front(stack))
           IN /\ Front(stack) # <<>> /\ Front(stack) \in Seq(Frames(DOMAIN states))
              /\ site \in BodyFrames(DOMAIN states)
              /\ site.inst \in DOMAIN states /\ states[site.inst] = "Active"
              /\ site.at <= Len(ItemsOf(program, site)) /\ Len(ItemsOf(program, site)) \in Nat
              /\ ItemsOf(program, site)[site.at].op = Top.how
              /\ ItemsOf(program, site)[site.at].to = Top.inst
              /\ Top.how \in {"apply", "type"} /\ Top.inst \in Uses(program, site.inst)
              /\ Top.inst \in DOMAIN states
              /\ Path(program, evaluations, Front(stack))
<1>. PICK site : site = Last(Front(stack))
  OBVIOUS
<1>1. site \in BodyFrames(DOMAIN states) /\ Under(program, site, Top)
  BY ReturnedFacts
<1>2. Front(stack) # <<>> /\ stack[Len(stack) - 1] = site
  BY PopDemand DEF StackInv, Top
<1>3. stack \in Seq(Frames(DOMAIN states)) /\ Path(program, evaluations, stack)
  BY DEF StackInv, StackOK, PathInv
<1>4. /\ Front(stack) \in Seq(Frames(DOMAIN states))
      /\ Path(program, evaluations, Front(stack))
      /\ Linked(program, Front(stack), Last(stack))
  BY <1>3, TopAndBelow, PathOpen
<1>5. ItemsOf(program, site)[site.at].to = Top.inst
  BY <1>4 DEF Linked, Top, Last
<1>6. Top.how \in {"apply", "type"} /\ Top.inst \in DOMAIN states
  BY TopFacts, FrameFields, NoDropUnderWay
<1>7. /\ site.inst \in DOMAIN states /\ site.inst \in Instances /\ site.at \in Nat \ {0}
      /\ site.phase \in {"pass", "rest"} /\ site.kind = "body"
  BY <1>1, FrameFields, KnownInstances DEF StackInv
<1>8. program.body[site.inst] \in [pass : Seq(PassItem), rest : Seq(RestItem)]
  BY <1>7 DEF StackInv, Typed, ProgramOK
<1>9. ItemsOf(program, site) \in Seq(PassItem) \cup Seq(RestItem)
  BY <1>8 DEF ItemsOf
<1>10. /\ site.at <= Len(ItemsOf(program, site)) /\ Len(ItemsOf(program, site)) \in Nat
       /\ ItemsOf(program, site)[site.at].op = Top.how
  BY <1>1, <1>9 DEF Under
<1>11. Top.inst \in Uses(program, site.inst)
  <2>1. Items(site) = ItemsOf(program, site)
    BY DEF Items, ItemsOf
  <2>. QED
    BY <1>1, <1>5, <1>6, <1>10, <2>1, SoundItem DEF StackInv
<1>12. states[site.inst] = "Active"
  <2>1. Len(stack) \in Nat \ {0} /\ Len(Front(stack)) = Len(stack) - 1
    BY <1>3, FrontFacts
  <2>2. Len(Front(stack)) # 0
    BY <1>2, <1>4
  <2>3. Len(stack) - 1 \in 1..Len(stack)
    BY <2>1, <2>2
  <2>4. site.inst \in Bodies(stack)
    BY <1>2, <1>7, <2>3 DEF Bodies
  <2>. QED
    BY <1>7, <2>4 DEF WorkInv
<1>. QED
  BY <1>1, <1>2, <1>4, <1>5, <1>6, <1>7, <1>10, <1>11, <1>12

\* The steps of the demand on top.
LEMMA DemandPath ==
    ASSUME StackInv, WorkInv, ClosureInv, Grows, DropsNothing, PathInv, KnownInv, DoneInv,
           CloseOver \/ Evaluate \/ UnwindDemand
    PROVE  PathInv'
<1>1. stack # <<>> /\ Top.kind = "demand" /\ Top = Last(stack)
  BY DEF CloseOver, Evaluate, UnwindDemand, InDemand, Top
<1>2. evaluations \subseteq evaluations' /\ program' = program
  BY DEF CloseOver, Evaluate, UnwindDemand, memo, Grows
<1>3. stack \in Seq(Frames(DOMAIN states')) /\ Path(program, evaluations', stack)
  BY <1>2, PathNow
<1>4. Top \in DemandFrames(DOMAIN states) /\ Top \in DemandFrames(DOMAIN states')
  BY <1>1, TopFacts, FramesMono DEF Grows
<1>5. CASE Evaluate \/ UnwindDemand
  <2>. PICK site : site = Last(Front(stack))
    OBVIOUS
  <2>1. /\ Front(stack) # <<>> /\ Front(stack) \in Seq(Frames(DOMAIN states))
        /\ site \in BodyFrames(DOMAIN states)
        /\ site.inst \in DOMAIN states /\ states[site.inst] = "Active"
        /\ site.at <= Len(ItemsOf(program, site)) /\ Len(ItemsOf(program, site)) \in Nat
        /\ ItemsOf(program, site)[site.at].op = Top.how
        /\ ItemsOf(program, site)[site.at].to = Top.inst
        /\ Top.how \in {"apply", "type"}
    BY <1>1, Waiting
  <2>2. Path(program, evaluations', Front(stack))
    BY <1>1, <1>3, PathOpen
  <2>3. /\ SubSeq(stack, 1, Len(stack) - 2) = Front(Front(stack))
        /\ Returned = IF Top.how = "type" THEN [site EXCEPT !.at = 1] ELSE Advanced(site)
    BY <1>1, ReturnedFacts
  <2>4. CASE stack' = stack
    BY <1>2, <1>3, <2>4 DEF PathInv
  <2>5. CASE stack' = Front(stack)
    BY <1>2, <2>2, <2>5 DEF PathInv
  <2>6. CASE Evaluate /\ evaluations' = evaluations \cup {Top.inst}
             /\ stack' = Append(SubSeq(stack, 1, Len(stack) - 2), Returned)
    <3>1. Top.inst \in DOMAIN fragments
      BY <2>6 DEF Evaluate
    <3>2. site.inst \notin From(program, Top.inst)
      BY <2>1, <3>1, EvaluatedApart
    <3>3. Apart(program, evaluations', site.inst, Top.inst)
      BY <2>6, <3>2 DEF Apart
    <3>4. /\ Path(program, evaluations', Append(Front(Front(stack)), [site EXCEPT !.at = 1]))
          /\ Path(program, evaluations', Append(Front(Front(stack)), Advanced(site)))
      BY <2>1, <2>2, <3>3, PathPassed
    <3>5. Path(program, evaluations', Append(Front(Front(stack)), Returned))
      BY <2>3, <3>4
    <3>. QED
      BY <1>2, <2>3, <2>6, <3>5 DEF PathInv
  <2>. QED
    BY <1>5, <2>1, <2>4, <2>5, <2>6 DEF Evaluate, UnwindDemand
<1>6. CASE CloseOver
  <2>1. Top.todo # <<>> /\ UNCHANGED evaluations
    BY <1>6 DEF CloseOver, memo
  <2>2. Top.todo \in Seq(DOMAIN states) /\ Top.kind # "body"
    BY <1>4, FrameFields
  <2>3. /\ Front(Top.todo) \in Seq(DOMAIN states) /\ Last(Top.todo) \in DOMAIN states
        /\ Range(Top.todo) = Range(Front(Top.todo)) \cup {Last(Top.todo)}
    BY <2>1, <2>2, FrontFacts
  <2>4. Range(Top.todo) \subseteq From(program, Top.inst)
    <3>1. Sound(program, evaluations', Last(stack))
      BY <1>1, <1>3, PathOpen
    <3>. QED
      BY <1>1, <2>2, <3>1 DEF Sound
  <2>10. ASSUME NEW todo \in Seq(DOMAIN states), NEW k \in DOMAIN states
         PROVE  /\ Joined(Top, todo, k) \in DemandFrames(DOMAIN states)
                /\ Joined(Top, todo, k).inst = Top.inst /\ Joined(Top, todo, k).todo = todo
    BY <1>4, ClosureStep
  <2>. PICK m \in DOMAIN states : m = Last(Top.todo)
    BY <2>3
  <2>5. ASSUME NEW g \in DemandFrames(DOMAIN states), g.inst = Top.inst,
               Range(g.todo) \subseteq From(program, Top.inst)
        PROVE  Path(program, evaluations', Append(Front(stack), g))
    <3>1. g \in DemandFrames(DOMAIN states')
      BY FramesMono DEF Grows
    <3>. QED
      BY <1>1, <1>3, <2>5, <3>1, PathClosing
  <2>6. CASE stack' = Replaced([Top EXCEPT !.todo = Front(@)])
    <3>1. /\ [Top EXCEPT !.todo = Front(Top.todo)] \in DemandFrames(DOMAIN states)
          /\ [Top EXCEPT !.todo = Front(Top.todo)].inst = Top.inst
          /\ [Top EXCEPT !.todo = Front(Top.todo)].todo = Front(Top.todo)
      BY <1>4, <2>3, TodoStep
    <3>2. Path(program, evaluations', Append(Front(stack), [Top EXCEPT !.todo = Front(Top.todo)]))
      BY <2>3, <2>4, <2>5, <3>1
    <3>. QED
      BY <1>2, <2>6, <3>2 DEF PathInv, Replaced
  <2>7. CASE Begin(m)
    <3>1. m \in From(program, Top.inst)
      BY <2>3, <2>4
    <3>. QED
      BY <1>1, <2>1, <2>7, <3>1, BeginPath
  <2>8. CASE stack' = Replaced([Top EXCEPT !.todo = Front(@) \o references[m],
                                           !.seen = @ \cup {m}, !.closure = @ \cup {m}])
    <3>1. references[m] \in Seq(DOMAIN states) /\ m \in Instances
      BY KnownInstances DEF StackInv, Typed
    <3>. PICK todo : todo = Front(Top.todo) \o references[m]
      OBVIOUS
    <3>2. todo \in Seq(DOMAIN states)
          /\ Range(todo) = Range(Front(Top.todo)) \cup Range(references[m])
      BY <2>3, <3>1, ConcatFacts
    <3>3. Range(references[m]) \subseteq From(program, Top.inst)
      <4>1. m \in From(program, Top.inst)
        BY <2>3, <2>4
      <4>2. From(program, m) \subseteq From(program, Top.inst)
        BY <4>1, ReachOn
      <4>. QED
        BY <3>1, <4>2 DEF KnownInv
    <3>4. /\ Joined(Top, todo, m) \in DemandFrames(DOMAIN states)
          /\ Joined(Top, todo, m).inst = Top.inst
          /\ Joined(Top, todo, m).todo = todo
      BY <2>10, <3>2
    <3>5. Path(program, evaluations', Append(Front(stack), Joined(Top, todo, m)))
      BY <2>3, <2>4, <2>5, <3>2, <3>3, <3>4
    <3>. QED
      BY <1>2, <2>8, <3>5 DEF PathInv, Replaced, Joined
  <2>9. CASE stack' = stack
    BY <1>2, <1>3, <2>9 DEF PathInv
  <2>. QED
    BY <1>6, <2>6, <2>7, <2>8, <2>9 DEF CloseOver
<1>. QED
  BY <1>5, <1>6

\* Every step keeps the stack a path.
LEMMA PathStep ==
    ASSUME StackInv, WorkInv, ClosureInv, DropsNothing, PathInv, KnownInv, DoneInv, Next
    PROVE  PathInv'
<1>1. Grows
  BY StepGrows
<1>2. CASE DrainTakes
  <2>1. Head(queue) \in DOMAIN states /\ Begin(Head(queue)) /\ stack = <<>> /\ UNCHANGED evaluations
    BY <1>2, TailFacts DEF DrainTakes, StackInv, Typed, memo
  <2>. QED
    BY <1>1, <2>1, BeginPath
<1>3. CASE DrainSkips \/ Drained \/ Fail \/ BodyFails \/ MakeFragment
  BY <1>1, <1>3 DEF DrainSkips, Drained, Fail, BodyFails, MakeFragment, memo, PathInv, Grows
<1>4. CASE Complete \/ UnwindBody
  <2>1. stack # <<>> /\ stack' = Front(stack) /\ UNCHANGED <<program, evaluations>>
    BY <1>4 DEF Complete, UnwindBody, AtEnd, InBody, End, memo
  <2>2. stack \in Seq(Frames(DOMAIN states)) /\ Path(program, evaluations, stack)
    BY DEF StackInv, StackOK, PathInv
  <2>3. Path(program, evaluations, Front(stack))
    BY <2>1, <2>2, PathOpen
  <2>. QED
    BY <2>1, <2>3 DEF PathInv
<1>5. CASE Call \/ Unroll \/ Fold \/ Settle
  BY <1>1, <1>5, StepsPath
<1>6. CASE Apply
  BY <1>1, <1>6, ApplyPath
<1>7. CASE CloseOver \/ Evaluate \/ UnwindDemand
  BY <1>1, <1>7, DemandPath
<1>. QED
  BY <1>2, <1>3, <1>4, <1>5, <1>6, <1>7 DEF Next

\* What the steps that enqueue enqueue, and which instance they find it in.
LEMMA EnqueuedEdge ==
    ASSUME StackInv, ClosureInv, DropsNothing, KnownInv, AtItem, Item.op # "unroll"
    PROVE  /\ Item.to \in Instances /\ Item.to \in From(program, Entry)
           /\ Top.inst \in From(program, Entry) /\ Top.inst \in Instances
           /\ Item.op # "drop"
           /\ Item.op \in {"apply", "type"} => Item.to \in Uses(program, Top.inst)
<1>1. stack # <<>> /\ Top.kind = "body" /\ Top.at <= Len(Items(Top)) /\ Item = Items(Top)[Top.at]
  BY DEF AtItem, InBody, Item
<1>2. Top \in BodyFrames(DOMAIN states) /\ Top.inst \in DOMAIN states
  BY <1>1, TopFacts, FrameFields
<1>3. /\ Item.op \in {"call", "apply", "type", "drop", "unroll"} /\ Item.op # "drop"
      /\ Item.op \in {"apply", "type"} => Item.to \in Uses(program, Top.inst)
      /\ Item.op \in {"call", "apply", "type"} =>
            Item.to \in Instances /\ Item.to \in From(program, Top.inst)
  BY <1>1, <1>2, ItemFacts, SoundItem DEF StackInv
<1>4. Top.inst \in From(program, Entry) /\ Top.inst \in Instances
  BY <1>2, KnownInstances DEF KnownInv, StackInv
<1>5. From(program, Top.inst) \subseteq From(program, Entry)
  BY <1>4, ReachOn
<1>. QED
  BY <1>3, <1>4, <1>5

\* Every step keeps what is known within what the entry reaches.
LEMMA KnownStep ==
    ASSUME StackInv, WorkInv, ClosureInv, DropsNothing, PathInv, KnownInv, Next
    PROVE  KnownInv'
<1>1. Grows /\ UNCHANGED program
  BY StepGrows DEF Grows
<1>2. Entry \in DOMAIN states'
  BY <1>1 DEF Grows, KnownInv
<1>3. ASSUME DOMAIN states' \subseteq From(program, Entry), UNCHANGED references
      PROVE  KnownInv'
  BY <1>1, <1>2, <1>3 DEF KnownInv
<1>4. CASE Call \/ Apply
  <2>1. UNCHANGED references /\ AtItem /\ Item.op # "unroll"
        /\ (UNCHANGED states \/ (WithinBudget(Item.to) /\ Enqueue(Item.to)))
    BY <1>4 DEF Call, Apply, Applying, demand
  <2>2. Item.to \in Instances /\ Item.to \in From(program, Entry)
    BY <2>1, EnqueuedEdge
  <2>3. DOMAIN states' \subseteq DOMAIN states \cup {Item.to}
    <3>1. (WithinBudget(Item.to) /\ Enqueue(Item.to))
             => DOMAIN states' = DOMAIN states \cup {Item.to}
      BY <2>2, EnqueueFacts DEF StackInv
    <3>. QED
      BY <2>1, <3>1
  <2>. QED
    BY <1>3, <2>1, <2>2, <2>3 DEF KnownInv
<1>5. CASE Complete \/ UnwindBody
  <2>1. stack # <<>> /\ Top.kind = "body"
        /\ DOMAIN states' = DOMAIN states
        /\ references' = [references EXCEPT ![Top.inst] = Top.refs]
    BY <1>5 DEF Complete, UnwindBody, AtEnd, InBody, End
  <2>2. stack \in Seq(Frames(DOMAIN states)) /\ Path(program, evaluations, stack)
    BY DEF StackInv, StackOK, PathInv
  <2>3. Sound(program, evaluations, Last(stack))
    BY <2>1, <2>2, PathOpen
  <2>4. Range(Top.refs) \subseteq From(program, Top.inst)
    BY <2>1, <2>3 DEF Sound, Top
  <2>5. references \in [Instances -> Seq(DOMAIN states)] /\ Top.inst \in Instances
    BY <2>1, TopFacts, FrameFields, KnownInstances DEF StackInv, Typed
  <2>6. \A n \in Instances : Range(references'[n]) \subseteq From(program, n)
    BY <2>1, <2>4, <2>5 DEF KnownInv
  <2>. QED
    BY <1>1, <2>1, <2>6 DEF KnownInv
<1>6. CASE \/ DrainTakes \/ DrainSkips \/ Drained \/ Unroll \/ Fold \/ Settle \/ BodyFails
           \/ CloseOver \/ MakeFragment \/ Evaluate \/ UnwindDemand \/ Fail
  <2>1. UNCHANGED references /\ DOMAIN states' = DOMAIN states
    BY <1>6 DEF DrainTakes, DrainSkips, Drained, Unroll, Fold, Settle, BodyFails, CloseOver,
                MakeFragment, Evaluate, UnwindDemand, Fail, Begin, demand
  <2>. QED
    BY <1>3, <2>1 DEF KnownInv
<1>. QED
  BY <1>4, <1>5, <1>6 DEF Next

\* An enqueue adds an instance that was not there.
LEMMA DistinctStep ==
    ASSUME StackInv, Distinct, Next
    PROVE  Distinct'
<1>1. CASE UNCHANGED instances
  BY <1>1 DEF Distinct
<1>2. ASSUME NEW n, ~Known(n), instances' = Append(instances, n), n \in Instances
      PROVE  Distinct'
  <2>1. instances \in Seq(Instances) /\ Range(instances) = DOMAIN states
    BY DEF StackInv, Typed
  <2>2. n \notin Range(instances)
    BY <1>2, <2>1 DEF Known
  <2>3. /\ Len(instances') = Len(instances) + 1 /\ Len(instances) \in Nat
        /\ \A i \in 1..Len(instances) : instances'[i] = instances[i]
        /\ instances'[Len(instances) + 1] = n
        /\ DOMAIN instances' = 1..(Len(instances) + 1) /\ DOMAIN instances = 1..Len(instances)
    BY <1>2, <2>1, AppendFacts
  <2>4. \A i \in 1..Len(instances) : instances'[i] # n
    BY <2>2, <2>3 DEF Range
  <2>. QED
    BY <2>3, <2>4 DEF Distinct
<1>3. CASE Call \/ Apply
  <2>1. AtItem /\ Item.op # "unroll" /\ (UNCHANGED instances \/ Enqueue(Item.to))
    BY <1>3 DEF Call, Apply, Applying, demand
  <2>2. stack # <<>> /\ Top.kind = "body" /\ Top.at <= Len(Items(Top)) /\ Item = Items(Top)[Top.at]
    BY <2>1 DEF AtItem, InBody, Item
  <2>3. Top \in BodyFrames(DOMAIN states)
    BY <2>2, TopFacts
  <2>4. Item.to \in Instances
    BY <2>1, <2>2, <2>3, ItemFacts DEF StackInv
  <2>. QED
    BY <1>1, <1>2, <2>1, <2>4 DEF Enqueue, demand
<1>4. CASE ~(Call \/ Apply)
  BY <1>1, <1>4 DEF Next, DrainTakes, DrainSkips, Drained, Unroll, Fold, Settle, BodyFails,
                Complete, CloseOver, MakeFragment, Evaluate, UnwindBody, UnwindDemand, Fail, demand
<1>. QED
  BY <1>3, <1>4

\* Every step leaves what is completed, verified or evaluated as it should be.
LEMMA DoneStep ==
    ASSUME StackInv, WorkInv, ClosureInv, DropsNothing, PathInv, DoneInv, Next
    PROVE  DoneInv'
<1>1. UNCHANGED program
  BY StepProgram
<1>2. /\ \/ UNCHANGED fragments
         \/ /\ DOMAIN fragments' = DOMAIN fragments \cup {Top.inst}
            /\ program.outcome[Top.inst] # "refused"
      /\ \/ UNCHANGED evaluations
         \/ /\ evaluations' = evaluations \cup {Top.inst}
            /\ program.outcome[Top.inst] # "raises"
  <2>1. CASE MakeFragment
    BY <2>1 DEF MakeFragment
  <2>2. CASE Evaluate
    BY <2>2 DEF Evaluate
  <2>3. CASE ~MakeFragment /\ ~Evaluate
    BY <2>3 DEF Next, DrainTakes, DrainSkips, Drained, Call, Unroll, Apply, Fold, Settle,
                BodyFails, Complete, CloseOver, UnwindBody, UnwindDemand, Fail, memo
  <2>. QED
    BY <2>1, <2>2, <2>3
<1>3. /\ \A n \in DOMAIN fragments' : program'.outcome[n] # "refused"
      /\ \A n \in evaluations' : program'.outcome[n] # "raises"
  BY <1>1, <1>2 DEF DoneInv
<1>4. ASSUME NEW n, Elaborated(program, evaluations, n)
      PROVE  Elaborated(program, evaluations', n)
  BY <1>2, <1>4 DEF Elaborated, Apart
<1>5. ASSUME NEW n \in DOMAIN states', states'[n] = "Completed"
      PROVE  Elaborated(program, evaluations', n)
  <2>1. CASE n \in DOMAIN states /\ states[n] = "Completed"
    BY <1>4, <2>1 DEF DoneInv
  <2>2. CASE Complete /\ n = Top.inst
    <3>1. /\ stack # <<>> /\ Top.kind = "body" /\ Top.phase = "rest" /\ Top.at > Len(Items(Top))
          /\ program.outcome[n] # "fails"
      BY <2>2 DEF Complete, AtEnd, InBody
    <3>2. Top \in BodyFrames(DOMAIN states) /\ ItemsOf(program, Top) = Items(Top)
      BY <3>1, TopGathered DEF ClosureInv
    <3>3. Top.inst \in Instances
      BY <3>2, FrameFields, KnownInstances DEF StackInv
    <3>4. program.body[Top.inst].rest \in Seq(RestItem)
      BY <3>3 DEF StackInv, Typed, ProgramOK
    <3>5. stack \in Seq(Frames(DOMAIN states)) /\ Path(program, evaluations, stack)
      BY DEF StackInv, StackOK, PathInv
    <3>6. Sound(program, evaluations, Top)
      BY <3>1, <3>5, PathOpen DEF Top
    <3>7. \A m \in Uses(program, Top.inst) : Apart(program, evaluations, Top.inst, m)
      BY <3>1, <3>2, <3>4, <3>6, SoundEnd
    <3>8. Elaborated(program, evaluations, n)
      BY <2>2, <3>1, <3>7 DEF Elaborated
    <3>. QED
      BY <1>4, <3>8
  <2>3. CASE Complete /\ n # Top.inst
    BY <1>5, <2>1, <2>3 DEF Complete, End
  <2>4. CASE ~Complete
    BY <1>5, <2>1, <2>4, CompletedOnly
  <2>. QED
    BY <2>2, <2>3, <2>4
<1>. QED
  BY <1>1, <1>3, <1>5 DEF DoneInv

\* As many instances are known as were demanded.
LEMMA KnownCount ==
    ASSUME StackInv, Distinct
    PROVE  IsFiniteSet(DOMAIN states) /\ Cardinality(DOMAIN states) = Len(instances)
<1>1. instances \in Seq(Instances) /\ DOMAIN states = Range(instances)
  BY DEF StackInv, Typed
<1>. PICK k \in Nat : k = Len(instances) /\ DOMAIN instances = 1..k
  BY <1>1
<1>. PICK D : D = DOMAIN states
  OBVIOUS
<1>2. instances \in [1..k -> D] /\ \A x \in D : \E i \in 1..k : instances[i] = x
  BY <1>1 DEF Range
<1>3. instances \in Bijection(1..k, D)
  BY <1>2 DEF Distinct, Bijection, Injection, Surjection, IsInjective
<1>4. ExistsBijection(1..k, D)
  BY <1>3 DEF ExistsBijection
<1>5. Cardinality(D) = k
  BY <1>4, FS_CountingElements
<1>6. IsFiniteSet(D)
  BY <1>4, FS_NatBijection
<1>. QED
  BY <1>5, <1>6

\* Past the budget the entry reaches more instances than it admits.
LEMMA PastBudget ==
    ASSUME StackInv, Distinct, KnownInv, NEW n \in From(program, Entry), ~WithinBudget(n)
    PROVE  Wrong
<1>1. n \notin DOMAIN states /\ ~(Len(instances) < INSTANCE_BUDGET)
  BY DEF WithinBudget, Known
<1>. PICK D, S : D = DOMAIN states /\ S = D \cup {n}
  OBVIOUS
<1>2. IsFiniteSet(D) /\ Cardinality(D) = Len(instances)
  BY KnownCount
<1>3. IsFiniteSet(D \cup {n}) /\ Cardinality(D \cup {n}) = Cardinality(D) + 1
  BY <1>1, <1>2, FS_AddElement
<1>4. Cardinality(S) > INSTANCE_BUDGET
  <2>1. Len(instances) \in Nat /\ INSTANCE_BUDGET \in Nat
    BY BoundsAssumption DEF StackInv, Typed
  <2>. QED
    BY <1>1, <1>2, <1>3, <2>1
<1>5. S \in SUBSET From(program, Entry)
  BY DEF KnownInv
<1>. QED
  BY <1>3, <1>4, <1>5, WrongNow

\* An application of what the entry reaches that cannot run or leads back.
LEMMA WrongApplication ==
    ASSUME NEW n \in From(program, Entry), NEW m \in Uses(program, n),
           program.outcome[m] \in {"refused", "raises"} \/ n \in From(program, m)
    PROVE  Wrong
BY WrongNow

\* An error that is raised is the program's.
LEMMA ErrorRaised ==
    ASSUME StackInv, WorkInv, ClosureInv, DropsNothing, Distinct, PathInv, KnownInv, ErrorInv,
           Next, raised = "none", raised' = "error"
    PROVE  Wrong
<1>1. \A n \in DOMAIN states : states[n] # "Failed"
  BY DEF ErrorInv
<1>2. stack \in Seq(Frames(DOMAIN states)) /\ Path(program, evaluations, stack)
  BY DEF StackInv, StackOK, PathInv
<1>3. ASSUME stack # <<>>, Top.kind = "demand"
      PROVE  LET site == Last(Front(stack))
             IN /\ site.inst \in From(program, Entry)
                /\ Top.inst \in Uses(program, site.inst)
  BY <1>3, Waiting DEF KnownInv
<1>4. CASE Call
  <2>1. AtItem /\ Item.op # "unroll" /\ ~WithinBudget(Item.to)
    BY <1>4 DEF Call
  <2>2. Item.to \in From(program, Entry)
    BY <2>1, EnqueuedEdge
  <2>. QED
    BY <2>1, <2>2, PastBudget
<1>5. CASE Apply
  <2>1. AtItem /\ Item.op # "unroll" /\ Item.op \in {"apply", "type", "drop"}
    BY <1>5 DEF Apply, Applying
  <2>2. /\ Item.to \in Instances /\ Item.to \in From(program, Entry)
        /\ Top.inst \in From(program, Entry)
        /\ Item.to \in Uses(program, Top.inst)
    BY <2>1, EnqueuedEdge
  <2>3. CASE ~WithinBudget(Item.to)
    BY <2>2, <2>3, PastBudget
  <2>4. CASE Known(Item.to) /\ states[Item.to] \in {"Active", "Failed"}
    <3>1. Item.to \in DOMAIN states /\ states[Item.to] = "Active"
      BY <1>1, <2>4 DEF Known
    <3>2. Item.to \in Bodies(stack)
      BY <3>1 DEF WorkInv
    <3>3. PICK i \in 1..Len(stack) : stack[i].inst = Item.to
      BY <3>2 DEF Bodies
    <3>4. stack # <<>> /\ Top = Last(stack) /\ Last(stack) = stack[Len(stack)]
          /\ Len(stack) \in Nat \ {0}
      BY <1>2, <2>1, FrontFacts DEF AtItem, InBody, Top
    <3>5. Top.inst \in From(program, Item.to)
      <4>1. CASE i = Len(stack)
        <5>1. Top.inst = Item.to
          BY <3>3, <3>4, <4>1
        <5>. QED
          BY <2>2, <5>1, ReachFacts
      <4>2. CASE i # Len(stack)
        <5>1. i \in 1..(Len(stack) - 1)
          BY <3>4, <4>2
        <5>2. Last(stack).inst \in From(program, stack[i].inst)
          BY <1>2, <3>4, <5>1, PathOpen
        <5>. QED
          BY <3>3, <3>4, <5>2
      <4>. QED
        BY <4>1, <4>2
    <3>. QED
      BY <2>2, <3>5, WrongApplication
  <2>5. raised' = raised \/ ~WithinBudget(Item.to)
        \/ (Known(Item.to) /\ states[Item.to] \in {"Active", "Failed"})
    BY <1>5 DEF Apply
  <2>. QED
    BY <2>3, <2>4, <2>5
<1>6. CASE BodyFails
  <2>1. stack # <<>> /\ Top.kind = "body" /\ program.outcome[Top.inst] = "fails"
    BY <1>6 DEF BodyFails, AtEnd, InBody
  <2>2. Top.inst \in From(program, Entry)
    BY <2>1, TopFacts, FrameFields DEF KnownInv
  <2>. QED
    BY <2>1, <2>2, WrongNow
<1>7. CASE MakeFragment \/ Evaluate
  <2>1. stack # <<>> /\ Top.kind = "demand" /\ program.outcome[Top.inst] \in {"refused", "raises"}
    BY <1>7 DEF MakeFragment, Evaluate, InDemand
  <2>. PICK b \in From(program, Entry) : Top.inst \in Uses(program, b)
    BY <1>3, <2>1
  <2>. QED
    BY <2>1, WrongApplication
<1>8. CASE CloseOver
  <2>1. /\ stack # <<>> /\ Top.kind = "demand" /\ Top.todo # <<>>
        /\ Meets(Last(Top.todo)) \in {"Failed", "Active"}
    BY <1>8 DEF CloseOver, InDemand
  <2>2. Top \in DemandFrames(DOMAIN states) /\ Top.todo \in Seq(DOMAIN states)
        /\ Top.kind # "body" /\ Top.inst \in DOMAIN states /\ Top = Last(stack)
    BY <2>1, TopFacts, FrameFields
  <2>. PICK m : m = Last(Top.todo)
    OBVIOUS
  <2>3. m \in DOMAIN states /\ m \in Range(Top.todo)
    <3>1. Last(Top.todo) \in DOMAIN states /\ Last(Top.todo) \in Range(Top.todo)
      BY <2>1, <2>2, LastIn
    <3>. QED
      BY <3>1
  <2>4. states[m] = "Active"
    BY <1>1, <2>1, <2>3 DEF Meets
  <2>5. m \in From(program, Top.inst)
    <3>1. Sound(program, evaluations, Last(stack))
      BY <1>2, <2>1, PathOpen
    <3>. QED
      BY <2>2, <2>3, <3>1 DEF Sound
  <2>. PICK site : site = Last(Front(stack))
    OBVIOUS
  <2>6. /\ Front(stack) # <<>> /\ Front(stack) \in Seq(Frames(DOMAIN states))
        /\ site.inst \in DOMAIN states /\ Top.inst \in Uses(program, site.inst)
        /\ Path(program, evaluations, Front(stack))
    BY <2>1, Waiting
  <2>. PICK t \in Seq(Frames(DOMAIN states)) : t = Front(stack)
    BY <2>6
  <2>7. /\ Len(t) = Len(stack) - 1 /\ Len(t) \in Nat \ {0} /\ site = t[Len(t)]
        /\ Last(stack) = stack[Len(stack)]
        /\ \A i \in 1..(Len(stack) - 1) : t[i] = stack[i]
    BY <1>2, <2>1, <2>6, FrontFacts
  <2>8. PICK i \in 1..Len(stack) : stack[i].kind = "body" /\ stack[i].inst = m
    BY <2>3, <2>4 DEF WorkInv, Bodies
  <2>9. i \in 1..Len(t) /\ t[i].inst = m
    <3>1. i # Len(stack)
      BY <2>2, <2>7, <2>8
    <3>. QED
      BY <2>7, <2>8, <3>1
  <2>10. site.inst \in From(program, m)
    <3>1. CASE i = Len(t)
      <4>1. site.inst = m /\ m \in Instances
        BY <2>3, <2>7, <2>9, <3>1, KnownInstances DEF StackInv
      <4>. QED
        BY <4>1, ReachFacts
    <3>2. CASE i # Len(t)
      <4>1. i \in 1..(Len(t) - 1)
        BY <2>7, <2>9, <3>2
      <4>2. Last(t).inst \in From(program, t[i].inst)
        BY <2>6, <4>1, PathOpen
      <4>. QED
        BY <2>9, <4>2
    <3>. QED
      BY <3>1, <3>2
  <2>11. site.inst \in From(program, Top.inst)
    BY <2>5, <2>10, ReachOn
  <2>12. site.inst \in From(program, Entry)
    BY <2>6 DEF KnownInv
  <2>. QED
    BY <2>6, <2>11, <2>12, WrongApplication
<1>9. CASE Unroll
  BY <1>9 DEF Unroll
<1>10. CASE \/ DrainTakes \/ DrainSkips \/ Drained \/ Fold \/ Settle \/ Complete \/ UnwindBody
            \/ UnwindDemand \/ Fail
  BY <1>10 DEF DrainTakes, DrainSkips, Drained, Fold, Settle, Complete, UnwindBody,
               UnwindDemand, Fail
<1>. QED
  BY <1>4, <1>5, <1>6, <1>7, <1>8, <1>9, <1>10 DEF Next

\* Only an error that leaves a body fails an instance.
LEMMA FailedOnly ==
    ASSUME StackInv, Next, ~UnwindBody, NEW m \in DOMAIN states', states'[m] = "Failed"
    PROVE  m \in DOMAIN states /\ states[m] = "Failed"
<1>1. CASE UNCHANGED states
  BY <1>1
<1>2. ASSUME NEW n, Begin(n) PROVE m \in DOMAIN states /\ states[m] = "Failed"
  BY <1>2 DEF Begin
<1>3. ASSUME NEW n, Enqueue(n) PROVE m \in DOMAIN states /\ states[m] = "Failed"
  BY <1>3 DEF Enqueue, demand
<1>4. CASE Complete
  BY <1>4 DEF Complete, End
<1>5. CASE DrainTakes \/ CloseOver
  BY <1>1, <1>2, <1>5 DEF DrainTakes, CloseOver
<1>6. CASE Call \/ Apply
  BY <1>1, <1>3, <1>6 DEF Call, Apply, demand
<1>7. CASE \/ DrainSkips \/ Drained \/ Fail \/ Unroll \/ Fold \/ Settle \/ BodyFails \/ Evaluate
           \/ UnwindDemand \/ MakeFragment
  <2>1. UNCHANGED states
    BY <1>7 DEF DrainSkips, Drained, Fail, Unroll, Fold, Settle, BodyFails, Evaluate,
                UnwindDemand, MakeFragment, demand
  <2>. QED
    BY <1>1, <2>1
<1>. QED
  BY <1>4, <1>5, <1>6, <1>7 DEF Next

\* Every step that raises or reports an error does so for a wrong program.
LEMMA ErrorStep ==
    ASSUME StackInv, WorkInv, ClosureInv, DropsNothing, Distinct, PathInv, KnownInv, ErrorInv, Next
    PROVE  ErrorInv'
<1>1. UNCHANGED program
  BY StepProgram
<1>2. Wrong' = Wrong
  <2>1. AllEdges' = AllEdges /\ \A n : Applied(n)' = Applied(n)
    BY <1>1 DEF AllEdges, Applied, Called
  <2>. QED
    BY <1>1, <2>1 DEF Wrong
<1>3. result = "running"
  BY DEF Next, DrainTakes, DrainSkips, Drained, Call, Unroll, Apply, Fold, Settle, BodyFails,
         Complete, CloseOver, MakeFragment, Evaluate, UnwindBody, UnwindDemand, Fail, Applying,
         AtItem, AtEnd, InBody, InDemand, Running
<1>4. raised' = "none" => raised = "none"
  <2>1. CASE UnwindDemand
    BY <2>1, NoDropUnderWay DEF UnwindDemand
  <2>2. CASE ~UnwindDemand
    BY <2>2 DEF Next, DrainTakes, DrainSkips, Drained, Call, Unroll, Apply, Fold, Settle,
           BodyFails, Complete, CloseOver, MakeFragment, Evaluate, UnwindBody, Fail, Applying,
           AtItem, AtEnd, InBody, InDemand, Running
  <2>. QED
    BY <2>1, <2>2
<1>5. raised' = "none" => \A n \in DOMAIN states' : states'[n] # "Failed"
  <2>. SUFFICES ASSUME raised' = "none", NEW n \in DOMAIN states', states'[n] = "Failed"
                PROVE  FALSE
    OBVIOUS
  <2>1. ~UnwindBody
    BY <1>4 DEF UnwindBody
  <2>2. n \in DOMAIN states /\ states[n] = "Failed"
    BY <2>1, FailedOnly
  <2>. QED
    BY <1>4, <2>2 DEF ErrorInv
<1>6. raised' = "error" => Wrong
  <2>1. CASE raised = "none"
    BY <2>1, ErrorRaised
  <2>2. CASE raised = "error"
    BY <2>2 DEF ErrorInv
  <2>3. CASE raised = "fuel"
    <3>1. raised' # "error"
      BY <2>3 DEF Next, DrainTakes, DrainSkips, Drained, Call, Unroll, Apply, Fold, Settle,
           BodyFails, Complete, CloseOver, MakeFragment, Evaluate, UnwindBody, UnwindDemand, Fail,
           Applying, AtItem, AtEnd, InBody, InDemand, Running
    <3>. QED
      BY <3>1
  <2>. QED
    BY <2>1, <2>2, <2>3 DEF StackInv, Typed
<1>7. /\ result' = "error" => Wrong
      /\ result' = "ok" => stack' = <<>> /\ queue' = <<>> /\ raised' = "none"
  <2>1. CASE Drained
    BY <2>1 DEF Drained, Running, demand
  <2>2. CASE Fail
    BY <2>2 DEF Fail, ErrorInv, StackInv, Typed
  <2>3. CASE ~Drained /\ ~Fail
    <3>1. result' = result
      BY <2>3 DEF Next, DrainTakes, DrainSkips, Call, Unroll, Apply, Fold, Settle, BodyFails,
             Complete, CloseOver, MakeFragment, Evaluate, UnwindBody, UnwindDemand
    <3>. QED
      BY <1>3, <3>1
  <2>. QED
    BY <2>1, <2>2, <2>3
<1>. QED
  BY <1>2, <1>5, <1>6, <1>7 DEF ErrorInv

\* An elaboration that ends well has completed what the entry reaches.
LEMMA FineAtEnd ==
    ASSUME StackInv, WorkInv, ClosureInv, Distinct, KnownInv, DoneInv, ErrorInv, result = "ok"
    PROVE  ~Wrong
<1>1. stack = <<>> /\ queue = <<>> /\ \A n \in DOMAIN states : states[n] # "Failed"
  BY DEF ErrorInv
<1>2. Bodies(stack) = {} /\ Range(queue) = {}
  BY <1>1 DEF Bodies, Range
<1>3. \A n \in DOMAIN states : states[n] = "Completed"
  BY <1>1, <1>2 DEF WorkInv, StackInv, Typed, InstanceState
<1>4. DOMAIN states \subseteq Instances
  BY KnownInstances DEF StackInv
<1>5. ASSUME NEW n \in DOMAIN states PROVE Edges(program)[n] \subseteq DOMAIN states
  <2>1. Elaborated(program, evaluations, n) /\ Called(n) \subseteq Range(references[n])
    BY <1>3 DEF DoneInv, ClosureInv, CallsReferenced
  <2>2. references[n] \in Seq(DOMAIN states)
    BY <1>4 DEF StackInv, Typed
  <2>3. Range(references[n]) \subseteq DOMAIN states
    BY <2>2 DEF Range
  <2>4. Uses(program, n) \subseteq evaluations
    BY <2>1 DEF Elaborated, Apart
  <2>5. evaluations \subseteq DOMAIN states
    BY DEF StackInv, Typed, ClosureInv, FragmentsKnown, FragmentClosed
  <2>6. Edges(program)[n] = Called(n) \cup Uses(program, n)
    BY <1>4 DEF Edges, Called
  <2>. QED
    BY <2>1, <2>3, <2>4, <2>5, <2>6
<1>6. From(program, Entry) \subseteq DOMAIN states
  BY <1>4, <1>5, ReachWithin DEF KnownInv
<1>7. ASSUME NEW S \in SUBSET From(program, Entry), IsFiniteSet(S)
      PROVE  ~(Cardinality(S) > INSTANCE_BUDGET)
  <2>1. IsFiniteSet(DOMAIN states) /\ Cardinality(DOMAIN states) = Len(instances)
    BY KnownCount
  <2>2. S \in SUBSET (DOMAIN states)
    BY <1>6
  <2>3. Cardinality(S) <= Cardinality(DOMAIN states)
    BY <2>1, <2>2, FS_Subset
  <2>4. Cardinality(S) \in Nat
    BY <1>7, FS_CardinalityType
  <2>5. Len(instances) \in Nat /\ Len(instances) <= INSTANCE_BUDGET /\ INSTANCE_BUDGET \in Nat
    BY BoundsAssumption DEF StackInv, Typed
  <2>. QED
    BY <2>1, <2>3, <2>4, <2>5
<1>8. ASSUME NEW n \in From(program, Entry)
      PROVE  /\ program.outcome[n] # "fails"
             /\ \A m \in Uses(program, n) : /\ program.outcome[m] \notin {"refused", "raises"}
                                            /\ n \notin From(program, m)
  <2>1. Elaborated(program, evaluations, n)
    BY <1>3, <1>6 DEF DoneInv
  <2>2. ASSUME NEW m \in Uses(program, n)
        PROVE  program.outcome[m] \notin {"refused", "raises"} /\ n \notin From(program, m)
    <3>1. m \in evaluations /\ n \notin From(program, m)
      BY <2>1 DEF Elaborated, Apart
    <3>2. m \in DOMAIN fragments
      BY <3>1 DEF StackInv, Typed
    <3>. QED
      BY <3>1, <3>2 DEF DoneInv
  <2>. QED
    BY <2>1, <2>2 DEF Elaborated
<1>. QED
  BY <1>7, <1>8, WrongNow

\* Before anything is demanded but the entry.
LEMMA VerdictInit == Init => VerdictInv
<1>. SUFFICES ASSUME Init PROVE VerdictInv
  OBVIOUS
<1>1. DOMAIN states = {Entry} /\ states[Entry] = "Pending" /\ DOMAIN fragments = {}
  BY DEF Init
<1>2. Distinct
  BY DEF Init, Distinct
<1>3. PathInv
  BY DEF Init, PathInv, Path
<1>4. KnownInv
  <2>1. Entry \in From(program, Entry)
    BY EntryAssumption, ReachFacts
  <2>2. \A n \in Instances : Range(references[n]) = {}
    BY DEF Init, Range
  <2>. QED
    BY <1>1, <2>1, <2>2 DEF KnownInv
<1>5. DoneInv
  BY <1>1 DEF Init, DoneInv
<1>6. ErrorInv
  BY <1>1 DEF Init, ErrorInv
<1>. QED
  BY <1>2, <1>3, <1>4, <1>5, <1>6 DEF VerdictInv

\* Every step keeps the verdict the program's.
LEMMA VerdictStep == ElabInv /\ VerdictInv /\ [Next]_vars => VerdictInv'
<1>. SUFFICES ASSUME ElabInv, VerdictInv, [Next]_vars PROVE VerdictInv'
  OBVIOUS
<1>1. StackInv /\ WorkInv /\ ClosureInv /\ Distinct
  BY DEF ElabInv, VerdictInv
<1>2. CASE UNCHANGED vars
  <2>1. DropsNothing' = DropsNothing /\ Distinct' /\ PathInv' = PathInv
    BY <1>1, <1>2 DEF vars, DropsNothing, Distinct, PathInv
  <2>2. KnownInv' = KnownInv /\ DoneInv' = DoneInv
    BY <1>2 DEF vars, KnownInv, DoneInv
  <2>3. ErrorInv' = ErrorInv
    <3>1. AllEdges' = AllEdges /\ \A n : Applied(n)' = Applied(n)
      BY <1>2 DEF vars, AllEdges, Applied, Called
    <3>2. Wrong' = Wrong
      BY <1>2, <3>1 DEF vars, Wrong
    <3>. QED
      BY <1>2, <3>2 DEF vars, ErrorInv
  <2>. QED
    BY <2>1, <2>2, <2>3 DEF VerdictInv
<1>3. CASE Next
  <2>1. Distinct'
    BY <1>1, <1>3, DistinctStep
  <2>2. DropsNothing' = DropsNothing
    BY <1>3, StepProgram DEF DropsNothing
  <2>3. ASSUME DropsNothing PROVE PathInv' /\ KnownInv' /\ DoneInv' /\ ErrorInv'
    <3>1. PathInv /\ KnownInv /\ DoneInv /\ ErrorInv
      BY <2>3 DEF VerdictInv
    <3>. QED
      BY <1>1, <1>3, <2>3, <3>1, PathStep, KnownStep, DoneStep, ErrorStep
  <2>. QED
    BY <2>1, <2>2, <2>3 DEF VerdictInv
<1>. QED
  BY <1>2, <1>3

\* The verdict depends on the program and not on the order in which the
\* worklist meets its instances: where no error is dropped, an elaboration that
\* ends well has nothing wrong that the entry reaches, and one that ends with
\* an error has, for every program and every budget.
THEOREM SpecializerVerdictExact == Spec => []VerdictExact
<1>1. Init => VerdictInv
  BY VerdictInit
<1>2. ElabInv /\ VerdictInv /\ [Next]_vars => VerdictInv'
  BY VerdictStep
<1>3. ElabInv /\ VerdictInv => VerdictExact
  <2>. SUFFICES ASSUME ElabInv, VerdictInv, DropsNothing
                PROVE  (result = "ok" => ~Wrong) /\ (result = "error" => Wrong)
    BY DEF VerdictExact
  <2>1. /\ StackInv /\ WorkInv /\ ClosureInv
        /\ Distinct /\ KnownInv /\ DoneInv /\ ErrorInv
    BY DEF ElabInv, VerdictInv
  <2>. QED
    BY <2>1, FineAtEnd DEF ErrorInv
<1>. QED
  BY <1>1, <1>2, <1>3, SpecializerInvariant, PTL DEF Spec

=============================================================================
