-------------------------- MODULE ConstraintsProofs --------------------------
(***************************************************************************)
(* Proofs about ReturnConstraintsPass: when it has ended, its facts and    *)
(* what its branches give to their successors are a fixpoint, and so what  *)
(* functions returned last satisfies their constraints in every run.       *)
(***************************************************************************)
EXTENDS ExecutionProofs

-----------------------------------------------------------------------------
(* Facts, ordered by what they allow.                                      *)

\* y has a constraint wherever x has one, and allows what x allows.
Below(x, y) == DOMAIN x \subseteq DOMAIN y /\ \A g \in DOMAIN x : x[g] \subseteq y[g]

LEMMA BelowTransitive ==
  ASSUME NEW x, NEW y, NEW z, Below(x, y), Below(y, z)
  PROVE  Below(x, z)
BY DEF Below

\* A join allows what any of the joined facts does, and no more: joining what is
\* below one of them to it changes nothing.
LEMMA JoinFactsIsLeast ==
  ASSUME NEW K, NEW S \in SUBSET Partial(K)
  PROVE  /\ \A x \in S : Below(x, JoinFacts(S))
         /\ \A y \in S : (\A x \in S : Below(x, y)) => JoinFacts(S) = y
<1> DEFINE D == UNION {DOMAIN x : x \in S}
           at(k) == {x[k] : x \in {y \in S : k \in DOMAIN y}}
<1>1. JoinFacts(S) = [k \in D |-> JoinAll(at(k))]
  BY DEF JoinFacts
<1>2. ASSUME NEW k
      PROVE  JoinAll(at(k)) = UNION at(k)
  <2>1. at(k) \in SUBSET SUBSET Signs
    BY PartialFunction
  <2> HIDE DEF at
  <2> QED
    BY <2>1, JoinAllIsUnion
<1>3. DOMAIN JoinFacts(S) = D /\ \A k \in D : JoinFacts(S)[k] = UNION at(k)
  <2> HIDE DEF D, at
  <2> QED
    BY <1>1, <1>2
<1>4. ASSUME NEW x \in S
      PROVE  Below(x, JoinFacts(S))
  <2>1. DOMAIN x \subseteq D
    BY <1>4
  <2>2. ASSUME NEW k \in DOMAIN x
        PROVE  x[k] \subseteq JoinFacts(S)[k]
    <3>1. x[k] \in at(k)
      BY <1>4, <2>2
    <3> HIDE DEF D, at
    <3> QED
      BY <1>3, <2>1, <3>1
  <2> QED
    BY <1>3, <2>1, <2>2 DEF Below
<1>5. ASSUME NEW y \in S, \A x \in S : Below(x, y)
      PROVE  JoinFacts(S) = y
  <2>1. D = DOMAIN y
    BY <1>5 DEF Below
  <2>2. ASSUME NEW k \in DOMAIN y
        PROVE  UNION at(k) = y[k]
    BY <1>5, <2>2 DEF Below
  <2>3. y = [k \in DOMAIN y |-> y[k]]
    BY PartialFunction
  <2> HIDE DEF D, at
  <2>4. JoinFacts(S) = [k \in D |-> JoinFacts(S)[k]]
    BY <1>1
  <2> QED
    BY <1>3, <2>1, <2>2, <2>3, <2>4
<1> QED
  BY <1>4, <1>5

-----------------------------------------------------------------------------
(* What a visit makes of the facts.                                        *)

\* FunctionsHeld and Tested, of any function of the program.
FunctionsHeldIn(f, v) ==
  LET d == PointOf(f, v)
      held == Held(propagation[f][d[1]][d[2]], v)
  IN {DefinitionOf(f, c).tag : c \in {h \in held : IsA(f, h, "call")}}

TestedIn(f, c) ==
  IF IsInstruction(f, c.args[1]) THEN {c.args[1]}
  ELSE IF IsInstruction(f, c.args[2]) THEN {c.args[2]} ELSE {}

\* The terminators that test something.
OnComparison(f, i) == i.op = "br" /\ Len(i.to) = 2 /\ IsA(f, i.args[1], "icmp")
OnCases(f, i) == i.op = "switch" /\ IsInstruction(f, i.args[1]) /\ i.cases # <<>>

\* The functions whose result instruction i is taken to test.
TestedBy(f, i) ==
  IF OnComparison(f, i)
  THEN UNION {FunctionsHeldIn(f, v) : v \in TestedIn(f, DefinitionOf(f, i.args[1]))}
  ELSE IF OnCases(f, i) THEN FunctionsHeldIn(f, i.args[1]) ELSE {}

\* The element that each successor learns, as pairs.
GivenBy(f, i) ==
  IF OnComparison(f, i)
  THEN {<<i.to[k], AbstractICmp(DefinitionOf(f, i.args[1]))[k]>> : k \in 1..2}
  ELSE IF OnCases(f, i)
  THEN {<<i.to[k + 1], {SignOf(Literals[i.cases[k]].n)}>> : k \in DOMAIN i.cases}
  ELSE {}

\* What instruction i makes of the fact `in` before it, and what it joins into
\* the entries of its successors.
Outcome(f, i, in) ==
  IF i.op = "call" THEN Updated(in, i.tag, Signs)
  ELSE [g \in DOMAIN in \union TestedBy(f, i) |-> IF g \in TestedBy(f, i) THEN BOTTOM ELSE in[g]]

PushedBy(f, i, in) == {<<p[1], Narrowed(in, TestedBy(f, i), p[2])>> : p \in GivenBy(f, i)}

\* A block that tests nothing gives nothing.
LEMMA GivesNothing ==
  ASSUME NEW f, NEW i, NEW in, TestedBy(f, i) = {}, NEW x
  PROVE  \A p \in PushedBy(f, i, in) : Below(p[2], x)
BY DEF PushedBy, Narrowed, Below

LEMMA OutcomeUntested ==
  ASSUME NEW K, NEW in \in Partial(K), NEW f, NEW i, TestedBy(f, i) = {}, i.op # "call"
  PROVE  Outcome(f, i, in) = in
<1>1. in = [g \in DOMAIN in |-> in[g]]
  BY PartialFunction
<1> QED
  BY <1>1 DEF Outcome

\* A visit is an Outcome.
LEMMA ConstrainMeans ==
  ASSUME WalkOK, TypedFactsOK, blk > 0, idx > 0, pass = "constraints", AnalysisNext
  PROVE  /\ Step(Outcome(f0, I, ConstraintsIn) # ConstraintsOut)
         /\ propagation' = propagation
         /\ \/ /\ constraints' = [constraints EXCEPT ![f0][blk][idx] = Outcome(f0, I, ConstraintsIn)]
               /\ PushedBy(f0, I, ConstraintsIn) = {}
            \/ constraints' = Pushed(constraints, Outcome(f0, I, ConstraintsIn),
                                     PushedBy(f0, I, ConstraintsIn))
<1>1. ConstraintsIn \in Partial(STRING)
  BY AtAnInstruction DEF TypedFactsOK, Typed, ConstraintsIn
<1>2. ConstrainCall \/ ConstrainBranch \/ ConstrainSwitch \/ ConstrainOther
  BY DEF AnalysisNext, NextFunction, EnterPropagation, PropagateCall, PropagateLoad, PropagateStore,
         PropagateCast, PropagatePhi, PropagateOther, EnterReturned, ReturnedCall, ReturnedRet,
         ReturnedStore, ReturnedLoad, ReturnedPhi, ReturnedOther, EnterConstraints,
         EnterRange, RangeStore, RangeLoad, RangePhi, RangeBranch, RangeSwitch, RangeRet, RangeOther,
         At, Others, Entering
<1>3. CASE ConstrainCall
  <2>1. I.op = "call"
    BY <1>3 DEF ConstrainCall, At
  <2>2. Constrain(Outcome(f0, I, ConstraintsIn))
    BY <1>3, <2>1 DEF ConstrainCall, Outcome
  <2>3. PushedBy(f0, I, ConstraintsIn) = {}
    BY <2>1 DEF PushedBy, GivenBy, OnComparison, OnCases
  <2> QED
    BY <2>2, <2>3 DEF Constrain
<1>4. ASSUME ~OnComparison(f0, I), ~OnCases(f0, I), I.op # "call", Constrain(ConstraintsIn)
      PROVE  /\ Constrain(Outcome(f0, I, ConstraintsIn))
             /\ PushedBy(f0, I, ConstraintsIn) = {}
  <2>1. TestedBy(f0, I) = {} /\ GivenBy(f0, I) = {}
    BY <1>4 DEF TestedBy, GivenBy
  <2>2. Outcome(f0, I, ConstraintsIn) = ConstraintsIn
    BY <1>1, <1>4, <2>1, OutcomeUntested
  <2> QED
    BY <1>4, <2>1, <2>2 DEF PushedBy
<1>5. ASSUME NEW tested, NEW pushed, ConstrainBranches(tested, pushed), I.op # "call",
             tested = TestedBy(f0, I), pushed = GivenBy(f0, I)
      PROVE  /\ Step(Outcome(f0, I, ConstraintsIn) # ConstraintsOut)
             /\ propagation' = propagation
             /\ constraints' = Pushed(constraints, Outcome(f0, I, ConstraintsIn),
                                      PushedBy(f0, I, ConstraintsIn))
  BY <1>5 DEF ConstrainBranches, Outcome, PushedBy
<1>6. CASE ConstrainBranch
  <2>1. I.op = "br"
    BY <1>6 DEF ConstrainBranch, At
  <2>2. CASE OnComparison(f0, I)
    <3> DEFINE c == DefinitionOf(f0, I.args[1])
               tested == UNION {FunctionsHeld(v) : v \in Tested(c)}
               pushed == {<<I.to[k], AbstractICmp(c)[k]>> : k \in 1..2}
    <3>1. ConstrainBranches(tested, pushed)
      BY <1>6, <2>2 DEF ConstrainBranch, OnComparison
    <3>2. tested = TestedBy(f0, I)
      BY <2>2 DEF TestedBy, TestedIn, Tested, FunctionsHeldIn, FunctionsHeld
    <3>3. pushed = GivenBy(f0, I)
      BY <2>2 DEF GivenBy
    <3> HIDE DEF tested, pushed
    <3> QED
      BY <1>5, <2>1, <3>1, <3>2, <3>3
  <2>3. CASE ~OnComparison(f0, I)
    <3>1. Constrain(ConstraintsIn)
      BY <1>6, <2>1, <2>3 DEF ConstrainBranch, OnComparison
    <3> QED
      BY <1>4, <2>1, <2>3, <3>1 DEF OnCases, Constrain
  <2> QED
    BY <2>2, <2>3
<1>7. CASE ConstrainSwitch
  <2>1. I.op = "switch"
    BY <1>7 DEF ConstrainSwitch, At
  <2>2. CASE OnCases(f0, I)
    <3> DEFINE tested == FunctionsHeld(I.args[1])
               pushed == {<<I.to[k + 1], {SignOf(Literals[I.cases[k]].n)}>> : k \in DOMAIN I.cases}
    <3>1. ConstrainBranches(tested, pushed)
      BY <1>7, <2>2 DEF ConstrainSwitch, OnCases
    <3>2. tested = TestedBy(f0, I)
      BY <2>1, <2>2 DEF TestedBy, OnComparison, FunctionsHeldIn, FunctionsHeld
    <3>3. pushed = GivenBy(f0, I)
      BY <2>1, <2>2 DEF GivenBy, OnComparison
    <3> HIDE DEF tested, pushed
    <3> QED
      BY <1>5, <2>1, <3>1, <3>2, <3>3
  <2>3. CASE ~OnCases(f0, I)
    <3>1. Constrain(ConstraintsIn)
      BY <1>7, <2>1, <2>3 DEF ConstrainSwitch, OnCases
    <3> QED
      BY <1>4, <2>1, <2>3, <3>1 DEF OnComparison, Constrain
  <2> QED
    BY <2>2, <2>3
<1>8. CASE ConstrainOther
  <2>1. I.op \notin {"call", "br", "switch"} /\ Constrain(ConstraintsIn)
    BY <1>8 DEF ConstrainOther, Others
  <2> QED
    BY <1>4, <2>1 DEF OnComparison, OnCases, Constrain
<1> QED
  BY <1>2, <1>3, <1>6, <1>7, <1>8

\* What is pushed are facts of the pass.
LEMMA PushedByType ==
  ASSUME WalkOK, TypedFactsOK, blk > 0, idx > 0
  PROVE  /\ ConstraintsIn \in Partial(STRING)
         /\ TestedBy(f0, I) \in SUBSET STRING
         /\ \A p \in GivenBy(f0, I) : p[2] \in SUBSET Signs
         /\ \A p \in PushedBy(f0, I, ConstraintsIn) : p[2] \in Partial(STRING)
<1>1. ConstraintsIn \in Partial(STRING)
  BY AtAnInstruction DEF TypedFactsOK, Typed, ConstraintsIn
<1>2. TestedBy(f0, I) \in SUBSET STRING
  <2>1. \A v : FunctionsHeldIn(f0, v) = FunctionsHeld(v)
    BY DEF FunctionsHeldIn, FunctionsHeld
  <2> QED
    BY <2>1, FunctionsHeldType DEF TestedBy
<1>3. \A p \in GivenBy(f0, I) : p[2] \in SUBSET Signs
  <2>1. OnComparison(f0, I) =>
          \A k \in 1..2 : AbstractICmp(DefinitionOf(f0, I.args[1]))[k] \in SUBSET Signs
    BY ComparisonType DEF OnComparison
  <2>2. \A k \in DOMAIN I.cases : SignOf(Literals[I.cases[k]].n) \in Signs
    BY CasesType
  <2> QED
    BY <2>1, <2>2 DEF GivenBy
<1>4. ASSUME NEW p \in GivenBy(f0, I)
      PROVE  Narrowed(ConstraintsIn, TestedBy(f0, I), p[2]) \in Partial(STRING)
  <2>1. p[2] \in SUBSET Signs
    BY <1>3, <1>4
  <2> QED
    BY <1>1, <1>2, <2>1, NarrowedType
<1> QED
  BY <1>1, <1>2, <1>3, <1>4 DEF PushedBy

\* Where a visit writes, and that it only joins to the entries.
LEMMA ConstraintsVisited ==
  ASSUME WalkOK, TypedFactsOK, blk > 0, idx > 0, pass = "constraints", AnalysisNext
  PROVE  /\ \A f \in DOMAIN program.body : \A b \in DOMAIN program.body[f] :
              \A i \in 0..LastPoint(f, b) :
                f # f0 \/ (i # 0 /\ ~(b = blk /\ i = idx)) =>
                  constraints'[f][b][i] = constraints[f][b][i]
         /\ constraints'[f0][blk][idx] = Outcome(f0, I, ConstraintsIn)
         /\ \A b \in DOMAIN program.body[f0] :
              /\ Below(constraints[f0][b][0], constraints'[f0][b][0])
              /\ \A p \in PushedBy(f0, I, ConstraintsIn) :
                   p[1] = b => Below(p[2], constraints'[f0][b][0])
              /\ (\A p \in PushedBy(f0, I, ConstraintsIn) :
                    p[1] = b => Below(p[2], constraints[f0][b][0])) =>
                 constraints'[f0][b][0] = constraints[f0][b][0]
<1> DEFINE out == Outcome(f0, I, ConstraintsIn)
           pushed == PushedBy(f0, I, ConstraintsIn)
           joined(b) == {constraints[f0][b][0]} \union {p[2] : p \in {q \in pushed : q[1] = b}}
<1>1. /\ f0 \in DOMAIN program.body /\ Body = program.body[f0]
      /\ blk \in DOMAIN program.body[f0] /\ idx \in 1..LastPoint(f0, blk)
      /\ LastPoint(f0, blk) \in Nat /\ idx \in 0..LastPoint(f0, blk)
      /\ \A b \in DOMAIN program.body[f0] : LastPoint(f0, b) \in Nat \ {0}
  BY AtAnInstruction, AtAnEntry
<1>2. Typed(constraints, Partial(STRING)) /\ Shaped(constraints)
  BY DEF TypedFactsOK, Typed
<1>3. \A p \in pushed : p[2] \in Partial(STRING)
  BY PushedByType
<1>4. \/ constraints' = Put(constraints, f0, blk, idx, out) /\ pushed = {}
      \/ constraints' = Pushed(constraints, out, pushed)
  BY ConstrainMeans DEF Put
<1> HIDE DEF out, pushed
<1>5. CASE constraints' = Put(constraints, f0, blk, idx, out) /\ pushed = {}
  <2>1. \A f \in DOMAIN program.body : \A b \in DOMAIN program.body[f] :
          \A i \in 0..LastPoint(f, b) :
            constraints'[f][b][i] =
              IF f = f0 /\ b = blk /\ i = idx THEN out ELSE constraints[f][b][i]
    BY <1>1, <1>2, <1>5, StoredAtAPoint
  <2>2. \A b \in DOMAIN program.body[f0] : constraints'[f0][b][0] = constraints[f0][b][0]
    BY <1>1, <2>1
  <2>3. constraints'[f0][blk][idx] = out
    BY <1>1, <2>1
  <2> QED
    BY <1>1, <1>5, <2>1, <2>2, <2>3 DEF out, pushed, Below
<1>6. CASE constraints' = Pushed(constraints, out, pushed)
  <2> DEFINE new == [b \in DOMAIN Body |->
                      [i \in 0..LastPoint(f0, b) |->
                        IF b = blk /\ i = idx THEN out
                        ELSE IF i = 0 THEN JoinFacts(joined(b)) ELSE constraints[f0][b][i]]]
  <2>1. constraints' = [constraints EXCEPT ![f0] = new]
    BY <1>6 DEF Pushed
  <2>2. \A b \in DOMAIN program.body[f0] : \A i \in 0..LastPoint(f0, b) :
          new[b][i] = IF b = blk /\ i = idx THEN out
                      ELSE IF i = 0 THEN JoinFacts(joined(b)) ELSE constraints[f0][b][i]
    BY <1>1
  <2> HIDE DEF new, joined
  <2>3. constraints'[f0] = new /\ \A f \in DOMAIN program.body : f # f0 => constraints'[f] = constraints[f]
    BY <1>1, <1>2, <2>1 DEF Shaped
  <2>4. ASSUME NEW b \in DOMAIN program.body[f0]
        PROVE  /\ constraints'[f0][b][0] = JoinFacts(joined(b))
               /\ joined(b) \in SUBSET Partial(STRING)
    <3>1. 0 \in 0..LastPoint(f0, b) /\ idx # 0
      BY <1>1, <2>4
    <3>2. constraints[f0][b][0] \in Partial(STRING)
      BY <1>1, <1>2, <2>4, <3>1 DEF Typed
    <3>3. joined(b) \in SUBSET Partial(STRING)
      BY <1>3, <3>2 DEF joined
    <3> QED
      BY <2>2, <2>3, <2>4, <3>1, <3>3
  <2>5. ASSUME NEW b \in DOMAIN program.body[f0]
        PROVE  /\ Below(constraints[f0][b][0], constraints'[f0][b][0])
               /\ \A p \in pushed : p[1] = b => Below(p[2], constraints'[f0][b][0])
    <3>1. constraints[f0][b][0] \in joined(b) /\ \A p \in pushed : p[1] = b => p[2] \in joined(b)
      BY DEF joined
    <3> QED
      BY <2>4, <2>5, <3>1, JoinFactsIsLeast
  <2>6. ASSUME NEW b \in DOMAIN program.body[f0],
               \A p \in pushed : p[1] = b => Below(p[2], constraints[f0][b][0])
        PROVE  constraints'[f0][b][0] = constraints[f0][b][0]
    <3>1. constraints[f0][b][0] \in joined(b)
      BY DEF joined
    <3>2. \A x \in joined(b) : Below(x, constraints[f0][b][0])
      BY <2>6 DEF joined, Below
    <3> QED
      BY <2>4, <2>6, <3>1, <3>2, JoinFactsIsLeast
  <2>7. constraints'[f0][blk][idx] = out
    BY <1>1, <2>2, <2>3
  <2>8. ASSUME NEW f \in DOMAIN program.body, NEW b \in DOMAIN program.body[f],
               NEW i \in 0..LastPoint(f, b), f # f0 \/ (i # 0 /\ ~(b = blk /\ i = idx))
        PROVE  constraints'[f][b][i] = constraints[f][b][i]
    BY <2>2, <2>3, <2>8
  <2> QED
    BY <2>5, <2>6, <2>7, <2>8 DEF out, pushed
<1> QED
  BY <1>4, <1>5, <1>6

\* The entry of a block.
LEMMA ConstraintsEntered ==
  ASSUME WalkOK, TypedFactsOK, EnterConstraints
  PROVE  /\ \A f \in DOMAIN program.body : \A b \in DOMAIN program.body[f] :
              \A i \in 0..LastPoint(f, b) :
                ~(f = f0 /\ b = blk /\ i = 0) => constraints'[f][b][i] = constraints[f][b][i]
         /\ Below(constraints[f0][blk][0], constraints'[f0][blk][0])
         /\ \A a \in Predecessors(f0, blk) :
              Below(constraints[f0][a][LastPoint(f0, a)], constraints'[f0][blk][0])
<1> DEFINE S == {constraints[f0][blk][0]}
                  \union {constraints[f0][b][LastPoint(f0, b)] : b \in Predecessors(f0, blk)}
<1>1. blk > 0
  BY DEF EnterConstraints, Entering
<1>2. Typed(constraints, Partial(STRING)) /\ Shaped(constraints)
  BY DEF TypedFactsOK, Typed
<1>3. S \in SUBSET Partial(STRING)
  <2>1. \A b \in Predecessors(f0, blk) : constraints[f0][b][LastPoint(f0, b)] \in Partial(STRING)
    BY <1>1, <1>2, AtAnEntry DEF Typed, Predecessors
  <2>2. constraints[f0][blk][0] \in Partial(STRING)
    BY <1>1, <1>2, AtAnEntry DEF Typed
  <2> QED
    BY <2>1, <2>2
<1>4. constraints' = Put(constraints, f0, blk, 0, JoinFacts(S))
  BY DEF EnterConstraints, Put
<1>5. /\ constraints[f0][blk][0] \in S
      /\ \A a \in Predecessors(f0, blk) : constraints[f0][a][LastPoint(f0, a)] \in S
  OBVIOUS
<1> HIDE DEF S
<1>6. \A f \in DOMAIN program.body : \A b \in DOMAIN program.body[f] :
        \A i \in 0..LastPoint(f, b) :
          constraints'[f][b][i] =
            IF f = f0 /\ b = blk /\ i = 0 THEN JoinFacts(S) ELSE constraints[f][b][i]
  BY <1>1, <1>2, <1>4, AtAnEntry, StoredAtAPoint
<1>7. constraints'[f0][blk][0] = JoinFacts(S)
  BY <1>1, <1>6, AtAnEntry
<1> QED
  BY <1>3, <1>5, <1>6, <1>7, JoinFactsIsLeast

\* The facts of the pass change in no other way.
LEMMA ConstraintsMoves ==
  ASSUME AnalysisNext
  PROVE  \/ constraints' = constraints /\ NextFunction
         \/ constraints' = constraints /\ pass # "constraints" /\ pass' = pass
         \/ EnterConstraints
         \/ pass = "constraints" /\ blk > 0 /\ idx > 0
<1>1. CASE NextFunction
  BY <1>1 DEF NextFunction, facts
<1>2. CASE EnterConstraints \/ EnterPropagation \/ EnterReturned \/ EnterRange
  BY <1>2 DEF EnterPropagation, EnterReturned, EnterRange, Entering, Entered
<1>3. CASE \/ PropagateCall \/ PropagateLoad \/ PropagateStore \/ PropagateCast \/ PropagatePhi
           \/ PropagateOther
  <2>1. pass = "propagation"
    BY <1>3 DEF PropagateCall, PropagateLoad, PropagateStore, PropagateCast, PropagatePhi,
                PropagateOther, At, Others
  <2>2. \E fact : Propagate(fact)
    BY <1>3 DEF PropagateCall, PropagateLoad, PropagateStore, PropagateCast, PropagatePhi,
                PropagateOther
  <2>3. constraints' = constraints /\ \E d : Step(d)
    BY <2>2 DEF Propagate
  <2> QED
    BY <2>1, <2>3, StepKeeps
<1>4. CASE \/ ReturnedCall \/ ReturnedRet \/ ReturnedStore \/ ReturnedLoad \/ ReturnedPhi
           \/ ReturnedOther
  <2>1. pass = "returned"
    BY <1>4
    DEF ReturnedCall, ReturnedRet, ReturnedStore, ReturnedLoad, ReturnedPhi, ReturnedOther,
        At, Others
  <2>2. ReturnedPhi \/ \E fact : Return(fact)
    BY <1>4
    DEF ReturnedCall, ReturnedRet, ReturnedStore, ReturnedLoad, ReturnedOther
  <2>3. constraints' = constraints /\ \E d : Step(d)
    BY <2>2 DEF Return, ReturnedPhi
  <2> QED
    BY <2>1, <2>3, StepKeeps
<1>5. CASE ConstrainCall \/ ConstrainBranch \/ ConstrainSwitch \/ ConstrainOther
  BY <1>5 DEF ConstrainCall, ConstrainBranch, ConstrainSwitch, ConstrainOther, At, Others
<1>6. CASE \/ RangeStore \/ RangeLoad \/ RangePhi \/ RangeBranch \/ RangeSwitch \/ RangeRet
           \/ RangeOther
  <2>1. pass = "range"
    BY <1>6
    DEF RangeStore, RangeLoad, RangePhi, RangeBranch, RangeSwitch, RangeRet, RangeOther, At,
        Others
  <2>2. \/ \E fact : Ranges(fact)
        \/ \E S, T : RangeBranches(S, T)
        \/ RangeRet
    BY <1>6 DEF RangeStore, RangeLoad, RangePhi, RangeBranch, RangeSwitch, RangeOther
  <2>3. constraints' = constraints /\ \E d : Step(d)
    BY <2>2 DEF Ranges, RangeBranches, RangeRet
  <2> QED
    BY <2>1, <2>3, StepKeeps
<1> QED
  BY <1>1, <1>2, <1>3, <1>4, <1>5, <1>6 DEF AnalysisNext

-----------------------------------------------------------------------------
(* The pass ends at a fixpoint.                                            *)

ConstrainedAt(f, b, i) ==
  constraints[f][b][i] = Outcome(f, program.body[f][b][i], constraints[f][b][i - 1])

ConstrainedEntry(f, b) ==
  \A a \in Predecessors(f, b) : Below(constraints[f][a][LastPoint(f, a)], constraints[f][b][0])

Constrained(f) ==
  \A b \in DOMAIN program.body[f] :
    /\ ConstrainedEntry(f, b)
    /\ \A i \in 1..LastPoint(f, b) : ConstrainedAt(f, b, i)

ConstrainedSoFar ==
  \A b \in DOMAIN Body :
    /\ Visited(b, 0) => ConstrainedEntry(f0, b)
    /\ \A i \in 1..LastPoint(f0, b) : Visited(b, i) => ConstrainedAt(f0, b, i)

\* What the terminator of block a gives has reached its successors.
Given(f, a) ==
  \A p \in PushedBy(f, Terminator(f, a), constraints[f][a][LastPoint(f, a) - 1]) :
    Below(p[2], constraints[f][p[1]][0])

\* The terminator is next, and what it is visited with has changed.
Ahead(f, a) ==
  pass = "constraints" /\ f = f0 /\ a = blk /\ changed /\ idx = LastPoint(f, a)

\* A block that was visited has given what it has to give, or is about to.
GivenOK ==
  \A f \in DOMAIN program.body : \A a \in DOMAIN program.body[f] :
    DOMAIN constraints[f][a][LastPoint(f, a)] # {} => Given(f, a) \/ Ahead(f, a)

\* While no fact has changed in this round, the points visited are stable; the
\* functions left are.
ConstrainedOK ==
  /\ pass \in {"propagation", "returned"} => constraints = Everywhere(Empty)
  /\ pass = "constraints" /\ (blk = 0 \/ ~changed) => ConstrainedSoFar
  /\ pass = "constraints" => \A f \in Left : Constrained(f)
  /\ pass \in {"range", "done"} => \A f \in Analysed : Constrained(f)
  /\ GivenOK

\* The instructions of a program.
LEMMA InstructionAt ==
  ASSUME program \in Programs, NEW f \in DOMAIN program.body, NEW b \in DOMAIN program.body[f],
         NEW k \in 1..LastPoint(f, b)
  PROVE  /\ program.body[f][b][k] \in Instructions
         /\ IsInstructionOf(program.body[f], program.body[f][b][k])
         /\ program.body[f][b][k].op \in Terminators <=> k = LastPoint(f, b)
<1>1. IsBody(program.body[f]) /\ k \in DOMAIN program.body[f][b]
  BY ProgramType, BodyType
<1> QED
  BY <1>1, BodyType DEF IsBody

LEMMA TerminatorType ==
  ASSUME program \in Programs, NEW f \in DOMAIN program.body, NEW a \in DOMAIN program.body[f]
  PROVE  /\ Terminator(f, a) = program.body[f][a][LastPoint(f, a)]
         /\ Terminator(f, a) \in Instructions
         /\ IsInstructionOf(program.body[f], Terminator(f, a))
         /\ Terminator(f, a).op \in Terminators
<1>1. LastPoint(f, a) \in 1..LastPoint(f, a)
  BY BodyType
<1>2. Terminator(f, a) = program.body[f][a][LastPoint(f, a)]
  BY DEF Terminator, LastPoint
<1> QED
  BY <1>1, <1>2, InstructionAt

\* What is pushed goes to successors.
LEMMA PushedToSuccessors ==
  ASSUME program \in Programs, NEW f \in DOMAIN program.body, NEW a \in DOMAIN program.body[f],
         NEW in
  PROVE  \A p \in PushedBy(f, Terminator(f, a), in) : p[1] \in DOMAIN program.body[f]
<1> DEFINE i == Terminator(f, a)
<1>1. i \in Instructions /\ IsInstructionOf(program.body[f], i)
  BY TerminatorType
<1>2. \A j \in DOMAIN i.to : i.to[j] \in DOMAIN program.body[f]
  BY <1>1 DEF IsInstructionOf
<1> HIDE DEF i
<1>3. i.op = "br" /\ Len(i.to) = 2 => 1..2 \subseteq DOMAIN i.to
  <2>1. i.to \in Seq(Nat)
    BY <1>1 DEF Instructions
  <2> QED
    BY <2>1
<1>4. i.op = "switch" => \A k \in DOMAIN i.cases : k + 1 \in DOMAIN i.to
  BY <1>1, Operands
<1>5. \A p \in GivenBy(f, i) : p[1] \in DOMAIN program.body[f]
  <2>1. CASE OnComparison(f, i)
    BY <1>2, <1>3, <2>1 DEF GivenBy, OnComparison
  <2>2. CASE ~OnComparison(f, i) /\ OnCases(f, i)
    BY <1>2, <1>4, <2>2 DEF GivenBy, OnCases
  <2>3. CASE ~OnComparison(f, i) /\ ~OnCases(f, i)
    BY <2>3 DEF GivenBy
  <2> QED
    BY <2>1, <2>2, <2>3
<1> QED
  BY <1>5 DEF PushedBy, i

\* The point that defines a value.
LEMMA PointType ==
  ASSUME program \in Programs, NEW f \in DOMAIN program.body, NEW v, IsInstruction(f, v)
  PROVE  /\ PointOf(f, v)[1] \in DOMAIN program.body[f]
         /\ PointOf(f, v)[2] \in 1..LastPoint(f, PointOf(f, v)[1])
         /\ PointOf(f, v)[2] \in DOMAIN program.body[f][PointOf(f, v)[1]]
         /\ program.body[f][PointOf(f, v)[1]][PointOf(f, v)[2]].id = v
         /\ DefinitionOf(f, v) = program.body[f][PointOf(f, v)[1]][PointOf(f, v)[2]]
<1> DEFINE d == PointOf(f, v)
<1>1. d \in Definitions(f, v)
  BY DEF IsInstruction, PointOf
<1>2. /\ d[1] \in DOMAIN program.body[f] /\ d[2] \in 1..LastPoint(f, d[1])
      /\ program.body[f][d[1]][d[2]].id = v
  <2> HIDE DEF d
  <2> QED
    BY <1>1 DEF Definitions, Points
<1>3. d[2] \in DOMAIN program.body[f][d[1]]
  BY <1>2, BodyType
<1>4. DefinitionOf(f, v) = program.body[f][d[1]][d[2]]
  BY DEF DefinitionOf
<1> QED
  BY <1>2, <1>3, <1>4

\* The comparison that a branch tests is the instruction before it.
LEMMA ComparedBefore ==
  ASSUME program \in Programs, TestsWhereComputed(program),
         NEW f \in DOMAIN program.body, NEW a \in DOMAIN program.body[f],
         OnComparison(f, Terminator(f, a))
  PROVE  /\ LastPoint(f, a) > 1
         /\ DefinitionOf(f, Terminator(f, a).args[1]) = program.body[f][a][LastPoint(f, a) - 1]
<1> DEFINE i == Terminator(f, a)
           v == i.args[1]
           d == PointOf(f, v)
<1>1. i \in Instructions /\ IsInstructionOf(program.body[f], i)
  BY TerminatorType
<1>2. i.op = "br" /\ Len(i.to) = 2 /\ IsA(f, v, "icmp")
  BY DEF OnComparison
<1>3. Len(i.args) = 1
  <2> HIDE DEF i, v
  <2>1. Len(i.args) = Len(i.to) - 1
    BY <1>1, <1>2 DEF IsInstructionOf
  <2> QED
    BY <1>2, <2>1
<1>4. i.args = <<v>>
  <2>1. i.args \in Seq(Values)
    BY <1>1 DEF Instructions
  <2> QED
    BY <1>3, <2>1
<1>5. IsInstruction(f, v)
  BY <1>2 DEF IsA
<1>6. /\ d[1] \in DOMAIN program.body[f] /\ d[2] \in 1..LastPoint(f, d[1])
      /\ program.body[f][d[1]][d[2]].id = v
      /\ DefinitionOf(f, v) = program.body[f][d[1]][d[2]]
      /\ d[2] \in DOMAIN program.body[f][d[1]]
  <2> HIDE DEF v
  <2> QED
    BY <1>5, PointType
<1>8. program.body[f][d[1]][d[2]].op = "icmp"
  BY <1>2, <1>6 DEF IsA
<1>10. d[1] = a /\ d[2] = LastPoint(f, a) - 1
  <2> DEFINE c == d[1]
             k == d[2]
  <2>1. Terminator(f, a) = program.body[f][a][Len(program.body[f][a])]
    BY DEF Terminator
  <2>2. c \in DOMAIN program.body[f] /\ k \in DOMAIN program.body[f][c]
    BY <1>6
  <2>3. program.body[f][c][k].op = "icmp" /\ program.body[f][c][k].id = v
    BY <1>6, <1>8
  <2>4. program.body[f][a][Len(program.body[f][a])].op = "br"
        /\ program.body[f][a][Len(program.body[f][a])].args = <<v>>
    BY <1>2, <1>4, <2>1
  <2> HIDE DEF c, k, v, i
  <2>5. c = a /\ k = Len(program.body[f][a]) - 1
    BY <2>2, <2>3, <2>4 DEF TestsWhereComputed
  <2> QED
    BY <2>5 DEF c, k, LastPoint
<1>11. LastPoint(f, a) \in Nat
  BY BodyType
<1> QED
  BY <1>6, <1>10, <1>11

\* A block of a terminator only tests nothing.
LEMMA LoneTestsNothing ==
  ASSUME program \in Programs, TestsWhereComputed(program),
         NEW f \in DOMAIN program.body, NEW a \in DOMAIN program.body[f],
         TestedBy(f, Terminator(f, a)) # {}
  PROVE  LastPoint(f, a) > 1
<1>1. OnComparison(f, Terminator(f, a)) \/ OnCases(f, Terminator(f, a))
  BY DEF TestedBy
<1>2. CASE OnComparison(f, Terminator(f, a))
  BY <1>2, ComparedBefore
<1>3. CASE OnCases(f, Terminator(f, a))
  BY <1>3 DEF OnCases, TestsWhereComputed, Terminator, LastPoint
<1> QED
  BY <1>1, <1>2, <1>3

\* What is tested depends on the program and on ReturnPropagationPass only.
LEMMA TestsKept ==
  ASSUME program' = program, propagation' = propagation, NEW f
  PROVE  /\ \A b, k : /\ TestedBy(f, program.body[f][b][k])' = TestedBy(f, program.body[f][b][k])
                      /\ GivenBy(f, program.body[f][b][k])' = GivenBy(f, program.body[f][b][k])
         /\ \A a : /\ TestedBy(f, Terminator(f, a))' = TestedBy(f, Terminator(f, a))
                   /\ GivenBy(f, Terminator(f, a))' = GivenBy(f, Terminator(f, a))
BY DEF TestedBy, GivenBy, OnComparison, OnCases, TestedIn, FunctionsHeldIn, Held, IsA,
       IsInstruction, DefinitionOf, PointOf, Definitions, Points, LastPoint, Terminator

\* A function none of whose facts a step changes stays stable.
LEMMA ConstrainedKept ==
  ASSUME program' = program, propagation' = propagation, NEW f,
         \A b \in DOMAIN program.body[f] : \A i \in 0..LastPoint(f, b) :
           constraints'[f][b][i] = constraints[f][b][i],
         \A b \in DOMAIN program.body[f] : LastPoint(f, b) \in Nat \ {0}
  PROVE  /\ \A b \in DOMAIN program.body[f] : ConstrainedEntry(f, b)' = ConstrainedEntry(f, b)
         /\ \A b \in DOMAIN program.body[f] : \A i \in 1..LastPoint(f, b) :
              ConstrainedAt(f, b, i)' = ConstrainedAt(f, b, i)
         /\ Constrained(f)' = Constrained(f)
<1>1. ASSUME NEW b \in DOMAIN program.body[f]
      PROVE  ConstrainedEntry(f, b)' = ConstrainedEntry(f, b)
  <2>1. Predecessors(f, b)' = Predecessors(f, b)
    BY DEF Predecessors, Successors, Terminator
  <2>2. \A a \in Predecessors(f, b) :
          /\ LastPoint(f, a)' = LastPoint(f, a)
          /\ constraints'[f][a][LastPoint(f, a)] = constraints[f][a][LastPoint(f, a)]
    BY DEF Predecessors, LastPoint
  <2>3. constraints'[f][b][0] = constraints[f][b][0]
    BY <1>1
  <2> QED
    BY <2>1, <2>2, <2>3 DEF ConstrainedEntry, Below
<1>2. ASSUME NEW b \in DOMAIN program.body[f], NEW i \in 1..LastPoint(f, b)
      PROVE  ConstrainedAt(f, b, i)' = ConstrainedAt(f, b, i)
  <2>1. /\ constraints'[f][b][i] = constraints[f][b][i]
        /\ constraints'[f][b][i - 1] = constraints[f][b][i - 1]
    BY <1>2
  <2> QED
    BY <2>1, TestsKept, SMTT(40) DEF ConstrainedAt, Outcome, Updated
<1> QED
  BY <1>1, <1>2 DEF Constrained, LastPoint

LEMMA GivenMeans ==
  ASSUME program' = program, propagation' = propagation, NEW f, NEW a
  PROVE  Given(f, a)' <=>
           \A p \in PushedBy(f, Terminator(f, a), constraints'[f][a][LastPoint(f, a) - 1]) :
             Below(p[2], constraints'[f][p[1]][0])
<1> DEFINE new == constraints'[f][a][LastPoint(f, a) - 1]
<1>1. /\ TestedBy(f, Terminator(f, a))' = TestedBy(f, Terminator(f, a))
      /\ GivenBy(f, Terminator(f, a))' = GivenBy(f, Terminator(f, a))
      /\ LastPoint(f, a)' = LastPoint(f, a)
  BY TestsKept DEF LastPoint
<1>2. PushedBy(f, Terminator(f, a), constraints[f][a][LastPoint(f, a) - 1])' =
        PushedBy(f, Terminator(f, a), new)
  BY <1>1 DEF PushedBy, Narrowed
<1> QED
  BY <1>2 DEF Given, Below

\* What has been given stays given while entries only grow.
LEMMA GivenKept ==
  ASSUME program \in Programs, program' = program, propagation' = propagation,
         TestsWhereComputed(program),
         NEW f \in DOMAIN program.body, NEW a \in DOMAIN program.body[f],
         \A b \in DOMAIN program.body[f] : Below(constraints[f][b][0], constraints'[f][b][0]),
         LastPoint(f, a) > 1 =>
           constraints'[f][a][LastPoint(f, a) - 1] = constraints[f][a][LastPoint(f, a) - 1],
         Given(f, a)
  PROVE  Given(f, a)'
<1> DEFINE in == constraints[f][a][LastPoint(f, a) - 1]
<1> DEFINE new == constraints'[f][a][LastPoint(f, a) - 1]
<1>2. Given(f, a)' <=>
        \A p \in PushedBy(f, Terminator(f, a), new) : Below(p[2], constraints'[f][p[1]][0])
  BY GivenMeans
<1>3. CASE TestedBy(f, Terminator(f, a)) = {}
  BY <1>2, <1>3, GivesNothing
<1>4. CASE TestedBy(f, Terminator(f, a)) # {}
  <2>1. new = in
    BY <1>4, LoneTestsNothing
  <2>2. ASSUME NEW p \in PushedBy(f, Terminator(f, a), in)
        PROVE  Below(p[2], constraints'[f][p[1]][0])
    <3>1. Below(p[2], constraints[f][p[1]][0])
      BY <2>2 DEF Given
    <3>2. p[1] \in DOMAIN program.body[f]
      BY <2>2, PushedToSuccessors
    <3> QED
      BY <3>1, <3>2, BelowTransitive
  <2> QED
    BY <1>2, <2>1, <2>2
<1> QED
  BY <1>3, <1>4

\* What a step of the pass writes in one function leaves the others stable.
LEMMA LeftStaysConstrained ==
  ASSUME WalkOK, program' = program, propagation' = propagation, scc' = scc, fn' = fn,
         pass = "constraints", ConstrainedOK,
         \A f \in DOMAIN program.body : f # f0 =>
           \A b \in DOMAIN program.body[f] : \A i \in 0..LastPoint(f, b) :
             constraints'[f][b][i] = constraints[f][b][i]
  PROVE  \A f \in Left' : Constrained(f)'
<1> SUFFICES ASSUME NEW f \in Left
             PROVE  Constrained(f)'
  BY DEF Left
<1>1. f \in DOMAIN program.body /\ f # f0
  BY LeftBehind
<1>2. Constrained(f)
  BY DEF ConstrainedOK
<1>3. \A b \in DOMAIN program.body[f] : LastPoint(f, b) \in Nat \ {0}
  BY <1>1, BodyType DEF WalkOK
<1>4. \A b \in DOMAIN program.body[f] : \A i \in 0..LastPoint(f, b) :
        constraints'[f][b][i] = constraints[f][b][i]
  BY <1>1
<1> QED
  BY <1>2, <1>3, <1>4, ConstrainedKept

LEMMA EntersConstrained ==
  ASSUME WalkOK, TypedFactsOK, TestsWhereComputed(program), ConstrainedOK, EnterConstraints
  PROVE  ConstrainedOK'
<1>1. /\ program' = program /\ propagation' = propagation
      /\ pass = "constraints" /\ pass' = pass /\ scc' = scc /\ fn' = fn
      /\ blk > 0 /\ idx = 0 /\ blk' = blk /\ idx' = 1 /\ changed' = changed
  BY DEF EnterConstraints, Entering, Entered
<1>2. f0 \in DOMAIN program.body /\ blk \in DOMAIN Body /\ Body = program.body[f0]
  BY <1>1, HereType
<1>3. f0' = f0 /\ Body' = Body
  BY <1>1 DEF f0, Members, Body
<1>4. \A f \in DOMAIN program.body : \A b \in DOMAIN program.body[f] :
        LastPoint(f, b) \in Nat \ {0} /\ LastPoint(f, b)' = LastPoint(f, b)
  BY <1>1, BodyType DEF WalkOK, LastPoint
<1>5. \A f \in DOMAIN program.body : \A b \in DOMAIN program.body[f] :
        \A i \in 0..LastPoint(f, b) :
          ~(f = f0 /\ b = blk /\ i = 0) => constraints'[f][b][i] = constraints[f][b][i]
  BY ConstraintsEntered
<1>6. ASSUME ~changed
      PROVE  ConstrainedSoFar'
  <2>1. ConstrainedSoFar
    BY <1>1, <1>6 DEF ConstrainedOK
  <2>2. ASSUME NEW b \in DOMAIN Body, b = blk \/ b < blk
        PROVE  ConstrainedEntry(f0, b)'
    <3>1. ConstrainedEntry(f0, b)' <=>
            \A a \in Predecessors(f0, b) :
              Below(constraints'[f0][a][LastPoint(f0, a)], constraints'[f0][b][0])
      BY <1>1, <1>3 DEF ConstrainedEntry, Predecessors, Successors, Terminator, LastPoint, Below
    <3>2. ASSUME NEW a \in Predecessors(f0, b)
          PROVE  constraints'[f0][a][LastPoint(f0, a)] = constraints[f0][a][LastPoint(f0, a)]
      <4>1. a \in DOMAIN Body
        BY <1>2, <3>2 DEF Predecessors
      <4> QED
        BY <1>2, <1>4, <1>5, <4>1
    <3>3. CASE b = blk
      BY <3>1, <3>2, <3>3, ConstraintsEntered
    <3>4. CASE b < blk
      <4>1. constraints'[f0][b][0] = constraints[f0][b][0]
        BY <1>2, <1>4, <1>5, <3>4, HereType DEF WalkOK
      <4>2. ConstrainedEntry(f0, b)
        BY <2>1, <3>4 DEF ConstrainedSoFar, Visited
      <4> QED
        BY <3>1, <3>2, <4>1, <4>2 DEF ConstrainedEntry
    <3> QED
      BY <2>2, <3>3, <3>4
  <2>3. ASSUME NEW b \in DOMAIN Body, NEW i \in 1..LastPoint(f0, b), b < blk
        PROVE  ConstrainedAt(f0, b, i)'
    <3>1. /\ constraints'[f0][b][i] = constraints[f0][b][i]
          /\ constraints'[f0][b][i - 1] = constraints[f0][b][i - 1]
      BY <1>2, <1>4, <1>5, <2>3, HereType, SMTT(30) DEF WalkOK
    <3>2. ConstrainedAt(f0, b, i)
      BY <2>1, <2>3 DEF ConstrainedSoFar, Visited
    <3>3. ASSUME NEW f, f = f0
          PROVE  ConstrainedAt(f, b, i)' = ConstrainedAt(f, b, i)
      BY <1>1, <3>1, <3>3, TestsKept, SMTT(40) DEF ConstrainedAt, Outcome, Updated
    <3> QED
      BY <1>3, <3>2, <3>3
  <2>4. \A b \in DOMAIN Body : \A i \in 0..LastPoint(f0, b) :
          Visited(b, i)' => b < blk \/ (b = blk /\ i = 0)
    BY <1>1, <1>2, <1>4 DEF Visited
  <2>5. ASSUME NEW b \in DOMAIN Body
        PROVE  /\ Visited(b, 0)' => ConstrainedEntry(f0, b)'
               /\ \A i \in 1..LastPoint(f0, b) : Visited(b, i)' => ConstrainedAt(f0, b, i)'
    <3>1. Visited(b, 0)' => ConstrainedEntry(f0, b)'
      BY <1>2, <1>4, <2>2, <2>4, <2>5
    <3>2. \A i \in 1..LastPoint(f0, b) : Visited(b, i)' => ConstrainedAt(f0, b, i)'
      BY <1>2, <1>4, <2>3, <2>4, <2>5
    <3> QED
      BY <3>1, <3>2
  <2> QED
    BY <1>2, <1>3, <1>4, <2>5 DEF ConstrainedSoFar
<1>7. \A f \in Left' : Constrained(f)'
  <2>1. \A f \in DOMAIN program.body : f # f0 =>
          \A b \in DOMAIN program.body[f] : \A i \in 0..LastPoint(f, b) :
            constraints'[f][b][i] = constraints[f][b][i]
    BY <1>5
  <2> QED
    BY <1>1, <2>1, LeftStaysConstrained
<1>8. GivenOK'
  <2>1. \A f \in DOMAIN program.body : \A b \in DOMAIN program.body[f] :
          Below(constraints[f][b][0], constraints'[f][b][0])
    <3> SUFFICES ASSUME NEW f \in DOMAIN program.body, NEW b \in DOMAIN program.body[f]
                 PROVE  Below(constraints[f][b][0], constraints'[f][b][0])
      OBVIOUS
    <3>1. 0 \in 0..LastPoint(f, b)
      BY <1>4
    <3>2. CASE f = f0 /\ b = blk
      BY <3>2, ConstraintsEntered
    <3>3. CASE ~(f = f0 /\ b = blk)
      BY <1>5, <3>1, <3>3 DEF Below
    <3> QED
      BY <3>2, <3>3
  <2>2. ASSUME NEW f \in DOMAIN program.body, NEW a \in DOMAIN program.body[f],
               DOMAIN constraints'[f][a][LastPoint(f, a)] # {}
        PROVE  Given(f, a)'
    <3>1. constraints'[f][a][LastPoint(f, a)] = constraints[f][a][LastPoint(f, a)]
      BY <1>4, <1>5
    <3>2. ~Ahead(f, a)
      BY <1>1, <1>4 DEF Ahead
    <3>3. Given(f, a)
      BY <2>2, <3>1, <3>2 DEF ConstrainedOK, GivenOK
    <3>4. LastPoint(f, a) > 1 =>
            constraints'[f][a][LastPoint(f, a) - 1] = constraints[f][a][LastPoint(f, a) - 1]
      BY <1>4, <1>5
    <3> QED
      BY <1>1, <2>1, <3>3, <3>4, GivenKept DEF WalkOK
  <2> QED
    BY <1>1, <1>4, <2>2 DEF GivenOK
<1> QED
  BY <1>1, <1>6, <1>7, <1>8 DEF ConstrainedOK


\* While nothing has changed in this round, and after the pass, a visit that
\* changes nothing would give nothing new.
LEMMA GivesNothingNew ==
  ASSUME WalkOK, GivenOK, blk > 0, idx > 0, pass # "constraints" \/ ~changed,
         Outcome(f0, I, ConstraintsIn) = ConstraintsOut
  PROVE  \A p \in PushedBy(f0, I, ConstraintsIn) : Below(p[2], constraints[f0][p[1]][0])
<1>1. /\ f0 \in DOMAIN program.body /\ Body = program.body[f0] /\ blk \in DOMAIN program.body[f0]
      /\ LastPoint(f0, blk) = Len(Body[blk])
  BY AtAnInstruction DEF LastPoint
<1>2. CASE TestedBy(f0, I) = {}
  BY <1>2, GivesNothing
<1>3. CASE TestedBy(f0, I) # {}
  <2>1. I.op \in {"br", "switch"}
    BY <1>3 DEF TestedBy, OnComparison, OnCases
  <2>2. idx = LastPoint(f0, blk)
    BY <1>1, <2>1, InstructionType DEF Terminators
  <2>3. I = Terminator(f0, blk) /\ ConstraintsIn = constraints[f0][blk][LastPoint(f0, blk) - 1]
    BY <1>1, <2>2 DEF I, Body, Terminator, LastPoint, ConstraintsIn
  <2>4. DOMAIN constraints[f0][blk][LastPoint(f0, blk)] # {}
    <3>1. DOMAIN Outcome(f0, I, ConstraintsIn) = DOMAIN ConstraintsIn \union TestedBy(f0, I)
      BY <2>1 DEF Outcome
    <3> QED
      BY <1>3, <2>2, <3>1 DEF ConstraintsOut
  <2>5. Given(f0, blk)
    BY <1>1, <2>4 DEF GivenOK, Ahead
  <2> QED
    BY <2>3, <2>5 DEF Given
<1> QED
  BY <1>2, <1>3

LEMMA VisitsGive ==
  ASSUME WalkOK, TypedFactsOK, TestsWhereComputed(program), GivenOK,
         pass = "constraints", blk > 0, idx > 0, AnalysisNext
  PROVE  GivenOK'
<1> DEFINE d == Outcome(f0, I, ConstraintsIn) # ConstraintsOut
<1>1. /\ Step(d) /\ propagation' = propagation
      /\ program' = program /\ pass' = pass /\ scc' = scc /\ fn' = fn
  BY ConstrainMeans, StepKeeps
<1> HIDE DEF d
<1>2. /\ f0 \in DOMAIN program.body /\ Body = program.body[f0] /\ blk \in DOMAIN program.body[f0]
      /\ idx \in 1..LastPoint(f0, blk) /\ LastPoint(f0, blk) \in Nat
      /\ LastPoint(f0, blk) = Len(Body[blk])
  BY AtAnInstruction DEF LastPoint
<1>3. f0' = f0
  BY <1>1 DEF f0, Members
<1>4. \A f \in DOMAIN program.body : \A b \in DOMAIN program.body[f] :
        LastPoint(f, b) \in Nat \ {0} /\ LastPoint(f, b)' = LastPoint(f, b)
  BY <1>1, BodyType DEF WalkOK, LastPoint
<1>5. \A f \in DOMAIN program.body : \A b \in DOMAIN program.body[f] :
        \A i \in 0..LastPoint(f, b) :
          f # f0 \/ (i # 0 /\ ~(b = blk /\ i = idx)) =>
            constraints'[f][b][i] = constraints[f][b][i]
  BY ConstraintsVisited
<1>6. \A f \in DOMAIN program.body : \A b \in DOMAIN program.body[f] :
        Below(constraints[f][b][0], constraints'[f][b][0])
  <2> SUFFICES ASSUME NEW f \in DOMAIN program.body, NEW b \in DOMAIN program.body[f]
               PROVE  Below(constraints[f][b][0], constraints'[f][b][0])
    OBVIOUS
  <2>1. 0 \in 0..LastPoint(f, b)
    BY <1>4
  <2>2. CASE f = f0
    BY <2>2, ConstraintsVisited
  <2>3. CASE f # f0
    BY <1>5, <2>1, <2>3 DEF Below
  <2> QED
    BY <2>2, <2>3
<1>7. ASSUME NEW f \in DOMAIN program.body, NEW a \in DOMAIN program.body[f],
             constraints'[f][a][LastPoint(f, a)] = constraints[f][a][LastPoint(f, a)],
             LastPoint(f, a) > 1 =>
               constraints'[f][a][LastPoint(f, a) - 1] = constraints[f][a][LastPoint(f, a) - 1],
             DOMAIN constraints'[f][a][LastPoint(f, a)] # {}, ~Ahead(f, a)
      PROVE  Given(f, a)'
  <2>1. Given(f, a)
    BY <1>7 DEF GivenOK
  <2> QED
    BY <1>1, <1>6, <1>7, <2>1, GivenKept DEF WalkOK
<1>8. ASSUME NEW f \in DOMAIN program.body, NEW a \in DOMAIN program.body[f],
             DOMAIN constraints'[f][a][LastPoint(f, a)] # {}
      PROVE  Given(f, a)' \/ Ahead(f, a)'
  <2> DEFINE n == LastPoint(f, a)
  <2>0. n \in Nat \ {0}
    BY <1>4
  <2>1. CASE ~(f = f0 /\ a = blk)
    <3>1. ~Ahead(f, a)
      BY <2>1 DEF Ahead
    <3>2. constraints'[f][a][n] = constraints[f][a][n]
      BY <1>5, <2>0, <2>1
    <3>3. n > 1 => constraints'[f][a][n - 1] = constraints[f][a][n - 1]
      BY <1>5, <2>0, <2>1
    <3> QED
      BY <1>7, <1>8, <3>1, <3>2, <3>3
  <2>2. CASE f = f0 /\ a = blk /\ idx = n
    <3>1. I = Terminator(f, a)
      BY <1>2, <2>2 DEF I, Body, Terminator, LastPoint
    <3>2. CASE TestedBy(f, I) = {}
      BY <1>1, <3>1, <3>2, GivesNothing, GivenMeans
    <3>3. CASE TestedBy(f, I) # {}
      <4>1. n > 1
        BY <3>1, <3>3, LoneTestsNothing DEF WalkOK
      <4>2. constraints'[f][a][n - 1] = ConstraintsIn
        BY <1>2, <1>5, <2>0, <2>2, <4>1 DEF ConstraintsIn
      <4>3. \A p \in PushedBy(f, Terminator(f, a), ConstraintsIn) : p[1] \in DOMAIN program.body[f]
        BY PushedToSuccessors DEF WalkOK
      <4>4. \A p \in PushedBy(f, I, ConstraintsIn) : Below(p[2], constraints'[f][p[1]][0])
        BY <2>2, <3>1, <4>3, ConstraintsVisited
      <4> QED
        BY <1>1, <3>1, <4>2, <4>4, GivenMeans
    <3> QED
      BY <3>2, <3>3
  <2>3. CASE f = f0 /\ a = blk /\ idx # n
    <3>1. idx < n
      BY <1>2, <2>3
    <3>2. ~Ahead(f, a)
      BY <2>3 DEF Ahead
    <3>3. constraints'[f][a][n] = constraints[f][a][n]
      BY <1>5, <2>0, <2>3
    <3>4. CASE idx = n - 1 /\ d
      <4>1. ~LastOfBlock
        BY <1>2, <2>3 DEF LastOfBlock
      <4>2. idx' = idx + 1 /\ blk' = blk /\ changed'
        BY <1>1, <3>4, <4>1 DEF Step
      <4>3. idx' = LastPoint(f, a)'
        BY <1>4, <2>0, <3>4, <4>2
      <4> QED
        BY <1>1, <1>3, <2>3, <4>2, <4>3 DEF Ahead
    <3>5. CASE idx = n - 1 /\ ~d
      <4>1. constraints'[f][a][n - 1] = constraints[f][a][n - 1]
        BY <2>3, <3>5, ConstraintsVisited DEF d, ConstraintsOut
      <4> QED
        BY <1>7, <1>8, <3>2, <3>3, <4>1
    <3>6. CASE idx # n - 1
      <4>1. n > 1 => constraints'[f][a][n - 1] = constraints[f][a][n - 1]
        BY <1>5, <2>0, <2>3, <3>6
      <4> QED
        BY <1>7, <1>8, <3>2, <3>3, <4>1
    <3> QED
      BY <3>4, <3>5, <3>6
  <2> QED
    BY <2>1, <2>2, <2>3
<1> QED
  BY <1>1, <1>4, <1>8 DEF GivenOK

LEMMA VisitsConstrained ==
  ASSUME WalkOK, TypedFactsOK, TestsWhereComputed(program), ConstrainedOK,
         pass = "constraints", blk > 0, idx > 0, AnalysisNext
  PROVE  ConstrainedOK'
<1> DEFINE new == Outcome(f0, I, ConstraintsIn)
           d == new # ConstraintsOut
<1>1. /\ Step(d) /\ propagation' = propagation
      /\ program' = program /\ pass' = pass /\ scc' = scc /\ fn' = fn
  BY ConstrainMeans, StepKeeps
<1>2. f0 \in DOMAIN program.body /\ blk \in DOMAIN Body /\ Body = program.body[f0]
  BY HereType
<1>3. f0' = f0 /\ Body' = Body
  BY <1>1 DEF f0, Members, Body
<1>4. \A b \in DOMAIN Body : LastPoint(f0, b) \in Nat \ {0}
  BY <1>2, BodyType DEF WalkOK
<1>5. \A f \in DOMAIN program.body : f # f0 =>
        \A b \in DOMAIN program.body[f] : \A i \in 0..LastPoint(f, b) :
          constraints'[f][b][i] = constraints[f][b][i]
  BY ConstraintsVisited
<1>6. \A f \in Left' : Constrained(f)'
  BY <1>1, <1>5, LeftStaysConstrained
<1>7. blk' # 0 /\ ~changed' => (~d /\ ~changed) \/ (blk' = 1 /\ idx' = 0)
  <2> HIDE DEF d
  <2>1. CASE changed' = (changed \/ d)
    BY <2>1
  <2>2. CASE idx' = 0 /\ blk' = IF changed \/ d THEN 1 ELSE 0
    BY <2>2
  <2> QED
    BY <1>1, <2>1, <2>2 DEF Step
<1> HIDE DEF new
<1>8. ASSUME blk' = 0 \/ ~changed'
      PROVE  ConstrainedSoFar'
  <2>1. CASE blk' = 1 /\ idx' = 0
    <3>1. \A b \in DOMAIN Body : \A i \in Nat : ~Visited(b, i)'
      BY <1>2, <2>1, HereType, BodyType DEF Visited, WalkOK
    <3>2. \A b \in DOMAIN Body : \A i \in 1..LastPoint(f0, b) : i \in Nat
      BY <1>4
    <3>3. \A b : LastPoint(f0, b)' = LastPoint(f0, b)
      BY <1>1, <1>3 DEF LastPoint
    <3> QED
      BY <1>3, <3>1, <3>2, <3>3 DEF ConstrainedSoFar
  <2>2. CASE ~d /\ ~changed /\ ~(blk' = 1 /\ idx' = 0)
    <3>1. ConstrainedSoFar /\ GivenOK
      BY <2>2 DEF ConstrainedOK
    <3>2. \A b \in DOMAIN Body : \A i \in 0..LastPoint(f0, b) :
            constraints'[f0][b][i] = constraints[f0][b][i]
      <4>1. \A p \in PushedBy(f0, I, ConstraintsIn) : Below(p[2], constraints[f0][p[1]][0])
        BY <2>2, <3>1, GivesNothingNew DEF new
      <4>2. \A b \in DOMAIN Body : constraints'[f0][b][0] = constraints[f0][b][0]
        BY <1>2, <4>1, ConstraintsVisited
      <4>3. constraints'[f0][blk][idx] = constraints[f0][blk][idx]
        BY <2>2, ConstraintsVisited DEF new, ConstraintsOut
      <4> QED
        BY <1>2, <4>2, <4>3, ConstraintsVisited
    <3>3. ConstrainedAt(f0, blk, idx)
      BY <1>2, <2>2 DEF ConstrainedAt, ConstraintsIn, ConstraintsOut, I, Body, new
    <3>4. /\ \A b \in DOMAIN program.body[f0] : ConstrainedEntry(f0, b)' = ConstrainedEntry(f0, b)
          /\ \A b \in DOMAIN program.body[f0] : \A i \in 1..LastPoint(f0, b) :
               ConstrainedAt(f0, b, i)' = ConstrainedAt(f0, b, i)
      <4>1. ASSUME NEW f, f = f0
            PROVE  /\ \A b \in DOMAIN program.body[f] :
                        ConstrainedEntry(f, b)' = ConstrainedEntry(f, b)
                   /\ \A b \in DOMAIN program.body[f] : \A i \in 1..LastPoint(f, b) :
                        ConstrainedAt(f, b, i)' = ConstrainedAt(f, b, i)
        BY <1>1, <1>2, <1>4, <3>2, <4>1, ConstrainedKept
      <4> QED
        BY <1>3, <4>1
    <3>5. \A b \in DOMAIN Body : \A i \in 0..LastPoint(f0, b) :
            Visited(b, i)' => Visited(b, i) \/ (b = blk /\ i = idx)
      <4>1. \A b \in DOMAIN Body : b \in 1..Len(Body)
        BY <1>2, BodyType DEF WalkOK
      <4>2. \A b \in DOMAIN Body : LastPoint(f0, b) = Len(Body[b])
        BY <1>2 DEF LastPoint
      <4>3. CASE ~LastOfBlock
        BY <1>1, <4>1, <4>3, HereType, <1>4 DEF Step, Visited, LastOfBlock, WalkOK
      <4>4. CASE LastOfBlock
        BY <1>1, <4>1, <4>2, <4>4, HereType, <1>4 DEF Step, Visited, LastOfBlock, WalkOK
      <4> QED
        BY <4>3, <4>4
    <3>6. \A b : LastPoint(f0, b)' = LastPoint(f0, b)
      BY <1>1, <1>3 DEF LastPoint
    <3>7. ASSUME NEW b \in DOMAIN Body
          PROVE  /\ Visited(b, 0)' => ConstrainedEntry(f0, b)'
                 /\ \A i \in 1..LastPoint(f0, b) : Visited(b, i)' => ConstrainedAt(f0, b, i)'
      <4>1. Visited(b, 0)' => ConstrainedEntry(f0, b)'
        BY <1>2, <1>4, <3>1, <3>4, <3>5, <3>7 DEF ConstrainedSoFar
      <4>2. \A i \in 1..LastPoint(f0, b) : Visited(b, i)' => ConstrainedAt(f0, b, i)'
        BY <1>2, <1>4, <3>1, <3>3, <3>4, <3>5, <3>7 DEF ConstrainedSoFar
      <4> QED
        BY <4>1, <4>2
    <3> QED
      BY <1>3, <3>6, <3>7 DEF ConstrainedSoFar
  <2>3. CASE blk' = 0
    <3>1. ~d /\ ~changed
      BY <1>1, <2>3, HereType DEF Step, WalkOK
    <3> QED
      BY <2>2, <2>3, <3>1
  <2> QED
    BY <1>7, <1>8, <2>1, <2>2, <2>3
<1>9. GivenOK'
  BY VisitsGive DEF ConstrainedOK
<1> QED
  BY <1>1, <1>6, <1>8, <1>9 DEF ConstrainedOK

\* What is given does not change where no fact does.
LEMMA GivenUnchanged ==
  ASSUME program' = program, propagation' = propagation, constraints' = constraints,
         GivenOK, pass # "constraints" \/ blk = 0, WalkOK
  PROVE  GivenOK'
<1>1. ASSUME NEW f \in DOMAIN program.body, NEW a \in DOMAIN program.body[f],
             DOMAIN constraints[f][a][LastPoint(f, a)] # {}
      PROVE  Given(f, a)'
  <2>1. ~Ahead(f, a)
    <3>1. LastPoint(f, a) # 0
      BY BodyType DEF WalkOK
    <3> QED
      BY <3>1, HereType DEF Ahead
  <2>2. Given(f, a)
    BY <1>1, <2>1 DEF GivenOK
  <2> QED
    BY <2>2, GivenMeans DEF Given
<1>2. \A f, a : LastPoint(f, a)' = LastPoint(f, a)
  BY DEF LastPoint
<1> QED
  BY <1>1, <1>2 DEF GivenOK

\* A pass leaves a function only when the round it has ended has left all of it
\* stable.
LEMMA LeavesConstrained ==
  ASSUME WalkOK, ConstrainedOK, NextFunction
  PROVE  ConstrainedOK'
<1>1. /\ program' = program /\ blk = 0 /\ propagation' = propagation /\ constraints' = constraints
      /\ pass # "done"
  BY DEF NextFunction, facts
<1>2. f0 \in DOMAIN program.body /\ Body = program.body[f0] /\ idx' = 0
  BY <1>1, HereType DEF NextFunction
<1>3. ASSUME NEW f \in DOMAIN program.body
      PROVE  Constrained(f)' = Constrained(f)
  <2>1. \A b \in DOMAIN program.body[f] : LastPoint(f, b) \in Nat \ {0}
    BY BodyType DEF WalkOK
  <2> QED
    BY <1>1, <2>1, ConstrainedKept
<1>4. pass = "constraints" => Constrained(f0)
  <2>1. pass = "constraints" => ConstrainedSoFar
    BY <1>1 DEF ConstrainedOK
  <2> QED
    BY <1>1, <1>2, <2>1 DEF ConstrainedSoFar, Visited, Constrained
<1>5. Analysed' = Analysed /\ Analysed \subseteq DOMAIN program.body
  BY <1>1 DEF Analysed
<1>6. GivenOK'
  BY <1>1, GivenUnchanged DEF ConstrainedOK
<1>7. Everywhere(Empty)' = Everywhere(Empty)
  BY <1>1 DEF Everywhere, LastPoint
<1>8. ASSUME pass' = "constraints", blk' = 1
      PROVE  ConstrainedSoFar'
  <2>1. f0' \in DOMAIN program.body
    <3>1. WalkOK'
      <4>1. AnalysisNext
        BY DEF AnalysisNext
      <4> QED
        BY <4>1, AnalysisWalks
    <3> QED
      BY <1>1, <3>1, MembersType DEF WalkOK, f0, Members
  <2>2. Body' = program.body[f0'] /\ \A b : LastPoint(f0, b)' = Len(Body'[b])
    BY <1>1 DEF Body, LastPoint
  <2>3. Body' \in Seq(Seq(Instructions))
    BY <2>1, <2>2, BodyType DEF WalkOK
  <2>4. \A b \in DOMAIN Body' : b \in Nat \ {0}
    BY <2>3
  <2>5. \A b \in DOMAIN Body' : \A i \in Nat : ~Visited(b, i)'
    BY <1>2, <1>8, <2>4 DEF Visited
  <2>6. \A b \in DOMAIN Body' : \A i \in 1..LastPoint(f0, b)' : i \in Nat
    BY <2>2, <2>3
  <2> QED
    BY <2>5, <2>6 DEF ConstrainedSoFar
<1>9. CASE pass \in {"propagation", "returned"}
  <2>1. constraints = Everywhere(Empty)
    BY <1>9 DEF ConstrainedOK
  <2>2. \/ pass' \in {"propagation", "returned"}
        \/ pass' = "constraints" /\ blk' = 1 /\ scc' = 1 /\ fn' = 1
    BY <1>9 DEF NextFunction, GoTo, Following
  <2>3. pass' = "constraints" => Left' = {}
    BY <1>1, <2>2, ProgramType, MembersType DEF Left, WalkOK
  <2> QED
    BY <1>1, <1>6, <1>7, <1>8, <2>1, <2>2, <2>3 DEF ConstrainedOK
<1>10. CASE pass = "range"
  <2>1. pass' \in {"range", "done"}
    BY <1>10 DEF NextFunction, GoTo, Following
  <2> QED
    BY <1>3, <1>5, <1>6, <1>10, <2>1 DEF ConstrainedOK
<1>11. CASE pass = "constraints"
  <2>1. \/ fn < Len(Members) /\ GoTo(pass, scc, fn + 1)
        \/ fn = Len(Members) /\ scc < Len(program.members) /\ GoTo(pass, scc + 1, 1)
        \/ fn = Len(Members) /\ ~(scc < Len(program.members)) /\ GoTo("range", 1, 1)
    BY <1>11 DEF NextFunction, Following
  <2>2. CASE \/ fn < Len(Members) /\ GoTo(pass, scc, fn + 1)
             \/ fn = Len(Members) /\ scc < Len(program.members) /\ GoTo(pass, scc + 1, 1)
    <3>1. pass' = "constraints" /\ blk' = 1
      BY <1>11, <2>2 DEF GoTo
    <3>2. Left' \subseteq Left \union {f0}
      BY <1>1, <2>2, LeftNext DEF GoTo
    <3>3. \A f \in Left' : Constrained(f)'
      <4> SUFFICES ASSUME NEW f \in Left'
                   PROVE  Constrained(f)
        BY <1>1, <1>3 DEF Left
      <4> QED
        BY <1>4, <1>11, <3>2 DEF ConstrainedOK
    <3> QED
      BY <1>6, <1>8, <3>1, <3>3 DEF ConstrainedOK
  <2>3. CASE fn = Len(Members) /\ ~(scc < Len(program.members)) /\ GoTo("range", 1, 1)
    <3>1. Analysed \subseteq Left \union {f0}
      BY <2>3, LeftAll
    <3>2. pass' = "range"
      BY <2>3 DEF GoTo
    <3>3. \A f \in Analysed : Constrained(f)
      BY <1>4, <1>11, <3>1 DEF ConstrainedOK
    <3> QED
      BY <1>3, <1>5, <1>6, <3>2, <3>3 DEF ConstrainedOK
  <2> QED
    BY <2>1, <2>2, <2>3
<1> QED
  BY <1>1, <1>9, <1>10, <1>11 DEF WalkOK

LEMMA ConstrainedOKKept ==
  ASSUME WalkOK, TypedFactsOK, TestsWhereComputed(program), ConstrainedOK, AnalysisNext
  PROVE  ConstrainedOK'
<1>1. CASE NextFunction
  BY <1>1, LeavesConstrained
<1>2. CASE constraints' = constraints /\ pass # "constraints" /\ pass' = pass
  <2>1. program' = program
    BY Moves
  <2>2. Everywhere(Empty)' = Everywhere(Empty) /\ Analysed' = Analysed
    BY <2>1 DEF Everywhere, LastPoint, Analysed
  <2>3. CASE pass \in {"propagation", "returned"}
    <3>1. constraints = Everywhere(Empty)
      BY <2>3 DEF ConstrainedOK
    <3>2. \A f \in DOMAIN program.body : \A a \in DOMAIN program.body[f] :
            DOMAIN constraints[f][a][LastPoint(f, a)] = {}
      <4>1. \A f \in DOMAIN program.body : \A a \in DOMAIN program.body[f] :
              LastPoint(f, a) \in 0..LastPoint(f, a)
        BY BodyType DEF WalkOK
      <4> QED
        BY <3>1, <4>1 DEF Everywhere, Empty
    <3>3. GivenOK'
      BY <1>2, <2>1, <3>2 DEF GivenOK, LastPoint
    <3> QED
      BY <1>2, <2>2, <2>3, <3>1, <3>3 DEF ConstrainedOK
  <2>4. CASE pass \notin {"propagation", "returned"}
    <3>1. propagation' = propagation
      BY <1>2, <2>4, PropagationMoves DEF EnterPropagation, Entering
    <3>2. ASSUME NEW f \in Analysed
          PROVE  Constrained(f)' = Constrained(f)
      <4>1. \A b \in DOMAIN program.body[f] : LastPoint(f, b) \in Nat \ {0}
        BY <3>2, BodyType DEF WalkOK, Analysed
      <4> QED
        BY <1>2, <2>1, <3>1, <4>1, ConstrainedKept
    <3>3. GivenOK'
      BY <1>2, <2>1, <3>1, GivenUnchanged DEF ConstrainedOK
    <3> QED
      BY <1>2, <2>2, <2>4, <3>2, <3>3 DEF ConstrainedOK
  <2> QED
    BY <2>3, <2>4
<1>3. CASE EnterConstraints
  BY <1>3, EntersConstrained
<1>4. CASE pass = "constraints" /\ blk > 0 /\ idx > 0
  BY <1>4, VisitsConstrained
<1> QED
  BY <1>1, <1>2, <1>3, <1>4, ConstraintsMoves


-----------------------------------------------------------------------------
(* Comparisons.                                                            *)

\* Names of instructions are no literals.
LEMMA InstructionsAreNoLiterals ==
  ASSUME program \in Programs, NEW f \in DOMAIN program.body, NEW v \in Values,
         IsInstruction(f, v)
  PROVE  v \notin DOMAIN Literals
<1>1. PICK d \in Points(f) : program.body[f][d[1]][d[2]].id = v
  BY DEF IsInstruction, Definitions
<1>2. d[1] \in DOMAIN program.body[f] /\ d[2] \in 1..LastPoint(f, d[1])
  BY <1>1 DEF Points
<1> DEFINE i == program.body[f][d[1]][d[2]]
<1>3. i \in Instructions /\ IsInstructionOf(program.body[f], i)
  BY <1>2, InstructionAt
<1>4. i.id = v
  BY <1>1
<1> HIDE DEF i
<1>5. v # ""
  BY LiteralsAssumption
<1>6. IF i.op \in Terminators \union {"store"} THEN i.id = "" ELSE i.id \in Values \ DOMAIN Literals
  BY <1>3 DEF IsInstructionOf
<1> QED
  BY <1>4, <1>5, <1>6

\* The table of comparisons with a constant y: what it says of x contains the
\* sign of x, whether the comparison holds or not.
LEMMA ComplementSound ==
  ASSUME NEW x \in Int, NEW y \in Int, NEW p \in {"slt", "sgt", "sle", "sge", "eq", "ne"},
         NEW k \in 1..2, k = IF Compares(p, x, y) THEN 1 ELSE 2
  PROVE  SignOf(x) \in PredicateComplement[SignOf(y)][p][k]
<1>1. /\ y < 0 => SignOf(y) = "lt"
      /\ y = 0 => SignOf(y) = "eq"
      /\ y > 0 => SignOf(y) = "gt"
      /\ y < 0 \/ y = 0 \/ y > 0
  BY DEF SignOf
<1>2. CASE p = "slt"
  <2>1. k = IF x < y THEN 1 ELSE 2
    BY <1>2 DEF Compares
  <2> QED
    BY <1>1, <1>2, <2>1 DEF SignOf, PredicateComplement, LT, GT, EQ, LE, GE, NE, Signs
<1>3. CASE p = "sgt"
  <2>1. k = IF x > y THEN 1 ELSE 2
    BY <1>3 DEF Compares
  <2> QED
    BY <1>1, <1>3, <2>1 DEF SignOf, PredicateComplement, LT, GT, EQ, LE, GE, NE, Signs
<1>4. CASE p = "sle"
  <2>1. k = IF x <= y THEN 1 ELSE 2
    BY <1>4 DEF Compares
  <2> QED
    BY <1>1, <1>4, <2>1 DEF SignOf, PredicateComplement, LT, GT, EQ, LE, GE, NE, Signs
<1>5. CASE p = "sge"
  <2>1. k = IF x >= y THEN 1 ELSE 2
    BY <1>5 DEF Compares
  <2> QED
    BY <1>1, <1>5, <2>1 DEF SignOf, PredicateComplement, LT, GT, EQ, LE, GE, NE, Signs
<1>6. CASE p = "eq"
  <2>1. k = IF x = y THEN 1 ELSE 2
    BY <1>6 DEF Compares
  <2> QED
    BY <1>1, <1>6, <2>1 DEF SignOf, PredicateComplement, LT, GT, EQ, LE, GE, NE, Signs
<1>7. CASE p = "ne"
  <2>1. k = IF x # y THEN 1 ELSE 2
    BY <1>7 DEF Compares
  <2> QED
    BY <1>1, <1>7, <2>1 DEF SignOf, PredicateComplement, LT, GT, EQ, LE, GE, NE, Signs
<1> QED
  BY <1>2, <1>3, <1>4, <1>5, <1>6, <1>7

\* Numbers without a sign compare as those with one.
LEMMA UnsignedCompares ==
  ASSUME NEW x \in Words, NEW y \in Words, NEW p \in Predicates,
         p \in Unsigned => x >= 0 /\ y >= 0
  PROVE  /\ SignedPredicate(p) \in {"slt", "sgt", "sle", "sge", "eq", "ne"}
         /\ Compares(p, x, y) <=> Compares(SignedPredicate(p), x, y)
<1>1. x \in Int /\ y \in Int /\ x < Half /\ y < Half /\ Half \in Nat /\ Half > 1
  BY WordsType DEF Words
<1>2. ASSUME NEW n \in Nat, n < Half
      PROVE  n % (2 * Half) = n
  <2>1. 2 * Half \in Nat \ {0} /\ n < 2 * Half
    BY <1>1, <1>2
  <2>2. ASSUME NEW m \in Nat \ {0}, n < m
        PROVE  n % m = n
    BY <1>2, <2>2
  <2> QED
    BY <2>1, <2>2
<1>3. CASE p \in Unsigned
  <2>1. x % (2 * Half) = x /\ y % (2 * Half) = y
    BY <1>1, <1>2, <1>3
  <2> QED
    BY <1>3, <2>1 DEF Compares, SignedPredicate, Unsigned
<1>4. CASE p \notin Unsigned
  BY <1>4 DEF SignedPredicate, Unsigned, Predicates
<1> QED
  BY <1>3, <1>4

LEMMA SwappedCompares ==
  ASSUME NEW x \in Int, NEW y \in Int, NEW p \in {"slt", "sgt", "sle", "sge", "eq", "ne"}
  PROVE  /\ SwappedPredicate(p) \in {"slt", "sgt", "sle", "sge", "eq", "ne"}
         /\ Compares(p, x, y) <=> Compares(SwappedPredicate(p), y, x)
  BY DEF SwappedPredicate, Compares

LEMMA ReplacementKeeps ==
  ASSUME NEW e \in SUBSET Signs, NEW s \in e, s # "lt"
  PROVE  s \in UnsignedReplacement(e)
  BY DEF UnsignedReplacement, Signs, BOTTOM, LT, GT, EQ, LE, GE, NE

\* Its operands as a comparison is made: null pointers are compared for equality
\* only, and numbers that are compared as unsigned are not negative.
LEMMA AbstractICmpSound ==
  ASSUME WalkOK, ValuesOK, NEW c \in Instructions, c.op = "icmp", IsInstructionOf(Body, c),
         \A j \in 1..2 : c.args[j] \in Values /\ HasNumber(c.args[j]),
         (IsNull(c.args[1]) \/ IsNull(c.args[2])) => c.tag \in {"eq", "ne"},
         c.tag \in Unsigned => ValueOf(c.args[1]) >= 0 /\ ValueOf(c.args[2]) >= 0,
         NEW v, \E j \in 1..2 : v = c.args[j] /\ v \notin DOMAIN Literals,
         NEW k \in 1..2,
         k = IF Compares(c.tag, ValueOf(c.args[1]), ValueOf(c.args[2])) THEN 1 ELSE 2
  PROVE  /\ SignOf(ValueOf(v)) \in AbstractICmp(c)[k]
         /\ AbstractICmp(c)[k] \in SUBSET Signs
<1> DEFINE first == c.args[1]
           second == c.args[2]
           x == ValueOf(first)
           y == ValueOf(second)
           unswapped == SignedPredicate(c.tag)
           complement(p, s) ==
             IF c.tag \in Unsigned
             THEN [j \in 1..2 |-> UnsignedReplacement(PredicateComplement[s][p][j])]
             ELSE PredicateComplement[s][p]
           P == {"slt", "sgt", "sle", "sge", "eq", "ne"}
<1>1. c.tag \in Predicates
  BY Operands
<1>2. x \in Words /\ y \in Words /\ x \in Int /\ y \in Int
  <2>1. \A u : HasNumber(u) => ValueOf(u) \in Words
    BY ReadsWords
  <2>2. HasNumber(first) /\ HasNumber(second)
    OBVIOUS
  <2> HIDE DEF complement, unswapped, P, first, second
  <2>3. x \in Words /\ y \in Words
    BY <2>1, <2>2
  <2> QED
    BY <2>3, WordsType
<1>3. /\ unswapped \in P
      /\ k = IF Compares(unswapped, x, y) THEN 1 ELSE 2
      /\ SwappedPredicate(unswapped) \in P
      /\ k = IF Compares(SwappedPredicate(unswapped), y, x) THEN 1 ELSE 2
  <2>1. /\ unswapped \in P
        /\ Compares(c.tag, x, y) <=> Compares(unswapped, x, y)
    BY <1>1, <1>2, UnsignedCompares
  <2>2. /\ SwappedPredicate(unswapped) \in P
        /\ Compares(unswapped, x, y) <=> Compares(SwappedPredicate(unswapped), y, x)
    BY <1>2, <2>1, SwappedCompares
  <2> HIDE DEF x, y, unswapped
  <2> QED
    BY <2>1, <2>2 DEF x, y
<1>13. c.tag \in Unsigned => x >= 0 /\ y >= 0
  OBVIOUS
<1>4. /\ \A u : IsNull(u) => u \in DOMAIN Literals /\ ValueOf(u) = 0
      /\ \A u : IsInteger(u) => u \in DOMAIN Literals /\ ValueOf(u) = Literals[u].n
  BY LiteralsAssumption DEF IsNull, IsInteger, ValueOf
<1>5. ASSUME NEW m \in Words, NEW n \in Int, NEW p \in P, c.tag \in Unsigned => m >= 0,
             k = IF Compares(p, m, n) THEN 1 ELSE 2
      PROVE  SignOf(m) \in complement(p, SignOf(n))[k]
  <2>1. SignOf(m) \in PredicateComplement[SignOf(n)][p][k]
    BY <1>5, ComplementSound, WordsType
  <2>2. CASE c.tag \in Unsigned
    <3>1. SignOf(m) # "lt"
      BY <1>5, <2>2, WordsType DEF SignOf
    <3>2. PredicateComplement[SignOf(n)][p][k] \in SUBSET Signs
      BY <1>5, ComplementType, SignsOfNumbers
    <3>3. SignOf(m) \in UnsignedReplacement(PredicateComplement[SignOf(n)][p][k])
      BY <2>1, <3>1, <3>2, ReplacementKeeps
    <3> QED
      BY <2>2, <3>3
  <2>3. CASE c.tag \notin Unsigned
    BY <2>1, <2>3
  <2> QED
    BY <2>2, <2>3
<1>6. AbstractICmp(c) =
        CASE IsNull(second) ->
               complement(IF IsInteger(second) THEN unswapped ELSE SwappedPredicate(unswapped), "eq")
          [] IsNull(first) ->
               complement(SwappedPredicate(IF IsInteger(second) THEN unswapped
                                           ELSE SwappedPredicate(unswapped)), "eq")
          [] IsInteger(second) ->
               complement(IF IsInteger(second) THEN unswapped ELSE SwappedPredicate(unswapped),
                          SignOf(Literals[second].n))
          [] IsInteger(first) ->
               complement(IF IsInteger(second) THEN unswapped ELSE SwappedPredicate(unswapped),
                          SignOf(Literals[first].n))
          [] OTHER -> <<Signs, Signs>>
  BY DEF AbstractICmp
<1>7. c.tag \in {"eq", "ne"} =>
        /\ unswapped = c.tag /\ SwappedPredicate(unswapped) = unswapped
        /\ SwappedPredicate(SwappedPredicate(unswapped)) = unswapped
  BY DEF SignedPredicate, SwappedPredicate
<1>8. \A u : ~(IsNull(u) /\ IsInteger(u))
  BY DEF IsNull, IsInteger
<1>9. SignOf(0) = "eq" /\ \A m \in Int : SignOf(m) \in Signs
  BY SignsOfNumbers DEF SignOf
<1> HIDE DEF complement, unswapped, x, y, P
<1>10. ASSUME first \notin DOMAIN Literals
       PROVE  SignOf(x) \in AbstractICmp(c)[k]
  <2>1. ~IsNull(first) /\ ~IsInteger(first)
    BY <1>4, <1>10
  <2>2. SignOf(x) \in complement(unswapped, SignOf(y))[k]
    BY <1>2, <1>3, <1>5, <1>13
  <2>3. CASE IsNull(second)
    <3>1. c.tag \in {"eq", "ne"}
      BY <2>3
    <3>2. ~IsInteger(second) /\ y = 0
      BY <1>4, <1>8, <2>3 DEF y
    <3>3. AbstractICmp(c) = complement(SwappedPredicate(unswapped), "eq")
      BY <1>6, <2>1, <2>3, <3>2
    <3>4. AbstractICmp(c) = complement(unswapped, SignOf(y))
      BY <1>7, <1>9, <3>1, <3>2, <3>3
    <3> QED
      BY <2>2, <3>4
  <2>4. CASE ~IsNull(second) /\ IsInteger(second)
    <3>1. AbstractICmp(c) = complement(unswapped, SignOf(Literals[second].n))
      BY <1>6, <2>1, <2>4
    <3>2. y = Literals[second].n
      BY <1>4, <2>4 DEF y
    <3> QED
      BY <2>2, <3>1, <3>2
  <2>5. CASE ~IsNull(second) /\ ~IsInteger(second)
    <3>1. AbstractICmp(c) = <<Signs, Signs>>
      BY <1>6, <2>1, <2>5
    <3> QED
      BY <1>2, <1>9, <3>1
  <2> QED
    BY <2>3, <2>4, <2>5
<1>11. ASSUME second \notin DOMAIN Literals
       PROVE  SignOf(y) \in AbstractICmp(c)[k]
  <2>1. ~IsNull(second) /\ ~IsInteger(second)
    BY <1>4, <1>11
  <2>2. SignOf(y) \in complement(SwappedPredicate(unswapped), SignOf(x))[k]
    BY <1>2, <1>3, <1>5, <1>13
  <2>3. CASE IsNull(first)
    <3>1. c.tag \in {"eq", "ne"}
      BY <2>3
    <3>2. x = 0
      BY <1>4, <2>3 DEF x
    <3>3. AbstractICmp(c) = complement(SwappedPredicate(SwappedPredicate(unswapped)), "eq")
      BY <1>6, <1>8, <2>1, <2>3
    <3>4. AbstractICmp(c) = complement(SwappedPredicate(unswapped), SignOf(x))
      BY <1>7, <1>9, <3>1, <3>2, <3>3
    <3> QED
      BY <2>2, <3>4
  <2>4. CASE ~IsNull(first) /\ IsInteger(first)
    <3>1. AbstractICmp(c) = complement(SwappedPredicate(unswapped), SignOf(Literals[first].n))
      BY <1>6, <2>1, <2>4
    <3>2. x = Literals[first].n
      BY <1>4, <2>4 DEF x
    <3> QED
      BY <2>2, <3>1, <3>2
  <2>5. CASE ~IsNull(first) /\ ~IsInteger(first)
    <3>1. AbstractICmp(c) = <<Signs, Signs>>
      BY <1>6, <2>1, <2>5
    <3> QED
      BY <1>2, <1>9, <3>1
  <2> QED
    BY <2>3, <2>4, <2>5
<1>12. (v = first /\ first \notin DOMAIN Literals) \/ (v = second /\ second \notin DOMAIN Literals)
  OBVIOUS
<1>14. SignOf(ValueOf(v)) \in AbstractICmp(c)[k]
  BY <1>10, <1>11, <1>12 DEF x, y
<1>15. AbstractICmp(c)[k] \in SUBSET Signs
  BY <1>1, AbstractICmpType
<1> QED
  BY <1>14, <1>15

-----------------------------------------------------------------------------
(* Runs.                                                                   *)

\* The values l, but for those of functions in m, satisfy a fact; once a negative
\* number has been compared as an unsigned one, nothing is said.
Satisfy(l, fact, m, e) ==
  /\ DOMAIN l \subseteq DOMAIN fact
  /\ "unsigned" \notin e => \A g \in DOMAIN l \ m : SignOf(l[g]) \in fact[g]

\* Comparison c has been made, and nothing written since.
Compared(c) ==
  /\ c.id \in DOMAIN env
  /\ \A j \in 1..2 : HasNumber(c.args[j])
  /\ env[c.id] = IF Compares(c.tag, ValueOf(c.args[1]), ValueOf(c.args[2])) THEN 1 ELSE 0
  /\ c.tag \in Unsigned /\ (ValueOf(c.args[1]) < 0 \/ ValueOf(c.args[2]) < 0) =>
       "unsigned" \in excuses

RunsConstrained ==
  /\ ~Running => last = Empty /\ misread = {} /\ excuses = {}
  /\ Running => /\ Satisfy(last, ConstraintsIn, misread, excuses)
                /\ idx > 1 /\ Body[blk][idx - 1].op = "icmp" /\ I.op = "br" =>
                     Compared(Body[blk][idx - 1])

LEMMA SatisfiesMore ==
  ASSUME NEW l, NEW x, NEW y, NEW m, NEW m2, NEW e, NEW e2,
         Satisfy(l, x, m, e), Below(x, y), m \subseteq m2, e \subseteq e2
  PROVE  Satisfy(l, y, m2, e2)
BY DEF Satisfy, Below

\* Where a run stands, the fixpoint says how the facts before and after its
\* instruction, and at the blocks it may go on to, are related.
LEMMA ConstraintsAtRun ==
  ASSUME WalkOK, TypedFactsOK, ConstrainedOK, Running
  PROVE  /\ ConstraintsIn \in Partial(STRING)
         /\ ConstraintsOut = Outcome(f0, I, ConstraintsIn)
         /\ I.op \in Terminators =>
              \A b \in DOMAIN Body : (\E j \in DOMAIN I.to : I.to[j] = b) =>
                Below(ConstraintsOut, constraints[f0][b][0])
         /\ \A p \in PushedBy(f0, I, ConstraintsIn) : Below(p[2], constraints[f0][p[1]][0])
<1>1. /\ blk > 0 /\ idx > 0 /\ pass = "done"
      /\ f0 \in DOMAIN program.body /\ blk \in DOMAIN Body /\ Body = program.body[f0]
      /\ LastPoint(f0, blk) = Len(Body[blk]) /\ Len(Body[blk]) \in Nat
      /\ idx \in 1..LastPoint(f0, blk)
  BY HereType DEF Running, WalkOK
<1>2. Constrained(f0)
  <2>1. f0 \in Analysed
    BY <1>1 DEF Analysed, WalkOK, f0, Members
  <2> QED
    BY <1>1, <2>1 DEF ConstrainedOK
<1>3. ConstraintsOut = Outcome(f0, I, ConstraintsIn)
  BY <1>1, <1>2 DEF Constrained, ConstrainedAt, ConstraintsIn, ConstraintsOut, I, Body
<1>4. ASSUME I.op \in Terminators, NEW b \in DOMAIN Body, \E j \in DOMAIN I.to : I.to[j] = b
      PROVE  Below(ConstraintsOut, constraints[f0][b][0])
  <2>1. idx = Len(Body[blk])
    BY <1>1, <1>4, InstructionType
  <2>2. blk \in Predecessors(f0, b)
    BY <1>1, <1>4, <2>1 DEF Predecessors, Successors, Terminator, I, Body
  <2> QED
    BY <1>1, <1>2, <1>4, <2>1, <2>2 DEF Constrained, ConstrainedEntry, ConstraintsOut
<1>5. \A p \in PushedBy(f0, I, ConstraintsIn) : Below(p[2], constraints[f0][p[1]][0])
  BY <1>1, <1>3, GivesNothingNew DEF ConstrainedOK
<1>6. ConstraintsIn \in Partial(STRING)
  BY <1>1, PushedByType
<1> QED
  BY <1>3, <1>4, <1>5, <1>6

\* After an instruction of a block a run is at the next.
LEMMA GoesOn ==
  ASSUME WalkOK, Running, Still, I.op \notin Terminators, blk' = blk, idx' = idx + 1,
         Satisfy(last', ConstraintsOut, misread', excuses'),
         I.op = "icmp" => \A c : c = I => Compared(c)'
  PROVE  RunsConstrained'
<1>1. /\ program' = program /\ constraints' = constraints /\ pass' = pass /\ pass = "done"
      /\ scc' = scc /\ fn' = fn /\ f0' = f0 /\ Body' = Body /\ idx > 0 /\ blk > 0
  BY DEF Still, facts, Running, f0, Members, Body, WalkOK
<1>2. idx \in Nat /\ idx' - 1 = idx
  BY <1>1, HereType
<1>3. Running'
  BY <1>1 DEF Running
<1>4. Satisfy(last, ConstraintsIn, misread, excuses)'
  <2>1. ConstraintsIn' = ConstraintsOut
    BY <1>1, <1>2 DEF ConstraintsIn, ConstraintsOut
  <2> QED
    BY <2>1 DEF Satisfy
<1>5. Body[blk][idx - 1]' = I
  BY <1>1, <1>2 DEF I
<1> QED
  BY <1>3, <1>4, <1>5 DEF RunsConstrained

\* An instruction that is no call leaves what is known as it is.
LEMMA ComputesOn ==
  ASSUME WalkOK, TypedFactsOK, ConstrainedOK, RunsConstrained, Running, Still,
         I.op \notin Terminators \union {"call"}, blk' = blk, idx' = idx + 1,
         last' = last, misread' = misread, excuses \subseteq excuses',
         I.op = "icmp" => \A c : c = I => Compared(c)'
  PROVE  RunsConstrained'
<1>1. TestedBy(f0, I) = {}
  BY DEF TestedBy, OnComparison, OnCases, Terminators
<1>2. ConstraintsOut = ConstraintsIn
  BY <1>1, ConstraintsAtRun, OutcomeUntested
<1>3. Satisfy(last, ConstraintsIn, misread, excuses)
  BY DEF RunsConstrained
<1>4. Satisfy(last', ConstraintsOut, misread', excuses')
  BY <1>2, <1>3 DEF Satisfy
<1> QED
  BY <1>4, GoesOn

\* What is written to a variable before the instruction that a run is at does
\* not concern what is known of functions.
LEMMA WritesOn ==
  ASSUME WalkOK, RunsConstrained, WriteExposed
  PROVE  RunsConstrained'
<1>1. /\ Running /\ I.op # "br" /\ Still /\ last' = last /\ misread' = misread
      /\ excuses \subseteq excuses' /\ blk' = blk /\ idx' = idx
  BY DEF WriteExposed, Executes
<1>2. /\ constraints' = constraints /\ f0' = f0 /\ I' = I /\ Running'
  BY <1>1 DEF Still, facts, Running, f0, Members, Body, I
<1>3. Satisfy(last, ConstraintsIn, misread, excuses)'
  BY <1>1, <1>2 DEF RunsConstrained, Satisfy, ConstraintsIn
<1> QED
  BY <1>1, <1>2, <1>3 DEF RunsConstrained

LEMMA CallsOn ==
  ASSUME WalkOK, TypedFactsOK, ConstrainedOK, RunsConstrained, ExecCall
  PROVE  RunsConstrained'
<1>1. PICK n : last' = Updated(last, I.tag, n) /\ blk' = blk /\ idx' = idx + 1
  BY DEF ExecCall, Define
<1>2. Running /\ I.op = "call" /\ Still /\ excuses' = excuses /\ misread' = misread \ {I.tag}
  BY DEF ExecCall, Executes
<1>3. ConstraintsOut = Updated(ConstraintsIn, I.tag, Signs)
  BY <1>2, ConstraintsAtRun DEF Outcome
<1>4. Satisfy(last, ConstraintsIn, misread, excuses)
  BY <1>2 DEF RunsConstrained
<1>5. SignOf(n) \in Signs
  BY DEF SignOf, Signs
<1>6. Satisfy(last', ConstraintsOut, misread', excuses')
  BY <1>1, <1>2, <1>3, <1>4, <1>5 DEF Satisfy, Updated
<1> QED
  BY <1>1, <1>2, <1>6, GoesOn DEF Terminators

LEMMA ComparesOn ==
  ASSUME WalkOK, TypedFactsOK, ConstrainedOK, RunsConstrained, TestsWhereComputed(program),
         ExecIcmp
  PROVE  RunsConstrained'
<1> DEFINE x == ValueOf(I.args[1])
           y == ValueOf(I.args[2])
           n == IF Compares(I.tag, x, y) THEN 1 ELSE 0
<1>1. /\ Running /\ I.op = "icmp" /\ Still /\ last' = last /\ misread' = misread
      /\ Unset = {}
  BY DEF ExecIcmp, Executes
<1>2. /\ Define(I.id, n, {}, {})
      /\ excuses' = IF I.tag \in Unsigned /\ (x < 0 \/ y < 0)
                    THEN excuses \union {"unsigned"} ELSE excuses
  BY DEF ExecIcmp
<1>3. blk' = blk /\ idx' = idx + 1 /\ env' = Updated(env, I.id, n)
  BY <1>2 DEF Define
<1>4. blk > 0 /\ idx > 0
  BY <1>1 DEF Running, WalkOK
<1>5. I \in Instructions /\ IsInstructionOf(Body, I) /\ DOMAIN I.args = {1, 2}
  BY <1>1, <1>4, AtAnInstruction, Operands
<1>6. \A j \in 1..2 : HasNumber(I.args[j])
  BY <1>1, <1>5 DEF Unset
<1>7. \A j \in 1..2 : I.args[j] # I.id
  <2>1. f0 \in DOMAIN program.body /\ blk \in DOMAIN program.body[f0]
        /\ idx \in DOMAIN program.body[f0][blk]
    BY <1>4, AtAnInstruction, BodyType DEF WalkOK
  <2>2. program.body[f0][blk][idx] = I
    BY DEF I, Body
  <2> QED
    BY <1>1, <1>5, <2>1, <2>2 DEF TestsWhereComputed
<1>a. \A v : Variable(v)' = Variable(v)
  BY <1>1 DEF Still, Variable, IsA, IsInstruction, Definitions, DefinitionOf, PointOf, Points,
              LastPoint, f0, Members
<1>8. \A v : v # I.id /\ HasNumber(v) => ValueOf(v)' = ValueOf(v) /\ HasNumber(v)'
  BY <1>3, <1>a DEF ValueOf, HasNumber, Updated
<1>9. ASSUME NEW c, c = I
      PROVE  Compared(c)'
  <2>1. \A j \in 1..2 : ValueOf(c.args[j])' = ValueOf(I.args[j])
    BY <1>6, <1>7, <1>8, <1>9
  <2>2. /\ DOMAIN env' = DOMAIN env \union {c.id} /\ env'[c.id] = n
    BY <1>3, <1>9 DEF Updated
  <2>3. /\ ValueOf(c.args[1])' = x /\ ValueOf(c.args[2])' = y
    BY <2>1
  <2> HIDE DEF x, y
  <2>4. n = IF Compares(c.tag, ValueOf(c.args[1])', ValueOf(c.args[2])') THEN 1 ELSE 0
    BY <1>9, <2>3
  <2>5. c.tag \in Unsigned /\ (ValueOf(c.args[1])' < 0 \/ ValueOf(c.args[2])' < 0) =>
          "unsigned" \in excuses'
    BY <1>2, <1>9, <2>3
  <2>6. \A j \in 1..2 : HasNumber(c.args[j])'
    BY <1>6, <1>7, <1>8, <1>9
  <2> QED
    BY <2>2, <2>4, <2>5, <2>6 DEF Compared, Compares
<1>10. excuses \subseteq excuses'
  BY <1>2
<1> QED
  BY <1>1, <1>3, <1>9, <1>10, ComputesOn DEF Terminators

\* At a branch only what is tested may have become narrower.
LEMMA BranchesOn ==
  ASSUME WalkOK, TypedFactsOK, ConstrainedOK, RunsConstrained, Running, Still,
         I.op \in {"br", "switch"}, NEW b \in DOMAIN Body, Jump(b), \E j \in DOMAIN I.to : I.to[j] = b,
         last' = last, misread \subseteq misread', excuses \subseteq excuses',
         "unsigned" \notin excuses' =>
           \A g \in (TestedBy(f0, I) \cap DOMAIN last) \ misread' :
             \E p \in GivenBy(f0, I) : p[1] = b /\ SignOf(last[g]) \in p[2]
  PROVE  RunsConstrained'
<1> DEFINE entry == constraints[f0][b][0]
<1>1. /\ program' = program /\ constraints' = constraints /\ pass' = pass /\ pass = "done"
      /\ scc' = scc /\ fn' = fn /\ f0' = f0 /\ blk' = b /\ idx' = 1 /\ blk > 0 /\ idx > 0
  BY DEF Still, facts, Jump, Running, f0, Members, WalkOK
<1>2. b \in Nat \ {0}
  BY HereType, BodyType DEF WalkOK
<1>3. Running'
  BY <1>1, <1>2 DEF Running
<1>4. Satisfy(last, ConstraintsIn, misread, excuses)
  BY DEF RunsConstrained
<1>5. DOMAIN last \subseteq DOMAIN ConstraintsIn
  BY <1>4 DEF Satisfy
<1>6. /\ DOMAIN ConstraintsOut = DOMAIN ConstraintsIn \union TestedBy(f0, I)
      /\ \A g \in DOMAIN ConstraintsIn \ TestedBy(f0, I) : ConstraintsOut[g] = ConstraintsIn[g]
  BY ConstraintsAtRun DEF Outcome
<1>7. Below(ConstraintsOut, entry)
  BY ConstraintsAtRun DEF Terminators
<1>8. ASSUME "unsigned" \notin excuses', NEW g \in DOMAIN last \ misread'
      PROVE  SignOf(last[g]) \in entry[g]
  <2>1. g \in DOMAIN ConstraintsIn /\ SignOf(last[g]) \in ConstraintsIn[g]
    BY <1>4, <1>5, <1>8 DEF Satisfy
  <2>2. CASE g \notin TestedBy(f0, I)
    BY <1>6, <1>7, <2>1, <2>2 DEF Below
  <2>3. CASE g \in TestedBy(f0, I)
    <3>1. PICK p \in GivenBy(f0, I) : p[1] = b /\ SignOf(last[g]) \in p[2]
      BY <1>8, <2>3
    <3> DEFINE narrowed == Narrowed(ConstraintsIn, TestedBy(f0, I), p[2])
               q == <<p[1], narrowed>>
    <3>2. q \in PushedBy(f0, I, ConstraintsIn)
      BY DEF PushedBy
    <3>3. q[1] = b /\ q[2] = narrowed
      BY <3>1
    <3>4. Below(narrowed, entry)
      BY <3>2, <3>3, ConstraintsAtRun
    <3>5. p[2] \in SUBSET Signs /\ ConstraintsIn[g] \in SUBSET Signs
      BY <1>1, <2>1, PushedByType, PartialFunction
    <3>6. g \in DOMAIN narrowed /\ narrowed[g] = Meet(p[2], ConstraintsIn[g])
      BY <2>1, <2>3 DEF Narrowed
    <3>7. SignOf(last[g]) \in narrowed[g]
      BY <2>1, <3>1, <3>5, <3>6, MeetIsIntersection
    <3> QED
      BY <3>4, <3>6, <3>7 DEF Below
  <2> QED
    BY <2>2, <2>3
<1>9. Satisfy(last, entry, misread', excuses')
  BY <1>5, <1>6, <1>7, <1>8 DEF Satisfy, Below
<1>10. Satisfy(last, ConstraintsIn, misread, excuses)'
  <2>1. ConstraintsIn' = entry
    BY <1>1 DEF ConstraintsIn
  <2> QED
    BY <1>9, <2>1 DEF Satisfy
<1> QED
  BY <1>1, <1>3, <1>10 DEF RunsConstrained

\* An operand that is tested is no literal.
LEMMA TestedIsNoLiteral ==
  ASSUME WalkOK, NEW u, IsA(f0, u, "icmp"), NEW v \in TestedIn(f0, DefinitionOf(f0, u))
  PROVE  \E j \in 1..2 : v = DefinitionOf(f0, u).args[j] /\ v \notin DOMAIN Literals
<1> DEFINE c == DefinitionOf(f0, u)
<1>1. c.args[1] \in Values /\ c.args[2] \in Values /\ f0 \in DOMAIN program.body
  BY ComparisonType, HereType
<1>2. \/ v = c.args[1] /\ IsInstruction(f0, c.args[1])
      \/ v = c.args[2] /\ IsInstruction(f0, c.args[2])
  BY DEF TestedIn
<1> HIDE DEF c
<1>3. \E j \in 1..2 : v = c.args[j] /\ v \notin DOMAIN Literals
  BY <1>1, <1>2, InstructionsAreNoLiterals DEF WalkOK
<1> QED
  BY <1>3 DEF c

\* A branch on a comparison: what was compared just now has the signs that the
\* branch gives it, whichever of the operands it is.
LEMMA TestsSoundly ==
  ASSUME WalkOK, ValuesOK, RunsConstrained, TestsWhereComputed(program), Running,
         OnComparison(f0, I), "unsigned" \notin excuses,
         NEW k \in 1..2, k = IF ValueOf(I.args[1]) # 0 THEN 1 ELSE 2,
         NEW v,
         \E j \in 1..2 : v = DefinitionOf(f0, I.args[1]).args[j] /\ v \notin DOMAIN Literals
  PROVE  SignOf(ValueOf(v)) \in AbstractICmp(DefinitionOf(f0, I.args[1]))[k]
<1> DEFINE u == I.args[1]
           c == DefinitionOf(f0, u)
<1>1. /\ blk > 0 /\ idx > 0 /\ f0 \in DOMAIN program.body /\ Body = program.body[f0]
      /\ blk \in DOMAIN program.body[f0] /\ LastPoint(f0, blk) = Len(Body[blk])
      /\ program \in Programs
  BY AtAnInstruction DEF Running, WalkOK, LastPoint
<1>2. I.op = "br" /\ IsA(f0, u, "icmp")
  BY DEF OnComparison
<1>3. idx = LastPoint(f0, blk)
  BY <1>1, <1>2, InstructionType DEF Terminators
<1>4. I = Terminator(f0, blk)
  BY <1>1, <1>3 DEF I, Body, Terminator, LastPoint
<1>5. idx > 1 /\ c = Body[blk][idx - 1]
  BY <1>1, <1>3, <1>4, ComparedBefore
<1>6. /\ c \in Instructions /\ IsInstructionOf(Body, c) /\ c.op = "icmp" /\ DOMAIN c.args = {1, 2}
      /\ c.id = u /\ u \notin DOMAIN Literals
  <2>1. c \in Instructions /\ IsInstructionOf(Body, c) /\ c.op = "icmp"
    BY <1>1, <1>2, DefinitionType DEF IsA
  <2>2. DOMAIN c.args = {1, 2} /\ c.id \in Values \ DOMAIN Literals
    <3> HIDE DEF c
    <3> QED
      BY <2>1, Operands DEF Terminators
  <2>3. c.id = u
    <3>1. PointOf(f0, u) \in Definitions(f0, u)
      BY <1>2 DEF IsA, IsInstruction, PointOf
    <3> QED
      BY <3>1 DEF Definitions, DefinitionOf
  <2> QED
    BY <2>1, <2>2, <2>3
<1>7. Compared(c)
  <2>1. Body[blk][idx - 1].op = "icmp"
    BY <1>5, <1>6
  <2> QED
    BY <1>2, <1>5, <2>1 DEF RunsConstrained
<1>b. ~Variable(u)
  BY <1>2 DEF Variable, IsA
<1> HIDE DEF c
<1>8. k = IF Compares(c.tag, ValueOf(c.args[1]), ValueOf(c.args[2])) THEN 1 ELSE 2
  <2>1. ValueOf(u) = IF Compares(c.tag, ValueOf(c.args[1]), ValueOf(c.args[2])) THEN 1 ELSE 0
    <3>1. ValueOf(u) = env[c.id]
      BY <1>6, <1>b DEF ValueOf
    <3> QED
      BY <1>7, <3>1 DEF Compared
  <2> HIDE DEF u
  <2>2. k = IF ValueOf(u) # 0 THEN 1 ELSE 2
    BY DEF u
  <2> QED
    BY <2>1, <2>2
<1>9. \A j \in 1..2 : c.args[j] \in Values /\ HasNumber(c.args[j])
  <2>1. c.args \in Seq(Values)
    BY <1>6 DEF Instructions
  <2>2. \A j \in DOMAIN c.args : c.args[j] \in Values
    BY <2>1
  <2> QED
    BY <1>6, <1>7, <2>2 DEF Compared
<1>10. IsNull(c.args[1]) \/ IsNull(c.args[2]) => c.tag \in {"eq", "ne"}
  <2>1. idx - 1 \in DOMAIN program.body[f0][blk]
    BY <1>1, <1>5, AtAnInstruction, BodyType
  <2>2. c = program.body[f0][blk][idx - 1]
    BY <1>1, <1>5
  <2> QED
    BY <1>1, <1>6, <2>1, <2>2 DEF TestsWhereComputed
<1>11. c.tag \in Unsigned => ValueOf(c.args[1]) >= 0 /\ ValueOf(c.args[2]) >= 0
  <2>1. \A j \in 1..2 : ValueOf(c.args[j]) \in Int
    BY <1>9, ReadsWords, WordsType
  <2> QED
    BY <1>7, <2>1 DEF Compared
<1>12. \E j \in 1..2 : v = c.args[j] /\ v \notin DOMAIN Literals
  BY DEF c
<1>13. SignOf(ValueOf(v)) \in AbstractICmp(c)[k]
  BY <1>6, <1>8, <1>9, <1>10, <1>11, <1>12, AbstractICmpSound
<1> QED
  BY <1>13 DEF c

LEMMA ExecBranchConstrained ==
  ASSUME WalkOK, TypedFactsOK, ConstrainedOK, ValuesOK, RunsConstrained,
         TestsWhereComputed(program), ExecBranch
  PROVE  RunsConstrained'
<1> DEFINE k == IF ValueOf(I.args[1]) # 0 THEN 1 ELSE 2
           c == DefinitionOf(f0, I.args[1])
<1>1. /\ Running /\ I.op = "br" /\ Still /\ last' = last
      /\ misread \subseteq misread' /\ excuses \subseteq excuses'
  BY DEF ExecBranch, Executes
<1>2. /\ I \in Instructions /\ IsInstructionOf(Body, I)
      /\ \A j \in DOMAIN I.to : I.to[j] \in DOMAIN Body
      /\ Len(I.to) \in 1..2 /\ I.to \in Seq(Nat)
  <2>1. I \in Instructions /\ IsInstructionOf(Body, I)
    BY <1>1, InstructionType DEF Running, WalkOK
  <2> QED
    BY <1>1, <2>1 DEF IsInstructionOf, Instructions
<1>3. CASE ~OnComparison(f0, I)
  <2>1. TestedBy(f0, I) = {}
    BY <1>1, <1>3 DEF TestedBy, OnCases
  <2>2. PICK j \in DOMAIN I.to : Jump(I.to[j])
    <3>1. CASE Len(I.to) = 1
      BY <1>2, <3>1 DEF ExecBranch
    <3>2. CASE Len(I.to) = 2
      BY <1>2, <3>2 DEF ExecBranch
    <3> QED
      BY <1>2, <3>1, <3>2
  <2> QED
    BY <1>1, <1>2, <2>1, <2>2, BranchesOn
<1>4. CASE OnComparison(f0, I)
  <2>1. Len(I.to) = 2 /\ IsA(f0, I.args[1], "icmp")
    BY <1>4 DEF OnComparison
  <2>2. Jump(I.to[k]) /\ k \in DOMAIN I.to /\ k \in 1..2
    BY <1>2, <2>1 DEF ExecBranch
  <2>3. misread' = misread \union UNION {Misread(v) : v \in Tested(c)}
    BY <2>1 DEF ExecBranch
  <2>4. ASSUME "unsigned" \notin excuses',
               NEW g \in (TestedBy(f0, I) \cap DOMAIN last) \ misread'
        PROVE  \E p \in GivenBy(f0, I) : p[1] = I.to[k] /\ SignOf(last[g]) \in p[2]
    <3>1. PICK v \in TestedIn(f0, c) : g \in FunctionsHeldIn(f0, v)
      BY <1>4, <2>4 DEF TestedBy
    <3>2. last[g] = ValueOf(v)
      <4>1. v \in Tested(c) /\ g \in FunctionsHeld(v)
        BY <3>1 DEF Tested, TestedIn, FunctionsHeld, FunctionsHeldIn
      <4>2. g \notin Misread(v)
        BY <2>3, <2>4, <4>1
      <4> QED
        BY <4>1, <4>2 DEF Misread
    <3>3. SignOf(ValueOf(v)) \in AbstractICmp(c)[k]
      <4>1. \E j \in 1..2 : v = c.args[j] /\ v \notin DOMAIN Literals
        BY <2>1, <3>1, TestedIsNoLiteral
      <4> QED
        BY <1>1, <1>4, <2>2, <2>4, <4>1, TestsSoundly
    <3> DEFINE p == <<I.to[k], AbstractICmp(c)[k]>>
    <3>4. p \in GivenBy(f0, I)
      BY <1>4, <2>2 DEF GivenBy
    <3>5. p[1] = I.to[k] /\ SignOf(last[g]) \in p[2]
      BY <3>2, <3>3
    <3> QED
      BY <3>4, <3>5
  <2> HIDE DEF k, c
  <2> QED
    BY <1>1, <1>2, <2>2, <2>4, BranchesOn
<1> QED
  BY <1>3, <1>4

LEMMA ExecSwitchConstrained ==
  ASSUME WalkOK, TypedFactsOK, ConstrainedOK, RunsConstrained, ExecSwitch
  PROVE  RunsConstrained'
<1> DEFINE v == I.args[1]
           taken == {k \in DOMAIN I.cases : Literals[I.cases[k]].n = ValueOf(v)}
           held == IF IsInstruction(f0, v) THEN FunctionsHeld(v) ELSE {}
           wrong == IF taken = {} THEN held ELSE held \cap Misread(v)
<1>1. /\ Running /\ I.op = "switch" /\ Still /\ last' = last
      /\ misread' = misread \union wrong /\ excuses \subseteq excuses'
      /\ Jump(I.to[IF taken = {} THEN 1 ELSE 1 + CHOOSE k \in taken : TRUE])
  BY DEF ExecSwitch, Executes
<1>2. /\ I \in Instructions /\ IsInstructionOf(Body, I)
      /\ \A j \in DOMAIN I.to : I.to[j] \in DOMAIN Body
  <2>1. I \in Instructions /\ IsInstructionOf(Body, I)
    BY <1>1, InstructionType DEF Running, WalkOK
  <2> QED
    BY <2>1 DEF IsInstructionOf
<1>3. /\ Len(I.cases) \in Nat /\ DOMAIN I.to = 1..(Len(I.cases) + 1)
      /\ DOMAIN I.cases = 1..Len(I.cases)
  BY <1>1, <1>2, Operands
<1>4. TestedBy(f0, I) \subseteq held
  BY <1>1 DEF TestedBy, OnComparison, OnCases, FunctionsHeld, FunctionsHeldIn
<1>5. CASE taken = {}
  <2>1. Jump(I.to[1]) /\ 1 \in DOMAIN I.to
    BY <1>1, <1>3, <1>5
  <2>2. TestedBy(f0, I) \subseteq misread'
    BY <1>1, <1>4, <1>5
  <2> HIDE DEF taken, held, wrong
  <2> QED
    BY <1>1, <1>2, <2>1, <2>2, BranchesOn
<1>6. CASE taken # {}
  <2>1. PICK k \in taken : Jump(I.to[1 + k])
    BY <1>1, <1>6
  <2>2. k \in DOMAIN I.cases /\ Literals[I.cases[k]].n = ValueOf(v) /\ k + 1 \in DOMAIN I.to
        /\ I.to[1 + k] = I.to[k + 1]
    BY <1>3, <2>1
  <2>3. ASSUME NEW g \in (TestedBy(f0, I) \cap DOMAIN last) \ misread'
        PROVE  \E p \in GivenBy(f0, I) : p[1] = I.to[k + 1] /\ SignOf(last[g]) \in p[2]
    <3>1. OnCases(f0, I) /\ ~OnComparison(f0, I)
      BY <1>1, <2>3 DEF TestedBy, OnComparison
    <3>2. g \in FunctionsHeld(v) /\ g \notin Misread(v)
      <4>1. g \in held /\ g \notin wrong
        BY <1>1, <1>4, <2>3
      <4> QED
        BY <1>6, <4>1
    <3>3. last[g] = Literals[I.cases[k]].n
      BY <2>2, <3>2 DEF Misread
    <3> DEFINE p == <<I.to[k + 1], {SignOf(Literals[I.cases[k]].n)}>>
    <3>4. p \in GivenBy(f0, I)
      BY <2>2, <3>1 DEF GivenBy
    <3>5. p[1] = I.to[k + 1] /\ SignOf(last[g]) \in p[2]
      BY <3>3
    <3> QED
      BY <3>4, <3>5
  <2> HIDE DEF taken, held, wrong
  <2> QED
    BY <1>1, <1>2, <2>1, <2>2, <2>3, BranchesOn
<1> QED
  BY <1>5, <1>6

-----------------------------------------------------------------------------
(* The invariant.                                                          *)

ConstraintsInv == TypesInv /\ ConstrainedOK /\ RunsConstrained

LEMMA InitConstraints == Init => ConstraintsInv
<1> SUFFICES ASSUME Init PROVE ConstraintsInv
  OBVIOUS
<1>1. /\ constraints = Everywhere(Empty) /\ pass = "propagation" /\ last = Empty
      /\ misread = {} /\ excuses = {} /\ program \in Programs
  BY DEF Init, AnalysisInit
<1>2. TypesInv
  BY InitTypes
<1>3. \A f \in DOMAIN program.body : \A a \in DOMAIN program.body[f] :
        DOMAIN constraints[f][a][LastPoint(f, a)] = {}
  <2>1. \A f \in DOMAIN program.body : \A a \in DOMAIN program.body[f] :
          LastPoint(f, a) \in 0..LastPoint(f, a)
    BY <1>1, BodyType
  <2> QED
    BY <1>1, <2>1 DEF Everywhere, Empty
<1>4. ConstrainedOK
  BY <1>1, <1>3 DEF ConstrainedOK, GivenOK
<1>5. RunsConstrained
  BY <1>1 DEF RunsConstrained, Running
<1> QED
  BY <1>2, <1>4, <1>5 DEF ConstraintsInv

\* No run changes a fact.
LEMMA RunsKeepConstraints ==
  ASSUME WalkOK, ConstrainedOK, program' = program, propagation' = propagation,
         constraints' = constraints, pass = "done", pass' = pass
  PROVE  ConstrainedOK'
<1>1. ASSUME NEW f \in Analysed
      PROVE  Constrained(f)' = Constrained(f)
  <2>1. \A b \in DOMAIN program.body[f] : LastPoint(f, b) \in Nat \ {0}
    BY <1>1, BodyType DEF WalkOK, Analysed
  <2> QED
    BY <2>1, ConstrainedKept
<1>2. Analysed' = Analysed
  BY DEF Analysed
<1>3. GivenOK'
  BY GivenUnchanged DEF ConstrainedOK
<1> QED
  BY <1>1, <1>2, <1>3 DEF ConstrainedOK

\* A run begins with nothing returned yet.
LEMMA StartConstrained ==
  ASSUME WalkOK, RunsConstrained, Start
  PROVE  RunsConstrained'
<1>1. last = Empty /\ last' = last /\ idx' = 1 /\ blk' = 1 /\ pass' = "done"
  BY DEF RunsConstrained, Running, Start
<1>2. DOMAIN last' = {}
  BY <1>1 DEF Empty
<1>3. Satisfy(last, ConstraintsIn, misread, excuses)'
  BY <1>2 DEF Satisfy
<1> QED
  BY <1>1, <1>3 DEF RunsConstrained, Running

LEMMA FinishConstrained ==
  ASSUME Finish
  PROVE  RunsConstrained'
BY DEF Finish, RunsConstrained, Running

LEMMA RunsStayConstrained ==
  ASSUME WalkOK, TypedFactsOK, ValuesOK, ConstrainedOK, RunsConstrained,
         TestsWhereComputed(program), Runs
  PROVE  RunsConstrained'
<1>1. CASE Start
  BY <1>1, StartConstrained
<1>2. CASE ExecCall
  BY <1>2, CallsOn
<1>3. CASE ExecIcmp
  BY <1>3, ComparesOn
<1>4. CASE \/ ExecAlloca \/ ExecStore \/ ExecStoreThrough \/ ExecLoad \/ ExecLoadThrough
           \/ ExecCast \/ ExecTrunc \/ ExecZext \/ ExecBinop \/ ExecGep \/ ExecPhi
  <2>1. /\ Running /\ Still /\ last' = last /\ misread' = misread
        /\ I.op \in {"alloca", "store", "load", "bitcast", "ptrtoint", "sext", "trunc", "zext",
                     "binop", "gep", "phi"}
    BY <1>4
    DEF ExecAlloca, ExecStore, ExecStoreThrough, ExecLoad, ExecLoadThrough, ExecCast, ExecTrunc,
        ExecZext, ExecBinop, ExecGep, ExecPhi, Executes
  <2>2. blk' = blk /\ idx' = idx + 1
    <3>1. CASE ExecAlloca \/ ExecStoreThrough
      BY <3>1 DEF ExecAlloca, ExecStoreThrough
    <3>2. CASE ~(ExecAlloca \/ ExecStoreThrough)
      <4>1. \E v, n, o, t : Define(v, n, o, t)
        BY <1>4, <3>2
        DEF ExecStore, ExecLoad, ExecLoadThrough, ExecCast, ExecTrunc, ExecZext, ExecBinop,
            ExecGep, ExecPhi
      <4> QED
        BY <4>1 DEF Define
    <3> QED
      BY <3>1, <3>2
  <2>3. excuses \subseteq excuses'
    BY <1>4
    DEF ExecAlloca, ExecStore, ExecStoreThrough, ExecLoad, ExecLoadThrough, ExecCast, ExecTrunc,
        ExecZext, ExecBinop, ExecGep, ExecPhi
  <2> QED
    BY <2>1, <2>2, <2>3, ComputesOn DEF Terminators
<1>8. CASE WriteExposed
  BY <1>8, WritesOn
<1>5. CASE ExecBranch
  BY <1>5, ExecBranchConstrained
<1>6. CASE ExecSwitch
  BY <1>6, ExecSwitchConstrained
<1>7. CASE ExecNoReturn \/ ExecUndefined \/ ExecRet
  BY <1>7, FinishConstrained DEF ExecNoReturn, ExecUndefined, ExecRet
<1> QED
  BY <1>1, <1>2, <1>3, <1>4, <1>5, <1>6, <1>7, <1>8 DEF Runs

LEMMA NextConstraints ==
  ASSUME \A p \in Programs : TestsWhereComputed(p)
  PROVE  ConstraintsInv /\ [Next]_vars => ConstraintsInv'
<1> SUFFICES ASSUME ConstraintsInv, [Next]_vars PROVE ConstraintsInv'
  OBVIOUS
<1>1. /\ TypesInv /\ WalkOK /\ TypedFactsOK /\ ValuesOK /\ ConstrainedOK /\ RunsConstrained
      /\ TestsWhereComputed(program)
  BY DEF ConstraintsInv, TypesInv, IInv, WalkOK
<1>2. TypesInv'
  BY <1>1, NextTypes
<1>3. CASE Analyse
  <2>1. AnalysisNext /\ UNCHANGED run
    BY <1>3 DEF Analyse
  <2>2. ~Running /\ ~Running'
    <3>1. pass # "done"
      BY <1>1, <2>1, Moves
    <3>2. CASE NextFunction
      BY <3>1, <3>2 DEF NextFunction, GoTo, Running
    <3>3. CASE Entered \/ \E d : Step(d)
      BY <3>1, <3>3 DEF Entered, Step, Running
    <3> QED
      BY <1>1, <2>1, <3>1, <3>2, <3>3, Moves DEF Running
  <2>3. RunsConstrained'
    BY <1>1, <2>1, <2>2 DEF run, RunsConstrained
  <2> QED
    BY <1>1, <1>2, <2>1, <2>3, ConstrainedOKKept DEF ConstraintsInv
<1>4. CASE Runs
  <2>1. /\ program' = program /\ propagation' = propagation /\ constraints' = constraints
        /\ pass = "done" /\ pass' = pass
    BY <1>4, RunsAreStill DEF facts
  <2> QED
    BY <1>1, <1>2, <1>4, <2>1, RunsKeepConstraints, RunsStayConstrained DEF ConstraintsInv
<1>5. CASE UNCHANGED vars
  <2>1. UNCHANGED <<program, facts, walk, run>>
    BY <1>5 DEF vars
  <2>2. ASSUME NEW f
        PROVE  /\ Constrained(f)' = Constrained(f)
               /\ \A b : ConstrainedEntry(f, b)' = ConstrainedEntry(f, b)
               /\ \A b, i : ConstrainedAt(f, b, i)' = ConstrainedAt(f, b, i)
    <3>1. /\ \A b : ConstrainedEntry(f, b)' = ConstrainedEntry(f, b)
          /\ \A b, i : ConstrainedAt(f, b, i)' = ConstrainedAt(f, b, i)
      BY <2>1, TestsKept
      DEF facts, ConstrainedEntry, ConstrainedAt, Below, Predecessors, Successors, Terminator,
          LastPoint, Outcome, Updated
    <3> QED
      BY <2>1, <3>1 DEF Constrained, LastPoint
  <2>3. ConstrainedSoFar' = ConstrainedSoFar
    <3>1. f0' = f0 /\ Body' = Body /\ (\A b : LastPoint(f0, b)' = LastPoint(f0, b))
      BY <2>1 DEF walk, LastPoint, Body, f0, Members
    <3>2. \A b, i : Visited(b, i)' = Visited(b, i)
      BY <2>1 DEF walk, Visited
    <3>3. /\ \A b : ConstrainedEntry(f0, b)' = ConstrainedEntry(f0, b)
          /\ \A b, i : ConstrainedAt(f0, b, i)' = ConstrainedAt(f0, b, i)
      <4>1. ASSUME NEW f, f = f0
            PROVE  /\ \A b : ConstrainedEntry(f, b)' = ConstrainedEntry(f, b)
                   /\ \A b, i : ConstrainedAt(f, b, i)' = ConstrainedAt(f, b, i)
        BY <2>2
      <4> QED
        BY <3>1, <4>1
    <3> QED
      BY <3>1, <3>2, <3>3 DEF ConstrainedSoFar
  <2>4. GivenOK'
    <3>1. ASSUME NEW f, NEW a
          PROVE  Given(f, a)' = Given(f, a) /\ Ahead(f, a)' = Ahead(f, a)
      BY <2>1, GivenMeans DEF facts, walk, Given, Ahead, f0, Members, LastPoint
    <3> QED
      BY <1>1, <2>1, <3>1 DEF facts, ConstrainedOK, GivenOK, LastPoint
  <2>5. /\ Left' = Left /\ Analysed' = Analysed /\ Everywhere(Empty)' = Everywhere(Empty)
    BY <2>1 DEF walk, Left, Analysed, Everywhere, LastPoint
  <2>6. ConstrainedOK'
    BY <1>1, <2>1, <2>2, <2>3, <2>4, <2>5 DEF facts, walk, ConstrainedOK
  <2>7. RunsConstrained'
    <3>1. /\ Running' = Running /\ Body' = Body /\ I' = I /\ ConstraintsIn' = ConstraintsIn
          /\ blk' = blk /\ idx' = idx
          /\ last' = last /\ misread' = misread /\ excuses' = excuses /\ env' = env
      BY <2>1 DEF facts, walk, run, Running, Body, f0, Members, I, ConstraintsIn
    <3>2. \A v : Variable(v)' = Variable(v)
      BY <2>1
      DEF walk, Variable, IsA, IsInstruction, Definitions, DefinitionOf, PointOf, Points,
          LastPoint, f0, Members
    <3>3. \A v : ValueOf(v)' = ValueOf(v) /\ HasNumber(v)' = HasNumber(v)
      BY <3>1, <3>2 DEF ValueOf, HasNumber
    <3>4. \A c : Compared(c)' = Compared(c)
      BY <3>1, <3>3 DEF Compared, Compares
    <3> QED
      BY <1>1, <3>1, <3>4 DEF RunsConstrained, Satisfy
  <2> QED
    BY <1>2, <2>6, <2>7 DEF ConstraintsInv
<1> QED
  BY <1>3, <1>4, <1>5 DEF Next, Runs

\* Every step of the passes and of a run keeps the facts of ReturnConstraintsPass
\* on their way to a fixpoint, and what a run has seen returned within them.
THEOREM ConstraintsInvariance ==
  ASSUME \A p \in Programs : TestsWhereComputed(p)
  PROVE  Spec => []ConstraintsInv
<1> QED
  BY InitConstraints, NextConstraints, PTL DEF Spec

\* Of programs that are tested where they are compared: wherever a run stands,
\* what a function returned last satisfies the constraint that
\* ReturnConstraintsPass has on it there.
THEOREM ConstraintsAreKept ==
  ASSUME \A p \in Programs : TestsWhereComputed(p)
  PROVE  Spec => []ConstraintsSound
<1>1. ConstraintsInv => ConstraintsSound
  BY DEF ConstraintsInv, RunsConstrained, Satisfy, ConstraintsSound, ConstraintsIn
<1> QED
  BY <1>1, ConstraintsInvariance, PTL
=============================================================================
