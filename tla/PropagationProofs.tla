------------------------- MODULE PropagationProofs -------------------------
(***************************************************************************)
(* Proofs about the walk of the data-flow passes and about                 *)
(* ReturnPropagationPass: when the pass has ended its facts are a fixpoint *)
(* for every function, and so they hold in every run.                      *)
(***************************************************************************)
EXTENDS Execution, TLAPS

-----------------------------------------------------------------------------
(* The walk.                                                               *)

\* The position is one of the program, at an instruction or at the entry of
\* a block; a run is at an instruction.
WalkOK ==
  /\ program \in Programs
  /\ pass \in {"propagation", "returned", "constraints", "range", "done"}
  /\ scc \in DOMAIN program.members
  /\ fn \in DOMAIN Members
  /\ blk \in 0..Len(Body)
  /\ idx \in 0..(IF blk = 0 THEN 0 ELSE Len(Body[blk]))
  /\ Running => idx > 0
  /\ changed \in BOOLEAN

\* What a program is made of.
LEMMA ProgramType ==
  ASSUME program \in Programs
  PROVE  /\ program.members \in Seq(Seq(DOMAIN program.body) \ {<<>>}) \ {<<>>}
         /\ \A f \in DOMAIN program.body : IsBody(program.body[f])
         /\ \A c, d \in DOMAIN program.members :
              \A m \in DOMAIN program.members[c], n \in DOMAIN program.members[d] :
                program.members[c][m] = program.members[d][n] => c = d /\ m = n
  BY DataFlowProgramsAssumption DEF IsProgram

LEMMA MembersType ==
  ASSUME program \in Programs
  PROVE  /\ 1 \in DOMAIN program.members
         /\ \A c \in DOMAIN program.members :
              /\ program.members[c] \in Seq(DOMAIN program.body)
              /\ 1 \in DOMAIN program.members[c]
              /\ \A n \in DOMAIN program.members[c] :
                   program.members[c][n] \in DOMAIN program.body
  BY ProgramType

LEMMA MemberPlaces ==
  ASSUME program \in Programs, NEW c \in DOMAIN program.members,
         NEW n \in DOMAIN program.members[c]
  PROVE  /\ c \in Nat \ {0} /\ c <= Len(program.members)
         /\ n \in Nat \ {0} /\ n <= Len(program.members[c])
<1>1. program.members \in Seq(Seq(DOMAIN program.body))
  BY ProgramType
<1>2. program.members[c] \in Seq(DOMAIN program.body)
  BY <1>1
<1> QED
  BY <1>1, <1>2

LEMMA BodyType ==
  ASSUME program \in Programs, NEW f \in DOMAIN program.body
  PROVE  /\ program.body[f] \in Seq(Seq(Instructions))
         /\ Len(program.body[f]) \in Nat \ {0}
         /\ DOMAIN program.body[f] = 1..Len(program.body[f])
         /\ \A b \in DOMAIN program.body[f] :
              /\ program.body[f][b] \in Seq(Instructions)
              /\ LastPoint(f, b) = Len(program.body[f][b])
              /\ LastPoint(f, b) \in Nat \ {0}
              /\ DOMAIN program.body[f][b] = 1..LastPoint(f, b)
  BY ProgramType DEF IsBody, LastPoint

LEMMA HereType ==
  ASSUME WalkOK
  PROVE  /\ f0 \in DOMAIN program.body
         /\ Body = program.body[f0]
         /\ Len(Body) \in Nat \ {0}
         /\ blk # 0 => /\ blk \in DOMAIN Body
                       /\ Len(Body[blk]) \in Nat \ {0}
                       /\ Len(Body[blk]) = LastPoint(f0, blk)
                       /\ idx \in 0..Len(Body[blk])
         /\ blk = 0 => idx = 0
<1>1. f0 \in DOMAIN program.body
  BY MembersType DEF WalkOK, f0, Members
<1> QED
  BY <1>1, BodyType DEF WalkOK, Body

LEMMA PlaceType ==
  ASSUME WalkOK
  PROVE  /\ DOMAIN program.members = 1..Len(program.members) /\ Len(program.members) \in Nat
         /\ DOMAIN Members = 1..Len(Members) /\ Len(Members) \in Nat
         /\ scc \in 1..Len(program.members) /\ fn \in 1..Len(Members)
         /\ scc \in Nat /\ fn \in Nat
<1>1. program.members \in Seq(Seq(DOMAIN program.body))
  BY ProgramType DEF WalkOK
<1>2. DOMAIN program.members = 1..Len(program.members) /\ Len(program.members) \in Nat
  BY <1>1
<1>3. Members \in Seq(DOMAIN program.body)
  BY <1>1 DEF WalkOK, Members
<1>4. DOMAIN Members = 1..Len(Members) /\ Len(Members) \in Nat
  BY <1>3
<1> QED
  BY <1>2, <1>4 DEF WalkOK

LEMMA InstructionType ==
  ASSUME WalkOK, blk > 0, idx > 0
  PROVE  /\ I \in Instructions
         /\ I.op \in Terminators <=> idx = Len(Body[blk])
         /\ IsInstructionOf(Body, I)
<1>1. blk \in DOMAIN Body /\ idx \in DOMAIN Body[blk] /\ f0 \in DOMAIN program.body
  BY HereType, BodyType DEF Body
<1>2. IsBody(Body)
  BY <1>1, ProgramType DEF WalkOK, Body
<1> QED
  BY <1>1, <1>2, BodyType DEF IsBody, I, Body, WalkOK

LEMMA StepKeeps ==
  ASSUME NEW d, Step(d)
  PROVE  program' = program /\ pass' = pass /\ scc' = scc /\ fn' = fn
  BY DEF Step

\* An action of a pass goes to the next function, enters a block or visits an
\* instruction.
LEMMA Moves ==
  ASSUME AnalysisNext
  PROVE  /\ program' = program
         /\ pass # "done"
         /\ \/ NextFunction
            \/ blk > 0 /\ idx = 0 /\ Entered
            \/ blk > 0 /\ idx > 0 /\ \E d \in BOOLEAN : Step(d)
<1>1. CASE NextFunction
  BY <1>1 DEF NextFunction
<1>2. CASE EnterPropagation \/ EnterReturned \/ EnterConstraints \/ EnterRange
  BY <1>2 DEF EnterPropagation, EnterReturned, EnterConstraints, EnterRange, Entering, Entered
<1>3. CASE \/ PropagateCall \/ PropagateLoad \/ PropagateStore \/ PropagateCast
           \/ PropagatePhi \/ PropagateOther
  <2>1. pass = "propagation" /\ blk > 0 /\ idx > 0
    BY <1>3
    DEF PropagateCall, PropagateLoad, PropagateStore, PropagateCast, PropagatePhi,
        PropagateOther, At, Others
  <2>2. \E fact : Propagate(fact)
    BY <1>3
    DEF PropagateCall, PropagateLoad, PropagateStore, PropagateCast, PropagatePhi,
        PropagateOther
  <2>3. \E d \in BOOLEAN : Step(d)
    BY <2>2 DEF Propagate
  <2> QED
    BY <2>1, <2>3, StepKeeps
<1>4. CASE \/ ReturnedCall \/ ReturnedRet \/ ReturnedStore \/ ReturnedLoad \/ ReturnedPhi
           \/ ReturnedOther
  <2>1. pass = "returned" /\ blk > 0 /\ idx > 0
    BY <1>4
    DEF ReturnedCall, ReturnedRet, ReturnedStore, ReturnedLoad, ReturnedPhi, ReturnedOther,
        At, Others
  <2>2. ReturnedPhi \/ \E fact : Return(fact)
    BY <1>4
    DEF ReturnedCall, ReturnedRet, ReturnedStore, ReturnedLoad, ReturnedOther
  <2>3. \E d \in BOOLEAN : Step(d)
    BY <2>2 DEF Return, ReturnedPhi
  <2> QED
    BY <2>1, <2>3, StepKeeps
<1>5. CASE ConstrainCall \/ ConstrainBranch \/ ConstrainSwitch \/ ConstrainOther
  <2>1. pass = "constraints" /\ blk > 0 /\ idx > 0
    BY <1>5 DEF ConstrainCall, ConstrainBranch, ConstrainSwitch, ConstrainOther, At, Others
  <2>2. (\E fact : Constrain(fact)) \/ \E S, T : ConstrainBranches(S, T)
    BY <1>5 DEF ConstrainCall, ConstrainBranch, ConstrainSwitch, ConstrainOther
  <2>3. \E d \in BOOLEAN : Step(d)
    BY <2>2 DEF Constrain, ConstrainBranches
  <2> QED
    BY <2>1, <2>3, StepKeeps
<1>6. CASE \/ RangeStore \/ RangeLoad \/ RangePhi \/ RangeBranch \/ RangeSwitch \/ RangeRet
           \/ RangeOther
  <2>1. pass = "range" /\ blk > 0 /\ idx > 0
    BY <1>6
    DEF RangeStore, RangeLoad, RangePhi, RangeBranch, RangeSwitch, RangeRet, RangeOther, At,
        Others
  <2>2. \/ \E fact : Ranges(fact)
        \/ \E S, T : RangeBranches(S, T)
        \/ RangeRet
    BY <1>6 DEF RangeStore, RangeLoad, RangePhi, RangeBranch, RangeSwitch, RangeOther
  <2>3. \E d \in BOOLEAN : Step(d)
    BY <2>2 DEF Ranges, RangeBranches, RangeRet
  <2> QED
    BY <2>1, <2>3, StepKeeps
<1> QED
  BY <1>1, <1>2, <1>3, <1>4, <1>5, <1>6 DEF AnalysisNext

\* So a pass stays within the functions, blocks and instructions there are.
LEMMA AnalysisWalks ==
  ASSUME WalkOK, AnalysisNext
  PROVE  WalkOK'
<1>1. CASE blk > 0 /\ idx = 0 /\ Entered
  <2>1. /\ program' = program /\ pass' = pass /\ scc' = scc /\ fn' = fn /\ blk' = blk
        /\ changed' = changed
    BY <1>1 DEF Entered
  <2>2. idx' \in 1..Len(Body[blk])
    BY <1>1, HereType DEF Entered
  <2>3. Members' = Members /\ Body' = Body
    BY <2>1 DEF Members, f0, Body
  <2> QED
    BY <1>1, <2>1, <2>2, <2>3, HereType DEF WalkOK, Running
<1>2. ASSUME NEW d \in BOOLEAN, blk > 0, idx > 0, Step(d), pass # "done"
      PROVE  WalkOK'
  <2>1. program' = program /\ pass' = pass /\ scc' = scc /\ fn' = fn
    BY <1>2 DEF Step
  <2>2. Members' = Members /\ Body' = Body
    BY <2>1 DEF Members, f0, Body
  <2>3. /\ blk' \in 0..Len(Body)
        /\ idx' \in 0..(IF blk' = 0 THEN 0 ELSE Len(Body[blk']))
        /\ changed' \in BOOLEAN
    <3>1. CASE ~LastOfBlock
      BY <1>2, <3>1, HereType DEF Step, LastOfBlock, WalkOK
    <3>2. CASE LastOfBlock /\ blk < Len(Body)
      <4>1. blk + 1 \in DOMAIN Body
        BY <3>2, HereType, BodyType DEF WalkOK
      <4>2. Len(Body[blk + 1]) \in Nat
        BY <4>1, HereType, BodyType DEF WalkOK
      <4> QED
        BY <1>2, <3>2, <4>1, <4>2, HereType DEF Step, WalkOK
    <3>3. CASE LastOfBlock /\ blk = Len(Body)
      <4>1. 1 \in DOMAIN Body /\ Len(Body[1]) \in Nat
        BY HereType, BodyType DEF WalkOK
      <4>2. idx' = 0 /\ changed' = FALSE
        BY <1>2, <3>3, HereType DEF Step
      <4>3. blk' = 0 \/ blk' = 1
        BY <1>2, <3>3, HereType DEF Step
      <4>4. 0 \in 0..(IF blk' = 0 THEN 0 ELSE Len(Body[blk']))
        BY <4>1, <4>3
      <4>5. blk' \in 0..Len(Body)
        BY <4>3, HereType
      <4> QED
        BY <4>2, <4>4, <4>5
    <3> QED
      BY <3>1, <3>2, <3>3, HereType DEF WalkOK
  <2> QED
    BY <1>2, <2>1, <2>2, <2>3 DEF WalkOK, Running
<1>3. CASE NextFunction /\ pass # "done"
  <2>1. PICK p \in DOMAIN Following \union {"done"}, c \in DOMAIN program.members :
          \E n \in DOMAIN program.members[c] : GoTo(p, c, n)
    <3>1. CASE fn < Len(Members) /\ GoTo(pass, scc, fn + 1)
      BY <3>1, MembersType DEF WalkOK, Following, Members
    <3>2. CASE GoTo(pass, scc, 1)
      BY <3>2, MembersType DEF WalkOK, Following
    <3>3. CASE scc < Len(program.members) /\ GoTo(pass, scc + 1, 1)
      <4>1. scc + 1 \in DOMAIN program.members
        BY <3>3, ProgramType DEF WalkOK
      <4> QED
        BY <3>3, <4>1, MembersType DEF WalkOK, Following
    <3>4. CASE GoTo(Following[pass], 1, 1)
      BY <1>3, <3>4, MembersType DEF WalkOK, Following
    <3> QED
      BY <1>3, <3>1, <3>2, <3>3, <3>4 DEF NextFunction
  <2>2. PICK n \in DOMAIN program.members[c] : GoTo(p, c, n)
    BY <2>1
  <2>3. /\ program' = program /\ pass' = p /\ scc' = c /\ fn' = n /\ idx' = idx
        /\ blk' \in {0, 1} /\ (p = "done" => blk' = 0) /\ changed' = changed /\ blk = 0
    BY <1>3, <2>2 DEF NextFunction, GoTo
  <2>4. Members' = program.members[c] /\ Body' = program.body[program.members[c][n]]
    BY <2>3 DEF Members, f0, Body
  <2>5. Len(Body') \in Nat \ {0} /\ \A b \in DOMAIN Body' : Len(Body'[b]) \in Nat
    BY <2>4, MembersType, BodyType DEF WalkOK
  <2>6. idx' = 0
    BY <2>3, HereType
  <2>7. 1 \in DOMAIN Body'
    BY <2>4, MembersType, BodyType DEF WalkOK
  <2> QED
    BY <2>3, <2>4, <2>5, <2>6, <2>7 DEF WalkOK, Running, Following
<1> QED
  BY <1>1, <1>2, <1>3, Moves


-----------------------------------------------------------------------------
(* Facts.                                                                  *)

\* A fact at each point of the program.
Shaped(fact) ==
  /\ DOMAIN fact = DOMAIN program.body
  /\ \A f \in DOMAIN program.body :
       /\ DOMAIN fact[f] = DOMAIN program.body[f]
       /\ \A b \in DOMAIN program.body[f] : DOMAIN fact[f][b] = 0..LastPoint(f, b)

\* What is stored at one point is stored there and nowhere else.
Put(fact, f, b, k, e) == [fact EXCEPT ![f][b][k] = e]

LEMMA StoredAtAPoint ==
  ASSUME NEW fact, Shaped(fact), NEW f \in DOMAIN program.body,
         NEW b \in DOMAIN program.body[f], NEW k \in 0..LastPoint(f, b), NEW e
  PROVE  /\ Shaped(Put(fact, f, b, k, e))
         /\ \A g \in DOMAIN program.body : \A c \in DOMAIN program.body[g] :
              \A i \in 0..LastPoint(g, c) :
                Put(fact, f, b, k, e)[g][c][i] = IF g = f /\ c = b /\ i = k THEN e ELSE fact[g][c][i]
<1> DEFINE new == Put(fact, f, b, k, e)
<1>0. new = [fact EXCEPT ![f][b][k] = e]
  BY DEF Put
<1> HIDE DEF new
<1>1. DOMAIN new = DOMAIN program.body
  BY <1>0 DEF Shaped
<1>2. ASSUME NEW g \in DOMAIN program.body
      PROVE  /\ DOMAIN new[g] = DOMAIN program.body[g]
             /\ \A c \in DOMAIN program.body[g] : DOMAIN new[g][c] = 0..LastPoint(g, c)
             /\ \A c \in DOMAIN program.body[g] : \A i \in 0..LastPoint(g, c) :
                  new[g][c][i] = IF g = f /\ c = b /\ i = k THEN e ELSE fact[g][c][i]
  <2>1. CASE g # f
    BY <1>0, <1>2, <2>1 DEF Shaped
  <2>2. CASE g = f
    <3>1. new[g] = [fact[f] EXCEPT ![b][k] = e]
      BY <1>0, <2>2 DEF Shaped
    <3>2. \A c \in DOMAIN program.body[g] :
            new[g][c] = IF c = b THEN [fact[f][b] EXCEPT ![k] = e] ELSE fact[g][c]
      BY <2>2, <3>1 DEF Shaped
    <3>3. DOMAIN new[g] = DOMAIN program.body[g]
      BY <2>2, <3>1 DEF Shaped
    <3>4. ASSUME NEW c \in DOMAIN program.body[g]
          PROVE  /\ DOMAIN new[g][c] = 0..LastPoint(g, c)
                 /\ \A i \in 0..LastPoint(g, c) :
                      new[g][c][i] = IF c = b /\ i = k THEN e ELSE fact[g][c][i]
      <4>1. CASE c = b
        BY <2>2, <3>2, <3>4, <4>1 DEF Shaped
      <4>2. CASE c # b
        BY <2>2, <3>2, <3>4, <4>2 DEF Shaped
      <4> QED
        BY <4>1, <4>2
    <3> QED
      BY <2>2, <3>3, <3>4
  <2> QED
    BY <2>1, <2>2
<1> QED
  BY <1>1, <1>2 DEF Shaped, new

LEMMA EverywhereShaped ==
  ASSUME NEW e
  PROVE  Shaped(Everywhere(e))
  BY DEF Shaped, Everywhere


-----------------------------------------------------------------------------
(* ReturnPropagationPass ends at a fixpoint.                               *)

\* What a visit makes of the facts before and after instruction i.
PropagationOf(i, in, out) ==
  CASE i.op = "call" -> in \union {<<i.id, i.id>>}
    [] i.op \in {"load", "bitcast", "ptrtoint", "binop"} -> TakesOver(in, i.id, i.args[1])
    [] i.op = "store" ->
         IF Held(in, i.args[1]) = {}
         THEN in \union (IF IsInteger(i.args[1]) THEN {<<i.args[2], i.args[1]>>} ELSE {})
         ELSE Overwritten(in, i.args[2], Held(in, i.args[1]))
    [] i.op = "phi" ->
         out \union {<<i.id, c>> : c \in UNION {Held(in, i.args[k]) : k \in DOMAIN i.args}}
    [] OTHER -> in

LEMMA PropagationMoves ==
  ASSUME AnalysisNext
  PROVE  \/ propagation' = propagation /\ NextFunction
         \/ propagation' = propagation /\ pass # "propagation" /\ pass' = pass
         \/ EnterPropagation
         \/ /\ pass = "propagation" /\ blk > 0 /\ idx > 0
            /\ Propagate(PropagationOf(I, PropagationIn, PropagationOut))
<1>1. CASE NextFunction
  BY <1>1 DEF NextFunction, facts
<1>2. CASE EnterPropagation
  BY <1>2
<1>3. CASE EnterReturned \/ EnterConstraints \/ EnterRange
  BY <1>3 DEF EnterReturned, EnterConstraints, EnterRange, Entering, Entered
<1>4. CASE PropagateCall
  BY <1>4 DEF PropagateCall, At, PropagationOf
<1>5. CASE PropagateLoad
  BY <1>5 DEF PropagateLoad, At, PropagationOf
<1>6. CASE PropagateStore
  BY <1>6 DEF PropagateStore, At, PropagationOf
<1>7. CASE PropagateCast
  BY <1>7 DEF PropagateCast, At, PropagationOf
<1>8. CASE PropagatePhi
  BY <1>8 DEF PropagatePhi, At, PropagationOf
<1>9. CASE PropagateOther
  BY <1>9 DEF PropagateOther, Others, PropagationOf
<1>10. CASE \/ ReturnedCall \/ ReturnedRet \/ ReturnedStore \/ ReturnedLoad \/ ReturnedPhi
            \/ ReturnedOther
  <2>1. pass = "returned"
    BY <1>10
    DEF ReturnedCall, ReturnedRet, ReturnedStore, ReturnedLoad, ReturnedPhi, ReturnedOther,
        At, Others
  <2>2. ReturnedPhi \/ \E fact : Return(fact)
    BY <1>10
    DEF ReturnedCall, ReturnedRet, ReturnedStore, ReturnedLoad, ReturnedOther
  <2>3. propagation' = propagation /\ \E d : Step(d)
    BY <2>2 DEF Return, ReturnedPhi
  <2> QED
    BY <2>1, <2>3, StepKeeps
<1>11. CASE ConstrainCall \/ ConstrainBranch \/ ConstrainSwitch \/ ConstrainOther
  <2>1. pass = "constraints"
    BY <1>11 DEF ConstrainCall, ConstrainBranch, ConstrainSwitch, ConstrainOther, At, Others
  <2>2. (\E fact : Constrain(fact)) \/ \E S, T : ConstrainBranches(S, T)
    BY <1>11 DEF ConstrainCall, ConstrainBranch, ConstrainSwitch, ConstrainOther
  <2>3. propagation' = propagation /\ \E d : Step(d)
    BY <2>2 DEF Constrain, ConstrainBranches
  <2> QED
    BY <2>1, <2>3, StepKeeps
<1>12. CASE \/ RangeStore \/ RangeLoad \/ RangePhi \/ RangeBranch \/ RangeSwitch \/ RangeRet
            \/ RangeOther
  <2>1. pass = "range"
    BY <1>12
    DEF RangeStore, RangeLoad, RangePhi, RangeBranch, RangeSwitch, RangeRet, RangeOther, At,
        Others
  <2>2. \/ \E fact : Ranges(fact)
        \/ \E S, T : RangeBranches(S, T)
        \/ RangeRet
    BY <1>12 DEF RangeStore, RangeLoad, RangePhi, RangeBranch, RangeSwitch, RangeOther
  <2>3. propagation' = propagation /\ \E d : Step(d)
    BY <2>2 DEF Ranges, RangeBranches, RangeRet
  <2> QED
    BY <2>1, <2>3, StepKeeps
<1> QED
  BY <1>1, <1>2, <1>3, <1>4, <1>5, <1>6, <1>7, <1>8, <1>9, <1>10, <1>11, <1>12
  DEF AnalysisNext

StableAt(f, b, i) ==
  propagation[f][b][i] =
    PropagationOf(program.body[f][b][i], propagation[f][b][i - 1], propagation[f][b][i])

StableEntry(f, b) ==
  \A a \in Predecessors(f, b) :
    propagation[f][a][LastPoint(f, a)] \subseteq propagation[f][b][0]

Stable(f) ==
  \A b \in DOMAIN program.body[f] :
    /\ StableEntry(f, b)
    /\ \A i \in 1..LastPoint(f, b) : StableAt(f, b, i)

\* The pass has visited point i of block b in this round.
Visited(b, i) == blk = 0 \/ b < blk \/ (b = blk /\ i < idx)

StableSoFar ==
  \A b \in DOMAIN Body :
    /\ Visited(b, 0) => StableEntry(f0, b)
    /\ \A i \in 1..LastPoint(f0, b) : Visited(b, i) => StableAt(f0, b, i)

\* The functions that the pass has left.
Left ==
  {f \in DOMAIN program.body :
     \E c \in DOMAIN program.members : \E n \in DOMAIN program.members[c] :
       program.members[c][n] = f /\ (c < scc \/ (c = scc /\ n < fn))}

\* Those that it is for.
Analysed ==
  {f \in DOMAIN program.body :
     \E c \in DOMAIN program.members : \E n \in DOMAIN program.members[c] :
       program.members[c][n] = f}

\* What a value may hold is known of no integer.
Holders == {v \in Values : ~IsInteger(v)}

FactsOK ==
  /\ Shaped(propagation)
  /\ \A f \in DOMAIN program.body : \A b \in DOMAIN program.body[f] :
       \A i \in 0..LastPoint(f, b) : propagation[f][b][i] \subseteq Holders \X Values

\* While no fact has changed in this round, the points visited are stable; the
\* functions left are.
FixpointOK ==
  /\ pass = "propagation" /\ (blk = 0 \/ ~changed) => StableSoFar
  /\ pass = "propagation" => \A f \in Left : Stable(f)
  /\ pass # "propagation" => \A f \in Analysed : Stable(f)

\* A function none of whose facts a step changes stays stable.
LEMMA StableKept ==
  ASSUME program' = program, NEW f,
         \A b \in DOMAIN program.body[f] : \A i \in 0..LastPoint(f, b) :
           propagation'[f][b][i] = propagation[f][b][i],
         \A b \in DOMAIN program.body[f] : LastPoint(f, b) \in Nat \ {0}
  PROVE  /\ \A b \in DOMAIN program.body[f] : StableEntry(f, b)' = StableEntry(f, b)
         /\ \A b \in DOMAIN program.body[f] : \A i \in 1..LastPoint(f, b) :
              StableAt(f, b, i)' = StableAt(f, b, i)
         /\ Stable(f)' = Stable(f)
<1>1. ASSUME NEW b \in DOMAIN program.body[f]
      PROVE  StableEntry(f, b)' = StableEntry(f, b)
  <2>1. Predecessors(f, b)' = Predecessors(f, b)
    BY DEF Predecessors, Successors, Terminator
  <2>2. \A a \in Predecessors(f, b) :
          /\ LastPoint(f, a)' = LastPoint(f, a)
          /\ propagation'[f][a][LastPoint(f, a)] = propagation[f][a][LastPoint(f, a)]
    BY DEF Predecessors, LastPoint
  <2>3. propagation'[f][b][0] = propagation[f][b][0]
    BY <1>1
  <2> QED
    BY <2>1, <2>2, <2>3 DEF StableEntry
<1>2. ASSUME NEW b \in DOMAIN program.body[f], NEW i \in 1..LastPoint(f, b)
      PROVE  StableAt(f, b, i)' = StableAt(f, b, i)
  <2>1. /\ propagation'[f][b][i] = propagation[f][b][i]
        /\ propagation'[f][b][i - 1] = propagation[f][b][i - 1]
    BY <1>2
  <2> QED
    BY <2>1 DEF StableAt, PropagationOf, TakesOver, Held, Overwritten
<1> QED
  BY <1>1, <1>2 DEF Stable, LastPoint


\* A visit keeps to what the program has.
LEMMA PropagationOfType ==
  ASSUME WalkOK, blk > 0, idx > 0,
         NEW in, in \subseteq Holders \X Values,
         NEW out, out \subseteq Holders \X Values
  PROVE  PropagationOf(I, in, out) \subseteq Holders \X Values
<1>1. /\ I \in Instructions /\ IsInstructionOf(Body, I)
      /\ I.args \in Seq(Values)
  BY InstructionType DEF Instructions
<1>2. \A v : Held(in, v) \subseteq Values
  BY DEF Held
<1>3. \A v \in Holders : \A S \in SUBSET Values : Overwritten(in, v, S) \subseteq Holders \X Values
  BY DEF Overwritten
<1>4. \A v \in Values \ DOMAIN Literals : v \in Holders
  BY DEF Holders, IsInteger
<1>5. CASE I.op = "call"
  BY <1>1, <1>4, <1>5 DEF PropagationOf, IsInstructionOf, Terminators, Holders
<1>6. CASE I.op \in {"load", "bitcast", "ptrtoint", "binop"}
  <2>1. I.id \in Holders
    BY <1>1, <1>4, <1>6 DEF IsInstructionOf, Terminators
  <2>2. PropagationOf(I, in, out) = TakesOver(in, I.id, I.args[1])
    BY <1>6 DEF PropagationOf
  <2> QED
    BY <1>2, <1>3, <2>1, <2>2 DEF TakesOver
<1>7. CASE I.op = "store"
  <2>1. Len(I.args) = 2 /\ ~IsInteger(I.args[2])
    BY <1>1, <1>7 DEF IsInstructionOf
  <2>2. I.args[1] \in Values /\ I.args[2] \in Holders
    BY <1>1, <2>1 DEF Holders
  <2>3. PropagationOf(I, in, out) =
          IF Held(in, I.args[1]) = {}
          THEN in \union (IF IsInteger(I.args[1]) THEN {<<I.args[2], I.args[1]>>} ELSE {})
          ELSE Overwritten(in, I.args[2], Held(in, I.args[1]))
    BY <1>7 DEF PropagationOf
  <2> QED
    BY <1>2, <1>3, <2>2, <2>3
<1>8. CASE I.op = "phi"
  <2>1. I.id \in Holders
    BY <1>1, <1>4, <1>8 DEF IsInstructionOf, Terminators
  <2>2. PropagationOf(I, in, out) =
          out \union {<<I.id, c>> : c \in UNION {Held(in, I.args[k]) : k \in DOMAIN I.args}}
    BY <1>8 DEF PropagationOf
  <2> QED
    BY <1>2, <2>1, <2>2
<1>9. CASE I.op \notin {"call", "load", "bitcast", "ptrtoint", "binop", "store", "phi"}
  BY <1>9 DEF PropagationOf
<1> QED
  BY <1>5, <1>6, <1>7, <1>8, <1>9

\* The points that a step of the pass writes.
EntryOf(b) ==
  propagation[f0][b][0]
    \union UNION {propagation[f0][a][LastPoint(f0, a)] : a \in Predecessors(f0, b)}

LEMMA EntryWritten ==
  ASSUME WalkOK, FactsOK, EnterPropagation
  PROVE  /\ program' = program /\ Shaped(propagation')
         /\ \A f \in DOMAIN program.body : \A b \in DOMAIN program.body[f] :
              \A i \in 0..LastPoint(f, b) :
                propagation'[f][b][i] =
                  IF f = f0 /\ b = blk /\ i = 0
                  THEN EntryOf(blk) ELSE propagation[f][b][i]
<1>1. blk > 0 /\ program' = program
  BY DEF EnterPropagation, Entering, Entered
<1>2. f0 \in DOMAIN program.body /\ blk \in DOMAIN program.body[f0] /\ 0 \in 0..LastPoint(f0, blk)
  BY <1>1, HereType
<1>3. propagation' = Put(propagation, f0, blk, 0, EntryOf(blk))
  BY DEF EnterPropagation, Put, EntryOf
<1>4. /\ Shaped(propagation')
      /\ \A f \in DOMAIN program.body : \A b \in DOMAIN program.body[f] :
           \A i \in 0..LastPoint(f, b) :
             propagation'[f][b][i] =
               IF f = f0 /\ b = blk /\ i = 0 THEN EntryOf(blk) ELSE propagation[f][b][i]
  <2>1. Shaped(propagation)
    BY DEF FactsOK
  <2> QED
    BY <1>2, <1>3, <2>1, StoredAtAPoint
<1> QED
  BY <1>1, <1>4

LEMMA PointWritten ==
  ASSUME WalkOK, FactsOK, blk > 0, idx > 0, NEW fact, Propagate(fact)
  PROVE  /\ program' = program /\ Shaped(propagation')
         /\ \A f \in DOMAIN program.body : \A b \in DOMAIN program.body[f] :
              \A i \in 0..LastPoint(f, b) :
                propagation'[f][b][i] =
                  IF f = f0 /\ b = blk /\ i = idx THEN fact ELSE propagation[f][b][i]
<1>1. f0 \in DOMAIN program.body /\ blk \in DOMAIN program.body[f0] /\ idx \in 0..LastPoint(f0, blk)
  BY HereType
<1>2. propagation' = Put(propagation, f0, blk, idx, fact)
  BY DEF Propagate, Put
<1>3. program' = program
  BY StepKeeps DEF Propagate
<1>4. Shaped(propagation)
  BY DEF FactsOK
<1> QED
  BY <1>1, <1>2, <1>3, <1>4, StoredAtAPoint

LEMMA FactsKept ==
  ASSUME WalkOK, FactsOK, AnalysisNext
  PROVE  FactsOK'
<1>1. program' = program
  BY Moves
<1>3. CASE propagation' = propagation
  BY <1>1, <1>3 DEF FactsOK, Shaped, LastPoint, Holders
<1>4. CASE EnterPropagation
  <2>1. blk > 0
    BY <1>4 DEF EnterPropagation, Entering
  <2>2. f0 \in DOMAIN program.body /\ blk \in DOMAIN program.body[f0] /\ 0 \in 0..LastPoint(f0, blk)
    BY <2>1, HereType
  <2>3. \A a \in Predecessors(f0, blk) :
          propagation[f0][a][LastPoint(f0, a)] \subseteq Holders \X Values
    <3>1. ASSUME NEW a \in Predecessors(f0, blk)
          PROVE  a \in DOMAIN program.body[f0] /\ LastPoint(f0, a) \in 0..LastPoint(f0, a)
      <4>1. a \in DOMAIN program.body[f0]
        BY DEF Predecessors
      <4> QED
        BY <2>2, <4>1, BodyType DEF WalkOK
    <3> QED
      BY <2>2, <3>1 DEF FactsOK
  <2>4. \A f \in DOMAIN program.body : \A b \in DOMAIN program.body[f] :
          \A i \in 0..LastPoint(f, b) : propagation'[f][b][i] \subseteq Holders \X Values
    <3>1. propagation[f0][blk][0] \subseteq Holders \X Values
      BY <2>2 DEF FactsOK
    <3>2. EntryOf(blk) \subseteq Holders \X Values
      BY <2>3, <3>1 DEF EntryOf
    <3> QED
      BY <1>4, <3>2, EntryWritten DEF FactsOK
  <2> QED
    BY <1>1, <1>4, <2>4, EntryWritten DEF FactsOK, Shaped, LastPoint, Holders
<1>5. CASE /\ pass = "propagation" /\ blk > 0 /\ idx > 0
           /\ Propagate(PropagationOf(I, PropagationIn, PropagationOut))
  <2>1. f0 \in DOMAIN program.body /\ blk \in DOMAIN program.body[f0] /\ idx \in 1..LastPoint(f0, blk)
    BY <1>5, HereType
  <2>2. PropagationIn \subseteq Holders \X Values /\ PropagationOut \subseteq Holders \X Values
    <3>1. idx - 1 \in 0..LastPoint(f0, blk) /\ idx \in 0..LastPoint(f0, blk)
      BY <1>5, <2>1, HereType
    <3> QED
      BY <2>1, <3>1 DEF PropagationIn, PropagationOut, FactsOK
  <2>3. PropagationOf(I, PropagationIn, PropagationOut) \subseteq Holders \X Values
    BY <1>5, <2>2, PropagationOfType
  <2>4. \A f \in DOMAIN program.body : \A b \in DOMAIN program.body[f] :
          \A i \in 0..LastPoint(f, b) : propagation'[f][b][i] \subseteq Holders \X Values
    BY <1>5, <2>3, PointWritten DEF FactsOK
  <2> QED
    BY <1>1, <1>5, <2>4, PointWritten DEF FactsOK, Shaped, LastPoint, Holders
<1> QED
  BY <1>3, <1>4, <1>5, PropagationMoves


\* The functions left are not the one that is visited.
LEMMA LeftBehind ==
  ASSUME WalkOK, NEW f \in Left
  PROVE  f \in DOMAIN program.body /\ f # f0
<1>1. PICK c \in DOMAIN program.members : \E n \in DOMAIN program.members[c] :
        program.members[c][n] = f /\ (c < scc \/ (c = scc /\ n < fn))
  BY DEF Left
<1>2. PICK n \in DOMAIN program.members[c] :
        program.members[c][n] = f /\ (c < scc \/ (c = scc /\ n < fn))
  BY <1>1
<1>3. c # scc \/ n # fn
  BY <1>2, PlaceType
<1>4. f = f0 => c = scc /\ n = fn
  BY <1>2, ProgramType DEF WalkOK, f0, Members
<1> QED
  BY <1>3, <1>4 DEF Left

\* Going to the next function leaves that one and no other.
LEMMA LeftNext ==
  ASSUME WalkOK, program' = program,
         \/ scc' = scc /\ fn' = fn + 1 /\ fn < Len(Members)
         \/ scc' = scc + 1 /\ fn' = 1 /\ fn = Len(Members) /\ scc < Len(program.members)
  PROVE  Left' \subseteq Left \union {f0}
<1>1. SUFFICES ASSUME NEW f \in Left', f # f0
               PROVE  f \in Left
  OBVIOUS
<1>2. PICK c \in DOMAIN program.members : \E n \in DOMAIN program.members[c] :
        program.members[c][n] = f /\ (c < scc' \/ (c = scc' /\ n < fn'))
  BY DEF Left
<1>3. PICK n \in DOMAIN program.members[c] :
        program.members[c][n] = f /\ (c < scc' \/ (c = scc' /\ n < fn'))
  BY <1>2
<1>4. c \in Nat /\ n \in Nat \ {0} /\ (c = scc => n <= Len(Members))
  BY <1>3, MemberPlaces DEF WalkOK, Members
<1>5. ~(c = scc /\ n = fn)
  BY <1>1, <1>3 DEF f0, Members
<1>6. scc \in Nat /\ fn \in Nat /\ Len(Members) \in Nat
  BY PlaceType
<1>7. c < scc \/ (c = scc /\ n < fn)
  BY <1>3, <1>4, <1>5, <1>6
<1>8. f \in DOMAIN program.body
  BY <1>3, MembersType DEF WalkOK
<1> QED
  BY <1>3, <1>7, <1>8 DEF Left

\* Where a pass goes next is a function of the program.
LEMMA NextIsFunction ==
  ASSUME WalkOK, program' = program,
         \/ scc' = scc /\ fn' = fn + 1 /\ fn < Len(Members)
         \/ scc' = scc + 1 /\ fn' = 1 /\ fn = Len(Members) /\ scc < Len(program.members)
  PROVE  f0' \in DOMAIN program.body
<1>1. CASE scc' = scc /\ fn' = fn + 1 /\ fn < Len(Members)
  <2>1. fn + 1 \in DOMAIN program.members[scc]
    BY <1>1, PlaceType DEF Members
  <2> QED
    BY <1>1, <2>1, MembersType DEF f0, Members, WalkOK
<1>2. CASE scc' = scc + 1 /\ fn' = 1 /\ scc < Len(program.members)
  <2>1. scc + 1 \in DOMAIN program.members
    BY <1>2, PlaceType
  <2> QED
    BY <1>2, <2>1, MembersType DEF f0, Members, WalkOK
<1> QED
  BY <1>1, <1>2

\* After the last function all have been left but that one.
LEMMA LeftAll ==
  ASSUME WalkOK, fn = Len(Members), ~(scc < Len(program.members))
  PROVE  Analysed \subseteq Left \union {f0}
<1>1. SUFFICES ASSUME NEW f \in Analysed, f # f0
               PROVE  f \in Left
  OBVIOUS
<1>2. PICK c \in DOMAIN program.members : \E n \in DOMAIN program.members[c] :
        program.members[c][n] = f
  BY DEF Analysed
<1>3. PICK n \in DOMAIN program.members[c] : program.members[c][n] = f
  BY <1>2
<1>4. /\ c \in Nat /\ n \in Nat /\ c <= Len(program.members)
      /\ c = scc => n <= Len(Members)
  BY <1>3, MemberPlaces DEF WalkOK, Members
<1>5. ~(c = scc /\ n = fn)
  BY <1>1, <1>3 DEF f0, Members
<1>6. /\ scc \in Nat /\ fn \in Nat /\ Len(Members) \in Nat
      /\ Len(program.members) \in Nat
  BY PlaceType
<1>7. c < scc \/ (c = scc /\ n < fn)
  BY <1>4, <1>5, <1>6
<1> QED
  BY <1>3, <1>7 DEF Left, Analysed

\* What a step writes in one function leaves those stable.
LEMMA LeftKept ==
  ASSUME WalkOK, program' = program, scc' = scc, fn' = fn,
         pass = "propagation", FixpointOK,
         \A f \in DOMAIN program.body : f # f0 =>
           \A b \in DOMAIN program.body[f] : \A i \in 0..LastPoint(f, b) :
             propagation'[f][b][i] = propagation[f][b][i]
  PROVE  \A f \in Left' : Stable(f)'
<1> SUFFICES ASSUME NEW f \in Left
             PROVE  Stable(f)'
  BY DEF Left
<1>3. f \in DOMAIN program.body /\ f # f0
  BY LeftBehind
<1>4. Stable(f)
  BY DEF FixpointOK
<1>5. \A b \in DOMAIN program.body[f] : LastPoint(f, b) \in Nat \ {0}
  BY <1>3, BodyType DEF WalkOK
<1>6. \A b \in DOMAIN program.body[f] : \A i \in 0..LastPoint(f, b) :
        propagation'[f][b][i] = propagation[f][b][i]
  BY <1>3
<1> QED
  BY <1>4, <1>5, <1>6, StableKept

LEMMA EntersStably ==
  ASSUME WalkOK, FactsOK, FixpointOK, EnterPropagation
  PROVE  FixpointOK'
<1>1. /\ program' = program /\ pass = "propagation" /\ pass' = pass /\ scc' = scc /\ fn' = fn
      /\ blk > 0 /\ idx = 0 /\ blk' = blk /\ idx' = 1 /\ changed' = changed
  BY DEF EnterPropagation, Entering, Entered
<1>2. f0 \in DOMAIN program.body /\ blk \in DOMAIN Body /\ Body = program.body[f0]
  BY <1>1, HereType
<1>3. f0' = f0 /\ Body' = Body
  BY <1>1 DEF f0, Members, Body
<1>4. \A b \in DOMAIN Body : LastPoint(f0, b) \in Nat \ {0} /\ LastPoint(f0, b)' = LastPoint(f0, b)
  <2>1. \A b \in DOMAIN Body : LastPoint(f0, b) \in Nat \ {0}
    BY <1>2, BodyType DEF WalkOK
  <2>2. \A b : LastPoint(f0, b)' = LastPoint(f0, b)
    BY <1>1, <1>3 DEF LastPoint
  <2> QED
    BY <2>1, <2>2
<1>5. ASSUME ~changed
      PROVE  StableSoFar'
  <2>1. StableSoFar
    BY <1>1, <1>5 DEF FixpointOK
  <2>2. \A b \in DOMAIN Body : \A i \in 0..LastPoint(f0, b) :
          propagation'[f0][b][i] =
            IF b = blk /\ i = 0 THEN EntryOf(blk) ELSE propagation[f0][b][i]
    BY <1>2, EntryWritten
  <2>3. ASSUME NEW b \in DOMAIN Body, b = blk \/ b < blk
        PROVE  StableEntry(f0, b)'
    <3>1. StableEntry(f0, b)' =
            \A a \in Predecessors(f0, b) :
              propagation'[f0][a][LastPoint(f0, a)] \subseteq propagation'[f0][b][0]
      BY <1>1, <1>3 DEF StableEntry, Predecessors, Successors, Terminator, LastPoint
    <3>2. ASSUME NEW a \in Predecessors(f0, b)
          PROVE  propagation'[f0][a][LastPoint(f0, a)] = propagation[f0][a][LastPoint(f0, a)]
      <4>1. a \in DOMAIN Body
        BY <1>2, <3>2 DEF Predecessors
      <4> QED
        BY <1>4, <2>2, <4>1
    <3>3. CASE b = blk
      <4>1. propagation'[f0][b][0] = EntryOf(blk)
        BY <1>4, <2>2, <3>3
      <4> QED
        BY <3>1, <3>2, <3>3, <4>1 DEF EntryOf
    <3>4. CASE b < blk
      <4>1. propagation'[f0][b][0] = propagation[f0][b][0]
        BY <1>4, <2>2, <3>4, HereType DEF WalkOK
      <4>2. StableEntry(f0, b)
        BY <2>1, <3>4 DEF StableSoFar, Visited
      <4> QED
        BY <3>1, <3>2, <4>1, <4>2 DEF StableEntry
    <3> QED
      BY <2>3, <3>3, <3>4
  <2>4. ASSUME NEW b \in DOMAIN Body, NEW i \in 1..LastPoint(f0, b), b < blk
        PROVE  StableAt(f0, b, i)'
    <3>1. /\ propagation'[f0][b][i] = propagation[f0][b][i]
          /\ propagation'[f0][b][i - 1] = propagation[f0][b][i - 1]
      BY <1>4, <2>2, <2>4, HereType, SMTT(30) DEF WalkOK
    <3>2. StableAt(f0, b, i)
      BY <2>1, <2>4 DEF StableSoFar, Visited
    <3>3. StableAt(f0, b, i)' = StableAt(f0, b, i)
      BY <1>1, <1>3, <3>1 DEF StableAt
    <3> QED
      BY <3>2, <3>3
  <2>5. \A b \in DOMAIN Body : \A i \in 0..LastPoint(f0, b) :
          Visited(b, i)' => b < blk \/ (b = blk /\ i = 0)
    BY <1>1, <1>4 DEF Visited
  <2>6. ASSUME NEW b \in DOMAIN Body
        PROVE  /\ Visited(b, 0)' => StableEntry(f0, b)'
               /\ \A i \in 1..LastPoint(f0, b) : Visited(b, i)' => StableAt(f0, b, i)'
    <3>1. Visited(b, 0)' => StableEntry(f0, b)'
      BY <1>4, <2>3, <2>5, <2>6
    <3>2. \A i \in 1..LastPoint(f0, b) : Visited(b, i)' => StableAt(f0, b, i)'
      BY <1>4, <2>4, <2>5, <2>6
    <3> QED
      BY <3>1, <3>2
  <2> QED
    BY <1>3, <1>4, <2>6 DEF StableSoFar
<1>6. \A f \in Left' : Stable(f)'
  <2>1. \A f \in DOMAIN program.body : f # f0 =>
          \A b \in DOMAIN program.body[f] : \A i \in 0..LastPoint(f, b) :
            propagation'[f][b][i] = propagation[f][b][i]
    BY EntryWritten
  <2> QED
    BY <1>1, <2>1, LeftKept
<1> QED
  BY <1>1, <1>5, <1>6 DEF FixpointOK


\* What the whole function has is stable when the round has ended so.
LEMMA VisitsStably ==
  ASSUME WalkOK, FactsOK, FixpointOK, pass = "propagation", blk > 0, idx > 0,
         Propagate(PropagationOf(I, PropagationIn, PropagationOut))
  PROVE  FixpointOK'
<1> DEFINE new == PropagationOf(I, PropagationIn, PropagationOut)
           d == new # PropagationOut
<1>1. /\ Step(d)
      /\ program' = program /\ pass' = pass /\ scc' = scc /\ fn' = fn
  BY StepKeeps DEF Propagate
<1>2. f0 \in DOMAIN program.body /\ blk \in DOMAIN Body /\ Body = program.body[f0]
  BY HereType
<1>3. f0' = f0 /\ Body' = Body
  BY <1>1 DEF f0, Members, Body
<1>4. \A b \in DOMAIN Body : LastPoint(f0, b) \in Nat \ {0}
  BY <1>2, BodyType DEF WalkOK
<1>5. \A f \in DOMAIN program.body : \A b \in DOMAIN program.body[f] :
        \A i \in 0..LastPoint(f, b) :
          propagation'[f][b][i] =
            IF f = f0 /\ b = blk /\ i = idx THEN new ELSE propagation[f][b][i]
  BY PointWritten
<1>6. \A f \in Left' : Stable(f)'
  BY <1>1, <1>5, LeftKept
<1>7. blk' # 0 /\ ~changed' => (~d /\ ~changed) \/ (blk' = 1 /\ idx' = 0)
  <2> HIDE DEF d
  <2>1. CASE changed' = (changed \/ d)
    BY <2>1
  <2>2. CASE idx' = 0 /\ blk' = IF changed \/ d THEN 1 ELSE 0
    BY <2>2
  <2> QED
    BY <1>1, <2>1, <2>2 DEF Step
<1> HIDE DEF new
<1>8. ASSUME blk' = 0 \/ ~changed'
      PROVE  StableSoFar'
  <2>1. CASE blk' = 1 /\ idx' = 0
    <3>1. \A b \in DOMAIN Body : \A i \in Nat : ~Visited(b, i)'
      BY <1>2, <2>1, HereType, BodyType DEF Visited, WalkOK
    <3>2. \A b \in DOMAIN Body : \A i \in 1..LastPoint(f0, b) : i \in Nat
      BY <1>4
    <3>3. \A b : LastPoint(f0, b)' = LastPoint(f0, b)
      BY <1>1, <1>3 DEF LastPoint
    <3> QED
      BY <1>3, <3>1, <3>2, <3>3 DEF StableSoFar
  <2>2. CASE ~d /\ ~changed /\ ~(blk' = 1 /\ idx' = 0)
    <3>1. StableSoFar
      BY <2>2 DEF FixpointOK
    <3>2. \A b \in DOMAIN Body : \A i \in 0..LastPoint(f0, b) :
            propagation'[f0][b][i] = propagation[f0][b][i]
      BY <1>2, <1>5, <2>2 DEF PropagationOut
    <3>3. StableAt(f0, blk, idx)
      BY <1>2, <2>2 DEF StableAt, PropagationIn, PropagationOut, I, Body, new
    <3>4. /\ \A b \in DOMAIN program.body[f0] : StableEntry(f0, b)' = StableEntry(f0, b)
          /\ \A b \in DOMAIN program.body[f0] : \A i \in 1..LastPoint(f0, b) :
               StableAt(f0, b, i)' = StableAt(f0, b, i)
      <4>1. ASSUME NEW f, f = f0
            PROVE  /\ \A b \in DOMAIN program.body[f] : StableEntry(f, b)' = StableEntry(f, b)
                   /\ \A b \in DOMAIN program.body[f] : \A i \in 1..LastPoint(f, b) :
                        StableAt(f, b, i)' = StableAt(f, b, i)
        BY <1>1, <1>2, <1>4, <3>2, <4>1, StableKept
      <4> QED
        BY <1>3, <4>1
    <3>5. \A b \in DOMAIN Body : \A i \in 0..LastPoint(f0, b) :
            Visited(b, i)' => Visited(b, i) \/ (b = blk /\ i = idx)
      <4>1. \A b \in DOMAIN Body : b \in 1..Len(Body)
        BY <1>2, BodyType DEF WalkOK
      <4>2. \A b \in DOMAIN Body : LastPoint(f0, b) = Len(Body[b])
        BY <1>2 DEF LastPoint
      <4>3. CASE ~LastOfBlock
        BY <1>1, <4>1, <4>3, HereType, <1>4 DEF Step, Visited, LastOfBlock, WalkOK
      <4>4. CASE LastOfBlock
        BY <1>1, <4>1, <4>2, <4>4, HereType, <1>4 DEF Step, Visited, LastOfBlock, WalkOK
      <4> QED
        BY <4>3, <4>4
    <3>6. \A b : LastPoint(f0, b)' = LastPoint(f0, b)
      BY <1>1, <1>3 DEF LastPoint
    <3>7. ASSUME NEW b \in DOMAIN Body
          PROVE  /\ Visited(b, 0)' => StableEntry(f0, b)'
                 /\ \A i \in 1..LastPoint(f0, b) : Visited(b, i)' => StableAt(f0, b, i)'
      <4>1. Visited(b, 0)' => StableEntry(f0, b)'
        BY <1>2, <1>4, <3>1, <3>4, <3>5, <3>7 DEF StableSoFar
      <4>2. \A i \in 1..LastPoint(f0, b) : Visited(b, i)' => StableAt(f0, b, i)'
        BY <1>2, <1>4, <3>1, <3>3, <3>4, <3>5, <3>7 DEF StableSoFar
      <4> QED
        BY <4>1, <4>2
    <3> QED
      BY <1>3, <3>6, <3>7 DEF StableSoFar
  <2>3. CASE blk' = 0
    <3>1. ~d /\ ~changed
      BY <1>1, <2>3, HereType DEF Step, WalkOK
    <3> QED
      BY <2>2, <2>3, <3>1
  <2> QED
    BY <1>7, <1>8, <2>1, <2>2, <2>3
<1> QED
  BY <1>1, <1>6, <1>8 DEF FixpointOK

\* A pass leaves a function only when the round it has ended has left all of it
\* stable.
LEMMA LeavesStably ==
  ASSUME WalkOK, FactsOK, FixpointOK, NextFunction, propagation' = propagation
  PROVE  FixpointOK'
<1>1. program' = program /\ blk = 0
  BY DEF NextFunction
<1>2. f0 \in DOMAIN program.body /\ Body = program.body[f0] /\ idx' = 0
  BY <1>1, HereType DEF NextFunction
<1>3. ASSUME NEW f
      PROVE  Stable(f)' = Stable(f)
  BY <1>1, <1>3
  DEF Stable, StableEntry, StableAt, Predecessors, Successors, Terminator, LastPoint,
      PropagationOf, TakesOver, Held, Overwritten
<1>4. pass = "propagation" => Stable(f0)
  <2>1. pass = "propagation" => StableSoFar
    BY <1>1 DEF FixpointOK
  <2> QED
    BY <1>1, <1>2, <2>1 DEF StableSoFar, Visited, Stable
<1>5. Analysed' = Analysed
  BY <1>1 DEF Analysed
<1>6. CASE pass # "propagation"
  <2>1. pass' \in {pass, Following[pass]}
    BY DEF NextFunction, GoTo
  <2>2. pass # "done"
    BY DEF NextFunction
  <2>3. pass' # "propagation"
    BY <1>6, <2>1, <2>2 DEF Following, WalkOK
  <2> QED
    BY <1>3, <1>5, <1>6, <2>3 DEF FixpointOK
<1>7. CASE pass = "propagation"
  <2>1. \/ fn < Len(Members) /\ GoTo(pass, scc, fn + 1)
        \/ fn = Len(Members) /\ scc < Len(program.members) /\ GoTo(pass, scc + 1, 1)
        \/ /\ fn = Len(Members) /\ ~(scc < Len(program.members))
           /\ GoTo("returned", 1, 1)
    BY <1>7 DEF NextFunction, Following
  <2>2. CASE \/ fn < Len(Members) /\ GoTo(pass, scc, fn + 1)
             \/ fn = Len(Members) /\ scc < Len(program.members) /\ GoTo(pass, scc + 1, 1)
    <3>1. pass' = "propagation" /\ blk' = 1
      BY <1>7, <2>2 DEF GoTo
    <3>2. Left' \subseteq Left \union {f0}
      BY <1>1, <2>2, LeftNext DEF GoTo
    <3>3. \A f \in Left' : Stable(f)'
      <4> SUFFICES ASSUME NEW f \in Left'
                   PROVE  Stable(f)
        BY <1>3
      <4> QED
        BY <1>4, <1>7, <3>2 DEF FixpointOK
    <3>4. StableSoFar'
      <4>1. Body' \in Seq(Seq(Instructions)) /\ \A b : LastPoint(f0, b)' = Len(Body'[b])
        <5>2. f0' \in DOMAIN program.body
          BY <1>1, <2>2, NextIsFunction DEF GoTo
        <5> QED
          BY <1>1, <5>2, BodyType DEF Body, LastPoint, WalkOK
      <4>2. \A b \in DOMAIN Body' : b \in Nat \ {0}
        BY <4>1
      <4>3. \A b \in DOMAIN Body' : \A i \in Nat : ~Visited(b, i)'
        BY <1>2, <3>1, <4>2 DEF Visited
      <4>4. \A b \in DOMAIN Body' : \A i \in 1..LastPoint(f0, b)' : i \in Nat
        BY <4>1
      <4> QED
        BY <4>3, <4>4 DEF StableSoFar
    <3> QED
      BY <3>1, <3>3, <3>4 DEF FixpointOK
  <2>3. CASE /\ fn = Len(Members) /\ ~(scc < Len(program.members))
             /\ GoTo("returned", 1, 1)
    <3>1. Analysed \subseteq Left \union {f0}
      BY <2>3, LeftAll
    <3>2. pass' = "returned"
      BY <2>3 DEF GoTo
    <3>3. \A f \in Analysed : Stable(f)
      BY <1>4, <1>7, <3>1 DEF FixpointOK
    <3> QED
      BY <1>3, <1>5, <3>2, <3>3 DEF FixpointOK
  <2> QED
    BY <2>1, <2>2, <2>3
<1> QED
  BY <1>6, <1>7


LEMMA FixpointKept ==
  ASSUME WalkOK, FactsOK, FixpointOK, AnalysisNext
  PROVE  FixpointOK'
<1>1. CASE propagation' = propagation /\ NextFunction
  BY <1>1, LeavesStably
<1>2. CASE propagation' = propagation /\ pass # "propagation" /\ pass' = pass
  <2>1. program' = program
    BY Moves
  <2>2. ASSUME NEW f
        PROVE  Stable(f)' = Stable(f)
    BY <1>2, <2>1, <2>2
    DEF Stable, StableEntry, StableAt, Predecessors, Successors, Terminator, LastPoint,
        PropagationOf, TakesOver, Held, Overwritten
  <2>3. Analysed' = Analysed
    BY <2>1 DEF Analysed
  <2> QED
    BY <1>2, <2>2, <2>3 DEF FixpointOK
<1>3. CASE EnterPropagation
  BY <1>3, EntersStably
<1>4. CASE /\ pass = "propagation" /\ blk > 0 /\ idx > 0
           /\ Propagate(PropagationOf(I, PropagationIn, PropagationOut))
  BY <1>4, VisitsStably
<1> QED
  BY <1>1, <1>2, <1>3, <1>4, PropagationMoves

-----------------------------------------------------------------------------
(* Runs.                                                                   *)

\* Where a run stands, the fixpoint says how the facts before and after its
\* instruction, and at the blocks it may go on to, are related.
LEMMA FactsAtRun ==
  ASSUME WalkOK, FactsOK, FixpointOK, Running
  PROVE  /\ PropagationOut = PropagationOf(I, PropagationIn, PropagationOut)
         /\ PropagationIn \subseteq Holders \X Values
         /\ I.op \in Terminators =>
              \A b \in DOMAIN Body : (\E j \in DOMAIN I.to : I.to[j] = b) =>
                PropagationOut \subseteq propagation[f0][b][0]
<1>1. /\ blk > 0 /\ idx > 0 /\ pass = "done"
      /\ f0 \in DOMAIN program.body /\ blk \in DOMAIN Body /\ Body = program.body[f0]
      /\ LastPoint(f0, blk) = Len(Body[blk]) /\ Len(Body[blk]) \in Nat
      /\ idx \in 1..LastPoint(f0, blk)
  BY HereType DEF Running, WalkOK
<1>2. Stable(f0)
  <2>1. f0 \in Analysed
    BY <1>1 DEF Analysed, WalkOK, f0, Members
  <2> QED
    BY <1>1, <2>1 DEF FixpointOK
<1>3. PropagationOut = PropagationOf(I, PropagationIn, PropagationOut)
  BY <1>1, <1>2 DEF Stable, StableAt, PropagationIn, PropagationOut, I, Body
<1>4. PropagationIn \subseteq Holders \X Values
  <2>1. idx - 1 \in 0..LastPoint(f0, blk)
    BY <1>1
  <2> QED
    BY <1>1, <2>1 DEF FactsOK, PropagationIn
<1>5. ASSUME I.op \in Terminators, NEW b \in DOMAIN Body, \E j \in DOMAIN I.to : I.to[j] = b
      PROVE  PropagationOut \subseteq propagation[f0][b][0]
  <2>1. idx = Len(Body[blk])
    BY <1>1, <1>5, InstructionType
  <2>2. blk \in Predecessors(f0, b)
    BY <1>1, <1>5, <2>1 DEF Predecessors, Successors, Terminator, I, Body
  <2> QED
    BY <1>1, <1>2, <1>5, <2>1, <2>2 DEF Stable, StableEntry, PropagationOut
<1> QED
  BY <1>3, <1>4, <1>5

\* What v may hold after an instruction.
LEMMA HeldAfter ==
  ASSUME NEW fact, NEW v, NEW S
  PROVE  /\ Held(Overwritten(fact, v, S), v) = S
         /\ \A u : u # v => Held(Overwritten(fact, v, S), u) = Held(fact, u)
         /\ \A T, u : Held(fact, u) \subseteq Held(fact \union T, u)
         /\ \A c : c \in Held(fact \union {<<v, c>>}, v)
<1>1. Held(Overwritten(fact, v, S), v) = S
  <2>1. ASSUME NEW c \in S
        PROVE  c \in Held(Overwritten(fact, v, S), v)
    <3>1. <<v, c>> \in Overwritten(fact, v, S) /\ <<v, c>>[1] = v /\ <<v, c>>[2] = c
      BY <2>1 DEF Overwritten
    <3> QED
      BY <3>1 DEF Held
  <2>2. ASSUME NEW c \in Held(Overwritten(fact, v, S), v)
        PROVE  c \in S
    <3>1. PICK h \in Overwritten(fact, v, S) : h[1] = v /\ h[2] = c
      BY <2>2 DEF Held
    <3> QED
      BY <3>1 DEF Overwritten
  <2> QED
    BY <2>1, <2>2
<1>2. \A u : u # v => Held(Overwritten(fact, v, S), u) = Held(fact, u)
  BY DEF Held, Overwritten
<1>3. \A T, u : Held(fact, u) \subseteq Held(fact \union T, u)
  BY DEF Held
<1>4. ASSUME NEW c
      PROVE  c \in Held(fact \union {<<v, c>>}, v)
  <2>1. <<v, c>> \in fact \union {<<v, c>>} /\ <<v, c>>[1] = v /\ <<v, c>>[2] = c
    OBVIOUS
  <2> QED
    BY <2>1 DEF Held
<1> QED
  BY <1>1, <1>2, <1>3, <1>4


\* The values of a run, and where they came from.
RunOK ==
  /\ DOMAIN origin = DOMAIN env
  /\ PropagationSoundBeforePhi

\* What the instructions that define a value have in common: the value gets one
\* of the origins that the fact after the instruction has for it, and that fact
\* has kept those of the other values.
LEMMA DefinesSoundly ==
  ASSUME WalkOK, RunOK, Running, I.op \notin Terminators, Still,
         NEW v, NEW n, NEW o, NEW t, Define(v, n, o, t),
         "phi" \notin excuses =>
           /\ o \subseteq Held(PropagationOut, v)
           /\ \A u \in DOMAIN origin \ {v} : Held(PropagationIn, u) \subseteq Held(PropagationOut, u),
         "phi" \in excuses => "phi" \in excuses'
  PROVE  WalkOK' /\ RunOK'
<1>1. /\ program' = program /\ propagation' = propagation /\ pass' = pass /\ pass = "done"
      /\ scc' = scc /\ fn' = fn /\ changed' = changed /\ blk' = blk /\ idx' = idx + 1
      /\ f0' = f0 /\ Body' = Body /\ Members' = Members /\ blk > 0 /\ idx > 0
  BY DEF Still, facts, Define, Running, f0, Members, Body, WalkOK
<1>2. idx < Len(Body[blk]) /\ Len(Body[blk]) \in Nat /\ idx \in Nat
  BY <1>1, InstructionType, HereType
<1>3. WalkOK'
  BY <1>1, <1>2 DEF WalkOK, Running
<1>4. /\ DOMAIN origin' = DOMAIN origin \union {v}
      /\ \A u \in DOMAIN origin' : origin'[u] = IF u = v THEN o ELSE origin[u]
      /\ DOMAIN env' = DOMAIN env \union {v}
  BY DEF Define, Updated
<1>5. ASSUME "phi" \notin excuses'
      PROVE  PropagationSound'
  <2>1. "phi" \notin excuses
    BY <1>5
  <2>2. \A u \in DOMAIN origin : origin[u] \subseteq Held(PropagationIn, u)
    BY <2>1 DEF RunOK, PropagationSoundBeforePhi, PropagationSound, PropagationIn
  <2>3. \A u \in DOMAIN origin' : origin'[u] \subseteq Held(PropagationOut, u)
    BY <1>4, <2>1, <2>2
  <2>4. propagation'[f0'][blk'][idx' - 1] = PropagationOut
    BY <1>1, <1>2 DEF PropagationOut
  <2>5. \A u : Held(propagation'[f0'][blk'][idx' - 1], u) = Held(PropagationOut, u)
    BY <2>4
  <2>6. \A u \in DOMAIN origin' : origin'[u] \subseteq Held(propagation'[f0'][blk'][idx' - 1], u)
    BY <2>3, <2>5
  <2> QED
    BY <2>6 DEF PropagationSound, Held
<1> QED
  BY <1>3, <1>4, <1>5 DEF RunOK, PropagationSoundBeforePhi

\* A jump goes to a block that the end of this one flows into.
LEMMA JumpsSoundly ==
  ASSUME WalkOK, FactsOK, FixpointOK, RunOK, Running, I.op \in {"br", "switch"}, Still,
         NEW b \in DOMAIN Body, Jump(b), \E j \in DOMAIN I.to : I.to[j] = b,
         "phi" \in excuses => "phi" \in excuses'
  PROVE  WalkOK' /\ RunOK'
<1>1. /\ program' = program /\ propagation' = propagation /\ pass' = pass /\ pass = "done"
      /\ scc' = scc /\ fn' = fn /\ changed' = changed /\ blk' = b /\ idx' = 1
      /\ f0' = f0 /\ Body' = Body /\ Members' = Members /\ env' = env /\ origin' = origin
  BY DEF Still, facts, Jump, Running, f0, Members, Body
<1>2. b \in 1..Len(Body) /\ Len(Body[b]) \in Nat \ {0} /\ Len(Body) \in Nat
  BY HereType, BodyType DEF WalkOK
<1>3. WalkOK'
  BY <1>1, <1>2 DEF WalkOK, Running
<1>4. ASSUME "phi" \notin excuses'
      PROVE  PropagationSound'
  <2>1. "phi" \notin excuses
    BY <1>4
  <2>2. \A u \in DOMAIN origin : origin[u] \subseteq Held(PropagationIn, u)
    BY <2>1 DEF RunOK, PropagationSoundBeforePhi, PropagationSound, PropagationIn
  <2>3. PropagationIn \subseteq propagation[f0][b][0]
    BY FactsAtRun DEF Terminators, PropagationOf
  <2>4. \A u : Held(PropagationIn, u) \subseteq Held(propagation[f0][b][0], u)
    BY <2>3 DEF Held
  <2>5. propagation'[f0'][blk'][idx' - 1] = propagation[f0][b][0]
    BY <1>1
  <2>6. \A u \in DOMAIN origin' : origin'[u] \subseteq Held(propagation'[f0'][blk'][idx' - 1], u)
    BY <1>1, <2>2, <2>4, <2>5
  <2> QED
    BY <2>6 DEF PropagationSound, Held
<1> QED
  BY <1>1, <1>3, <1>4 DEF RunOK, PropagationSoundBeforePhi


\* Variables are no literals.
LEMMA VariablesAreNamed ==
  ASSUME WalkOK, NEW v, Variable(v)
  PROVE  v \notin DOMAIN Literals
<1>1. IsInstruction(f0, v) /\ DefinitionOf(f0, v).op = "alloca"
  BY DEF Variable, IsA
<1>2. PointOf(f0, v) \in Definitions(f0, v)
  BY <1>1 DEF IsInstruction, PointOf
<1> DEFINE d == PointOf(f0, v)
<1>3. d \in Points(f0) /\ program.body[f0][d[1]][d[2]].id = v
  BY <1>2 DEF Definitions
<1>4. program.body[f0][d[1]][d[2]].op = "alloca"
  BY <1>1 DEF DefinitionOf
<1> HIDE DEF d
<1>5. d[1] \in DOMAIN program.body[f0] /\ d[2] \in 1..LastPoint(f0, d[1])
  BY <1>3 DEF Points
<1>6. d[2] \in DOMAIN program.body[f0][d[1]]
  BY <1>5, HereType, BodyType DEF WalkOK
<1>7. IsInstructionOf(program.body[f0], program.body[f0][d[1]][d[2]])
  BY <1>5, <1>6, HereType, ProgramType DEF WalkOK, IsBody
<1> QED
  BY <1>3, <1>4, <1>7 DEF IsInstructionOf, Terminators

\* A run that goes on has an instruction whose operands have numbers and origins.
LEMMA Reads ==
  ASSUME WalkOK, RunOK, NEW ops, Executes(ops)
  PROVE  /\ Running /\ I.op \in ops /\ I \in Instructions /\ IsInstructionOf(Body, I)
         /\ I.op # "phi" => \A k \in DOMAIN I.args :
              /\ HasNumber(I.args[k])
              /\ "phi" \notin excuses =>
                   OriginOf(I.args[k]) \subseteq Held(PropagationIn, I.args[k])
<1>1. Running /\ I.op \in ops /\ Unset = {}
  BY DEF Executes
<1>2. I \in Instructions /\ IsInstructionOf(Body, I)
  BY <1>1, InstructionType DEF Running, WalkOK
<1>3. ASSUME I.op # "phi", NEW k \in DOMAIN I.args
      PROVE  HasNumber(I.args[k])
  BY <1>1, <1>3 DEF Unset
<1>4. ASSUME I.op # "phi", NEW k \in DOMAIN I.args, "phi" \notin excuses
      PROVE  OriginOf(I.args[k]) \subseteq Held(PropagationIn, I.args[k])
  <2>1. CASE I.args[k] \in DOMAIN Literals \/ Variable(I.args[k])
    BY <2>1 DEF OriginOf
  <2>2. CASE ~(I.args[k] \in DOMAIN Literals \/ Variable(I.args[k]))
    <3>1. I.args[k] \in DOMAIN origin
      BY <1>3, <1>4, <2>2 DEF HasNumber, RunOK
    <3> QED
      BY <1>1, <1>4, <2>2, <3>1
      DEF OriginOf, RunOK, PropagationSoundBeforePhi, PropagationSound, PropagationIn
  <2> QED
    BY <2>1, <2>2
<1> QED
  BY <1>1, <1>2, <1>3, <1>4

\* Instructions that have a first operand.
LEMMA ReadsFirst ==
  ASSUME I \in Instructions, IsInstructionOf(Body, I),
         I.op \in {"load", "bitcast", "ptrtoint", "trunc", "sext", "zext", "binop", "gep",
                   "icmp", "store"}
  PROVE  1 \in DOMAIN I.args /\ I.args[1] \in Values
<1>1. Len(I.args) \in {1, 2} /\ I.args \in Seq(Values)
  BY DEF IsInstructionOf, Instructions
<1> QED
  BY <1>1

\* What is loaded from a variable has been stored to it.
LEMMA LoadsFrom ==
  ASSUME WalkOK, RunOK, Executes({"load"}), Variable(I.args[1])
  PROVE  /\ I.args[1] \in DOMAIN env
         /\ "phi" \notin excuses => origin[I.args[1]] \subseteq Held(PropagationIn, I.args[1])
<1>1. Running /\ I.op = "load" /\ Unset = {} /\ 1 \in DOMAIN I.args
  <2>1. I \in Instructions /\ IsInstructionOf(Body, I) /\ Running /\ I.op = "load" /\ Unset = {}
    BY Reads DEF Executes
  <2> QED
    BY <2>1, ReadsFirst
<1>2. I.args[1] \notin DOMAIN Literals
  BY VariablesAreNamed
<1>3. I.args[1] \in DOMAIN env
  BY <1>1, <1>2 DEF Unset
<1> QED
  BY <1>1, <1>3 DEF RunOK, PropagationSoundBeforePhi, PropagationSound, PropagationIn

LEMMA ExecAllocaSound ==
  ASSUME WalkOK, FactsOK, FixpointOK, RunOK, ExecAlloca
  PROVE  WalkOK' /\ RunOK'
<1>1. /\ Running /\ I.op = "alloca"
      /\ program' = program /\ propagation' = propagation /\ pass' = pass /\ pass = "done"
      /\ scc' = scc /\ fn' = fn /\ changed' = changed /\ blk' = blk /\ idx' = idx + 1
      /\ f0' = f0 /\ Body' = Body /\ Members' = Members /\ blk > 0 /\ idx > 0
      /\ env' = env /\ origin' = origin /\ excuses' = excuses
  BY DEF ExecAlloca, Executes, Still, facts, Running, f0, Members, Body, WalkOK
<1>2. idx < Len(Body[blk]) /\ Len(Body[blk]) \in Nat /\ idx \in Nat
  BY <1>1, InstructionType, HereType DEF Terminators
<1>3. WalkOK'
  BY <1>1, <1>2 DEF WalkOK, Running
<1>4. PropagationOut = PropagationIn
  BY <1>1, FactsAtRun DEF PropagationOf
<1>5. propagation'[f0'][blk'][idx' - 1] = PropagationIn
  BY <1>1, <1>2, <1>4 DEF PropagationOut
<1>6. ASSUME "phi" \notin excuses
      PROVE  PropagationSound'
  <2>1. \A u \in DOMAIN origin : origin[u] \subseteq Held(PropagationIn, u)
    BY <1>1, <1>6 DEF RunOK, PropagationSoundBeforePhi, PropagationSound, PropagationIn
  <2>2. \A u \in DOMAIN origin' : origin'[u] \subseteq Held(propagation'[f0'][blk'][idx' - 1], u)
    BY <1>1, <1>5, <2>1
  <2> QED
    BY <2>2 DEF PropagationSound, Held
<1> QED
  BY <1>1, <1>3, <1>6 DEF RunOK, PropagationSoundBeforePhi

LEMMA ExecCallSound ==
  ASSUME WalkOK, FactsOK, FixpointOK, RunOK, ExecCall
  PROVE  WalkOK' /\ RunOK'
<1>1. PICK n, t : Define(I.id, n, {I.id}, t)
  BY DEF ExecCall
<1>2. Running /\ I.op = "call" /\ Still /\ excuses' = excuses
  BY DEF ExecCall, Executes
<1>3. PropagationOut = PropagationIn \union {<<I.id, I.id>>}
  BY <1>2, FactsAtRun DEF PropagationOf
<1>4. I.id \in Held(PropagationOut, I.id)
  BY <1>3, HeldAfter
<1>5. \A u : Held(PropagationIn, u) \subseteq Held(PropagationOut, u)
  BY <1>3, HeldAfter
<1> QED
  BY <1>1, <1>2, <1>4, <1>5, DefinesSoundly DEF Terminators

\* Instructions that pass on where their first operand came from.
LEMMA TakesOverSoundly ==
  ASSUME WalkOK, FactsOK, FixpointOK, RunOK, Still, excuses' = excuses,
         Running, I.op \in {"load", "bitcast", "ptrtoint", "binop"},
         NEW n, NEW o, NEW t, Define(I.id, n, o, t),
         "phi" \notin excuses => o \subseteq Held(PropagationIn, I.args[1])
  PROVE  WalkOK' /\ RunOK'
<1>1. PropagationOut = TakesOver(PropagationIn, I.id, I.args[1])
  BY FactsAtRun DEF PropagationOf
<1>2. "phi" \notin excuses => o \subseteq Held(PropagationOut, I.id)
  BY <1>1, HeldAfter DEF TakesOver
<1>3. \A u : u # I.id => Held(PropagationIn, u) \subseteq Held(PropagationOut, u)
  BY <1>1, HeldAfter DEF TakesOver
<1> QED
  BY <1>2, <1>3, DefinesSoundly DEF Terminators

\* Instructions whose result came from nowhere.
LEMMA ComputesSoundly ==
  ASSUME WalkOK, FactsOK, FixpointOK, RunOK, Still,
         "phi" \in excuses => "phi" \in excuses',
         Executes({"trunc", "sext", "zext", "gep", "icmp", "load"}),
         NEW n, NEW t, Define(I.id, n, {}, t)
  PROVE  WalkOK' /\ RunOK'
<1>1. Running /\ I.op \in {"trunc", "sext", "zext", "gep", "icmp", "load"}
  BY DEF Executes
<1>2. PropagationOut = PropagationIn \/ PropagationOut = TakesOver(PropagationIn, I.id, I.args[1])
  BY <1>1, FactsAtRun DEF PropagationOf
<1>3. \A u : u # I.id => Held(PropagationIn, u) \subseteq Held(PropagationOut, u)
  BY <1>2, HeldAfter DEF TakesOver
<1> QED
  BY <1>1, <1>3, DefinesSoundly DEF Terminators

LEMMA ExecCastSound ==
  ASSUME WalkOK, FactsOK, FixpointOK, RunOK, ExecCast
  PROVE  WalkOK' /\ RunOK'
<1>1. /\ Running /\ I.op \in {"bitcast", "ptrtoint", "sext"}
      /\ "phi" \notin excuses => OriginOf(I.args[1]) \subseteq Held(PropagationIn, I.args[1])
  BY Reads, ReadsFirst DEF ExecCast, Executes
<1>2. Still /\ excuses' = excuses
  BY DEF ExecCast
<1>3. CASE I.op = "sext"
  BY <1>2, <1>3, ComputesSoundly DEF ExecCast, Executes
<1>4. CASE I.op \in {"bitcast", "ptrtoint"}
  BY <1>1, <1>2, <1>4, TakesOverSoundly DEF ExecCast
<1> QED
  BY <1>1, <1>3, <1>4

LEMMA ExecLoadSound ==
  ASSUME WalkOK, FactsOK, FixpointOK, RunOK, ExecLoad \/ ExecLoadThrough
  PROVE  WalkOK' /\ RunOK'
<1>1. CASE ExecLoad
  <2>1. Executes({"load"}) /\ Variable(I.args[1]) /\ Still /\ excuses' = excuses
    BY <1>1 DEF ExecLoad
  <2>2. Running /\ I.op = "load"
    BY <2>1 DEF Executes
  <2>3. "phi" \notin excuses => origin[I.args[1]] \subseteq Held(PropagationIn, I.args[1])
    BY <2>1, LoadsFrom
  <2>4. Define(I.id, env[I.args[1]], origin[I.args[1]], trail[I.args[1]])
    BY <1>1 DEF ExecLoad
  <2> QED
    BY <2>1, <2>2, <2>3, <2>4, TakesOverSoundly
<1>2. CASE ExecLoadThrough
  <2>1. Executes({"load"}) /\ Still /\ \E n, t : Define(I.id, n, {}, t)
    BY <1>2 DEF ExecLoadThrough
  <2>2. "phi" \in excuses => "phi" \in excuses'
    BY <1>2 DEF ExecLoadThrough
  <2>3. Executes({"trunc", "sext", "zext", "gep", "icmp", "load"})
    BY <2>1 DEF Executes
  <2> QED
    BY <2>1, <2>2, <2>3, ComputesSoundly
<1> QED
  BY <1>1, <1>2

LEMMA ExecBinopSound ==
  ASSUME WalkOK, FactsOK, FixpointOK, RunOK, ExecBinop
  PROVE  WalkOK' /\ RunOK'
<1>1. /\ Running /\ I.op = "binop"
      /\ "phi" \notin excuses => OriginOf(I.args[1]) \subseteq Held(PropagationIn, I.args[1])
  BY Reads, ReadsFirst DEF ExecBinop, Executes
<1>2. Still /\ excuses' = excuses /\ \E n, t : Define(I.id, n, OriginOf(I.args[1]), t)
  BY DEF ExecBinop
<1> QED
  BY <1>1, <1>2, TakesOverSoundly

LEMMA ExecStoreSound ==
  ASSUME WalkOK, FactsOK, FixpointOK, RunOK, ExecStore
  PROVE  WalkOK' /\ RunOK'
<1> DEFINE sender == I.args[1]
           receiver == I.args[2]
           from_ == IF IsInteger(sender) THEN {sender} ELSE OriginOf(sender)
<1>1. /\ Running /\ I.op = "store" /\ I \in Instructions /\ IsInstructionOf(Body, I)
      /\ "phi" \notin excuses => OriginOf(sender) \subseteq Held(PropagationIn, sender)
  BY Reads, ReadsFirst DEF ExecStore
<1>2. /\ Define(receiver, ValueOf(sender), from_, TrailOf(sender))
      /\ Still /\ excuses' = excuses
  BY DEF ExecStore
<1>3. PropagationOut =
        IF Held(PropagationIn, sender) = {}
        THEN PropagationIn \union (IF IsInteger(sender) THEN {<<receiver, sender>>} ELSE {})
        ELSE Overwritten(PropagationIn, receiver, Held(PropagationIn, sender))
  BY <1>1, FactsAtRun DEF PropagationOf
<1>4. IsInteger(sender) => Held(PropagationIn, sender) = {}
  BY <1>1, FactsAtRun DEF Held, Holders
<1>5. "phi" \notin excuses => from_ \subseteq Held(PropagationOut, receiver)
  <2>1. CASE IsInteger(sender)
    BY <1>3, <1>4, <2>1, HeldAfter
  <2>2. CASE ~IsInteger(sender)
    BY <1>1, <1>3, <2>2, HeldAfter
  <2> QED
    BY <2>1, <2>2
<1>6. \A u : u # receiver => Held(PropagationIn, u) \subseteq Held(PropagationOut, u)
  <2>1. CASE Held(PropagationIn, sender) = {}
    BY <1>3, <2>1, HeldAfter
  <2>2. CASE Held(PropagationIn, sender) # {}
    BY <1>3, <2>2, HeldAfter
  <2> QED
    BY <2>1, <2>2
<1> QED
  BY <1>1, <1>2, <1>5, <1>6, DefinesSoundly DEF Terminators


\* What goes on with origins that were known, or none.
LEMMA ForgetsSoundly ==
  ASSUME WalkOK, RunOK, Running, Still, I.op \notin Terminators, blk' = blk,
         idx' \in {idx, idx + 1}, "phi" \in excuses => "phi" \in excuses',
         DOMAIN origin' = DOMAIN env',
         \A u \in DOMAIN origin' :
           \/ origin'[u] = {}
           \/ /\ u \in DOMAIN origin /\ origin'[u] = origin[u]
              /\ idx' = idx + 1 => Held(PropagationIn, u) \subseteq Held(PropagationOut, u)
  PROVE  WalkOK' /\ RunOK'
<1>1. /\ program' = program /\ propagation' = propagation /\ pass' = pass /\ pass = "done"
      /\ scc' = scc /\ fn' = fn /\ changed' = changed
      /\ f0' = f0 /\ Body' = Body /\ Members' = Members /\ blk > 0 /\ idx > 0
  BY DEF Still, facts, Running, f0, Members, Body, WalkOK
<1>2. idx < Len(Body[blk]) /\ Len(Body[blk]) \in Nat /\ idx \in Nat
  BY <1>1, InstructionType, HereType
<1>3. WalkOK'
  BY <1>1, <1>2 DEF WalkOK, Running
<1>4. ASSUME "phi" \notin excuses', NEW u \in DOMAIN origin'
      PROVE  origin'[u] \subseteq Held(propagation'[f0'][blk'][idx' - 1], u)
  <2>1. CASE origin'[u] = {}
    BY <2>1
  <2>2. CASE u \in DOMAIN origin /\ origin'[u] = origin[u]
             /\ (idx' = idx + 1 => Held(PropagationIn, u) \subseteq Held(PropagationOut, u))
    <3>1. origin[u] \subseteq Held(PropagationIn, u)
      BY <1>4, <2>2 DEF RunOK, PropagationSoundBeforePhi, PropagationSound, PropagationIn
    <3>2. CASE idx' = idx
      BY <1>1, <2>2, <3>1, <3>2 DEF PropagationIn
    <3>3. CASE idx' = idx + 1
      <4>1. propagation'[f0'][blk'][idx' - 1] = PropagationOut
        BY <1>1, <1>2, <3>3 DEF PropagationOut
      <4> QED
        BY <2>2, <3>1, <3>3, <4>1
    <3> QED
      BY <3>2, <3>3
  <2> QED
    BY <2>1, <2>2
<1>5. "phi" \notin excuses' => PropagationSound'
  BY <1>4 DEF PropagationSound, Held
<1> QED
  BY <1>3, <1>5 DEF RunOK, PropagationSoundBeforePhi

LEMMA ExecStoreThroughSound ==
  ASSUME WalkOK, FactsOK, FixpointOK, RunOK, ExecStoreThrough
  PROVE  WalkOK' /\ RunOK'
<1> DEFINE sender == I.args[1]
           receiver == I.args[2]
<1>1. /\ Running /\ I.op = "store" /\ Still /\ excuses' = excuses
      /\ blk' = blk /\ idx' = idx + 1 /\ env' = env
      /\ origin' = [v \in DOMAIN origin |-> IF v = receiver THEN {} ELSE origin[v]]
  BY DEF ExecStoreThrough, Executes
<1>2. PropagationOut =
        IF Held(PropagationIn, sender) = {}
        THEN PropagationIn \union (IF IsInteger(sender) THEN {<<receiver, sender>>} ELSE {})
        ELSE Overwritten(PropagationIn, receiver, Held(PropagationIn, sender))
  BY <1>1, FactsAtRun DEF PropagationOf
<1>3. \A u : u # receiver => Held(PropagationIn, u) \subseteq Held(PropagationOut, u)
  <2>1. CASE Held(PropagationIn, sender) = {}
    BY <1>2, <2>1, HeldAfter
  <2>2. CASE Held(PropagationIn, sender) # {}
    BY <1>2, <2>2, HeldAfter
  <2> QED
    BY <2>1, <2>2
<1>4. DOMAIN origin' = DOMAIN env'
  BY <1>1 DEF RunOK
<1>5. \A u \in DOMAIN origin' :
        \/ origin'[u] = {}
        \/ /\ u \in DOMAIN origin /\ origin'[u] = origin[u]
           /\ idx' = idx + 1 => Held(PropagationIn, u) \subseteq Held(PropagationOut, u)
  BY <1>1, <1>3
<1> QED
  BY <1>1, <1>4, <1>5, ForgetsSoundly DEF Terminators

LEMMA WriteExposedSound ==
  ASSUME WalkOK, RunOK, WriteExposed
  PROVE  WalkOK' /\ RunOK'
<1>1. /\ Running /\ I.op \in {"call", "store"} /\ Still /\ blk' = blk /\ idx' = idx
      /\ "phi" \in excuses => "phi" \in excuses'
  BY DEF WriteExposed, Executes
<1>2. PICK v, n : env' = Updated(env, v, n) /\ origin' = Updated(origin, v, {})
  BY DEF WriteExposed
<1>3. DOMAIN origin' = DOMAIN env'
  BY <1>2 DEF RunOK, Updated
<1>4. \A u \in DOMAIN origin' : origin'[u] = {} \/ (u \in DOMAIN origin /\ origin'[u] = origin[u])
  BY <1>2 DEF Updated
<1>5. idx # idx + 1
  BY <1>1, HereType DEF WalkOK, Running
<1> QED
  BY <1>1, <1>3, <1>4, <1>5, ForgetsSoundly DEF Terminators

LEMMA ExecPhiSound ==
  ASSUME WalkOK, FactsOK, FixpointOK, RunOK, ExecPhi
  PROVE  WalkOK' /\ RunOK'
<1>1. PICK v, n, o, t : Define(v, n, o, t)
  BY DEF ExecPhi
<1>2. Running /\ I.op = "phi" /\ Still /\ excuses' = excuses \union {"phi"}
  BY DEF ExecPhi, Executes
<1>3. /\ program' = program /\ propagation' = propagation /\ pass' = pass /\ pass = "done"
      /\ scc' = scc /\ fn' = fn /\ changed' = changed /\ blk' = blk /\ idx' = idx + 1
      /\ Body' = Body /\ Members' = Members /\ blk > 0 /\ idx > 0
  BY <1>1, <1>2 DEF Still, facts, Define, Running, f0, Members, Body, WalkOK
<1>4. idx < Len(Body[blk]) /\ Len(Body[blk]) \in Nat /\ idx \in Nat
  BY <1>2, <1>3, InstructionType, HereType DEF Terminators
<1>5. WalkOK'
  BY <1>3, <1>4 DEF WalkOK, Running
<1>6. DOMAIN origin' = DOMAIN env'
  BY <1>1 DEF Define, Updated, RunOK
<1> QED
  BY <1>2, <1>5, <1>6 DEF RunOK, PropagationSoundBeforePhi

LEMMA ExecBranchSound ==
  ASSUME WalkOK, FactsOK, FixpointOK, RunOK, ExecBranch
  PROVE  WalkOK' /\ RunOK'
<1>1. Running /\ I.op = "br" /\ Still /\ IsInstructionOf(Body, I) /\ I \in Instructions
  BY Reads DEF ExecBranch, Executes
<1>2. /\ \A j \in DOMAIN I.to : I.to[j] \in DOMAIN Body
      /\ Len(I.to) \in 1..2 /\ I.to \in Seq(Nat)
  BY <1>1 DEF IsInstructionOf, Instructions
<1>3. PICK j \in DOMAIN I.to : Jump(I.to[j])
  <2>1. CASE Len(I.to) = 1
    BY <1>2, <2>1 DEF ExecBranch
  <2>2. CASE Len(I.to) = 2
    BY <1>2, <2>2 DEF ExecBranch
  <2> QED
    BY <1>2, <2>1, <2>2
<1>4. "phi" \in excuses => "phi" \in excuses'
  <2>1. excuses \subseteq excuses'
    BY DEF ExecBranch
  <2> QED
    BY <2>1
<1> QED
  BY <1>1, <1>2, <1>3, <1>4, JumpsSoundly

LEMMA ExecSwitchSound ==
  ASSUME WalkOK, FactsOK, FixpointOK, RunOK, ExecSwitch
  PROVE  WalkOK' /\ RunOK'
<1>1. Running /\ I.op = "switch" /\ Still /\ IsInstructionOf(Body, I) /\ I \in Instructions
  BY Reads DEF ExecSwitch, Executes
<1>2. /\ \A j \in DOMAIN I.to : I.to[j] \in DOMAIN Body
      /\ Len(I.to) = Len(I.cases) + 1 /\ I.to \in Seq(Nat) /\ Len(I.cases) \in Nat
      /\ DOMAIN I.cases = 1..Len(I.cases) /\ DOMAIN I.to = 1..Len(I.to)
  <2>1. I.to \in Seq(Nat) /\ I.cases \in Seq(DOMAIN Literals)
    BY <1>1 DEF Instructions
  <2>2. (\A j \in DOMAIN I.to : I.to[j] \in DOMAIN Body) /\ Len(I.to) = Len(I.cases) + 1
    BY <1>1 DEF IsInstructionOf
  <2> QED
    BY <2>1, <2>2
<1> DEFINE taken == {k \in DOMAIN I.cases : Literals[I.cases[k]].n = ValueOf(I.args[1])}
<1>3. PICK j \in DOMAIN I.to : Jump(I.to[j])
  <2>1. Jump(I.to[IF taken = {} THEN 1 ELSE 1 + CHOOSE k \in taken : TRUE])
    BY DEF ExecSwitch
  <2>2. CASE taken = {}
    BY <1>2, <2>1, <2>2, SMTT(30)
  <2>3. CASE taken # {}
    <3>1. PICK k \in taken : k = CHOOSE j \in taken : TRUE
      BY <2>3
    <3>2. 1 + k \in DOMAIN I.to
      BY <1>2
    <3> QED
      BY <2>1, <2>3, <3>1, <3>2, ZenonT(60)
  <2> QED
    BY <2>2, <2>3
<1>4. "phi" \in excuses => "phi" \in excuses'
  <2>1. excuses \subseteq excuses'
    BY DEF ExecSwitch
  <2> QED
    BY <2>1
<1> QED
  BY <1>1, <1>2, <1>3, <1>4, JumpsSoundly, SMTT(30)

LEMMA StartSound ==
  ASSUME WalkOK, Start
  PROVE  WalkOK' /\ RunOK'
<1>1. PICK c \in DOMAIN program.members : \E n \in DOMAIN program.members[c] :
        LET params == program.params[program.members[c][n]]
        IN /\ scc' = c /\ fn' = n /\ blk' = 1 /\ idx' = 1
           /\ env' \in [params -> Inputs]
           /\ origin' = [v \in params |-> {}]
  BY DEF Start
<1>2. PICK n \in DOMAIN program.members[c] :
        LET params == program.params[program.members[c][n]]
        IN /\ scc' = c /\ fn' = n /\ blk' = 1 /\ idx' = 1
           /\ env' \in [params -> Inputs]
           /\ origin' = [v \in params |-> {}]
  BY <1>1, SMTT(30)
<1>3. /\ program' = program /\ pass' = pass /\ changed' = changed
      /\ Members' = program.members[c] /\ Body' = program.body[program.members[c][n]]
  BY <1>2 DEF Start, facts, Members, f0, Body
<1>4. /\ 1 \in 1..Len(Body') /\ Len(Body') \in Nat
      /\ 1 \in 1..Len(Body'[1]) /\ Len(Body'[1]) \in Nat
  <2>1. program.members[c][n] \in DOMAIN program.body
    BY MembersType DEF WalkOK
  <2>2. Len(Body') \in Nat \ {0} /\ \A b \in 1..Len(Body') : Len(Body'[b]) \in Nat \ {0}
    BY <1>3, <2>1, BodyType DEF WalkOK
  <2> QED
    BY <2>2
<1>5. WalkOK'
  BY <1>2, <1>3, <1>4, SMTT(30) DEF WalkOK, Running
<1>6. DOMAIN origin' = DOMAIN env' /\ \A v \in DOMAIN origin' : origin'[v] = {}
  BY <1>2
<1> QED
  BY <1>5, <1>6, SMTT(30) DEF RunOK, PropagationSoundBeforePhi, PropagationSound

LEMMA FinishSound ==
  ASSUME WalkOK, Running, Finish
  PROVE  WalkOK' /\ RunOK'
<1>1. /\ program' = program /\ pass' = pass /\ changed' = changed
      /\ scc' = 1 /\ fn' = 1 /\ blk' = 0 /\ idx' = 0 /\ env' = Empty /\ origin' = Empty
  BY DEF Finish, facts
<1>2. 1 \in DOMAIN program.members /\ 1 \in DOMAIN program.members[1]
  BY MembersType DEF WalkOK
<1>3. Members' = program.members[1] /\ Body' = program.body[program.members[1][1]]
  BY <1>1 DEF Members, f0, Body
<1>4. Len(Body') \in Nat
  BY <1>2, <1>3, MembersType, BodyType DEF WalkOK
<1>5. WalkOK'
  BY <1>1, <1>2, <1>3, <1>4 DEF WalkOK, Running
<1> QED
  BY <1>1, <1>5 DEF RunOK, PropagationSoundBeforePhi, PropagationSound, Running


-----------------------------------------------------------------------------
(* The invariant.                                                          *)

IInv == WalkOK /\ FactsOK /\ FixpointOK /\ RunOK

LEMMA InitIInv == Init => IInv
<1> SUFFICES ASSUME Init PROVE IInv
  OBVIOUS
<1>1. /\ program \in Programs /\ propagation = Everywhere({}) /\ pass = "propagation"
      /\ scc = 1 /\ fn = 1 /\ blk = 1 /\ idx = 0 /\ changed = FALSE
      /\ env = Empty /\ origin = Empty
  BY DEF Init, AnalysisInit
<1>2. WalkOK
  <2>1. 1 \in DOMAIN program.members /\ 1 \in DOMAIN Members /\ f0 \in DOMAIN program.body
    BY <1>1, MembersType DEF Members, f0
  <2>2. Len(Body) \in Nat \ {0} /\ Len(Body[1]) \in Nat
    BY <1>1, <2>1, BodyType DEF Body
  <2>3. blk \in 0..Len(Body) /\ idx \in 0..(IF blk = 0 THEN 0 ELSE Len(Body[blk]))
    BY <1>1, <2>2
  <2> QED
    BY <1>1, <2>1, <2>3 DEF WalkOK, Running
<1>3. FactsOK
  BY <1>1, EverywhereShaped DEF FactsOK, Everywhere
<1>4. FixpointOK
  <2>1. Left = {}
    BY <1>1, ProgramType, MembersType DEF Left
  <2>2. StableSoFar
    <3>1. f0 \in DOMAIN program.body /\ Body = program.body[f0]
      BY <1>2, HereType
    <3>2. \A b \in DOMAIN Body : b \in Nat \ {0} /\ LastPoint(f0, b) \in Nat
      BY <1>1, <3>1, BodyType
    <3>3. \A b \in DOMAIN Body : \A i \in Nat : ~Visited(b, i)
      BY <1>1, <3>2 DEF Visited
    <3> QED
      BY <3>2, <3>3 DEF StableSoFar
  <2> QED
    BY <1>1, <2>1, <2>2 DEF FixpointOK
<1>5. RunOK
  BY <1>1 DEF RunOK, PropagationSoundBeforePhi, PropagationSound, Running
<1> QED
  BY <1>2, <1>3, <1>4, <1>5 DEF IInv

\* The actions of a run.
Runs ==
  \/ Start \/ ExecAlloca \/ ExecCall \/ WriteExposed \/ ExecStore \/ ExecStoreThrough
  \/ ExecLoad \/ ExecLoadThrough \/ ExecCast \/ ExecTrunc \/ ExecZext \/ ExecBinop
  \/ ExecGep \/ ExecIcmp \/ ExecPhi \/ ExecBranch \/ ExecSwitch
  \/ ExecNoReturn \/ ExecUndefined \/ ExecRet

\* No run changes a fact.
LEMMA RunsAreStill ==
  ASSUME Runs
  PROVE  program' = program /\ facts' = facts /\ pass = "done" /\ pass' = pass
<1>1. CASE Start
  BY <1>1 DEF Start
<1>2. CASE ExecNoReturn \/ ExecUndefined \/ ExecRet
  BY <1>2 DEF ExecNoReturn, ExecUndefined, ExecRet, Finish, Executes, Running
<1>3. CASE ~(Start \/ ExecNoReturn \/ ExecUndefined \/ ExecRet)
  <2>1. Still
    BY <1>3, ZenonT(60)
    DEF Runs, ExecAlloca, ExecCall, WriteExposed, ExecStore, ExecStoreThrough, ExecLoad,
        ExecLoadThrough, ExecCast, ExecTrunc, ExecZext, ExecBinop, ExecGep, ExecIcmp, ExecPhi,
        ExecBranch, ExecSwitch
  <2>2. Running
    BY <1>3, ZenonT(60)
    DEF Runs, ExecAlloca, ExecCall, WriteExposed, ExecStore, ExecStoreThrough, ExecLoad,
        ExecLoadThrough, ExecCast, ExecTrunc, ExecZext, ExecBinop, ExecGep, ExecIcmp, ExecPhi,
        ExecBranch, ExecSwitch, Executes
  <2> QED
    BY <2>1, <2>2 DEF Still, Running
<1> QED
  BY <1>1, <1>2, <1>3

LEMMA RunsKeepFacts ==
  ASSUME FactsOK, FixpointOK, program' = program, propagation' = propagation, pass = "done",
         pass' = pass
  PROVE  FactsOK' /\ FixpointOK'
<1>1. ASSUME NEW f
      PROVE  Stable(f)' = Stable(f)
  BY <1>1
  DEF Stable, StableEntry, StableAt, Predecessors, Successors, Terminator, LastPoint,
      PropagationOf, TakesOver, Held, Overwritten
<1>2. Analysed' = Analysed
  BY DEF Analysed
<1> QED
  BY <1>1, <1>2 DEF FactsOK, FixpointOK, Shaped, LastPoint, Holders

LEMMA NextIInv == IInv /\ [Next]_vars => IInv'
<1> SUFFICES ASSUME IInv, [Next]_vars PROVE IInv'
  OBVIOUS
<1> USE DEF IInv
<1>1. CASE Analyse
  <2>1. AnalysisNext /\ UNCHANGED run
    BY <1>1 DEF Analyse
  <2>2. ~Running'
    <3>1. pass # "done"
      BY <2>1, Moves
    <3>2. CASE NextFunction
      BY <3>1, <3>2 DEF NextFunction, GoTo, Running
    <3>3. CASE Entered \/ \E d : Step(d)
      BY <3>1, <3>3 DEF Entered, Step, Running
    <3> QED
      BY <2>1, <3>2, <3>3, Moves
  <2>3. RunOK'
    BY <2>1, <2>2 DEF run, RunOK, PropagationSoundBeforePhi, PropagationSound
  <2> QED
    BY <2>1, <2>3, AnalysisWalks, FactsKept, FixpointKept
<1>2. CASE Runs
  <2>1. program' = program /\ propagation' = propagation /\ pass = "done" /\ pass' = pass
    BY <1>2, RunsAreStill DEF facts
  <2>2. FactsOK' /\ FixpointOK'
    BY <2>1, RunsKeepFacts
  <2>3. CASE Start
    BY <2>2, <2>3, StartSound
  <2>4. CASE ExecAlloca
    BY <2>2, <2>4, ExecAllocaSound
  <2>5. CASE ExecCall
    BY <2>2, <2>5, ExecCallSound
  <2>6. CASE ExecStore \/ ExecStoreThrough \/ WriteExposed
    BY <2>2, <2>6, ExecStoreSound, ExecStoreThroughSound, WriteExposedSound
  <2>7. CASE ExecLoad \/ ExecLoadThrough \/ ExecCast
    BY <2>2, <2>7, ExecLoadSound, ExecCastSound
  <2>8. CASE ExecTrunc
    <3>1. "phi" \in excuses => "phi" \in excuses'
      BY <2>8 DEF ExecTrunc
    <3>2. \E n, t : Define(I.id, n, {}, t)
      BY <2>8 DEF ExecTrunc
    <3> QED
      BY <2>2, <2>8, <3>1, <3>2, ComputesSoundly DEF ExecTrunc, Executes
  <2>9. CASE ExecZext
    BY <2>2, <2>9, ComputesSoundly DEF ExecZext, Executes
  <2>10. CASE ExecBinop
    BY <2>2, <2>10, ExecBinopSound
  <2>11. CASE ExecIcmp
    <3>1. "phi" \in excuses => "phi" \in excuses'
      BY <2>11 DEF ExecIcmp
    <3>2. \E n, t : Define(I.id, n, {}, t)
      BY <2>11 DEF ExecIcmp
    <3> QED
      BY <2>2, <2>11, <3>1, <3>2, ComputesSoundly DEF ExecIcmp, Executes
  <2>12. CASE ExecPhi
    BY <2>2, <2>12, ExecPhiSound
  <2>13. CASE ExecBranch
    BY <2>2, <2>13, ExecBranchSound
  <2>14. CASE ExecSwitch
    BY <2>2, <2>14, ExecSwitchSound
  <2>15. CASE ExecNoReturn \/ ExecUndefined \/ ExecRet
    BY <2>2, <2>15, FinishSound DEF ExecNoReturn, ExecUndefined, ExecRet, Executes
  <2>16. CASE ExecGep
    <3>1. excuses' = excuses /\ Still /\ \E n, t : Define(I.id, n, {}, t)
      BY <2>16 DEF ExecGep
    <3> QED
      BY <2>2, <2>16, <3>1, ComputesSoundly DEF ExecGep, Executes
  <2> QED
    BY <1>2, <2>3, <2>4, <2>5, <2>6, <2>7, <2>8, <2>9, <2>10,
       <2>11, <2>12, <2>13, <2>14, <2>15, <2>16, SMTT(30) DEF Runs
<1>3. CASE UNCHANGED vars
  <2>1. UNCHANGED <<program, facts, walk, run>>
    BY <1>3 DEF vars
  <2>2. WalkOK'
    BY <2>1 DEF facts, walk, WalkOK, Members, Body, f0, Running
  <2>3. FactsOK'
    BY <2>1 DEF facts, FactsOK, Shaped, LastPoint, Holders
  <2>4. FixpointOK'
    <3>1. ASSUME NEW f
          PROVE  Stable(f)' = Stable(f)
      BY <2>1, <3>1
      DEF facts, Stable, StableEntry, StableAt, Predecessors, Successors, Terminator,
          LastPoint, PropagationOf, TakesOver, Held, Overwritten
    <3>2. StableSoFar' = StableSoFar
      BY <2>1
      DEF facts, walk, StableSoFar, Visited, StableEntry, StableAt, Predecessors, Successors,
          Terminator, LastPoint, PropagationOf, TakesOver, Held, Overwritten, Members, Body, f0
    <3>3. Left' = Left /\ Analysed' = Analysed
      BY <2>1 DEF walk, Left, Analysed
    <3> QED
      BY <2>1, <3>1, <3>2, <3>3 DEF walk, FixpointOK
  <2>5. RunOK'
    BY <2>1
    DEF facts, walk, run, RunOK, Running, PropagationSoundBeforePhi, PropagationSound, Held,
        f0, Members
  <2> QED
    BY <2>2, <2>3, <2>4, <2>5
<1> QED
  BY <1>1, <1>2, <1>3 DEF Next, Runs

\* Every step of the passes and of a run keeps the invariant.
THEOREM FixpointInvariance == Spec => []IInv
<1> QED
  BY InitIInv, NextIInv, PTL DEF Spec

\* Until a run meets a phi, the call or constant that a value came from is in
\* the fact ReturnPropagationPass has for it wherever the run stands.
THEOREM OriginsAreKnown == Spec => []PropagationSoundBeforePhi
<1>1. IInv => PropagationSoundBeforePhi
  BY DEF IInv, RunOK
<1> QED
  BY <1>1, FixpointInvariance, PTL
=============================================================================
