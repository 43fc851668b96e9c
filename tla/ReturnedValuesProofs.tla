------------------------ MODULE ReturnedValuesProofs ------------------------
(***************************************************************************)
(* Proofs about ReturnedValuesPass.  When the pass has ended its facts are *)
(* a fixpoint, the ends of the blocks that flow into a phi included though *)
(* what a phi adds there does not count as a change; and so what a run     *)
(* returns was at every point where it was held among the values that may  *)
(* be returned from there.                                                 *)
(***************************************************************************)
EXTENDS ExecutionProofs

-----------------------------------------------------------------------------
(* The fixpoint.                                                           *)

\* What a visit makes of the facts before and after instruction i.
ReturnedOf(i, in, out) ==
  LET through(v, u) == IF v \in out THEN (out \ {v}) \union {u} ELSE out
  IN CASE i.op = "call" ->
            IF i.tag \in err_functions /\ i.id \in out THEN out \union {i.args[1]} ELSE out
       [] i.op = "ret" -> IF i.args = <<>> THEN in ELSE out \union {i.args[1]}
       [] i.op = "store" -> through(i.args[2], i.args[1])
       [] i.op \in {"load", "bitcast", "ptrtoint", "trunc", "sext"} -> through(i.id, i.args[1])
       [] i.op = "phi" -> out \ {i.id}
       [] OTHER -> out

SettledAt(f, b, i) ==
  returned[f][b][i - 1] =
    ReturnedOf(program.body[f][b][i], returned[f][b][i - 1], returned[f][b][i])

SettledEnd(f, b) ==
  \A s \in Successors(f, b) : returned[f][s][0] \subseteq returned[f][b][LastPoint(f, b)]

Settled(f) ==
  \A b \in DOMAIN program.body[f] :
    /\ SettledEnd(f, b)
    /\ \A i \in 1..LastPoint(f, b) : SettledAt(f, b, i)

\* If instruction k of block b is a phi that may be returned, its operands may
\* be at the ends of the blocks they come from.
OperandsKnown(f, b, k) ==
  LET i == program.body[f][b][k]
  IN i.op = "phi" /\ i.id \in returned[f][b][k] =>
       \A a \in DOMAIN program.body[f] : Incoming(i, a) \subseteq returned[f][a][LastPoint(f, a)]

\* The pass has been at point i of block b in this round, coming backward.
Passed(b, i) == blk = 0 \/ b < blk \/ (b = blk /\ idx > 0 /\ i > idx)

SettledSoFar ==
  \A b \in DOMAIN Body :
    /\ Passed(b, LastPoint(f0, b) + 1) => SettledEnd(f0, b)
    /\ \A i \in 1..LastPoint(f0, b) : Passed(b, i) => SettledAt(f0, b, i)

\* A phi that the pass is about to visit, after a change of this round.
Pending(f, b, k) ==
  pass = "returned" /\ f = f0 /\ changed /\ b = blk /\ k <= idx

\* While no fact has changed in this round, the points visited are settled;
\* the functions left are.  A phi whose operands are not known yet is one that
\* became returnable in this round and is still ahead.
ReturnedFixpointOK ==
  /\ pass = "returned" /\ (blk = 0 \/ ~changed) => SettledSoFar
  /\ pass = "returned" => \A f \in Left : Settled(f)
  /\ pass \in {"constraints", "range", "done"} => \A f \in Analysed : Settled(f)
  /\ \A f \in DOMAIN program.body : \A b \in DOMAIN program.body[f] :
       \A k \in 1..LastPoint(f, b) : OperandsKnown(f, b, k) \/ Pending(f, b, k)

\* Names that may be returned from the points where a number was held.
MayReturn(t) == \A h \in t : h[3] \in returned[f0][h[1]][h[2]]

\* What may be returned from where a run stands may be from wherever it was held.
TrailsOK ==
  Running =>
    /\ \A v \in DOMAIN trail : v \in returned[f0][blk][idx - 1] => MayReturn(trail[v])
    /\ \A a \in arriving :
         /\ a.phi \in 1..LastPoint(f0, blk)
         /\ Body[blk][a.phi].id \in returned[f0][blk][a.phi] => MayReturn(a.trail)

-----------------------------------------------------------------------------
(* The steps of the pass.                                                  *)

LEMMA SuccessorsOfBlock ==
  ASSUME program \in Programs, NEW f \in DOMAIN program.body, NEW b \in DOMAIN program.body[f]
  PROVE  \A s \in Successors(f, b) : s \in DOMAIN program.body[f] /\ LastPoint(f, s) \in Nat \ {0}
<1>1. Len(program.body[f][b]) \in DOMAIN program.body[f][b]
  BY BodyType
<1>2. IsInstructionOf(program.body[f], Terminator(f, b))
  BY <1>1, ProgramType DEF IsBody, Terminator
<1>3. \A s \in Successors(f, b) : s \in DOMAIN program.body[f]
  BY <1>2 DEF IsInstructionOf, Successors
<1> QED
  BY <1>3, BodyType

\* What a visit of the instruction writes: the fact before it, and what a phi
\* adds to the ends of the blocks that it comes from.
Visit ==
  LET new == ReturnedOf(I, ReturnedIn, ReturnedOut)
  IN /\ Step(new # ReturnedIn)
     /\ \A f \in DOMAIN program.body : \A b \in DOMAIN program.body[f] :
          \A i \in 0..LastPoint(f, b) :
            returned'[f][b][i] =
              IF f = f0 /\ b = blk /\ i = idx - 1 THEN new
              ELSE IF f = f0 /\ i = LastPoint(f, b) /\ I.op = "phi" /\ I.id \in ReturnedOut
              THEN returned[f][b][i] \union Incoming(I, b)
              ELSE returned[f][b][i]

LEMMA VisitWrites ==
  ASSUME WalkOK, TypedFactsOK, blk > 0, idx > 0, I.op # "phi",
         Return(ReturnedOf(I, ReturnedIn, ReturnedOut))
  PROVE  Visit
<1> DEFINE new == ReturnedOf(I, ReturnedIn, ReturnedOut)
<1> HIDE DEF new
<1>1. Return(new)
  BY DEF new
<1>2. returned' = Put(returned, f0, blk, idx - 1, new)
  BY <1>1 DEF Return, Put
<1>3. Shaped(returned)
  BY DEF TypedFactsOK, Typed
<1>4. \A f \in DOMAIN program.body : \A b \in DOMAIN program.body[f] :
        \A i \in 0..LastPoint(f, b) :
          returned'[f][b][i] =
            IF f = f0 /\ b = blk /\ i = idx - 1 THEN new ELSE returned[f][b][i]
  BY <1>2, <1>3, AtAnInstruction, StoredAtAPoint
<1>5. Step(new # ReturnedIn)
  BY <1>1 DEF Return
<1> QED
  BY <1>4, <1>5 DEF Visit, new

LEMMA PhiWrites ==
  ASSUME WalkOK, TypedFactsOK, ReturnedPhi
  PROVE  Visit
<1>1. I.op = "phi" /\ blk > 0 /\ idx > 0
  BY DEF ReturnedPhi, At
<1>2. ReturnedOf(I, ReturnedIn, ReturnedOut) = ReturnedOut \ {I.id}
  BY <1>1 DEF ReturnedOf
<1> DEFINE new == [b \in DOMAIN Body |->
                    [i \in 0..LastPoint(f0, b) |->
                       IF b = blk /\ i = idx - 1 THEN ReturnedOut \ {I.id}
                       ELSE IF i = LastPoint(f0, b) /\ I.id \in ReturnedOut
                       THEN returned[f0][b][i] \union Incoming(I, b)
                       ELSE returned[f0][b][i]]]
<1>3. returned' = [returned EXCEPT ![f0] = new]
  BY DEF ReturnedPhi
<1>4. \A b \in DOMAIN Body : \A i \in 0..LastPoint(f0, b) :
        new[b][i] =
          IF b = blk /\ i = idx - 1 THEN ReturnedOut \ {I.id}
          ELSE IF i = LastPoint(f0, b) /\ I.id \in ReturnedOut
          THEN returned[f0][b][i] \union Incoming(I, b)
          ELSE returned[f0][b][i]
  OBVIOUS
<1>5. Step(ReturnedOut \ {I.id} # ReturnedIn)
  BY DEF ReturnedPhi
<1> HIDE DEF new
<1>6. \A f \in DOMAIN program.body : returned'[f] = IF f = f0 THEN new ELSE returned[f]
  BY <1>3 DEF TypedFactsOK, Typed, Shaped
<1>7. Body = program.body[f0]
  BY DEF Body
<1>8. ASSUME NEW f \in DOMAIN program.body, NEW b \in DOMAIN program.body[f],
             NEW i \in 0..LastPoint(f, b)
      PROVE  returned'[f][b][i] =
               IF f = f0 /\ b = blk /\ i = idx - 1 THEN ReturnedOut \ {I.id}
               ELSE IF f = f0 /\ i = LastPoint(f, b) /\ I.op = "phi" /\ I.id \in ReturnedOut
               THEN returned[f][b][i] \union Incoming(I, b)
               ELSE returned[f][b][i]
  <2>1. CASE f = f0
    <3>1. returned'[f] = new
      BY <1>6, <2>1
    <3>2. b \in DOMAIN Body /\ i \in 0..LastPoint(f0, b)
      BY <1>7, <1>8, <2>1
    <3> QED
      BY <1>1, <1>4, <2>1, <3>1, <3>2
  <2>2. CASE f # f0
    BY <1>6, <1>8, <2>2
  <2> QED
    BY <2>1, <2>2
<1> QED
  BY <1>2, <1>5, <1>8, SMTT(30) DEF Visit

LEMMA ReturnedMoves ==
  ASSUME WalkOK, TypedFactsOK, AnalysisNext
  PROVE  \/ returned' = returned /\ NextFunction
         \/ returned' = returned /\ pass # "returned" /\ pass' = pass
         \/ EnterReturned
         \/ pass = "returned" /\ blk > 0 /\ idx > 0 /\ Visit
<1>1. CASE NextFunction
  BY <1>1 DEF NextFunction, facts
<1>2. CASE EnterReturned
  BY <1>2
<1>3. CASE ReturnedPhi
  BY <1>3, PhiWrites DEF ReturnedPhi, At
<1>4. CASE ReturnedCall \/ ReturnedRet \/ ReturnedStore \/ ReturnedLoad \/ ReturnedOther
  <2>1. pass = "returned" /\ blk > 0 /\ idx > 0 /\ I.op # "phi"
    BY <1>4 DEF ReturnedCall, ReturnedRet, ReturnedStore, ReturnedLoad, ReturnedOther, At, Others
  <2>2. Return(ReturnedOf(I, ReturnedIn, ReturnedOut))
    <3>1. CASE ReturnedCall
      BY <3>1 DEF ReturnedCall, At, ReturnedOf
    <3>2. CASE ReturnedRet
      BY <3>2 DEF ReturnedRet, At, ReturnedOf
    <3>3. CASE ReturnedStore
      BY <3>3 DEF ReturnedStore, At, ReturnedOf, ReturnedThrough
    <3>4. CASE ReturnedLoad
      BY <3>4 DEF ReturnedLoad, At, ReturnedOf, ReturnedThrough
    <3>5. CASE ReturnedOther
      BY <3>5 DEF ReturnedOther, Others, ReturnedOf
    <3> QED
      BY <1>4, <3>1, <3>2, <3>3, <3>4, <3>5
  <2> QED
    BY <2>1, <2>2, VisitWrites
<1>5. CASE OfPropagation \/ OfConstraints \/ OfRange
  <2>1. pass # "returned"
    BY <1>5
    DEF OfPropagation, EnterPropagation, PropagateCall, PropagateLoad, PropagateStore,
        PropagateCast, PropagatePhi, PropagateOther, OfConstraints, EnterConstraints,
        ConstrainCall, ConstrainBranch, ConstrainSwitch, ConstrainOther, OfRange, EnterRange,
        RangeStore, RangeLoad, RangePhi, RangeBranch, RangeSwitch, RangeRet, RangeOther,
        Entering, At, Others
  <2>2. ~OfReturned
    BY <2>1
    DEF OfReturned, EnterReturned, ReturnedCall, ReturnedRet, ReturnedStore, ReturnedLoad,
        ReturnedPhi, ReturnedOther, Entering, At, Others
  <2>3. returned' = returned
    BY <2>2, OfOnePass
  <2>4. ~NextFunction
    <3>1. blk > 0
      BY <1>5
      DEF OfPropagation, EnterPropagation, PropagateCall, PropagateLoad, PropagateStore,
          PropagateCast, PropagatePhi, PropagateOther, OfConstraints, EnterConstraints,
          ConstrainCall, ConstrainBranch, ConstrainSwitch, ConstrainOther, OfRange, EnterRange,
          RangeStore, RangeLoad, RangePhi, RangeBranch, RangeSwitch, RangeRet, RangeOther,
          Entering, At, Others
    <3> QED
      BY <3>1 DEF NextFunction
  <2>5. pass' = pass
    BY <2>4, Moves, StepKeeps DEF Entered
  <2> QED
    BY <2>1, <2>3, <2>5
<1> QED
  BY <1>1, <1>2, <1>3, <1>4, <1>5
  DEF AnalysisNext, OfPropagation, OfConstraints, OfRange

-----------------------------------------------------------------------------
(* Every step keeps what is settled.                                       *)

\* A function none of whose facts a step changes stays settled.
LEMMA SettledKept ==
  ASSUME program \in Programs, program' = program, NEW f \in DOMAIN program.body,
         \A b \in DOMAIN program.body[f] : \A i \in 0..LastPoint(f, b) :
           returned'[f][b][i] = returned[f][b][i]
  PROVE  /\ \A b \in DOMAIN program.body[f] : SettledEnd(f, b)' = SettledEnd(f, b)
         /\ \A b \in DOMAIN program.body[f] : \A i \in 1..LastPoint(f, b) :
              SettledAt(f, b, i)' = SettledAt(f, b, i)
         /\ Settled(f)' = Settled(f)
         /\ \A b \in DOMAIN program.body[f] : \A k \in 1..LastPoint(f, b) :
              OperandsKnown(f, b, k)' = OperandsKnown(f, b, k)
<1>0. \A b : LastPoint(f, b)' = LastPoint(f, b)
  BY DEF LastPoint
<1>1. \A b \in DOMAIN program.body[f] : LastPoint(f, b) \in Nat \ {0}
  BY BodyType
<1>2. \A b \in DOMAIN program.body[f] :
        returned'[f][b][LastPoint(f, b)] = returned[f][b][LastPoint(f, b)]
  BY <1>1
<1>3. ASSUME NEW b \in DOMAIN program.body[f]
      PROVE  SettledEnd(f, b)' = SettledEnd(f, b)
  <2>1. Successors(f, b)' = Successors(f, b)
    BY DEF Successors, Terminator
  <2>2. \A s \in Successors(f, b) : returned'[f][s][0] = returned[f][s][0]
    BY <1>3, SuccessorsOfBlock
  <2> QED
    BY <1>0, <1>2, <1>3, <2>1, <2>2 DEF SettledEnd
<1>4. ASSUME NEW b \in DOMAIN program.body[f], NEW i \in 1..LastPoint(f, b)
      PROVE  SettledAt(f, b, i)' = SettledAt(f, b, i)
  <2>1. i \in 0..LastPoint(f, b) /\ i - 1 \in 0..LastPoint(f, b)
    BY <1>1, <1>4
  <2>2. /\ returned'[f][b][i] = returned[f][b][i]
        /\ returned'[f][b][i - 1] = returned[f][b][i - 1]
    BY <1>4, <2>1
  <2> QED
    BY <2>2 DEF SettledAt, ReturnedOf
<1>5. ASSUME NEW b \in DOMAIN program.body[f], NEW k \in 1..LastPoint(f, b)
      PROVE  OperandsKnown(f, b, k)' = OperandsKnown(f, b, k)
  <2>1. returned'[f][b][k] = returned[f][b][k]
    BY <1>5
  <2> QED
    BY <1>0, <1>2, <2>1 DEF OperandsKnown, Incoming
<1> QED
  BY <1>0, <1>3, <1>4, <1>5 DEF Settled

\* The functions left are not written any more.
LEMMA LeftSettled ==
  ASSUME WalkOK, ReturnedFixpointOK, program' = program, scc' = scc, fn' = fn,
         pass = "returned",
         \A f \in DOMAIN program.body : f # f0 =>
           \A b \in DOMAIN program.body[f] : \A i \in 0..LastPoint(f, b) :
             returned'[f][b][i] = returned[f][b][i]
  PROVE  \A f \in Left' : Settled(f)'
<1> SUFFICES ASSUME NEW f \in Left
             PROVE  Settled(f)'
  BY DEF Left
<1>1. f \in DOMAIN program.body /\ f # f0
  BY LeftBehind
<1>2. Settled(f)
  BY DEF ReturnedFixpointOK
<1>3. \A b \in DOMAIN program.body[f] : \A i \in 0..LastPoint(f, b) :
        returned'[f][b][i] = returned[f][b][i]
  BY <1>1
<1> QED
  BY <1>1, <1>2, <1>3, SettledKept DEF WalkOK

\* Facts at the ends of blocks only grow: no operand of a phi is lost there.
LEMMA OperandsStayKnown ==
  ASSUME program \in Programs, program' = program, NEW f \in DOMAIN program.body,
         NEW b \in DOMAIN program.body[f], NEW k \in 1..LastPoint(f, b),
         returned'[f][b][k] = returned[f][b][k],
         \A a \in DOMAIN program.body[f] :
           returned[f][a][LastPoint(f, a)] \subseteq returned'[f][a][LastPoint(f, a)],
         OperandsKnown(f, b, k)
  PROVE  OperandsKnown(f, b, k)'
<1> DEFINE i == program.body[f][b][k]
<1>1. \A a : LastPoint(f, a)' = LastPoint(f, a)
  BY DEF LastPoint
<1>2. i.op = "phi" /\ i.id \in returned[f][b][k] =>
        \A a \in DOMAIN program.body[f] : Incoming(i, a) \subseteq returned[f][a][LastPoint(f, a)]
  BY DEF OperandsKnown
<1>3. i.op = "phi" /\ i.id \in returned'[f][b][k] =>
        \A a \in DOMAIN program.body[f] : Incoming(i, a) \subseteq returned'[f][a][LastPoint(f, a)]
  BY <1>2
<1>4. \A a : Incoming(i, a)' = Incoming(i, a)
  BY DEF Incoming
<1> HIDE DEF i
<1>5. i' = i
  BY DEF i
<1>6. OperandsKnown(f, b, k)' =
        (i'.op = "phi" /\ i'.id \in returned'[f][b][k] =>
           \A a \in DOMAIN program'.body[f] :
             Incoming(i, a)' \subseteq returned'[f][a][LastPoint(f, a)'])
  BY DEF OperandsKnown, i
<1> QED
  BY <1>1, <1>3, <1>4, <1>5, <1>6

\* The join at the end of a block.
EndOf(b) ==
  returned[f0][b][LastPoint(f0, b)] \union UNION {returned[f0][s][0] : s \in Successors(f0, b)}

LEMMA EndWritten ==
  ASSUME WalkOK, TypedFactsOK, EnterReturned
  PROVE  /\ program' = program
         /\ \A f \in DOMAIN program.body : \A b \in DOMAIN program.body[f] :
              \A i \in 0..LastPoint(f, b) :
                returned'[f][b][i] =
                  IF f = f0 /\ b = blk /\ i = LastPoint(f, b)
                  THEN EndOf(blk) ELSE returned[f][b][i]
<1>1. blk > 0 /\ program' = program
  BY DEF EnterReturned, Entering, Entered
<1>2. returned' = Put(returned, f0, blk, LastPoint(f0, blk), EndOf(blk))
  BY DEF EnterReturned, Put, EndOf
<1>3. Shaped(returned)
  BY DEF TypedFactsOK, Typed
<1>4. /\ f0 \in DOMAIN program.body /\ blk \in DOMAIN program.body[f0]
      /\ LastPoint(f0, blk) \in 0..LastPoint(f0, blk)
  BY <1>1, AtAnEntry
<1>5. \A f \in DOMAIN program.body : \A b \in DOMAIN program.body[f] :
        \A i \in 0..LastPoint(f, b) :
          returned'[f][b][i] =
            IF f = f0 /\ b = blk /\ i = LastPoint(f0, blk) THEN EndOf(blk) ELSE returned[f][b][i]
  BY <1>2, <1>3, <1>4, StoredAtAPoint
<1> QED
  BY <1>1, <1>5

LEMMA EntersSettled ==
  ASSUME WalkOK, TypedFactsOK, ReturnedFixpointOK, EnterReturned
  PROVE  ReturnedFixpointOK'
<1>1. /\ program' = program /\ pass = "returned" /\ pass' = pass /\ scc' = scc /\ fn' = fn
      /\ blk > 0 /\ idx = 0 /\ blk' = blk /\ idx' = Len(Body[blk]) /\ changed' = changed
  BY DEF EnterReturned, Entering, Entered
<1>2. /\ f0 \in DOMAIN program.body /\ blk \in DOMAIN Body /\ Body = program.body[f0]
      /\ LastPoint(f0, blk) = Len(Body[blk]) /\ blk \in Nat
  BY <1>1, HereType DEF WalkOK
<1>3. f0' = f0 /\ Body' = Body /\ \A b : LastPoint(f0, b)' = LastPoint(f0, b)
  BY <1>1 DEF f0, Members, Body, LastPoint
<1>4. \A b \in DOMAIN Body : b \in Nat \ {0} /\ LastPoint(f0, b) \in Nat \ {0}
  BY <1>2, BodyType DEF WalkOK
<1>5. \A f \in DOMAIN program.body : \A b \in DOMAIN program.body[f] :
        \A i \in 0..LastPoint(f, b) :
          returned'[f][b][i] =
            IF f = f0 /\ b = blk /\ i = LastPoint(f, b) THEN EndOf(blk) ELSE returned[f][b][i]
  BY EndWritten
<1>6. \A f \in Left' : Settled(f)'
  BY <1>1, <1>5, LeftSettled
<1>7. ASSUME ~changed
      PROVE  SettledSoFar'
  <2>1. SettledSoFar
    BY <1>1, <1>7 DEF ReturnedFixpointOK
  <2>2. ASSUME NEW b \in DOMAIN Body, b = blk \/ b < blk
        PROVE  SettledEnd(f0, b)'
    <3>1. SettledEnd(f0, b)' =
            \A s \in Successors(f0, b) :
              returned'[f0][s][0] \subseteq returned'[f0][b][LastPoint(f0, b)]
      BY <1>1, <1>3 DEF SettledEnd, Successors, Terminator
    <3>2. \A s \in Successors(f0, b) : returned'[f0][s][0] = returned[f0][s][0]
      <4>1. \A s \in Successors(f0, b) : s \in DOMAIN program.body[f0] /\ LastPoint(f0, s) \in Nat \ {0}
        BY <1>2, <2>2, SuccessorsOfBlock DEF WalkOK
      <4> QED
        BY <1>2, <1>5, <4>1
    <3>3. CASE b = blk
      <4>1. returned'[f0][b][LastPoint(f0, b)] = EndOf(blk)
        BY <1>2, <1>4, <1>5, <3>3
      <4> QED
        BY <3>1, <3>2, <3>3, <4>1 DEF EndOf
    <3>4. CASE b < blk
      <4>1. returned'[f0][b][LastPoint(f0, b)] = returned[f0][b][LastPoint(f0, b)]
        BY <1>2, <1>4, <1>5, <3>4
      <4>2. SettledEnd(f0, b)
        BY <1>4, <2>1, <3>4 DEF SettledSoFar, Passed
      <4> QED
        BY <3>1, <3>2, <4>1, <4>2 DEF SettledEnd
    <3> QED
      BY <2>2, <3>3, <3>4
  <2>3. ASSUME NEW b \in DOMAIN Body, NEW i \in 1..LastPoint(f0, b), b < blk
        PROVE  SettledAt(f0, b, i)'
    <3>1. /\ returned'[f0][b][i] = returned[f0][b][i]
          /\ returned'[f0][b][i - 1] = returned[f0][b][i - 1]
      BY <1>2, <1>4, <1>5, <2>3, SMTT(30)
    <3>2. SettledAt(f0, b, i)
      BY <2>1, <2>3 DEF SettledSoFar, Passed
    <3>3. SettledAt(f0, b, i)' = SettledAt(f0, b, i)
      BY <1>1, <1>3, <3>1 DEF SettledAt
    <3> QED
      BY <3>2, <3>3
  <2>4. ASSUME NEW b \in DOMAIN Body
        PROVE  /\ Passed(b, LastPoint(f0, b) + 1)' => b = blk \/ b < blk
               /\ \A i \in 1..LastPoint(f0, b) : Passed(b, i)' => b < blk
    BY <1>1, <1>2, <1>3, <1>4, <2>4 DEF Passed
  <2> QED
    BY <1>3, <2>2, <2>3, <2>4 DEF SettledSoFar
<1>8. ASSUME NEW f \in DOMAIN program.body, NEW b \in DOMAIN program.body[f],
             NEW k \in 1..LastPoint(f, b)
      PROVE  OperandsKnown(f, b, k)' \/ Pending(f, b, k)'
  <2>1. \A a \in DOMAIN program.body[f] : LastPoint(f, a) \in Nat \ {0}
    BY <1>8, BodyType DEF WalkOK
  <2>2. CASE k = LastPoint(f, b)
    <3>1. program.body[f][b][k].op # "phi"
      <4>1. k \in DOMAIN program.body[f][b] /\ k = Len(program.body[f][b])
        BY <1>8, <2>1, <2>2, BodyType DEF WalkOK
      <4>2. IsBody(program.body[f])
        BY <1>8, ProgramType DEF WalkOK
      <4> QED
        BY <1>8, <4>1, <4>2 DEF IsBody, Terminators
    <3> QED
      BY <1>1, <3>1 DEF OperandsKnown
  <2>3. CASE k # LastPoint(f, b)
    <3>1. returned'[f][b][k] = returned[f][b][k]
      BY <1>5, <1>8, <2>1, <2>3
    <3>2. \A a \in DOMAIN program.body[f] :
            returned[f][a][LastPoint(f, a)] \subseteq returned'[f][a][LastPoint(f, a)]
      <4>1. ASSUME NEW a \in DOMAIN program.body[f]
            PROVE  returned'[f][a][LastPoint(f, a)] =
                     IF f = f0 /\ a = blk THEN EndOf(blk) ELSE returned[f][a][LastPoint(f, a)]
        BY <1>5, <1>8, <2>1, <4>1
      <4> QED
        BY <4>1 DEF EndOf
    <3>3. CASE OperandsKnown(f, b, k)
      BY <1>1, <1>8, <3>1, <3>2, <3>3, OperandsStayKnown DEF WalkOK
    <3>4. CASE Pending(f, b, k)
      BY <1>1, <1>8, <3>4, <2>1 DEF Pending
    <3> QED
      BY <1>8, <3>3, <3>4 DEF ReturnedFixpointOK
  <2> QED
    BY <2>2, <2>3
<1>9. \A f \in DOMAIN program.body' : \A b \in DOMAIN program'.body[f] :
        \A k \in 1..LastPoint(f, b)' : OperandsKnown(f, b, k)' \/ Pending(f, b, k)'
  BY <1>1, <1>8 DEF LastPoint
<1> QED
  BY <1>1, <1>6, <1>7, <1>9 DEF ReturnedFixpointOK

\* A phi is not the last instruction of its block.
LEMMA PhiIsNotLast ==
  ASSUME program \in Programs, NEW f \in DOMAIN program.body, NEW b \in DOMAIN program.body[f],
         NEW k \in 1..LastPoint(f, b), program.body[f][b][k].op = "phi"
  PROVE  k # LastPoint(f, b)
<1>1. k \in DOMAIN program.body[f][b] /\ LastPoint(f, b) = Len(program.body[f][b])
  BY BodyType
<1>2. IsBody(program.body[f])
  BY ProgramType
<1> QED
  BY <1>1, <1>2 DEF IsBody, Terminators

\* Where a visit leaves the pass: it goes on backward, to the next block or, if
\* a fact has changed in this round, to the first one.
LEMMA BackwardStep ==
  ASSUME WalkOK, pass = "returned", blk > 0, idx > 0, NEW d \in BOOLEAN, Step(d)
  PROVE  /\ program' = program /\ pass' = pass /\ scc' = scc /\ fn' = fn
         /\ idx > 1 => blk' = blk /\ idx' = idx - 1 /\ changed' = (changed \/ d)
         /\ blk' # 0 /\ ~changed' => (~d /\ ~changed) \/ (blk' = 1 /\ idx' = 0)
         /\ blk' = 0 => ~d /\ ~changed
         /\ \A b \in DOMAIN Body : \A i \in Nat \ {0} :
              blk' = 0 \/ b < blk' \/ (b = blk' /\ idx' > 0 /\ i > idx') =>
                \/ blk' = 1 /\ idx' = 0
                \/ Passed(b, i) \/ (b = blk /\ i = idx)
<1>1. /\ program' = program /\ pass' = pass /\ scc' = scc /\ fn' = fn
      /\ blk \in 1..Len(Body) /\ Len(Body) \in Nat /\ idx \in Nat
      /\ \A b \in DOMAIN Body : b \in 1..Len(Body)
  BY HereType, BodyType, StepKeeps DEF WalkOK
<1>2. CASE ~LastOfBlock
  <2>1. blk' = blk /\ idx' = idx - 1 /\ changed' = (changed \/ d) /\ idx > 1
    BY <1>1, <1>2 DEF Step, LastOfBlock
  <2>2. blk' # 0
    BY <1>1, <2>1
  <2>4. ~changed' => ~d /\ ~changed
    BY <2>1, Zenon
  <2>3. ASSUME NEW b \in DOMAIN Body, NEW i \in Nat \ {0},
               blk' = 0 \/ b < blk' \/ (b = blk' /\ idx' > 0 /\ i > idx')
        PROVE  Passed(b, i) \/ (b = blk /\ i = idx)
    BY <1>1, <2>1, <2>2, <2>3 DEF Passed
  <2> QED
    BY <1>1, <2>1, <2>2, <2>3, <2>4
<1>3. CASE LastOfBlock /\ blk < Len(Body)
  <2>1. idx = 1 /\ blk' = blk + 1 /\ idx' = 0 /\ changed' = (changed \/ d)
    BY <1>1, <1>3 DEF Step, LastOfBlock
  <2>2. blk' # 0
    BY <1>1, <2>1
  <2>4. ~changed' => ~d /\ ~changed
    BY <2>1, Zenon
  <2>3. ASSUME NEW b \in DOMAIN Body, NEW i \in Nat \ {0}, b < blk'
        PROVE  Passed(b, i) \/ (b = blk /\ i = idx)
    BY <1>1, <2>1, <2>3 DEF Passed
  <2> QED
    BY <1>1, <2>1, <2>2, <2>3, <2>4
<1>4. CASE LastOfBlock /\ blk = Len(Body)
  <2>1. /\ idx = 1 /\ idx' = 0 /\ changed' = FALSE
        /\ blk' = IF changed \/ d THEN 1 ELSE 0
    BY <1>1, <1>4 DEF Step, LastOfBlock
  <2> QED
    BY <1>1, <1>4, <2>1 DEF Passed
<1> QED
  BY <1>1, <1>2, <1>3, <1>4

\* A phi that becomes returnable is ahead, and once visited its operands are
\* known.
LEMMA VisitsOperands ==
  ASSUME WalkOK, ReturnedFixpointOK, pass = "returned", blk > 0, idx > 0, Visit,
         NEW f \in DOMAIN program.body, NEW b \in DOMAIN program.body[f],
         NEW k \in 1..LastPoint(f, b)
  PROVE  OperandsKnown(f, b, k)' \/ Pending(f, b, k)'
<1> DEFINE new == ReturnedOf(I, ReturnedIn, ReturnedOut)
           d == new # ReturnedIn
<1> HIDE DEF new, d
<1>1. Step(d) /\ d \in BOOLEAN
  BY DEF Visit, new, d
<1>2. /\ program' = program /\ pass' = pass /\ f0' = f0
      /\ idx > 1 => blk' = blk /\ idx' = idx - 1 /\ changed' = (changed \/ d)
  BY <1>1, BackwardStep DEF f0, Members
<1>3. \A a \in DOMAIN program.body[f] : \A i \in 0..LastPoint(f, a) :
        returned'[f][a][i] =
          IF f = f0 /\ a = blk /\ i = idx - 1 THEN new
          ELSE IF f = f0 /\ i = LastPoint(f, a) /\ I.op = "phi" /\ I.id \in ReturnedOut
          THEN returned[f][a][i] \union Incoming(I, a)
          ELSE returned[f][a][i]
  BY DEF Visit, new
<1>4. \A a \in DOMAIN program.body[f] : LastPoint(f, a) \in Nat \ {0}
  BY BodyType DEF WalkOK
<1>5. idx \in 1..LastPoint(f0, blk) /\ Body = program.body[f0]
  BY AtAnInstruction
<1>6. ASSUME NEW a \in DOMAIN program.body[f]
      PROVE  returned'[f][a][LastPoint(f, a)] =
               IF f = f0 /\ I.op = "phi" /\ I.id \in ReturnedOut
               THEN returned[f][a][LastPoint(f, a)] \union Incoming(I, a)
               ELSE returned[f][a][LastPoint(f, a)]
  <2>1. LastPoint(f, a) \in 0..LastPoint(f, a)
    BY <1>4, <1>6
  <2>2. ~(f = f0 /\ a = blk /\ LastPoint(f, a) = idx - 1)
    BY <1>4, <1>5, <1>6
  <2> QED
    BY <1>3, <1>6, <2>1, <2>2
<1>7. \A a \in DOMAIN program.body[f] :
        returned[f][a][LastPoint(f, a)] \subseteq returned'[f][a][LastPoint(f, a)]
  BY <1>6
<1>8. OperandsKnown(f, b, k) \/ Pending(f, b, k)
  BY DEF ReturnedFixpointOK
<1>9. CASE program.body[f][b][k].op # "phi"
  BY <1>2, <1>9 DEF OperandsKnown
<1>10. CASE program.body[f][b][k].op = "phi" /\ f = f0 /\ b = blk /\ k = idx
  <2>1. program.body[f][b][k] = I
    BY <1>5, <1>10 DEF I
  <2>2. returned'[f][b][k] = ReturnedOut
    <3>1. k # LastPoint(f, b) /\ k \in 0..LastPoint(f, b) /\ k # idx - 1
      BY <1>4, <1>10, PhiIsNotLast DEF WalkOK
    <3> QED
      BY <1>3, <1>10, <3>1 DEF ReturnedOut
  <2>3. I.id \in ReturnedOut =>
          \A a \in DOMAIN program.body[f] :
            Incoming(I, a) \subseteq returned'[f][a][LastPoint(f, a)]
    BY <1>6, <1>10, <2>1
  <2>4. \A a : LastPoint(f, a)' = LastPoint(f, a)
    BY <1>2 DEF LastPoint
  <2> QED
    BY <1>2, <2>1, <2>2, <2>3, <2>4 DEF OperandsKnown, Incoming
<1>11. CASE f = f0 /\ b = blk /\ k = idx - 1 /\ (d \/ changed)
  <2>1. idx > 1 /\ k <= idx - 1
    BY <1>4, <1>5, <1>11
  <2>2. blk' = blk /\ idx' = idx - 1 /\ changed' = (changed \/ d)
    BY <1>2, <2>1
  <2>3. changed'
    BY <1>11, <2>2
  <2> QED
    BY <1>2, <1>11, <2>1, <2>2, <2>3 DEF Pending
<1>12. CASE /\ program.body[f][b][k].op = "phi" /\ ~(f = f0 /\ b = blk /\ k = idx)
            /\ ~(f = f0 /\ b = blk /\ k = idx - 1 /\ (d \/ changed))
  <2>1. CASE Pending(f, b, k)
    <3>1. f = f0 /\ b = blk /\ k < idx - 1 /\ changed
      BY <1>4, <1>5, <1>12, <2>1 DEF Pending
    <3>2. idx > 1 /\ k <= idx - 1
      BY <1>4, <1>5, <3>1
    <3> QED
      BY <1>2, <2>1, <3>1, <3>2 DEF Pending
  <2>2. CASE OperandsKnown(f, b, k)
    <3>1. k # LastPoint(f, b) /\ k \in 0..LastPoint(f, b)
      BY <1>4, <1>12, PhiIsNotLast DEF WalkOK
    <3>2. returned'[f][b][k] = returned[f][b][k]
      <4>1. CASE f = f0 /\ b = blk /\ k = idx - 1
        <5>1. new = ReturnedIn
          BY <1>12, <4>1 DEF d
        <5> QED
          BY <1>3, <3>1, <4>1, <5>1 DEF ReturnedIn
      <4>2. CASE ~(f = f0 /\ b = blk /\ k = idx - 1)
        BY <1>3, <3>1, <4>2
      <4> QED
        BY <4>1, <4>2
    <3> QED
      BY <1>2, <1>7, <2>2, <3>2, OperandsStayKnown DEF WalkOK
  <2> QED
    BY <1>8, <2>1, <2>2
<1> QED
  BY <1>9, <1>10, <1>11, <1>12

LEMMA VisitsSettled ==
  ASSUME WalkOK, ReturnedFixpointOK, pass = "returned", blk > 0, idx > 0, Visit
  PROVE  ReturnedFixpointOK'
<1> DEFINE new == ReturnedOf(I, ReturnedIn, ReturnedOut)
           d == new # ReturnedIn
<1> HIDE DEF new, d
<1>1. Step(d) /\ d \in BOOLEAN
  BY DEF Visit, new, d
<1>2. program' = program /\ pass' = pass /\ scc' = scc /\ fn' = fn
  BY <1>1, BackwardStep
<1>3. /\ f0 \in DOMAIN program.body /\ blk \in DOMAIN Body /\ Body = program.body[f0]
      /\ idx \in 1..LastPoint(f0, blk)
  BY AtAnInstruction
<1>4. f0' = f0 /\ Body' = Body /\ \A b : LastPoint(f0, b)' = LastPoint(f0, b)
  BY <1>2 DEF f0, Members, Body, LastPoint
<1>5. \A b \in DOMAIN Body : LastPoint(f0, b) \in Nat \ {0} /\ b \in Nat \ {0}
  BY <1>3, BodyType DEF WalkOK
<1>6. \A f \in DOMAIN program.body : \A b \in DOMAIN program.body[f] :
        \A i \in 0..LastPoint(f, b) :
          returned'[f][b][i] =
            IF f = f0 /\ b = blk /\ i = idx - 1 THEN new
            ELSE IF f = f0 /\ i = LastPoint(f, b) /\ I.op = "phi" /\ I.id \in ReturnedOut
            THEN returned[f][b][i] \union Incoming(I, b)
            ELSE returned[f][b][i]
  BY DEF Visit, new
<1>7. \A f \in Left' : Settled(f)'
  BY <1>2, <1>6, LeftSettled
<1>8. ASSUME blk' = 0 \/ ~changed'
      PROVE  SettledSoFar'
  <2>1. CASE blk' = 1 /\ idx' = 0
    <3>1. \A b \in DOMAIN Body : \A i : ~Passed(b, i)'
      BY <1>5, <2>1 DEF Passed
    <3> QED
      BY <1>4, <3>1 DEF SettledSoFar
  <2>2. CASE ~d /\ ~changed /\ ~(blk' = 1 /\ idx' = 0)
    <3>1. SettledSoFar
      BY <2>2 DEF ReturnedFixpointOK
    <3>2. new = ReturnedIn
      BY <2>2 DEF d
    <3>3. OperandsKnown(f0, blk, idx)
      BY <1>3, <2>2 DEF ReturnedFixpointOK, Pending
    <3>4. I.op = "phi" /\ I.id \in ReturnedOut =>
            \A b \in DOMAIN Body : Incoming(I, b) \subseteq returned[f0][b][LastPoint(f0, b)]
      BY <1>3, <3>3 DEF OperandsKnown, ReturnedOut, I
    <3>5. \A b \in DOMAIN Body : \A i \in 0..LastPoint(f0, b) :
            returned'[f0][b][i] = returned[f0][b][i]
      BY <1>3, <1>6, <3>2, <3>4 DEF ReturnedIn
    <3>6. SettledAt(f0, blk, idx)
      BY <1>3, <3>2 DEF SettledAt, ReturnedIn, ReturnedOut, I, new
    <3>7. /\ \A b \in DOMAIN Body : SettledEnd(f0, b)' = SettledEnd(f0, b)
          /\ \A b \in DOMAIN Body : \A i \in 1..LastPoint(f0, b) :
               SettledAt(f0, b, i)' = SettledAt(f0, b, i)
      <4>1. ASSUME NEW f, f = f0
            PROVE  /\ \A b \in DOMAIN Body : SettledEnd(f, b)' = SettledEnd(f, b)
                   /\ \A b \in DOMAIN Body : \A i \in 1..LastPoint(f, b) :
                        SettledAt(f, b, i)' = SettledAt(f, b, i)
        BY <1>2, <1>3, <3>5, <4>1, SettledKept DEF WalkOK
      <4> QED
        BY <1>4, <4>1
    <3>8. \A b \in DOMAIN Body : \A i \in Nat \ {0} :
            Passed(b, i)' => Passed(b, i) \/ (b = blk /\ i = idx)
      BY <1>1, <2>2, BackwardStep DEF Passed
    <3>9. ASSUME NEW b \in DOMAIN Body
          PROVE  /\ Passed(b, LastPoint(f0, b) + 1)' => SettledEnd(f0, b)'
                 /\ \A i \in 1..LastPoint(f0, b) : Passed(b, i)' => SettledAt(f0, b, i)'
      <4>1. Passed(b, LastPoint(f0, b) + 1)' => SettledEnd(f0, b)'
        <5>1. LastPoint(f0, b) + 1 \in Nat \ {0} /\ ~(b = blk /\ LastPoint(f0, b) + 1 = idx)
          BY <1>3, <1>5, <3>9
        <5>2. Passed(b, LastPoint(f0, b) + 1)' =
                (blk' = 0 \/ b < blk' \/ (b = blk' /\ idx' > 0 /\ LastPoint(f0, b) + 1 > idx'))
          BY <1>4 DEF Passed
        <5>3. Passed(b, LastPoint(f0, b) + 1)' => Passed(b, LastPoint(f0, b) + 1)
          BY <1>1, <2>2, <3>9, <5>1, <5>2, BackwardStep
        <5> QED
          BY <3>1, <3>7, <3>9, <5>3 DEF SettledSoFar
      <4>2. \A i \in 1..LastPoint(f0, b) : Passed(b, i)' => SettledAt(f0, b, i)'
        BY <1>5, <3>1, <3>6, <3>7, <3>8, <3>9 DEF SettledSoFar
      <4> QED
        BY <4>1, <4>2
    <3> QED
      BY <1>4, <3>9 DEF SettledSoFar
  <2>3. blk' = 0 => ~d /\ ~changed
    BY <1>1, BackwardStep
  <2>4. blk' # 0 /\ ~changed' => (~d /\ ~changed) \/ (blk' = 1 /\ idx' = 0)
    BY <1>1, BackwardStep
  <2> QED
    BY <1>8, <2>1, <2>2, <2>3, <2>4
<1>9. \A f \in DOMAIN program.body' : \A b \in DOMAIN program'.body[f] :
        \A k \in 1..LastPoint(f, b)' : OperandsKnown(f, b, k)' \/ Pending(f, b, k)'
  BY <1>2, VisitsOperands DEF LastPoint
<1> QED
  BY <1>2, <1>7, <1>8, <1>9 DEF ReturnedFixpointOK

\* Nothing but the facts, and no fact, changes.
LEMMA SettledUnchanged ==
  ASSUME program' = program, returned' = returned, NEW f
  PROVE  /\ Settled(f)' = Settled(f)
         /\ \A b, k : OperandsKnown(f, b, k)' = OperandsKnown(f, b, k)
  BY DEF Settled, SettledEnd, SettledAt, ReturnedOf, OperandsKnown, Incoming, Successors,
         Terminator, LastPoint

\* The pass leaves a function only when the round it has ended has left all of
\* it settled.
LEMMA LeavesSettled ==
  ASSUME WalkOK, ReturnedFixpointOK, NextFunction, returned' = returned
  PROVE  ReturnedFixpointOK'
<1>1. program' = program /\ blk = 0 /\ pass # "done" /\ changed' = changed
  BY DEF NextFunction
<1>2. /\ f0 \in DOMAIN program.body /\ Body = program.body[f0] /\ idx' = 0
      /\ \A b \in DOMAIN Body : b \in Nat \ {0}
  BY <1>1, HereType, BodyType DEF NextFunction, WalkOK
<1>3. \A f : Settled(f)' = Settled(f)
  BY <1>1, SettledUnchanged
<1>4. pass = "returned" => Settled(f0)
  <2>1. pass = "returned" => SettledSoFar
    BY <1>1 DEF ReturnedFixpointOK
  <2> QED
    BY <1>1, <1>2, <2>1 DEF SettledSoFar, Passed, Settled
<1>5. \A f \in DOMAIN program.body' : \A b \in DOMAIN program'.body[f] :
        \A k \in 1..LastPoint(f, b)' : OperandsKnown(f, b, k)' \/ Pending(f, b, k)'
  <2>1. ASSUME NEW f \in DOMAIN program.body, NEW b \in DOMAIN program.body[f],
               NEW k \in 1..LastPoint(f, b)
        PROVE  OperandsKnown(f, b, k)'
    <3>1. ~Pending(f, b, k)
      BY <1>1, <1>2, <2>1 DEF Pending
    <3>2. OperandsKnown(f, b, k)
      BY <2>1, <3>1 DEF ReturnedFixpointOK
    <3> QED
      BY <1>1, <3>2, SettledUnchanged
  <2> QED
    BY <1>1, <2>1 DEF LastPoint
<1>6. Analysed' = Analysed
  BY <1>1 DEF Analysed
<1>7. pass' \in {pass, Following[pass]}
  BY DEF NextFunction, GoTo
<1>8. \A g : g = f0' /\ g \in DOMAIN program.body => \A b \in DOMAIN program.body[g] :
        b \in Nat \ {0}
  BY BodyType DEF WalkOK
<1>9. ASSUME pass' = "returned", blk' = 1, f0' \in DOMAIN program.body
      PROVE  SettledSoFar'
  <2>1. Body' = program.body[f0']
    BY <1>1 DEF Body
  <2>2. \A b \in DOMAIN Body' : \A i : ~Passed(b, i)'
    BY <1>2, <1>8, <1>9, <2>1 DEF Passed
  <2> QED
    BY <2>2 DEF SettledSoFar
<1>10. CASE pass = "propagation"
  <2>1. CASE pass' = "propagation"
    BY <1>5, <2>1 DEF ReturnedFixpointOK
  <2>2. CASE pass' # "propagation"
    <3>1. GoTo("returned", 1, 1)
      BY <1>10, <2>2 DEF NextFunction, GoTo, Following
    <3>2. pass' = "returned" /\ scc' = 1 /\ fn' = 1 /\ blk' = 1
      BY <3>1 DEF GoTo
    <3>3. Left' = {}
      BY <1>1, <3>2, MemberPlaces DEF Left, WalkOK
    <3>4. f0' \in DOMAIN program.body
      BY <1>1, <3>2, MembersType DEF f0, Members, WalkOK
    <3> QED
      BY <1>5, <1>9, <3>2, <3>3, <3>4 DEF ReturnedFixpointOK
  <2> QED
    BY <2>1, <2>2
<1>11. CASE pass = "returned"
  <2>1. \/ /\ GoTo(pass, scc, fn + 1) \/ GoTo(pass, scc + 1, 1)
           /\ \/ scc' = scc /\ fn' = fn + 1 /\ fn < Len(Members)
              \/ scc' = scc + 1 /\ fn' = 1 /\ fn = Len(Members) /\ scc < Len(program.members)
        \/ /\ fn = Len(Members) /\ ~(scc < Len(program.members))
           /\ GoTo("constraints", 1, 1)
    BY <1>11 DEF NextFunction, Following, GoTo
  <2>2. CASE /\ GoTo(pass, scc, fn + 1) \/ GoTo(pass, scc + 1, 1)
             /\ \/ scc' = scc /\ fn' = fn + 1 /\ fn < Len(Members)
                \/ scc' = scc + 1 /\ fn' = 1 /\ fn = Len(Members) /\ scc < Len(program.members)
    <3>1. pass' = "returned" /\ blk' = 1
      BY <1>11, <2>2 DEF GoTo
    <3>2. Left' \subseteq Left \union {f0} /\ f0' \in DOMAIN program.body
      BY <1>1, <2>2, LeftNext, NextIsFunction
    <3>3. \A f \in Left' : Settled(f)'
      <4> SUFFICES ASSUME NEW f \in Left'
                   PROVE  Settled(f)
        BY <1>3
      <4> QED
        BY <1>4, <1>11, <3>2 DEF ReturnedFixpointOK
    <3> QED
      BY <1>5, <1>9, <3>1, <3>2, <3>3 DEF ReturnedFixpointOK
  <2>3. CASE /\ fn = Len(Members) /\ ~(scc < Len(program.members))
             /\ GoTo("constraints", 1, 1)
    <3>1. pass' = "constraints"
      BY <2>3 DEF GoTo
    <3>2. Analysed \subseteq Left \union {f0}
      BY <2>3, LeftAll
    <3>3. \A f \in Analysed : Settled(f)
      BY <1>4, <1>11, <3>2 DEF ReturnedFixpointOK
    <3>4. \A f \in Analysed' : Settled(f)'
      BY <1>3, <1>6, <3>3
    <3> QED
      BY <1>5, <3>1, <3>4 DEF ReturnedFixpointOK
  <2> QED
    BY <2>1, <2>2, <2>3
<1>12. CASE pass \in {"constraints", "range"}
  <2>1. pass' \in {"constraints", "range", "done"}
    BY <1>7, <1>12 DEF Following
  <2>2. \A f \in Analysed' : Settled(f)'
    BY <1>3, <1>6, <1>12 DEF ReturnedFixpointOK
  <2> QED
    BY <1>5, <2>1, <2>2 DEF ReturnedFixpointOK
<1> QED
  BY <1>1, <1>10, <1>11, <1>12 DEF WalkOK

\* The other passes and the runs leave it all alone.
LEMMA OthersKeepSettled ==
  ASSUME ReturnedFixpointOK, program' = program, returned' = returned, pass # "returned",
         pass' = pass
  PROVE  ReturnedFixpointOK'
<1>1. \A f : Settled(f)' = Settled(f)
  BY SettledUnchanged
<1>2. Analysed' = Analysed
  BY DEF Analysed
<1>3. ASSUME NEW f \in DOMAIN program.body, NEW b \in DOMAIN program.body[f],
             NEW k \in 1..LastPoint(f, b)
      PROVE  OperandsKnown(f, b, k)'
  <2>1. OperandsKnown(f, b, k)
    BY <1>3 DEF ReturnedFixpointOK, Pending
  <2> QED
    BY <2>1, SettledUnchanged
<1>4. \A f \in DOMAIN program.body' : \A b \in DOMAIN program'.body[f] :
        \A k \in 1..LastPoint(f, b)' : OperandsKnown(f, b, k)' \/ Pending(f, b, k)'
  BY <1>3 DEF LastPoint
<1> QED
  BY <1>1, <1>2, <1>4 DEF ReturnedFixpointOK

LEMMA ReturnedFixpointKept ==
  ASSUME WalkOK, TypedFactsOK, ReturnedFixpointOK, AnalysisNext
  PROVE  ReturnedFixpointOK'
<1>1. CASE returned' = returned /\ NextFunction
  BY <1>1, LeavesSettled
<1>2. CASE returned' = returned /\ pass # "returned" /\ pass' = pass
  BY <1>2, Moves, OthersKeepSettled
<1>3. CASE EnterReturned
  BY <1>3, EntersSettled
<1>4. CASE pass = "returned" /\ blk > 0 /\ idx > 0 /\ Visit
  BY <1>4, VisitsSettled
<1> QED
  BY <1>1, <1>2, <1>3, <1>4, ReturnedMoves

-----------------------------------------------------------------------------
(* Runs.                                                                   *)

\* Where a run stands, the fixpoint says how the facts before and after its
\* instruction are related, and what the blocks it may go on to and their phis
\* ask of its end.
LEMMA ReturnedAtRun ==
  ASSUME WalkOK, ReturnedFixpointOK, Running
  PROVE  /\ ReturnedIn = ReturnedOf(I, ReturnedIn, ReturnedOut)
         /\ I.op \in Terminators =>
              \A b \in Successors(f0, blk) :
                /\ b \in DOMAIN Body
                /\ returned[f0][b][0] \subseteq ReturnedOut
                /\ \A k \in DOMAIN Body[b] :
                     Body[b][k].op = "phi" /\ Body[b][k].id \in returned[f0][b][k] =>
                       Incoming(Body[b][k], blk) \subseteq ReturnedOut
<1>1. /\ blk > 0 /\ idx > 0 /\ pass = "done" /\ program \in Programs
      /\ f0 \in DOMAIN program.body /\ blk \in DOMAIN Body /\ Body = program.body[f0]
      /\ LastPoint(f0, blk) = Len(Body[blk]) /\ idx \in 1..LastPoint(f0, blk)
  BY AtAnInstruction, HereType DEF Running, WalkOK
<1>2. Settled(f0)
  <2>1. f0 \in Analysed
    BY <1>1 DEF Analysed, WalkOK, f0, Members
  <2> QED
    BY <1>1, <2>1 DEF ReturnedFixpointOK
<1>3. ReturnedIn = ReturnedOf(I, ReturnedIn, ReturnedOut)
  BY <1>1, <1>2 DEF Settled, SettledAt, ReturnedIn, ReturnedOut, I, Body
<1>4. ASSUME I.op \in Terminators, NEW b \in Successors(f0, blk)
      PROVE  /\ b \in DOMAIN Body
             /\ returned[f0][b][0] \subseteq ReturnedOut
             /\ \A k \in DOMAIN Body[b] :
                  Body[b][k].op = "phi" /\ Body[b][k].id \in returned[f0][b][k] =>
                    Incoming(Body[b][k], blk) \subseteq ReturnedOut
  <2>1. ReturnedOut = returned[f0][blk][LastPoint(f0, blk)]
    BY <1>1, <1>4, InstructionType DEF ReturnedOut
  <2>2. b \in DOMAIN Body
    BY <1>1, <1>4, SuccessorsOfBlock
  <2>3. returned[f0][b][0] \subseteq ReturnedOut
    BY <1>1, <1>2, <1>4, <2>1 DEF Settled, SettledEnd
  <2>4. ASSUME NEW k \in DOMAIN Body[b]
        PROVE  OperandsKnown(f0, b, k)
    <3>1. k \in 1..LastPoint(f0, b)
      BY <1>1, <2>2, <2>4, BodyType
    <3> QED
      BY <1>1, <2>2, <3>1 DEF ReturnedFixpointOK, Pending
  <2> QED
    BY <1>1, <2>1, <2>2, <2>3, <2>4 DEF OperandsKnown
<1> QED
  BY <1>3, <1>4

\* If what an instruction reads may be returned, so may it be from wherever the
\* number was held.
LEMMA ReadMayReturn ==
  ASSUME WalkOK, ValuesOK, TrailsOK, Running, NEW v, HasNumber(v), v \in ReturnedIn
  PROVE  MayReturn(TrailOf(v))
<1>1. CASE v \in DOMAIN Literals \/ Variable(v)
  BY <1>1 DEF TrailOf, MayReturn, ReturnedIn
<1>2. CASE ~(v \in DOMAIN Literals \/ Variable(v))
  BY <1>2 DEF TrailOf, ValuesOK, TrailsOK, ReturnedIn, HasNumber
<1> QED
  BY <1>1, <1>2

\* What makes the trails agree with the facts after a step, in terms of the
\* facts before it: a run changes none.
LEMMA TrailsAgree ==
  ASSUME program' = program, returned' = returned, f0' = f0,
         \A u \in DOMAIN trail' : u \in returned[f0][blk'][idx' - 1] => MayReturn(trail'[u]),
         \A a \in arriving' :
           /\ a.phi \in 1..LastPoint(f0, blk')
           /\ Body[blk'][a.phi].id \in returned[f0][blk'][a.phi] => MayReturn(a.trail)
  PROVE  TrailsOK'
<1>1. Body' = Body /\ LastPoint(f0, blk)' = LastPoint(f0, blk')
  BY DEF Body, LastPoint
<1>2. \A u \in DOMAIN trail' : u \in returned'[f0'][blk'][idx' - 1] =>
        \A h \in trail'[u] : h[3] \in returned'[f0'][h[1]][h[2]]
  BY DEF MayReturn
<1>3. \A a \in arriving' : Body'[blk'][a.phi].id \in returned'[f0'][blk'][a.phi] =>
        \A h \in a.trail : h[3] \in returned'[f0'][h[1]][h[2]]
  BY <1>1 DEF MayReturn
<1> QED
  BY <1>1, <1>2, <1>3 DEF TrailsOK, MayReturn

LEMMA DefinesReturnably ==
  ASSUME WalkOK, TrailsOK, Running, I.op \notin Terminators, Still,
         NEW v, NEW n, NEW o, NEW t, Define(v, n, o, t),
         v \in ReturnedOut => MayReturn(t),
         \A u : u # v /\ u \in ReturnedOut => u \in ReturnedIn
  PROVE  TrailsOK'
<1>1. /\ program' = program /\ returned' = returned /\ pass' = pass
      /\ f0' = f0 /\ Body' = Body /\ blk' = blk /\ idx' = idx + 1 /\ arriving' = arriving
  BY DEF Still, facts, Define, f0, Members, Body
<1>3. blk > 0 /\ idx \in Nat
  BY DEF Running, WalkOK
<1>4. returned[f0][blk'][idx' - 1] = ReturnedOut
  BY <1>1, <1>3 DEF ReturnedOut
<1>5. ASSUME NEW u \in DOMAIN trail', u \in ReturnedOut
      PROVE  MayReturn(trail'[u])
  <2>1. trail'[u] = (IF u = v THEN t ELSE trail[u]) \union {<<blk, idx, u>>}
    BY <1>5 DEF Define
  <2>2. u # v => u \in DOMAIN trail
    BY <1>5 DEF Define
  <2>3. MayReturn(IF u = v THEN t ELSE trail[u])
    BY <1>5, <2>2 DEF TrailsOK, ReturnedIn
  <2>4. u \in returned[f0][blk][idx]
    BY <1>5 DEF ReturnedOut
  <2> QED
    BY <2>1, <2>3, <2>4 DEF MayReturn
<1>6. \A a \in arriving' :
        /\ a.phi \in 1..LastPoint(f0, blk')
        /\ Body[blk'][a.phi].id \in returned[f0][blk'][a.phi] => MayReturn(a.trail)
  BY <1>1 DEF TrailsOK
<1> QED
  BY <1>1, <1>4, <1>5, <1>6, TrailsAgree

\* The instructions of a block.
LEMMA RunDefinesReturnably ==
  ASSUME WalkOK, RunOK, ValuesOK, ReturnedFixpointOK, TrailsOK,
         \/ ExecCall \/ ExecStore \/ ExecLoad \/ ExecLoadThrough \/ ExecCast \/ ExecTrunc
         \/ ExecZext \/ ExecBinop \/ ExecGep \/ ExecIcmp \/ ExecPhi
  PROVE  TrailsOK'
<1>1. Running /\ blk > 0 /\ idx > 0 /\ Unset = {} /\ Still
  BY DEF ExecCall, ExecStore, ExecLoad, ExecLoadThrough, ExecCast, ExecTrunc, ExecZext,
         ExecBinop, ExecGep, ExecIcmp, ExecPhi, Executes, Running, WalkOK
<1>2. I \in Instructions /\ IsInstructionOf(Body, I)
  BY <1>1, AtAnInstruction
<1>3. ReturnedIn = ReturnedOf(I, ReturnedIn, ReturnedOut)
  BY <1>1, ReturnedAtRun
<1>4. ASSUME I.op # "phi", NEW k \in DOMAIN I.args, I.args[k] \in ReturnedIn
      PROVE  MayReturn(TrailOf(I.args[k]))
  <2>1. HasNumber(I.args[k])
    BY <1>1, <1>4 DEF Unset
  <2> QED
    BY <1>1, <1>4, <2>1, ReadMayReturn
<1>5. MayReturn({})
  BY DEF MayReturn
<1>6. CASE ExecCall
  <2> DEFINE same == I.tag \in err_functions \ {"IS_ERR"}
  <2>1. I.op = "call"
    BY <1>6 DEF ExecCall, Executes
  <2>2. PICK n : Define(I.id, n, {I.id}, IF same THEN TrailOf(I.args[1]) ELSE {})
    BY <1>6 DEF ExecCall
  <2>3. ReturnedIn = IF I.tag \in err_functions /\ I.id \in ReturnedOut
                     THEN ReturnedOut \union {I.args[1]} ELSE ReturnedOut
    BY <1>3, <2>1 DEF ReturnedOf
  <2>4. same => 1 \in DOMAIN I.args
    BY <1>2, <2>1, Operands
  <2>5. I.id \in ReturnedOut => MayReturn(IF same THEN TrailOf(I.args[1]) ELSE {})
    BY <1>4, <1>5, <2>1, <2>3, <2>4
  <2>6. \A u : u \in ReturnedOut => u \in ReturnedIn
    BY <2>3
  <2> HIDE DEF same
  <2> QED
    BY <1>1, <2>1, <2>2, <2>5, <2>6, DefinesReturnably DEF Terminators
<1>7. ASSUME NEW v, NEW u, NEW n, NEW o, NEW t, Define(v, n, o, t),
             u \in ReturnedIn => MayReturn(t), I.op \notin Terminators,
             ReturnedIn = IF v \in ReturnedOut THEN (ReturnedOut \ {v}) \union {u} ELSE ReturnedOut
      PROVE  TrailsOK'
  <2>1. v \in ReturnedOut => MayReturn(t)
    BY <1>7
  <2>2. \A w : w # v /\ w \in ReturnedOut => w \in ReturnedIn
    BY <1>7
  <2> QED
    BY <1>1, <1>7, <2>1, <2>2, DefinesReturnably
<1>8. CASE ExecStore
  <2>1. I.op = "store"
    BY <1>8 DEF ExecStore, Executes
  <2>2. PICK n, o : Define(I.args[2], n, o, TrailOf(I.args[1]))
    BY <1>8 DEF ExecStore
  <2>3. I.args[1] \in ReturnedIn => MayReturn(TrailOf(I.args[1]))
    BY <1>2, <1>4, <2>1, Operands
  <2> QED
    BY <1>3, <1>7, <2>1, <2>2, <2>3 DEF ReturnedOf, Terminators
<1>9. CASE ExecCast \/ ExecTrunc
  <2>1. I.op \in {"bitcast", "ptrtoint", "trunc", "sext"}
    BY <1>9 DEF ExecCast, ExecTrunc, Executes
  <2>2. PICK n, o : Define(I.id, n, o, TrailOf(I.args[1]))
    BY <1>9 DEF ExecCast, ExecTrunc
  <2>3. I.args[1] \in ReturnedIn => MayReturn(TrailOf(I.args[1]))
    BY <1>2, <1>4, <2>1, Operands
  <2> QED
    BY <1>3, <1>7, <2>1, <2>2, <2>3 DEF ReturnedOf, Terminators
<1>12. CASE ExecLoad \/ ExecLoadThrough
  <2>1. I.op = "load"
    BY <1>12 DEF ExecLoad, ExecLoadThrough, Executes
  <2>2. PICK n, o, t : Define(I.id, n, o, t) /\ (t = {} \/ (ExecLoad /\ t = trail[I.args[1]]))
    BY <1>12 DEF ExecLoad, ExecLoadThrough
  <2>3. I.args[1] \in ReturnedIn => MayReturn(t)
    <3>1. ExecLoad => I.args[1] \in DOMAIN trail
      BY LoadsFrom DEF ExecLoad, ValuesOK
    <3> QED
      BY <1>1, <1>5, <2>2, <3>1 DEF TrailsOK, ReturnedIn
  <2> QED
    BY <1>3, <1>7, <2>1, <2>2, <2>3 DEF ReturnedOf, Terminators
<1>10. CASE ExecZext \/ ExecBinop \/ ExecGep \/ ExecIcmp
  <2>1. I.op \in {"zext", "binop", "gep", "icmp"}
    BY <1>10 DEF ExecZext, ExecBinop, ExecGep, ExecIcmp, Executes
  <2>2. PICK n, o : Define(I.id, n, o, {})
    BY <1>10 DEF ExecZext, ExecBinop, ExecGep, ExecIcmp
  <2>3. ReturnedIn = ReturnedOut
    BY <1>3, <2>1 DEF ReturnedOf
  <2> QED
    BY <1>1, <1>5, <2>1, <2>2, <2>3, DefinesReturnably DEF Terminators
<1>11. CASE ExecPhi
  <2>1. I.op = "phi"
    BY <1>11 DEF ExecPhi, Executes
  <2>2. PICK a \in arriving : a.phi = idx /\ Define(I.id, a.number, a.origin, a.trail)
    BY <1>11 DEF ExecPhi
  <2>3. I.id \in ReturnedOut => MayReturn(a.trail)
    BY <1>1, <2>2 DEF TrailsOK, I, ReturnedOut
  <2>4. ReturnedIn = ReturnedOut \ {I.id}
    BY <1>3, <2>1 DEF ReturnedOf
  <2> QED
    BY <1>1, <2>1, <2>2, <2>3, <2>4, DefinesReturnably DEF Terminators
<1> QED
  BY <1>6, <1>8, <1>9, <1>10, <1>11, <1>12

\* Of what is written where nobody looks it is not claimed where it was held.
LEMMA WritesReturnably ==
  ASSUME WalkOK, ReturnedFixpointOK, TrailsOK, ExecStoreThrough \/ WriteExposed
  PROVE  TrailsOK'
<1>1. /\ Running /\ I.op \in {"call", "store"} /\ blk > 0 /\ idx \in Nat
      /\ program' = program /\ returned' = returned /\ pass' = pass
      /\ f0' = f0 /\ Body' = Body /\ blk' = blk /\ arriving' = arriving
  BY DEF ExecStoreThrough, WriteExposed, Executes, Still, facts, Running, f0, Members, Body, WalkOK
<1>2. \A a \in arriving' :
        /\ a.phi \in 1..LastPoint(f0, blk')
        /\ Body[blk'][a.phi].id \in returned[f0][blk'][a.phi] => MayReturn(a.trail)
  BY <1>1 DEF TrailsOK
<1>3. CASE ExecStoreThrough
  <2>1. /\ I.op = "store" /\ idx' = idx + 1
        /\ trail' = [v \in DOMAIN trail |->
                       (IF v = I.args[2] THEN {} ELSE trail[v]) \union {<<blk, idx, v>>}]
    BY <1>3 DEF ExecStoreThrough, Executes
  <2>2. ReturnedIn = IF I.args[2] \in ReturnedOut
                     THEN (ReturnedOut \ {I.args[2]}) \union {I.args[1]} ELSE ReturnedOut
    BY <1>1, <2>1, ReturnedAtRun DEF ReturnedOf
  <2>3. returned[f0][blk'][idx' - 1] = ReturnedOut
    BY <1>1, <2>1 DEF ReturnedOut
  <2>4. ASSUME NEW u \in DOMAIN trail', u \in ReturnedOut
        PROVE  MayReturn(trail'[u])
    <3>1. u # I.args[2] => MayReturn(trail[u])
      BY <1>1, <2>1, <2>2, <2>4 DEF TrailsOK, ReturnedIn
    <3> QED
      BY <2>1, <2>4, <3>1 DEF MayReturn, ReturnedOut
  <2> QED
    BY <1>1, <1>2, <2>3, <2>4, TrailsAgree
<1>4. CASE WriteExposed
  <2>1. PICK v : idx' = idx /\ trail' = Updated(trail, v, {})
    BY <1>4 DEF WriteExposed
  <2>2. ASSUME NEW u \in DOMAIN trail', u \in returned[f0][blk'][idx' - 1]
        PROVE  MayReturn(trail'[u])
    BY <1>1, <2>1, <2>2 DEF Updated, MayReturn, TrailsOK
  <2> QED
    BY <1>1, <1>2, <2>2, TrailsAgree
<1> QED
  BY <1>3, <1>4

LEMMA AllocaReturnably ==
  ASSUME WalkOK, ReturnedFixpointOK, TrailsOK, ExecAlloca
  PROVE  TrailsOK'
<1>1. /\ Running /\ I.op = "alloca" /\ blk > 0 /\ idx \in Nat
      /\ program' = program /\ returned' = returned /\ pass' = pass
      /\ f0' = f0 /\ Body' = Body /\ blk' = blk /\ idx' = idx + 1 /\ arriving' = arriving
      /\ trail' = [v \in DOMAIN trail |-> trail[v] \union {<<blk, idx, v>>}]
  BY DEF ExecAlloca, Executes, Still, facts, Running, f0, Members, Body, WalkOK
<1>2. ReturnedIn = ReturnedOut
  BY <1>1, ReturnedAtRun DEF ReturnedOf
<1>4. returned[f0][blk'][idx' - 1] = ReturnedOut
  BY <1>1 DEF ReturnedOut
<1>5. ASSUME NEW u \in DOMAIN trail', u \in ReturnedOut
      PROVE  MayReturn(trail'[u])
  <2>1. trail'[u] = trail[u] \union {<<blk, idx, u>>} /\ MayReturn(trail[u])
    BY <1>1, <1>2, <1>5 DEF TrailsOK, ReturnedIn
  <2> QED
    BY <1>5, <2>1 DEF MayReturn, ReturnedOut
<1>6. \A a \in arriving' :
        /\ a.phi \in 1..LastPoint(f0, blk')
        /\ Body[blk'][a.phi].id \in returned[f0][blk'][a.phi] => MayReturn(a.trail)
  BY <1>1 DEF TrailsOK
<1> QED
  BY <1>1, <1>4, <1>5, <1>6, TrailsAgree

\* On an edge the phis of the block take what they are known to take.
LEMMA JumpsReturnably ==
  ASSUME WalkOK, ValuesOK, ReturnedFixpointOK, TrailsOK, ExecBranch \/ ExecSwitch
  PROVE  TrailsOK'
<1>1. Running /\ I.op \in {"br", "switch"} /\ Still
  BY DEF ExecBranch, ExecSwitch, Executes
<1>2. I \in Instructions /\ IsInstructionOf(Body, I) /\ blk > 0 /\ idx > 0
  BY <1>1, AtAnInstruction DEF Running, WalkOK
<1>3. PICK b \in Successors(f0, blk) : Jump(b)
  <2>1. Terminator(f0, blk) = I
    BY <1>1, <1>2, InstructionType DEF Terminators, Terminator, I, Body
  <2>2. \E j \in DOMAIN I.to : Jump(I.to[j])
    <3>1. CASE ExecBranch
      <4>1. I.op = "br"
        BY <3>1 DEF ExecBranch, Executes
      <4>2. \/ DOMAIN I.to = {1} /\ Len(I.to) = 1
            \/ DOMAIN I.to = {1, 2} /\ Len(I.to) # 1
        <5>1. Len(I.to) \in Nat /\ DOMAIN I.to = 1..Len(I.to)
          <6>1. I.to \in Seq(Nat)
            BY <1>2 DEF Instructions
          <6> QED
            BY <6>1
        <5>2. Len(I.to) \in 1..2
          BY <1>2, <4>1 DEF IsInstructionOf
        <5>3. 1..1 = {1} /\ 1..2 = {1, 2}
          OBVIOUS
        <5> QED
          BY <5>1, <5>2, <5>3
      <4>3. \E j \in {1, 2} : (Len(I.to) = 1 => j = 1) /\ Jump(I.to[j])
        <5>1. CASE Len(I.to) = 1
          BY <3>1, <5>1 DEF ExecBranch
        <5>2. CASE Len(I.to) # 1
          <6>1. Jump(I.to[IF ValueOf(I.args[1]) # 0 THEN 1 ELSE 2])
            BY <3>1, <5>2 DEF ExecBranch
          <6> QED
            BY <5>2, <6>1, SMTT(30)
        <5> QED
          BY <5>1, <5>2
      <4> QED
        BY <4>2, <4>3, SMTT(30)
    <3>2. CASE ExecSwitch
      <4>1. I.op = "switch"
        BY <3>2 DEF ExecSwitch, Executes
      <4>2. /\ Len(I.cases) \in Nat /\ DOMAIN I.to = 1..(Len(I.cases) + 1)
            /\ DOMAIN I.cases = 1..Len(I.cases)
        BY <1>2, <4>1, Operands, SMTT(30)
      <4> DEFINE taken == {k \in DOMAIN I.cases : Literals[I.cases[k]].n = ValueOf(I.args[1])}
      <4>3. Jump(I.to[IF taken = {} THEN 1 ELSE 1 + CHOOSE k \in taken : TRUE])
        BY <3>2 DEF ExecSwitch
      <4>4. taken # {} => (CHOOSE k \in taken : TRUE) \in DOMAIN I.cases
        OBVIOUS
      <4> HIDE DEF taken
      <4>5. CASE taken = {}
        BY <4>2, <4>3, <4>5
      <4>6. CASE taken # {}
        <5>1. PICK k \in DOMAIN I.cases : k = CHOOSE j \in taken : TRUE
          BY <4>4, <4>6
        <5> QED
          BY <4>2, <4>3, <4>6, <5>1
      <4> QED
        BY <4>5, <4>6, SMTT(30)
    <3> QED
      BY <3>1, <3>2, Zenon
  <2> QED
    BY <2>1, <2>2 DEF Successors
<1>4. /\ program' = program /\ returned' = returned /\ pass' = pass
      /\ f0' = f0 /\ Body' = Body /\ blk' = b /\ idx' = 1 /\ arriving' = Arriving(b)
      /\ trail' = [v \in DOMAIN trail |-> trail[v] \union {<<b, 0, v>>}]
  BY <1>1, <1>3 DEF Still, facts, Jump, f0, Members, Body
<1>6. ReturnedIn = ReturnedOut /\ I.op \in Terminators
  BY <1>1, ReturnedAtRun DEF ReturnedOf, Terminators
<1>7. /\ b \in DOMAIN Body
      /\ returned[f0][b][0] \subseteq ReturnedIn
      /\ \A k \in DOMAIN Body[b] :
           Body[b][k].op = "phi" /\ Body[b][k].id \in returned[f0][b][k] =>
             Incoming(Body[b][k], blk) \subseteq ReturnedIn
  BY <1>1, <1>3, <1>6, ReturnedAtRun
<1>9. ASSUME NEW u \in DOMAIN trail', u \in returned[f0][b][0]
      PROVE  MayReturn(trail'[u])
  <2>1. trail'[u] = trail[u] \union {<<b, 0, u>>} /\ MayReturn(trail[u])
    BY <1>1, <1>4, <1>7, <1>9 DEF TrailsOK, ReturnedIn
  <2> QED
    BY <1>9, <2>1 DEF MayReturn
<1>11. ASSUME NEW a \in Arriving(b)
       PROVE  /\ a.phi \in DOMAIN Body[b]
              /\ Body[b][a.phi].id \in returned[f0][b][a.phi] => MayReturn(a.trail)
  <2>1. PICK k \in DOMAIN Body[b] :
          /\ Body[b][k].op = "phi"
          /\ \E v \in Incoming(Body[b][k], blk) :
               HasNumber(v) /\ a.phi = k /\ a.trail = TrailOf(v)
    BY <1>11, ArrivingMeans
  <2>2. PICK v \in Incoming(Body[b][k], blk) :
          HasNumber(v) /\ a.phi = k /\ a.trail = TrailOf(v)
    BY <2>1
  <2>3. Body[b][k].id \in returned[f0][b][k] => v \in ReturnedIn
    BY <1>7, <2>1, <2>2
  <2> QED
    BY <1>1, <2>2, <2>3, ReadMayReturn
<1>12. DOMAIN Body[b] = 1..LastPoint(f0, b)
  BY <1>2, <1>7, AtAnInstruction, BodyType DEF WalkOK
<1>13. \A u \in DOMAIN trail' : u \in returned[f0][blk'][idx' - 1] => MayReturn(trail'[u])
  BY <1>4, <1>9
<1>14. \A a \in arriving' :
         /\ a.phi \in 1..LastPoint(f0, blk')
         /\ Body[blk'][a.phi].id \in returned[f0][blk'][a.phi] => MayReturn(a.trail)
  BY <1>4, <1>11, <1>12
<1>15. program' = program /\ returned' = returned /\ f0' = f0
  BY <1>4
<1> QED
  BY <1>13, <1>14, <1>15, TrailsAgree, SMTT(30)

LEMMA StartReturnably ==
  ASSUME WalkOK, Start
  PROVE  TrailsOK'
<1>1. PICK c \in DOMAIN program.members : \E n \in DOMAIN program.members[c] :
        LET params == program.params[program.members[c][n]]
        IN blk' = 1 /\ idx' = 1 /\ trail' = [v \in params |-> {<<1, 0, v>>}]
  BY DEF Start
<1>2. PICK n \in DOMAIN program.members[c] :
        LET params == program.params[program.members[c][n]]
        IN blk' = 1 /\ idx' = 1 /\ trail' = [v \in params |-> {<<1, 0, v>>}]
  BY <1>1
<1>3. arriving' = {}
  BY DEF Start
<1>4. \A v \in DOMAIN trail' : \A h \in trail'[v] : h = <<blk', idx' - 1, v>>
  BY <1>2
<1>5. \A v \in DOMAIN trail' : \A h \in trail'[v] : h[1] = blk' /\ h[2] = idx' - 1 /\ h[3] = v
  BY <1>4
<1> QED
  BY <1>3, <1>5, SMTT(30) DEF TrailsOK, MayReturn

-----------------------------------------------------------------------------
(* The invariant.                                                          *)

ReturnedInv == TypesInv /\ ReturnedFixpointOK /\ TrailsOK

LEMMA InitReturned == Init => ReturnedInv
<1> SUFFICES ASSUME Init PROVE ReturnedInv
  OBVIOUS
<1>1. TypesInv
  BY InitTypes
<1>2. returned = Everywhere({}) /\ pass = "propagation" /\ arriving = {}
  BY DEF Init, AnalysisInit
<1>3. ASSUME NEW f \in DOMAIN program.body, NEW b \in DOMAIN program.body[f],
             NEW k \in 1..LastPoint(f, b)
      PROVE  OperandsKnown(f, b, k)
  <2>1. LastPoint(f, b) \in Nat
    BY <1>1, <1>3, BodyType DEF TypesInv, IInv, WalkOK
  <2>2. returned[f][b][k] = {}
    BY <1>2, <1>3, <2>1 DEF Everywhere
  <2> QED
    BY <2>2 DEF OperandsKnown
<1>4. ReturnedFixpointOK
  BY <1>2, <1>3 DEF ReturnedFixpointOK
<1> QED
  BY <1>1, <1>2, <1>4 DEF ReturnedInv, TrailsOK, Running

LEMMA NextReturned == ReturnedInv /\ [Next]_vars => ReturnedInv'
<1> SUFFICES ASSUME ReturnedInv, [Next]_vars PROVE ReturnedInv'
  OBVIOUS
<1>1. TypesInv /\ WalkOK /\ RunOK /\ TypedFactsOK /\ ValuesOK /\ ReturnedFixpointOK /\ TrailsOK
  BY DEF ReturnedInv, TypesInv, IInv
<1>2. TypesInv'
  BY <1>1, NextTypes
<1>3. CASE Analyse
  <2>1. AnalysisNext
    BY <1>3 DEF Analyse
  <2>2. ~Running'
    <3>1. CASE NextFunction
      BY <3>1 DEF NextFunction, GoTo, Running
    <3>2. CASE Entered \/ \E d : Step(d)
      BY <2>1, <3>2, Moves DEF Entered, Step, Running
    <3> QED
      BY <2>1, <3>1, <3>2, Moves
  <2> QED
    BY <1>1, <1>2, <2>1, <2>2, ReturnedFixpointKept DEF ReturnedInv, TrailsOK
<1>4. CASE Runs
  <2>1. program' = program /\ returned' = returned /\ pass = "done" /\ pass' = pass
    BY <1>4, RunsAreStill DEF facts
  <2>2. ReturnedFixpointOK'
    BY <1>1, <2>1, OthersKeepSettled
  <2>3. TrailsOK'
    <3>1. CASE Start
      BY <1>1, <3>1, StartReturnably
    <3>2. CASE ExecAlloca
      BY <1>1, <3>2, AllocaReturnably
    <3>3. CASE \/ ExecCall \/ ExecStore \/ ExecLoad \/ ExecLoadThrough \/ ExecCast \/ ExecTrunc
               \/ ExecZext \/ ExecBinop \/ ExecGep \/ ExecIcmp \/ ExecPhi
      BY <1>1, <3>3, RunDefinesReturnably
    <3>4. CASE ExecBranch \/ ExecSwitch
      BY <1>1, <3>4, JumpsReturnably
    <3>5. CASE ExecNoReturn \/ ExecUndefined \/ ExecRet
      BY <3>5 DEF ExecNoReturn, ExecUndefined, ExecRet, Finish, TrailsOK, Running
    <3>6. CASE ExecStoreThrough \/ WriteExposed
      BY <1>1, <3>6, WritesReturnably
    <3> QED
      BY <1>4, <3>1, <3>2, <3>3, <3>4, <3>5, <3>6 DEF Runs
  <2> QED
    BY <1>2, <2>2, <2>3 DEF ReturnedInv
<1>5. CASE UNCHANGED vars
  <2>1. UNCHANGED <<program, facts, walk, run>>
    BY <1>5 DEF vars
  <2>2. ReturnedFixpointOK'
    <3>1. \A f : Settled(f)' = Settled(f) /\ \A b, k : OperandsKnown(f, b, k)' = OperandsKnown(f, b, k)
      BY <2>1, SettledUnchanged DEF facts
    <3>2. SettledSoFar' = SettledSoFar
      BY <2>1
      DEF facts, walk, SettledSoFar, Passed, SettledEnd, SettledAt, ReturnedOf, Successors,
          Terminator, LastPoint, Body, f0, Members
    <3>3. /\ Left' = Left /\ Analysed' = Analysed
          /\ \A f, b, k : Pending(f, b, k)' = Pending(f, b, k)
      BY <2>1 DEF walk, Left, Analysed, Pending, f0, Members
    <3>4. \A f, b : LastPoint(f, b)' = LastPoint(f, b)
      <4>1. program' = program
        BY <2>1, SMTT(30)
      <4> QED
        BY <4>1 DEF LastPoint
    <3> QED
      BY <1>1, <2>1, <3>1, <3>2, <3>3, <3>4 DEF walk, ReturnedFixpointOK
  <2>3. TrailsOK'
    BY <1>1, <2>1
    DEF facts, walk, run, TrailsOK, Running, MayReturn, LastPoint, Body, f0, Members
  <2> QED
    BY <1>2, <2>2, <2>3 DEF ReturnedInv
<1> QED
  BY <1>3, <1>4, <1>5 DEF Next, Runs

\* Every step of the passes and of a run keeps the invariant: when
\* ReturnedValuesPass has ended its facts are a fixpoint, the operands of
\* phis included, and the trails of a run agree with them.
THEOREM ReturnedInvariance == Spec => []ReturnedInv
<1> QED
  BY InitReturned, NextReturned, PTL DEF Spec

\* When a run returns a number, every value that held it on its way, through
\* variables, casts, error pointer functions and phis, was at that point one
\* that ReturnedValuesPass says may be returned.
THEOREM ReturnedValuesAreKnown == Spec => []ReturnedValuesSound
<1>1. ASSUME ReturnedInv PROVE ReturnedValuesSound
  <2> SUFFICES ASSUME Executes({"ret"}), I.args # <<>>
               PROVE  MayReturn(TrailOf(I.args[1]))
    BY DEF ReturnedValuesSound, MayReturn
  <2>1. WalkOK /\ ValuesOK /\ ReturnedFixpointOK /\ TrailsOK
    BY <1>1 DEF ReturnedInv, TypesInv, IInv
  <2>2. /\ Running /\ I.op = "ret" /\ Unset = {}
        /\ blk > 0 /\ idx > 0
    BY <2>1 DEF Executes, Running, WalkOK
  <2>3. ReturnedIn = ReturnedOut \union {I.args[1]}
    BY <2>1, <2>2, ReturnedAtRun DEF ReturnedOf
  <2>4. HasNumber(I.args[1])
    BY <2>1, <2>2, AtAnInstruction, Operands DEF Unset
  <2> QED
    BY <2>1, <2>2, <2>3, <2>4, ReadMayReturn
<1> QED
  BY <1>1, ReturnedInvariance, PTL
=============================================================================
