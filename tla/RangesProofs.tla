----------------------------- MODULE RangesProofs -----------------------------
(***************************************************************************)
(* Proofs about ReturnRangePass: when it has ended, the facts of each      *)
(* function are a fixpoint under what its callees return, also where they  *)
(* are called in a cycle; and so what a run returns is in the range of its *)
(* function.                                                               *)
(***************************************************************************)
EXTENDS ConstraintsProofs, ReturnedValuesProofs

-----------------------------------------------------------------------------
(* What a visit makes of the facts.                                        *)

\* The values whose number a fact may be about: variables that are loaded or
\* stored to, and what is computed by instructions that the pass looks at, unless
\* something is read or stored through it.
Slots(f) ==
  {v \in Values :
     /\ IsInstruction(f, v)
     /\ DefinitionOf(f, v).op \in {"alloca", "load", "bitcast", "ptrtoint", "trunc", "sext", "phi"}
     /\ DefinitionOf(f, v).op = "alloca" <=> v \in Addresses(f)}

\* All that a fact may be about: what it says of any other address is not of its
\* number.
Known(f) == Slots(f) \union Addresses(f)

\* AbstractValue, RangeOf, GetCheckedReturnValue and CheckedByComparison, of any
\* function of the program.
AbstractIn(f, v) ==
  IF v \in DOMAIN Literals
  THEN LET c == Literals[v]
       IN CASE c.kind = "bool" -> IF c.n = 0 THEN EQ ELSE NE
            [] c.kind = "string" -> NE
            [] c.kind = "global" -> Signs
            [] OTHER -> {SignOf(c.n)}
  ELSE CASE IsA(f, v, "call") -> AbstractCall(DefinitionOf(f, v).tag)
         [] IsA(f, v, "zext") -> GE
         [] OTHER -> Signs

ElementIn(f, in, v) == IF v \in DOMAIN in THEN in[v] ELSE AbstractIn(f, v)

CheckedAt(f, b, k, v, may) ==
  LET previous == program.body[f][b][k - 1]
  IN IF IsA(f, v, "load")
     THEN {DefinitionOf(f, v).args[1]} \cap may
     ELSE IF k > 1 /\ previous.op = "store" /\ previous.args[1] = v
     THEN {previous.args[2]} \cap may
     ELSE {}

ComparedIn(f, c, may) ==
  LET d == PointOf(f, c.id)
      first == CheckedAt(f, d[1], d[2], c.args[1], may)
  IN IF first # {} THEN first ELSE CheckedAt(f, d[1], d[2], c.args[2], may)

\* The variables that the terminator of block b tests.
CheckedBy(f, b) ==
  LET i == Terminator(f, b)
      may == returned[f][b][LastPoint(f, b)]
  IN IF OnComparison(f, i) THEN ComparedIn(f, DefinitionOf(f, i.args[1]), may)
     ELSE IF i.op = "switch" THEN CheckedAt(f, b, LastPoint(f, b), i.args[1], may)
     ELSE {}

\* The element that each successor learns, as pairs.
ElementsOf(f, b) ==
  LET i == Terminator(f, b)
  IN IF OnComparison(f, i)
     THEN {<<i.to[k], AbstractICmp(DefinitionOf(f, i.args[1]))[k]>> : k \in 1..2}
     ELSE IF i.op = "switch"
     THEN {<<i.to[1], Signs>>}
            \union {<<i.to[k + 1], {SignOf(Literals[i.cases[k]].n)}>> : k \in DOMAIN i.cases}
     ELSE {}

\* What successor p[1] is given of the tested variables that `in` is about.
Learnt(f, b, in, p) ==
  Narrowed(in, CheckedBy(f, b) \cap returned[f][p[1]][0] \cap DOMAIN in, p[2])

\* What instruction k of block b makes of the fact `in` before it.
Result(f, b, k, in) ==
  LET i == program.body[f][b][k]
      may == returned[f][b][k]
      copied == Filtered(in, may)
      with(v, e) == IF v \in may THEN Updated(copied, v, e) ELSE copied
  IN CASE i.op = "store" -> with(i.args[2], ElementIn(f, in, i.args[1]))
       [] i.op \in {"load", "bitcast", "ptrtoint", "trunc", "sext"} ->
            with(i.id, ElementIn(f, in, i.args[1]))
       [] i.op = "phi" -> with(i.id, JoinAll({ElementIn(f, in, i.args[j]) : j \in DOMAIN i.args}))
       [] i.op \in {"br", "switch"} -> Filtered(copied, DOMAIN copied \ CheckedBy(f, b))
       [] OTHER -> copied

LEMMA ElementHere ==
  ASSUME NEW v
  PROVE  /\ AbstractIn(f0, v) = AbstractValue(v)
         /\ ElementIn(f0, RangeIn, v) = RangeOf(v)
BY DEF AbstractIn, AbstractValue, ElementIn, RangeOf

\* Instruction k of block b has the name v.
Names(f, b, k, v) == program.body[f][b][k].id = v

\* Two instructions with one name are the same.
LEMMA NamedOnce ==
  ASSUME NamesOnce(program), NEW f \in DOMAIN program.body,
         NEW b \in DOMAIN program.body[f], NEW k \in DOMAIN program.body[f][b],
         NEW a \in DOMAIN program.body[f], NEW j \in DOMAIN program.body[f][a],
         NEW v \in Values, Names(f, b, k, v), Names(f, a, j, v)
  PROVE  a = b /\ j = k
<1>1. program.body[f][b][k].id = v /\ program.body[f][a][j].id = v
  BY DEF Names
<1>2. program.body[f][b][k].id # "" /\ program.body[f][a][j].id = program.body[f][b][k].id
  BY <1>1, LiteralsAssumption
<1> QED
  BY <1>2 DEF NamesOnce

\* The component of a callee comes first.
LEMMA CalleeFirst ==
  ASSUME CalleesFirst(program), NEW f \in DOMAIN program.body,
         NEW b \in DOMAIN program.body[f], NEW k \in DOMAIN program.body[f][b],
         program.body[f][b][k].op = "call",
         NEW c \in DOMAIN program.members, NEW d \in DOMAIN program.members,
         NEW m \in DOMAIN program.members[c], NEW n \in DOMAIN program.members[d],
         program.members[c][m] = f, program.members[d][n] = program.body[f][b][k].tag
  PROVE  d < c \/ (d = c /\ c \in program.loops)
BY DEF CalleesFirst

\* A name is given at one point.
LEMMA DefinedAt ==
  ASSUME program \in Programs, NamesOnce(program), NEW f \in DOMAIN program.body,
         NEW b \in DOMAIN program.body[f], NEW k \in DOMAIN program.body[f][b],
         NEW v \in Values, Names(f, b, k, v)
  PROVE  /\ IsInstruction(f, v)
         /\ PointOf(f, v)[1] = b
         /\ PointOf(f, v)[2] = k
         /\ DefinitionOf(f, v) = program.body[f][b][k]
<1>0. k \in 1..LastPoint(f, b)
  BY BodyType
<1>1. <<b, k>> \in Definitions(f, v)
  <2> DEFINE S == {{c} \X (1..LastPoint(f, c)) : c \in DOMAIN program.body[f]}
  <2>1. {b} \X (1..LastPoint(f, b)) \in S
    OBVIOUS
  <2>2. <<b, k>> \in {b} \X (1..LastPoint(f, b))
    BY <1>0
  <2>3. <<b, k>> \in UNION S
    BY <2>1, <2>2
  <2>4. <<b, k>> \in Points(f)
    BY <2>3 DEF Points
  <2>5. <<b, k>>[1] = b /\ <<b, k>>[2] = k
    OBVIOUS
  <2> QED
    BY <2>4, <2>5 DEF Definitions, Names
<1>2. IsInstruction(f, v)
  BY <1>1 DEF IsInstruction
<1> DEFINE a == PointOf(f, v)[1]
           j == PointOf(f, v)[2]
<1>3. /\ a \in DOMAIN program.body[f] /\ j \in DOMAIN program.body[f][a]
      /\ Names(f, a, j, v) /\ DefinitionOf(f, v) = program.body[f][a][j]
  BY <1>2, PointType DEF Names
<1> HIDE DEF a, j
<1>5. a = b /\ j = k
  BY <1>3, NamedOnce
<1> QED
  BY <1>2, <1>3, <1>5 DEF a, j

LEMMA SlotsAre ==
  ASSUME program \in Programs, NEW f \in DOMAIN program.body, NEW v \in Slots(f)
  PROVE  v \in Values /\ v \notin DOMAIN Literals /\ AbstractIn(f, v) = Signs
<1>1. /\ v \in Values /\ IsInstruction(f, v)
      /\ DefinitionOf(f, v).op \notin {"call", "zext"}
  BY DEF Slots
<1>2. v \notin DOMAIN Literals
  BY <1>1, InstructionsAreNoLiterals
<1> QED
  BY <1>1, <1>2 DEF AbstractIn, IsA

\* What is loaded from or stored to is an address of the function.
LEMMA AddressesAre ==
  ASSUME program \in Programs, NEW f \in DOMAIN program.body
  PROVE  /\ Addresses(f) \subseteq Values
         /\ \A b \in DOMAIN program.body[f] : \A k \in DOMAIN program.body[f][b] :
              /\ program.body[f][b][k].op = "load" =>
                   program.body[f][b][k].args[1] \in Addresses(f)
              /\ program.body[f][b][k].op = "store" =>
                   program.body[f][b][k].args[2] \in Addresses(f)
<1>1. ASSUME NEW d \in Points(f), NEW v \in AddressOperand(program.body[f][d[1]][d[2]])
      PROVE  v \in Values
  <2> DEFINE i == program.body[f][d[1]][d[2]]
  <2>1. d[1] \in DOMAIN program.body[f] /\ d[2] \in 1..LastPoint(f, d[1])
    BY BodyType DEF Points
  <2>2. i \in Instructions /\ IsInstructionOf(program.body[f], i)
    BY <2>1, InstructionAt
  <2>3. v \in AddressOperand(i)
    BY <1>1
  <2> HIDE DEF i
  <2>7. i.args \in Seq(Values)
    BY <2>2 DEF Instructions
  <2>4. \A j \in DOMAIN i.args : i.args[j] \in Values
    BY <2>7
  <2>5. CASE i.op = "load"
    <3>1. 1 \in DOMAIN i.args
      BY <2>2, <2>5, Operands
    <3> QED
      BY <2>3, <2>4, <2>5, <3>1 DEF AddressOperand
  <2>6. CASE i.op = "store"
    <3>1. 2 \in DOMAIN i.args
      BY <2>2, <2>6, Operands
    <3> QED
      BY <2>3, <2>4, <2>6, <3>1 DEF AddressOperand
  <2> QED
    BY <2>3, <2>5, <2>6 DEF AddressOperand
<1>2. ASSUME NEW b \in DOMAIN program.body[f], NEW k \in DOMAIN program.body[f][b]
      PROVE  AddressOperand(program.body[f][b][k]) \subseteq Addresses(f)
  <2>1. k \in 1..LastPoint(f, b)
    BY BodyType
  <2> DEFINE S == {{c} \X (1..LastPoint(f, c)) : c \in DOMAIN program.body[f]}
  <2>2. {b} \X (1..LastPoint(f, b)) \in S
    OBVIOUS
  <2>3. <<b, k>> \in {b} \X (1..LastPoint(f, b))
    BY <2>1
  <2>4. <<b, k>> \in UNION S
    BY <2>2, <2>3
  <2>5. <<b, k>> \in Points(f)
    BY <2>4 DEF Points
  <2>6. <<b, k>>[1] = b /\ <<b, k>>[2] = k
    OBVIOUS
  <2> QED
    BY <2>5, <2>6 DEF Addresses
<1>3. Addresses(f) \subseteq Values
  BY <1>1 DEF Addresses
<1>4. \A b \in DOMAIN program.body[f] : \A k \in DOMAIN program.body[f][b] :
        \A v \in AddressOperand(program.body[f][b][k]) : v \in Addresses(f)
  BY <1>2
<1>5. \A b, k : /\ program.body[f][b][k].op = "load" =>
                     program.body[f][b][k].args[1] \in AddressOperand(program.body[f][b][k])
                /\ program.body[f][b][k].op = "store" =>
                     program.body[f][b][k].args[2] \in AddressOperand(program.body[f][b][k])
  BY DEF AddressOperand
<1> QED
  BY <1>3, <1>4, <1>5

LEMMA KnownAre ==
  ASSUME program \in Programs, NEW f \in DOMAIN program.body
  PROVE  Known(f) \subseteq Values
BY AddressesAre DEF Known, Slots

\* An instruction that names a slot's kind of value defines a slot.
LEMMA DefinesSlot ==
  ASSUME program \in Programs, NamesOnce(program), NEW f \in DOMAIN program.body,
         NEW b \in DOMAIN program.body[f], NEW k \in DOMAIN program.body[f][b],
         program.body[f][b][k].op \in {"alloca", "load", "bitcast", "ptrtoint", "trunc", "sext",
                                       "call", "zext", "binop", "gep", "icmp", "phi"}
  PROVE  /\ program.body[f][b][k].id \in Values \ DOMAIN Literals
         /\ IsInstruction(f, program.body[f][b][k].id)
         /\ PointOf(f, program.body[f][b][k].id)[1] = b
         /\ PointOf(f, program.body[f][b][k].id)[2] = k
         /\ DefinitionOf(f, program.body[f][b][k].id) = program.body[f][b][k]
         /\ program.body[f][b][k].id \in Slots(f) <=>
              /\ program.body[f][b][k].op \in {"alloca", "load", "bitcast", "ptrtoint", "trunc",
                                               "sext", "phi"}
              /\ program.body[f][b][k].op = "alloca" <=> program.body[f][b][k].id \in Addresses(f)
<1> DEFINE i == program.body[f][b][k]
<1>1. i \in Instructions /\ IsInstructionOf(program.body[f], i)
  <2>1. k \in 1..LastPoint(f, b)
    BY BodyType
  <2> QED
    BY <2>1, InstructionAt
<1>2. i.op \notin Terminators \union {"store"}
  BY DEF Terminators
<1>3. i.id \in Values \ DOMAIN Literals
  <2> HIDE DEF i
  <2> QED
    BY <1>1, <1>2, Operands
<1>4. Names(f, b, k, i.id)
  BY DEF Names
<1>5. /\ IsInstruction(f, i.id) /\ PointOf(f, i.id)[1] = b /\ PointOf(f, i.id)[2] = k
      /\ DefinitionOf(f, i.id) = i
  <2> HIDE DEF i
  <2> QED
    BY <1>3, <1>4, DefinedAt DEF i
<1> QED
  BY <1>3, <1>5 DEF Slots

LEMMA AbstractInType ==
  ASSUME StoredRangesOK, NEW f, NEW v \in Values
  PROVE  AbstractIn(f, v) \in SUBSET Signs
<1>1. CASE v \in DOMAIN Literals
  <2>1. Literals[v].n \in Int
    BY <1>1, LiteralsAssumption
  <2>2. SignOf(Literals[v].n) \in Signs
    BY <2>1, SignsOfNumbers
  <2> QED
    BY <1>1, <2>2 DEF AbstractIn, EQ, NE, Signs
<1>2. CASE v \notin DOMAIN Literals
  <2>1. \A g : AbstractCall(g) \in SUBSET Signs
    BY DEF AbstractCall, StoredRangesOK, BOTTOM
  <2> QED
    BY <1>2, <2>1 DEF AbstractIn, GE, Signs
<1> QED
  BY <1>1, <1>2

LEMMA ElementInType ==
  ASSUME StoredRangesOK, NEW f, NEW in \in Partial(Values), NEW v \in Values
  PROVE  ElementIn(f, in, v) \in SUBSET Signs
BY AbstractInType, PartialFunction DEF ElementIn

-----------------------------------------------------------------------------
(* The fixpoint.                                                           *)

\* The fact that the terminator of block a is visited with.
AtEnd(f, a) == range[f][a][LastPoint(f, a) - 1]

\* Instruction k of block b has been visited with the fact `in`.
RangedBy(f, b, k, in) ==
  LET i == program.body[f][b][k]
  IN IF i.op = "ret"
     THEN f \in DOMAIN returnRanges /\ ElementIn(f, in, i.args[1]) \subseteq returnRanges[f]
     ELSE range[f][b][k] = Result(f, b, k, in)

\* e has what the ends of the blocks before b have, and what they say of the
\* variables that they test.
Gathered(f, b, e) ==
  /\ DOMAIN e \subseteq Known(f) \cap returned[f][b][0]
  /\ \A a \in Predecessors(f, b) :
       Below(Filtered(range[f][a][LastPoint(f, a)], returned[f][b][0]), e)
  /\ \A a \in DOMAIN program.body[f] : \A p \in ElementsOf(f, a) :
       p[1] = b => Below(Learnt(f, a, AtEnd(f, a), p), e)

\* Block b has been entered with such a fact.  It need not be the fact that is
\* there at the end: what a block that is visited later says of a variable that
\* it knows nothing of is joined to it, and b is not visited again for that.
First(f, b) == \E e \in Partial(Values) : Gathered(f, b, e) /\ RangedBy(f, b, 1, e)

Ranged(f) ==
  \A b \in DOMAIN program.body[f] :
    /\ First(f, b)
    /\ \A k \in 2..LastPoint(f, b) : RangedBy(f, b, k, range[f][b][k - 1])

\* The functions that f calls.
Callees(f) ==
  {program.body[f][d[1]][d[2]].tag :
     d \in {c \in Points(f) : program.body[f][c[1]][c[2]].op = "call"}}

\* What an instruction makes of a fact depends on the program, on
\* ReturnedValuesPass and on what is stored of its callees.
LEMMA TestedSame ==
  ASSUME program' = program, returned' = returned, NEW f
  PROVE  /\ Slots(f)' = Slots(f) /\ Addresses(f)' = Addresses(f) /\ Known(f)' = Known(f)
         /\ \A b : CheckedBy(f, b)' = CheckedBy(f, b)
         /\ \A b : ElementsOf(f, b)' = ElementsOf(f, b)
         /\ \A b : Predecessors(f, b)' = Predecessors(f, b)
         /\ \A b : LastPoint(f, b)' = LastPoint(f, b)
         /\ \A b, in, p : Learnt(f, b, in, p)' = Learnt(f, b, in, p)
<1>1. \A v : /\ IsInstruction(f, v)' = IsInstruction(f, v)
             /\ DefinitionOf(f, v)' = DefinitionOf(f, v)
             /\ PointOf(f, v)' = PointOf(f, v)
  BY DEF IsInstruction, DefinitionOf, PointOf, Definitions, Points, LastPoint
<1>2. \A v, op : IsA(f, v, op)' = IsA(f, v, op)
  BY <1>1 DEF IsA
<1>3. \A b : /\ Terminator(f, b)' = Terminator(f, b) /\ LastPoint(f, b)' = LastPoint(f, b)
             /\ Predecessors(f, b)' = Predecessors(f, b)
  BY DEF Terminator, LastPoint, Predecessors, Successors
<1>4. \A b, k, v, may : CheckedAt(f, b, k, v, may)' = CheckedAt(f, b, k, v, may)
  BY <1>1, <1>2 DEF CheckedAt
<1>5. \A c, may : ComparedIn(f, c, may)' = ComparedIn(f, c, may)
  BY <1>1, <1>4 DEF ComparedIn
<1>6. \A i : OnComparison(f, i)' = OnComparison(f, i)
  BY <1>2 DEF OnComparison
<1>7. ASSUME NEW b
      PROVE  CheckedBy(f, b)' = CheckedBy(f, b)
  BY <1>1, <1>3, <1>4, <1>5, <1>6 DEF CheckedBy
<1>8. ASSUME NEW b
      PROVE  ElementsOf(f, b)' = ElementsOf(f, b)
  BY DEF ElementsOf, OnComparison, IsA, IsInstruction, DefinitionOf, PointOf, Definitions, Points,
         LastPoint, Terminator
<1>9. Slots(f)' = Slots(f) /\ Addresses(f)' = Addresses(f) /\ Known(f)' = Known(f)
  <2>1. Addresses(f)' = Addresses(f)
    BY DEF Addresses, AddressOperand, Points, LastPoint
  <2>2. Slots(f)' = Slots(f)
    BY <1>1, <2>1 DEF Slots
  <2> QED
    BY <2>1, <2>2 DEF Known
<1>10. \A b, in, p : Learnt(f, b, in, p)' = Learnt(f, b, in, p)
  BY <1>7 DEF Learnt, Narrowed
<1> QED
  BY <1>3, <1>7, <1>8, <1>9, <1>10

LEMMA ElementSame ==
  ASSUME program \in Programs, program' = program, NEW f \in DOMAIN program.body,
         \A g \in Callees(f) : AbstractCall(g)' = AbstractCall(g)
  PROVE  /\ \A v : AbstractIn(f, v)' = AbstractIn(f, v)
         /\ \A in, v : ElementIn(f, in, v)' = ElementIn(f, in, v)
<1>1. \A v : /\ IsInstruction(f, v)' = IsInstruction(f, v)
             /\ DefinitionOf(f, v)' = DefinitionOf(f, v)
             /\ PointOf(f, v)' = PointOf(f, v)
  BY DEF IsInstruction, DefinitionOf, PointOf, Definitions, Points, LastPoint
<1>2. \A v, op : IsA(f, v, op)' = IsA(f, v, op)
  BY <1>1 DEF IsA
<1>3. ASSUME NEW v
      PROVE  AbstractIn(f, v)' = AbstractIn(f, v)
  <2>1. IsA(f, v, "call") => DefinitionOf(f, v).tag \in Callees(f)
    <3> SUFFICES ASSUME IsInstruction(f, v), DefinitionOf(f, v).op = "call"
                 PROVE  DefinitionOf(f, v).tag \in Callees(f)
      BY DEF IsA
    <3>1. PointOf(f, v) \in Points(f)
      BY DEF IsInstruction, PointOf, Definitions
    <3> QED
      BY <3>1 DEF Callees, DefinitionOf
  <2>2. IsA(f, v, "call") => AbstractCall(DefinitionOf(f, v).tag)' = AbstractCall(DefinitionOf(f, v).tag)
    <3> SUFFICES ASSUME IsA(f, v, "call")
                 PROVE  AbstractCall(DefinitionOf(f, v).tag)' = AbstractCall(DefinitionOf(f, v).tag)
      OBVIOUS
    <3>1. ASSUME NEW g, g = DefinitionOf(f, v).tag
          PROVE  AbstractCall(g)' = AbstractCall(g)
      BY <2>1, <3>1
    <3> QED
      BY <1>1, <3>1 DEF AbstractCall
  <2> QED
    BY <1>1, <1>2, <2>2 DEF AbstractIn
<1> QED
  BY <1>3 DEF ElementIn

\* A block of a terminator only tests nothing.
LEMMA LoneChecksNothing ==
  ASSUME program \in Programs, TestsWhereComputed(program),
         NEW f \in DOMAIN program.body, NEW a \in DOMAIN program.body[f],
         CheckedBy(f, a) # {}
  PROVE  LastPoint(f, a) > 1
<1>1. CASE OnComparison(f, Terminator(f, a))
  BY <1>1, ComparedBefore
<1>2. CASE ~OnComparison(f, Terminator(f, a))
  <2>1. Terminator(f, a).op = "switch"
    BY <1>2 DEF CheckedBy
  <2> QED
    BY <2>1 DEF TestsWhereComputed, Terminator, LastPoint
<1> QED
  BY <1>1, <1>2

\* So what a block's entry says does not matter to what it gives, unless
\* something comes between.
LEMMA LearntSame ==
  ASSUME program \in Programs, TestsWhereComputed(program),
         NEW f \in DOMAIN program.body, NEW a \in DOMAIN program.body[f], NEW p, NEW x, NEW y,
         LastPoint(f, a) > 1 => x = y
  PROVE  \A z : Below(Learnt(f, a, x, p), z) <=> Below(Learnt(f, a, y, p), z)
<1>1. CASE LastPoint(f, a) > 1
  BY <1>1
<1>2. CASE ~(LastPoint(f, a) > 1)
  <2>1. CheckedBy(f, a) = {}
    BY <1>2, LoneChecksNothing
  <2>2. DOMAIN Learnt(f, a, x, p) = {} /\ DOMAIN Learnt(f, a, y, p) = {}
    BY <2>1 DEF Learnt, Narrowed
  <2> QED
    BY <2>2 DEF Below
<1> QED
  BY <1>1, <1>2

\* What a fixpoint of a function depends on.
SameFor(f) ==
  /\ program' = program /\ returned' = returned
  /\ \A b \in DOMAIN program.body[f] : \A i \in 1..LastPoint(f, b) :
       range'[f][b][i] = range[f][b][i]
  /\ \A g \in Callees(f) : AbstractCall(g)' = AbstractCall(g)
  /\ f \in DOMAIN returnRanges => f \in DOMAIN returnRanges' /\ returnRanges[f] \subseteq returnRanges'[f]

LEMMA RangedByKept ==
  ASSUME program \in Programs, NEW f \in DOMAIN program.body, SameFor(f),
         NEW b \in DOMAIN program.body[f], NEW k \in 1..LastPoint(f, b), NEW in,
         RangedBy(f, b, k, in)
  PROVE  RangedBy(f, b, k, in)'
<1>1. /\ program' = program /\ returned' = returned
      /\ range'[f][b][k] = range[f][b][k]
      /\ f \in DOMAIN returnRanges => f \in DOMAIN returnRanges' /\ returnRanges[f] \subseteq returnRanges'[f]
  BY DEF SameFor
<1>2. \A v : ElementIn(f, in, v)' = ElementIn(f, in, v)
  BY <1>1, ElementSame DEF SameFor
<1>3. CheckedBy(f, b)' = CheckedBy(f, b)
  BY <1>1, TestedSame
<1>4. Result(f, b, k, in)' = Result(f, b, k, in)
  BY <1>1, <1>2, <1>3, ZenonT(40) DEF Result, Filtered, Updated
<1>5. CASE program.body[f][b][k].op = "ret"
  BY <1>1, <1>2, <1>5 DEF RangedBy
<1>6. CASE program.body[f][b][k].op # "ret"
  BY <1>1, <1>4, <1>6 DEF RangedBy
<1> QED
  BY <1>5, <1>6

LEMMA GatheredKept ==
  ASSUME program \in Programs, TestsWhereComputed(program),
         NEW f \in DOMAIN program.body, SameFor(f),
         NEW b \in DOMAIN program.body[f], NEW e, Gathered(f, b, e)
  PROVE  Gathered(f, b, e)'
<1>1. /\ program' = program /\ returned' = returned
  BY DEF SameFor
<1>2. /\ Known(f)' = Known(f) /\ Predecessors(f, b)' = Predecessors(f, b)
      /\ \A a : ElementsOf(f, a)' = ElementsOf(f, a)
      /\ \A a : LastPoint(f, a)' = LastPoint(f, a)
      /\ \A a, in, p : Learnt(f, a, in, p)' = Learnt(f, a, in, p)
  BY <1>1, TestedSame
<1>3. \A a \in DOMAIN program.body[f] : LastPoint(f, a) \in Nat \ {0}
  BY BodyType
<1>4. ASSUME NEW a \in Predecessors(f, b)
      PROVE  Below(Filtered(range'[f][a][LastPoint(f, a)], returned[f][b][0]), e)
  <2>1. a \in DOMAIN program.body[f]
    BY DEF Predecessors
  <2>2. range'[f][a][LastPoint(f, a)] = range[f][a][LastPoint(f, a)]
    BY <1>3, <2>1 DEF SameFor
  <2> QED
    BY <2>2 DEF Gathered
<1>5. ASSUME NEW a \in DOMAIN program.body[f], NEW p \in ElementsOf(f, a), p[1] = b
      PROVE  Below(Learnt(f, a, range'[f][a][LastPoint(f, a) - 1], p), e)
  <2>1. LastPoint(f, a) > 1 => range'[f][a][LastPoint(f, a) - 1] = range[f][a][LastPoint(f, a) - 1]
    BY <1>3 DEF SameFor
  <2>2. Below(Learnt(f, a, range[f][a][LastPoint(f, a) - 1], p), e)
    BY <1>5 DEF Gathered, AtEnd
  <2> QED
    BY <2>1, <2>2, LearntSame
<1>6. DOMAIN e \subseteq Known(f) \cap returned[f][b][0]
  BY DEF Gathered
<1>7. \A a \in Predecessors(f, b) : Below(Filtered(range[f][a][LastPoint(f, a)], returned[f][b][0]), e)'
  BY <1>1, <1>2, <1>4 DEF Below, Filtered
<1>8. ASSUME NEW a \in DOMAIN program.body[f], NEW p \in ElementsOf(f, a), p[1] = b
      PROVE  Below(Learnt(f, a, AtEnd(f, a), p), e)'
  <2>1. AtEnd(f, a)' = range'[f][a][LastPoint(f, a) - 1]
    BY <1>2 DEF AtEnd
  <2>2. Below(Learnt(f, a, range'[f][a][LastPoint(f, a) - 1], p), e)
    BY <1>5, <1>8
  <2>3. Below(Learnt(f, a, AtEnd(f, a)', p), e)
    BY <2>1, <2>2
  <2>4. Learnt(f, a, AtEnd(f, a), p)' = Learnt(f, a, AtEnd(f, a)', p)
    BY <1>1, <1>2, TestedSame DEF Learnt, Narrowed
  <2> QED
    BY <2>3, <2>4 DEF Below
<1> QED
  BY <1>1, <1>2, <1>6, <1>7, <1>8 DEF Gathered

LEMMA FirstKept ==
  ASSUME program \in Programs, TestsWhereComputed(program),
         NEW f \in DOMAIN program.body, SameFor(f),
         NEW b \in DOMAIN program.body[f], First(f, b)
  PROVE  First(f, b)'
<1>1. PICK e \in Partial(Values) : Gathered(f, b, e) /\ RangedBy(f, b, 1, e)
  BY DEF First
<1>2. 1 \in 1..LastPoint(f, b)
  BY BodyType
<1>3. Gathered(f, b, e)' /\ RangedBy(f, b, 1, e)'
  BY <1>1, <1>2, GatheredKept, RangedByKept
<1> QED
  BY <1>3 DEF First, Partial

LEMMA RangedKept ==
  ASSUME program \in Programs, TestsWhereComputed(program),
         NEW f \in DOMAIN program.body, SameFor(f), Ranged(f)
  PROVE  Ranged(f)'
<1>1. ASSUME NEW b \in DOMAIN program.body[f]
      PROVE  First(f, b)'
  BY FirstKept DEF Ranged
<1>2. ASSUME NEW b \in DOMAIN program.body[f], NEW k \in 2..LastPoint(f, b)
      PROVE  RangedBy(f, b, k, range[f][b][k - 1])'
  <2>0. k \in 1..LastPoint(f, b) /\ k - 1 \in 1..LastPoint(f, b)
    BY BodyType
  <2>1. range'[f][b][k - 1] = range[f][b][k - 1]
    BY <2>0 DEF SameFor
  <2>2. ASSUME NEW in, in = range[f][b][k - 1]
        PROVE  RangedBy(f, b, k, in)'
    BY <2>0, <2>2, RangedByKept DEF Ranged
  <2> QED
    BY <2>1, <2>2
<1>3. program' = program /\ \A b : LastPoint(f, b)' = LastPoint(f, b)
  BY DEF SameFor, LastPoint
<1> QED
  BY <1>1, <1>2, <1>3 DEF Ranged

-----------------------------------------------------------------------------
(* The steps of the pass.                                                  *)

\* What a branch joins into the entries of its successors.
LEMMA PushedMeans ==
  ASSUME WalkOK, blk > 0, idx > 0, NEW K, NEW fact, Typed(fact, Partial(K)),
         NEW out, NEW pushed, \A p \in pushed : p[2] \in Partial(K),
         NEW after, after = Pushed(fact, out, pushed)
  PROVE  /\ \A f \in DOMAIN program.body : \A b \in DOMAIN program.body[f] :
              \A i \in 0..LastPoint(f, b) :
                f # f0 \/ (i # 0 /\ ~(b = blk /\ i = idx)) => after[f][b][i] = fact[f][b][i]
         /\ after[f0][blk][idx] = out
         /\ \A b \in DOMAIN program.body[f0] :
              /\ Below(fact[f0][b][0], after[f0][b][0])
              /\ \A p \in pushed : p[1] = b => Below(p[2], after[f0][b][0])
              /\ DOMAIN after[f0][b][0] \subseteq
                   DOMAIN fact[f0][b][0] \union
                     UNION {DOMAIN p[2] : p \in {q \in pushed : q[1] = b}}
<1> DEFINE joined(b) == {fact[f0][b][0]} \union {p[2] : p \in {q \in pushed : q[1] = b}}
<1>1. /\ f0 \in DOMAIN program.body /\ Body = program.body[f0]
      /\ blk \in DOMAIN program.body[f0] /\ idx \in 1..LastPoint(f0, blk)
      /\ LastPoint(f0, blk) \in Nat /\ idx \in 0..LastPoint(f0, blk)
      /\ \A b \in DOMAIN program.body[f0] : LastPoint(f0, b) \in Nat \ {0}
  BY AtAnInstruction, AtAnEntry
<1>2. Shaped(fact)
  BY DEF Typed
<1> DEFINE new == [b \in DOMAIN Body |->
                    [i \in 0..LastPoint(f0, b) |->
                      IF b = blk /\ i = idx THEN out
                      ELSE IF i = 0 THEN JoinFacts(joined(b)) ELSE fact[f0][b][i]]]
<1>3. after = [fact EXCEPT ![f0] = new]
  BY DEF Pushed
<1>4. \A b \in DOMAIN program.body[f0] : \A i \in 0..LastPoint(f0, b) :
        new[b][i] = IF b = blk /\ i = idx THEN out
                    ELSE IF i = 0 THEN JoinFacts(joined(b)) ELSE fact[f0][b][i]
  BY <1>1
<1> HIDE DEF new, joined
<1>5. after[f0] = new /\ \A f \in DOMAIN program.body : f # f0 => after[f] = fact[f]
  BY <1>1, <1>2, <1>3 DEF Shaped
<1>6. ASSUME NEW b \in DOMAIN program.body[f0]
      PROVE  /\ after[f0][b][0] = JoinFacts(joined(b))
             /\ joined(b) \in SUBSET Partial(K)
  <2>1. 0 \in 0..LastPoint(f0, b) /\ idx # 0
    BY <1>1, <1>6
  <2>2. fact[f0][b][0] \in Partial(K)
    BY <1>1, <1>6, <2>1 DEF Typed
  <2>3. joined(b) \in SUBSET Partial(K)
    BY <2>2 DEF joined
  <2> QED
    BY <1>4, <1>5, <1>6, <2>1, <2>3
<1>7. ASSUME NEW b \in DOMAIN program.body[f0]
      PROVE  /\ Below(fact[f0][b][0], after[f0][b][0])
             /\ \A p \in pushed : p[1] = b => Below(p[2], after[f0][b][0])
  <2>1. fact[f0][b][0] \in joined(b) /\ \A p \in pushed : p[1] = b => p[2] \in joined(b)
    BY DEF joined
  <2> QED
    BY <1>6, <1>7, <2>1, JoinFactsIsLeast
<1>8. ASSUME NEW b \in DOMAIN program.body[f0]
      PROVE  DOMAIN after[f0][b][0] \subseteq
               DOMAIN fact[f0][b][0] \union
                 UNION {DOMAIN p[2] : p \in {q \in pushed : q[1] = b}}
  <2>1. DOMAIN after[f0][b][0] = UNION {DOMAIN x : x \in joined(b)}
    BY <1>6, <1>8 DEF JoinFacts
  <2> QED
    BY <2>1 DEF joined
<1>9. after[f0][blk][idx] = out
  BY <1>1, <1>4, <1>5
<1>10. ASSUME NEW f \in DOMAIN program.body, NEW b \in DOMAIN program.body[f],
              NEW i \in 0..LastPoint(f, b), f # f0 \/ (i # 0 /\ ~(b = blk /\ i = idx))
       PROVE  after[f][b][i] = fact[f][b][i]
  BY <1>4, <1>5, <1>10
<1> QED
  BY <1>7, <1>8, <1>9, <1>10

\* The terminator that is next is that of its block.
LEMMA AtTheEnd ==
  ASSUME WalkOK, blk > 0, idx > 0, I.op \in Terminators
  PROVE  idx = LastPoint(f0, blk) /\ I = Terminator(f0, blk)
<1>1. idx = Len(Body[blk])
  BY InstructionType
<1> QED
  BY <1>1, AtAnInstruction DEF LastPoint, I, Terminator

\* What is checked where the pass is.
LEMMA CheckedHere ==
  ASSUME WalkOK, blk > 0, idx > 0, I.op \in {"br", "switch"}
  PROVE  /\ OnComparison(f0, I) =>
              CheckedBy(f0, blk) = CheckedByComparison(DefinitionOf(f0, I.args[1]))
         /\ I.op = "switch" => CheckedBy(f0, blk) = GetCheckedReturnValue(<<blk, idx>>, I.args[1])
         /\ I.op = "br" /\ ~OnComparison(f0, I) => CheckedBy(f0, blk) = {}
<1>1. idx = LastPoint(f0, blk) /\ I = Terminator(f0, blk)
  BY AtTheEnd DEF Terminators
<1>2. \A d, v : GetCheckedReturnValue(d, v) = CheckedAt(f0, d[1], d[2], v, MayBeReturned)
  BY DEF GetCheckedReturnValue, CheckedAt, Body
<1>3. \A c : CheckedByComparison(c) = ComparedIn(f0, c, MayBeReturned)
  BY <1>2 DEF CheckedByComparison, ComparedIn
<1>4. MayBeReturned = returned[f0][blk][LastPoint(f0, blk)]
  BY <1>1 DEF MayBeReturned
<1>5. I.op = "switch" => ~OnComparison(f0, I)
  BY DEF OnComparison
<1>6. OnComparison(f0, I) => CheckedBy(f0, blk) = CheckedByComparison(DefinitionOf(f0, I.args[1]))
  BY <1>1, <1>3, <1>4 DEF CheckedBy
<1>7. I.op = "switch" => CheckedBy(f0, blk) = GetCheckedReturnValue(<<blk, idx>>, I.args[1])
  BY <1>1, <1>2, <1>4, <1>5 DEF CheckedBy
<1>8. I.op = "br" /\ ~OnComparison(f0, I) => CheckedBy(f0, blk) = {}
  BY <1>1 DEF CheckedBy
<1> QED
  BY <1>6, <1>7, <1>8

\* A visit.
LEMMA RangeMeans ==
  ASSUME WalkOK, blk > 0, idx > 0, pass = "range", AnalysisNext
  PROVE  \/ I.op = "ret" /\ RangeRet
         \/ /\ I.op # "ret" /\ Ranges(Result(f0, blk, idx, RangeIn))
            /\ I.op \in {"br", "switch"} => ElementsOf(f0, blk) = {}
         \/ /\ I.op \in {"br", "switch"}
            /\ \E given \in SUBSET ElementsOf(f0, blk) :
                 /\ RangeBranches(CheckedBy(f0, blk), given)
                 /\ given = ElementsOf(f0, blk) \/ CheckedBy(f0, blk) \cap DOMAIN RangeIn = {}
<1> DEFINE checked == CheckedBy(f0, blk)
           E == ElementsOf(f0, blk)
           new == Result(f0, blk, idx, RangeIn)
<1>1. /\ I = program.body[f0][blk][idx] /\ MayBeReturned = returned[f0][blk][idx]
      /\ Copied = Filtered(RangeIn, returned[f0][blk][idx])
  BY DEF I, Body, MayBeReturned, Copied
<1>2. \A v : ElementIn(f0, RangeIn, v) = RangeOf(v)
  BY ElementHere
<1>3. \/ RangeStore \/ RangeLoad \/ RangePhi \/ RangeBranch
      \/ RangeSwitch \/ RangeRet \/ RangeOther
  <2>1. blk # 0
    BY DEF WalkOK
  <2> QED
    BY <2>1 DEF AnalysisNext, NextFunction, At, Others, Entering,
      EnterPropagation, PropagateCall, PropagateLoad, PropagateStore,
      PropagateCast, PropagatePhi, PropagateOther,
      EnterReturned, ReturnedCall, ReturnedRet, ReturnedStore,
      ReturnedLoad, ReturnedPhi, ReturnedOther,
      EnterConstraints, ConstrainCall, ConstrainBranch, ConstrainSwitch,
      ConstrainOther, EnterRange
<1>4. CASE RangeStore
  <2>1. I.op = "store"
    BY <1>4 DEF RangeStore, At
  <2>2. new = With(I.args[2], RangeOf(I.args[1]))
    BY <1>1, <1>2, <2>1 DEF Result, With
  <2> QED
    BY <1>4, <2>1, <2>2 DEF RangeStore
<1>5. CASE RangeLoad
  <2>1. I.op \in {"load", "bitcast", "ptrtoint", "trunc", "sext"}
    BY <1>5 DEF RangeLoad, At
  <2>2. new = With(I.id, RangeOf(I.args[1]))
    BY <1>1, <1>2, <2>1 DEF Result, With
  <2> QED
    BY <1>5, <2>1, <2>2 DEF RangeLoad
<1>6. CASE RangePhi
  <2>1. I.op = "phi"
    BY <1>6 DEF RangePhi, At
  <2>2. new = With(I.id, JoinAll({RangeOf(I.args[k]) : k \in DOMAIN I.args}))
    BY <1>1, <1>2, <2>1 DEF Result, With
  <2> QED
    BY <1>6, <2>1, <2>2 DEF RangePhi
<1>7. CASE RangeOther
  <2>1. I.op \notin {"store", "load", "bitcast", "ptrtoint", "trunc", "sext",
                      "phi", "br", "switch", "ret"}
    BY <1>7 DEF RangeOther, Others
  <2>2. new = Copied
    BY <1>1, <2>1 DEF Result
  <2> QED
    BY <1>7, <2>1, <2>2 DEF RangeOther
<1>8. CASE RangeBranch
  <2>1. I.op = "br" /\ I = Terminator(f0, blk)
    BY <1>8, AtTheEnd DEF RangeBranch, At, Terminators
  <2>2. CASE OnComparison(f0, I)
    <3>1. checked = CheckedByComparison(DefinitionOf(f0, I.args[1]))
      BY <2>1, <2>2, CheckedHere
    <3>2. E = {<<I.to[k], AbstractICmp(DefinitionOf(f0, I.args[1]))[k]>> : k \in 1..2}
      BY <2>1, <2>2 DEF ElementsOf
    <3>3. RangeBranches(checked, E)
      BY <1>8, <2>2, <3>1, <3>2 DEF RangeBranch, OnComparison
    <3> QED
      BY <2>1, <3>3
  <2>3. CASE ~OnComparison(f0, I)
    <3>1. checked = {} /\ E = {}
      BY <2>1, <2>3, CheckedHere DEF ElementsOf
    <3>2. new = Filtered(Copied, DOMAIN Copied \ {})
      BY <1>1, <2>1, <3>1 DEF Result
    <3>3. new = Copied
      BY <3>2 DEF Filtered, Copied
    <3> QED
      BY <1>8, <2>1, <2>3, <3>1, <3>3 DEF RangeBranch, OnComparison
  <2> QED
    BY <2>2, <2>3
<1>9. CASE RangeSwitch
  <2>1. I.op = "switch" /\ I = Terminator(f0, blk)
    BY <1>9, AtTheEnd DEF RangeSwitch, At, Terminators
  <2>2. checked = GetCheckedReturnValue(<<blk, idx>>, I.args[1])
    BY <2>1, CheckedHere
  <2>3. E = {<<I.to[1], Signs>>}
              \union {<<I.to[k + 1], {SignOf(Literals[I.cases[k]].n)}>> : k \in DOMAIN I.cases}
    BY <2>1 DEF ElementsOf, OnComparison
  <2> DEFINE cases == {<<I.to[k + 1], {SignOf(Literals[I.cases[k]].n)}>> : k \in DOMAIN I.cases}
             given == cases \union {<<I.to[1], Signs>> : v \in checked \cap DOMAIN RangeIn}
  <2>4. RangeBranches(checked, given)
    BY <1>9, <2>2 DEF RangeSwitch
  <2>5. E = {<<I.to[1], Signs>>} \union cases
    BY <2>3
  <2> HIDE DEF cases
  <2>6. given \in SUBSET E /\ (given = E \/ checked \cap DOMAIN RangeIn = {})
    BY <2>5
  <2> QED
    BY <2>1, <2>4, <2>6
<1>10. CASE RangeRet
  BY <1>10 DEF RangeRet, At
<1> QED
  BY <1>3, <1>4, <1>5, <1>6, <1>7, <1>8, <1>9, <1>10

\* What instruction i computes, or stores to, and what a terminator checks.
LEMMA ResultDomain ==
  ASSUME program \in Programs, NamesOnce(program),
         NEW f \in DOMAIN program.body, NEW b \in DOMAIN program.body[f],
         NEW k \in DOMAIN program.body[f][b], NEW in, DOMAIN in \subseteq Known(f)
  PROVE  DOMAIN Result(f, b, k, in) \subseteq Known(f) \cap returned[f][b][k]
<1> DEFINE i == program.body[f][b][k]
           may == returned[f][b][k]
<1>1. /\ DOMAIN Filtered(in, may) \subseteq Known(f) \cap may
      /\ \A v \in Known(f) : \A e :
           v \in may => DOMAIN Updated(Filtered(in, may), v, e) \subseteq Known(f) \cap may
      /\ \A S : DOMAIN Filtered(Filtered(in, may), S) \subseteq Known(f) \cap may
  BY DEF Filtered, Updated
<1>2. CASE i.op = "store"
  <2>1. i.args[2] \in Known(f)
    BY <1>2, AddressesAre DEF Known
  <2> QED
    BY <1>1, <1>2, <2>1 DEF Result
<1>3. CASE i.op \in {"load", "bitcast", "ptrtoint", "trunc", "sext", "phi"}
  <2>1. i.id \in Known(f)
    <3>1. /\ i.op # "alloca"
          /\ i.op \in {"alloca", "load", "bitcast", "ptrtoint", "trunc", "sext", "phi"}
          /\ i.op \in {"alloca", "load", "bitcast", "ptrtoint", "trunc", "sext",
                       "call", "zext", "binop", "gep", "icmp", "phi"}
      BY <1>3
    <3>2. i.id \in Slots(f) <=>
            /\ i.op \in {"alloca", "load", "bitcast", "ptrtoint", "trunc", "sext", "phi"}
            /\ i.op = "alloca" <=> i.id \in Addresses(f)
      BY <3>1, DefinesSlot
    <3>3. i.id \in Slots(f) \/ i.id \in Addresses(f)
      BY <3>1, <3>2
    <3> QED
      BY <3>3 DEF Known
  <2> QED
    BY <1>1, <1>3, <2>1 DEF Result
<1>4. CASE i.op \notin {"store", "load", "bitcast", "ptrtoint", "trunc", "sext", "phi"}
  BY <1>1, <1>4 DEF Result
<1> QED
  BY <1>2, <1>3, <1>4

\* What is checked for a value is an address.
LEMMA CheckedAtSlots ==
  ASSUME program \in Programs,
         NEW f \in DOMAIN program.body, NEW b \in DOMAIN program.body[f],
         NEW k \in DOMAIN program.body[f][b], NEW v, NEW may
  PROVE  CheckedAt(f, b, k, v, may) \subseteq Addresses(f) \cap may
<1>1. CASE IsA(f, v, "load")
  <2> DEFINE a == PointOf(f, v)[1]
             j == PointOf(f, v)[2]
  <2>1. /\ a \in DOMAIN program.body[f] /\ j \in DOMAIN program.body[f][a]
        /\ DefinitionOf(f, v) = program.body[f][a][j]
        /\ program.body[f][a][j].op = "load"
    BY <1>1, PointType DEF IsA
  <2>2. DefinitionOf(f, v).args[1] \in Addresses(f)
    BY <2>1, AddressesAre
  <2> QED
    BY <1>1, <2>2 DEF CheckedAt
<1>2. CASE ~IsA(f, v, "load")
  <2> DEFINE previous == program.body[f][b][k - 1]
  <2>1. CASE k > 1 /\ previous.op = "store" /\ previous.args[1] = v
    <3>1. k - 1 \in DOMAIN program.body[f][b]
      BY <2>1, BodyType
    <3>2. previous.args[2] \in Addresses(f)
      BY <2>1, <3>1, AddressesAre
    <3> QED
      BY <1>2, <2>1, <3>2 DEF CheckedAt
  <2>2. CASE ~(k > 1 /\ previous.op = "store" /\ previous.args[1] = v)
    BY <1>2, <2>2 DEF CheckedAt
  <2> QED
    BY <2>1, <2>2
<1> QED
  BY <1>1, <1>2

LEMMA CheckedSlots ==
  ASSUME program \in Programs, TestsWhereComputed(program), NamesOnce(program),
         NEW f \in DOMAIN program.body, NEW b \in DOMAIN program.body[f]
  PROVE  CheckedBy(f, b) \subseteq Addresses(f) \cap returned[f][b][LastPoint(f, b)]
<1> DEFINE i == Terminator(f, b)
           may == returned[f][b][LastPoint(f, b)]
           end == LastPoint(f, b)
<1>1. /\ i = program.body[f][b][end] /\ i \in Instructions /\ IsInstructionOf(program.body[f], i)
      /\ end \in DOMAIN program.body[f][b]
  BY TerminatorType, BodyType
<1>2. CASE OnComparison(f, i)
  <2> DEFINE c == DefinitionOf(f, i.args[1])
  <2>1. end > 1 /\ c = program.body[f][b][end - 1] /\ c.op = "icmp"
    BY <1>2, ComparedBefore DEF OnComparison, IsA
  <2>2. end - 1 \in DOMAIN program.body[f][b] /\ end - 1 \in 1..end
    BY <2>1, BodyType, SMTT(40)
  <2> HIDE DEF i, end
  <2>5. PointOf(f, c.id)[1] = b /\ PointOf(f, c.id)[2] = end - 1
    BY <2>1, <2>2, DefinesSlot
  <2>6. \A v : CheckedAt(f, b, end - 1, v, may) \subseteq Addresses(f) \cap may
    BY <2>2, CheckedAtSlots
  <2>7. CheckedBy(f, b) = ComparedIn(f, c, may)
    BY <1>2 DEF CheckedBy, i, end
  <2> HIDE DEF c
  <2> QED
    BY <2>5, <2>6, <2>7 DEF ComparedIn, end
<1>3. CASE ~OnComparison(f, i) /\ i.op = "switch"
  BY <1>1, <1>3, CheckedAtSlots DEF CheckedBy
<1>4. CASE ~OnComparison(f, i) /\ i.op # "switch"
  BY <1>4 DEF CheckedBy
<1> QED
  BY <1>2, <1>3, <1>4

\* What is given goes to successors.
LEMMA ElementsType ==
  ASSUME program \in Programs, NEW f \in DOMAIN program.body, NEW a \in DOMAIN program.body[f]
  PROVE  \A p \in ElementsOf(f, a) :
           /\ p[1] \in DOMAIN program.body[f] /\ p[1] \in Successors(f, a)
           /\ p[2] \in SUBSET Signs
<1> DEFINE i == Terminator(f, a)
<1>1. i \in Instructions /\ IsInstructionOf(program.body[f], i)
  BY TerminatorType
<1>2. \A j \in DOMAIN i.to : i.to[j] \in DOMAIN program.body[f] /\ i.to[j] \in Successors(f, a)
  BY <1>1 DEF IsInstructionOf, Successors
<1>0. ASSUME OnComparison(f, i), NEW k \in 1..2
      PROVE  AbstractICmp(DefinitionOf(f, i.args[1]))[k] \in SUBSET Signs
  <2> DEFINE c == DefinitionOf(f, i.args[1])
  <2>1. IsInstruction(f, i.args[1]) /\ c.op = "icmp"
    BY <1>0 DEF OnComparison, IsA
  <2>2. c \in Instructions /\ IsInstructionOf(program.body[f], c)
    BY <2>1, DefinitionType
  <2> HIDE DEF c
  <2>3. c.tag \in Predicates
    BY <2>1, <2>2, Operands
  <2>4. AbstractICmp(c)[k] \in SUBSET Signs
    BY <2>1, <2>2, <2>3, AbstractICmpType
  <2> QED
    BY <2>4 DEF c
<1> HIDE DEF i
<1>3. i.op = "br" /\ Len(i.to) = 2 => 1..2 \subseteq DOMAIN i.to
  <2>1. i.to \in Seq(Nat)
    BY <1>1 DEF Instructions
  <2> QED
    BY <2>1
<1>4. i.op = "switch" => \A k \in DOMAIN i.cases : k + 1 \in DOMAIN i.to
  BY <1>1, Operands
<1>5. i.op = "switch" => 1 \in DOMAIN i.to
  BY <1>1, Operands
<1>6. \A k \in DOMAIN i.cases : SignOf(Literals[i.cases[k]].n) \in Signs
  <2>0. i.cases \in Seq(DOMAIN Literals)
    BY <1>1 DEF Instructions
  <2>1. \A k \in DOMAIN i.cases : i.cases[k] \in DOMAIN Literals
    BY <2>0
  <2> QED
    BY <2>1, LiteralsAssumption, SignsOfNumbers
<1>7. CASE OnComparison(f, i)
  <2>1. ElementsOf(f, a) = {<<i.to[k], AbstractICmp(DefinitionOf(f, i.args[1]))[k]>> : k \in 1..2}
    BY <1>7 DEF ElementsOf, i
  <2> QED
    BY <1>0, <1>2, <1>3, <1>7, <2>1 DEF OnComparison
<1>8. CASE ~OnComparison(f, i) /\ i.op = "switch"
  <2>1. ElementsOf(f, a) = {<<i.to[1], Signs>>}
            \union {<<i.to[k + 1], {SignOf(Literals[i.cases[k]].n)}>> : k \in DOMAIN i.cases}
    BY <1>8 DEF ElementsOf, i
  <2> QED
    BY <1>2, <1>4, <1>5, <1>6, <1>8, <2>1
<1>9. CASE ~OnComparison(f, i) /\ i.op # "switch"
  BY <1>9 DEF ElementsOf, i
<1> QED
  BY <1>7, <1>8, <1>9

\* Where a visit writes, and what it joins to the entries.
LEMMA RangeVisited ==
  ASSUME WalkOK, TypedFactsOK, WellFormed(program), pass = "range", blk > 0, idx > 0, AnalysisNext
  PROVE  /\ \A f \in DOMAIN program.body : \A b \in DOMAIN program.body[f] :
              \A i \in 0..LastPoint(f, b) :
                f # f0 \/ (i # 0 /\ ~(b = blk /\ i = idx)) => range'[f][b][i] = range[f][b][i]
         /\ \A b \in DOMAIN program.body[f0] :
              /\ Below(range[f0][b][0], range'[f0][b][0])
              /\ DOMAIN range'[f0][b][0] \subseteq
                   DOMAIN range[f0][b][0] \union (CheckedBy(f0, blk) \cap returned[f0][b][0])
         /\ idx = LastPoint(f0, blk) =>
              \A p \in ElementsOf(f0, blk) :
                Below(Learnt(f0, blk, RangeIn, p), range'[f0][p[1]][0])
         /\ I.op = "ret" => RangeRet /\ range' = range
         /\ I.op # "ret" =>
              /\ range'[f0][blk][idx] = Result(f0, blk, idx, RangeIn)
              /\ returnRanges' = returnRanges
              /\ Step(Result(f0, blk, idx, RangeIn) # RangeOut)
<1> DEFINE checked == CheckedBy(f0, blk)
           E == ElementsOf(f0, blk)
           new == Result(f0, blk, idx, RangeIn)
<1>1. /\ f0 \in DOMAIN program.body /\ Body = program.body[f0]
      /\ blk \in DOMAIN program.body[f0] /\ idx \in 1..LastPoint(f0, blk)
      /\ LastPoint(f0, blk) \in Nat /\ idx \in 0..LastPoint(f0, blk)
      /\ idx - 1 \in 0..LastPoint(f0, blk)
      /\ \A b \in DOMAIN program.body[f0] : LastPoint(f0, b) \in Nat \ {0}
      /\ program \in Programs
  BY AtAnInstruction, AtAnEntry DEF WalkOK
<1>2. Typed(range, Partial(Values)) /\ Shaped(range)
  BY DEF TypedFactsOK, Typed
<1>3. RangeIn \in Partial(Values)
  BY <1>1, <1>2 DEF Typed, RangeIn
<1>4. idx = LastPoint(f0, blk) <=> I.op \in Terminators
  BY <1>1, InstructionAt DEF I
<1>5. CASE I.op = "ret" /\ RangeRet
  <2>1. E = {}
    BY <1>5, AtTheEnd DEF ElementsOf, OnComparison, Terminators
  <2>2. range' = range
    BY <1>5 DEF RangeRet
  <2> QED
    BY <1>5, <2>1, <2>2 DEF Below
<1>6. CASE /\ I.op # "ret" /\ Ranges(new)
           /\ I.op \in {"br", "switch"} => E = {}
  <2>0. range' = Put(range, f0, blk, idx, new)
    BY <1>6 DEF Ranges, Put
  <2> HIDE DEF new, E, checked
  <2>1. \A f \in DOMAIN program.body : \A b \in DOMAIN program.body[f] :
          \A i \in 0..LastPoint(f, b) :
            range'[f][b][i] = IF f = f0 /\ b = blk /\ i = idx THEN new ELSE range[f][b][i]
    BY <1>1, <1>2, <2>0, StoredAtAPoint
  <2>2. \A b \in DOMAIN program.body[f0] : range'[f0][b][0] = range[f0][b][0]
    BY <1>1, <2>1
  <2>3. range'[f0][blk][idx] = new
    BY <1>1, <2>1
  <2>4. idx = LastPoint(f0, blk) => E = {}
    BY <1>4, <1>6 DEF Terminators
  <2>5. returnRanges' = returnRanges /\ Step(new # RangeOut)
    BY <1>6 DEF Ranges
  <2>6. \A b \in DOMAIN program.body[f0] : Below(range[f0][b][0], range'[f0][b][0])
    BY <2>2 DEF Below
  <2> QED
    BY <1>1, <1>6, <2>1, <2>2, <2>3, <2>4, <2>5, <2>6 DEF new, E, checked
<1>7. CASE I.op \in {"br", "switch"}
           /\ \E given \in SUBSET E :
                /\ RangeBranches(checked, given)
                /\ given = E \/ checked \cap DOMAIN RangeIn = {}
  <2>1. PICK given \in SUBSET E :
                /\ RangeBranches(checked, given)
                /\ given = E \/ checked \cap DOMAIN RangeIn = {}
    BY <1>7
  <2> DEFINE gives(p) == Narrowed(RangeIn, checked \cap returned[f0][p[1]][0], p[2])
             pushed == {<<p[1], gives(p)>> : p \in given}
  <2>2. new = Filtered(Copied, DOMAIN Copied \ checked)
    BY <1>1, <1>7 DEF Result, Copied, MayBeReturned, I, Body
  <2>3. range' = Pushed(range, new, pushed) /\ returnRanges' = returnRanges /\ Step(new # RangeOut)
    BY <2>1, <2>2 DEF RangeBranches
  <2>4. checked \subseteq Values
    BY <1>1, CheckedSlots, AddressesAre DEF WellFormed
  <2>5. \A p \in E : p[1] \in DOMAIN program.body[f0] /\ p[2] \in SUBSET Signs
    BY <1>1, ElementsType
  <2> HIDE DEF new, E, checked
  <2>6. ASSUME NEW p \in given
        PROVE  gives(p) \in Partial(Values)
    BY <1>3, <2>1, <2>4, <2>5, NarrowedType
  <2>7. ASSUME NEW q \in pushed
        PROVE  /\ q[2] \in Partial(Values)
               /\ DOMAIN q[2] \subseteq checked \cap returned[f0][q[1]][0]
    <3>1. PICK p \in given : q = <<p[1], gives(p)>>
      OBVIOUS
    <3>2. DOMAIN gives(p) = checked \cap returned[f0][p[1]][0]
      BY DEF Narrowed
    <3>3. gives(p) \in Partial(Values)
      BY <2>6
    <3> HIDE DEF gives
    <3> QED
      BY <3>1, <3>2, <3>3
  <2> DEFINE after == range'
  <2>8. /\ \A f \in DOMAIN program.body : \A b \in DOMAIN program.body[f] :
             \A i \in 0..LastPoint(f, b) :
               f # f0 \/ (i # 0 /\ ~(b = blk /\ i = idx)) => after[f][b][i] = range[f][b][i]
        /\ after[f0][blk][idx] = new
        /\ \A b \in DOMAIN program.body[f0] :
             /\ Below(range[f0][b][0], after[f0][b][0])
             /\ \A p \in pushed : p[1] = b => Below(p[2], after[f0][b][0])
             /\ DOMAIN after[f0][b][0] \subseteq
                  DOMAIN range[f0][b][0] \union
                    UNION {DOMAIN p[2] : p \in {q \in pushed : q[1] = b}}
    <3> HIDE DEF after, pushed
    <3>1. after = Pushed(range, new, pushed)
      BY <2>3 DEF after
    <3> QED
      BY <1>2, <2>7, <3>1, PushedMeans
  <2>9. ASSUME NEW b \in DOMAIN program.body[f0]
        PROVE  DOMAIN after[f0][b][0] \subseteq
                 DOMAIN range[f0][b][0] \union (checked \cap returned[f0][b][0])
    <3>1. \A q \in pushed : q[1] = b => DOMAIN q[2] \subseteq checked \cap returned[f0][b][0]
      BY <2>7
    <3> HIDE DEF pushed, after
    <3> QED
      BY <2>8, <3>1
  <2>10. ASSUME NEW p \in E
         PROVE  Below(Learnt(f0, blk, RangeIn, p), after[f0][p[1]][0])
    <3> DEFINE learnt == Learnt(f0, blk, RangeIn, p)
    <3>1. learnt = Narrowed(RangeIn, checked \cap returned[f0][p[1]][0] \cap DOMAIN RangeIn, p[2])
      BY DEF Learnt, checked
    <3>2. CASE checked \cap DOMAIN RangeIn = {}
      <4>1. DOMAIN learnt = {}
        BY <3>1, <3>2 DEF Narrowed
      <4> QED
        BY <4>1 DEF Below
    <3>3. CASE given = E
      <4>1. <<p[1], gives(p)>> \in pushed
        BY <2>10, <3>3
      <4>2. Below(gives(p), after[f0][p[1]][0])
        BY <2>5, <2>8, <2>10, <4>1
      <4>3. Below(learnt, gives(p))
        BY <3>1 DEF Narrowed, Below
      <4> HIDE DEF learnt, gives, after
      <4>4. Below(learnt, after[f0][p[1]][0])
        BY <4>2, <4>3, BelowTransitive
      <4> QED
        BY <4>4 DEF learnt, after
    <3> QED
      BY <2>1, <3>2, <3>3
  <2> HIDE DEF pushed
  <2> QED
    BY <1>7, <2>3, <2>8, <2>9, <2>10 DEF new, E, checked
<1> QED
  BY <1>5, <1>6, <1>7, RangeMeans

\* The entry of a block.
LEMMA RangeEntered ==
  ASSUME WalkOK, TypedFactsOK, EnterRange
  PROVE  /\ \A f \in DOMAIN program.body : \A b \in DOMAIN program.body[f] :
              \A i \in 0..LastPoint(f, b) :
                ~(f = f0 /\ b = blk /\ i = 0) => range'[f][b][i] = range[f][b][i]
         /\ Below(range[f0][blk][0], range'[f0][blk][0])
         /\ \A a \in Predecessors(f0, blk) :
              Below(Filtered(range[f0][a][LastPoint(f0, a)], returned[f0][blk][0]), range'[f0][blk][0])
         /\ DOMAIN range'[f0][blk][0] \subseteq
              DOMAIN range[f0][blk][0] \union
                UNION {DOMAIN range[f0][a][LastPoint(f0, a)] \cap returned[f0][blk][0] :
                         a \in Predecessors(f0, blk)}
<1> DEFINE T == {Filtered(range[f0][b][LastPoint(f0, b)], returned[f0][blk][0]) :
                   b \in Predecessors(f0, blk)}
           S == {range[f0][blk][0]} \union T
<1>1. blk > 0
  BY DEF EnterRange, Entering
<1>2. Typed(range, Partial(Values)) /\ Shaped(range)
  BY DEF TypedFactsOK, Typed
<1>3. S \in SUBSET Partial(Values)
  <2>1. ASSUME NEW b \in Predecessors(f0, blk)
        PROVE  Filtered(range[f0][b][LastPoint(f0, b)], returned[f0][blk][0]) \in Partial(Values)
    <3>1. range[f0][b][LastPoint(f0, b)] \in Partial(Values)
      BY <1>1, <1>2, AtAnEntry DEF Typed, Predecessors
    <3> QED
      BY <3>1, FilteredType
  <2>2. range[f0][blk][0] \in Partial(Values)
    BY <1>1, <1>2, AtAnEntry DEF Typed
  <2> QED
    BY <2>1, <2>2
<1>4. range' = Put(range, f0, blk, 0, JoinFacts(S))
  BY DEF EnterRange, Put
<1>5. /\ range[f0][blk][0] \in S
      /\ \A a \in Predecessors(f0, blk) :
           Filtered(range[f0][a][LastPoint(f0, a)], returned[f0][blk][0]) \in S
  OBVIOUS
<1>8. UNION {DOMAIN x : x \in S} \subseteq
        DOMAIN range[f0][blk][0] \union
          UNION {DOMAIN range[f0][a][LastPoint(f0, a)] \cap returned[f0][blk][0] :
                         a \in Predecessors(f0, blk)}
  BY DEF Filtered
<1> HIDE DEF S, T
<1>6. \A f \in DOMAIN program.body : \A b \in DOMAIN program.body[f] :
        \A i \in 0..LastPoint(f, b) :
          range'[f][b][i] =
            IF f = f0 /\ b = blk /\ i = 0 THEN JoinFacts(S) ELSE range[f][b][i]
  BY <1>1, <1>2, <1>4, AtAnEntry, StoredAtAPoint
<1>7. range'[f0][blk][0] = JoinFacts(S)
  BY <1>1, <1>6, AtAnEntry
<1>9. DOMAIN JoinFacts(S) = UNION {DOMAIN x : x \in S}
  BY DEF JoinFacts
<1>10. \A x \in S : Below(x, JoinFacts(S))
  BY <1>3, JoinFactsIsLeast
<1>11. Below(range[f0][blk][0], range'[f0][blk][0])
  BY <1>5, <1>7, <1>10
<1>12. \A a \in Predecessors(f0, blk) :
         Below(Filtered(range[f0][a][LastPoint(f0, a)], returned[f0][blk][0]), range'[f0][blk][0])
  BY <1>5, <1>7, <1>10
<1>13. DOMAIN range'[f0][blk][0] \subseteq
        DOMAIN range[f0][blk][0] \union
          UNION {DOMAIN range[f0][a][LastPoint(f0, a)] \cap returned[f0][blk][0] :
                         a \in Predecessors(f0, blk)}
  BY <1>7, <1>8, <1>9
<1> QED
  BY <1>6, <1>11, <1>12, <1>13

-----------------------------------------------------------------------------
(* The pass ends at a fixpoint.                                            *)

\* What the terminator of block a gives has reached its successors.
RangeGiven(f, a) ==
  \A p \in ElementsOf(f, a) : Below(Learnt(f, a, AtEnd(f, a), p), range[f][p[1]][0])

\* The terminator is next, and what it is visited with has changed.
RangeAhead(f, a) ==
  pass = "range" /\ f = f0 /\ a = blk /\ changed /\ idx = LastPoint(f, a)

RangesGivenOK ==
  \A f \in DOMAIN program.body : \A a \in DOMAIN program.body[f] :
    RangeGiven(f, a) \/ RangeAhead(f, a)

\* Facts are about numbers and addresses that may be returned.
SlotsOK ==
  \A f \in DOMAIN program.body : \A b \in DOMAIN program.body[f] :
    \A i \in 0..LastPoint(f, b) : DOMAIN range[f][b][i] \subseteq Known(f) \cap returned[f][b][i]

RangedSoFar ==
  \A b \in DOMAIN Body :
    /\ b = blk /\ idx = 1 => Gathered(f0, b, range[f0][b][0])
    /\ Visited(b, 1) => First(f0, b)
    /\ \A k \in 2..LastPoint(f0, b) : Visited(b, k) => RangedBy(f0, b, k, range[f0][b][k - 1])

\* What is stored of a function has grown since its component was entered: the
\* functions of a component with a loop will be visited again.
Moved == rangeChanged \/ Stored(f0) # original

Unsettled == scc \in program.loops /\ Moved

Current == {Members[n] : n \in DOMAIN Members}

\* What is stored only grows.
Grown ==
  \/ original = {}
  \/ f0 \in DOMAIN returnRanges /\ \E o \in SUBSET Signs : original = {o} /\ o \subseteq returnRanges[f0]

\* While no fact has changed in this round, nor what is stored of the functions
\* of a cycle, the points visited are stable; the functions left are.
RangesOK ==
  /\ pass \in {"propagation", "returned", "constraints"} =>
       range = Everywhere(Empty) /\ returnRanges = Empty /\ ~rangeChanged
  /\ pass = "range" =>
       /\ f0 \notin program.void /\ (blk = 0 \/ ~changed) /\ ~Unsettled => RangedSoFar
       /\ \A f \in Left \ program.void : Ranged(f) \/ (Unsettled /\ f \in Current)
       /\ Grown
  /\ pass = "done" => \A f \in Analysed \ program.void : Ranged(f)
  /\ RangesGivenOK
  /\ SlotsOK

\* A function that calls the one that is visited and has been left is in a cycle
\* with it.
LEMMA CallsInCycle ==
  ASSUME WalkOK, CalleesFirst(program), NEW f \in Left \union {f0}, f0 \in Callees(f)
  PROVE  scc \in program.loops /\ f \in Current
<1>1. f0 \in DOMAIN program.body /\ scc \in DOMAIN program.members /\ fn \in DOMAIN program.members[scc]
  BY HereType DEF WalkOK, Members
<1>2. f \in DOMAIN program.body
  BY <1>1 DEF Left
<1>3. PICK d \in Points(f) : /\ program.body[f][d[1]][d[2]].op = "call"
                             /\ program.body[f][d[1]][d[2]].tag = f0
  BY DEF Callees
<1>4. d[1] \in DOMAIN program.body[f] /\ d[2] \in DOMAIN program.body[f][d[1]]
  BY <1>2, <1>3, BodyType DEF Points, WalkOK
<1>5. PICK c \in DOMAIN program.members :
        \E m \in DOMAIN program.members[c] :
          program.members[c][m] = f /\ (c < scc \/ c = scc)
  BY <1>1 DEF Left, f0, Members
<1>6. PICK m \in DOMAIN program.members[c] : program.members[c][m] = f
  BY <1>5
<1>7. program.members[scc][fn] = program.body[f][d[1]][d[2]].tag
  BY <1>3 DEF f0, Members
<1>8. scc < c \/ (scc = c /\ c \in program.loops)
  BY <1>1, <1>2, <1>3, <1>4, <1>6, <1>7, CalleeFirst
<1>9. c \in Nat /\ scc \in Nat
  BY MemberPlaces, PlaceType, <1>6 DEF WalkOK
<1>10. c = scc
  BY <1>5, <1>8, <1>9
<1>11. scc \in program.loops
  BY <1>8, <1>9, <1>10
<1>12. m \in DOMAIN Members /\ Members[m] = f
  BY <1>6, <1>10 DEF Members
<1> QED
  BY <1>11, <1>12 DEF Current

\* Where no fact is written the fixpoint of a function stays.
LEMMA UnwrittenSame ==
  ASSUME program' = program, returned' = returned, returnRanges' = returnRanges,
         NEW f,
         \A b \in DOMAIN program.body[f] : \A i \in 1..LastPoint(f, b) :
           range'[f][b][i] = range[f][b][i]
  PROVE  SameFor(f)
<1>1. \A g : AbstractCall(g)' = AbstractCall(g)
  BY DEF AbstractCall
<1> QED
  BY <1>1 DEF SameFor

LEMMA LeftStaysRanged ==
  ASSUME WalkOK, TestsWhereComputed(program), RangesOK, pass = "range",
         program' = program, scc' = scc, fn' = fn, Unsettled => Unsettled',
         \A f \in Left \ program.void : SameFor(f) \/ (Unsettled' /\ f \in Current)
  PROVE  \A f \in Left' \ program.void : Ranged(f)' \/ (Unsettled' /\ f \in Current')
<1>1. Left' = Left /\ Current' = Current
  BY DEF Left, Current, Members
<1> SUFFICES ASSUME NEW f \in Left \ program.void, ~(Unsettled' /\ f \in Current)
             PROVE  Ranged(f)'
  BY <1>1
<1>2. f \in DOMAIN program.body
  BY DEF Left
<1>3. Ranged(f)
  BY DEF RangesOK
<1> QED
  BY <1>2, <1>3, RangedKept DEF WalkOK

\* Entries only grow, and what comes before the terminators stays.
LEMMA RangeGivenKept ==
  ASSUME program \in Programs, TestsWhereComputed(program),
         program' = program, returned' = returned,
         NEW f \in DOMAIN program.body, NEW a \in DOMAIN program.body[f],
         \A b \in DOMAIN program.body[f] : Below(range[f][b][0], range'[f][b][0]),
         LastPoint(f, a) > 1 =>
           range'[f][a][LastPoint(f, a) - 1] = range[f][a][LastPoint(f, a) - 1],
         RangeGiven(f, a)
  PROVE  RangeGiven(f, a)'
<1>1. ElementsOf(f, a)' = ElementsOf(f, a) /\ LastPoint(f, a)' = LastPoint(f, a)
  BY TestedSame
<1>2. ASSUME NEW p \in ElementsOf(f, a)
      PROVE  Below(Learnt(f, a, AtEnd(f, a), p), range[f][p[1]][0])'
  <2>1. p[1] \in DOMAIN program.body[f]
    BY ElementsType
  <2>2. Below(Learnt(f, a, range[f][a][LastPoint(f, a) - 1], p), range[f][p[1]][0])
    BY DEF RangeGiven, AtEnd
  <2>3. Below(Learnt(f, a, range'[f][a][LastPoint(f, a) - 1], p), range[f][p[1]][0])
    BY <2>2, LearntSame
  <2>4. Below(Learnt(f, a, range'[f][a][LastPoint(f, a) - 1], p), range'[f][p[1]][0])
    BY <2>1, <2>3, BelowTransitive
  <2>5. AtEnd(f, a)' = range'[f][a][LastPoint(f, a) - 1]
    BY <1>1 DEF AtEnd
  <2>6. Learnt(f, a, AtEnd(f, a), p)' = Learnt(f, a, AtEnd(f, a)', p)
    BY TestedSame DEF Learnt, Narrowed
  <2> QED
    BY <2>4, <2>5, <2>6 DEF Below
<1> QED
  BY <1>1, <1>2 DEF RangeGiven

\* Gathered and RangedBy of a fixed fact, after a step that writes the facts.
LEMMA GatheredAfter ==
  ASSUME program \in Programs, program' = program, returned' = returned,
         NEW f \in DOMAIN program.body, NEW b \in DOMAIN program.body[f], NEW e,
         DOMAIN e \subseteq Known(f) \cap returned[f][b][0],
         \A a \in Predecessors(f, b) :
           Below(Filtered(range'[f][a][LastPoint(f, a)], returned[f][b][0]), e),
         \A a \in DOMAIN program.body[f] : \A p \in ElementsOf(f, a) :
           p[1] = b => Below(Learnt(f, a, range'[f][a][LastPoint(f, a) - 1], p), e)
  PROVE  Gathered(f, b, e)'
<1>1. /\ Known(f)' = Known(f) /\ Predecessors(f, b)' = Predecessors(f, b)
      /\ \A a : ElementsOf(f, a)' = ElementsOf(f, a)
      /\ \A a : LastPoint(f, a)' = LastPoint(f, a)
  BY TestedSame
<1>2. ASSUME NEW a \in Predecessors(f, b)
      PROVE  Below(Filtered(range[f][a][LastPoint(f, a)], returned[f][b][0]), e)'
  BY <1>1, <1>2 DEF Below, Filtered
<1>3. ASSUME NEW a \in DOMAIN program.body[f], NEW p \in ElementsOf(f, a), p[1] = b
      PROVE  Below(Learnt(f, a, AtEnd(f, a), p), e)'
  <2>1. AtEnd(f, a)' = range'[f][a][LastPoint(f, a) - 1]
    BY <1>1 DEF AtEnd
  <2>2. Below(Learnt(f, a, AtEnd(f, a)', p), e)
    BY <1>3, <2>1
  <2>3. Learnt(f, a, AtEnd(f, a), p)' = Learnt(f, a, AtEnd(f, a)', p)
    BY TestedSame DEF Learnt, Narrowed
  <2> QED
    BY <2>2, <2>3 DEF Below
<1>4. (DOMAIN e \subseteq Known(f) \cap returned[f][b][0])'
  BY <1>1
<1> QED
  BY <1>1, <1>2, <1>3, <1>4 DEF Gathered

LEMMA EntersRanged ==
  ASSUME WalkOK, TypedFactsOK, WellFormed(program), RangesOK, EnterRange
  PROVE  RangesOK'
<1>1. /\ program' = program /\ returned' = returned /\ returnRanges' = returnRanges
      /\ pass = "range" /\ pass' = pass /\ scc' = scc /\ fn' = fn
      /\ rangeChanged' = rangeChanged /\ original' = original
      /\ blk > 0 /\ idx = 0 /\ blk' = blk /\ idx' = 1 /\ changed' = changed
  BY DEF EnterRange, Entering, Entered
<1>2. /\ f0 \in DOMAIN program.body /\ blk \in DOMAIN Body /\ Body = program.body[f0]
      /\ program \in Programs /\ TestsWhereComputed(program)
  BY <1>1, HereType DEF WellFormed, WalkOK
<1>3. f0' = f0 /\ Body' = Body /\ Unsettled' = Unsettled /\ Grown' = Grown
  BY <1>1 DEF f0, Members, Body, Unsettled, Moved, Stored, Grown
<1>4. \A f \in DOMAIN program.body : \A b \in DOMAIN program.body[f] :
        LastPoint(f, b) \in Nat \ {0} /\ LastPoint(f, b)' = LastPoint(f, b)
  BY <1>1, BodyType DEF WalkOK, LastPoint
<1>5. \A f \in DOMAIN program.body : \A b \in DOMAIN program.body[f] :
        \A i \in 0..LastPoint(f, b) :
          ~(f = f0 /\ b = blk /\ i = 0) => range'[f][b][i] = range[f][b][i]
  BY RangeEntered
<1>6. \A f \in DOMAIN program.body : SameFor(f)
  <2>1. \A f \in DOMAIN program.body : \A b \in DOMAIN program.body[f] :
          \A i \in 1..LastPoint(f, b) : range'[f][b][i] = range[f][b][i]
    BY <1>4, <1>5
  <2> QED
    BY <1>1, <2>1, UnwrittenSame
<1>7. SlotsOK'
  <2>1. ASSUME NEW f \in DOMAIN program.body, NEW b \in DOMAIN program.body[f],
               NEW i \in 0..LastPoint(f, b)
        PROVE  DOMAIN range'[f][b][i] \subseteq Known(f) \cap returned[f][b][i]
    <3>1. CASE ~(f = f0 /\ b = blk /\ i = 0)
      BY <1>5, <3>1 DEF RangesOK, SlotsOK
    <3>2. CASE f = f0 /\ b = blk /\ i = 0
      <4>1. \A a \in Predecessors(f0, blk) : DOMAIN range[f0][a][LastPoint(f0, a)] \subseteq Known(f0)
        <5> SUFFICES ASSUME NEW a \in Predecessors(f0, blk)
                     PROVE  DOMAIN range[f0][a][LastPoint(f0, a)] \subseteq Known(f0)
          OBVIOUS
        <5>1. a \in DOMAIN program.body[f0]
          BY DEF Predecessors
        <5>2. LastPoint(f0, a) \in 0..LastPoint(f0, a)
          BY <1>2, <1>4, <5>1
        <5> QED
          BY <1>2, <5>1, <5>2 DEF RangesOK, SlotsOK
      <4>2. DOMAIN range[f0][blk][0] \subseteq Known(f0) \cap returned[f0][blk][0]
        BY <2>1, <3>2 DEF RangesOK, SlotsOK
      <4>3. DOMAIN range'[f0][blk][0] \subseteq
              DOMAIN range[f0][blk][0] \union
                UNION {DOMAIN range[f0][a][LastPoint(f0, a)] \cap returned[f0][blk][0] :
                         a \in Predecessors(f0, blk)}
        BY RangeEntered
      <4>4. DOMAIN range'[f0][blk][0] \subseteq Known(f0) \cap returned[f0][blk][0]
        BY <4>1, <4>2, <4>3
      <4> QED
        BY <3>2, <4>4
    <3> QED
      BY <3>1, <3>2
  <2>2. \A f : Known(f)' = Known(f)
    BY <1>1, TestedSame
  <2> QED
    BY <1>1, <1>4, <2>1, <2>2 DEF SlotsOK
<1>8. ASSUME NEW f \in DOMAIN program.body, NEW a \in DOMAIN program.body[f]
      PROVE  RangeGiven(f, a)'
  <2>1. ASSUME NEW b \in DOMAIN program.body[f]
        PROVE  Below(range[f][b][0], range'[f][b][0])
    <3>1. 0 \in 0..LastPoint(f, b)
      BY <1>4
    <3>2. CASE f = f0 /\ b = blk
      BY <3>2, RangeEntered
    <3>3. CASE ~(f = f0 /\ b = blk)
      BY <1>5, <3>1, <3>3 DEF Below
    <3> QED
      BY <3>2, <3>3
  <2>2. RangeGiven(f, a)
    BY <1>1, <1>4 DEF RangesOK, RangesGivenOK, RangeAhead
  <2>3. LastPoint(f, a) > 1 =>
          range'[f][a][LastPoint(f, a) - 1] = range[f][a][LastPoint(f, a) - 1]
    BY <1>4, <1>5
  <2> QED
    BY <1>1, <1>2, <2>1, <2>2, <2>3, RangeGivenKept
<1>9. RangesGivenOK'
  BY <1>1, <1>8 DEF RangesGivenOK
<1>10. ASSUME RangedSoFar
       PROVE  RangedSoFar'
  <2>1. ASSUME NEW e, e = range'[f0][blk][0]
        PROVE  Gathered(f0, blk, e)'
    <3>1. ASSUME NEW f \in DOMAIN program.body, NEW b \in DOMAIN program.body[f], f = f0, b = blk
          PROVE  Gathered(f, b, e)'
      <4>1. 0 \in 0..LastPoint(f, b) /\ LastPoint(f, b)' = LastPoint(f, b)
        BY <1>4
      <4>2. DOMAIN e \subseteq Known(f) \cap returned[f][b][0]
        BY <1>1, <1>7, <2>1, <3>1, <4>1, TestedSame DEF SlotsOK
      <4>3. ASSUME NEW a \in Predecessors(f, b)
            PROVE  Below(Filtered(range'[f][a][LastPoint(f, a)], returned[f][b][0]), e)
        <5>1. a \in DOMAIN program.body[f]
          BY <4>3 DEF Predecessors
        <5>2. range'[f][a][LastPoint(f, a)] = range[f][a][LastPoint(f, a)]
          BY <1>4, <1>5, <5>1
        <5> QED
          BY <2>1, <3>1, <5>2, RangeEntered
      <4>4. ASSUME NEW a \in DOMAIN program.body[f], NEW p \in ElementsOf(f, a), p[1] = b
            PROVE  Below(Learnt(f, a, range'[f][a][LastPoint(f, a) - 1], p), e)
        <5>1. RangeGiven(f, a)'
          BY <1>8
        <5>2. Below(Learnt(f, a, AtEnd(f, a), p), range[f][p[1]][0])'
          BY <1>1, <5>1, TestedSame DEF RangeGiven
        <5>3. AtEnd(f, a)' = range'[f][a][LastPoint(f, a) - 1]
          BY <1>4 DEF AtEnd
        <5>4. Learnt(f, a, AtEnd(f, a), p)' = Learnt(f, a, AtEnd(f, a)', p)
          BY <1>1, TestedSame DEF Learnt, Narrowed
        <5> QED
          BY <2>1, <3>1, <4>4, <5>2, <5>3, <5>4 DEF Below
      <4> QED
        BY <1>1, <1>2, <4>2, <4>3, <4>4, GatheredAfter
    <3> QED
      BY <1>1, <1>2, <1>3, <3>1
  <2>2. ASSUME NEW b \in DOMAIN Body, Visited(b, 1)
        PROVE  First(f0, b)'
    <3>1. ASSUME NEW f \in DOMAIN program.body, f = f0, b \in DOMAIN program.body[f], First(f, b)
          PROVE  First(f, b)'
      BY <1>2, <1>6, <3>1, FirstKept
    <3> QED
      BY <1>2, <1>3, <1>10, <2>2, <3>1 DEF RangedSoFar
  <2>3. ASSUME NEW b \in DOMAIN Body, NEW k \in 2..LastPoint(f0, b), Visited(b, k)
        PROVE  RangedBy(f0, b, k, range[f0][b][k - 1])'
    <3>1. k \in 1..LastPoint(f0, b) /\ k - 1 \in 0..LastPoint(f0, b) /\ k - 1 # 0
      BY <1>2, <1>4
    <3>2. range'[f0][b][k - 1] = range[f0][b][k - 1]
      BY <1>2, <1>5, <3>1
    <3>3. ASSUME NEW f \in DOMAIN program.body, f = f0, b \in DOMAIN program.body[f], NEW in,
                 in = range[f0][b][k - 1]
          PROVE  RangedBy(f, b, k, in)'
      <4>1. RangedBy(f, b, k, in)
        BY <1>10, <2>3, <3>3 DEF RangedSoFar
      <4> QED
        BY <1>2, <1>6, <3>1, <3>3, <4>1, RangedByKept
    <3> QED
      BY <1>2, <1>3, <3>2, <3>3
  <2>4. \A b \in DOMAIN Body : \A k \in 1..LastPoint(f0, b) : Visited(b, k)' => Visited(b, k)
    <3>1. \A b \in DOMAIN Body : b \in Nat
      BY <1>2, BodyType DEF WalkOK
    <3> QED
      BY <1>1, <1>2, <1>4, <3>1 DEF Visited
  <2>5. ASSUME NEW b \in DOMAIN Body
        PROVE  /\ b = blk' /\ idx' = 1 => Gathered(f0, b, range[f0][b][0])'
               /\ Visited(b, 1)' => First(f0, b)'
               /\ \A k \in 2..LastPoint(f0, b) :
                    Visited(b, k)' => RangedBy(f0, b, k, range[f0][b][k - 1])'
    <3>0. 1 \in 1..LastPoint(f0, b) /\ \A k \in 2..LastPoint(f0, b) : k \in 1..LastPoint(f0, b)
      BY <1>2, <1>4
    <3>1. b = blk' => Gathered(f0, b, range[f0][b][0])'
      BY <1>1, <1>3, <2>1
    <3> QED
      BY <2>2, <2>3, <2>4, <3>0, <3>1
  <2> QED
    BY <1>1, <1>2, <1>3, <1>4, <2>5 DEF RangedSoFar
<1>11. \A f \in Left' \ program.void : Ranged(f)' \/ (Unsettled' /\ f \in Current')
  <2>1. \A f \in Left \ program.void : SameFor(f)
    BY <1>6 DEF Left
  <2> QED
    BY <1>1, <1>2, <1>3, <2>1, LeftStaysRanged
<1>12. /\ f0 \notin program.void /\ ~changed /\ ~Unsettled => RangedSoFar
       /\ Grown
  BY <1>1 DEF RangesOK
<1>13. f0' \notin program'.void /\ (blk' = 0 \/ ~changed') /\ ~Unsettled' => RangedSoFar'
  BY <1>1, <1>3, <1>10, <1>12
<1> QED
  BY <1>1, <1>3, <1>7, <1>9, <1>11, <1>12, <1>13 DEF RangesOK

\* What a visit leaves given, and the facts about slots.
LEMMA VisitsRangesGiven ==
  ASSUME WalkOK, TypedFactsOK, WellFormed(program), RangesOK,
         pass = "range", blk > 0, idx > 0, AnalysisNext
  PROVE  RangesGivenOK' /\ SlotsOK'
<1> DEFINE new == Result(f0, blk, idx, RangeIn)
           d == IF I.op = "ret" THEN FALSE ELSE new # RangeOut
<1>1. /\ Step(d) /\ returned' = returned
      /\ program' = program /\ pass' = pass /\ scc' = scc /\ fn' = fn
  <2>1. CASE I.op = "ret"
    <3>1. RangeRet
      BY <2>1, RangeVisited
    <3>2. Step(d)
      BY <2>1, <3>1 DEF RangeRet
    <3> QED
      BY <3>1, <3>2, StepKeeps DEF RangeRet
  <2>2. CASE I.op # "ret"
    <3>1. Step(d)
      BY <2>2, RangeVisited
    <3>2. returned' = returned
      BY OfOnePass DEF OfReturned, EnterReturned, ReturnedCall, ReturnedRet, ReturnedStore,
           ReturnedLoad, ReturnedPhi, ReturnedOther, Entering, At, Others
    <3> HIDE DEF d
    <3> QED
      BY <3>1, <3>2, StepKeeps
  <2> QED
    BY <2>1, <2>2
<1>2. /\ f0 \in DOMAIN program.body /\ Body = program.body[f0] /\ blk \in DOMAIN program.body[f0]
      /\ idx \in 1..LastPoint(f0, blk) /\ LastPoint(f0, blk) \in Nat
      /\ LastPoint(f0, blk) = Len(Body[blk])
      /\ program \in Programs /\ TestsWhereComputed(program)
  BY AtAnInstruction DEF LastPoint, WalkOK, WellFormed
<1>3. f0' = f0
  BY <1>1 DEF f0, Members
<1>4. \A f \in DOMAIN program.body : \A b \in DOMAIN program.body[f] :
        LastPoint(f, b) \in Nat \ {0} /\ LastPoint(f, b)' = LastPoint(f, b)
  BY <1>1, BodyType DEF WalkOK, LastPoint
<1>5. \A f \in DOMAIN program.body : \A b \in DOMAIN program.body[f] :
        \A i \in 0..LastPoint(f, b) :
          f # f0 \/ (i # 0 /\ ~(b = blk /\ i = idx)) => range'[f][b][i] = range[f][b][i]
  BY RangeVisited
<1>6. \A f \in DOMAIN program.body : \A b \in DOMAIN program.body[f] :
        Below(range[f][b][0], range'[f][b][0])
  <2> SUFFICES ASSUME NEW f \in DOMAIN program.body, NEW b \in DOMAIN program.body[f]
               PROVE  Below(range[f][b][0], range'[f][b][0])
    OBVIOUS
  <2>1. 0 \in 0..LastPoint(f, b)
    BY <1>4
  <2>2. CASE f = f0
    BY <2>2, RangeVisited
  <2>3. CASE f # f0
    BY <1>5, <2>1, <2>3 DEF Below
  <2> QED
    BY <2>2, <2>3
<1>7. I.op = "ret" => range'[f0][blk][idx] = RangeOut
  BY RangeVisited DEF RangeOut
<1>8. I.op # "ret" => range'[f0][blk][idx] = new
  BY RangeVisited
<1>9. ~d => range'[f0][blk][idx] = RangeOut
  BY <1>7, <1>8
<1>10. SlotsOK'
  <2>1. DOMAIN RangeIn \subseteq Known(f0)
    <3>1. idx - 1 \in 0..LastPoint(f0, blk)
      BY <1>2
    <3> QED
      BY <1>2, <3>1 DEF RangesOK, SlotsOK, RangeIn
  <2>2. DOMAIN new \subseteq Known(f0) \cap returned[f0][blk][idx]
    <3>1. idx \in DOMAIN program.body[f0][blk]
      BY <1>2, BodyType
    <3> QED
      BY <1>2, <2>1, <3>1, ResultDomain DEF WellFormed
  <2> HIDE DEF new, d
  <2>3. DOMAIN range'[f0][blk][idx] \subseteq Known(f0) \cap returned[f0][blk][idx]
    <3>1. DOMAIN RangeOut \subseteq Known(f0) \cap returned[f0][blk][idx]
      <4>1. idx \in 0..LastPoint(f0, blk)
        BY <1>2
      <4> QED
        BY <1>2, <4>1 DEF RangesOK, SlotsOK, RangeOut
    <3> QED
      BY <1>7, <1>8, <2>2, <3>1
  <2>4. ASSUME NEW f \in DOMAIN program.body, NEW b \in DOMAIN program.body[f],
               NEW i \in 0..LastPoint(f, b)
        PROVE  DOMAIN range'[f][b][i] \subseteq Known(f) \cap returned[f][b][i]
    <3>0. DOMAIN range[f][b][i] \subseteq Known(f) \cap returned[f][b][i]
      BY DEF RangesOK, SlotsOK
    <3>1. CASE f # f0 \/ (i # 0 /\ ~(b = blk /\ i = idx))
      BY <1>5, <3>0, <3>1
    <3>2. CASE f = f0 /\ b = blk /\ i = idx
      BY <2>3, <3>2
    <3>3. CASE f = f0 /\ i = 0
      <4>1. DOMAIN range'[f0][b][0] \subseteq
              DOMAIN range[f0][b][0] \union (CheckedBy(f0, blk) \cap returned[f0][b][0])
        BY <3>3, RangeVisited
      <4>2. CheckedBy(f0, blk) \subseteq Known(f0)
        BY <1>2, CheckedSlots DEF WellFormed, Known
      <4> QED
        BY <3>0, <3>3, <4>1, <4>2
    <3> QED
      BY <3>1, <3>2, <3>3
  <2>5. \A f : Known(f)' = Known(f)
    BY <1>1, TestedSame
  <2> QED
    BY <1>1, <1>4, <2>4, <2>5 DEF SlotsOK
<1> HIDE DEF d, new
<1>11. ASSUME NEW f \in DOMAIN program.body, NEW a \in DOMAIN program.body[f],
              LastPoint(f, a) > 1 =>
                range'[f][a][LastPoint(f, a) - 1] = range[f][a][LastPoint(f, a) - 1],
              ~RangeAhead(f, a)
       PROVE  RangeGiven(f, a)'
  <2>1. RangeGiven(f, a)
    BY <1>11 DEF RangesOK, RangesGivenOK
  <2> QED
    BY <1>1, <1>2, <1>6, <1>11, <2>1, RangeGivenKept
<1>12. ASSUME NEW f \in DOMAIN program.body, NEW a \in DOMAIN program.body[f]
       PROVE  RangeGiven(f, a)' \/ RangeAhead(f, a)'
  <2> DEFINE n == LastPoint(f, a)
  <2>0. n \in Nat \ {0}
    BY <1>4
  <2>1. CASE ~(f = f0 /\ a = blk)
    <3>1. ~RangeAhead(f, a)
      BY <2>1 DEF RangeAhead
    <3>2. n > 1 => range'[f][a][n - 1] = range[f][a][n - 1]
      BY <1>5, <2>0, <2>1
    <3> QED
      BY <1>11, <3>1, <3>2
  <2>2. CASE f = f0 /\ a = blk /\ idx = n
    <3>1. ASSUME NEW p \in ElementsOf(f, a)
          PROVE  Below(Learnt(f, a, AtEnd(f, a), p), range[f][p[1]][0])'
      <4>1. Below(Learnt(f0, blk, RangeIn, p), range'[f0][p[1]][0])
        BY <2>2, <3>1, RangeVisited
      <4>2. n > 1 => range'[f][a][n - 1] = RangeIn
        <5>1. n > 1 => range'[f][a][n - 1] = range[f][a][n - 1]
          BY <1>5, <2>0, <2>2
        <5> QED
          BY <2>2, <5>1 DEF RangeIn
      <4>3. Below(Learnt(f, a, range'[f][a][n - 1], p), range'[f][p[1]][0])
        BY <1>2, <2>2, <4>1, <4>2, LearntSame
      <4>4. AtEnd(f, a)' = range'[f][a][n - 1]
        BY <1>4 DEF AtEnd
      <4>5. Learnt(f, a, AtEnd(f, a), p)' = Learnt(f, a, AtEnd(f, a)', p)
        BY <1>1, TestedSame DEF Learnt, Narrowed
      <4> QED
        BY <4>3, <4>4, <4>5 DEF Below
    <3>2. ElementsOf(f, a)' = ElementsOf(f, a)
      BY <1>1, TestedSame
    <3> QED
      BY <3>1, <3>2 DEF RangeGiven
  <2>3. CASE f = f0 /\ a = blk /\ idx # n
    <3>1. idx < n
      BY <1>2, <2>3
    <3>2. ~RangeAhead(f, a)
      BY <2>3 DEF RangeAhead
    <3>4. CASE idx = n - 1 /\ d
      <4>1. ~LastOfBlock
        BY <1>2, <2>3 DEF LastOfBlock
      <4>2. idx' = idx + 1 /\ blk' = blk /\ changed'
        BY <1>1, <3>4, <4>1 DEF Step
      <4>3. idx' = LastPoint(f, a)'
        BY <1>4, <2>0, <3>4, <4>2
      <4> QED
        BY <1>1, <1>3, <2>3, <4>2, <4>3 DEF RangeAhead
    <3>5. CASE idx = n - 1 /\ ~d
      <4>1. range'[f][a][n - 1] = range[f][a][n - 1]
        BY <1>9, <2>3, <3>5 DEF RangeOut
      <4> QED
        BY <1>11, <3>2, <4>1
    <3>6. CASE idx # n - 1
      <4>1. n > 1 => range'[f][a][n - 1] = range[f][a][n - 1]
        BY <1>5, <2>0, <2>3, <3>6
      <4> QED
        BY <1>11, <3>2, <4>1
    <3> QED
      BY <3>4, <3>5, <3>6
  <2> QED
    BY <2>1, <2>2, <2>3
<1>13. RangesGivenOK'
  BY <1>1, <1>4, <1>12 DEF RangesGivenOK
<1> QED
  BY <1>10, <1>13

\* A visit that changes nothing leaves stable what was visited, its own point
\* included.
LEMMA RoundGoesOn ==
  ASSUME WalkOK, TypedFactsOK, WellFormed(program), pass = "range", blk > 0, idx > 0,
         Step(FALSE), RangedSoFar, SameFor(f0),
         \A f, b, k, in : f = f0 /\ b = blk /\ k = idx /\ in = RangeIn => RangedBy(f, b, k, in)'
  PROVE  RangedSoFar'
<1>1. /\ program' = program /\ pass' = pass /\ scc' = scc /\ fn' = fn
  BY StepKeeps
<1>2. /\ f0 \in DOMAIN program.body /\ Body = program.body[f0] /\ blk \in DOMAIN Body
      /\ idx \in 1..LastPoint(f0, blk) /\ LastPoint(f0, blk) \in Nat
      /\ program \in Programs /\ TestsWhereComputed(program)
  BY AtAnInstruction DEF WalkOK, WellFormed
<1>3. f0' = f0 /\ Body' = Body
  BY <1>1 DEF f0, Members, Body
<1>4. \A b \in DOMAIN Body : LastPoint(f0, b) \in Nat \ {0} /\ LastPoint(f0, b)' = LastPoint(f0, b)
  BY <1>1, <1>2, <1>3, BodyType DEF LastPoint
<1>5. \A b \in DOMAIN Body : \A i \in 1..LastPoint(f0, b) :
        Visited(b, i)' => \/ Visited(b, i) \/ (b = blk /\ i = idx)
                          \/ blk' = 1 /\ idx' = 0
  <2>1. \A b \in DOMAIN Body : b \in 1..Len(Body)
    BY <1>2, BodyType DEF WalkOK
  <2>2. \A b \in DOMAIN Body : LastPoint(f0, b) = Len(Body[b])
    BY <1>2 DEF LastPoint
  <2>3. CASE ~LastOfBlock
    BY <1>4, <2>1, <2>3, HereType DEF Step, Visited, LastOfBlock, WalkOK
  <2>4. CASE LastOfBlock
    BY <1>4, <2>1, <2>2, <2>4, HereType DEF Step, Visited, LastOfBlock, WalkOK
  <2> QED
    BY <2>3, <2>4
<1>6. ~(idx' = 1 /\ blk' # 0)
  BY <1>2, HereType DEF Step, LastOfBlock, WalkOK
<1>7. CASE blk' = 1 /\ idx' = 0
  <2>1. \A b \in DOMAIN Body : \A i \in Nat : ~Visited(b, i)'
    BY <1>2, <1>7, HereType, BodyType DEF Visited, WalkOK
  <2>2. \A b \in DOMAIN Body : \A k \in 2..LastPoint(f0, b) : k \in Nat
    BY <1>4
  <2> QED
    BY <1>3, <1>4, <1>7, <2>1, <2>2 DEF RangedSoFar
<1>8. CASE ~(blk' = 1 /\ idx' = 0)
  <2>1. ASSUME NEW b \in DOMAIN Body, Visited(b, 1)'
        PROVE  First(f0, b)'
    <3>0. 1 \in 1..LastPoint(f0, b)
      BY <1>4
    <3>1. CASE Visited(b, 1)
      <4>1. ASSUME NEW f \in DOMAIN program.body, f = f0
            PROVE  First(f, b)'
        BY <1>2, <2>1, <3>1, <4>1, FirstKept DEF RangedSoFar
      <4> QED
        BY <1>2, <1>3, <4>1
    <3>2. CASE b = blk /\ idx = 1
      <4>1. ASSUME NEW f \in DOMAIN program.body, f = f0, NEW e, e = RangeIn
            PROVE  First(f, b)'
        <5>1. Gathered(f, b, e)
          BY <3>2, <4>1 DEF RangedSoFar, RangeIn
        <5>2. Gathered(f, b, e)'
          BY <1>2, <2>1, <4>1, <5>1, GatheredKept
        <5>3. RangedBy(f, b, 1, e)'
          BY <3>2, <4>1
        <5>4. e \in Partial(Values)
          BY <1>2, <3>2, <4>1 DEF TypedFactsOK, Typed, RangeIn
        <5> QED
          BY <5>2, <5>3, <5>4 DEF First, Partial
      <4> QED
        BY <1>2, <1>3, <4>1
    <3> QED
      BY <1>5, <1>8, <2>1, <3>0, <3>1, <3>2
  <2>2. ASSUME NEW b \in DOMAIN Body, NEW k \in 2..LastPoint(f0, b), Visited(b, k)'
        PROVE  RangedBy(f0, b, k, range[f0][b][k - 1])'
    <3>0. k \in 1..LastPoint(f0, b) /\ k - 1 \in 1..LastPoint(f0, b)
      BY <1>4
    <3>1. range'[f0][b][k - 1] = range[f0][b][k - 1]
      BY <1>2, <3>0 DEF SameFor
    <3>2. ASSUME NEW f \in DOMAIN program.body, f = f0, NEW in, in = range[f0][b][k - 1]
          PROVE  RangedBy(f, b, k, in)'
      <4>1. CASE Visited(b, k)
        <5>1. RangedBy(f, b, k, in)
          BY <2>2, <3>2, <4>1 DEF RangedSoFar
        <5> QED
          BY <1>2, <2>2, <3>0, <3>2, <5>1, RangedByKept
      <4>2. CASE b = blk /\ k = idx
        BY <3>2, <4>2 DEF RangeIn
      <4> QED
        BY <1>5, <1>8, <2>2, <3>0, <4>1, <4>2
    <3> QED
      BY <1>2, <1>3, <3>1, <3>2
  <2>3. \A b \in DOMAIN Body : ~(b = blk' /\ idx' = 1)
    BY <1>2, <1>6, BodyType
  <2>4. \A b \in DOMAIN Body : \A k \in 2..LastPoint(f0, b)' : k \in 2..LastPoint(f0, b)
    BY <1>4
  <2> QED
    BY <1>3, <2>1, <2>2, <2>3, <2>4 DEF RangedSoFar
<1> QED
  BY <1>7, <1>8

\* Where the pass is after a visit.
LEMMA RoundAfter ==
  ASSUME WalkOK, pass = "range", blk > 0, idx > 0, NEW d \in BOOLEAN, Step(d),
         blk' = 0 \/ ~changed'
  PROVE  (~d /\ ~changed) \/ (blk' = 1 /\ idx' = 0)
<1>1. CASE changed' = (changed \/ d) /\ blk' # 0
  BY <1>1
<1>2. CASE idx' = 0 /\ blk' = IF changed \/ d THEN 1 ELSE 0
  BY <1>2
<1>3. \/ changed' = (changed \/ d) /\ blk' # 0
      \/ idx' = 0 /\ blk' = IF changed \/ d THEN 1 ELSE 0
  BY HereType DEF Step, WalkOK
<1> QED
  BY <1>1, <1>2, <1>3

\* At the start of a round nothing has been visited.
LEMMA RoundStarts ==
  ASSUME program \in Programs, program' = program, WalkOK', blk' = 1, idx' = 0
  PROVE  RangedSoFar'
<1>1. f0' \in DOMAIN program.body
  BY MembersType DEF WalkOK, f0, Members
<1>2. Body' = program.body[f0'] /\ \A b : LastPoint(f0, b)' = Len(Body'[b])
  BY DEF Body, LastPoint
<1>3. Body' \in Seq(Seq(Instructions))
  BY <1>1, <1>2, BodyType
<1>4. \A b \in DOMAIN Body' : b \in Nat \ {0}
  BY <1>3
<1>5. \A b \in DOMAIN Body' : \A i \in Nat : ~Visited(b, i)'
  BY <1>4 DEF Visited
<1>6. \A b \in DOMAIN Body' : 1 \in Nat /\ \A k \in 2..LastPoint(f0, b)' : k \in Nat
  BY <1>2, <1>3
<1> QED
  BY <1>5, <1>6 DEF RangedSoFar

\* What is visited means, once it has been.
LEMMA ComputedByVisit ==
  ASSUME WalkOK, TypedFactsOK, WellFormed(program), pass = "range", blk > 0, idx > 0,
         AnalysisNext, SameFor(f0), I.op # "ret"
  PROVE  \A f, b, k, in : f = f0 /\ b = blk /\ k = idx /\ in = RangeIn => RangedBy(f, b, k, in)'
<1>1. SUFFICES ASSUME NEW f, NEW b, NEW k, NEW in, f = f0, b = blk, k = idx, in = RangeIn
               PROVE  RangedBy(f, b, k, in)'
  OBVIOUS
<1>2. /\ f \in DOMAIN program.body /\ program.body[f][b][k] = I /\ program \in Programs
  BY <1>1, AtAnInstruction DEF I, WalkOK
<1>3. range'[f][b][k] = Result(f, b, k, in)
  BY <1>1, RangeVisited
<1>4. /\ program' = program /\ returned' = returned
  BY DEF SameFor
<1>5. \A v : ElementIn(f, in, v)' = ElementIn(f, in, v)
  BY <1>1, <1>2, <1>4, ElementSame DEF SameFor
<1>6. CheckedBy(f, b)' = CheckedBy(f, b)
  BY <1>4, TestedSame
<1>7. Result(f, b, k, in)' = Result(f, b, k, in)
  BY <1>4, <1>5, <1>6, ZenonT(40) DEF Result, Filtered, Updated
<1> QED
  BY <1>2, <1>3, <1>4, <1>7 DEF RangedBy

\* What a return instruction adds to what is stored of its function.
LEMMA RetMeans ==
  ASSUME WalkOK, TypedFactsOK, pass = "range", blk > 0, idx > 0, RangeRet
  PROVE  /\ f0 \in DOMAIN returnRanges'
         /\ RangeOf(I.args[1]) \subseteq returnRanges'[f0]
         /\ returnRanges'[f0] \in SUBSET Signs
         /\ f0 \in DOMAIN returnRanges => returnRanges[f0] \subseteq returnRanges'[f0]
         /\ \A g : g # f0 => AbstractCall(g)' = AbstractCall(g)
<1> DEFINE value == RangeOf(I.args[1])
           bumped == IF f0 \in program.pointer /\ Intersects(value, NE)
                     THEN Join(value, NE) ELSE value
           new == JoinAll({bumped} \union Stored(f0))
<1>1. returnRanges' = Updated(returnRanges, f0, new) /\ program' = program /\ I.op = "ret"
  BY StepKeeps DEF RangeRet, At
<1>2. value \in SUBSET Signs
  BY <1>1, ReturnsSomething, RangeOfType DEF TypedFactsOK, StoredRangesOK
<1>3. NE \in SUBSET Signs
  BY DEF NE, Signs
<1>4. bumped \in SUBSET Signs /\ value \subseteq bumped
  BY <1>2, <1>3, JoinIsUnion
<1>5. Stored(f0) \in SUBSET SUBSET Signs
  BY DEF Stored, TypedFactsOK, StoredRangesOK
<1>6. new = bumped \union UNION Stored(f0)
  <2>1. {bumped} \union Stored(f0) \in SUBSET SUBSET Signs
    BY <1>4, <1>5
  <2> HIDE DEF bumped
  <2>2. new = UNION ({bumped} \union Stored(f0))
    BY <2>1, JoinAllIsUnion
  <2> QED
    BY <2>2
<1> HIDE DEF value, bumped, new
<1>7. /\ f0 \in DOMAIN returnRanges' /\ returnRanges'[f0] = new
      /\ \A g : g # f0 => /\ g \in DOMAIN returnRanges' <=> g \in DOMAIN returnRanges
                          /\ g \in DOMAIN returnRanges => returnRanges'[g] = returnRanges[g]
  BY <1>1 DEF Updated
<1>8. f0 \in DOMAIN returnRanges => returnRanges[f0] \subseteq new
  BY <1>6 DEF Stored
<1>9. new \in SUBSET Signs
  BY <1>4, <1>5, <1>6
<1>10. \A g : g # f0 => AbstractCall(g)' = AbstractCall(g)
  BY <1>1, <1>7 DEF AbstractCall
<1> QED
  BY <1>4, <1>6, <1>7, <1>8, <1>9, <1>10 DEF value

\* A return instruction either leaves what is stored of its function as it is, or
\* is seen to have moved it: what was stored when the function was entered was less.
LEMMA RetMoves ==
  ASSUME WalkOK, TypedFactsOK, RangesOK, pass = "range", blk > 0, idx > 0, RangeRet
  PROVE  /\ Grown'
         /\ Moved => Moved'
         /\ Moved' \/ (\A g : AbstractCall(g)' = AbstractCall(g))
<1>1. /\ f0' = f0 /\ original' = original /\ rangeChanged' = rangeChanged /\ program' = program
  BY StepKeeps DEF RangeRet, f0, Members, Step
<1>2. /\ f0 \in DOMAIN returnRanges'
      /\ f0 \in DOMAIN returnRanges => returnRanges[f0] \subseteq returnRanges'[f0]
      /\ \A g : g # f0 => AbstractCall(g)' = AbstractCall(g)
  BY RetMeans
<1>3. Grown
  BY DEF RangesOK
<1>4. Stored(f0)' = {returnRanges'[f0]}
  BY <1>1, <1>2 DEF Stored
<1>5. CASE f0 \in DOMAIN returnRanges /\ returnRanges'[f0] = returnRanges[f0]
  <2>1. Stored(f0)' = Stored(f0)
    BY <1>4, <1>5 DEF Stored
  <2>2. AbstractCall(f0)' = AbstractCall(f0)
    BY <1>1, <1>2, <1>5 DEF AbstractCall
  <2>3. Grown'
    BY <1>1, <1>2, <1>3, <1>5 DEF Grown
  <2> QED
    BY <1>1, <1>2, <2>1, <2>2, <2>3 DEF Moved
<1>6. CASE ~(f0 \in DOMAIN returnRanges /\ returnRanges'[f0] = returnRanges[f0])
  <2>1. CASE original = {}
    BY <1>1, <1>4, <2>1 DEF Grown, Moved
  <2>2. CASE original # {}
    <3>1. f0 \in DOMAIN returnRanges
      BY <1>3, <2>2 DEF Grown
    <3>2. PICK o \in SUBSET Signs : original = {o} /\ o \subseteq returnRanges[f0]
      BY <1>3, <2>2 DEF Grown
    <3>3. o \subseteq returnRanges'[f0] /\ o # returnRanges'[f0]
      BY <1>2, <1>6, <3>1, <3>2
    <3>4. Moved'
      BY <1>1, <1>4, <3>2, <3>3 DEF Moved
    <3>5. Grown'
      BY <1>1, <1>2, <3>2, <3>3 DEF Grown
    <3> QED
      BY <3>4, <3>5
  <2> QED
    BY <2>1, <2>2
<1> QED
  BY <1>5, <1>6

LEMMA VisitsRanged ==
  ASSUME WalkOK, TypedFactsOK, WellFormed(program), RangesOK,
         pass = "range", blk > 0, idx > 0, AnalysisNext
  PROVE  RangesOK'
<1> DEFINE d == IF I.op = "ret" THEN FALSE ELSE Result(f0, blk, idx, RangeIn) # RangeOut
<1>1. RangesGivenOK' /\ SlotsOK'
  BY VisitsRangesGiven
<1>2. I.op = "ret" => RangeRet /\ range' = range
  BY RangeVisited
<1>3. I.op # "ret" => returnRanges' = returnRanges
  BY RangeVisited
<1>4. Step(d)
  <2>1. I.op = "ret" => Step(FALSE)
    BY <1>2 DEF RangeRet
  <2>2. I.op # "ret" => Step(Result(f0, blk, idx, RangeIn) # RangeOut)
    BY RangeVisited
  <2> QED
    BY <2>1, <2>2
<1>5. ~d => \A f \in DOMAIN program.body : \A b \in DOMAIN program.body[f] :
              \A i \in 1..LastPoint(f, b) : range'[f][b][i] = range[f][b][i]
  <2> SUFFICES ASSUME ~d, NEW f \in DOMAIN program.body, NEW b \in DOMAIN program.body[f],
                      NEW i \in 1..LastPoint(f, b)
               PROVE  range'[f][b][i] = range[f][b][i]
    OBVIOUS
  <2>1. i \in 0..LastPoint(f, b) /\ i # 0
    BY BodyType DEF WalkOK
  <2>2. CASE I.op = "ret"
    BY <1>2, <2>2
  <2>3. CASE I.op # "ret" /\ f = f0 /\ b = blk /\ i = idx
    <3>1. range'[f0][blk][idx] = Result(f0, blk, idx, RangeIn)
      BY <2>3, RangeVisited
    <3> QED
      BY <2>3, <3>1 DEF RangeOut
  <2>4. CASE ~(f = f0 /\ b = blk /\ i = idx)
    BY <2>1, <2>4, RangeVisited
  <2> QED
    BY <2>2, <2>3, <2>4
<1>6. d \in BOOLEAN /\ (I.op = "ret" => ~d)
  OBVIOUS
<1> HIDE DEF d
<1>7. /\ program' = program /\ pass' = pass /\ scc' = scc /\ fn' = fn
      /\ rangeChanged' = rangeChanged /\ original' = original
  BY <1>4 DEF Step
<1>8. returned' = returned
  BY OfOnePass DEF OfReturned, EnterReturned, ReturnedCall, ReturnedRet, ReturnedStore,
       ReturnedLoad, ReturnedPhi, ReturnedOther, Entering, At, Others
<1>9. /\ f0' = f0 /\ Current' = Current /\ program \in Programs /\ f0 \in DOMAIN program.body
      /\ TestsWhereComputed(program) /\ CalleesFirst(program)
  BY <1>7, HereType DEF f0, Members, Current, WalkOK, WellFormed
<1>10. /\ Grown' /\ (Moved => Moved')
       /\ Moved' \/ (\A g : AbstractCall(g)' = AbstractCall(g))
  <2>1. CASE I.op = "ret"
    BY <1>2, <2>1, RetMoves
  <2>2. CASE I.op # "ret"
    <3>1. Stored(f0)' = Stored(f0)
      BY <1>3, <1>9, <2>2 DEF Stored
    <3>2. Grown
      BY DEF RangesOK
    <3> QED
      BY <1>3, <1>7, <1>9, <2>2, <3>1, <3>2 DEF Moved, Grown, AbstractCall
  <2> QED
    BY <2>1, <2>2
<1>11. Unsettled => Unsettled'
  BY <1>7, <1>10 DEF Unsettled
<1>12. \A g : g # f0 => AbstractCall(g)' = AbstractCall(g)
  BY <1>2, <1>3, <1>7, RetMeans DEF AbstractCall
<1>13. ASSUME NEW f \in Left \union {f0}, f = f0 => ~d
       PROVE  SameFor(f) \/ (Unsettled' /\ f \in Current)
  <2>0. f \in DOMAIN program.body
    BY <1>9 DEF Left
  <2>1. \A b \in DOMAIN program.body[f] : \A i \in 1..LastPoint(f, b) :
          range'[f][b][i] = range[f][b][i]
    <3>1. CASE f = f0
      BY <1>5, <1>9, <1>13, <3>1
    <3>2. CASE f # f0
      <4>1. \A b \in DOMAIN program.body[f] : \A i \in 1..LastPoint(f, b) : i \in 0..LastPoint(f, b)
        BY <2>0, BodyType DEF WalkOK
      <4> QED
        BY <2>0, <3>2, <4>1, RangeVisited
    <3> QED
      BY <3>1, <3>2
  <2>2. f \in DOMAIN returnRanges => f \in DOMAIN returnRanges' /\ returnRanges[f] \subseteq returnRanges'[f]
    <3>1. CASE I.op = "ret" /\ f = f0
      BY <1>2, <3>1, RetMeans
    <3>2. CASE I.op = "ret" /\ f # f0
      BY <1>2, <3>2 DEF RangeRet, Updated
    <3>3. CASE I.op # "ret"
      BY <1>3, <3>3
    <3> QED
      BY <3>1, <3>2, <3>3
  <2>3. CASE \A g \in Callees(f) : AbstractCall(g)' = AbstractCall(g)
    BY <1>7, <1>8, <2>1, <2>2, <2>3 DEF SameFor
  <2>4. CASE ~(\A g \in Callees(f) : AbstractCall(g)' = AbstractCall(g))
    <3>1. f0 \in Callees(f) /\ Moved'
      BY <1>10, <1>12, <2>4
    <3>2. scc \in program.loops /\ f \in Current
      BY <1>9, <3>1, CallsInCycle
    <3> QED
      BY <1>7, <3>1, <3>2 DEF Unsettled
  <2> QED
    BY <2>3, <2>4
<1>14. \A f \in Left' \ program.void : Ranged(f)' \/ (Unsettled' /\ f \in Current')
  <2>1. \A f \in Left : f # f0
    BY LeftBehind
  <2> QED
    BY <1>7, <1>9, <1>11, <1>13, <2>1, LeftStaysRanged
<1>15. ASSUME f0 \notin program.void, blk' = 0 \/ ~changed', ~Unsettled'
       PROVE  RangedSoFar'
  <2>1. (~d /\ ~changed) \/ (blk' = 1 /\ idx' = 0)
    BY <1>4, <1>6, <1>15, RoundAfter
  <2>2. CASE blk' = 1 /\ idx' = 0
    <3>1. WalkOK'
      BY AnalysisWalks
    <3> QED
      BY <1>7, <1>9, <2>2, <3>1, RoundStarts
  <2>3. CASE ~d /\ ~changed
    <3>1. SameFor(f0)
      BY <1>13, <1>15, <2>3
    <3>2. RangedSoFar
      BY <1>11, <1>15, <2>3 DEF RangesOK
    <3>3. \A f, b, k, in : f = f0 /\ b = blk /\ k = idx /\ in = RangeIn => RangedBy(f, b, k, in)'
      <4>1. CASE I.op # "ret"
        BY <3>1, <4>1, ComputedByVisit
      <4>2. CASE I.op = "ret"
        <5>1. f0 \in DOMAIN returnRanges' /\ RangeOf(I.args[1]) \subseteq returnRanges'[f0]
          BY <1>2, <4>2, RetMeans
        <5>2. SUFFICES ASSUME NEW f, NEW b, NEW k, NEW in, f = f0, b = blk, k = idx, in = RangeIn
                       PROVE  RangedBy(f, b, k, in)'
          OBVIOUS
        <5>3. program.body[f][b][k] = I
          BY <5>2, AtAnInstruction DEF I
        <5>4. \A v : ElementIn(f, in, v)' = ElementIn(f, in, v)
          BY <1>7, <1>9, <3>1, <5>2, ElementSame DEF SameFor
        <5>5. ElementIn(f, in, I.args[1]) = RangeOf(I.args[1])
          BY <5>2, ElementHere
        <5> QED
          BY <1>7, <4>2, <5>1, <5>2, <5>3, <5>4, <5>5 DEF RangedBy
      <4> QED
        BY <4>1, <4>2
    <3>4. Step(FALSE)
      BY <1>4, <2>3, <1>6
    <3> QED
      BY <3>1, <3>2, <3>3, <3>4, RoundGoesOn
  <2> QED
    BY <2>1, <2>2, <2>3
<1> QED
  BY <1>1, <1>7, <1>9, <1>10, <1>14, <1>15 DEF RangesOK

\* The fixpoints stay where nothing that they are about changes.
LEMMA RangesUnchanged ==
  ASSUME WalkOK, TestsWhereComputed(program), RangesOK, program' = program,
         returned' = returned, range' = range, returnRanges' = returnRanges,
         pass # "range" \/ blk = 0
  PROVE  /\ RangesGivenOK' /\ SlotsOK'
         /\ \A f \in DOMAIN program.body : Ranged(f) => Ranged(f)'
<1>1. program \in Programs
  BY DEF WalkOK
<1>2. \A f \in DOMAIN program.body : SameFor(f)
  BY UnwrittenSame
<1>3. \A f \in DOMAIN program.body : Ranged(f) => Ranged(f)'
  BY <1>1, <1>2, RangedKept
<1>4. SlotsOK'
  <2>1. SlotsOK /\ \A f : Known(f)' = Known(f)
    BY TestedSame DEF RangesOK
  <2>2. \A f, b : LastPoint(f, b)' = LastPoint(f, b)
    BY TestedSame
  <2> QED
    BY <2>1, <2>2 DEF SlotsOK
<1>5. ASSUME NEW f \in DOMAIN program.body, NEW a \in DOMAIN program.body[f]
      PROVE  RangeGiven(f, a)'
  <2>1. ~RangeAhead(f, a)
    BY <1>1, BodyType DEF RangeAhead
  <2>2. RangeGiven(f, a)
    BY <2>1 DEF RangesOK, RangesGivenOK
  <2>3. \A b \in DOMAIN program.body[f] : Below(range[f][b][0], range'[f][b][0])
    BY DEF Below
  <2> QED
    BY <1>1, <2>2, <2>3, RangeGivenKept
<1> QED
  BY <1>3, <1>4, <1>5 DEF RangesGivenOK

\* A component is left only when a round over it has moved nothing of what is
\* stored of its functions.
LEMMA LeavesRanged ==
  ASSUME WalkOK, TypedFactsOK, WellFormed(program), RangesOK, NextFunction
  PROVE  RangesOK'
<1>1. /\ program' = program /\ blk = 0 /\ returned' = returned /\ range' = range
      /\ returnRanges' = returnRanges /\ pass # "done" /\ idx' = idx
  BY DEF NextFunction, facts
<1>2. program \in Programs /\ TestsWhereComputed(program) /\ f0 \in DOMAIN program.body
  BY HereType DEF WalkOK, WellFormed
<1>3. /\ RangesGivenOK' /\ SlotsOK'
      /\ \A f \in DOMAIN program.body : Ranged(f) => Ranged(f)'
  BY <1>1, <1>2, RangesUnchanged
<1>4. Everywhere(Empty)' = Everywhere(Empty) /\ Analysed' = Analysed
  BY <1>1 DEF Everywhere, LastPoint, Analysed
<1>5. WalkOK'
  <2>1. AnalysisNext
    BY DEF AnalysisNext
  <2> QED
    BY <2>1, AnalysisWalks
<1>6. ASSUME pass' = "range", f0' \notin program.void, blk' = IF f0' \in program.void THEN 0 ELSE 1
      PROVE  RangedSoFar'
  <2>1. idx' = 0
    BY <1>1, HereType
  <2> QED
    BY <1>1, <1>2, <1>5, <1>6, <2>1, RoundStarts
<1>7. ASSUME NEW c, NEW n, GoTo("range", c, n)
      PROVE  /\ pass' = "range" /\ scc' = c /\ fn' = n /\ f0' = program.members[c][n]
             /\ original' = Stored(f0)'
             /\ blk' = IF f0' \in program.void THEN 0 ELSE 1
             /\ Grown' /\ Moved' = rangeChanged'
  <2>1. /\ pass' = "range" /\ scc' = c /\ fn' = n /\ f0' = program.members[c][n]
        /\ original' = Stored(program.members[c][n])
        /\ blk' = IF program.members[c][n] \in program.void THEN 0 ELSE 1
    BY <1>1, <1>7 DEF GoTo, f0, Members
  <2>2. original' = Stored(f0)'
    BY <1>1, <2>1 DEF Stored
  <2>3. Grown'
    <3>1. \A f \in DOMAIN returnRanges : returnRanges[f] \in SUBSET Signs
      BY DEF TypedFactsOK, StoredRangesOK
    <3> QED
      BY <1>1, <2>1, <3>1 DEF Grown, Stored
  <2>4. Moved' = (rangeChanged' \/ Stored(f0)' # original')
    BY DEF Moved
  <2>5. rangeChanged' \in BOOLEAN
    BY <1>7 DEF NextFunction
  <2> QED
    BY <2>1, <2>2, <2>3, <2>4, <2>5
<1>8. CASE pass \in {"propagation", "returned", "constraints"}
  <2>1. range = Everywhere(Empty) /\ returnRanges = Empty /\ ~rangeChanged
    BY <1>8 DEF RangesOK
  <2>2. ~rangeChanged'
    BY <1>8, <2>1 DEF NextFunction
  <2>3. \/ pass' \in {"propagation", "returned", "constraints"}
        \/ GoTo("range", 1, 1)
    BY <1>8 DEF NextFunction, GoTo, Following
  <2>4. CASE pass' \in {"propagation", "returned", "constraints"}
    BY <1>1, <1>3, <1>4, <2>1, <2>2, <2>4 DEF RangesOK
  <2>5. CASE GoTo("range", 1, 1)
    <3>1. /\ pass' = "range" /\ scc' = 1 /\ fn' = 1 /\ Grown' /\ ~Moved'
          /\ blk' = IF f0' \in program.void THEN 0 ELSE 1
      BY <1>7, <2>2, <2>5
    <3>2. Left' = {}
      BY <1>1, <3>1, ProgramType, MembersType DEF Left, WalkOK
    <3>3. f0' \notin program.void => RangedSoFar'
      BY <1>6, <3>1
    <3> QED
      BY <1>1, <1>3, <3>1, <3>2, <3>3 DEF RangesOK
  <2> QED
    BY <2>3, <2>4, <2>5
<1>9. CASE pass = "range"
  <2>1. f0 \notin program.void /\ ~Unsettled => Ranged(f0)
    <3>1. f0 \notin program.void /\ ~Unsettled => RangedSoFar
      BY <1>1, <1>9 DEF RangesOK
    <3>2. Body = program.body[f0] /\ \A b \in DOMAIN Body : 1 \in 1..LastPoint(f0, b)
      BY <1>2, BodyType, HereType
    <3> QED
      BY <1>1, <1>2, <3>1, <3>2 DEF RangedSoFar, Visited, Ranged
  <2>2. \A f \in Left \ program.void : Ranged(f) \/ (Unsettled /\ f \in Current)
    BY <1>9 DEF RangesOK
  <2>3. \/ fn < Len(Members) /\ GoTo("range", scc, fn + 1) /\ rangeChanged' = Moved
        \/ fn = Len(Members) /\ Unsettled /\ GoTo("range", scc, 1) /\ ~rangeChanged'
        \/ /\ fn = Len(Members) /\ ~Unsettled /\ scc < Len(program.members)
           /\ GoTo("range", scc + 1, 1) /\ ~rangeChanged'
        \/ /\ fn = Len(Members) /\ ~Unsettled /\ ~(scc < Len(program.members))
           /\ GoTo("done", 1, 1)
    BY <1>9 DEF NextFunction, Following, Moved, Unsettled
  <2>4. CASE fn < Len(Members) /\ GoTo("range", scc, fn + 1) /\ rangeChanged' = Moved
    <3>1. /\ pass' = "range" /\ scc' = scc /\ fn' = fn + 1 /\ Grown' /\ Moved' = Moved
          /\ blk' = IF f0' \in program.void THEN 0 ELSE 1
      BY <1>7, <2>4
    <3>2. Unsettled' = Unsettled /\ Current' = Current /\ f0 \in Current
      BY <1>1, <3>1 DEF Unsettled, Current, Members, f0, WalkOK
    <3>3. Left' \subseteq Left \union {f0}
      BY <1>1, <2>4, <3>1, LeftNext
    <3>4. f0' \notin program.void => RangedSoFar'
      BY <1>6, <3>1
    <3>5. \A f \in Left' \ program.void : Ranged(f)' \/ (Unsettled' /\ f \in Current')
      <4> SUFFICES ASSUME NEW f \in Left', f \notin program.void, ~(Unsettled /\ f \in Current)
                   PROVE  Ranged(f)'
        BY <3>2
      <4>1. f \in DOMAIN program.body
        BY <1>2, <3>3 DEF Left
      <4>2. Ranged(f)
        BY <2>1, <2>2, <3>2, <3>3
      <4> QED
        BY <1>3, <4>1, <4>2
    <3> QED
      BY <1>1, <1>3, <3>1, <3>4, <3>5 DEF RangesOK
  <2>5. CASE fn = Len(Members) /\ Unsettled /\ GoTo("range", scc, 1) /\ ~rangeChanged'
    <3>1. /\ pass' = "range" /\ scc' = scc /\ fn' = 1 /\ Grown' /\ ~Moved'
          /\ blk' = IF f0' \in program.void THEN 0 ELSE 1
      BY <1>7, <2>5
    <3>2. f0' \notin program.void => RangedSoFar'
      BY <1>6, <3>1
    <3>3. \A f \in Left' \ program.void : Ranged(f)'
      <4> SUFFICES ASSUME NEW f \in Left', f \notin program.void
                   PROVE  Ranged(f)'
        OBVIOUS
      <4>1. f \in DOMAIN program.body
        BY <1>1 DEF Left
      <4>2. PICK c \in DOMAIN program.members : \E n \in DOMAIN program.members[c] :
              program.members[c][n] = f /\ (c < scc \/ (c = scc /\ n < 1))
        BY <1>1, <3>1 DEF Left
      <4>3. PICK n \in DOMAIN program.members[c] :
              program.members[c][n] = f /\ (c < scc \/ (c = scc /\ n < 1))
        BY <4>2
      <4>4. n \in Nat \ {0} /\ c \in Nat /\ scc \in Nat /\ scc \in DOMAIN program.members
        BY <1>2, MemberPlaces, PlaceType DEF WalkOK
      <4>5. c < scc
        BY <4>3, <4>4
      <4>6. f \in Left
        BY <4>1, <4>3, <4>5 DEF Left
      <4>7. f \notin Current
        <5> SUFFICES ASSUME NEW m \in DOMAIN program.members[scc], program.members[scc][m] = f
                     PROVE  FALSE
          BY DEF Current, Members
        <5>1. c = scc
          BY <1>2, <4>3, <4>4, ProgramType
        <5> QED
          BY <4>4, <4>5, <5>1
      <4>8. Ranged(f)
        BY <2>2, <4>6, <4>7
      <4> QED
        BY <1>3, <4>1, <4>8
    <3> QED
      BY <1>1, <1>3, <3>1, <3>2, <3>3 DEF RangesOK
  <2>6. CASE /\ fn = Len(Members) /\ ~Unsettled /\ scc < Len(program.members)
             /\ GoTo("range", scc + 1, 1) /\ ~rangeChanged'
    <3>1. /\ pass' = "range" /\ scc' = scc + 1 /\ fn' = 1 /\ Grown' /\ ~Moved'
          /\ blk' = IF f0' \in program.void THEN 0 ELSE 1
      BY <1>7, <2>6
    <3>2. f0' \notin program.void => RangedSoFar'
      BY <1>6, <3>1
    <3>3. Left' \subseteq Left \union {f0}
      BY <1>1, <2>6, <3>1, LeftNext
    <3>4. \A f \in Left' \ program.void : Ranged(f)'
      <4> SUFFICES ASSUME NEW f \in Left', f \notin program.void
                   PROVE  Ranged(f)'
        OBVIOUS
      <4>1. f \in DOMAIN program.body
        BY <1>2, <3>3 DEF Left
      <4>2. Ranged(f)
        BY <2>1, <2>2, <2>6, <3>3
      <4> QED
        BY <1>3, <4>1, <4>2
    <3> QED
      BY <1>1, <1>3, <3>1, <3>2, <3>4 DEF RangesOK
  <2>7. CASE /\ fn = Len(Members) /\ ~Unsettled /\ ~(scc < Len(program.members))
             /\ GoTo("done", 1, 1)
    <3>1. Analysed \subseteq Left \union {f0}
      BY <2>7, LeftAll
    <3>2. pass' = "done"
      BY <2>7 DEF GoTo
    <3>3. \A f \in Analysed \ program.void : Ranged(f)'
      <4> SUFFICES ASSUME NEW f \in Analysed, f \notin program.void
                   PROVE  Ranged(f)'
        OBVIOUS
      <4>1. f \in DOMAIN program.body
        BY DEF Analysed
      <4>2. Ranged(f)
        BY <2>1, <2>2, <2>7, <3>1
      <4> QED
        BY <1>3, <4>1, <4>2
    <3> QED
      BY <1>1, <1>3, <1>4, <3>2, <3>3 DEF RangesOK
  <2> QED
    BY <2>3, <2>4, <2>5, <2>6, <2>7
<1> QED
  BY <1>1, <1>8, <1>9 DEF WalkOK

\* Before the pass there are no facts of it.
LEMMA NoRangesYet ==
  ASSUME program \in Programs, range = Everywhere(Empty)
  PROVE  RangesGivenOK /\ SlotsOK
<1>1. \A f \in DOMAIN program.body : \A b \in DOMAIN program.body[f] :
        \A i \in 0..LastPoint(f, b) : range[f][b][i] = Empty
  BY DEF Everywhere
<1>2. DOMAIN Empty = {}
  BY DEF Empty
<1>3. SlotsOK
  BY <1>1, <1>2 DEF SlotsOK
<1>4. ASSUME NEW f \in DOMAIN program.body, NEW a \in DOMAIN program.body[f]
      PROVE  RangeGiven(f, a)
  <2>1. LastPoint(f, a) \in Nat \ {0}
    BY BodyType
  <2>2. AtEnd(f, a) = Empty
    BY <1>1, <2>1 DEF AtEnd
  <2> QED
    BY <1>2, <2>2 DEF RangeGiven, Learnt, Narrowed, Below
<1> QED
  BY <1>3, <1>4 DEF RangesGivenOK

LEMMA RangesOKKept ==
  ASSUME WalkOK, TypedFactsOK, WellFormed(program), RangesOK, AnalysisNext
  PROVE  RangesOK'
<1>1. CASE NextFunction
  BY <1>1, LeavesRanged
<1>2. CASE pass = "range" /\ blk > 0 /\ idx > 0
  BY <1>2, VisitsRanged
<1>3. CASE EnterRange
  BY <1>3, EntersRanged
<1>4. CASE ~NextFunction /\ ~(pass = "range" /\ blk > 0 /\ idx > 0) /\ ~EnterRange
  <2>1. /\ program' = program /\ pass # "done"
        /\ \/ blk > 0 /\ idx = 0 /\ Entered
           \/ blk > 0 /\ idx > 0 /\ \E d \in BOOLEAN : Step(d)
    BY <1>4, Moves
  <2>2. pass' = pass /\ rangeChanged' = rangeChanged
    BY <2>1 DEF Entered, Step
  <2>3. /\ range' = range /\ returnRanges' = returnRanges /\ pass # "range"
    <3>1. pass # "range"
      BY <1>4, <2>1 DEF AnalysisNext, EnterPropagation, PropagateCall, PropagateLoad,
           PropagateStore, PropagateCast, PropagatePhi, PropagateOther, EnterReturned,
           ReturnedCall, ReturnedRet, ReturnedStore, ReturnedLoad, ReturnedPhi, ReturnedOther,
           EnterConstraints, ConstrainCall, ConstrainBranch, ConstrainSwitch, ConstrainOther,
           RangeStore, RangeLoad, RangePhi, RangeBranch, RangeSwitch, RangeRet, RangeOther,
           At, Others, Entering
    <3> QED
      BY <3>1, OfOnePass DEF OfRange, EnterRange, RangeStore, RangeLoad, RangePhi, RangeBranch,
           RangeSwitch, RangeRet, RangeOther, At, Others, Entering
  <2>4. pass \in {"propagation", "returned", "constraints"}
    BY <2>1, <2>3 DEF WalkOK
  <2>5. Everywhere(Empty)' = Everywhere(Empty)
    BY <2>1 DEF Everywhere, LastPoint
  <2>6. /\ range' = Everywhere(Empty)' /\ returnRanges' = Empty /\ ~rangeChanged'
    BY <2>2, <2>3, <2>4, <2>5 DEF RangesOK
  <2>7. RangesGivenOK' /\ SlotsOK'
    <3>1. \A f \in DOMAIN program.body : \A b \in DOMAIN program.body[f] :
            LastPoint(f, b) \in Nat \ {0} /\ LastPoint(f, b)' = LastPoint(f, b)
      BY <2>1, BodyType DEF WalkOK, LastPoint
    <3>2. \A f \in DOMAIN program.body : \A b \in DOMAIN program.body[f] :
            \A i \in 0..LastPoint(f, b) : range'[f][b][i] = Empty /\ DOMAIN range'[f][b][i] = {}
      <4>1. range' = Everywhere(Empty)
        BY <2>5, <2>6
      <4>2. DOMAIN Empty = {}
        BY DEF Empty
      <4> QED
        BY <4>1, <4>2 DEF Everywhere
    <3>3. SlotsOK'
      BY <2>1, <3>1, <3>2 DEF SlotsOK
    <3>4. ASSUME NEW f \in DOMAIN program.body, NEW a \in DOMAIN program.body[f]
          PROVE  RangeGiven(f, a)'
      <4>1. AtEnd(f, a)' = range'[f][a][LastPoint(f, a) - 1]
        BY <3>1 DEF AtEnd
      <4>2. DOMAIN AtEnd(f, a)' = {}
        BY <3>1, <3>2, <4>1
      <4> QED
        BY <4>2 DEF RangeGiven, Learnt, Narrowed, Below
    <3> QED
      BY <2>1, <3>3, <3>4 DEF RangesGivenOK
  <2> QED
    BY <2>2, <2>4, <2>6, <2>7 DEF RangesOK
<1> QED
  BY <1>1, <1>2, <1>3, <1>4

-----------------------------------------------------------------------------
(* Runs.                                                                   *)

\* The facts that instruction k of block b may be visited with.
FactsAt(f, b, k) ==
  IF k = 1 THEN {e \in Partial(Values) : Gathered(f, b, e)} ELSE {range[f][b][k - 1]}

\* The name of a call of a void function: it stands for no value.
NoValue(f, v) == IsA(f, v, "call") /\ DefinitionOf(f, v).tag \in program.void

\* A fact knows the slots among S that have a number, the numbers n, and their
\* signs.
NumbersIn(f, S, in, n) ==
  \A v \in DOMAIN n : v \in Slots(f) \cap S => v \in DOMAIN in /\ SignOf(n[v]) \in in[v]

\* The other names have the signs that the pass has for what defines them.
ComputedIn(f, n) ==
  \A v \in DOMAIN n : v \notin Slots(f) /\ ~NoValue(f, v) => SignOf(n[v]) \in AbstractIn(f, v)

\* A number with sign s may be that of phi k of block b.
AtPhi(f, b, k, s) ==
  LET i == program.body[f][b][k]
  IN i.op = "phi" /\ i.id \in returned[f][b][k] =>
       i.id \in DOMAIN range[f][b][k] /\ s \in range[f][b][k][i.id]

\* Phis have what they were visited with.
PhisIn(f, n) ==
  \A b \in DOMAIN program.body[f] : \A k \in DOMAIN program.body[f][b] :
    program.body[f][b][k].id \in DOMAIN n => AtPhi(f, b, k, SignOf(n[program.body[f][b][k].id]))

\* What arrives at a phi of block b that has not been visited yet is in the
\* element of one of its operands; and if that operand is a phi of this block, in
\* that of the phi: the fact may be about its next number already.
ArrivesIn(f, b, in, a) ==
  \E j \in DOMAIN program.body[f][b][a.phi].args :
    LET v == program.body[f][b][a.phi].args[j]
    IN /\ SignOf(a.number) \in ElementIn(f, in, v)
       /\ \A k \in DOMAIN program.body[f][b] :
            program.body[f][b][k].id = v => AtPhi(f, b, k, SignOf(a.number))

\* Numbers n of a run of f that is at instruction k of block b.
RunRanged(f, b, k, n, w) ==
  /\ ComputedIn(f, n)
  /\ PhisIn(f, n)
  /\ \A a \in w : a.phi \in DOMAIN program.body[f][b] /\ program.body[f][b][a.phi].op = "phi"
  /\ \A in \in FactsAt(f, b, k) :
       /\ NumbersIn(f, returned[f][b][k - 1], in, n)
       /\ \A a \in w : a.phi >= k => ArrivesIn(f, b, in, a)

RunsRanged ==
  /\ pass # "done" => \A f \in DOMAIN results : results[f] = {}
  /\ \A f \in DOMAIN results : \A n \in results[f] :
       f \in DOMAIN returnRanges /\ SignOf(n) \in returnRanges[f]
  /\ Running /\ f0 \notin program.void /\ Unexcused => RunRanged(f0, blk, idx, env, arriving)

\* The facts at a run are about what may be returned, and the instruction was
\* visited with one of them.
LEMMA RangesAtRun ==
  ASSUME WalkOK, TypedFactsOK, RangesOK, Running, f0 \notin program.void
  PROVE  /\ \A in \in FactsAt(f0, blk, idx) :
              in \in Partial(Values) /\ DOMAIN in \subseteq Known(f0) \cap returned[f0][blk][idx - 1]
         /\ \E in \in FactsAt(f0, blk, idx) : RangedBy(f0, blk, idx, in)
<1>1. pass = "done" /\ blk > 0 /\ idx > 0
  BY DEF Running, WalkOK
<1>2. /\ f0 \in DOMAIN program.body /\ blk \in DOMAIN program.body[f0]
      /\ idx \in 1..LastPoint(f0, blk) /\ LastPoint(f0, blk) \in Nat
  BY <1>1, AtAnInstruction
<1>3. f0 \in Analysed
  BY <1>2 DEF Analysed, f0, Members, WalkOK
<1>4. Ranged(f0)
  BY <1>1, <1>3 DEF RangesOK
<1>5. CASE idx = 1
  <2>1. FactsAt(f0, blk, idx) = {e \in Partial(Values) : Gathered(f0, blk, e)}
    BY <1>5 DEF FactsAt
  <2>2. First(f0, blk)
    BY <1>2, <1>4 DEF Ranged
  <2>3. \E in \in FactsAt(f0, blk, idx) : RangedBy(f0, blk, idx, in)
    BY <1>5, <2>1, <2>2 DEF First
  <2>4. \A in \in FactsAt(f0, blk, idx) :
          in \in Partial(Values) /\ DOMAIN in \subseteq Known(f0) \cap returned[f0][blk][idx - 1]
    BY <1>5, <2>1 DEF Gathered
  <2> QED
    BY <2>3, <2>4
<1>6. CASE idx # 1
  <2>1. FactsAt(f0, blk, idx) = {range[f0][blk][idx - 1]}
    BY <1>6 DEF FactsAt
  <2>2. idx \in 2..LastPoint(f0, blk) /\ idx - 1 \in 0..LastPoint(f0, blk)
    BY <1>2, <1>6
  <2>3. RangedBy(f0, blk, idx, range[f0][blk][idx - 1])
    BY <1>2, <1>4, <2>2 DEF Ranged
  <2>4. range[f0][blk][idx - 1] \in Partial(Values)
    BY <1>2, <2>2 DEF TypedFactsOK, Typed
  <2>5. DOMAIN range[f0][blk][idx - 1] \subseteq Known(f0) \cap returned[f0][blk][idx - 1]
    BY <1>2, <2>2 DEF RangesOK, SlotsOK
  <2> QED
    BY <2>1, <2>3, <2>4, <2>5
<1> QED
  BY <1>5, <1>6

\* What is computed by an instruction that the pass looks at has any sign for
\* it where a fact says nothing of it.
LEMMA HasAnySign ==
  ASSUME program \in Programs, NEW f \in DOMAIN program.body, NEW v \in Values,
         IsInstruction(f, v), DefinitionOf(f, v).op \notin {"call", "zext"}
  PROVE  v \notin DOMAIN Literals /\ AbstractIn(f, v) = Signs
<1>1. v \notin DOMAIN Literals
  BY InstructionsAreNoLiterals
<1>2. ~IsA(f, v, "call") /\ ~IsA(f, v, "zext")
  BY DEF IsA
<1> QED
  BY <1>1, <1>2 DEF AbstractIn

LEMMA SlotsHaveAnySign ==
  ASSUME program \in Programs, NEW f \in DOMAIN program.body, NEW v \in Slots(f)
  PROVE  v \in Values \ DOMAIN Literals /\ AbstractIn(f, v) = Signs
BY HasAnySign DEF Slots

\* What is read as a number is among the numbers of the function.
LEMMA NumbersAre ==
  ASSUME program \in Programs, NEW f \in DOMAIN program.body,
         NEW b \in DOMAIN program.body[f], NEW k \in DOMAIN program.body[f][b],
         NEW i, i = program.body[f][b][k]
  PROVE  /\ i.op \notin {"call", "gep", "load", "store"} =>
              \A j \in DOMAIN i.args : i.args[j] \in Numbers(f)
         /\ i.op = "store" => i.args[1] \in Numbers(f)
<1>1. k \in 1..LastPoint(f, b)
  BY BodyType
<1> DEFINE S == {{c} \X (1..LastPoint(f, c)) : c \in DOMAIN program.body[f]}
<1>2. {b} \X (1..LastPoint(f, b)) \in S
  OBVIOUS
<1>3. <<b, k>> \in {b} \X (1..LastPoint(f, b))
  BY <1>1
<1>4. <<b, k>> \in UNION S
  BY <1>2, <1>3
<1>5. <<b, k>> \in Points(f)
  BY <1>4 DEF Points
<1>6. <<b, k>>[1] = b /\ <<b, k>>[2] = k
  OBVIOUS
<1>7. NumberOperands(i) \subseteq Numbers(f)
  BY <1>5, <1>6 DEF Numbers
<1>8. /\ i.op \notin {"call", "gep", "load", "store"} =>
           \A j \in DOMAIN i.args : i.args[j] \in NumberOperands(i)
      /\ i.op = "store" => i.args[1] \in NumberOperands(i)
  BY DEF NumberOperands
<1> QED
  BY <1>7, <1>8

\* The sign of a literal is in the element of the literal.
LEMMA LiteralsInElement ==
  ASSUME NEW f, NEW v \in DOMAIN Literals
  PROVE  SignOf(Literals[v].n) \in AbstractIn(f, v)
<1>1. Literals[v].n \in Int /\ Literals[v].kind = "string" => Literals[v].n # 0
  BY LiteralsAssumption
<1>2. Literals[v].n \in Int
  BY LiteralsAssumption
<1> DEFINE n == Literals[v].n
           kind == Literals[v].kind
<1>3. AbstractIn(f, v) = CASE kind = "bool" -> IF n = 0 THEN EQ ELSE NE
                           [] kind = "string" -> NE
                           [] kind = "global" -> Signs
                           [] OTHER -> {SignOf(n)}
  BY DEF AbstractIn
<1>4. n = 0 => SignOf(n) \in EQ
  BY DEF SignOf, EQ
<1>5. n # 0 => SignOf(n) \in NE
  BY <1>2 DEF SignOf, NE
<1>6. kind = "string" => n # 0
  BY LiteralsAssumption
<1>8. SignOf(n) \in Signs
  BY <1>2, SignsOfNumbers
<1> HIDE DEF n, kind
<1>7. SignOf(n) \in AbstractIn(f, v)
  BY <1>3, <1>4, <1>5, <1>6, <1>8
<1> QED
  BY <1>7 DEF n

\* So what is read is in its element: a name that is read as a number is no
\* address.
LEMMA ReadsInElement ==
  ASSUME WalkOK, ValuesOK, Apart(f0), NEW S, NEW in, DOMAIN in \subseteq Known(f0) \cap S,
         NumbersIn(f0, S, in, env), ComputedIn(f0, env),
         NEW v \in Numbers(f0), v \in Values, HasNumber(v), ~NoValue(f0, v)
  PROVE  SignOf(ValueOf(v)) \in ElementIn(f0, in, v)
<1>1. f0 \in DOMAIN program.body /\ program \in Programs
  BY HereType DEF WalkOK
<1>2. v \in DOMAIN in => v \in Slots(f0)
  BY DEF Apart, Known
<1>3. CASE v \in DOMAIN Literals
  <2>1. v \notin DOMAIN in
    BY <1>1, <1>2, <1>3, SlotsHaveAnySign
  <2> QED
    BY <1>3, <2>1, LiteralsInElement DEF ValueOf, ElementIn
<1>4. CASE v \notin DOMAIN Literals /\ Variable(v)
  <2>1. IsInstruction(f0, v) /\ DefinitionOf(f0, v).op = "alloca" /\ v \notin Addresses(f0)
    BY <1>4 DEF Variable, IsA, Apart
  <2>2. v \notin DOMAIN in
    BY <1>2, <2>1 DEF Slots
  <2>3. AbstractIn(f0, v) = Signs
    BY <1>1, <2>1, HasAnySign
  <2>4. ValueOf(v) = Address /\ SignOf(Address) \in Signs
    BY <1>4, InputsAssumption, WordsType, SignsOfNumbers DEF ValueOf
  <2> QED
    BY <2>2, <2>3, <2>4 DEF ElementIn
<1>5. CASE v \notin DOMAIN Literals /\ ~Variable(v)
  <2>1. v \in DOMAIN env /\ ValueOf(v) = env[v] /\ env[v] \in Int
    BY <1>5, WordsType DEF ValueOf, ValuesOK, HasNumber
  <2>2. CASE v \in DOMAIN in
    BY <1>2, <2>1, <2>2 DEF NumbersIn, ElementIn
  <2>3. CASE v \notin DOMAIN in /\ v \in Slots(f0)
    BY <1>1, <2>1, <2>3, SlotsHaveAnySign, SignsOfNumbers DEF ElementIn
  <2>4. CASE v \notin DOMAIN in /\ v \notin Slots(f0)
    BY <2>1, <2>4 DEF ElementIn, ComputedIn
  <2> QED
    BY <2>2, <2>3, <2>4
<1> QED
  BY <1>3, <1>4, <1>5

\* And so is what is loaded from a variable.
LEMMA LoadsInElement ==
  ASSUME WalkOK, ValuesOK, NEW S, NEW in, NumbersIn(f0, S, in, env),
         NEW v \in Values, Variable(v), v \in Addresses(f0), v \in DOMAIN env,
         DOMAIN in \subseteq S
  PROVE  SignOf(env[v]) \in ElementIn(f0, in, v)
<1>1. f0 \in DOMAIN program.body /\ program \in Programs
  BY HereType DEF WalkOK
<1>2. v \in Slots(f0)
  BY DEF Variable, IsA, Slots
<1>3. AbstractIn(f0, v) = Signs /\ SignOf(env[v]) \in Signs
  BY <1>1, <1>2, SlotsHaveAnySign, WordsType, SignsOfNumbers DEF ValuesOK
<1> QED
  BY <1>2, <1>3 DEF NumbersIn, ElementIn

\* What is used is no result of a void function.
LEMMA UsedHasValue ==
  ASSUME program \in Programs, VoidsUnused(program), NEW f \in DOMAIN program.body,
         NEW b \in DOMAIN program.body[f], NEW k \in DOMAIN program.body[f][b],
         NEW m \in DOMAIN program.body[f][b][k].args
  PROVE  ~NoValue(f, program.body[f][b][k].args[m])
<1> DEFINE v == program.body[f][b][k].args[m]
           d == PointOf(f, v)
<1>1. SUFFICES ASSUME IsA(f, v, "call"), DefinitionOf(f, v).tag \in program.void
               PROVE  FALSE
  BY DEF NoValue
<1>2. IsInstruction(f, v) /\ DefinitionOf(f, v).op = "call"
  BY <1>1 DEF IsA
<1>3. /\ d[1] \in DOMAIN program.body[f] /\ d[2] \in DOMAIN program.body[f][d[1]]
      /\ program.body[f][d[1]][d[2]].id = v
      /\ DefinitionOf(f, v) = program.body[f][d[1]][d[2]]
  BY <1>2, PointType
<1>4. PICK p \in DOMAIN program.body[f] : \E q \in DOMAIN program.body[f][p] :
        /\ program.body[f][p][q].id = v /\ program.body[f][p][q].op = "call"
        /\ program.body[f][p][q].tag \in program.void
  BY <1>1, <1>2, <1>3
<1>5. PICK q \in DOMAIN program.body[f][p] :
        /\ program.body[f][p][q].id = v /\ program.body[f][p][q].op = "call"
        /\ program.body[f][p][q].tag \in program.void
  BY <1>4
<1>6. v # program.body[f][p][q].id
  BY <1>5 DEF VoidsUnused
<1> QED
  BY <1>5, <1>6

\* The name whose number an instruction gives.
Target(i) == IF i.op = "store" THEN i.args[2] ELSE i.id

\* What an instruction that goes on to the next makes of a fact.
LEMMA ResultMeans ==
  ASSUME StoredRangesOK, NEW f, NEW b, NEW k, NEW in \in Partial(Values),
         NEW i, i = program.body[f][b][k], i.op \notin Terminators,
         NEW out, out = Result(f, b, k, in), NEW may, may = returned[f][b][k],
         NEW v, v = Target(i)
  PROVE  /\ \A u : u # v => /\ u \in DOMAIN out <=> u \in DOMAIN in \cap may
                            /\ u \in DOMAIN out => out[u] = in[u]
         /\ v \notin may => v \notin DOMAIN out
         /\ i.op \in {"store", "load", "bitcast", "ptrtoint", "trunc", "sext"} /\ v \in may =>
              v \in DOMAIN out /\ out[v] = ElementIn(f, in, i.args[1])
<1> DEFINE copied == Filtered(in, may)
           with(e) == IF v \in may THEN Updated(copied, v, e) ELSE copied
           element == ElementIn(f, in, i.args[1])
           joined == JoinAll({ElementIn(f, in, i.args[j]) : j \in DOMAIN i.args})
<1>1. out = CASE i.op \in {"store", "load", "bitcast", "ptrtoint", "trunc", "sext"} -> with(element)
              [] i.op = "phi" -> with(joined)
              [] OTHER -> copied
  <2>1. i.op = "store" => v = i.args[2]
    BY DEF Target
  <2>2. i.op # "store" => v = i.id
    BY DEF Target
  <2> QED
    BY <2>1, <2>2 DEF Result, Terminators
<1>2. /\ DOMAIN copied = DOMAIN in \cap may
      /\ \A u \in DOMAIN copied : copied[u] = in[u]
  BY DEF Filtered
<1>3. \A e : /\ v \in may => v \in DOMAIN with(e) /\ with(e)[v] = e
             /\ \A u : u # v => /\ u \in DOMAIN with(e) <=> u \in DOMAIN copied
                                /\ u \in DOMAIN with(e) => with(e)[u] = copied[u]
             /\ v \notin may => v \notin DOMAIN with(e)
  <2> HIDE DEF copied
  <2> QED
    BY <1>2 DEF Updated
<1> HIDE DEF copied, with, joined, element
<1>9. \A e : out = with(e) =>
        /\ \A u : u # v => /\ u \in DOMAIN out <=> u \in DOMAIN in \cap may
                           /\ u \in DOMAIN out => out[u] = in[u]
        /\ v \notin may => v \notin DOMAIN out
        /\ v \in may => v \in DOMAIN out /\ out[v] = e
  BY <1>2, <1>3
<1>6. CASE i.op \in {"store", "load", "bitcast", "ptrtoint", "trunc", "sext"}
  <2>1. out = with(element)
    BY <1>1, <1>6
  <2>2. /\ \A u : u # v => /\ u \in DOMAIN out <=> u \in DOMAIN in \cap may
                           /\ u \in DOMAIN out => out[u] = in[u]
        /\ v \notin may => v \notin DOMAIN out
        /\ v \in may => v \in DOMAIN out /\ out[v] = element
    BY <1>9, <2>1
  <2>3. i.op # "phi"
    BY <1>6
  <2> QED
    BY <2>2, <2>3 DEF element
<1>7. CASE i.op = "phi"
  <2>1. out = with(joined)
    BY <1>1, <1>7
  <2>2. /\ \A u : u # v => /\ u \in DOMAIN out <=> u \in DOMAIN in \cap may
                           /\ u \in DOMAIN out => out[u] = in[u]
        /\ v \notin may => v \notin DOMAIN out
    BY <1>9, <2>1
  <2> QED
    BY <1>7, <2>2
<1>8. CASE i.op \notin {"store", "load", "bitcast", "ptrtoint", "trunc", "sext", "phi"}
  <2>1. out = copied
    BY <1>1, <1>8
  <2> QED
    BY <1>2, <1>8, <2>1
<1> QED
  BY <1>6, <1>7, <1>8

\* What may be returned after an instruction may be before, but for its target.
LEMMA ReturnedBefore ==
  ASSUME WalkOK, ReturnedFixpointOK, Running, I.op # "ret"
  PROVE  /\ \A u : u # Target(I) /\ u \in ReturnedOut => u \in ReturnedIn
         /\ I.op \in Terminators => ReturnedIn = ReturnedOut
<1>1. ReturnedIn = ReturnedOf(I, ReturnedIn, ReturnedOut)
  BY ReturnedAtRun
<1> QED
  BY <1>1 DEF ReturnedOf, Target, Terminators

\* Where nothing but the run changes, so does nothing that the invariant says of
\* given numbers.
LEMMA RunRangedSame ==
  ASSUME program \in Programs, program' = program, returned' = returned, range' = range,
         returnRanges' = returnRanges, NEW f \in DOMAIN program.body, NEW b, NEW k, NEW n, NEW w
  PROVE  RunRanged(f, b, k, n, w)' <=> RunRanged(f, b, k, n, w)
<1>1. /\ Slots(f)' = Slots(f) /\ Known(f)' = Known(f)
      /\ \A a : ElementsOf(f, a)' = ElementsOf(f, a)
      /\ \A a : Predecessors(f, a)' = Predecessors(f, a)
      /\ \A a : LastPoint(f, a)' = LastPoint(f, a)
  BY TestedSame
<1>2. \A g : AbstractCall(g)' = AbstractCall(g)
  BY DEF AbstractCall
<1>3. \A v : AbstractIn(f, v)' = AbstractIn(f, v)
  BY <1>2, ElementSame
<1>4. \A in, v : ElementIn(f, in, v)' = ElementIn(f, in, v)
  BY <1>2, ElementSame
<1>5. \A v : NoValue(f, v)' = NoValue(f, v)
  BY DEF NoValue, IsA, IsInstruction, Definitions, DefinitionOf, PointOf, Points, LastPoint
<1>6. ASSUME NEW e
      PROVE  Gathered(f, b, e)' <=> Gathered(f, b, e)
  <2>1. \A a : AtEnd(f, a)' = AtEnd(f, a)
    BY <1>1 DEF AtEnd
  <2>2. ASSUME NEW a, NEW p
        PROVE  Below(Learnt(f, a, AtEnd(f, a), p), e)' <=> Below(Learnt(f, a, AtEnd(f, a), p), e)
    <3>1. Learnt(f, a, AtEnd(f, a), p)' = Learnt(f, a, AtEnd(f, a)', p)
      BY TestedSame DEF Learnt, Narrowed
    <3> QED
      BY <2>1, <3>1 DEF Below
  <2>3. ASSUME NEW a
        PROVE  Below(Filtered(range[f][a][LastPoint(f, a)], returned[f][b][0]), e)' <=>
                 Below(Filtered(range[f][a][LastPoint(f, a)], returned[f][b][0]), e)
    BY <1>1 DEF Below, Filtered
  <2>4. (DOMAIN e \subseteq Known(f) \cap returned[f][b][0])' <=>
          DOMAIN e \subseteq Known(f) \cap returned[f][b][0]
    BY <1>1
  <2>5. (\A a \in Predecessors(f, b) :
           Below(Filtered(range[f][a][LastPoint(f, a)], returned[f][b][0]), e))' <=>
        (\A a \in Predecessors(f, b) :
           Below(Filtered(range[f][a][LastPoint(f, a)], returned[f][b][0]), e))
    BY <1>1, <2>3
  <2>6. (\A a \in DOMAIN program.body[f] : \A p \in ElementsOf(f, a) :
           p[1] = b => Below(Learnt(f, a, AtEnd(f, a), p), e))' <=>
        (\A a \in DOMAIN program.body[f] : \A p \in ElementsOf(f, a) :
           p[1] = b => Below(Learnt(f, a, AtEnd(f, a), p), e))
    BY <1>1, <2>2
  <2> QED
    BY <2>4, <2>5, <2>6 DEF Gathered
<1>7. FactsAt(f, b, k)' = FactsAt(f, b, k)
  <2>1. CASE k = 1
    <3>1. FactsAt(f, b, k) = {e \in Partial(Values) : Gathered(f, b, e)}
      BY <2>1 DEF FactsAt
    <3>2. FactsAt(f, b, k)' = {e \in Partial(Values) : Gathered(f, b, e)'}
      BY <2>1 DEF FactsAt, Partial
    <3> QED
      BY <1>6, <3>1, <3>2
  <2> QED
    BY <2>1 DEF FactsAt
<1>8. ComputedIn(f, n)' <=> ComputedIn(f, n)
  BY <1>1, <1>3, <1>5 DEF ComputedIn
<1>9. \A c, m, s : AtPhi(f, c, m, s)' <=> AtPhi(f, c, m, s)
  BY DEF AtPhi
<1>10. PhisIn(f, n)' <=> PhisIn(f, n)
  BY <1>9 DEF PhisIn
<1>11. \A S, in : NumbersIn(f, S, in, n)' <=> NumbersIn(f, S, in, n)
  BY <1>1 DEF NumbersIn
<1>12. \A in, a : ArrivesIn(f, b, in, a)' <=> ArrivesIn(f, b, in, a)
  BY <1>4, <1>9 DEF ArrivesIn
<1> QED
  BY <1>7, <1>8, <1>10, <1>11, <1>12 DEF RunRanged

LEMMA ApartSame ==
  ASSUME program' = program, NEW f
  PROVE  Apart(f)' <=> Apart(f)
BY DEF Apart, Addresses, AddressOperand, Numbers, NumberOperands, Points, LastPoint

\* What is known of a run's numbers after a step that changes no fact.
LEMMA RunGoesOn ==
  ASSUME WalkOK, Running, Still, results' = results, RunsRanged,
         \A b, k, n, w :
           /\ b = blk' /\ k = idx' /\ n = env' /\ w = arriving'
           /\ f0 \notin program.void /\ excuses' \subseteq {"phi"} /\ Apart(f0)
           => RunRanged(f0, b, k, n, w)
  PROVE  RunsRanged'
<1>1. /\ program' = program /\ returned' = returned /\ range' = range /\ returnRanges' = returnRanges
      /\ pass' = pass /\ scc' = scc /\ fn' = fn
  BY DEF Still, facts
<1>2. /\ f0' = f0 /\ f0 \in DOMAIN program.body /\ program \in Programs
      /\ Unexcused' <=> excuses' \subseteq {"phi"} /\ Apart(f0)
  <2>1. f0' = f0 /\ f0 \in DOMAIN program.body /\ program \in Programs
    BY <1>1, HereType DEF f0, Members, WalkOK
  <2>2. \A f : Apart(f)' <=> Apart(f)
    BY <1>1, ApartSame
  <2> QED
    BY <2>1, <2>2 DEF Unexcused
<1>3. ASSUME f0 \notin program.void, excuses' \subseteq {"phi"}, Apart(f0)
      PROVE  RunRanged(f0, blk, idx, env, arriving)'
  <2>1. ASSUME NEW f \in DOMAIN program.body, NEW b, NEW k, NEW n, NEW w,
               f = f0, b = blk', k = idx', n = env', w = arriving'
        PROVE  RunRanged(f, b, k, n, w)'
    <3>1. RunRanged(f, b, k, n, w)
      BY <1>3, <2>1
    <3> QED
      BY <1>1, <1>2, <3>1, RunRangedSame
  <2> QED
    BY <1>2, <2>1
<1>4. pass = "done"
  BY DEF Running
<1> QED
  BY <1>1, <1>2, <1>3, <1>4 DEF RunsRanged

\* The names that an instruction may give a number: those that are no slots have
\* what the pass says of their kind.  None but a phi's is the name of a phi.
LEMMA TargetType ==
  ASSUME WalkOK, WellFormed(program), Running, I.op \notin Terminators,
         I.op = "store" => Variable(I.args[2])
  PROVE  /\ Target(I) \in Values \ DOMAIN Literals
         /\ I.op = "store" => Target(I) \in Slots(f0)
         /\ I.op \in {"call", "zext", "binop", "gep", "icmp"} => Target(I) \notin Slots(f0)
         /\ I.op \notin {"call", "zext"} => AbstractIn(f0, Target(I)) = Signs
         /\ I.op # "store" => IsInstruction(f0, I.id) /\ DefinitionOf(f0, I.id) = I
         /\ \A b \in DOMAIN Body : \A k \in DOMAIN Body[b] :
              Body[b][k].id = Target(I) /\ Body[b][k].op = "phi" =>
                I.op = "phi" /\ b = blk /\ k = idx
<1>1. /\ f0 \in DOMAIN program.body /\ Body = program.body[f0] /\ blk \in DOMAIN Body
      /\ idx \in DOMAIN Body[blk] /\ I = program.body[f0][blk][idx] /\ program \in Programs
      /\ I \in Instructions /\ IsInstructionOf(Body, I)
      /\ NamesOnce(program)
  <2>1. blk > 0 /\ idx > 0
    BY DEF Running, WalkOK
  <2> QED
    BY <2>1, AtAnInstruction, BodyType DEF WalkOK, WellFormed, I, LastPoint
<1>2. CASE I.op = "store"
  <2>0. Target(I) \in Addresses(f0) /\ Addresses(f0) \subseteq Values
    BY <1>1, <1>2, AddressesAre DEF Target
  <2>1. Target(I) \in Slots(f0) /\ DefinitionOf(f0, Target(I)).op # "phi"
    BY <1>2, <2>0 DEF Target, Variable, IsA, Slots
  <2>2. Target(I) \in Values \ DOMAIN Literals /\ AbstractIn(f0, Target(I)) = Signs
    BY <1>1, <2>1, SlotsHaveAnySign
  <2>3. ASSUME NEW b \in DOMAIN Body, NEW k \in DOMAIN Body[b], Body[b][k].id = Target(I)
        PROVE  Body[b][k].op # "phi"
    <3>1. Names(f0, b, k, Target(I))
      BY <1>1, <2>3 DEF Names
    <3>2. DefinitionOf(f0, Target(I)) = Body[b][k]
      BY <1>1, <2>2, <3>1, DefinedAt
    <3> QED
      BY <2>1, <3>2
  <2> QED
    BY <1>2, <2>1, <2>2, <2>3
<1>3. CASE I.op # "store"
  <2>0. I.op \in {"alloca", "load", "bitcast", "ptrtoint", "trunc", "sext",
                  "call", "zext", "binop", "gep", "icmp", "phi"}
    BY <1>1, <1>3 DEF Instructions, Terminators
  <2>1. /\ I.id \in Values \ DOMAIN Literals /\ IsInstruction(f0, I.id)
        /\ DefinitionOf(f0, I.id) = I
        /\ I.op \in {"call", "zext", "binop", "gep", "icmp"} => I.id \notin Slots(f0)
    BY <1>1, <2>0, DefinesSlot, SMTT(40)
  <2>2. ASSUME NEW b \in DOMAIN Body, NEW k \in DOMAIN Body[b], Body[b][k].id = I.id
        PROVE  b = blk /\ k = idx
    <3>1. Names(f0, b, k, I.id) /\ Names(f0, blk, idx, I.id)
      BY <1>1, <2>2 DEF Names
    <3> QED
      BY <1>1, <2>1, <3>1, NamedOnce
  <2>3. Target(I) = I.id
    BY <1>3 DEF Target
  <2>4. I.op \notin {"call", "zext"} => AbstractIn(f0, I.id) = Signs
    BY <1>1, <2>1, HasAnySign
  <2>5. ASSUME NEW b \in DOMAIN Body, NEW k \in DOMAIN Body[b], Body[b][k].id = I.id,
               Body[b][k].op = "phi"
        PROVE  I.op = "phi" /\ b = blk /\ k = idx
    BY <1>1, <2>2, <2>5
  <2> QED
    BY <1>3, <2>1, <2>3, <2>4, <2>5
<1> QED
  BY <1>2, <1>3

\* What the fact after an instruction knows of the others' numbers, and of what is
\* about to arrive at the phis that follow.
LEMMA OthersStayRanged ==
  ASSUME WalkOK, TypedFactsOK, ValuesOK, ReturnedFixpointOK, RangesOK, WellFormed(program),
         Running, f0 \notin program.void, Apart(f0), I.op \notin Terminators,
         RunRanged(f0, blk, idx, env, arriving), NEW v, v = Target(I)
  PROVE  /\ \A u \in DOMAIN env : u # v /\ u \in Slots(f0) \cap ReturnedOut =>
              u \in DOMAIN RangeOut /\ SignOf(env[u]) \in RangeOut[u]
         /\ \A a \in arriving : a.phi >= idx + 1 => ArrivesIn(f0, blk, RangeOut, a)
<1>1. /\ f0 \in DOMAIN program.body /\ Body = program.body[f0] /\ blk \in DOMAIN Body
      /\ idx \in DOMAIN Body[blk] /\ I = program.body[f0][blk][idx] /\ program \in Programs
      /\ idx \in Nat /\ \A j \in DOMAIN I.args : I.args[j] \in Values
      /\ PhisFirst(program)
  <2>1. blk > 0 /\ idx > 0
    BY DEF Running, WalkOK
  <2> QED
    BY <2>1, AtAnInstruction, BodyType DEF WalkOK, WellFormed, I, LastPoint
<1>2. PICK in \in FactsAt(f0, blk, idx) : RangedBy(f0, blk, idx, in)
  BY RangesAtRun
<1>3. in \in Partial(Values) /\ DOMAIN in \subseteq Known(f0)
  BY RangesAtRun
<1>4. RangeOut = Result(f0, blk, idx, in)
  BY <1>1, <1>2 DEF RangedBy, RangeOut, Terminators
<1>5. NumbersIn(f0, ReturnedIn, in, env)
  BY <1>2 DEF RunRanged, ReturnedIn
<1>6. /\ \A u : u # v => /\ u \in DOMAIN RangeOut <=> u \in DOMAIN in \cap ReturnedOut
                         /\ u \in DOMAIN RangeOut => RangeOut[u] = in[u]
      /\ v \notin ReturnedOut => v \notin DOMAIN RangeOut
  BY <1>1, <1>3, <1>4, ResultMeans DEF TypedFactsOK, ReturnedOut
<1>7. ASSUME NEW u \in DOMAIN env, u # v, u \in Slots(f0) \cap ReturnedOut
      PROVE  u \in DOMAIN RangeOut /\ SignOf(env[u]) \in RangeOut[u]
  <2>1. u \in ReturnedIn
    BY <1>7, ReturnedBefore DEF Terminators
  <2>2. u \in DOMAIN in /\ SignOf(env[u]) \in in[u]
    BY <1>5, <1>7, <2>1 DEF NumbersIn
  <2> QED
    BY <1>6, <1>7, <2>2
<1>8. ASSUME NEW a \in arriving, a.phi >= idx + 1
      PROVE  ArrivesIn(f0, blk, RangeOut, a)
  <2>1. a.phi \in DOMAIN Body[blk] /\ Body[blk][a.phi].op = "phi"
    BY <1>1, <1>8 DEF RunRanged
  <2>2. a.phi \in Nat
    BY <1>1, <2>1, BodyType, SMTT(40)
  <2>3. I.op = "phi"
    <3>1. idx \in 1..(a.phi - 1)
      BY <1>1, <1>8, <2>2, AtAnInstruction DEF Running, WalkOK
    <3> QED
      BY <1>1, <2>1, <3>1 DEF PhisFirst
  <2>4. v = I.id /\ AbstractIn(f0, v) = Signs
    BY <2>3, TargetType DEF Target
  <2>5. ArrivesIn(f0, blk, in, a)
    BY <1>1, <1>2, <1>8, <2>2 DEF RunRanged
  <2>6. PICK j \in DOMAIN program.body[f0][blk][a.phi].args :
          /\ SignOf(a.number) \in ElementIn(f0, in, program.body[f0][blk][a.phi].args[j])
          /\ \A k \in DOMAIN program.body[f0][blk] :
               program.body[f0][blk][k].id = program.body[f0][blk][a.phi].args[j] =>
                 AtPhi(f0, blk, k, SignOf(a.number))
    BY <2>5 DEF ArrivesIn
  <2> DEFINE u == program.body[f0][blk][a.phi].args[j]
             s == SignOf(a.number)
  <2>7. s \in Signs
    BY <1>8, WordsType, SignsOfNumbers DEF ValuesOK
  <2>8. s \in ElementIn(f0, in, u) /\ (u = v => AtPhi(f0, blk, idx, s))
    BY <1>1, <2>4, <2>6
  <2>10. u \in Numbers(f0)
    BY <1>1, <2>1, <2>6, NumbersAre
  <2> HIDE DEF u, s
  <2>11. u \in DOMAIN in => AbstractIn(f0, u) = Signs
    <3>1. u \in DOMAIN in => u \in Slots(f0)
      BY <1>3, <2>10 DEF Known, Apart
    <3> QED
      BY <1>1, <3>1, SlotsHaveAnySign
  <2>9. s \in ElementIn(f0, RangeOut, u)
    <3>1. CASE u = v /\ v \in ReturnedOut
      BY <1>1, <2>3, <2>4, <2>8, <3>1 DEF AtPhi, ElementIn, ReturnedOut, RangeOut
    <3>2. CASE u = v /\ v \notin ReturnedOut
      BY <1>6, <2>4, <2>7, <3>2 DEF ElementIn
    <3>3. CASE u # v /\ u \in DOMAIN in /\ u \notin ReturnedOut
      BY <1>6, <2>7, <2>11, <3>3 DEF ElementIn
    <3>4. CASE u # v /\ ~(u \in DOMAIN in /\ u \notin ReturnedOut)
      BY <1>6, <2>8, <3>4 DEF ElementIn
    <3> QED
      BY <3>1, <3>2, <3>3, <3>4
  <2> QED
    BY <2>6, <2>9 DEF ArrivesIn, u, s
<1> QED
  BY <1>7, <1>8

LEMMA RunRangedIs ==
  ASSUME NEW f, NEW b, NEW k, NEW n, NEW w, ComputedIn(f, n), PhisIn(f, n),
         \A a \in w : a.phi \in DOMAIN program.body[f][b] /\ program.body[f][b][a.phi].op = "phi",
         \A in \in FactsAt(f, b, k) :
           /\ NumbersIn(f, returned[f][b][k - 1], in, n)
           /\ \A a \in w : a.phi >= k => ArrivesIn(f, b, in, a)
  PROVE  RunRanged(f, b, k, n, w)
BY DEF RunRanged

\* A step to the next instruction of a block.
LEMMA StepsRanged ==
  ASSUME WalkOK, TypedFactsOK, ValuesOK, ReturnedFixpointOK, RangesOK, WellFormed(program),
         Running, f0 \notin program.void, Apart(f0), I.op \notin Terminators,
         RunRanged(f0, blk, idx, env, arriving), NEW v, v = Target(I), NEW n,
         \A u \in DOMAIN n : u # v => u \in DOMAIN env /\ n[u] = env[u],
         v \in DOMAIN n =>
           /\ v \in Slots(f0) \cap ReturnedOut => v \in DOMAIN RangeOut /\ SignOf(n[v]) \in RangeOut[v]
           /\ v \notin Slots(f0) /\ ~NoValue(f0, v) => SignOf(n[v]) \in AbstractIn(f0, v)
           /\ \A b \in DOMAIN Body : \A m \in DOMAIN Body[b] :
                Body[b][m].id = v => AtPhi(f0, b, m, SignOf(n[v]))
  PROVE  RunRanged(f0, blk, idx + 1, n, arriving)
<1>0. SUFFICES ASSUME NEW k \in Nat, k = idx + 1
               PROVE  RunRanged(f0, blk, k, n, arriving)
  BY HereType DEF WalkOK
<1>1. /\ f0 \in DOMAIN program.body /\ Body = program.body[f0] /\ blk \in DOMAIN Body
      /\ idx \in DOMAIN Body[blk] /\ I = program.body[f0][blk][idx] /\ program \in Programs
      /\ idx \in Nat /\ idx > 0
  <2>1. blk > 0 /\ idx > 0
    BY DEF Running, WalkOK
  <2> QED
    BY <2>1, AtAnInstruction, BodyType DEF WalkOK, WellFormed, I, LastPoint
<1>2. k - 1 = idx /\ FactsAt(f0, blk, k) = {RangeOut}
  BY <1>0, <1>1 DEF FactsAt, RangeOut
<1>3. ComputedIn(f0, n)
  BY DEF RunRanged, ComputedIn
<1>4. ASSUME NEW b \in DOMAIN program.body[f0], NEW m \in DOMAIN program.body[f0][b],
             program.body[f0][b][m].id \in DOMAIN n
      PROVE  AtPhi(f0, b, m, SignOf(n[program.body[f0][b][m].id]))
  <2> DEFINE u == program.body[f0][b][m].id
  <2>1. CASE u # v
    BY <1>4, <2>1 DEF RunRanged, PhisIn
  <2>2. CASE u = v
    BY <1>1, <1>4, <2>2
  <2> QED
    BY <2>1, <2>2
<1>5. NumbersIn(f0, ReturnedOut, RangeOut, n)
  BY OthersStayRanged DEF NumbersIn
<1>6. \A a \in arriving : a.phi >= k => ArrivesIn(f0, blk, RangeOut, a)
  BY <1>0, OthersStayRanged
<1>7. \A a \in arriving : a.phi \in DOMAIN program.body[f0][blk] /\ program.body[f0][blk][a.phi].op = "phi"
  BY DEF RunRanged
<1>8. PhisIn(f0, n)
  BY <1>4 DEF PhisIn
<1>9. ASSUME NEW in \in FactsAt(f0, blk, k)
      PROVE  /\ NumbersIn(f0, returned[f0][blk][k - 1], in, n)
             /\ \A a \in arriving : a.phi >= k => ArrivesIn(f0, blk, in, a)
  <2>1. in = RangeOut
    BY <1>2
  <2>2. returned[f0][blk][k - 1] = ReturnedOut
    BY <1>2 DEF ReturnedOut
  <2> QED
    BY <1>5, <1>6, <2>1, <2>2
<1> QED
  BY <1>3, <1>7, <1>8, <1>9, RunRangedIs

\* What a run relies on: the facts of the passes, and the types of its numbers.
FactsFixed ==
  /\ WalkOK /\ TypedFactsOK /\ ValuesOK /\ ReturnedFixpointOK /\ RangesOK
  /\ WellFormed(program)

LEMMA AtARun ==
  ASSUME WalkOK, Running
  PROVE  /\ blk > 0 /\ idx > 0 /\ program \in Programs
         /\ f0 \in DOMAIN program.body /\ Body = program.body[f0] /\ blk \in DOMAIN Body
         /\ idx \in DOMAIN Body[blk] /\ I = program.body[f0][blk][idx] /\ idx \in Nat
         /\ I \in Instructions /\ IsInstructionOf(Body, I)
         /\ \A j \in DOMAIN I.args : I.args[j] \in Values
<1>1. blk > 0 /\ idx > 0
  BY DEF Running, WalkOK
<1> QED
  BY <1>1, AtAnInstruction, BodyType DEF WalkOK, I, LastPoint

\* What an operand is read as is in its element.
LEMMA ReadsRanged ==
  ASSUME FactsFixed, Running, f0 \notin program.void, Apart(f0),
         RunRanged(f0, blk, idx, env, arriving), NEW in \in FactsAt(f0, blk, idx),
         NEW m \in DOMAIN I.args, HasNumber(I.args[m]), I.args[m] \in Numbers(f0)
  PROVE  SignOf(ValueOf(I.args[m])) \in ElementIn(f0, in, I.args[m])
<1>1. DOMAIN in \subseteq Known(f0) \cap ReturnedIn
  BY RangesAtRun DEF FactsFixed, ReturnedIn
<1>2. NumbersIn(f0, ReturnedIn, in, env) /\ ComputedIn(f0, env)
  BY DEF RunRanged, ReturnedIn
<1>3. ~NoValue(f0, I.args[m]) /\ I.args[m] \in Values
  BY AtARun, UsedHasValue DEF FactsFixed, WellFormed
<1> QED
  BY <1>1, <1>2, <1>3, ReadsInElement DEF FactsFixed

\* An instruction that runs has its operands, a load what its variable holds.
LEMMA OperandsRead ==
  ASSUME WalkOK, NEW ops, Executes(ops), "phi" \notin ops
  PROVE  /\ Running /\ I.op \in ops
         /\ \A k \in DOMAIN I.args : HasNumber(I.args[k])
         /\ I.op = "load" /\ Variable(I.args[1]) /\ 1 \in DOMAIN I.args =>
              I.args[1] \in DOMAIN env
<1>1. Running /\ I.op \in ops /\ I.op # "phi" /\ Unset = {}
  BY DEF Executes
<1>2. \A k \in DOMAIN I.args : HasNumber(I.args[k])
  BY <1>1 DEF Unset
<1>3. ASSUME I.op = "load", Variable(I.args[1]), 1 \in DOMAIN I.args
      PROVE  I.args[1] \in DOMAIN env
  <2>1. I.args[1] \notin DOMAIN Literals
    BY <1>3, VariablesAreNamed
  <2> QED
    BY <1>1, <1>3, <2>1 DEF Unset
<1> QED
  BY <1>1, <1>2, <1>3

\* The targets of copies and of phis.
LEMMA CopiesRanged ==
  ASSUME FactsFixed, Running, f0 \notin program.void,
         I.op \in {"store", "load", "bitcast", "ptrtoint", "trunc", "sext"},
         NEW v, v = Target(I), v \in ReturnedOut
  PROVE  \E in \in FactsAt(f0, blk, idx) :
           v \in DOMAIN RangeOut /\ RangeOut[v] = ElementIn(f0, in, I.args[1])
<1>1. I = program.body[f0][blk][idx] /\ \A j \in DOMAIN I.args : I.args[j] \in Values
  BY AtARun DEF FactsFixed
<1>2. PICK in \in FactsAt(f0, blk, idx) : RangedBy(f0, blk, idx, in)
  BY RangesAtRun DEF FactsFixed
<1>3. in \in Partial(Values)
  BY RangesAtRun DEF FactsFixed
<1>4. RangeOut = Result(f0, blk, idx, in)
  BY <1>1, <1>2 DEF RangedBy, RangeOut
<1>5. v \in DOMAIN RangeOut /\ RangeOut[v] = ElementIn(f0, in, I.args[1])
  BY <1>1, <1>3, <1>4, ResultMeans DEF FactsFixed, TypedFactsOK, ReturnedOut, Terminators
<1> QED
  BY <1>5

LEMMA PhiIsRanged ==
  ASSUME StoredRangesOK, NEW f, NEW b, NEW k, NEW in \in Partial(Values),
         NEW i, i = program.body[f][b][k], i.op = "phi",
         \A j \in DOMAIN i.args : i.args[j] \in Values,
         NEW v, v = i.id, v \in returned[f][b][k], NEW out, out = Result(f, b, k, in)
  PROVE  /\ v \in DOMAIN out
         /\ \A j \in DOMAIN i.args : ElementIn(f, in, i.args[j]) \subseteq out[v]
<1> DEFINE joined == JoinAll({ElementIn(f, in, i.args[j]) : j \in DOMAIN i.args})
           copied == Filtered(in, returned[f][b][k])
<1>1. out = Updated(copied, v, joined)
  BY DEF Result
<1>2. {ElementIn(f, in, i.args[j]) : j \in DOMAIN i.args} \in SUBSET SUBSET Signs
  BY ElementInType
<1>3. joined = UNION {ElementIn(f, in, i.args[j]) : j \in DOMAIN i.args}
  BY <1>2, JoinAllIsUnion
<1>4. \A j \in DOMAIN i.args : ElementIn(f, in, i.args[j]) \subseteq joined
  BY <1>3
<1> HIDE DEF joined, copied
<1>5. v \in DOMAIN out /\ out[v] = joined
  BY <1>1 DEF Updated
<1> QED
  BY <1>4, <1>5

LEMMA PhisRanged ==
  ASSUME FactsFixed, Running, f0 \notin program.void, RunRanged(f0, blk, idx, env, arriving),
         I.op = "phi", NEW a \in arriving, a.phi = idx, NEW v, v = I.id, v \in ReturnedOut
  PROVE  v \in DOMAIN RangeOut /\ SignOf(a.number) \in RangeOut[v]
<1>1. I = program.body[f0][blk][idx] /\ idx \in Nat
  BY AtARun DEF FactsFixed
<1>2. PICK in \in FactsAt(f0, blk, idx) : RangedBy(f0, blk, idx, in)
  BY RangesAtRun DEF FactsFixed
<1>3. /\ v \in DOMAIN RangeOut
      /\ \A j \in DOMAIN I.args : ElementIn(f0, in, I.args[j]) \subseteq RangeOut[v]
  <2>1. /\ \A j \in DOMAIN I.args : I.args[j] \in Values
        /\ in \in Partial(Values) /\ StoredRangesOK
    BY AtARun, RangesAtRun DEF FactsFixed, TypedFactsOK
  <2>2. RangeOut = Result(f0, blk, idx, in) /\ v \in returned[f0][blk][idx]
    BY <1>1, <1>2 DEF RangedBy, RangeOut, ReturnedOut
  <2> QED
    BY <1>1, <2>1, <2>2, PhiIsRanged
<1>4. a.phi >= idx
  BY <1>1
<1>5. ArrivesIn(f0, blk, in, a)
  BY <1>4 DEF RunRanged
<1>6. \E j \in DOMAIN I.args : SignOf(a.number) \in ElementIn(f0, in, I.args[j])
  <2>1. program.body[f0][blk][a.phi] = I
    BY <1>1
  <2> QED
    BY <1>5, <2>1 DEF ArrivesIn
<1> QED
  BY <1>3, <1>6

\* An instruction that gives its target a number.
LEMMA DefinesRanged ==
  ASSUME FactsFixed, RunsRanged, Running, I.op \notin Terminators, Still, results' = results,
         excuses \subseteq excuses',
         NEW v, v = Target(I), NEW n, NEW o, NEW t, Define(v, n, o, t),
         I.op = "store" => Variable(I.args[2]),
         v \notin Slots(f0) /\ ~NoValue(f0, v) => SignOf(n) \in AbstractIn(f0, v),
         f0 \notin program.void /\ excuses' \subseteq {"phi"} /\ Apart(f0) /\ v \in ReturnedOut
           /\ (v \in Slots(f0) \/ I.op = "phi") =>
             v \in DOMAIN RangeOut /\ SignOf(n) \in RangeOut[v]
  PROVE  RunsRanged'
<1>1. /\ env' = Updated(env, v, n) /\ blk' = blk /\ idx' = idx + 1 /\ arriving' = arriving
  BY DEF Define
<1>2. ASSUME f0 \notin program.void, excuses' \subseteq {"phi"}, Apart(f0), NEW m, m = env'
      PROVE  RunRanged(f0, blk, idx + 1, m, arriving)
  <2>1. RunRanged(f0, blk, idx, env, arriving)
    BY <1>2 DEF RunsRanged, Unexcused
  <2>2. /\ \A u \in DOMAIN m : u # v => u \in DOMAIN env /\ m[u] = env[u]
        /\ m[v] = n
    BY <1>1, <1>2 DEF Updated
  <2>3. ASSUME NEW b \in DOMAIN Body, NEW k \in DOMAIN Body[b], Body[b][k].id = v
        PROVE  AtPhi(f0, b, k, SignOf(n))
    <3>1. Body = program.body[f0]
      BY AtARun DEF FactsFixed
    <3>2. CASE Body[b][k].op = "phi"
      <4>1. I.op = "phi" /\ b = blk /\ k = idx
        BY <2>3, <3>2, TargetType DEF FactsFixed
      <4> QED
        BY <1>2, <2>3, <3>1, <4>1 DEF AtPhi, ReturnedOut, RangeOut
    <3>3. CASE Body[b][k].op # "phi"
      BY <3>1, <3>3 DEF AtPhi
    <3> QED
      BY <3>2, <3>3
  <2> QED
    BY <1>2, <2>1, <2>2, <2>3, StepsRanged DEF FactsFixed
<1>3. \A b, k, m, w :
        /\ b = blk' /\ k = idx' /\ m = env' /\ w = arriving'
        /\ f0 \notin program.void /\ excuses' \subseteq {"phi"} /\ Apart(f0)
        => RunRanged(f0, b, k, m, w)
  BY <1>1, <1>2
<1> QED
  BY <1>3, RunGoesOn DEF FactsFixed

LEMMA AllocaRanged ==
  ASSUME FactsFixed, RunsRanged, ExecAlloca
  PROVE  RunsRanged'
<1>1. /\ Running /\ I.op = "alloca" /\ Still /\ results' = results /\ excuses' = excuses
      /\ env' = env /\ blk' = blk /\ idx' = idx + 1 /\ arriving' = arriving
  BY DEF ExecAlloca, Executes
<1>2. /\ I = program.body[f0][blk][idx]
  BY <1>1, AtARun DEF FactsFixed
<1>3. ASSUME f0 \notin program.void, excuses' \subseteq {"phi"}, Apart(f0)
      PROVE  RunRanged(f0, blk, idx + 1, env, arriving)
  <2>1. RunRanged(f0, blk, idx, env, arriving)
    BY <1>1, <1>3 DEF RunsRanged, Unexcused
  <2>2. PICK in \in FactsAt(f0, blk, idx) : RangedBy(f0, blk, idx, in)
    BY <1>1, <1>3, RangesAtRun DEF FactsFixed
  <2>3. RangeOut = Filtered(in, ReturnedOut)
    BY <1>1, <1>2, <2>2 DEF RangedBy, RangeOut, ReturnedOut, Result
  <2>4. ReturnedIn = ReturnedOut
    BY <1>1, ReturnedAtRun DEF FactsFixed, ReturnedOf
  <2>5. NumbersIn(f0, ReturnedIn, in, env)
    BY <2>1 DEF RunRanged, ReturnedIn
  <2>6. ASSUME NEW v, v = Target(I), v \in DOMAIN env
        PROVE  /\ v \in Slots(f0) \cap ReturnedOut =>
                    v \in DOMAIN RangeOut /\ SignOf(env[v]) \in RangeOut[v]
               /\ v \notin Slots(f0) /\ ~NoValue(f0, v) => SignOf(env[v]) \in AbstractIn(f0, v)
               /\ \A b \in DOMAIN Body : \A m \in DOMAIN Body[b] :
                    Body[b][m].id = v => AtPhi(f0, b, m, SignOf(env[v]))
    <3>1. \A b \in DOMAIN Body : \A m \in DOMAIN Body[b] :
            Body[b][m].id = v => Body[b][m].op # "phi"
      BY <1>1, <2>6, TargetType DEF FactsFixed, Terminators
    <3>2. v \in Slots(f0) \cap ReturnedOut =>
            v \in DOMAIN RangeOut /\ SignOf(env[v]) \in RangeOut[v]
      BY <2>3, <2>4, <2>5, <2>6 DEF NumbersIn, Filtered
    <3>3. v \notin Slots(f0) /\ ~NoValue(f0, v) => SignOf(env[v]) \in AbstractIn(f0, v)
      BY <2>1, <2>6 DEF RunRanged, ComputedIn
    <3> QED
      BY <3>1, <3>2, <3>3 DEF AtPhi, Body
  <2>7. I.op \notin Terminators
    BY <1>1 DEF Terminators
  <2> QED
    BY <1>1, <1>3, <2>1, <2>6, <2>7, StepsRanged DEF FactsFixed
<1>4. \A b, k, m, w :
        /\ b = blk' /\ k = idx' /\ m = env' /\ w = arriving'
        /\ f0 \notin program.void /\ excuses' \subseteq {"phi"} /\ Apart(f0)
        => RunRanged(f0, b, k, m, w)
  BY <1>1, <1>3
<1> QED
  BY <1>1, <1>4, RunGoesOn DEF FactsFixed

\* A call gives what an earlier run of the function returned, or any number.
LEMMA CallRanged ==
  ASSUME FactsFixed, RunsRanged, ExecCall
  PROVE  RunsRanged'
<1> DEFINE same == I.tag \in err_functions \ {"IS_ERR"}
<1>1. /\ Running /\ I.op = "call" /\ Still /\ results' = results /\ excuses' = excuses
      /\ \A k \in DOMAIN I.args : HasNumber(I.args[k])
  <2>1. Executes({"call"}) /\ Still /\ results' = results /\ excuses' = excuses
    BY DEF ExecCall
  <2> QED
    BY <2>1, OperandsRead DEF FactsFixed
<1>2. PICK n \in IF I.tag \in program.void THEN {0}
                 ELSE IF I.tag \in DOMAIN program.body THEN results[I.tag]
                 ELSE IF same THEN {ValueOf(I.args[1])}
                 ELSE IF I.tag = "IS_ERR" THEN {0, 1} ELSE Inputs :
        Define(I.id, n, {I.id}, IF same THEN TrailOf(I.args[1]) ELSE {})
  BY DEF ExecCall
<1>3. I.op \notin Terminators /\ Target(I) = I.id
  BY <1>1 DEF Terminators, Target
<1>4. /\ I \in Instructions /\ IsInstructionOf(Body, I)
      /\ program \in Programs
  BY <1>1, AtARun DEF FactsFixed
<1>5. I.id \notin Slots(f0) /\ IsInstruction(f0, I.id) /\ DefinitionOf(f0, I.id) = I
      /\ I.id \in Values \ DOMAIN Literals
  BY <1>1, <1>3, TargetType DEF FactsFixed
<1>6. SignOf(n) \in Signs \/ I.tag \in DOMAIN program.body
  <2>0. program.void \subseteq DOMAIN program.body
    BY <1>4, DataFlowProgramsAssumption DEF IsProgram
  <2>1. SUFFICES ASSUME I.tag \notin program.void, I.tag \notin DOMAIN program.body
                 PROVE  n \in Int
    BY <2>0, SignsOfNumbers
  <2>2. CASE same
    <3>1. 1 \in DOMAIN I.args
      BY <1>1, <1>4, <2>2, Operands
    <3>2. n \in Words
      BY <1>1, <1>2, <2>1, <2>2, <3>1, ReadsWords DEF FactsFixed
    <3> QED
      BY <3>2, WordsType
  <2>3. CASE ~same
    <3>1. n \in {0, 1} \/ n \in Inputs
      BY <1>2, <2>1, <2>3
    <3> QED
      BY <3>1, InputsAssumption, WordsType
  <2> QED
    BY <2>2, <2>3
<1>7. ~NoValue(f0, I.id) => SignOf(n) \in AbstractIn(f0, I.id)
  <2>1. IsA(f0, I.id, "call") /\ ~IsA(f0, I.id, "zext")
    BY <1>1, <1>5 DEF IsA
  <2>2. AbstractIn(f0, I.id) = AbstractCall(I.tag)
    BY <1>5, <2>1 DEF AbstractIn
  <2>3. SUFFICES ASSUME I.tag \notin program.void
                 PROVE  SignOf(n) \in AbstractCall(I.tag)
    BY <1>5, <2>1, <2>2 DEF NoValue
  <2>4. CASE I.tag \in DOMAIN program.body
    <3>1. n \in results[I.tag] /\ I.tag \in DOMAIN results
      BY <1>2, <2>3, <2>4 DEF FactsFixed, ValuesOK
    <3>2. I.tag \in DOMAIN returnRanges /\ SignOf(n) \in returnRanges[I.tag]
      BY <3>1 DEF RunsRanged
    <3> QED
      BY <2>4, <3>2 DEF AbstractCall
  <2>5. CASE I.tag \notin DOMAIN program.body
    BY <1>6, <2>5 DEF AbstractCall
  <2> QED
    BY <2>4, <2>5
<1> HIDE DEF same
<1> QED
  BY <1>1, <1>2, <1>3, <1>5, <1>7, DefinesRanged

\* A step that has an excuse.
LEMMA ExcusedRanged ==
  ASSUME FactsFixed, RunsRanged, WriteExposed
  PROVE  RunsRanged'
<1>1. Running /\ Still /\ results' = results /\ excuses' = excuses \union {"written"}
  BY DEF WriteExposed, Executes
<1>2. ~(excuses' \subseteq {"phi"})
  BY <1>1
<1> QED
  BY <1>1, <1>2, RunGoesOn DEF FactsFixed

\* A store through a pointer changes no number, and a pointer is no slot.
LEMMA StoreThroughRanged ==
  ASSUME FactsFixed, RunsRanged, ExecStoreThrough
  PROVE  RunsRanged'
<1>1. /\ Running /\ I.op = "store" /\ Still /\ results' = results /\ excuses' = excuses
      /\ ~Variable(I.args[2])
      /\ env' = env /\ blk' = blk /\ idx' = idx + 1 /\ arriving' = arriving
  BY DEF ExecStoreThrough, Executes
<1>2. /\ f0 \in DOMAIN program.body /\ Body = program.body[f0] /\ blk \in DOMAIN Body
      /\ idx \in DOMAIN Body[blk] /\ I = program.body[f0][blk][idx] /\ program \in Programs
  BY <1>1, AtARun DEF FactsFixed
<1>3. I.args[2] \in Addresses(f0)
  BY <1>1, <1>2, AddressesAre
<1>4. I.args[2] \notin Slots(f0)
  BY <1>1, <1>3 DEF Slots, Variable, IsA
<1>5. ASSUME f0 \notin program.void, excuses' \subseteq {"phi"}, Apart(f0)
      PROVE  RunRanged(f0, blk, idx + 1, env, arriving)
  <2>1. RunRanged(f0, blk, idx, env, arriving)
    BY <1>1, <1>5 DEF RunsRanged, Unexcused
  <2>2. ASSUME NEW v, v = Target(I), v \in DOMAIN env
        PROVE  /\ v \notin Slots(f0)
               /\ ~NoValue(f0, v) => SignOf(env[v]) \in AbstractIn(f0, v)
               /\ \A b \in DOMAIN Body : \A m \in DOMAIN Body[b] :
                    Body[b][m].id = v => AtPhi(f0, b, m, SignOf(env[v]))
    <3>1. v \notin Slots(f0)
      BY <1>1, <1>4, <2>2 DEF Target
    <3>2. ~NoValue(f0, v) => SignOf(env[v]) \in AbstractIn(f0, v)
      BY <2>1, <2>2, <3>1 DEF RunRanged, ComputedIn
    <3>3. \A b \in DOMAIN Body : \A m \in DOMAIN Body[b] :
            Body[b][m].id = v => AtPhi(f0, b, m, SignOf(env[v]))
      BY <1>2, <2>1, <2>2 DEF RunRanged, PhisIn
    <3> QED
      BY <3>1, <3>2, <3>3
  <2>3. I.op \notin Terminators
    BY <1>1 DEF Terminators
  <2> QED
    BY <1>1, <1>5, <2>1, <2>2, <2>3, StepsRanged DEF FactsFixed
<1>6. \A b, k, m, w :
        /\ b = blk' /\ k = idx' /\ m = env' /\ w = arriving'
        /\ f0 \notin program.void /\ excuses' \subseteq {"phi"} /\ Apart(f0)
        => RunRanged(f0, b, k, m, w)
  BY <1>1, <1>5
<1> QED
  BY <1>1, <1>6, RunGoesOn DEF FactsFixed

\* Instructions that pass on the number that they read, or one of its sign.
LEMMA CopyRanged ==
  ASSUME FactsFixed, RunsRanged, ExecStore \/ ExecLoad \/ ExecCast \/ ExecTrunc
  PROVE  RunsRanged'
<1>1. /\ Running /\ Still /\ results' = results /\ excuses \subseteq excuses'
      /\ I.op \in {"store", "load", "bitcast", "ptrtoint", "trunc", "sext"}
      /\ Executes({"store", "load", "bitcast", "ptrtoint", "trunc", "sext"})
      /\ I.op = "store" => Variable(I.args[2])
      /\ I.op = "load" => Variable(I.args[1])
  BY DEF ExecStore, ExecLoad, ExecCast, ExecTrunc, Executes
<1>2. /\ I \in Instructions /\ IsInstructionOf(Body, I) /\ program \in Programs
      /\ f0 \in DOMAIN program.body /\ Body = program.body[f0] /\ blk \in DOMAIN Body
      /\ idx \in DOMAIN Body[blk] /\ I = program.body[f0][blk][idx]
  BY <1>1, AtARun DEF FactsFixed
<1>3. 1 \in DOMAIN I.args /\ I.args[1] \in Values
  BY <1>1, <1>2, ReadsFirst
<1>4. I.op \notin Terminators
  BY <1>1 DEF Terminators
<1> DEFINE x == IF I.op = "load" THEN env[I.args[1]] ELSE ValueOf(I.args[1])
<1>5. x \in Int
  <2>1. CASE I.op = "load"
    <3>1. I.args[1] \in DOMAIN env
      BY <1>1, <1>3, <2>1, OperandsRead DEF FactsFixed
    <3> QED
      BY <2>1, <3>1, WordsType DEF FactsFixed, ValuesOK
  <2>2. CASE I.op # "load"
    <3>1. HasNumber(I.args[1])
      BY <1>1, <1>3, OperandsRead DEF FactsFixed
    <3> QED
      BY <2>2, <3>1, ReadsWords, WordsType DEF FactsFixed
  <2> QED
    BY <2>1, <2>2
<1>6. \E n, o, t : /\ Define(Target(I), n, o, t) /\ n \in Int
                   /\ excuses' \subseteq {"phi"} => SignOf(n) = SignOf(x)
  <2>1. CASE ExecStore
    <3>1. I.op = "store"
      BY <2>1 DEF ExecStore, Executes
    <3> QED
      BY <1>5, <2>1, <3>1 DEF ExecStore, Target
  <2>2. CASE ExecLoad
    <3>1. I.op = "load"
      BY <2>2 DEF ExecLoad, Executes
    <3> QED
      BY <1>5, <2>2, <3>1 DEF ExecLoad, Target
  <2>3. CASE ExecCast
    <3>1. I.op \notin {"store", "load"}
      BY <2>3 DEF ExecCast, Executes
    <3> QED
      BY <1>5, <2>3, <3>1 DEF ExecCast, Target
  <2>4. CASE ExecTrunc
    <3>1. I.op \notin {"store", "load"} /\ x = ValueOf(I.args[1])
      BY <2>4 DEF ExecTrunc, Executes
    <3> DEFINE half == Half \div 2
               cut == ((x + half) % Half) - half
    <3>2. /\ Define(I.id, cut, {}, TrailOf(I.args[1]))
          /\ excuses' = IF SignOf(cut) = SignOf(x) THEN excuses ELSE excuses \union {"wrapped"}
      BY <2>4, <3>1 DEF ExecTrunc
    <3>3. cut \in Int
      <4>1. half \in Int
        BY InputsAssumption
      <4> QED
        BY <1>5, <4>1, InputsAssumption
    <3> HIDE DEF cut, x
    <3>4. excuses' \subseteq {"phi"} => SignOf(cut) = SignOf(x)
      BY <3>2
    <3> QED
      BY <3>1, <3>2, <3>3, <3>4 DEF Target
  <2> QED
    BY <1>1, <2>1, <2>2, <2>3, <2>4
<1>7. PICK n, o, t : /\ Define(Target(I), n, o, t) /\ n \in Int
                     /\ excuses' \subseteq {"phi"} => SignOf(n) = SignOf(x)
  BY <1>6
<1>8. ASSUME f0 \notin program.void, excuses' \subseteq {"phi"}, Apart(f0),
             NEW in \in FactsAt(f0, blk, idx)
      PROVE  SignOf(x) \in ElementIn(f0, in, I.args[1])
  <2>1. RunRanged(f0, blk, idx, env, arriving)
    BY <1>1, <1>8 DEF RunsRanged, Unexcused
  <2>2. CASE I.op = "load"
    <3>1. I.args[1] \in DOMAIN env
      BY <1>1, <1>3, <2>2, OperandsRead DEF FactsFixed
    <3>2. I.args[1] \in Addresses(f0)
      BY <1>2, <2>2, AddressesAre
    <3>3. DOMAIN in \subseteq ReturnedIn
      BY <1>1, <1>8, RangesAtRun DEF FactsFixed, ReturnedIn
    <3>4. NumbersIn(f0, ReturnedIn, in, env)
      BY <1>8, <2>1 DEF RunRanged, ReturnedIn
    <3> QED
      BY <1>1, <1>3, <2>2, <3>1, <3>2, <3>3, <3>4, LoadsInElement DEF FactsFixed
  <2>3. CASE I.op # "load"
    <3>1. HasNumber(I.args[1])
      BY <1>1, <1>3, OperandsRead DEF FactsFixed
    <3>2. I.args[1] \in Numbers(f0)
      BY <1>1, <1>2, <1>3, <2>3, NumbersAre
    <3> QED
      BY <1>1, <1>3, <1>8, <2>1, <2>3, <3>1, <3>2, ReadsRanged
  <2> QED
    BY <2>2, <2>3
<1> HIDE DEF x
<1>9. ASSUME NEW v, v = Target(I)
      PROVE  RunsRanged'
  <2>1. SignOf(n) \in AbstractIn(f0, v)
    <3>1. AbstractIn(f0, v) = Signs
      BY <1>1, <1>4, <1>9, TargetType DEF FactsFixed
    <3> QED
      BY <1>7, <3>1, SignsOfNumbers
  <2>2. ASSUME f0 \notin program.void, excuses' \subseteq {"phi"}, Apart(f0), v \in ReturnedOut
        PROVE  v \in DOMAIN RangeOut /\ SignOf(n) \in RangeOut[v]
    <3>1. PICK in \in FactsAt(f0, blk, idx) :
            v \in DOMAIN RangeOut /\ RangeOut[v] = ElementIn(f0, in, I.args[1])
      BY <1>1, <1>9, <2>2, CopiesRanged
    <3> QED
      BY <1>7, <1>8, <2>2, <3>1
  <2> QED
    BY <1>1, <1>4, <1>7, <1>9, <2>1, <2>2, DefinesRanged
<1> QED
  BY <1>9

\* What is read through a pointer, of which the pass takes any sign for it.
LEMMA LoadThroughRanged ==
  ASSUME FactsFixed, RunsRanged, ExecLoadThrough
  PROVE  RunsRanged'
<1>1. /\ Running /\ Still /\ results' = results /\ I.op = "load"
      /\ excuses' = IF I.id \in DOMAIN RangeOut /\ RangeOut[I.id] # Signs
                    THEN excuses \union {"pointer"} ELSE excuses
  BY DEF ExecLoadThrough, Executes
<1>2. PICK n \in Inputs : Define(I.id, n, {}, {})
  BY DEF ExecLoadThrough
<1>3. I.op \notin Terminators /\ Target(I) = I.id
  BY <1>1 DEF Terminators, Target
<1>4. SignOf(n) \in Signs
  BY <1>2, InputsAssumption, WordsType, SignsOfNumbers
<1>5. ASSUME NEW v, v = I.id
      PROVE  RunsRanged'
  <2>1. AbstractIn(f0, v) = Signs
    BY <1>1, <1>3, <1>5, TargetType DEF FactsFixed
  <2>2. ASSUME f0 \notin program.void, excuses' \subseteq {"phi"}, v \in ReturnedOut
        PROVE  v \in DOMAIN RangeOut /\ RangeOut[v] = Signs
    <3>1. v \in DOMAIN RangeOut
      BY <1>1, <1>3, <1>5, <2>2, CopiesRanged
    <3> QED
      BY <1>1, <1>5, <2>2, <3>1
  <2>3. Define(v, n, {}, {}) /\ v = Target(I)
    BY <1>2, <1>3, <1>5
  <2>4. excuses \subseteq excuses'
    BY <1>1
  <2> QED
    BY <1>1, <1>3, <1>4, <2>1, <2>2, <2>3, <2>4, DefinesRanged
<1> QED
  BY <1>5

\* Instructions that compute a number of their own.
LEMMA ComputeRanged ==
  ASSUME FactsFixed, RunsRanged, ExecZext \/ ExecBinop \/ ExecGep \/ ExecIcmp
  PROVE  RunsRanged'
<1>1. /\ Running /\ Still /\ results' = results /\ excuses \subseteq excuses'
      /\ I.op \in {"zext", "binop", "gep", "icmp"}
      /\ Executes({"zext", "binop", "gep", "icmp"})
  BY DEF ExecZext, ExecBinop, ExecGep, ExecIcmp, Executes
<1>2. /\ I \in Instructions /\ IsInstructionOf(Body, I)
  BY <1>1, AtARun DEF FactsFixed
<1>3. I.op \notin Terminators /\ Target(I) = I.id
  BY <1>1 DEF Terminators, Target
<1>4. I.id \notin Slots(f0) /\ IsInstruction(f0, I.id) /\ DefinitionOf(f0, I.id) = I
      /\ I.id \in Values \ DOMAIN Literals
  BY <1>1, <1>3, TargetType DEF FactsFixed
<1>5. /\ ~IsA(f0, I.id, "call")
      /\ IsA(f0, I.id, "zext") <=> I.op = "zext"
  BY <1>1, <1>4 DEF IsA
<1>6. AbstractIn(f0, I.id) = IF I.op = "zext" THEN GE ELSE Signs
  BY <1>4, <1>5 DEF AbstractIn
<1>7. \E n, o, t : Define(I.id, n, o, t) /\ SignOf(n) \in AbstractIn(f0, I.id)
  <2>1. CASE ExecZext
    <3> DEFINE n == ValueOf(I.args[1]) % Half
    <3>1. Define(I.id, n, {}, {}) /\ I.op = "zext"
      BY <2>1 DEF ExecZext, Executes
    <3>2. 1 \in DOMAIN I.args
      BY <1>2, <3>1, Operands
    <3>3. HasNumber(I.args[1])
      BY <1>1, <3>2, OperandsRead DEF FactsFixed
    <3>4. ValueOf(I.args[1]) \in Int
      BY <1>1, <3>3, ReadsWords, WordsType DEF FactsFixed
    <3>5. n \in Nat
      BY <3>4, WordsType
    <3> HIDE DEF n
    <3>6. SignOf(n) \in GE
      BY <3>5 DEF SignOf, GE
    <3> QED
      BY <1>6, <3>1, <3>6
  <2>2. CASE ExecBinop \/ ExecGep
    <3>1. \E n \in Inputs : \E o : Define(I.id, n, o, {})
      BY <2>2 DEF ExecBinop, ExecGep
    <3>2. \A n \in Inputs : SignOf(n) \in Signs
      BY InputsAssumption, WordsType, SignsOfNumbers
    <3>3. I.op # "zext"
      BY <2>2 DEF ExecBinop, ExecGep, Executes
    <3> QED
      BY <1>6, <3>1, <3>2, <3>3
  <2>3. CASE ExecIcmp
    <3> DEFINE n == IF Compares(I.tag, ValueOf(I.args[1]), ValueOf(I.args[2])) THEN 1 ELSE 0
    <3>1. Define(I.id, n, {}, {}) /\ I.op # "zext"
      BY <2>3 DEF ExecIcmp, Executes
    <3>2. n \in Int
      OBVIOUS
    <3> HIDE DEF n
    <3>3. SignOf(n) \in Signs
      BY <3>2, SignsOfNumbers
    <3> QED
      BY <1>6, <3>1, <3>3
  <2> QED
    BY <2>1, <2>2, <2>3
<1>8. PICK n, o, t : Define(I.id, n, o, t) /\ SignOf(n) \in AbstractIn(f0, I.id)
  BY <1>7
<1> QED
  BY <1>1, <1>3, <1>4, <1>8, DefinesRanged

LEMMA PhiRanged ==
  ASSUME FactsFixed, RunsRanged, ExecPhi
  PROVE  RunsRanged'
<1>1. /\ Running /\ Still /\ results' = results /\ excuses \subseteq excuses' /\ I.op = "phi"
  BY DEF ExecPhi, Executes
<1>2. PICK a \in arriving : a.phi = idx /\ Define(I.id, a.number, a.origin, a.trail)
  BY DEF ExecPhi
<1>3. I.op \notin Terminators /\ Target(I) = I.id
  BY <1>1 DEF Terminators, Target
<1>4. ASSUME NEW v, v = I.id, NEW n, n = a.number, NEW o, o = a.origin, NEW t, t = a.trail
      PROVE  RunsRanged'
  <2>1. v = Target(I) /\ SignOf(n) \in AbstractIn(f0, v)
    <3>1. v = Target(I) /\ AbstractIn(f0, v) = Signs
      BY <1>1, <1>3, <1>4, TargetType DEF FactsFixed
    <3>2. SignOf(n) \in Signs
      BY <1>2, <1>4, WordsType, SignsOfNumbers DEF FactsFixed, ValuesOK
    <3> QED
      BY <3>1, <3>2
  <2>2. ASSUME f0 \notin program.void, excuses' \subseteq {"phi"}, Apart(f0), v \in ReturnedOut
        PROVE  v \in DOMAIN RangeOut /\ SignOf(n) \in RangeOut[v]
    <3>1. RunRanged(f0, blk, idx, env, arriving)
      BY <1>1, <2>2 DEF RunsRanged, Unexcused
    <3> QED
      BY <1>1, <1>2, <1>4, <2>2, <3>1, PhisRanged
  <2>3. Define(v, n, o, t)
    BY <1>2, <1>4
  <2> QED
    BY <1>1, <1>3, <2>1, <2>2, <2>3, DefinesRanged
<1> QED
  BY <1>4

\* On an edge a variable that the terminator does not test has what is known of it
\* at the end of the block, and one that it tests what the edge gives it.
LEMMA EdgeRanged ==
  ASSUME FactsFixed, Running, f0 \notin program.void, I.op \in {"br", "switch"},
         RunRanged(f0, blk, idx, env, arriving),
         NEW b \in Successors(f0, blk), NEW e \in Partial(Values), Gathered(f0, b, e),
         \A u \in CheckedBy(f0, blk) \cap DOMAIN env :
           Variable(u) => \E p \in ElementsOf(f0, blk) : p[1] = b /\ SignOf(env[u]) \in p[2]
  PROVE  NumbersIn(f0, returned[f0][b][0], e, env)
<1>1. /\ blk > 0 /\ idx > 0 /\ program \in Programs
      /\ f0 \in DOMAIN program.body /\ blk \in DOMAIN program.body[f0]
      /\ I = program.body[f0][blk][idx] /\ I.op \in Terminators
  BY AtARun DEF FactsFixed, Terminators
<1>2. idx = LastPoint(f0, blk)
  BY <1>1, AtTheEnd DEF FactsFixed
<1>3. blk \in Predecessors(f0, b)
  BY <1>1 DEF Predecessors
<1>4. returned[f0][b][0] \subseteq ReturnedIn
  <2>1. returned[f0][b][0] \subseteq ReturnedOut
    BY <1>1, ReturnedAtRun DEF FactsFixed
  <2>2. ReturnedIn = ReturnedOut
    BY <1>1, ReturnedBefore DEF FactsFixed
  <2> QED
    BY <2>1, <2>2
<1>5. ReturnedIn = ReturnedOut
  BY <1>1, ReturnedBefore DEF FactsFixed
<1>6. PICK in \in FactsAt(f0, blk, idx) : RangedBy(f0, blk, idx, in)
  BY RangesAtRun DEF FactsFixed
<1>7. in \in Partial(Values)
  BY RangesAtRun DEF FactsFixed
<1>8. NumbersIn(f0, ReturnedIn, in, env)
  BY <1>6 DEF RunRanged, ReturnedIn
<1>9. range[f0][blk][LastPoint(f0, blk)] = Result(f0, blk, idx, in)
  BY <1>1, <1>2, <1>6 DEF RangedBy
<1>10. ASSUME NEW u \in DOMAIN env, u \in Slots(f0) \cap returned[f0][b][0]
       PROVE  u \in DOMAIN e /\ SignOf(env[u]) \in e[u]
  <2>1. u \in DOMAIN in /\ SignOf(env[u]) \in in[u] /\ u \in ReturnedOut
    BY <1>4, <1>5, <1>8, <1>10 DEF NumbersIn
  <2>2. CASE u \notin CheckedBy(f0, blk)
    <3> DEFINE out == Result(f0, blk, idx, in)
               copied == Filtered(in, ReturnedOut)
    <3>1. out = Filtered(copied, DOMAIN copied \ CheckedBy(f0, blk))
      BY <1>1 DEF Result, ReturnedOut
    <3>2. u \in DOMAIN out /\ out[u] = in[u]
      BY <2>1, <2>2, <3>1 DEF Filtered
    <3> HIDE DEF out
    <3>3. Below(Filtered(out, returned[f0][b][0]), e)
      BY <1>3, <1>9 DEF Gathered, out
    <3>4. u \in DOMAIN Filtered(out, returned[f0][b][0])
          /\ Filtered(out, returned[f0][b][0])[u] = in[u]
      BY <1>10, <3>2 DEF Filtered
    <3> QED
      BY <2>1, <3>3, <3>4 DEF Below
  <2>3. CASE u \in CheckedBy(f0, blk)
    <3>1. idx > 1
      BY <1>1, <1>2, <2>3, LoneChecksNothing DEF FactsFixed, WellFormed
    <3>2. in = AtEnd(f0, blk)
      BY <1>2, <1>6, <3>1 DEF FactsAt, AtEnd
    <3>3. PICK p \in ElementsOf(f0, blk) : p[1] = b /\ SignOf(env[u]) \in p[2]
      <4>1. u \in Addresses(f0)
        BY <1>1, <2>3, CheckedSlots DEF FactsFixed, WellFormed
      <4>2. Variable(u)
        BY <1>10, <4>1 DEF Slots, Variable, IsA
      <4> QED
        BY <1>10, <2>3, <4>2
    <3>4. Below(Learnt(f0, blk, in, p), e)
      BY <1>1, <3>2, <3>3 DEF Gathered
    <3>5. Meet(p[2], in[u]) = p[2] \cap in[u]
      <4>1. p[2] \in SUBSET Signs
        BY <1>1, ElementsType
      <4>2. in[u] \in SUBSET Signs
        BY <1>7, <2>1, PartialFunction
      <4> QED
        BY <4>1, <4>2, MeetIsIntersection
    <3>6. /\ u \in DOMAIN Learnt(f0, blk, in, p)
          /\ Learnt(f0, blk, in, p)[u] = Meet(p[2], in[u])
      BY <1>10, <2>1, <2>3, <3>3 DEF Learnt, Narrowed
    <3>7. SignOf(env[u]) \in Learnt(f0, blk, in, p)[u]
      BY <2>1, <3>3, <3>5, <3>6
    <3> HIDE <3>3, <3>5
    <3> QED
      BY <3>4, <3>6, <3>7 DEF Below
  <2> QED
    BY <2>2, <2>3
<1> QED
  BY <1>10 DEF NumbersIn

\* What arrives at a phi is what an operand is read as on the edge.
LEMMA EdgeArrives ==
  ASSUME FactsFixed, Running, f0 \notin program.void, Apart(f0),
         RunRanged(f0, blk, idx, env, arriving),
         NEW b \in DOMAIN Body, NEW e \in Partial(Values), Gathered(f0, b, e),
         NumbersIn(f0, returned[f0][b][0], e, env),
         NEW a \in Arriving(b)
  PROVE  ArrivesIn(f0, b, e, a)
<1>1. /\ program \in Programs /\ f0 \in DOMAIN program.body /\ Body = program.body[f0]
  BY AtARun DEF FactsFixed
<1>2. PICK k \in DOMAIN Body[b] :
        /\ Body[b][k].op = "phi"
        /\ \E v \in Incoming(Body[b][k], blk) :
             HasNumber(v) /\ a.phi = k /\ a.number = ValueOf(v)
  BY ArrivingMeans
<1>3. PICK v \in Incoming(Body[b][k], blk) :
        HasNumber(v) /\ a.phi = k /\ a.number = ValueOf(v)
  BY <1>2
<1>4. PICK j \in DOMAIN Body[b][k].args : Body[b][k].args[j] = v
  BY <1>3 DEF Incoming
<1>5. ~NoValue(f0, v) /\ v \in Numbers(f0) /\ v \in Values
  <2>1. ~NoValue(f0, v)
    BY <1>1, <1>4, UsedHasValue DEF FactsFixed, WellFormed
  <2>2. v \in Numbers(f0)
    BY <1>1, <1>2, <1>4, NumbersAre
  <2>3. v \in Values
    <3>1. k \in 1..LastPoint(f0, b)
      BY <1>1, BodyType
    <3>2. Body[b][k] \in Instructions
      BY <1>1, <3>1, InstructionAt
    <3>3. Body[b][k].args \in Seq(Values)
      BY <3>2 DEF Instructions
    <3> QED
      BY <1>4, <3>3
  <2> QED
    BY <2>1, <2>2, <2>3
<1>6. ComputedIn(f0, env) /\ PhisIn(f0, env)
  BY DEF RunRanged
<1>7. SignOf(ValueOf(v)) \in ElementIn(f0, e, v)
  <2>1. DOMAIN e \subseteq Known(f0) \cap returned[f0][b][0]
    BY DEF Gathered
  <2> QED
    BY <1>3, <1>5, <1>6, <2>1, ReadsInElement DEF FactsFixed
<1>8. ASSUME NEW m \in DOMAIN program.body[f0][b], program.body[f0][b][m].id = v
      PROVE  AtPhi(f0, b, m, SignOf(ValueOf(v)))
  <2>1. CASE program.body[f0][b][m].op = "phi"
    <3>1. v \notin DOMAIN Literals /\ ~Variable(v)
      BY <1>1, <1>8, <2>1, DefinesSlot DEF FactsFixed, WellFormed, Variable, IsA
    <3>2. v \in DOMAIN env /\ ValueOf(v) = env[v]
      BY <1>3, <3>1 DEF ValueOf, HasNumber
    <3> QED
      BY <1>1, <1>6, <1>8, <3>2 DEF PhisIn
  <2>2. CASE program.body[f0][b][m].op # "phi"
    BY <2>2 DEF AtPhi
  <2> QED
    BY <2>1, <2>2
<1>9. /\ j \in DOMAIN program.body[f0][b][a.phi].args
      /\ program.body[f0][b][a.phi].args[j] = v /\ a.number = ValueOf(v)
  BY <1>1, <1>3, <1>4
<1> QED
  BY <1>7, <1>8, <1>9 DEF ArrivesIn

LEMMA JumpsRanged ==
  ASSUME FactsFixed, RunsRanged, Running, I.op \in {"br", "switch"}, Still, results' = results,
         excuses \subseteq excuses', NEW b \in Successors(f0, blk), Jump(b),
         f0 \notin program.void /\ excuses' \subseteq {"phi"} =>
           \A u \in CheckedBy(f0, blk) \cap DOMAIN env :
             Variable(u) => \E p \in ElementsOf(f0, blk) : p[1] = b /\ SignOf(env[u]) \in p[2]
  PROVE  RunsRanged'
<1>1. env' = env /\ blk' = b /\ idx' = 1 /\ arriving' = Arriving(b)
  BY DEF Jump
<1>2. ASSUME f0 \notin program.void, excuses' \subseteq {"phi"}, Apart(f0)
      PROVE  RunRanged(f0, b, 1, env, Arriving(b))
  <2>1. RunRanged(f0, blk, idx, env, arriving)
    BY <1>2 DEF RunsRanged, Unexcused
  <2>2. ComputedIn(f0, env) /\ PhisIn(f0, env)
    BY <2>1 DEF RunRanged
  <2>3. b \in DOMAIN Body /\ Body = program.body[f0]
    BY AtARun, SuccessorsType DEF FactsFixed
  <2>4. \A a \in Arriving(b) :
          a.phi \in DOMAIN program.body[f0][b] /\ program.body[f0][b][a.phi].op = "phi"
    BY <2>3, ArrivingMeans
  <2>5. ASSUME NEW e \in FactsAt(f0, b, 1)
        PROVE  /\ NumbersIn(f0, returned[f0][b][0], e, env)
               /\ \A a \in Arriving(b) : ArrivesIn(f0, b, e, a)
    <3>1. e \in Partial(Values) /\ Gathered(f0, b, e)
      BY <2>5 DEF FactsAt
    <3>2. NumbersIn(f0, returned[f0][b][0], e, env)
      BY <1>2, <2>1, <3>1, EdgeRanged
    <3> QED
      BY <1>2, <2>1, <2>3, <3>1, <3>2, EdgeArrives
  <2> QED
    BY <2>2, <2>4, <2>5, RunRangedIs
<1>3. \A c, k, m, w :
        /\ c = blk' /\ k = idx' /\ m = env' /\ w = arriving'
        /\ f0 \notin program.void /\ excuses' \subseteq {"phi"} /\ Apart(f0)
        => RunRanged(f0, c, k, m, w)
  BY <1>1, <1>2
<1> QED
  BY <1>3, RunGoesOn DEF FactsFixed

\* A branch on a comparison, made just now, of a variable that still is what was
\* compared.
LEMMA BranchTests ==
  ASSUME FactsFixed, RunsConstrained, Running, OnComparison(f0, I), "unsigned" \notin excuses,
         NEW c, c = DefinitionOf(f0, I.args[1]),
         NEW k \in 1..2, k = IF ValueOf(I.args[1]) # 0 THEN 1 ELSE 2,
         NEW v, v = c.args[IF GetCheckedReturnValue(PointOf(f0, c.id), c.args[1]) # {} THEN 1 ELSE 2],
         Stale(CheckedByComparison(c), v) = {}
  PROVE  \A u \in CheckedBy(f0, blk) \cap DOMAIN env :
           Variable(u) =>
             \E p \in ElementsOf(f0, blk) : p[1] = I.to[k] /\ SignOf(env[u]) \in p[2]
<1>1. /\ blk > 0 /\ idx > 0 /\ program \in Programs /\ I.op = "br" /\ I.op \in Terminators
      /\ f0 \in DOMAIN program.body /\ blk \in DOMAIN program.body[f0]
      /\ I = program.body[f0][blk][idx]
  BY AtARun DEF FactsFixed, Terminators, OnComparison
<1>2. idx = LastPoint(f0, blk) /\ I = Terminator(f0, blk)
  BY <1>1, AtTheEnd DEF FactsFixed
<1>3. /\ idx > 1 /\ c = program.body[f0][blk][idx - 1]
  BY <1>1, <1>2, ComparedBefore DEF FactsFixed, WellFormed
<1>4. /\ idx - 1 \in DOMAIN program.body[f0][blk] /\ idx - 1 \in 1..LastPoint(f0, blk)
  <2>1. idx \in 1..LastPoint(f0, blk) /\ LastPoint(f0, blk) \in Nat
    BY <1>1, AtAnInstruction DEF FactsFixed
  <2>2. idx - 1 \in 1..LastPoint(f0, blk)
    BY <1>3, <2>1
  <2>3. DOMAIN program.body[f0][blk] = 1..LastPoint(f0, blk)
    BY <1>1, BodyType DEF LastPoint
  <2> QED
    BY <2>2, <2>3
<1>5. /\ c.op = "icmp" /\ c \in Instructions /\ IsInstructionOf(program.body[f0], c)
  BY <1>1, DefinitionType DEF OnComparison, IsA
<1>6. DOMAIN c.args = {1, 2}
  BY <1>5, Operands
<1>7. \A j \in DOMAIN c.args : c.args[j] \in Values
  <2>1. c.args \in Seq(Values)
    BY <1>5 DEF Instructions
  <2> QED
    BY <2>1
<1>8. CheckedBy(f0, blk) = CheckedByComparison(c)
  BY <1>1, CheckedHere DEF FactsFixed
<1>9. PointOf(f0, c.id)[1] = blk /\ PointOf(f0, c.id)[2] = idx - 1
  <2>1. program.body[f0][blk][idx - 1].op = "icmp" /\ NamesOnce(program)
    BY <1>3, <1>5 DEF FactsFixed, WellFormed
  <2>2. ASSUME NEW k2, k2 = idx - 1
        PROVE  /\ PointOf(f0, program.body[f0][blk][k2].id)[1] = blk
               /\ PointOf(f0, program.body[f0][blk][k2].id)[2] = k2
    BY <1>1, <1>4, <2>1, <2>2, DefinesSlot, ZenonT(40)
  <2> QED
    BY <1>3, <2>2
<1>10. SUFFICES ASSUME NEW u \in CheckedBy(f0, blk) \cap DOMAIN env, Variable(u)
                PROVE  \E p \in ElementsOf(f0, blk) : p[1] = I.to[k] /\ SignOf(env[u]) \in p[2]
  OBVIOUS
<1>11. PICK m \in 1..2 : v = c.args[m] /\ GetCheckedReturnValue(PointOf(f0, c.id), c.args[m]) # {}
  BY <1>8, <1>10 DEF CheckedByComparison
<1>12. v \notin DOMAIN Literals
  BY <1>8, <1>10 DEF Stale
<1>13. SignOf(ValueOf(v)) \in AbstractICmp(c)[k]
  BY <1>11, <1>12, TestsSoundly DEF FactsFixed, WellFormed
<1>14. env[u] = ValueOf(v)
  BY <1>8, <1>10 DEF Stale
<1>15. <<I.to[k], AbstractICmp(c)[k]>> \in ElementsOf(f0, blk)
  BY <1>2 DEF ElementsOf
<1> QED
  BY <1>13, <1>14, <1>15

LEMMA BranchRanged ==
  ASSUME FactsFixed, RunsConstrained, RunsRanged, ExecBranch
  PROVE  RunsRanged'
<1>1. /\ Running /\ I.op = "br" /\ Still /\ results' = results /\ excuses \subseteq excuses'
  BY DEF ExecBranch, Executes
<1>2. /\ blk > 0 /\ idx > 0 /\ I \in Instructions /\ IsInstructionOf(Body, I)
      /\ I.op \in Terminators
  BY <1>1, AtARun DEF FactsFixed, Terminators
<1>3. I = Terminator(f0, blk)
  BY <1>2, AtTheEnd DEF FactsFixed
<1>4. \A j \in DOMAIN I.to : I.to[j] \in Successors(f0, blk)
  BY <1>3 DEF Successors
<1>5. I.to \in Seq(Nat) /\ Len(I.to) \in 1..2
  <2>1. I.to \in Seq(Nat)
    BY <1>2 DEF Instructions
  <2> QED
    BY <1>1, <1>2, <2>1 DEF IsInstructionOf
<1>6. CASE ~OnComparison(f0, I)
  <2>1. CheckedBy(f0, blk) = {}
    BY <1>1, <1>2, <1>6, CheckedHere DEF FactsFixed
  <2>2. PICK j \in DOMAIN I.to : Jump(I.to[j])
    BY <1>5 DEF ExecBranch
  <2>3. I.to[j] \in Successors(f0, blk)
    BY <1>4
  <2> QED
    BY <1>1, <2>1, <2>2, <2>3, JumpsRanged
<1>7. CASE OnComparison(f0, I)
  <2>1. Len(I.to) = 2 /\ IsA(f0, I.args[1], "icmp")
    BY <1>7 DEF OnComparison
  <2>2. ASSUME NEW c, c = DefinitionOf(f0, I.args[1]),
               NEW v, v = c.args[IF GetCheckedReturnValue(PointOf(f0, c.id), c.args[1]) # {}
                                 THEN 1 ELSE 2],
               NEW k, k = IF ValueOf(I.args[1]) # 0 THEN 1 ELSE 2
        PROVE  RunsRanged'
    <3>1. k \in 1..2 /\ k \in DOMAIN I.to
      BY <1>5, <2>1, <2>2
    <3>2. Jump(I.to[k]) /\ I.to[k] \in Successors(f0, blk)
      BY <1>4, <2>1, <2>2, <3>1 DEF ExecBranch
    <3>3. excuses' = excuses \union Stale(CheckedByComparison(c), v)
      BY <2>1, <2>2 DEF ExecBranch
    <3>4. excuses' \subseteq {"phi"} =>
            "unsigned" \notin excuses /\ Stale(CheckedByComparison(c), v) = {}
      BY <3>3 DEF Stale
    <3>5. excuses' \subseteq {"phi"} =>
            \A u \in CheckedBy(f0, blk) \cap DOMAIN env :
              Variable(u) =>
                \E p \in ElementsOf(f0, blk) : p[1] = I.to[k] /\ SignOf(env[u]) \in p[2]
      BY <1>1, <1>7, <2>2, <3>1, <3>4, BranchTests
    <3> QED
      BY <1>1, <3>2, <3>5, JumpsRanged
  <2> QED
    BY <2>2
<1> QED
  BY <1>6, <1>7

LEMMA SwitchRanged ==
  ASSUME FactsFixed, RunsRanged, ExecSwitch
  PROVE  RunsRanged'
<1> DEFINE v == I.args[1]
           taken == {k \in DOMAIN I.cases : Literals[I.cases[k]].n = ValueOf(v)}
           next == IF taken = {} THEN 1 ELSE 1 + CHOOSE k \in taken : TRUE
<1>1. /\ Running /\ I.op = "switch" /\ Still /\ results' = results /\ excuses \subseteq excuses'
  BY DEF ExecSwitch, Executes
<1>2. /\ blk > 0 /\ idx > 0 /\ I \in Instructions /\ IsInstructionOf(Body, I)
      /\ I.op \in Terminators
  BY <1>1, AtARun DEF FactsFixed, Terminators
<1>3. I = Terminator(f0, blk)
  BY <1>2, AtTheEnd DEF FactsFixed
<1>4. \A j \in DOMAIN I.to : I.to[j] \in Successors(f0, blk)
  BY <1>3 DEF Successors
<1>5. /\ Len(I.cases) \in Nat /\ DOMAIN I.to = 1..(Len(I.cases) + 1)
      /\ DOMAIN I.cases = 1..Len(I.cases)
  BY <1>1, <1>2, Operands
<1>6. /\ Jump(I.to[next])
      /\ excuses' = excuses \union Stale(GetCheckedReturnValue(<<blk, idx>>, v), v)
  BY DEF ExecSwitch
<1>7. taken # {} => (CHOOSE k \in taken : TRUE) \in taken
  OBVIOUS
<1>8. CheckedBy(f0, blk) = GetCheckedReturnValue(<<blk, idx>>, v)
  BY <1>1, <1>2, CheckedHere DEF FactsFixed
<1>9. ElementsOf(f0, blk) =
        {<<I.to[1], Signs>>}
          \union {<<I.to[k + 1], {SignOf(Literals[I.cases[k]].n)}>> : k \in DOMAIN I.cases}
  <2>1. ~OnComparison(f0, I)
    BY <1>1 DEF OnComparison
  <2> QED
    BY <1>1, <1>3, <2>1 DEF ElementsOf
<1>10. next \in DOMAIN I.to
  BY <1>5, <1>7
<1>11. ASSUME excuses' \subseteq {"phi"}, NEW u \in CheckedBy(f0, blk) \cap DOMAIN env,
              Variable(u)
       PROVE  \E p \in ElementsOf(f0, blk) : p[1] = I.to[next] /\ SignOf(env[u]) \in p[2]
  <2>1. env[u] = ValueOf(v)
    BY <1>6, <1>8, <1>11 DEF Stale
  <2>2. CASE taken = {}
    <3>1. SignOf(env[u]) \in Signs
      BY <1>11, WordsType, SignsOfNumbers DEF FactsFixed, ValuesOK
    <3> QED
      <4>1. next = 1 /\ <<I.to[1], Signs>> \in ElementsOf(f0, blk)
        BY <1>9, <2>2
      <4> HIDE DEF next, taken
      <4> QED
        BY <3>1, <4>1
  <2>3. CASE taken # {}
    <3>1. PICK k \in taken : next = 1 + k
      BY <1>7, <2>3
    <3>2. k \in DOMAIN I.cases /\ Literals[I.cases[k]].n = ValueOf(v) /\ next = k + 1
      BY <1>5, <3>1
    <3> HIDE DEF next, taken
    <3>3. <<I.to[k + 1], {SignOf(Literals[I.cases[k]].n)}>> \in ElementsOf(f0, blk)
      BY <1>9, <3>2
    <3> QED
      BY <2>1, <3>2, <3>3
  <2> QED
    BY <2>2, <2>3
<1> HIDE DEF next
<1>12. I.to[next] \in Successors(f0, blk)
  BY <1>4, <1>10
<1> QED
  BY <1>1, <1>6, <1>11, <1>12, JumpsRanged

\* A run starts with the numbers of its parameters, that no fact is about.
LEMMA ParamsRanged ==
  ASSUME program \in Programs, NamesOnce(program), NEW f \in DOMAIN program.body,
         NEW n \in [program.params[f] -> Inputs]
  PROVE  RunRanged(f, 1, 1, n, {})
<1>1. program.params[f] \subseteq Values \ DOMAIN Literals
  BY DataFlowProgramsAssumption, ZenonT(40) DEF IsProgram
<1>2. \A b \in DOMAIN program.body[f] : \A k \in DOMAIN program.body[f][b] :
        program.body[f][b][k].id \notin program.params[f]
  BY DEF NamesOnce
<1>3. ASSUME NEW u \in DOMAIN n
      PROVE  u \notin Slots(f) /\ AbstractIn(f, u) = Signs /\ SignOf(n[u]) \in Signs
  <2>1. ~IsInstruction(f, u)
    BY <1>2, PointType
  <2>2. AbstractIn(f, u) = Signs
    BY <1>1, <2>1 DEF AbstractIn, IsA
  <2>3. n[u] \in Int
    BY InputsAssumption, WordsType
  <2> QED
    BY <2>1, <2>2, <2>3, SignsOfNumbers DEF Slots
<1>4. ComputedIn(f, n)
  BY <1>3 DEF ComputedIn
<1>5. PhisIn(f, n)
  BY <1>2 DEF PhisIn
<1>6. \A S, in : NumbersIn(f, S, in, n)
  BY <1>3 DEF NumbersIn
<1> QED
  BY <1>4, <1>5, <1>6 DEF RunRanged

LEMMA StartRanged ==
  ASSUME FactsFixed, RunsRanged, Start
  PROVE  RunsRanged'
<1>1. /\ program' = program /\ returned' = returned /\ range' = range /\ returnRanges' = returnRanges
      /\ pass' = pass /\ results' = results /\ excuses' = excuses /\ arriving' = {} /\ pass = "done"
  BY DEF Start, facts
<1>2. PICK c \in DOMAIN program.members : \E n \in DOMAIN program.members[c] :
        /\ scc' = c /\ fn' = n /\ blk' = 1 /\ idx' = 1
        /\ env' \in [program.params[program.members[c][n]] -> Inputs]
  BY DEF Start
<1>3. PICK n \in DOMAIN program.members[c] :
        /\ scc' = c /\ fn' = n /\ blk' = 1 /\ idx' = 1
        /\ env' \in [program.params[program.members[c][n]] -> Inputs]
  BY <1>2
<1>4. /\ f0' = program.members[c][n] /\ program.members[c][n] \in DOMAIN program.body
      /\ program \in Programs /\ NamesOnce(program)
  <2>1. program \in Programs /\ NamesOnce(program)
    BY DEF FactsFixed, WalkOK, WellFormed
  <2>2. program.members[c][n] \in DOMAIN program.body
    BY <2>1, MembersType
  <2> QED
    BY <1>1, <1>3, <2>1, <2>2 DEF f0, Members
<1>5. RunRanged(f0, blk, idx, env, arriving)'
  <2>1. ASSUME NEW f \in DOMAIN program.body, NEW b, NEW k, NEW m, NEW w,
               f = program.members[c][n], b = 1, k = 1, m = env', w = {}
        PROVE  RunRanged(f, b, k, m, w)'
    <3>1. RunRanged(f, b, k, m, w)
      BY <1>3, <1>4, <2>1, ParamsRanged
    <3> QED
      BY <1>1, <1>4, <3>1, RunRangedSame
  <2> QED
    BY <1>1, <1>3, <1>4, <2>1
<1> QED
  BY <1>1, <1>5 DEF RunsRanged

\* What a run returns is in the range of its function.
LEMMA ReturnsInRange ==
  ASSUME FactsFixed, RunsRanged, Executes({"ret"}), I.args # <<>>, Unexcused
  PROVE  f0 \in DOMAIN returnRanges /\ SignOf(ValueOf(I.args[1])) \in returnRanges[f0]
<1>1. /\ Running /\ I.op = "ret" /\ Apart(f0)
      /\ \A k \in DOMAIN I.args : HasNumber(I.args[k])
  BY OperandsRead DEF FactsFixed, Unexcused
<1>2. /\ f0 \in DOMAIN program.body /\ blk \in DOMAIN program.body[f0] /\ program \in Programs
      /\ idx \in DOMAIN program.body[f0][blk] /\ I = program.body[f0][blk][idx]
      /\ I \in Instructions /\ IsInstructionOf(Body, I)
  BY <1>1, AtARun DEF FactsFixed
<1>3. f0 \notin program.void
  <2>1. IsProgram(program)
    BY <1>2, DataFlowProgramsAssumption
  <2>2. program.body[f0][blk][idx].op = "ret" =>
          (program.body[f0][blk][idx].args = <<>> <=> f0 \in program.void)
    BY <1>2, <2>1 DEF IsProgram
  <2> QED
    BY <1>1, <1>2, <2>2
<1>4. 1 \in DOMAIN I.args /\ HasNumber(I.args[1]) /\ I.args[1] \in Numbers(f0)
  <2>1. 1 \in DOMAIN I.args
    BY <1>1, <1>2, Operands
  <2> QED
    BY <1>1, <1>2, <2>1, NumbersAre
<1>5. PICK in \in FactsAt(f0, blk, idx) : RangedBy(f0, blk, idx, in)
  BY <1>1, <1>3, RangesAtRun DEF FactsFixed
<1>6. f0 \in DOMAIN returnRanges /\ ElementIn(f0, in, I.args[1]) \subseteq returnRanges[f0]
  BY <1>1, <1>2, <1>5 DEF RangedBy
<1>7. RunRanged(f0, blk, idx, env, arriving)
  BY <1>1, <1>3 DEF RunsRanged
<1>8. SignOf(ValueOf(I.args[1])) \in ElementIn(f0, in, I.args[1])
  BY <1>1, <1>3, <1>4, <1>7, ReadsRanged
<1> QED
  BY <1>6, <1>8

LEMMA FinishRanged ==
  ASSUME FactsFixed, RunsRanged, ExecNoReturn \/ ExecUndefined \/ ExecRet
  PROVE  RunsRanged'
<1>1. /\ returnRanges' = returnRanges /\ pass' = pass /\ pass = "done" /\ ~Running'
  BY DEF ExecNoReturn, ExecUndefined, ExecRet, Executes, Finish, Running, facts
<1>2. CASE results' = results
  BY <1>1, <1>2 DEF RunsRanged
<1>3. CASE results' # results
  <2>1. /\ Executes({"ret"}) /\ I.args # <<>> /\ Unexcused
        /\ results' = [results EXCEPT ![f0] = @ \union {ValueOf(I.args[1])}]
    BY <1>3 DEF ExecNoReturn, ExecUndefined, ExecRet
  <2>2. f0 \in DOMAIN returnRanges /\ SignOf(ValueOf(I.args[1])) \in returnRanges[f0]
    BY <2>1, ReturnsInRange
  <2>3. DOMAIN results' = DOMAIN results
    BY <2>1
  <2>4. ASSUME NEW f \in DOMAIN results, NEW n \in results'[f]
        PROVE  f \in DOMAIN returnRanges /\ SignOf(n) \in returnRanges[f]
    <3>1. n \in results[f] \/ (f = f0 /\ n = ValueOf(I.args[1]))
      BY <2>1
    <3> QED
      BY <2>2, <3>1 DEF RunsRanged
  <2> QED
    BY <1>1, <2>3, <2>4 DEF RunsRanged
<1> QED
  BY <1>2, <1>3

LEMMA RunsStayRanged ==
  ASSUME FactsFixed, RunsConstrained, RunsRanged, Runs
  PROVE  RunsRanged'
<1> QED
  BY StartRanged, AllocaRanged, CallRanged, ExcusedRanged, StoreThroughRanged, CopyRanged,
     LoadThroughRanged, ComputeRanged, PhiRanged, BranchRanged, SwitchRanged, FinishRanged
  DEF Runs

-----------------------------------------------------------------------------
(* The invariant.                                                          *)

\* A step that changes nothing.
LEMMA RangesStutter ==
  ASSUME WalkOK, TestsWhereComputed(program), RangesOK, UNCHANGED vars
  PROVE  RangesOK'
<1>1. UNCHANGED <<program, facts, walk, run>>
  BY DEF vars
<1>2. /\ program' = program /\ returned' = returned /\ range' = range /\ returnRanges' = returnRanges
      /\ pass' = pass /\ scc' = scc /\ fn' = fn /\ rangeChanged' = rangeChanged
      /\ original' = original /\ blk' = blk /\ idx' = idx /\ changed' = changed
  BY <1>1 DEF facts, walk
<1>3. f0' = f0 /\ Members' = Members /\ Body' = Body /\ \A f, b : LastPoint(f, b)' = LastPoint(f, b)
  BY <1>2 DEF f0, Members, Body, LastPoint
<1>4. /\ Left' = Left /\ Analysed' = Analysed /\ Current' = Current
      /\ Everywhere(Empty)' = Everywhere(Empty)
  BY <1>2, <1>3 DEF Left, Analysed, Current, Everywhere
<1>5. (Unsettled' <=> Unsettled) /\ (Grown' <=> Grown) /\ \A b, k : Visited(b, k)' <=> Visited(b, k)
  BY <1>2, <1>3 DEF Unsettled, Moved, Stored, Grown, Visited
<1>6. program \in Programs /\ f0 \in DOMAIN program.body
  BY HereType DEF WalkOK
<1>7. \A f \in DOMAIN program.body : SameFor(f)
  BY <1>2, UnwrittenSame
<1>8. \A f \in DOMAIN program.body : Ranged(f) => Ranged(f)'
  BY <1>6, <1>7, RangedKept
<1>9. RangedSoFar => RangedSoFar'
  <2> SUFFICES ASSUME RangedSoFar PROVE RangedSoFar'
    OBVIOUS
  <2>1. ASSUME NEW b \in DOMAIN Body, NEW f \in DOMAIN program.body, f = f0
        PROVE  /\ b = blk /\ idx = 1 => Gathered(f, b, range[f][b][0])'
               /\ Visited(b, 1) => First(f, b)'
               /\ \A k \in 2..LastPoint(f, b) :
                    Visited(b, k) => RangedBy(f, b, k, range[f][b][k - 1])'
    <3>1. b \in DOMAIN program.body[f] /\ SameFor(f) /\ LastPoint(f, b) \in Nat
      BY <1>7, <2>1, BodyType, <1>6 DEF Body
    <3>2. b = blk /\ idx = 1 => Gathered(f, b, range[f][b][0])'
      <4>1. ASSUME NEW e, e = range[f][b][0], Gathered(f, b, e)
            PROVE  Gathered(f, b, e)'
        BY <1>6, <3>1, <4>1, GatheredKept
      <4> QED
        BY <1>2, <2>1, <4>1 DEF RangedSoFar
    <3>3. Visited(b, 1) => First(f, b)'
      BY <1>6, <2>1, <3>1, FirstKept DEF RangedSoFar
    <3>4. ASSUME NEW k \in 2..LastPoint(f, b), Visited(b, k)
          PROVE  RangedBy(f, b, k, range[f][b][k - 1])'
      <4>1. k \in 1..LastPoint(f, b)
        BY <3>1
      <4>2. ASSUME NEW e, e = range[f][b][k - 1], RangedBy(f, b, k, e)
            PROVE  RangedBy(f, b, k, e)'
        BY <1>6, <3>1, <4>1, <4>2, RangedByKept
      <4> QED
        BY <1>2, <2>1, <3>4, <4>2 DEF RangedSoFar
    <3> QED
      BY <3>2, <3>3, <3>4
  <2> QED
    BY <1>2, <1>3, <1>5, <1>6, <2>1 DEF RangedSoFar
<1>10. RangesGivenOK'
  <2>1. ASSUME NEW f \in DOMAIN program.body, NEW a \in DOMAIN program.body[f]
        PROVE  RangeGiven(f, a)' \/ RangeAhead(f, a)'
    <3>1. CASE RangeAhead(f, a)
      BY <1>2, <1>3, <3>1 DEF RangeAhead
    <3>2. CASE RangeGiven(f, a)
      <4>1. \A b \in DOMAIN program.body[f] : Below(range[f][b][0], range'[f][b][0])
        BY <1>2 DEF Below
      <4> QED
        BY <1>2, <1>6, <3>2, <4>1, RangeGivenKept
    <3> QED
      BY <3>1, <3>2 DEF RangesOK, RangesGivenOK
  <2> QED
    BY <1>2, <2>1 DEF RangesGivenOK
<1>11. SlotsOK'
  BY <1>2, <1>3, TestedSame DEF RangesOK, SlotsOK
<1>12. pass \in {"propagation", "returned", "constraints"} =>
         range' = Everywhere(Empty)' /\ returnRanges' = Empty /\ ~rangeChanged'
  BY <1>2, <1>4 DEF RangesOK
<1>13. pass = "range" =>
         /\ f0 \notin program.void /\ (blk = 0 \/ ~changed) /\ ~Unsettled => RangedSoFar'
         /\ \A f \in Left \ program.void : Ranged(f)' \/ (Unsettled /\ f \in Current)
         /\ Grown
  BY <1>8, <1>9 DEF RangesOK, Left
<1>14. pass = "done" => \A f \in Analysed \ program.void : Ranged(f)'
  BY <1>8 DEF RangesOK, Analysed
<1> QED
  BY <1>2, <1>3, <1>4, <1>5, <1>10, <1>11, <1>12, <1>13, <1>14 DEF RangesOK

\* The runs leave the facts alone.
LEMMA RunsKeepRanges ==
  ASSUME WalkOK, TestsWhereComputed(program), RangesOK, program' = program, returned' = returned,
         range' = range, returnRanges' = returnRanges, pass = "done", pass' = "done"
  PROVE  RangesOK'
<1>1. /\ RangesGivenOK' /\ SlotsOK'
      /\ \A f \in DOMAIN program.body : Ranged(f) => Ranged(f)'
  BY RangesUnchanged
<1>2. Analysed' = Analysed
  BY DEF Analysed
<1> QED
  BY <1>1, <1>2 DEF RangesOK, Analysed

RangesInv == ConstraintsInv /\ ReturnedInv /\ RangesOK /\ RunsRanged

LEMMA InitRanges == Init => RangesInv
<1> SUFFICES ASSUME Init PROVE RangesInv
  OBVIOUS
<1>1. ConstraintsInv /\ ReturnedInv
  BY InitConstraints, InitReturned
<1>2. /\ program \in Programs /\ range = Everywhere(Empty) /\ returnRanges = Empty
      /\ rangeChanged = FALSE /\ pass = "propagation" /\ results = [f \in DOMAIN program.body |-> {}]
  BY DEF Init, AnalysisInit
<1>3. RangesOK
  BY <1>2, NoRangesYet DEF RangesOK
<1>4. RunsRanged
  BY <1>2 DEF RunsRanged, Running
<1> QED
  BY <1>1, <1>3, <1>4 DEF RangesInv

LEMMA NextRanges ==
  ASSUME \A p \in Programs : WellFormed(p)
  PROVE  RangesInv /\ [Next]_vars => RangesInv'
<1> SUFFICES ASSUME RangesInv, [Next]_vars PROVE RangesInv'
  OBVIOUS
<1>1. /\ ConstraintsInv /\ ReturnedInv /\ RangesOK /\ RunsRanged /\ RunsConstrained
      /\ WalkOK /\ TypedFactsOK /\ ValuesOK /\ ReturnedFixpointOK
      /\ WellFormed(program) /\ TestsWhereComputed(program)
  BY DEF RangesInv, ConstraintsInv, ReturnedInv, TypesInv, IInv, WalkOK, WellFormed
<1>2. ConstraintsInv' /\ ReturnedInv'
  <2>1. \A p \in Programs : TestsWhereComputed(p)
    BY DEF WellFormed
  <2> QED
    BY <1>1, <2>1, NextConstraints, NextReturned
<1>3. CASE Analyse
  <2>1. AnalysisNext /\ results' = results
    BY <1>3 DEF Analyse, run
  <2>2. pass # "done" /\ ~Running'
    <3>1. pass # "done"
      BY <1>1, <2>1, Moves
    <3>2. CASE NextFunction
      BY <3>1, <3>2 DEF NextFunction, GoTo, Running
    <3>3. CASE Entered \/ \E d : Step(d)
      BY <3>1, <3>3 DEF Entered, Step, Running
    <3> QED
      BY <1>1, <2>1, <3>1, <3>2, <3>3, Moves DEF Running
  <2>3. RunsRanged'
    BY <1>1, <2>1, <2>2 DEF RunsRanged
  <2> QED
    BY <1>1, <1>2, <2>1, <2>3, RangesOKKept DEF RangesInv
<1>4. CASE Runs
  <2>1. /\ program' = program /\ returned' = returned /\ range' = range
        /\ returnRanges' = returnRanges /\ pass = "done" /\ pass' = pass
    BY <1>4, RunsAreStill DEF facts
  <2>2. FactsFixed
    BY <1>1 DEF FactsFixed
  <2> QED
    BY <1>1, <1>2, <1>4, <2>1, <2>2, RunsKeepRanges, RunsStayRanged DEF RangesInv
<1>5. CASE UNCHANGED vars
  <2>1. RangesOK'
    BY <1>1, <1>5, RangesStutter
  <2>2. /\ program' = program /\ returned' = returned /\ range' = range
        /\ returnRanges' = returnRanges /\ pass' = pass /\ scc' = scc /\ fn' = fn /\ blk' = blk
        /\ idx' = idx /\ env' = env /\ arriving' = arriving /\ results' = results
        /\ excuses' = excuses
    BY <1>5 DEF vars, facts, walk, run
  <2>3. f0' = f0 /\ f0 \in DOMAIN program.body /\ program \in Programs
        /\ (Unexcused' <=> Unexcused)
    <3>1. f0' = f0 /\ f0 \in DOMAIN program.body /\ program \in Programs
      BY <1>1, <2>2, HereType DEF f0, Members, WalkOK
    <3>2. \A f : Apart(f)' <=> Apart(f)
      BY <2>2, ApartSame
    <3> QED
      BY <2>2, <3>1, <3>2 DEF Unexcused
  <2>4. RunRanged(f0, blk, idx, env, arriving) => RunRanged(f0, blk, idx, env, arriving)'
    <3>1. ASSUME NEW f \in DOMAIN program.body, NEW b, NEW k, NEW n, NEW w, RunRanged(f, b, k, n, w)
          PROVE  RunRanged(f, b, k, n, w)'
      BY <2>2, <2>3, <3>1, RunRangedSame
    <3>2. ASSUME NEW f \in DOMAIN program.body, NEW b, NEW k, NEW n, NEW w,
                 f = f0, b = blk, k = idx, n = env, w = arriving, RunRanged(f0, blk, idx, env, arriving)
          PROVE  RunRanged(f0, blk, idx, env, arriving)'
      BY <2>2, <2>3, <3>1, <3>2
    <3> QED
      BY <2>3, <3>2
  <2>5. RunsRanged'
    BY <1>1, <2>2, <2>3, <2>4 DEF RunsRanged, Running
  <2> QED
    BY <1>2, <2>1, <2>5 DEF RangesInv
<1> QED
  BY <1>3, <1>4, <1>5 DEF Next, Runs

\* Every step of the passes and of a run keeps the facts of ReturnRangePass on
\* their way to a fixpoint, also where functions call each other in a cycle, and
\* the numbers of a run without an excuse but phis within them.
THEOREM RangesInvariance ==
  ASSUME \A p \in Programs : WellFormed(p)
  PROVE  Spec => []RangesInv
<1> QED
  BY InitRanges, NextRanges, PTL DEF Spec

\* Of well formed programs: what a run returns lies in the range that
\* ReturnRangePass has for the function, unless the run truncated a number to one
\* of another sign, compared a negative one as unsigned, branched on a variable's
\* old value, had a variable written to by a function that was given its address or
\* through a pointer, or read through a pointer of which the pass knows something;
\* and unless the function reads an address that it uses also as a number.
THEOREM ReturnRangesAreSound ==
  ASSUME \A p \in Programs : WellFormed(p)
  PROVE  Spec => []ReturnRangeSound
<1>1. RangesInv => ReturnRangeSound
  <2> SUFFICES ASSUME RangesInv, Executes({"ret"}), I.args # <<>>, excuses \subseteq {"phi"},
                      Apart(f0)
               PROVE  SignOf(ValueOf(I.args[1])) \in returnRanges[f0]
    BY DEF ReturnRangeSound, ReturnsWithin
  <2>1. FactsFixed /\ RunsRanged
    BY DEF RangesInv, ConstraintsInv, ReturnedInv, TypesInv, IInv, WalkOK, FactsFixed
  <2> QED
    BY <2>1, ReturnsInRange DEF Unexcused
<1> QED
  BY <1>1, RangesInvariance, PTL
=============================================================================
