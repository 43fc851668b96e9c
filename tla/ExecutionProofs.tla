-------------------------- MODULE ExecutionProofs --------------------------
(***************************************************************************)
(* The sign lattice, and type correctness of the data-flow passes and of   *)
(* the runs of the analysed functions.                                     *)
(***************************************************************************)
EXTENDS PropagationProofs

-----------------------------------------------------------------------------
(* The sign lattice: the bit strings that the code computes on are the     *)
(* lattice of sets of signs.                                               *)

LEMMA ElementsAreAll ==
  /\ \A x \in SUBSET Signs : x \in {BOTTOM, LT, GT, EQ, LE, GE, NE, Signs}
  /\ \A x \in SUBSET Signs : \E k \in 1..8 : Elements[k] = x
  /\ \A j, k \in 1..8 : Elements[j] = Elements[k] => j = k
<1>1. ASSUME NEW x \in SUBSET Signs
      PROVE  x \in {BOTTOM, LT, GT, EQ, LE, GE, NE, Signs}
  <2>1. CASE "lt" \notin x /\ "eq" \notin x /\ "gt" \notin x
    <3>1. x = BOTTOM
      BY <1>1, <2>1 DEF Signs, BOTTOM, LT, GT, EQ, LE, GE, NE
    <3> QED
      BY <3>1
  <2>2. CASE "lt" \in x /\ "eq" \notin x /\ "gt" \notin x
    <3>1. x = LT
      BY <1>1, <2>2 DEF Signs, BOTTOM, LT, GT, EQ, LE, GE, NE
    <3> QED
      BY <3>1
  <2>3. CASE "lt" \notin x /\ "eq" \in x /\ "gt" \notin x
    <3>1. x = EQ
      BY <1>1, <2>3 DEF Signs, BOTTOM, LT, GT, EQ, LE, GE, NE
    <3> QED
      BY <3>1
  <2>4. CASE "lt" \notin x /\ "eq" \notin x /\ "gt" \in x
    <3>1. x = GT
      BY <1>1, <2>4 DEF Signs, BOTTOM, LT, GT, EQ, LE, GE, NE
    <3> QED
      BY <3>1
  <2>5. CASE "lt" \in x /\ "eq" \in x /\ "gt" \notin x
    <3>1. x = LE
      BY <1>1, <2>5 DEF Signs, BOTTOM, LT, GT, EQ, LE, GE, NE
    <3> QED
      BY <3>1
  <2>6. CASE "lt" \notin x /\ "eq" \in x /\ "gt" \in x
    <3>1. x = GE
      BY <1>1, <2>6 DEF Signs, BOTTOM, LT, GT, EQ, LE, GE, NE
    <3> QED
      BY <3>1
  <2>7. CASE "lt" \in x /\ "eq" \notin x /\ "gt" \in x
    <3>1. x = NE
      BY <1>1, <2>7 DEF Signs, BOTTOM, LT, GT, EQ, LE, GE, NE
    <3> QED
      BY <3>1
  <2>8. CASE "lt" \in x /\ "eq" \in x /\ "gt" \in x
    <3>1. x = Signs
      BY <1>1, <2>8 DEF Signs, BOTTOM, LT, GT, EQ, LE, GE, NE
    <3> QED
      BY <3>1
  <2> QED
    BY <2>1, <2>2, <2>3, <2>4, <2>5, <2>6, <2>7, <2>8
<1>2. /\ Elements[1] = BOTTOM /\ Elements[2] = LT /\ Elements[3] = GT /\ Elements[4] = EQ
      /\ Elements[5] = LE /\ Elements[6] = GE /\ Elements[7] = NE /\ Elements[8] = Signs
  BY DEF Elements
<1>3. \A k \in 1..8 : k \in {1, 2, 3, 4, 5, 6, 7, 8}
  OBVIOUS
<1>4. \A j, k \in 1..8 : Elements[j] = Elements[k] => j = k
  BY <1>2, <1>3 DEF Signs, BOTTOM, LT, GT, EQ, LE, GE, NE
<1> QED
  BY <1>1, <1>2, <1>4

LEMMA PositionOfElement ==
  ASSUME NEW k \in 1..8, NEW bits
  PROVE  EncodingOf(bits)[Elements[k]] = bits[k]
<1>1. Elements[k] \in SUBSET Signs
  <2>1. \A j \in 1..8 : j \in {1, 2, 3, 4, 5, 6, 7, 8}
    OBVIOUS
  <2> QED
    BY <2>1 DEF Elements, Signs, BOTTOM, LT, GT, EQ, LE, GE, NE
<1>2. (CHOOSE j \in 1..8 : Elements[j] = Elements[k]) = k
  BY ElementsAreAll
<1> QED
  BY <1>1, <1>2 DEF EncodingOf

\* An element's encoding has the bits of the elements that contain it.
LEMMA JoinEncodingIs ==
  ASSUME NEW x \in SUBSET Signs
  PROVE  JoinEncoding[x] = {k \in 1..8 : x \subseteq Elements[k]}
<1> DEFINE bits == <<1..8, {2, 5, 7, 8}, {3, 6, 7, 8}, {4, 5, 6, 8}, {5, 8}, {6, 8}, {7, 8}, {8}>>
<1>1. PICK k \in 1..8 : x = Elements[k]
  BY ElementsAreAll
<1>2. JoinEncoding[x] = bits[k]
  BY <1>1, PositionOfElement DEF JoinEncoding
<1>3. \A j \in 1..8 : j \in {1, 2, 3, 4, 5, 6, 7, 8}
  OBVIOUS
<1>4. bits[k] = {j \in 1..8 : Elements[k] \subseteq Elements[j]}
  BY <1>3 DEF Elements, Signs, BOTTOM, LT, GT, EQ, LE, GE, NE
<1> QED
  BY <1>1, <1>2, <1>4


LEMMA MeetEncodingIs ==
  ASSUME NEW x \in SUBSET Signs
  PROVE  MeetEncoding[x] = {k \in 1..8 : Elements[k] \subseteq x}
<1> DEFINE bits ==
      <<{1}, {1, 2}, {1, 3}, {1, 4}, {1, 2, 4, 5}, {1, 3, 4, 6}, {1, 2, 3, 7}, 1..8>>
<1>1. PICK k \in 1..8 : x = Elements[k]
  BY ElementsAreAll
<1>2. MeetEncoding[x] = bits[k]
  BY <1>1, PositionOfElement DEF MeetEncoding
<1>3. \A j \in 1..8 : j \in {1, 2, 3, 4, 5, 6, 7, 8}
  OBVIOUS
<1>4. bits[k] = {j \in 1..8 : Elements[j] \subseteq Elements[k]}
  BY <1>3 DEF Elements, Signs, BOTTOM, LT, GT, EQ, LE, GE, NE
<1> QED
  BY <1>1, <1>2, <1>4

\* Different elements have different encodings, so the decoding of an encoding is
\* its element.
LEMMA JoinDecodes ==
  ASSUME NEW x \in SUBSET Signs
  PROVE  JoinDecoding[JoinEncoding[x]] = x
<1>1. ASSUME NEW y \in SUBSET Signs, JoinEncoding[y] = JoinEncoding[x]
      PROVE  y = x
  <2>1. PICK j \in 1..8 : x = Elements[j]
    BY ElementsAreAll
  <2>2. PICK k \in 1..8 : y = Elements[k]
    BY ElementsAreAll
  <2>3. x \subseteq Elements[k] /\ y \subseteq Elements[j]
    BY <1>1, <2>1, <2>2, JoinEncodingIs
  <2> QED
    BY <2>1, <2>2, <2>3
<1> QED
  BY <1>1 DEF JoinDecoding, DecodingOf

LEMMA MeetDecodes ==
  ASSUME NEW x \in SUBSET Signs
  PROVE  MeetDecoding[MeetEncoding[x]] = x
<1>1. ASSUME NEW y \in SUBSET Signs, MeetEncoding[y] = MeetEncoding[x]
      PROVE  y = x
  <2>1. PICK j \in 1..8 : x = Elements[j]
    BY ElementsAreAll
  <2>2. PICK k \in 1..8 : y = Elements[k]
    BY ElementsAreAll
  <2>3. Elements[k] \subseteq x /\ Elements[j] \subseteq y
    BY <1>1, <2>1, <2>2, MeetEncodingIs
  <2> QED
    BY <2>1, <2>2, <2>3
<1> QED
  BY <1>1 DEF MeetDecoding, DecodingOf

\* The join of any elements, computed on bit strings
\* (SignLattice::Join), is their union: no sign is lost and none invented.
THEOREM JoinAllIsUnion ==
  ASSUME NEW S \in SUBSET SUBSET Signs
  PROVE  JoinAll(S) = UNION S
<1>1. UNION S \in SUBSET Signs
  OBVIOUS
<1>2. {k \in 1..8 : \A x \in S : k \in JoinEncoding[x]} = JoinEncoding[UNION S]
  <2>1. \A x \in S : JoinEncoding[x] = {k \in 1..8 : x \subseteq Elements[k]}
    BY JoinEncodingIs
  <2>2. JoinEncoding[UNION S] = {k \in 1..8 : UNION S \subseteq Elements[k]}
    BY <1>1, JoinEncodingIs
  <2> QED
    BY <2>1, <2>2
<1> QED
  BY <1>1, <1>2, JoinDecodes DEF JoinAll

THEOREM JoinIsUnion ==
  ASSUME NEW x \in SUBSET Signs, NEW y \in SUBSET Signs
  PROVE  Join(x, y) = x \union y
<1>1. x \union y \in SUBSET Signs
  OBVIOUS
<1>2. JoinEncoding[x] \cap JoinEncoding[y] = JoinEncoding[x \union y]
  BY <1>1, JoinEncodingIs
<1> QED
  BY <1>1, <1>2, JoinDecodes DEF Join

\* The meet of two elements (SignLattice::Meet) is their intersection, and
\* SignLattice::Intersects says whether they have a sign in common.
THEOREM MeetIsIntersection ==
  ASSUME NEW x \in SUBSET Signs, NEW y \in SUBSET Signs
  PROVE  Meet(x, y) = x \cap y /\ (Intersects(x, y) <=> x \cap y # {})
<1>1. x \cap y \in SUBSET Signs
  OBVIOUS
<1>2. MeetEncoding[x] \cap MeetEncoding[y] = MeetEncoding[x \cap y]
  BY <1>1, MeetEncodingIs
<1> QED
  BY <1>1, <1>2, MeetDecodes DEF Meet, Intersects, BOTTOM

-----------------------------------------------------------------------------
(* Where a pass is.                                                        *)

LEMMA AtAnInstruction ==
  ASSUME WalkOK, blk > 0, idx > 0
  PROVE  /\ f0 \in DOMAIN program.body /\ Body = program.body[f0]
         /\ blk \in DOMAIN program.body[f0]
         /\ idx \in 1..LastPoint(f0, blk) /\ LastPoint(f0, blk) \in Nat
         /\ idx \in 0..LastPoint(f0, blk) /\ idx - 1 \in 0..LastPoint(f0, blk)
         /\ I \in Instructions /\ IsInstructionOf(Body, I) /\ I.args \in Seq(Values)
         /\ \A k \in DOMAIN I.args : I.args[k] \in Values
<1>1. I \in Instructions /\ IsInstructionOf(Body, I) /\ I.args \in Seq(Values)
  BY InstructionType DEF Instructions
<1>2. \A k \in DOMAIN I.args : I.args[k] \in Values
  BY <1>1
<1> QED
  BY <1>1, <1>2, HereType

\* Where a block is entered.
LEMMA AtAnEntry ==
  ASSUME WalkOK, blk > 0
  PROVE  /\ f0 \in DOMAIN program.body /\ Body = program.body[f0]
         /\ blk \in DOMAIN program.body[f0]
         /\ 0 \in 0..LastPoint(f0, blk)
         /\ \A b \in DOMAIN program.body[f0] :
              LastPoint(f0, b) \in Nat \ {0} /\ LastPoint(f0, b) \in 0..LastPoint(f0, b)
<1>1. /\ f0 \in DOMAIN program.body /\ Body = program.body[f0]
      /\ blk \in DOMAIN program.body[f0] /\ program \in Programs
  BY HereType DEF WalkOK
<1>2. \A b \in DOMAIN program.body[f0] : LastPoint(f0, b) \in Nat \ {0}
  BY <1>1, BodyType
<1> QED
  BY <1>1, <1>2

\* How many operands the instructions have.
LEMMA Operands ==
  ASSUME NEW body, NEW i \in Instructions, IsInstructionOf(body, i)
  PROVE  /\ i.op \in {"load", "bitcast", "ptrtoint", "trunc", "sext", "zext", "gep", "switch"} =>
              DOMAIN i.args = {1}
         /\ i.op \in {"store", "binop", "icmp"} => DOMAIN i.args = {1, 2}
         /\ i.op = "phi" => 1 \in DOMAIN i.args /\ DOMAIN i.to = DOMAIN i.args
         /\ i.op = "ret" => DOMAIN i.args = {1} \/ i.args = <<>>
         /\ i.op = "br" => \/ DOMAIN i.to = {1} /\ i.args = <<>>
                           \/ DOMAIN i.to = {1, 2} /\ DOMAIN i.args = {1}
         /\ i.op = "call" /\ i.tag \in err_functions => 1 \in DOMAIN i.args
         /\ i.op \notin Terminators \union {"store"} => i.id \in Values \ DOMAIN Literals
         /\ i.op = "switch" => Len(i.cases) \in Nat /\ DOMAIN i.to = 1..(Len(i.cases) + 1)
                               /\ DOMAIN i.cases = 1..Len(i.cases)
         /\ i.op = "icmp" => i.tag \in Predicates
<1>0. 1..1 = {1} /\ 1..2 = {1, 2}
  OBVIOUS
<1>1. /\ i.args \in Seq(Values) /\ i.to \in Seq(Nat) /\ i.cases \in Seq(DOMAIN Literals)
      /\ DOMAIN i.args = 1..Len(i.args) /\ DOMAIN i.to = 1..Len(i.to)
      /\ DOMAIN i.cases = 1..Len(i.cases)
      /\ Len(i.args) \in Nat /\ Len(i.to) \in Nat /\ Len(i.cases) \in Nat
      /\ (Len(i.args) = 0 => i.args = <<>>)
  <2>1. i.args \in Seq(Values) /\ i.to \in Seq(Nat) /\ i.cases \in Seq(DOMAIN Literals)
    BY DEF Instructions
  <2> QED
    BY <2>1
<1>2. CASE i.op \in {"load", "bitcast", "ptrtoint", "trunc", "sext", "zext", "gep"}
  <2>1. Len(i.args) = 1
    BY <1>2 DEF IsInstructionOf
  <2>2. i.id \in Values \ DOMAIN Literals
    BY <1>2 DEF IsInstructionOf, Terminators
  <2> QED
    BY <1>1, <1>2, <2>1, <2>2
<1>3. CASE i.op = "switch"
  <2>1. Len(i.args) = 1 /\ Len(i.to) = Len(i.cases) + 1
    BY <1>3 DEF IsInstructionOf
  <2> QED
    BY <1>1, <1>3, <2>1 DEF Terminators
<1>4. CASE i.op \in {"store", "binop", "icmp"}
  <2>1. Len(i.args) = 2 /\ (i.op = "icmp" => i.tag \in Predicates)
    BY <1>4 DEF IsInstructionOf
  <2>2. i.op # "store" => i.id \in Values \ DOMAIN Literals
    BY <1>4 DEF IsInstructionOf, Terminators
  <2> QED
    BY <1>1, <1>4, <2>1, <2>2
<1>5. CASE i.op = "phi"
  <2>1. i.args # <<>> /\ Len(i.to) = Len(i.args) /\ i.id \in Values \ DOMAIN Literals
    BY <1>5 DEF IsInstructionOf, Terminators
  <2> QED
    BY <1>1, <1>5, <2>1
<1>6. CASE i.op = "ret"
  <2>1. Len(i.args) \in 0..1
    BY <1>6 DEF IsInstructionOf
  <2>2. DOMAIN i.args = {1} \/ i.args = <<>>
    <3>1. CASE Len(i.args) = 0
      BY <1>1, <3>1
    <3>2. CASE Len(i.args) = 1
      BY <1>0, <1>1, <3>2
    <3> QED
      BY <2>1, <3>1, <3>2
  <2> QED
    BY <1>6, <2>2 DEF Terminators
<1>7. CASE i.op = "br"
  <2>1. Len(i.to) \in 1..2 /\ Len(i.args) = Len(i.to) - 1
    BY <1>7 DEF IsInstructionOf
  <2>2. \/ Len(i.to) = 1 /\ Len(i.args) = 0
        \/ Len(i.to) = 2 /\ Len(i.args) = 1
    BY <1>1, <2>1
  <2>3. \/ DOMAIN i.to = {1} /\ i.args = <<>>
        \/ DOMAIN i.to = {1, 2} /\ DOMAIN i.args = {1}
    BY <1>0, <1>1, <2>2
  <2> QED
    BY <1>7, <2>3 DEF Terminators
<1>8. CASE i.op = "call"
  <2>1. i.id \in Values \ DOMAIN Literals /\ (i.tag \in err_functions => i.args # <<>>)
    BY <1>8 DEF IsInstructionOf, Terminators
  <2> QED
    BY <1>1, <1>8, <2>1
<1>9. CASE i.op = "alloca"
  BY <1>9 DEF IsInstructionOf, Terminators
<1>10. i.op \in {"alloca", "call", "store", "load", "bitcast", "ptrtoint", "trunc", "sext",
                 "zext", "binop", "gep", "phi", "icmp", "br", "switch", "ret"}
  BY DEF Instructions
<1> QED
  BY <1>2, <1>3, <1>4, <1>5, <1>6, <1>7, <1>8, <1>9, <1>10

-----------------------------------------------------------------------------
(* Facts.                                                                  *)

\* Every fact, of a pass that keeps facts of kind S, is one.
Typed(fact, S) ==
  /\ Shaped(fact)
  /\ \A f \in DOMAIN program.body : \A b \in DOMAIN program.body[f] :
       \A i \in 0..LastPoint(f, b) : fact[f][b][i] \in S

\* Partial functions to elements of the sign lattice.
Partial(K) == UNION {[D -> SUBSET Signs] : D \in SUBSET K}

LEMMA PartialFunction ==
  ASSUME NEW K
  PROVE  /\ \A D \in SUBSET K : \A c \in [D -> SUBSET Signs] : c \in Partial(K)
         /\ \A c \in Partial(K) : /\ DOMAIN c \subseteq K
                                  /\ \A k \in DOMAIN c : c[k] \in SUBSET Signs
                                  /\ c \in [DOMAIN c -> SUBSET Signs]
<1>1. ASSUME NEW D \in SUBSET K, NEW c \in [D -> SUBSET Signs]
      PROVE  c \in Partial(K)
  BY <1>1 DEF Partial
<1>2. ASSUME NEW c \in Partial(K)
      PROVE  /\ DOMAIN c \subseteq K
             /\ \A k \in DOMAIN c : c[k] \in SUBSET Signs
             /\ c \in [DOMAIN c -> SUBSET Signs]
  <2>1. PICK D \in SUBSET K : c \in [D -> SUBSET Signs]
    BY <1>2 DEF Partial
  <2> QED
    BY <2>1
<1> QED
  BY <1>1, <1>2

LEMMA EverywhereTyped ==
  ASSUME NEW S, NEW e \in S
  PROVE  Typed(Everywhere(e), S)
  BY EverywhereShaped DEF Typed, Everywhere

LEMMA StoredTyped ==
  ASSUME NEW S, NEW fact, Typed(fact, S), NEW f \in DOMAIN program.body,
         NEW b \in DOMAIN program.body[f], NEW k \in 0..LastPoint(f, b), NEW e \in S
  PROVE  Typed([fact EXCEPT ![f][b][k] = e], S)
<1>1. Shaped(fact)
  BY DEF Typed
<1>2. Shaped(Put(fact, f, b, k, e))
  BY <1>1, StoredAtAPoint
<1>3. ASSUME NEW g \in DOMAIN program.body, NEW c \in DOMAIN program.body[g],
             NEW i \in 0..LastPoint(g, c)
      PROVE  Put(fact, f, b, k, e)[g][c][i] \in S
  <2>1. Put(fact, f, b, k, e)[g][c][i] = IF g = f /\ c = b /\ i = k THEN e ELSE fact[g][c][i]
    BY <1>1, StoredAtAPoint
  <2>2. fact[g][c][i] \in S
    BY DEF Typed
  <2> QED
    BY <2>1, <2>2
<1> QED
  BY <1>2, <1>3 DEF Typed, Put

\* All facts of one function are replaced.
LEMMA ReplacedTyped ==
  ASSUME NEW S, NEW fact, Typed(fact, S), NEW f \in DOMAIN program.body, NEW facts_,
         DOMAIN facts_ = DOMAIN program.body[f],
         \A b \in DOMAIN program.body[f] :
           /\ DOMAIN facts_[b] = 0..LastPoint(f, b)
           /\ \A i \in 0..LastPoint(f, b) : facts_[b][i] \in S
  PROVE  Typed([fact EXCEPT ![f] = facts_], S)
<1> DEFINE new == [fact EXCEPT ![f] = facts_]
<1>1. DOMAIN new = DOMAIN program.body
  BY DEF Typed, Shaped
<1>2. \A g \in DOMAIN program.body : new[g] = IF g = f THEN facts_ ELSE fact[g]
  BY DEF Typed, Shaped
<1> HIDE DEF new
<1>3. ASSUME NEW g \in DOMAIN program.body
      PROVE  /\ DOMAIN new[g] = DOMAIN program.body[g]
             /\ \A b \in DOMAIN program.body[g] :
                  /\ DOMAIN new[g][b] = 0..LastPoint(g, b)
                  /\ \A i \in 0..LastPoint(g, b) : new[g][b][i] \in S
  <2>1. CASE g = f
    BY <1>2, <2>1
  <2>2. CASE g # f
    BY <1>2, <1>3, <2>2 DEF Typed, Shaped
  <2> QED
    BY <2>1, <2>2
<1>4. Shaped(new) /\ Typed(new, S)
  BY <1>1, <1>3 DEF Typed, Shaped
<1> QED
  BY <1>4 DEF new

LEMMA TypedKept ==
  ASSUME NEW S, NEW fact, Typed(fact, S), program' = program
  PROVE  Typed(fact, S)'  <=> Typed(fact', S)
  BY DEF Typed, Shaped, LastPoint

\* The successors of a block are blocks of its function.
LEMMA SuccessorsType ==
  ASSUME WalkOK, blk > 0
  PROVE  \A b \in Successors(f0, blk) : b \in DOMAIN program.body[f0]
<1>1. Terminator(f0, blk) = Body[blk][Len(Body[blk])] /\ Len(Body[blk]) \in DOMAIN Body[blk]
  BY AtAnEntry, BodyType DEF Terminator, LastPoint, WalkOK
<1>2. IsBody(Body) /\ blk \in DOMAIN Body
  BY AtAnEntry, ProgramType DEF WalkOK
<1>3. IsInstructionOf(Body, Terminator(f0, blk))
  BY <1>1, <1>2 DEF IsBody
<1> QED
  BY <1>3, AtAnEntry DEF IsInstructionOf, Successors


-----------------------------------------------------------------------------
(* What the passes compute.                                                *)

\* What defines a value is an instruction of the function.
LEMMA DefinitionType ==
  ASSUME program \in Programs, NEW f \in DOMAIN program.body, NEW v, IsInstruction(f, v)
  PROVE  /\ DefinitionOf(f, v) \in Instructions
         /\ IsInstructionOf(program.body[f], DefinitionOf(f, v))
<1>1. PointOf(f, v) \in Points(f)
  BY DEF IsInstruction, PointOf, Definitions
<1>2. PICK b \in DOMAIN program.body[f] : PointOf(f, v) \in {b} \X (1..LastPoint(f, b))
  BY <1>1 DEF Points
<1>3. PointOf(f, v)[1] = b /\ PointOf(f, v)[2] \in DOMAIN program.body[f][b]
  BY <1>2, BodyType
<1>4. IsBody(program.body[f])
  BY ProgramType
<1> QED
  BY <1>3, <1>4, BodyType DEF DefinitionOf, IsBody

LEMMA SignsOfNumbers ==
  ASSUME NEW n \in Int
  PROVE  SignOf(n) \in Signs /\ SignOf(n) \in {"lt", "eq", "gt"}
  BY DEF SignOf, Signs

LEMMA ComplementType ==
  /\ \A s \in {"lt", "eq", "gt"} : \A k \in 1..2 :
       /\ PredicateComplement[s]["slt"][k] \in SUBSET Signs
       /\ PredicateComplement[s]["sgt"][k] \in SUBSET Signs
       /\ PredicateComplement[s]["sle"][k] \in SUBSET Signs
       /\ PredicateComplement[s]["sge"][k] \in SUBSET Signs
       /\ PredicateComplement[s]["eq"][k] \in SUBSET Signs
       /\ PredicateComplement[s]["ne"][k] \in SUBSET Signs
  /\ \A x \in SUBSET Signs : UnsignedReplacement(x) \in SUBSET Signs
<1>1. /\ LT \in SUBSET Signs /\ GT \in SUBSET Signs /\ EQ \in SUBSET Signs
      /\ LE \in SUBSET Signs /\ GE \in SUBSET Signs /\ NE \in SUBSET Signs
      /\ Signs \in SUBSET Signs /\ BOTTOM \in SUBSET Signs
  BY DEF LT, GT, EQ, LE, GE, NE, Signs, BOTTOM
<1>2. \A x \in SUBSET Signs : UnsignedReplacement(x) \in SUBSET Signs
  BY <1>1 DEF UnsignedReplacement
<1>3. \A k \in 1..2 : k = 1 \/ k = 2
  OBVIOUS
<1>4. ASSUME NEW s \in {"lt", "eq", "gt"}, NEW k \in 1..2
      PROVE  /\ PredicateComplement[s]["slt"][k] \in SUBSET Signs
             /\ PredicateComplement[s]["sgt"][k] \in SUBSET Signs
             /\ PredicateComplement[s]["sle"][k] \in SUBSET Signs
             /\ PredicateComplement[s]["sge"][k] \in SUBSET Signs
             /\ PredicateComplement[s]["eq"][k] \in SUBSET Signs
             /\ PredicateComplement[s]["ne"][k] \in SUBSET Signs
  <2>1. CASE s = "eq"
    BY <1>1, <1>3, <2>1 DEF PredicateComplement
  <2>2. CASE s = "gt"
    BY <1>1, <1>3, <2>2 DEF PredicateComplement
  <2>3. CASE s = "lt"
    BY <1>1, <1>3, <2>3 DEF PredicateComplement
  <2> QED
    BY <2>1, <2>2, <2>3
<1> QED
  BY <1>2, <1>4

\* A comparison says which signs the compared value may have.
LEMMA AbstractICmpType ==
  ASSUME NEW c \in Instructions, c.op = "icmp", c.tag \in Predicates, NEW k \in 1..2
  PROVE  AbstractICmp(c)[k] \in SUBSET Signs
<1> DEFINE first == c.args[1]
           second == c.args[2]
           signed == {"eq", "ne", "slt", "sgt", "sle", "sge"}
           complement(p, s) ==
             IF c.tag \in Unsigned
             THEN [j \in 1..2 |-> UnsignedReplacement(PredicateComplement[s][p][j])]
             ELSE PredicateComplement[s][p]
           unswapped == SignedPredicate(c.tag)
           predicate == IF IsInteger(second) THEN unswapped ELSE SwappedPredicate(unswapped)
<1>1. \A p \in signed : \A s \in {"lt", "eq", "gt"} : complement(p, s)[k] \in SUBSET Signs
  <2>1. ASSUME NEW p \in signed, NEW s \in {"lt", "eq", "gt"}
        PROVE  PredicateComplement[s][p][k] \in SUBSET Signs
    BY <2>1, ComplementType
  <2> QED
    BY <2>1, ComplementType
<1>2. unswapped \in signed
  BY DEF Predicates, Unsigned, SignedPredicate
<1>3. \A p \in signed : SwappedPredicate(p) \in signed
  BY DEF SwappedPredicate
<1>4. \A v : IsInteger(v) => SignOf(Literals[v].n) \in {"lt", "eq", "gt"}
  BY LiteralsAssumption, SignsOfNumbers DEF IsInteger
<1>5. AbstractICmp(c) =
        CASE IsNull(second) -> complement(predicate, "eq")
          [] IsNull(first) -> complement(SwappedPredicate(predicate), "eq")
          [] IsInteger(second) -> complement(predicate, SignOf(Literals[second].n))
          [] IsInteger(first) -> complement(predicate, SignOf(Literals[first].n))
          [] OTHER -> <<Signs, Signs>>
  BY DEF AbstractICmp
<1>6. predicate \in signed
  BY <1>2, <1>3
<1>7. SwappedPredicate(predicate) \in signed
  BY <1>3, <1>6
<1>8. <<Signs, Signs>>[k] \in SUBSET Signs
  OBVIOUS
<1> HIDE DEF complement, predicate, signed
<1>9. \/ AbstractICmp(c) = complement(predicate, "eq")
      \/ AbstractICmp(c) = complement(SwappedPredicate(predicate), "eq")
      \/ IsInteger(second) /\ AbstractICmp(c) = complement(predicate, SignOf(Literals[second].n))
      \/ IsInteger(first) /\ AbstractICmp(c) = complement(predicate, SignOf(Literals[first].n))
      \/ AbstractICmp(c) = <<Signs, Signs>>
  BY <1>5
<1> QED
  BY <1>1, <1>4, <1>6, <1>7, <1>8, <1>9

\* What is joined, narrowed or filtered is a partial function to the lattice.
LEMMA JoinFactsType ==
  ASSUME NEW K, NEW S \in SUBSET Partial(K)
  PROVE  JoinFacts(S) \in Partial(K)
<1>1. UNION {DOMAIN x : x \in S} \in SUBSET K
  BY PartialFunction
<1>2. ASSUME NEW k \in UNION {DOMAIN x : x \in S}
      PROVE  JoinAll({x[k] : x \in {y \in S : k \in DOMAIN y}}) \in SUBSET Signs
  <2>1. {x[k] : x \in {y \in S : k \in DOMAIN y}} \in SUBSET SUBSET Signs
    BY PartialFunction
  <2> QED
    BY <2>1, JoinAllIsUnion
<1>3. JoinFacts(S) \in [UNION {DOMAIN x : x \in S} -> SUBSET Signs]
  BY <1>2 DEF JoinFacts
<1> QED
  BY <1>1, <1>3, PartialFunction

LEMMA NarrowedType ==
  ASSUME NEW K, NEW in \in Partial(K), NEW S \in SUBSET K, NEW e \in SUBSET Signs
  PROVE  Narrowed(in, S, e) \in Partial(K)
<1>1. ASSUME NEW k \in S
      PROVE  (IF k \in DOMAIN in THEN Meet(e, in[k]) ELSE e) \in SUBSET Signs
  <2>1. CASE k \in DOMAIN in
    <3>1. in[k] \in SUBSET Signs
      BY <2>1, PartialFunction
    <3>2. Meet(e, in[k]) = e \cap in[k]
      BY <3>1, MeetIsIntersection
    <3> QED
      BY <2>1, <3>2
  <2> QED
    BY <2>1
<1>2. Narrowed(in, S, e) \in [S -> SUBSET Signs]
  BY <1>1 DEF Narrowed
<1> QED
  BY <1>2, PartialFunction

LEMMA FilteredType ==
  ASSUME NEW K, NEW fact \in Partial(K), NEW S
  PROVE  Filtered(fact, S) \in Partial(K)
<1>1. DOMAIN fact \cap S \in SUBSET K
  BY PartialFunction
<1>2. Filtered(fact, S) \in [DOMAIN fact \cap S -> SUBSET Signs]
  BY PartialFunction DEF Filtered
<1> QED
  BY <1>1, <1>2, PartialFunction

LEMMA UpdatedType ==
  ASSUME NEW K, NEW fact \in Partial(K), NEW k \in K, NEW e \in SUBSET Signs
  PROVE  Updated(fact, k, e) \in Partial(K)
<1>1. DOMAIN fact \union {k} \in SUBSET K
  BY PartialFunction
<1>2. Updated(fact, k, e) \in [DOMAIN fact \union {k} -> SUBSET Signs]
  BY PartialFunction DEF Updated
<1> QED
  BY <1>1, <1>2, PartialFunction

LEMMA EmptyType == \A K : Empty \in Partial(K)
<1>1. ASSUME NEW K
      PROVE  Empty \in Partial(K)
  <2>1. Empty \in [{} -> SUBSET Signs]
    BY DEF Empty
  <2>2. {} \in SUBSET K
    OBVIOUS
  <2> QED
    BY <2>1, <2>2, PartialFunction
<1> QED
  BY <1>1

\* A branch leaves typed facts behind it and in its successors.
LEMMA PushedType ==
  ASSUME WalkOK, blk > 0, idx > 0, NEW K, NEW fact, Typed(fact, Partial(K)),
         NEW out \in Partial(K), NEW pushed, \A p \in pushed : p[2] \in Partial(K)
  PROVE  Typed(Pushed(fact, out, pushed), Partial(K))
<1> DEFINE new ==
      [b \in DOMAIN Body |->
        [i \in 0..LastPoint(f0, b) |->
          IF b = blk /\ i = idx THEN out
          ELSE IF i = 0
          THEN JoinFacts({fact[f0][b][0]} \union {p[2] : p \in {q \in pushed : q[1] = b}})
          ELSE fact[f0][b][i]]]
<1>1. f0 \in DOMAIN program.body /\ Body = program.body[f0]
  BY AtAnInstruction
<1>2. ASSUME NEW b \in DOMAIN program.body[f0], NEW i \in 0..LastPoint(f0, b)
      PROVE  new[b][i] \in Partial(K)
  <2>1. fact[f0][b][i] \in Partial(K)
    BY <1>1, <1>2 DEF Typed
  <2>2. CASE b = blk /\ i = idx
    BY <1>1, <2>2
  <2>3. CASE ~(b = blk /\ i = idx) /\ i = 0
    <3>1. new[b][i] =
            JoinFacts({fact[f0][b][0]} \union {p[2] : p \in {q \in pushed : q[1] = b}})
      BY <1>1, <2>3
    <3>2. {fact[f0][b][0]} \union {p[2] : p \in {q \in pushed : q[1] = b}} \in SUBSET Partial(K)
      BY <2>1, <2>3
    <3> QED
      BY <3>1, <3>2, JoinFactsType
  <2>4. CASE ~(b = blk /\ i = idx) /\ i # 0
    BY <1>1, <2>1, <2>4
  <2> QED
    BY <2>2, <2>3, <2>4
<1>3. /\ DOMAIN new = DOMAIN program.body[f0]
      /\ \A b \in DOMAIN program.body[f0] : DOMAIN new[b] = 0..LastPoint(f0, b)
  BY <1>1
<1>4. Pushed(fact, out, pushed) = [fact EXCEPT ![f0] = new]
  BY DEF Pushed
<1>5. Typed([fact EXCEPT ![f0] = new], Partial(K))
  <2> HIDE DEF new
  <2>1. /\ DOMAIN new = DOMAIN program.body[f0]
        /\ \A b \in DOMAIN program.body[f0] :
             /\ DOMAIN new[b] = 0..LastPoint(f0, b)
             /\ \A i \in 0..LastPoint(f0, b) : new[b][i] \in Partial(K)
    BY <1>2, <1>3
  <2> QED
    BY <1>1, <2>1, ReplacedTyped
<1> QED
  BY <1>4, <1>5


-----------------------------------------------------------------------------
(* The facts of the four passes.                                           *)

\* The actions of each pass.
OfPropagation ==
  \/ EnterPropagation \/ PropagateCall \/ PropagateLoad \/ PropagateStore
  \/ PropagateCast \/ PropagatePhi \/ PropagateOther
OfReturned ==
  \/ EnterReturned \/ ReturnedCall \/ ReturnedRet \/ ReturnedStore
  \/ ReturnedLoad \/ ReturnedPhi \/ ReturnedOther
OfConstraints ==
  \/ EnterConstraints \/ ConstrainCall \/ ConstrainBranch \/ ConstrainSwitch
  \/ ConstrainOther
OfRange ==
  \/ EnterRange \/ RangeStore \/ RangeLoad \/ RangePhi \/ RangeBranch
  \/ RangeSwitch \/ RangeRet \/ RangeOther

\* A pass leaves the facts of the others alone.
LEMMA OfOnePass ==
  ASSUME AnalysisNext
  PROVE  /\ returned' = returned \/ OfReturned
         /\ constraints' = constraints \/ OfConstraints
         /\ range' = range \/ OfRange
         /\ returnRanges' = returnRanges \/ RangeRet
<1>1. CASE NextFunction
  BY <1>1 DEF NextFunction, facts
<1>2. CASE OfPropagation
  <2>1. EnterPropagation \/ \E fact : Propagate(fact)
    BY <1>2 DEF OfPropagation, PropagateCall, PropagateLoad, PropagateStore, PropagateCast,
                PropagatePhi, PropagateOther
  <2> QED
    BY <2>1 DEF EnterPropagation, Propagate
<1>3. CASE OfReturned
  <2>1. EnterReturned \/ ReturnedPhi \/ \E fact : Return(fact)
    BY <1>3 DEF OfReturned, ReturnedCall, ReturnedRet, ReturnedStore, ReturnedLoad,
                ReturnedOther
  <2> QED
    BY <1>3, <2>1 DEF EnterReturned, ReturnedPhi, Return
<1>4. CASE OfConstraints
  <2>1. EnterConstraints \/ (\E fact : Constrain(fact)) \/ \E S, U : ConstrainBranches(S, U)
    BY <1>4 DEF OfConstraints, ConstrainCall, ConstrainBranch, ConstrainSwitch, ConstrainOther
  <2> QED
    BY <1>4, <2>1 DEF EnterConstraints, Constrain, ConstrainBranches
<1>5. CASE OfRange
  <2>1. \/ EnterRange \/ RangeRet \/ \E fact : Ranges(fact)
        \/ \E S, U : RangeBranches(S, U)
    BY <1>5 DEF OfRange, RangeStore, RangeLoad, RangePhi, RangeBranch, RangeSwitch, RangeOther
  <2> QED
    BY <1>5, <2>1 DEF EnterRange, Ranges, RangeBranches, RangeRet
<1> QED
  BY <1>1, <1>2, <1>3, <1>4, <1>5
  DEF AnalysisNext, OfPropagation, OfReturned, OfConstraints, OfRange

\* What is stored of a function that returns something is an element.
StoredRangesOK ==
  /\ DOMAIN returnRanges \subseteq DOMAIN program.body \ program.void
  /\ \A f \in DOMAIN returnRanges : returnRanges[f] \in SUBSET Signs
  /\ pass = "range" /\ blk > 0 => f0 \notin program.void

TypedFactsOK ==
  /\ Typed(returned, SUBSET Values)
  /\ Typed(constraints, Partial(STRING))
  /\ Typed(range, Partial(Values))
  /\ StoredRangesOK

LEMMA RangeOfType ==
  ASSUME WalkOK, TypedFactsOK, blk > 0, idx > 0, NEW v \in Values
  PROVE  RangeOf(v) \in SUBSET Signs
<1>1. program \in Programs /\ f0 \in DOMAIN program.body
  BY AtAnInstruction DEF WalkOK
<1>2. /\ EQ \in SUBSET Signs /\ NE \in SUBSET Signs /\ GE \in SUBSET Signs
      /\ BOTTOM \in SUBSET Signs /\ Signs \in SUBSET Signs
  BY DEF EQ, NE, GE, BOTTOM, Signs
<1>3. \A g : AbstractCall(g) \in SUBSET Signs
  BY <1>2 DEF AbstractCall, TypedFactsOK, StoredRangesOK
<1>4. CASE v \in DOMAIN RangeIn
  <2>1. RangeIn \in Partial(Values)
    BY AtAnInstruction DEF RangeIn, TypedFactsOK, Typed
  <2> QED
    BY <1>4, <2>1, PartialFunction DEF RangeOf
<1>5. CASE v \notin DOMAIN RangeIn /\ v \in DOMAIN Literals
  <2>1. {SignOf(Literals[v].n)} \in SUBSET Signs
    BY <1>5, LiteralsAssumption, SignsOfNumbers
  <2>2. AbstractValue(v) \in {EQ, NE, Signs, {SignOf(Literals[v].n)}}
    BY <1>5 DEF AbstractValue
  <2> QED
    BY <1>2, <1>5, <2>1, <2>2 DEF RangeOf
<1>6. CASE v \notin DOMAIN RangeIn /\ v \notin DOMAIN Literals
  <2>1. AbstractValue(v) \in {AbstractCall(DefinitionOf(f0, v).tag), GE, Signs}
    BY <1>6 DEF AbstractValue
  <2> QED
    BY <1>2, <1>3, <1>6, <2>1 DEF RangeOf
<1> QED
  BY <1>4, <1>5, <1>6

\* ReturnedValuesPass.
LEMMA ReturnedTyped ==
  ASSUME WalkOK, TypedFactsOK, AnalysisNext
  PROVE  Typed(returned', SUBSET Values)
<1> DEFINE T == SUBSET Values
<1>1. Typed(returned, T)
  BY DEF TypedFactsOK
<1>2. CASE returned' = returned
  BY <1>1, <1>2
<1>3. CASE EnterReturned
  <2>1. blk > 0
    BY <1>3 DEF EnterReturned, Entering
  <2> DEFINE e == returned[f0][blk][LastPoint(f0, blk)]
                    \union UNION {returned[f0][b][0] : b \in Successors(f0, blk)}
  <2>2. e \in T
    <3>1. returned[f0][blk][LastPoint(f0, blk)] \in T
      BY <1>1, <2>1, AtAnEntry DEF Typed
    <3>2. \A b \in Successors(f0, blk) : returned[f0][b][0] \in T
      <4>1. \A b \in Successors(f0, blk) : b \in DOMAIN program.body[f0]
        BY <2>1, SuccessorsType
      <4>2. \A b \in DOMAIN program.body[f0] : 0 \in 0..LastPoint(f0, b)
        BY <2>1, AtAnEntry
      <4> QED
        BY <1>1, <2>1, <4>1, <4>2, AtAnEntry DEF Typed
    <3> QED
      BY <3>1, <3>2
  <2>3. returned' = [returned EXCEPT ![f0][blk][LastPoint(f0, blk)] = e]
    BY <1>3 DEF EnterReturned
  <2> HIDE DEF e
  <2> QED
    BY <1>1, <2>1, <2>2, <2>3, AtAnEntry, StoredTyped
<1>4. ASSUME NEW e \in T, Return(e), blk > 0, idx > 0
      PROVE  Typed(returned', T)
  <2>1. returned' = [returned EXCEPT ![f0][blk][idx - 1] = e]
    BY <1>4 DEF Return
  <2> QED
    BY <1>1, <1>4, <2>1, AtAnInstruction, StoredTyped
<1>5. ASSUME blk > 0, idx > 0
      PROVE  /\ ReturnedIn \in T /\ ReturnedOut \in T
             /\ \A v, u \in Values : ReturnedThrough(v, u) \in T
  BY <1>1, <1>5, AtAnInstruction DEF Typed, ReturnedIn, ReturnedOut, ReturnedThrough
<1>6. CASE ReturnedCall
  <2>1. blk > 0 /\ idx > 0 /\ I.op = "call"
    BY <1>6 DEF ReturnedCall, At
  <2>2. I.tag \in err_functions => I.args[1] \in Values
    BY <2>1, AtAnInstruction, Operands
  <2>3. (IF I.tag \in err_functions /\ I.id \in ReturnedOut
         THEN ReturnedOut \union {I.args[1]} ELSE ReturnedOut) \in T
    BY <1>5, <2>1, <2>2
  <2> QED
    BY <1>4, <1>6, <2>1, <2>3 DEF ReturnedCall
<1>7. CASE ReturnedRet
  <2>1. blk > 0 /\ idx > 0 /\ I.op = "ret"
    BY <1>7 DEF ReturnedRet, At
  <2>2. I.args # <<>> => I.args[1] \in Values
    BY <2>1, AtAnInstruction, Operands
  <2>3. (IF I.args = <<>> THEN ReturnedIn ELSE ReturnedOut \union {I.args[1]}) \in T
    BY <1>5, <2>1, <2>2
  <2> QED
    BY <1>4, <1>7, <2>1, <2>3 DEF ReturnedRet
<1>8. CASE ReturnedStore
  <2>1. blk > 0 /\ idx > 0 /\ I.op = "store"
    BY <1>8 DEF ReturnedStore, At
  <2>2. I.args[1] \in Values /\ I.args[2] \in Values
    BY <2>1, AtAnInstruction, Operands
  <2> QED
    BY <1>4, <1>5, <1>8, <2>1, <2>2 DEF ReturnedStore
<1>9. CASE ReturnedLoad
  <2>1. blk > 0 /\ idx > 0 /\ I.op \in {"load", "bitcast", "ptrtoint", "trunc", "sext"}
    BY <1>9 DEF ReturnedLoad, At
  <2>2. I.args[1] \in Values /\ I.id \in Values
    BY <2>1, AtAnInstruction, Operands DEF Terminators
  <2> QED
    BY <1>4, <1>5, <1>9, <2>1, <2>2 DEF ReturnedLoad
<1>10. CASE ReturnedPhi
  <2>1. blk > 0 /\ idx > 0
    BY <1>10 DEF ReturnedPhi, At
  <2> DEFINE new == [b \in DOMAIN Body |->
                      [i \in 0..LastPoint(f0, b) |->
                         IF b = blk /\ i = idx - 1 THEN ReturnedOut \ {I.id}
                         ELSE IF i = LastPoint(f0, b) /\ I.id \in ReturnedOut
                         THEN returned[f0][b][i] \union Incoming(I, b)
                         ELSE returned[f0][b][i]]]
  <2>2. returned' = [returned EXCEPT ![f0] = new]
    BY <1>10 DEF ReturnedPhi
  <2>3. f0 \in DOMAIN program.body /\ Body = program.body[f0]
    BY <2>1, AtAnInstruction
  <2>4. \A b : Incoming(I, b) \in T
    BY <2>1, AtAnInstruction DEF Incoming
  <2>5. ASSUME NEW b \in DOMAIN program.body[f0], NEW i \in 0..LastPoint(f0, b)
        PROVE  new[b][i] \in T
    <3>1. returned[f0][b][i] \in T
      BY <1>1, <2>3, <2>5 DEF Typed
    <3>2. ReturnedOut \ {I.id} \in T /\ returned[f0][b][i] \union Incoming(I, b) \in T
      BY <1>5, <2>1, <2>4, <3>1
    <3> QED
      BY <2>3, <2>5, <3>1, <3>2
  <2>6. Typed([returned EXCEPT ![f0] = new], T)
    <3>1. /\ DOMAIN new = DOMAIN program.body[f0]
          /\ \A b \in DOMAIN program.body[f0] : DOMAIN new[b] = 0..LastPoint(f0, b)
      BY <2>3
    <3> HIDE DEF new
    <3>2. \A b \in DOMAIN program.body[f0] :
            /\ DOMAIN new[b] = 0..LastPoint(f0, b)
            /\ \A i \in 0..LastPoint(f0, b) : new[b][i] \in T
      BY <2>5, <3>1
    <3> QED
      BY <1>1, <2>3, <3>1, <3>2, ReplacedTyped
  <2> QED
    BY <2>2, <2>6
<1>11. CASE ReturnedOther
  <2>1. blk > 0 /\ idx > 0
    BY <1>11 DEF ReturnedOther, Others
  <2> QED
    BY <1>4, <1>5, <1>11, <2>1 DEF ReturnedOther
<1> QED
  BY <1>2, <1>3, <1>6, <1>7, <1>8, <1>9, <1>10, <1>11, OfOnePass DEF OfReturned


\* ReturnConstraintsPass.
LEMMA FunctionsHeldType ==
  ASSUME WalkOK
  PROVE  \A v : FunctionsHeld(v) \subseteq STRING
<1>1. f0 \in DOMAIN program.body /\ program \in Programs
  BY HereType DEF WalkOK
<1>2. ASSUME NEW c, IsA(f0, c, "call")
      PROVE  DefinitionOf(f0, c).tag \in STRING
  BY <1>1, <1>2, DefinitionType DEF IsA, Instructions
<1> QED
  BY <1>2 DEF FunctionsHeld

LEMMA ComparisonType ==
  ASSUME WalkOK, NEW v, IsA(f0, v, "icmp")
  PROVE  /\ DefinitionOf(f0, v) \in Instructions
         /\ DefinitionOf(f0, v).args[1] \in Values /\ DefinitionOf(f0, v).args[2] \in Values
         /\ \A k \in 1..2 : AbstractICmp(DefinitionOf(f0, v))[k] \in SUBSET Signs
<1> DEFINE c == DefinitionOf(f0, v)
<1>1. c \in Instructions /\ IsInstructionOf(program.body[f0], c) /\ c.op = "icmp"
  BY HereType, DefinitionType DEF IsA, WalkOK
<1>2. c.tag \in Predicates /\ DOMAIN c.args = {1, 2}
  BY <1>1, Operands
<1>3. c.args \in Seq(Values)
  BY <1>1 DEF Instructions
<1> HIDE DEF c
<1>4. c.args[1] \in Values /\ c.args[2] \in Values
  BY <1>2, <1>3
<1>5. \A k \in 1..2 : AbstractICmp(c)[k] \in SUBSET Signs
  BY <1>1, <1>2, AbstractICmpType
<1> QED
  BY <1>1, <1>4, <1>5 DEF c

\* The cases of a switch are numbers.
LEMMA CasesType ==
  ASSUME WalkOK, blk > 0, idx > 0
  PROVE  \A k \in DOMAIN I.cases : SignOf(Literals[I.cases[k]].n) \in Signs
<1>1. I.cases \in Seq(DOMAIN Literals)
  BY AtAnInstruction DEF Instructions
<1>2. \A k \in DOMAIN I.cases : I.cases[k] \in DOMAIN Literals
  BY <1>1
<1> QED
  BY <1>2, LiteralsAssumption, SignsOfNumbers

LEMMA ConstraintsTyped ==
  ASSUME WalkOK, TypedFactsOK, AnalysisNext
  PROVE  Typed(constraints', Partial(STRING))
<1> DEFINE T == Partial(STRING)
<1>1. Typed(constraints, T)
  BY DEF TypedFactsOK
<1>2. CASE constraints' = constraints
  BY <1>1, <1>2
<1>3. CASE EnterConstraints
  <2>1. blk > 0
    BY <1>3 DEF EnterConstraints, Entering
  <2> DEFINE S == {constraints[f0][blk][0]}
                    \union {constraints[f0][b][LastPoint(f0, b)] : b \in Predecessors(f0, blk)}
  <2>2. S \in SUBSET T
    <3>1. \A b \in Predecessors(f0, blk) : constraints[f0][b][LastPoint(f0, b)] \in T
      BY <1>1, <2>1, AtAnEntry DEF Typed, Predecessors
    <3>2. constraints[f0][blk][0] \in T
      BY <1>1, <2>1, AtAnEntry DEF Typed
    <3> QED
      BY <3>1, <3>2
  <2>3. constraints' = [constraints EXCEPT ![f0][blk][0] = JoinFacts(S)]
    BY <1>3 DEF EnterConstraints
  <2> HIDE DEF S
  <2>4. JoinFacts(S) \in T
    BY <2>2, JoinFactsType
  <2> QED
    BY <1>1, <2>1, <2>3, <2>4, AtAnEntry, StoredTyped
<1>4. ASSUME NEW e \in T, Constrain(e), blk > 0, idx > 0
      PROVE  Typed(constraints', T)
  <2>1. constraints' = [constraints EXCEPT ![f0][blk][idx] = e]
    BY <1>4 DEF Constrain
  <2> QED
    BY <1>1, <1>4, <2>1, AtAnInstruction, StoredTyped
<1>5. ASSUME blk > 0, idx > 0
      PROVE  ConstraintsIn \in T
  BY <1>1, <1>5, AtAnInstruction DEF Typed, ConstraintsIn
<1>6. ASSUME NEW tested \in SUBSET STRING, NEW pushed, ConstrainBranches(tested, pushed),
             \A p \in pushed : p[2] \in SUBSET Signs, blk > 0, idx > 0
      PROVE  Typed(constraints', T)
  <2> DEFINE out == [g \in DOMAIN ConstraintsIn \union tested |->
                      IF g \in tested THEN BOTTOM ELSE ConstraintsIn[g]]
             new == {<<p[1], Narrowed(ConstraintsIn, tested, p[2])>> : p \in pushed}
  <2>1. out \in T
    <3>1. out \in [DOMAIN ConstraintsIn \union tested -> SUBSET Signs]
      BY <1>5, <1>6, PartialFunction DEF BOTTOM
    <3>2. DOMAIN ConstraintsIn \union tested \in SUBSET STRING
      BY <1>5, <1>6, PartialFunction
    <3> QED
      BY <3>1, <3>2, PartialFunction
  <2>2. \A p \in new : p[2] \in T
    <3>1. ASSUME NEW p \in pushed
          PROVE  Narrowed(ConstraintsIn, tested, p[2]) \in T
      BY <1>5, <1>6, NarrowedType
    <3> QED
      BY <3>1
  <2>3. constraints' = Pushed(constraints, out, new)
    BY <1>6 DEF ConstrainBranches
  <2> HIDE DEF out, new
  <2> QED
    BY <1>1, <1>6, <2>1, <2>2, <2>3, PushedType
<1>7. CASE ConstrainCall
  <2>1. blk > 0 /\ idx > 0
    BY <1>7 DEF ConstrainCall, At
  <2>2. I.tag \in STRING
    BY <2>1, AtAnInstruction DEF Instructions
  <2>3. Updated(ConstraintsIn, I.tag, Signs) \in T
    BY <1>5, <2>1, <2>2, UpdatedType
  <2> QED
    BY <1>4, <1>7, <2>1, <2>3 DEF ConstrainCall
<1>8. CASE ConstrainBranch
  <2>1. blk > 0 /\ idx > 0
    BY <1>8 DEF ConstrainBranch, At
  <2>2. CASE Len(I.to) = 2 /\ IsA(f0, I.args[1], "icmp")
    <3> DEFINE c == DefinitionOf(f0, I.args[1])
               tested == UNION {FunctionsHeld(v) : v \in Tested(c)}
               pushed == {<<I.to[k], AbstractICmp(c)[k]>> : k \in 1..2}
    <3>1. ConstrainBranches(tested, pushed)
      BY <1>8, <2>2 DEF ConstrainBranch
    <3>2. tested \in SUBSET STRING
      BY FunctionsHeldType
    <3>3. \A k \in 1..2 : AbstractICmp(c)[k] \in SUBSET Signs
      BY <2>2, ComparisonType
    <3>4. \A p \in pushed : p[2] \in SUBSET Signs
      BY <3>3
    <3> HIDE DEF tested, pushed
    <3> QED
      BY <1>6, <2>1, <3>1, <3>2, <3>4
  <2>3. CASE ~(Len(I.to) = 2 /\ IsA(f0, I.args[1], "icmp"))
    BY <1>4, <1>5, <1>8, <2>1, <2>3 DEF ConstrainBranch
  <2> QED
    BY <2>2, <2>3
<1>9. CASE ConstrainSwitch
  <2>1. blk > 0 /\ idx > 0
    BY <1>9 DEF ConstrainSwitch, At
  <2>2. CASE IsInstruction(f0, I.args[1]) /\ I.cases # <<>>
    <3> DEFINE tested == FunctionsHeld(I.args[1])
               pushed == {<<I.to[k + 1], {SignOf(Literals[I.cases[k]].n)}>> : k \in DOMAIN I.cases}
    <3>1. ConstrainBranches(tested, pushed)
      BY <1>9, <2>2 DEF ConstrainSwitch
    <3>2. tested \in SUBSET STRING
      BY FunctionsHeldType
    <3>3. \A k \in DOMAIN I.cases : SignOf(Literals[I.cases[k]].n) \in Signs
      BY <2>1, CasesType
    <3>4. \A p \in pushed : p[2] \in SUBSET Signs
      BY <3>3
    <3> HIDE DEF tested, pushed
    <3> QED
      BY <1>6, <2>1, <3>1, <3>2, <3>4
  <2>3. CASE ~(IsInstruction(f0, I.args[1]) /\ I.cases # <<>>)
    BY <1>4, <1>5, <1>9, <2>1, <2>3 DEF ConstrainSwitch
  <2> QED
    BY <2>2, <2>3
<1>10. CASE ConstrainOther
  <2>1. blk > 0 /\ idx > 0
    BY <1>10 DEF ConstrainOther, Others
  <2> QED
    BY <1>4, <1>5, <1>10, <2>1 DEF ConstrainOther
<1> QED
  BY <1>2, <1>3, <1>7, <1>8, <1>9, <1>10, OfOnePass DEF OfConstraints


\* ReturnRangePass.
LEMMA RangeTyped ==
  ASSUME WalkOK, TypedFactsOK, AnalysisNext
  PROVE  Typed(range', Partial(Values))
<1> DEFINE T == Partial(Values)
<1>1. Typed(range, T) /\ Typed(returned, SUBSET Values)
  BY DEF TypedFactsOK
<1>2. CASE range' = range
  BY <1>1, <1>2
<1>3. CASE EnterRange
  <2>1. blk > 0
    BY <1>3 DEF EnterRange, Entering
  <2> DEFINE S == {range[f0][blk][0]}
                    \union {Filtered(range[f0][b][LastPoint(f0, b)], returned[f0][blk][0]) :
                              b \in Predecessors(f0, blk)}
  <2>2. S \in SUBSET T
    <3>1. ASSUME NEW b \in Predecessors(f0, blk)
          PROVE  Filtered(range[f0][b][LastPoint(f0, b)], returned[f0][blk][0]) \in T
      <4>1. range[f0][b][LastPoint(f0, b)] \in T
        BY <1>1, <2>1, AtAnEntry DEF Typed, Predecessors
      <4> QED
        BY <4>1, FilteredType
    <3>2. range[f0][blk][0] \in T
      BY <1>1, <2>1, AtAnEntry DEF Typed
    <3> QED
      BY <3>1, <3>2
  <2>3. range' = [range EXCEPT ![f0][blk][0] = JoinFacts(S)]
    BY <1>3 DEF EnterRange
  <2> HIDE DEF S
  <2>4. JoinFacts(S) \in T
    BY <2>2, JoinFactsType
  <2> QED
    BY <1>1, <2>1, <2>3, <2>4, AtAnEntry, StoredTyped
<1>4. ASSUME NEW e \in T, Ranges(e), blk > 0, idx > 0
      PROVE  Typed(range', T)
  <2>1. range' = [range EXCEPT ![f0][blk][idx] = e]
    BY <1>4 DEF Ranges
  <2> QED
    BY <1>1, <1>4, <2>1, AtAnInstruction, StoredTyped
<1>5. ASSUME blk > 0, idx > 0
      PROVE  RangeIn \in T /\ Copied \in T /\ MayBeReturned \in SUBSET Values
  <2>1. RangeIn \in T
    BY <1>1, <1>5, AtAnInstruction DEF Typed, RangeIn
  <2>2. Copied \in T
    BY <2>1, FilteredType DEF Copied
  <2>3. MayBeReturned \in SUBSET Values
    BY <1>1, <1>5, AtAnInstruction DEF Typed, MayBeReturned
  <2> QED
    BY <2>1, <2>2, <2>3
<1>6. ASSUME NEW v \in Values, NEW e \in SUBSET Signs, Ranges(With(v, e)), blk > 0, idx > 0
      PROVE  Typed(range', T)
  <2>1. With(v, e) \in T
    BY <1>5, <1>6, UpdatedType DEF With
  <2> QED
    BY <1>4, <1>6, <2>1
<1>7. ASSUME NEW checked, NEW pushed, RangeBranches(checked, pushed),
             \A p \in pushed : p[2] \in SUBSET Signs /\ p[1] \in DOMAIN Body, blk > 0, idx > 0
      PROVE  Typed(range', T)
  <2> DEFINE out == Filtered(Copied, DOMAIN Copied \ checked)
             new == {<<p[1], Narrowed(RangeIn, checked \cap returned[f0][p[1]][0], p[2])>> :
                       p \in pushed}
  <2>1. out \in T
    BY <1>5, <1>7, FilteredType
  <2>2. \A p \in new : p[2] \in T
    <3>1. ASSUME NEW p \in pushed
          PROVE  Narrowed(RangeIn, checked \cap returned[f0][p[1]][0], p[2]) \in T
      <4>1. returned[f0][p[1]][0] \in SUBSET Values
        BY <1>1, <1>7, AtAnEntry DEF Typed
      <4>2. checked \cap returned[f0][p[1]][0] \in SUBSET Values
        BY <4>1
      <4> QED
        BY <1>5, <1>7, <4>2, NarrowedType
    <3>2. SUFFICES ASSUME NEW q \in new
                   PROVE  q[2] \in T
      OBVIOUS
    <3>3. PICK p \in pushed :
            q = <<p[1], Narrowed(RangeIn, checked \cap returned[f0][p[1]][0], p[2])>>
      OBVIOUS
    <3>4. q[2] = Narrowed(RangeIn, checked \cap returned[f0][p[1]][0], p[2])
      BY <3>3
    <3> QED
      BY <3>1, <3>4
  <2>3. range' = Pushed(range, out, new)
    BY <1>7 DEF RangeBranches
  <2> HIDE DEF out, new
  <2> QED
    BY <1>1, <1>7, <2>1, <2>2, <2>3, PushedType
<1>8. CASE RangeStore
  <2>1. blk > 0 /\ idx > 0 /\ I.op = "store"
    BY <1>8 DEF RangeStore, At
  <2>2. I.args[1] \in Values /\ I.args[2] \in Values
    BY <2>1, AtAnInstruction, Operands
  <2>3. RangeOf(I.args[1]) \in SUBSET Signs
    BY <2>1, <2>2, RangeOfType
  <2> QED
    BY <1>6, <1>8, <2>1, <2>2, <2>3 DEF RangeStore
<1>9. CASE RangeLoad
  <2>1. blk > 0 /\ idx > 0 /\ I.op \in {"load", "bitcast", "ptrtoint", "trunc", "sext"}
    BY <1>9 DEF RangeLoad, At
  <2>2. I.args[1] \in Values /\ I.id \in Values
    BY <2>1, AtAnInstruction, Operands DEF Terminators
  <2>3. RangeOf(I.args[1]) \in SUBSET Signs
    BY <2>1, <2>2, RangeOfType
  <2> QED
    BY <1>6, <1>9, <2>1, <2>2, <2>3 DEF RangeLoad
<1>10. CASE RangePhi
  <2>1. blk > 0 /\ idx > 0 /\ I.op = "phi"
    BY <1>10 DEF RangePhi, At
  <2>2. I.id \in Values
    BY <2>1, AtAnInstruction, Operands DEF Terminators
  <2>3. {RangeOf(I.args[k]) : k \in DOMAIN I.args} \in SUBSET SUBSET Signs
    BY <2>1, AtAnInstruction, RangeOfType
  <2>4. JoinAll({RangeOf(I.args[k]) : k \in DOMAIN I.args}) \in SUBSET Signs
    BY <2>3, JoinAllIsUnion
  <2> QED
    BY <1>6, <1>10, <2>1, <2>2, <2>4 DEF RangePhi
<1>11. CASE RangeBranch
  <2>1. blk > 0 /\ idx > 0 /\ I.op = "br"
    BY <1>11 DEF RangeBranch, At
  <2>2. CASE Len(I.to) = 2 /\ IsA(f0, I.args[1], "icmp")
    <3> DEFINE c == DefinitionOf(f0, I.args[1])
               pushed == {<<I.to[k], AbstractICmp(c)[k]>> : k \in 1..2}
    <3>1. RangeBranches(CheckedByComparison(c), pushed)
      BY <1>11, <2>2 DEF RangeBranch
    <3>2. \A k \in 1..2 : AbstractICmp(c)[k] \in SUBSET Signs
      BY <2>2, ComparisonType
    <3>3. \A k \in 1..2 : I.to[k] \in DOMAIN Body
      <4>1. DOMAIN I.to = 1..2
        <5>1. I.to \in Seq(Nat)
          BY <2>1, AtAnInstruction DEF Instructions
        <5> QED
          BY <2>2, <5>1
      <4> QED
        BY <2>1, <4>1, AtAnInstruction DEF IsInstructionOf
    <3>4. \A p \in pushed : p[2] \in SUBSET Signs /\ p[1] \in DOMAIN Body
      BY <3>2, <3>3
    <3> HIDE DEF c, pushed
    <3> QED
      BY <1>7, <2>1, <3>1, <3>4
  <2>3. CASE ~(Len(I.to) = 2 /\ IsA(f0, I.args[1], "icmp"))
    BY <1>4, <1>5, <1>11, <2>1, <2>3 DEF RangeBranch
  <2> QED
    BY <2>2, <2>3
<1>12. CASE RangeSwitch
  <2>1. blk > 0 /\ idx > 0 /\ I.op = "switch"
    BY <1>12 DEF RangeSwitch, At
  <2> DEFINE checked == GetCheckedReturnValue(<<blk, idx>>, I.args[1])
             pushed ==
               {<<I.to[k + 1], {SignOf(Literals[I.cases[k]].n)}>> : k \in DOMAIN I.cases}
                 \union {<<I.to[1], Signs>> : v \in checked \cap DOMAIN RangeIn}
  <2>2. RangeBranches(checked, pushed)
    BY <1>12 DEF RangeSwitch
  <2>3. \A k \in DOMAIN I.cases : SignOf(Literals[I.cases[k]].n) \in Signs
    BY <2>1, CasesType
  <2>4. /\ \A k \in DOMAIN I.cases : I.to[k + 1] \in DOMAIN Body
        /\ I.to[1] \in DOMAIN Body
    <3>1. /\ DOMAIN I.to = 1..(Len(I.cases) + 1) /\ DOMAIN I.cases = 1..Len(I.cases)
          /\ Len(I.cases) \in Nat
      BY <2>1, AtAnInstruction, Operands
    <3>2. \A j \in DOMAIN I.to : I.to[j] \in DOMAIN Body
      BY <2>1, AtAnInstruction DEF IsInstructionOf
    <3>3. 1 \in DOMAIN I.to /\ \A k \in DOMAIN I.cases : k + 1 \in DOMAIN I.to
      BY <3>1
    <3> QED
      BY <3>2, <3>3
  <2>5. \A p \in pushed : p[2] \in SUBSET Signs /\ p[1] \in DOMAIN Body
    BY <2>3, <2>4
  <2> HIDE DEF checked, pushed
  <2> QED
    BY <1>7, <2>1, <2>2, <2>5
<1>13. CASE RangeRet
  BY <1>2, <1>13 DEF RangeRet
<1>14. CASE RangeOther
  <2>1. blk > 0 /\ idx > 0
    BY <1>14 DEF RangeOther, Others
  <2> QED
    BY <1>4, <1>5, <1>14, <2>1 DEF RangeOther
<1> QED
  BY <1>2, <1>3, <1>8, <1>9, <1>10, <1>11, <1>12, <1>13, <1>14, OfOnePass DEF OfRange

\* A return instruction of a function that returns something has an operand.
LEMMA ReturnsSomething ==
  ASSUME WalkOK, blk > 0, idx > 0, I.op = "ret", f0 \notin program.void
  PROVE  I.args[1] \in Values /\ I.args # <<>>
<1>1. I = program.body[f0][blk][idx] /\ f0 \in DOMAIN program.body
      /\ blk \in DOMAIN program.body[f0] /\ idx \in DOMAIN program.body[f0][blk]
  BY AtAnInstruction, BodyType DEF I, WalkOK
<1>2. IsProgram(program)
  BY DataFlowProgramsAssumption DEF WalkOK
<1>3. I.args # <<>>
  BY <1>1, <1>2 DEF IsProgram
<1> QED
  BY <1>3, AtAnInstruction, Operands

LEMMA StoredRangesTyped ==
  ASSUME WalkOK, TypedFactsOK, AnalysisNext
  PROVE  StoredRangesOK'
<1>1. program' = program
  BY Moves
<1>2. pass' = "range" /\ blk' > 0 => f0' \notin program.void
  <2>1. CASE NextFunction
    <3>1. PICK p, c, n : GoTo(p, c, n)
      BY <2>1 DEF NextFunction
    <3>2. f0' = program.members[c][n] /\ pass' = p
          /\ (p = "range" /\ program.members[c][n] \in program.void => blk' = 0)
      BY <1>1, <3>1 DEF GoTo, f0, Members
    <3> QED
      BY <3>2
  <2>2. CASE blk > 0 /\ (Entered \/ \E d \in BOOLEAN : Step(d))
    <3>1. pass' = pass /\ scc' = scc /\ fn' = fn
      BY <2>2 DEF Entered, Step
    <3>2. f0' = f0
      BY <1>1, <3>1 DEF f0, Members
    <3> QED
      BY <2>2, <3>1, <3>2 DEF TypedFactsOK, StoredRangesOK
  <2> QED
    BY <2>1, <2>2, Moves
<1>3. CASE returnRanges' = returnRanges
  BY <1>1, <1>2, <1>3 DEF TypedFactsOK, StoredRangesOK
<1>4. CASE RangeRet
  <2>1. blk > 0 /\ idx > 0 /\ I.op = "ret" /\ pass = "range"
    BY <1>4 DEF RangeRet, At
  <2>2. f0 \in DOMAIN program.body \ program.void
    BY <2>1, AtAnInstruction DEF TypedFactsOK, StoredRangesOK
  <2> DEFINE value == RangeOf(I.args[1])
             bumped == IF f0 \in program.pointer /\ Intersects(value, NE)
                       THEN Join(value, NE) ELSE value
             e == JoinAll({bumped} \union Stored(f0))
  <2>3. value \in SUBSET Signs
    BY <2>1, <2>2, ReturnsSomething, RangeOfType
  <2>4. bumped \in SUBSET Signs
    <3>1. NE \in SUBSET Signs
      BY DEF NE, Signs
    <3>2. Join(value, NE) = value \union NE
      BY <2>3, <3>1, JoinIsUnion
    <3> QED
      BY <2>3, <3>1, <3>2
  <2>5. e \in SUBSET Signs
    <3>1. {bumped} \union Stored(f0) \in SUBSET SUBSET Signs
      BY <2>4 DEF Stored, TypedFactsOK, StoredRangesOK
    <3> HIDE DEF bumped
    <3> QED
      BY <3>1, JoinAllIsUnion
  <2>6. returnRanges' = Updated(returnRanges, f0, e)
    BY <1>4 DEF RangeRet
  <2> HIDE DEF e
  <2>7. DOMAIN returnRanges' \subseteq DOMAIN program.body \ program.void
    BY <2>2, <2>6 DEF Updated, TypedFactsOK, StoredRangesOK
  <2>8. \A f \in DOMAIN returnRanges' : returnRanges'[f] \in SUBSET Signs
    BY <2>5, <2>6 DEF Updated, TypedFactsOK, StoredRangesOK
  <2> QED
    BY <1>1, <1>2, <2>7, <2>8 DEF StoredRangesOK
<1> QED
  BY <1>3, <1>4, OfOnePass

LEMMA AnalysisKeepsTypes ==
  ASSUME WalkOK, TypedFactsOK, AnalysisNext
  PROVE  TypedFactsOK'
<1>1. program' = program
  BY Moves
<1>2. /\ Typed(returned', SUBSET Values) /\ Typed(constraints', Partial(STRING))
      /\ Typed(range', Partial(Values)) /\ StoredRangesOK'
  BY ReturnedTyped, ConstraintsTyped, RangeTyped, StoredRangesTyped
<1> QED
  BY <1>1, <1>2 DEF TypedFactsOK, Typed, Shaped, LastPoint


-----------------------------------------------------------------------------
(* The values of a run.                                                    *)

\* Numbers are words, those that phis are about to get included.
ValuesOK ==
  /\ DOMAIN env \subseteq Values /\ DOMAIN trail = DOMAIN env
  /\ \A v \in DOMAIN env : env[v] \in Words
  /\ DOMAIN results = DOMAIN program.body
  /\ \A f \in DOMAIN results : results[f] \subseteq Words
  /\ \A a \in arriving : a.number \in Words

LEMMA WordsType ==
  /\ 0 \in Words /\ 1 \in Words /\ Words \subseteq Int
  /\ Half \in Nat /\ Half > 1
  /\ \A n \in Int : n % Half \in Words
  /\ \A n \in Int : ((n + (Half \div 2)) % Half) - (Half \div 2) \in Words
<1>1. Half \in Nat /\ Half > 1
  BY InputsAssumption
<1>2. 0 \in Words /\ 1 \in Words /\ Words \subseteq Int
  BY <1>1 DEF Words
<1>3. \A n \in Int : n % Half \in 0..(Half - 1)
  BY <1>1
<1>4. Half \div 2 \in 0..Half
  BY <1>1
<1>5. \A n \in Int : n % Half \in Words
  BY <1>1, <1>3 DEF Words
<1>6. \A a \in 0..(Half - 1), h \in 0..Half : a - h \in Words
  BY <1>1 DEF Words
<1>7. ASSUME NEW n \in Int
      PROVE  ((n + (Half \div 2)) % Half) - (Half \div 2) \in Words
  <2>1. n + (Half \div 2) \in Int
    BY <1>4
  <2>2. (n + (Half \div 2)) % Half \in 0..(Half - 1)
    BY <1>3, <2>1
  <2> QED
    BY <1>4, <1>6, <2>2
<1> QED
  BY <1>1, <1>2, <1>5, <1>7

\* What an instruction reads is a word.
LEMMA ReadsWords ==
  ASSUME ValuesOK, NEW v, HasNumber(v)
  PROVE  ValueOf(v) \in Words
  BY InputsAssumption DEF ValuesOK, ValueOf, HasNumber

LEMMA DefinesWords ==
  ASSUME ValuesOK, Running, NEW v \in Values, NEW n \in Words, NEW o, NEW t, Define(v, n, o, t),
         Still, results' = results
  PROVE  ValuesOK'
<1>1. program' = program /\ arriving' = arriving
  BY DEF Define, Still
<1>2. /\ DOMAIN env' = DOMAIN env \union {v} /\ DOMAIN trail' = DOMAIN trail \union {v}
      /\ \A u \in DOMAIN env' : env'[u] = IF u = v THEN n ELSE env[u]
  BY DEF Define, Updated
<1> QED
  BY <1>1, <1>2 DEF ValuesOK

\* What arrives at the phis of a block.
LEMMA ArrivingMeans ==
  ASSUME NEW b, NEW a \in Arriving(b)
  PROVE  \E k \in DOMAIN Body[b] :
           /\ Body[b][k].op = "phi"
           /\ \E v \in Incoming(Body[b][k], blk) :
                /\ HasNumber(v)
                /\ a.phi = k /\ a.number = ValueOf(v)
                /\ a.origin = OriginOf(v) /\ a.trail = TrailOf(v)
<1>1. PICK k \in {j \in DOMAIN Body[b] : Body[b][j].op = "phi"} :
        \E v \in {u \in Incoming(Body[b][k], blk) : HasNumber(u)} :
          a = [phi |-> k, number |-> ValueOf(v), origin |-> OriginOf(v), trail |-> TrailOf(v)]
  BY DEF Arriving
<1> QED
  BY <1>1

LEMMA JumpsWords ==
  ASSUME ValuesOK, NEW b, Jump(b), Still, results' = results
  PROVE  ValuesOK'
<1>1. /\ program' = program /\ arriving' = Arriving(b) /\ env' = env
      /\ DOMAIN trail' = DOMAIN trail
  BY DEF Jump, Still
<1>2. ASSUME NEW a \in Arriving(b)
      PROVE  a.number \in Words
  <2>1. PICK v : HasNumber(v) /\ a.number = ValueOf(v)
    BY <1>2, ArrivingMeans
  <2> QED
    BY <2>1, ReadsWords
<1> QED
  BY <1>1, <1>2 DEF ValuesOK

\* What is written keeps the numbers words, wherever it came from.
LEMMA WritesWords ==
  ASSUME WalkOK, ValuesOK, ExecStoreThrough \/ WriteExposed
  PROVE  ValuesOK'
<1>1. program' = program /\ arriving' = arriving /\ results' = results
  BY DEF ExecStoreThrough, WriteExposed, Still
<1>2. CASE ExecStoreThrough
  BY <1>1, <1>2 DEF ExecStoreThrough, ValuesOK
<1>3. CASE WriteExposed
  <2>1. PICK v \in Values, n \in Inputs :
          env' = Updated(env, v, n) /\ trail' = Updated(trail, v, {})
    BY <1>3 DEF WriteExposed, Exposed
  <2>2. n \in Words
    BY InputsAssumption
  <2> QED
    BY <1>1, <2>1, <2>2 DEF ValuesOK, Updated
<1> QED
  BY <1>2, <1>3

\* The actions of a run keep its numbers words.
LEMMA RunKeepsWords ==
  ASSUME WalkOK, RunOK, ValuesOK,
         \/ ExecAlloca \/ ExecCall \/ ExecStore \/ ExecLoad \/ ExecLoadThrough \/ ExecCast
         \/ ExecTrunc \/ ExecZext \/ ExecBinop \/ ExecGep \/ ExecIcmp \/ ExecPhi
  PROVE  ValuesOK'
<1>1. Running /\ blk > 0 /\ idx > 0 /\ Unset = {}
  BY DEF ExecAlloca, ExecCall, ExecStore, ExecLoad, ExecLoadThrough, ExecCast, ExecTrunc,
         ExecZext, ExecBinop, ExecGep, ExecIcmp, ExecPhi, Executes, Running, WalkOK
<1>2. I \in Instructions /\ IsInstructionOf(Body, I) /\ \A k \in DOMAIN I.args : I.args[k] \in Values
  BY <1>1, AtAnInstruction
<1>3. I.op # "phi" => \A k \in DOMAIN I.args : ValueOf(I.args[k]) \in Words
  BY <1>1, ReadsWords DEF Unset
<1>4. CASE ExecAlloca
  <2>1. /\ program' = program /\ arriving' = arriving /\ env' = env /\ results' = results
        /\ DOMAIN trail' = DOMAIN trail
    BY <1>4 DEF ExecAlloca, Still
  <2> QED
    BY <2>1 DEF ValuesOK
<1>5. CASE ExecCall
  <2>1. I.op = "call" /\ Still /\ results' = results
    BY <1>5 DEF ExecCall, Executes
  <2>2. I.id \in Values /\ (I.tag \in err_functions => 1 \in DOMAIN I.args)
    BY <1>2, <2>1, Operands DEF Terminators
  <2>3. PICK n \in IF I.tag \in program.void THEN {0}
                   ELSE IF I.tag \in DOMAIN program.body THEN results[I.tag]
                   ELSE IF I.tag \in err_functions \ {"IS_ERR"} THEN {ValueOf(I.args[1])}
                   ELSE IF I.tag = "IS_ERR" THEN {0, 1} ELSE Inputs :
          Define(I.id, n, {I.id},
                 IF I.tag \in err_functions \ {"IS_ERR"} THEN TrailOf(I.args[1]) ELSE {})
    BY <1>5 DEF ExecCall
  <2>4. n \in Words
    <3>1. I.tag \in err_functions => ValueOf(I.args[1]) \in Words
      BY <1>3, <2>1, <2>2
    <3>2. I.tag \in DOMAIN program.body => results[I.tag] \subseteq Words
      BY DEF ValuesOK
    <3> QED
      BY <2>3, <3>1, <3>2, WordsType, InputsAssumption
  <2> QED
    BY <1>1, <2>1, <2>2, <2>3, <2>4, DefinesWords
<1>6. CASE ExecStore
  <2>1. I.op = "store" /\ Still /\ results' = results
    BY <1>6 DEF ExecStore, Executes
  <2>2. I.args[1] \in Values /\ I.args[2] \in Values
    BY <1>2, <2>1, Operands
  <2>3. ValueOf(I.args[1]) \in Words
    BY <1>2, <1>3, <2>1, Operands
  <2>4. \E o, t : Define(I.args[2], ValueOf(I.args[1]), o, t)
    BY <1>6 DEF ExecStore
  <2> QED
    BY <1>1, <2>1, <2>2, <2>3, <2>4, DefinesWords
<1>7. ASSUME I.op \in {"load", "bitcast", "ptrtoint", "sext", "trunc", "zext", "binop", "gep",
                       "icmp"}
      PROVE  /\ I.id \in Values /\ 1 \in DOMAIN I.args /\ ValueOf(I.args[1]) \in Words
             /\ I.op = "icmp" => ValueOf(I.args[2]) \in Words
  <2>1. 1 \in DOMAIN I.args /\ (I.op = "icmp" => 2 \in DOMAIN I.args)
    BY <1>2, <1>7, Operands
  <2>2. I.id \in Values
    BY <1>2, <1>7, Operands DEF Terminators
  <2> QED
    BY <1>3, <1>7, <2>1, <2>2
<1>8. CASE ExecLoad
  <2>1. I.op = "load" /\ Variable(I.args[1]) /\ Still /\ results' = results
    BY <1>8 DEF ExecLoad, Executes
  <2>2. \E o, t : Define(I.id, env[I.args[1]], o, t)
    BY <1>8 DEF ExecLoad
  <2>3. I.args[1] \in DOMAIN env
    BY <1>8, <2>1, LoadsFrom DEF ExecLoad
  <2>4. env[I.args[1]] \in Words
    BY <2>3 DEF ValuesOK
  <2> QED
    BY <1>1, <1>7, <2>1, <2>2, <2>4, DefinesWords
<1>14. CASE ExecLoadThrough \/ ExecGep \/ ExecBinop
  <2>1. I.op \in {"load", "gep", "binop"} /\ Still /\ results' = results
    BY <1>14 DEF ExecLoadThrough, ExecGep, ExecBinop, Executes
  <2>2. PICK n \in Inputs : \E o, t : Define(I.id, n, o, t)
    BY <1>14 DEF ExecLoadThrough, ExecGep, ExecBinop
  <2>3. n \in Words
    BY InputsAssumption
  <2> QED
    BY <1>1, <1>7, <2>1, <2>2, <2>3, DefinesWords
<1>15. CASE ExecCast
  <2>1. I.op \in {"bitcast", "ptrtoint", "sext"} /\ Still /\ results' = results
    BY <1>15 DEF ExecCast, Executes
  <2>2. \E o, t : Define(I.id, ValueOf(I.args[1]), o, t)
    BY <1>15 DEF ExecCast
  <2> QED
    BY <1>1, <1>7, <2>1, <2>2, DefinesWords
<1>9. CASE ExecTrunc
  <2> DEFINE cut == ((ValueOf(I.args[1]) + (Half \div 2)) % Half) - (Half \div 2)
  <2>1. I.op = "trunc" /\ Still /\ results' = results
    BY <1>9 DEF ExecTrunc, Executes
  <2>2. \E o, t : Define(I.id, cut, o, t)
    BY <1>9 DEF ExecTrunc
  <2>3. cut \in Words
    BY <1>7, <2>1, WordsType
  <2> HIDE DEF cut
  <2> QED
    BY <1>1, <1>7, <2>1, <2>2, <2>3, DefinesWords
<1>10. CASE ExecZext
  <2>1. I.op = "zext" /\ Still /\ results' = results
    BY <1>10 DEF ExecZext, Executes
  <2>2. \E o, t : Define(I.id, ValueOf(I.args[1]) % Half, o, t)
    BY <1>10 DEF ExecZext
  <2>3. ValueOf(I.args[1]) % Half \in Words
    BY <1>7, <2>1, WordsType
  <2> QED
    BY <1>1, <1>7, <2>1, <2>2, <2>3, DefinesWords
<1>12. CASE ExecIcmp
  <2>1. I.op = "icmp" /\ Still /\ results' = results
    BY <1>12 DEF ExecIcmp, Executes
  <2>2. PICK n \in {0, 1} : \E o, t : Define(I.id, n, o, t)
    BY <1>12 DEF ExecIcmp
  <2>3. n \in Words
    BY WordsType
  <2> QED
    BY <1>1, <1>7, <2>1, <2>2, <2>3, DefinesWords
<1>13. CASE ExecPhi
  <2>1. I.op = "phi" /\ Still /\ results' = results
    BY <1>13 DEF ExecPhi, Executes
  <2>2. PICK a \in arriving : Define(I.id, a.number, a.origin, a.trail)
    BY <1>13 DEF ExecPhi
  <2>3. I.id \in Values /\ a.number \in Words
    BY <1>2, <2>1, Operands DEF Terminators, ValuesOK
  <2> QED
    BY <1>1, <2>1, <2>2, <2>3, DefinesWords
<1> QED
  BY <1>4, <1>5, <1>6, <1>8, <1>9, <1>10, <1>12, <1>13, <1>14, <1>15

LEMMA RunJumpsWords ==
  ASSUME ValuesOK, ExecBranch \/ ExecSwitch
  PROVE  ValuesOK'
<1>1. Still /\ results' = results /\ \E b : Jump(b)
  BY DEF ExecBranch, ExecSwitch
<1> QED
  BY <1>1, JumpsWords, SMTT(30)

LEMMA StartWords ==
  ASSUME WalkOK, ValuesOK, Start
  PROVE  ValuesOK'
<1>1. PICK c \in DOMAIN program.members : \E n \in DOMAIN program.members[c] :
        LET params == program.params[program.members[c][n]]
        IN blk' = 1 /\ env' \in [params -> Inputs] /\ trail' = [v \in params |-> {<<1, 0, v>>}]
  BY DEF Start
<1>a. PICK n \in DOMAIN program.members[c] :
        LET params == program.params[program.members[c][n]]
        IN blk' = 1 /\ env' \in [params -> Inputs] /\ trail' = [v \in params |-> {<<1, 0, v>>}]
  BY <1>1
<1>2. program.params \in [DOMAIN program.body -> SUBSET (Values \ DOMAIN Literals)]
  BY DataFlowProgramsAssumption DEF WalkOK, IsProgram
<1>3. program.params[program.members[c][n]] \subseteq Values
  BY <1>2, MembersType DEF WalkOK
<1>4. results' = results /\ program' = program /\ arriving' = {}
  BY DEF Start
<1> QED
  BY <1>a, <1>3, <1>4, InputsAssumption, SMTT(30) DEF ValuesOK

LEMMA FinishWords ==
  ASSUME WalkOK, ValuesOK, ExecNoReturn \/ ExecUndefined \/ ExecRet
  PROVE  ValuesOK'
<1>1. /\ program' = program /\ arriving' = {} /\ env' = Empty /\ trail' = Empty
      /\ Running /\ blk > 0 /\ idx > 0
  BY DEF ExecNoReturn, ExecUndefined, ExecRet, Finish, Executes, Running, WalkOK
<1>2. CASE results' = results
  BY <1>1, <1>2 DEF ValuesOK, Empty
<1>3. CASE ExecRet /\ results' # results
  <2>1. I.op = "ret" /\ I.args # <<>> /\ Unset = {}
    BY <1>3 DEF ExecRet, Executes
  <2>2. 1 \in DOMAIN I.args
    BY <1>1, <2>1, AtAnInstruction, Operands
  <2>3. ValueOf(I.args[1]) \in Words
    <3>1. HasNumber(I.args[1])
      BY <2>1, <2>2 DEF Unset
    <3> QED
      BY <1>1, <3>1, ReadsWords
  <2>4. results' = [results EXCEPT ![f0] = results[f0] \union {ValueOf(I.args[1])}]
    BY <1>3 DEF ExecRet
  <2>5. DOMAIN results' = DOMAIN results /\ \A f \in DOMAIN results' : results'[f] \subseteq Words
    BY <2>3, <2>4 DEF ValuesOK
  <2> QED
    BY <1>1, <2>5 DEF ValuesOK, Empty
<1> QED
  BY <1>2, <1>3 DEF ExecNoReturn, ExecUndefined

-----------------------------------------------------------------------------
(* The invariant.                                                          *)

TypesInv == IInv /\ TypedFactsOK /\ ValuesOK

LEMMA InitTypes == Init => TypesInv
<1> SUFFICES ASSUME Init PROVE TypesInv
  OBVIOUS
<1>1. /\ returned = Everywhere({}) /\ constraints = Everywhere(Empty) /\ range = Everywhere(Empty)
      /\ returnRanges = Empty /\ pass = "propagation"
      /\ env = Empty /\ trail = Empty /\ arriving = {} /\ results = [f \in DOMAIN program.body |-> {}]
  BY DEF Init, AnalysisInit
<1>2. DOMAIN Empty = {}
  BY DEF Empty
<1>3. TypedFactsOK
  <2>1. Typed(returned, SUBSET Values)
    BY <1>1, EverywhereTyped
  <2>2. Empty \in Partial(STRING) /\ Empty \in Partial(Values)
    BY EmptyType
  <2>3. Typed(constraints, Partial(STRING)) /\ Typed(range, Partial(Values))
    BY <1>1, <2>2, EverywhereTyped
  <2>4. StoredRangesOK
    BY <1>1, <1>2 DEF StoredRangesOK
  <2> QED
    BY <2>1, <2>3, <2>4 DEF TypedFactsOK
<1>4. ValuesOK
  BY <1>1, <1>2 DEF ValuesOK
<1> QED
  BY <1>3, <1>4, InitIInv DEF TypesInv

\* A run changes no fact.
LEMMA RunsKeepTypes ==
  ASSUME TypedFactsOK, Runs
  PROVE  TypedFactsOK'
<1>1. /\ program' = program /\ returned' = returned /\ constraints' = constraints
      /\ range' = range /\ returnRanges' = returnRanges /\ pass = "done" /\ pass' = pass
  BY RunsAreStill DEF facts
<1> QED
  BY <1>1, SMTT(30) DEF TypedFactsOK, Typed, Shaped, LastPoint, StoredRangesOK

LEMMA NextTypes == TypesInv /\ [Next]_vars => TypesInv'
<1> SUFFICES ASSUME TypesInv, [Next]_vars PROVE TypesInv'
  OBVIOUS
<1>1. IInv /\ WalkOK /\ RunOK /\ TypedFactsOK /\ ValuesOK
  BY DEF TypesInv, IInv
<1>2. IInv'
  BY <1>1, NextIInv
<1>3. CASE Analyse
  <2>1. AnalysisNext /\ UNCHANGED run
    BY <1>3 DEF Analyse
  <2>2. program' = program /\ pass # "done"
    BY <1>1, <2>1, Moves
  <2>3. ValuesOK'
    BY <1>1, <2>1, <2>2 DEF run, ValuesOK
  <2> QED
    BY <1>1, <1>2, <2>1, <2>3, AnalysisKeepsTypes DEF TypesInv
<1>4. CASE Runs
  <2>1. TypedFactsOK'
    BY <1>1, <1>4, RunsKeepTypes
  <2>2. ValuesOK'
    BY <1>1, <1>4, RunKeepsWords, WritesWords, RunJumpsWords, StartWords, FinishWords DEF Runs
  <2> QED
    BY <1>2, <2>1, <2>2 DEF TypesInv
<1>5. CASE UNCHANGED vars
  <2>1. UNCHANGED <<program, facts, walk, run>>
    BY <1>5 DEF vars
  <2>2. TypedFactsOK'
    BY <1>1, <2>1
    DEF facts, walk, TypedFactsOK, Typed, Shaped, LastPoint, StoredRangesOK, f0, Members
  <2>3. ValuesOK'
    BY <1>1, <2>1 DEF run, ValuesOK
  <2> QED
    BY <1>2, <2>2, <2>3 DEF TypesInv
<1> QED
  BY <1>3, <1>4, <1>5 DEF Next, Runs

\* Every step of the passes and of a run keeps the types of facts and numbers.
THEOREM TypesInvariance == Spec => []TypesInv
<1> QED
  BY InitTypes, NextTypes, PTL DEF Spec

\* A fact of a pass is of the pass' kind at every point, ranges are stored of
\* functions that return something, and the values of a run are words: no
\* instruction reads an operand it does not have.
THEOREM TypeCorrectness == Spec => []TypeOK
<1>1. ASSUME TypesInv PROVE TypeOK
  <2>1. WalkOK /\ FactsOK /\ RunOK /\ TypedFactsOK /\ ValuesOK
    BY <1>1 DEF TypesInv, IInv
  <2>2. pass \in DOMAIN Following \union {"done"}
    BY <2>1 DEF WalkOK, Following
  <2>3. ASSUME NEW f \in DOMAIN program.body, NEW b \in DOMAIN program.body[f],
               NEW i \in 0..LastPoint(f, b)
        PROVE  /\ propagation[f][b][i] \subseteq Values \X Values
               /\ returned[f][b][i] \subseteq Values
               /\ \A g \in DOMAIN constraints[f][b][i] :
                    constraints[f][b][i][g] \subseteq Signs
               /\ \A v \in DOMAIN range[f][b][i] :
                    v \in Values /\ range[f][b][i][v] \subseteq Signs
    <3>1. propagation[f][b][i] \subseteq Values \X Values
      <4>1. propagation[f][b][i] \subseteq Holders \X Values
        BY <2>1, <2>3 DEF FactsOK
      <4>2. Holders \X Values \subseteq Values \X Values
        BY DEF Holders
      <4> QED
        BY <4>1, <4>2
    <3>2. /\ returned[f][b][i] \in SUBSET Values
          /\ constraints[f][b][i] \in Partial(STRING) /\ range[f][b][i] \in Partial(Values)
      BY <2>1, <2>3 DEF TypedFactsOK, Typed
    <3>3. \A g \in DOMAIN constraints[f][b][i] : constraints[f][b][i][g] \in SUBSET Signs
      BY <3>2, PartialFunction
    <3>4. /\ DOMAIN range[f][b][i] \subseteq Values
          /\ \A v \in DOMAIN range[f][b][i] : range[f][b][i][v] \in SUBSET Signs
      BY <3>2, PartialFunction
    <3> QED
      BY <3>1, <3>2, <3>3, <3>4
  <2>4. DOMAIN returnRanges \subseteq DOMAIN program.body \ program.void
    BY <2>1 DEF TypedFactsOK, StoredRangesOK
  <2> QED
    BY <2>1, <2>2, <2>3, <2>4 DEF TypeOK, WalkOK, RunOK, ValuesOK
<1> QED
  BY <1>1, TypesInvariance, PTL
=============================================================================
