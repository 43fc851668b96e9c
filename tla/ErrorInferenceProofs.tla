------------------------ MODULE ErrorInferenceProofs ------------------------
(***************************************************************************)
(* Proofs about ErrorInference, for every program and every answer of the  *)
(* language model.                                                         *)
(***************************************************************************)
EXTENDS ErrorInference, FiniteSetTheorems, TLAPS

-----------------------------------------------------------------------------
(* The operations of ConfidenceLattice stay within Confidences.            *)

LEMMA ConfidenceType ==
  ASSUME NEW x \in Confidences
  PROVE  /\ x.sign \in [Signs -> Levels]
         /\ x.none \in Levels
         /\ x = [sign |-> x.sign, none |-> x.none]
  BY DEF Confidences

LEMMA UniformType ==
  ASSUME NEW S, NEW c \in Levels
  PROVE  Uniform(S, c) \in [Signs -> Levels]
  BY DEF Uniform, Levels, kMinConfidence, kMaxConfidence

LEMMA ConstantsType ==
  /\ Unknown \in Confidences
  /\ NoErrors \in Confidences
  /\ \A S, c : c \in Levels => FromSigns(S, c) \in Confidences
  BY DEF Unknown, NoErrors, FromSigns, Uniform, Confidences, Levels, kMinConfidence,
         kMaxConfidence

LEMMA OperatorsType ==
  ASSUME NEW x \in Confidences, NEW y \in Confidences, NEW S
  PROVE  /\ Join(x, y) \in Confidences
         /\ Meet(x, y) \in Confidences
         /\ Intersection(x, S) \in Confidences
         /\ Difference(x, S) \in Confidences
         /\ KeepIfMax(x) \in Confidences
         /\ RemoveLowestNonMin(x) \in Confidences
         /\ GetMax(x) \in Levels
<1>1. Join(x, y) \in Confidences /\ Meet(x, y) \in Confidences
  BY ConfidenceType DEF Join, Meet, Larger, Smaller, Confidences, Levels
<1>2. Intersection(x, S) \in Confidences
  BY ConfidenceType DEF Intersection, Confidences, Levels, kMinConfidence, kMaxConfidence
<1>3. \A T : Difference(x, T) \in Confidences
  BY ConfidenceType DEF Difference, Confidences, Levels, kMinConfidence, kMaxConfidence
<1>4. KeepIfMax(x) \in Confidences
  BY ConfidenceType
  DEF KeepIfMax, Uniform, Confidences, Levels, kMinConfidence, kMaxConfidence
<1>5. RemoveLowestNonMin(x) \in Confidences
  BY <1>3 DEF RemoveLowestNonMin
<1>6. GetMax(x) \in Levels
  BY ConfidenceType DEF GetMax, Larger, Signs, Levels
<1> QED
  BY <1>1, <1>2, <1>3, <1>4, <1>5, <1>6

-----------------------------------------------------------------------------
(* What they do to the signs that are present, and to those that are       *)
(* certain.                                                                *)

LEMMA CertainIsPresent ==
  ASSUME NEW x \in Confidences
  PROVE  Certain(x) \subseteq Present(x)
  BY DEF Certain, Present, kMinConfidence, kMaxConfidence

LEMMA JoinSigns ==
  ASSUME NEW x \in Confidences, NEW y \in Confidences
  PROVE  /\ Present(Join(x, y)) = Present(x) \union Present(y)
         /\ Certain(x) \subseteq Certain(Join(x, y))
         /\ Exclusive(x) /\ Exclusive(y) => Exclusive(Join(x, y))
         /\ y.none = kMinConfidence => Join(x, y).none = kMinConfidence
<1>1. Present(Join(x, y)) = Present(x) \union Present(y)
  <2>1. \A s \in Signs : Join(x, y).sign[s] > 0 <=> x.sign[s] > 0 \/ y.sign[s] > 0
    BY ConfidenceType DEF Join, Larger, Levels, kMinConfidence
  <2> QED
    BY <2>1 DEF Present, kMinConfidence
<1>2. Certain(x) \subseteq Certain(Join(x, y))
  BY ConfidenceType DEF Join, Certain, Larger, Levels, kMinConfidence, kMaxConfidence
<1>3. /\ x.none = kMinConfidence => Join(x, y).none = kMinConfidence
      /\ y.none = kMinConfidence => Join(x, y).none = kMinConfidence
  BY ConfidenceType DEF Join, Smaller, Levels, kMinConfidence
<1> QED
  BY <1>1, <1>2, <1>3 DEF Exclusive

LEMMA IntersectionSigns ==
  ASSUME NEW x \in Confidences, NEW S
  PROVE  /\ Present(Intersection(x, S)) = Present(x) \intersect S
         /\ Exclusive(x) => Exclusive(Intersection(x, S))
<1>1. Present(Intersection(x, S)) = Present(x) \intersect S
  <2>1. \A s \in Signs : Intersection(x, S).sign[s] > 0 <=> x.sign[s] > 0 /\ s \in S
    BY ConfidenceType DEF Intersection, kMinConfidence
  <2> QED
    BY <2>1 DEF Present, kMinConfidence
<1>2. Intersection(x, S).none = x.none
  BY ConfidenceType DEF Intersection, Confidences
<1> QED
  BY <1>1, <1>2 DEF Exclusive

LEMMA DifferenceSigns ==
  ASSUME NEW x \in Confidences, NEW S
  PROVE  /\ Present(Difference(x, S)) = Present(x) \ S
         /\ Certain(Difference(x, S)) = Certain(x) \ S
         /\ Difference(x, S).none = x.none
         /\ Exclusive(x) => Exclusive(Difference(x, S))
<1>1. Present(Difference(x, S)) = Present(x) \ S
  <2>1. \A s \in Signs : Difference(x, S).sign[s] > 0 <=> x.sign[s] > 0 /\ s \notin S
    BY ConfidenceType DEF Difference, kMinConfidence
  <2> QED
    BY <2>1 DEF Present, kMinConfidence
<1>2. Certain(Difference(x, S)) = Certain(x) \ S
  <2>1. \A s \in Signs : Difference(x, S).sign[s] = 100 <=> x.sign[s] = 100 /\ s \notin S
    BY ConfidenceType DEF Difference, kMinConfidence
  <2> QED
    BY <2>1 DEF Certain, kMaxConfidence
<1>3. Difference(x, S).none = x.none
  BY ConfidenceType DEF Difference, Confidences
<1> QED
  BY <1>1, <1>2, <1>3 DEF Exclusive

LEMMA KeepIfMaxSigns ==
  ASSUME NEW x \in Confidences
  PROVE  /\ Present(KeepIfMax(x)) = Certain(x)
         /\ Certain(KeepIfMax(x)) = Certain(x)
         /\ Exclusive(x) => Exclusive(KeepIfMax(x))
<1>1. Present(KeepIfMax(x)) = Certain(x) /\ Certain(KeepIfMax(x)) = Certain(x)
  <2>1. \A s \in Signs : KeepIfMax(x).sign[s] > 0 <=> x.sign[s] = 100
    BY DEF KeepIfMax, Uniform, Certain, kMinConfidence, kMaxConfidence
  <2>2. \A s \in Signs : KeepIfMax(x).sign[s] = 100 <=> x.sign[s] = 100
    BY DEF KeepIfMax, Uniform, Certain, kMinConfidence, kMaxConfidence
  <2>5. Present(KeepIfMax(x)) = Certain(x)
    BY <2>1 DEF Present, Certain, kMinConfidence, kMaxConfidence
  <2>6. Certain(KeepIfMax(x)) = Certain(x)
    BY <2>2 DEF Certain, kMaxConfidence
  <2> QED
    BY <2>5, <2>6
<1>2. KeepIfMax(x).none = x.none
  BY ConfidenceType DEF KeepIfMax, Confidences
<1> QED
  BY <1>1, <1>2, CertainIsPresent DEF Exclusive

(* A certain sign is among the lowest only if all signs are certain; then  *)
(* nothing is removed.                                                     *)
LEMMA RemoveLowestNonMinSigns ==
  ASSUME NEW x \in Confidences
  PROVE  /\ Present(RemoveLowestNonMin(x)) \subseteq Present(x)
         /\ Certain(RemoveLowestNonMin(x)) = Certain(x)
         /\ Exclusive(x) => Exclusive(RemoveLowestNonMin(x))
<1>1. CASE Lowest(x) = Present(x)
  BY <1>1 DEF RemoveLowestNonMin
<1>2. CASE Lowest(x) # Present(x)
  <2>1. PICK t \in Present(x) : t \notin Lowest(x)
    BY <1>2 DEF Lowest
  <2>2. PICK u \in Present(x) : ~(x.sign[t] <= x.sign[u])
    BY <2>1 DEF Lowest
  <2>3. \A s \in Certain(x) : x.sign[s] > x.sign[u]
    BY <2>1, <2>2, ConfidenceType DEF Certain, Present, Levels, kMinConfidence, kMaxConfidence
  <2>4. Certain(x) \intersect Lowest(x) = {}
    BY <2>2, <2>3, ConfidenceType DEF Lowest, Certain, Present, Levels, kMinConfidence, kMaxConfidence
  <2>5. RemoveLowestNonMin(x) = Difference(x, Lowest(x))
    BY <1>2 DEF RemoveLowestNonMin
  <2>6. Certain(x) \ Lowest(x) = Certain(x)
    BY <2>4
  <2> QED
    BY <2>5, <2>6, DifferenceSigns
<1> QED
  BY <1>1, <1>2

-----------------------------------------------------------------------------
(* UpdateErrorSpecification.                                               *)

LEMMA ShrinkSigns ==
  ASSUME NEW x \in Confidences, NEW range, Exclusive(x),
         Present(x) \subseteq range, ~MaxEquals(x, range)
  PROVE  /\ Shrink(x, range) \in Confidences
         /\ Certain(x) \subseteq Certain(Shrink(x, range))
         /\ ProperPart(Shrink(x, range), range)
         /\ Exclusive(Shrink(x, range))
<1> DEFINE r == RemoveLowestNonMin(x)
<1>r. /\ r \in Confidences
      /\ Present(r) \subseteq Present(x)
      /\ Certain(r) = Certain(x)
      /\ Exclusive(r)
  BY OperatorsType, RemoveLowestNonMinSigns
<1>1. CASE ~Equals(x, range)
  BY <1>1 DEF Shrink, ProperPart, Equals
<1>2. CASE Equals(x, range) /\ Equals(r, range)
  <2>1. Shrink(x, range) = KeepIfMax(r)
    BY <1>2 DEF Shrink
  <2>2. /\ KeepIfMax(r) \in Confidences
        /\ Present(KeepIfMax(r)) = Certain(x)
        /\ Certain(KeepIfMax(r)) = Certain(x)
        /\ Exclusive(KeepIfMax(r))
    BY <1>r, OperatorsType, KeepIfMaxSigns
  <2>3. Certain(x) \subseteq range /\ Certain(x) # range
    BY CertainIsPresent DEF MaxEquals
  <2> QED
    BY <2>1, <2>2, <2>3 DEF ProperPart
<1>3. CASE Equals(x, range) /\ ~Equals(r, range)
  <2>1. Shrink(x, range) = r
    BY <1>3 DEF Shrink
  <2> QED
    BY <1>3, <1>r, <2>1 DEF ProperPart, Equals
<1> QED
  BY <1>1, <1>2, <1>3

(* What an update makes of a specification, whatever it is updated with.   *)
UpdateOK(f, new) ==
  /\ new \in Confidences
  /\ Certain(specs[f]) \subseteq Certain(new)
  /\ Exclusive(new)
  /\ f \in DOMAIN program.initial => new = specs[f]
  /\ f \notin DOMAIN program.initial => ProperPart(new, program.range[f])

LEMMA UpdatedIsOK ==
  ASSUME NEW f \in Functions, NEW delta \in Confidences, Exclusive(delta),
         specs[f] \in Confidences, Exclusive(specs[f]),
         f \notin DOMAIN program.initial => ProperPart(specs[f], program.range[f])
  PROVE  UpdateOK(f, Updated(f, delta))
<1> DEFINE range == program.range[f]
           cut == Intersection(delta, range)
           ext == Extended(f, delta)
<1>1. CASE \/ IgnoreFunction(f)
           \/ MaxEquals(ext, range)
           \/ IsUnknown(Shrink(ext, range))
  <2>1. Updated(f, delta) = specs[f]
    BY <1>1 DEF Updated
  <2> QED
    BY <2>1 DEF UpdateOK
<1>2. CASE /\ ~IgnoreFunction(f)
           /\ ~MaxEquals(ext, range)
           /\ ~IsUnknown(Shrink(ext, range))
  <2>1. Updated(f, delta) = Shrink(ext, range)
    BY <1>2 DEF Updated
  <2>2. f \notin DOMAIN program.initial
    BY <1>2 DEF IgnoreFunction
  <2>3. cut \in Confidences /\ Present(cut) \subseteq range /\ Exclusive(cut)
    BY OperatorsType, IntersectionSigns
  <2>4. CASE IsUnknown(specs[f])
    <3>1. ext = cut
      BY <2>4 DEF Extended
    <3>2. Certain(specs[f]) = {}
      BY <2>4, CertainIsPresent DEF IsUnknown
    <3> HIDE DEF cut, ext, range
    <3> QED
      BY <1>2, <2>1, <2>2, <2>3, <3>1, <3>2, ShrinkSigns DEF UpdateOK, range
  <2>5. CASE ~IsUnknown(specs[f])
    <3>1. ext = Join(specs[f], cut)
      BY <2>5 DEF Extended
    <3>2. Present(specs[f]) \subseteq range
      BY <2>2 DEF ProperPart
    <3>3. /\ ext \in Confidences
          /\ Present(ext) \subseteq range
          /\ Exclusive(ext)
          /\ Certain(specs[f]) \subseteq Certain(ext)
      <4> HIDE DEF cut, range
      <4> QED
        BY <2>3, <3>1, <3>2, OperatorsType, JoinSigns
    <3> HIDE DEF cut, ext, range
    <3>4. /\ Shrink(ext, range) \in Confidences
          /\ Certain(ext) \subseteq Certain(Shrink(ext, range))
          /\ ProperPart(Shrink(ext, range), range)
          /\ Exclusive(Shrink(ext, range))
      BY <1>2, <3>3, ShrinkSigns
    <3> QED
      BY <2>1, <2>2, <3>3, <3>4 DEF UpdateOK, range
  <2> QED
    BY <2>4, <2>5
<1> QED
  BY <1>1, <1>2

-----------------------------------------------------------------------------
(* The inductive invariant: the properties, the position in the walk, and  *)
(* that the sum over the blocks never claims that there are no errors.     *)

Position ==
  pc = "block" =>
    /\ fn <= Len(Members)
    /\ blk <= Len(program.blocks[f0])
    /\ kv <= Len(Block.constraints) => Block.returned # {}

IInv ==
  /\ TypeOK
  /\ Position
  /\ InitialSpecsKept
  /\ WithinRange
  /\ EmptysetExclusive
  /\ sum.none = kMinConfidence

LEMMA FunctionType ==
  ASSUME TypeOK
  PROVE  /\ Members \in Seq(Functions)
         /\ program.blocks \in [Functions -> Seq(Blocks)]
         /\ program.range \in [Functions -> SUBSET Signs]
         /\ fn <= Len(Members) => f0 \in Functions
<1>1. program.members \in Seq(Seq(Functions))
  BY DEF TypeOK, IsProgram
<1>2. Members \in Seq(Functions)
  BY <1>1 DEF TypeOK, Members
<1>3. fn <= Len(Members) => f0 \in Functions
  BY <1>2 DEF TypeOK, f0
<1> QED
  BY <1>2, <1>3 DEF TypeOK, IsProgram

LEMMA BlockType ==
  ASSUME TypeOK, fn <= Len(Members), blk <= Len(program.blocks[f0])
  PROVE  /\ Block \in Blocks
         /\ Block.constraints \in Seq(Constraints)
         /\ Block.returned \subseteq Values
<1>1. program.blocks[f0] \in Seq(Blocks)
  BY FunctionType
<1>2. Block \in Blocks
  BY <1>1 DEF TypeOK, Block
<1> QED
  BY <1>2 DEF Blocks

LEMMA DropZeroType ==
  ASSUME NEW f, NEW codes, NEW x \in Confidences
  PROVE  /\ DropZero(f, x, codes) \in Confidences
         /\ Exclusive(x) => Exclusive(DropZero(f, x, codes))
         /\ DropZero(f, x, codes).none = x.none
  BY OperatorsType, DifferenceSigns DEF DropZero

LEMMA ErrorValueType ==
  ASSUME NEW f, NEW v
  PROVE  ErrorValue(f, v) \in Confidences
  BY ConstantsType DEF ErrorValue, Levels, kMinConfidence, kMaxConfidence

LEMMA CallsJoinType ==
  ASSUME NEW f, NEW calls
  PROVE  CallsJoin(f, calls) \in Confidences
<1>1. Uniform(CallSigns(f, calls), kMaxConfidence) \in [Signs -> Levels]
  BY UniformType DEF Levels, kMinConfidence, kMaxConfidence
<1> QED
  BY <1>1 DEF CallsJoin, Confidences, Levels, kMinConfidence, kMaxConfidence

LEMMA ContributionType ==
  ASSUME TypeOK, NEW v \in Values, NEW constraint \in Constraints, NEW x \in Confidences
  PROVE  Contribution(v, constraint, x) \in Confidences
<1>1. specs[v.callee] \in Confidences
  BY DEF TypeOK, Values
<1>2. CallJoin(v, constraint, x) \in Confidences
  BY <1>1, OperatorsType DEF CallJoin
<1>3. ConstantJoin(v, x) \in Confidences
  <2>1. Uniform(v.signs, GetMax(x)) \in [Signs -> Levels]
    BY OperatorsType, UniformType
  <2> QED
    BY <2>1, ConfidenceType DEF ConstantJoin, Confidences
<1> QED
  BY <1>2, <1>3, DropZeroType, ConstantsType DEF Contribution

LEMMA CodesAfterType ==
  ASSUME TypeOK, fn <= Len(Members), NEW v
  PROVE  CodesAfter(v) \subseteq Functions
  BY FunctionType DEF CodesAfter, TypeOK

-----------------------------------------------------------------------------
(* The language model's confidences.                                       *)

LEMMA CalledFunctionsType ==
  ASSUME TypeOK, NEW f \in Functions
  PROVE  CalledFunctions(f) \subseteq Functions
<1>1. program.blocks[f] \in Seq(Blocks)
  BY FunctionType
<1>2. ASSUME NEW i \in DOMAIN program.blocks[f]
      PROVE  program.blocks[f][i].calls \subseteq Calls
  <2>1. program.blocks[f][i] \in Blocks
    BY <1>1
  <2> QED
    BY <2>1 DEF Blocks
<1> QED
  BY <1>2 DEF CalledFunctions, Callees, Calls

LEMMA AverageType ==
  ASSUME TypeOK, NEW f \in Functions, NEW average \in Averages(f)
  PROVE  average \in Levels
<1>1. CASE Divisor(f) = 0
  BY <1>1 DEF Averages, Levels, kMinConfidence, kMaxConfidence
<1>2. CASE Divisor(f) # 0
  <2>1. Divisor(f) \in Nat
    <3>2. IsFiniteSet(CalledFunctions(f))
      BY CalledFunctionsType, FunctionsAssumption, FS_Subset
    <3>3. IsFiniteSet(Signs)
      <4>1. IsFiniteSet({"lt"} \union {"eq"} \union {"gt"})
        BY FS_Singleton, FS_Union
      <4> QED
        BY <4>1 DEF Signs
    <3>4. IsFiniteSet(CalledFunctions(f) \X Signs)
      BY <3>2, <3>3, FS_Product
    <3>5. IsFiniteSet({gs \in CalledFunctions(f) \X Signs : gs[2] \in Present(specs[gs[1]])})
      BY <3>4, FS_Subset
    <3> QED
      BY <3>5, FS_CardinalityType DEF Divisor
  <2>2. PICK g \in CalledFunctions(f) : average = LastConfidence(specs[g]) \div Divisor(f)
    BY <1>2 DEF Averages
  <2>3. g \in Functions
    BY <2>2, CalledFunctionsType
  <2>4. LastConfidence(specs[g]) \in Levels
    <3>1. specs[g] \in Confidences
      BY <2>3 DEF TypeOK
    <3> QED
      BY <3>1, ConfidenceType DEF LastConfidence, Signs
  <2>5. \A c \in 0..100, d \in Nat \ {0} : c \div d \in 0..100
    OBVIOUS
  <2> QED
    BY <1>2, <2>1, <2>2, <2>4, <2>5 DEF Levels, kMinConfidence, kMaxConfidence
<1> QED
  BY <1>1, <1>2

LEMMA LlmConfidenceType ==
  ASSUME NEW S, NEW average \in Levels
  PROVE  LlmConfidence(S, average) \in Confidences /\ Exclusive(LlmConfidence(S, average))
<1>1. CASE S = {}
  <2>1. LlmConfidence(S, average) = [sign |-> Uniform({}, kMinConfidence), none |-> 50]
    BY <1>1 DEF LlmConfidence, Unknown
  <2> QED
    BY <2>1, UniformType
    DEF Confidences, Exclusive, Present, Uniform, Levels, kMinConfidence, kMaxConfidence
<1>2. CASE S # {}
  <2>1. (9 * average) \div 10 \in Levels
    BY DEF Levels, kMinConfidence, kMaxConfidence
  <2>2. LlmConfidence(S, average) = FromSigns(S, (9 * average) \div 10)
    BY <1>2 DEF LlmConfidence
  <2>3. LlmConfidence(S, average).none = kMinConfidence
    BY <2>2 DEF FromSigns
  <2> QED
    BY <2>1, <2>2, <2>3, ConstantsType DEF Exclusive
<1> QED
  BY <1>1, <1>2

-----------------------------------------------------------------------------
(* What a step does to the specifications.                                 *)

LEMMA InitIInv ==
  Init => IInv
<1> SUFFICES ASSUME Init PROVE IInv
  OBVIOUS
<1>1. IsProgram(program)
  BY ProgramsAssumption DEF Init
<1>2. \A S : InitialSpec(S) \in Confidences /\ Exclusive(InitialSpec(S))
  <2> SUFFICES ASSUME NEW S
               PROVE  InitialSpec(S) \in Confidences /\ Exclusive(InitialSpec(S))
    OBVIOUS
  <2>1. Uniform(S, kMaxConfidence) \in [Signs -> Levels]
    BY UniformType DEF Levels, kMinConfidence, kMaxConfidence
  <2>2. InitialSpec(S) \in Confidences
    BY <2>1 DEF InitialSpec, Confidences, Levels, kMinConfidence, kMaxConfidence
  <2>3. S = {} => Present(InitialSpec(S)) = {}
    BY DEF InitialSpec, Present, Uniform, kMinConfidence
  <2>4. S # {} => InitialSpec(S).none = kMinConfidence
    BY DEF InitialSpec
  <2> QED
    BY <2>2, <2>3, <2>4 DEF Exclusive
<1>3. Present(Unknown) = {}
  BY DEF Unknown, Uniform, Present, kMinConfidence
<1>4. specs \in [Functions -> Confidences]
  BY <1>2, ConstantsType DEF Init, InitialSpecs
<1>5. TypeOK
  <2>1. program.members \in Seq(Seq(Functions)) /\ program.members # <<>>
    BY <1>1 DEF IsProgram
  <2>2. 1 \in 1..Len(program.members)
    BY <2>1
  <2>3. Members \in Seq(Functions)
    BY <2>1, <2>2 DEF Init, Members
  <2>4. fn \in 1..(Len(Members) + 1)
    BY <2>3 DEF Init
  <2>5. scc \in 1..Len(program.members) /\ blk \in Nat \ {0} /\ kv \in Nat \ {0}
    BY <2>2 DEF Init
  <2>6. join \in Confidences /\ sum \in Confidences
    BY ConstantsType DEF Init
  <2>7. domainCodes \subseteq Functions /\ toExpand \subseteq Functions
    BY DEF Init
  <2>8. /\ pc \in {"thirdparty", "function", "block", "expand", "done"}
        /\ changed \in BOOLEAN
        /\ allEmpty \in BOOLEAN
    BY DEF Init
  <2> QED
    BY <1>1, <1>4, <2>4, <2>5, <2>6, <2>7, <2>8 DEF TypeOK
<1>6. InitialSpecsKept
  BY <1>1 DEF Init, InitialSpecs, InitialSpecsKept, IsProgram
<1>7. WithinRange
  BY <1>3 DEF Init, InitialSpecs, WithinRange, ProperPart
<1>8. EmptysetExclusive
  BY <1>2, <1>3 DEF Init, InitialSpecs, EmptysetExclusive, Exclusive
<1>9. Position /\ sum.none = kMinConfidence
  BY DEF Init, Position, Unknown
<1> QED
  BY <1>5, <1>6, <1>7, <1>8, <1>9 DEF IInv

SpecsOK(new) ==
  /\ new \in [Functions -> Confidences]
  /\ \A f \in Functions : UpdateOK(f, new[f])

LEMMA UnchangedIsOK ==
  ASSUME IInv
  PROVE  SpecsOK(specs)
  BY DEF IInv, TypeOK, WithinRange, EmptysetExclusive, SpecsOK, UpdateOK

LEMMA DeltaIsOK ==
  ASSUME IInv, NEW f \in Functions, NEW delta \in Confidences, Exclusive(delta)
  PROVE  UpdateOK(f, Updated(f, delta))
  BY UpdatedIsOK DEF IInv, TypeOK, WithinRange, EmptysetExclusive

LEMMA StepSpecs ==
  ASSUME IInv, [Next]_vars
  PROVE  program' = program /\ SpecsOK(specs')
<1> USE UnchangedIsOK
<1>1. CASE ThirdParty
  <2>1. PICK answer \in Answers :
          specs' = [f \in Functions |->
                      IF f \in DOMAIN answer /\ answer[f] # {}
                      THEN Updated(f, FromSigns(answer[f], kThirdPartyConfidence))
                      ELSE specs[f]]
    BY <1>1 DEF ThirdParty
  <2>2. \A S : /\ FromSigns(S, kThirdPartyConfidence) \in Confidences
               /\ Exclusive(FromSigns(S, kThirdPartyConfidence))
    <3>1. kThirdPartyConfidence \in Levels
      BY DEF kThirdPartyConfidence, Levels, kMinConfidence, kMaxConfidence
    <3> QED
      BY <3>1, ConstantsType DEF FromSigns, Exclusive
  <2>3. \A f \in Functions : UpdateOK(f, specs'[f])
    BY <2>1, <2>2, DeltaIsOK DEF SpecsOK
  <2> QED
    BY <1>1, <2>1, <2>3 DEF ThirdParty, SpecsOK, UpdateOK
<1>2. CASE UpdateFunction
  <2> DEFINE delta == IF allEmpty THEN NoErrors ELSE sum
  <2>1. f0 \in Functions
    BY <1>2, FunctionType DEF IInv, UpdateFunction
  <2>2. delta \in Confidences /\ Exclusive(delta)
    <3>1. Exclusive(NoErrors)
      BY DEF NoErrors, Exclusive, Present, Uniform, kMinConfidence
    <3> QED
      BY <3>1, ConstantsType DEF IInv, TypeOK, Exclusive
  <2> HIDE DEF delta
  <2>3. UpdateOK(f0, Updated(f0, DropZero(f0, delta, domainCodes)))
    BY <2>1, <2>2, DropZeroType, DeltaIsOK
  <2>4. specs' = [specs EXCEPT ![f0] = Updated(f0, DropZero(f0, delta, domainCodes))]
    BY <1>2 DEF UpdateFunction, delta
  <2> QED
    BY <1>2, <2>1, <2>3, <2>4 DEF UpdateFunction, SpecsOK, UpdateOK
<1>3. ASSUME NEW f \in Functions, LlmExpand(f)
      PROVE  program' = program /\ SpecsOK(specs')
  <2>1. PICK answer \in Answers, average \in Averages(f) :
          specs' = [g \in Functions |->
                      IF g \in DOMAIN answer
                      THEN Updated(g, LlmConfidence(answer[g], average))
                      ELSE specs[g]]
    BY <1>3 DEF LlmExpand
  <2>2. average \in Levels
    BY AverageType DEF IInv
  <2>3. \A g \in Functions : UpdateOK(g, specs'[g])
    BY <2>1, <2>2, LlmConfidenceType, DeltaIsOK DEF SpecsOK
  <2> QED
    BY <1>3, <2>1, <2>3 DEF LlmExpand, SpecsOK, UpdateOK
<1>4. CASE VisitBlock \/ VisitConstraint \/ EndBlock \/ SkipFunction
  BY <1>4 DEF VisitBlock, VisitConstraint, EndBlock, SkipFunction
<1>5. CASE Repeat \/ Converged \/ NextScc \/ UNCHANGED vars
  BY <1>5 DEF Repeat, Converged, NextScc, vars
<1> QED
  BY <1>1, <1>2, <1>3, <1>4, <1>5 DEF Next

(* So the properties of the specifications are preserved.                  *)
LEMMA SpecsPreserved ==
  ASSUME IInv, [Next]_vars
  PROVE  /\ InitialSpecsKept'
         /\ WithinRange'
         /\ EmptysetExclusive'
<1>1. program' = program /\ SpecsOK(specs')
  BY StepSpecs
<1>2. DOMAIN program.initial \subseteq Functions
  BY DEF IInv, TypeOK, IsProgram
<1>3. \A f \in DOMAIN program.initial : specs[f] = InitialSpec(program.initial[f])
  BY DEF IInv, InitialSpecsKept
<1>4. InitialSpecsKept'
  BY <1>1, <1>2, <1>3 DEF InitialSpecsKept, SpecsOK, UpdateOK
<1>5. WithinRange'
  BY <1>1 DEF WithinRange, SpecsOK, UpdateOK
<1>6. EmptysetExclusive'
  BY <1>1 DEF EmptysetExclusive, SpecsOK, UpdateOK
<1> QED
  BY <1>4, <1>5, <1>6

-----------------------------------------------------------------------------
(* The other variables.                                                    *)

LEMMA VisitBlockStep ==
  ASSUME IInv, VisitBlock
  PROVE  TypeOK' /\ Position' /\ sum'.none = kMinConfidence
<1> DEFINE calls == CallsJoin(f0, Block.calls)
           value == ReturnedValue(Block).value
<1>1. /\ program' = program /\ scc' = scc /\ fn' = fn /\ blk' = blk
      /\ Members' = Members /\ f0' = f0 /\ Block' = Block
  BY DEF VisitBlock, walk, Members, f0, Block
<1>2. f0 \in Functions /\ Block \in Blocks /\ Block.constraints \in Seq(Constraints)
  BY FunctionType, BlockType DEF IInv, VisitBlock
<1>3. join' \in Confidences
  <2>1. join' \in {calls, Join(ErrorValue(f0, value), calls)}
    BY DEF VisitBlock
  <2>2. calls \in Confidences /\ ErrorValue(f0, value) \in Confidences
    BY CallsJoinType, ErrorValueType
  <2> HIDE DEF calls, value
  <2> QED
    BY <2>1, <2>2, OperatorsType
<1>4. domainCodes' \subseteq Functions
  BY <1>2 DEF VisitBlock, IInv, TypeOK
<1>5. kv' \in Nat \ {0}
  BY <1>2 DEF VisitBlock
<1>6. kv' <= Len(Block.constraints) => Block.returned # {}
  <2>1. kv' <= Len(Block.constraints) => HasReturnedValue(Block)
    BY <1>2 DEF VisitBlock
  <2> QED
    BY <2>1, FS_EmptySet DEF HasReturnedValue
<1>7. TypeOK'
  <2>1. /\ specs' = specs /\ pc' = "block" /\ changed' = changed
        /\ sum' = sum /\ allEmpty' = allEmpty /\ toExpand' = toExpand
    BY DEF VisitBlock, walk
  <2> QED
    BY <1>1, <1>3, <1>4, <1>5, <2>1 DEF IInv, TypeOK
<1>8. Position'
  BY <1>1, <1>6 DEF VisitBlock, Position
<1> QED
  BY <1>7, <1>8, SMTT(30) DEF VisitBlock, IInv

LEMMA VisitConstraintStep ==
  ASSUME IInv, VisitConstraint
  PROVE  TypeOK' /\ Position' /\ sum'.none = kMinConfidence
<1> DEFINE constraint == Block.constraints[kv]
           v == ReturnedValue(Block)
           x == Intersection(specs[constraint.callee], constraint.sign)
           y == Contribution(v, constraint, x)
<1>1. /\ program' = program /\ scc' = scc /\ fn' = fn /\ blk' = blk
      /\ Members' = Members /\ f0' = f0 /\ Block' = Block
  BY ZenonT(60) DEF VisitConstraint, walk, Members, f0, Block
<1>2. fn <= Len(Members) /\ blk <= Len(program.blocks[f0]) /\ Block.returned # {}
  BY DEF VisitConstraint, IInv, Position
<1>3. Block.constraints \in Seq(Constraints) /\ v \in Values
  BY <1>2, BlockType DEF IInv, ReturnedValue
<1>4. constraint \in Constraints
  BY <1>3 DEF VisitConstraint, IInv, TypeOK
<1>5. x \in Confidences
  <2>1. specs[constraint.callee] \in Confidences
    BY <1>4 DEF Constraints, IInv, TypeOK
  <2> QED
    BY <2>1, OperatorsType
<1>6. y \in Confidences
  <2> HIDE DEF v, constraint, x
  <2> QED
    BY <1>3, <1>4, <1>5, ContributionType DEF IInv
<1>7. join' \in Confidences
  <2>1. join' \in {Join(x, join), join, Join(y, join)}
    BY DEF VisitConstraint
  <2> HIDE DEF x, y
  <2> QED
    BY <1>5, <1>6, <2>1, OperatorsType DEF IInv, TypeOK
<1>8. domainCodes' \subseteq Functions
  BY <1>2, CodesAfterType DEF VisitConstraint, IInv, TypeOK
<1>9. TypeOK'
  <2>1. /\ specs' = specs /\ pc' = pc /\ changed' = changed /\ kv' = kv + 1
        /\ sum' = sum /\ allEmpty' = allEmpty /\ toExpand' = toExpand
    BY DEF VisitConstraint, walk
  <2> QED
    BY <1>1, <1>7, <1>8, <2>1 DEF IInv, TypeOK
<1>10. Position'
  BY <1>1, <1>2 DEF Position
<1> QED
  BY <1>9, <1>10, SMTT(30) DEF VisitConstraint, IInv

LEMMA EndBlockStep ==
  ASSUME IInv, EndBlock
  PROVE  TypeOK' /\ Position' /\ sum'.none = kMinConfidence
<1>1. program' = program /\ scc' = scc /\ fn' = fn /\ Members' = Members
  BY DEF EndBlock, walk, Members
<1>2. sum' \in Confidences /\ sum'.none = kMinConfidence
  BY OperatorsType, JoinSigns DEF EndBlock, IInv, TypeOK
<1>3. allEmpty' \in BOOLEAN
  BY DEF EndBlock, IInv, TypeOK
<1>4. TypeOK'
  <2>1. /\ specs' = specs /\ pc' = "function" /\ changed' = changed
        /\ domainCodes' = domainCodes /\ blk' = blk + 1 /\ kv' = kv
        /\ join' = join /\ toExpand' = toExpand
    BY DEF EndBlock, walk
  <2> QED
    BY <1>1, <1>2, <1>3, <2>1 DEF IInv, TypeOK
<1> QED
  BY <1>2, <1>4 DEF EndBlock, Position

LEMMA FunctionStep ==
  ASSUME IInv, UpdateFunction \/ SkipFunction, specs' \in [Functions -> Confidences]
  PROVE  TypeOK' /\ Position' /\ sum'.none = kMinConfidence
<1>1. program' = program /\ scc' = scc /\ Members' = Members /\ pc' = pc /\ pc = "function"
  BY DEF UpdateFunction, SkipFunction, Members
<1>2. fn' \in 1..(Len(Members) + 1)
  <2>1. Len(Members) \in Nat
    BY FunctionType DEF IInv
  <2> QED
    BY <2>1 DEF UpdateFunction, SkipFunction, IInv, TypeOK
<1>3. /\ blk' \in Nat \ {0}
      /\ sum' \in Confidences
      /\ sum'.none = kMinConfidence
      /\ allEmpty' \in BOOLEAN
  <2>1. CASE UpdateFunction
    <3>1. blk' = 1 /\ sum' = Unknown /\ allEmpty' = TRUE
      BY <2>1 DEF UpdateFunction, StartFunction
    <3>2. Unknown.none = kMinConfidence
      BY DEF Unknown
    <3> QED
      BY <3>1, <3>2, ConstantsType
  <2>2. CASE SkipFunction
    BY <2>2 DEF SkipFunction, block, IInv, TypeOK
  <2> QED
    BY <2>1, <2>2
<1>4. changed' \in BOOLEAN
  <2>1. \A n : (changed \/ n # specs[f0]) \in BOOLEAN
    OBVIOUS
  <2> QED
    BY <2>1 DEF UpdateFunction, SkipFunction, IInv, TypeOK
<1>5. kv' = kv /\ join' = join /\ toExpand' = toExpand /\ domainCodes' = domainCodes
  BY DEF UpdateFunction, SkipFunction, block
<1>6. TypeOK'
  BY <1>1, <1>2, <1>3, <1>4, <1>5 DEF IInv, TypeOK
<1> QED
  BY <1>1, <1>3, <1>6 DEF Position

LEMMA ComponentStep ==
  ASSUME IInv, Repeat \/ Converged \/ NextScc
  PROVE  TypeOK' /\ Position' /\ sum'.none = kMinConfidence
<1>1. program.members \in Seq(Seq(Functions))
  BY DEF IInv, TypeOK, IsProgram
<1>2. program' = program /\ specs' = specs /\ domainCodes' = domainCodes
  BY DEF Repeat, Converged, NextScc
<1>3. /\ blk' = blk /\ kv' = kv /\ join' = join /\ sum' = sum /\ allEmpty' = allEmpty
      /\ changed' \in BOOLEAN
      /\ toExpand' \subseteq Functions
      /\ pc' \in {"function", "expand", "done"}
  BY DEF Repeat, Converged, NextScc, block, walk, Bottom, IInv, TypeOK
<1>4. scc' \in 1..Len(program.members)
  BY <1>1 DEF Repeat, Converged, NextScc, walk, IInv, TypeOK
<1>5. fn' \in 1..(Len(Members') + 1)
  <2>1. Members' \in Seq(Functions)
    BY <1>1, <1>2, <1>4 DEF Members
  <2>2. CASE fn' = 1
    BY <2>1, <2>2
  <2>3. CASE fn' = fn /\ scc' = scc
    BY <1>2, <2>3 DEF Members, IInv, TypeOK
  <2> QED
    BY <2>2, <2>3 DEF Repeat, Converged, NextScc, walk
<1>6. TypeOK'
  BY <1>2, <1>3, <1>4, <1>5 DEF IInv, TypeOK
<1> QED
  BY <1>3, <1>6 DEF Position, IInv

LEMMA LlmStep ==
  ASSUME IInv, ThirdParty \/ (\E f \in Functions : LlmExpand(f)),
         specs' \in [Functions -> Confidences]
  PROVE  TypeOK' /\ Position' /\ sum'.none = kMinConfidence
<1>1. /\ program' = program /\ scc' = scc /\ fn' = fn /\ changed' = changed
      /\ Members' = Members /\ domainCodes' = domainCodes
      /\ blk' = blk /\ kv' = kv /\ join' = join /\ sum' = sum /\ allEmpty' = allEmpty
  BY DEF ThirdParty, LlmExpand, walk, block, Members
<1>2. pc' \in {"function", "expand"} /\ toExpand' \subseteq Functions
  BY DEF ThirdParty, LlmExpand, IInv, TypeOK
<1>3. TypeOK'
  BY <1>1, <1>2 DEF IInv, TypeOK
<1> QED
  BY <1>1, <1>2, <1>3 DEF Position, IInv

LEMMA NextIInv ==
  IInv /\ [Next]_vars => IInv'
<1> SUFFICES ASSUME IInv, [Next]_vars PROVE IInv'
  OBVIOUS
<1>1. specs' \in [Functions -> Confidences]
  BY StepSpecs DEF SpecsOK
<1>2. TypeOK' /\ Position' /\ sum'.none = kMinConfidence
  <2>1. CASE UNCHANGED vars
    <3>1. Members' = Members /\ f0' = f0 /\ Block' = Block
      BY <2>1 DEF vars, walk, block, Members, f0, Block
    <3> QED
      BY <2>1, <3>1 DEF vars, walk, block, IInv, TypeOK, Position
  <2>2. CASE Next
    BY <1>1, <2>2, VisitBlockStep, VisitConstraintStep, EndBlockStep, FunctionStep,
       ComponentStep, LlmStep DEF Next
  <2> QED
    BY <2>1, <2>2
<1> QED
  BY <1>2, SpecsPreserved DEF IInv

-----------------------------------------------------------------------------
(* Theorems.                                                               *)

(* The inductive invariant holds in every state of the pass.               *)
THEOREM Invariance ==
  Spec => []IInv
BY InitIInv, NextIInv, PTL DEF Spec

(* Every variable of the pass keeps its type, and the walk never leaves    *)
(* the components, functions and blocks there are.                         *)
THEOREM TypeCorrectness ==
  Spec => []TypeOK
<1>1. IInv => TypeOK
  BY DEF IInv
<1> QED
  BY <1>1, Invariance, PTL

(* Nothing the pass does changes a specification that the user gave.       *)
THEOREM InitialSpecsAreKept ==
  Spec => []InitialSpecsKept
<1>1. IInv => InitialSpecsKept
  BY DEF IInv
<1> QED
  BY <1>1, Invariance, PTL

(* What is inferred of a function is a proper part of its return range,    *)
(* for all programs and all answers of the language model.                 *)
THEOREM SpecsAreWithinRange ==
  Spec => []WithinRange
<1>1. IInv => WithinRange
  BY DEF IInv
<1> QED
  BY <1>1, Invariance, PTL

(* No specification says both "returns this error" and "returns none".     *)
THEOREM EmptysetIsExclusive ==
  Spec => []EmptysetExclusive
<1>1. IInv => EmptysetExclusive
  BY DEF IInv
<1> QED
  BY <1>1, Invariance, PTL

(* A sign of confidence 100 is never lost again.                           *)
THEOREM CertaintyIsKept ==
  Spec => CertainKept
<1>1. IInv /\ [Next]_vars =>
        [\A f \in Functions : Certain(specs[f]) \subseteq Certain(specs'[f])]_vars
  BY StepSpecs DEF SpecsOK, UpdateOK
<1> QED
  BY <1>1, Invariance, PTL DEF Spec, CertainKept

-----------------------------------------------------------------------------
(* A request that does not ask the language model: every confidence is     *)
(* then 0 or 100, specifications only grow, and a constraint lets nothing  *)
(* but errors through.                                                     *)

(* Neither a sign nor the empty set is half believed.                      *)
Binary(x) ==
  /\ x \in Confidences
  /\ \A s \in Signs : x.sign[s] \in {kMinConfidence, kMaxConfidence}
  /\ x.none \in {kMinConfidence, kMaxConfidence}

-----------------------------------------------------------------------------
(* The operations of ConfidenceLattice, and what the pass builds from      *)
(* them, invent no confidence in between.                                  *)

(* The confidences that a binary element is built from.                    *)
LEMMA BinaryConstants ==
  /\ Binary(Unknown)
  /\ Binary(NoErrors)
  /\ \A S : Binary(FromSigns(S, kMaxConfidence))
  /\ \A S : Binary(InitialSpec(S))
  /\ \A f, v : Binary(ErrorValue(f, v))
  /\ \A f, calls : Binary(CallsJoin(f, calls))
<1>1. Binary(Unknown) /\ Binary(NoErrors)
  <2>1. Uniform({}, kMinConfidence) = [s \in Signs |-> kMinConfidence]
    BY DEF Uniform
  <2> QED
    BY <2>1, ConstantsType
    DEF Binary, Unknown, NoErrors, kMinConfidence, kMaxConfidence
<1>2. ASSUME NEW S, NEW n \in {kMinConfidence, kMaxConfidence}
      PROVE  Binary([sign |-> Uniform(S, kMaxConfidence), none |-> n])
  BY DEF Binary, Uniform, Confidences, Levels, kMinConfidence, kMaxConfidence
<1>3. \A S : Binary(FromSigns(S, kMaxConfidence))
  BY <1>2 DEF FromSigns
<1>4. \A S : Binary(InitialSpec(S))
  BY <1>2 DEF InitialSpec
<1>5. \A f, v : Binary(ErrorValue(f, v))
  BY <1>1, <1>3 DEF ErrorValue
<1>6. \A f, calls : Binary(CallsJoin(f, calls))
  BY <1>2 DEF CallsJoin
<1> QED
  BY <1>1, <1>3, <1>4, <1>5, <1>6

(* What is made of binary elements is binary.                              *)
LEMMA BinaryOperators ==
  ASSUME NEW x, NEW y, NEW S, Binary(x), Binary(y)
  PROVE  /\ Binary(Join(x, y))
         /\ Binary(Meet(x, y))
         /\ Binary(Intersection(x, S))
         /\ Binary(Difference(x, S))
         /\ Binary(KeepIfMax(x))
         /\ Binary(RemoveLowestNonMin(x))
         /\ GetMax(x) \in {kMinConfidence, kMaxConfidence}
<1> x \in Confidences /\ y \in Confidences
  BY DEF Binary
<1>1. Binary(Join(x, y)) /\ Binary(Meet(x, y))
  BY OperatorsType DEF Binary, Join, Meet, Larger, Smaller
<1>2. Binary(Intersection(x, S))
  BY OperatorsType DEF Binary, Intersection
<1>3. \A T : Binary(Difference(x, T))
  BY OperatorsType DEF Binary, Difference
<1>4. Binary(KeepIfMax(x))
  BY OperatorsType DEF Binary, KeepIfMax, Uniform
<1>5. Binary(RemoveLowestNonMin(x))
  BY <1>3 DEF RemoveLowestNonMin
<1>6. GetMax(x) \in {kMinConfidence, kMaxConfidence}
  BY DEF Binary, GetMax, Larger, Signs
<1> QED
  BY <1>1, <1>2, <1>3, <1>4, <1>5, <1>6

(* A binary element says something certain of a sign, or nothing.          *)
LEMMA BinaryIsCertain ==
  ASSUME NEW x, Binary(x)
  PROVE  /\ Present(x) = Certain(x)
         /\ Present(x) = {} => IsUnknown(x) \/ IsEmptyset(x)
<1>1. Present(x) = Certain(x)
  BY DEF Binary, Present, Certain, kMinConfidence, kMaxConfidence
<1> QED
  BY <1>1 DEF Binary, IsUnknown, IsEmptyset

LEMMA BinaryUpdate ==
  ASSUME NEW f, NEW delta, Binary(delta), Binary(specs[f])
  PROVE  Binary(Updated(f, delta))
<1>1. Binary(Extended(f, delta))
  BY BinaryOperators DEF Extended
<1>2. \A x : Binary(x) => Binary(Shrink(x, program.range[f]))
  BY BinaryOperators DEF Shrink
<1> QED
  BY <1>1, <1>2 DEF Updated

LEMMA BinaryContribution ==
  ASSUME NEW v, NEW constraint, NEW x, Binary(x), Binary(specs[v.callee])
  PROVE  Binary(Contribution(v, constraint, x))
<1>1. \A f, codes, y : Binary(y) => Binary(DropZero(f, y, codes))
  BY BinaryOperators DEF DropZero
<1>2. Binary(CallJoin(v, constraint, x))
  BY BinaryOperators DEF CallJoin
<1>3. Binary(ConstantJoin(v, x))
  <2>1. GetMax(x) \in {kMinConfidence, kMaxConfidence}
    BY BinaryOperators
  <2> QED
    BY <2>1 DEF Binary, ConstantJoin, Uniform, Confidences, Levels,
                kMinConfidence, kMaxConfidence
<1> QED
  BY <1>1, <1>2, <1>3, BinaryConstants DEF Contribution

-----------------------------------------------------------------------------
(* The invariant of a request without the language model.                  *)

Static ==
  ~program.llm =>
    /\ \A f \in Functions : Binary(specs[f])
    /\ Binary(join)
    /\ Binary(sum)
    /\ toExpand = {}

LEMMA InitStatic == Init => Static
<1> SUFFICES ASSUME Init PROVE Static
  OBVIOUS
<1>1. ASSUME NEW f \in Functions PROVE Binary(specs[f])
  BY BinaryConstants DEF Init, InitialSpecs
<1> QED
  BY <1>1, BinaryConstants DEF Init, Static

(* Neither of the two questions is asked.                                  *)
LEMMA ModelIsSilent ==
  ASSUME IInv, Static, ~program.llm
  PROVE  /\ ThirdParty => specs' = specs
         /\ \A f \in Functions : ~LlmExpand(f)
<1>1. ASSUME ThirdParty PROVE specs' = specs
  <2>1. PICK answer \in Answers :
          /\ DOMAIN answer = {}
          /\ specs' = [f \in Functions |->
                         IF f \in DOMAIN answer /\ answer[f] # {}
                         THEN Updated(f, FromSigns(answer[f], kThirdPartyConfidence))
                         ELSE specs[f]]
    BY <1>1 DEF ThirdParty
  <2> QED
    BY <2>1 DEF IInv, TypeOK
<1>2. \A f \in Functions : ~LlmExpand(f)
  BY DEF Static, LlmExpand
<1> QED
  BY <1>1, <1>2

LEMMA StepStatic == IInv /\ Static /\ [Next]_vars => Static'
<1> SUFFICES ASSUME IInv, Static, [Next]_vars, ~program.llm PROVE Static'
  BY StepSpecs DEF Static
<1>0. /\ \A f \in Functions : Binary(specs[f])
      /\ Binary(join) /\ Binary(sum) /\ toExpand = {}
  BY DEF Static
<1>1. CASE VisitBlock
  <2>1. Binary(join')
    BY <1>1, BinaryConstants, BinaryOperators DEF VisitBlock
  <2> QED
    BY <1>0, <1>1, <2>1 DEF VisitBlock, Static
<1>2. CASE VisitConstraint
  <2> DEFINE constraint == Block.constraints[kv]
             v == ReturnedValue(Block)
             x == Intersection(specs[constraint.callee], constraint.sign)
             y == Contribution(v, constraint, x)
  <2>1. v.callee \in Functions /\ constraint.callee \in Functions
    <3>1. fn <= Len(Members) /\ blk <= Len(program.blocks[f0]) /\ Block.returned # {}
      BY <1>2 DEF VisitConstraint, IInv, Position
    <3>2. Block.constraints \in Seq(Constraints) /\ v \in Values
      BY <3>1, BlockType DEF IInv, ReturnedValue
    <3>3. constraint \in Constraints
      BY <1>2, <3>2 DEF VisitConstraint, IInv, TypeOK
    <3> QED
      BY <3>2, <3>3 DEF Values, Constraints
  <2>2. Binary(x)
    BY <1>0, <2>1, BinaryOperators
  <2>3. Binary(y)
    <3> HIDE DEF v, constraint, x
    <3> QED
      BY <1>0, <2>1, <2>2, BinaryContribution
  <2>4. join' \in {Join(x, join), join, Join(y, join)}
    BY <1>2 DEF VisitConstraint
  <2>5. Binary(join')
    <3> HIDE DEF x, y
    <3> QED
      BY <1>0, <2>2, <2>3, <2>4, BinaryOperators
  <2> QED
    BY <1>0, <1>2, <2>5 DEF VisitConstraint, Static
<1>3. CASE EndBlock
  <2>1. Binary(sum')
    BY <1>0, <1>3, BinaryOperators DEF EndBlock
  <2> QED
    BY <1>0, <1>3, <2>1 DEF EndBlock, Static
<1>4. CASE UpdateFunction
  <2> DEFINE delta == IF allEmpty THEN NoErrors ELSE sum
             new == Updated(f0, DropZero(f0, delta, domainCodes))
  <2>1. f0 \in Functions
    BY <1>4, FunctionType DEF IInv, UpdateFunction
  <2>2. Binary(delta)
    BY <1>0, BinaryConstants
  <2>3. Binary(DropZero(f0, delta, domainCodes))
    <3> HIDE DEF delta
    <3> QED
      BY <2>2, BinaryOperators DEF DropZero
  <2>4. Binary(new)
    <3> HIDE DEF delta
    <3> QED
      BY <1>0, <2>1, <2>3, BinaryUpdate
  <2>5. /\ specs' = [specs EXCEPT ![f0] = new] /\ sum' = Unknown
        /\ join' = join /\ toExpand' = toExpand
    BY <1>4 DEF UpdateFunction, StartFunction
  <2>6. \A f \in Functions : Binary(specs'[f])
    <3> HIDE DEF new
    <3> QED
      BY <1>0, <2>4, <2>5 DEF IInv, TypeOK
  <2> QED
    BY <1>0, <2>5, <2>6, BinaryConstants DEF Static
<1>5. CASE ThirdParty
  BY <1>0, <1>5, ModelIsSilent DEF ThirdParty, block, Static
<1>6. CASE Converged
  BY <1>0, <1>6 DEF Converged, block, Static
<1>7. CASE SkipFunction \/ Repeat \/ NextScc
  BY <1>0, <1>7 DEF SkipFunction, Repeat, NextScc, block, Static
<1>8. CASE UNCHANGED vars
  BY <1>0, <1>8 DEF vars, block, Static
<1> QED
  BY <1>1, <1>2, <1>3, <1>4, <1>5, <1>6, <1>7, <1>8, ModelIsSilent DEF Next

-----------------------------------------------------------------------------
(* Theorems.                                                               *)

(* Without the language model every confidence is 0 or 100.                *)
THEOREM StaticInvariance ==
  Spec => [](IInv /\ Static)
<1>1. Init => IInv /\ Static
  BY InitIInv, InitStatic
<1>2. IInv /\ Static /\ [Next]_vars => IInv' /\ Static'
  BY NextIInv, StepStatic
<1> QED
  BY <1>1, <1>2, PTL DEF Spec

(* Two elements with the same signs of which neither is unknown are equal. *)
LEMMA BinaryDiffers ==
  ASSUME NEW x, NEW y, Binary(x), Binary(y), Exclusive(x), Exclusive(y), x # y,
         Present(x) \subseteq Present(y), ~IsUnknown(y)
  PROVE  Progress(x, y)
<1> SUFFICES ASSUME Present(x) = Present(y), ~IsUnknown(x)
             PROVE  x = y
  BY DEF Progress
<1>1. \A s \in Signs : x.sign[s] = y.sign[s]
  <2>1. \A s \in Signs : x.sign[s] > 0 <=> y.sign[s] > 0
    BY DEF Present, kMinConfidence
  <2> SUFFICES ASSUME NEW s \in Signs PROVE x.sign[s] = y.sign[s]
    OBVIOUS
  <2>2. x.sign[s] \in {0, 100} /\ y.sign[s] \in {0, 100}
    BY DEF Binary, kMinConfidence, kMaxConfidence
  <2>3. CASE x.sign[s] > 0
    BY <2>1, <2>2, <2>3
  <2>4. CASE ~(x.sign[s] > 0)
    BY <2>1, <2>2, <2>4
  <2> QED
    BY <2>3, <2>4
<1>2. x.none = y.none
  <2>1. CASE Present(x) = {}
    BY <2>1 DEF Binary, IsUnknown
  <2>2. CASE Present(x) # {}
    BY <2>2 DEF Exclusive
  <2> QED
    BY <2>1, <2>2
<1>3. x.sign = y.sign
  BY <1>1, ConfidenceType DEF Binary
<1> QED
  BY <1>2, <1>3, ConfidenceType DEF Binary

(* The fixpoint of a component is approached in one direction only: a      *)
(* round that will be repeated has made progress, whatever the order of    *)
(* the functions and blocks.  That it ends then follows from there being   *)
(* four steps at most for each function.                                   *)
THEOREM StaticChangesAreProgress ==
  Spec => ChangesAreProgress
<1>1. ASSUME IInv, IInv', Static, Static', [Next]_vars, ~program.llm
      PROVE  /\ \A f \in Functions :
                  specs'[f] # specs[f] => Progress(specs[f], specs'[f])
             /\ changed' /\ ~changed => specs' # specs
  <2>1. CASE UpdateFunction
    <3> DEFINE delta == IF allEmpty THEN NoErrors ELSE sum
               new == Updated(f0, DropZero(f0, delta, domainCodes))
    <3>1. f0 \in Functions
      BY <1>1, <2>1, FunctionType DEF IInv, UpdateFunction
    <3>2. /\ specs' = [specs EXCEPT ![f0] = new]
          /\ changed' = (changed \/ new # specs[f0])
      BY <2>1 DEF UpdateFunction
    <3>3. new = specs[f0] \/ ~IsUnknown(new)
      BY DEF Updated
    <3> HIDE DEF new
    <3>4. specs'[f0] = new /\ \A f \in Functions \ {f0} : specs'[f] = specs[f]
      BY <1>1, <3>1, <3>2 DEF IInv, TypeOK
    <3>5. specs'[f0] # specs[f0] => Progress(specs[f0], specs'[f0])
      <4>1. program' = program /\ Certain(specs[f0]) \subseteq Certain(specs'[f0])
        BY <1>1, <3>1, StepSpecs DEF SpecsOK, UpdateOK
      <4>2. Binary(specs[f0]) /\ Binary(specs'[f0])
        BY <1>1, <3>1, <4>1 DEF Static
      <4>3. Exclusive(specs[f0]) /\ Exclusive(specs'[f0])
        BY <1>1, <3>1 DEF IInv, EmptysetExclusive
      <4> QED
        BY <3>3, <3>4, <4>1, <4>2, <4>3, BinaryIsCertain, BinaryDiffers
    <3> QED
      BY <3>1, <3>2, <3>4, <3>5
  <2>2. CASE ~UpdateFunction
    <3>1. specs' = specs
      BY <1>1, <2>2, ModelIsSilent
      DEF Next, vars, VisitBlock, VisitConstraint, EndBlock, SkipFunction, Repeat,
          Converged, NextScc
    <3>2. changed' => changed
      BY <1>1, <2>2
      DEF Next, vars, walk, ThirdParty, VisitBlock, VisitConstraint, EndBlock, SkipFunction,
          Repeat, Converged, LlmExpand, NextScc
    <3> QED
      BY <3>1, <3>2
  <2> QED
    BY <2>1, <2>2
<1>2. IInv /\ IInv' /\ Static /\ Static' /\ [Next]_vars =>
        [~program.llm =>
           /\ \A f \in Functions :
                specs'[f] # specs[f] => Progress(specs[f], specs'[f])
           /\ changed' /\ ~changed => specs' # specs]_vars
  BY <1>1
<1> QED
  BY <1>2, StaticInvariance, PTL DEF Spec, ChangesAreProgress

(* VisitConstraint is the only step from one constraint to the next.       *)
LEMMA NextConstraint ==
  ASSUME IInv, [Next]_vars, pc = "block", kv' = kv + 1
  PROVE  VisitConstraint
<1>1. kv' # kv
  BY DEF IInv, TypeOK
<1> QED
  BY <1>1 DEF Next, vars, block, ThirdParty, VisitBlock, EndBlock, UpdateFunction,
              SkipFunction, Repeat, Converged, LlmExpand, NextScc

(* A block gets signs from a constraint only if an error of the            *)
(* constraining function satisfies it, in every program that is analysed   *)
(* without the language model.  With it, a confidence of 50 in the empty   *)
(* set breaks this.                                                        *)
THEOREM OnlyErrorsPropagateStatically ==
  Spec => OnlyErrorsPropagateWithoutLlm
<1> DEFINE callee == Block.constraints[kv].callee
           S == Block.constraints[kv].sign
           x == Intersection(specs[callee], S)
<1>1. IInv /\ Static /\ [Next]_vars => [~program.llm => OnlyErrorsAdd]_vars
  <2> SUFFICES ASSUME IInv, Static, ~program.llm, [Next]_vars,
                      pc = "block", kv \in DOMAIN Block.constraints, kv' = kv + 1,
                      Present(specs[callee]) \intersect S = {}
               PROVE  Present(join') \subseteq Present(join)
    BY DEF OnlyErrorsAdd
  <2>1. VisitConstraint
    BY NextConstraint
  <2>2. callee \in Functions
    <3>1. fn <= Len(Members) /\ blk <= Len(program.blocks[f0])
      BY DEF IInv, Position
    <3>2. Block.constraints \in Seq(Constraints)
      BY <3>1, BlockType DEF IInv
    <3>3. Block.constraints[kv] \in Constraints
      BY <3>2
    <3> QED
      BY <3>3 DEF Constraints
  <2>3. Binary(specs[callee]) /\ Binary(x) /\ Present(x) = {}
    <3>1. Binary(specs[callee])
      BY <2>2 DEF Static
    <3> HIDE DEF callee, S
    <3> QED
      BY <3>1, BinaryOperators, IntersectionSigns DEF Binary
  <2>4. join' = Join(x, join)
    <3>1. IsUnknown(x) \/ IsEmptyset(x)
      <4> HIDE DEF x
      <4> QED
        BY <2>3, BinaryIsCertain
    <3> QED
      BY <2>1, <3>1 DEF VisitConstraint
  <2> HIDE DEF x
  <2> QED
    BY <2>3, <2>4, JoinSigns DEF Binary, IInv, TypeOK
<1> QED
  BY <1>1, StaticInvariance, PTL DEF Spec, OnlyErrorsPropagateWithoutLlm
=============================================================================
