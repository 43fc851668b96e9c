--------------------------- MODULE ErrorInference ---------------------------
(***************************************************************************)
(* Inference of error specifications (eesi/src/error_blocks_pass.cc).      *)
(*                                                                         *)
(* The pass walks the strongly connected components of the call graph      *)
(* bottom up.  It visits the blocks of each function, joins what they can  *)
(* return on error, and stores the sum as the function's specification; a  *)
(* component with a loop is visited until nothing changes.  A language     *)
(* model is asked about functions without a body before the walk, and      *)
(* about functions still unknown after each component.                     *)
(*                                                                         *)
(* The program under analysis is data: what the data-flow passes say of    *)
(* each block.  One function per source name; a call through a pointer is  *)
(* a call of a function of which nothing is known, and a call of an        *)
(* intrinsic is no call.                                                   *)
(***************************************************************************)
EXTENDS ConfidenceLattice, Integers, Sequences, FiniteSets

CONSTANTS
  Functions,    \* source names
  Programs,     \* programs and requests that may be analysed
  AnswerSigns,  \* sign lattice elements that the language model answers
  MaxAnswers    \* bound: how many functions one of its answers names

\* A value that a block returns: `value` is what the code tables are asked
\* for, `signs` its abstraction.  "const" is a null pointer or a string; a
\* Boolean that a variable holds (`indirect`) is an "int".
Values ==
  [kind : {"int", "bool", "const", "call", "other"}, indirect : BOOLEAN,
   value : {-1, 0, 1}, signs : SUBSET Signs, callee : Functions]

\* One block: its calls, the values it may return, and the map from
\* functions to the constraint on their value in the block, in the order
\* in which the pass iterates over it.
Calls == [callee : Functions, errorOnly : BOOLEAN, returns : SUBSET Values]

Constraints == [callee : Functions, sign : SUBSET Signs]

Blocks == [calls : SUBSET Calls, returned : SUBSET Values, constraints : Seq(Constraints)]

\* Who f calls, in all its blocks.
Callees(p, f) ==
  UNION {{c.callee : c \in p.blocks[f][i].calls} : i \in DOMAIN p.blocks[f]}

Component(p, i) == {p.members[i][k] : k \in DOMAIN p.members[i]}

\* The components of the call graph, callees first.  From each part of a
\* component a call leads to the rest of it, so that its functions reach one
\* another; there is a loop if it has several functions, or one that calls
\* itself.
IsCallGraph(p) ==
  \A i \in DOMAIN p.members :
    LET M == Component(p, i)
        Seen == UNION {Component(p, j) : j \in 1..i}
    IN /\ \A f \in M : Callees(p, f) \subseteq Seen
       /\ \A S \in (SUBSET M) \ {{}, M} : \E f \in S : Callees(p, f) \intersect (M \ S) # {}
       /\ i \in p.loops <=> Len(p.members[i]) > 1 \/ \E f \in M : f \in Callees(p, f)

\* A block is constrained by functions that are called, and returns what they do.
IsCalled(p) ==
  \A f \in Functions : \A i \in DOMAIN p.blocks[f] :
    LET b == p.blocks[f][i]
    IN /\ \A j \in DOMAIN b.constraints : b.constraints[j].callee \in Callees(p, f)
       /\ \A v \in b.returned : v.kind = "call" => v.callee \in Callees(p, f)

IsProgram(p) ==
  /\ p.initial \in [DOMAIN p.initial -> SUBSET Signs]
  /\ DOMAIN p.initial \subseteq Functions
  /\ p.void \subseteq Functions
  /\ p.range \in [Functions -> SUBSET Signs]
  /\ p.errorOnly \subseteq Functions
  /\ p.errorCodes \subseteq {-1, 0, 1}
  /\ p.successCodes \subseteq {-1, 0, 1}
  /\ p.smart \in BOOLEAN
  /\ p.llm \in BOOLEAN
  /\ p.members \in Seq(Seq(Functions)) \ {<<>>}
  /\ p.loops \subseteq DOMAIN p.members
  /\ p.blocks \in [Functions -> Seq(Blocks)]
  /\ IsCallGraph(p)
  /\ IsCalled(p)

ASSUME FunctionsAssumption == IsFiniteSet(Functions)

ASSUME ProgramsAssumption == \A p \in Programs : IsProgram(p)

ASSUME AnswersAssumption ==
  /\ AnswerSigns \subseteq SUBSET Signs
  /\ MaxAnswers \in Nat

VARIABLES
  program,      \* the program and the request; never changes
  specs,        \* error_specifications_; what is not stored is Unknown
  domainCodes,  \* functions_returning_domain_knowledge_codes_
  pc,           \* where the pass is
  scc,          \* the component it walks
  fn,           \* the function of that component
  changed,      \* `changed` of runOnModule
  blk,          \* the block of that function
  kv,           \* the constraint of that block
  join,         \* join_result of VisitBlock
  sum,          \* blocks_join_result of RunOnFunction
  allEmpty,     \* every block so far returned the empty set
  toExpand      \* functions the language model has yet to be asked about

walk  == <<scc, fn, changed>>
block == <<blk, kv, join, sum, allEmpty>>
vars  == <<program, specs, domainCodes, pc, walk, block, toExpand>>

Members == program.members[scc]
f0 == Members[fn]
Block == program.blocks[f0][blk]

-----------------------------------------------------------------------------
(* Domain knowledge.                                                       *)

InitialSpec(S) ==
  [sign |-> Uniform(S, kMaxConfidence),
   none |-> IF S = {} THEN kMaxConfidence ELSE kMinConfidence]

InitialSpecs(p) ==
  [f \in Functions |->
     IF f \in DOMAIN p.initial THEN InitialSpec(p.initial[f]) ELSE Unknown]

\* Mutant of IgnoreFunction: domain knowledge may be overwritten.
IgnoreVoid(f) == f \in program.void

IgnoreFunction(f) == f \in program.void \/ f \in DOMAIN program.initial

\* 0 is a success code of a function that returns domain knowledge codes.
ShouldSmartDropZero(f, codes) ==
  program.smart /\ 0 \in program.successCodes /\ f \in codes

IsSuccessCode(f, v, codes) ==
  IF program.smart /\ v = 0
  THEN ShouldSmartDropZero(f, codes)
  ELSE v \in program.successCodes

DropZero(f, x, codes) ==
  IF ShouldSmartDropZero(f, codes) THEN Difference(x, {"eq"}) ELSE x

SignOf(v) == IF v < 0 THEN "lt" ELSE IF v > 0 THEN "gt" ELSE "eq"

-----------------------------------------------------------------------------
(* UpdateErrorSpecification.                                               *)

\* Mutant of Shrink: the second half is forgotten.
ShrinkOnce(x, range) ==
  IF Equals(x, range) THEN RemoveLowestNonMin(x) ELSE x

\* A specification that covers the whole return range says nothing.
Shrink(x, range) ==
  IF ~Equals(x, range) THEN x
  ELSE IF Equals(RemoveLowestNonMin(x), range)
  THEN KeepIfMax(RemoveLowestNonMin(x))
  ELSE RemoveLowestNonMin(x)

\* Mutant of Extended: what is known already is replaced.
ExtendedReplaces(f, delta) == Intersection(delta, program.range[f])

\* delta cut to the return range and joined with what is known already.
Extended(f, delta) ==
  LET cut == Intersection(delta, program.range[f])
  IN IF IsUnknown(specs[f]) THEN cut ELSE Join(specs[f], cut)

\* The specification of f once it has been updated with delta.
Updated(f, delta) ==
  LET ext == Extended(f, delta)
      new == Shrink(ext, program.range[f])
  IN IF IgnoreFunction(f) \/ MaxEquals(ext, program.range[f]) \/ IsUnknown(new)
     THEN specs[f]
     ELSE new

-----------------------------------------------------------------------------
(* VisitBlock.                                                             *)

\* AddErrorValue.
ErrorValue(f, v) ==
  IF f \in program.errorOnly THEN NoErrors
  ELSE FromSigns({SignOf(v)}, kMaxConfidence)

\* The signs that an error-only call adds for a value v it may lead to.
ErrorSigns(f, v) ==
  IF v.indirect THEN {}
  ELSE IF v.kind = "bool" THEN v.signs
  ELSE IF f \in program.errorOnly THEN {}
  ELSE IF v.kind = "int" /\ ~IsSuccessCode(f, v.value, domainCodes) THEN {SignOf(v.value)}
  ELSE IF v.kind = "const" /\ v.signs = {"eq"} THEN {"eq"}
  ELSE {}

\* VisitCallInst, joined over the calls of a block of f.
CallSigns(f, calls) ==
  UNION {ErrorSigns(f, v) : v \in UNION {c.returns : c \in {d \in calls : d.errorOnly}}}

CallsJoin(f, calls) ==
  [sign |-> Uniform(CallSigns(f, calls), kMaxConfidence),
   none |-> IF /\ CallSigns(f, calls) = {}
               /\ \A c \in calls : c.errorOnly \/ IsEmptyset(specs[c.callee])
            THEN kMaxConfidence ELSE kMinConfidence]

\* The one value that a block returns, if there is just one.
ReturnedValue(b) == CHOOSE v \in b.returned : TRUE
HasReturnedValue(b) == Cardinality(b.returned) = 1

ReturnsInteger(b) ==
  /\ HasReturnedValue(b)
  /\ ReturnedValue(b).kind \in {"int", "bool"}
  /\ ~ReturnedValue(b).indirect

\* The head of VisitBlock: the calls, then the domain knowledge codes.  The
\* constraints are looked at only if the value is known and no success code.
VisitBlock ==
  LET calls == CallsJoin(f0, Block.calls)
      v == ReturnedValue(Block).value
      error == ReturnsInteger(Block) /\ v \in program.errorCodes
      success == ReturnsInteger(Block) /\ ~error /\ IsSuccessCode(f0, v, domainCodes)
  IN
  /\ pc = "function"
  /\ fn <= Len(Members)
  /\ ~IgnoreFunction(f0)
  /\ blk <= Len(program.blocks[f0])
  /\ pc' = "block"
  /\ join' = IF error THEN Join(ErrorValue(f0, v), calls) ELSE calls
  /\ domainCodes' = IF error \/ success THEN domainCodes \union {f0} ELSE domainCodes
  /\ kv' = IF success \/ ~HasReturnedValue(Block) THEN Len(Block.constraints) + 1 ELSE 1
  /\ UNCHANGED <<program, specs, walk, blk, sum, allEmpty, toExpand>>

\* What a constant contributes under a constraint whose intersection with
\* the specification of the constraining function is x.
ConstantJoin(v, x) ==
  [sign |-> Uniform(v.signs, GetMax(x)), none |-> x.none]

\* What a returned call contributes.  A function that constrains the block
\* itself can only return what the constraint lets through.
CallJoin(v, constraint, x) ==
  IF v.callee = constraint.callee THEN Meet(specs[v.callee], x) ELSE specs[v.callee]

PropagatesCall(v) == v.kind = "call" /\ ~IsUnknown(specs[v.callee])

\* A constant returned as such needs a constraint that says something; one
\* that a variable holds does not, and a string is not looked for there.
PropagatesConstant(v, constraint) ==
  /\ v.kind \in {"int", "bool", "const"}
  /\ IF v.indirect THEN v.kind = "int" \/ v.signs = {"eq"} ELSE constraint.sign # Signs

CodesAfter(v) ==
  IF PropagatesCall(v) /\ v.callee \in domainCodes
  THEN domainCodes \union {f0}
  ELSE domainCodes

Contribution(v, constraint, x) ==
  IF PropagatesCall(v)
  THEN DropZero(f0, CallJoin(v, constraint, x), CodesAfter(v))
  ELSE IF PropagatesConstant(v, constraint)
  THEN IF v.indirect
       THEN DropZero(f0, ConstantJoin(v, x), domainCodes)
       ELSE ConstantJoin(v, x)
  ELSE Unknown

\* One constraint of the block.
VisitConstraint ==
  LET constraint == Block.constraints[kv]
      v == ReturnedValue(Block)
      x == Intersection(specs[constraint.callee], constraint.sign)
      y == Contribution(v, constraint, x)
  IN
  /\ pc = "block"
  /\ kv <= Len(Block.constraints)
  /\ kv' = kv + 1
  /\ \/ /\ IsUnknown(x) \/ IsEmptyset(x)
        /\ join' = Join(x, join)
        /\ UNCHANGED domainCodes
     \/ /\ ~(IsUnknown(x) \/ IsEmptyset(x))
        /\ join' = IF IsUnknown(y) THEN join ELSE Join(y, join)
        /\ domainCodes' = CodesAfter(v)
  /\ UNCHANGED <<program, specs, pc, walk, blk, sum, allEmpty, toExpand>>

\* The block's result is joined with those of the others, unless it is the
\* empty set.
EndBlock ==
  /\ pc = "block"
  /\ kv > Len(Block.constraints)
  /\ pc' = "function"
  /\ blk' = blk + 1
  /\ sum' = IF IsEmptyset(join) THEN sum ELSE Join(join, sum)
  /\ allEmpty' = (allEmpty /\ IsEmptyset(join))
  /\ UNCHANGED <<program, specs, domainCodes, walk, kv, join, toExpand>>

-----------------------------------------------------------------------------
(* RunOnFunction and runOnModule.                                          *)

StartFunction ==
  /\ blk' = 1
  /\ sum' = Unknown
  /\ allEmpty' = TRUE

\* All blocks have been visited: the specification is updated.
UpdateFunction ==
  LET delta == IF allEmpty THEN NoErrors ELSE sum
      new == Updated(f0, DropZero(f0, delta, domainCodes))
  IN
  /\ pc = "function"
  /\ fn <= Len(Members)
  /\ ~IgnoreFunction(f0)
  /\ program.blocks[f0] # <<>>
  /\ blk > Len(program.blocks[f0])
  /\ specs' = [specs EXCEPT ![f0] = new]
  /\ changed' = (changed \/ new # specs[f0])
  /\ fn' = fn + 1
  /\ StartFunction
  /\ UNCHANGED <<program, domainCodes, pc, scc, kv, join, toExpand>>

\* A function to ignore, or one without a body.
SkipFunction ==
  /\ pc = "function"
  /\ fn <= Len(Members)
  /\ IgnoreFunction(f0) \/ program.blocks[f0] = <<>>
  /\ fn' = fn + 1
  /\ UNCHANGED <<program, specs, domainCodes, pc, scc, changed, block, toExpand>>

\* Mutant of MustRepeat: the flag is forgotten.
MustRepeatAlways == scc \in program.loops

\* `while (has_loop && changed)`.
MustRepeat == scc \in program.loops /\ changed

Repeat ==
  /\ pc = "function"
  /\ fn > Len(Members)
  /\ MustRepeat
  /\ fn' = 1
  /\ changed' = FALSE
  /\ UNCHANGED <<program, specs, domainCodes, pc, scc, block, toExpand>>

\* The functions of a component about which nothing is known yet.
Bottom ==
  {f \in Functions :
     /\ \E i \in DOMAIN Members : Members[i] = f
     /\ ~IgnoreFunction(f)
     /\ program.blocks[f] # <<>>
     /\ f \notin domainCodes
     /\ IsUnknown(specs[f])}

Converged ==
  /\ pc = "function"
  /\ fn > Len(Members)
  /\ ~MustRepeat
  /\ pc' = "expand"
  /\ toExpand' = IF program.llm THEN Bottom ELSE {}
  /\ UNCHANGED <<program, specs, domainCodes, walk, block>>

-----------------------------------------------------------------------------
(* The language model.  It may name functions it was not asked about, and  *)
(* a failed call is an empty answer.                                       *)

Answers ==
  UNION {[S -> AnswerSigns] : S \in {T \in SUBSET Functions : Cardinality(T) <= MaxAnswers}}

\* Half the maximum for a function without a body.
kThirdPartyConfidence == 50

\* LlmExpandThirdPartyErrorSpecifications: BOTTOM is skipped.  The question
\* is asked without a model name, too; that completion fails.
ThirdParty ==
  /\ pc = "thirdparty"
  /\ \E answer \in Answers :
       /\ program.llm \/ DOMAIN answer = {}
       /\ specs' = [f \in Functions |->
                      IF f \in DOMAIN answer /\ answer[f] # {}
                      THEN Updated(f, FromSigns(answer[f], kThirdPartyConfidence))
                      ELSE specs[f]]
  /\ pc' = "function"
  /\ UNCHANGED <<program, domainCodes, walk, block, toExpand>>

CalledFunctions(f) == Callees(program, f)

\* average_non_zero_confidence: the confidence looked at last, divided by
\* the number of confidences that are not zero.  The called functions come
\* in the order of a hash table.
LastConfidence(x) ==
  IF x.sign["gt"] > 0 THEN x.sign["gt"]
  ELSE IF x.sign["eq"] > 0 THEN x.sign["eq"]
  ELSE x.sign["lt"]

Divisor(f) ==
  Cardinality({gs \in CalledFunctions(f) \X Signs : gs[2] \in Present(specs[gs[1]])})

Averages(f) ==
  IF Divisor(f) = 0 THEN {0}
  ELSE {LastConfidence(specs[g]) \div Divisor(f) :
          g \in {h \in CalledFunctions(f) : Present(specs[h]) # {}}}

\* BOTTOM stands for the empty set here.
LlmConfidence(S, average) ==
  IF S = {} THEN [Unknown EXCEPT !.none = 50]
  ELSE FromSigns(S, (9 * average) \div 10)

LlmExpand(f) ==
  /\ pc = "expand"
  /\ f \in toExpand
  /\ toExpand' = toExpand \ {f}
  /\ \E answer \in Answers, average \in Averages(f) :
       specs' = [g \in Functions |->
                   IF g \in DOMAIN answer
                   THEN Updated(g, LlmConfidence(answer[g], average))
                   ELSE specs[g]]
  /\ UNCHANGED <<program, domainCodes, pc, walk, block>>

\* Mutant of NextScc: off by one.
NextSccOneMore ==
  /\ pc = "expand"
  /\ toExpand = {}
  /\ scc' = scc + 1
  /\ fn' = 1
  /\ changed' = FALSE
  /\ pc' = IF scc <= Len(program.members) THEN "function" ELSE "done"
  /\ UNCHANGED <<program, specs, domainCodes, block, toExpand>>

NextScc ==
  /\ pc = "expand"
  /\ toExpand = {}
  /\ \/ /\ scc < Len(program.members)
        /\ scc' = scc + 1
        /\ fn' = 1
        /\ changed' = FALSE
        /\ pc' = "function"
     \/ /\ scc = Len(program.members)
        /\ pc' = "done"
        /\ UNCHANGED walk
  /\ UNCHANGED <<program, specs, domainCodes, block, toExpand>>

-----------------------------------------------------------------------------
Init ==
  /\ program \in Programs
  /\ specs = InitialSpecs(program)
  /\ domainCodes = {}
  /\ pc = "thirdparty"
  /\ scc = 1
  /\ fn = 1
  /\ changed = FALSE
  /\ blk = 1
  /\ kv = 1
  /\ join = Unknown
  /\ sum = Unknown
  /\ allEmpty = TRUE
  /\ toExpand = {}

Next ==
  \/ ThirdParty
  \/ VisitBlock
  \/ VisitConstraint
  \/ EndBlock
  \/ UpdateFunction
  \/ SkipFunction
  \/ Repeat
  \/ Converged
  \/ \E f \in Functions : LlmExpand(f)
  \/ NextScc

Spec == Init /\ [][Next]_vars

\* The pass runs on one thread, which nothing stops.
FairSpec == Spec /\ WF_vars(Next)

-----------------------------------------------------------------------------
TypeOK ==
  /\ IsProgram(program)
  /\ specs \in [Functions -> Confidences]
  /\ domainCodes \subseteq Functions
  /\ pc \in {"thirdparty", "function", "block", "expand", "done"}
  /\ scc \in 1..Len(program.members)
  /\ fn \in 1..(Len(Members) + 1)
  /\ changed \in BOOLEAN
  /\ blk \in Nat \ {0}
  /\ kv \in Nat \ {0}
  /\ join \in Confidences
  /\ sum \in Confidences
  /\ allEmpty \in BOOLEAN
  /\ toExpand \subseteq Functions

(* error_blocks_pass.h:254-256, asserted by GetSpecifications when the      *)
(* answer is built: neither the blocks nor the language model, which may   *)
(* name any function, change a specification that the user gave.           *)
InitialSpecsKept ==
  \A f \in DOMAIN program.initial : specs[f] = InitialSpec(program.initial[f])

(* "the delta is less than the return range" (UpdateErrorSpecification):   *)
(* what is inferred of a function is a proper subset of what it can        *)
(* return, whatever the blocks, earlier rounds and the language model put  *)
(* together.                                                               *)
ProperPart(x, range) ==
  Present(x) # {} => Present(x) \subseteq range /\ Present(x) # range

WithinRange ==
  \A f \in Functions \ DOMAIN program.initial : ProperPart(specs[f], program.range[f])

(* A specification never says both that a function returns an error value  *)
(* and that it returns none.                                               *)
Exclusive(x) == Present(x) # {} => x.none = kMinConfidence

EmptysetExclusive == \A f \in Functions : Exclusive(specs[f])

(* What is certain stays: no later block, round or answer removes a sign   *)
(* of confidence 100.                                                      *)
CertainKept ==
  [][\A f \in Functions : Certain(specs[f]) \subseteq Certain(specs'[f])]_vars

(* `changed` is set only by progress (RunOnFunction): without the language *)
(* model, a specification that changes was unknown or gains a sign.  A     *)
(* component is visited again only for that, so it is visited finitely     *)
(* often.                                                                  *)
Progress(x, y) ==
  \/ IsUnknown(x) /\ ~IsUnknown(y)
  \/ Present(x) \subseteq Present(y) /\ Present(x) # Present(y)

ChangesAreProgress ==
  [][~program.llm =>
       /\ \A f \in Functions : specs'[f] # specs[f] => Progress(specs[f], specs'[f])
       /\ changed' /\ ~changed => specs' # specs]_vars

(* "Check to see if block is executed when function `constraint_fname`     *)
(* returns an error" (VisitBlock): a constraint adds signs to a block only *)
(* if one of the constraining function's error values satisfies it.        *)
OnlyErrorsAdd ==
  /\ pc = "block"
  /\ kv \in DOMAIN Block.constraints
  /\ kv' = kv + 1
  /\ Present(specs[Block.constraints[kv].callee]) \intersect Block.constraints[kv].sign = {}
  => Present(join') \subseteq Present(join)

\* VisitBlock: in no step does a constraint that lets no error value through add
\* a sign to what the block may return.
OnlyErrorsPropagate == [][OnlyErrorsAdd]_vars

(* The same of requests that do not ask the language model.                *)
OnlyErrorsPropagateWithoutLlm == [][~program.llm => OnlyErrorsAdd]_vars

(* The comment in ShouldSmartDropZero: if a function returns a domain      *)
(* knowledge status code, 0 is a success return.  It is then not one of    *)
(* the errors in the answer.                                               *)
ZeroIsSuccess ==
  pc = "done" =>
    \A f \in Functions :
      ShouldSmartDropZero(f, domainCodes) /\ ~IgnoreFunction(f) => "eq" \notin Present(specs[f])

(* The pass ends: each component with a loop reaches a fixpoint.           *)
Terminates == <>(pc = "done")

(* The same of requests that do not ask the language model.                *)
TerminatesWithoutLlm == ~program.llm => Terminates
=============================================================================
