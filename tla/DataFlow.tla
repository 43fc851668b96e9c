------------------------------ MODULE DataFlow ------------------------------
(***************************************************************************)
(* The data-flow passes that run before the inference                      *)
(* (eesi/src/return_propagation_pass.cc, returned_values_pass.cc,          *)
(* return_constraints_pass.cc, return_range_pass.cc).                      *)
(*                                                                         *)
(* A pass keeps a fact at every program point.  The input fact of an       *)
(* instruction is the output fact of the one before it, the same object:   *)
(* fact[f][b][i] is the output of instruction i of block b of f, and       *)
(* fact[f][b][0] the input of the block.  A pass visits the blocks of a    *)
(* function in their order until no fact changes.  One action is one       *)
(* instruction, or the join at the entry of a block.                       *)
(*                                                                         *)
(* The first three passes treat functions independently (in parallel, on   *)
(* disjoint facts): here one after the other.  Return ranges are computed  *)
(* bottom up over the call graph.                                          *)
(***************************************************************************)
EXTENDS SignLattice, Sequences

CONSTANTS
  Values,     \* names of instructions, parameters, variables and constants
  Literals,   \* the constants, addresses of globals included: kind and number
  Programs    \* programs that may be analysed

\* One instruction.  `to` are a terminator's successors (true before false,
\* a switch's default first) or a phi's incoming blocks; `tag` a callee or
\* a predicate; `cases` the constants of a switch.
Instructions ==
  [op : {"alloca", "call", "store", "load", "bitcast", "ptrtoint", "trunc", "sext",
         "zext", "binop", "gep", "phi", "icmp", "br", "switch", "ret"},
   id : Values \union {""}, args : Seq(Values), to : Seq(Nat), tag : STRING,
   cases : Seq(DOMAIN Literals)]

Terminators == {"br", "switch", "ret"}

err_functions == {"ERR_PTR", "IS_ERR", "PTR_ERR", "ERR_CAST"}

IsInteger(v) == v \in DOMAIN Literals /\ Literals[v].kind \in {"int", "bool"}
IsNull(v) == v \in DOMAIN Literals /\ Literals[v].kind = "null"

\* Operands and successors of an instruction are as many as its kind has, no
\* integer is taken for the address of a variable, and the cases of a switch
\* differ.
IsInstructionOf(body, i) ==
  /\ IF i.op \in Terminators \union {"store"} THEN i.id = "" ELSE i.id \in Values \ DOMAIN Literals
  /\ \A j \in DOMAIN i.to : i.to[j] \in DOMAIN body
  /\ CASE i.op = "alloca" -> TRUE
       [] i.op = "call" -> i.tag \in err_functions => i.args # <<>>
       [] i.op = "store" -> Len(i.args) = 2 /\ ~IsInteger(i.args[2])
       [] i.op = "binop" -> Len(i.args) = 2
       [] i.op = "icmp" -> Len(i.args) = 2 /\ i.tag \in Predicates
       [] i.op = "phi" -> i.args # <<>> /\ Len(i.to) = Len(i.args)
       [] i.op = "br" -> Len(i.to) \in 1..2 /\ Len(i.args) = Len(i.to) - 1
       [] i.op = "switch" ->
            /\ Len(i.args) = 1 /\ Len(i.to) = Len(i.cases) + 1
            /\ \A j, k \in DOMAIN i.cases :
                 Literals[i.cases[j]].n = Literals[i.cases[k]].n => j = k
       [] i.op = "ret" -> Len(i.args) \in 0..1
       [] OTHER -> Len(i.args) = 1

\* What LLVM's verifier makes sure of: no function and no block is empty, a
\* block ends with its only terminator, and instructions are well formed.
IsBody(body) ==
  /\ body \in Seq(Seq(Instructions) \ {<<>>}) \ {<<>>}
  /\ \A b \in DOMAIN body : \A k \in DOMAIN body[b] :
       /\ body[b][k].op \in Terminators <=> k = Len(body[b])
       /\ IsInstructionOf(body, body[b][k])

\* A function returns something unless it is void.  The strongly connected
\* components of the call graph partition the functions that have a body.
IsProgram(p) ==
  /\ \A f \in DOMAIN p.body :
       /\ IsBody(p.body[f])
       /\ \A b \in DOMAIN p.body[f] : \A k \in DOMAIN p.body[f][b] :
            p.body[f][b][k].op = "ret" => (p.body[f][b][k].args = <<>> <=> f \in p.void)
  /\ p.params \in [DOMAIN p.body -> SUBSET (Values \ DOMAIN Literals)]
  /\ p.members \in Seq(Seq(DOMAIN p.body) \ {<<>>}) \ {<<>>}
  /\ \A c, d \in DOMAIN p.members : \A m \in DOMAIN p.members[c], n \in DOMAIN p.members[d] :
       p.members[c][m] = p.members[d][n] => c = d /\ m = n
  /\ p.loops \subseteq Nat
  /\ p.void \subseteq DOMAIN p.body
  /\ p.pointer \subseteq DOMAIN p.body

ASSUME LiteralsAssumption ==
  /\ "" \notin Values
  /\ DOMAIN Literals \subseteq Values
  /\ \A c \in DOMAIN Literals :
       /\ Literals[c] \in [kind : {"int", "bool", "null", "string", "global"}, n : Int]
       /\ Literals[c].kind = "null" => Literals[c].n = 0
       /\ Literals[c].kind \in {"string", "global"} => Literals[c].n # 0

ASSUME DataFlowProgramsAssumption == \A p \in Programs : IsProgram(p)

VARIABLES
  program,       \* the program; never changes
  propagation,   \* facts of ReturnPropagationPass: pairs <<value, what it may hold>>
  returned,      \* facts of ReturnedValuesPass: sets of values
  constraints,   \* facts of ReturnConstraintsPass: partial, function name to element
  range,         \* facts of ReturnRangePass: partial, value to element
  returnRanges,  \* return_ranges_: partial, function to element
  pass,          \* the running pass
  scc, fn,       \* the function it is in, by component and place in it
  rangeChanged,  \* `changed` of ReturnRangePass::runOnModule
  original,      \* orig_range: {} or what was stored when the function was entered
  blk, idx,      \* block, and instruction; 0 is the entry of the block
  changed        \* `changed` of RunOnFunction

facts == <<propagation, returned, constraints, range, returnRanges>>
walk  == <<pass, scc, fn, rangeChanged, original, blk, idx, changed>>

Members == program.members[scc]
f0 == Members[fn]
Body == program.body[f0]
I == Body[blk][idx]

Terminator(f, b) == program.body[f][b][Len(program.body[f][b])]

Successors(f, b) == {Terminator(f, b).to[k] : k \in DOMAIN Terminator(f, b).to}

Predecessors(f, b) == {a \in DOMAIN program.body[f] : b \in Successors(f, a)}

\* The operands that phi i has for block b.
Incoming(i, b) == {i.args[k] : k \in {j \in DOMAIN i.args : i.to[j] = b}}

LastPoint(f, b) == Len(program.body[f][b])

Points(f) ==
  UNION {{b} \X (1..LastPoint(f, b)) : b \in DOMAIN program.body[f]}

\* The points of f whose instruction defines v: one, or none for
\* parameters and constants.
Definitions(f, v) == {d \in Points(f) : program.body[f][d[1]][d[2]].id = v}

IsInstruction(f, v) == Definitions(f, v) # {}

PointOf(f, v) == CHOOSE d \in Definitions(f, v) : TRUE

DefinitionOf(f, v) == program.body[f][PointOf(f, v)[1]][PointOf(f, v)[2]]

IsA(f, v, op) == IsInstruction(f, v) /\ DefinitionOf(f, v).op = op

\* The same fact at every point.
Everywhere(fact) ==
  [f \in DOMAIN program.body |->
    [b \in DOMAIN program.body[f] |-> [i \in 0..LastPoint(f, b) |-> fact]]]

Empty == [k \in {} |-> BOTTOM]

\* f, whether or not it has a k yet, with e there.
Updated(f, k, e) == [x \in DOMAIN f \union {k} |-> IF x = k THEN e ELSE f[x]]

-----------------------------------------------------------------------------
(* The walk.                                                               *)

At(p, ops) == pass = p /\ blk > 0 /\ idx > 0 /\ I.op \in ops

Others(p, ops) == pass = p /\ blk > 0 /\ idx > 0 /\ I.op \notin ops

Entering(p) == pass = p /\ blk > 0 /\ idx = 0

\* The join at the entry of the block is done.
Entered ==
  /\ idx' = IF pass = "returned" THEN Len(Body[blk]) ELSE 1
  /\ UNCHANGED <<program, pass, scc, fn, rangeChanged, original, blk, changed>>

\* Mutant of LastOfBlock: forward, one instruction too late.
LastOfBlockLate == idx = IF pass = "returned" THEN 1 ELSE Len(Body[blk]) + 1

LastOfBlock == idx = IF pass = "returned" THEN 1 ELSE Len(Body[blk])

\* The instruction is visited; d says whether that changed its fact.
Step(d) ==
  /\ \/ /\ ~LastOfBlock
        /\ idx' = IF pass = "returned" THEN idx - 1 ELSE idx + 1
        /\ blk' = blk
        /\ changed' = (changed \/ d)
     \/ /\ LastOfBlock /\ blk < Len(Body)
        /\ idx' = 0
        /\ blk' = blk + 1
        /\ changed' = (changed \/ d)
     \/ /\ LastOfBlock /\ blk = Len(Body)
        /\ idx' = 0
        /\ blk' = IF changed \/ d THEN 1 ELSE 0
        /\ changed' = FALSE
  /\ UNCHANGED <<program, pass, scc, fn, rangeChanged, original>>

\* What is stored for f, as a set that is empty where nothing is.
Stored(f) == IF f \in DOMAIN returnRanges THEN {returnRanges[f]} ELSE {}

Following ==
  [propagation |-> "returned", returned |-> "constraints",
   constraints |-> "range", range |-> "done"]

\* Go to function n of component c in pass p.
GoTo(p, c, n) ==
  LET f == program.members[c][n]
  IN /\ pass' = p /\ scc' = c /\ fn' = n
     /\ blk' = IF p = "done" \/ (p = "range" /\ f \in program.void) THEN 0 ELSE 1
     /\ original' = IF p = "range" THEN Stored(f) ELSE {}

\* Mutant of NextFunction: whether a range changed is never forgotten.
NextFunctionSticky ==
  /\ pass # "done" /\ blk = 0
  /\ LET now == rangeChanged \/ (pass = "range" /\ Stored(f0) # original)
     IN \/ /\ fn < Len(Members)
           /\ GoTo(pass, scc, fn + 1)
           /\ rangeChanged' = now
        \/ /\ fn = Len(Members)
           /\ IF pass = "range" /\ scc \in program.loops /\ now
              THEN GoTo(pass, scc, 1)
              ELSE IF scc < Len(program.members)
                   THEN GoTo(pass, scc + 1, 1)
                   ELSE GoTo(Following[pass], 1, 1)
           /\ rangeChanged' = now
  /\ UNCHANGED <<program, facts, idx, changed>>

\* The function is done.  A component with a loop is repeated while the
\* range of one of its functions changes.
NextFunction ==
  /\ pass # "done" /\ blk = 0
  /\ LET now == rangeChanged \/ (pass = "range" /\ Stored(f0) # original)
     IN \/ /\ fn < Len(Members)
           /\ GoTo(pass, scc, fn + 1)
           /\ rangeChanged' = now
        \/ /\ fn = Len(Members)
           /\ IF pass = "range" /\ scc \in program.loops /\ now
              THEN GoTo(pass, scc, 1)
              ELSE IF scc < Len(program.members)
                   THEN GoTo(pass, scc + 1, 1)
                   ELSE GoTo(Following[pass], 1, 1)
           /\ rangeChanged' = FALSE
  /\ UNCHANGED <<program, facts, idx, changed>>

-----------------------------------------------------------------------------
(* ReturnPropagationPass.  A fact is the set of pairs <<v, c>> where v may *)
(* hold what call c returned, or the constant c.                           *)

Held(fact, v) == {h[2] : h \in {g \in fact : g[1] = v}}

Overwritten(fact, v, S) == {h \in fact : h[1] # v} \union ({v} \X S)

\* v takes over what u holds, if anything is known of u.
TakesOver(fact, v, u) ==
  IF Held(fact, u) = {} THEN fact ELSE Overwritten(fact, v, Held(fact, u))

PropagationIn == propagation[f0][blk][idx - 1]
PropagationOut == propagation[f0][blk][idx]

Propagate(fact) ==
  /\ propagation' = [propagation EXCEPT ![f0][blk][idx] = fact]
  /\ Step(fact # PropagationOut)
  /\ UNCHANGED <<returned, constraints, range, returnRanges>>

EnterPropagation ==
  /\ Entering("propagation")
  /\ propagation' =
       [propagation EXCEPT ![f0][blk][0] =
          @ \union UNION {propagation[f0][b][LastPoint(f0, b)] : b \in Predecessors(f0, blk)}]
  /\ Entered
  /\ UNCHANGED <<returned, constraints, range, returnRanges>>

PropagateCall ==
  /\ At("propagation", {"call"})
  /\ Propagate(PropagationIn \union {<<I.id, I.id>>})

PropagateLoad ==
  /\ At("propagation", {"load"})
  /\ Propagate(TakesOver(PropagationIn, I.id, I.args[1]))

\* Mutant of PropagateStore: what is stored is not remembered.
PropagateStoreNothing ==
  /\ At("propagation", {"store"})
  /\ Propagate(PropagationIn)

\* A constant is added to what the variable may hold; what is known of the
\* stored value replaces it.
PropagateStore ==
  /\ At("propagation", {"store"})
  /\ LET sender == I.args[1]
         receiver == I.args[2]
         constant == IF IsInteger(sender) THEN {<<receiver, sender>>} ELSE {}
     IN Propagate(IF Held(PropagationIn, sender) = {}
                  THEN PropagationIn \union constant
                  ELSE Overwritten(PropagationIn, receiver, Held(PropagationIn, sender)))

\* A binary operation passes on what its first operand holds.
PropagateCast ==
  /\ At("propagation", {"bitcast", "ptrtoint", "binop"})
  /\ Propagate(TakesOver(PropagationIn, I.id, I.args[1]))

\* The input fact is not copied: all that is known after a phi is the phi.
PropagatePhi ==
  /\ At("propagation", {"phi"})
  /\ Propagate(PropagationOut \union
       {<<I.id, c>> : c \in UNION {Held(PropagationIn, I.args[k]) : k \in DOMAIN I.args}})

PropagateOther ==
  /\ Others("propagation", {"call", "load", "store", "bitcast", "ptrtoint", "binop", "phi"})
  /\ Propagate(PropagationIn)

-----------------------------------------------------------------------------
(* ReturnedValuesPass: backward; a fact is the set of values that may      *)
(* still be returned.                                                      *)

ReturnedIn == returned[f0][blk][idx - 1]
ReturnedOut == returned[f0][blk][idx]

Return(fact) ==
  /\ returned' = [returned EXCEPT ![f0][blk][idx - 1] = fact]
  /\ Step(fact # ReturnedIn)
  /\ UNCHANGED <<propagation, constraints, range, returnRanges>>

EnterReturned ==
  /\ Entering("returned")
  /\ returned' =
       [returned EXCEPT ![f0][blk][LastPoint(f0, blk)] =
          @ \union UNION {returned[f0][b][0] : b \in Successors(f0, blk)}]
  /\ Entered
  /\ UNCHANGED <<propagation, constraints, range, returnRanges>>

\* If v may be returned, then u may be returned before, and v may not.
ReturnedThrough(v, u) ==
  IF v \in ReturnedOut THEN (ReturnedOut \ {v}) \union {u} ELSE ReturnedOut

ReturnedCall ==
  /\ At("returned", {"call"})
  /\ Return(IF I.tag \in err_functions /\ I.id \in ReturnedOut
            THEN ReturnedOut \union {I.args[1]} ELSE ReturnedOut)

ReturnedRet ==
  /\ At("returned", {"ret"})
  /\ Return(IF I.args = <<>> THEN ReturnedIn ELSE ReturnedOut \union {I.args[1]})

ReturnedStore ==
  /\ At("returned", {"store"})
  /\ Return(ReturnedThrough(I.args[2], I.args[1]))

ReturnedLoad ==
  /\ At("returned", {"load", "bitcast", "ptrtoint", "trunc", "sext"})
  /\ Return(ReturnedThrough(I.id, I.args[1]))

\* Mutant of ReturnedPhi: the operands are not added to their blocks.
ReturnedPhiLocal ==
  /\ At("returned", {"phi"})
  /\ returned' = [returned EXCEPT ![f0][blk][idx - 1] = ReturnedOut \ {I.id}]
  /\ Step(ReturnedOut \ {I.id} # ReturnedIn)
  /\ UNCHANGED <<propagation, constraints, range, returnRanges>>

\* If the phi may be returned, each operand may be at the end of the block
\* that it comes from; that alone does not count as a change.
ReturnedPhi ==
  /\ At("returned", {"phi"})
  /\ returned' =
       [returned EXCEPT ![f0] =
          [b \in DOMAIN Body |->
            [i \in 0..LastPoint(f0, b) |->
               IF b = blk /\ i = idx - 1 THEN ReturnedOut \ {I.id}
               ELSE IF i = LastPoint(f0, b) /\ I.id \in ReturnedOut
               THEN returned[f0][b][i] \union Incoming(I, b)
               ELSE returned[f0][b][i]]]]
  /\ Step(ReturnedOut \ {I.id} # ReturnedIn)
  /\ UNCHANGED <<propagation, constraints, range, returnRanges>>

ReturnedOther ==
  /\ Others("returned", {"call", "ret", "store", "load", "bitcast", "ptrtoint",
                         "trunc", "sext", "phi"})
  /\ Return(ReturnedOut)

-----------------------------------------------------------------------------
(* Comparisons and partial facts.                                          *)

\* AbstractICmp: what comparison c says where it holds and where it fails.
\* The predicate is swapped if the constant is the first operand; if that
\* is a null pointer, twice.
AbstractICmp(c) ==
  LET first == c.args[1]
      second == c.args[2]
      unswapped == SignedPredicate(c.tag)
      predicate == IF IsInteger(second) THEN unswapped ELSE SwappedPredicate(unswapped)
      complement(p, s) ==
        IF c.tag \in Unsigned
        THEN [k \in 1..2 |-> UnsignedReplacement(PredicateComplement[s][p][k])]
        ELSE PredicateComplement[s][p]
  IN CASE IsNull(second) -> complement(predicate, "eq")
       [] IsNull(first) -> complement(SwappedPredicate(predicate), "eq")
       [] IsInteger(second) -> complement(predicate, SignOf(Literals[second].n))
       [] IsInteger(first) -> complement(predicate, SignOf(Literals[first].n))
       [] OTHER -> <<Signs, Signs>>

\* The join of a set of facts; a key that some do not have is copied.
JoinFacts(S) ==
  [k \in UNION {DOMAIN x : x \in S} |->
     JoinAll({x[k] : x \in {y \in S : k \in DOMAIN y}})]

\* Element e of the values in S, met with what `in` says of them.
Narrowed(in, S, e) ==
  [k \in S |-> IF k \in DOMAIN in THEN Meet(e, in[k]) ELSE e]

\* fact with the output of the terminator I set to `out`, and each pair of
\* a block and a fact in `pushed` joined into the block's input.
Pushed(fact, out, pushed) ==
  [fact EXCEPT ![f0] =
     [b \in DOMAIN Body |->
       [i \in 0..LastPoint(f0, b) |->
          IF b = blk /\ i = idx THEN out
          ELSE IF i = 0
          THEN JoinFacts({fact[f0][b][0]} \union {p[2] : p \in {q \in pushed : q[1] = b}})
          ELSE fact[f0][b][i]]]]

-----------------------------------------------------------------------------
(* ReturnConstraintsPass.  A fact maps functions to the element in which   *)
(* what they returned must lie.                                            *)

ConstraintsIn == constraints[f0][blk][idx - 1]
ConstraintsOut == constraints[f0][blk][idx]

Constrain(fact) ==
  /\ constraints' = [constraints EXCEPT ![f0][blk][idx] = fact]
  /\ Step(fact # ConstraintsOut)
  /\ UNCHANGED <<propagation, returned, range, returnRanges>>

EnterConstraints ==
  /\ Entering("constraints")
  /\ constraints' =
       [constraints EXCEPT ![f0][blk][0] =
          JoinFacts({@} \union {constraints[f0][b][LastPoint(f0, b)] : b \in Predecessors(f0, blk)})]
  /\ Entered
  /\ UNCHANGED <<propagation, returned, range, returnRanges>>

ConstrainCall ==
  /\ At("constraints", {"call"})
  /\ Constrain(Updated(ConstraintsIn, I.tag, Signs))

\* The functions whose result v may hold where v is defined.
FunctionsHeld(v) ==
  LET d == PointOf(f0, v)
      held == Held(propagation[f0][d[1]][d[2]], v)
  IN {DefinitionOf(f0, c).tag : c \in {h \in held : IsA(f0, h, "call")}}

\* The tested functions lose their constraint here; the successors in
\* `pushed` are given theirs.
ConstrainBranches(tested, pushed) ==
  LET out == [g \in DOMAIN ConstraintsIn \union tested |->
                IF g \in tested THEN BOTTOM ELSE ConstraintsIn[g]]
  IN /\ constraints' = Pushed(constraints, out,
                         {<<p[1], Narrowed(ConstraintsIn, tested, p[2])>> : p \in pushed})
     /\ Step(out # ConstraintsOut)
     /\ UNCHANGED <<propagation, returned, range, returnRanges>>

\* The operand of comparison c that a branch on it tests, if any.
Tested(c) ==
  IF IsInstruction(f0, c.args[1]) THEN {c.args[1]}
  ELSE IF IsInstruction(f0, c.args[2]) THEN {c.args[2]} ELSE {}

ConstrainBranch ==
  /\ At("constraints", {"br"})
  /\ IF Len(I.to) = 2 /\ IsA(f0, I.args[1], "icmp")
     THEN LET c == DefinitionOf(f0, I.args[1])
          IN ConstrainBranches(UNION {FunctionsHeld(v) : v \in Tested(c)},
               {<<I.to[k], AbstractICmp(c)[k]>> : k \in 1..2})
     ELSE Constrain(ConstraintsIn)

\* The default block is given nothing.
ConstrainSwitch ==
  /\ At("constraints", {"switch"})
  /\ IF IsInstruction(f0, I.args[1]) /\ I.cases # <<>>
     THEN ConstrainBranches(FunctionsHeld(I.args[1]),
            {<<I.to[k + 1], {SignOf(Literals[I.cases[k]].n)}>> : k \in DOMAIN I.cases})
     ELSE Constrain(ConstraintsIn)

ConstrainOther ==
  /\ Others("constraints", {"call", "br", "switch"})
  /\ Constrain(ConstraintsIn)

-----------------------------------------------------------------------------
(* ReturnRangePass.  A fact maps values that may be returned to the        *)
(* element in which they lie.                                              *)

RangeIn == range[f0][blk][idx - 1]
RangeOut == range[f0][blk][idx]
MayBeReturned == returned[f0][blk][idx]

Filtered(fact, S) == [v \in DOMAIN fact \cap S |-> fact[v]]

\* FilteredCopy of the input to the output.
Copied == Filtered(RangeIn, MayBeReturned)

Ranges(fact) ==
  /\ range' = [range EXCEPT ![f0][blk][idx] = fact]
  /\ Step(fact # RangeOut)
  /\ UNCHANGED <<propagation, returned, constraints, returnRanges>>

EnterRange ==
  /\ Entering("range")
  /\ range' =
       [range EXCEPT ![f0][blk][0] =
          JoinFacts({@} \union {Filtered(range[f0][b][LastPoint(f0, b)], returned[f0][blk][0]) :
                                  b \in Predecessors(f0, blk)})]
  /\ Entered
  /\ UNCHANGED <<propagation, returned, constraints, returnRanges>>

\* A defined callee that was not visited yet returns nothing so far.
AbstractCall(g) ==
  IF g \notin DOMAIN program.body THEN Signs
  ELSE IF g \in DOMAIN returnRanges THEN returnRanges[g] ELSE BOTTOM

AbstractValue(v) ==
  IF v \in DOMAIN Literals
  THEN LET c == Literals[v]
       IN CASE c.kind = "bool" -> IF c.n = 0 THEN EQ ELSE NE
            [] c.kind = "string" -> NE
            [] c.kind = "global" -> Signs
            [] OTHER -> {SignOf(c.n)}
  ELSE CASE IsA(f0, v, "call") -> AbstractCall(DefinitionOf(f0, v).tag)
         [] IsA(f0, v, "zext") -> GE
         [] OTHER -> Signs

RangeOf(v) == IF v \in DOMAIN RangeIn THEN RangeIn[v] ELSE AbstractValue(v)

\* The output where v, if it may be returned, is given element e.
With(v, e) == IF v \in MayBeReturned THEN Updated(Copied, v, e) ELSE Copied

RangeStore == At("range", {"store"}) /\ Ranges(With(I.args[2], RangeOf(I.args[1])))

RangeLoad ==
  /\ At("range", {"load", "bitcast", "ptrtoint", "trunc", "sext"})
  /\ Ranges(With(I.id, RangeOf(I.args[1])))

RangePhi ==
  /\ At("range", {"phi"})
  /\ Ranges(With(I.id, JoinAll({RangeOf(I.args[k]) : k \in DOMAIN I.args})))

\* The variable that is tested where the instruction at point d compares v:
\* the one v was loaded from, or the one it has just been stored to.
GetCheckedReturnValue(d, v) ==
  LET previous == Body[d[1]][d[2] - 1]
  IN IF IsA(f0, v, "load")
     THEN {DefinitionOf(f0, v).args[1]} \cap MayBeReturned
     ELSE IF d[2] > 1 /\ previous.op = "store" /\ previous.args[1] = v
     THEN {previous.args[2]} \cap MayBeReturned
     ELSE {}

CheckedByComparison(c) ==
  LET d == PointOf(f0, c.id)
      first == GetCheckedReturnValue(d, c.args[1])
  IN IF first # {} THEN first ELSE GetCheckedReturnValue(d, c.args[2])

\* The checked variables are dropped here; a successor in `pushed` where
\* they may be returned is given theirs.
RangeBranches(checked, pushed) ==
  LET out == Filtered(Copied, DOMAIN Copied \ checked)
  IN /\ range' = Pushed(range, out,
                   {<<p[1], Narrowed(RangeIn, checked \cap returned[f0][p[1]][0], p[2])>> : p \in pushed})
     /\ Step(out # RangeOut)
     /\ UNCHANGED <<propagation, returned, constraints, returnRanges>>

RangeBranch ==
  /\ At("range", {"br"})
  /\ IF Len(I.to) = 2 /\ IsA(f0, I.args[1], "icmp")
     THEN LET c == DefinitionOf(f0, I.args[1])
          IN RangeBranches(CheckedByComparison(c),
                           {<<I.to[k], AbstractICmp(c)[k]>> : k \in 1..2})
     ELSE Ranges(Copied)

\* Mutant of RangeSwitch: the default block is forgotten.
RangeSwitchCases ==
  /\ At("range", {"switch"})
  /\ RangeBranches(GetCheckedReturnValue(<<blk, idx>>, I.args[1]),
       {<<I.to[k + 1], {SignOf(Literals[I.cases[k]].n)}>> : k \in DOMAIN I.cases})

\* The default block is given what is known of the variable, if anything is.
RangeSwitch ==
  /\ At("range", {"switch"})
  /\ LET checked == GetCheckedReturnValue(<<blk, idx>>, I.args[1])
     IN RangeBranches(checked,
          {<<I.to[k + 1], {SignOf(Literals[I.cases[k]].n)}>> : k \in DOMAIN I.cases}
            \union {<<I.to[1], Signs>> : v \in checked \cap DOMAIN RangeIn})

\* A pointer that may be an error constant may be any other address.
RangeRet ==
  /\ At("range", {"ret"})
  /\ LET value == RangeOf(I.args[1])
         bumped == IF f0 \in program.pointer /\ Intersects(value, NE)
                   THEN Join(value, NE) ELSE value
     IN returnRanges' = Updated(returnRanges, f0, JoinAll({bumped} \union Stored(f0)))
  /\ Step(FALSE)
  /\ UNCHANGED <<propagation, returned, constraints, range>>

RangeOther ==
  /\ Others("range", {"store", "load", "bitcast", "ptrtoint", "trunc", "sext",
                      "phi", "br", "switch", "ret"})
  /\ Ranges(Copied)

-----------------------------------------------------------------------------

AnalysisInit ==
  /\ program \in Programs
  /\ propagation = Everywhere({})
  /\ returned = Everywhere({})
  /\ constraints = Everywhere(Empty)
  /\ range = Everywhere(Empty)
  /\ returnRanges = Empty
  /\ pass = "propagation" /\ scc = 1 /\ fn = 1
  /\ rangeChanged = FALSE /\ original = {}
  /\ blk = 1 /\ idx = 0 /\ changed = FALSE

AnalysisNext ==
  \/ NextFunction
  \/ EnterPropagation \/ PropagateCall \/ PropagateLoad \/ PropagateStore
  \/ PropagateCast \/ PropagatePhi \/ PropagateOther
  \/ EnterReturned \/ ReturnedCall \/ ReturnedRet \/ ReturnedStore
  \/ ReturnedLoad \/ ReturnedPhi \/ ReturnedOther
  \/ EnterConstraints \/ ConstrainCall \/ ConstrainBranch \/ ConstrainSwitch
  \/ ConstrainOther
  \/ EnterRange \/ RangeStore \/ RangeLoad \/ RangePhi \/ RangeBranch
  \/ RangeSwitch \/ RangeRet \/ RangeOther
=============================================================================
