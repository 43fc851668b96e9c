----------------------------- MODULE Execution -----------------------------
(***************************************************************************)
(* What the data-flow passes are about: once they have finished, functions *)
(* of the program run, one at a time, any number of times.  The meaning of *)
(* the instructions is LLVM's, not part of the repository.  An external    *)
(* function returns any of Inputs, a defined one what an earlier run of it *)
(* returned.  The position (scc, fn, blk, idx) is that of the instruction  *)
(* that runs next.                                                         *)
(*                                                                         *)
(* The memory that a run names is that of its own variables.  What else a  *)
(* pointer leads to may hold anything, and whoever has got the address of  *)
(* a variable may write to it.                                             *)
(*                                                                         *)
(* Besides its values a run keeps what the properties compare the facts    *)
(* with: where each value came from and what went wrong on the way.        *)
(***************************************************************************)
EXTENDS DataFlow

CONSTANTS
  Half,     \* integers, of at least two bits, have the range -Half..Half-1
  Inputs,   \* those that parameters, external functions and memory bring in
  Address   \* the address of a variable, as a number

Words == -Half..(Half - 1)

ASSUME InputsAssumption ==
  /\ Half \in Nat \ {0, 1}
  /\ Inputs \subseteq Words
  /\ Address \in Words \ {0}
  /\ \A c \in DOMAIN Literals : Literals[c].n \in Words

VARIABLES
  env,      \* the number that an instruction or parameter has or a variable holds
  origin,   \* the call, or stored constant, that this number came from
  trail,    \* the points, and the names there, at which it was held
  last,     \* what each function that was called returned last
  misread,  \* functions whose result a branch was wrongly taken to test
  excuses,  \* what the passes leave out of account and this run did
  arriving, \* what the phis of the block get on the edge that the run took
  results   \* what finished runs of called functions returned

run == <<env, origin, trail, last, misread, excuses, arriving, results>>
vars == <<program, facts, walk, run>>

Running == pass = "done" /\ blk > 0

\* The instruction named v has allocated a variable: the name stands for its
\* address where it is read, and for what it holds in env and in the facts.
Variable(v) == IsA(f0, v, "alloca")

HasNumber(v) == v \in DOMAIN Literals \/ Variable(v) \/ v \in DOMAIN env

\* What I reads and has no value; a phi's operands have arrived.
Unset ==
  IF I.op = "phi" THEN {}
  ELSE {v \in {I.args[k] : k \in DOMAIN I.args} :
          ~HasNumber(v) \/ (I.op = "load" /\ v \notin DOMAIN Literals \union DOMAIN env)}

Executes(ops) == Running /\ I.op \in ops /\ Unset = {}

ValueOf(v) ==
  IF v \in DOMAIN Literals THEN Literals[v].n ELSE IF Variable(v) THEN Address ELSE env[v]

OriginOf(v) == IF v \in DOMAIN Literals \/ Variable(v) THEN {} ELSE origin[v]

\* Where the number that instruction I reads from v was held.
TrailOf(v) == IF v \in DOMAIN Literals \/ Variable(v) THEN {<<blk, idx - 1, v>>} ELSE trail[v]

-----------------------------------------------------------------------------
(* Addresses.                                                              *)

\* The address that an instruction loads from or stores to.
AddressOperand(i) ==
  IF i.op = "load" THEN {i.args[1]} ELSE IF i.op = "store" THEN {i.args[2]} ELSE {}

NumberOperands(i) ==
  IF i.op \in {"call", "gep"} THEN {}
  ELSE IF i.op = "store" THEN {i.args[1]}
  ELSE IF i.op = "load" THEN {} ELSE {i.args[k] : k \in DOMAIN i.args}

Addresses(f) == UNION {AddressOperand(program.body[f][d[1]][d[2]]) : d \in Points(f)}

\* What f reads as a number: a call or a computation of an address only passes it on.
Numbers(f) == UNION {NumberOperands(program.body[f][d[1]][d[2]]) : d \in Points(f)}

\* No name is both: what the facts say of it is of the number or of what it points to.
Apart(f) == Addresses(f) \cap Numbers(f) = {}

\* The variables whose address f gives away.
Exposed(f) ==
  {v \in Values : IsA(f, v, "alloca") /\
     \/ v \in Numbers(f)
     \/ \E d \in Points(f) :
          LET i == program.body[f][d[1]][d[2]]
          IN i.op \in {"call", "gep"} /\ \E k \in DOMAIN i.args : i.args[k] = v}

\* Functions that some function of the program calls.
Called ==
  {g \in DOMAIN program.body :
     \E f \in DOMAIN program.body : \E d \in Points(f) :
       LET i == program.body[f][d[1]][d[2]] IN i.op = "call" /\ i.tag = g}

\* v gets number n, which came from o and was held at the points t.
Define(v, n, o, t) ==
  /\ env' = Updated(env, v, n)
  /\ origin' = Updated(origin, v, o)
  /\ trail' = [u \in DOMAIN trail \union {v} |->
                (IF u = v THEN t ELSE trail[u]) \union {<<blk, idx, u>>}]
  /\ idx' = idx + 1
  /\ UNCHANGED <<blk, arriving>>

\* What a run that comes from here brings to the phis of block b.
Arriving(b) ==
  UNION {{[phi |-> k, number |-> ValueOf(v), origin |-> OriginOf(v), trail |-> TrailOf(v)] :
            v \in {u \in Incoming(Body[b][k], blk) : HasNumber(u)}} :
           k \in {j \in DOMAIN Body[b] : Body[b][j].op = "phi"}}

\* The phis of a block read their operands at the same time, on the edge.
Jump(b) ==
  /\ blk' = b /\ idx' = 1
  /\ arriving' = Arriving(b)
  /\ trail' = [v \in DOMAIN trail |-> trail[v] \union {<<b, 0, v>>}]
  /\ UNCHANGED <<env, origin>>

Still == UNCHANGED <<program, facts, pass, scc, fn, rangeChanged, original, changed>>

-----------------------------------------------------------------------------

Start ==
  /\ pass = "done" /\ blk = 0
  /\ \E c \in DOMAIN program.members : \E n \in DOMAIN program.members[c] :
       /\ scc' = c /\ fn' = n /\ blk' = 1 /\ idx' = 1
       /\ LET params == program.params[program.members[c][n]]
          IN /\ env' \in [params -> Inputs]
             /\ origin' = [v \in params |-> {}]
             /\ trail' = [v \in params |-> {<<1, 0, v>>}]
  /\ arriving' = {}
  /\ UNCHANGED <<program, facts, pass, rangeChanged, original, changed,
                 last, misread, excuses, results>>

\* The allocated variable has no value yet.
ExecAlloca ==
  /\ Executes({"alloca"})
  /\ idx' = idx + 1
  /\ trail' = [v \in DOMAIN trail |-> trail[v] \union {<<blk, idx, v>>}]
  /\ UNCHANGED <<blk, env, origin, last, misread, excuses, arriving, results>>
  /\ Still

\* Linux' error pointer functions return their argument, or whether it is one.
ExecCall ==
  /\ Executes({"call"})
  /\ LET same == I.tag \in err_functions \ {"IS_ERR"}
     IN \E n \in IF I.tag \in program.void THEN {0}
                 ELSE IF I.tag \in DOMAIN program.body THEN results[I.tag]
                 ELSE IF same THEN {ValueOf(I.args[1])}
                 ELSE IF I.tag = "IS_ERR" THEN {0, 1} ELSE Inputs :
          /\ Define(I.id, n, {I.id}, IF same THEN TrailOf(I.args[1]) ELSE {})
          /\ last' = Updated(last, I.tag, n)
  /\ misread' = misread \ {I.tag}
  /\ UNCHANGED <<excuses, results>>
  /\ Still

\* A function that is called, or a store through a pointer, writes to a variable
\* whose address it may have.
WriteExposed ==
  /\ Executes({"call", "store"})
  /\ I.op = "store" => ~Variable(I.args[2])
  /\ \E v \in Exposed(f0), n \in Inputs :
       /\ env' = Updated(env, v, n)
       /\ origin' = Updated(origin, v, {})
       /\ trail' = Updated(trail, v, {})
  /\ excuses' = excuses \union {"written"}
  /\ UNCHANGED <<blk, idx, last, misread, arriving, results>>
  /\ Still

ExecStore ==
  /\ Executes({"store"})
  /\ Variable(I.args[2])
  /\ LET sender == I.args[1]
     IN Define(I.args[2], ValueOf(sender),
               IF IsInteger(sender) THEN {sender} ELSE OriginOf(sender), TrailOf(sender))
  /\ UNCHANGED <<last, misread, excuses, results>>
  /\ Still

\* From now on the facts say of the pointer's name what it points to: nothing is
\* claimed any more of where the pointer came from.
ExecStoreThrough ==
  /\ Executes({"store"})
  /\ ~Variable(I.args[2])
  /\ origin' = [v \in DOMAIN origin |-> IF v = I.args[2] THEN {} ELSE origin[v]]
  /\ trail' = [v \in DOMAIN trail |->
                 (IF v = I.args[2] THEN {} ELSE trail[v]) \union {<<blk, idx, v>>}]
  /\ idx' = idx + 1
  /\ UNCHANGED <<blk, env, last, misread, excuses, arriving, results>>
  /\ Still

ExecLoad ==
  /\ Executes({"load"})
  /\ LET v == I.args[1]
     IN /\ Variable(v)
        /\ Define(I.id, env[v], origin[v], trail[v])
  /\ UNCHANGED <<last, misread, excuses, results>>
  /\ Still

\* What a pointer leads to may be anything; the range pass takes what it knows
\* of the pointer for it.
ExecLoadThrough ==
  /\ Executes({"load"})
  /\ ~Variable(I.args[1])
  /\ \E n \in Inputs : Define(I.id, n, {}, {})
  /\ excuses' = IF I.id \in DOMAIN RangeOut /\ RangeOut[I.id] # Signs
                 THEN excuses \union {"pointer"} ELSE excuses
  /\ UNCHANGED <<last, misread, results>>
  /\ Still

\* Conversions that leave the number as it is.
ExecCast ==
  /\ Executes({"bitcast", "ptrtoint", "sext"})
  /\ Define(I.id, ValueOf(I.args[1]), IF I.op = "sext" THEN {} ELSE OriginOf(I.args[1]),
            TrailOf(I.args[1]))
  /\ UNCHANGED <<last, misread, excuses, results>>
  /\ Still

\* Half of the bits are cut off.
ExecTrunc ==
  /\ Executes({"trunc"})
  /\ LET v == ValueOf(I.args[1])
         half == Half \div 2
         cut == ((v + half) % Half) - half
     IN /\ Define(I.id, cut, {}, TrailOf(I.args[1]))
        /\ excuses' = IF SignOf(cut) = SignOf(v) THEN excuses ELSE excuses \union {"wrapped"}
  /\ UNCHANGED <<last, misread, results>>
  /\ Still

ExecZext ==
  /\ Executes({"zext"})
  /\ Define(I.id, ValueOf(I.args[1]) % Half, {}, {})
  /\ UNCHANGED <<last, misread, excuses, results>>
  /\ Still

ExecBinop ==
  /\ Executes({"binop"})
  /\ \E n \in Inputs : Define(I.id, n, OriginOf(I.args[1]), {})
  /\ UNCHANGED <<last, misread, excuses, results>>
  /\ Still

\* The address of a field or an element.
ExecGep ==
  /\ Executes({"gep"})
  /\ \E n \in Inputs : Define(I.id, n, {}, {})
  /\ UNCHANGED <<last, misread, excuses, results>>
  /\ Still

Compares(p, x, y) ==
  LET u(n) == n % (2 * Half)
  IN CASE p = "eq" -> x = y    [] p = "ne" -> x # y
       [] p = "slt" -> x < y   [] p = "sgt" -> x > y
       [] p = "sle" -> x <= y  [] p = "sge" -> x >= y
       [] p = "ult" -> u(x) < u(y)   [] p = "ugt" -> u(x) > u(y)
       [] p = "ule" -> u(x) <= u(y)  [] p = "uge" -> u(x) >= u(y)

\* A comparison of a negative number as an unsigned one has no sign.
ExecIcmp ==
  /\ Executes({"icmp"})
  /\ LET x == ValueOf(I.args[1])
         y == ValueOf(I.args[2])
     IN /\ Define(I.id, IF Compares(I.tag, x, y) THEN 1 ELSE 0, {}, {})
        /\ excuses' = IF I.tag \in Unsigned /\ (x < 0 \/ y < 0)
                      THEN excuses \union {"unsigned"} ELSE excuses
  /\ UNCHANGED <<last, misread, results>>
  /\ Still

ExecPhi ==
  /\ Executes({"phi"})
  /\ \E a \in arriving : a.phi = idx /\ Define(I.id, a.number, a.origin, a.trail)
  /\ excuses' = excuses \union {"phi"}
  /\ UNCHANGED <<last, misread, results>>
  /\ Still

\* Functions whose result a test of v is taken for, though v is something
\* else than what they returned last.
Misread(v) == {g \in FunctionsHeld(v) : g \notin DOMAIN last \/ last[g] # ValueOf(v)}

\* Does a variable in `checked` no longer hold what was compared?  A constant
\* that has just been stored to it may be the other operand.
Stale(checked, v) ==
  IF \E p \in checked : Variable(p) /\ (v \in DOMAIN Literals \/ env[p] # ValueOf(v))
  THEN {"stale"} ELSE {}

ExecBranch ==
  /\ Executes({"br"})
  /\ IF Len(I.to) = 1
     THEN Jump(I.to[1]) /\ UNCHANGED <<misread, excuses>>
     ELSE /\ Jump(I.to[IF ValueOf(I.args[1]) # 0 THEN 1 ELSE 2])
          /\ IF IsA(f0, I.args[1], "icmp")
             THEN LET c == DefinitionOf(f0, I.args[1])
                      first == GetCheckedReturnValue(PointOf(f0, c.id), c.args[1])
                  IN /\ misread' = misread \union UNION {Misread(v) : v \in Tested(c)}
                     /\ excuses' = excuses \union
                          Stale(CheckedByComparison(c), c.args[IF first # {} THEN 1 ELSE 2])
             ELSE UNCHANGED <<misread, excuses>>
  /\ UNCHANGED <<last, results>>
  /\ Still

\* In the default block nothing is known of the function that is tested.
ExecSwitch ==
  /\ Executes({"switch"})
  /\ LET v == I.args[1]
         taken == {k \in DOMAIN I.cases : Literals[I.cases[k]].n = ValueOf(v)}
         held == IF IsInstruction(f0, v) THEN FunctionsHeld(v) ELSE {}
     IN /\ Jump(I.to[IF taken = {} THEN 1 ELSE 1 + CHOOSE k \in taken : TRUE])
        /\ misread' = misread \union (IF taken = {} THEN held ELSE held \cap Misread(v))
        /\ excuses' = excuses \union Stale(GetCheckedReturnValue(<<blk, idx>>, v), v)
  /\ UNCHANGED <<last, results>>
  /\ Still

\* The run is over.
Finish ==
  /\ blk' = 0 /\ idx' = 0 /\ scc' = 1 /\ fn' = 1
  /\ env' = Empty /\ origin' = Empty /\ trail' = Empty /\ last' = Empty
  /\ misread' = {} /\ excuses' = {} /\ arriving' = {}
  /\ UNCHANGED <<program, facts, pass, rangeChanged, original, changed>>

\* A call of a function of which no run has returned does not return.
ExecNoReturn ==
  /\ Executes({"call"})
  /\ I.tag \in DOMAIN program.body \ program.void /\ results[I.tag] = {}
  /\ Finish
  /\ UNCHANGED results

\* To read what has no value is undefined behaviour: the run is not followed
\* any further.
ExecUndefined ==
  /\ Running
  /\ Unset # {}
  /\ Finish
  /\ UNCHANGED results

\* No excuse, of those that concern ReturnRangePass, applies to the run.
Unexcused == excuses \subseteq {"phi"} /\ Apart(f0)

\* What a run returns is remembered for its callers unless it has an excuse.
ExecRet ==
  /\ Executes({"ret"})
  /\ results' =
       IF f0 \in Called /\ I.args # <<>> /\ Unexcused
       THEN [results EXCEPT ![f0] = @ \union {ValueOf(I.args[1])}] ELSE results
  /\ Finish

-----------------------------------------------------------------------------

Init ==
  /\ AnalysisInit
  /\ env = Empty /\ origin = Empty /\ trail = Empty /\ last = Empty
  /\ misread = {} /\ excuses = {} /\ arriving = {}
  /\ results = [f \in DOMAIN program.body |-> {}]

Analyse == AnalysisNext /\ UNCHANGED run

Next ==
  \/ Analyse
  \/ Start \/ ExecAlloca \/ ExecCall \/ WriteExposed
  \/ ExecStore \/ ExecStoreThrough \/ ExecLoad \/ ExecLoadThrough
  \/ ExecCast \/ ExecTrunc \/ ExecZext \/ ExecBinop \/ ExecGep \/ ExecIcmp
  \/ ExecPhi \/ ExecBranch \/ ExecSwitch \/ ExecNoReturn \/ ExecUndefined
  \/ ExecRet

Spec == Init /\ [][Next]_vars

\* The passes are one thread that nothing blocks.
FairSpec == Spec /\ WF_vars(Analyse)

-----------------------------------------------------------------------------
(* Properties.                                                             *)

TypeOK ==
  /\ pass \in DOMAIN Following \union {"done"}
  /\ blk \in 0..Len(Body)
  /\ idx \in 0..(IF blk = 0 THEN 0 ELSE Len(Body[blk]))
  /\ \A f \in DOMAIN program.body : \A b \in DOMAIN program.body[f] :
       \A i \in 0..LastPoint(f, b) :
         /\ propagation[f][b][i] \subseteq Values \X Values
         /\ returned[f][b][i] \subseteq Values
         /\ \A g \in DOMAIN constraints[f][b][i] : constraints[f][b][i][g] \subseteq Signs
         /\ \A v \in DOMAIN range[f][b][i] : v \in Values /\ range[f][b][i][v] \subseteq Signs
  /\ DOMAIN returnRanges \subseteq DOMAIN program.body \ program.void
  /\ DOMAIN env \subseteq Values /\ DOMAIN origin = DOMAIN env /\ DOMAIN trail = DOMAIN env
  /\ \A v \in DOMAIN env : env[v] \in Words

\* Wherever a run stands, the result of a call, or a stored constant, that
\* a value holds is in the fact that ReturnPropagationPass has there.
PropagationSound ==
  Running => \A v \in DOMAIN origin : origin[v] \subseteq Held(propagation[f0][blk][idx - 1], v)

\* The same, of runs that have met no phi.
PropagationSoundBeforePhi ==
  "phi" \notin excuses => PropagationSound

\* When a run returns a number, every value that held it on its way was, at
\* that point, one that ReturnedValuesPass says may be returned.
ReturnedValuesSound ==
  Executes({"ret"}) /\ I.args # <<>> =>
    \A h \in TrailOf(I.args[1]) : h[3] \in returned[f0][h[1]][h[2]]

\* Wherever a run stands, what a function returned last satisfies the
\* constraint that ReturnConstraintsPass has on it there, unless a branch
\* was taken to test that result and tested something else, or was the
\* default of a switch; or the run has compared a negative number as an
\* unsigned one.
ConstraintsSound ==
  Running /\ "unsigned" \notin excuses =>
    \A g \in (DOMAIN last \cap DOMAIN constraints[f0][blk][idx - 1]) \ misread :
      SignOf(last[g]) \in constraints[f0][blk][idx - 1][g]

ReturnsWithin(allowed) ==
  Executes({"ret"}) /\ I.args # <<>> /\ excuses \subseteq allowed /\ Apart(f0) =>
    SignOf(ValueOf(I.args[1])) \in returnRanges[f0]

\* What a run returns lies in the range that ReturnRangePass has for the
\* function, unless the run truncated a number to one of another sign,
\* compared a negative number as an unsigned one, branched on a variable's
\* old value, had a variable written to by a function that was given its
\* address or through a pointer, or read through a pointer of which the
\* pass knows something; and unless the function reads an address that it
\* uses also as a number.
ReturnRangeSound == ReturnsWithin({"phi"})

\* The same whatever happens in memory: the range holds of what a function wrote
\* that was given the address of the result, of a variable that was overwritten
\* between its load and the test, and of what is read through a pointer ("the
\* possible ranges that returned values can take on at a particular point of
\* the program", return_range_pass.h:14-15).
MemoryInRange == ReturnsWithin({"phi", "written", "stale", "pointer"})

\* How clang compiles a test when it does not optimise, as the repository's
\* README has it called (-O0): the comparison comes directly before the branch on
\* it, a switch is not alone in its block, no comparison is its own operand, and
\* pointers are compared with a null pointer for equality only.  A hypothesis of
\* ConstraintsProofs; the passes do not check it.
TestsWhereComputed(p) ==
  \A f \in DOMAIN p.body : \A b \in DOMAIN p.body[f] :
    LET end == Len(p.body[f][b])
        last_ == p.body[f][b][end]
    IN /\ last_.op = "switch" => end > 1
       /\ \A a \in DOMAIN p.body[f] : \A k \in DOMAIN p.body[f][a] :
            LET i == p.body[f][a][k]
            IN i.op = "icmp" =>
                 /\ last_.op = "br" /\ last_.args = <<i.id>> => a = b /\ k = end - 1
                 /\ \A j \in DOMAIN i.args : i.args[j] # i.id
                 /\ (\E j \in DOMAIN i.args : IsNull(i.args[j])) => i.tag \in {"eq", "ne"}

\* What LLVM makes sure of: a name is given once,
NamesOnce(p) ==
  \A f \in DOMAIN p.body : \A b \in DOMAIN p.body[f] : \A k \in DOMAIN p.body[f][b] :
    LET i == p.body[f][b][k]
    IN /\ i.id \notin p.params[f]
       /\ i.id # "" =>
            \A a \in DOMAIN p.body[f] : \A j \in DOMAIN p.body[f][a] :
              p.body[f][a][j].id = i.id => a = b /\ j = k

\* phis come first in their block,
PhisFirst(p) ==
  \A f \in DOMAIN p.body : \A b \in DOMAIN p.body[f] : \A k \in DOMAIN p.body[f][b] :
    p.body[f][b][k].op = "phi" => \A j \in 1..(k - 1) : p.body[f][b][j].op = "phi"

\* and what a void function returns is not used.
VoidsUnused(p) ==
  \A f \in DOMAIN p.body : \A b \in DOMAIN p.body[f] : \A k \in DOMAIN p.body[f][b] :
    LET i == p.body[f][b][k]
    IN i.op = "call" /\ i.tag \in p.void =>
         \A a \in DOMAIN p.body[f] : \A j \in DOMAIN p.body[f][a] :
           \A m \in DOMAIN p.body[f][a][j].args : p.body[f][a][j].args[m] # i.id

\* The components of the call graph are in the order of LLVM's iterator: that of
\* a function comes before those of its callers, unless it is theirs and has a loop.
CalleesFirst(p) ==
  \A c \in DOMAIN p.members : \A m \in DOMAIN p.members[c] :
    LET body == p.body[p.members[c][m]]
    IN \A b \in DOMAIN body : \A k \in DOMAIN body[b] :
         body[b][k].op = "call" =>
           \A d \in DOMAIN p.members : \A n \in DOMAIN p.members[d] :
             p.members[d][n] = body[b][k].tag => d < c \/ (d = c /\ c \in p.loops)

\* What the proofs about ReturnRangePass ask of a program.
WellFormed(p) ==
  /\ TestsWhereComputed(p) /\ NamesOnce(p) /\ PhisFirst(p) /\ VoidsUnused(p)
  /\ CalleesFirst(p)

\* The four passes come to an end.
AnalysisEnds == <>(pass = "done")
=============================================================================
