------------------------- MODULE ConfidenceLattice -------------------------
(***************************************************************************)
(* Confidence values for error specifications                              *)
(* (eesi/src/confidence_lattice.cc).                                       *)
(*                                                                         *)
(* An element of the sign lattice is the set of signs it contains: BOTTOM  *)
(* is {}, <=0 is {"lt", "eq"}, TOP is Signs.  A LatticeElementConfidence   *)
(* gives each sign a confidence that the function returns it on error, and *)
(* one more, `none`, for the claim that it returns no error value at all.  *)
(***************************************************************************)
EXTENDS Naturals

Signs == {"lt", "eq", "gt"}

kMinConfidence == 0
kMaxConfidence == 100

Levels == kMinConfidence..kMaxConfidence

Confidences == [sign : [Signs -> Levels], none : Levels]

Larger(m, n) == IF m >= n THEN m ELSE n
Smaller(m, n) == IF m >= n THEN n ELSE m

\* Confidence c for every sign of S.
Uniform(S, c) == [s \in Signs |-> IF s \in S THEN c ELSE kMinConfidence]

Unknown == [sign |-> Uniform({}, kMinConfidence), none |-> kMinConfidence]
NoErrors == [sign |-> Uniform({}, kMinConfidence), none |-> kMaxConfidence]

\* The signs that x gives any confidence: what x means as a sign.
Present(x) == {s \in Signs : x.sign[s] > kMinConfidence}
Certain(x) == {s \in Signs : x.sign[s] = kMaxConfidence}

IsUnknown(x) == Present(x) = {} /\ x.none = kMinConfidence

IsEmptyset(x) == x.none = kMaxConfidence

\* Mutant of Join: the confidence in the empty set is joined like a sign.
JoinKeepsNone(x, y) ==
  [sign |-> [s \in Signs |-> Larger(x.sign[s], y.sign[s])],
   none |-> Larger(x.none, y.none)]

Join(x, y) ==
  [sign |-> [s \in Signs |-> Larger(x.sign[s], y.sign[s])],
   none |-> Smaller(x.none, y.none)]

Meet(x, y) ==
  [sign |-> [s \in Signs |-> Smaller(x.sign[s], y.sign[s])],
   none |-> Larger(x.none, y.none)]

\* Mutant of Intersection: nothing is cut.
IntersectionKeepsAll(x, S) == x

Intersection(x, S) ==
  [sign |-> [s \in Signs |-> IF s \in S THEN x.sign[s] ELSE kMinConfidence],
   none |-> x.none]

\* x without the signs of y.
Difference(x, S) ==
  [sign |-> [s \in Signs |-> IF s \in S THEN kMinConfidence ELSE x.sign[s]],
   none |-> x.none]

Equals(x, S) == Present(x) = S

MaxEquals(x, S) == Certain(x) = S

KeepIfMax(x) == [sign |-> Uniform(Certain(x), kMaxConfidence), none |-> x.none]

\* The signs present with the least confidence.
Lowest(x) == {s \in Present(x) : \A t \in Present(x) : x.sign[s] <= x.sign[t]}

\* Mutant of RemoveLowestNonMin: the comparison is the wrong way round.
RemoveHighest(x) ==
  LET highest == {s \in Present(x) : \A t \in Present(x) : x.sign[s] >= x.sign[t]}
  IN IF highest = Present(x) THEN x ELSE Difference(x, highest)

RemoveLowestNonMin(x) ==
  IF Lowest(x) = Present(x) THEN x ELSE Difference(x, Lowest(x))

\* The greatest confidence in a sign.
GetMax(x) == Larger(x.sign["lt"], Larger(x.sign["eq"], x.sign["gt"]))

\* SignLatticeElementToLatticeElementConfidence, with the emptyset confidence
\* kMinConfidence and a ratio of c percent.
FromSigns(S, c) == [sign |-> Uniform(S, c), none |-> kMinConfidence]
=============================================================================
