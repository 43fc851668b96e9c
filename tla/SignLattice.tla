---------------------------- MODULE SignLattice ----------------------------
(***************************************************************************)
(* The sign lattice (eesi/src/constraint.cc) and what a comparison with a  *)
(* constant says of the sign of the compared value                         *)
(* (eesi/src/return_constraints_pass.cc).                                  *)
(*                                                                         *)
(* An element of the lattice is the set of signs it contains.  The code    *)
(* computes on bit strings: a meet or a join is the conjunction of two     *)
(* encodings, decoded.  An encoding is modelled by the positions of its    *)
(* ones, counted from the left from 1.                                     *)
(***************************************************************************)
EXTENDS Integers

BOTTOM == {}
LT == {"lt"}
GT == {"gt"}
EQ == {"eq"}
LE == {"lt", "eq"}
GE == {"gt", "eq"}
NE == {"lt", "gt"}
Signs == {"lt", "eq", "gt"}   \* TOP

Elements == <<BOTTOM, LT, GT, EQ, LE, GE, NE, Signs>>

EncodingOf(bits) == [x \in SUBSET Signs |-> bits[CHOOSE k \in 1..8 : Elements[k] = x]]

MeetEncoding ==
  EncodingOf(<<{1}, {1, 2}, {1, 3}, {1, 4}, {1, 2, 4, 5}, {1, 3, 4, 6}, {1, 2, 3, 7}, 1..8>>)

JoinEncoding ==
  EncodingOf(<<1..8, {2, 5, 7, 8}, {3, 6, 7, 8}, {4, 5, 6, 8}, {5, 8}, {6, 8}, {7, 8}, {8}>>)

DecodingOf(encoding) ==
  [bits \in {encoding[x] : x \in SUBSET Signs} |->
     CHOOSE x \in SUBSET Signs : encoding[x] = bits]

MeetDecoding == DecodingOf(MeetEncoding)
JoinDecoding == DecodingOf(JoinEncoding)

Meet(x, y) == MeetDecoding[MeetEncoding[x] \cap MeetEncoding[y]]

Join(x, y) == JoinDecoding[JoinEncoding[x] \cap JoinEncoding[y]]

\* Joined one after the other, a set of elements leaves the bits that all
\* their encodings have.
JoinAll(S) == JoinDecoding[{k \in 1..8 : \A x \in S : k \in JoinEncoding[x]}]

Intersects(x, y) == Meet(x, y) # BOTTOM

SignOf(n) == IF n < 0 THEN "lt" ELSE IF n > 0 THEN "gt" ELSE "eq"

-----------------------------------------------------------------------------
(* Comparisons.  The sign of the constant and the signed predicate give    *)
(* the element of the compared value where the comparison holds, and the   *)
(* one where it does not.                                                  *)

\* Mutant of PredicateComplement: x >= 1 taken to fail for no positive x.
PredicateComplementExact ==
  [eq |-> [slt |-> <<LT, GE>>, sgt |-> <<GT, LE>>, sle |-> <<LE, GT>>,
           sge |-> <<GE, LT>>, eq |-> <<EQ, NE>>, ne |-> <<NE, EQ>>],
   gt |-> [slt |-> <<LE, GT>>, sgt |-> <<GT, LE>>, sle |-> <<Signs, GT>>,
           sge |-> <<GT, LE>>, eq |-> <<GT, LE>>, ne |-> <<LE, GT>>],
   lt |-> [slt |-> <<LT, Signs>>, sgt |-> <<Signs, LT>>, sle |-> <<LT, Signs>>,
           sge |-> <<Signs, LT>>, eq |-> <<LT, Signs>>, ne |-> <<Signs, LT>>]]

PredicateComplement ==
  [eq |-> [slt |-> <<LT, GE>>, sgt |-> <<GT, LE>>, sle |-> <<LE, GT>>,
           sge |-> <<GE, LT>>, eq |-> <<EQ, NE>>, ne |-> <<NE, EQ>>],
   gt |-> [slt |-> <<Signs, GT>>, sgt |-> <<GT, Signs>>, sle |-> <<Signs, GT>>,
           sge |-> <<GT, Signs>>, eq |-> <<GT, Signs>>, ne |-> <<Signs, GT>>],
   lt |-> [slt |-> <<LT, Signs>>, sgt |-> <<Signs, LT>>, sle |-> <<LT, Signs>>,
           sge |-> <<Signs, LT>>, eq |-> <<LT, Signs>>, ne |-> <<Signs, LT>>]]

\* What is left of an element where the comparison is unsigned.
UnsignedReplacement(x) ==
  CASE x = LT -> BOTTOM
    [] x \in {GT, NE} -> GT
    [] x \in {LE, EQ} -> EQ
    [] OTHER -> GE

Unsigned == {"ult", "ugt", "ule", "uge"}
Predicates == {"eq", "ne", "slt", "sgt", "sle", "sge"} \union Unsigned

SignedPredicate(p) ==
  CASE p = "ult" -> "slt" [] p = "ugt" -> "sgt" [] p = "ule" -> "sle"
    [] p = "uge" -> "sge" [] OTHER -> p

SwappedPredicate(p) ==
  CASE p = "slt" -> "sgt" [] p = "sgt" -> "slt" [] p = "sle" -> "sge"
    [] p = "sge" -> "sle" [] OTHER -> p
=============================================================================
