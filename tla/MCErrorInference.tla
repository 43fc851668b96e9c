-------------------------- MODULE MCErrorInference --------------------------
(***************************************************************************)
(* Small programs for ErrorInference: k has a specification from the user, *)
(* p has no body, f and g call each other, k and p.                        *)
(***************************************************************************)
EXTENDS ErrorInference

MCFunctions == {"k", "p", "f", "g"}

-----------------------------------------------------------------------------
(* Returned values.                                                        *)

Value(kind, v, S, g) ==
  [kind |-> kind, indirect |-> FALSE, value |-> v, signs |-> S, callee |-> g]

Number(v) == Value("int", v, {SignOf(v)}, "k")
Str == Value("const", 0, {"lt", "gt"}, "k")
Null == Value("const", 0, {"eq"}, "k")
True == Value("bool", -1, {"lt", "gt"}, "k")
Call(g) == Value("call", 0, {}, g)
Indirect(v) == [v EXCEPT !.indirect = TRUE]

-----------------------------------------------------------------------------
(* Blocks.                                                                 *)

PlainCall(g) == [callee |-> g, errorOnly |-> FALSE, returns |-> {}]

\* Returns v where the value of g lies in S.
Under(g, S, v) ==
  [calls |-> {PlainCall(g)} \union (IF v.kind = "call" THEN {PlainCall(v.callee)} ELSE {}),
   returned |-> {v},
   constraints |-> <<[callee |-> g, sign |-> S]>>]

\* Returns v, constrained by nothing.
Always(v) == [calls |-> {}, returned |-> {v}, constraints |-> <<>>]

\* Calls an error-only function before it returns v.
Fails(v) ==
  [calls |-> {[callee |-> "p", errorOnly |-> TRUE, returns |-> {v}]},
   returned |-> {v}, constraints |-> <<>>]

\* Calls g and returns what nothing is known of, under a constraint on p.
CallsOnly(g) ==
  [calls |-> {PlainCall(g), PlainCall("p")}, returned |-> {},
   constraints |-> <<[callee |-> "p", sign |-> {"lt"}]>>]

\* Returns v in a block that two functions constrain.
Both(g, v) ==
  [calls |-> {PlainCall(g), PlainCall("p")}, returned |-> {v},
   constraints |-> <<[callee |-> "p", sign |-> {"lt", "eq"}], [callee |-> g, sign |-> {"lt"}]>>]

\* The first block calls g, too.
Calling(g, bs) == [bs EXCEPT ![1].calls = @ \union {PlainCall(g)}]

\* Blocks of a function that calls g.
Shapes(g) ==
  {Under("k", {"lt"}, Number(-1)),
   Under("k", {"lt"}, Indirect(Call(g))),
   Under("p", {"lt"}, Number(0)),
   Under(g, {"eq"}, Str),
   Under(g, {"lt", "gt"}, Call(g)),
   Fails(Number(1)),
   Fails(True)}

FewShapes(g) ==
  {Under("k", {"lt"}, Indirect(Number(0))),
   Under("p", Signs, Call("p")),
   Under(g, {"lt"}, Number(1)),
   Always(Number(-1)),
   Both(g, Null),
   CallsOnly("k")}

-----------------------------------------------------------------------------
(* Programs.                                                               *)

Program(initial, range, loops, llm, smart, bf, bg) ==
  [initial |-> initial, void |-> {}, range |-> range, errorOnly |-> {"p"},
   errorCodes |-> {-1}, successCodes |-> {0}, smart |-> smart, llm |-> llm,
   members |-> <<<<"k">>, <<"p">>, <<"f", "g">>>>,
   loops |-> loops,
   blocks |-> [k |-> <<>>, p |-> <<>>, f |-> bf, g |-> bg]]

Ranges(rf, rg) == [k |-> Signs, p |-> Signs, f |-> rf, g |-> rg]

KnownFailure == [x \in {"k"} |-> {"lt"}]

ProgramsWith(llm, smarts) ==
  {Program(KnownFailure, Ranges(rf, Signs), {3}, llm, smart, Calling("g", <<b1, b2>>), Calling("f", <<b3>>)) :
     rf \in {Signs, {"lt", "eq"}}, smart \in smarts,
     b1 \in Shapes("g"), b2 \in Shapes("g") \union FewShapes("g"),
     b3 \in FewShapes("f") \union Shapes("f")}

StaticPrograms == ProgramsWith(FALSE, BOOLEAN)
MCPrograms == ProgramsWith(TRUE, {FALSE}) \union StaticPrograms

\* f can return 0 with the confidence of p, 1 with certainty, and -1 if a
\* recursive call returned 0.
RecursivePrograms ==
  {[Program(KnownFailure, Ranges(Signs, Signs), {3}, TRUE, FALSE,
            Calling("g", <<Under("p", {"lt"}, Number(0)), Under("k", {"lt"}, Number(1)),
                           Under("f", {"eq"}, Number(-1))>>),
            Calling("f", <<Always(Number(1))>>))
    EXCEPT !.errorCodes = {}, !.successCodes = {}]}

\* The model is asked about g; f returns k() where g failed.
DelegatingPrograms ==
  {[Program(KnownFailure, Ranges(Signs, Signs), {}, TRUE, FALSE,
            <<Under("g", {"lt"}, Call("k"))>>, <<Under("p", {"lt"}, Number(1))>>)
    EXCEPT !.members = <<<<"k">>, <<"p">>, <<"g">>, <<"f">>>>]}

MCAnswerSigns == {{}, {"lt"}, {"lt", "gt"}}
=============================================================================
