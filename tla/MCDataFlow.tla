---------------------------- MODULE MCDataFlow ----------------------------
(***************************************************************************)
(* Small programs for the data-flow passes, in the form that clang gives   *)
(* them without optimisation: local variables are allocated, stored to and *)
(* loaded.  g and h are external functions.                                *)
(***************************************************************************)
EXTENDS Execution

MCLiterals ==
  [m1 |-> [kind |-> "int", n |-> -1], zero |-> [kind |-> "int", n |-> 0],
   one |-> [kind |-> "int", n |-> 1], true |-> [kind |-> "bool", n |-> -1],
   null |-> [kind |-> "null", n |-> 0], text |-> [kind |-> "string", n |-> 1],
   glob |-> [kind |-> "global", n |-> 1]]

MCValues == DOMAIN MCLiterals \union
  {"ret", "x", "n", "c1", "c2", "l1", "l2", "l3", "k1", "k2", "p1", "p2", "t1", "t2"}

-----------------------------------------------------------------------------
(* Instructions.                                                           *)

Ins(op, id, args, to, tag, cases) ==
  [op |-> op, id |-> id, args |-> args, to |-> to, tag |-> tag, cases |-> cases]

Plain(op, id, args) == Ins(op, id, args, <<>>, "", <<>>)
Alloca(v) == Plain("alloca", v, <<>>)
Call(id, g) == Ins("call", id, <<>>, <<>>, g, <<>>)
CallOf(id, g, v) == Ins("call", id, <<v>>, <<>>, g, <<>>)
Store(v, x) == Plain("store", "", <<v, x>>)
Load(id, x) == Plain("load", id, <<x>>)
Gep(id, x) == Plain("gep", id, <<x>>)
Icmp(id, p, u, v) == Ins("icmp", id, <<u, v>>, <<>>, p, <<>>)
Goto(b) == Ins("br", "", <<>>, <<b>>, "", <<>>)
If(k, b1, b2) == Ins("br", "", <<k>>, <<b1, b2>>, "", <<>>)
Switch(v, to, cases) == Ins("switch", "", <<v>>, to, "", cases)
Phi(id, args, to) == Ins("phi", id, args, to, "", <<>>)
Ret(v) == Plain("ret", "", <<v>>)
RetVoid == Plain("ret", "", <<>>)

Program(bodies, params, members, loops) ==
  [body |-> bodies, params |-> params, members |-> members, loops |-> loops,
   void |-> {}, pointer |-> {}]

Single(blocks) == Program([f |-> blocks], [f |-> {}], <<<<"f">>>>, {})

-----------------------------------------------------------------------------
(* ret = g(); if (ret p c) ret = 1; else ret = h(); return ret;            *)

\* How the result of g is compared: after a load, or just after the store.
Compare(p, c) ==
  {<<Load("l1", "ret"), Icmp("k1", p, "l1", c)>>, <<Icmp("k1", p, "c1", c)>>,
   <<Load("l1", "ret"), Icmp("k1", p, c, "l1")>>}

CheckProgramsWith(ps, cs) ==
  UNION {
    {Single(<<<<Alloca("ret"), Call("c1", "g"), Store("c1", "ret")>> \o cmp \o <<If("k1", 2, 3)>>,
              <<Store("one", "ret"), Goto(4)>>,
              <<Call("c2", "h"), Goto(4)>>,
              <<Load("l3", "ret"), Ret("l3")>>>>) : cmp \in Compare(p, c)} :
    p \in ps, c \in cs}

CheckPrograms ==
  CheckProgramsWith({"slt", "eq", "ne"}, {"m1", "zero", "one"})
    \union CheckProgramsWith(Predicates, {"one"})

\* The variable is overwritten between the load and the branch, with what
\* is stored later, or with the loaded value after a computation.
StalePrograms ==
  {Single(<<<<Alloca("ret"), Call("c1", "g"), Store("c1", "ret"), Load("l1", "ret"),
              Plain("binop", "t1", <<"l1", "one">>), Store("t1", "ret"),
              Icmp("k1", p, v, "zero"), If("k1", 2, 3)>>,
            then,
            <<Load("l3", "ret"), Ret("l3")>>>>) :
     p \in {"slt", "sgt"}, v \in {"l1", "t1"}, then \in {<<Goto(3)>>, <<Ret("zero")>>}}

\* while ((x = g()) p c) ret = x; return ret;
LoopPrograms ==
  {Single(<<<<Alloca("x"), Alloca("ret"), Store("zero", "ret"), Goto(2)>>,
            <<Call("c1", "g"), Store("c1", "x"), Icmp("k1", p, "c1", c), If("k1", 3, 4)>>,
            <<Load("l1", "x"), Store("l1", "ret"), Goto(2)>>,
            <<Load("l3", "ret"), Ret("l3")>>>>) :
     p \in {"slt", "sge", "ne"}, c \in {"zero", "one"}}

\* ret = h(); for (;;) { if (ret < 0) return ret; ret = g(); }, in blocks
\* that are not in the order in which they run.
BackwardPrograms ==
  {Single(<<<<Alloca("ret"), Call("c1", "h"), Store("c1", "ret"), Goto(4)>>,
            <<Load("l3", "ret"), Ret("l3")>>,
            <<Call("c2", "g"), Store("c2", "ret"), Goto(4)>>,
            <<Load("l1", "ret"), Icmp("k1", p, "l1", "zero"), If("k1", 2, 3)>>>>) :
     p \in {"slt", "ne"}}

\* return g() p 0 ? v : h(), and a test of g's result after that.
PhiPrograms ==
  {Single(<<<<Alloca("x"), Call("c1", "g"), Store("c1", "x"), Icmp("k1", p, "c1", "zero"),
              If("k1", 2, 3)>>,
            <<Goto(4)>>,
            <<Call("c2", "h"), Goto(4)>>,
            <<Phi("p1", <<v, "c2">>, <<2, 3>>), Load("l1", "x"), Icmp("k2", "sgt", "l1", "zero"),
              If("k2", 5, 6)>>,
            <<Ret("p1")>>,
            <<Ret("l1")>>>>) :
     p \in {"slt", "ne"}, v \in {"m1", "c1"}}

\* a = g(); b = h(); do swap a and b while (h() p 0); return a: two phis
\* that read each other.
SwapPrograms ==
  {Single(<<<<Call("c1", "g"), Call("c2", "h"), Goto(2)>>,
            <<Phi("p1", <<v, "p2">>, <<1, 2>>), Phi("p2", <<"c2", "p1">>, <<1, 2>>),
              Call("t1", "h"), Icmp("k1", p, "t1", "zero"), If("k1", 2, 3)>>,
            <<Ret("p1")>>>>) :
     p \in {"slt", "ne"}, v \in {"m1", "c1"}}

\* x = g(); if (x < 0) x = k(); if (x p 0) return x; return 0;
AmbiguousPrograms ==
  {Single(<<<<Alloca("x"), Call("c1", "g"), Store("c1", "x"), Icmp("k1", "slt", "c1", "zero"),
              If("k1", 2, 3)>>,
            <<Call("c2", k), Store("c2", "x"), Goto(3)>>,
            <<Load("l1", "x"), Icmp("k2", p, "l1", "zero"), If("k2", 4, 5)>>,
            <<Ret("l1")>>,
            <<Ret("zero")>>>>) : p \in {"sgt", "ne"}, k \in {"g", "h"}}

\* switch (ret = g()) { case 0: ret = 1; break; case 1: case -1: ...; }
SwitchPrograms ==
  {Single(<<<<Alloca("ret"), Call("c1", "g"), Store("c1", "ret")>> \o load,
            <<Store("one", "ret"), Goto(4)>>,
            <<Goto(4)>>,
            <<Load("l3", "ret"), Ret("l3")>>>>) :
     load \in {<<Load("l1", "ret"), Switch("l1", to, cases)>> :
                 to \in {<<3, 2, 4>>, <<4, 2, 3>>}, cases \in {<<"zero", "one">>, <<"m1", "zero">>}}
              \union {<<Switch("c1", <<4, 2, 3>>, <<"zero", "m1">>)>>}}

\* f and e call each other: ret = e(); if (ret p 0) ret = v; return ret.
RecursivePrograms ==
  {[Program([f |-> <<<<Alloca("ret"), Call("c1", "e"), Store("c1", "ret"), Load("l1", "ret"),
                       Icmp("k1", p, "l1", "zero"), If("k1", 2, 3)>>,
                     <<Store("m1", "ret"), Goto(3)>>,
                     <<Load("l3", "ret"), Ret("l3")>>>>,
             e |-> <<<<Icmp("k1", "slt", "n", "zero"), If("k1", 2, 3)>>,
                     <<Ret(v)>>,
                     <<Call("c1", "f"), Call("c2", "d"), Ret("c1")>>>>,
             d |-> <<<<RetVoid>>>>],
            [f |-> {}, e |-> {"n"}, d |-> {}],
            <<<<"d">>, order>>, {2}) EXCEPT !.void = {"d"}] :
     p \in {"sgt", "eq"}, v \in {"zero", "one", "n"}, order \in {<<"f", "e">>, <<"e", "f">>}}

\* Pointers, casts, and truth values.
CastPrograms ==
  {[Single(<<<<Call("c1", "g"), Icmp("k1", p, "c1", "null"), If("k1", 2, 3)>>,
             <<CallOf("c2", "ERR_PTR", v), Plain("bitcast", "t1", <<"c2">>), Ret("t1")>>,
             <<Plain("bitcast", "t2", <<"c1">>), Ret("t2")>>>>)
    EXCEPT !.pointer = {"f"}] : p \in {"eq", "ne"}, v \in {"m1", "n"}}
  \union
  {Single(<<<<Call("c1", "g"), Plain("ptrtoint", "t1", <<"c1">>), Plain("sext", "t2", <<"t1">>),
              Icmp("k1", "slt", "t2", "zero"), If("k1", 2, 3)>>,
            <<Plain("trunc", "l1", <<"t2">>), Ret("l1")>>,
            <<Icmp("k2", "sgt", "t1", "one"), Plain("zext", "l2", <<"k2">>), Ret("l2")>>>>)}
  \union
  {Single(<<<<Call("c1", "g"), Icmp("k1", "sgt", "c1", "zero"), If("k1", 2, 3)>>,
            <<Ret("true")>>, <<Ret("text")>>>>)}
  \union
  {Single(<<<<Alloca("ret"), Alloca("x"), Call("c1", "g"), Plain("trunc", "t1", <<"c1">>),
              Store("t1", "ret"), Load("l1", "ret"), Icmp("k1", "slt", "l1", "zero"), If("k1", 2, 3)>>,
            <<Store("zero", "ret"), Goto(3)>>,
            <<Load("l3", "ret"), Ret("l3")>>>>)}

\* int ret = 0; g(&ret); return ret;  and  if (ret p 0) return ret; return v;
OutPrograms ==
  {Single(<<<<Alloca("ret"), Store("zero", "ret"), CallOf("c1", "g", "ret"), Load("l1", "ret"),
              Ret("l1")>>>>)}
  \union
  {Single(<<<<Alloca("ret")>> \o set \o <<CallOf("c1", "g", "ret"), Load("l1", "ret"),
              Icmp("k1", p, "l1", "zero"), If("k1", 2, 3)>>,
            <<Load("l3", "ret"), Ret("l3")>>,
            <<Ret(v)>>>>) :
     set \in {<<>>, <<Store("zero", "ret")>>}, p \in {"slt", "sge"}, v \in {"m1", "zero"}}

Accessing(access) ==
  Single(<<<<Alloca("x"), Call("c1", "g"), Store("c1", "x"), Load("l1", "x"),
             Icmp("k1", "eq", "l1", "null"), If("k1", 2, 3)>>,
           <<Ret("m1")>>,
           <<Load("l2", "x")>> \o access>>)

\* x = g(); if (x == NULL) return -1; *x = 0; return *x;
DereferencePrograms ==
  {Accessing(<<Store("zero", "l2"), Load("l3", "x"), Load("t1", "l3"), Ret("t1")>>)}

\* The same with the field of a structure; pointers to a global variable and to a
\* variable of f; and error pointers.
PointerPrograms ==
  DereferencePrograms
  \union
  {Accessing(access) :
     access \in {<<Gep("p1", "l2"), Store("one", "p1"), Load("l3", "x"), Gep("p2", "l3"),
                   Load("t1", "p2"), Ret("t1")>>,
                 <<Gep("p1", "l2"), Store("one", "p1"), Load("t1", "p1"), Ret("t1")>>}}
  \union
  {Single(<<<<Alloca("ret"), Store("zero", "ret"), Load("l1", "glob"), Icmp("k1", "slt", "l1", "zero"),
              If("k1", 2, 3)>>,
            <<Load("l2", "glob"), Store("l2", "ret"), Store("one", "glob"), Goto(3)>>,
            <<Load("l3", "ret"), Ret("l3")>>>>)}
  \union
  {Single(<<<<Alloca("ret"), Alloca("x"), Store("zero", "ret")>> \o point \o
            <<Store("m1", "l1"), Load("l3", "ret"), Ret("l3")>>>>) :
     point \in {<<Store("ret", "x"), Load("l1", "x")>>, <<Gep("l1", "ret")>>}}
  \union
  {Single(<<<<Call("c1", "g"), CallOf("c2", "IS_ERR", "c1"), Icmp("k1", "ne", "c2", "zero"),
              If("k1", 2, 3)>>,
            <<CallOf("t1", "PTR_ERR", "c1"), Ret("t1")>>,
            <<Ret("zero")>>>>)}

\* Where the content of a variable is not what the pass takes it for.
MemoryPrograms == OutPrograms \union StalePrograms \union DereferencePrograms

MCPrograms ==
  {[p EXCEPT !.params = IF "f" \in DOMAIN p.body /\ p.pointer # {} THEN [f |-> {"n"}] ELSE @] :
     p \in CheckPrograms \union StalePrograms \union LoopPrograms \union BackwardPrograms
           \union PhiPrograms \union SwapPrograms \union AmbiguousPrograms \union SwitchPrograms \union RecursivePrograms
           \union CastPrograms \union OutPrograms \union PointerPrograms}

\* What the proofs about ReturnConstraintsPass and ReturnRangePass ask of programs.
ASSUME MCProgramsAssumption == \A p \in MCPrograms : WellFormed(p)

MCInputs == -2..2
=============================================================================
