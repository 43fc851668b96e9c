-------------------------- MODULE MCSpecifications --------------------------
(***************************************************************************)
(* Two clients, two files, chunks of two bytes, and one crash of the       *)
(* bitcode server.  "ll" is a text file whose first two of three bytes     *)
(* parse as well; "bc" and "void" are what annotation makes of it and of   *)
(* an empty file; "junk" does not parse.                                   *)
(***************************************************************************)
EXTENDS Specifications

MCContents == {"", "ll", "bc", "void", "junk"}

MCLength == [c \in MCContents |->
  CASE c = "" -> 0 [] c = "ll" -> 3 [] c = "bc" -> 4 [] c = "void" -> 2 [] c = "junk" -> 1]

MCParses == {<<"", 0>>, <<"ll", 2>>, <<"ll", 3>>, <<"bc", 4>>, <<"void", 2>>}

MCAnnotated == [c \in MCContents |-> IF c = "" THEN "void" ELSE "bc"]

MCFunctions == [c \in MCContents |-> IF c \in {"ll", "bc"} THEN {"f"} ELSE {}]

MCTag(n, h, l) == [name |-> n, header |-> h, line |-> l]

\* The definitions of f are between two declarations.
MCTagFiles ==
  [tags |-> <<MCTag("f", TRUE, 1), MCTag("f", FALSE, 2), MCTag("f", FALSE, 3), MCTag("f", TRUE, 4)>>]

Line(n, t) == [name |-> n, text |-> t]

MCReplies == {<<Line("f", "lt")>>, <<Line("f", "gt"), Line("g", "bottom")>>, <<Line("g", "null")>>}

-----------------------------------------------------------------------------
(* What the clients do, and the files they find.                           *)

Infer(u, overwrite, llm, tags) ==
  [kind |-> "specifications", uri |-> u, out |-> u, overwrite |-> overwrite, llm |-> llm, tags |-> tags]

AnnotateTo(u, out) ==
  [kind |-> "annotate", uri |-> u, out |-> out, overwrite |-> FALSE, llm |-> FALSE, tags |-> ""]

File(a, b) == [u \in Uris |-> IF u = "u1" THEN a ELSE b]

Run(c, d, files, n) ==
  {[commands |-> [x \in Clients |-> IF x = "c1" THEN c ELSE d], file |-> f, crashes |-> n] :
     f \in files}

MCScenarios ==
  Run(Infer("u1", FALSE, TRUE, "tags"), Infer("u1", TRUE, TRUE, "tags"), {File("ll", Missing)}, 0)
  \union Run(Infer("u1", FALSE, TRUE, "none"), Infer("u2", FALSE, FALSE, ""),
             {File("ll", "junk")}, 1)
  \union Run(Infer("u1", TRUE, FALSE, ""), AnnotateTo("u1", "u1"), {File("ll", "ll"), File("", "ll")}, 1)
  \union Run(Infer("u2", FALSE, FALSE, ""), AnnotateTo("u1", "u2"), {File("ll", "ll"), File("ll", Missing)}, 1)
  \union Run(Infer("u1", FALSE, FALSE, ""), Infer("u2", TRUE, FALSE, ""), {File("bc", "bc")}, 1)

MCFiles == {s.file : s \in MCScenarios}
=============================================================================
