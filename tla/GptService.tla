----------------------------- MODULE GptService -----------------------------
(***************************************************************************)
(* The GPT service (gpt/service.py): a pool of threads that share one      *)
(* GptServicer.  A request about a function looks its definition up in a   *)
(* ctags file, of which the servicer keeps a dictionary, and asks the      *)
(* language model about it, a second time if the first reply leaves the    *)
(* function or the functions it calls out.  A request about third-party    *)
(* functions asks twice and uses the second reply.                         *)
(*                                                                         *)
(* The dictionary is shared without a lock: each access to it is a step.   *)
(* A reply is a sequence of lines, each with a name and a text.            *)
(***************************************************************************)
EXTENDS Naturals, Sequences, SequencesExt

CONSTANTS
  Requesters,  \* the tasks that ask; each has one request at a time
  TagFiles,    \* the ctags files that exist: sequences of tags
  Replies,     \* what the model may reply
  Attempts     \* stop_after_attempt(3)

\* A tag says where a function is: in a header or in a source file, and on
\* which lines.  Tags without a file or without lines are left out.
ASSUME TagsAssumption ==
  \A t \in DOMAIN TagFiles : TagFiles[t] \in Seq([name : STRING, header : BOOLEAN, line : Nat])

ASSUME RepliesAssumption ==
  /\ Replies \subseteq Seq([name : STRING, text : {"lt", "gt", "bottom", "null", "other"}])
  /\ Attempts \in Nat \ {0}

VARIABLES
  ctags,   \* self.ctags: partial functions from names to tags, by file
  mixed,   \* ctags files that two requests have read at the same time (history)
  gpt      \* per requester: its request

service == <<ctags, mixed, gpt>>

\* A request.  `k` is the next tag of a reader; `found` the tags that the file
\* name, the first and the last line of the definition are taken from; `beside`
\* says that another thread read the ctags file at that time; `tries` counts
\* the failed attempts; `first` are the specifications in the first reply.
NoRequest ==
  [at |-> "none", name |-> "", tags |-> "", k |-> 0, found |-> <<>>,
   beside |-> FALSE, prompt |-> 1, tries |-> 0,
   first |-> <<>>, specifications |-> <<>>]

Asks(r, at) == gpt[r].at = at

Answered(r) == gpt[r].at \in {"answered", "not found", "failed"}

Reading == {"reading", "indexing", "storing"}

ReadingTags(t) == {r \in Requesters : gpt[r].tags = t /\ gpt[r].at \in Reading}

\* The tag that a reader is at.
Tag(r) == TagFiles[gpt[r].tags][gpt[r].k]

-----------------------------------------------------------------------------
(* The requests begin.                                                     *)

GetGptThirdPartySpecifications(r) ==
  gpt' = [gpt EXCEPT ![r] = [NoRequest EXCEPT !.at = "complete"]]

GetGptSpecification(r, f, t) ==
  gpt' = [gpt EXCEPT ![r] = [NoRequest EXCEPT !.at = "check", !.name = f, !.tags = t]]

-----------------------------------------------------------------------------
(* read_function_definition.                                               *)

CheckCache(r) ==
  /\ Asks(r, "check")
  /\ gpt' = [gpt EXCEPT ![r].at = IF gpt[r].tags \in DOMAIN ctags THEN "find" ELSE "reset"]
  /\ UNCHANGED <<ctags, mixed>>

\* The dictionary of the file is emptied before the file is opened; opening
\* a file that does not exist raises, and the empty dictionary stays.
ResetCache(r) ==
  LET t == gpt[r].tags IN
  /\ Asks(r, "reset")
  /\ ctags' = [u \in DOMAIN ctags \union {t} |-> IF u = t THEN <<>> ELSE ctags[u]]
  /\ mixed' = IF ReadingTags(t) # {} THEN mixed \union {t} ELSE mixed
  /\ gpt' = IF t \in DOMAIN TagFiles
            THEN [gpt EXCEPT ![r].at = "reading", ![r].k = 1]
            ELSE [gpt EXCEPT ![r].at = "failed"]

\* A tag is stored if its name is not in the dictionary.
ReadTag(r) ==
  /\ Asks(r, "reading") /\ gpt[r].k <= Len(TagFiles[gpt[r].tags])
  /\ gpt' = [gpt EXCEPT ![r].at =
               IF Tag(r).name \in DOMAIN ctags[gpt[r].tags] THEN "indexing" ELSE "storing"]
  /\ UNCHANGED <<ctags, mixed>>

\* Mutant of IndexTag: the first tag of a name is kept, in a header or not.
IndexTagFirst(r) ==
  /\ Asks(r, "indexing") /\ Tag(r).name \in DOMAIN ctags[gpt[r].tags]
  /\ gpt' = [gpt EXCEPT ![r].at = "reading", ![r].k = @ + 1]
  /\ UNCHANGED <<ctags, mixed>>

\* Mutant of IndexTag: the last tag of a name is kept.
IndexTagLast(r) ==
  /\ Asks(r, "indexing") /\ Tag(r).name \in DOMAIN ctags[gpt[r].tags]
  /\ gpt' = [gpt EXCEPT ![r].at = "storing"]
  /\ UNCHANGED <<ctags, mixed>>

\* Or if the tag there is in a header.
IndexTag(r) ==
  LET tags == ctags[gpt[r].tags] IN
  /\ Asks(r, "indexing") /\ Tag(r).name \in DOMAIN tags
  /\ gpt' = IF tags[Tag(r).name].header
            THEN [gpt EXCEPT ![r].at = "storing"]
            ELSE [gpt EXCEPT ![r].at = "reading", ![r].k = @ + 1]
  /\ UNCHANGED <<ctags, mixed>>

\* Another thread has emptied the dictionary after the test: the KeyError
\* ends the reading, and is taken for that of a name without a tag.
LoseTag(r) ==
  LET t == gpt[r].tags IN
  /\ Asks(r, "indexing") /\ Tag(r).name \notin DOMAIN ctags[t]
  /\ gpt' = [gpt EXCEPT ![r].at = "not found", ![r].beside = ReadingTags(t) \ {r} # {}]
  /\ UNCHANGED <<ctags, mixed>>

StoreTag(r) ==
  LET tags == ctags[gpt[r].tags] IN
  /\ Asks(r, "storing")
  /\ ctags' = [ctags EXCEPT ![gpt[r].tags] =
                 [n \in DOMAIN tags \union {Tag(r).name} |->
                    IF n = Tag(r).name THEN Tag(r) ELSE tags[n]]]
  /\ gpt' = [gpt EXCEPT ![r].at = "reading", ![r].k = @ + 1]
  /\ UNCHANGED mixed

EndTags(r) ==
  /\ Asks(r, "reading") /\ gpt[r].k > Len(TagFiles[gpt[r].tags])
  /\ gpt' = [gpt EXCEPT ![r].at = "find"]
  /\ UNCHANGED <<ctags, mixed>>

\* A name without a tag: the KeyError is caught, the response is empty.
NotFound(r) ==
  LET t == gpt[r].tags IN
  /\ Asks(r, "find") /\ gpt[r].name \notin DOMAIN ctags[t]
  /\ gpt' = [gpt EXCEPT ![r].at = "not found", ![r].beside = @ \/ ReadingTags(t) # {}]
  /\ UNCHANGED <<ctags, mixed>>

\* The file name, the first and the last line are looked up one after the
\* other.
FindDefinition(r) ==
  LET t == gpt[r].tags IN
  /\ Asks(r, "find") /\ gpt[r].name \in DOMAIN ctags[t]
  /\ gpt' = [gpt EXCEPT ![r].at = IF Len(gpt[r].found) < 2 THEN "find" ELSE "complete",
                        ![r].found = Append(@, ctags[t][gpt[r].name]),
                        ![r].beside = @ \/ ReadingTags(t) # {}]
  /\ UNCHANGED <<ctags, mixed>>

-----------------------------------------------------------------------------
(* The language model.                                                     *)

\* completion_with_backoff: another attempt, or an exception after the last,
\* which nothing catches.
FailCompletion(r) ==
  /\ Asks(r, "complete")
  /\ gpt' = [gpt EXCEPT ![r].tries = @ + 1,
                        ![r].at = IF gpt[r].tries + 1 < Attempts THEN "complete" ELSE "failed"]
  /\ UNCHANGED <<ctags, mixed>>

\* The positions of the lines of a reply that have one of these texts.
Lines(reply, texts) == {k \in DOMAIN reply : reply[k].text \in texts}

LinesOn(reply, texts, n) == {k \in Lines(reply, texts) : reply[k].name = n}

NamesIn(reply, texts) == {reply[k].name : k \in Lines(reply, texts)}

\* The lines of the first reply: the last specification of a name counts.
FirstSpecifications(reply) ==
  LET known == {"lt", "gt"}
  IN [n \in NamesIn(reply, known) |-> reply[Max(LinesOn(reply, known, n))].text]

\* Only in the second reply "null" is understood.
Translated(text) == IF text = "null" THEN "eq" ELSE text

\* Mutant of SecondSpecifications: what is known is overwritten.
SecondOverrides(specs, reply) ==
  LET known == {"lt", "gt", "null"}
  IN [n \in DOMAIN specs \union NamesIn(reply, known) |->
        IF n \in NamesIn(reply, known) THEN Translated(reply[Min(LinesOn(reply, known, n))].text)
        ELSE specs[n]]

\* The lines of the second: a name that has a specification is skipped, so
\* the first specification of a name counts.
SecondSpecifications(specs, reply) ==
  LET known == {"lt", "gt", "null"}
  IN [n \in DOMAIN specs \union NamesIn(reply, known) |->
        IF n \in DOMAIN specs THEN specs[n]
        ELSE Translated(reply[Min(LinesOn(reply, known, n))].text)]

\* Only the function, or not the function, is in the first reply.
AsksAgain(r, reply) ==
  LET inferred == \E k \in DOMAIN reply : reply[k].name = gpt[r].name
  IN ~inferred \/ Len(reply) = 1

\* The model replies to the first prompt.  Third-party functions, which
\* have no name here, are always asked about again.
FirstReply(r, reply) ==
  /\ Asks(r, "complete") /\ gpt[r].prompt = 1
  /\ LET again == gpt[r].name = "" \/ AsksAgain(r, reply)
         specs == IF gpt[r].name = "" THEN <<>> ELSE FirstSpecifications(reply)
     IN gpt' = [gpt EXCEPT ![r].at = IF again THEN "complete" ELSE "answered",
                           ![r].prompt = 2, ![r].tries = 0, ![r].k = 0,
                           ![r].found = <<>>, ![r].beside = FALSE,
                           ![r].first = specs, ![r].specifications = specs]
  /\ UNCHANGED <<ctags, mixed>>

\* All that is known of third-party functions comes from the second reply.
ThirdPartySpecifications(reply) == FirstSpecifications(reply)

SecondReply(r, reply) ==
  /\ Asks(r, "complete") /\ gpt[r].prompt = 2
  /\ gpt' = [gpt EXCEPT ![r].at = "answered",
                        ![r].specifications =
                          IF gpt[r].name = "" THEN ThirdPartySpecifications(reply)
                          ELSE SecondSpecifications(@, reply)]
  /\ UNCHANGED <<ctags, mixed>>

-----------------------------------------------------------------------------

GptInit ==
  /\ ctags = <<>>
  /\ mixed = {}
  /\ gpt = [r \in Requesters |-> NoRequest]

\* The service thread of a request.
GptStep(r) ==
  \/ CheckCache(r) \/ ResetCache(r) \/ ReadTag(r) \/ IndexTag(r) \/ LoseTag(r) \/ StoreTag(r)
  \/ EndTags(r) \/ NotFound(r) \/ FindDefinition(r)
  \/ FailCompletion(r)
  \/ \E reply \in Replies : FirstReply(r, reply) \/ SecondReply(r, reply)
=============================================================================
