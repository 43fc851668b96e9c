--------------------------- MODULE Specifications ---------------------------
(***************************************************************************)
(* From a bitcode file to its specifications: clients, the bitcode server, *)
(* the EESI server and the GPT service together.                           *)
(*                                                                         *)
(* A client runs get_specifications_uri (cli/eesi/commands.py): it records *)
(* the file in the database if it is not there, registers it with the      *)
(* bitcode server, looks for stored specifications, and has the EESI       *)
(* server infer them.  The task there (eesi/src/eesi_server.cc) downloads  *)
(* the file, parses it, asks the GPT service and answers.  Another client  *)
(* has a file annotated.  Operations, their names and the polling are the  *)
(* subject of TaskService: here a client sees that its task has ended.     *)
(***************************************************************************)
EXTENDS BitcodeService, GptService

CONSTANTS
  Clients,    \* CLI processes; each has at most one task
  Scenarios,  \* commands that the clients may run, the files they find, and a
              \* bound on the crashes
  Functions   \* per content: the function the model is asked about, or none

Commands ==
  [kind : {"specifications", "annotate"}, uri : Uris, out : Uris,
   overwrite : BOOLEAN, llm : BOOLEAN, tags : STRING]

ASSUME ClientsAssumption == Callers = Clients /\ Requesters = Clients

ASSUME ScenariosAssumption ==
  /\ \A s \in Scenarios : s.commands \in [Clients -> Commands] /\ s.file \in Files
                         /\ s.crashes \in 0..MaxCrashes
  /\ Functions \in [Contents -> SUBSET STRING]

VARIABLES
  command,    \* per client: its command; never changes
  phase,      \* per client: where it is
  handle,     \* per client: the id that RegisterBitcode gave it
  eesiUp,     \* the EESI server is alive
  task,       \* per client: its task there
  received,   \* per client: what the task downloaded, a content and a length
  filenames,  \* records of the database's filenames collection
  stored      \* per id: records of GetSpecificationsResponse

clients == <<command, phase, handle>>
eesi == <<eesiUp, task, received>>
db == <<filenames, stored>>
vars == <<bitcode, service, clients, eesi, db>>

Enter(c, p) == phase' = [phase EXCEPT ![c] = p]

Recorded(u) == \E r \in filenames : r.uri = u

\* The bytes that were received of a content; no bytes are those of Nothing.
Bytes(content, n) == IF n = 0 THEN <<Nothing, 0>> ELSE <<content, n>>

Whole(content) == <<content, Length[content]>>

-----------------------------------------------------------------------------
(* The client.                                                             *)

\* read_id_for_uri.
LookUpUri(c) ==
  /\ phase[c] = "lookup"
  /\ Enter(c, IF Recorded(command[c].uri) THEN "handle" ELSE "register")
  /\ UNCHANGED <<bitcode, service, command, handle, eesi, db>>

CallRegister(c) ==
  /\ phase[c] \in {"register", "handle"} /\ rpc[c].op = "none"
  /\ RegisterBitcode(c, command[c].uri)
  /\ UNCHANGED <<table, service, clients, eesi, db>>

\* An RPC error ends the command.
Registered(c) ==
  /\ phase[c] \in {"register", "handle"} /\ Ended(c)
  /\ IF rpc[c].at = "failed"
     THEN Enter(c, "failed") /\ UNCHANGED handle
     ELSE /\ handle' = [handle EXCEPT ![c] = rpc[c].id]
          /\ Enter(c, CASE phase[c] = "register" -> "record"
                        [] command[c].kind = "annotate" -> "annotate"
                        [] command[c].overwrite -> "delete"
                        [] OTHER -> "search")
  /\ rpc' = [rpc EXCEPT ![c] = NoCall]
  /\ UNCHANGED <<table, service, command, eesi, db>>

\* Mutant of FindRecord: the record is inserted without looking.
FindNoRecord(c) ==
  /\ phase[c] = "record"
  /\ Enter(c, "insert")
  /\ UNCHANGED <<bitcode, service, command, handle, eesi, db>>

\* insert_bitcode: a URI that has a record is not inserted.
FindRecord(c) ==
  /\ phase[c] = "record"
  /\ Enter(c, IF Recorded(command[c].uri) THEN "handle" ELSE "insert")
  /\ UNCHANGED <<bitcode, service, command, handle, eesi, db>>

\* `overtakes` says that another client has found no record either.
InsertRecord(c) ==
  /\ phase[c] = "insert"
  /\ filenames' = filenames \union
       {[by |-> c, uri |-> command[c].uri, id |-> handle[c],
         overtakes |-> \E d \in Clients \ {c} :
                         phase[d] = "insert" /\ command[d].uri = command[c].uri]}
  /\ Enter(c, "handle")
  /\ UNCHANGED <<bitcode, service, command, handle, eesi, stored>>

DeleteStored(c) ==
  /\ phase[c] = "delete"
  /\ stored' = [stored EXCEPT ![handle[c]] = {}]
  /\ Enter(c, "search")
  /\ UNCHANGED <<bitcode, service, command, handle, eesi, filenames>>

SearchStored(c) ==
  /\ phase[c] = "search"
  /\ Enter(c, IF stored[handle[c]] # {} THEN "done" ELSE "submit")
  /\ UNCHANGED <<bitcode, service, command, handle, eesi, db>>

\* Mutant of Submit: a server that is not there is taken for success.
SubmitQuietly(c) ==
  /\ phase[c] = "submit"
  /\ IF eesiUp
     THEN task' = [task EXCEPT ![c] = "queued"] /\ Enter(c, "waiting")
     ELSE Enter(c, "done") /\ UNCHANGED task
  /\ UNCHANGED <<bitcode, service, command, handle, eesiUp, received, db>>

Submit(c) ==
  /\ phase[c] = "submit"
  /\ IF eesiUp
     THEN task' = [task EXCEPT ![c] = "queued"] /\ Enter(c, "waiting")
     ELSE Enter(c, "failed") /\ UNCHANGED task
  /\ UNCHANGED <<bitcode, service, command, handle, eesiUp, received, db>>

\* The operation is done and its response is stored, or the server is dead.
Collect(c) ==
  /\ phase[c] = "waiting"
  /\ \/ /\ task[c] = "finished"
        /\ stored' = [stored EXCEPT ![handle[c]] = @ \union {[by |-> c, bytes |-> received[c]]}]
        /\ Enter(c, "done")
     \/ ~eesiUp /\ Enter(c, "failed") /\ UNCHANGED stored
  /\ UNCHANGED <<bitcode, service, command, handle, eesi, filenames>>

\* The client of the annotation is a test (bitcode_service_test.cc): the CLI
\* has no command for this RPC.
CallAnnotate(c) ==
  /\ phase[c] = "annotate" /\ rpc[c].op = "none"
  /\ Annotate(c, handle[c], command[c].out)
  /\ UNCHANGED <<table, service, clients, eesi, db>>

AnnotateReplied(c) ==
  /\ phase[c] = "annotate" /\ Ended(c)
  /\ Enter(c, IF rpc[c].at = "failed" THEN "failed" ELSE "done")
  /\ rpc' = [rpc EXCEPT ![c] = NoCall]
  /\ UNCHANGED <<table, service, command, handle, eesi, db>>

-----------------------------------------------------------------------------
(* GetSpecificationsTask::execute.                                         *)

TaskDownload(c) ==
  /\ eesiUp /\ task[c] = "queued"
  /\ DownloadBitcode(c, handle[c])
  /\ task' = [task EXCEPT ![c] = "downloading"]
  /\ UNCHANGED <<table, service, clients, eesiUp, received, db>>

\* Mutant of TaskParse: what one Read returns is parsed.
TaskParseChunk(c) ==
  LET bytes == Bytes(rpc[c].content, rpc[c].sent) IN
  /\ eesiUp /\ task[c] = "downloading" /\ (Ended(c) \/ rpc[c].chunks > 0)
  /\ received' = [received EXCEPT ![c] = bytes]
  /\ IF bytes \in Parses
     THEN /\ task' = [task EXCEPT ![c] = "thirdparty"]
          /\ rpc' = [rpc EXCEPT ![c] = NoCall]
          /\ UNCHANGED eesiUp
     ELSE /\ task' = [d \in Clients |-> "none"]
          /\ rpc' = [d \in Clients |-> IF task[d] = "downloading" THEN NoCall ELSE rpc[d]]
          /\ eesiUp' = FALSE
  /\ UNCHANGED <<table, service, clients, db>>

\* The stream has ended.  Its status is not looked at: what has arrived is
\* parsed, and abort() ends the server, with all of its tasks, if it cannot.
TaskParse(c) ==
  LET bytes == Bytes(rpc[c].content, rpc[c].sent) IN
  /\ eesiUp /\ task[c] = "downloading" /\ Ended(c)
  /\ received' = [received EXCEPT ![c] = bytes]
  /\ IF bytes \in Parses
     THEN /\ task' = [task EXCEPT ![c] = "thirdparty"]
          /\ rpc' = [rpc EXCEPT ![c] = NoCall]
          /\ UNCHANGED eesiUp
     ELSE /\ task' = [d \in Clients |-> "none"]
          /\ rpc' = [d \in Clients |-> IF task[d] = "downloading" THEN NoCall ELSE rpc[d]]
          /\ eesiUp' = FALSE
  /\ UNCHANGED <<table, service, clients, db>>

\* Third-party functions are asked about with a language model or without.
TaskThirdParty(c) ==
  /\ eesiUp /\ task[c] = "thirdparty"
  /\ GetGptThirdPartySpecifications(c)
  /\ task' = [task EXCEPT ![c] = "asking third party"]
  /\ UNCHANGED <<bitcode, ctags, mixed, clients, eesiUp, received, db>>

\* A failed request counts as an empty answer.  The function is asked about
\* if a language model is named.
TaskAsk(c) ==
  /\ eesiUp /\ task[c] = "asking third party" /\ Answered(c)
  /\ \/ \E f \in Functions[received[c][1]] :
          /\ command[c].llm
          /\ GetGptSpecification(c, f, command[c].tags)
          /\ task' = [task EXCEPT ![c] = "asking"]
     \/ /\ ~command[c].llm \/ Functions[received[c][1]] = {}
        /\ task' = [task EXCEPT ![c] = "finished"]
        /\ gpt' = [gpt EXCEPT ![c] = NoRequest]
  /\ UNCHANGED <<bitcode, ctags, mixed, clients, eesiUp, received, db>>

\* Mutant of TaskFinish: a failed request is waited for.
TaskFinishAnswered(c) ==
  /\ eesiUp /\ task[c] = "asking" /\ gpt[c].at = "answered"
  /\ task' = [task EXCEPT ![c] = "finished"]
  /\ gpt' = [gpt EXCEPT ![c] = NoRequest]
  /\ UNCHANGED <<bitcode, ctags, mixed, clients, eesiUp, received, db>>

TaskFinish(c) ==
  /\ eesiUp /\ task[c] = "asking" /\ Answered(c)
  /\ task' = [task EXCEPT ![c] = "finished"]
  /\ gpt' = [gpt EXCEPT ![c] = NoRequest]
  /\ UNCHANGED <<bitcode, ctags, mixed, clients, eesiUp, received, db>>

-----------------------------------------------------------------------------

Init ==
  /\ BitcodeInit /\ GptInit
  /\ \E s \in Scenarios : command = s.commands /\ file = s.file
  /\ phase = [c \in Clients |-> "lookup"]
  /\ handle = [c \in Clients |-> Nothing]
  /\ eesiUp = TRUE
  /\ task = [c \in Clients |-> "none"]
  /\ received = [c \in Clients |-> <<Nothing, 0>>]
  /\ filenames = {}
  /\ stored = [h \in Contents |-> {}]

ClientStep(c) ==
  \/ LookUpUri(c) \/ CallRegister(c) \/ Registered(c) \/ FindRecord(c) \/ InsertRecord(c)
  \/ DeleteStored(c) \/ SearchStored(c) \/ Submit(c) \/ Collect(c)
  \/ CallAnnotate(c) \/ AnnotateReplied(c)

TaskStep(c) ==
  TaskDownload(c) \/ TaskParse(c) \/ TaskThirdParty(c) \/ TaskAsk(c) \/ TaskFinish(c)

Serve(c) == BitcodeStep(c) /\ UNCHANGED <<service, clients, eesi, db>>

Answer(c) == GptStep(c) /\ UNCHANGED <<bitcode, clients, eesi, db>>

\* A crash that comes when nobody needs the server any more is left out.
Crash ==
  /\ \E c \in Clients : /\ phase[c] \notin {"done", "failed"}
                        /\ task[c] \in {"none", "queued", "downloading"}
  /\ \E s \in Scenarios : s.commands = command /\ crashes < s.crashes
  /\ CrashBitcode /\ UNCHANGED <<service, clients, eesi, db>>

Next ==
  \/ \E c \in Clients : ClientStep(c) \/ TaskStep(c) \/ Serve(c) \/ Answer(c)
  \/ Crash

Spec == Init /\ [][Next]_vars

\* Processes and threads run on, and the language model's client either
\* gets a reply or raises.
FairSpec ==
  /\ Spec
  /\ \A c \in Clients : /\ WF_vars(ClientStep(c)) /\ WF_vars(TaskStep(c))
                        /\ WF_vars(Serve(c)) /\ WF_vars(Answer(c))

-----------------------------------------------------------------------------
(* Properties.                                                             *)

TypeOK ==
  /\ BitcodeTypeOK
  /\ phase \in [Clients -> {"lookup", "register", "record", "insert", "handle", "delete",
                            "search", "submit", "waiting", "annotate", "done", "failed"}]
  /\ handle \in [Clients -> Contents]
  /\ task \in [Clients -> {"none", "queued", "downloading", "thirdparty",
                           "asking third party", "asking", "finished"}]
  /\ received \in [Clients -> Contents \X Nat]
  /\ \A h \in Contents : \A r \in stored[h] : r.by \in Clients /\ r.bytes \in Contents \X Nat

\* The specifications stored for a file were inferred from its bytes, all
\* of them: from nothing instead only if the bitcode server has lost the
\* handle, in a crash or a race, or the file; from a part of them only after
\* a crash; from others only if the same URI has had both contents.
StoredAreOfFile ==
  \A h \in Contents : \A r \in stored[h] :
    \/ r.bytes = Whole(h)
    \/ r.bytes = <<Nothing, 0>> /\ (crashes > 0 \/ raced)
    \/ r.bytes[1] = h /\ crashes > 0
    \/ r.bytes[1] # h /\ \E u \in Uris : {<<u, h>>, <<u, r.bytes[1]>>} \subseteq held

\* A download that ends normally has sent the whole file, in as few chunks
\* as hold it but at least one.
DownloadsWhole ==
  \A c \in Clients :
    At(c, "download", "replied") =>
      LET n == Length[rpc[c].content]
      IN /\ rpc[c].sent = n
         /\ rpc[c].chunks * kChunkSize >= n
         /\ rpc[c].chunks > 0 /\ (rpc[c].chunks - 1) * kChunkSize < Max({n, 1})

\* The EESI server dies, with the tasks of all its clients, only of a file
\* that is no IR, or of a download that a crash cut off.
ServerSurvives ==
  eesiUp \/ \E c \in Clients :
    /\ received[c] \notin Parses
    /\ crashes > 0 \/ Whole(received[c][1]) \notin Parses

\* The URI that a handle resolves to has had the content that the handle
\* names, and a handle that a client was given resolves unless the server
\* has crashed or threads have raced.
HandlesResolve ==
  /\ \A i \in DOMAIN registered : <<registered[i], i>> \in held
  /\ \A c \in Clients :
       phase[c] \in {"delete", "search", "submit", "waiting", "annotate"} =>
         handle[c] \in DOMAIN registered \/ crashes > 0 \/ raced

\* A URI has two records only if two clients looked it up before either of
\* them recorded it.
UriRecordedOnce ==
  \A r, s \in filenames : r # s /\ r.uri = s.uri => r.overtakes \/ s.overtakes

\* A command that ends well leaves specifications for its file, unless
\* another one has deleted them to replace them and not done so, or failed.
DoneMeansStored ==
  \A c \in Clients :
    phase[c] = "done" /\ command[c].kind = "specifications" =>
      \/ stored[handle[c]] # {}
      \/ \E d \in Clients : /\ command[d].overwrite /\ handle[d] = handle[c]
                            /\ phase[d] \in {"search", "submit", "waiting", "failed"}

\* The tag of name n in the ctags file t: the first in a source file, or
\* the last.
TagsOf(t, n) ==
  IF t \in DOMAIN TagFiles THEN {k \in DOMAIN TagFiles[t] : TagFiles[t][k].name = n} ELSE {}

Sources(t, n) == {k \in TagsOf(t, n) : ~TagFiles[t][k].header}

TagOf(t, n) ==
  TagFiles[t][IF Sources(t, n) # {} THEN Min(Sources(t, n)) ELSE Max(TagsOf(t, n))]

\* No definition is missed and none taken for another, unless another request
\* was reading the ctags file at the time; the one that the model is asked
\* about is the one that the file names, unless two requests ever read it
\* at the same time.
DefinitionFound ==
  \A r \in Clients :
    LET t == gpt[r].tags
        n == gpt[r].name
    IN n # "" /\ ~gpt[r].beside =>
         /\ gpt[r].at = "complete" /\ gpt[r].prompt = 1 =>
              \A i \in 1..3 : /\ \E k \in TagsOf(t, n) : gpt[r].found[i] = TagFiles[t][k]
                             /\ t \notin mixed => gpt[r].found[i] = TagOf(t, n)
         /\ gpt[r].at = "not found" => TagsOf(t, n) = {}

\* Whatever requests read a ctags file at the same time, empty each other's
\* dictionary and are stopped by that: when the last has read it, no name
\* is missing.
CacheComplete ==
  \A t \in DOMAIN ctags :
    ReadingTags(t) = {} =>
      /\ \A n \in DOMAIN ctags[t] :
           /\ \E k \in TagsOf(t, n) : ctags[t][n] = TagFiles[t][k]
           /\ t \notin mixed => ctags[t][n] = TagOf(t, n)
      /\ t \in DOMAIN TagFiles =>
           \A k \in DOMAIN TagFiles[t] : TagFiles[t][k].name \in DOMAIN ctags[t]

\* A header is not referred to if there is a source file (the comment in
\* read_ctags).
SourcePreferred ==
  \A t \in DOMAIN ctags : \A n \in DOMAIN ctags[t] :
    ReadingTags(t) = {} /\ Sources(t, n) # {} => ~ctags[t][n].header

\* A second prompt adds specifications to those of the first reply and
\* changes none.
FirstReplyKept ==
  \A r \in Clients :
    gpt[r].at = "answered" => \A n \in DOMAIN gpt[r].first :
      n \in DOMAIN gpt[r].specifications /\ gpt[r].specifications[n] = gpt[r].first[n]

\* Every command ends, with its specifications stored or with an error.
CommandsEnd == \A c \in Clients : <>(phase[c] \in {"done", "failed"})
=============================================================================
