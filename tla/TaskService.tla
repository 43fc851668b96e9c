----------------------------- MODULE TaskService -----------------------------
(***************************************************************************)
(* Long-running tasks of the two C++ servers and the CLI clients that wait *)
(* for them.                                                               *)
(*                                                                         *)
(* One server process runs the RPC that starts a task, the TBB tasks, and  *)
(* the operations service, whose table maps operation names to the latest  *)
(* Operation (common/src/operations_service.cc).  A client runs one        *)
(* `...All` command: it skips the bitcode files the database has an answer *)
(* for, unless it overwrites: then it deletes the answers first.  It hands *)
(* the rest to wait_for_operations (cli/operations/wait.py), which stores  *)
(* each finished operation in the database.  Clients run concurrently; a   *)
(* rerun of a command that failed is one more client.                      *)
(*                                                                         *)
(* UpdateOperation is two steps: `find` locks an existing entry, but when  *)
(* it finds none the `insert` that follows is a call of its own.           *)
(***************************************************************************)
EXTENDS Naturals, FiniteSets

CONSTANTS
  Clients,      \* CLI processes
  Overwriters,  \* the clients whose command has --overwrite
  Ids,          \* bitcode files, by the hash that identifies them
  MaxTasks,     \* max_tasks of wait_for_operations
  MaxSecond,    \* bound: the last second of the server's clock
  MaxLost,      \* bound: how many clients see an RPC raise while the server is up
  MaxSkipped,   \* bound: how many requests lack their prerequisites
  MaxRestarts   \* bound: how often a dead server is started again

ASSUME InstanceAssumption ==
  Clients # {} /\ Overwriters \subseteq Clients /\ Ids # {} /\ IsFiniteSet(Ids)

ASSUME BoundsAssumption ==
  /\ MaxTasks \in Nat \ {0}
  /\ MaxSecond \in Nat
  /\ MaxLost \in Nat
  /\ MaxSkipped \in Nat
  /\ MaxRestarts \in Nat

Requests == Clients \X Ids

\* GetTaskName: RPC name, bitcode id and a time stamp that counts seconds.
\* All requests to one service use the same RPC.
Names == Ids \X (0..MaxSecond)

VARIABLES
  service,      \* which server this is; never changes
  up,           \* the server process is alive
  restarts,     \* how often it was started again
  second,       \* the server's wall clock
  table,        \* operation_progress_
  task,         \* per request: its tbb::task
  issued,       \* <<request, name>> for each name GetTaskName gave out
  phase,        \* per client: where the command is
  unchecked,    \* per client: ids it has not looked up in the database
  toSend,       \* per client: id_requests
  waiting,      \* per client: waiting_for_results, by id
  toPoll,       \* per client: rest of the current polling round
  call,         \* per client: progress of the RPC it is blocked in
  callId,       \* per client: the id that RPC is about
  answer,       \* per client: the reply to its last GetOperation
  skipped,      \* requests that a command gave up for want of its prerequisites
  lost,         \* clients that saw an RPC raise
  db,           \* per id: stored records
  delivered     \* history: <<request, source>> GetOperation handed out

server   == <<service, up, restarts, second>>
clients  == <<skipped, phase, unchecked, toSend, waiting, toPoll>>
rpcs     == <<call, callId, answer>>
vars     == <<server, table, task, issued, clients, rpcs, lost, db, delivered>>

\* An entry of the table: src is the request whose task wrote the result,
\* result what the oneof of the Operation holds.
NoRequest == CHOOSE r \in Requests : TRUE
Absent == [status |-> "absent", src |-> NoRequest, result |-> "none"]
Running == [status |-> "running", src |-> NoRequest, result |-> "none"]
Done(r, res) == [status |-> "done", src |-> r, result |-> res]

Results == {"response", "error"}
Entries == {Absent, Running} \union {Done(r, res) : r \in Requests, res \in Results}

\* A record of the database: who stored it, whose result it is.
Records == [by : Clients, src : Requests, result : Results]

Present(n) == table[n].status # "absent"

-----------------------------------------------------------------------------
(* The operations service.                                                 *)

\* Mutants of UpdateFound: the guard is dropped; an existing entry stays.
UpdateFoundAlways(n, op) == [table EXCEPT ![n] = op]

UpdateFoundNever(n, op) == table

\* UpdateOperation once `find` has locked the entry: a finished operation is
\* not replaced by an unfinished one.
UpdateFound(n, op) ==
  IF table[n].status = "done" /\ op.status # "done"
  THEN table
  ELSE [table EXCEPT ![n] = op]

\* UpdateOperation after `find` found nothing: the insertion has no effect
\* if the key has appeared in between.
UpdateInsert(n, op) ==
  IF Present(n) THEN table ELSE [table EXCEPT ![n] = op]

\* Mutants of AfterGet: the entry is erased whether done or not; results are
\* cached.
AfterGetErases(n) == [table EXCEPT ![n] = Absent]

AfterGetCaches(n) == table

\* GetOperation copies the entry and erases it once it is done.
AfterGet(n) ==
  IF table[n].status = "done"
  THEN [table EXCEPT ![n] = Absent]
  ELSE table

-----------------------------------------------------------------------------
(* max_tasks.                                                              *)

\* Mutant of MaySend: one task too many.
MaySendOneMore(c) == Cardinality(waiting[c]) <= MaxTasks

\* wait_for_operations sends while fewer than max_tasks are in flight.
MaySend(c) == Cardinality(waiting[c]) < MaxTasks

-----------------------------------------------------------------------------
(* The RPC that starts a task, run by a gRPC thread while the client waits. *)

\* The client sends one of its requests.  The handler names the operation and looks the name up.
Submit(c, id) ==
  LET n == <<id, second>> IN
  /\ phase[c] = "sending"
  /\ call[c] = "none"
  /\ id \in toSend[c]
  /\ MaySend(c)
  /\ up
  /\ issued' = issued \union {<<<<c, id>>, n>>}
  /\ callId' = [callId EXCEPT ![c] = id]
  /\ \/ /\ Present(n)
        /\ table' = UpdateFound(n, Running)
        /\ call' = [call EXCEPT ![c] = "enqueue"]
     \/ /\ ~Present(n)
        /\ call' = [call EXCEPT ![c] = "insert"]
        /\ UNCHANGED table
  /\ UNCHANGED <<server, task, clients, answer, lost, db, delivered>>

\* The insertion of an operation whose name was not found.
InsertStarted(c, n) ==
  /\ up
  /\ call[c] = "insert"
  /\ <<<<c, callId[c]>>, n>> \in issued
  /\ table' = UpdateInsert(n, Running)
  /\ call' = [call EXCEPT ![c] = "enqueue"]
  /\ UNCHANGED <<server, task, issued, clients, callId, answer, lost, db, delivered>>

\* tbb::task::enqueue, then the reply with the name.
Enqueue(c) ==
  /\ up
  /\ call[c] = "enqueue"
  /\ task' = [task EXCEPT ![<<c, callId[c]>>] = "queued"]
  /\ call' = [call EXCEPT ![c] = "started"]
  /\ UNCHANGED <<server, table, issued, clients, callId, answer, lost, db, delivered>>

\* Mutant of Started: the sending loop pops every request, sent or not.
StartedPopsAll(c) ==
  /\ call[c] = "started"
  /\ waiting' = [waiting EXCEPT ![c] = @ \union {callId[c]}]
  /\ toSend' = [toSend EXCEPT ![c] = {}]
  /\ call' = [call EXCEPT ![c] = "none"]
  /\ UNCHANGED <<server, table, task, issued, skipped, phase, unchecked, toPoll, callId,
                 answer, lost, db, delivered>>

\* The reply arrives.
Started(c) ==
  /\ call[c] = "started"
  /\ waiting' = [waiting EXCEPT ![c] = @ \union {callId[c]}]
  /\ toSend' = [toSend EXCEPT ![c] = @ \ {callId[c]}]
  /\ call' = [call EXCEPT ![c] = "none"]
  /\ UNCHANGED <<server, table, task, issued, skipped, phase, unchecked, toPoll, callId,
                 answer, lost, db, delivered>>

-----------------------------------------------------------------------------
(* The tasks.                                                              *)

\* What execute() can report.  The bitcode server reports an unknown handle
\* or an unreadable file as an error; the EESI server never does.
Outcomes == IF service = "bitcode" THEN Results ELSE {"response"}

\* execute() up to its UpdateOperation, whose `find` finds the operation ...
FinishFound(r, n, res) ==
  /\ up
  /\ task[r] = "queued"
  /\ <<r, n>> \in issued
  /\ res \in Outcomes
  /\ Present(n)
  /\ table' = UpdateFound(n, Done(r, res))
  /\ task' = [task EXCEPT ![r] = "finished"]
  /\ UNCHANGED <<server, issued, clients, rpcs, lost, db, delivered>>

\* ... or does not, when a client has already been given a result under the
\* same name.
FinishMissing(r, n, res) ==
  /\ up
  /\ task[r] = "queued"
  /\ <<r, n>> \in issued
  /\ res \in Outcomes
  /\ ~Present(n)
  /\ task' = [task EXCEPT ![r] = res]
  /\ UNCHANGED <<server, table, issued, clients, rpcs, lost, db, delivered>>

InsertFinished(r, n) ==
  /\ up
  /\ task[r] \in Results
  /\ <<r, n>> \in issued
  /\ table' = UpdateInsert(n, Done(r, task[r]))
  /\ task' = [task EXCEPT ![r] = "finished"]
  /\ UNCHANGED <<server, issued, clients, rpcs, lost, db, delivered>>

\* GetSpecificationsTask calls abort() when the downloaded bytes do not
\* parse: the EESI server dies, and with it its table and its tasks.
Abort(r) ==
  /\ up
  /\ service = "eesi"
  /\ task[r] = "queued"
  /\ up' = FALSE
  /\ table' = [n \in Names |-> Absent]
  /\ task' = [q \in Requests |-> IF task[q] = "finished" THEN "finished" ELSE "none"]
  /\ call' = [c \in Clients |-> IF call[c] \in {"insert", "enqueue"} THEN "broken" ELSE call[c]]
  /\ UNCHANGED <<service, restarts, second, issued, clients, callId, answer, lost, db, delivered>>

Restart ==
  /\ ~up
  /\ restarts < MaxRestarts
  /\ up' = TRUE
  /\ restarts' = restarts + 1
  /\ UNCHANGED <<service, second, table, task, issued, clients, rpcs, lost, db, delivered>>

Tick ==
  /\ second < MaxSecond
  /\ second' = second + 1
  /\ UNCHANGED <<service, up, restarts, table, task, issued, clients, rpcs, lost, db, delivered>>

-----------------------------------------------------------------------------
(* The client: get_called_functions_all and its like, wait_for_operations. *)

\* The bitcode commands with --overwrite delete the whole collection before
\* they look at the first file.
DeleteAll(c) ==
  /\ phase[c] = "deleting"
  /\ phase' = [phase EXCEPT ![c] = "checking"]
  /\ db' = [id \in Ids |-> {}]
  /\ UNCHANGED <<server, table, task, issued, skipped, unchecked, toSend, waiting, toPoll, rpcs,
                 lost, delivered>>

\* GetSpecificationsAll with --overwrite deletes file by file, and asks for
\* no record; the bitcode commands ask although they have deleted.
Deletes(c) == service = "eesi" /\ c \in Overwriters

\* A file is still to be answered: its record has just been deleted, or
\* collection_contains_id finds none.
Unanswered(c, id) == Deletes(c) \/ db[id] = {}

AfterDelete(c, id) == IF Deletes(c) THEN [db EXCEPT ![id] = {}] ELSE db

\* Mutant of CheckDatabase: the file of a deleted record is not requested.
CheckDatabaseFirst(c, id) ==
  /\ phase[c] = "checking"
  /\ id \in unchecked[c]
  /\ unchecked' = [unchecked EXCEPT ![c] = @ \ {id}]
  /\ db' = AfterDelete(c, id)
  /\ toSend' = IF db[id] = {} THEN [toSend EXCEPT ![c] = @ \union {id}] ELSE toSend
  /\ UNCHANGED <<server, table, task, issued, skipped, phase, waiting, toPoll, rpcs, lost,
                 delivered>>

\* One turn of the loop over the registered files: only those without an
\* answer are requested.
CheckDatabase(c, id) ==
  /\ phase[c] = "checking"
  /\ id \in unchecked[c]
  /\ unchecked' = [unchecked EXCEPT ![c] = @ \ {id}]
  /\ db' = AfterDelete(c, id)
  /\ toSend' = IF Unanswered(c, id) THEN [toSend EXCEPT ![c] = @ \union {id}] ELSE toSend
  /\ UNCHANGED <<server, table, task, issued, skipped, phase, waiting, toPoll, rpcs, lost,
                 delivered>>

\* GetSpecificationsAll goes on to the next file when the called or defined
\* functions of this one are still missing after it has asked for them.
SkipFile(c, id) ==
  /\ service = "eesi"
  /\ phase[c] = "checking"
  /\ id \in unchecked[c]
  /\ Unanswered(c, id)
  /\ Cardinality(skipped) < MaxSkipped
  /\ unchecked' = [unchecked EXCEPT ![c] = @ \ {id}]
  /\ db' = AfterDelete(c, id)
  /\ skipped' = skipped \union {<<c, id>>}
  /\ UNCHANGED <<server, table, task, issued, phase, toSend, waiting, toPoll, rpcs, lost,
                 delivered>>

\* `while waiting_for_results or id_requests`.
NextRound(c) ==
  /\ \/ phase[c] = "checking" /\ unchecked[c] = {}
     \/ phase[c] = "polling" /\ toPoll[c] = {} /\ call[c] = "none"
  /\ phase' = [phase EXCEPT ![c] =
                 IF waiting[c] = {} /\ toSend[c] = {} THEN "done" ELSE "sending"]
  /\ UNCHANGED <<server, table, task, issued, skipped, unchecked, toSend, waiting, toPoll, rpcs,
                 lost, db, delivered>>

\* The sending loop ends, or breaks at max_tasks; each task in flight is
\* polled once.
StartPolling(c) ==
  /\ phase[c] = "sending"
  /\ call[c] = "none"
  /\ toSend[c] = {} \/ ~MaySend(c)
  /\ phase' = [phase EXCEPT ![c] = "polling"]
  /\ toPoll' = [toPoll EXCEPT ![c] = waiting[c]]
  /\ UNCHANGED <<server, table, task, issued, skipped, unchecked, toSend, waiting, rpcs, lost, db,
                 delivered>>

\* The GetOperation RPC at the server, under the entry's lock.
GetOperation(c, id, n) ==
  /\ up
  /\ phase[c] = "polling"
  /\ call[c] = "none"
  /\ id \in toPoll[c]
  /\ <<<<c, id>>, n>> \in issued
  /\ toPoll' = [toPoll EXCEPT ![c] = @ \ {id}]
  /\ call' = [call EXCEPT ![c] = "answered"]
  /\ callId' = [callId EXCEPT ![c] = id]
  /\ answer' = [answer EXCEPT ![c] = table[n]]
  /\ table' = AfterGet(n)
  /\ delivered' = IF table[n].status = "done"
                  THEN delivered \union {<<<<c, id>>, table[n].src>>}
                  ELSE delivered
  /\ UNCHANGED <<server, task, issued, skipped, phase, unchecked, toSend, waiting, lost, db>>

\* Record that notify stores for an answer.
NewRecord(c) == [by |-> c, src |-> answer[c].src, result |-> answer[c].result]

\* Mutant of IsFinished: any answer that is there counts.
IsFinishedIfFound(c) == answer[c].status # "absent"

\* `if get_operation_response.done`.
IsFinished(c) == answer[c].status = "done"

\* The answer arrives: INVALID_ARGUMENT for an unknown name raises, a
\* finished operation is passed to notify, which stores its response; an
\* error leaves the Any empty, and the empty response is stored.
Answered(c) ==
  /\ call[c] = "answered"
  /\ call' = [call EXCEPT ![c] = "none"]
  /\ answer' = [answer EXCEPT ![c] = Absent]
  /\ \/ /\ answer[c].status = "absent"
        /\ phase' = [phase EXCEPT ![c] = "failed"]
        /\ UNCHANGED <<waiting, db>>
     \/ /\ answer[c].status # "absent"
        /\ ~IsFinished(c)
        /\ UNCHANGED <<phase, waiting, db>>
     \/ /\ IsFinished(c)
        /\ waiting' = [waiting EXCEPT ![c] = @ \ {callId[c]}]
        /\ db' = [db EXCEPT ![callId[c]] = @ \union {NewRecord(c)}]
        /\ UNCHANGED phase
  /\ UNCHANGED <<server, table, task, issued, skipped, unchecked, toSend, toPoll, callId, lost,
                 delivered>>

\* An RPC raises although the server lives: a reply is lost, or, while the
\* command goes through the files, RegisterBitcode or what fetches missing
\* prerequisites fails.  Nothing catches an RpcError.
LoseReply(c) ==
  /\ \/ call[c] \in {"started", "answered"}
     \/ phase[c] = "checking" /\ unchecked[c] # {}
  /\ Cardinality(lost) < MaxLost
  /\ lost' = lost \union {c}
  /\ phase' = [phase EXCEPT ![c] = "failed"]
  /\ call' = [call EXCEPT ![c] = "none"]
  /\ answer' = [answer EXCEPT ![c] = Absent]
  /\ UNCHANGED <<server, table, task, issued, skipped, unchecked, toSend, waiting, toPoll, callId,
                 db, delivered>>

\* The server died while it handled the call, or is not there to take one.
Unavailable(c) ==
  /\ \/ call[c] = "broken"
     \/ /\ ~up
        /\ call[c] = "none"
        /\ \/ phase[c] = "sending" /\ toSend[c] # {} /\ MaySend(c)
           \/ phase[c] = "polling" /\ toPoll[c] # {}
  /\ phase' = [phase EXCEPT ![c] = "failed"]
  /\ call' = [call EXCEPT ![c] = "none"]
  /\ UNCHANGED <<server, table, task, issued, skipped, unchecked, toSend, waiting, toPoll, callId,
                 answer, lost, db, delivered>>

-----------------------------------------------------------------------------
Init ==
  /\ service \in {"bitcode", "eesi"}
  /\ up = TRUE
  /\ restarts = 0
  /\ second = 0
  /\ table = [n \in Names |-> Absent]
  /\ task = [r \in Requests |-> "none"]
  /\ issued = {}
  /\ skipped = {}
  /\ phase = [c \in Clients |->
                IF service = "bitcode" /\ c \in Overwriters THEN "deleting" ELSE "checking"]
  /\ unchecked = [c \in Clients |-> Ids]
  /\ toSend = [c \in Clients |-> {}]
  /\ waiting = [c \in Clients |-> {}]
  /\ toPoll = [c \in Clients |-> {}]
  /\ call = [c \in Clients |-> "none"]
  /\ callId \in [Clients -> {CHOOSE id \in Ids : TRUE}]
  /\ answer = [c \in Clients |-> Absent]
  /\ lost = {}
  /\ db = [id \in Ids |-> {}]
  /\ delivered = {}

ClientStep(c) ==
  \/ DeleteAll(c)
  \/ \E id \in Ids : CheckDatabase(c, id)
  \/ \E id \in Ids : SkipFile(c, id)
  \/ NextRound(c)
  \/ \E id \in Ids : Submit(c, id)
  \/ Started(c)
  \/ StartPolling(c)
  \/ \E id \in Ids, n \in Names : GetOperation(c, id, n)
  \/ Answered(c)
  \/ Unavailable(c)

HandlerStep(c) ==
  \/ \E n \in Names : InsertStarted(c, n)
  \/ Enqueue(c)

TaskStep(r) ==
  \/ \E n \in Names, res \in Results : FinishFound(r, n, res)
  \/ \E n \in Names, res \in Results : FinishMissing(r, n, res)
  \/ \E n \in Names : InsertFinished(r, n)

Next ==
  \/ \E c \in Clients : ClientStep(c) \/ HandlerStep(c) \/ LoseReply(c)
  \/ \E r \in Requests : TaskStep(r) \/ Abort(r)
  \/ Restart
  \/ Tick

\* gRPC threads and the CLI processes run on; TBB runs every enqueued task.
\* Nobody restarts a server for sure, and no reply has to be lost.
Fairness ==
  /\ \A c \in Clients : WF_vars(ClientStep(c)) /\ WF_vars(HandlerStep(c))
  /\ \A r \in Requests : WF_vars(TaskStep(r))

Spec == Init /\ [][Next]_vars

FairSpec == Spec /\ Fairness

-----------------------------------------------------------------------------
TypeOK ==
  /\ service \in {"bitcode", "eesi"}
  /\ up \in BOOLEAN
  /\ restarts \in 0..MaxRestarts
  /\ second \in 0..MaxSecond
  /\ table \in [Names -> Entries]
  /\ task \in [Requests -> {"none", "queued", "finished"} \union Results]
  /\ issued \subseteq Requests \X Names
  /\ skipped \subseteq Requests
  /\ phase \in [Clients -> {"deleting", "checking", "sending", "polling", "done", "failed"}]
  /\ unchecked \in [Clients -> SUBSET Ids]
  /\ toSend \in [Clients -> SUBSET Ids]
  /\ waiting \in [Clients -> SUBSET Ids]
  /\ toPoll \in [Clients -> SUBSET Ids]
  /\ call \in [Clients -> {"none", "insert", "enqueue", "started", "answered", "broken"}]
  /\ callId \in [Clients -> Ids]
  /\ answer \in [Clients -> Entries]
  /\ lost \subseteq Clients
  /\ db \in [Ids -> SUBSET Records]
  /\ delivered \subseteq Requests \X Requests

-----------------------------------------------------------------------------
(* What can excuse a failing client.                                       *)

Crashed == ~up \/ restarts > 0

\* Another request was given the same operation name.
Collided(r) ==
  \E q \in Requests \ {r}, n \in Names : <<r, n>> \in issued /\ <<q, n>> \in issued

(* wait_for_operations raises on the first RPC error.  A client fails only *)
(* because an RPC of its own raised while the server was up, the server    *)
(* process died, or one of its operations shares its name with another: an *)
(* operation that a client waits for under a name of its own is always     *)
(* found in the table.                                                     *)
NoFalseFailure ==
  \A c \in Clients :
    phase[c] = "failed" =>
      c \in lost \/ Crashed \/ \E id \in Ids : Collided(<<c, id>>)

\* Client c has still to give the file an answer, or failed before it did.
Unfinished(c, id) ==
  phase[c] # "deleting" /\ id \in unchecked[c] \union toSend[c] \union waiting[c]

\* Client c has deleted the records of the file and has not replaced them.
Deleted(c, id) == c \in Overwriters /\ (<<c, id>> \in skipped \/ Unfinished(c, id))

(* A command that ends without an exception leaves a record for every      *)
(* bitcode file it looked at, whichever client stored it, unless the file  *)
(* lacked its prerequisites: only a command with --overwrite takes records *)
(* away again (cli/bitcode/commands.py:153-155, cli/eesi/commands.py:      *)
(* 309-313), and they are missing only until it stores its own, for good   *)
(* if it skips the file or fails.                                          *)
DoneMeansStored ==
  \A c \in Clients, id \in Ids :
    phase[c] = "done" /\ db[id] = {} =>
      <<c, id>> \in skipped \/ \E d \in Clients : Deleted(d, id)

(* max_tasks bounds the tasks a client has at the server, not only its own *)
(* waiting set, as long as no result of another client's task makes it     *)
(* believe that its own task has ended.                                    *)
LoadBounded ==
  \A c \in Clients :
    (\A id \in Ids : ~Collided(<<c, id>>)) =>
      Cardinality({id \in Ids : task[<<c, id>>] \in {"queued"} \union Results}) <= MaxTasks

(* "Once an operation is finished it can never be unfinished"              *)
(* (operations_service.cc:9-11): a finished entry is replaced by another   *)
(* result or erased, and never shows an operation in progress, also when   *)
(* two requests race under one name.                                       *)
NeverUnfinished ==
  [][\A n \in Names : table[n].status = "done" => table'[n].status # "running"]_vars

(* The table and the replies implement the pool of results: each task      *)
(* publishes once and each result goes to at most one request, about the   *)
(* same bitcode file.                                                      *)
Published == {r \in Requests : task[r] = "finished"}
Held == {table[n].src : n \in {m \in Names : table[m].status = "done"}}

Pool == INSTANCE ResultPool WITH
  IdOf <- [r \in Requests |-> r[2]],
  published <- Published,
  pool <- Held

ImplementsPool == Pool!Spec

(* Whatever collides, gets lost or dies, every client ends: it stores its  *)
(* answers or raises.                                                      *)
ClientsTerminate == \A c \in Clients : <>(phase[c] \in {"done", "failed"})

(* proto/operations.proto:34-35: the name the server assigns is unique     *)
(* within the service.  GetTaskName's time stamp has seconds.              *)
NamesUnique == \A r \in Requests : ~Collided(r)

(* proto/operations.proto:47-49: a done operation carries an error or a    *)
(* response.  Only responses are answers; the client unpacks the response  *)
(* field without looking which of the two is set.                          *)
OnlyResponsesStored == \A id \in Ids : \A rec \in db[id] : rec.result = "response"

=============================================================================
