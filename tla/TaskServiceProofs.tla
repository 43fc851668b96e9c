-------------------------- MODULE TaskServiceProofs --------------------------
(***************************************************************************)
(* Proofs about TaskService, for any number of clients, bitcode files,     *)
(* tasks, crashes, lost replies and seconds.                               *)
(*                                                                         *)
(* The invariant says of each request where it is: still to be sent, on    *)
(* its way, at the server under its name, waited for, or stored.           *)
(***************************************************************************)
EXTENDS TaskService, FiniteSetTheorems, TLAPS

-----------------------------------------------------------------------------
(* The inductive invariant.                                                *)

\* A call that starts a task is on its way, or lost with the server.
InCall(c) == call[c] \in {"insert", "enqueue", "started", "broken"}

\* The task of r has begun and not published.
Active(r) == task[r] \in {"queued"} \union Results

\* The lists of a client in each phase of its command, and the request that
\* its call is about.
PhaseOK(c) ==
  /\ call[c] = "answered" => phase[c] = "polling" /\ callId[c] \in waiting[c]
  /\ InCall(c) => phase[c] = "sending" /\ callId[c] \in toSend[c]
  /\ phase[c] \in {"deleting", "checking"} => waiting[c] = {}
  /\ phase[c] \in {"sending", "polling", "done"} => unchecked[c] = {}
  /\ phase[c] = "deleting" => unchecked[c] = Ids /\ c \in Overwriters
  /\ phase[c] = "done" => waiting[c] = {} /\ toSend[c] = {}
  /\ phase[c] = "polling" => toPoll[c] \subseteq waiting[c]
  /\ call[c] = "answered" => callId[c] \notin toPoll[c]
  /\ toSend[c] \cap waiting[c] = {}
  /\ unchecked[c] \cap (toSend[c] \union waiting[c]) = {}
  /\ call[c] = "broken" => Crashed

\* A request gets one name, that of its file; a task has a request with a name.
NamesOK ==
  /\ \A r \in Requests, n \in Names : <<r, n>> \in issued => n[1] = r[2]
  /\ \A r \in Requests, n, m \in Names : <<r, n>> \in issued /\ <<r, m>> \in issued => n = m
  /\ \A r \in Requests : task[r] # "none" => \E n \in Names : <<r, n>> \in issued

\* What a client has not sent has no name, and what is still on its way to
\* the executor has no task.
SentOK(c) ==
  /\ \A id \in unchecked[c], n \in Names : <<<<c, id>>, n>> \notin issued
  /\ \A id \in toSend[c], n \in Names :
       <<<<c, id>>, n>> \in issued => phase[c] = "failed" \/ (InCall(c) /\ callId[c] = id)
  /\ call[c] \in {"insert", "enqueue", "broken"} => task[<<c, callId[c]>>] = "none"
  /\ InCall(c) => \E n \in Names : <<<<c, callId[c]>>, n>> \in issued

\* A finished operation holds what a task published for a request of its name.
EntryOK(n) ==
  table[n].status = "done" => /\ <<table[n].src, n>> \in issued
                              /\ task[table[n].src] = "finished"

\* So does a finished answer; an empty one comes of a crash or a collision.
AnswerOK(c) ==
  call[c] = "answered" =>
    /\ answer[c].status = "absent" => (Crashed \/ Collided(<<c, callId[c]>>))
    /\ answer[c].status = "done" =>
         /\ task[answer[c].src] = "finished"
         /\ \E n \in Names : <<answer[c].src, n>> \in issued /\ <<<<c, callId[c]>>, n>> \in issued

\* The requests whose operation client c still has to find at the server.
Expected(c, id) ==
  \/ id \in waiting[c] /\ ~(call[c] = "answered" /\ callId[c] = id /\ answer[c].status = "done")
  \/ call[c] \in {"enqueue", "started"} /\ callId[c] = id

\* The operation that a client will ask for is there, unless the server
\* crashed or another request shared the name and may have erased it.
ExpectedOK(c) ==
  phase[c] # "failed" /\ ~Crashed =>
    \A id \in Ids, n \in Names :
      <<<<c, id>>, n>> \in issued /\ Expected(c, id) => Present(n) \/ Collided(<<c, id>>)

\* A client's file is on one of its lists or has a record in the database,
\* unless a command deleted it and has not replaced it.
StoredOK(c) ==
  \A id \in Ids :
    \/ id \in unchecked[c] \union toSend[c] \union waiting[c] \/ <<c, id>> \in skipped
    \/ db[id] # {}
    \/ \E d \in Clients : Deleted(d, id)

\* Without collisions, a client's tasks that run are those that it waits for
\* and that of its last call.
ActiveOK(c) ==
  (\A id \in Ids : ~Collided(<<c, id>>)) =>
    \A id \in Ids : Active(<<c, id>>) =>
      id \in waiting[c] \/ (callId[c] = id /\ (call[c] = "started" \/ phase[c] = "failed"))

\* Both fit into max_tasks together, the last call included: the code tests
\* len(operations) before it appends.
WindowOK(c) == Cardinality(waiting[c] \union {callId[c]}) <= MaxTasks

IInv ==
  /\ TypeOK
  /\ NamesOK
  /\ \A n \in Names : EntryOK(n)
  /\ \A c \in Clients :
       /\ PhaseOK(c) /\ SentOK(c) /\ AnswerOK(c) /\ ExpectedOK(c)
       /\ StoredOK(c) /\ ActiveOK(c) /\ WindowOK(c)
  /\ NoFalseFailure

-----------------------------------------------------------------------------
(* Types.                                                                  *)

\* There is a request for the entries that name none.
LEMMA NoRequestType == NoRequest \in Requests
<1>1. PICK c \in Clients, id \in Ids : TRUE
  BY InstanceAssumption
<1>2. <<c, id>> \in Requests
  BY DEF Requests
<1> QED BY <1>2, Zenon DEF NoRequest

\* The fields of an entry, and the entries there are.
LEMMA EntryType ==
  /\ Absent \in Entries /\ Running \in Entries
  /\ \A r \in Requests, res \in Results : Done(r, res) \in Entries
  /\ \A e \in Entries : /\ e.status \in {"absent", "running", "done"}
                        /\ e.src \in Requests
                        /\ e.status = "done" => e.result \in Results
                        /\ e.status = "absent" => e = Absent
<1>1. Absent \in Entries /\ Running \in Entries
  BY DEF Entries
<1>2. ASSUME NEW r \in Requests, NEW res \in Results
      PROVE  Done(r, res) \in Entries
  BY DEF Entries
<1>3. ASSUME NEW e \in Entries
      PROVE  /\ e.status \in {"absent", "running", "done"}
             /\ e.src \in Requests
             /\ e.status = "done" => e.result \in Results
             /\ e.status = "absent" => e = Absent
  <2>1. \/ e = Absent \/ e = Running
        \/ \E r \in Requests, res \in Results : e = Done(r, res)
    BY DEF Entries
  <2> QED BY <2>1, NoRequestType DEF Absent, Running, Done
<1> QED BY <1>1, <1>2, <1>3

\* The three ways to write the table keep its type.
LEMMA TableType ==
  ASSUME table \in [Names -> Entries], NEW n \in Names, NEW e \in Entries
  PROVE  /\ UpdateFound(n, e) \in [Names -> Entries]
         /\ UpdateInsert(n, e) \in [Names -> Entries]
         /\ AfterGet(n) \in [Names -> Entries]
  BY EntryType DEF UpdateFound, UpdateInsert, AfterGet

\* The actions of a client keep the types, ...
LEMMA TypeKeptClient ==
  ASSUME TypeOK, NEW c \in Clients, ClientStep(c)
  PROVE  TypeOK'
<1>1. ASSUME NEW id \in Ids, CheckDatabase(c, id) \/ SkipFile(c, id)
      PROVE  TypeOK'
  <2>1. db' \in [Ids -> SUBSET Records]
    BY <1>1 DEF CheckDatabase, SkipFile, AfterDelete, TypeOK
  <2>2. skipped' \subseteq Requests
    <3>1. <<c, id>> \in Requests
      BY DEF Requests
    <3> QED BY <1>1, <3>1 DEF CheckDatabase, SkipFile, TypeOK
  <2> QED BY <1>1, <2>1, <2>2 DEF CheckDatabase, SkipFile, TypeOK, server, rpcs
<1>9. CASE DeleteAll(c)
  BY <1>9 DEF DeleteAll, TypeOK, server, rpcs
<1>2. CASE NextRound(c)
  BY <1>2 DEF NextRound, TypeOK, server, rpcs
<1>3. ASSUME NEW id \in Ids, Submit(c, id)
      PROVE  TypeOK'
  <2>1. <<id, second>> \in Names /\ <<c, id>> \in Requests
    BY DEF TypeOK, Names, Requests
  <2>2. table' \in [Names -> Entries]
    BY <1>3, <2>1, TableType, EntryType DEF Submit, TypeOK
  <2>3. issued' \subseteq Requests \X Names
    <3>1. issued' = issued \union {<<<<c, id>>, <<id, second>>>>}
      BY <1>3 DEF Submit
    <3>2. issued \subseteq Requests \X Names
      BY DEF TypeOK
    <3> QED BY <2>1, <3>1, <3>2
  <2>4. /\ call' \in [Clients -> {"none", "insert", "enqueue", "started", "answered", "broken"}]
        /\ callId' \in [Clients -> Ids]
    BY <1>3 DEF Submit, TypeOK
  <2>5. UNCHANGED <<server, task, clients, answer, lost, db, delivered>>
    BY <1>3 DEF Submit
  <2> QED BY <2>2, <2>3, <2>4, <2>5 DEF TypeOK, server, clients
<1>4. CASE Started(c)
  BY <1>4 DEF Started, TypeOK, server
<1>5. CASE StartPolling(c)
  BY <1>5 DEF StartPolling, TypeOK, server, rpcs
<1>6. ASSUME NEW id \in Ids, NEW n \in Names, GetOperation(c, id, n)
      PROVE  TypeOK'
  <2>1. table' \in [Names -> Entries] /\ table[n] \in Entries
    BY <1>6, TableType, EntryType DEF GetOperation, TypeOK
  <2>2. delivered' \subseteq Requests \X Requests
    BY <1>6, <2>1, EntryType DEF GetOperation, TypeOK, Requests
  <2> QED BY <1>6, <2>1, <2>2 DEF GetOperation, TypeOK, server
<1>7. CASE Answered(c)
  <2>1. IsFinished(c) => NewRecord(c) \in Records
    BY EntryType DEF IsFinished, NewRecord, Records, TypeOK
  <2>2. phase' \in [Clients -> {"deleting", "checking", "sending", "polling", "done", "failed"}]
    BY <1>7 DEF Answered, TypeOK
  <2>3. waiting' \in [Clients -> SUBSET Ids]
    BY <1>7 DEF Answered, TypeOK
  <2>4. db' \in [Ids -> SUBSET Records]
    <3>1. CASE IsFinished(c)
      <4>1. db' \in {db, [db EXCEPT ![callId[c]] = @ \union {NewRecord(c)}]}
        BY <1>7 DEF Answered
      <4> QED BY <2>1, <3>1, <4>1 DEF TypeOK
    <3>2. CASE ~IsFinished(c)
      BY <1>7, <3>2 DEF Answered, TypeOK
    <3> QED BY <3>1, <3>2
  <2> QED BY <1>7, <2>2, <2>3, <2>4, EntryType DEF Answered, TypeOK, server
<1>8. CASE Unavailable(c)
  BY <1>8 DEF Unavailable, TypeOK, server
<1> QED BY <1>1, <1>2, <1>3, <1>4, <1>5, <1>6, <1>7, <1>8, <1>9 DEF ClientStep

\* ... so do those of a handler at the server ...
LEMMA TypeKeptHandler ==
  ASSUME TypeOK, NEW c \in Clients, HandlerStep(c)
  PROVE  TypeOK'
<1>1. ASSUME NEW n \in Names, InsertStarted(c, n)
      PROVE  TypeOK'
  <2>1. table' \in [Names -> Entries]
    BY <1>1, TableType, EntryType DEF InsertStarted, TypeOK
  <2> QED BY <1>1, <2>1 DEF InsertStarted, TypeOK, server, clients
<1>2. CASE Enqueue(c)
  BY <1>2 DEF Enqueue, TypeOK, server, clients
<1> QED BY <1>1, <1>2 DEF HandlerStep

\* ... and of a task.
LEMMA TypeKeptTask ==
  ASSUME TypeOK, NEW r \in Requests, TaskStep(r) \/ Abort(r)
  PROVE  TypeOK'
<1>1. ASSUME NEW n \in Names, NEW res \in Results, FinishFound(r, n, res)
      PROVE  TypeOK'
  <2>1. table' \in [Names -> Entries]
    BY <1>1, TableType, EntryType DEF FinishFound, TypeOK
  <2> QED BY <1>1, <2>1 DEF FinishFound, TypeOK, server, clients, rpcs
<1>2. ASSUME NEW n \in Names, NEW res \in Results, FinishMissing(r, n, res)
      PROVE  TypeOK'
  BY <1>2 DEF FinishMissing, TypeOK, server, clients, rpcs
<1>3. ASSUME NEW n \in Names, InsertFinished(r, n)
      PROVE  TypeOK'
  <2>1. table' \in [Names -> Entries]
    BY <1>3, TableType, EntryType DEF InsertFinished, TypeOK
  <2> QED BY <1>3, <2>1 DEF InsertFinished, TypeOK, server, clients, rpcs
<1>4. CASE Abort(r)
  BY <1>4, EntryType DEF Abort, TypeOK, clients
<1> QED BY <1>1, <1>2, <1>3, <1>4 DEF TaskStep

\* No step leaves the types.
LEMMA TypeKept ==
  ASSUME TypeOK, [Next]_vars
  PROVE  TypeOK'
<1>1. ASSUME NEW c \in Clients, LoseReply(c)
      PROVE  TypeOK'
  BY <1>1, EntryType DEF LoseReply, TypeOK, server
<1>2. CASE Restart
  BY <1>2, BoundsAssumption DEF Restart, TypeOK, clients, rpcs
<1>3. CASE Tick
  BY <1>3, BoundsAssumption DEF Tick, TypeOK, clients, rpcs
<1>4. CASE UNCHANGED vars
  BY <1>4 DEF vars, TypeOK, server, clients, rpcs
<1> QED BY <1>1, <1>2, <1>3, <1>4, TypeKeptClient, TypeKeptHandler, TypeKeptTask DEF Next

\* Nor does the start.
LEMMA InitTypeOK == Init => TypeOK
  BY EntryType, InstanceAssumption, BoundsAssumption DEF Init, TypeOK, Requests

\* Every variable of clients, server and database keeps its type, and the
\* bounded counters their bounds (the state of operations_service.h and wait.py).
THEOREM TypeCorrectness == Spec => []TypeOK
  BY InitTypeOK, TypeKept, PTL DEF Spec

-----------------------------------------------------------------------------
(* What a step leaves alone.                                               *)

\* No step takes back a name, a crash, a skipped file or a lost reply.
LEMMA HistoryGrows ==
  ASSUME TypeOK, [Next]_vars
  PROVE  /\ issued \subseteq issued'
         /\ Crashed => Crashed'
         /\ lost \subseteq lost'
         /\ skipped \subseteq skipped'
<1>1. ASSUME NEW c \in Clients, ClientStep(c)
      PROVE  /\ issued \subseteq issued' /\ UNCHANGED <<up, restarts, lost>>
             /\ skipped \subseteq skipped'
  BY <1>1 DEF ClientStep, DeleteAll, CheckDatabase, SkipFile, NextRound, Submit, Started,
     StartPolling, GetOperation, Answered, Unavailable, server, clients
<1>2. ASSUME NEW c \in Clients, HandlerStep(c) \/ LoseReply(c)
      PROVE  UNCHANGED <<issued, up, restarts, skipped>> /\ lost \subseteq lost'
  BY <1>2 DEF HandlerStep, InsertStarted, Enqueue, LoseReply, server, clients
<1>3. ASSUME NEW r \in Requests, TaskStep(r)
      PROVE  UNCHANGED <<issued, up, restarts, lost, skipped>>
  BY <1>3 DEF TaskStep, FinishFound, FinishMissing, InsertFinished, server, clients
<1>4. ASSUME NEW r \in Requests, Abort(r)
      PROVE  UNCHANGED <<issued, lost, skipped>> /\ Crashed'
  BY <1>4 DEF Abort, Crashed, clients
<1>5. CASE Restart
  BY <1>5 DEF Restart, Crashed, TypeOK, clients
<1>6. CASE Tick \/ UNCHANGED vars
  BY <1>6 DEF Tick, Crashed, vars, server, clients
<1> QED BY <1>1, <1>2, <1>3, <1>4, <1>5, <1>6 DEF Next, Crashed

\* Names that collide keep colliding.
LEMMA CollidedGrows ==
  ASSUME issued \subseteq issued', NEW r \in Requests, Collided(r)
  PROVE  Collided(r)'
  BY DEF Collided

Same(c) ==
  /\ phase'[c] = phase[c] /\ unchecked'[c] = unchecked[c] /\ toSend'[c] = toSend[c]
  /\ waiting'[c] = waiting[c] /\ toPoll'[c] = toPoll[c]
  /\ callId'[c] = callId[c] /\ answer'[c] = answer[c]

Own(c) == ClientStep(c) \/ HandlerStep(c) \/ LoseReply(c)

\* A client's state is changed by its own steps; a crash only breaks its call.
LEMMA OthersKeep ==
  ASSUME TypeOK, [Next]_vars, NEW c \in Clients, ~Own(c)
  PROVE  /\ Same(c)
         /\ \/ call'[c] = call[c]
            \/ \E r \in Requests : Abort(r)
<1>1. ASSUME NEW d \in Clients, Own(d), d # c
      PROVE  Same(c) /\ call'[c] = call[c]
  <2>1. ASSUME NEW id \in Ids, CheckDatabase(d, id) \/ SkipFile(d, id)
        PROVE  Same(c) /\ call'[c] = call[c]
    BY <1>1, <2>1 DEF CheckDatabase, SkipFile, TypeOK, Same, rpcs
  <2>8. CASE DeleteAll(d)
    BY <1>1, <2>8 DEF DeleteAll, TypeOK, Same, rpcs
  <2>2. CASE NextRound(d) \/ StartPolling(d)
    BY <1>1, <2>2 DEF NextRound, StartPolling, TypeOK, Same, rpcs
  <2>3. ASSUME NEW id \in Ids, Submit(d, id)
        PROVE  Same(c) /\ call'[c] = call[c]
    BY <1>1, <2>3 DEF Submit, TypeOK, Same, clients
  <2>4. CASE Started(d) \/ LoseReply(d) \/ Unavailable(d)
    BY <1>1, <2>4 DEF Started, LoseReply, Unavailable, TypeOK, Same
  <2>5. ASSUME NEW id \in Ids, NEW n \in Names, GetOperation(d, id, n)
        PROVE  Same(c) /\ call'[c] = call[c]
    BY <1>1, <2>5 DEF GetOperation, TypeOK, Same
  <2>6. CASE Answered(d)
    BY <1>1, <2>6 DEF Answered, TypeOK, Same
  <2>7. CASE HandlerStep(d)
    BY <1>1, <2>7 DEF HandlerStep, InsertStarted, Enqueue, TypeOK, Same, clients
  <2> QED BY <1>1, <2>1, <2>2, <2>3, <2>4, <2>5, <2>6, <2>7, <2>8 DEF Own, ClientStep
<1>2. ASSUME NEW r \in Requests, TaskStep(r)
      PROVE  Same(c) /\ call'[c] = call[c]
  BY <1>2 DEF TaskStep, FinishFound, FinishMissing, InsertFinished, Same, clients, rpcs
<1>3. ASSUME NEW r \in Requests, Abort(r)
      PROVE  Same(c)
  BY <1>3 DEF Abort, Same, clients
<1>4. CASE Restart \/ Tick \/ UNCHANGED vars
  BY <1>4 DEF Restart, Tick, vars, Same, clients, rpcs
<1> QED BY <1>1, <1>2, <1>3, <1>4 DEF Next, Own

-----------------------------------------------------------------------------
(* One lemma per part of the invariant.                                    *)

\* The lists of a client stay apart as its command goes on.
LEMMA PhaseKept ==
  ASSUME TypeOK, NEW c \in Clients, PhaseOK(c), [Next]_vars
  PROVE  PhaseOK(c)'
<1>1. CASE ~Own(c)
  <2>1. Same(c) /\ (Crashed => Crashed')
    BY <1>1, OthersKeep, HistoryGrows
  <2>2. CASE call'[c] = call[c]
    BY <2>1, <2>2 DEF PhaseOK, Same, InCall
  <2>3. ASSUME NEW r \in Requests, Abort(r)
        PROVE  PhaseOK(c)'
    BY <2>1, <2>3 DEF Abort, Crashed, PhaseOK, Same, InCall
  <2> QED BY <1>1, <2>2, <2>3, OthersKeep
<1>2. ASSUME NEW id \in Ids, CheckDatabase(c, id) \/ SkipFile(c, id)
      PROVE  PhaseOK(c)'
  BY <1>2 DEF CheckDatabase, SkipFile, PhaseOK, TypeOK, InCall, Crashed, server, rpcs
<1>12. CASE DeleteAll(c)
  BY <1>12 DEF DeleteAll, PhaseOK, TypeOK, InCall, Crashed, server, rpcs
<1>3. CASE NextRound(c)
  BY <1>3 DEF NextRound, PhaseOK, TypeOK, InCall, Crashed, server, rpcs
<1>4. ASSUME NEW id \in Ids, Submit(c, id)
      PROVE  PhaseOK(c)'
  BY <1>4 DEF Submit, PhaseOK, TypeOK, InCall, Crashed, server, clients
<1>5. CASE Started(c)
  BY <1>5 DEF Started, PhaseOK, TypeOK, InCall, Crashed, server
<1>6. CASE StartPolling(c)
  BY <1>6 DEF StartPolling, PhaseOK, TypeOK, InCall, Crashed, server, rpcs
<1>7. ASSUME NEW id \in Ids, NEW n \in Names, GetOperation(c, id, n)
      PROVE  PhaseOK(c)'
  BY <1>7 DEF GetOperation, PhaseOK, TypeOK, InCall, Crashed, server
<1>8. CASE Answered(c)
  BY <1>8 DEF Answered, PhaseOK, TypeOK, InCall, Crashed, server
<1>9. CASE Unavailable(c)
  BY <1>9 DEF Unavailable, PhaseOK, TypeOK, InCall, Crashed, server
<1>10. CASE HandlerStep(c)
  BY <1>10 DEF HandlerStep, InsertStarted, Enqueue, PhaseOK, TypeOK, InCall, Crashed, server,
           clients
<1>11. CASE LoseReply(c)
  BY <1>11 DEF LoseReply, PhaseOK, TypeOK, InCall, Crashed, server
<1> QED BY <1>1, <1>2, <1>3, <1>4, <1>5, <1>6, <1>7, <1>8, <1>9, <1>10, <1>11, <1>12
        DEF Own, ClientStep

\* A task is created by the handler of its request, runs, and dies in a crash.
LEMMA TaskChanges ==
  ASSUME TypeOK, [Next]_vars, NEW r \in Requests
  PROVE  \/ task'[r] = task[r]
         \/ Active(r) /\ (Active(r)' \/ task'[r] = "finished")
         \/ \E c \in Clients : Enqueue(c) /\ r = <<c, callId[c]>> /\ task'[r] = "queued"
         \/ task'[r] = "none" /\ task[r] # "finished" /\ Crashed'
<1>1. ASSUME NEW c \in Clients, ClientStep(c) \/ LoseReply(c)
      PROVE  task' = task
  BY <1>1 DEF ClientStep, DeleteAll, CheckDatabase, SkipFile, NextRound, Submit, Started, StartPolling,
     GetOperation, Answered, Unavailable, LoseReply
<1>2. ASSUME NEW c \in Clients, HandlerStep(c)
      PROVE  \/ task'[r] = task[r]
             \/ Enqueue(c) /\ r = <<c, callId[c]>> /\ task'[r] = "queued"
  BY <1>2 DEF HandlerStep, InsertStarted, Enqueue, TypeOK
<1>3. ASSUME NEW q \in Requests, TaskStep(q)
      PROVE  \/ task'[r] = task[r]
             \/ Active(r) /\ (Active(r)' \/ task'[r] = "finished")
  <2>1. ASSUME NEW n \in Names, NEW res \in Results, FinishFound(q, n, res)
        PROVE  task'[r] = task[r] \/ (Active(r) /\ task'[r] = "finished")
    BY <2>1 DEF FinishFound, TypeOK, Active
  <2>2. ASSUME NEW n \in Names, NEW res \in Results, FinishMissing(q, n, res)
        PROVE  task'[r] = task[r] \/ (Active(r) /\ Active(r)')
    BY <2>2 DEF FinishMissing, TypeOK, Active
  <2>3. ASSUME NEW n \in Names, InsertFinished(q, n)
        PROVE  task'[r] = task[r] \/ (Active(r) /\ task'[r] = "finished")
    BY <2>3 DEF InsertFinished, TypeOK, Active
  <2> QED BY <1>3, <2>1, <2>2, <2>3 DEF TaskStep
<1>4. ASSUME NEW q \in Requests, Abort(q)
      PROVE  task'[r] = task[r] \/ (task'[r] = "none" /\ task[r] # "finished" /\ Crashed')
  BY <1>4 DEF Abort, TypeOK, Crashed
<1>5. CASE Restart \/ Tick \/ UNCHANGED vars
  BY <1>5 DEF Restart, Tick, vars
<1> QED BY <1>1, <1>2, <1>3, <1>4, <1>5 DEF Next

\* A result is published for good: no request is enqueued twice.
LEMMA FinishedStays ==
  ASSUME TypeOK, \A c \in Clients : SentOK(c), [Next]_vars,
         NEW r \in Requests, task[r] = "finished"
  PROVE  task'[r] = "finished"
<1>1. ASSUME NEW c \in Clients, Enqueue(c)
      PROVE  r # <<c, callId[c]>>
  BY <1>1 DEF Enqueue, SentOK
<1> QED BY <1>1, TaskChanges DEF Active, Results

\* Only Submit gives out a name.
LEMMA IssuedChanges ==
  ASSUME [Next]_vars, issued' # issued
  PROVE  \E c \in Clients, id \in Ids : Submit(c, id)
BY ZenonT(60) DEF Next, vars, ClientStep, HandlerStep, TaskStep, DeleteAll, CheckDatabase, SkipFile, NextRound, Started,
   StartPolling, GetOperation, Answered, Unavailable, InsertStarted, Enqueue, LoseReply,
   FinishFound, FinishMissing, InsertFinished, Abort, Restart, Tick

\* A request is sent once, and its name starts with its bitcode file.
LEMMA NamesKept ==
  ASSUME TypeOK, NamesOK, \A c \in Clients : PhaseOK(c) /\ SentOK(c), [Next]_vars
  PROVE  NamesOK'
<1>1. ASSUME NEW c \in Clients, NEW id \in Ids, Submit(c, id)
      PROVE  NamesOK'
  <2> DEFINE r == <<c, id>>  n == <<id, second>>
  <2>1. r \in Requests /\ n \in Names /\ r[2] = id /\ n[1] = id
    BY DEF TypeOK, Names, Requests
  <2>2. \A m \in Names : <<r, m>> \notin issued
    BY <1>1 DEF Submit, SentOK, PhaseOK, InCall
  <2>3. issued' = issued \union {<<r, n>>} /\ task' = task
    BY <1>1 DEF Submit
  <2> HIDE DEF r, n
  <2> QED BY <2>1, <2>2, <2>3 DEF NamesOK
<1>2. CASE issued' = issued
  <2>1. ASSUME NEW r \in Requests, task'[r] # "none"
        PROVE  \E n \in Names : <<r, n>> \in issued
    <3>1. CASE task[r] # "none"
      BY <3>1 DEF NamesOK
    <3>2. CASE task[r] = "none"
      <4>1. PICK c \in Clients : Enqueue(c) /\ r = <<c, callId[c]>>
        BY <2>1, <3>2, TaskChanges DEF Active, Results
      <4> QED BY <4>1 DEF Enqueue, SentOK, InCall
    <3> QED BY <3>1, <3>2
  <2> QED BY <1>2, <2>1 DEF NamesOK
<1> QED BY <1>1, <1>2, IssuedChanges

\* Only a client's own requests are given names in its name.
LEMMA OthersNames ==
  ASSUME [Next]_vars, NEW c \in Clients, ~Own(c)
  PROVE  \A id \in Ids, n \in Names : <<<<c, id>>, n>> \in issued' => <<<<c, id>>, n>> \in issued
<1>1. ASSUME NEW d \in Clients, NEW k \in Ids, Submit(d, k), NEW id \in Ids, NEW n \in Names,
             <<<<c, id>>, n>> \in issued'
      PROVE  <<<<c, id>>, n>> \in issued
  <2>1. d # c
    BY <1>1 DEF Own, ClientStep
  <2> QED BY <1>1, <2>1 DEF Submit
<1> QED BY <1>1, IssuedChanges

\* What a client has not sent has no name; what it sends has no task yet.
LEMMA SentKept ==
  ASSUME TypeOK, NEW c \in Clients, PhaseOK(c), SentOK(c), NamesOK, [Next]_vars
  PROVE  SentOK(c)'
<1>1. CASE ~Own(c)
  <2>1. Same(c) /\ issued \subseteq issued'
    BY <1>1, OthersKeep, HistoryGrows
  <2>2. ASSUME call[c] \in {"insert", "enqueue", "broken"}
        PROVE  task'[<<c, callId[c]>>] = "none"
    <3>1. <<c, callId[c]>> \in Requests /\ task[<<c, callId[c]>>] = "none"
      BY <2>2 DEF SentOK, TypeOK, Requests
    <3>2. ASSUME NEW d \in Clients, Enqueue(d)
          PROVE  d # c
      BY <1>1, <3>2 DEF Own, HandlerStep
    <3> QED BY <3>1, <3>2, TaskChanges DEF Active, Results
  <2>3. CASE call'[c] = call[c]
    BY <1>1, <2>1, <2>2, <2>3, OthersNames DEF SentOK, InCall, Same, TypeOK
  <2>4. ASSUME NEW r \in Requests, Abort(r)
        PROVE  SentOK(c)'
    <3>1. \/ call'[c] = call[c]
          \/ call[c] \in {"insert", "enqueue"} /\ call'[c] = "broken"
      BY <2>4 DEF Abort
    <3> QED BY <2>1, <2>2, <2>3, <2>4, <3>1 DEF Abort, SentOK, InCall, Same
  <2> QED BY <1>1, <2>3, <2>4, OthersKeep
<1>2. ASSUME NEW id \in Ids, CheckDatabase(c, id)
      PROVE  SentOK(c)'
  BY <1>2 DEF CheckDatabase, SentOK, TypeOK, InCall, rpcs
<1>13. ASSUME NEW id \in Ids, SkipFile(c, id)
      PROVE  SentOK(c)'
  BY <1>13 DEF SkipFile, SentOK, TypeOK, InCall, rpcs
<1>12. CASE DeleteAll(c)
  BY <1>12 DEF DeleteAll, SentOK, TypeOK, InCall, rpcs
<1>3. CASE NextRound(c)
  BY <1>3 DEF NextRound, SentOK, PhaseOK, TypeOK, InCall, rpcs
<1>4. ASSUME NEW id \in Ids, Submit(c, id)
      PROVE  SentOK(c)'
  <2> DEFINE r == <<c, id>>  n == <<id, second>>
  <2>1. r \in Requests /\ n \in Names
    BY DEF TypeOK, Names, Requests
  <2>2. issued' = issued \union {<<r, n>>} /\ task' = task /\ callId'[c] = id /\ InCall(c)'
        /\ id \in toSend[c] /\ phase[c] = "sending" /\ call[c] = "none"
        /\ phase' = phase /\ unchecked' = unchecked /\ toSend' = toSend
    BY <1>4 DEF Submit, TypeOK, InCall, clients
  <2>3. task[r] = "none"
    BY <2>1, <2>2 DEF SentOK, InCall, NamesOK
  <2>4. \A k \in toSend[c], m \in Names : <<<<c, k>>, m>> \in issued' => k = id
    BY <2>2 DEF SentOK, InCall
  <2>5. unchecked[c] = {}
    BY <2>2 DEF PhaseOK
  <2> QED BY <2>1, <2>2, <2>3, <2>4, <2>5 DEF SentOK
<1>5. CASE Started(c)
  BY <1>5 DEF Started, SentOK, TypeOK, InCall
<1>6. CASE StartPolling(c)
  BY <1>6 DEF StartPolling, SentOK, TypeOK, InCall, rpcs
<1>7. ASSUME NEW id \in Ids, NEW n \in Names, GetOperation(c, id, n)
      PROVE  SentOK(c)'
  BY <1>7 DEF GetOperation, SentOK, TypeOK, InCall
<1>8. CASE Answered(c)
  BY <1>8 DEF Answered, SentOK, TypeOK, InCall
<1>9. CASE Unavailable(c)
  BY <1>9 DEF Unavailable, SentOK, PhaseOK, TypeOK, InCall
<1>10. CASE HandlerStep(c)
  BY <1>10 DEF HandlerStep, InsertStarted, Enqueue, SentOK, TypeOK, InCall, clients
<1>11. CASE LoseReply(c)
  BY <1>11 DEF LoseReply, SentOK, PhaseOK, TypeOK, InCall
<1> QED BY <1>1, <1>2, <1>3, <1>4, <1>5, <1>6, <1>7, <1>8, <1>9, <1>10, <1>11, <1>12, <1>13
        DEF Own, ClientStep

\* What a step does to an entry of the table.
LEMMA TableChanges ==
  ASSUME TypeOK, [Next]_vars, NEW n \in Names
  PROVE  \/ table'[n] = table[n]
         \/ table[n].status # "done" /\ table'[n] = Running
         \/ \E r \in Requests, res \in Results :
              /\ table'[n] = Done(r, res) /\ <<r, n>> \in issued
              /\ Active(r) /\ task'[r] = "finished"
         \/ /\ table[n].status = "done" /\ table'[n] = Absent
            /\ \E c \in Clients, id \in Ids : GetOperation(c, id, n)
         \/ table'[n] = Absent /\ \E r \in Requests : Abort(r)
<1>1. ASSUME NEW c \in Clients, NEW id \in Ids, Submit(c, id)
      PROVE  table'[n] = table[n] \/ (table[n].status # "done" /\ table'[n] = Running)
  <2>1. Running.status # "done"
    BY DEF Running
  <2> QED BY <1>1, <2>1 DEF Submit, UpdateFound, TypeOK
<1>2. ASSUME NEW c \in Clients, NEW id \in Ids, NEW m \in Names, GetOperation(c, id, m)
      PROVE  \/ table'[n] = table[n]
             \/ n = m /\ table[n].status = "done" /\ table'[n] = Absent
  BY <1>2 DEF GetOperation, AfterGet, TypeOK
<1>3. ASSUME NEW c \in Clients, ClientStep(c)
      PROVE  \/ table' = table
             \/ \E id \in Ids : Submit(c, id)
             \/ \E id \in Ids, m \in Names : GetOperation(c, id, m)
  BY <1>3 DEF ClientStep, DeleteAll, CheckDatabase, SkipFile, NextRound, Started, StartPolling, Answered, Unavailable
<1>4. ASSUME NEW c \in Clients, HandlerStep(c)
      PROVE  table'[n] = table[n] \/ (table[n].status # "done" /\ table'[n] = Running)
  BY <1>4 DEF HandlerStep, InsertStarted, Enqueue, UpdateInsert, Present, TypeOK
<1>5. ASSUME NEW r \in Requests, TaskStep(r)
      PROVE  \/ table'[n] = table[n]
             \/ \E res \in Results :
                  /\ table'[n] = Done(r, res) /\ <<r, n>> \in issued
                  /\ Active(r) /\ task'[r] = "finished"
  <2>1. ASSUME NEW m \in Names, NEW res \in Results, FinishFound(r, m, res)
        PROVE  \/ table'[n] = table[n]
               \/ /\ table'[n] = Done(r, res) /\ <<r, n>> \in issued
                  /\ Active(r) /\ task'[r] = "finished"
    BY <2>1 DEF FinishFound, UpdateFound, Active, TypeOK
  <2>2. ASSUME NEW m \in Names, NEW res \in Results, FinishMissing(r, m, res)
        PROVE  table' = table
    BY <2>2 DEF FinishMissing
  <2>3. ASSUME NEW m \in Names, InsertFinished(r, m)
        PROVE  \/ table'[n] = table[n]
               \/ /\ table'[n] = Done(r, task[r]) /\ <<r, n>> \in issued
                  /\ Active(r) /\ task'[r] = "finished"
    BY <2>3 DEF InsertFinished, UpdateInsert, Active, TypeOK
  <2>4. ASSUME NEW m \in Names, InsertFinished(r, m)
        PROVE  task[r] \in Results
    BY <2>4 DEF InsertFinished
  <2> QED BY <1>5, <2>1, <2>2, <2>3, <2>4 DEF TaskStep
<1>6. ASSUME NEW r \in Requests, Abort(r)
      PROVE  table'[n] = Absent
  BY <1>6 DEF Abort
<1>7. CASE Restart \/ Tick \/ UNCHANGED vars \/ \E c \in Clients : LoseReply(c)
  BY <1>7 DEF Restart, Tick, vars, LoseReply
<1> QED BY <1>1, <1>2, <1>3, <1>4, <1>5, <1>6, <1>7 DEF Next

\* An entry holds a published result of a request that has its name.
LEMMA EntryOKKept ==
  ASSUME TypeOK, \A c \in Clients : SentOK(c), NEW n \in Names, EntryOK(n), [Next]_vars
  PROVE  EntryOK(n)'
<1>1. issued \subseteq issued'
  BY HistoryGrows
<1>2. CASE table'[n] = table[n]
  <2>1. table[n].src \in Requests
    BY EntryType DEF TypeOK
  <2> QED BY <1>1, <1>2, <2>1, FinishedStays DEF EntryOK
<1>3. ASSUME NEW r \in Requests, NEW res \in Results, table'[n] = Done(r, res),
             <<r, n>> \in issued, task'[r] = "finished"
      PROVE  EntryOK(n)'
  BY <1>1, <1>3 DEF EntryOK, Done
<1>4. CASE table'[n] \in {Running, Absent}
  BY <1>4 DEF EntryOK, Running, Absent
<1> QED BY <1>2, <1>3, <1>4, TableChanges

\* An answer comes from the entry of its request: it is missing only after a
\* crash or a collision, and a result was published under the same name.
LEMMA AnswerKept ==
  ASSUME TypeOK, NEW c \in Clients, PhaseOK(c), AnswerOK(c), ExpectedOK(c),
         \A n \in Names : EntryOK(n), \A d \in Clients : SentOK(d), [Next]_vars
  PROVE  AnswerOK(c)'
<1>1. issued \subseteq issued' /\ (Crashed => Crashed') /\ <<c, callId[c]>> \in Requests
      /\ answer[c].src \in Requests
  BY HistoryGrows, EntryType DEF TypeOK, Requests
<1>2. CASE call[c] = "answered" /\ call'[c] = "answered" /\ UNCHANGED <<callId[c], answer[c]>>
  BY <1>1, <1>2, CollidedGrows, FinishedStays DEF AnswerOK
<1>3. CASE ~Own(c)
  <2>1. ASSUME NEW r \in Requests, Abort(r)
        PROVE  call'[c] = "answered" => call[c] = "answered"
    BY <2>1 DEF Abort
  <2>2. CASE call'[c] = "answered"
    BY <1>2, <1>3, <2>1, <2>2, OthersKeep DEF Same
  <2> QED BY <2>2 DEF AnswerOK
<1>4. ASSUME NEW id \in Ids, NEW n \in Names, GetOperation(c, id, n)
      PROVE  AnswerOK(c)'
  <2>1. /\ answer'[c] = table[n] /\ callId'[c] = id /\ <<<<c, id>>, n>> \in issued
        /\ id \in waiting[c] /\ call[c] = "none" /\ phase[c] = "polling" /\ <<c, id>> \in Requests
        /\ task' = task /\ issued' = issued /\ table[n].src \in Requests
    BY <1>4, EntryType DEF GetOperation, PhaseOK, TypeOK, Requests
  <2>2. table[n].status = "absent" => Crashed \/ Collided(<<c, id>>)
    BY <2>1 DEF ExpectedOK, Expected, Present
  <2> QED BY <1>1, <2>1, <2>2, CollidedGrows DEF AnswerOK, EntryOK
<1>5. CASE Own(c) /\ ~\E id \in Ids, n \in Names : GetOperation(c, id, n)
  <2>1. ASSUME call'[c] = "answered"
        PROVE  call[c] = "answered" /\ UNCHANGED <<callId[c], answer[c]>>
    BY <1>5, <2>1 DEF Own, ClientStep, HandlerStep, DeleteAll, CheckDatabase, SkipFile, NextRound, Submit, Started,
       StartPolling, Answered, Unavailable, InsertStarted, Enqueue, LoseReply, TypeOK, rpcs,
       clients
  <2> QED BY <1>2, <2>1 DEF AnswerOK
<1> QED BY <1>3, <1>4, <1>5

\* An entry goes away only in a crash, or when the answer for a request of
\* its name is handed out.
LEMMA PresentStays ==
  ASSUME TypeOK, [Next]_vars, ~Crashed', NEW c \in Clients, NEW id \in Ids, NEW n \in Names,
         <<<<c, id>>, n>> \in issued, Present(n) \/ Collided(<<c, id>>)
  PROVE  \/ Present(n)' \/ Collided(<<c, id>>)'
         \/ GetOperation(c, id, n) /\ table[n].status = "done"
<1>1. <<c, id>> \in Requests /\ issued \subseteq issued'
  BY HistoryGrows DEF Requests
<1>2. CASE Collided(<<c, id>>)
  BY <1>1, <1>2, CollidedGrows
<1>3. ASSUME NEW r \in Requests, Abort(r)
      PROVE  FALSE
  BY <1>3 DEF Abort, Crashed
<1>4. ASSUME NEW r \in Requests, NEW res \in Results, table'[n] = Done(r, res)
      PROVE  Present(n)'
  BY <1>4 DEF Present, Done
<1>5. CASE table'[n] = Running
  BY <1>5 DEF Present, Running
<1>6. ASSUME NEW d \in Clients, NEW k \in Ids, GetOperation(d, k, n), table[n].status = "done"
      PROVE  \/ Collided(<<c, id>>)'
             \/ GetOperation(c, id, n) /\ table[n].status = "done"
  <2>1. <<d, k>> \in Requests /\ <<<<d, k>>, n>> \in issued
    BY <1>6 DEF GetOperation, Requests
  <2>2. CASE <<d, k>> # <<c, id>>
    <3>1. Collided(<<c, id>>)
      BY <2>1, <2>2 DEF Collided
    <3> QED BY <1>1, <3>1, CollidedGrows
  <2>3. CASE <<d, k>> = <<c, id>>
    BY <1>6, <2>3
  <2> QED BY <2>2, <2>3
<1>7. CASE table'[n] = table[n] /\ Present(n)
  BY <1>7 DEF Present
<1> QED BY <1>2, <1>3, <1>4, <1>5, <1>6, <1>7, TableChanges

\* What a client expects to find it has expected before, or its handler has
\* just made sure of.
LEMMA ExpectedBefore ==
  ASSUME TypeOK, NEW c \in Clients, PhaseOK(c), SentOK(c), NamesOK, [Next]_vars,
         phase'[c] # "failed", ~Crashed',
         NEW id \in Ids, NEW n \in Names, <<<<c, id>>, n>> \in issued', Expected(c, id)'
  PROVE  \/ /\ phase[c] # "failed" /\ <<<<c, id>>, n>> \in issued /\ Expected(c, id)
            /\ ~(GetOperation(c, id, n) /\ table[n].status = "done")
         \/ Present(n)'
<1>1. CASE ~Own(c)
  <2>1. call'[c] = call[c] /\ Same(c)
    BY <1>1, OthersKeep DEF Abort, Crashed
  <2>2. ~GetOperation(c, id, n)
    BY <1>1 DEF Own, ClientStep
  <2> QED BY <1>1, <2>1, <2>2, OthersNames DEF Expected, Same
<1>2. ASSUME NEW k \in Ids, CheckDatabase(c, k) \/ SkipFile(c, k)
      PROVE  FALSE
  BY <1>2 DEF CheckDatabase, SkipFile, PhaseOK, InCall, Expected, rpcs
<1>11. CASE DeleteAll(c)
  BY <1>11 DEF DeleteAll, PhaseOK, InCall, Expected, TypeOK, rpcs
<1>3. CASE NextRound(c) \/ StartPolling(c)
  BY <1>3 DEF NextRound, StartPolling, GetOperation, PhaseOK, InCall, Expected, rpcs
<1>4. ASSUME NEW k \in Ids, Submit(c, k)
      PROVE  \/ /\ phase[c] # "failed" /\ <<<<c, id>>, n>> \in issued /\ Expected(c, id)
                /\ call[c] = "none" /\ phase[c] = "sending"
             \/ Present(n)'
  <2>1. /\ phase[c] = "sending" /\ call[c] = "none" /\ k \in toSend[c] /\ callId'[c] = k
        /\ waiting' = waiting /\ issued' = issued \union {<<<<c, k>>, <<k, second>>>>}
        /\ call'[c] \in {"insert", "enqueue"}
    BY <1>4 DEF Submit, TypeOK, clients
  <2>2. CASE id # k
    BY <2>1, <2>2 DEF Expected
  <2>3. CASE id = k
    <3>1. n = <<k, second>> /\ call'[c] = "enqueue"
      BY <2>1, <2>3 DEF SentOK, InCall, Expected, PhaseOK
    <3>2. Present(n) /\ table' = UpdateFound(n, Running)
      BY <1>4, <3>1 DEF Submit, TypeOK
    <3> QED BY <3>2 DEF UpdateFound, Present, Running, TypeOK
  <2> QED BY <2>2, <2>3
<1>5. CASE Started(c)
  BY <1>5 DEF Started, GetOperation, PhaseOK, InCall, Expected, TypeOK
<1>6. ASSUME NEW k \in Ids, NEW m \in Names, GetOperation(c, k, m)
      PROVE  /\ phase[c] # "failed" /\ <<<<c, id>>, n>> \in issued /\ Expected(c, id)
             /\ ~(GetOperation(c, id, n) /\ table[n].status = "done")
  BY <1>6 DEF GetOperation, PhaseOK, InCall, Expected, TypeOK
<1>7. CASE Answered(c)
  BY <1>7 DEF Answered, IsFinished, GetOperation, PhaseOK, InCall, Expected, TypeOK
<1>8. CASE Unavailable(c) \/ LoseReply(c)
  BY <1>8 DEF Unavailable, LoseReply, TypeOK
<1>9. ASSUME NEW m \in Names, InsertStarted(c, m)
      PROVE  \/ /\ phase[c] # "failed" /\ <<<<c, id>>, n>> \in issued /\ Expected(c, id)
                /\ call[c] # "none"
             \/ Present(n)'
  <2>1. /\ call[c] = "insert" /\ <<<<c, callId[c]>>, m>> \in issued /\ call'[c] = "enqueue"
        /\ callId' = callId /\ waiting' = waiting /\ issued' = issued /\ phase' = phase
    BY <1>9 DEF InsertStarted, TypeOK, clients
  <2>2. CASE callId[c] # id
    BY <2>1, <2>2 DEF Expected
  <2>3. CASE callId[c] = id
    <3>1. n = m
      BY <2>1, <2>3 DEF NamesOK, Requests
    <3>2. table' = UpdateInsert(n, Running)
      BY <1>9, <3>1 DEF InsertStarted
    <3> QED BY <3>2 DEF UpdateInsert, Present, Running, TypeOK
  <2> QED BY <2>2, <2>3
<1>10. CASE Enqueue(c)
  BY <1>10 DEF Enqueue, GetOperation, PhaseOK, InCall, Expected, TypeOK, clients
<1> QED BY <1>1, <1>2, <1>3, <1>4, <1>5, <1>6, <1>7, <1>8, <1>9, <1>10, <1>11
        DEF Own, ClientStep, HandlerStep, GetOperation

\* So what a client expects is there, or collided.
LEMMA ExpectedKept ==
  ASSUME TypeOK, NEW c \in Clients, PhaseOK(c), SentOK(c), NamesOK, ExpectedOK(c), [Next]_vars
  PROVE  ExpectedOK(c)'
<1>1. SUFFICES ASSUME phase'[c] # "failed", ~Crashed', NEW id \in Ids, NEW n \in Names,
                      <<<<c, id>>, n>> \in issued', Expected(c, id)'
               PROVE  Present(n)' \/ Collided(<<c, id>>)'
  BY DEF ExpectedOK
<1>2. ~Crashed
  BY <1>1, HistoryGrows
<1> QED BY <1>1, <1>2, ExpectedBefore, PresentStays DEF ExpectedOK

\* A client's file is on one of its lists.
Listed(c, id) == id \in unchecked[c] \union toSend[c] \union waiting[c]

\* A bitcode file leaves a client's lists only with a record in the database,
\* or when it is skipped.
LEMMA ListedKept ==
  ASSUME TypeOK, NEW c \in Clients, NEW id \in Ids, Listed(c, id), [Next]_vars
  PROVE  Listed(c, id)' \/ <<c, id>> \in skipped' \/ db'[id] # {}
<1>1. CASE ~Own(c)
  BY <1>1, OthersKeep DEF Listed, Same
<1>2. ASSUME NEW k \in Ids, CheckDatabase(c, k)
      PROVE  Listed(c, id)' \/ db'[id] # {}
  <2>1. CASE Unanswered(c, k)
    BY <1>2, <2>1 DEF CheckDatabase, Listed, TypeOK
  <2>2. CASE ~Unanswered(c, k)
    BY <1>2, <2>2 DEF CheckDatabase, Unanswered, AfterDelete, Listed, TypeOK
  <2> QED BY <2>1, <2>2
<1>3. ASSUME NEW k \in Ids, SkipFile(c, k)
      PROVE  Listed(c, id)' \/ <<c, id>> \in skipped'
  BY <1>3 DEF SkipFile, Listed, TypeOK
<1>4. CASE Started(c)
  BY <1>4 DEF Started, Listed, TypeOK
<1>5. CASE Answered(c)
  <2>1. UNCHANGED <<unchecked, toSend>>
    BY <1>5 DEF Answered
  <2>2. CASE waiting' = waiting
    BY <2>1, <2>2 DEF Listed
  <2>3. CASE waiting' # waiting
    <3>1. /\ waiting' = [waiting EXCEPT ![c] = @ \ {callId[c]}]
          /\ db' = [db EXCEPT ![callId[c]] = @ \union {NewRecord(c)}]
      BY <1>5, <2>3 DEF Answered
    <3>2. db'[callId[c]] # {}
      BY <3>1 DEF TypeOK
    <3>3. waiting'[c] = waiting[c] \ {callId[c]}
      BY <3>1 DEF TypeOK
    <3> QED BY <2>1, <3>2, <3>3 DEF Listed
  <2> QED BY <2>2, <2>3
<1>6. CASE /\ Own(c) /\ ~Started(c) /\ ~Answered(c)
           /\ ~\E k \in Ids : CheckDatabase(c, k) \/ SkipFile(c, k)
  <2>1. UNCHANGED <<unchecked, toSend, waiting>>
    BY <1>6 DEF Own, ClientStep, HandlerStep, DeleteAll, NextRound, Submit, StartPolling,
       GetOperation, Unavailable, InsertStarted, Enqueue, LoseReply, clients
  <2> QED BY <2>1 DEF Listed
<1> QED BY <1>1, <1>2, <1>3, <1>4, <1>5, <1>6

\* No command goes back to its deletion.
LEMMA DeletesOnce ==
  ASSUME TypeOK, [Next]_vars, NEW c \in Clients, phase[c] # "deleting"
  PROVE  phase'[c] # "deleting"
<1>1. CASE ~Own(c)
  BY <1>1, OthersKeep DEF Same
<1>2. CASE Own(c)
  BY <1>2 DEF Own, ClientStep, HandlerStep, DeleteAll, CheckDatabase, SkipFile, NextRound, Submit,
     Started, StartPolling, GetOperation, Answered, Unavailable, InsertStarted, Enqueue,
     LoseReply, TypeOK, clients
<1> QED BY <1>1, <1>2

\* What a command has deleted stays its to replace until there is a record.
LEMMA DeletedKept ==
  ASSUME TypeOK, [Next]_vars, NEW c \in Clients, NEW id \in Ids, Deleted(c, id)
  PROVE  Deleted(c, id)' \/ db'[id] # {}
<1>1. skipped \subseteq skipped'
  BY HistoryGrows
<1>2. CASE <<c, id>> \in skipped
  BY <1>1, <1>2 DEF Deleted
<1>3. CASE Unfinished(c, id)
  <2>1. phase'[c] # "deleting"
    BY <1>3, DeletesOnce DEF Unfinished
  <2>2. Listed(c, id)' \/ <<c, id>> \in skipped' \/ db'[id] # {}
    BY <1>3, ListedKept DEF Unfinished, Listed
  <2> QED BY <1>1, <2>1, <2>2 DEF Deleted, Unfinished, Listed
<1> QED BY <1>2, <1>3 DEF Deleted

\* Only a command with --overwrite takes a record away.
LEMMA RecordsKept ==
  ASSUME TypeOK, \A c \in Clients : PhaseOK(c), [Next]_vars, NEW id \in Ids, db[id] # {}
  PROVE  db'[id] # {} \/ \E c \in Clients : Deleted(c, id)'
<1>1. ASSUME NEW c \in Clients, DeleteAll(c)
      PROVE  Deleted(c, id)'
  <2>1. phase'[c] = "checking" /\ unchecked' = unchecked
    BY <1>1 DEF DeleteAll, TypeOK
  <2>2. unchecked[c] = Ids /\ c \in Overwriters
    BY <1>1 DEF DeleteAll, PhaseOK
  <2> QED BY <2>1, <2>2 DEF Deleted, Unfinished
<1>2. ASSUME NEW c \in Clients, NEW k \in Ids, CheckDatabase(c, k)
      PROVE  db'[id] # {} \/ Deleted(c, id)'
  <2>1. CASE db' = db
    BY <2>1
  <2>2. CASE db' # db
    <3>1. Deletes(c) /\ db' = [db EXCEPT ![k] = {}]
      BY <1>2, <2>2 DEF CheckDatabase, AfterDelete
    <3>2. k \in toSend'[c] /\ phase'[c] = "checking"
      BY <1>2, <3>1 DEF CheckDatabase, Unanswered, TypeOK
    <3> QED BY <3>1, <3>2 DEF Deletes, Deleted, Unfinished, TypeOK
  <2> QED BY <2>1, <2>2
<1>3. ASSUME NEW c \in Clients, NEW k \in Ids, SkipFile(c, k)
      PROVE  db'[id] # {} \/ Deleted(c, id)'
  <2>1. CASE db' = db
    BY <2>1
  <2>2. CASE db' # db
    <3>1. Deletes(c) /\ db' = [db EXCEPT ![k] = {}]
      BY <1>3, <2>2 DEF SkipFile, AfterDelete
    <3>2. <<c, k>> \in skipped'
      BY <1>3 DEF SkipFile
    <3> QED BY <3>1, <3>2 DEF Deletes, Deleted, TypeOK
  <2> QED BY <2>1, <2>2
<1>4. ASSUME NEW c \in Clients, Answered(c)
      PROVE  db'[id] # {}
  BY <1>4 DEF Answered, TypeOK
<1>5. CASE \A c \in Clients : /\ ~DeleteAll(c) /\ ~Answered(c)
                              /\ ~\E k \in Ids : CheckDatabase(c, k) \/ SkipFile(c, k)
  <2>1. db' = db
    <3>1. ASSUME NEW c \in Clients, ClientStep(c) \/ HandlerStep(c) \/ LoseReply(c)
          PROVE  db' = db
      BY <1>5, <3>1 DEF ClientStep, HandlerStep, NextRound, Submit, Started, StartPolling,
         GetOperation, Unavailable, InsertStarted, Enqueue, LoseReply
    <3>2. ASSUME NEW r \in Requests, TaskStep(r) \/ Abort(r)
          PROVE  db' = db
      BY <3>2 DEF TaskStep, FinishFound, FinishMissing, InsertFinished, Abort
    <3>3. CASE Restart \/ Tick \/ UNCHANGED vars
      BY <3>3 DEF Restart, Tick, vars
    <3> QED BY <3>1, <3>2, <3>3 DEF Next
  <2> QED BY <2>1
<1> QED BY <1>1, <1>2, <1>3, <1>4, <1>5

\* So a file without a record is on a list, skipped, or deleted and still to
\* be replaced.
LEMMA StoredKept ==
  ASSUME TypeOK, \A d \in Clients : PhaseOK(d), NEW c \in Clients, StoredOK(c), [Next]_vars
  PROVE  StoredOK(c)'
<1> SUFFICES ASSUME NEW id \in Ids, db'[id] = {}
             PROVE  \/ Listed(c, id)' \/ <<c, id>> \in skipped'
                    \/ \E d \in Clients : Deleted(d, id)'
  BY DEF StoredOK, Listed
<1>1. CASE Listed(c, id)
  BY <1>1, ListedKept
<1>2. CASE <<c, id>> \in skipped
  BY <1>2, HistoryGrows
<1>3. CASE db[id] # {}
  BY <1>3, RecordsKept
<1>4. ASSUME NEW d \in Clients, Deleted(d, id)
      PROVE  Deleted(d, id)'
  BY <1>4, DeletedKept
<1> QED BY <1>1, <1>2, <1>3, <1>4 DEF StoredOK, Listed

\* A client's tasks that have not published are those it waits for, and the
\* one whose reply is on its way or was the last.
LEMMA ActiveKept ==
  ASSUME TypeOK, NEW c \in Clients, PhaseOK(c), AnswerOK(c), ActiveOK(c), [Next]_vars
  PROVE  ActiveOK(c)'
<1>1. SUFFICES ASSUME \A id \in Ids : ~Collided(<<c, id>>)', NEW id \in Ids, Active(<<c, id>>)'
               PROVE  \/ id \in waiting'[c]
                      \/ callId'[c] = id /\ (call'[c] = "started" \/ phase'[c] = "failed")
  BY DEF ActiveOK
<1>2. <<c, id>> \in Requests /\ \A k \in Ids : ~Collided(<<c, k>>)
  BY <1>1, HistoryGrows, CollidedGrows DEF Requests
<1>3. CASE Enqueue(c) /\ callId[c] = id
  BY <1>3 DEF Enqueue, TypeOK
<1>4. CASE ~(Enqueue(c) /\ callId[c] = id)
  <2>1. Active(<<c, id>>)
    BY <1>1, <1>2, <1>4, TaskChanges DEF Active, Results
  <2>2. id \in waiting[c] \/ (callId[c] = id /\ (call[c] = "started" \/ phase[c] = "failed"))
    BY <1>2, <2>1 DEF ActiveOK
  <2>3. CASE ~Own(c)
    BY <2>2, <2>3, OthersKeep DEF Same, Abort
  <2>4. CASE Answered(c)
    <3>1. CASE IsFinished(c) /\ callId[c] = id
      <4>1. PICK n \in Names : <<answer[c].src, n>> \in issued /\ <<<<c, id>>, n>> \in issued
        BY <2>4, <3>1 DEF Answered, AnswerOK, IsFinished
      <4>2. answer[c].src = <<c, id>>
        BY <1>2, <4>1, EntryType DEF Collided, TypeOK
      <4> QED BY <2>1, <2>4, <3>1, <4>2 DEF Answered, AnswerOK, IsFinished, Active, Results
    <3>2. CASE ~(IsFinished(c) /\ callId[c] = id)
      BY <2>2, <2>4, <3>2 DEF Answered, IsFinished, PhaseOK, TypeOK
    <3> QED BY <3>1, <3>2
  <2>5. CASE Started(c)
    BY <2>2, <2>5 DEF Started, TypeOK
  <2>6. CASE Own(c) /\ ~Answered(c) /\ ~Started(c)
    <3>1. waiting' = waiting
      BY <2>6 DEF Own, ClientStep, HandlerStep, DeleteAll, CheckDatabase, SkipFile, NextRound, Submit, StartPolling,
         GetOperation, Unavailable, InsertStarted, Enqueue, LoseReply, clients
    <3>2. ASSUME callId[c] = id, call[c] = "started" \/ phase[c] = "failed"
          PROVE  callId'[c] = id /\ (call'[c] = "started" \/ phase'[c] = "failed")
      BY <2>6, <3>2
      DEF Own, ClientStep, HandlerStep, DeleteAll, CheckDatabase, SkipFile, NextRound, Submit, StartPolling,
         GetOperation, Unavailable, InsertStarted, Enqueue, LoseReply, clients, rpcs, PhaseOK,
         InCall, TypeOK
    <3> QED BY <2>2, <3>1, <3>2
  <2> QED BY <2>3, <2>4, <2>5, <2>6
<1> QED BY <1>3, <1>4

\* The requests in flight, the one being sent included, fit into max_tasks.
LEMMA WindowKept ==
  ASSUME TypeOK, NEW c \in Clients, PhaseOK(c), WindowOK(c), [Next]_vars
  PROVE  WindowOK(c)'
<1> DEFINE Window == waiting[c] \union {callId[c]}
<1>1. IsFiniteSet(Window) /\ IsFiniteSet(waiting[c]) /\ Cardinality(Window) \in Nat
      /\ Cardinality(waiting[c]) \in Nat
  BY InstanceAssumption, FS_Subset, FS_CardinalityType DEF TypeOK
<1>2. ASSUME NEW id \in Ids, Submit(c, id)
      PROVE  WindowOK(c)'
  <2>1. waiting'[c] \union {callId'[c]} = waiting[c] \union {id}
    BY <1>2 DEF Submit, TypeOK, clients
  <2>2. Cardinality(waiting[c]) < MaxTasks
    BY <1>2 DEF Submit, MaySend
  <2>3. Cardinality(waiting[c] \union {id})
        = IF id \in waiting[c] THEN Cardinality(waiting[c]) ELSE Cardinality(waiting[c]) + 1
    BY <1>1, FS_AddElement, Zenon
  <2>4. Cardinality(waiting[c] \union {id}) <= MaxTasks
    BY <1>1, <2>2, <2>3, BoundsAssumption
  <2> QED BY <2>1, <2>4, Zenon DEF WindowOK
<1>3. CASE ~\E id \in Ids : Submit(c, id)
  <2>1. waiting'[c] \union {callId'[c]} \subseteq Window
    <3>1. CASE ~Own(c)
      BY <3>1, OthersKeep DEF Same
    <3>2. CASE Started(c) \/ Answered(c)
      BY <3>2 DEF Started, Answered, TypeOK
    <3>3. ASSUME NEW id \in Ids, NEW n \in Names, GetOperation(c, id, n)
          PROVE  waiting'[c] \union {callId'[c]} \subseteq Window
      BY <3>3 DEF GetOperation, PhaseOK, TypeOK
    <3>4. CASE /\ Own(c) /\ ~Started(c) /\ ~Answered(c)
               /\ ~\E id \in Ids, n \in Names : GetOperation(c, id, n)
      BY <1>3, <3>4 DEF Own, ClientStep, HandlerStep, DeleteAll, CheckDatabase, SkipFile, NextRound, StartPolling,
         Unavailable, InsertStarted, Enqueue, LoseReply, clients, rpcs
    <3> QED BY <3>1, <3>2, <3>3, <3>4
  <2>2. Cardinality(waiting'[c] \union {callId'[c]}) <= Cardinality(Window)
        /\ Cardinality(waiting'[c] \union {callId'[c]}) \in Nat
    BY <1>1, <2>1, FS_Subset, FS_CardinalityType
  <2> QED BY <1>1, <2>2, BoundsAssumption DEF WindowOK
<1> QED BY <1>2, <1>3

\* A client fails for one of the reasons there are.
LEMMA FailureKept ==
  ASSUME TypeOK, \A c \in Clients : PhaseOK(c) /\ AnswerOK(c), NoFalseFailure, [Next]_vars
  PROVE  NoFalseFailure'
<1> DEFINE Excused(c) == c \in lost \/ Crashed \/ \E id \in Ids : Collided(<<c, id>>)
<1>1. ASSUME NEW c \in Clients, Excused(c)
      PROVE  Excused(c)'
  BY <1>1, HistoryGrows, CollidedGrows DEF Requests
<1>2. ASSUME NEW c \in Clients, phase[c] # "failed", phase'[c] = "failed"
      PROVE  Excused(c)'
  <2>1. CASE ~Own(c)
    BY <1>2, <2>1, OthersKeep DEF Same
  <2>2. CASE LoseReply(c)
    BY <2>2 DEF LoseReply
  <2>3. CASE Unavailable(c)
    <3>1. Crashed
      BY <2>3 DEF Unavailable, PhaseOK, Crashed
    <3> QED BY <1>1, <3>1
  <2>4. CASE Answered(c)
    <3>1. Crashed \/ Collided(<<c, callId[c]>>)
      BY <1>2, <2>4 DEF Answered, AnswerOK
    <3> QED BY <1>1, <3>1 DEF TypeOK
  <2>5. CASE Own(c) /\ ~LoseReply(c) /\ ~Unavailable(c) /\ ~Answered(c)
    BY <1>2, <2>5 DEF Own, ClientStep, HandlerStep, DeleteAll, CheckDatabase, SkipFile, NextRound, Submit, Started,
       StartPolling, GetOperation, InsertStarted, Enqueue, clients, TypeOK
  <2> QED BY <2>1, <2>2, <2>3, <2>4, <2>5
<1> HIDE DEF Excused
<1>3. \A c \in Clients : phase[c] = "failed" => Excused(c)
  BY DEF NoFalseFailure, Excused
<1>4. \A c \in Clients : phase'[c] = "failed" => Excused(c)'
  BY <1>1, <1>2, <1>3
<1> QED BY <1>4 DEF NoFalseFailure, Excused

-----------------------------------------------------------------------------
(* The invariant and what follows from it.                                 *)

\* The invariant holds at the start ...
LEMMA InitIsOK == Init => IInv
<1> SUFFICES ASSUME Init PROVE IInv
  OBVIOUS
<1>1. TypeOK
  BY InitTypeOK
<1>2. NamesOK /\ \A n \in Names : EntryOK(n)
  BY DEF Init, NamesOK, EntryOK, Absent
<1>3. ASSUME NEW c \in Clients
      PROVE  PhaseOK(c) /\ SentOK(c) /\ AnswerOK(c) /\ ExpectedOK(c) /\ StoredOK(c)
  BY DEF Init, PhaseOK, SentOK, AnswerOK, ExpectedOK, StoredOK, InCall
<1>4. ASSUME NEW c \in Clients
      PROVE  ActiveOK(c)
  BY DEF Init, ActiveOK, Active, Results, Requests
<1>5. ASSUME NEW c \in Clients
      PROVE  WindowOK(c)
  <2>1. waiting[c] \union {callId[c]} = {callId[c]}
    BY DEF Init
  <2>2. Cardinality({callId[c]}) = 1
    BY FS_Singleton
  <2> QED BY <2>1, <2>2, BoundsAssumption DEF WindowOK
<1>6. NoFalseFailure
  BY DEF Init, NoFalseFailure
<1> QED BY <1>1, <1>2, <1>3, <1>4, <1>5, <1>6 DEF IInv

\* ... and every step keeps each of its parts.
LEMMA StepIsOK == IInv /\ [Next]_vars => IInv'
<1> SUFFICES ASSUME IInv, [Next]_vars PROVE IInv'
  OBVIOUS
<1> USE DEF IInv
<1>1. TypeOK'
  BY TypeKept
<1>2. NamesOK'
  BY NamesKept
<1>3. ASSUME NEW n \in Names
      PROVE  EntryOK(n)'
  BY EntryOKKept
<1>4. ASSUME NEW c \in Clients
      PROVE  /\ PhaseOK(c)' /\ SentOK(c)' /\ AnswerOK(c)' /\ ExpectedOK(c)'
             /\ StoredOK(c)' /\ ActiveOK(c)' /\ WindowOK(c)'
  BY PhaseKept, SentKept, AnswerKept, ExpectedKept, StoredKept, ActiveKept, WindowKept
<1>5. NoFalseFailure'
  BY FailureKept
<1> QED BY <1>1, <1>2, <1>3, <1>4, <1>5

\* All parts of the invariant hold in every reachable state.
THEOREM Invariance == Spec => []IInv
  BY InitIsOK, StepIsOK, PTL DEF Spec

\* wait_for_operations raises only because of a lost reply, a dead server or
\* a shared name (NoFalseFailure).
THEOREM FailuresHaveAReason == Spec => []NoFalseFailure
<1>1. IInv => NoFalseFailure
  BY DEF IInv
<1> QED BY <1>1, Invariance, PTL

\* A command that ends without an exception has a record for every bitcode
\* file that it did not skip, unless a command with --overwrite deleted it
\* and has not replaced it (the `...All` commands, notify).
THEOREM DoneCommandsHaveStored == Spec => []DoneMeansStored
<1>1. IInv => DoneMeansStored
  BY DEF IInv, DoneMeansStored, PhaseOK, StoredOK
<1> QED BY <1>1, Invariance, PTL

\* max_tasks bounds the tasks that a client without collisions has at the
\* server.
THEOREM LoadIsBounded == Spec => []LoadBounded
<1>1. ASSUME IInv, NEW c \in Clients, \A id \in Ids : ~Collided(<<c, id>>)
      PROVE  Cardinality({id \in Ids : Active(<<c, id>>)}) <= MaxTasks
  <2> DEFINE Load == {id \in Ids : Active(<<c, id>>)}
             Window == waiting[c] \union {callId[c]}
  <2>1. Load \subseteq Window
    BY <1>1 DEF IInv, ActiveOK
  <2>2. IsFiniteSet(Window)
    BY <1>1, InstanceAssumption, FS_Subset DEF IInv, TypeOK
  <2>3. Cardinality(Load) <= Cardinality(Window) /\ Cardinality(Load) \in Nat
        /\ Cardinality(Window) \in Nat
    BY <2>1, <2>2, FS_Subset, FS_CardinalityType
  <2>4. Cardinality(Window) <= MaxTasks
    BY <1>1 DEF IInv, WindowOK
  <2> QED BY <2>3, <2>4, BoundsAssumption
<1>2. IInv => LoadBounded
  BY <1>1 DEF LoadBounded, Active
<1> QED BY <1>2, Invariance, PTL

\* UpdateOperation never makes a finished operation unfinished, whatever races
\* (operations_service.cc:9-11).
THEOREM FinishedIsFinal == Spec => NeverUnfinished
<1>1. TypeOK /\ [Next]_vars =>
        [\A n \in Names : table[n].status = "done" => table'[n].status # "running"]_vars
  <2>1. ASSUME TypeOK, [Next]_vars, NEW n \in Names, table[n].status = "done"
        PROVE  table'[n].status # "running"
    <3>1. \/ table'[n] = table[n] \/ table'[n] = Absent
          \/ \E r \in Requests, res \in Results : table'[n] = Done(r, res)
      BY <2>1, TableChanges
    <3>2. ASSUME NEW r \in Requests, NEW res \in Results
          PROVE  Done(r, res).status = "done"
      BY DEF Done
    <3>3. Absent.status = "absent"
      BY DEF Absent
    <3> QED BY <2>1, <3>1, <3>2, <3>3
  <2> QED BY <2>1
<1> QED BY <1>1, TypeCorrectness, PTL DEF Spec, NeverUnfinished

-----------------------------------------------------------------------------
(* The table and the replies implement ResultPool.                         *)

\* A result is in one entry only.
LEMMA HeldOnce ==
  ASSUME IInv, NEW n \in Names, NEW m \in Names,
         table[n].status = "done", table[m].status = "done", table[n].src = table[m].src
  PROVE  n = m
<1>1. table[n].src \in Requests
  BY EntryType DEF IInv, TypeOK
<1> QED BY <1>1 DEF IInv, NamesOK, EntryOK

\* No task has published at the start.
LEMMA PoolInit == Init => Pool!Init
  BY DEF Init, Pool!Init, Published, Held, Absent

\* The results that the table holds, before a step ...
LEMMA HeldMeans ==
  \A s : s \in Held <=> \E n \in Names : table[n].status = "done" /\ table[n].src = s
  BY DEF Held

\* ... and after it.
LEMMA HeldMeansNext ==
  \A s : s \in Held' <=> \E n \in Names : table'[n].status = "done" /\ table'[n].src = s
  BY DEF Held

\* A step that writes the result of r to at most one entry, and otherwise
\* only entries that are not done, adds nothing but r.
LEMMA HeldAdds ==
  ASSUME TypeOK, NEW r \in Requests, NEW n \in Names, NEW res \in Results,
         table' \in {table, [table EXCEPT ![n] = Done(r, res)]}
  PROVE  Held' \subseteq Held \union {r}
<1>1. ASSUME NEW m \in Names, table'[m].status = "done"
      PROVE  table'[m].src = r \/ (table[m].status = "done" /\ table[m].src = table'[m].src)
  BY <1>1 DEF TypeOK, Done
<1> QED BY <1>1, HeldMeans, HeldMeansNext

\* Running operations are no results.
LEMMA HeldStays ==
  ASSUME TypeOK, NEW n \in Names,
         table' = table \/ (table[n].status # "done" /\ table' = [table EXCEPT ![n] = Running])
  PROVE  Held' = Held
<1>1. ASSUME NEW m \in Names
      PROVE  /\ table'[m].status = "done" <=> table[m].status = "done"
             /\ table[m].status = "done" => table'[m].src = table[m].src
  BY DEF TypeOK, Running
<1> QED BY <1>1, HeldMeans, HeldMeansNext

\* A task that finishes publishes its result.
LEMMA TaskPublishes ==
  ASSUME IInv, NEW r \in Requests, TaskStep(r)
  PROVE  Pool!Publish(r) \/ UNCHANGED Pool!vars
<1> USE DEF IInv
<1>1. ASSUME NEW n \in Names, NEW res \in Results, FinishFound(r, n, res)
      PROVE  Pool!Publish(r)
  <2>1. Published' = Published \union {r} /\ r \notin Published
    BY <1>1 DEF FinishFound, Published, TypeOK
  <2>2. Held' \subseteq Held \union {r}
    BY <1>1, HeldAdds DEF FinishFound, UpdateFound
  <2> QED BY <1>1, <2>1, <2>2 DEF FinishFound, Pool!Publish
<1>2. ASSUME NEW n \in Names, NEW res \in Results, FinishMissing(r, n, res)
      PROVE  UNCHANGED Pool!vars
  <2>1. Published' = Published
    BY <1>2 DEF FinishMissing, Published, TypeOK, Results
  <2>2. Held' = Held
    BY <1>2 DEF FinishMissing, Held
  <2> QED BY <1>2, <2>1, <2>2 DEF FinishMissing, Pool!vars
<1>3. ASSUME NEW n \in Names, InsertFinished(r, n)
      PROVE  Pool!Publish(r)
  <2>1. Published' = Published \union {r} /\ r \notin Published
    BY <1>3 DEF InsertFinished, Published, TypeOK, Results
  <2>2. Held' \subseteq Held \union {r}
    BY <1>3, HeldAdds DEF InsertFinished, UpdateInsert
  <2> QED BY <1>3, <2>1, <2>2 DEF InsertFinished, Pool!Publish
<1> QED BY <1>1, <1>2, <1>3 DEF TaskStep

\* GetOperation of a finished operation takes its result out of the pool.
LEMMA GetTakes ==
  ASSUME IInv, NEW c \in Clients, NEW id \in Ids, NEW n \in Names, GetOperation(c, id, n)
  PROVE  (\E s \in Requests : Pool!Take(<<c, id>>, s)) \/ UNCHANGED Pool!vars
<1> USE DEF IInv
<1> DEFINE s == table[n].src
<1>1. Published' = Published /\ <<c, id>> \in Requests /\ s \in Requests
      /\ <<<<c, id>>, n>> \in issued
  BY EntryType DEF GetOperation, Published, Requests, TypeOK
<1>2. CASE table[n].status = "done"
  <2>1. s \in Held /\ delivered' = delivered \union {<<<<c, id>>, s>>}
    BY <1>2, HeldMeans DEF GetOperation
  <2>2. s[2] = n[1] /\ <<c, id>>[2] = n[1]
    BY <1>1, <1>2 DEF EntryOK, NamesOK
  <2>3. Held' = Held \ {s}
    <3>1. ASSUME NEW m \in Names
          PROVE  /\ table'[m].status = "done" <=> (table[m].status = "done" /\ m # n)
                 /\ m # n => table'[m] = table[m]
      BY <1>2 DEF GetOperation, AfterGet, TypeOK, Absent
    <3>2. \A m \in Names : table[m].status = "done" /\ m # n => table[m].src # s
      BY <1>2, HeldOnce
    <3> QED BY <1>2, <3>1, <3>2, HeldMeans, HeldMeansNext
  <2> HIDE DEF s
  <2>4. Pool!Take(<<c, id>>, s)
    BY <1>1, <2>1, <2>2, <2>3 DEF Pool!Take
  <2> QED BY <1>1, <2>4
<1>3. CASE table[n].status # "done"
  BY <1>1, <1>3 DEF GetOperation, AfterGet, Held, Pool!vars
<1> QED BY <1>2, <1>3

\* Every step is one of ResultPool or leaves its state alone.
LEMMA PoolStep == IInv /\ [Next]_vars => [Pool!Next]_(Pool!vars)
<1> SUFFICES ASSUME IInv, [Next]_vars PROVE Pool!Next \/ UNCHANGED Pool!vars
  OBVIOUS
<1> USE DEF IInv
<1>1. ASSUME NEW c \in Clients, NEW id \in Ids, Submit(c, id)
      PROVE  UNCHANGED Pool!vars
  <2>1. <<id, second>> \in Names
    BY DEF TypeOK, Names
  <2>2. Held' = Held
    BY <1>1, <2>1, HeldStays DEF Submit, UpdateFound, Running
  <2> QED BY <1>1, <2>2 DEF Submit, Published, Pool!vars
<1>2. ASSUME NEW c \in Clients, HandlerStep(c)
      PROVE  UNCHANGED Pool!vars
  <2>1. ASSUME NEW n \in Names, InsertStarted(c, n)
        PROVE  UNCHANGED Pool!vars
    <3>1. Held' = Held
      BY <2>1, HeldStays DEF InsertStarted, UpdateInsert, Present
    <3> QED BY <2>1, <3>1 DEF InsertStarted, Published, Pool!vars
  <2>2. CASE Enqueue(c)
    <3>1. task[<<c, callId[c]>>] = "none"
      BY <2>2 DEF Enqueue, SentOK
    <3>2. Published' = Published
      BY <2>2, <3>1 DEF Enqueue, Published, TypeOK
    <3>3. Held' = Held
      BY <2>2 DEF Enqueue, Held
    <3> QED BY <2>2, <3>2, <3>3 DEF Enqueue, Pool!vars
  <2> QED BY <1>2, <2>1, <2>2 DEF HandlerStep
<1>3. ASSUME NEW c \in Clients, ClientStep(c) \/ LoseReply(c),
             ~\E id \in Ids : Submit(c, id), ~\E id \in Ids, n \in Names : GetOperation(c, id, n)
      PROVE  UNCHANGED Pool!vars
  <2>1. UNCHANGED <<table, task, delivered>>
    BY <1>3 DEF ClientStep, DeleteAll, CheckDatabase, SkipFile, NextRound, Started, StartPolling, Answered,
       Unavailable, LoseReply
  <2> QED BY <2>1 DEF Published, Held, Pool!vars
<1>4. ASSUME NEW r \in Requests, Abort(r)
      PROVE  Pool!Crash
  <2>1. Held' = {}
    BY <1>4 DEF Abort, Held, Absent
  <2>2. Published' = Published
    BY <1>4 DEF Abort, Published, TypeOK
  <2> QED BY <1>4, <2>1, <2>2 DEF Abort, Pool!Crash
<1>5. CASE Restart \/ Tick \/ UNCHANGED vars
  BY <1>5 DEF Restart, Tick, vars, Published, Held, Pool!vars
<1>6. ASSUME NEW c \in Clients, NEW id \in Ids, NEW n \in Names, GetOperation(c, id, n)
      PROVE  Pool!Next \/ UNCHANGED Pool!vars
  BY <1>6, GetTakes DEF Pool!Next, Requests
<1>7. ASSUME NEW r \in Requests, TaskStep(r)
      PROVE  Pool!Next \/ UNCHANGED Pool!vars
  BY <1>7, TaskPublishes DEF Pool!Next
<1> QED BY <1>1, <1>2, <1>3, <1>4, <1>5, <1>6, <1>7 DEF Next, Pool!Next

\* Each task publishes once, and each result goes to at most one request,
\* about the same bitcode file.
THEOREM TableImplementsPool == Spec => ImplementsPool
  BY PoolInit, PoolStep, Invariance, PTL DEF Spec, ImplementsPool, Pool!Spec

=============================================================================
