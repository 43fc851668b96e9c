------------------------ MODULE SpecificationsProofs ------------------------
(***************************************************************************)
(* Proofs about Specifications: first about clients, files and contents,   *)
(* for every number of them; then about the GPT service, for every ctags   *)
(* file, every reply and any number of requests that read a file at once.  *)
(***************************************************************************)
EXTENDS Specifications, TLAPS, WellFoundedInduction

-----------------------------------------------------------------------------
(* The inductive invariant.                                                *)

\* What kind of call is at which place.
CallOK(c) ==
  /\ rpc[c].op = "none" => rpc[c].at = "none"
  /\ rpc[c].op = "register" => rpc[c].at \in {"read", "insert", "inserting", "replied", "failed"}
  /\ rpc[c].op = "annotate" => rpc[c].out \in Uris
  /\ rpc[c].op = "download" => rpc[c].at \in {"lookup", "load", "chunks", "replied", "failed"}
  /\ rpc[c].at \in {"open", "write"} => rpc[c].op = "annotate"
  /\ rpc[c].at \in {"read", "insert", "inserting", "load"} => rpc[c].uri \in Uris
  /\ rpc[c].at = "chunks" => rpc[c].op = "download"

Records == [by : Clients, bytes : Contents \X Nat]

TypeInv ==
  /\ TypeOK
  /\ command \in [Clients -> Commands]
  /\ eesiUp \in BOOLEAN
  /\ stored \in [Contents -> SUBSET Records]
  /\ \A c \in Clients : CallOK(c)

\* Where a client is while its calls and its task are in progress.
PhaseOK(c) ==
  /\ phase[c] \in {"lookup", "record", "insert"} => rpc[c].op = "none"
  /\ phase[c] \in {"register", "handle"} => rpc[c].op \in {"none", "register"}
  /\ phase[c] = "annotate" => command[c].kind = "annotate"
  /\ phase[c] = "delete" => command[c].overwrite
  /\ task[c] \notin {"none", "finished"} => phase[c] = "waiting"
  /\ task[c] = "finished" => phase[c] \in {"waiting", "done"}
  /\ task[c] = "downloading" <=> rpc[c].op = "download"
  /\ task[c] # "none" => eesiUp

\* A file that exists has had its content, and is not deleted.
FilesOK ==
  /\ \A u \in Uris : file[u] # Missing => <<u, file[u]>> \in held
  /\ \A u \in Uris, x \in Contents : <<u, x>> \in held => file[u] # Missing

\* Where the URI of a call comes from, and what its reply promises.
HandleOK(c) ==
  /\ rpc[c].at \in {"insert", "inserting", "load"} => <<rpc[c].uri, rpc[c].id>> \in held
  /\ rpc[c].raced => raced
  /\ At(c, "register", "replied") => rpc[c].id \in DOMAIN registered \/ crashes > 0 \/ raced

\* Some URI has had both contents.
Replaced(h, x) == \E u \in Uris : <<u, h>> \in held /\ <<u, x>> \in held

\* Whole chunks of a file that the handle names are sent, if nothing fails.
DownloadOK(c) ==
  rpc[c].op = "download" =>
    /\ rpc[c].id = handle[c]
    /\ rpc[c].at \in {"lookup", "load"} => rpc[c].sent = 0 /\ rpc[c].chunks = 0
    /\ rpc[c].at \in {"chunks", "replied"} \/ rpc[c].sent # 0 =>
         rpc[c].content = rpc[c].id \/ Replaced(rpc[c].id, rpc[c].content)
    /\ rpc[c].at = "failed" => crashes > 0 \/ (raced /\ rpc[c].sent = 0)
    /\ rpc[c].at = "chunks" =>
         /\ rpc[c].sent <= Length[rpc[c].content]
         /\ rpc[c].sent = rpc[c].chunks * kChunkSize
         /\ rpc[c].chunks > 0 => rpc[c].sent < Length[rpc[c].content]

\* StoredAreOfFile of one result.
OfFile(h, bytes) ==
  \/ bytes = Whole(h)
  \/ bytes = <<Nothing, 0>> /\ (crashes > 0 \/ raced)
  \/ bytes[1] = h /\ crashes > 0
  \/ bytes[1] # h /\ Replaced(h, bytes[1])

ReceivedOK(c) ==
  task[c] \in {"thirdparty", "asking third party", "asking", "finished"} =>
    OfFile(handle[c], received[c])

\* A client that has not found a record and one that has made one met.
InsertOK(c) ==
  phase[c] = "insert" => \A r \in filenames : r.uri = command[c].uri => r.overtakes

IInv ==
  /\ TypeInv
  /\ FilesOK
  /\ \A c \in Clients : PhaseOK(c) /\ HandleOK(c) /\ DownloadOK(c) /\ ReceivedOK(c) /\ InsertOK(c)
  /\ StoredAreOfFile /\ DownloadsWhole /\ ServerSurvives /\ HandlesResolve
  /\ UriRecordedOnce /\ DoneMeansStored

-----------------------------------------------------------------------------
(* Types.                                                                  *)

Places == {"none", "read", "insert", "inserting", "lookup", "load", "open", "write",
           "chunks", "replied", "failed"}

Calls ==
  [op : {"none", "register", "annotate", "download"}, at : Places,
   uri : Uris \union {Missing}, id : Contents, content : Contents,
   out : Uris \union {Missing}, sent : Nat, chunks : Nat, raced : BOOLEAN]

Phases == {"lookup", "register", "record", "insert", "handle", "delete",
           "search", "submit", "waiting", "annotate", "done", "failed"}

Tasks == {"none", "queued", "downloading", "thirdparty", "asking third party", "asking",
          "finished"}

\* TypeInv in the parts that the steps change.
RpcOK == rpc \in [Clients -> Calls] /\ \A c \in Clients : CallOK(c)

TableOK ==
  /\ file \in [Uris -> Contents \union {Missing}]
  /\ held \subseteq Uris \X Contents
  /\ DOMAIN registered \subseteq Contents
  /\ \A i \in DOMAIN registered : registered[i] \in Uris
  /\ crashes \in 0..MaxCrashes
  /\ raced \in BOOLEAN

ClientsOK ==
  /\ command \in [Clients -> Commands]
  /\ phase \in [Clients -> Phases]
  /\ handle \in [Clients -> Contents]

EesiOK ==
  /\ eesiUp \in BOOLEAN
  /\ task \in [Clients -> Tasks]
  /\ received \in [Clients -> Contents \X Nat]

StoredOK == stored \in [Contents -> SUBSET Records]

\* TypeInv is the conjunction of its parts.
LEMMA TypeParts ==
  TypeInv <=> RpcOK /\ TableOK /\ ClientsOK /\ EesiOK /\ StoredOK
<1>1. TypeInv => RpcOK /\ TableOK /\ ClientsOK /\ EesiOK /\ StoredOK
  BY ClientsAssumption
     DEF TypeInv, TypeOK, BitcodeTypeOK, RpcOK, Calls, Places, TableOK, ClientsOK, Phases,
         EesiOK, Tasks, StoredOK
<1>2. StoredOK => \A h \in Contents : \A r \in stored[h] :
                    r.by \in Clients /\ r.bytes \in Contents \X Nat
  BY DEF StoredOK, Records
<1>3. RpcOK /\ TableOK /\ ClientsOK /\ EesiOK /\ StoredOK => TypeInv
  BY <1>2, ClientsAssumption
     DEF TypeInv, TypeOK, BitcodeTypeOK, RpcOK, Calls, Places, TableOK, ClientsOK, Phases,
         EesiOK, Tasks, StoredOK
<1> QED BY <1>1, <1>3

\* A client without a call has a call record.
LEMMA NoCallType == NoCall \in Calls
  BY ContentsAssumption DEF NoCall, Calls, Places

\* A call is replaced, or goes on.
LEMMA CallReplaced ==
  ASSUME RpcOK, NEW c \in Clients, rpc' = [rpc EXCEPT ![c] = rpc'[c]],
         rpc'[c] \in Calls, CallOK(c)'
  PROVE  RpcOK'
<1>1. rpc' \in [Clients -> Calls]
  BY DEF RpcOK
<1>2. ASSUME NEW d \in Clients PROVE CallOK(d)'
  BY <1>1 DEF RpcOK, CallOK
<1> QED BY <1>1, <1>2 DEF RpcOK

-----------------------------------------------------------------------------
(* The kinds of steps, and what each kind leaves alone.                    *)

\* A step is one of a client, a task or the bitcode server, a crash, or one that
\* the GPT service alone takes.
LEMMA Steps ==
  ASSUME [Next]_vars
  PROVE  \/ \E c \in Clients : ClientStep(c)
         \/ \E c \in Clients : TaskStep(c)
         \/ \E c \in Clients : Serve(c)
         \/ Crash
         \/ UNCHANGED <<bitcode, clients, eesi, db>>
  BY DEF Next, Answer, vars

\* The servers' steps are not those of a client or a task.
LEMMA ServersKeep ==
  /\ Crash => UNCHANGED <<clients, eesi, db>>
  /\ \A c : Serve(c) => UNCHANGED <<clients, eesi, db>>
  BY DEF Crash, Serve

\* The bitcode server's table is only its own to change.
LEMMA ClientsKeepTable ==
  \A c : ClientStep(c) \/ TaskStep(c) => UNCHANGED <<table, command>>
  BY ZenonT(60) DEF ClientStep, LookUpUri, CallRegister, Registered, FindRecord, InsertRecord,
         DeleteStored, SearchStored, Submit, Collect, CallAnnotate, AnnotateReplied,
         TaskStep, TaskDownload, TaskParse, TaskThirdParty, TaskAsk, TaskFinish,
         bitcode, clients

\* A task changes neither its client nor the database.
LEMMA TasksKeep ==
  \A c : TaskStep(c) => UNCHANGED <<clients, db>>
  BY DEF TaskStep, TaskDownload, TaskParse, TaskThirdParty, TaskAsk, TaskFinish

\* What has happened stays so.
Grows ==
  /\ held \subseteq held'
  /\ crashes > 0 => crashes' > 0
  /\ raced => raced'

\* No step undoes a crash or a race, or takes a content from a URI's past.
LEMMA HistoryGrows ==
  ASSUME TypeInv, [Next]_vars
  PROVE  Grows /\ UNCHANGED command
<1>1. CASE \E c \in Clients : ClientStep(c) \/ TaskStep(c)
  BY <1>1, ClientsKeepTable DEF table, Grows
<1>2. ASSUME NEW c \in Clients, Serve(c)
      PROVE  Grows /\ UNCHANGED command
  <2>1. UNCHANGED <<crashes, command>>
    BY <1>2, ServersKeep, ZenonT(60) DEF Serve, BitcodeStep, ReadUri, BeginInsert, EndInsert, Lookup,
       LoadAnnotated, OpenOutput, WriteOutput, LoadDownload, SendChunk, table, clients
  <2>2. held \subseteq held'
    BY <1>2, ZenonT(60) DEF Serve, BitcodeStep, ReadUri, BeginInsert, EndInsert, Lookup,
       LoadAnnotated, OpenOutput, WriteOutput, LoadDownload, SendChunk, table
  <2>3. raced => raced'
    <3>1. CASE BeginInsert(c) \/ Lookup(c)
      BY <3>1, Zenon DEF BeginInsert, Lookup
    <3>2. CASE ~BeginInsert(c) /\ ~Lookup(c)
      <4>1. raced' = raced
        BY <1>2, <3>2 DEF Serve, BitcodeStep, ReadUri, EndInsert,
           LoadAnnotated, OpenOutput, WriteOutput, LoadDownload, SendChunk, table
      <4> QED BY <4>1
    <3> QED BY <3>1, <3>2
  <2> QED BY <2>1, <2>2, <2>3 DEF Grows
<1>3. CASE Crash
  <2>1. crashes \in Nat
    BY TypeParts, SizesAssumption DEF TableOK
  <2>2. crashes' = crashes + 1 /\ UNCHANGED <<held, raced, command>>
    BY <1>3, ServersKeep DEF Crash, CrashBitcode, clients
  <2> QED BY <2>1, <2>2 DEF Grows
<1>4. CASE UNCHANGED <<bitcode, clients, eesi, db>>
  BY <1>4 DEF bitcode, table, clients, Grows
<1> QED BY <1>1, <1>2, <1>3, <1>4, Steps

-----------------------------------------------------------------------------
(* The files.                                                              *)

\* Annotate keeps the record of what its output file has contained.
LEMMA FilesKept ==
  ASSUME TypeInv, FilesOK, [Next]_vars
  PROVE  FilesOK'
<1> USE ClientsAssumption
<1>1. CASE UNCHANGED <<file, held>>
  BY <1>1 DEF FilesOK
<1>2. ASSUME NEW c \in Clients, OpenOutput(c), file' = [file EXCEPT ![rpc[c].out] = Nothing],
             held' = held \union {<<rpc[c].out, Nothing>>}
      PROVE  FilesOK'
  <2>1. rpc[c].out \in Uris
    BY <1>2 DEF OpenOutput, TypeInv, CallOK
  <2> QED BY <1>2, <2>1, ContentsAssumption DEF FilesOK, TypeInv, TypeOK, BitcodeTypeOK
<1>8. ASSUME NEW c \in Clients, OpenOutput(c)
      PROVE  FilesOK'
  BY <1>1, <1>2, <1>8 DEF OpenOutput
<1>3. ASSUME NEW c \in Clients, WriteOutput(c)
      PROVE  FilesOK'
  <2>1. rpc[c].out \in Uris /\ rpc[c].content \in Contents
    BY <1>3, ZenonT(60) DEF WriteOutput, TypeInv, TypeOK, BitcodeTypeOK, CallOK
  <2>2. Annotated[rpc[c].content] \in Contents
    BY <2>1, ContentsAssumption, SMTT(30)
  <2> QED BY <1>3, <2>1, <2>2, ContentsAssumption
          DEF WriteOutput, FilesOK, TypeInv, TypeOK, BitcodeTypeOK
<1>4. ASSUME NEW c \in Clients, Serve(c)
      PROVE  OpenOutput(c) \/ WriteOutput(c) \/ UNCHANGED <<file, held>>
  BY <1>4, ZenonT(60) DEF Serve, BitcodeStep, ReadUri, BeginInsert, EndInsert, Lookup,
     LoadAnnotated, LoadDownload, SendChunk, table
<1>5. CASE Crash
  BY <1>1, <1>5 DEF Crash, CrashBitcode
<1>6. CASE \E c \in Clients : ClientStep(c) \/ TaskStep(c)
  BY <1>1, <1>6, ClientsKeepTable DEF table
<1>7. CASE UNCHANGED <<bitcode, clients, eesi, db>>
  BY <1>1, <1>7 DEF bitcode, table
<1> QED BY <1>8, <1>3, <1>1, <1>4, <1>5, <1>6, <1>7, Steps

\* The bitcode server's steps keep the type of calls.
LEMMA RpcTypeServe ==
  ASSUME RpcOK, TableOK, NEW c \in Clients, Serve(c)
  PROVE  RpcOK'
<1>0. rpc \in [Clients -> Calls] /\ rpc[c] \in Calls /\ CallOK(c)
  BY DEF RpcOK
<1>1. CASE ReadUri(c)
  <2>1. rpc[c].uri \in Uris
    BY <1>0, <1>1 DEF ReadUri, CallOK
  <2>2. CASE file[rpc[c].uri] = Missing
    <3>1. rpc'[c] = [rpc[c] EXCEPT !.at = "failed"] /\ rpc' = [rpc EXCEPT ![c] = rpc'[c]]
      BY <1>0, <1>1, <2>2 DEF ReadUri
    <3>2. rpc'[c] \in Calls
      BY <1>0, <3>1 DEF Calls, Places
    <3> QED BY <1>0, <1>1, <3>1, <3>2, CallReplaced DEF ReadUri, CallOK, Calls
  <2>3. CASE file[rpc[c].uri] # Missing
    <3>1. file[rpc[c].uri] \in Contents
      BY <2>1, <2>3 DEF TableOK
    <3>2. /\ rpc'[c] = [rpc[c] EXCEPT !.at = "insert", !.id = file[rpc[c].uri]]
          /\ rpc' = [rpc EXCEPT ![c] = rpc'[c]]
      BY <1>0, <1>1, <2>3 DEF ReadUri
    <3>3. rpc'[c] \in Calls
      BY <1>0, <3>1, <3>2 DEF Calls, Places
    <3> QED BY <1>0, <1>1, <2>1, <3>2, <3>3, CallReplaced DEF ReadUri, CallOK, Calls
  <2> QED BY <2>2, <2>3
<1>2. CASE BeginInsert(c)
  <2>1. ASSUME NEW d \in Clients
        PROVE  rpc'[d] \in Calls /\ CallOK(d)'
    <3>1. rpc[d] \in Calls /\ CallOK(d)
      BY DEF RpcOK
    <3>2. \/ d = c /\ rpc[d].at = "insert" /\ rpc'[d] = [rpc[d] EXCEPT !.at = "inserting", !.raced = Inserting # {}]
          \/ rpc'[d] = [rpc[d] EXCEPT !.raced = TRUE]
          \/ rpc'[d] = rpc[d]
      BY <1>2, ClientsAssumption DEF BeginInsert
    <3>3. (Inserting # {}) \in BOOLEAN
      OBVIOUS
    <3>4. rpc'[d] \in Calls
      BY <3>1, <3>2, <3>3 DEF Calls, Places
    <3> QED BY <3>1, <3>2, <3>4 DEF CallOK, Calls
  <2> QED BY <1>2, <2>1, ClientsAssumption DEF BeginInsert, RpcOK
<1>3. CASE EndInsert(c)
  <2>1. /\ rpc[c].at = "inserting" /\ rpc'[c] = [rpc[c] EXCEPT !.at = "replied"]
        /\ rpc' = [rpc EXCEPT ![c] = rpc'[c]]
    BY <1>0, <1>3 DEF EndInsert, Go
  <2>2. rpc'[c] \in Calls
    BY <1>0, <2>1 DEF Calls, Places
  <2> QED BY <1>0, <2>1, <2>2, CallReplaced DEF CallOK, Calls
<1>4. CASE Lookup(c)
  <2>0. rpc[c].at = "lookup" /\ rpc[c].op \in {"annotate", "download"}
    BY <1>0, <1>4 DEF Lookup, CallOK, Calls
  <2>1. CASE Go(c, "failed")
    <3>1. rpc'[c] = [rpc[c] EXCEPT !.at = "failed"] /\ rpc' = [rpc EXCEPT ![c] = rpc'[c]]
      BY <1>0, <2>1 DEF Go
    <3>2. rpc'[c] \in Calls
      BY <1>0, <3>1 DEF Calls, Places
    <3> QED BY <1>0, <2>0, <3>1, <3>2, CallReplaced DEF CallOK, Calls
  <2>2. CASE /\ rpc[c].id \in DOMAIN registered
             /\ rpc' = [rpc EXCEPT ![c].at = "load", ![c].uri = registered[rpc[c].id]]
    <3>1. registered[rpc[c].id] \in Uris
      BY <2>2 DEF TableOK
    <3>2. /\ rpc'[c] = [rpc[c] EXCEPT !.at = "load", !.uri = registered[rpc[c].id]]
          /\ rpc' = [rpc EXCEPT ![c] = rpc'[c]]
      BY <1>0, <2>2
    <3>3. rpc'[c] \in Calls
      BY <1>0, <3>1, <3>2 DEF Calls, Places
    <3> QED BY <1>0, <2>0, <3>1, <3>2, <3>3, CallReplaced DEF CallOK, Calls
  <2> QED BY <1>4, <2>1, <2>2 DEF Lookup
<1>5. CASE LoadAnnotated(c)
  <2> DEFINE bytes == BytesOf(rpc[c].uri)
  <2>1. rpc[c].uri \in Uris /\ rpc[c].op = "annotate"
    BY <1>0, <1>5 DEF LoadAnnotated, CallOK, At
  <2>2. bytes \in Contents
    BY <2>1, ContentsAssumption DEF BytesOf, TableOK
  <2>3. /\ \/ rpc'[c] = [rpc[c] EXCEPT !.at = "open", !.content = bytes]
           \/ rpc'[c] = [rpc[c] EXCEPT !.at = "failed"]
        /\ rpc' = [rpc EXCEPT ![c] = rpc'[c]]
    <3> HIDE DEF bytes
    <3> QED BY <1>0, <1>5 DEF LoadAnnotated, bytes
  <2> HIDE DEF bytes
  <2>4. rpc'[c] \in Calls
    BY <1>0, <2>2, <2>3 DEF Calls, Places
  <2> QED BY <1>0, <2>1, <2>3, <2>4, CallReplaced DEF CallOK, Calls
<1>6. CASE OpenOutput(c)
  <2>1. /\ rpc[c].at = "open"
        /\ \/ rpc'[c] = [rpc[c] EXCEPT !.at = "write"]
           \/ rpc'[c] = [rpc[c] EXCEPT !.at = "failed"]
        /\ rpc' = [rpc EXCEPT ![c] = rpc'[c]]
    BY <1>0, <1>6 DEF OpenOutput, Go
  <2>2. rpc'[c] \in Calls
    BY <1>0, <2>1 DEF Calls, Places
  <2> QED BY <1>0, <2>1, <2>2, CallReplaced DEF CallOK, Calls
<1>7. CASE WriteOutput(c)
  <2>1. /\ rpc[c].at = "write" /\ rpc'[c] = [rpc[c] EXCEPT !.at = "read", !.uri = rpc[c].out]
        /\ rpc' = [rpc EXCEPT ![c] = rpc'[c]]
    BY <1>0, <1>7 DEF WriteOutput
  <2>2. rpc[c].op = "annotate" /\ rpc[c].out \in Uris
    BY <1>0, <2>1 DEF CallOK
  <2>3. rpc'[c] \in Calls
    BY <1>0, <2>1, <2>2 DEF Calls, Places
  <2> QED BY <1>0, <2>1, <2>2, <2>3, CallReplaced DEF CallOK, Calls
<1>8. CASE LoadDownload(c)
  <2>1. rpc[c].uri \in Uris /\ rpc[c].op = "download" /\ rpc[c].at = "load"
    BY <1>0, <1>8 DEF LoadDownload, CallOK, At
  <2>2. /\ \/ rpc'[c] = [rpc[c] EXCEPT !.at = "failed"]
           \/ /\ file[rpc[c].uri] # Missing
              /\ rpc'[c] = [rpc[c] EXCEPT !.at = "chunks", !.content = file[rpc[c].uri]]
        /\ rpc' = [rpc EXCEPT ![c] = rpc'[c]]
    BY <1>0, <1>8 DEF LoadDownload
  <2>3. file[rpc[c].uri] # Missing => file[rpc[c].uri] \in Contents
    BY <2>1 DEF TableOK
  <2>4. rpc'[c] \in Calls
    BY <1>0, <2>2, <2>3 DEF Calls, Places
  <2> QED BY <1>0, <2>1, <2>2, <2>4, CallReplaced DEF CallOK, Calls
<1>9. CASE SendChunk(c)
  <2> DEFINE left == Length[rpc[c].content] - rpc[c].sent
             size == IF left < kChunkSize THEN left ELSE kChunkSize
             sent == rpc[c].sent + size
             chunks == rpc[c].chunks + 1
  <2>1. sent \in Nat /\ chunks \in Nat
    BY <1>0, SizesAssumption, ContentsAssumption DEF Calls
  <2>2. /\ \/ rpc'[c] = [rpc[c] EXCEPT !.sent = sent, !.chunks = chunks, !.at = "chunks"]
           \/ rpc'[c] = [rpc[c] EXCEPT !.sent = sent, !.chunks = chunks, !.at = "replied"]
        /\ rpc' = [rpc EXCEPT ![c] = rpc'[c]]
    BY <1>0, <1>9 DEF SendChunk
  <2>3. rpc[c].at = "chunks" /\ rpc[c].op = "download"
    BY <1>0, <1>9 DEF SendChunk, CallOK
  <2> HIDE DEF sent, chunks
  <2>4. rpc'[c] \in Calls
    BY <1>0, <2>1, <2>2, ZenonT(60) DEF Calls, Places
  <2>5. CallOK(c)'
    BY <1>0, <2>2, <2>3, <2>4 DEF CallOK, Calls
  <2> QED BY <2>2, <2>4, <2>5, CallReplaced
<1> QED BY <1>1, <1>2, <1>3, <1>4, <1>5, <1>6, <1>7, <1>8, <1>9 DEF Serve, BitcodeStep

\* So do the clients' steps,
LEMMA RpcTypeClient ==
  ASSUME RpcOK, ClientsOK, NEW c \in Clients, ClientStep(c)
  PROVE  RpcOK'
<1>0. rpc \in [Clients -> Calls] /\ rpc[c] \in Calls /\ CallOK(c)
  BY DEF RpcOK
<1>1. CASE UNCHANGED rpc
  BY <1>1 DEF RpcOK, CallOK
<1>2. CASE rpc' = [rpc EXCEPT ![c] = NoCall]
  BY <1>0, <1>2, NoCallType, CallReplaced DEF NoCall, CallOK
<1>3. CASE CallRegister(c)
  <2>1. command[c].uri \in Uris
    BY DEF ClientsOK, Commands
  <2>2. /\ rpc'[c] = [NoCall EXCEPT !.op = "register", !.at = "read", !.uri = command[c].uri]
        /\ rpc' = [rpc EXCEPT ![c] = rpc'[c]]
    BY <1>0, <1>3 DEF CallRegister, RegisterBitcode
  <2>3. rpc'[c] \in Calls
    BY <2>1, <2>2, NoCallType DEF Calls, Places
  <2> QED BY <2>1, <2>2, <2>3, CallReplaced DEF NoCall, CallOK
<1>4. CASE CallAnnotate(c)
  <2>1. command[c].out \in Uris /\ handle[c] \in Contents
    BY DEF ClientsOK, Commands
  <2>2. /\ rpc'[c] = [NoCall EXCEPT !.op = "annotate", !.at = "lookup", !.id = handle[c],
                                    !.out = command[c].out]
        /\ rpc' = [rpc EXCEPT ![c] = rpc'[c]]
    BY <1>0, <1>4 DEF CallAnnotate, Annotate
  <2>3. rpc'[c] \in Calls
    BY <2>1, <2>2, NoCallType DEF Calls, Places
  <2> QED BY <2>1, <2>2, <2>3, CallReplaced DEF NoCall, CallOK
<1>5. CASE Registered(c) \/ AnnotateReplied(c)
  BY <1>2, <1>5 DEF Registered, AnnotateReplied
<1>6. CASE LookUpUri(c) \/ FindRecord(c) \/ InsertRecord(c) \/ DeleteStored(c)
           \/ SearchStored(c) \/ Submit(c) \/ Collect(c)
  BY <1>1, <1>6 DEF LookUpUri, FindRecord, InsertRecord, DeleteStored, SearchStored, Submit,
     Collect, bitcode
<1> QED BY <1>3, <1>4, <1>5, <1>6 DEF ClientStep

\* the tasks',
LEMMA RpcTypeTask ==
  ASSUME RpcOK, ClientsOK, NEW c \in Clients, TaskStep(c)
  PROVE  RpcOK'
<1>0. rpc \in [Clients -> Calls] /\ rpc[c] \in Calls /\ CallOK(c)
  BY DEF RpcOK
<1>1. CASE TaskDownload(c)
  <2>1. handle[c] \in Contents
    BY DEF ClientsOK
  <2>2. /\ rpc'[c] = [NoCall EXCEPT !.op = "download", !.at = "lookup", !.id = handle[c]]
        /\ rpc' = [rpc EXCEPT ![c] = rpc'[c]]
    BY <1>0, <1>1 DEF TaskDownload, DownloadBitcode
  <2>3. rpc'[c] \in Calls
    BY <2>1, <2>2, NoCallType DEF Calls, Places
  <2> QED BY <2>2, <2>3, CallReplaced DEF NoCall, CallOK
<1>2. CASE TaskParse(c)
  <2>1. /\ rpc' \in [Clients -> Calls]
        /\ \A d \in Clients : rpc'[d] \in {NoCall, rpc[d]}
    BY <1>0, <1>2, NoCallType DEF TaskParse
  <2>2. ASSUME NEW d \in Clients PROVE CallOK(d)'
    BY <2>1 DEF RpcOK, CallOK, NoCall
  <2> QED BY <2>1, <2>2 DEF RpcOK
<1>3. CASE TaskThirdParty(c) \/ TaskAsk(c) \/ TaskFinish(c)
  BY <1>3 DEF TaskThirdParty, TaskAsk, TaskFinish, bitcode, RpcOK, CallOK
<1> QED BY <1>1, <1>2, <1>3 DEF TaskStep

\* and a crash.
LEMMA RpcTypeCrash ==
  ASSUME RpcOK, Crash
  PROVE  RpcOK'
<1>1. ASSUME NEW d \in Clients
      PROVE  rpc'[d] \in Calls /\ CallOK(d)'
  <2>1. rpc[d] \in Calls /\ CallOK(d)
    BY DEF RpcOK
  <2>2. \/ rpc'[d] = rpc[d]
        \/ rpc[d].op # "none" /\ rpc'[d] = [rpc[d] EXCEPT !.at = "failed"]
    BY <2>1, ClientsAssumption DEF Crash, CrashBitcode
  <2>3. rpc'[d] \in Calls
    BY <2>1, <2>2 DEF Calls, Places
  <2> QED BY <2>1, <2>2, <2>3 DEF CallOK, Calls
<1> QED BY <1>1, ClientsAssumption DEF Crash, CrashBitcode, RpcOK

\* The type of the bitcode server's table is kept.
LEMMA TableKept ==
  ASSUME RpcOK, TableOK, [Next]_vars
  PROVE  TableOK'
<1> USE DEF TableOK
<1>1. CASE UNCHANGED table
  BY <1>1 DEF table
<1>2. ASSUME NEW c \in Clients, Serve(c)
      PROVE  TableOK'
  <2>0. rpc[c] \in Calls /\ CallOK(c)
    BY DEF RpcOK
  <2>1. CASE EndInsert(c)
    <3>1. rpc[c].uri \in Uris /\ rpc[c].id \in Contents
      BY <2>0, <2>1 DEF EndInsert, CallOK, Calls
    <3> QED BY <2>1, <3>1 DEF EndInsert, Inserted
  <2>2. CASE BeginInsert(c) \/ Lookup(c)
    <3>1. UNCHANGED <<file, held, registered, crashes>> /\ raced' = (raced \/ Inserting # {})
      BY <2>2 DEF BeginInsert, Lookup
    <3> QED BY <3>1
  <2>3. CASE OpenOutput(c)
    BY <2>0, <2>3, ContentsAssumption DEF OpenOutput, CallOK
  <2>4. CASE WriteOutput(c)
    <3>1. rpc[c].out \in Uris /\ Annotated[rpc[c].content] \in Contents
      BY <2>0, <2>4, ContentsAssumption DEF WriteOutput, CallOK, Calls
    <3> QED BY <2>4, <3>1 DEF WriteOutput
  <2>5. CASE ReadUri(c) \/ LoadAnnotated(c) \/ LoadDownload(c) \/ SendChunk(c)
    BY <1>1, <2>5 DEF ReadUri, LoadAnnotated, LoadDownload, SendChunk
  <2> QED BY <1>2, <2>1, <2>2, <2>3, <2>4, <2>5 DEF Serve, BitcodeStep
<1>3. CASE Crash
  BY <1>3, SizesAssumption DEF Crash, CrashBitcode
<1>4. CASE \E c \in Clients : ClientStep(c) \/ TaskStep(c)
  BY <1>1, <1>4, ClientsKeepTable
<1>5. CASE UNCHANGED <<bitcode, clients, eesi, db>>
  BY <1>1, <1>5 DEF bitcode
<1> QED BY <1>2, <1>3, <1>4, <1>5, Steps

\* So are the types of clients, tasks and results.
LEMMA RestKept ==
  ASSUME RpcOK, ClientsOK, EesiOK, StoredOK, [Next]_vars
  PROVE  ClientsOK' /\ EesiOK' /\ StoredOK'
<1>1. CASE UNCHANGED <<clients, eesi, db>>
  BY <1>1 DEF clients, eesi, db, ClientsOK, EesiOK, StoredOK
<1>2. ASSUME NEW c \in Clients, ClientStep(c)
      PROVE  ClientsOK' /\ EesiOK' /\ StoredOK'
  <2>1. rpc[c].id \in Contents
    BY DEF RpcOK, Calls
  <2>2. ClientsOK'
    BY <1>2, <2>1
       DEF ClientsOK, Phases, Enter, ClientStep, LookUpUri, CallRegister, Registered, FindRecord,
           InsertRecord, DeleteStored, SearchStored, Submit, Collect, CallAnnotate,
           AnnotateReplied, clients
  <2>3. EesiOK'
    BY <1>2 DEF EesiOK, Tasks, ClientStep, LookUpUri, CallRegister, Registered, FindRecord,
       InsertRecord, DeleteStored, SearchStored, Submit, Collect, CallAnnotate,
       AnnotateReplied, eesi
  <2>4. CASE DeleteStored(c)
    BY <2>4, <2>2, <2>3 DEF DeleteStored, StoredOK
  <2>5. CASE Collect(c)
    <3>1. [by |-> c, bytes |-> received[c]] \in Records
      BY DEF EesiOK, Records
    <3> QED BY <2>5, <2>2, <2>3, <3>1 DEF Collect, StoredOK
  <2>6. CASE UNCHANGED stored
    BY <2>6, <2>2, <2>3 DEF StoredOK
  <2> QED BY <1>2, <2>4, <2>5, <2>6
          DEF ClientStep, LookUpUri, CallRegister, Registered, FindRecord, InsertRecord,
              SearchStored, Submit, CallAnnotate, AnnotateReplied, db
<1>3. ASSUME NEW c \in Clients, TaskStep(c)
      PROVE  ClientsOK' /\ EesiOK' /\ StoredOK'
  <2>1. ClientsOK' /\ StoredOK'
    BY <1>3, TasksKeep DEF clients, db, ClientsOK, StoredOK
  <2>2. rpc[c].content \in Contents /\ rpc[c].sent \in Nat
    BY DEF RpcOK, Calls
  <2>3. Bytes(rpc[c].content, rpc[c].sent) \in Contents \X Nat
    BY <2>2, ContentsAssumption DEF Bytes
  <2>4. CASE TaskParse(c)
    BY <2>4, <2>1, <2>3 DEF TaskParse, EesiOK, Tasks
  <2>5. CASE TaskDownload(c) \/ TaskThirdParty(c) \/ TaskAsk(c) \/ TaskFinish(c)
    BY <2>5, <2>1 DEF TaskDownload, TaskThirdParty, TaskAsk, TaskFinish, EesiOK, Tasks
  <2> QED BY <1>3, <2>4, <2>5 DEF TaskStep
<1>4. CASE Crash \/ \E c \in Clients : Serve(c)
  BY <1>1, <1>4, ServersKeep
<1>5. CASE UNCHANGED <<bitcode, clients, eesi, db>>
  BY <1>1, <1>5
<1> QED BY <1>2, <1>3, <1>4, <1>5, Steps

\* Together: TypeInv is kept.
LEMMA TypeKept ==
  ASSUME TypeInv, [Next]_vars
  PROVE  TypeInv'
<1>1. RpcOK /\ TableOK /\ ClientsOK /\ EesiOK /\ StoredOK
  BY TypeParts
<1>2. RpcOK'
  <2>1. UNCHANGED rpc => RpcOK'
    BY <1>1 DEF RpcOK, CallOK
  <2> QED BY <1>1, <2>1, Steps, RpcTypeServe, RpcTypeClient, RpcTypeTask, RpcTypeCrash DEF bitcode
<1>3. TableOK' /\ ClientsOK' /\ EesiOK' /\ StoredOK'
  BY <1>1, TableKept, RestKept
<1> QED BY <1>2, <1>3, PTL, TypeParts

-----------------------------------------------------------------------------
(* Phases.                                                                 *)

\* The server does not change what kind of call it serves.
LEMMA OpKept ==
  ASSUME TypeInv, NEW c \in Clients, Serve(c) \/ Crash
  PROVE  \A d \in Clients : rpc'[d].op = rpc[d].op
<1> USE TypeParts DEF RpcOK, Calls
<1>1. CASE Crash
  BY <1>1, ClientsAssumption DEF Crash, CrashBitcode
<1>2. CASE BeginInsert(c)
  BY <1>2, ClientsAssumption DEF BeginInsert
<1>3. CASE ReadUri(c) \/ EndInsert(c) \/ Lookup(c) \/ LoadAnnotated(c)
  BY <1>3 DEF ReadUri, EndInsert, Lookup, LoadAnnotated, Go
<1>4. CASE OpenOutput(c) \/ WriteOutput(c) \/ LoadDownload(c) \/ SendChunk(c)
  BY <1>4 DEF OpenOutput, WriteOutput, LoadDownload, SendChunk, Go
<1> QED BY <1>1, <1>2, <1>3, <1>4 DEF Serve, BitcodeStep

\* A client's step is about its own call, phase and task.
LEMMA ClientStepOwn ==
  ASSUME TypeInv, NEW c \in Clients, ClientStep(c), NEW d \in Clients \ {c}
  PROVE  rpc'[d] = rpc[d] /\ phase'[d] = phase[d] /\ handle'[d] = handle[d] /\ task'[d] = task[d]
<1> USE TypeParts DEF RpcOK, ClientsOK, EesiOK, Enter
<1>1. CASE LookUpUri(c) \/ FindRecord(c) \/ InsertRecord(c) \/ DeleteStored(c) \/ SearchStored(c)
  BY <1>1 DEF LookUpUri, FindRecord, InsertRecord, DeleteStored, SearchStored, bitcode, eesi
<1>2. CASE Submit(c) \/ Collect(c)
  BY <1>2 DEF Submit, Collect, bitcode, eesi
<1>3. CASE CallRegister(c) \/ CallAnnotate(c)
  BY <1>3 DEF CallRegister, CallAnnotate, RegisterBitcode, Annotate, clients, eesi
<1>4. CASE Registered(c) \/ AnnotateReplied(c)
  BY <1>4 DEF Registered, AnnotateReplied, eesi
<1> QED BY <1>1, <1>2, <1>3, <1>4 DEF ClientStep

\* A client's step keeps what its phase says of its call and task.
LEMMA PhaseKeptClient ==
  ASSUME TypeInv, NEW c \in Clients, PhaseOK(c), ClientStep(c)
  PROVE  PhaseOK(c)'
<1>1. /\ phase \in [Clients -> Phases] /\ task \in [Clients -> Tasks]
      /\ rpc \in [Clients -> Calls] /\ CallOK(c)
  BY TypeParts DEF RpcOK, ClientsOK, EesiOK
<1>2. UNCHANGED command
  BY ClientsKeepTable
<1> USE <1>1, <1>2 DEF PhaseOK, Enter
<1>3. CASE LookUpUri(c)
  BY <1>3 DEF LookUpUri, bitcode, eesi
<1>4. CASE CallRegister(c)
  <2>1. rpc'[c].op = "register" /\ UNCHANGED <<phase, task, eesiUp>>
    BY <1>4 DEF CallRegister, RegisterBitcode, NoCall, clients, eesi
  <2> QED BY <1>4, <2>1 DEF CallRegister
<1>5. CASE Registered(c)
  <2>1. rpc'[c].op = "none" /\ UNCHANGED <<task, eesiUp>>
    BY <1>5 DEF Registered, NoCall, eesi
  <2>2. \/ phase'[c] \in {"failed", "record", "search"}
        \/ phase'[c] = "annotate" /\ command[c].kind = "annotate"
        \/ phase'[c] = "delete" /\ command[c].overwrite
    BY <1>5 DEF Registered
  <2>3. phase[c] \in {"register", "handle"}
    BY <1>5 DEF Registered
  <2> QED BY <2>1, <2>2, <2>3
<1>6. CASE FindRecord(c)
  BY <1>6 DEF FindRecord, bitcode, eesi
<1>7. CASE InsertRecord(c)
  BY <1>7 DEF InsertRecord, bitcode, eesi
<1>8. CASE DeleteStored(c)
  BY <1>8 DEF DeleteStored, bitcode, eesi
<1>9. CASE SearchStored(c)
  BY <1>9 DEF SearchStored, bitcode, eesi
<1>10. CASE Submit(c)
  BY <1>10 DEF Submit, bitcode
<1>11. CASE Collect(c)
  BY <1>11 DEF Collect, bitcode, eesi
<1>12. CASE CallAnnotate(c)
  <2>1. rpc'[c].op = "annotate" /\ UNCHANGED <<phase, task, eesiUp>>
    BY <1>12 DEF CallAnnotate, Annotate, NoCall, clients, eesi
  <2> QED BY <1>12, <2>1 DEF CallAnnotate
<1>13. CASE AnnotateReplied(c)
  <2>1. rpc'[c].op = "none" /\ UNCHANGED <<task, eesiUp>> /\ phase'[c] \in {"failed", "done"}
    BY <1>13 DEF AnnotateReplied, NoCall, eesi
  <2> QED BY <1>13, <2>1 DEF AnnotateReplied
<1> QED BY <1>3, <1>4, <1>5, <1>6, <1>7, <1>8, <1>9, <1>10, <1>11, <1>12, <1>13 DEF ClientStep

\* A task's step keeps it for all clients, also where it aborts the server.
LEMMA PhaseKeptTask ==
  ASSUME TypeInv, NEW c \in Clients, TaskStep(c), NEW d \in Clients, PhaseOK(c), PhaseOK(d)
  PROVE  PhaseOK(d)'
<1>1. /\ task \in [Clients -> Tasks] /\ rpc \in [Clients -> Calls]
      /\ UNCHANGED <<phase, command>>
  BY TypeParts, TasksKeep DEF RpcOK, EesiOK, clients
<1> USE <1>1 DEF PhaseOK
<1>2. CASE TaskDownload(c)
  <2>1. UNCHANGED eesiUp /\ eesiUp /\ task[c] = "queued" /\ phase[c] = "waiting"
    BY <1>2 DEF TaskDownload
  <2>2. CASE d = c
    <3>1. rpc'[c].op = "download" /\ task'[c] = "downloading"
      BY <1>2 DEF TaskDownload, DownloadBitcode, NoCall
    <3> QED BY <2>1, <2>2, <3>1
  <2>3. CASE d # c
    <3>1. rpc'[d] = rpc[d] /\ task'[d] = task[d]
      BY <1>2, <2>3 DEF TaskDownload, DownloadBitcode
    <3> QED BY <2>1, <3>1
  <2> QED BY <2>2, <2>3
<1>3. CASE TaskParse(c)
  <2>0. task[c] = "downloading" /\ eesiUp /\ phase[c] = "waiting" /\ NoCall.op = "none"
    BY <1>3 DEF TaskParse, NoCall
  <2>1. CASE /\ task' = [task EXCEPT ![c] = "thirdparty"]
             /\ rpc' = [rpc EXCEPT ![c] = NoCall]
             /\ UNCHANGED eesiUp
    BY <2>0, <2>1
  <2>2. CASE /\ task' = [e \in Clients |-> "none"]
             /\ rpc' = [e \in Clients |-> IF task[e] = "downloading" THEN NoCall ELSE rpc[e]]
    BY <2>0, <2>2
  <2> QED BY <1>3, <2>1, <2>2 DEF TaskParse
<1>4. CASE TaskThirdParty(c) \/ TaskAsk(c) \/ TaskFinish(c)
  BY <1>4 DEF TaskThirdParty, TaskAsk, TaskFinish, bitcode
<1> QED BY <1>2, <1>3, <1>4 DEF TaskStep

\* Together: PhaseOK is kept.
LEMMA PhaseKept ==
  ASSUME TypeInv, \A c \in Clients : PhaseOK(c), [Next]_vars, NEW d \in Clients
  PROVE  PhaseOK(d)'
<1>1. ASSUME NEW c \in Clients, ClientStep(c)
      PROVE  PhaseOK(d)'
  <2>1. CASE d = c
    BY <1>1, <2>1, PhaseKeptClient
  <2>2. CASE d # c
    <3>1. rpc'[d] = rpc[d] /\ phase'[d] = phase[d] /\ task'[d] = task[d] /\ UNCHANGED command
      BY <1>1, <2>2, ClientStepOwn, ClientsKeepTable
    <3>2. UNCHANGED eesiUp
      BY <1>1 DEF ClientStep, LookUpUri, CallRegister, Registered, FindRecord, InsertRecord,
         DeleteStored, SearchStored, Submit, Collect, CallAnnotate, AnnotateReplied, eesi
    <3> QED BY <3>1, <3>2 DEF PhaseOK
  <2> QED BY <2>1, <2>2
<1>2. ASSUME NEW c \in Clients, Serve(c) \/ Crash
      PROVE  PhaseOK(d)'
  BY <1>2, OpKept, ServersKeep DEF PhaseOK, clients, eesi
<1>3. CASE UNCHANGED <<bitcode, clients, eesi, db>>
  BY <1>3 DEF PhaseOK, bitcode, clients, eesi
<1> QED BY <1>1, <1>2, <1>3, PhaseKeptTask, Steps

-----------------------------------------------------------------------------
(* Handles.                                                                *)

\* Only the beginning of an insertion touches the calls of others.
LEMMA ServeOwn ==
  ASSUME TypeInv, NEW c \in Clients, Serve(c), ~BeginInsert(c), NEW d \in Clients \ {c}
  PROVE  rpc'[d] = rpc[d]
<1> USE TypeParts DEF RpcOK
<1>1. CASE ReadUri(c) \/ EndInsert(c) \/ Lookup(c) \/ LoadAnnotated(c)
  BY <1>1 DEF ReadUri, EndInsert, Lookup, LoadAnnotated, Go
<1>2. CASE OpenOutput(c) \/ WriteOutput(c) \/ LoadDownload(c) \/ SendChunk(c)
  BY <1>2 DEF OpenOutput, WriteOutput, LoadDownload, SendChunk, Go
<1> QED BY <1>1, <1>2 DEF Serve, BitcodeStep

\* Handles are forgotten in a crash only.
LEMMA RegisteredGrows ==
  ASSUME TypeInv, [Next]_vars
  PROVE  DOMAIN registered \subseteq DOMAIN registered' \/ crashes' > 0
<1>1. CASE Crash
  <2>1. crashes \in Nat
    BY TypeParts, SizesAssumption DEF TableOK
  <2> QED BY <1>1, <2>1 DEF Crash, CrashBitcode
<1>2. ASSUME NEW c \in Clients, EndInsert(c)
      PROVE  DOMAIN registered \subseteq DOMAIN registered'
  BY <1>2, SMTT(30) DEF EndInsert, Inserted
<1>3. ASSUME NEW c \in Clients, Serve(c)
      PROVE  EndInsert(c) \/ UNCHANGED registered
  BY <1>3, ZenonT(60) DEF Serve, BitcodeStep, ReadUri, BeginInsert, Lookup, LoadAnnotated, OpenOutput,
     WriteOutput, LoadDownload, SendChunk, table
<1>4. CASE \E c \in Clients : ClientStep(c) \/ TaskStep(c)
  BY <1>4, ClientsKeepTable DEF table
<1>5. CASE UNCHANGED <<bitcode, clients, eesi, db>>
  BY <1>5 DEF bitcode, table
<1> QED BY <1>1, <1>2, <1>3, <1>4, <1>5, Steps

\* A call that does not move stays as it was.
LEMMA HandleOKSame ==
  ASSUME TypeInv, [Next]_vars, NEW d \in Clients, HandleOK(d), rpc'[d] = rpc[d]
  PROVE  HandleOK(d)'
<1>1. /\ held \subseteq held' /\ (raced => raced') /\ (crashes > 0 => crashes' > 0)
      /\ DOMAIN registered \subseteq DOMAIN registered' \/ crashes' > 0
  BY HistoryGrows, RegisteredGrows DEF Grows
<1> QED BY <1>1 DEF HandleOK, At

\* The caller's own step in the bitcode server keeps HandleOK.
LEMMA HandleKeptServe ==
  ASSUME TypeInv, FilesOK, HandlesResolve, [Next]_vars,
         NEW c \in Clients, HandleOK(c), Serve(c), ~BeginInsert(c)
  PROVE  HandleOK(c)'
<1>1. /\ rpc[c] \in Calls /\ rpc \in [Clients -> Calls] /\ CallOK(c)
  BY TypeParts DEF RpcOK
<1>2. held \subseteq held' /\ (raced => raced')
  BY HistoryGrows DEF Grows
<1>3. CASE ReadUri(c)
  <2>1. rpc[c].uri \in Uris /\ UNCHANGED <<held, raced>>
    BY <1>1, <1>3 DEF ReadUri, CallOK, table
  <2>2. \/ rpc'[c] = [rpc[c] EXCEPT !.at = "failed"]
        \/ /\ file[rpc[c].uri] # Missing
           /\ rpc'[c] = [rpc[c] EXCEPT !.at = "insert", !.id = file[rpc[c].uri]]
    BY <1>1, <1>3 DEF ReadUri
  <2> QED BY <1>1, <2>1, <2>2 DEF HandleOK, At, Calls, FilesOK
<1>4. CASE EndInsert(c)
  <2>1. /\ rpc[c].at = "inserting" /\ rpc'[c] = [rpc[c] EXCEPT !.at = "replied"]
        /\ UNCHANGED <<held, raced>>
        /\ rpc[c].id \in DOMAIN registered' \/ rpc[c].raced
    BY <1>1, <1>4 DEF EndInsert, Go, Inserted
  <2> QED BY <1>1, <2>1 DEF HandleOK, At, Calls
<1>5. CASE Lookup(c)
  <2>1. UNCHANGED held
    BY <1>5 DEF Lookup
  <2>2. \/ rpc'[c] = [rpc[c] EXCEPT !.at = "failed"]
        \/ /\ rpc[c].id \in DOMAIN registered
           /\ rpc'[c] = [rpc[c] EXCEPT !.at = "load", !.uri = registered[rpc[c].id]]
    BY <1>1, <1>5 DEF Lookup, Go
  <2>3. rpc[c].id \in DOMAIN registered => <<registered[rpc[c].id], rpc[c].id>> \in held
    BY DEF HandlesResolve
  <2> QED BY <1>1, <1>2, <2>1, <2>2, <2>3 DEF HandleOK, At, Calls
<1>6. CASE LoadAnnotated(c) \/ OpenOutput(c) \/ WriteOutput(c) \/ LoadDownload(c) \/ SendChunk(c)
  <2>1. rpc[c].op \in {"annotate", "download"}
    BY <1>1, <1>6 DEF LoadAnnotated, OpenOutput, WriteOutput, LoadDownload, SendChunk, CallOK, At,
       Calls
  <2>2. /\ rpc'[c].at \in {"open", "failed", "write", "read", "chunks", "replied"}
        /\ rpc'[c].raced = rpc[c].raced /\ rpc'[c].op = rpc[c].op
    BY <1>1, <1>6
       DEF LoadAnnotated, OpenOutput, WriteOutput, LoadDownload, SendChunk, Go, Calls
  <2> QED BY <1>2, <2>1, <2>2 DEF HandleOK, At
<1> QED BY <1>3, <1>4, <1>5, <1>6 DEF Serve, BitcodeStep

\* All steps keep HandleOK.
LEMMA HandleKept ==
  ASSUME TypeInv, FilesOK, HandlesResolve, \A c \in Clients : HandleOK(c), [Next]_vars,
         NEW d \in Clients
  PROVE  HandleOK(d)'
<1>0. rpc \in [Clients -> Calls] /\ CallOK(d)
  BY TypeParts DEF RpcOK
<1>1. ASSUME NEW c \in Clients, ClientStep(c)
      PROVE  HandleOK(d)'
  <2>1. CASE rpc'[d] = rpc[d]
    BY <2>1, HandleOKSame
  <2>2. CASE rpc'[d].at \in {"none", "read", "lookup"} /\ rpc'[d].raced = FALSE
    BY <2>2 DEF HandleOK, At
  <2>3. d = c => rpc'[d] = rpc[d] \/ (rpc'[d].at \in {"none", "read", "lookup"} /\ rpc'[d].raced = FALSE)
    <3>1. NoCall.at = "none" /\ NoCall.raced = FALSE
      BY DEF NoCall
    <3>2. CASE CallRegister(c) \/ CallAnnotate(c)
      BY <1>0, <3>2 DEF CallRegister, CallAnnotate, RegisterBitcode, Annotate, NoCall
    <3>3. CASE Registered(c) \/ AnnotateReplied(c)
      BY <1>0, <3>1, <3>3 DEF Registered, AnnotateReplied
    <3>4. CASE UNCHANGED bitcode
      BY <3>4 DEF bitcode
    <3> QED BY <1>1, <3>2, <3>3, <3>4 DEF ClientStep, LookUpUri, FindRecord, InsertRecord,
            DeleteStored, SearchStored, Submit, Collect
  <2> QED BY <1>1, <2>1, <2>2, <2>3, ClientStepOwn
<1>2. ASSUME NEW c \in Clients, TaskStep(c)
      PROVE  HandleOK(d)'
  <2>1. CASE rpc'[d] = rpc[d]
    BY <2>1, HandleOKSame
  <2>2. CASE rpc'[d].at \in {"none", "lookup"} /\ rpc'[d].raced = FALSE
    BY <2>2 DEF HandleOK, At
  <2>3. rpc'[d] = rpc[d] \/ (rpc'[d].at \in {"none", "lookup"} /\ rpc'[d].raced = FALSE)
    <3>1. NoCall.at = "none" /\ NoCall.raced = FALSE
      BY DEF NoCall
    <3>2. CASE TaskDownload(c)
      BY <1>0, <3>2 DEF TaskDownload, DownloadBitcode, NoCall
    <3>3. CASE TaskParse(c)
      BY <1>0, <3>1, <3>3 DEF TaskParse
    <3>4. CASE UNCHANGED bitcode
      BY <3>4 DEF bitcode
    <3> QED BY <1>2, <3>2, <3>3, <3>4 DEF TaskStep, TaskThirdParty, TaskAsk, TaskFinish
  <2> QED BY <2>1, <2>2, <2>3
<1>3. ASSUME NEW c \in Clients, Serve(c)
      PROVE  HandleOK(d)'
  <2>1. CASE BeginInsert(c)
    <3>1. /\ UNCHANGED <<held, registered, crashes>> /\ raced' = (raced \/ Inserting # {})
          /\ \/ d = c /\ rpc[d].at = "insert"
                /\ rpc'[d] = [rpc[d] EXCEPT !.at = "inserting", !.raced = Inserting # {}]
             \/ Inserting # {} /\ rpc'[d] = [rpc[d] EXCEPT !.raced = TRUE]
             \/ rpc'[d] = rpc[d]
      BY <1>0, <2>1, ClientsAssumption DEF BeginInsert
    <3>2. CASE d = c /\ rpc[d].at = "insert"
                /\ rpc'[d] = [rpc[d] EXCEPT !.at = "inserting", !.raced = Inserting # {}]
      <4>1. /\ rpc'[d].at = "inserting" /\ rpc'[d].uri = rpc[d].uri /\ rpc'[d].id = rpc[d].id
            /\ rpc'[d].raced = (Inserting # {})
        BY <1>0, <3>2 DEF Calls
      <4> QED BY <3>1, <3>2, <4>1 DEF HandleOK, At
    <3>3. CASE Inserting # {} /\ rpc'[d] = [rpc[d] EXCEPT !.raced = TRUE]
      <4>1. /\ rpc'[d].at = rpc[d].at /\ rpc'[d].uri = rpc[d].uri /\ rpc'[d].id = rpc[d].id
            /\ rpc'[d].op = rpc[d].op
        BY <1>0, <3>3 DEF Calls
      <4> QED BY <3>1, <3>3, <4>1 DEF HandleOK, At
    <3> QED BY <3>1, <3>2, <3>3, HandleOKSame
  <2>2. CASE ~BeginInsert(c)
    BY <1>3, <2>2, ServeOwn, HandleOKSame, HandleKeptServe
  <2> QED BY <2>1, <2>2
<1>4. CASE Crash
  <2>1. crashes' > 0 /\ UNCHANGED <<held, raced>>
    <3>1. crashes \in Nat
      BY TypeParts, SizesAssumption DEF TableOK
    <3> QED BY <1>4, <3>1 DEF Crash, CrashBitcode
  <2>2. rpc'[d] = rpc[d] \/ rpc'[d] = [rpc[d] EXCEPT !.at = "failed"]
    BY <1>0, <1>4, ClientsAssumption DEF Crash, CrashBitcode
  <2> QED BY <1>0, <2>1, <2>2 DEF HandleOK, At, Calls
<1>5. CASE UNCHANGED <<bitcode, clients, eesi, db>>
  BY <1>5, HandleOKSame DEF bitcode
<1> QED BY <1>1, <1>2, <1>3, <1>4, <1>5, Steps

\* The table resolves to what was registered; handles given out stay known.
LEMMA ResolveKept ==
  ASSUME TypeInv, HandlesResolve, \A c \in Clients : PhaseOK(c) /\ HandleOK(c), [Next]_vars
  PROVE  HandlesResolve'
<1> DEFINE Resolved(c) == phase[c] \in {"delete", "search", "submit", "waiting", "annotate"} =>
                         handle[c] \in DOMAIN registered \/ crashes > 0 \/ raced
<1>1. /\ held \subseteq held' /\ (raced => raced') /\ (crashes > 0 => crashes' > 0)
      /\ DOMAIN registered \subseteq DOMAIN registered' \/ crashes' > 0
  BY HistoryGrows, RegisteredGrows DEF Grows
<1>2. ASSUME NEW c \in Clients, Resolved(c), UNCHANGED <<phase[c], handle[c]>>
      PROVE  Resolved(c)'
  BY <1>1, <1>2
<1>3. /\ phase \in [Clients -> Phases] /\ handle \in [Clients -> Contents]
      /\ rpc \in [Clients -> Calls]
  BY TypeParts DEF ClientsOK, RpcOK
<1>4. \A i \in DOMAIN registered : <<registered[i], i>> \in held
  BY DEF HandlesResolve
<1>5. \A c \in Clients : Resolved(c)
  BY DEF HandlesResolve
<1>6. ASSUME NEW c \in Clients, ClientStep(c)
      PROVE  HandlesResolve'
  <2>1. UNCHANGED table
    BY <1>6, ClientsKeepTable
  <2>2. ASSUME NEW d \in Clients \ {c}
        PROVE  Resolved(d)'
    BY <1>2, <1>5, <1>6, <2>2, ClientStepOwn
  <2>3. ASSUME Registered(c)
        PROVE  Resolved(c)'
    <3>1. CASE rpc[c].at = "failed"
      BY <1>3, <2>3, <3>1 DEF Registered, Enter
    <3>2. CASE rpc[c].at # "failed"
      <4>1. At(c, "register", "replied")
        BY <2>3, <3>2 DEF Registered, Ended, PhaseOK, TypeInv, CallOK, At
      <4>2. handle'[c] = rpc[c].id
        BY <1>3, <2>3, <3>2 DEF Registered
      <4> QED BY <2>1, <4>1, <4>2 DEF HandleOK, table
    <3> QED BY <3>1, <3>2
  <2>4. ASSUME ~Registered(c)
        PROVE  Resolved(c)'
    <3>1. UNCHANGED handle
      BY <1>6, <2>4 DEF ClientStep, LookUpUri, CallRegister, FindRecord, InsertRecord,
         DeleteStored, SearchStored, Submit, Collect, CallAnnotate, AnnotateReplied, clients
    <3>2. phase'[c] \in {"delete", "search", "submit", "waiting", "annotate"} =>
            phase[c] \in {"delete", "search", "submit", "waiting", "annotate"}
      BY <1>3, <1>6, <2>4
         DEF ClientStep, LookUpUri, CallRegister, FindRecord, InsertRecord, DeleteStored,
             SearchStored, Submit, Collect, CallAnnotate, AnnotateReplied, clients, Enter
    <3> QED BY <1>1, <1>5, <3>1, <3>2
  <2>5. Resolved(c)'
    BY <2>3, <2>4
  <2> QED BY <1>4, <2>1, <2>2, <2>5 DEF HandlesResolve, table
<1>7. ASSUME UNCHANGED <<phase, handle>>, \A i \in DOMAIN registered' : <<registered'[i], i>> \in held'
      PROVE  HandlesResolve'
  BY <1>2, <1>5, <1>7 DEF HandlesResolve
<1>8. CASE \E c \in Clients : TaskStep(c)
  BY <1>4, <1>7, <1>8, TasksKeep, ClientsKeepTable, SMTT(30) DEF clients, table
<1>9. ASSUME NEW c \in Clients, Serve(c)
      PROVE  HandlesResolve'
  <2>1. CASE EndInsert(c)
    <3>1. <<rpc[c].uri, rpc[c].id>> \in held
      BY <2>1 DEF EndInsert, HandleOK
    <3>2. \A i \in DOMAIN registered' : <<registered'[i], i>> \in held
      BY <1>4, <2>1, <3>1 DEF EndInsert, Inserted
    <3> QED BY <1>1, <1>7, <1>9, <3>2, ServersKeep DEF clients
  <2>2. CASE UNCHANGED registered
    BY <1>1, <1>4, <1>7, <1>9, <2>2, ServersKeep DEF clients
  <2> QED BY <1>9, <2>1, <2>2, ZenonT(60) DEF Serve, BitcodeStep, ReadUri, BeginInsert, Lookup, LoadAnnotated,
          OpenOutput, WriteOutput, LoadDownload, SendChunk, table
<1>10. CASE Crash
  BY <1>7, <1>10, ServersKeep DEF Crash, CrashBitcode, clients
<1>11. CASE UNCHANGED <<bitcode, clients, eesi, db>>
  BY <1>4, <1>7, <1>11 DEF bitcode, table, clients
<1> QED BY <1>6, <1>8, <1>9, <1>10, <1>11, Steps

-----------------------------------------------------------------------------
(* Downloads.                                                              *)

\* A download that does not move stays as it was.
LEMMA DownloadOKSame ==
  ASSUME TypeInv, [Next]_vars, NEW d \in Clients, DownloadOK(d), rpc'[d] = rpc[d],
         handle'[d] = handle[d]
  PROVE  DownloadOK(d)'
<1>1. held \subseteq held' /\ (raced => raced') /\ (crashes > 0 => crashes' > 0)
  BY HistoryGrows DEF Grows
<1> QED BY <1>1 DEF DownloadOK, Replaced

\* DownloadOK says nothing of other calls.
LEMMA OtherOp ==
  ASSUME NEW d, rpc'[d].op # "download"
  PROVE  DownloadOK(d)'
  BY DEF DownloadOK

\* A client's step does not touch a download.
LEMMA DownloadKeptClient ==
  ASSUME TypeInv, [Next]_vars, NEW c \in Clients, ClientStep(c), NEW d \in Clients, DownloadOK(d)
  PROVE  DownloadOK(d)'
<1>0. rpc \in [Clients -> Calls]
  BY TypeParts DEF RpcOK
<1>1. CASE d = c
  <2>1. CASE CallRegister(c) \/ CallAnnotate(c)
    BY <1>0, <1>1, <2>1, OtherOp DEF CallRegister, CallAnnotate, RegisterBitcode, Annotate, NoCall
  <2>2. CASE Registered(c) \/ AnnotateReplied(c)
    BY <1>0, <1>1, <2>2, OtherOp DEF Registered, AnnotateReplied, NoCall
  <2>3. CASE UNCHANGED <<bitcode, handle>>
    BY <2>3, DownloadOKSame DEF bitcode
  <2> QED BY <2>1, <2>2, <2>3 DEF ClientStep, LookUpUri, FindRecord, InsertRecord,
          DeleteStored, SearchStored, Submit, Collect
<1>2. CASE d # c
  BY <1>2, ClientStepOwn, DownloadOKSame
<1> QED BY <1>1, <1>2

\* A task's step begins or ends one.
LEMMA DownloadKeptTask ==
  ASSUME TypeInv, [Next]_vars, NEW c \in Clients, TaskStep(c), NEW d \in Clients, DownloadOK(d)
  PROVE  DownloadOK(d)'
<1>0. rpc \in [Clients -> Calls] /\ UNCHANGED handle
  BY TypeParts, TasksKeep DEF RpcOK, clients
<1>1. CASE TaskDownload(c)
  <2>1. CASE d = c
    BY <1>0, <1>1, <2>1 DEF TaskDownload, DownloadBitcode, NoCall, DownloadOK
  <2>2. CASE d # c
    BY <1>0, <1>1, <2>2, DownloadOKSame DEF TaskDownload, DownloadBitcode
  <2> QED BY <2>1, <2>2
<1>2. CASE TaskParse(c)
  <2>1. rpc'[d] \in {NoCall, rpc[d]} /\ NoCall.op = "none"
    BY <1>0, <1>2 DEF TaskParse, NoCall
  <2> QED BY <1>0, <2>1, OtherOp, DownloadOKSame
<1>3. CASE TaskThirdParty(c) \/ TaskAsk(c) \/ TaskFinish(c)
  BY <1>0, <1>3, DownloadOKSame DEF TaskThirdParty, TaskAsk, TaskFinish, bitcode
<1> QED BY <1>1, <1>2, <1>3 DEF TaskStep

\* One turn of the loop.
LEMMA ChunkSent ==
  ASSUME NEW length \in Nat, NEW sent \in Nat, NEW chunks \in Nat,
         sent <= length, sent = chunks * kChunkSize, chunks > 0 => sent < length,
         NEW size, size = IF length - sent < kChunkSize THEN length - sent ELSE kChunkSize
  PROVE  /\ length - sent > size =>
              /\ sent + size < length
              /\ sent + size = (chunks + 1) * kChunkSize
         /\ ~(length - sent > size) =>
              /\ sent + size = length
              /\ (chunks + 1) * kChunkSize >= length
              /\ chunks > 0 => chunks * kChunkSize < length
<1>1. (chunks + 1) * kChunkSize = chunks * kChunkSize + kChunkSize /\ kChunkSize \in Nat \ {0}
  BY SizesAssumption
<1> DEFINE whole == chunks * kChunkSize
           more == (chunks + 1) * kChunkSize
<1>2. more = whole + kChunkSize /\ sent = whole
  BY <1>1
<1> HIDE DEF whole, more
<1>3. /\ length - sent > size =>
              /\ sent + size < length
              /\ sent + size = more
      /\ ~(length - sent > size) =>
              /\ sent + size = length
              /\ more >= length
              /\ chunks > 0 => whole < length
  BY <1>1, <1>2
<1> QED BY <1>3 DEF whole, more

\* A download's own step: the lookup, reading the file, and each chunk.
LEMMA DownloadKeptServe ==
  ASSUME TypeInv, FilesOK, HandlesResolve, [Next]_vars, NEW c \in Clients,
         PhaseOK(c), HandleOK(c), DownloadOK(c), Serve(c), ~BeginInsert(c)
  PROVE  DownloadOK(c)'
<1>1. rpc[c] \in Calls /\ rpc \in [Clients -> Calls] /\ CallOK(c) /\ UNCHANGED handle
  BY ServersKeep, TypeParts DEF RpcOK, clients
<1>2. CASE rpc[c].op # "download"
  BY <1>2, OpKept, OtherOp
<1>3. CASE rpc[c].op = "download"
  <2>1. /\ rpc[c].id = handle[c]
        /\ rpc[c].at \in {"lookup", "load"} => rpc[c].sent = 0 /\ rpc[c].chunks = 0
    BY <1>3 DEF DownloadOK
  <2>2. CASE Lookup(c)
    <3>1. /\ rpc[c].at = "lookup"
          /\ \/ rpc'[c] = [rpc[c] EXCEPT !.at = "load", !.uri = registered[rpc[c].id]]
             \/ /\ rpc'[c] = [rpc[c] EXCEPT !.at = "failed"]
                /\ rpc[c].id \notin DOMAIN registered \/ Inserting # {}
      BY <1>1, <2>2 DEF Lookup, Go
    <3>2. raced' = (raced \/ Inserting # {}) /\ UNCHANGED crashes
      BY <2>2 DEF Lookup
    <3>3. phase[c] = "waiting"
      BY <1>3 DEF PhaseOK
    <3>4. rpc[c].id \in DOMAIN registered \/ crashes > 0 \/ raced
      BY <2>1, <3>3 DEF HandlesResolve
    <3>5. CASE rpc'[c] = [rpc[c] EXCEPT !.at = "load", !.uri = registered[rpc[c].id]]
      BY <1>1, <2>1, <3>1, <3>5 DEF DownloadOK, Calls
    <3>6. CASE /\ rpc'[c] = [rpc[c] EXCEPT !.at = "failed"]
               /\ rpc[c].id \notin DOMAIN registered \/ Inserting # {}
      <4>1. crashes' > 0 \/ raced'
        BY <3>2, <3>4, <3>6
      <4>2. /\ rpc'[c].at = "failed" /\ rpc'[c].sent = 0 /\ rpc'[c].id = rpc[c].id
        BY <1>1, <2>1, <3>1, <3>6 DEF Calls
      <4> QED BY <1>1, <2>1, <4>1, <4>2 DEF DownloadOK
    <3> QED BY <3>1, <3>5, <3>6
  <2>3. CASE LoadDownload(c)
    <3>1. rpc[c].uri \in Uris /\ rpc[c].at = "load" /\ UNCHANGED held
      BY <1>1, <2>3 DEF LoadDownload, CallOK, At, table
    <3>2. <<rpc[c].uri, rpc[c].id>> \in held /\ rpc[c].id \in Contents
      BY <1>1, <3>1 DEF HandleOK, Calls
    <3>3. file[rpc[c].uri] # Missing
      BY <3>1, <3>2 DEF FilesOK
    <3>4. <<rpc[c].uri, file[rpc[c].uri]>> \in held /\ file[rpc[c].uri] \in Contents
      BY <3>1, <3>3, TypeParts DEF FilesOK, TableOK
    <3>5. rpc'[c] = [rpc[c] EXCEPT !.at = "chunks", !.content = file[rpc[c].uri]]
      BY <1>1, <2>3, <3>3 DEF LoadDownload
    <3>6. /\ rpc'[c].at = "chunks" /\ rpc'[c].content = file[rpc[c].uri]
          /\ rpc'[c].id = rpc[c].id /\ rpc'[c].sent = 0 /\ rpc'[c].chunks = 0
      BY <1>1, <2>1, <3>1, <3>5 DEF Calls
    <3>7. Length[file[rpc[c].uri]] \in Nat /\ 0 * kChunkSize = 0
      BY <3>4, ContentsAssumption, SizesAssumption
    <3>8. Replaced(rpc[c].id, rpc[c].content)'
      BY <3>1, <3>2, <3>4, <3>6 DEF Replaced
    <3> QED BY <1>1, <2>1, <3>6, <3>7, <3>8 DEF DownloadOK
  <2>4. CASE SendChunk(c)
    <3> DEFINE length == Length[rpc[c].content]
               left == length - rpc[c].sent
               size == IF left < kChunkSize THEN left ELSE kChunkSize
    <3>1. length \in Nat /\ rpc[c].sent \in Nat /\ rpc[c].chunks \in Nat
      BY <1>1, ContentsAssumption DEF Calls
    <3>2. rpc[c].at = "chunks" /\ UNCHANGED held
      BY <2>4 DEF SendChunk, table
    <3>3. /\ rpc[c].sent <= length /\ rpc[c].sent = rpc[c].chunks * kChunkSize
          /\ rpc[c].chunks > 0 => rpc[c].sent < length
          /\ rpc[c].content = rpc[c].id \/ Replaced(rpc[c].id, rpc[c].content)
      BY <1>3, <3>2 DEF DownloadOK
    <3>4. /\ rpc'[c].sent = rpc[c].sent + size /\ rpc'[c].chunks = rpc[c].chunks + 1
          /\ rpc'[c].at = IF left > size THEN "chunks" ELSE "replied"
          /\ rpc'[c].content = rpc[c].content /\ rpc'[c].id = rpc[c].id
      BY <1>1, <2>4 DEF SendChunk, Calls
    <3>5. left > size => /\ rpc[c].sent + size < length
                         /\ rpc[c].sent + size = (rpc[c].chunks + 1) * kChunkSize
      BY <3>1, <3>3, ChunkSent
    <3> HIDE DEF left, size
    <3>6. rpc'[c].at = "chunks" =>
            /\ rpc'[c].sent < Length[rpc'[c].content]
            /\ rpc'[c].sent = rpc'[c].chunks * kChunkSize
      BY <3>4, <3>5
    <3>7. rpc'[c].at = "chunks" => rpc'[c].sent <= Length[rpc'[c].content]
      <4>1. rpc'[c] \in Calls
        BY RpcTypeServe, TypeParts DEF RpcOK
      <4> QED BY <3>6, <4>1, <3>4, <3>1 DEF Calls
    <3>8. (rpc[c].content = rpc[c].id \/ Replaced(rpc[c].id, rpc[c].content))'
      BY <3>2, <3>3, <3>4 DEF Replaced
    <3> QED BY <1>1, <2>1, <3>4, <3>6, <3>7, <3>8 DEF DownloadOK
  <2>5. ~ReadUri(c) /\ ~EndInsert(c) /\ ~LoadAnnotated(c) /\ ~OpenOutput(c) /\ ~WriteOutput(c)
    BY <1>1, <1>3 DEF CallOK, ReadUri, EndInsert, LoadAnnotated, OpenOutput, WriteOutput, At
  <2> QED BY <2>2, <2>3, <2>4, <2>5 DEF Serve, BitcodeStep
<1> QED BY <1>2, <1>3

\* Together: DownloadOK is kept.
LEMMA DownloadKept ==
  ASSUME TypeInv, FilesOK, HandlesResolve, [Next]_vars,
         \A c \in Clients : PhaseOK(c) /\ HandleOK(c) /\ DownloadOK(c), NEW d \in Clients
  PROVE  DownloadOK(d)'
<1>0. rpc \in [Clients -> Calls] /\ CallOK(d)
  BY TypeParts DEF RpcOK
<1>1. ASSUME NEW c \in Clients, ClientStep(c) \/ TaskStep(c)
      PROVE  DownloadOK(d)'
  BY <1>1, DownloadKeptClient, DownloadKeptTask
<1>2. ASSUME NEW c \in Clients, Serve(c)
      PROVE  DownloadOK(d)'
  <2>1. UNCHANGED handle
    BY <1>2, ServersKeep DEF clients
  <2>2. CASE rpc[d].op # "download"
    BY <1>2, <2>2, OpKept, OtherOp
  <2>3. CASE rpc[d].op = "download" /\ BeginInsert(c)
    <3>1. d # c /\ d \notin Inserting
      BY <1>0, <2>3 DEF BeginInsert, CallOK, Inserting, TypeInv
    <3>2. rpc'[d] = rpc[d]
      BY <2>3, <3>1, ClientsAssumption DEF BeginInsert
    <3> QED BY <2>1, <3>2, DownloadOKSame
  <2>4. CASE ~BeginInsert(c)
    BY <1>2, <2>1, <2>4, ServeOwn, DownloadOKSame, DownloadKeptServe
  <2> QED BY <2>2, <2>3, <2>4
<1>3. CASE Crash
  <2>1. UNCHANGED handle /\ UNCHANGED <<held, raced>>
    BY <1>3, ServersKeep DEF clients, Crash, CrashBitcode
  <2>2. crashes' > 0
    <3>1. crashes \in Nat
      BY TypeParts, SizesAssumption DEF TableOK
    <3> QED BY <1>3, <3>1 DEF Crash, CrashBitcode
  <2>3. rpc'[d] = rpc[d] \/ rpc'[d] = [rpc[d] EXCEPT !.at = "failed"]
    BY <1>0, <1>3, ClientsAssumption DEF Crash, CrashBitcode
  <2>4. CASE rpc'[d] = [rpc[d] EXCEPT !.at = "failed"]
    <3>1. /\ rpc'[d].at = "failed" /\ rpc'[d].op = rpc[d].op /\ rpc'[d].id = rpc[d].id
          /\ rpc'[d].content = rpc[d].content /\ rpc'[d].sent = rpc[d].sent
      BY <1>0, <2>4 DEF Calls
    <3> QED BY <2>1, <2>2, <3>1 DEF DownloadOK, Replaced
  <2> QED BY <2>1, <2>3, <2>4, DownloadOKSame
<1>4. CASE UNCHANGED <<bitcode, clients, eesi, db>>
  BY <1>4, DownloadOKSame DEF bitcode, clients
<1> QED BY <1>1, <1>2, <1>3, <1>4, Steps

\* A download that has just ended normally has sent its last chunk.
LEMMA WholeKept ==
  ASSUME TypeInv, [Next]_vars, DownloadsWhole, \A c \in Clients : DownloadOK(c)
  PROVE  DownloadsWhole'
<1> DEFINE WholeOK(c) ==
      At(c, "download", "replied") =>
        /\ rpc[c].sent = Length[rpc[c].content]
        /\ rpc[c].chunks * kChunkSize >= Length[rpc[c].content]
        /\ rpc[c].chunks > 0
        /\ (rpc[c].chunks - 1) * kChunkSize < Max({Length[rpc[c].content], 1})
<1>1. \A c \in Clients : WholeOK(c)
  BY DEF DownloadsWhole
<1>2. SUFFICES ASSUME NEW d \in Clients PROVE WholeOK(d)'
  BY DEF DownloadsWhole
<1>3. CASE rpc'[d] = rpc[d]
  BY <1>1, <1>3 DEF At
<1>4. CASE rpc'[d].op # "download" \/ rpc'[d].at # "replied"
  BY <1>4 DEF At
<1>0. rpc \in [Clients -> Calls] /\ \A c \in Clients : CallOK(c)
  BY TypeParts DEF RpcOK
<1> HIDE DEF WholeOK
<1>5. ASSUME NEW c \in Clients, ClientStep(c) \/ TaskStep(c)
      PROVE  WholeOK(d)'
  <2>1. CASE CallRegister(c) \/ CallAnnotate(c) \/ TaskDownload(c)
    BY <1>0, <1>3, <1>4, <2>1
       DEF CallRegister, CallAnnotate, TaskDownload, RegisterBitcode, Annotate, DownloadBitcode,
           NoCall
  <2>2. CASE Registered(c) \/ AnnotateReplied(c) \/ TaskParse(c)
    <3>1. rpc'[d] \in {NoCall, rpc[d]} /\ NoCall.op = "none"
      BY <1>0, <2>2 DEF Registered, AnnotateReplied, TaskParse, NoCall
    <3> QED BY <1>3, <1>4, <3>1
  <2>3. CASE UNCHANGED bitcode
    BY <1>3, <2>3 DEF bitcode
  <2> QED BY <1>5, <2>1, <2>2, <2>3
          DEF ClientStep, LookUpUri, FindRecord, InsertRecord, DeleteStored, SearchStored, Submit,
              Collect, TaskStep, TaskThirdParty, TaskAsk, TaskFinish
<1>6. ASSUME NEW c \in Clients, Serve(c)
      PROVE  WholeOK(d)'
  <2>1. CASE BeginInsert(c)
    <3>1. \/ rpc'[d] = rpc[d]
          \/ rpc[d].at \in {"insert", "inserting"} /\ rpc'[d].op = rpc[d].op
      BY <1>0, <1>6, <2>1, ClientsAssumption, OpKept DEF BeginInsert, Inserting
    <3>2. rpc[d].at \in {"insert", "inserting"} => rpc[d].op # "download"
      BY <1>0 DEF CallOK
    <3> QED BY <1>3, <1>4, <3>1, <3>2
  <2>2. CASE ~BeginInsert(c) /\ d # c
    BY <1>3, <1>6, <2>2, ServeOwn
  <2>3. CASE d = c /\ EndInsert(c)
    <3>1. rpc'[d].op = rpc[d].op /\ rpc[d].at = "inserting" /\ CallOK(d)
      BY <1>0, <2>3 DEF EndInsert, Go
    <3> QED BY <1>4, <3>1 DEF CallOK
  <2>4. CASE d = c /\ SendChunk(c)
    <3> DEFINE length == Length[rpc[c].content]
               left == length - rpc[c].sent
               size == IF left < kChunkSize THEN left ELSE kChunkSize
    <3>1. length \in Nat /\ rpc[c].sent \in Nat /\ rpc[c].chunks \in Nat
      BY <1>0, ContentsAssumption DEF Calls
    <3>2. rpc[c].at = "chunks" /\ rpc[c].op = "download"
      BY <1>0, <2>4 DEF SendChunk, CallOK
    <3>3. /\ rpc[c].sent <= length /\ rpc[c].sent = rpc[c].chunks * kChunkSize
          /\ rpc[c].chunks > 0 => rpc[c].sent < length
      BY <3>2 DEF DownloadOK
    <3>4. /\ rpc'[c].sent = rpc[c].sent + size /\ rpc'[c].chunks = rpc[c].chunks + 1
          /\ rpc'[c].at = IF left > size THEN "chunks" ELSE "replied"
          /\ rpc'[c].content = rpc[c].content
      BY <1>0, <2>4 DEF SendChunk, Calls
    <3>5. ~(left > size) => /\ rpc[c].sent + size = length
                            /\ (rpc[c].chunks + 1) * kChunkSize >= length
                            /\ rpc[c].chunks > 0 => rpc[c].chunks * kChunkSize < length
      BY <3>1, <3>3, ChunkSent
    <3> HIDE DEF left, size
    <3>6. rpc[c].chunks + 1 > 0 /\ (rpc[c].chunks + 1) - 1 = rpc[c].chunks
      BY <3>1
    <3>7. \A n \in Nat : Max({n, 1}) = IF n > 1 THEN n ELSE 1
      BY DEF Max
    <3>8. rpc[c].chunks * kChunkSize \in Nat
      BY <3>1, SizesAssumption
    <3>9. CASE rpc'[c].at = "replied"
      <4>1. /\ rpc'[c].sent = length /\ rpc'[c].chunks * kChunkSize >= length
            /\ rpc[c].chunks > 0 => rpc[c].chunks * kChunkSize < length
        BY <3>4, <3>5, <3>9
      <4>2. rpc[c].chunks * kChunkSize < Max({length, 1})
        <5>1. CASE rpc[c].chunks > 0
          BY <3>1, <3>7, <3>8, <4>1, <5>1
        <5>2. CASE rpc[c].chunks = 0
          <6>1. rpc[c].chunks * kChunkSize = 0
            BY <5>2, SizesAssumption
          <6> QED BY <3>1, <3>7, <6>1
        <5> QED BY <3>1, <5>1, <5>2
      <4> QED BY <2>4, <3>4, <3>6, <4>1, <4>2 DEF WholeOK
    <3> QED BY <1>4, <2>4, <3>9
  <2>5. CASE d = c /\ (ReadUri(c) \/ Lookup(c) \/ LoadAnnotated(c) \/ OpenOutput(c)
                         \/ WriteOutput(c) \/ LoadDownload(c))
    <3>1. rpc'[d].at # "replied"
      BY <1>0, <2>5
         DEF ReadUri, Lookup, LoadAnnotated, OpenOutput, WriteOutput, LoadDownload, Go, Calls
    <3> QED BY <1>4, <3>1
  <2> QED BY <1>6, <2>1, <2>2, <2>3, <2>4, <2>5 DEF Serve, BitcodeStep
<1>7. CASE Crash
  <2>1. rpc'[d] = rpc[d] \/ rpc'[d].at = "failed"
    BY <1>0, <1>7, ClientsAssumption DEF Crash, CrashBitcode
  <2> QED BY <1>3, <1>4, <2>1
<1>8. CASE UNCHANGED <<bitcode, clients, eesi, db>>
  BY <1>3, <1>8 DEF bitcode
<1> QED BY <1>5, <1>6, <1>7, <1>8, Steps

-----------------------------------------------------------------------------
(* Results.                                                                *)

\* What a task has downloaded, when the download has ended.
LEMMA DownloadedIsOfFile ==
  ASSUME TypeInv, DownloadsWhole, NEW c \in Clients, DownloadOK(c), PhaseOK(c), TaskParse(c)
  PROVE  /\ OfFile(handle[c], Bytes(rpc[c].content, rpc[c].sent))
         /\ Bytes(rpc[c].content, rpc[c].sent) \notin Parses =>
              /\ rpc[c].sent # 0
              /\ crashes > 0 \/ Whole(rpc[c].content) \notin Parses
<1>1. rpc[c].op = "download" /\ rpc[c].at \in {"replied", "failed"}
  BY DEF TaskParse, PhaseOK, Ended
<1>2. rpc[c].content \in Contents /\ rpc[c].sent \in Nat
  BY TypeParts DEF RpcOK, Calls
<1>3. /\ rpc[c].id = handle[c]
      /\ rpc[c].at = "replied" \/ rpc[c].sent # 0 =>
           rpc[c].content = handle[c] \/ Replaced(handle[c], rpc[c].content)
      /\ rpc[c].at = "failed" => crashes > 0 \/ (raced /\ rpc[c].sent = 0)
  BY <1>1 DEF DownloadOK
<1>4. rpc[c].at = "replied" => rpc[c].sent = Length[rpc[c].content]
  BY <1>1 DEF DownloadsWhole, At
<1>5. <<Nothing, 0>> \in Parses /\ \A x \in Contents : Length[x] = 0 <=> x = Nothing
  BY ContentsAssumption
<1>6. CASE rpc[c].sent = 0
  <2>1. Bytes(rpc[c].content, rpc[c].sent) = <<Nothing, 0>>
    BY <1>6 DEF Bytes
  <2>2. CASE rpc[c].at = "failed"
    BY <1>3, <1>5, <2>1, <2>2 DEF OfFile
  <2>3. CASE rpc[c].at = "replied"
    <3>1. rpc[c].content = Nothing
      BY <1>2, <1>4, <1>5, <1>6, <2>3
    <3>2. handle[c] = Nothing => Whole(handle[c]) = <<Nothing, 0>>
      BY ContentsAssumption DEF Whole
    <3>3. handle[c] # Nothing => Replaced(handle[c], Nothing)
      BY <1>3, <2>3, <3>1
    <3> QED BY <1>5, <2>1, <3>2, <3>3 DEF OfFile
  <2> QED BY <1>1, <2>2, <2>3
<1>7. CASE rpc[c].sent # 0
  <2>1. Bytes(rpc[c].content, rpc[c].sent) = <<rpc[c].content, rpc[c].sent>>
    BY <1>7 DEF Bytes
  <2>2. rpc[c].at = "failed" => crashes > 0
    BY <1>3, <1>7
  <2>3. rpc[c].at = "replied" => <<rpc[c].content, rpc[c].sent>> = Whole(rpc[c].content)
    BY <1>4 DEF Whole
  <2>4. OfFile(handle[c], <<rpc[c].content, rpc[c].sent>>)
    BY <1>1, <1>3, <1>7, <2>2, <2>3 DEF OfFile
  <2> QED BY <1>1, <1>7, <2>1, <2>2, <2>3, <2>4
<1> QED BY <1>6, <1>7

\* What a task has received stays right until its result is collected.
LEMMA ReceivedKept ==
  ASSUME TypeInv, DownloadsWhole, [Next]_vars, NEW d \in Clients, ReceivedOK(d),
         \A c \in Clients : PhaseOK(c) /\ DownloadOK(c)
  PROVE  ReceivedOK(d)'
<1>1. held \subseteq held' /\ (raced => raced') /\ (crashes > 0 => crashes' > 0)
  BY HistoryGrows DEF Grows
<1>2. task \in [Clients -> Tasks] /\ received \in [Clients -> Contents \X Nat]
  BY TypeParts DEF EesiOK
<1>3. CASE /\ task'[d] \in {"thirdparty", "asking third party", "asking", "finished"} =>
                task[d] \in {"thirdparty", "asking third party", "asking", "finished"}
           /\ received'[d] = received[d] /\ handle'[d] = handle[d]
  BY <1>1, <1>3 DEF ReceivedOK, OfFile, Replaced, Whole
<1>4. CASE task'[d] \in {"none", "queued", "downloading"}
  BY <1>4 DEF ReceivedOK
<1>5. ASSUME NEW c \in Clients, ClientStep(c)
      PROVE  ReceivedOK(d)'
  <2>1. UNCHANGED received
    BY <1>5 DEF ClientStep, LookUpUri, CallRegister, Registered, FindRecord, InsertRecord,
       DeleteStored, SearchStored, Submit, Collect, CallAnnotate, AnnotateReplied, eesi
  <2>2. CASE d # c
    BY <1>3, <1>5, <2>1, <2>2, ClientStepOwn
  <2>3. CASE d = c /\ Submit(c)
    BY <1>2, <1>3, <1>4, <2>1, <2>3 DEF Submit
  <2>4. CASE d = c /\ Registered(c)
    <3>1. task'[d] \in {"none", "queued", "downloading"}
      BY <1>2, <2>4 DEF Registered, PhaseOK, eesi
    <3> QED BY <1>4, <3>1
  <2>5. CASE d = c /\ ~Submit(c) /\ ~Registered(c)
    <3>1. UNCHANGED <<task, handle>>
      BY <1>5, <2>5 DEF ClientStep, LookUpUri, CallRegister, FindRecord, InsertRecord,
         DeleteStored, SearchStored, Collect, CallAnnotate, AnnotateReplied, eesi, clients
    <3> QED BY <1>3, <2>1, <3>1
  <2> QED BY <2>2, <2>3, <2>4, <2>5
<1>6. ASSUME NEW c \in Clients, TaskStep(c)
      PROVE  ReceivedOK(d)'
  <2>1. UNCHANGED handle
    BY <1>6, TasksKeep DEF clients
  <2>2. CASE TaskParse(c)
    <3> DEFINE bytes == Bytes(rpc[c].content, rpc[c].sent)
    <3>1. CASE d = c
      <4>1. received'[d] = bytes
        BY <1>2, <2>2, <3>1 DEF TaskParse
      <4>2. UNCHANGED <<held, raced, crashes>>
        BY <2>2 DEF TaskParse, table
      <4>3. OfFile(handle[d], bytes)
        BY <2>2, <3>1, DownloadedIsOfFile
      <4> QED BY <2>1, <4>1, <4>2, <4>3 DEF ReceivedOK, OfFile, Replaced, Whole
    <3>2. CASE d # c
      <4>1. received'[d] = received[d] /\ task'[d] \in {"none", task[d]}
        BY <1>2, <2>2, <3>2 DEF TaskParse
      <4> QED BY <1>3, <1>4, <2>1, <4>1
    <3> QED BY <3>1, <3>2
  <2>3. CASE TaskDownload(c) \/ TaskThirdParty(c) \/ TaskAsk(c) \/ TaskFinish(c)
    BY <1>2, <1>3, <1>4, <2>1, <2>3 DEF TaskDownload, TaskThirdParty, TaskAsk, TaskFinish
  <2> QED BY <1>6, <2>2, <2>3 DEF TaskStep
<1>7. CASE Crash \/ \E c \in Clients : Serve(c)
  BY <1>3, <1>7, ServersKeep DEF clients, eesi
<1>8. CASE UNCHANGED <<bitcode, clients, eesi, db>>
  BY <1>3, <1>8 DEF clients, eesi
<1> QED BY <1>5, <1>6, <1>7, <1>8, Steps

\* The EESI server aborts only when DownloadedIsOfFile gives a reason.
LEMMA SurvivalKept ==
  ASSUME TypeInv, DownloadsWhole, ServerSurvives, [Next]_vars,
         \A c \in Clients : PhaseOK(c) /\ DownloadOK(c)
  PROVE  ServerSurvives'
<1>1. crashes > 0 => crashes' > 0
  BY HistoryGrows DEF Grows
<1>2. CASE UNCHANGED <<eesiUp, received>>
  BY <1>1, <1>2 DEF ServerSurvives, Whole
<1>3. CASE eesiUp'
  BY <1>3 DEF ServerSurvives
<1>4. ASSUME NEW c \in Clients, TaskParse(c)
      PROVE  ServerSurvives'
  <2> DEFINE bytes == Bytes(rpc[c].content, rpc[c].sent)
  <2>1. CASE bytes \in Parses
    <3>1. eesiUp'
      BY <1>4, <2>1 DEF TaskParse
    <3> QED BY <1>3, <3>1
  <2>2. CASE bytes \notin Parses
    <3>1. rpc[c].sent # 0 /\ (crashes > 0 \/ Whole(rpc[c].content) \notin Parses)
      BY <1>4, <2>2, DownloadedIsOfFile
    <3>2. received'[c] = bytes /\ bytes[1] = rpc[c].content
      BY <1>4, <3>1, TypeParts DEF TaskParse, EesiOK, Bytes
    <3> QED BY <1>1, <2>2, <3>1, <3>2 DEF ServerSurvives, Whole
  <2> QED BY <2>1, <2>2
<1>5. ASSUME NEW c \in Clients, TaskStep(c), ~TaskParse(c)
      PROVE  UNCHANGED <<eesiUp, received>>
  BY <1>5 DEF TaskStep, TaskDownload, TaskThirdParty, TaskAsk, TaskFinish
<1>6. ASSUME NEW c \in Clients, ClientStep(c)
      PROVE  UNCHANGED <<eesiUp, received>>
  BY <1>6 DEF ClientStep, LookUpUri, CallRegister, Registered, FindRecord, InsertRecord,
     DeleteStored, SearchStored, Submit, Collect, CallAnnotate, AnnotateReplied, eesi
<1>7. CASE Crash \/ \E c \in Clients : Serve(c)
  BY <1>2, <1>7, ServersKeep DEF eesi
<1>8. CASE UNCHANGED <<bitcode, clients, eesi, db>>
  BY <1>2, <1>8 DEF eesi
<1> QED BY <1>2, <1>4, <1>5, <1>6, <1>7, <1>8, Steps

\* What is stored is what a finished task received.
LEMMA StoredOfFileKept ==
  ASSUME TypeInv, StoredAreOfFile, [Next]_vars,
         \A c \in Clients : PhaseOK(c) /\ ReceivedOK(c)
  PROVE  StoredAreOfFile'
<1>1. held \subseteq held' /\ (raced => raced') /\ (crashes > 0 => crashes' > 0)
  BY HistoryGrows DEF Grows
<1>2. \A h \in Contents : \A r \in stored[h] : OfFile(h, r.bytes)
  BY DEF StoredAreOfFile, OfFile, Replaced
<1>3. stored \in [Contents -> SUBSET Records] /\ handle \in [Clients -> Contents]
  BY TypeParts DEF StoredOK, ClientsOK
<1>4. SUFFICES \A h \in Contents : \A r \in stored'[h] : OfFile(h, r.bytes)
  BY <1>1, <1>4 DEF StoredAreOfFile, OfFile, Replaced, Whole
<1>5. ASSUME NEW c \in Clients, DeleteStored(c)
      PROVE  \A h \in Contents : stored'[h] \subseteq stored[h]
  BY <1>3, <1>5 DEF DeleteStored
<1>6. ASSUME NEW c \in Clients, Collect(c)
      PROVE  \A h \in Contents : \A r \in stored'[h] : OfFile(h, r.bytes)
  <2>1. CASE UNCHANGED stored
    BY <1>2, <2>1
  <2>2. CASE /\ task[c] = "finished"
             /\ stored' = [stored EXCEPT ![handle[c]] = @ \union {[by |-> c, bytes |-> received[c]]}]
    <3>1. OfFile(handle[c], received[c])
      BY <2>2 DEF ReceivedOK
    <3> QED BY <1>2, <1>3, <2>2, <3>1
  <2> QED BY <1>6, <2>1, <2>2 DEF Collect
<1>7. ASSUME NEW c \in Clients, ClientStep(c), ~DeleteStored(c), ~Collect(c)
      PROVE  UNCHANGED stored
  BY <1>7 DEF ClientStep, LookUpUri, CallRegister, Registered, FindRecord, InsertRecord,
     SearchStored, Submit, CallAnnotate, AnnotateReplied, db
<1>8. CASE Crash \/ \E c \in Clients : Serve(c) \/ TaskStep(c)
  BY <1>2, <1>8, ServersKeep, TasksKeep DEF db
<1>9. CASE UNCHANGED <<bitcode, clients, eesi, db>>
  BY <1>2, <1>9 DEF db
<1> QED BY <1>2, <1>5, <1>6, <1>7, <1>8, <1>9, Steps

-----------------------------------------------------------------------------
(* The database.                                                           *)

\* A client that is about to insert meets only records that overlap it.
LEMMA InsertKept ==
  ASSUME TypeInv, [Next]_vars, \A c \in Clients : InsertOK(c), NEW d \in Clients
  PROVE  InsertOK(d)'
<1>1. phase \in [Clients -> Phases] /\ UNCHANGED command
  BY TypeParts, HistoryGrows DEF ClientsOK
<1>2. CASE (phase'[d] = "insert" => phase[d] = "insert") /\ UNCHANGED filenames
  BY <1>1, <1>2 DEF InsertOK
<1>3. ASSUME NEW c \in Clients, ClientStep(c)
      PROVE  InsertOK(d)'
  <2>1. CASE FindRecord(c)
    <3>1. UNCHANGED filenames
      BY <2>1 DEF FindRecord, db
    <3>2. CASE d = c
      <4>1. phase'[d] = "insert" => \A r \in filenames : r.uri # command[d].uri
        BY <1>1, <2>1, <3>2 DEF FindRecord, Enter, Recorded
      <4> QED BY <1>1, <3>1, <4>1 DEF InsertOK
    <3>3. CASE d # c
      BY <1>1, <1>2, <2>1, <3>1, <3>3 DEF FindRecord, Enter
    <3> QED BY <3>2, <3>3
  <2>2. CASE InsertRecord(c)
    <3>1. CASE d = c
      BY <1>1, <2>2, <3>1 DEF InsertRecord, Enter, InsertOK
    <3>2. CASE d # c
      <4>1. PICK r : /\ filenames' = filenames \union {r} /\ r.uri = command[c].uri
                     /\ (phase[d] = "insert" /\ command[d].uri = command[c].uri) => r.overtakes
        <5> DEFINE r == [by |-> c, uri |-> command[c].uri, id |-> handle[c],
                         overtakes |-> \E e \in Clients \ {c} :
                                         phase[e] = "insert" /\ command[e].uri = command[c].uri]
        <5>1. filenames' = filenames \union {r} /\ r.uri = command[c].uri
          BY <2>2 DEF InsertRecord
        <5>2. (phase[d] = "insert" /\ command[d].uri = command[c].uri) => r.overtakes
          BY <3>2
        <5> QED BY <5>1, <5>2
      <4>2. phase'[d] = phase[d]
        BY <1>1, <2>2, <3>2 DEF InsertRecord, Enter
      <4> QED BY <1>1, <4>1, <4>2 DEF InsertOK
    <3> QED BY <3>1, <3>2
  <2>3. CASE ~FindRecord(c) /\ ~InsertRecord(c)
    <3>1. UNCHANGED filenames
      BY <1>3, <2>3 DEF ClientStep, LookUpUri, CallRegister, Registered, DeleteStored,
         SearchStored, Submit, Collect, CallAnnotate, AnnotateReplied, db
    <3>2. phase'[c] = "insert" => phase[c] = "insert"
      BY <1>1, <1>3, <2>3 DEF ClientStep, LookUpUri, CallRegister, Registered, DeleteStored,
         SearchStored, Submit, Collect, CallAnnotate, AnnotateReplied, clients, Enter
    <3>3. d # c => phase'[d] = phase[d]
      BY <1>3, ClientStepOwn
    <3> QED BY <1>2, <3>1, <3>2, <3>3
  <2> QED BY <2>1, <2>2, <2>3
<1>4. CASE Crash \/ \E c \in Clients : Serve(c) \/ TaskStep(c)
  BY <1>2, <1>4, ServersKeep, TasksKeep DEF clients, db
<1>5. CASE UNCHANGED <<bitcode, clients, eesi, db>>
  BY <1>2, <1>5 DEF clients, db
<1> QED BY <1>3, <1>4, <1>5, Steps

\* So a second record of a URI has overlapped the first.
LEMMA RecordedOnceKept ==
  ASSUME TypeInv, UriRecordedOnce, [Next]_vars, \A c \in Clients : InsertOK(c)
  PROVE  UriRecordedOnce'
<1>1. CASE UNCHANGED filenames
  BY <1>1 DEF UriRecordedOnce
<1>2. ASSUME NEW c \in Clients, InsertRecord(c)
      PROVE  UriRecordedOnce'
  <2>1. PICK r : filenames' = filenames \union {r} /\ r.uri = command[c].uri
    <3> DEFINE r == [by |-> c, uri |-> command[c].uri, id |-> handle[c],
                     overtakes |-> \E e \in Clients \ {c} :
                                     phase[e] = "insert" /\ command[e].uri = command[c].uri]
    <3>1. filenames' = filenames \union {r} /\ r.uri = command[c].uri
      BY <1>2 DEF InsertRecord
    <3> QED BY <3>1
  <2>2. \A s \in filenames : s.uri = r.uri => s.overtakes
    BY <1>2, <2>1 DEF InsertRecord, InsertOK
  <2> QED BY <2>1, <2>2 DEF UriRecordedOnce
<1>3. ASSUME NEW c \in Clients, ClientStep(c), ~InsertRecord(c)
      PROVE  UNCHANGED filenames
  BY <1>3 DEF ClientStep, LookUpUri, CallRegister, Registered, FindRecord, DeleteStored,
     SearchStored, Submit, Collect, CallAnnotate, AnnotateReplied, db
<1>4. CASE Crash \/ \E c \in Clients : Serve(c) \/ TaskStep(c)
  BY <1>1, <1>4, ServersKeep, TasksKeep DEF db
<1>5. CASE UNCHANGED <<bitcode, clients, eesi, db>>
  BY <1>1, <1>5 DEF db
<1> QED BY <1>1, <1>2, <1>3, <1>4, <1>5, Steps

\* Client d has its specifications, or e is about to replace them.
Has(d) == stored[handle[d]] # {}

Replaces(e, d) ==
  /\ command[e].overwrite /\ handle[e] = handle[d]
  /\ phase[e] \in {"search", "submit", "waiting", "failed"}

DoneOK(d) ==
  phase[d] = "done" /\ command[d].kind = "specifications" =>
    Has(d) \/ \E e \in Clients : Replaces(e, d)

\* A command that is done keeps its specifications, or is excused.
LEMMA DoneKept ==
  ASSUME TypeInv, DoneMeansStored, [Next]_vars, \A c \in Clients : PhaseOK(c)
  PROVE  DoneMeansStored'
<1>1. \A d \in Clients : DoneOK(d)
  BY DEF DoneMeansStored, DoneOK, Has, Replaces
<1>2. SUFFICES ASSUME NEW d \in Clients PROVE DoneOK(d)'
  BY DEF DoneMeansStored, DoneOK, Has, Replaces
<1>3. /\ phase \in [Clients -> Phases] /\ handle \in [Clients -> Contents]
      /\ stored \in [Contents -> SUBSET Records] /\ UNCHANGED command
  BY TypeParts, HistoryGrows DEF ClientsOK, StoredOK
<1>4. CASE UNCHANGED <<phase, handle, stored>>
  BY <1>1, <1>3, <1>4 DEF DoneOK, Has, Replaces
\* A step of c that deletes nothing, and leaves c in its place or excuses it.
<1>5. ASSUME NEW c \in Clients, phase' = [phase EXCEPT ![c] = phase'[c]], UNCHANGED handle,
             \A h \in Contents : stored[h] # {} => stored'[h] # {},
             phase[c] \notin {"done", "failed"},
             phase[c] \in {"search", "submit", "waiting"} =>
               phase'[c] \in {"search", "submit", "waiting", "failed"} \/ stored'[handle[c]] # {},
             phase'[c] = "done" => command[c].kind # "specifications" \/ stored'[handle[c]] # {}
      PROVE  DoneOK(d)'
  <2>1. CASE d = c
    BY <1>3, <1>5, <2>1 DEF DoneOK, Has
  <2>2. CASE d # c
    <3>1. phase'[d] = phase[d] /\ (Has(d) => Has(d)')
      BY <1>3, <1>5, <2>2 DEF Has
    <3>2. ASSUME NEW e \in Clients, Replaces(e, d)
          PROVE  Replaces(e, d)' \/ Has(d)'
      <4>1. CASE e # c
        BY <1>3, <1>5, <3>2, <4>1 DEF Replaces
      <4>2. CASE e = c
        <5>1. handle'[c] = handle'[d] /\ command'[c].overwrite
          BY <1>3, <1>5, <3>2, <4>2 DEF Replaces
        <5>2. phase[c] \in {"search", "submit", "waiting"}
          BY <1>5, <3>2, <4>2 DEF Replaces
        <5>3. CASE phase'[c] \in {"search", "submit", "waiting", "failed"}
          BY <4>2, <5>1, <5>3 DEF Replaces
        <5>4. CASE stored'[handle[c]] # {}
          BY <1>5, <5>1, <5>4 DEF Has
        <5> QED BY <1>5, <5>2, <5>3, <5>4
      <4> QED BY <4>1, <4>2
    <3> QED BY <1>1, <1>3, <3>1, <3>2 DEF DoneOK
  <2> QED BY <2>1, <2>2
<1>6. ASSUME NEW c \in Clients, ClientStep(c)
      PROVE  DoneOK(d)'
  <2>1. CASE LookUpUri(c) \/ FindRecord(c) \/ InsertRecord(c)
    BY <1>3, <1>5, <2>1 DEF LookUpUri, FindRecord, InsertRecord, Enter, db
  <2>2. CASE CallRegister(c) \/ CallAnnotate(c)
    BY <1>4, <2>2 DEF CallRegister, CallAnnotate, clients, db
  <2>3. CASE Registered(c)
    <3>1. /\ UNCHANGED stored
          /\ phase' = [phase EXCEPT ![c] = phase'[c]]
          /\ phase'[c] # "done" /\ phase[c] \in {"register", "handle"}
          /\ \A e \in Clients \ {c} : handle'[e] = handle[e]
      BY <1>3, <2>3 DEF Registered, Enter, db
    <3>2. CASE d = c
      BY <3>1, <3>2 DEF DoneOK
    <3>3. CASE d # c
      <4>1. \A e \in Clients : Replaces(e, d) => Replaces(e, d)'
        BY <1>3, <3>1, <3>3 DEF Replaces
      <4>2. phase'[d] = phase[d] /\ (Has(d) => Has(d)')
        BY <1>3, <3>1, <3>3 DEF Has
      <4> QED BY <1>1, <1>3, <4>1, <4>2 DEF DoneOK
    <3> QED BY <3>2, <3>3
  <2>4. CASE DeleteStored(c)
    <3>1. /\ phase[c] = "delete" /\ phase' = [phase EXCEPT ![c] = "search"]
          /\ UNCHANGED handle /\ stored' = [stored EXCEPT ![handle[c]] = {}]
      BY <2>4 DEF DeleteStored, Enter
    <3>2. command[c].overwrite
      BY <3>1 DEF PhaseOK
    <3>3. CASE d = c
      BY <1>3, <3>1, <3>3 DEF DoneOK
    <3>4. CASE d # c
      <4>1. phase'[d] = phase[d]
        BY <1>3, <3>1, <3>4
      <4>2. CASE handle[d] = handle[c]
        <5>1. Replaces(c, d)'
          BY <1>3, <3>1, <3>2, <4>2 DEF Replaces
        <5> QED BY <5>1 DEF DoneOK
      <4>3. CASE handle[d] # handle[c]
        <5>1. Has(d) => Has(d)'
          BY <1>3, <3>1, <4>3 DEF Has
        <5>2. \A e \in Clients : Replaces(e, d) => Replaces(e, d)'
          BY <1>3, <3>1 DEF Replaces
        <5> QED BY <1>1, <1>3, <4>1, <5>1, <5>2 DEF DoneOK
      <4> QED BY <4>2, <4>3
    <3> QED BY <3>3, <3>4
  <2>5. CASE SearchStored(c)
    <3>1. /\ phase[c] = "search" /\ UNCHANGED <<handle, stored>>
          /\ phase' = [phase EXCEPT ![c] = phase'[c]]
          /\ phase'[c] = IF stored[handle[c]] # {} THEN "done" ELSE "submit"
      BY <1>3, <2>5 DEF SearchStored, Enter, db
    <3> QED BY <1>3, <1>5, <3>1
  <2>6. CASE Submit(c)
    <3>1. /\ phase[c] = "submit" /\ UNCHANGED <<handle, stored>>
          /\ phase' = [phase EXCEPT ![c] = phase'[c]]
          /\ phase'[c] \in {"waiting", "failed"}
      BY <1>3, <2>6 DEF Submit, Enter, db
    <3> QED BY <1>3, <1>5, <3>1
  <2>7. CASE Collect(c)
    <3>1. /\ phase[c] = "waiting" /\ UNCHANGED handle
          /\ phase' = [phase EXCEPT ![c] = phase'[c]]
          /\ \/ /\ stored' = [stored EXCEPT ![handle[c]] =
                                @ \union {[by |-> c, bytes |-> received[c]]}]
                /\ phase'[c] = "done"
             \/ UNCHANGED stored /\ phase'[c] = "failed"
      BY <1>3, <2>7 DEF Collect, Enter
    <3>2. /\ \A h \in Contents : stored[h] # {} => stored'[h] # {}
          /\ phase'[c] = "done" => stored'[handle[c]] # {}
      <4>1. CASE UNCHANGED stored /\ phase'[c] = "failed"
        BY <4>1
      <4>2. CASE stored' = [stored EXCEPT ![handle[c]] =
                                @ \union {[by |-> c, bytes |-> received[c]]}]
        <5>1. [by |-> c, bytes |-> received[c]] \in stored'[handle[c]]
          BY <1>3, <4>2
        <5>2. \A h \in Contents : stored[h] \subseteq stored'[h]
          BY <1>3, <4>2
        <5> QED BY <5>1, <5>2
      <4> QED BY <3>1, <4>1, <4>2
    <3> QED BY <1>3, <1>5, <3>1, <3>2
  <2>8. CASE AnnotateReplied(c)
    <3>1. /\ phase[c] = "annotate" /\ UNCHANGED <<handle, stored>>
          /\ phase' = [phase EXCEPT ![c] = phase'[c]]
      BY <1>3, <2>8 DEF AnnotateReplied, Enter, db
    <3>2. command[c].kind # "specifications"
      BY <3>1 DEF PhaseOK
    <3> QED BY <1>3, <1>5, <3>1, <3>2
  <2> QED BY <1>6, <2>1, <2>2, <2>3, <2>4, <2>5, <2>6, <2>7, <2>8 DEF ClientStep
<1>7. CASE Crash \/ \E c \in Clients : Serve(c) \/ TaskStep(c)
  BY <1>4, <1>7, ServersKeep, TasksKeep DEF clients, db
<1>8. CASE UNCHANGED <<bitcode, clients, eesi, db>>
  BY <1>4, <1>8 DEF clients, db
<1> QED BY <1>6, <1>7, <1>8, Steps

-----------------------------------------------------------------------------
(* The theorems.                                                           *)

\* The invariant holds at first.
LEMMA InitIsOK == Init => IInv
<1> SUFFICES ASSUME Init PROVE IInv
  OBVIOUS
<1> USE DEF Init, BitcodeInit
<1>1. NoCall.op = "none" /\ NoCall.at = "none" /\ NoCall.raced = FALSE
  BY DEF NoCall
<1>2. \A c \in Clients : rpc[c] = NoCall
  BY ClientsAssumption
<1>3. TypeInv
  <2>1. RpcOK
    BY <1>1, <1>2, NoCallType, ClientsAssumption DEF RpcOK, CallOK
  <2>2. TableOK
    <3>1. file \in [Uris -> Contents \union {Missing}]
      BY ContentsAssumption
    <3>2. held \subseteq Uris \X Contents
      BY <3>1
    <3>3. DOMAIN registered = {}
      OBVIOUS
    <3>4. crashes \in 0..MaxCrashes
      <4>1. crashes = 0
        OBVIOUS
      <4> QED BY <4>1, SizesAssumption
    <3>5. raced \in BOOLEAN
      <4>1. raced = FALSE
        OBVIOUS
      <4> QED BY <4>1
    <3> QED BY <3>1, <3>2, <3>3, <3>4, <3>5 DEF TableOK
  <2>3. ClientsOK /\ EesiOK /\ StoredOK
    BY ContentsAssumption, ScenariosAssumption DEF ClientsOK, EesiOK, StoredOK, Phases, Tasks
  <2> QED BY <2>1, <2>2, <2>3, TypeParts
<1>4. FilesOK
  BY ContentsAssumption DEF FilesOK
<1>5. ASSUME NEW c \in Clients
      PROVE  PhaseOK(c) /\ HandleOK(c) /\ DownloadOK(c) /\ ReceivedOK(c) /\ InsertOK(c)
  BY <1>1, <1>2 DEF PhaseOK, HandleOK, DownloadOK, ReceivedOK, InsertOK, At
<1>6. StoredAreOfFile /\ ServerSurvives /\ HandlesResolve /\ UriRecordedOnce /\ DoneMeansStored
  BY DEF StoredAreOfFile, ServerSurvives, HandlesResolve, UriRecordedOnce, DoneMeansStored
<1>7. DownloadsWhole
  BY <1>1, <1>2 DEF DownloadsWhole, At
<1> QED BY <1>3, <1>4, <1>5, <1>6, <1>7 DEF IInv

\* Every step keeps the invariant.
LEMMA StepIsOK == IInv /\ [Next]_vars => IInv'
<1> SUFFICES ASSUME IInv, [Next]_vars PROVE IInv'
  OBVIOUS
<1>1. /\ TypeInv /\ FilesOK
      /\ \A c \in Clients : PhaseOK(c) /\ HandleOK(c) /\ DownloadOK(c) /\ ReceivedOK(c) /\ InsertOK(c)
      /\ StoredAreOfFile /\ DownloadsWhole /\ ServerSurvives /\ HandlesResolve
      /\ UriRecordedOnce /\ DoneMeansStored
  BY DEF IInv
<1>2. TypeInv' /\ FilesOK'
  BY <1>1, TypeKept, FilesKept
<1>3. \A d \in Clients : PhaseOK(d)' /\ HandleOK(d)'
  BY <1>1, PhaseKept, HandleKept
<1>4. \A d \in Clients : DownloadOK(d)' /\ ReceivedOK(d)' /\ InsertOK(d)'
  BY <1>1, DownloadKept, ReceivedKept, InsertKept
<1>5. StoredAreOfFile' /\ DownloadsWhole' /\ ServerSurvives'
  BY <1>1, StoredOfFileKept, WholeKept, SurvivalKept
<1>6. HandlesResolve' /\ UriRecordedOnce' /\ DoneMeansStored'
  BY <1>1, ResolveKept, RecordedOnceKept, DoneKept
<1> QED BY <1>2, <1>3, <1>4, <1>5, <1>6 DEF IInv

\* All parts of the invariant hold in every reachable state.
THEOREM Invariance == Spec => []IInv
  BY InitIsOK, StepIsOK, PTL DEF Spec

\* Every variable of the composed system has its type (TypeOK).
THEOREM TypeCorrectness == Spec => []TypeOK
<1>1. IInv => TypeOK
  BY DEF IInv, TypeInv
<1> QED BY <1>1, Invariance, PTL

\* The specifications stored for a file come from all of its bytes unless the
\* bitcode server has crashed, threads have raced or the file has changed
\* (get_specifications_uri, GetSpecificationsTask, DownloadBitcode).
THEOREM StoredSpecificationsAreOfFile == Spec => []StoredAreOfFile
<1>1. IInv => StoredAreOfFile
  BY DEF IInv
<1> QED BY <1>1, Invariance, PTL

\* The do-while loop of DownloadBitcode sends the whole file, for every
\* length and chunk size.
THEOREM DownloadsAreWhole == Spec => []DownloadsWhole
<1>1. IInv => DownloadsWhole
  BY DEF IInv
<1> QED BY <1>1, Invariance, PTL

\* abort() in GetSpecificationsTask is called only because of a file that is
\* no IR or of a crash of the bitcode server.
THEOREM ServerAbortsForAReason == Spec => []ServerSurvives
<1>1. IInv => ServerSurvives
  BY DEF IInv
<1> QED BY <1>1, Invariance, PTL

\* A handle stands for the content that its URI has had, and a client's
\* handle is known to a bitcode server that has neither crashed nor raced.
THEOREM HandlesAlwaysResolve == Spec => []HandlesResolve
<1>1. IInv => HandlesResolve
  BY DEF IInv
<1> QED BY <1>1, Invariance, PTL

\* insert_bitcode records a URI twice only if two clients have overlapped.
THEOREM UrisAreRecordedOnce == Spec => []UriRecordedOnce
<1>1. IInv => UriRecordedOnce
  BY DEF IInv
<1> QED BY <1>1, Invariance, PTL

\* get_specifications_uri ends well only with specifications stored, or with
\* another command having deleted them to replace them.
THEOREM DoneCommandsHaveStored == Spec => []DoneMeansStored
<1>1. IInv => DoneMeansStored
  BY DEF IInv
<1> QED BY <1>1, Invariance, PTL

-----------------------------------------------------------------------------
(* Sets of positions have a first and a last element.                      *)

LEMMA Least ==
  ASSUME NEW T \in SUBSET Nat, T # {}
  PROVE  \E x \in T : \A y \in T : x <= y
<1> DEFINE R == {p \in Nat \X Nat : p[1] < p[2]}
<1>1. OpToRel(<, Nat) = R
  BY DEF OpToRel
<1>2. IsWellFoundedOn(R, Nat)
  BY <1>1, NatLessThanWellFounded
<1> HIDE DEF R
<1>3. PICK x \in T : \A y \in T : ~ (<<y, x>> \in R)
  BY <1>2, WFMin
<1>4. ASSUME NEW y \in T PROVE x <= y
  <2>1. x \in Nat /\ y \in Nat
    OBVIOUS
  <2>2. ~ (y < x)
    BY <1>3, <2>1 DEF R
  <2> QED
    BY <2>1, <2>2
<1> QED
  BY <1>4

LEMMA Greatest ==
  ASSUME NEW n \in Nat, NEW T \in SUBSET (1..n), T # {}
  PROVE  \E x \in T : \A y \in T : x >= y
<1> DEFINE U == {n - k : k \in T}
<1>1. U \in SUBSET Nat /\ U # {}
  <2>1. \A k \in T : n - k \in Nat
    OBVIOUS
  <2> QED
    BY <2>1
<1>2. PICK u \in U : \A v \in U : u <= v
  BY <1>1, Least
<1>3. PICK x \in T : u = n - x
  BY <1>2
<1>4. ASSUME NEW y \in T PROVE x >= y
  <2>1. n - y \in U
    OBVIOUS
  <2>2. n - x <= n - y
    BY <1>2, <1>3, <2>1
  <2>3. n \in Nat /\ x \in Nat /\ y \in Nat
    OBVIOUS
  <2> HIDE DEF U
  <2> QED
    BY <2>2, <2>3
<1> QED
  BY <1>4

LEMMA MinMax ==
  ASSUME NEW n \in Nat, NEW T \in SUBSET (1..n), T # {}
  PROVE  Min(T) \in T /\ Max(T) \in T
<1>1. \E x \in T : \A y \in T : x <= y
  BY Least
<1>2. \E x \in T : \A y \in T : x >= y
  BY Greatest
<1> QED
  BY <1>1, <1>2 DEF Min, Max

-----------------------------------------------------------------------------
(* The invariant.                                                          *)

Tags == [name : STRING, header : BOOLEAN, line : Nat]

Specs == UNION {[N -> {"lt", "gt", "eq"}] : N \in SUBSET STRING}

Stages == Reading \union
  {"none", "check", "reset", "find", "complete", "answered", "not found", "failed"}

Requests ==
  [at : Stages, name : STRING \union {""}, tags : STRING \union {""}, k : Nat,
   found : Seq(Tags), beside : BOOLEAN, prompt : {1, 2}, tries : Nat,
   first : Specs, specifications : Specs]

\* A request is under way only if its task waits for it, or died with the
\* server.
FreshOK(r) ==
  eesiUp /\ task[r] \in {"none", "queued", "downloading", "thirdparty"} => gpt[r].at = "none"

TagCount(t) == Len(TagFiles[t])

\* Where a reader is in its file.
ReaderOK(r) ==
  /\ gpt[r].at \in Reading =>
       /\ gpt[r].tags \in DOMAIN TagFiles /\ gpt[r].tags \in DOMAIN ctags
       /\ gpt[r].k \in 1..(TagCount(gpt[r].tags) + 1)
  /\ gpt[r].at \in {"indexing", "storing"} => gpt[r].k <= TagCount(gpt[r].tags)
  /\ gpt[r].at = "find" => gpt[r].tags \in DOMAIN ctags /\ Len(gpt[r].found) <= 2

\* What the dictionary of t says of a name, the file says.
EntriesOK(t) ==
  \A n \in DOMAIN ctags[t] : \E k \in TagsOf(t, n) : ctags[t][n] = TagFiles[t][k]

\* No name that the reader has come by is missing.
Ahead(r) ==
  LET t == gpt[r].tags
  IN \A k \in DOMAIN TagFiles[t] :
       k < gpt[r].k \/ (k = gpt[r].k /\ gpt[r].at = "indexing") =>
         TagFiles[t][k].name \in DOMAIN ctags[t]

Complete(t) == \A k \in DOMAIN TagFiles[t] : TagFiles[t][k].name \in DOMAIN ctags[t]

\* A name is missing only while somebody reads who has missed none so far.
CoverOK(t) ==
  t \in DOMAIN TagFiles => Complete(t) \/ \E r \in ReadingTags(t) : Ahead(r)

\* e is the tag of n that counts among the first m.
Best(t, m, n, e) ==
  \E j \in TagsOf(t, n) :
    /\ j <= m /\ e = TagFiles[t][j]
    /\ \A i \in TagsOf(t, n) :
         i <= m => IF e.header THEN TagFiles[t][i].header /\ i <= j
                   ELSE TagFiles[t][i].header \/ j <= i

\* What a reader that is alone knows: the tags that count so far, and that a
\* tag it is about to replace is in a header.
Knows(r) ==
  LET t == gpt[r].tags
  IN /\ Ahead(r)
     /\ \A n \in DOMAIN ctags[t] : Best(t, gpt[r].k - 1, n, ctags[t][n])
     /\ gpt[r].at = "storing" /\ Tag(r).name \in DOMAIN ctags[t] =>
          ctags[t][Tag(r).name].header

AloneOK(t) ==
  t \notin mixed =>
    /\ \A r, s \in ReadingTags(t) : r = s
    /\ ReadingTags(t) = {} => \A n \in DOMAIN ctags[t] : Best(t, TagCount(t), n, ctags[t][n])
    /\ \A r \in ReadingTags(t) : Knows(r)

FileOK(t) == EntriesOK(t) /\ CoverOK(t) /\ AloneOK(t)

\* A tag found for the name n.
Found(t, n, e) ==
  /\ \E k \in TagsOf(t, n) : e = TagFiles[t][k]
  /\ t \notin mixed => e = TagOf(t, n)

\* What request g has found.
FoundBy(g) ==
  g.name # "" /\ ~g.beside =>
    /\ g.at \in {"find", "complete"} /\ g.prompt = 1 =>
         \A i \in 1..Len(g.found) : Found(g.tags, g.name, g.found[i])
    /\ g.at = "complete" /\ g.prompt = 1 => Len(g.found) = 3
    /\ g.at = "not found" => TagsOf(g.tags, g.name) = {}

FoundOK(r) == FoundBy(gpt[r])

\* Before the file has been read nothing was found.
StartOK(r) ==
  /\ gpt[r].at \in Reading \union {"check", "reset"} => gpt[r].found = <<>> /\ ~gpt[r].beside
  /\ gpt[r].at \in Reading \union {"check", "reset", "find"} => gpt[r].prompt = 1

KeptOK(r) ==
  /\ gpt[r].name = "" => DOMAIN gpt[r].first = {}
  /\ \A n \in DOMAIN gpt[r].first :
       n \in DOMAIN gpt[r].specifications /\ gpt[r].specifications[n] = gpt[r].first[n]

\* What holds of each request, and of the dictionaries.
OwnOK(r) == ReaderOK(r) /\ StartOK(r) /\ FoundOK(r) /\ KeptOK(r)

SharedOK == \A t \in DOMAIN ctags : FileOK(t)

GptInv ==
  /\ gpt \in [Clients -> Requests]
  /\ \A r \in Clients : FreshOK(r) /\ OwnOK(r)
  /\ SharedOK

-----------------------------------------------------------------------------
(* The tag that counts.                                                    *)

\* What a file says of its tags.
LEMMA TagTypes ==
  ASSUME NEW t \in DOMAIN TagFiles
  PROVE  /\ TagCount(t) \in Nat
         /\ DOMAIN TagFiles[t] = 1..TagCount(t)
         /\ \A k \in 1..TagCount(t) : TagFiles[t][k] \in Tags
         /\ \A n : TagsOf(t, n) = {k \in 1..TagCount(t) : TagFiles[t][k].name = n}
<1>1. TagFiles[t] \in Seq(Tags)
  BY TagsAssumption DEF Tags
<1> QED
  BY <1>1 DEF TagCount, TagsOf

\* The minimum and the maximum are what they are defined to be.
LEMMA MinIs ==
  ASSUME NEW T \in SUBSET Nat, NEW j \in T, \A i \in T : j <= i
  PROVE  Min(T) = j
<1>1. \A x \in T : (\A i \in T : x <= i) => x = j
  OBVIOUS
<1> QED
  BY <1>1 DEF Min

LEMMA MaxIs ==
  ASSUME NEW T \in SUBSET Nat, NEW j \in T, \A i \in T : j >= i
  PROVE  Max(T) = j
<1>1. \A x \in T : (\A i \in T : x >= i) => x = j
  OBVIOUS
<1> QED
  BY <1>1 DEF Max

\* The tag that counts when the whole file has been read is that of the file.
LEMMA BestIsTagOf ==
  ASSUME NEW t \in DOMAIN TagFiles, NEW n, NEW e, Best(t, TagCount(t), n, e)
  PROVE  e = TagOf(t, n)
<1>0. PICK j \in TagsOf(t, n) :
        /\ e = TagFiles[t][j]
        /\ \A i \in TagsOf(t, n) :
             i <= TagCount(t) => IF e.header THEN TagFiles[t][i].header /\ i <= j
                                 ELSE TagFiles[t][i].header \/ j <= i
  BY DEF Best
<1>1. /\ TagsOf(t, n) \in SUBSET Nat /\ Sources(t, n) \in SUBSET Nat
      /\ \A i \in TagsOf(t, n) : i <= TagCount(t)
  BY TagTypes DEF Sources
<1>2. CASE e.header
  <2>1. Sources(t, n) = {}
    BY <1>0, <1>1, <1>2 DEF Sources
  <2>2. Max(TagsOf(t, n)) = j
    <3>1. \A i \in TagsOf(t, n) : j >= i
      BY <1>0, <1>1, <1>2
    <3> QED
      BY <1>1, <3>1, MaxIs
  <2> QED
    BY <1>0, <2>1, <2>2 DEF TagOf
<1>3. CASE ~e.header
  <2>1. j \in Sources(t, n)
    BY <1>0, <1>3 DEF Sources
  <2>2. Min(Sources(t, n)) = j
    <3>1. \A i \in Sources(t, n) : j <= i
      BY <1>0, <1>1, <1>3 DEF Sources
    <3> QED
      BY <1>1, <2>1, <3>1, MinIs
  <2> QED
    BY <1>0, <2>1, <2>2 DEF TagOf
<1> QED
  BY <1>2, <1>3

\* A tag with another name, or one in a source file that comes later, does
\* not count for more.
LEMMA BestNext ==
  ASSUME NEW t \in DOMAIN TagFiles, NEW k \in 1..TagCount(t), NEW n, NEW e,
         Best(t, k - 1, n, e), TagFiles[t][k].name = n => ~e.header
  PROVE  Best(t, k, n, e)
<1>1. PICK j \in TagsOf(t, n) :
        /\ j <= k - 1 /\ e = TagFiles[t][j]
        /\ \A i \in TagsOf(t, n) :
             i <= k - 1 => IF e.header THEN TagFiles[t][i].header /\ i <= j
                           ELSE TagFiles[t][i].header \/ j <= i
  BY DEF Best
<1>2. TagCount(t) \in Nat /\ TagsOf(t, n) \subseteq {i \in 1..TagCount(t) : TagFiles[t][i].name = n}
  BY TagTypes
<1>3. ASSUME NEW i \in TagsOf(t, n), i <= k
      PROVE  IF e.header THEN TagFiles[t][i].header /\ i <= j
             ELSE TagFiles[t][i].header \/ j <= i
  <2>1. i \in Nat /\ j \in Nat
    BY <1>2
  <2>2. CASE i = k
    <3>1. ~e.header /\ j <= i
      BY <1>1, <1>2, <2>1, <2>2
    <3> QED
      BY <3>1
  <2>3. CASE i # k
    BY <1>1, <1>3, <2>1, <2>3
  <2> QED
    BY <2>2, <2>3
<1>4. j <= k
  BY <1>1, <1>2
<1> QED
  BY <1>1, <1>3, <1>4 DEF Best

\* The next tag counts if there was none with its name, or only in headers.
LEMMA BestStored ==
  ASSUME NEW t \in DOMAIN TagFiles, NEW k \in 1..TagCount(t),
         \A i \in TagsOf(t, TagFiles[t][k].name) : i < k => TagFiles[t][i].header
  PROVE  Best(t, k, TagFiles[t][k].name, TagFiles[t][k])
<1> DEFINE n == TagFiles[t][k].name
           e == TagFiles[t][k]
<1>1. TagCount(t) \in Nat /\ TagsOf(t, n) = {i \in 1..TagCount(t) : TagFiles[t][i].name = n}
  BY TagTypes
<1>2. k \in TagsOf(t, n) /\ k <= k
  BY <1>1
<1>3. ASSUME NEW i \in TagsOf(t, n), i <= k
      PROVE  IF e.header THEN TagFiles[t][i].header /\ i <= k
             ELSE TagFiles[t][i].header \/ k <= i
  <2>1. i \in Nat
    BY <1>1
  <2>2. CASE i = k
    BY <2>2
  <2>3. CASE i # k
    BY <1>3, <2>1, <2>3
  <2> QED
    BY <2>2, <2>3
<1> QED
  BY <1>2, <1>3 DEF Best

-----------------------------------------------------------------------------
(* What a step leaves alone.                                               *)

\* What was found stays found.
LEMMA FoundKept ==
  ASSUME NEW g, FoundBy(g), mixed \subseteq mixed'
  PROVE  FoundBy(g)'
<1>1. \A t, n, e : Found(t, n, e) => Found(t, n, e)'
  BY DEF Found
<1> QED
  BY <1>1 DEF FoundBy

\* The requests of the others keep what holds of them while dictionaries
\* only grow in number and files that were read by two stay so.
LEMMA OthersKept ==
  ASSUME NEW s \in Clients, gpt[s] \in Requests, OwnOK(s), gpt'[s] = gpt[s],
         DOMAIN ctags \subseteq DOMAIN ctags', mixed \subseteq mixed'
  PROVE  OwnOK(s)'
<1>1. ReaderOK(s)'
  BY DEF OwnOK, ReaderOK, TagCount
<1>2. StartOK(s)' /\ KeptOK(s)'
  BY DEF OwnOK, StartOK, KeptOK
<1>3. FoundOK(s)'
  BY FoundKept DEF FoundOK, OwnOK
<1> QED
  BY <1>1, <1>2, <1>3 DEF OwnOK

\* The request of one client changes.
Moves(r) == \A s \in Clients : s # r => gpt'[s] = gpt[s]

\* A dictionary that no step touches, and whose readers are the same ones.
LEMMA FileKept ==
  ASSUME NEW t, FileOK(t), ctags'[t] = ctags[t], t \in mixed' <=> t \in mixed,
         NEW r \in Clients, Moves(r),
         gpt[r].tags = t => gpt[r].at \notin Reading,
         gpt'[r].tags = t => gpt'[r].at \notin Reading
  PROVE  FileOK(t)'
<1>1. ReadingTags(t)' = ReadingTags(t)
  BY ClientsAssumption DEF ReadingTags, Moves
<1>2. \A s \in ReadingTags(t) : gpt'[s] = gpt[s] /\ gpt[s].tags = t
  BY ClientsAssumption DEF ReadingTags, Moves
<1>3. EntriesOK(t)'
  BY DEF FileOK, EntriesOK
<1>4. \A s \in ReadingTags(t) : Ahead(s) => Ahead(s)'
  BY <1>2 DEF Ahead
<1>5. CoverOK(t)'
  BY <1>1, <1>4, SMTT(30) DEF FileOK, CoverOK, Complete
<1>6. \A s \in ReadingTags(t) : Knows(s) => Knows(s)'
  BY <1>2, <1>4 DEF Knows, Tag
<1>7. AloneOK(t)'
  BY <1>1, <1>6 DEF FileOK, AloneOK
<1> QED
  BY <1>3, <1>5, <1>7 DEF FileOK

\* One that reads no file before or after leaves the dictionaries as they are.
LEMMA OutsideShared ==
  ASSUME SharedOK, NEW r \in Clients, Moves(r), UNCHANGED <<ctags, mixed>>,
         gpt[r].at \notin Reading, gpt'[r].at \notin Reading
  PROVE  SharedOK'
BY FileKept DEF SharedOK

-----------------------------------------------------------------------------
(* Steps of a request that reads no file.                                  *)

\* What a step of r shows: the rest follows from OthersKept.
StepOK(r) ==
  /\ Moves(r) /\ gpt' \in [Clients -> Requests] /\ OwnOK(r)'
  /\ DOMAIN ctags \subseteq DOMAIN ctags' /\ mixed \subseteq mixed'
  /\ SharedOK'

LEMMA OutsideStep ==
  ASSUME GptInv, NEW r \in Clients, NEW g \in Requests, gpt' = [gpt EXCEPT ![r] = g],
         UNCHANGED <<ctags, mixed>>, OwnOK(r)',
         gpt[r].at \notin Reading, g.at \notin Reading
  PROVE  StepOK(r)
<1>1. gpt \in [Clients -> Requests]
  BY DEF GptInv
<1>2. Moves(r) /\ gpt' \in [Clients -> Requests] /\ gpt'[r] = g
  BY <1>1 DEF Moves
<1>3. SharedOK'
  BY <1>2, OutsideShared DEF GptInv
<1> QED
  BY <1>2, <1>3 DEF StepOK

\* The file has been read, or is to be read.
LEMMA CheckCacheKeeps ==
  ASSUME GptInv, NEW r \in Clients, CheckCache(r)
  PROVE  StepOK(r)
<1> DEFINE p == IF gpt[r].tags \in DOMAIN ctags THEN "find" ELSE "reset"
           g == [gpt[r] EXCEPT !.at = p]
<1>1. gpt \in [Clients -> Requests] /\ gpt[r] \in Requests /\ gpt[r].at = "check" /\ OwnOK(r)
  BY DEF GptInv, CheckCache, Asks
<1>2. g \in Requests /\ gpt' = [gpt EXCEPT ![r] = g] /\ UNCHANGED <<ctags, mixed>> /\ gpt'[r] = g
  <2>1. g \in Requests
    BY <1>1 DEF Requests, Stages, Reading
  <2>2. gpt' = [gpt EXCEPT ![r] = g] /\ UNCHANGED <<ctags, mixed>>
    BY DEF CheckCache
  <2> QED
    BY <1>1, <2>1, <2>2
<1>3. /\ g.at = p /\ g.found = <<>> /\ ~g.beside /\ g.prompt = 1 /\ g.tags = gpt[r].tags
      /\ g.name = gpt[r].name /\ g.first = gpt[r].first /\ g.specifications = gpt[r].specifications
  BY <1>1 DEF OwnOK, StartOK, Requests
<1> HIDE DEF g
<1>4. OwnOK(r)'
  <2>1. ReaderOK(r)'
    BY <1>2, <1>3 DEF ReaderOK, Reading
  <2>2. StartOK(r)'
    BY <1>2, <1>3 DEF StartOK, Reading
  <2>3. FoundOK(r)'
    <3>1. 1..Len(g.found) = {}
      BY <1>3
    <3>2. FoundBy(g)
      BY <1>3, <3>1 DEF FoundBy
    <3> QED
      BY <1>2, <3>2, FoundKept DEF FoundOK
  <2>4. KeptOK(r)'
    BY <1>1, <1>2, <1>3 DEF OwnOK, KeptOK
  <2> QED
    BY <2>1, <2>2, <2>3, <2>4 DEF OwnOK
<1> QED
  BY <1>1, <1>2, <1>3, <1>4, OutsideStep DEF Reading

\* A dictionary that nobody is reading has every name of its file, and says
\* of each what the file says.
LEMMA NotFoundKeeps ==
  ASSUME GptInv, NEW r \in Clients, NotFound(r)
  PROVE  StepOK(r)
<1> DEFINE t == gpt[r].tags
           b == gpt[r].beside \/ ReadingTags(t) # {}
           g == [gpt[r] EXCEPT !.at = "not found", !.beside = b]
<1>1. gpt \in [Clients -> Requests] /\ gpt[r] \in Requests /\ gpt[r].at = "find" /\ OwnOK(r)
  BY DEF GptInv, NotFound, Asks
<1>2. b \in BOOLEAN
  BY <1>1 DEF Requests
<1>3. g \in Requests /\ gpt' = [gpt EXCEPT ![r] = g] /\ UNCHANGED <<ctags, mixed>> /\ gpt'[r] = g
  <2>1. g \in Requests
    BY <1>1, <1>2 DEF Requests, Stages, Reading
  <2>2. gpt' = [gpt EXCEPT ![r] = g] /\ UNCHANGED <<ctags, mixed>>
    BY DEF NotFound
  <2> QED
    BY <1>1, <2>1, <2>2
<1>4. /\ g.at = "not found" /\ g.beside = b /\ g.prompt = 1 /\ g.tags = gpt[r].tags
      /\ g.name = gpt[r].name /\ g.first = gpt[r].first /\ g.specifications = gpt[r].specifications
  BY <1>1 DEF OwnOK, StartOK, Requests
<1>5. ~b => TagsOf(t, gpt[r].name) = {}
  <2> SUFFICES ASSUME ~b PROVE TagsOf(t, gpt[r].name) = {}
    OBVIOUS
  <2>1. t \in DOMAIN ctags /\ gpt[r].name \notin DOMAIN ctags[t]
    BY <1>1 DEF OwnOK, ReaderOK, NotFound
  <2>2. CASE t \in DOMAIN TagFiles
    <3>1. \A k \in DOMAIN TagFiles[t] : TagFiles[t][k].name \in DOMAIN ctags[t]
      BY <2>1, <2>2 DEF GptInv, SharedOK, FileOK, CoverOK, Complete
    <3> QED
      BY <2>1, <3>1 DEF TagsOf
  <2>3. CASE t \notin DOMAIN TagFiles
    BY <2>3 DEF TagsOf
  <2> QED
    BY <2>2, <2>3
<1> HIDE DEF g, b
<1>6. OwnOK(r)'
  <2>1. ReaderOK(r)' /\ StartOK(r)'
    BY <1>3, <1>4 DEF ReaderOK, StartOK, Reading
  <2>2. FoundOK(r)'
    <3>1. FoundBy(g)
      BY <1>4, <1>5 DEF FoundBy
    <3> QED
      BY <1>3, <3>1, FoundKept DEF FoundOK
  <2>3. KeptOK(r)'
    BY <1>1, <1>3, <1>4 DEF OwnOK, KeptOK
  <2> QED
    BY <2>1, <2>2, <2>3 DEF OwnOK
<1> QED
  BY <1>1, <1>3, <1>4, <1>6, OutsideStep DEF Reading

LEMMA FindDefinitionKeeps ==
  ASSUME GptInv, NEW r \in Clients, FindDefinition(r)
  PROVE  StepOK(r)
<1> DEFINE t == gpt[r].tags
           e == ctags[t][gpt[r].name]
           p == IF Len(gpt[r].found) < 2 THEN "find" ELSE "complete"
           b == gpt[r].beside \/ ReadingTags(t) # {}
           f == Append(gpt[r].found, e)
           g == [gpt[r] EXCEPT !.at = p, !.found = f, !.beside = b]
<1>1. gpt \in [Clients -> Requests] /\ gpt[r] \in Requests /\ gpt[r].at = "find" /\ OwnOK(r)
  BY DEF GptInv, FindDefinition, Asks
<1>2. /\ b \in BOOLEAN /\ gpt[r].found \in Seq(Tags) /\ Len(gpt[r].found) <= 2
      /\ t \in DOMAIN ctags /\ gpt[r].name \in DOMAIN ctags[t]
  BY <1>1 DEF Requests, OwnOK, ReaderOK, FindDefinition
<1>3. PICK k \in TagsOf(t, gpt[r].name) : e = TagFiles[t][k]
  BY <1>2 DEF GptInv, SharedOK, FileOK, EntriesOK
<1>4. t \in DOMAIN TagFiles /\ e \in Tags
  BY <1>3, TagTypes DEF TagsOf
<1>5. f \in Seq(Tags) /\ Len(f) = Len(gpt[r].found) + 1
      /\ \A i \in 1..Len(f) : f[i] = IF i = Len(f) THEN e ELSE gpt[r].found[i]
  <2> HIDE DEF e
  <2> QED
    BY <1>2, <1>4
<1>6. g \in Requests /\ gpt' = [gpt EXCEPT ![r] = g] /\ UNCHANGED <<ctags, mixed>> /\ gpt'[r] = g
  <2>1. g \in Requests
    BY <1>1, <1>2, <1>5 DEF Requests, Stages, Reading
  <2>2. gpt' = [gpt EXCEPT ![r] = g] /\ UNCHANGED <<ctags, mixed>>
    BY DEF FindDefinition
  <2> QED
    BY <1>1, <2>1, <2>2
<1>7. /\ g.at = p /\ g.found = f /\ g.beside = b /\ g.prompt = 1 /\ g.tags = gpt[r].tags
      /\ g.name = gpt[r].name /\ g.first = gpt[r].first /\ g.specifications = gpt[r].specifications
  BY <1>1 DEF OwnOK, StartOK, Requests
<1>8. ~b /\ t \notin mixed => e = TagOf(t, gpt[r].name)
  <2> SUFFICES ASSUME ~b, t \notin mixed PROVE e = TagOf(t, gpt[r].name)
    OBVIOUS
  <2>1. Best(t, TagCount(t), gpt[r].name, e)
    BY <1>2 DEF GptInv, SharedOK, FileOK, AloneOK
  <2> QED
    BY <1>4, <2>1, BestIsTagOf
<1>9. ~b => Found(t, gpt[r].name, e)
  BY <1>3, <1>8 DEF Found
<1> HIDE DEF g, b, e, f
<1>10. ASSUME gpt[r].name # "", ~b, NEW i \in 1..Len(f)
       PROVE  Found(t, gpt[r].name, f[i])
  <2>1. ~gpt[r].beside
    BY <1>10 DEF b
  <2>2. CASE i = Len(f)
    BY <1>5, <1>9, <1>10, <2>2
  <2>3. CASE i # Len(f)
    <3>1. i \in 1..Len(gpt[r].found) /\ f[i] = gpt[r].found[i]
      BY <1>5, <1>2, <2>3
    <3>2. gpt[r].prompt = 1 /\ FoundBy(gpt[r])
      BY <1>1 DEF OwnOK, StartOK, FoundOK
    <3> QED
      BY <1>1, <1>10, <2>1, <3>1, <3>2 DEF FoundBy
  <2> QED
    BY <2>2, <2>3
<1>11. g.at = "complete" => Len(g.found) = 3
  <2>1. Len(gpt[r].found) \in Nat
    BY <1>2
  <2>2. Len(f) = Len(gpt[r].found) + 1 /\ Len(gpt[r].found) <= 2
    BY <1>2, <1>5
  <2>3. g.at = "complete" => ~ (Len(gpt[r].found) < 2)
    BY <1>7
  <2>4. g.found = f
    BY <1>7
  <2>5. g.at = "complete" => Len(f) = 3
    BY <2>1, <2>2, <2>3
  <2> QED
    BY <2>4, <2>5
<1>12. FoundOK(r)'
  <2>1. FoundBy(g)
    BY <1>7, <1>10, <1>11 DEF FoundBy
  <2> QED
    BY <1>6, <2>1, FoundKept DEF FoundOK
<1>13. ReaderOK(r)'
  BY <1>2, <1>5, <1>6, <1>7 DEF ReaderOK, Reading
<1>14. StartOK(r)' /\ KeptOK(r)'
  BY <1>1, <1>6, <1>7 DEF StartOK, KeptOK, OwnOK, Reading
<1> QED
  BY <1>1, <1>6, <1>7, <1>12, <1>13, <1>14, OutsideStep DEF Reading, OwnOK

-----------------------------------------------------------------------------
(* Replies.                                                                *)

\* The lines of a reply about a name, in order.
LEMMA LinesTyped ==
  ASSUME NEW reply \in Replies, NEW texts
  PROVE  /\ NamesIn(reply, texts) \subseteq STRING
         /\ \A n \in NamesIn(reply, texts) :
              /\ Min(LinesOn(reply, texts, n)) \in LinesOn(reply, texts, n)
              /\ Max(LinesOn(reply, texts, n)) \in LinesOn(reply, texts, n)
<1> DEFINE L == [name : STRING, text : {"lt", "gt", "bottom", "null", "other"}]
<1>1. reply \in Seq(L)
  BY RepliesAssumption
<1>2. Len(reply) \in Nat /\ DOMAIN reply = 1..Len(reply) /\ \A k \in DOMAIN reply : reply[k] \in L
  <2> HIDE DEF L
  <2> QED
    BY <1>1
<1>3. NamesIn(reply, texts) \subseteq STRING
  BY <1>2 DEF NamesIn, Lines
<1>4. ASSUME NEW n \in NamesIn(reply, texts)
      PROVE  LinesOn(reply, texts, n) \in SUBSET (1..Len(reply)) /\ LinesOn(reply, texts, n) # {}
  BY <1>2, <1>4 DEF NamesIn, LinesOn, Lines
<1> QED
  BY <1>2, <1>3, <1>4, MinMax

\* No empty mapping says anything.
LEMMA NoSpecs == <<>> \in Specs /\ DOMAIN <<>> = {}
<1>1. DOMAIN <<>> = {}
  OBVIOUS
<1>2. <<>> \in [{} -> {"lt", "gt", "eq"}]
  OBVIOUS
<1> QED
  BY <1>1, <1>2 DEF Specs

\* Whatever the model replies, what is taken from it are signs of names.
LEMMA FirstTyped ==
  ASSUME NEW reply \in Replies
  PROVE  FirstSpecifications(reply) \in Specs
<1> DEFINE known == {"lt", "gt"}
           N == NamesIn(reply, known)
           F == [n \in N |-> reply[Max(LinesOn(reply, known, n))].text]
<1>1. \A n \in N : reply[Max(LinesOn(reply, known, n))].text \in known
  BY LinesTyped DEF LinesOn, Lines
<1>2. F \in [N -> {"lt", "gt", "eq"}] /\ N \in SUBSET STRING
  <2>1. N \in SUBSET STRING
    BY LinesTyped
  <2> HIDE DEF N
  <2> QED
    BY <1>1, <2>1
<1> QED
  BY <1>2 DEF FirstSpecifications, Specs

LEMMA SecondTyped ==
  ASSUME NEW specs \in Specs, NEW reply \in Replies
  PROVE  /\ SecondSpecifications(specs, reply) \in Specs
         /\ \A n \in DOMAIN specs : /\ n \in DOMAIN SecondSpecifications(specs, reply)
                                    /\ SecondSpecifications(specs, reply)[n] = specs[n]
<1> DEFINE known == {"lt", "gt", "null"}
           N == NamesIn(reply, known)
           line(n) == reply[Min(LinesOn(reply, known, n))].text
           M == DOMAIN specs \union N
           F == [n \in M |-> IF n \in DOMAIN specs THEN specs[n] ELSE Translated(line(n))]
<1>1. \A n \in N : line(n) \in known
  BY LinesTyped DEF LinesOn, Lines
<1>2. \A n \in N : Translated(line(n)) \in {"lt", "gt", "eq"}
  <2> HIDE DEF line, N
  <2> QED
    BY <1>1 DEF Translated
<1>3. DOMAIN specs \in SUBSET STRING /\ \A n \in DOMAIN specs : specs[n] \in {"lt", "gt", "eq"}
  BY DEF Specs
<1>4. N \in SUBSET STRING
  BY LinesTyped
<1>5. SecondSpecifications(specs, reply) = F
  BY DEF SecondSpecifications
<1>6. F \in [M -> {"lt", "gt", "eq"}]
  <2> HIDE DEF line, N
  <2> QED
    BY <1>2, <1>3
<1>7. M \in SUBSET STRING
  <2> HIDE DEF N
  <2> QED
    BY <1>3, <1>4
<1> QED
  <2>1. F \in Specs
    BY <1>6, <1>7 DEF Specs
  <2> QED
    BY <1>5, <2>1

LEMMA FailCompletionKeeps ==
  ASSUME GptInv, NEW r \in Clients, FailCompletion(r)
  PROVE  StepOK(r)
<1> DEFINE p == IF gpt[r].tries + 1 < Attempts THEN "complete" ELSE "failed"
           g == [gpt[r] EXCEPT !.tries = gpt[r].tries + 1, !.at = p]
<1>1. gpt \in [Clients -> Requests] /\ gpt[r] \in Requests /\ gpt[r].at = "complete" /\ OwnOK(r)
  BY DEF GptInv, FailCompletion, Asks
<1>2. g \in Requests /\ gpt' = [gpt EXCEPT ![r] = g] /\ UNCHANGED <<ctags, mixed>> /\ gpt'[r] = g
  <2>1. g \in Requests
    <3>1. p \in {"complete", "failed"}
      OBVIOUS
    <3> HIDE DEF p
    <3>2. gpt[r].tries \in Nat
      BY <1>1, Zenon DEF Requests
    <3>3. gpt[r].tries + 1 \in Nat
      BY <3>2
    <3> QED
      BY <1>1, <3>1, <3>3 DEF Requests, Stages, Reading
  <2>2. gpt' = [gpt EXCEPT ![r] = g] /\ UNCHANGED <<ctags, mixed>>
    BY <1>1 DEF FailCompletion
  <2> QED
    BY <1>1, <2>1, <2>2
<1>3. /\ g.at = p /\ g.found = gpt[r].found /\ g.beside = gpt[r].beside /\ g.prompt = gpt[r].prompt
      /\ g.tags = gpt[r].tags /\ g.name = gpt[r].name
      /\ g.first = gpt[r].first /\ g.specifications = gpt[r].specifications
  BY <1>1 DEF Requests
<1> HIDE DEF g
<1>4. ReaderOK(r)' /\ StartOK(r)'
  BY <1>2, <1>3 DEF ReaderOK, StartOK, Reading
<1>5. FoundOK(r)'
  <2>1. FoundBy(gpt[r])
    BY <1>1 DEF OwnOK, FoundOK
  <2>2. FoundBy(g)
    BY <1>1, <1>3, <2>1 DEF FoundBy
  <2> QED
    BY <1>2, <2>2, FoundKept DEF FoundOK
<1>6. KeptOK(r)'
  BY <1>1, <1>2, <1>3 DEF OwnOK, KeptOK
<1> QED
  BY <1>1, <1>2, <1>3, <1>4, <1>5, <1>6, OutsideStep DEF OwnOK, Reading

LEMMA FirstReplyKeeps ==
  ASSUME GptInv, NEW r \in Clients, NEW reply \in Replies, FirstReply(r, reply)
  PROVE  StepOK(r)
<1> DEFINE again == gpt[r].name = "" \/ AsksAgain(r, reply)
           specs == IF gpt[r].name = "" THEN <<>> ELSE FirstSpecifications(reply)
           p == IF again THEN "complete" ELSE "answered"
           g == [gpt[r] EXCEPT !.at = p, !.prompt = 2, !.tries = 0, !.k = 0, !.found = <<>>,
                               !.beside = FALSE, !.first = specs, !.specifications = specs]
<1>1. gpt \in [Clients -> Requests] /\ gpt[r] \in Requests /\ gpt[r].at = "complete"
  BY DEF GptInv, FirstReply, Asks
<1>2. specs \in Specs /\ (gpt[r].name = "" => DOMAIN specs = {})
  BY FirstTyped, NoSpecs
<1>3. p \in {"complete", "answered"}
  BY SMTT(30)
<1>4. gpt' = [gpt EXCEPT ![r] = g] /\ UNCHANGED <<ctags, mixed>>
  BY DEF FirstReply
<1> HIDE DEF specs, p
<1>5. g \in Requests
  <2>1. <<>> \in Seq(Tags)
    OBVIOUS
  <2> QED
    BY <1>1, <1>2, <1>3, <2>1 DEF Requests, Stages, Reading
<1>6. gpt'[r] = g
  BY <1>1, <1>4
<1>7. /\ g.at = p /\ g.prompt = 2 /\ g.name = gpt[r].name
      /\ g.first = specs /\ g.specifications = specs
  BY <1>1 DEF Requests
<1> HIDE DEF g
<1>8. ReaderOK(r)' /\ StartOK(r)'
  BY <1>3, <1>6, <1>7 DEF ReaderOK, StartOK, Reading
<1>9. FoundOK(r)'
  <2>1. g.at # "not found"
    <3>1. p # "not found"
      BY <1>3
    <3> QED
      BY <1>7, <3>1
  <2>2. g.prompt # 1
    BY <1>7
  <2>3. FoundBy(g)
    BY <2>1, <2>2 DEF FoundBy
  <2> QED
    BY <1>4, <1>6, <2>3, FoundKept DEF FoundOK
<1>10. KeptOK(r)'
  BY <1>2, <1>6, <1>7 DEF KeptOK
<1> QED
  BY <1>1, <1>3, <1>4, <1>5, <1>7, <1>8, <1>9, <1>10, OutsideStep DEF OwnOK, Reading

\* The second reply adds to the first.
LEMMA SecondReplyKeeps ==
  ASSUME GptInv, NEW r \in Clients, NEW reply \in Replies, SecondReply(r, reply)
  PROVE  StepOK(r)
<1> DEFINE specs == IF gpt[r].name = "" THEN FirstSpecifications(reply)
                    ELSE SecondSpecifications(gpt[r].specifications, reply)
           g == [gpt[r] EXCEPT !.at = "answered", !.specifications = specs]
<1>1. gpt \in [Clients -> Requests] /\ gpt[r] \in Requests /\ gpt[r].at = "complete" /\ OwnOK(r)
  BY DEF GptInv, SecondReply, Asks
<1>2. gpt[r].specifications \in Specs /\ gpt[r].prompt = 2
  BY <1>1 DEF Requests, SecondReply
<1>3. specs \in Specs
  BY <1>2, FirstTyped, SecondTyped
<1>4. \A n \in DOMAIN gpt[r].first : n \in DOMAIN specs /\ specs[n] = gpt[r].first[n]
  <2>1. CASE gpt[r].name = ""
    BY <1>1, <2>1 DEF OwnOK, KeptOK
  <2>2. CASE gpt[r].name # ""
    <3>1. \A n \in DOMAIN gpt[r].first :
            n \in DOMAIN gpt[r].specifications /\ gpt[r].specifications[n] = gpt[r].first[n]
      BY <1>1 DEF OwnOK, KeptOK
    <3>2. \A n \in DOMAIN gpt[r].specifications :
            n \in DOMAIN specs /\ specs[n] = gpt[r].specifications[n]
      BY <1>2, <2>2, SecondTyped
    <3> QED
      BY <3>1, <3>2
  <2> QED
    BY <2>1, <2>2
<1>5. gpt' = [gpt EXCEPT ![r] = g] /\ UNCHANGED <<ctags, mixed>>
  BY DEF SecondReply, ThirdPartySpecifications
<1> HIDE DEF specs
<1>6. g \in Requests /\ gpt'[r] = g
  <2>1. g \in Requests
    BY <1>1, <1>3 DEF Requests, Stages, Reading
  <2> QED
    BY <1>1, <1>5, <2>1
<1>7. /\ g.at = "answered" /\ g.prompt = 2 /\ g.name = gpt[r].name
      /\ g.first = gpt[r].first /\ g.specifications = specs
  BY <1>1, <1>2 DEF Requests
<1> HIDE DEF g
<1>8. ReaderOK(r)' /\ StartOK(r)'
  BY <1>6, <1>7 DEF ReaderOK, StartOK, Reading
<1>9. FoundOK(r)'
  <2>1. FoundBy(g)
    BY <1>7 DEF FoundBy
  <2> QED
    BY <1>5, <1>6, <2>1, FoundKept DEF FoundOK
<1>10. KeptOK(r)'
  BY <1>1, <1>4, <1>6, <1>7 DEF OwnOK, KeptOK
<1> QED
  BY <1>1, <1>5, <1>6, <1>7, <1>8, <1>9, <1>10, OutsideStep DEF OwnOK, Reading

-----------------------------------------------------------------------------
(* Steps of a reader.                                                      *)

\* What a reader has to show of its own file, if it empties nothing.
LEMMA ReaderStep ==
  ASSUME GptInv, NEW r \in Clients, NEW g \in Requests, gpt' = [gpt EXCEPT ![r] = g],
         NEW t, t = gpt[r].tags, t = g.tags, gpt[r].at \in Reading,
         mixed' = mixed, DOMAIN ctags' = DOMAIN ctags,
         \A u \in DOMAIN ctags : u # t => ctags'[u] = ctags[u],
         DOMAIN ctags[t] \subseteq DOMAIN ctags'[t],
         OwnOK(r)', EntriesOK(t)',
         Ahead(r) => Complete(t)' \/ (g.at \in Reading /\ Ahead(r)'),
         t \notin mixed /\ Knows(r) /\ g.at \in Reading => Knows(r)',
         t \notin mixed /\ Knows(r) /\ g.at \notin Reading =>
           \A n \in DOMAIN ctags'[t] : Best(t, TagCount(t), n, ctags'[t][n])
  PROVE  StepOK(r)
<1>1. gpt \in [Clients -> Requests] /\ OwnOK(r)
  BY DEF GptInv
<1>2. Moves(r) /\ gpt' \in [Clients -> Requests] /\ gpt'[r] = g
  BY <1>1 DEF Moves
<1>3. t \in DOMAIN ctags /\ FileOK(t)
  BY <1>1 DEF OwnOK, ReaderOK, GptInv, SharedOK
<1>4. r \in ReadingTags(t) /\ (r \in ReadingTags(t)' <=> g.at \in Reading)
  BY <1>2, ClientsAssumption DEF ReadingTags
<1>5. \A s \in Clients : s # r => (s \in ReadingTags(t)' <=> s \in ReadingTags(t))
  BY <1>2, ClientsAssumption DEF ReadingTags, Moves
<1>6. CoverOK(t)'
  <2>1. CASE t \notin DOMAIN TagFiles
    BY <2>1 DEF CoverOK
  <2>2. CASE Complete(t)
    BY <2>2 DEF CoverOK, Complete
  <2>3. ASSUME NEW s \in ReadingTags(t), Ahead(s) PROVE CoverOK(t)'
    <3>1. CASE s = r
      BY <1>4, <2>3, <3>1 DEF CoverOK
    <3>2. CASE s # r
      <4>1. s \in Clients /\ gpt[s].tags = t /\ gpt'[s] = gpt[s]
        BY <1>2, <3>2, ClientsAssumption DEF ReadingTags, Moves
      <4>2. Ahead(s)'
        BY <2>3, <4>1 DEF Ahead
      <4> QED
        BY <1>5, <3>2, <4>1, <4>2 DEF CoverOK
    <3> QED
      BY <3>1, <3>2
  <2> QED
    BY <1>3, <2>1, <2>2, <2>3 DEF FileOK, CoverOK
<1>7. AloneOK(t)'
  <2> SUFFICES ASSUME t \notin mixed
               PROVE  /\ \A q, s \in ReadingTags(t)' : q = s
                      /\ ReadingTags(t)' = {} =>
                           \A n \in DOMAIN ctags'[t] : Best(t, TagCount(t), n, ctags'[t][n])
                      /\ \A q \in ReadingTags(t)' : Knows(q)'
    BY DEF AloneOK
  <2>1. Knows(r) /\ ReadingTags(t) = {r}
    BY <1>3, <1>4 DEF FileOK, AloneOK
  <2>2. \A q \in ReadingTags(t)' : q \in Clients
    BY ClientsAssumption DEF ReadingTags
  <2>3. \A q \in ReadingTags(t)' : q = r
    BY <1>5, <2>1, <2>2
  <2>4. CASE g.at \in Reading
    BY <1>4, <2>1, <2>3, <2>4
  <2>5. CASE g.at \notin Reading
    BY <1>4, <2>1, <2>3, <2>5
  <2> QED
    BY <2>4, <2>5
<1>8. SharedOK'
  <2> SUFFICES ASSUME NEW u \in DOMAIN ctags PROVE FileOK(u)'
    BY DEF SharedOK
  <2>1. CASE u = t
    BY <1>6, <1>7, <2>1 DEF FileOK
  <2>2. CASE u # t
    BY <1>2, <2>2, FileKept DEF GptInv, SharedOK
  <2> QED
    BY <2>1, <2>2
<1> QED
  BY <1>2, <1>8 DEF StepOK

\* Where a reader is.
LEMMA ReaderAt ==
  ASSUME GptInv, NEW r \in Clients, gpt[r].at \in Reading, NEW t, t = gpt[r].tags
  PROVE  /\ gpt \in [Clients -> Requests] /\ gpt[r] \in Requests /\ OwnOK(r)
         /\ t \in DOMAIN TagFiles /\ t \in DOMAIN ctags /\ FileOK(t)
         /\ gpt[r].k \in Nat /\ gpt[r].k \in 1..(TagCount(t) + 1) /\ TagCount(t) \in Nat
         /\ gpt[r].found = <<>> /\ gpt[r].prompt = 1 /\ ~gpt[r].beside
         /\ gpt[r].at \in {"indexing", "storing"} => gpt[r].k \in 1..TagCount(t)
<1>1. gpt \in [Clients -> Requests] /\ gpt[r] \in Requests /\ OwnOK(r)
  BY DEF GptInv
<1>2. t \in DOMAIN TagFiles /\ t \in DOMAIN ctags /\ gpt[r].k \in 1..(TagCount(t) + 1)
  BY <1>1 DEF OwnOK, ReaderOK
<1>3. TagCount(t) \in Nat /\ gpt[r].k \in Nat
  BY <1>1, <1>2, TagTypes DEF Requests
<1>4. gpt[r].at \in {"indexing", "storing"} => gpt[r].k <= TagCount(t)
  BY <1>1 DEF OwnOK, ReaderOK
<1>5. gpt[r].at \in {"indexing", "storing"} => gpt[r].k \in 1..TagCount(t)
  BY <1>2, <1>3, <1>4
<1>6. FileOK(t)
  BY <1>2 DEF GptInv, SharedOK
<1>7. gpt[r].found = <<>> /\ gpt[r].prompt = 1 /\ ~gpt[r].beside
  BY <1>1 DEF OwnOK, StartOK
<1> QED
  BY <1>1, <1>2, <1>3, <1>5, <1>6, <1>7

\* A reader that goes on reading has found nothing yet.
LEMMA ReaderOwn ==
  ASSUME GptInv, NEW r \in Clients, NEW g \in Requests, gpt'[r] = g,
         gpt[r].at \in Reading, g.at \in Reading, NEW t, t = gpt[r].tags, t = g.tags,
         g.name = gpt[r].name, g.found = <<>>, ~g.beside, g.prompt = 1,
         g.first = gpt[r].first, g.specifications = gpt[r].specifications,
         DOMAIN ctags' = DOMAIN ctags,
         g.k \in 1..(TagCount(t) + 1),
         g.at \in {"indexing", "storing"} => g.k <= TagCount(t)
  PROVE  OwnOK(r)'
<1>1. t \in DOMAIN TagFiles /\ t \in DOMAIN ctags /\ OwnOK(r)
  BY ReaderAt
<1>2. ReaderOK(r)'
  BY <1>1 DEF ReaderOK, Reading, TagCount
<1>3. StartOK(r)'
  BY DEF StartOK
<1>4. FoundOK(r)'
  BY DEF FoundOK, FoundBy, Reading
<1>5. KeptOK(r)'
  BY <1>1 DEF OwnOK, KeptOK
<1> QED
  BY <1>2, <1>3, <1>4, <1>5 DEF OwnOK

\* A name that is there has been come by.
LEMMA ReadTagKeeps ==
  ASSUME GptInv, NEW r \in Clients, ReadTag(r)
  PROVE  StepOK(r)
<1> DEFINE p == IF Tag(r).name \in DOMAIN ctags[gpt[r].tags] THEN "indexing" ELSE "storing"
           g == [gpt[r] EXCEPT !.at = p]
<1>1. PICK t : t = gpt[r].tags
  OBVIOUS
<1>2. gpt[r].at = "reading" /\ gpt[r].at \in Reading /\ gpt[r].k <= TagCount(t)
  BY <1>1 DEF ReadTag, Asks, Reading, TagCount
<1>3. /\ gpt \in [Clients -> Requests] /\ gpt[r] \in Requests
      /\ gpt[r].k \in 1..(TagCount(t) + 1) /\ FileOK(t)
      /\ gpt[r].found = <<>> /\ gpt[r].prompt = 1 /\ ~gpt[r].beside
  BY <1>1, <1>2, ReaderAt
<1>4. gpt' = [gpt EXCEPT ![r] = g] /\ UNCHANGED <<ctags, mixed>>
  BY DEF ReadTag
<1>5. p \in {"indexing", "storing"} /\ (p = "indexing" <=> Tag(r).name \in DOMAIN ctags[t])
  BY <1>1
<1> HIDE DEF p
<1>6. g \in Requests /\ gpt'[r] = g
  BY <1>3, <1>4, <1>5 DEF Requests, Stages, Reading
<1>7. /\ g.at = p /\ g.k = gpt[r].k /\ g.found = <<>> /\ ~g.beside /\ g.prompt = 1 /\ g.tags = t
      /\ g.name = gpt[r].name /\ g.first = gpt[r].first /\ g.specifications = gpt[r].specifications
  BY <1>1, <1>3 DEF Requests
<1> HIDE DEF g
<1>8. g.at \in Reading
  BY <1>5, <1>7 DEF Reading
<1>9. OwnOK(r)'
  BY <1>1, <1>2, <1>3, <1>4, <1>6, <1>7, <1>8, ReaderOwn
<1>10. EntriesOK(t)'
  BY <1>3, <1>4 DEF FileOK, EntriesOK
<1>11. Tag(r)' = Tag(r) /\ Tag(r) = TagFiles[t][gpt[r].k]
  BY <1>1, <1>6, <1>7 DEF Tag
<1>12. Ahead(r) => Ahead(r)'
  BY <1>1, <1>2, <1>4, <1>5, <1>6, <1>7, <1>11, SMTT(30) DEF Ahead
<1>13. Knows(r) => Knows(r)'
  BY <1>1, <1>4, <1>5, <1>6, <1>7, <1>11, <1>12 DEF Knows
<1> QED
  BY <1>1, <1>2, <1>4, <1>6, <1>7, <1>8, <1>9, <1>10, <1>12, <1>13, ReaderStep

\* A tag in a source file is kept, and counts for what follows.
LEMMA IndexTagKeeps ==
  ASSUME GptInv, NEW r \in Clients, IndexTag(r)
  PROVE  StepOK(r)
<1>1. PICK t : t = gpt[r].tags
  OBVIOUS
<1>2. gpt[r].at = "indexing" /\ gpt[r].at \in Reading
  BY DEF IndexTag, Asks, Reading
<1>3. /\ gpt \in [Clients -> Requests] /\ gpt[r] \in Requests
      /\ gpt[r].k \in 1..TagCount(t) /\ TagCount(t) \in Nat /\ FileOK(t) /\ t \in DOMAIN TagFiles
      /\ gpt[r].found = <<>> /\ gpt[r].prompt = 1 /\ ~gpt[r].beside
  BY <1>1, <1>2, ReaderAt
<1>4. UNCHANGED <<ctags, mixed>> /\ Tag(r).name \in DOMAIN ctags[t]
  BY <1>1 DEF IndexTag
<1>5. Tag(r) = TagFiles[t][gpt[r].k]
  BY <1>1 DEF Tag
<1>6. EntriesOK(t)'
  BY <1>3, <1>4 DEF FileOK, EntriesOK
<1>7. CASE ctags[t][Tag(r).name].header
  <2> DEFINE g == [gpt[r] EXCEPT !.at = "storing"]
  <2>1. gpt' = [gpt EXCEPT ![r] = g]
    BY <1>1, <1>7 DEF IndexTag
  <2>2. g \in Requests /\ gpt'[r] = g
    BY <1>3, <2>1 DEF Requests, Stages, Reading
  <2>3. /\ g.at = "storing" /\ g.k = gpt[r].k /\ g.found = <<>> /\ ~g.beside /\ g.prompt = 1
        /\ g.tags = t /\ g.name = gpt[r].name
        /\ g.first = gpt[r].first /\ g.specifications = gpt[r].specifications
    BY <1>1, <1>3 DEF Requests
  <2> HIDE DEF g
  <2>4. g.at \in Reading
    BY <2>3 DEF Reading
  <2>5. OwnOK(r)'
    BY <1>1, <1>2, <1>3, <1>4, <2>2, <2>3, <2>4, ReaderOwn
  <2>6. Tag(r)' = Tag(r)
    BY <1>1, <2>2, <2>3 DEF Tag
  <2>7. Ahead(r) => Ahead(r)'
    BY <1>1, <1>4, <2>2, <2>3 DEF Ahead
  <2>8. Knows(r) => Knows(r)'
    BY <1>1, <1>4, <1>7, <2>2, <2>3, <2>6, <2>7 DEF Knows
  <2> QED
    BY <1>1, <1>2, <1>4, <1>6, <2>1, <2>2, <2>3, <2>4, <2>5, <2>7, <2>8, ReaderStep
<1>8. CASE ~ctags[t][Tag(r).name].header
  <2> DEFINE g == [gpt[r] EXCEPT !.at = "reading", !.k = gpt[r].k + 1]
  <2>1. gpt' = [gpt EXCEPT ![r] = g]
    BY <1>1, <1>8 DEF IndexTag
  <2>2. gpt[r].k + 1 \in Nat /\ gpt[r].k + 1 \in 1..(TagCount(t) + 1)
    BY <1>3
  <2>3. g \in Requests /\ gpt'[r] = g
    BY <1>3, <2>1, <2>2 DEF Requests, Stages, Reading
  <2>4. /\ g.at = "reading" /\ g.k = gpt[r].k + 1 /\ g.found = <<>> /\ ~g.beside /\ g.prompt = 1
        /\ g.tags = t /\ g.name = gpt[r].name
        /\ g.first = gpt[r].first /\ g.specifications = gpt[r].specifications
    BY <1>1, <1>3 DEF Requests
  <2> HIDE DEF g
  <2>5. g.at \in Reading
    BY <2>4 DEF Reading
  <2>6. OwnOK(r)'
    BY <1>1, <1>2, <1>3, <1>4, <2>2, <2>3, <2>4, <2>5, ReaderOwn
  <2>7. Ahead(r) => Ahead(r)'
    <3>1. \A k \in DOMAIN TagFiles[t] : k < gpt[r].k + 1 => k < gpt[r].k \/ k = gpt[r].k
      BY <1>3, TagTypes
    <3> QED
      BY <1>1, <1>2, <1>4, <2>3, <2>4, <3>1 DEF Ahead
  <2>8. Knows(r) => \A n \in DOMAIN ctags[t] : Best(t, gpt[r].k, n, ctags[t][n])
    <3> SUFFICES ASSUME Knows(r), NEW n \in DOMAIN ctags[t]
                 PROVE  Best(t, gpt[r].k, n, ctags[t][n])
      OBVIOUS
    <3>1. Best(t, gpt[r].k - 1, n, ctags[t][n])
      BY <1>1 DEF Knows
    <3> QED
      BY <1>3, <1>5, <1>8, <3>1, BestNext
  <2>9. (gpt[r].k + 1) - 1 = gpt[r].k
    BY <1>3
  <2>10. Knows(r) => Knows(r)'
    <3>1. Knows(r) => \A n \in DOMAIN ctags[t] : Best(t, g.k - 1, n, ctags[t][n])
      BY <2>4, <2>8, <2>9
    <3>2. Knows(r) => Ahead(r)'
      BY <2>7 DEF Knows
    <3> QED
      BY <1>1, <1>4, <2>3, <2>4, <3>1, <3>2 DEF Knows
  <2> QED
    BY <1>1, <1>2, <1>4, <1>6, <2>1, <2>3, <2>4, <2>5, <2>6, <2>7, <2>10, ReaderStep
<1> QED
  BY <1>7, <1>8

\* A name is lost only to another reader, who has come by none that is missing.
LEMMA LoseTagKeeps ==
  ASSUME GptInv, NEW r \in Clients, LoseTag(r)
  PROVE  StepOK(r)
<1> DEFINE b == ReadingTags(gpt[r].tags) \ {r} # {}
           g == [gpt[r] EXCEPT !.at = "not found", !.beside = b]
<1>1. PICK t : t = gpt[r].tags
  OBVIOUS
<1>2. gpt[r].at = "indexing" /\ gpt[r].at \in Reading
  BY DEF LoseTag, Asks, Reading
<1>3. /\ gpt \in [Clients -> Requests] /\ gpt[r] \in Requests /\ OwnOK(r)
      /\ gpt[r].k \in 1..TagCount(t) /\ TagCount(t) \in Nat /\ FileOK(t) /\ t \in DOMAIN TagFiles
      /\ gpt[r].prompt = 1
  BY <1>1, <1>2, ReaderAt
<1>4. /\ UNCHANGED <<ctags, mixed>> /\ Tag(r).name \notin DOMAIN ctags[t]
      /\ gpt' = [gpt EXCEPT ![r] = g]
  BY <1>1 DEF LoseTag
<1>5. gpt[r].k \in DOMAIN TagFiles[t] /\ Tag(r) = TagFiles[t][gpt[r].k]
  BY <1>1, <1>3, TagTypes DEF Tag
<1>6. ~Ahead(r) /\ ~Complete(t)
  BY <1>1, <1>2, <1>4, <1>5 DEF Ahead, Complete
<1>7. b
  <2>1. PICK s \in ReadingTags(t) : Ahead(s)
    BY <1>3, <1>6 DEF FileOK, CoverOK
  <2> QED
    BY <1>1, <1>6, <2>1
<1> HIDE DEF b
<1>8. g \in Requests /\ gpt'[r] = g
  BY <1>3, <1>4, <1>7 DEF Requests, Stages, Reading
<1>9. /\ g.at = "not found" /\ g.beside /\ g.prompt = 1 /\ g.tags = t /\ g.name = gpt[r].name
      /\ g.first = gpt[r].first /\ g.specifications = gpt[r].specifications
  BY <1>1, <1>3, <1>7 DEF Requests
<1> HIDE DEF g
<1>10. OwnOK(r)'
  <2>1. ReaderOK(r)' /\ StartOK(r)'
    BY <1>8, <1>9 DEF ReaderOK, StartOK, Reading
  <2>2. FoundOK(r)'
    BY <1>8, <1>9 DEF FoundOK, FoundBy
  <2>3. KeptOK(r)'
    BY <1>3, <1>8, <1>9 DEF OwnOK, KeptOK
  <2> QED
    BY <2>1, <2>2, <2>3 DEF OwnOK
<1>11. EntriesOK(t)'
  BY <1>3, <1>4 DEF FileOK, EntriesOK
<1>12. ~Knows(r)
  BY <1>6 DEF Knows
<1> QED
  BY <1>1, <1>2, <1>4, <1>6, <1>8, <1>9, <1>10, <1>11, <1>12, ReaderStep

\* A reader that has come to the end has missed no name.
LEMMA EndTagsKeeps ==
  ASSUME GptInv, NEW r \in Clients, EndTags(r)
  PROVE  StepOK(r)
<1> DEFINE g == [gpt[r] EXCEPT !.at = "find"]
<1>1. PICK t : t = gpt[r].tags
  OBVIOUS
<1>2. gpt[r].at = "reading" /\ gpt[r].at \in Reading /\ gpt[r].k > TagCount(t)
  BY <1>1 DEF EndTags, Asks, Reading, TagCount
<1>3. /\ gpt \in [Clients -> Requests] /\ gpt[r] \in Requests /\ OwnOK(r)
      /\ gpt[r].k \in 1..(TagCount(t) + 1) /\ TagCount(t) \in Nat /\ FileOK(t)
      /\ t \in DOMAIN TagFiles /\ t \in DOMAIN ctags
      /\ gpt[r].found = <<>> /\ gpt[r].prompt = 1 /\ ~gpt[r].beside
  BY <1>1, <1>2, ReaderAt
<1>4. gpt' = [gpt EXCEPT ![r] = g] /\ UNCHANGED <<ctags, mixed>>
  BY DEF EndTags
<1>5. g \in Requests /\ gpt'[r] = g
  BY <1>3, <1>4 DEF Requests, Stages, Reading
<1>6. /\ g.at = "find" /\ g.found = <<>> /\ g.tags = t /\ g.prompt = 1
      /\ g.name = gpt[r].name /\ g.first = gpt[r].first /\ g.specifications = gpt[r].specifications
  BY <1>1, <1>3 DEF Requests
<1> HIDE DEF g
<1>7. OwnOK(r)'
  <2>1. Len(g.found) = 0 /\ 1..Len(g.found) = {}
    BY <1>6
  <2>2. ReaderOK(r)' /\ StartOK(r)'
    BY <1>3, <1>4, <1>5, <1>6, <2>1 DEF ReaderOK, StartOK, Reading
  <2>3. FoundBy(g)
    BY <1>6, <2>1 DEF FoundBy
  <2>4. FoundOK(r)'
    BY <1>4, <1>5, <2>3, FoundKept DEF FoundOK
  <2>5. KeptOK(r)'
    BY <1>3, <1>5, <1>6 DEF OwnOK, KeptOK
  <2> QED
    BY <2>2, <2>4, <2>5 DEF OwnOK
<1>8. EntriesOK(t)'
  BY <1>3, <1>4 DEF FileOK, EntriesOK
<1>9. Ahead(r) => Complete(t)'
  <2>1. \A k \in DOMAIN TagFiles[t] : k < gpt[r].k
    BY <1>2, <1>3, TagTypes
  <2> QED
    BY <1>1, <1>4, <2>1 DEF Ahead, Complete
<1>10. Knows(r) => \A n \in DOMAIN ctags'[t] : Best(t, TagCount(t), n, ctags'[t][n])
  <2>1. gpt[r].k - 1 = TagCount(t)
    BY <1>2, <1>3
  <2> QED
    BY <1>1, <1>4, <2>1 DEF Knows
<1>11. g.at \notin Reading
  BY <1>6 DEF Reading
<1> QED
  BY <1>1, <1>2, <1>4, <1>5, <1>6, <1>7, <1>8, <1>9, <1>10, <1>11, ReaderStep

\* A tag that is stored counts: a reader that is alone stores one only if
\* there was none with its name, or only in headers.
LEMMA StoreTagKeeps ==
  ASSUME GptInv, NEW r \in Clients, StoreTag(r)
  PROVE  StepOK(r)
<1> DEFINE g == [gpt[r] EXCEPT !.at = "reading", !.k = gpt[r].k + 1]
<1>1. PICK t : t = gpt[r].tags
  OBVIOUS
<1>2. gpt[r].at = "storing" /\ gpt[r].at \in Reading
  BY DEF StoreTag, Asks, Reading
<1>3. /\ gpt \in [Clients -> Requests] /\ gpt[r] \in Requests
      /\ gpt[r].k \in 1..TagCount(t) /\ TagCount(t) \in Nat /\ FileOK(t)
      /\ t \in DOMAIN TagFiles /\ t \in DOMAIN ctags
      /\ gpt[r].found = <<>> /\ gpt[r].prompt = 1 /\ ~gpt[r].beside
  BY <1>1, <1>2, ReaderAt
<1>4. PICK k : k = gpt[r].k
  OBVIOUS
<1>5. PICK e : e = TagFiles[t][k]
  OBVIOUS
<1>6. Tag(r) = e /\ k \in DOMAIN TagFiles[t] /\ k \in TagsOf(t, e.name)
  BY <1>1, <1>3, <1>4, <1>5, TagTypes DEF Tag
<1>7. gpt' = [gpt EXCEPT ![r] = g] /\ mixed' = mixed
  BY DEF StoreTag
<1>8. /\ DOMAIN ctags' = DOMAIN ctags /\ \A u \in DOMAIN ctags : u # t => ctags'[u] = ctags[u]
      /\ DOMAIN ctags'[t] = DOMAIN ctags[t] \union {e.name}
      /\ \A n \in DOMAIN ctags'[t] : ctags'[t][n] = IF n = e.name THEN e ELSE ctags[t][n]
  <2>1. ctags' = [ctags EXCEPT ![t] = [n \in DOMAIN ctags[t] \union {e.name} |->
                                         IF n = e.name THEN e ELSE ctags[t][n]]]
    BY <1>1, <1>6 DEF StoreTag
  <2> QED
    BY <1>3, <2>1
<1>9. g \in Requests /\ gpt'[r] = g
  <2>1. gpt[r].k + 1 \in Nat
    BY <1>3
  <2> QED
    BY <1>3, <1>7, <2>1 DEF Requests, Stages, Reading
<1>10. /\ g.at = "reading" /\ g.k = k + 1 /\ g.found = <<>> /\ ~g.beside /\ g.prompt = 1
       /\ g.tags = t /\ g.name = gpt[r].name
       /\ g.first = gpt[r].first /\ g.specifications = gpt[r].specifications
  BY <1>1, <1>3, <1>4 DEF Requests
<1> HIDE DEF g
<1>11. g.at \in Reading /\ g.k \in 1..(TagCount(t) + 1) /\ k + 1 - 1 = k /\ k \in 1..TagCount(t)
  BY <1>3, <1>4, <1>10 DEF Reading
<1>12. OwnOK(r)'
  BY <1>1, <1>2, <1>8, <1>9, <1>10, <1>11, ReaderOwn
<1>13. EntriesOK(t)'
  <2> SUFFICES ASSUME NEW n \in DOMAIN ctags'[t]
               PROVE  \E j \in TagsOf(t, n) : ctags'[t][n] = TagFiles[t][j]
    BY DEF EntriesOK
  <2>1. CASE n = e.name
    BY <1>5, <1>6, <1>8, <2>1
  <2>2. CASE n # e.name
    BY <1>3, <1>8, <2>2 DEF FileOK, EntriesOK
  <2> QED
    BY <2>1, <2>2
<1>14. Ahead(r) => \A j \in DOMAIN TagFiles[t] : j < k + 1 => TagFiles[t][j].name \in DOMAIN ctags'[t]
  <2> SUFFICES ASSUME Ahead(r), NEW j \in DOMAIN TagFiles[t], j < k + 1
               PROVE  TagFiles[t][j].name \in DOMAIN ctags'[t]
    OBVIOUS
  <2>1. j < k \/ j = k
    BY <1>3, <1>11, TagTypes
  <2>2. CASE j < k
    BY <1>1, <1>4, <1>8, <2>2 DEF Ahead
  <2>3. CASE j = k
    BY <1>5, <1>8, <2>3
  <2> QED
    BY <2>1, <2>2, <2>3
<1>15. Ahead(r) => Ahead(r)'
  BY <1>9, <1>10, <1>14 DEF Ahead
<1>16. ASSUME Knows(r), NEW n \in DOMAIN ctags'[t]
       PROVE  Best(t, k, n, ctags'[t][n])
  <2>1. Ahead(r) /\ \A m \in DOMAIN ctags[t] : Best(t, k - 1, m, ctags[t][m])
    BY <1>1, <1>4, <1>16 DEF Knows
  <2>2. CASE n # e.name
    <3>1. n \in DOMAIN ctags[t] /\ ctags'[t][n] = ctags[t][n]
      BY <1>8, <2>2
    <3> QED
      BY <1>3, <1>5, <1>11, <2>1, <2>2, <3>1, BestNext
  <2>3. CASE n = e.name
    <3>1. ASSUME NEW i \in TagsOf(t, e.name), i < k
          PROVE  TagFiles[t][i].header
      <4>1. i \in 1..TagCount(t) /\ TagFiles[t][i].name = e.name /\ i \in DOMAIN TagFiles[t]
        BY <1>3, <3>1, TagTypes
      <4>2. e.name \in DOMAIN ctags[t]
        BY <1>1, <1>4, <2>1, <3>1, <4>1 DEF Ahead
      <4>3. ctags[t][e.name].header
        BY <1>1, <1>2, <1>6, <1>16, <4>2 DEF Knows
      <4>4. PICK j \in TagsOf(t, e.name) : \A h \in TagsOf(t, e.name) :
              h <= k - 1 => TagFiles[t][h].header
        BY <2>1, <4>2, <4>3 DEF Best
      <4>5. i <= k - 1
        BY <1>11, <3>1, <4>1
      <4> QED
        BY <4>4, <4>5
    <3> QED
      BY <1>3, <1>5, <1>8, <1>11, <2>3, <3>1, BestStored
  <2> QED
    BY <2>2, <2>3
<1>17. Knows(r) => Knows(r)'
  <2>1. Knows(r) => \A n \in DOMAIN ctags'[t] : Best(t, g.k - 1, n, ctags'[t][n])
    BY <1>10, <1>11, <1>16
  <2>2. Knows(r) => Ahead(r)'
    BY <1>15 DEF Knows
  <2> QED
    BY <1>9, <1>10, <2>1, <2>2 DEF Knows
<1> QED
  BY <1>1, <1>2, <1>7, <1>8, <1>9, <1>10, <1>11, <1>12, <1>13, <1>15, <1>17, ReaderStep

\* An empty dictionary knows everything so far.
LEMMA ResetCacheKeeps ==
  ASSUME GptInv, NEW r \in Clients, ResetCache(r)
  PROVE  StepOK(r)
<1>1. PICK t : t = gpt[r].tags
  OBVIOUS
<1>2. /\ gpt \in [Clients -> Requests] /\ gpt[r] \in Requests /\ OwnOK(r)
      /\ gpt[r].at = "reset" /\ gpt[r].at \notin Reading
      /\ gpt[r].found = <<>> /\ gpt[r].prompt = 1 /\ ~gpt[r].beside
  BY DEF GptInv, ResetCache, Asks, Reading, OwnOK, StartOK
<1>3. /\ DOMAIN ctags' = DOMAIN ctags \union {t} /\ DOMAIN ctags'[t] = {}
      /\ \A u \in DOMAIN ctags : u # t => ctags'[u] = ctags[u]
  <2>1. ctags' = [u \in DOMAIN ctags \union {t} |-> IF u = t THEN <<>> ELSE ctags[u]]
    BY <1>1 DEF ResetCache
  <2>2. ctags'[t] = <<>>
    BY <2>1
  <2> QED
    BY <2>1, <2>2, NoSpecs
<1>4. mixed' = IF ReadingTags(t) # {} THEN mixed \union {t} ELSE mixed
  BY <1>1 DEF ResetCache
<1>5. mixed \subseteq mixed' /\ \A u : u # t => (u \in mixed' <=> u \in mixed)
  BY <1>4
<1> DEFINE g == IF t \in DOMAIN TagFiles THEN [gpt[r] EXCEPT !.at = "reading", !.k = 1]
                ELSE [gpt[r] EXCEPT !.at = "failed"]
<1>6. gpt' = [gpt EXCEPT ![r] = g]
  BY <1>1 DEF ResetCache
<1>7. g \in Requests /\ gpt'[r] = g
  BY <1>2, <1>6 DEF Requests, Stages, Reading
<1>8. /\ g.at = (IF t \in DOMAIN TagFiles THEN "reading" ELSE "failed")
      /\ t \in DOMAIN TagFiles => g.k = 1
      /\ g.found = <<>> /\ ~g.beside /\ g.prompt = 1 /\ g.tags = t /\ g.name = gpt[r].name
      /\ g.first = gpt[r].first /\ g.specifications = gpt[r].specifications
  BY <1>1, <1>2 DEF Requests
<1> HIDE DEF g
<1>9. Moves(r) /\ gpt' \in [Clients -> Requests]
  BY <1>2, <1>6, <1>7 DEF Moves
<1>10. OwnOK(r)'
  <2>1. ReaderOK(r)'
    <3>1. t \in DOMAIN TagFiles => 1 \in 1..(TagCount(t) + 1)
      BY TagTypes
    <3> QED
      BY <1>3, <1>7, <1>8, <3>1 DEF ReaderOK, Reading, TagCount
  <2>2. StartOK(r)'
    BY <1>7, <1>8 DEF StartOK
  <2>3. FoundBy(g)
    BY <1>8 DEF FoundBy
  <2>4. FoundOK(r)'
    BY <1>5, <1>7, <2>3, FoundKept DEF FoundOK
  <2>5. KeptOK(r)'
    BY <1>2, <1>7, <1>8 DEF OwnOK, KeptOK
  <2> QED
    BY <2>1, <2>2, <2>4, <2>5 DEF OwnOK
<1>11. r \in ReadingTags(t)' <=> t \in DOMAIN TagFiles
  BY <1>7, <1>8, ClientsAssumption DEF ReadingTags, Reading
<1>12. FileOK(t)'
  <2>1. EntriesOK(t)'
    BY <1>3 DEF EntriesOK
  <2>2. t \in DOMAIN TagFiles => Ahead(r)'
    <3>1. t \in DOMAIN TagFiles => \A k \in DOMAIN TagFiles[t] : ~ (k < 1)
      BY TagTypes
    <3> QED
      BY <1>7, <1>8, <3>1 DEF Ahead
  <2>3. CoverOK(t)'
    BY <1>11, <2>2 DEF CoverOK
  <2>4. AloneOK(t)'
    <3> SUFFICES ASSUME t \notin mixed'
                 PROVE  /\ \A q, s \in ReadingTags(t)' : q = s
                        /\ \A q \in ReadingTags(t)' : Knows(q)'
      BY <1>3 DEF AloneOK
    <3>1. ReadingTags(t) = {}
      BY <1>4
    <3>2. \A q \in ReadingTags(t)' : q = r
      BY <1>9, <3>1, ClientsAssumption DEF ReadingTags, Moves
    <3>3. t \in DOMAIN TagFiles => Knows(r)'
      BY <1>3, <1>7, <1>8, <2>2 DEF Knows
    <3> QED
      BY <1>11, <3>2, <3>3
  <2> QED
    BY <2>1, <2>3, <2>4 DEF FileOK
<1>13. SharedOK'
  <2> SUFFICES ASSUME NEW u \in DOMAIN ctags', u # t PROVE FileOK(u)'
    BY <1>12 DEF SharedOK
  <2>1. u \in DOMAIN ctags /\ FileOK(u) /\ ctags'[u] = ctags[u] /\ (u \in mixed' <=> u \in mixed)
    BY <1>3, <1>5 DEF GptInv, SharedOK
  <2> QED
    BY <1>1, <1>7, <1>8, <1>9, <2>1, FileKept
<1> QED
  BY <1>3, <1>5, <1>9, <1>10, <1>13 DEF StepOK

-----------------------------------------------------------------------------
(* The composed system.                                                    *)

LEMMA NoRequestType == NoRequest \in Requests
<1>1. <<>> \in Seq(Tags)
  OBVIOUS
<1>2. <<>> \in Specs /\ "none" \in Stages
  BY NoSpecs DEF Stages
<1> QED
  BY <1>1, <1>2 DEF NoRequest, Requests

\* A request that has no definition and no specifications yet promises nothing.
LEMMA NewOwn ==
  ASSUME NEW r \in Clients, NEW g \in Requests, gpt'[r] = g,
         g.at \in {"none", "check", "complete"}, g.found = <<>>, ~g.beside, g.prompt = 1,
         g.first = <<>>, g.at = "complete" => g.name = ""
  PROVE  OwnOK(r)'
<1>1. ReaderOK(r)'
  BY DEF ReaderOK, Reading
<1>2. StartOK(r)'
  BY DEF StartOK
<1>3. FoundOK(r)'
  BY DEF FoundOK, FoundBy
<1>4. KeptOK(r)'
  BY NoSpecs DEF KeptOK
<1> QED
  BY <1>1, <1>2, <1>3, <1>4 DEF OwnOK

LEMMA GptInitOK == Init => GptInv
<1> SUFFICES ASSUME Init PROVE GptInv
  OBVIOUS
<1>1. /\ gpt = [r \in Clients |-> NoRequest] /\ ctags = <<>>
      /\ \A r \in Clients : gpt[r] = NoRequest
  BY ClientsAssumption DEF Init, GptInit
<1>2. gpt \in [Clients -> Requests]
  BY <1>1, NoRequestType
<1>3. SharedOK
  BY <1>1, NoSpecs DEF SharedOK
<1>4. /\ NoRequest.at = "none" /\ NoRequest.found = <<>> /\ ~NoRequest.beside
      /\ NoRequest.first = <<>>
  BY DEF NoRequest
<1>5. ASSUME NEW r \in Clients PROVE FreshOK(r) /\ OwnOK(r)
  <2>1. gpt[r] = NoRequest
    BY <1>1
  <2>2. FreshOK(r) /\ ReaderOK(r) /\ StartOK(r)
    BY <1>4, <2>1 DEF FreshOK, ReaderOK, StartOK, Reading
  <2>3. FoundOK(r)
    BY <1>4, <2>1 DEF FoundOK, FoundBy
  <2>4. KeptOK(r)
    BY <1>4, <2>1, NoSpecs DEF KeptOK
  <2> QED
    BY <2>2, <2>3, <2>4 DEF OwnOK
<1> QED
  BY <1>2, <1>3, <1>5 DEF GptInv

\* The service thread of a request.
LEMMA GptStepKeeps ==
  ASSUME GptInv, NEW r \in Clients, GptStep(r)
  PROVE  StepOK(r)
BY CheckCacheKeeps, ResetCacheKeeps, ReadTagKeeps, IndexTagKeeps, LoseTagKeeps, StoreTagKeeps,
   EndTagsKeeps, NotFoundKeeps, FindDefinitionKeeps, FailCompletionKeeps, FirstReplyKeeps,
   SecondReplyKeeps, Zenon DEF GptStep

LEMMA GptStepStarted ==
  ASSUME NEW r, GptStep(r)
  PROVE  gpt[r].at # "none"
BY DEF GptStep, CheckCache, ResetCache, ReadTag, IndexTag, LoseTag, StoreTag, EndTags, NotFound,
   FindDefinition, FailCompletion, FirstReply, SecondReply, Asks

\* The task of a client begins or ends a request: no thread serves it then.
TaskAsks(c) == TaskThirdParty(c) \/ TaskAsk(c) \/ TaskFinish(c)

LEMMA TaskAsksKeeps ==
  ASSUME IInv, GptInv, NEW c \in Clients, TaskAsks(c)
  PROVE  StepOK(c)
<1>1. gpt \in [Clients -> Requests] /\ FreshOK(c)
  BY DEF GptInv
<1>2. gpt[c].at \notin Reading
  <2>1. CASE TaskThirdParty(c)
    BY <1>1, <2>1 DEF TaskThirdParty, FreshOK, Reading
  <2>2. CASE TaskAsk(c) \/ TaskFinish(c)
    BY <2>2 DEF TaskAsk, TaskFinish, Answered, Reading
  <2> QED
    BY <2>1, <2>2 DEF TaskAsks
<1>3. UNCHANGED <<ctags, mixed>>
  BY DEF TaskAsks, TaskThirdParty, TaskAsk, TaskFinish
<1>4. ASSUME NEW g \in Requests, gpt' = [gpt EXCEPT ![c] = g],
             g.at \in {"none", "check", "complete"}, g.found = <<>>, ~g.beside, g.prompt = 1,
             g.first = <<>>, g.at = "complete" => g.name = ""
      PROVE  StepOK(c)
  <2>1. gpt'[c] = g
    BY <1>1, <1>4
  <2>2. OwnOK(c)'
    BY <1>4, <2>1, NewOwn
  <2>3. g.at \notin Reading
    BY <1>4 DEF Reading
  <2> QED
    BY <1>2, <1>3, <1>4, <2>2, <2>3, OutsideStep
<1>5. CASE gpt' = [gpt EXCEPT ![c] = NoRequest]
  <2>1. /\ NoRequest.at = "none" /\ NoRequest.found = <<>> /\ ~NoRequest.beside
        /\ NoRequest.prompt = 1 /\ NoRequest.first = <<>>
    BY DEF NoRequest
  <2> QED
    BY <1>4, <1>5, <2>1, NoRequestType
<1>6. CASE GetGptThirdPartySpecifications(c)
  <2> DEFINE g == [NoRequest EXCEPT !.at = "complete"]
  <2>1. gpt' = [gpt EXCEPT ![c] = g]
    BY <1>6 DEF GetGptThirdPartySpecifications
  <2>2. g \in Requests
    BY NoRequestType DEF Requests, Stages
  <2>3. /\ g.at = "complete" /\ g.found = <<>> /\ ~g.beside /\ g.prompt = 1 /\ g.first = <<>>
        /\ g.name = ""
    BY DEF NoRequest
  <2> HIDE DEF g
  <2> QED
    BY <1>4, <2>1, <2>2, <2>3
<1>7. ASSUME NEW f \in Functions[received[c][1]], GetGptSpecification(c, f, command[c].tags)
      PROVE  StepOK(c)
  <2> DEFINE g == [NoRequest EXCEPT !.at = "check", !.name = f, !.tags = command[c].tags]
  <2>1. f \in STRING /\ command[c].tags \in STRING
    <3>1. received[c][1] \in Contents /\ command[c] \in Commands
      BY TypeParts DEF IInv, EesiOK, ClientsOK
    <3>2. f \in STRING
      BY <3>1, ScenariosAssumption
    <3>3. command[c].tags \in STRING
      BY <3>1 DEF Commands
    <3> QED
      BY <3>2, <3>3
  <2>2. gpt' = [gpt EXCEPT ![c] = g]
    BY <1>7 DEF GetGptSpecification
  <2>3. g \in Requests
    BY <2>1, NoRequestType DEF Requests, Stages
  <2>4. g.at = "check" /\ g.found = <<>> /\ ~g.beside /\ g.prompt = 1 /\ g.first = <<>>
    BY DEF NoRequest
  <2> HIDE DEF g
  <2> QED
    BY <1>4, <2>2, <2>3, <2>4
<1> QED
  <2>1. CASE TaskThirdParty(c)
    BY <1>6, <2>1 DEF TaskThirdParty
  <2>2. CASE TaskAsk(c)
    BY <1>5, <1>7, <2>2 DEF TaskAsk
  <2>3. CASE TaskFinish(c)
    BY <1>5, <2>3 DEF TaskFinish
  <2> QED
    BY <2>1, <2>2, <2>3 DEF TaskAsks

\* No other step touches the service, and one that submits a task finds no
\* request of the same client.
LEMMA OtherSteps ==
  ASSUME IInv, [Next]_vars
  PROVE  \/ \E r \in Clients : GptStep(r) /\ UNCHANGED eesi
         \/ \E c \in Clients : TaskAsks(c)
         \/ UNCHANGED service /\ \A r \in Clients : FreshOK(r) => FreshOK(r)'
<1>0. task \in [Clients -> Tasks]
  BY TypeParts DEF IInv, EesiOK
<1>1. CASE UNCHANGED <<service, eesi>>
  BY <1>1 DEF service, eesi, FreshOK
<1>2. ASSUME NEW c \in Clients, ClientStep(c), ~Submit(c)
      PROVE  UNCHANGED <<service, eesi>>
  BY <1>2, ZenonT(60) DEF ClientStep, LookUpUri, CallRegister, Registered, FindRecord, InsertRecord,
     DeleteStored, SearchStored, Collect, CallAnnotate, AnnotateReplied
<1>3. ASSUME NEW c \in Clients, Submit(c)
      PROVE  UNCHANGED service /\ \A r \in Clients : FreshOK(r) => FreshOK(r)'
  <2>1. UNCHANGED service /\ UNCHANGED eesiUp
    BY <1>3 DEF Submit, eesi
  <2>2. task' = task \/ (eesiUp /\ task' = [task EXCEPT ![c] = "queued"])
    BY <1>3 DEF Submit
  <2>3. task[c] = "none"
    BY <1>3 DEF IInv, PhaseOK, Submit
  <2> QED
    BY <1>0, <2>1, <2>2, <2>3 DEF FreshOK, service
<1>4. ASSUME NEW c \in Clients, TaskDownload(c) \/ TaskParse(c)
      PROVE  UNCHANGED service /\ \A r \in Clients : FreshOK(r) => FreshOK(r)'
  <2>1. CASE TaskDownload(c)
    BY <1>0, <2>1 DEF TaskDownload, FreshOK, service
  <2>2. CASE TaskParse(c)
    <3>1. /\ UNCHANGED service
          /\ \/ ~eesiUp'
             \/ /\ UNCHANGED eesiUp /\ task[c] = "downloading"
                /\ task' = [task EXCEPT ![c] = "thirdparty"]
      BY <2>2 DEF TaskParse
    <3> QED
      BY <1>0, <3>1 DEF FreshOK, service
  <2> QED
    BY <1>4, <2>1, <2>2
<1>5. ASSUME NEW c \in Clients, Serve(c) PROVE UNCHANGED <<service, eesi>>
  BY <1>5 DEF Serve
<1>6. CASE Crash
  BY <1>1, <1>6 DEF Crash
<1>7. CASE UNCHANGED vars
  BY <1>1, <1>7 DEF vars
<1>8. ASSUME NEW c \in Clients, TaskStep(c)
      PROVE  TaskDownload(c) \/ TaskParse(c) \/ TaskAsks(c)
  BY <1>8 DEF TaskStep, TaskAsks
<1> QED
  BY <1>1, <1>2, <1>3, <1>4, <1>5, <1>6, <1>7, <1>8 DEF Next, Answer

LEMMA GptStepOK == IInv /\ GptInv /\ [Next]_vars => GptInv'
<1> SUFFICES ASSUME IInv, GptInv, [Next]_vars PROVE GptInv'
  OBVIOUS
<1>1. ASSUME NEW r \in Clients, StepOK(r), \A s \in Clients : FreshOK(s)'
      PROVE  GptInv'
  <2>1. ASSUME NEW s \in Clients, s # r PROVE OwnOK(s)'
    BY <1>1, <2>1, OthersKept DEF GptInv, StepOK, Moves
  <2> QED
    BY <1>1, <2>1 DEF GptInv, StepOK
<1>2. ASSUME NEW r \in Clients, GptStep(r), UNCHANGED eesi
      PROVE  GptInv'
  <2>1. StepOK(r)
    BY <1>2, GptStepKeeps
  <2>2. ASSUME NEW s \in Clients PROVE FreshOK(s)'
    <3>1. FreshOK(s) /\ UNCHANGED <<eesiUp, task>>
      BY <1>2 DEF GptInv, eesi
    <3>2. CASE s = r
      BY <1>2, <3>1, <3>2, GptStepStarted DEF FreshOK
    <3>3. CASE s # r
      BY <2>1, <3>1, <3>3 DEF FreshOK, StepOK, Moves
    <3> QED
      BY <3>2, <3>3
  <2> QED
    BY <1>1, <2>1, <2>2
<1>3. ASSUME NEW c \in Clients, TaskAsks(c)
      PROVE  GptInv'
  <2>0. task \in [Clients -> Tasks]
    BY TypeParts DEF IInv, EesiOK
  <2>1. StepOK(c)
    BY <1>3, TaskAsksKeeps
  <2>2. /\ UNCHANGED eesiUp
        /\ \E x \in {"asking third party", "asking", "finished"} : task' = [task EXCEPT ![c] = x]
    BY <1>3 DEF TaskAsks, TaskThirdParty, TaskAsk, TaskFinish
  <2>3. ASSUME NEW s \in Clients PROVE FreshOK(s)'
    <3>1. FreshOK(s)
      BY DEF GptInv
    <3>2. CASE s = c
      BY <2>0, <2>2, <3>2 DEF FreshOK
    <3>3. CASE s # c
      BY <2>0, <2>1, <2>2, <3>1, <3>3 DEF FreshOK, StepOK, Moves
    <3> QED
      BY <3>2, <3>3
  <2> QED
    BY <1>1, <2>1, <2>3
<1>4. CASE UNCHANGED service /\ \A r \in Clients : FreshOK(r) => FreshOK(r)'
  <2>1. UNCHANGED <<ctags, mixed, gpt>>
    BY <1>4 DEF service
  <2>2. ASSUME NEW s \in Clients PROVE FreshOK(s)' /\ OwnOK(s)'
    BY <1>4, <2>1, OthersKept DEF GptInv
  <2>3. SharedOK'
    <3>1. \A s \in Clients : OwnOK(s)'
      BY <2>2
    <3>2. \A t : FileOK(t) => FileOK(t)'
      BY <2>1, ZenonT(60) DEF FileOK, EntriesOK, CoverOK, Complete, AloneOK, Knows, Ahead, ReadingTags, Tag
    <3> QED
      BY <2>1, <3>2 DEF GptInv, SharedOK
  <2> QED
    BY <2>1, <2>2, <2>3 DEF GptInv
<1> QED
  BY <1>2, <1>3, <1>4, OtherSteps

\* The invariant of the GPT service and of those who ask it.
THEOREM GptInvariance == Spec => [](IInv /\ GptInv)
<1>1. Init => IInv /\ GptInv
  BY InitIsOK, GptInitOK
<1>2. IInv /\ GptInv /\ [Next]_vars => IInv' /\ GptInv'
  BY StepIsOK, GptStepOK
<1> QED
  BY <1>1, <1>2, PTL DEF Spec

\* Whatever other requests read the same ctags file, empty its dictionary or
\* stop: a request that nobody read beside finds a definition of its function
\* if the file has one, and the one that the file names unless two requests
\* ever read the file at once (read_function_definition, read_ctags).
THEOREM DefinitionsAreFound == Spec => []DefinitionFound
<1>1. GptInv => DefinitionFound
  <2> SUFFICES ASSUME GptInv, NEW r \in Clients, gpt[r].name # "", ~gpt[r].beside
               PROVE  /\ gpt[r].at = "complete" /\ gpt[r].prompt = 1 =>
                           \A i \in 1..3 :
                             Found(gpt[r].tags, gpt[r].name, gpt[r].found[i])
                      /\ gpt[r].at = "not found" => TagsOf(gpt[r].tags, gpt[r].name) = {}
    BY DEF DefinitionFound, Found
  <2>1. FoundBy(gpt[r])
    BY DEF GptInv, OwnOK, FoundOK
  <2> QED
    BY <2>1 DEF FoundBy
<1> QED
  BY <1>1, GptInvariance, PTL

\* A dictionary that nobody is reading lacks no name of its file and says of
\* each what some tag says; the tag that counts unless two requests ever read
\* the file at once (read_ctags).
THEOREM DictionariesAreComplete == Spec => []CacheComplete
<1>1. GptInv => CacheComplete
  <2> SUFFICES ASSUME GptInv, NEW t \in DOMAIN ctags, ReadingTags(t) = {}
               PROVE  /\ \A n \in DOMAIN ctags[t] :
                           /\ \E k \in TagsOf(t, n) : ctags[t][n] = TagFiles[t][k]
                           /\ t \notin mixed => ctags[t][n] = TagOf(t, n)
                      /\ t \in DOMAIN TagFiles =>
                           \A k \in DOMAIN TagFiles[t] : TagFiles[t][k].name \in DOMAIN ctags[t]
    BY DEF CacheComplete
  <2>1. EntriesOK(t) /\ CoverOK(t) /\ AloneOK(t)
    BY DEF GptInv, SharedOK, FileOK
  <2>2. t \in DOMAIN TagFiles => Complete(t)
    BY <2>1 DEF CoverOK
  <2>3. ASSUME NEW n \in DOMAIN ctags[t]
        PROVE  /\ \E k \in TagsOf(t, n) : ctags[t][n] = TagFiles[t][k]
               /\ t \notin mixed => ctags[t][n] = TagOf(t, n)
    <3>1. PICK k \in TagsOf(t, n) : ctags[t][n] = TagFiles[t][k]
      BY <2>1 DEF EntriesOK
    <3>2. t \in DOMAIN TagFiles
      BY <3>1 DEF TagsOf
    <3> QED
      BY <2>1, <3>1, <3>2, BestIsTagOf DEF AloneOK
  <2> QED
    BY <2>2, <2>3 DEF Complete
<1> QED
  BY <1>1, GptInvariance, PTL

\* Whatever the model replies to the second prompt, the specifications taken
\* from its first reply stay (get_gpt_specifications).
THEOREM FirstRepliesAreKept == Spec => []FirstReplyKept
<1>1. GptInv => FirstReplyKept
  <2> SUFFICES ASSUME GptInv, NEW r \in Clients, NEW n \in DOMAIN gpt[r].first
               PROVE  n \in DOMAIN gpt[r].specifications /\
                      gpt[r].specifications[n] = gpt[r].first[n]
    BY DEF FirstReplyKept
  <2> QED
    BY DEF GptInv, OwnOK, KeptOK
<1> QED
  BY <1>1, GptInvariance, PTL
=============================================================================
