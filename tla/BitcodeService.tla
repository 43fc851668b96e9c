--------------------------- MODULE BitcodeService ---------------------------
(***************************************************************************)
(* The bitcode server's table of registered files                          *)
(* (bitcode/src/bitcode_server.cc) and the RPCs that use it other than by  *)
(* a task: RegisterBitcode, Annotate and DownloadBitcode.                  *)
(*                                                                         *)
(* A file is known by the hash of its bytes, which is modelled by the      *)
(* content itself.  The table maps a hash to the URI it was last           *)
(* registered from, and the file is read again each time it is needed.     *)
(* The table is an unordered_map that the threads of the gRPC server share *)
(* without a lock.                                                         *)
(***************************************************************************)
EXTENDS Naturals, FiniteSets

CONSTANTS
  Callers,      \* who calls the server; each waits for its call to end
  Uris,         \* URIs of files
  Contents,     \* what a file may contain
  Nothing,      \* the content of an empty file
  Length,       \* the number of bytes of a content
  Parses,       \* <<c, n>> for each c whose first n bytes parse as IR
  Annotated,    \* the file that AnnotatePass makes of a content that parses
  Files,        \* the contents that the files may have at first, or Missing
  Missing,      \* in place of the content of a file that does not exist
  kChunkSize,   \* bytes of a chunk
  MaxCrashes    \* bound: how often the server dies and is started again

ASSUME ContentsAssumption ==
  /\ Nothing \in Contents /\ Missing \notin Contents
  /\ Length \in [Contents -> Nat] /\ \A c \in Contents : Length[c] = 0 <=> c = Nothing
  /\ Parses \subseteq Contents \X Nat /\ <<Nothing, 0>> \in Parses
  /\ Annotated \in [Contents -> Contents]
  /\ Files \subseteq [Uris -> Contents \union {Missing}]

ASSUME SizesAssumption == kChunkSize \in Nat \ {0} /\ MaxCrashes \in Nat

VARIABLES
  file,         \* the content of the file at each URI
  held,         \* history: <<u, c>> where the file at u has had content c
  registered,   \* registered_bitcode_files_, a partial function
  crashes,      \* how often the server has died
  raced,        \* history: the table was used while another thread wrote to it
  rpc           \* per caller: its call

table == <<file, held, registered, crashes, raced>>
bitcode == <<table, rpc>>

\* A call.  `id` is a hash, `content` what was read from `uri`, `out` the
\* output of Annotate; `raced` says that another insertion overlapped this.
NoCall ==
  [op |-> "none", at |-> "none", uri |-> Missing, id |-> Nothing, content |-> Nothing,
   out |-> Missing, sent |-> 0, chunks |-> 0, raced |-> FALSE]

At(c, op, at) == rpc[c].op = op /\ rpc[c].at = at

Go(c, at) == rpc' = [rpc EXCEPT ![c].at = at]

Ended(c) == rpc[c].at \in {"replied", "failed"}

Inserting == {c \in Callers : rpc[c].at = "inserting"}

BytesOf(u) == IF file[u] = Missing THEN Nothing ELSE file[u]

-----------------------------------------------------------------------------
(* The calls begin.                                                        *)

RegisterBitcode(c, u) ==
  rpc' = [rpc EXCEPT ![c] = [NoCall EXCEPT !.op = "register", !.at = "read", !.uri = u]]

Annotate(c, id, out) ==
  rpc' = [rpc EXCEPT ![c] = [NoCall EXCEPT !.op = "annotate", !.at = "lookup",
                                           !.id = id, !.out = out]]

DownloadBitcode(c, id) ==
  rpc' = [rpc EXCEPT ![c] = [NoCall EXCEPT !.op = "download", !.at = "lookup", !.id = id]]

-----------------------------------------------------------------------------
(* DoRegisterBitcodeFile, for RegisterBitcode and at the end of Annotate.  *)

\* Mutant of ReadUri: the status of reading the file is ignored.
ReadUriUnchecked(c) ==
  /\ rpc[c].at = "read"
  /\ rpc' = [rpc EXCEPT ![c].at = "insert", ![c].id = file[rpc[c].uri]]
  /\ UNCHANGED table

ReadUri(c) ==
  /\ rpc[c].at = "read"
  /\ rpc' = IF file[rpc[c].uri] = Missing
            THEN [rpc EXCEPT ![c].at = "failed"]
            ELSE [rpc EXCEPT ![c].at = "insert", ![c].id = file[rpc[c].uri]]
  /\ UNCHANGED table

\* The insertion begins; insertions that overlap race.
BeginInsert(c) ==
  /\ rpc[c].at = "insert"
  /\ rpc' = [d \in Callers |->
              IF d = c THEN [rpc[c] EXCEPT !.at = "inserting", !.raced = Inserting # {}]
              ELSE IF d \in Inserting THEN [rpc[d] EXCEPT !.raced = TRUE]
              ELSE rpc[d]]
  /\ raced' = (raced \/ Inserting # {})
  /\ UNCHANGED <<file, held, registered, crashes>>

\* A content that is registered again is from now on read at the new URI.
Inserted(c) ==
  [i \in DOMAIN registered \union {rpc[c].id} |->
     IF i = rpc[c].id THEN rpc[c].uri ELSE registered[i]]

\* An insertion that raced may be lost.
EndInsert(c) ==
  /\ rpc[c].at = "inserting"
  /\ \/ registered' = Inserted(c)
     \/ rpc[c].raced /\ UNCHANGED registered
  /\ Go(c, "replied")
  /\ UNCHANGED <<file, held, crashes, raced>>

-----------------------------------------------------------------------------
(* The table is read, by `find` and `at`.                                  *)

\* A handle that is unknown ends the call: INVALID_ARGUMENT, or the
\* exception of at().  Beside a write, a known one may not be found.
Lookup(c) ==
  /\ rpc[c].at = "lookup"
  /\ LET id == rpc[c].id
         beside == Inserting # {}
     IN \/ /\ id \in DOMAIN registered
           /\ rpc' = [rpc EXCEPT ![c].at = "load", ![c].uri = registered[id]]
        \/ /\ id \notin DOMAIN registered \/ beside
           /\ Go(c, "failed")
  /\ raced' = (raced \/ Inserting # {})
  /\ UNCHANGED <<file, held, registered, crashes>>

\* Annotate does not look whether its file could be read.
LoadAnnotated(c) ==
  /\ At(c, "annotate", "load")
  /\ LET bytes == BytesOf(rpc[c].uri)
     IN rpc' = IF <<bytes, Length[bytes]>> \in Parses
               THEN [rpc EXCEPT ![c].at = "open", ![c].content = bytes]
               ELSE [rpc EXCEPT ![c].at = "failed"]
  /\ UNCHANGED table

\* Opening the output file truncates it.  The call ends when the output URI
\* is no local path or the file cannot be opened.
OpenOutput(c) ==
  /\ rpc[c].at = "open"
  /\ \/ /\ file' = [file EXCEPT ![rpc[c].out] = Nothing]
        /\ held' = held \union {<<rpc[c].out, Nothing>>}
        /\ Go(c, "write")
     \/ Go(c, "failed") /\ UNCHANGED <<file, held>>
  /\ UNCHANGED <<registered, crashes, raced>>

\* Mutant of WriteOutput: the output is registered under the hash of the input.
WriteOutputOnly(c) ==
  /\ rpc[c].at = "write"
  /\ file' = [file EXCEPT ![rpc[c].out] = Annotated[rpc[c].content]]
  /\ held' = held \union {<<rpc[c].out, Annotated[rpc[c].content]>>}
  /\ rpc' = [rpc EXCEPT ![c].at = "insert", ![c].uri = rpc[c].out]
  /\ UNCHANGED <<registered, crashes, raced>>

\* What is written is then read again, hashed and registered.
WriteOutput(c) ==
  /\ rpc[c].at = "write"
  /\ file' = [file EXCEPT ![rpc[c].out] = Annotated[rpc[c].content]]
  /\ held' = held \union {<<rpc[c].out, Annotated[rpc[c].content]>>}
  /\ rpc' = [rpc EXCEPT ![c].at = "read", ![c].uri = rpc[c].out]
  /\ UNCHANGED <<registered, crashes, raced>>

LoadDownload(c) ==
  /\ At(c, "download", "load")
  /\ rpc' = IF file[rpc[c].uri] = Missing
            THEN [rpc EXCEPT ![c].at = "failed"]
            ELSE [rpc EXCEPT ![c].at = "chunks", ![c].content = file[rpc[c].uri]]
  /\ UNCHANGED table

\* Mutant of SendChunk: the loop ends when less than a chunk is left.
SendWholeChunks(c) ==
  /\ rpc[c].at = "chunks"
  /\ LET left == Length[rpc[c].content] - rpc[c].sent
         size == IF left < kChunkSize THEN left ELSE kChunkSize
     IN rpc' = [rpc EXCEPT ![c].sent = @ + size, ![c].chunks = @ + 1,
                           ![c].at = IF left - size >= kChunkSize THEN "chunks" ELSE "replied"]
  /\ UNCHANGED table

\* Mutant of SendChunk: one chunk too many.
SendOneMoreChunk(c) ==
  /\ rpc[c].at = "chunks"
  /\ LET left == Length[rpc[c].content] - rpc[c].sent
         size == IF left < kChunkSize THEN left ELSE kChunkSize
     IN rpc' = [rpc EXCEPT ![c].sent = @ + size, ![c].chunks = @ + 1,
                           ![c].at = IF left >= kChunkSize THEN "chunks" ELSE "replied"]
  /\ UNCHANGED table

\* One turn of the do-while loop: an empty file is sent as one empty chunk.
SendChunk(c) ==
  /\ rpc[c].at = "chunks"
  /\ LET left == Length[rpc[c].content] - rpc[c].sent
         size == IF left < kChunkSize THEN left ELSE kChunkSize
     IN rpc' = [rpc EXCEPT ![c].sent = @ + size, ![c].chunks = @ + 1,
                           ![c].at = IF left > size THEN "chunks" ELSE "replied"]
  /\ UNCHANGED table

-----------------------------------------------------------------------------

\* The server dies and is started again: it knows no handle, and the calls
\* in progress fail.
CrashBitcode ==
  /\ crashes < MaxCrashes
  /\ crashes' = crashes + 1
  /\ registered' = [i \in {} |-> Missing]
  /\ rpc' = [c \in Callers |->
              IF rpc[c].op = "none" \/ Ended(c) THEN rpc[c] ELSE [rpc[c] EXCEPT !.at = "failed"]]
  /\ UNCHANGED <<file, held, raced>>

BitcodeInit ==
  /\ file \in Files
  /\ held = {<<u, file[u]>> : u \in {v \in Uris : file[v] # Missing}}
  /\ registered = [i \in {} |-> Missing]
  /\ crashes = 0
  /\ raced = FALSE
  /\ rpc = [c \in Callers |-> NoCall]

\* The server thread of a call.
BitcodeStep(c) ==
  \/ ReadUri(c) \/ BeginInsert(c) \/ EndInsert(c) \/ Lookup(c)
  \/ LoadAnnotated(c) \/ OpenOutput(c) \/ WriteOutput(c)
  \/ LoadDownload(c) \/ SendChunk(c)

BitcodeTypeOK ==
  /\ file \in [Uris -> Contents \union {Missing}]
  /\ held \subseteq Uris \X Contents
  /\ DOMAIN registered \subseteq Contents
  /\ \A i \in DOMAIN registered : registered[i] \in Uris
  /\ crashes \in 0..MaxCrashes
  /\ raced \in BOOLEAN
  /\ rpc \in [Callers ->
       [op : {"none", "register", "annotate", "download"},
        at : {"none", "read", "insert", "inserting", "lookup", "load", "open", "write",
              "chunks", "replied", "failed"},
        uri : Uris \union {Missing}, id : Contents, content : Contents,
        out : Uris \union {Missing}, sent : Nat, chunks : Nat, raced : BOOLEAN]]
=============================================================================
