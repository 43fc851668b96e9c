# A verification development for EESI

TLA+ models of EESI (`src/ErrorSpecifications`), the tool that infers which
values a C function returns on error, together with the TLC configurations that
check them on small instances and proofs that TLAPS checks for all instances.
Paths below are relative to `src/ErrorSpecifications`.

`PROJECT.json` lists the components, the runs, the theorems, the mutants that
show that each property depends on the code, and for each definition the source
lines it stands for.

## 1. The system

| Component | State | Operations | Talks to |
|---|---|---|---|
| Operations service (`common/src/operations_service.cc`) | `operation_progress_`, a concurrent hash map from names to operations | `UpdateOperation`, `GetOperation` | one instance inside each C++ server |
| Bitcode server (`bitcode/src/bitcode_server.cc`) | `registered_bitcode_files_`; its tasks | `RegisterBitcode`, `Annotate`, `DownloadBitcode`, four RPCs that start a TBB task | operations service |
| EESI server (`eesi/src/eesi_server.cc`) | its tasks | `GetSpecifications`, which starts a TBB task | operations service; downloads from the bitcode server; asks the GPT service |
| GPT service (`gpt/service.py`) | `ctags`, a dictionary of ctags files shared by the request threads | two RPCs that ask a language model, once or twice | the model, files |
| Command-line client (`cli/`) | the local variables of a command | `...All` commands around `wait_for_operations`, single-file commands, printing | both servers, database |
| Database (`cli/db`, `cli/*/db.py`) | MongoDB collections of requests with responses | find, insert, delete | client |
| Data-flow passes (`eesi/src/return_*.cc`, `returned_values_pass.cc`) | facts per instruction | fixpoints over the instructions of a function, in parallel over functions, or over the call graph | each other, error blocks pass |
| Error blocks pass (`eesi/src/error_blocks_pass.cc`) | `error_specifications_` and what explains them | bottom-up walk over the call graph | data-flow passes, language model client |
| Lattices (`confidence_lattice.cc`, `constraint.cc`) | none | join, meet, difference, ... | the passes |

A command sends one request per bitcode file. The server names an operation,
records it as running, enqueues a task and returns the name; the client polls
`GetOperation` until it is done and stores the response in the database, where
later commands find it. The table's writers (RPC handlers and tasks) and its
readers (other RPC handlers) run on different threads, commands run in several
processes, and the EESI server kills itself with `abort()` when what it
downloaded does not parse.

The task of the EESI server runs the passes, one after the other on one thread.
What is hard there is not concurrency but the fixpoint: specifications are cut to
the return range, reduced when they say nothing, joined with those of earlier
rounds, and mixed with the language model's answers, of lower confidence.

What makes each component correct:

* operations service: a finished operation never looks unfinished again; each
  result is handed out once, to a request about the same file;
* servers and client: a command ends; it fails only for a reason; when it does
  not fail, each file has an answer; `max_tasks` bounds the load; only answers
  are stored;
* error blocks pass: it terminates; specifications given by the user do not
  change; inferred ones are proper parts of the return range and never claim
  both an error and no error; certainty is not lost; only error values make a
  block an error block; 0 is not reported for a function for which it is known to
  mean success;
* lattices: the operations agree with sets of signs and keep confidences in
  range;
* data-flow passes: they terminate and over-approximate the values and
  constraints of executions;
* from file to specifications: what is stored for a file was inferred from its
  bytes, all of them; a file is recorded once; a server dies only of what is no IR;
* GPT service: a question is about the definition that the ctags file names,
  and the second prompt only adds to what the first one said.

The hazards found while reading, each at its line, are in `PROJECT.json`.

## 2. Modules

| Module | What it models |
|---|---|
| `ResultPool` | abstract: what the operations table promises |
| `TaskService` | operations service, task RPCs, TBB tasks, abort and restart of the EESI server, `wait_for_operations` and the `...All` commands, result collections; implements `ResultPool` |
| `ConfidenceLattice` | `LatticeElementConfidence` and the operations on it |
| `ErrorInference` | the error blocks pass with the language model's answers |
| `MCErrorInference` | families of small programs for TLC |
| `ErrorInferenceProofs` | theorems about `ErrorInference`, with the language model and without |
| `SignLattice` | the bit tables of `constraint.cc` and the tables of comparisons with constants |
| `DataFlow` | the four data-flow passes, instruction by instruction |
| `Execution` | composes `DataFlow` with runs of the analysed program (LLVM's semantics, external) |
| `MCDataFlow` | families of small programs for TLC |
| `PropagationProofs` | theorems about the walk of the passes and `ReturnPropagationPass` in `Execution` |
| `ExecutionProofs` | theorems about the bit tables of `SignLattice`, and about the kinds of all facts and the numbers of a run in `Execution` |
| `ReturnedValuesProofs` | theorems about `ReturnedValuesPass` in `Execution` |
| `ConstraintsProofs` | theorems about the tables of comparisons and `ReturnConstraintsPass` in `Execution` |
| `RangesProofs` | theorems about `ReturnRangePass` in `Execution` |
| `BitcodeService` | the table of registered files, `RegisterBitcode`, `Annotate`, `DownloadBitcode`, crash and restart |
| `GptService` | the GPT service |
| `Specifications` | composes clients, `BitcodeService`, the task of the EESI server, `GptService` and the database |
| `MCSpecifications` | contents, commands and replies for TLC |
| `SpecificationsProofs` | theorems about `Specifications`, the GPT service included |
| `TaskServiceProofs` | theorems about `TaskService` and its refinement of `ResultPool` |

### TaskService

`service` says which of the two C++ servers the model is; both have the same
protocol, but only the bitcode server reports errors and only the EESI server
aborts. `table` is `operation_progress_`; an entry records besides its status
the request whose task wrote it (`src`) and which member of the `oneof` is
set. `task` holds the TBB tasks, `issued` the names given out. A name is a file
and the second in which it was given out, as in `GetTaskName`; the name of the
RPC is left out since the requests of an `...All` command all use the same one.

Steps are as coarse as the locks of the code make them. `find` returns an accessor
that locks the entry, so that updating a found entry (`UpdateFound`) and
copying and erasing a found entry (`GetOperation`) are single steps.
`insert` after a failed `find` is a separate call, so the two are two steps:
`Submit` then `InsertStarted` for the handler, `FinishMissing` then
`InsertFinished` for the task. The insertion has no effect when the key has
appeared in between.

A client goes through the phases `deleting` (the bitcode commands with `--overwrite`:
`DeleteAll` empties the collection before anything else), `checking` (register and look up each file;
`get_specifications_all` with `--overwrite` deletes the record of the file instead of looking for it, `Deletes`),
`sending` and `polling`. `SkipFile` is the `continue` of `get_specifications_all` for a file whose called or defined
functions are still missing after they were asked for; the requests that collect those are not followed. In each turn
of the loop the registration may raise and end the command (`LoseReply`). The constant `Overwriters` says whose command has the option, the
variable `skipped` which files were given up. Sending an RPC and receiving its reply are
two steps (`Submit`/`Started`, `GetOperation`/`Answered`), so that the server's state moves on
in between and a reply can be lost (`LoseReply`). The client catches no
`RpcError`: it fails. `Unavailable` is a call to a dead server. A command that is
run again is another client.

`answer[c].status = "absent"` is the status INVALID_ARGUMENT, "Operation name
not found.".

### ErrorInference

`program` is the input of the pass: the request (initial specifications, error
and success codes, error-only functions, whether 0 is dropped), the
call graph's components in their order (`IsCallGraph`: callees first, the functions of a component reach
one another, and it has a loop exactly if it has several functions or one that calls itself), and for each block what the data-flow
passes say about it (calls, returned values, constraints). Everything about
values that the pass does not look at is left out: a returned value is its kind,
whether it is returned as such or through a variable, the code it is, and its signs. A
constraint is a set of signs; the eight elements of the sign lattice are the
subsets of `{"lt", "eq", "gt"}`.

`specs` is `error_specifications_`, where `Unknown` stands for no entry;
`domainCodes` is `functions_returning_domain_knowledge_codes_`. The other
variables are the locals of the nested loops: component, function, block,
constraint. Each iteration of the innermost loop is an action
(`VisitConstraint`), as are the head of `VisitBlock`, the end of a block, the
update of a function, the repetition of a component, one answer of the language
model and the step to the next component. An answer is any assignment of
lattice elements to at most `MaxAnswers` functions, those it was not asked
about included; a failed call (`GptModel` returns an empty map) is the empty
answer.

The two hash maps whose order matters are treated so: the order of a block's
constraints is part of the program, and the order of called functions, which
decides the confidence of an answer, is a choice (`Averages`). The ratios, computed in
floating point, give `(9 * average) \div 10` for all confidences 0..100.

Several functions with one source name are one function here. Error and
success codes apply to the program and not to a submodule. Inference sources,
`inferred_with_llm_`, the non-doomed functions and the violations are results
that nothing reads again, and are left out.

### DataFlow and Execution

`DataFlow` is the chain of passes that a task runs before the error blocks pass:
return propagation, returned values, return constraints, return range. A fact
sits between two instructions: `propagation[f][b][i]` is the one after
instruction `i` of block `b`, 0 being the input of the block. `pass`, `scc`,
`fn`, `blk` and `idx` are the position, `changed` the flag of the fixpoint.
Each pass has an action that enters a block (joins its neighbours' facts) and
one for each kind of instruction that it treats on its own;
`Pushed` is what `VisitBranchInst` and `VisitSwitchInst` write into the inputs of the
successors besides their own output. `changed` is set from the output only, as
in the code. What LLVM's verifier guarantees of a module is the assumption
`IsProgram` on the programs: operands and successors are as many as an
instruction has, a block ends with its only terminator. `ReturnRange` runs bottom-up over the components of the call graph
and repeats a recursive one until no range changes.

`SignLattice` keeps the eight-bit encodings of `constraint.cc`, so that `Meet` and
`Join` are what the bit operations compute, not what they should. `Execution`
supplies what the passes are about: the functions run, any number of times,
with any `Inputs`, on integers of `2 * Half` values. A run that reads a value it
has not got (an uninitialized variable) is undefined behaviour of the analysed program and
not followed any further (`ExecUndefined`). The phis of a block read their operands at the same
time, on the edge to the block (`arriving`), as in LLVM.

Memory. The passes use one name, that of an `alloca`, for a variable's address and for its content; a run
keeps them apart. `env[v]` is what the variable `v` holds, and where an instruction reads the name itself as a number
it gets `Address`. Loads and stores that name a variable are `ExecLoad` and `ExecStore`. Everything else goes through a
pointer (`ExecLoadThrough`, `ExecStoreThrough`): into a structure (`ExecGep`), a global, or memory that a call has
returned. What such memory holds is not tracked and may be anything at each read. A variable whose address the function gives away, to
a call, to `getelementptr` or by storing it, is `Exposed`, and a callee, or a store through a pointer, may then write
any number to it (`WriteExposed`): `int ret = 0; g(&ret); return ret;` returns anything.

Besides its numbers a run keeps history variables that no
action reads:
`origin` (the call or constant a number came from), `trail` (the points at
which a name held it), `last` (what each called function returned last),
`misread` and `excuses`. The last two say where the passes are known not to
follow the run; the properties then claim nothing:

* `misread`: constraints are kept by the name of the called function, so a test
  of an earlier result of `g` is taken for one of its last; and the default
  block of a `switch` is given BOTTOM for the tested functions
  (`return_constraints_pass.cc:325-327`);
* `"wrapped"`: a truncation changed the sign of a number;
* `"unsigned"`: a negative number was compared as an unsigned one;
* `"stale"`: the variable was overwritten between the load and the branch;
* `"written"`: a variable was written to by a callee or through a pointer;
* `"pointer"`: something was read through a pointer whose result the range pass claims to know;
* `"phi"`: the run met a phi, after which the propagation pass has forgotten what it knew.

`PropagationSoundBeforePhi` needs only the last, `ConstraintsSound` `misread` and `"unsigned"`, `ReturnedValuesSound`
none, and `ReturnRangeSound` all but `misread` and `"phi"`. `ReturnRangeSound` says nothing either of a function that
reads through a name which it also uses as a number (`Apart` is false), as a phi or a cast of a pointer that is dereferenced, or a pointer
that is loaded through and compared under one name: what the fact has under that name is then at one time about the
pointer and at another about what it points to.
The three about memory are where the pass is unsound against its own documentation; the run `memory` takes them away.

### BitcodeService, GptService, Specifications

A file is known by the hash of its bytes, modelled by the content itself:
`registered` maps contents to the URI they were last registered from, and is the
`unordered_map` that the gRPC threads share without a lock. So an insertion is two steps (`BeginInsert`,
`EndInsert`); insertions that overlap may be lost and a lookup beside one may
fail. Files change under the handles, since `Annotate` writes its output in
place (`OpenOutput` truncates, `WriteOutput` writes). `rpc[c]` is the call of
client `c`, or of its task: what has been read from the file, and how much of it
was sent.

`GptService` has one record per request. `ctags` is `self.ctags`, a dictionary that all
request threads share without a lock, so each access to it is a step: `CheckCache` and
`ResetCache`; for each tag the tests whether its name is there (`ReadTag`) and whether the
tag there is in a header (`IndexTag`), and the storing (`StoreTag`); and the three lookups
of the definition (`FindDefinition`, once each for file name, first and last line). If another
request has emptied the dictionary between the two tests, the second raises a `KeyError`
(`LoseTag`), which `GetGptSpecification` takes for that of a name without a tag (`NotFound`). A tag is
known by its name, whether its file is a header, and its lines; tags whose file does not
exist or whose lines are missing are left out. `found` are the tags that the three lookups gave.
`completion_with_backoff` is `FailCompletion`, an attempt
that fails, and `FirstReply` or `SecondReply`. A reply is lines of a name and a
text; what the parser does with each text is in `FirstSpecifications`, where the last line
about a name counts, and `SecondSpecifications`, where the first does and names of the
first reply are skipped.

`Specifications` is `get_specifications_uri` and the calls of a client that annotates a file and then asks about it
(no command does; the order of the calls is that of the test, `bitcode/test/bitcode_service_test.cc:181-192`): `phase`
names the calls of a command in their order (look up the file name, register,
record, register again, delete if overwriting, look for stored specifications, submit, collect). Each database call is a step of its own.
The task downloads, parses, asks about third-party functions (which the
code does even if no language model was named), asks about a function if one was,
and finishes. `TaskParse` is where the server dies: the status of the
stream is not looked at, what has arrived is parsed, and `abort()` ends all tasks.
`held`, `raced`, `crashes`, `overtakes`, `beside` and `mixed` are history: which contents a
URI has had, and whether something happened at the same time that explains a
result (`beside`: another request was reading the file when this one looked its definition up;
`mixed`: two requests have ever read it at once). `TaskService` has the operations table that lies between `Submit` and
`Collect`; here the client sees that its task has ended.

## 3. Runs

| Run | Instance | Checks | Result |
|---|---|---|---|
| `taskservice` | 2 clients, one of them overwriting, 2 files, `max_tasks` 1, seconds 0..1, no lost reply, 1 file given up, 1 restart | `TypeOK` `NoFalseFailure` `DoneMeansStored` `LoadBounded` `NeverUnfinished` `ImplementsPool` | hold; 1.1 million states |
| `taskservice_liveness` | the same with seconds 0..0, 1 lost reply and no file given up | `NoFalseFailure` `DoneMeansStored` `ClientsTerminate` | hold; 279,000 states |
| `names` | seconds 0..1, nothing lost | `NamesUnique` | violated |
| `errors` | 1 client | `OnlyResponsesStored` | violated |
| `inference` | 4 functions, all programs of `MCPrograms` | `TypeOK` `InitialSpecsKept` `WithinRange` `EmptysetExclusive` `CertainKept` `ChangesAreProgress` `OnlyErrorsPropagateWithoutLlm` `TerminatesWithoutLlm` | hold; 0.6 million states |
| `recursion` | one program, language model | `Terminates` | violated |
| `emptyset` | one program, language model | `OnlyErrorsPropagate` | violated |
| `zero` | `StaticPrograms` | `ZeroIsSuccess` | violated |
| `dataflow` | all programs of `MCDataFlow`, integers -4..3, inputs -2..2 | `TypeOK` `PropagationSoundBeforePhi` `ReturnedValuesSound` `ConstraintsSound` `ReturnRangeSound` `AnalysisEnds` | hold; 38,000 states |
| `memory` | `MemoryPrograms` | `MemoryInRange` | violated |
| `specifications` | 2 clients, 2 files, 5 contents, 1 crash, 5 groups of scenarios | `TypeOK` `StoredAreOfFile` `DownloadsWhole` `ServerSurvives` `HandlesResolve` `UriRecordedOnce` `DoneMeansStored` `DefinitionFound` `CacheComplete` `FirstReplyKept` `CommandsEnd` | hold; 328,000 states |
| `headers` | the same | `SourcePreferred` | violated |

Bounds. With two clients and two files two requests can share a name (same
file, same second), have distinct names (another second), and concern
different files. Requests interact only through an entry of the table that they share,
where one of the others writes last or reads first, so two clients produce each
kind of interference; `TaskServiceProofs` has the larger instances. `max_tasks` 1 with two files makes the sending loop break, so that it is
entered again; one restart gives a table that has forgotten names that are
still polled. `Overwriters` are the clients whose command has `--overwrite` (with one that does and one that does not, a
record disappears from under a command that has stored or found it), `MaxSkipped` how many files are given up. The
liveness run gives all requests for a file one name, the worst case for a client that waits, and has an overwriting client, a lost reply
and a crash; the second clock value and the file given up are left to `taskservice`, which in turn has no lost reply
(with all of them in one instance the search takes too long). `TaskServiceProofs` covers them together.

The programs have a function with an initial specification, one without a body
that the language model may describe, and two that call each other in a
component with a loop; their blocks are drawn from thirteen shapes, chosen so
that each branch of `VisitBlock` and `UpdateErrorSpecification` is taken. In a
component of two, each can be the caller whose specification the other's shrinking
invalidates.

The programs of `MCDataFlow` have up to six blocks and three functions: a check of a
result with each predicate, on either side, against -1, 0 and 1, after a load
or right after the store; overwritten variables, loops, blocks out of order,
phis (also two that read each other), two calls of one name, switches, mutual recursion, casts, variables whose address is given to a call, stored or indexed, fields, globals and error pointers.
They visit each instruction kind in each pass. Signs have three classes, so
-1, 0 and 1 give all answers of the comparison tables, and inputs -2..2 put numbers on both sides
of each constant; with -4..3 a truncation to two bits can change a sign. The fact
lattices are finite and the programs' loops are shorter than the chains in them.

The contents of `MCSpecifications` are an empty file, text IR of three bytes whose
first two parse too, bitcode of two whole chunks, annotated nothing of one
chunk, and one byte that does not parse: a download that is empty, ends inside,
or ends on a chunk. The scenarios put two commands on one file (one of them overwriting), a
file that does not parse next to one that does, a file beside its annotation in place,
an annotation that overwrites another command's file, and two URIs with one content; the ctags file has a header, two source files and a header for
one function, in this order, so that each kind replaces and follows each, and its two readers
can be anywhere in it;
the crash may come at each step while a client needs the server.
Two clients suffice for each race, since a race is between two
accesses. `Attempts` is 2 instead of 3: one attempt that is followed
by another and one that is not.

Fairness. `Fairness` of `TaskService` says that a client process and an RPC handler that
can run do run and that TBB runs every enqueued task. It does not say that a
server is restarted, that the clock moves or that a reply is lost. `FairSpec` of
`ErrorInference` says that the single thread of the pass runs on, as does that of `Execution` (for
`Analyse`, nothing is assumed of the program that is analysed). `FairSpec` of
`Specifications` has weak fairness for each client, task and server thread;
for the GPT service it includes that a call of the model's client library
returns or raises. Deadlock checking is off where commands and passes end.

### What the violated properties show

* `names`: time stamps of one second do not make names unique
  (`operations.proto:34-35`, `servers.cc:170`). One client then polls away the
  result of the other, which fails with "Operation name not found." The other
  properties of `TaskService` are stated with this as an excuse where they need
  one.
* `errors`: the client unpacks the response of a task that reported an error and
  stores an empty answer, which later commands take for an answer
  (`cli/bitcode/db.py:320`, `operations.proto:47-49`).
* `recursion`: with the language model the fixpoint of a recursive component
  need not be reached (`error_blocks_pass.cc:190-197`): a sign of low confidence
  is dropped when the specification covers the whole range, its absence makes
  another block stop contributing, and in the next round it is joined in again.
* `emptyset`: the answer "returns no error" is an empty-set confidence of 50, which
  `IsEmptyset` does not recognise (`confidence_lattice.h:206-209`), so a check of
  such a function still makes a block an error block.
* `zero`: 0 is dropped from what a function that returns status codes is
  updated with, but not from what was stored in an earlier round
  (`error_blocks_pass.cc:1322-1324`, `:1503-1508`).

* `memory`: `ReturnRangePass` has no case for calls (`return_range_pass.cc:210-212`), so it keeps the range of a variable over
  a call that is given the variable's address. `int ret = 0; g(&ret); return ret;` gets the range {0}, and what comes
  back through the out-parameter is never taken for an error. The comment at `return_range_pass.h:14-15`
  says that the facts have "the possible ranges that returned values can take on at a particular point of the program".
  The other excuses that the property takes away break it too, each by itself: a branch on a loaded number is taken for a test of the variable
  (`return_range_pass.cc:423-442`), also when the variable has been overwritten since, as in `if (ret-- < 0)`; and a load takes over what the
  fact has of its operand (`:252-253`), for a pointer that was loaded the range of the pointer itself, so that after
  `if (x == NULL) return -1;` the content of `*x` is taken to be not zero.

* `headers`: `read_ctags` tests whether a name has a tag in a source file and stores the
  next tag later, so a request may store a header over the source file that another has
  stored since, against the comment at `gpt/service.py:227-229`. The dictionary is never read
  again, so all later questions show the model the declaration. `DefinitionFound` and
  `CacheComplete` are stated with this as an excuse (`mixed`).

Other observations that are no property: `VisitPHINode` of the propagation pass does not copy its input fact to
its output, unlike the other visitors (`return_propagation_pass.cc:205-217`), so what was known of variables before a phi is
forgotten after it (hence `PropagationSoundBeforePhi`); the lookup of an answer (`cli/bitcode/commands.py:173`) and its insertion are two
database calls, far apart, so two commands that run at once both store one, and nothing checks what the comment at
`cli/bitcode/db.py:202-203` says is checked; `wait_for_one_operation` and the
`Checker` are never called; `cli/eesi/commands.py:109` ends in a comma, which
makes the called functions a tuple that is never false; in
`LlmExpandThirdPartyErrorSpecifications` `updated_spec` takes over `updated`, so
that after a first update each function of the answer counts as inferred by the
model; `constraint.h:26` speaks of a nine-element lattice that has eight.

On the way of a file to its specifications:

* an unknown handle or a file that cannot be read gives an empty download, which
  LLVM parses as an empty module: empty specifications are stored for the file, and
  later commands find them. `StoredAreOfFile` says when this may happen;
* a part of a text file may parse as a smaller program; a part of anything else
  makes `abort()` end the tasks of all clients;
* `Annotate` ignores the status of reading its file (`bitcode_server.cc:342`) and writes
  an annotated empty module if it is missing;
* registering a content again redirects its handle to the new URI;
* with initial specifications and an unregistered file, the trailing comma of
  `cli/eesi/commands.py:109` passes a tuple to `get_applicable_specifications`, which
  looks up attributes of a response in it (`domain_knowledge_handler.py:244-247`);
* `get_specifications_all` gives no ctags file, so the first request about a function
  raises on opening it and later ones find an empty dictionary;
* while another request reads the ctags file, file name and line numbers may come from two
  different tags; if the second prompt fails, the specifications of the first
  reply are lost; `"null"` is understood in second replies only.

## 4. Proofs

`ErrorInferenceProofs` proves, for every set of functions and of programs and every
answer of the language model:

| Theorem | Statement |
|---|---|
| `Invariance` | `Spec => []IInv` |
| `TypeCorrectness` | `Spec => []TypeOK` |
| `InitialSpecsAreKept` | `Spec => []InitialSpecsKept` |
| `SpecsAreWithinRange` | `Spec => []WithinRange` |
| `EmptysetIsExclusive` | `Spec => []EmptysetExclusive` |
| `CertaintyIsKept` | `Spec => CertainKept` |

The assumptions are those of `ErrorInference`: `Functions` is finite, `Programs` is a set of
programs, `AnswerSigns` a set of lattice elements; TLC evaluates them in each run.

None of the invariants is inductive. `EmptysetExclusive` of `specs` needs that
the partial sum of a function never claims the empty set (`sum.none` is 0: an
empty-set block is not joined in, and a block with signs and an empty-set
confidence drops the latter in `Join`); `WithinRange` needs that the stored specification, the delta and the range
have their types; and `TypeOK` needs that the position of the pass is in the
component while a function or block is visited, since the block is looked up
there. `IInv` adds these.

The argument has two layers. Lemmas about the lattice give the type of each operator
(`ConfidenceType`, ..., `AverageType`, `LlmConfidenceType`). The core is
`UpdatedIsOK`, about `UpdateErrorSpecification`:
whatever is joined in, the result is either what was stored or a proper part of
the range that has all signs of confidence 100 that were stored. That holds because the
update is refused when all signs of the range are certain, so `RemoveLowestNonMin` and
`KeepIfMax` only remove signs that are not. `StepSpecs` and `SpecsPreserved` lift this
to any step that writes `specs` through `Updated`, which the three writers
(`UpdateFunction`, `ThirdParty`, `LlmExpand`) all do. One lemma per action then
shows that `IInv` is kept. `CertainKept` is proved from `IInv` step by step.

The second part of the module is about requests that do not ask the language model
(`~program.llm`), for every set of programs:

| Theorem | Statement |
|---|---|
| `StaticInvariance` | `Spec => [](IInv /\ Static)` |
| `StaticChangesAreProgress` | `Spec => ChangesAreProgress` |
| `OnlyErrorsPropagateStatically` | `Spec => OnlyErrorsPropagateWithoutLlm` |

`Static` says that specifications and partial sums have no confidences but 0 and 100. Together with
`IInv` it is inductive, because every lattice operation keeps it (`BinaryOperators`); then a sign
that is believed at all is certain, an update that covers the range is refused, and the growth of
certain signs, which `UpdatedIsOK` gives in general, is the growth of the specification.
`OnlyErrorsPropagateWithoutLlm` is true for the same reason, as `IsEmptyset` looks for a confidence of 100;
with the model it is false, which is the run `emptyset` of `OnlyErrorsPropagate`. `ChangesAreProgress` is the ranking
argument behind `TerminatesWithoutLlm`: each change of a specification moves it up in an order of finite height.
That the order ends the fixpoint is liveness and stays with TLC.

`SpecificationsProofs` proves, for every number of clients, files, contents and
crashes, every chunk size, every set of scenarios and every answer of the GPT service:

| Theorem | Statement |
|---|---|
| `Invariance` | `Spec => []IInv` |
| `TypeCorrectness` | `Spec => []TypeOK` |
| `StoredSpecificationsAreOfFile` | `Spec => []StoredAreOfFile` |
| `DownloadsAreWhole` | `Spec => []DownloadsWhole` |
| `ServerAbortsForAReason` | `Spec => []ServerSurvives` |
| `HandlesAlwaysResolve` | `Spec => []HandlesResolve` |
| `UrisAreRecordedOnce` | `Spec => []UriRecordedOnce` |
| `DoneCommandsHaveStored` | `Spec => []DoneMeansStored` |

The assumptions are those of `BitcodeService`, `GptService` and `Specifications` (only the
empty content has length 0, it is parsed as an empty module, the crashes of a scenario
are bounded); TLC evaluates them in the run `specifications`.

The properties speak of what is stored, while what decides it is spread over a client,
its call and its task. `IInv` therefore adds, per client:

* `TypeInv`: which kind of call can be at which place, and what its fields hold there;
* `FilesOK`: every file that exists has its content in the history `held`;
* `PhaseOK`: a task that downloads has a client that waits and a call that is a download;
  no second call of the client can overwrite it;
* `HandleOK`: the URI and the hash of a call belong together in `held`, and what
  `RegisterBitcode` answered is in the table unless the server has crashed or threads raced;
* `DownloadOK`: what was sent is a whole number of chunks of one content of the handle's
  URI, short of its end while the loop runs, and a download fails only for a crash or a race;
* `ReceivedOK`: `StoredAreOfFile` of what a task has received but not stored yet;
* `InsertOK`: a client that is about to insert a record has met whoever made one since.

There is one lemma per part, with one case for each kind of step: client, task, service
thread, crash, GPT step. Since `held`, `crashes` and `raced` only grow
(`HistoryGrows`), a step of another client keeps whatever a part says. `ChunkSent` is the
arithmetic of the do-while loop in `DownloadBitcode`. `DownloadedIsOfFile` is the core:
a finished download is the whole content of the handle's URI, or nothing or less than
everything after a crash or a race, or the content that replaced it; `StoredAreOfFile` and
`ServerSurvives` both follow from it.

Of the GPT service, the module proves for every ctags file, every set of replies and any
number of requests that empty, fill and read one dictionary at once:

| Theorem | Statement |
|---|---|
| `GptInvariance` | `Spec => [](IInv /\ GptInv)` |
| `DefinitionsAreFound` | `Spec => []DefinitionFound` |
| `DictionariesAreComplete` | `Spec => []CacheComplete` |
| `FirstRepliesAreKept` | `Spec => []FirstReplyKept` |

A reader proves nothing of a shared dictionary by itself: whatever it has stored, another may
have emptied the dictionary since. `GptInv` therefore says of each dictionary:

* `EntriesOK`: its entries are tags of the file;
* `CoverOK`: it has all names of the file, or somebody reads the file who has missed none so far
  (`Ahead`). A request that empties the dictionary becomes such a reader, and one that hits a
  `KeyError` is not: so when it stops, the other one is still there, and the last reader to come
  to its end has missed no name;
* `AloneOK`: while no two requests have read the file at once, its one reader knows the tags that count
  among those it has passed (`Best`), and replaces nothing but headers (`Knows`). Without
  `mixed` this is false, which is the run `headers`.

Per request, `FoundOK` says that what was looked up is the tag that counts, `ReaderOK` and
`StartOK` where a request stands, `KeptOK` that the specifications of the first reply are still
there, and `FreshOK`, which needs `PhaseOK` of `IInv`, that a task finds no request of its client
under way. There is one lemma per action; `OthersKept` and `FileKept` carry the other requests and files,
`ReaderStep` the readers. Which tag or which line of a reply counts is stated by positions, as the first or the last of a
set of numbers; `Least` and `Greatest` get these from the well-foundedness of the order
on the natural numbers.

`TaskServiceProofs` proves, for every number of clients, ids, tasks, seconds, crashes and lost replies:

| Theorem | Statement |
|---|---|
| `Invariance` | `Spec => []IInv` |
| `TypeCorrectness` | `Spec => []TypeOK` |
| `FailuresHaveAReason` | `Spec => []NoFalseFailure` |
| `DoneCommandsHaveStored` | `Spec => []DoneMeansStored` |
| `LoadIsBounded` | `Spec => []LoadBounded` |
| `FinishedIsFinal` | `Spec => NeverUnfinished` |
| `TableImplementsPool` | `Spec => ImplementsPool` |

The assumptions are those of `TaskService`: there are clients and a finite set of ids (the files
of a command are a list), `MaxTasks` is at least 1 and the bounds are numbers. A client's failure is decided long before it is seen: a name is
given out, a task is enqueued, another command asks for the same name, and only then does
the client poll. `IInv` therefore follows a request through the system. Its parts are, per client:

* `PhaseOK`: the lists of the client are disjoint and fit its phase and its call;
* `SentOK`: a request on `toSend` has no name, or is the one whose call is under way, and a
  call that has not reached the executor has no task;
* `AnswerOK`: an answer that is "not found" has a crash or a collision behind it; a finished
  one was published by a task for the same name;
* `ExpectedOK`: the operation of each request that the client still has to find is in
  the table, unless the server has crashed or the name is shared. This is the core; it needs
  `NamesOK` and `EntryOK` (a finished entry was published for a request of its name), since the
  only other step that erases an entry is the `GetOperation` of its own client;
* `StoredOK`: each file is on one of the lists, was given up, has a record, or has lost it to a command with
  `--overwrite` that has not stored its own since (`Deleted`); `DeletedKept` and `RecordsKept` say what each step leaves of
  that: a command that deletes puts the file on its list in the same step, and takes it off with a record, or fails;
* `ActiveOK` and `WindowOK`: the active tasks are among the requests waited for and the last call,
  which are at most `MaxTasks`. The code tests `len(operations)` before it
  appends, so the call under way has to be counted.

`HistoryGrows` and `TableChanges` say what every step does to names and entries; the lemmas of
the parts then have one case for each handler, client step, task step, crash and tick. The
refinement maps `published` of `ResultPool` to the requests whose task has published and `pool` to the sources of
the finished entries, no two of which have the same one (`HeldOnce`); `PoolStep` shows that each step publishes one result, hands
out one that is held, loses some (restart, or the overwriting of a finished entry) or stutters.

`ExecutionProofs` first proves that `Join`, `JoinAll`, `Meet` and `Intersects`, computed with bit strings
as in `constraint.cc`, are union, intersection and having a common sign; the other proofs use these and
never look at a bit.

`PropagationProofs`, `ExecutionProofs`, `ReturnedValuesProofs`, `ConstraintsProofs` and `RangesProofs` are about
`Execution`, for every set of programs that satisfies `IsProgram`, all constants, word sizes and inputs. The rows about
constraints assume in addition that each program satisfies `TestsWhereComputed`, the last two that it is `WellFormed`:

| Theorem | Statement |
|---|---|
| `FixpointInvariance` | `Spec => []IInv` |
| `OriginsAreKnown` | `Spec => []PropagationSoundBeforePhi` |
| `TypesInvariance` | `Spec => []TypesInv` |
| `TypeCorrectness` | `Spec => []TypeOK` |
| `ReturnedInvariance` | `Spec => []ReturnedInv` |
| `ReturnedValuesAreKnown` | `Spec => []ReturnedValuesSound` |
| `ConstraintsInvariance` | `Spec => []ConstraintsInv` |
| `ConstraintsAreKept` | `Spec => []ConstraintsSound` |
| `RangesInvariance` | `Spec => []RangesInv` |
| `ReturnRangesAreSound` | `Spec => []ReturnRangeSound` |

That a run agrees with the facts is not inductive: it is true only once the pass has ended, and
because its facts are then a fixpoint. `PropagationOf` is what a visitor makes of
the facts before and after an instruction, and a function is `Stable` if each point has
what its visitor would put there and each entry what the ends of its predecessors hold.
While a round is under way and nothing has changed, what it has `Visited` is stable (`StableSoFar`);
`Step` restarts the round if something changed, so at its end the whole function is stable
(`LeavesStably`), and stays so, as later steps write to other functions or to other passes'
facts (`LeftKept`). The join at the entry of a block does not count as a
change; that is harmless, as the whole block is visited after it in the same round, and an end that grows
later in the round does count. For a run, `FactsAtRun` then gives the fact
after an instruction in terms of the one before, and each instruction, except a phi, keeps
`RunOK`. `VisitPHINode` does not, so for them nothing is claimed.

`TypesInv` adds that the facts of each pass are of the pass' kind, which is a matter of which
operands an instruction has (`Operands`), of partial functions (`Partial`) and of
`Pushed`, that writes into several blocks at once; that only functions which return something have a range;
and that a run's numbers, and those that arrive at the phis of a block, are words.

`ReturnedInv` is the same argument for a backward pass, with a difference that matters. A point is
settled if the fact before the instruction is what its visitor makes of the fact after it
(`ReturnedOf`), and the end of a block if it has what its successors begin with. While nothing has changed in a round, all
that was passed is settled. But `VisitPHINode` also writes its operands into
the ends of other blocks, and that does not count as a change; if it could add something in
a round that counts none, the pass would stop too early. `ReturnedFixpointOK` says why
it cannot: at any time each phi that may be returned has its operands in those ends
(`OperandsKnown`), or it became returnable in this round, by a change in its own block that has
counted, and the visit is still ahead (`Pending`). For a run, `TrailsOK` says that a name which may be returned from where the run stands may be
returned, under the name of the time, from every point where its number was held, across
slots, conversions and phis; what arrives at a phi has the trail it had in the
block it came from. At a `ret` this is `ReturnedValuesSound`.

`ConstraintsInv` has the same two parts, `ConstrainedOK` for the fixpoint and `RunsConstrained` for a run. The pass goes forward, but a branch
or a switch pushes what a test gives into the entries of its successors (`GivenOK`), and neither that push nor the join at an entry
sets `changed`. That the pass still does not stop too early is shown as follows: what the terminator of a visited block gives has reached
the successors, or the terminator is yet to be visited in a round in which
something has changed already (`Ahead`). This is why the side condition is needed. The fact that a test
looks at changes, and is counted, at an instruction of the block that the test ends; if the comparison were made
in another block, or the switch stood alone, only an entry could change, the pass would take no further round,
and the successors would keep the narrower constraint. For a run, `Satisfy` says that what each function
returned last satisfies the fact where the run stands, and `Compared` that a comparison just made is
remembered as it was, so that the branch after it is taken accordingly. `AbstractICmpSound` states that the table of
comparisons, signed or not, with the constant on either side, gives a constraint that the compared number satisfies.

`RangesInv` has the fixpoint, `RangesOK`, and the run, `RunsRanged`. Three things make it different from the other
passes.

* The pass looks at the ranges of the callees. What a function is stable under (`SameFor`) therefore includes what is
  stored of them, which changes when another function of the same component returns something new. While that has happened in
  a round over a component with a loop (`Unsettled`), the functions already left need not be stable, as the component is
  visited again; it is left only after a round that moved nothing (`LeavesRanged`). For callees in other components
  the order of the components is what counts (`CalleesFirst`). `RetMoves` shows that a `ret` that adds a sign is noticed
  by the comparison with `original`: what is stored of a function only grows (`Grown`).
* A test does not hand its knowledge on through its own output, as it removes the variable there
  and joins the narrowed element into the successors' entries. `RangesGivenOK` is `GivenOK` of the
  constraints; `LearntSame` shows why the entry of a block that is nothing but its test, which changes without
  `changed` being set, does no harm. An entry may still receive something after its block has been visited for the last
  time: a block that knows a variable joins it into one that does not. The instructions of the
  block are then stable under the fact with which it was entered, not the one that is there at the end. `First` says
  that such a fact exists and has all that the predecessors give (`Gathered`); to claim stability under the final
  entry fact would be false.
* Hence a run at the first instruction of a block is known to agree with every gathered fact (`FactsAt`), and after
  it with the fact stored. The theorem follows the numbers of `Slots`: variables that are loaded or stored to, and
  what loads, casts and phis compute, unless the function reads or stores through it. A fact may be about other names too, the
  pointers among `Addresses`; of these nothing is claimed. That a number which is read was a slot, or is given by its
  definition (`ComputedIn`), is where `Apart` is needed; no hypothesis says that addresses are
  those of variables, so stores into fields, elements and globals are covered. Phis are visited one after the other though they are read at once: what arrives at a phi that has yet to
  be visited is in the element of its operand, and if the operand is a phi of the same block, also in that of
  the phi (`ArrivesIn`), whichever of the two numbers the fact is about by then.

At a branch, `EdgeRanged` and `EdgeArrives` show that the edge gathers what the run brings along, `BranchTests` that the
variable which the pass narrows has the sign that the comparison found, as long as it still is what was
compared; a run for which this is false has the excuse `"stale"`. `ReturnsInRange` is then `ReturnRangeSound`,
and makes what later calls of the function return satisfy what the pass assumes of them.

The hypotheses about programs are in `Execution`. `TestsWhereComputed` describes what clang emits without optimisation, as the tool's
documentation has it called
(`src/ErrorSpecifications/README.md:300`): a comparison comes directly before the branch on it, a switch does not stand alone in its block, no
comparison is its own operand, and a null pointer is compared for equality only (`AbstractICmp` swaps an ordering
predicate with a null pointer on the left twice). `WellFormed` adds:

* `NamesOnce`, `PhisFirst` and `VoidsUnused`, which LLVM's verifier makes sure of;
* `CalleesFirst`, the order in which LLVM's iterator gives the components of the call graph: without it the
  range of a callee would be read before it is computed, and not be read again.

The passes do not check any of this. TLC evaluates it on the programs of `MCDataFlow` (`MCProgramsAssumption`), those with
phis, loops and recursion included. That an instruction is reached before its operands have a value need not be excluded:
a run that reads what has no value goes no further.

Model-checked and not proved: `TerminatesWithoutLlm`, `ClientsTerminate`, `AnalysisEnds` and `CommandsEnd`, which are liveness under
fairness and out of the prover's reach. Every invariant and action property of the passing runs has a theorem.

No module declares a RECURSIVE operator.

## 5. Plan and limits

Done: the tasks and operations, the error blocks pass, the data-flow
passes, the way of a file to its specifications, each with its proofs. Left: one run that feeds `ErrorInference` from `DataFlow`.

Not modelled:

* in `Specifications`: the 10 threads of the gRPC pool (a call has a thread),
  URIs in cloud storage, connections that break without a crash, the
  prerequisites that collect called and defined functions, initial
  specifications, the restart of the EESI server (`TaskService` has it), files that are
  deleted; what the model answers is in `ErrorInference`;
* in `TaskService`: the requests for called and defined functions with which `get_specifications_all` fills
  what is missing (`_setup_called_functions`), each one more `wait_for_operations` about one file; what they come to is `SkipFile`;
* in `Execution`: what memory other than a function's own variables holds (a read may give anything, so no property speaks of
  values that travel through it), an access to a variable at another width than its own, threads of the analysed program;
* in `DataFlow`: several functions of one name, floating point;
* the bitcode passes, `Checker`, the additions to the call graph, the helpers for LLVM,
  printing and configuration files, prompts, generated code, build and docker files, for
  the reasons given in `PROJECT.json`.
