# A TLA+ model of topo-core

This directory holds TLA+ specifications of topo-core, the TLC configurations
that model-check them, and TLAPS proofs about all but three of them. Every definition
follows the C++ sources under `src/`; `PROJECT.json` maps each of them to the
lines it stands for. Paths below are relative to the repository, and a file
name without a directory is one that occurs only once there.

Contents: [the system](#1-the-system) ·
[what is modelled](#2-the-modules) · [runs](#3-the-runs) ·
[bounds](#4-bounds-and-why-they-are-enough) · [fairness](#5-fairness) ·
[proofs](#6-what-is-proved) · [observations](#7-observations) ·
[what is left out](#8-what-is-not-modelled-and-why) · [what is left](#9-what-is-left) ·
[running](#10-running-the-checks)

## 1. The system

topo-core is the common part of the Topo tool chain. A `.topo` file declares
functions, their visibility, priorities, pipelines and types; the front end
parses and analyses it; checks compare it with the symbols of a host program
(found by a language server or an extractor); backends, which are separate
programs kept in a local cache, generate code; the rest are tools around this:
a debugger front end, profile converters, evidence about builds, a formatter.

| component | state it keeps | operations | interacts with | what is hard |
|---|---|---|---|---|
| **PipedProcess** (`lib/Platform/Process.cpp:1102-1480`) | slot table, per impl: `started`, `stdinClosed`, `ctlMutex`, reproc handle; `exitStatus_` | `start`, `write`, `read`, `readByte`, `closeStdin`, `stop`, `isRunning`, `exitCode` | used by LSP bridge, transpile driver, topo-debug; a child process | a reader, a writer and several control threads share a handle that may be started again |
| **Bounded capture** (`Process.cpp:562-1035`) | the result, two non-blocking pipes, a process group | `captureProcess` | extractors and backends as tools | limits and deadline race the tool's output and its exit; descendants |
| File lock, temporary files (`FileLock.cpp`, `TempFile.cpp`) | a descriptor; a path | lock with timeout, create, remove | nothing in `src/` uses the lock | retry loops, left-overs |
| Analysis process and sandbox (`AnalysisProcess.cpp`, `AnalysisLauncher.cpp`, `LinuxAnalysisSandbox.cpp`) | limits, a launcher protocol | run an analysis in a contained process | bounded capture | fail-closed order |
| Tool resolution, globbing, shared libraries, memory, terminal text | none | lookups | everyone | – |
| **LSP bridge** (`lib/LSP/LSPBridge.cpp`) | `available_`, `stopping_`, `connectionLost_`, `nextId_`, `pendingResponses_`, reader thread | `start`, `stop`, queries, `sendRequest`, `readerLoop` | PipedProcess, a language server | replies late, never or foreign; restart; a server that dies or stalls |
| **Backend cache** (`lib/Distribution/BackendCache.cpp`) | a directory tree: versions, a `default` link, staging directories | `install`, `removeVersion`, `removeBackend`, `setDefault`, `defaultVersion`, `isInstalled` | backend CLI; other processes on the same tree | no lock; rename falls back to a copy; crashes |
| Backend CLI, manifest, registry index, versions, digests (`lib/Distribution/`) | none | commands, comparisons | backend cache | selection order |
| **Lexer and parser** (`lib/Lexer/`, `lib/Parser/`) | position in the text; token buffer, pending `>`, error list, depth | `nextToken`; `parse` with look-ahead and recovery | semantic analyzer | progress after an error; pushed-back and split tokens |
| **Imports** (`ImportResolver.cpp`, `SymbolTable.cpp`, `tools/topo/main.cpp:50-110`) | marks of the search, order; one table per file | `resolve`, `discover`, merge, selection | parser, semantic analyzer | cycles; transitive imports; what a selection brings along |
| **Type rules** (`SemanticAnalyzer.cpp`, `TypeResolver.cpp`) | the resolver's template parameters; the search path | `validateTypes`, ownership and constraint cycles | symbol table | one resolver for all declarations; cycles and the depth limit |
| **Block rules** (`SemanticAnalyzer.cpp:1054-1132, 1374-1470`) | stages, demanded fields, call sites | `validateLogicBlocks`, second half of `validatePipeline` | pipeline validation, struct matching | stages that are written, inherited or missing; fields that are demanded and hidden |
| **External types** (`SemanticAnalyzer.cpp:400-560`, `SymbolTable.cpp:60-130`) | class and member symbols with owner and flags | `visitTypeDecl`, `markExternalType` | every later pass | declarations and policies drawn over each other in any order |
| **Pipeline validation** (`SemanticAnalyzer.cpp:1142-1373`) | edges, in-degrees, queue, order, stages | first half of `validatePipeline` | symbol table | repeated arrows, cycles, terminal edges |
| **Struct matching** (`SmartStructMatcher.cpp`) | used fields, mapping | `match` | semantic analyzer | greedy choice in declaration order |
| **Priority analysis** (`PriorityAnalysis.cpp`) | `effectivePriority`, call graph, worklist | `analyzePriority` | symbol table | recursion, names in two forms |
| Stage, lifetime, pipeline, visibility, import-path analyses | results per function | one pass each | symbol table | names in two forms |
| AST, printer | a tree | – | – | – |
| **Verification by stubbing** (`VerificationOrchestrator.cpp`, `PruningOrchestrator.cpp`, `StubRewriter.cpp`) | saved contents, counts; the user's sources | `verifyStageIsolation`, `verifyPipelineIndependence`, `verifyAllStages` | stub generator, build command, files | several steps that may fail or throw, on files that are not the program's own |
| Single checks (`lib/Check/`) | none | comparisons of symbol lists | LSP bridge, extractors | – |
| **Incremental cache** (`IncrementalCache.cpp`) | three files: manifest, symbols, visibility | load, compare, save | build driver | stale, torn or mixed files after a crash |
| **Execution evidence** (`ExecutionEvidence.cpp`, `ArtifactEvidence.cpp`) | records, roots; a manifest on disk | `run`, `append`, `flush`, `verify` | commands of several threads | files that change while they are recorded or verified |
| **Attestation cache** (`ArtifactAttestation.cpp`) | one record per key in a private store | cached and uncached verification | a verifier program, other processes | time of check and time of use; the clock |
| **JSON codecs** (`BackendProtocol.cpp`, `SymbolTableJson.cpp`, `TranspileModelJson.cpp`) | none | encode, decode | backends, host extractors | writer and reader are separate lists of keys |
| **Transpile** (`lib/Transpile/`) | a module of functions; the result | driver, source builder, adapter resolver, optimizer | an extractor over PipedProcess, emitters | early returns, degradation, rewriting in place |
| Transform, format, topo-fmt | token edits | rewrite | – | – |
| **Debug server** (`lib/Debug/Server/`, `topo-debug serve`) | `stopRequested`, listener, self-pipe, connection; query history; two global pointers | `run`, `requestStop`, handlers, WebSocket session, teardown | topo-debug, browsers, signals | a signal on either of two threads at any moment; the lifetime of the servers |
| **Adapter session** (`tools/topo-debug/main.cpp:845-1136`, `FrameReader.cpp`) | records read so far, the environment | one call per query | PipedProcess, a debug adapter | order of frames, errors and exceptions half-way |
| Debug queries, templates, summaries | none | parse, evaluate, render | debug server | – |
| topo, topo-debug (other subcommands), mock adapter | none | command lines | everything above | – |
| Profile converters (`lib/Profile/`) | open frames of a trace | convert | – | unbalanced events |
| Stdlib, Basic | tables, diagnostics | – | everyone | – |

The components in bold are modelled. What makes each of them correct:

- *PipedProcess*: one control call at a time works on a child; the status is
  that of the current child; a live child can always be stopped; a stopped
  child's reader is freed.
- *Bounded capture*: no output beyond the limits is kept, none is missing from
  a success, nobody of the group is left unkilled, and it returns.
- *LSP bridge*: a caller gets the reply to its own request or nothing; threads are joined before they are replaced; a lost connection takes the
  bridge out of service; every call returns.
- *Backend cache*: versions appear whole, never change and go as a whole; the
  default names an installed version; failures leave nothing behind.
- *Lexer and parser*: no character and no token is lost or read twice; what is
  accepted was read to the end; errors are not repeated at one place; both end.
- *Imports*: files are analysed behind what they import, cycles are found, a
  call reaches exactly the functions its file sees.
- *Type, block and external-type rules*: a declaration is refused exactly where
  the rule is broken, whatever was declared before it.
- *Pipeline validation*: the order is topological, stages are longest paths, a
  cycle is reported if and only if there is one.
- *Struct matching*: no field is used twice, a success is complete, names win.
- *Priorities*: callees inherit the highest priority of their callers however a
  call is written, nobody gets one without a reason, annotations win.
- *Verification by stubbing*: no stub stays in the user's files, they come back,
  and each result belongs to the stubs of its own test.
- *Incremental cache, evidence, attestation*: what is reused, claimed or
  accepted is true of the files as they are, or as they were when checked.
- *Codecs*: a reader understands its own writer and the older ones.
- *Transpile*: the optimizer preserves calls and results; every leaf is
  accounted for; a success has written a file.
- *Debug server*: a stop ends both servers, the signal handler never
  touches a destroyed server, answered queries are in the history.
- *Adapter session*: the bytes of a variable are those sent for it, and no
  adapter is left running.

## 2. The modules

| module | models | abstract specification | proofs |
|---|---|---|---|
| `PipedProcess` | the process handle | `ChildHandle` | `PipedProcessProofs` |
| `LSPBridge` | the language-server bridge | | `LSPBridgeProofs` |
| `BackendCache` | the cache directory under several commands | `VersionStore` | `PlatformProofs` |
| `BoundedCapture` | one bounded capture | | `PlatformProofs` |
| `StubbedSources` | stage isolation, branch independence, pruning | | `PlatformProofs` |
| `MCPlatform` | the last three side by side | | |
| `Lexer` | the lexer on every short text | | `SyntaxProofs` |
| `ParserGrammar`, `Parser` | the parser's functions as a table; the machine that runs it | | `SyntaxProofs` |
| `PipelineDag` | edge collection, Kahn's algorithm, stages | | `SemaProofs` |
| `PriorityAnalysis` | propagation of priorities | | `SemaProofs` |
| `SmartStructMatcher` | the matcher | | `SemaProofs` |
| `MCSema` | the last five side by side | | |
| `Imports` | discovery, analysis order, tables of several files | | `RulesProofs` |
| `TypeRules` | type checks and the scopes of template parameters | | `RulesProofs` |
| `OwnershipLoops` | ownership and constraint cycles | | `RulesProofs` |
| `BlockRules` | stages of fn blocks, fields of pipelines | | `RulesProofs` |
| `ExternalTypes` | type collection and external boundaries | | `RulesProofs` |
| `ExecutionEvidence` | recorder, manifest, verification | | `BuildProofs` |
| `AttestationCache` | verification with a shared record store | | `BuildProofs` |
| `IncrementalCache` | the front-end results between builds | | `BuildProofs` |
| `WireCodec` | all JSON codecs as tables of fields | | `BuildProofs` |
| `ModelOptimizer` | the three passes of the optimizer | | |
| `TopoSource`, `TranspileDriver` | building and resolving a module; one run of the driver | | |
| `MCBuild` | all from `Imports` to `TranspileDriver`, side by side | | |
| `DebugServer` | two HTTP servers, signals, teardown | | `DebugProofs` |
| `AdapterSession` | one call of the debug adapter | | `DebugProofs` |
| `MCProcesses` | the last two and `PipedProcess` side by side | | |

`MCPlatform`, `MCSema`, `MCBuild` and `MCProcesses` compose parts that do not
share state as a sum: a behaviour runs one of the parts, the others stay idle.
`LSPBridge` is checked directly. `BlockRules` and
`SmartStructMatcher` begin where `PipelineDag` ends; `LSPBridge` and
`AdapterSession` use of the process handle only what `PipedProcess` guarantees
(a stop returns, a started handle can be stopped); `TranspileDriver` extends
`TopoSource`.

**How state and actions correspond to the code.** An action is what happens
between two points at which another thread, process or the environment can get
in between: a lock, a blocking call, an atomic flag, a file-system call. A
variable `pc` (`bpc`, `cpc`, `spc`, ...) says where each thread is; its labels
name the next such point. A sequential pass has one action per iteration of
its loop, and one for each way it ends.

*PipedProcess.* Every `start()` puts a fresh impl into the object's slot, so an
impl is the number of its `start()`. `Lock` is the acquisition of `ctlMutex`
with the second test of `started`; `GraceExit`, `GraceTimeout`, `SigTerm`,
`SigKill` are the steps of `stop()`, `PollAlive`, `PollExit`, `PollError` the
outcomes of `isRunning()`; `Finish` is what all of them do when the end was
seen. `ReadRefused` is the early return of `read()` on a cleared flag. The
child (external) reads, writes, forks a descendant that keeps its stdout open,
and exits. That no call overlaps `start()` is the rule of `Process.h`. `seen`
is a history variable: how the end of a child was first observed.

*LSPBridge.* The owner's `start()` is `StartProcess`, `LaunchReader`, an
initialize request and `Accept`; `stop()` is `StopEnter` (with its shutdown
request), `NotifyExit`, `StopFlag`, `StopProcess`, `StopJoin`. `sendRequest()` is
`Write`, the test under the mutex (`CheckTake`, `CheckSleep`), the sleep on the
condition variable with its three ways out (`WakeTake`, `WakeAbort`, `Timeout`)
and one retry. A write waits for `Writable`. The reader loop enters a read
(`ReadBegins`), which tests the handle and then blocks: from there only the pipe
frees it, with a message (`ReadMessage`) or at its end (`AtEof`, `ReadFails`), and
not what `stop()` does to the handle. It stores the message (`StoreReply`), or
loses the connection in two steps (`LoseAvailable`, `LoseTell`). The process
handle is represented by `started`. The server (external) replies in any order
or never, with a result, nothing or an error; asks something itself; dies, sends
an unparsable frame, or stops reading; and it may leave a process behind that
keeps its stdout open (`held`). `call` numbers the calls of `sendRequest()`, so
that a reply knows which call it answers; `unseen` is a history variable, a
connection lost before the handshake ended.

*BackendCache.* A process runs one command; the shared state is the tree:
`bdir`, `dir` (a version is absent, partial, full, or a regular file), `link`,
`staging`. One action is one file-system call. `InstallRename` publishes a
version, `RenameFails`, `CopyBegin`, `CopyEnd`, `CopyStops`, `Undo` are the
fallback, `RemoveSome` shows a removal half-way.

*BoundedCapture.* The capture alternates reads of the two streams with a poll
of the leader and a test of the deadline; `KillGroup`, `Reap`, `StopFails`,
`DestroyCapture` are the clean-up, `DrainAgain` the last rounds of reads. The
group is signalled at once and only the leader is waited for: a descendant is
`killed` from then on, and its end is nobody's step. A byte
is represented by who wrote it, the leader or another process.

*StubbedSources.* A file is the set of its functions that are stubbed. `tasks`
are the tests of a check: one function of a stage (`StageTasks`), what a root of
a pipeline reaches (`BranchTasks`), all stages below one (`PruneTasks`). A test
stubs its functions (`Stub`, `NoSource`), runs the command (`Run`) and writes
back what it saved (`Restore`). `StubFails` is the early return with its own
write-back, `StubThrows` and `RunThrows` the scope guard. Whether a write-back
(`WriteBack`) can open every file is a choice; `lost` remembers that it could
not. A pruned stage writes back itself and looks at no write, so some of its files may
be torn (`Destroyed`) without a sign, and a function that stood there is then found
elsewhere or nowhere (`Rehome`). One outcome
has no guard in the code: an exception of the generator in `verifyStage()`
(`unguarded`).

*Lexer.* One action per turn of `nextToken()`: `SkipWhitespace`,
`SkipBlockComment`, `ScanIdentifier`, `ScanInteger`, `ScanString`,
`ScanOperator`, and `Unexpected`, which reports one character. `lexemes` are the
tokens; `trivia` and `wrong` are history: the characters that are in none.

*ParserGrammar, Parser.* Each function of the recursive-descent parser is a
nonterminal with alternatives, chosen by look-ahead as the code's `check` and
`match` do; a body is a sequence of steps (expect, optional, loop, report,
split `>>`, enter and leave a depth). `Parser` runs the table with an explicit
`plan` in place of the call stack, and models what the table does not show:
`expect`, the list of errors and its cap, `synchronize`, the stall checks of
the loops, push-back and the split of `>>`, the depth limit. Precedence levels of
expressions are one level; the AST is left out.

*PipelineDag.* `CollectEdges` builds the in-degrees and finds the terminal edge,
`Seed` checks the nodes, `Take` and `Relax` are the two loops of the sort, and
`FinishSort` reports a cycle or publishes the analysis. The code's queue is
first in, first out, seeded in name order; the model takes any waiting node, so
the results rest on no order.

*PriorityAnalysis.* A qualified name is the sequence of its segments. `calls` is
`calledFunctions`: for an ordinary block the texts of its calls, in any form that
`resolveCallee()` accepts (`Resolved`: relative, absolute, or from an enclosing
namespace), for a pipeline the resolved names of its stages. `Key` is the name the
analysis looks up, the caller's namespace and the text; where the two part is the
point of the module. `CollectDeclared`, `Propagate`, `FinishPropagation` are the
function's three parts.

*SmartStructMatcher.* `Bind` gives the next parameter a field, `Fail` reports it;
`Candidates` are the unused fields of its type, narrowed by the name.

*Imports.* `TakeRoot`, `Follow` and `Leave` are the depth-first `discover()` with
its marks (`mark`), its path (`stack`) and the resulting `order`; `Resolved` ends
it, with an error if there is a cycle. `Analyze` is one turn of `topo`'s loop
over that order: it builds the file's table from `cache` (the driver's
`symbolCache`), adds the file's own declarations, and resolves its call.
`Combine` is the merge into one table. A file declares at most one function and
calls at most one.

*TypeRules.* `CheckFunction` and `CheckClass` are one turn each of the loops of
`validateTypes()`; `scope` is the resolver's `templateParamNames_`, which the
turns share. What is declared is a parameter (`Units`), and so are the types
(`TypeLayers`, by how deep they are nested) and what the registry knows of
`std::<backend>::<type>` (`BackendTypes`); other qualified names are opaque.

*OwnershipLoops.* `BeginSearch`, `VisitTarget`, `LeaveTarget` are the depth-first
search for ownership cycles, `BeginWalk` and `Climb` the walk along the parents
of a constraint.

*BlockRules.* `CheckOwner`, `CheckReferences`, `CheckMonotone`, `AssignStages`,
`WarnOwned` are the parts of `validateLogicBlocks()` in their order, with the
early exit behind each. `MatchNode` goes over the nodes of a pipeline in the
order of the sort and offers each the fields of its predecessors; `AskLast` and
`AskSources` decide what the calls must deliver, `SetCallSites` writes it down.

*ExternalTypes.* `VisitTypeDecl` collects one declaration with its members and
nested types, `MarkExternalType` applies one policy. They come in any order,
each more than once.

*ExecutionEvidence.* A build thread takes a snapshot of its inputs (`Snapshot`,
`SnapshotRaced` when a file changes meanwhile), runs the command, verifies that
the inputs are the same, takes a snapshot of the outputs, and appends a record.
`FlushBegin`, `FlushRename`, `FlushFails` publish the manifest; `VerifyBegin`,
`VerifyFile`, `VerifyEnd` are a consumer, one file at a time. `Edit` changes a
file at any moment. A file is its content and a stamp; a hash shows the content,
a stat the stamp.

*AttestationCache.* A verification computes its key (`ComputeKey`), looks for a
record (`Lookup`), computes the key again (`Rehash`); without a usable record it
takes the time and the key (`FreshBegin`), runs the verifier program (`RunGh`),
compares the key (`Bind`) and publishes (`Publish`, `PublishFails`). `Tick` lets
time pass; `Change` replaces the artifact, changes the protection of the store
or sets the clock back.

*IncrementalCache.* A build is `BuildHit` or `BuildMiss` and then `SaveSymbols`,
`SaveVisibility`, `SaveManifest`, each of which may be refused (`SaveRefused`)
or cut by a `Crash`. The driver that calls them is not in this repository; the
order is that of `IncrementalCacheTest.cpp`. `Touch` changes a file, the
configuration, or removes either.

*WireCodec.* `Codec` is a table: what a writer always writes, what it writes only
when set, what its reader demands, what it takes when present. `WriteDoc` writes any
record with few fields set, `AgeDoc` makes it the document of an older or a
newer version, `ReadDoc` reads it. `Enums` are the words of the enumerations on
both sides.

*ModelOptimizer.* `TempFolding`, `NameHeuristics`, `DeadCodeElim` each rewrite the
body of a function. `Meaning` is the reference: an evaluator that yields the
calls in order and the result, for every answer of the conditions and callees.

*TopoSource, TranspileDriver.* `TopoSource` holds the pure parts, building a
module from `.topo` and resolving its leaves. The driver has one action per
stage, with its early return: `ParseFails`, `NothingDeclared`, `ExtractFails`,
`Extract`, `Filter`, `BuildFails`, `Build`, `Resolve`, `Emit`, `Write`,
`Skeleton`, `Tally`. The extractor (external) succeeds, succeeds in degraded
mode, or fails.

*DebugServer.* A server has the name of its thread, `main` or `ai`. The loop of
`HttpServer::run()` is one action per step between which a signal or the other
thread can act: the flag test (`Check`), `Poll`, the second test (`Polled`), the
drain of the self-pipe (`Drain`), the third test (`Drained`), `Accept`.
`requestStop()` is two steps, `Flag` and `Wake`, executed by the teardown
(`StopAi`, `WakeAi`) or by the signal handler (`HandlerFlags`, `HandlerWakes`);
while a handler runs on a thread, the thread stands still. `Announce` is the
callback of a server that listens, which may launch a browser and wait for it;
`EvaluateQuery` answers `POST /query` and records it, `AnswerFrame` a frame of
`/ws`, which it does not record. Clients (external) connect, send all or part of a
request, and hang up, or stay.

*AdapterSession.* A step reads one record. Data frames carry the number under
which they came, so that "the bytes of this layout" is a statement about
numbers. The adapter (external) sends any record or dies; `ReadMistyped` is a
JSON member of the wrong type, whose exception leaves the function and lets the
handle's destructor stop the adapter.

## 3. The runs

Runs that pass:

| run | configuration | states | properties |
|---|---|---|---|
| `processes` | `MCProcesses.cfg` | 767 000 | process handle: `ExitCodeContract`: the status is that of the current child, or -1 while none is known. `NoLostChild`: a live child is always reachable by `stop()`. `StopReturns`: `stop()` returns and frees the reader. `HandleSpec`: the handle implements `ChildHandle`. Servers: `StopsWhenAsked`: a stop ends both, unless one is held up from outside for ever. `HandlerFindsServers`. `HistoryHoldsAnswered`: what `POST /query` answered is in the history. Adapter: `AdapterGone`, `FramesPair` |
| `lsp_bridge` | `LSPBridge.cfg` | 6 760 000 | `OwnReply`: a caller gets the reply to its own request, over time-outs, retries and restarts. `ReaderIsHeld`: no reader thread is replaced while it is joinable; an available bridge has a started handle and a reader that reads, stores or is about to take it out of service, unless the connection was lost before the handshake ended |
| `lsp_returns` | `LSPBridgeReturns.cfg` | 1 150 000 | `CallsReturn`: every call returns, also when `start`, `stop` and queries overlap, unless a server that does not read or a descendant of it holds a call up for ever (`HeldUp`) |
| `platform` | `MCPlatform.cfg` | 2 113 000 | cache: `Immutable`, `CacheClean`, `StoreSpec` (it implements `VersionStore` while no command dies). Capture: `ResultContract`, `NoneLeft`, `Returns`. Stubbing: `SourcesComeBack` |
| `sema` | `MCSema.cfg` | 1 113 000 | `CyclesAreFound`, `OrderIsSound`, `PrioritiesAreSound`, `MatchIsSound`. `TextIsTiled`: tokens, trivia and reported characters tile the text. `ParserIsSound`: tokens are taken in order, none lost or read twice (`TokensInOrder`); what is accepted was read to the end, with all braces closed unless one was taken for a name (`AcceptedIsWhole`, section 7); no loop with a stall check has two rounds at one place (`RoundsMoveOn`; the pipeline-edge loop has none, section 7). `PassesEnd` |
| `build` | `MCBuild.cfg` | 5 340 000 | `ModulesAreOrdered`, `CallsAreVisible` (imports). `TypesAreKnown` (types), `LoopsAreReported` (their cycles). `StagesAgree`, `ReadIsDelivered` (blocks). `BoundaryIsClosed` (external types). `ChainHolds`, `EvidenceIsTrue` (evidence). `AcceptedIsChecked` (attestation). `ResultsAreFresh` (incremental cache). `Understood` (codecs). `Preserved` (optimizer). `Accounted` (driver) |

Runs that end in a violation, each of a sentence in a doc or a comment:

| run | sentence | what happens |
|---|---|---|
| `piped_zero_read` | `Process.h`: `read()` "Returns number of bytes actually read, or 0 on EOF/error" | another thread's `isRunning()` sees the end of the child and clears `started`; the next `read()` returns 0 while output is still in the pipe |
| `lsp_stop` | `LSPBridge.cpp:155`: "process_.stop(3000) below will forcibly terminate the child regardless, so a single short wait is sufficient" | the server has stopped reading and its pipe is full: the shutdown request is written before the kill, and the write has no deadline |
| `lsp_server_request` | `LSPBridge.cpp:448`: "Only integer ids correspond to our outstanding requests" | a request of the server with an integer id is stored as a reply and handed to a caller |
| `cache_race` | `BackendCache.h:16`: "`<version>` directories are immutable once installed" | two installs of one version: one rename fails, and its copy goes over the version the other has published |
| `stages_inherit` | `PriorityAnalysis.h:22`: "callees inherit the highest priority of their callers" | the stages of a pipeline are recorded under qualified names and prefixed once more; the priority goes to a name no function has |
| `transpile_degraded` | `TranspileDriver.cpp:670`: "degradation this is reported even on successful extraction; callers may choose warn vs fail" | `run()` keeps the extractor's messages in a local that it reads only when extraction fails |

Each property of a passing run is paired in `PROJECT.json` with a mutant, a
plausible bug in one mapped definition, under which it fails in the same run.

## 4. Bounds and why they are enough

- `MCProcesses.cfg`, process handle: two control threads (mutual exclusion and the second test
  of `started` need two), one reader, two launches (a restart is what can
  confuse two children), two calls per thread (one that races, one that comes
  after), a pipe of one byte (full and empty are both near). The theorems lift
  all of these bounds for the safety properties.
- `LSPBridge.cfg`: two sessions, one client query per session besides the
  initialize and shutdown requests, each with its retry, so that up to six ids
  are in flight, late replies of the first session meet requests of the second,
  and the server's own id coincides with one of the client's. The two threads'
  calls do not overlap there: the class numbers its requests with a plain `int`
  and so is made for one caller at a time (section 7). `LSPBridgeReturns.cfg`
  lets them overlap, in one session, for what must hold all the same: that every
  call returns. In both the server may stall and leave a descendant behind
  (`Stalls`, `Descendants`).
- `MCPlatform.cfg`: two processes, three versions, five commands in all (enough
  to install two, choose one, and remove it while another is installed), with
  crashes and failing renames and copies. A remove command runs alone and
  installs of one version do not race; what happens otherwise is `cache_race`
  and section 7. For the capture: limits of three and one bytes against two
  bytes per stream of the leader plus those of its descendants, so that one
  stream can exceed its limit and the other can meet it exactly; a buffer of one
  byte; a pipe of two. For the stubs: two files, three functions, each in one of
  the files or in none, so that a test finds a file already stubbed by its own
  earlier function, and a function without source.
- `MCSema.cfg`: four edges over four names (a cycle beside a path, a repeated
  arrow, two terminal edges, a graph over the node limit of three), three
  functions in two namespaces with four kinds of declaration and up to three calls
  in all (`MaxCalls`: a chain, a cycle, two callers of one function), each written in every way that resolves, up to three fields and parameters of two types and three names.
  All texts of up to four characters of eleven classes: the longest operator is
  two characters, and a comment or string with content needs no more than four. All
  continuations of up to four tokens behind each prefix that opens a construct
  of the language (`Corners`: the prefixes, each with the kinds that may follow); the prefix leads past the tokens that would only repeat, and
  three is the depth limit in place of the code's. Errors are capped at 20 in
  place of 100: more than four tokens can give, so that only a loop that reports
  without moving reaches it.
- `MCBuild.cfg`: three `.topo` files (a cycle, a diamond, a chain of two imports);
  types of three layers with a backend type the registry has and one it has not, two functions and two classes per unit (a function of
  a template behind one of none, a member of a class template, and a class
  behind both);
  an ownership search over three classes with two shared fields, cut at depth 2
  (`DfsLimit`) where the code has 500 (below, at and above the limit occur);
  three calls per block (`MaxBlockCalls`), pipelines of three nodes (`FlowSize`,
  `BlockFlows`: chains, joins, forks and repeated edges); two declarations
  or marks drawn over each other; two build threads with three commands on one
  input and one output and two edits; two verifications over a genuine and a
  forged artifact, with records that expire after two ticks out of four; two
  `.topo` files, `Topo.toml` and two configurations, four changes, three builds;
  records with two fields set (a codec treats fields one by one; two show one
  that is read in place of another); bodies of three statements, fourteen kinds,
  so that a temporary, its use and something between them fit.
- `MCProcesses.cfg`, servers: two connections (one per server, or two queries one
  after the other), one signal on either thread, which meets every step of both
  loops and of the teardown, with `pipe()` failing or not; at most two queries
  (`MaxQueries`), and a ring of one, which the second pushes over. That a longer
  ring is in order is proved (`HistorySafe`) and not seen in this run. The adapter:
  two variables and six records (one record more than two pairs and the
  breakpoint).

`CHECK_DEADLOCK FALSE` is set everywhere because all systems may stop: calls,
commands and signals are bounded, and passes end.

## 5. Fairness

Fairness is only assumed of the code's own threads, and of time where a
deadline exists.

- `PipedProcess`: a thread inside a call keeps running. Nothing is assumed of
  the child, nor that anyone makes another call.
- `LSPBridge`: threads inside calls and the reader keep running, and deadlines
  pass (`Timeout` is a step of the waiting thread). Nothing of the server and its
  descendants: `CallsReturn` names what they can hold up (`HeldUp`).
- `BoundedCapture`: the capturing thread runs and time passes. Nothing of the
  tool or its descendants.
- `MCSema`: the passes, the lexer and the parser are sequential functions; they
  keep running.
- `DebugServer`: the threads and the handlers keep running. Nothing is assumed of
  clients, of the debug adapter or of the browser launcher: a client may be
  silent, stay or not read, an evaluation or a launch need not return.
  `StopsWhenAsked` names these as its exceptions (`HeldUp`), together with a
  `poll()` behind a failed `pipe()`; a response is held to its end only when the
  client is gone.
- `MCBuild` states safety only, so it assumes none.

## 6. What is proved

TLAPS proves the following for every value of the constants that satisfies the
`ASSUME` of its module. These say only what the code guarantees: sets of names
and edges are finite, bounds are natural numbers, a pipe holds at least a byte,
`Topo.toml` is not a `.topo` file. A module of proofs covers the modules for which
section 2 names it. Each property was checked by TLC on the run of its module
before it was proved.

**`PipedProcessProofs`.** `TypeCorrect`, `Exclusion`, `ExitCode`, `NoneLost` and
`Refinement` (every behaviour of `PipedProcess` is one of `ChildHandle`). The
properties are not inductive by themselves: that a child's end is recorded once
depends on what a thread in the middle of `stop()` knows. `IInv` adds exactly
that: who may be where (`Roles`); a thread past the second test holds the mutex
of a started impl (`LockInv`); calls in progress work on the impl in the slot
(`SlotInv`, from the rule that nothing overlaps `start()`); only that impl can be
started, and nobody has seen its end (`StartedInv`); later ones are untouched
(`FreshInv`). The refinement shows that `started` of the slot's impl is cleared
in exactly one step per child, which is `ChildHandle!Observe`.

**`LSPBridgeProofs`.** `Reader` and, for callers one at a time
(`Overlap = FALSE`), `Replies`. `HeldInv` ties `started`, the reader thread and
the owner's place together: which of them may be set at which step of `start()`
and `stop()`, and that a reader which is past `LoseAvailable` left the bridge out of
service or lost the connection unseen. `ReplyInv` adds that at most one thread is inside a request
(`OneCall`), that an id in use was never used before (`Fresh`), and that every
message of a call on its way, in the pipe, in the reader's hands or in
`pendingResponses_`, carries an id of that call (`Owned`). Without the
assumption two calls can share an id and the theorem is false (section 7).

**`PlatformProofs`.** *Stubbed sources:* `FilesComeBack`: when no check is in
progress no file holds a stub, and each is as its owner left it or was torn by a
pruned stage, unless a write-back was seen to fail, and then the result does not
pass; a test runs with its own stubs only. The
exception without a guard (section 7) is outside the statement. The invariant
says that a saved file was saved without a stub and one that was not saved
has none (`SavedAsFound`), that a write-back which cannot open a file is told by a failed
test (`LossIsTold`), and that the stubs in the files are those of the current
test (`StubsAreOwn`).

*Backend cache:* `CacheIsClean`, `VersionsAreImmutable` (an action property) and
`TreeIsStore` (the tree implements `VersionStore`). All three take `~Races` as
their hypothesis: at most one command works on a version, and a remove command
runs alone. The code takes no lock, so this is what it asks of its user; with
`Races = TRUE` an installed version can change, which the run `cache_race`
shows. Under it the invariant says where the commands may be
(`Alone`), that an install which has not published its version has nothing to
lose (`Unpublished`), and that whatever is unfinished on disk, a staging
directory, a partial version, a default that dangles, has a command that is
going to finish it (`Tidy`). A crash leaves all but `Tidy`, and so immutability
survives it and cleanness does not. In the refinement every file-system call is
a step of the store or changes neither the complete versions nor the default.

*Bounded capture:* `GroupIsGone` and `ResultIsWhole`. `CaptureOutcome` says where
the call may be when it has failed and what exit code goes with it; `GroupGone`,
that from the reaping on the leader is reaped and nobody of the group was spared; `Drained`, that each byte of the
leader is kept or still in its pipe, that end of file leaves none there, and
that a round of the last drain which made no progress found both pipes without
one. Descendants may write in between at any point: the bytes are counted by
who wrote them (`Cardinality` of their places).

**`SyntaxProofs`.** *Lexer:* `TextAlwaysTiled`, for texts of any length. `Tiled` says, between
two tokens, that everything before the position is skipped, reported or in
exactly one token, and that tokens follow each other; `Spelled`, that a token was not
cut short. `RunEndIs` gives what the loops over a run of characters return: the
first place whose character is not of the run.

*Parser:* `TokensStayInOrder`, `AcceptedIsAlwaysWhole`, `RoundsAlwaysMoveOn` and
together `ParserIsAlwaysSound`, for any tokens and any limits on errors and depth. All
rest on what the table of the grammar is like, which `GrammarAssumption` states:
every function has an alternative that is taken when no other is; a body closes
the braces it opens, drops a token only behind an error, and begins with an
untested token only where its alternative was chosen by a look at that token. The table has no
parameter, so this is a closed fact, and TLC evaluates it in full. `ParserInv` says of
the plan, the call stack of the code, that it is made of such
steps (`PlanFits`); that the tokens ahead of the position are the rest of the text
also when one was split or pushed back (`TokensFit`); that a step which takes a token
without a test comes behind a look at it (`HeadKnown`), with the one exception of
section 7; that each stall check still to come lies where its round
began or behind it (`MovesOn`); that a token dropped by a recovery lies behind an
error, so that what is accepted without one was read whole (`Whole`); and that
the braces still to be closed in the plan are those that are open in the text (`Level`).

**`SemaProofs`.** *Pipelines:* `DagTypeCorrect`, `NoFalseCycle`, `NoMissedCycle`,
`TopologicalOrder`, `Stages`, and from them `Cycles` and `Order`, the properties
of the run. `DagInv` says, while the sort runs: an in-degree is
the number of arrows not yet relaxed, repeated ones counted (`DegreesCount`); a
node waits or was taken exactly when that number is zero (`QueueHoldsReady`); the
order so far is topological (`OrderSoFar`); stages are right for the arrows
relaxed so far (`StagesSoFar`). When the queue is empty and a node is missing,
each missing node has a missing predecessor (`HeldBack`), so there is a cycle; if
none is missing, the order itself excludes one. The arguments on finite sets use
the library's theorems on cardinality.

*Priorities:* `FixedPoint`, `NoneUnfounded`, `AnnotationsWin`,
`Inheritance`, and together `Soundness`. `PriorityInv` says: a caller above
normal waits in the worklist, or its callees have at least its priority
(`Settled`); annotated functions keep theirs (`Kept`); every raised priority goes
back along calls to a declaration (`Grounded`). At the end the worklist is empty,
so `Settled` is the fixed point. A call written relative to the caller's namespace
is looked up under the name it resolves to, which gives `Inheritance`.

*Struct matching:* `Match`: no field is given twice, a success gives every
parameter a field of its type, and by name wherever there is one. `MatchInv`
records what holds of the parameters decided so far (`Decided`), and that a
parameter got a field of another name only when no other of its type was left
(`Exhausted`).

**`RulesProofs`.** *External types:* `BoundaryAlwaysClosed`. Types are visited from the
outside in and marked when all are (`OutsideIn`); `Drawn` is the boundary around
those visited so far, with an owner that said so or was marked for each external
type, and `Inside` says that members are inside with their type. The proof goes
by prefixes of paths: what encloses a type is above it, and comes before it.

*Blocks:* `StagesAlwaysAgree`. The code compares each written stage with the last
written one only, and gives out the missing stages behind the largest; the
invariant says that this makes all written stages monotone (`WrittenMonotone`),
that the others lie behind them in their order (`AssignedBehind`), and that calls
of one stage without a warning own different values (`OwnedApart`).

`ReadIsAlwaysDelivered`, for pipelines of any number of nodes and edges: in an accepted one
each parameter of a fed node has an offered field of its own, and the calls
deliver exactly what is taken. The pairs of the matcher are apart, in each
parameter and in each field; the nodes whose turn is over have asked their
producers; and nothing is asked for but what a node takes, which
goes along the edges node by node to the call that delivers it.

*Cycles:* `LoopsAreAlwaysReported`. The nodes on the path of the search are
distinct; the nodes that were left are a closed set without a cycle, which only
the depth limit can break; of a node on the path, the targets in front of
the one that is next are left. When a target lies on the path, the
path from there on is the cycle that is reported, and when the search ends, what
was not reported is in a closed set without one. The walk along
parents is a path of its own, in which a name that comes twice closes a cycle.

*Types:* `TypesAlwaysKnown`, for types nested to any depth and any number of
declarations: a wrong type is refused, and one that is refused is wrong or outside
the byte contract (section 7). The type of a declaration is refused exactly when `isValidType()`
says so with the names that hold where it stands, since between two declarations
the resolver knows no template parameter (`FaultsFit` in `TypesInv`). `isValidType()` is a
recursion over a type; the property speaks of all parts of it at once. That
the two agree (`AllAreJudged`) goes kind by kind, by induction on the layers of
types (`AllTypes`).

*Imports:* `ModulesAlwaysOrdered`, for any number of files. `OrderPlaced` says
that the files done are those of the order, each behind what it imports;
`FilesOpened` and `Followable`, that the open files are those on the stack, each
reached by an import of the one below it. So an import of an open file
closes a chain of imports, which is the cycle that is reported (`Cycled`), and an
order in which everything comes behind its imports has none. What lies below a
file is defined in as many steps as there are files; that it is then closed
under imports is a counting argument on the sets of the steps (`BelowCloses`).

`CallsAlwaysVisible` rests on that order. `Sees` is a closure over the imports of
all files, in as many rounds as there are files; for a file of the order nothing
new comes after as many rounds as files lie before it (`SeesFixed`), so what it
sees is what its imports see and show. `analyze` merges one table per
import, and by induction along the order a table names exactly what its file
sees, and the same of it is external (`TableAgrees`, proved of one file in
`TableIs`). The candidates of a call are its name within each namespace around
the caller (`FoundIs`), so one is in the table exactly when the call is
`Callable`. `SymbolsInv` adds what is analysed so far: the files at the front of
the order, all of whose calls were found. The theorem is about any number
of files; which functions a file may declare and call is what the module fixes.

**`BuildProofs`.** *Attestation cache:* `Checked`: whatever is accepted was checked by
the verifier for those very inputs, and by a record only while it lives. Two changes
from outside are excepted: inputs that are swapped and swapped back around one
run of the verifier program are not noticed by any comparison. The
invariant follows a key from the moment it is computed: a thread that holds it
read the inputs at a time it remembers (`Keyed`, `ChangedSince`), a verdict was
given for what was copied (`VerdictsAreChecked`, `CheckedSince`), and a record
in the store goes back to such a verdict (`EntriesAreChecked`).

*Incremental cache:* `ResultsFresh`. Three files are written one after another and
any of the writes may be cut short, so the manifest and the symbols on disk may
come from different builds. `IncPaired` says what may still be relied on: since
the manifest was written no build was cut short, and the symbols are its own; or
no file was removed, and then manifest, symbols and sources are ordered by age,
file by file. A valid manifest then puts the symbols between equals. With both a
cut and a removal neither holds: this is the exception the property names.

*Evidence:* `ChainAlwaysHolds` and `EvidenceAlwaysTrue`. `Watched` follows each
input from the digest taken before a command to the one taken after it: its
write stamp tells whether nothing, one write or more happened in between, and
so what the command may have read; `Compared` says that the verdict so far is
right of the files compared so far, as long as none moved. A chain is valid
exactly up to the depth limit because the ancestors of a record are those in
front of it, which is shown by least counterexample on the recursive function
that computes them.

*Codecs:* `ReadersUnderstand`, for legal values that differ from the default in any
number of fields. The run checks values that differ in at most two fields (`MaxSet`); the
proof shows that reading is done field by field, except for the two fields an
absent `externalOwner` stands for, so nothing more can go wrong in larger values.
The tables of fields are expanded once (`KeysAre` and the lemmas behind it).

**`DebugProofs`.** *Adapter session:* `NoneBehind` and `Pairs`. `Shape` says which
variables are set at which step; `Paired` that the number of data frames so far is
twice the number of framed variables, plus the one that waits for its bytes;
`Built` that every built variable has the two frames of its own.

*Servers:* `HandlersSafe` and `HistorySafe`. A handler reads two global pointers
when it begins; `HandlersInv` says that handlers run only while these are set,
that they are set only between their installation and `ClearGlobals`, which comes before the
destructors, and that the other thread has ended before they are cleared, so that no
handler is on it. `HistoryInv` adds that the numbers in the ring ascend to that
of the last query, and that a query of `POST /query` about to be answered is the newest:
what is pushed out was followed by as many queries as the ring holds.

**Recursive definitions.** The library's induction theorems take an operator as a
parameter and cannot be used here. What the proofs above say of recursive
functions (the end of a run, ancestors, what lies below a file and what it sees,
what is inside a type) they obtain by
least counterexample instead: a set of numbers that is not empty has a least
one (`Least`, from the well-foundedness of inclusion on finite sets), at which the
definition is unfolded once. That the function exists at all is shown the same
way: at the least number up to which there is none, one is put together from
that of the number before.

**Only model-checked.** All liveness properties (`StopReturns`, `CallsReturn`,
`Returns`, `PassesEnd`, `StopsWhenAsked`), which TLAPS does not reach. The safety
properties of `ModelOptimizer`, `TopoSource` and `TranspileDriver`:
these modules define recursive operators, in whose presence the provers are
without SMT. `Preserved` moreover compares two evaluations of one body, each a
recursion over statements and expressions whose results depend on each other,
and `Accounted` two counts, each a sum over all functions and statements: both
need induction over data for every one of the helpers.

## 7. Observations

Found while modelling, besides the six violations above. They are either
limits the runs state as assumptions, or differences between code and comment
outside the properties checked. `PROJECT.json` lists under "hazards" the places
where things can go wrong, with the property that covers each.

**Processes and the language server**

- `Process.cpp:1125-1127`: "stop() can always interrupt a stalled reader" does not hold
  when a descendant of the child keeps stdout open; `StopReturns` makes
  the exception explicit.
- `Process.cpp:1472`: when the wait of `isRunning()` fails, `exitCode()` keeps
  the status of an earlier child; `Process.h:156-157` promises -1.
- `Process.h:86`: "All normal descendants are terminated before returning", but
  `stop()` of a capture (`Process.cpp:888-924`) kills the group and waits for the
  leader only: a descendant may still be dying when the call returns. `NoneLeft`
  says that it was killed.
- `LSPBridge.cpp:170`: a descendant of the server that keeps its stdout open keeps
  the reader in its read, and `stop()` in the join. `CallsReturn` makes
  the exception explicit.
- `LSPBridge.cpp:42`: a `start()` that the process handle refuses, because it is
  started, has already cleared `connectionLost_`.
- `LSPBridge.cpp:458`: a reply that arrives after its caller gave up stays in
  `pendingResponses_` until the bridge is destroyed; the erasure at 313, made "so
  the reader thread does not deliver a stale response later", comes before it.
- `LSPBridge.cpp:293`: `nextId_++` is not atomic. When two threads send requests
  at once they may use one id, and each may then take the other's reply: with
  `Overlap = TRUE`, `OwnReply` fails. Nothing in the header says that a bridge
  belongs to one thread.
- `LSPBridge.cpp:134`: `start()` sets `available_` after the handshake without a
  look at `connectionLost_`. When the reader has lost the connection in between
  (441-442), the bridge is available with no reader, and stays so until it is
  stopped; each request fails at once or waits for its time-outs. `ReaderIsHeld`
  excepts this one bridge (`unseen`).

**Backend cache**

- `BackendCache.cpp:250`: a crash during the fallback copy leaves a partial
  version that `isInstalled()` reports; the comment at 248-249 excludes only a
  failure the process survives.
- `BackendCache.cpp:324`: a `default` command next to a `remove` of the same
  version can leave a dangling link; the commands take no lock. `MCPlatform.cfg`
  runs remove commands alone.
- `BackendCli.cpp:392`: that the first version becomes the default is decided by
  a read which another process can outdate before the write.

**Verification by stubbing**

- `VerificationOrchestrator.cpp:360-378`, `StubRewriter.cpp:46-57`: when stubbing
  fails, what was stubbed before is written back, and whether that worked is
  ignored; on the ordinary path the same is a failure ("Surface it as a hard
  failure rather than silently continuing", 242-244). Later tests then run on
  sources that are still stubbed, and save those as the originals.
- `StubRewriter.cpp:71-83`: `restore()` truncates the file, does not look at the
  stream afterwards and returns true; the rollback at 48-51 does the same. With a
  full disk the text is lost, and the pruned stage may pass. `SourcesComeBack`
  excepts such a file.
- `PruningOrchestrator.cpp:166-179`: an exception of the generator while the
  functions of a stage are stubbed leaves before the guard exists; the guard's
  comment says it "must never leave the user's working-tree source stubbed", and
  `VerificationOrchestratorTest.cpp:383` tests only the branch path. The model
  calls this end `unguarded`.
- A crash between stub and restore has no recovery. Functions are found in the
  text by their simple name. Only tests call the orchestrators.

**Lexer and parser**

- `lib/Parser/Parser.cpp:1708`, `1736`: the loop over the edges of a pipeline `continue`s past
  the stall check, so the error at one token is repeated up to the cap; the
  comment at 374-377 says the check prevents just that.
- `lib/Parser/Parser.cpp:1536`: `parseQualifiedName()` takes its first token
  untested, and two of its callers (`parseQualifiedNameString()`,
  `parseStdImportAsDataDecl()`) have not looked at it. So `void f() = };` is
  accepted with a brace for the name of the bound function ("Qualified name as single
  string", `Parser.h:100`). `ParserIsSound` excepts it (`odd`).
- `synchronize()`'s "force progress" branch is never taken; `parseComptimeDecl`
  (2434) has no caller; `record<>>` is not split into two `>`.
- `lib/Parser/Parser.cpp:1975`: an `ignore:` section of a type is read as a private one.
- The recursion of unary expressions, namespaces and type members is not limited,
  unlike that of types and blocks.
- `std::isalpha(char)` is undefined for a negative `char`, which every byte of a
  non-ASCII text is where `char` is signed.

**Imports, types, blocks**

- `SemaTest.cpp:1227`: "internal namespace forces all members to Internal
  visibility"; the test asks about functions. `SemanticAnalyzer.cpp` near 463 does not pass
  it on to the members of types (`VisibilityCollector` does). `CallsAreVisible`
  leaves a call of such a member open: the model accepts it, as the code does. Types nested in types are not collected at all.
- `analyze()`'s check 1.5 cannot fire through `topo --check`. Import paths are
  compared as text, so one file may be two. A file's own declaration silently
  shadows an imported one. The selection of a type brings its member functions
  only for an external type. An unresolved selection is printed only when no
  file fails.
- `TypeResolver.cpp:47-50`, `68-73`, `99-100`: user types in records, arrays and unions
  are accepted although the comments say they are rejected; `TypesAreKnown`
  leaves these types open (`OutsideContract`). Of the qualified names only those of three parts
  that begin with `std` are looked up (`221-230`); any other is accepted. Arguments of declared
  templates, of qualified and of lifetime types are not resolved; T002 is
  not checked in record and union fields, in parameters of functions with several
  returns, nor for a template without arguments. Nested template classes see only
  the parameters of the outer one. S-OWN-001 and S-OWN-005 do not look at return
  types; the graph of S-OWN-004 uses simple names, so two types of one name in two
  namespaces can make a cycle that is none. An `adapt` in front of its
  constraint is not checked.
- In an fn block, a call without a stage in front of one with stage below 1 runs
  after it. S-OWN-002 counts two owned parameters of one function as two
  consumers. `with returns` silently hides a field that is bound. What a node
  demands of its predecessor is not demanded of the predecessor's predecessors.
  A repeated edge offers the same fields twice. In a pipeline of functions with single
  returns the types of neighbours are not compared.
- A type marked external after its special members were collected keeps them; an
  explicit external type nested in another loses its own owner.

**Priorities**

- `PriorityAnalysis.cpp:31`: an explicit `priority(normal)` is not treated as an
  annotation, because Normal is also the default (`PriorityAnalysis.h:14`);
  `PrioritiesAreSound` excepts it.
- `PriorityAnalysis.cpp:53`: a callee is looked up under the caller's namespace
  and its text. Of the forms that `resolveCallee()` accepts
  (`SemanticAnalyzer.cpp:950-1005`) only the relative one is found: `a::helper`
  called inside `a` becomes `a::a::helper`, and a function of an enclosing
  namespace is missed, so neither inherits; nor do the stages of a pipeline
  (`stages_inherit`). `Inherited` is stated of calls in the relative form. The
  check of imported internal functions (`SemanticAnalyzer.cpp:94-97`) prefixes in the same way.

**Build**

- `IncrementalCache.cpp:96`: removing `Topo.toml` is not noticed. A crash behind
  the symbols and before the manifest, followed by the removal of a `.topo` file,
  makes an old manifest valid for newer symbols. Errors of the streams are
  ignored.
- A chain of more than 256 records, or more than 4096 nodes, makes `flush()` refuse
  everything; evidence of two commands that write one output never verifies.
- Lost on the way through a codec: `IndirectionConfig.vtableOptimize`,
  `ContainmentConfig.strictIdentity`, `VisibilityEntry.priority`,
  `TypeNode.assocBindings` and `hrtbLifetimes`, `TemplateParamDecl.extraBounds` and
  `defaultValue`, `SymbolTable.debugEntries`; in the transpile model also the
  standard-library id and record fields of a type, although
  `TranspileModelJson.cpp:9` calls it the same wire. Unknown words of an
  enumeration silently become the default; only evidence and the Java backend's
  extras reject unknown keys.

**Transpile**

- The optimizer neither counts nor replaces names in the operand of `throw`; a
  rename can meet a local of that name, which the comment at
  `ModelOptimizer.cpp:954` excludes; folding moves an initializer into a loop, a
  branch, or past another call; the target of `_tmp += 1` is replaced by the
  initializer; accumulators are found in outermost blocks only, since the recursion at
  617 comes behind a `continue` for all that is not a declaration. `Preserved`
  states what holds in spite of these. Only tests call the optimizer.
- `filterByPipeline()` returns the whole module when nothing is reachable, where
  `TranspileDriver.cpp:773` says it is empty. An opaque adapter is installed as an
  unsupported expression and counted as one. `buildPipelineBody()` takes the
  order of the edges where its header says topological. The extractor's exit
  code is ignored, and the whole request is written before any of its output is read.

**Debug server**

- `HttpServer.cpp:268-275`: if `pipe()` fails, `requestStop()` closes the
  listener, "to interrupt accept()", and 327-329 rely on that; but the loop sits in
  `poll()`, which a close on another thread does not wake. `StopsWhenAsked` excepts a server that
  stays there (`HeldUp`).
- `HttpServer.cpp:104`: reads and writes have no deadline, and neither have an
  evaluation by the adapter and the browser launcher, so any of them holds its
  server for ever, also when a stop is requested: the other exceptions of
  `StopsWhenAsked`.
- `tools/topo-debug/main.cpp:2016-2018`: "Declared before route registration so
  the /query + /ws handlers can append to it"; the handler of `/ws` (2118-2208) is not
  given `recordQuery`, so its queries are answered and never in the history.
  `HistoryHoldsAnswered` is about `POST /query` alone.
- `HttpServer.cpp:419-422`: a raw handler that returns false is said to "fall back to
  normal 400"; the result is ignored and the handler answers itself. A
  WebSocket upgrade from a foreign origin is answered twice, by a 403 and then a
  400, whose `Content-Length` (16) exceeds its body (15 bytes).
- `tools/topo-debug/main.cpp:2693`: SIGPIPE is ignored only after the AI thread has started to
  serve (`died` in `DebugServer`).
- `HttpServer.cpp:401-406`: a failing `accept()`, for want of descriptors for
  instance, ends the server without a stop.

## 8. What is not modelled and why

`PROJECT.json` lists every component with its status and reason. In short:

- *conversions and layout* (AST printer, formatter, profile field mappings,
  templates, summaries, pages, the decoding of language-server replies, the text
  the source builder writes): no state, nothing to interleave;
- *pure I/O* (globbing, tool resolution, assets, shared libraries): one call each;
- *single passes over a table* (single checks, visibility sections, binding of
  concrete signatures, analyses of stages, lifetimes, pipelines): no state
  between calls; the one thing they have in common that can go wrong, under which
  name a function is looked up, is in `PriorityAnalysis`;
- *fixed sequences* (the launcher of the analysis sandbox, temporary files, the
  file lock, which nothing uses): one owner, and the first error ends them;
- *Windows branches*: the same control structure as the POSIX ones;
- *spurious wake-ups, memory order*: flags are sequentially consistent atomics
  in the code, and every wait re-tests its condition;
- *contents*: bytes, names and messages are model values wherever no property
  depends on what they say. Precedence in expressions and the shape of the syntax
  tree are left out of the parser for that reason.

## 9. What is left

Worth adding, most useful first: the file lock with its retry loop and the
analysis launcher (`FileLock.cpp`, `AnalysisProcess.cpp`) beside `BoundedCapture`;
the stage and lifetime analyses (`StageAnalysis.cpp`, `LifetimeAnalysis.cpp`)
beside `PriorityAnalysis`; the stack of the Speedscope converter; the query
evaluator and the order of versions against reference definitions.

Proofs worth adding: `Accounted` and `Preserved`, after the recursive operators of
their modules are rewritten as recursive functions over layers of expressions
and statements, as was done for `TypeRules`.

## 10. Running the checks

    tlc -config LSPBridge.cfg LSPBridge             # and so for every pair in section 3
    tlapm PipedProcessProofs.tla                    # and so for every module of proofs

| run | module | configuration |
|---|---|---|
| `processes` | `MCProcesses` | `MCProcesses.cfg` |
| `piped_zero_read` | `PipedProcess` | `PipedProcessZeroRead.cfg` |
| `lsp_bridge`, `lsp_returns`, `lsp_stop`, `lsp_server_request` | `LSPBridge` | `LSPBridge.cfg`, `LSPBridgeReturns.cfg`, `LSPBridgeStop.cfg`, `LSPBridgeServerReq.cfg` |
| `platform` | `MCPlatform` | `MCPlatform.cfg` |
| `cache_race` | `BackendCache` | `BackendCacheRace.cfg` |
| `sema`, `stages_inherit` | `MCSema` | `MCSema.cfg`, `MCSemaStages.cfg` |
| `build` | `MCBuild` | `MCBuild.cfg` |
| `transpile_degraded` | `TranspileDriver` | `TranspileDegraded.cfg` |

The modules use the standard modules, the community modules for sequences, sets
and functions, and in proofs the library's theorem modules.
