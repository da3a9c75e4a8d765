# TLA+ models of localMCP-chat

localMCP-chat is a desktop application that lets a remote assistant work on
approved local directories. It runs a local MCP server, publishes it through a
tunnel client it supervises, and offers tools: interactive command sessions,
background jobs, file and archive operations, patches, plugins, an OpenCode
integration. This directory holds TLA+ models of the parts of the program that
are concurrent and of the algorithms its tools rest on, the TLC configurations
that check them and TLAPS proofs of the properties that matter most. Paths below are relative to the repository
(`src/` is its root here, so the application's code is under `src/src/`).

Everything in the program runs on one JavaScript event loop. What interleaves is
therefore what stands between two `await`s, a timer callback or an event handler.
That is the grain of the models: one action is the code from one suspension point
to the next, with every state change on the way.

## Contents

1. Inventory of the system
2. Modules and how they correspond to the code
3. Runs, bounds and what they show
4. Fairness
5. Proofs
6. Findings
7. What is not modelled
8. Plan

## 1. Inventory of the system

| Component | State it keeps | Operations | What is hard about it | What makes it correct |
|---|---|---|---|---|
| Unified exec sessions (`main/codex/unified-exec.ts`) | session table (a Map in insertion order), reservations of ids, initial calls, completed cache with a byte counter; per session a draining buffer, exit and close flags, an interaction lock | `exec_command`, `write_stdin`, list, background state, terminate, terminate all, eviction of finished rows | an initial call and any number of polls drain one buffer; exit, close and data events come in any order; rows are released by five paths | no byte lost or delivered twice, order kept, capacity and budget, ids unambiguous, every call answered, nothing runs after shutdown |
| Interaction lock (same file) | a promise chain, a count, a holder flag | lock, tryLock, release | between a release and the microtask of the next waiter nobody holds the lock | mutual exclusion, no barging, FIFO service |
| Connection controller (`clean/main/connection.ts`) | handles of server and tunnel, operation chain, generation, observed tool fingerprint, published status, retry timer and index | connect, disconnect, refresh, start-up connection, shutdown | operations are queued while others run; configuration and plugins change underneath; an old tunnel still reports | nothing left behind, the status is true, the tool surface published is the current one, one recovery loop |
| Tunnel supervisor (`main/tunnel/index.ts`) | owned run, one timer, a retirement under way, stop flags, backoff | launch, readiness, watch, restart, credential failure, stop | exit, missed readiness, deadline and stop may all want the same client | one client, stop is final, credentials failure is final, a lost client is replaced, one missed check kills nothing |
| Tunnel health and location (`main/tunnel/health.ts`, `locate.ts`) | none | probe, parse, search | - | outcome is one of the cases the supervisor handles |
| Background jobs (`clean/main/tools/background.ts`) | map of jobs; per job a child, a log stream, a metadata file replaced by rename | launch, list, status, read, wait, send, kill, remove, close; restore at start | the application may end in the middle of a save; kill, timer and close event race | jobs are known after a restart, completed output is readable, an end is reported, no process adopted |
| Configuration store (`clean/main/state.ts`) | current configuration, write queue, listeners | load, save, update | writes in flight while the configuration is already in force | listeners hear every change that was saved |
| Durable store (`main/durable.ts`) | pending writes with generations, timers, a serialised write chain | write soon, write now, flush | failure and retry beside newer writes | the newest value reaches the disk, "now" means on disk |
| Plugin manager (`main/plugins/manager.ts`) | installation records, live connections with user counts, a queue per installation, authentications | install, update, enable, remove, call, authenticate, close | calls beside disconnects, cancellation of slow installs, failed saves | records and connections agree, closed means closed, no connection without an enabled record |
| Plugin installer, OAuth (`main/plugins/installer.ts`, `oauth.ts`) | temporary directories, pending authorization | resolve, download, install, authorize | partial installation | nothing half installed is registered |
| OpenCode integration (`main/integrations/opencode/`) | one admission queue, a queue per session, the shared client, the identity of the server, the model catalogue | start, swarm start, continue, turn, send, answer, wait, cancel, abort, pause, resume, status | a request may be lost before or after the server acted; calls meet at one session; a turn may never report its end; the server is replaced underneath | started at most once per request, the ceiling kept, one turn at a time, every call answered, the model meant is the model run |
| MCP endpoint (`clean/main/mcp.ts`) | HTTP server, path secret, requests in flight | start, stop, handle | stop with requests in flight | only the current path answers |
| Tool registry (`clean/main/tools/registry.ts`) | none between calls | list, call | permissions may change between listing and calling | a call is checked against the permissions in force |
| Apply-patch (`main/codex/apply-patch/`, `tools/patch.ts`) | the lines parsed so far, the hunks of one call, the preimages for a rollback | parse, verify, seek, replace, write, move, delete, roll back | one file of several fails while other programs write | what a hunk replaces is what it matched; a verified patch applies; a rollback says what it left |
| File, search, symbol, project, git, skill tools (`tools/read.ts`, `edit.ts`, `git.ts`, ...) | a cache of the modification times a reader was shown; otherwise one call each | read by windows, edit, write, status, diff, restore, commit | the file changes between a read and a write; spans shift each other; pages end inside lines | only text that was seen is replaced, nothing but the spans changes, pages cover everything |
| Test and typecheck tools (`tools/test.ts`, `test-scope.ts`, `typecheck.ts`) | a context stack while a report is parsed | find the harness, run it, parse its report | suites that repeat a name, cut reports, several reporters | counts and verdict are those of the run |
| Archive tools (`clean/main/tools/archive`) | staged output of one call; pending headers while reading | list, read, create, extract | names twice, links, archives that change, headers that belong to the next member | each member accounted for once; what was written is read back |
| JSON tools, file transfer (`tools/json`, `main/files`) | the document of one call; a partial file, a lease, a deadline | query, patch, diff, schema; upload, download | broken, short or stalled streams; a destination that appears meanwhile | a target appears complete or not at all, nothing is overwritten, an uncertain upload is not denied |
| Child processes, sandbox, shell, ripgrep (`main/exec.ts`, ...) | buffers of one call | start, collect, time out, terminate a tree | two streams share one limit, descendants hold the pipes | a call ends within its deadlines and says what is missing |
| Output buffers (`head-tail-buffer.ts`, `truncate.ts`) | head, tail and a count of omitted bytes | append, read, truncate | boundaries | head and tail are what was written |
| Secrets (`main/secrets.ts`); metrics, logging | an encrypted file, a decrypted copy, a shared load, a queue of writes | get, set, reseal | the key store locks between two awaits; reads do not queue | only the key that is set changes; memory, file and answers agree |
| Application lifecycle (`clean/main/index.ts`, ipc, window, tray, autostart, deployment) | quitting flag, window, tray | start, quit | quit during start, second quit | every component is shut down once |
| Renderer (`clean/renderer`) | view state | render | - | presentation only |

How they interact: the registry calls the tools; command tools use the session
manager or the background jobs; the connection controller starts the MCP
endpoint and the tunnel adapter, listens to the configuration store and to the
plugin manager, and recomputes the tool surface from both; the plugin manager
writes through the durable store; the lifecycle code starts everything and on
quit awaits `shutdownConnection`, the plugin manager, the background jobs and
`terminateAllProcesses` together.

The hazards found while reading, each with its line and with the property that
covers it or the reason why none does, are in `PROJECT.json`.

## 2. Modules and how they correspond to the code

`PROJECT.json` maps every definition to the lines it models. In outline:

**UnifiedExec** (`unified-exec.ts`). `mgr` is the manager's fields with their
Map order, `proc` a session and its operating-system process, `exec` and `writer`
the calls in progress, `lockQ` the interaction locks, the rest history. The
synchronous helpers (`reapExitedProcesses`, `enforceCompletedOutputBudget`,
`consumeCompletedProcess`, `releaseProcessId`) are operators on the record `mgr`.
`exec_command` is `ExecCall` (allocation, reaping, admission and spawn have no
await between them), `SpawnReturn`, `ExecDrain`*, `ExecReturn`; `write_stdin` is
`WriteCall`, `WriteRejected` or `WriteBegin`, `WriteDrain`*, `WriteReturn`.
`Query`, `TerminateCall/Return` and `TerminateAll/Return` are the other
operations, `OsExit`, `ExitEvent`, `Data` and `StreamsEnd` the environment.
Output is numbered chunks of one byte; a buffer is a set of them. Deadlines and
grace periods may expire at any moment, so no result depends on a duration.

**InteractionLock** and **ExclusiveLock** (the `Mutex` of the same file). The
first models the promise chain one microtask at a time: `Lock`, `Resume` (the
microtask in which a waiter's `await previous` returns), `TryLock`, `Release`.
The second is the promise of a lock: acquire when free, release.
`ExclusiveSpec` in the first instantiates the second under a refinement mapping;
it is checked by TLC and proved. UnifiedExec uses the lock at the level of the
queue it implements.

**Connection** (`connection.ts`, with `saveConfig` of `state.ts`). The promise
chain is the sequence `chain`, its head the running operation; `run` says at
which await that is. `OpBegin` is `disconnectNow` up to its first await,
`TunnelStopped` and `ServerStopped` the two stops, `ServerStarted`/`ServerFails`
and `TunnelStarted`/`TunnelFails`/`FailurePublished` the rest of `connectNow`
with its catch block. `RefreshNoop` is a refresh that finds nothing to do.
`attemptAutoConnect` is split at its await: the continuation is in `Finish`,
because its promise reaction is queued before that of the next operation. A
server or tunnel is named by the generation that started it, the tool surface is
a number standing for the fingerprint. The stop of a tunnel resolves also when
its tree could not be ended (`stopTree` gives up after three seconds): the tree
is then `abandoned`, which nobody but the property looks at, and the operation goes on.

**TunnelSupervisor** (`startOpenAiTunnel`). `pc[r]` is where the code that looks
after the run `r` is, `timer` the one timer. `Superseded(r)` stands for each
`if (stopped || current !== run) return` after an await. `missed` is a history
variable for one property.

**BackgroundJobs** (`background.ts`). `job` is the live job with what its
closures hold, `child` the process and where its output is, `saves` the saves
under way, `meta` and `tmp` the two files. A save opens (and truncates) the
temporary file, writes it, renames it; two saves of one job share the name, and a
rename takes along a file the other is still writing. `End` may come at any step:
an orderly end stops the children of running jobs, a crash does not. `Start` is
`initialize`.

**DurableStore** (`durable.ts`) and **PluginManager** (`plugins/manager.ts`). The
store is one named file: `pend` is the pending value, `wq` the slots behind
`inFlight`, `flush` the one being written. `writeDurableNow` takes its value by
reference and serialises it when its turn comes, so a slot says whether it holds
the manager's present `records` array or one that has been replaced. The manager
EXTENDS the store and saves through it. `queue[k]` is a promise chain of
`serial`, with its running operation at the head and the await it is at in `pc`.
A connection attempt (`conn[c]`) is a process of its own, because `connect()`
races `startConnection` against an abort: who waits goes on while the attempt
runs to its next check. What a request does before it is queued (switching off,
removing, aborting a sign-in) is in the request's action; the rest is `Begin` and
the actions named after the awaits (`Stopped`, `Saved`, `Unsaved`, `Swap`,
`Undo`...). Promises that are already resolved are continued before anything
from outside happens (`Quiet`). An installation is a child process or static
remote server, an OAuth server or the compiled integration.

**SecretStore** (`secrets.ts`). `load` is the load in flight that every cache
miss shares, `queue` the mutation queue with its running operation at the head
and the await it is at in `at`. The key store (`ring`) changes at any step. A load
that is refused leaves no cache, and a write that shared it fails (`LoadEnds`).

**OpenCode** (`backend.ts`, `client.ts`) has one process per tool call, and one
per member of a start of several workers or of a swarm. `pc` and `loc` are where a
process is and what it knows, `admission` and `queue` the promise chains of
`workerAdmissionQueue` and `sessionQueues`, `auth`, `client` and `pin` the shared
client and the server identity it has seen. `instance` and `sessions` are the
OpenCode server, which is external: it may be replaced, and take a request its
sender gave up (`late`). One step is one request, which may be refused, or lost
before or after the server acted; a poll is one look at the server. The event pump
is the process that notices a replaced server. A listing of sessions ends at 100, so
`List` may miss the session it looks for (`buried`), and the count of the running
workers leaves out those about which a read fails (`Count`, `missed`).
**ModelChoice** (`model-catalog.ts`) is the choice of a model and a variant from
a loose reference.

**Disk** holds the files, node's primitives on them (`codex/filesystem.ts`) and
the read cache (`tools/common.ts`). On it stand **PatchTool** (`tools/patch.ts`,
`apply-patch/index.ts`: verification, preimages, application, rollback; a diff in
git's form; a text is a sequence of lines of two endings, some of them `Heavy` enough
to put a file above 16 MiB, and a path may be `Inside` another), **EditTool** (`tools/edit.ts`, `read.ts`, the rewriting half of
`json.ts`) and **ArchiveTool** (`archive.ts`: extraction member by member,
creation). **FileTools** lets their calls and other programs meet.

**TextLines**, **EditText** and **PatchText** are the text algorithms:
terminators, spans of an edit and their replacement (`edit.ts`), the healing of
line endings (`text-eol.ts`), the streaming patch parser, the search for a chunk
and the replacement of chunks (`streaming-parser.ts`, `seek-sequence.ts`,
`file-update.ts`, `text-file.ts`); **TextTools** states what they should do.
**JsonDoc** (`json/core.ts`), **Containers** (`tarfile.ts`, `zipfile.ts`,
`format.ts`), **Paging** with **PagingTools** (`read.ts`, `truncate.ts`,
`head-tail-buffer.ts`) and **TestReports** (`test-scope.ts`, `test.ts`) are pure
as well. In all of them a behaviour is one question (`ask`, module **Asks**) and
the program's `result`; the property compares it with a definition that does not
follow the code: RFC 6902 for patches, the text with its windows replaced, what
was put into an archive, the lines and bytes of a file, the tree of tests that
was run. **Algorithms** puts them side by side. A parser that reads line by line is one
action per line or block. A report of tests has beside its lines what the tests
print (`Printed`: a line is the set of the words "pass" and "fail" in it) and may be cut
inside a line. A schema looks at the first `SchemaItems` elements and
`SchemaKeys` keys, and a token of a pointer is the key that the code makes of it.

**Transfer** (`tools/file-transfer.ts`, `main/files/`). `names` is who owns the
file at the destination and at each partial name, `source` the file to be
uploaded as it changes, `remote` the uploads that became a file. Every wait is a
step that may also end by its deadline. `Create` has the `stat` behind the
creation, which nothing catches, and a reply may be an error too long to be read. **ChildProcess** (`exec.ts` and the places that
start a child themselves) has the child, a descendant (`heir`), the killer of
Windows, the unread pipes and the timer; `kind` is the place, with what it limits
and how it flags an answer. **GitTool** (`git.ts`) runs a plan of commands through
it, on a repository that others use. **Waits** puts both side by side.

The `MC…` modules define the constants' values for TLC where these are not
numbers and sets of names; the other runs check the module itself.

## 3. Runs, bounds and what they show

| Run | Configuration | Shows |
|---|---|---|
| UnifiedExecDelivery | one session (pipes), 2 writers, 3 chunks | `OutputDelivered`: output accounted for, delivered once, polls in order; `CallsAnswered` |
| UnifiedExecTables | 2 sessions, one a pty, 1 writer, 1 chunk each, 1 live slot, budget 1 | `LiveWithinCapacity`; `TablesAgree`: budget, counter, no forgotten exit, rows agree |
| InteractionLock | 5 clients | `ExclusiveSpec`: the lock implements ExclusiveLock; `LockServed` |
| Connection | 2 surfaces, 2 retries, 3 events | `NothingLeaks`, `NoStaleReport`, `SurfacePropagates`, `RetriesEnd` |
| TunnelSupervisor | 3 client processes | `OneClient`, `StopIsFinal`, `NeverAbandoned` |
| Persistence | 1 job with a timer, 2 chunks, 2 restarts; or 1 read and 2 writes of 2 credentials, 1 restart | `KnownAfterRestart`; `JobsTruthful`: never running unowned, completed output readable; `EndsReported`; `CredentialsKept`: only the key that is set changes, and memory, file and answers agree |
| PluginManager | one installation of any kind on disk, or one being installed; 4 connection attempts, 2 requests or server events, 1 failed write | `ServersAccounted`: revocation is immediate, no server left over, close leaves nothing, failed servers retire; `RowsKept`: installed code exists, choices are durable; `Settles` |
| OpenCode | 2 calls, of the kinds that meet at one object, on sessions found at rest or at work, starts and swarms of one or both of 2 requests, 1 fault, 1 question, ceiling 1 | `StartedOnce`, `CeilingRespected`, `ContinueSerial`, `EveryCallAnswered` |
| FileTools | 2 calls on 2 paths, or a patch of 3 paths one of which is inside another, lines of both endings and one too heavy, 2 faults, 2 edits by other programs | `RollbackTruthful`, `VerifiedApplies`, `SeenBeforeReplaced`, `ExtractionAccounted` |
| ExternalEditWins | a native patch of two files, the second of which fails | violated; see Findings |
| Algorithms | every input within small sets: texts up to 6 lines of mixed terminators, batches of up to 3 edits, documents of depth 2 with schemas of 3 elements and 2 keys, archives of 1 to 3 members, trees of 2 levels with up to 2 lines printed | `TextsInPlace`, `JsonAsStandard`, `ReadsBack`, `PagesComplete`, `ChosenNotGuessed`, `TestsAsReported` |
| Waits | 2 downloads to one destination, or an upload, files of 1 and 3 chunks, a limit of 2, 2 acts of others, 1 fault; or one call with children that write up to 2 characters | `DownloadsWhole`, `UploadsTruthful`, `NeverOverwrites`, `AnswerTruthful`, `ChangesAsConfirmed`, `EveryoneAnswered` |

A property with several parts names them in its definition; each part has a
comment of its own. Why the bounds are enough to see the interesting cases:

- *One session for delivery*: output of two sessions never meets; three chunks
  let each of an initial call and two polls carry one, which is what order and
  double delivery need. The tables run has two sessions over one slot, so that
  one has to be reaped for the other, and a budget that one chunk fills, so that
  shedding happens.
- *Three events for the connection*: a connect, a change during it and a
  disconnect or second change meet every await of an operation. Reports, retries
  and failures are not bounded by that counter.
- *Three clients for the supervisor*: a first, a replacement and a replacement of
  the replacement, with every overlap of retirement, relaunch and stop.
- *One installation for the plugin manager*: installations share only the file
  and `close`. Two requests beside the connection attempt of the start, every
  outcome of installer, server, sign-in and store, and a close at any step give
  each pair of overlapping operations; two more attempts are there for rollbacks.
  Writes do not fail in behaviours that start with an OAuth server or an enabled
  compiled integration on disk (`MCSpec`): their sign-ins and native calls are
  explored with a store that works, everything else with one that fails once.
- *One job*: jobs share nothing but the map; saves, kill, timer and restart of
  one job are the interleavings. Two restarts let a restored job be restored.
- *One read and two writes of credentials*: a stale map in memory needs a load and
  a write that overlap, and the second write shows what the first left. A key
  store that locks, unlocks or falls back at any step is not bounded.
- *Two calls for OpenCode and the file tools*: every shared object is taken by at
  most two at a time, and each pair of kinds that share one is in `MCMixes`. One
  lost or refused request, or one listing or count that misses something, reaches
  every retry; two would repeat it. Other programs edit the two files a mix is
  about (`edited`), so that a third path does not multiply their edits.
- *Small inputs for the algorithms*: the cases are boundaries (an empty line at the end,
  an index equal to a length, a name one longer than a field), which the
  constants of the models (`Block = 2`, `ShortMax = 2`, `Limits = {1, 2, 9}`) put
  within reach of short inputs.
- *Three chunks over a limit of two for transfers*: a file below, at and above
  the limit. Two characters of two bytes in a buffer of three cut one in half.

Deadlock checking is off where the system or the bounded instance really stops:
the application has quit, the supervisor is down, the calls are answered, or the
bounds are used up. It is on for the lock.

Every property of a passing run has a mutant in `PROJECT.json`: a definition
replaced by what a plausible mistake in its code would make it, under which TLC
finds the property violated.

## 4. Fairness

Safety runs assume none. Where a liveness property is checked:

- *UnifiedExec*: weak fairness of the continuations `SpawnReturn`, `ExecReturn`,
  `WriteBegin`/`WriteRejected`, `WriteReturn`. Each is a timer or a microtask: the
  collection loop always arms a deadline. Nothing is assumed of processes: they
  need not exit, produce output or close it.
- *InteractionLock*: a microtask that is queued runs, and a holder releases
  (`writeStdin` does in a `finally`, after a bounded collection).
- *Connection*: the operation at the head of the chain begins, which is a
  microtask, and an armed retry timer fires. Nothing is assumed of the awaits inside
  an operation: the server closes when its last connection does, without a
  deadline (`mcp.ts:284-290`), so an operation may hang and the properties allow for it.
  Users and configuration are not fair.
- *BackgroundJobs*: the events of a child that has ended are delivered and the
  log stream drains while the application runs. A child need not end and a kill
  need not return.
- *OpenCode*: a process goes on, and each request it sends is answered or times
  out (`client.ts`). The server need not take it and a turn need not end: what
  bounds a wait is the deadline in the code.
- *Waits*: the program's own steps and its timers. The remote side, the child and
  its descendants are not fair: they may stall for ever.

## 5. Proofs

TLAPS proves the following for every value of the constants, under the
assumptions the modules name. These say that bounds are natural numbers and the
limits are not zero, that names are distinct from "none", and that there is a
credential or a request to be asked for; the callers of the credential store are
finitely many, and a source to be uploaded is within the limit. Two say more: `MixAssumption` of
OpenCode, that an earlier run left on the server what `History` lists, and its
`OpenCodeAssumption`, that the tasks of one start carry different request ids,
which the code leaves to the caller. Each proof module states the inductive
invariant as a conjunction of named parts, has a lemma for each action, and
derives the theorems.

- **InteractionLock_proofs**: `LockInvariant`, `LockMutualExclusion`,
  `LockImplementsExclusive`. The invariant ties the count and the holder flag to
  the chain: a client may be resumed only if everyone before it in the chain has
  released. Mutual exclusion alone is not inductive, since the flag is clear
  between a release and the next microtask. For the refinement, every step maps to an acquire, a
  release or a stutter.
- **UnifiedExec_proofs**: `CapacityInvariant`, `CapacityHolds`
  (`LiveWithinCapacity`). Counting running processes is not inductive; the
  argument is that reservations stay within the limit and that every running
  process holds one, because each of the paths that give a reservation back does
  so for a session known to have exited or never to have had a process. This in
  turn needs the life cycle of an id (`Lifecycle`): an id not handed out has no
  process, and a session marked exited has none any more.
- **UnifiedExec_proofs**, output and tables: `ExecInvariant`, `OutputIsDelivered`
  (`OutputDelivered`), `TablesAlwaysAgree` (`TablesAgree`). The invariant `ExecInv`
  says of each session (`Session`) where its output is and what its tables say.
  *Where* (`Apart`, `Whole`): while it has a row, each chunk that arrived is in one of the call
  that collects, the poll that collects, the buffer, the completed cache and
  the responses; what polls returned comes before what they have in hand, and that
  before what is in the buffer, which is the order of the responses. This needs that
  one poll at a time has something in hand: the callers of a session are those in
  its queue, and only the first collects (`Waiting`, `Queue`). A reaped row may
  be emptied since nobody collects from it (`Rows`) and nothing arrives any more
  (`Closing`). *Tables*: no end is forgotten because a row goes away only
  with a response that tells of the end, into the completed cache, or into the
  hands of the one call that has seen the write fail (`Reported`). The counter is exact
  since each move of bytes between the tables is a disjoint union or difference
  (`BytesUnion`); that `EnforceBudget` stops within the budget needs the least
  number of rows to empty (`LeastIn`).
- **Connection_proofs**: `ConnectionInvariant`, `NothingIsLeaked`,
  `StatusIsTruthful`, `SurfaceIsFresh`, `StaleReportsDropped`. The invariant says
  what is live at each await of the running operation (`Live`, of the trees that were
  not given up on, which are counted apart), that nothing is
  claimed without a tunnel (`Claims`), and that an outdated surface has an operation
  behind it on the chain (`Caught`), which is why a change during a start is not
  lost: the operation that runs cannot be the one that answers it.
- **TunnelSupervisor_proofs**: `SupervisorInvariant`, `NeverTwoClients`,
  `StopLeavesNothing`, `ClientReplaced`, `AuthFailureStays`, `TwoMisses`. "At most
  one client" is not inductive: two could come from a launch beside a retirement.
  The invariant `Turns` says that the owned run, a retirement, a stop, a launch and the relaunch
  timer exclude each other, and that the tree alive is the one of whoever has the
  turn; `Abandoned` covers the tree that could not be stopped.

- **Persistence_proofs**, credentials: `SecretsInvariant`, `CredentialsAreKept`
  (`CredentialsKept`). That memory agrees with the file (`CacheIsFile`) needs that
  a load and a write exclude each other: a load is in flight only while there is
  no copy in memory, and a write goes on only with one (`LoadOrCopy`). What a
  write puts down is the copy with its own change only (`Writes`, `Published`),
  so nothing of other keys is lost between its read and its rename. What a reader
  is told is among what the file held while it waited (`Shown`, `Told`).
- **Persistence_proofs**, jobs: `JobsInvariant`, `JobsSurvive`
  (`KnownAfterRestart`), `JobsAreTruthful` (`JobsTruthful`). A job's saves follow each
  other: that of `launch` before its handlers, that of `finish` once, after them
  (`SaveOrder`, `SavedAlone`, `FinishOnce`), and only a kill breaks it, which is
  why a killed job is excepted from the state on disk and not from being known. That a
  completed job's output is in its log needs `Delivery`: with early handlers no chunk
  is lost between the pipe and the log.
- **Waits_proofs**, transfers: `TransfersInvariant`, `DownloadsAreWhole`
  (`DownloadsWhole`), `UploadsAreTruthful` (`UploadsTruthful`), `DestinationIsKept`
  (`NeverOverwrites`). For each call: which names may be its file (`Partial`),
  that the file holds what was received (`Body`), that at the destination it is
  whole (`Whole`), that in a directory nobody moved no partial is left but by a call that
  could not look at the file it had created (`Home`), when there is a remote file
  (`Remote`, which knows of a failed answer whether its status was ever seen), and between which two versions of the source
  everything read lies (`SourceRead`); from the last, equal versions at the
  beginning and end mean one version throughout.
- **Waits_proofs**, children and git: `ChildrenInvariant`, `AnswersAreTruthful`
  (`AnswerTruthful`), `GitInvariant`, `ChangesAreAsConfirmed`
  (`ChangesAsConfirmed`). Kept, unread and written bytes of each stream account
  for each other until somebody cuts, and who cuts says so (`Piped`); a child given
  up on left no one of its group (`GroupEnded`). The git tool's plan is a suffix of
  the plan of its mode (`Planned`); what was confirmed and seen is a matter of how
  much of it is left (`Confirmed`, `Looked`).
- **OpenCode_proofs**: `OpenCodeInvariant`, `AgentsStartedOnce` (`StartedOnce`),
  `CeilingHolds` (`CeilingRespected`), `ContinuationsAreSerial` (`ContinueSerial`).
  None of the three is inductive. *Once*: two members never work at one request, since
  one batch at a time heads the admission queue and its requests differ
  (`BatchOk`); so what `list` and `find` did not see is still not there when the
  session is created and the prompt sent, and the list after a lost answer sees
  what was created; an id is in `buried` from the listing that missed its session on, and all is
  said of the others only. *Ceiling*: the workers that run and those members that may
  still start one fit together (`Room`) under the ceiling and the workers ever
  overlooked (`missed`); admission counts every other running worker since
  one that runs is a member whose last turn is unfinished (`SessionOk`, turns begin in
  order). *Serial*: who is between its look and its prompt heads the session's
  queue and the session has no continuation at work (`MainOk`). `early` and
  `tardy` mark two more ways out of it that the code has: a batch answered while a
  member still starts, and a request taken after its sender gave up. Faults,
  replacements of the server and restarts are not excepted.
- **OpenCode_proofs**, choices: `NeverGuesses` (`ChosenNotGuessed`), for every catalog
  and every list of published variants. A choice is the best of one of three ranks,
  the first with a match (`PreferredIsBest`), else the sibling (`FamilyInScope`) or
  the one with most words in common (`FuzzyIsBest`), and each of these is one route
  or none (`SingleIs`): sets, so no induction over the catalog. Assumed
  (`ChoiceAssumption`): catalogs and references are finite, and
  names that differ in case only are squeezed alike, which is what
  `normalizeVariant` makes of them.

- **FileTools_proofs**: `FilesInvariant`, `TypeCorrect`, `RollsBackTruthfully`
  (`RollbackTruthful`), `AppliesAsVerified` (`VerifiedApplies`),
  `AccountsForMembers` (`ExtractionAccounted`), `ReplacesOnlyWhatItSaw`
  (`SeenBeforeReplaced`). Nothing locks the files, so the invariant cannot say
  what is in them; it has three layers. *Types*: which local values a call has at
  each place (`CallTyped`). *Knowledge* (`Knows`): what a call remembers of a
  path is so or somebody wrote the path since: a rollback has dealt with every
  path it has passed (`RollOK`), what a patch wrote last to a path is there
  (`DeltaOK`), an edit has the text of its file (`EditOK`), an extraction found
  nothing there (`UnpackOK`). A step of another call only adds to what is not
  known (`KnowsMonotone`), which is what makes any number of calls possible.
  *Undisturbed* (`Alone`): until somebody else writes or a write fails, there is a
  sequence `W` of file systems, the one verification met and what each hunk makes of it, in
  which the dry run and the application are two walks (`DryRun`, `Reached`); a hunk whose
  place in `W` verification accepted cannot fail (`Bad`), and the last element is
  what was foreseen up to line endings (`AfterAlike`). Two facts about the patch
  carry this over from what was looked at to what is found (`Sure`): a file too large is
  one that an earlier hunk made so (`Grown`), and no file can stand in the way of one it
  names unless the dry run met it (`Clear`, which is kept since no two of its paths are nested). For an extraction it says what each name holds
  after the members before `at` (`Extracted`). `FreshMeansSeen`
  is inductive beside the types. The attempt to prove `ExtractionAccounted` showed
  that it was false as it had been stated: an archive replaced between its listing
  and its reading, or a name that is a link in it, leaves something
  else than the last content listed; it now speaks of names under which the archive has
  files only, of the content that was read (`OnlyFiles`).

The statements about the file tools assume of each call what its schema and its parser let through
(`MixAssumption`), of the files that they are files, folders or absent, and
nothing of how many there are.

`StatusIsTruthful`, `SurfaceIsFresh`, `AuthFailureStays`, `TwoMisses`,
`LockMutualExclusion`, `TypeCorrect` and the invariants are no property of a run: they are
proved, and the runs keep their places for what is not.

Only model-checked: all liveness properties (the prover has no fairness and no
ENABLED here: `CallsAnswered`, `LockServed`, `SurfacePropagates`, `RetriesEnd`,
`EndsReported`, `EveryCallAnswered`, `EveryoneAnswered`); PluginManager
(`ServersAccounted`, `RowsKept`, `Settles`: its invariant would have to say for
each await of each kind of operation which server, row and slot of the store it answers for,
and `DurableStore` beneath it serialises values by reference); and the pure algorithms
(`TextsInPlace`, `JsonAsStandard`, `ReadsBack`, `PagesComplete`,
`TestsAsReported`), whose
meaning is an induction over their input. (An induction over numbers alone needs
no more than the well-foundedness of their order: `LeastIn` and `AllNumbers`,
which gives what is left of a Map when keys are taken out of it, and the last
write to a path.) The inductive invariants above were checked by TLC on the instances
of their runs before they were proved, but for the sequence `W` of the file tools,
which TLC cannot enumerate.

## 6. Findings

*ExternalEditWins*: a native patch takes its preimages before the applier reads
the files. An edit by another program in between is part of what the applier
reads, and of the text the rollback expects to find; when a later hunk fails the
rollback puts the preimage back and the edit is lost. `patch.ts:60`,
`SECURITY.md:15` and `CONTRIBUTING.md:24` say that it wins.

Met while modelling, without a run of their own (found by TLC when the property
was stated, or by comparing the code with its reference definition). Properties
that these would break say in their comments what they except.

Sessions, connection, jobs and plugins:

- a poll after the exit event but before the output is closed releases the
  session, and the bytes that follow cannot be polled (`unified-exec.ts:864`,
  comment at 850); `terminateAllProcesses` misses a session in its early-exit wait
  (960, `README.md:113`); a poll that finds the exited session first removes the
  row that the initial `exec_command` still owns, and that call then fails;
- a manual connect while an automatic attempt is failing leaves a retry timer
  beside a live tunnel (`connection.ts:213`, comment at 48); a failed
  configuration write rejects the write queue for good and silences the
  listeners, so that the old tool surface stays published (`state.ts:180-187`);
- a child that ends while `launch` still saves the metadata has its output read
  by nobody, and is reported completed (`background.ts:147`); a kill and the end
  of a job save into one temporary file (255); the timer ends a log stream that is still
  written to (170); two launches with one requested id both pass the check; a
  removal during a save lets the rename bring the metadata back;
- a native call connects outside the queue, so that a configuration or restart
  under way replaces its backend without closing it (`manager.ts:972`), and an
  installation request races the requests on what it has just published (351);
  after a native call the status of its backend overwrites that of a disabled
  installation; a sign-in that ends aborted hides the tools of a server that a
  queued restart has connected meanwhile; the retry of a failed write writes the
  array that still has the row of a failed installation (`durable.ts:144`); a
  connection saves a new generation before the replacement is accepted, so that a
  crash after the rollback finds a directory that is gone;
- a client that could not be stopped is unknown to the supervisor of the next
  connect (`tunnel/index.ts:407`): the stop counts as done (640) and the next
  client is started beside its tree (`connection.ts:105`); a second quit is not prevented while the first
  is tearing down (`index.ts:180`); a disconnect waits for every request in
  flight;
- `deleteAllSecrets`, which nothing calls, raises the generation before it removes
  the file: a load that starts in between reads the old file under the new
  generation and publishes it after the removal (`secrets.ts:318-323`, comments
  at 152 and 315).

OpenCode: the ceiling holds over standalone workers, and does not hold over these
and the members of swarms together (`docs/opencode-control-architecture.md:660`).
The first member of a swarm that fails gives the admission queue up while others
still start (`backend.ts:1836`). A retry looks for its session among the 100 that
OpenCode lists first (593, 1223, 1489): behind a hundred newer ones it is not
found, and a second is created. The count of the running workers drops those whose
session or last turn could not be read (1409-1419), and may admit as many too many.

Texts, documents and archives:

- JSON: where RFC 6902 refuses, `add` beyond the end of an array appends and
  an index that is no number counts as the first; a removal of a missing member
  succeeds, missing parents are created, a move into itself is accepted, `test`
  minds the order of keys, and keys with leading zeros become numbers
  (`json/core.ts`; the RFC is named in `registry.ts:266`, `docs/tools.md:52`). The
  pointer "/" of a hit denotes the key "" and not the root; a path writes an
  all-digit key as `[n]`, which a query refuses; an inferred schema can reject its own
  document with three or more items, and one with more than 120 elements or 240
  keys, of which it has not seen the rest (`json.ts:154`).
- patches: a file that a patch makes larger than 16 MiB is not looked at by the dry
  run and refused when a later hunk comes back to it (`apply-patch/index.ts:263`, 283, 309
  against 604), a patch that adds `a` and then `a/b` is verified and then fails half way,
  and a file added over another gets the line endings of that (270) where the
  dry run has those of the patch (608);
- texts: two edits of one empty line are not taken for an overlap and come out in
  reverse (`edit.ts:339`, 347); an old text quoted from inside a CRLF leaves half of it; a bare CR before an
  empty LF line loses a blank line; healing by position changes the endings of
  lines that did not change (`text-eol.ts:154-165`).
- archives: single-file decompression and external extraction ignore `overwrite`
  (`archive.ts:834`); a file followed by a hard link of the same name extracts
  empty; a PAX record's length counts bytes but its text is cut in UTF-16 units
  (`tarfile.ts:211`), a global record reaches only the next entry, the PAX size is
  not used for the offset of the next entry (43, 68); ZIP64 fields are read by
  position, so that an entry that needs only the later ones keeps `0xffffffff`
  (`zipfile.ts:366`); a non-ASCII tar name over 100 bytes is cut.
- paging: a line larger than a page of a member repeats its offset for ever
  (`archive.ts:580`); the cut of several targets together can remove the hint where a page
  goes on (`read.ts:282`).

Tests, git, children, transfer:

- the generic report parser counts "not ok" lines as passed
  (`test-scope.ts:707`); a TAP suite inside a suite of the same name ends the outer one; of two
  results without a YAML block the first is lost; jest's JSON is mixed with its
  messages and never parses; mocha's, playwright's and ava's reports are in other formats
  than the parser reads; cancelled tests are not counted as failed. Error codes
  `typecheck` does not list leave it "passed" (`typecheck.ts:78`, 412).
- restore and commit do not look at the exit code of their check for conflicts
  (`git.ts:191`, 203), warnings use up the limit of the output (73), characters cut between
  two chunks are mangled (74), a status that fails after a commit answers with an error (212),
  and the commit reported may be another program's (213).
- on Windows the termination of a leader that has ended counts as success while its
  descendants hold the pipes (`exec.ts:239`); the archive helper and `ls-files` have no
  deadline (`system.ts:75`, `project.ts:67`), and are excepted from the liveness
  property for that reason.
- an upload whose success cannot be read is reported as a plain failure
  (`openai-files-client.ts:246`, `docs/file-transfer-architecture.md:814`), and so is a
  server error with a body over 2 MiB, whose status is not looked at (244-251); a
  download that cannot `stat` the partial it has just created leaves it
  (`local-file-target.ts:88`).

## 7. What is not modelled

Durations (every timer may fire at any time after it is armed); wording and layout
of responses; the growth of backoffs; the contents of files other than what a
property distinguishes; the `cloudflared` and manual tunnels, which are single
starts without supervision; requested (as opposed to generated) job ids; names,
schemas and conflicts of plugin tools, their credentials and the redaction of
secrets; compression, checksums and dates; the validation of remote addresses and the
resolution of paths, of which the models take the outcome; the uninstallation of OpenCode
and what its workers say.

Of parts that are modelled: the messages a session's pty fails with, and the await
before its spawn (`unified-exec.ts:308`); the three gits that a summary runs at once
(each is one child of ChildProcess); in patches, the folders made for a file and
left empty, and the limit of 64 MiB on preimages; for the tools other than
patches, paths inside one another; the creation by `edit` of a file that appears
between its `stat` and its write (`edit.ts:385`), which `SeenBeforeReplaced` does not
speak of; pages over several targets at once (`read.ts:282`); PAX size and global
records, V7 tars, and a compressed file that is itself a tar, in what
`ReadsBack` is asked. `PluginManager.update`, `writeDurableSoon`,
`flushDurable` and `deleteAllSecrets` have no caller in the application. The
components listed as `not_modelled` in `PROJECT.json` keep no state between calls
that another call could meet, are input and output, or are user interface; the
installer and OAuth of plugins enter PluginManager by their outcomes.

## 8. Plan

1. **Proofs**: `ServersAccounted` and `RowsKept` of PluginManager, from
   which step of which operation may hold a server.
2. **Refinements**: what `writeDurableNow` promises, implemented by DurableStore;
   an abstract map implemented by SecretStore.
3. **Lifecycle**: start, quit and second quit over the components' abstract
   behaviours; two supervisors over a reconnect.
