----------------------------- MODULE UnifiedExec -----------------------------
(***************************************************************************)
(* The unified exec session manager: UnifiedExecProcessManager and the     *)
(* UnifiedExecProcess sessions it owns (src/src/main/codex/                *)
(* unified-exec.ts).                                                       *)
(*                                                                         *)
(* A tool call exec_command allocates a session id, spawns an operating    *)
(* system process, and collects output until a deadline; if the process    *)
(* is still running the session stays in the table and write_stdin calls   *)
(* poll it.  Everything runs on one event loop, so an action here is what  *)
(* the code does between two awaits; the steps of several calls, of the    *)
(* operating system and of the event sources interleave.                   *)
(*                                                                         *)
(* Abstractions.  Output is a sequence of numbered chunks of one byte; a   *)
(* buffer or a response is the set of chunks in it (HeadTailBuffer, which  *)
(* can drop bytes only beyond 1 MiB, is a module of its own).  Deadlines   *)
(* and grace periods may end at any moment.  The exit code and the         *)
(* response text are left out.                                             *)
(***************************************************************************)
EXTENDS Naturals, Sequences, FiniteSets, FiniteSetsExt, SequencesExt

CONSTANTS
  MaxCalls,      \* bound on the number of exec_command calls, one session each
  Tty,           \* the sessions started with tty: true
  Writers,       \* concurrent callers of write_stdin
  MaxChunks,     \* bound on the output chunks one process produces
  MaxLive,       \* maxLiveProcesses
  Budget         \* completedOutputBudgetBytes

Pids == 1..MaxCalls
Chunks == 1..MaxChunks

ASSUME CallsAssumption == MaxCalls \in Nat /\ Tty \subseteq Pids
ASSUME LiveAssumption  == MaxLive \in Nat \ {0}
ASSUME SizeAssumption  == MaxChunks \in Nat /\ Budget \in Nat

VARIABLES
  nextId,        \* nextProcessId, counted from 1
  mgr,           \* the manager's own maps and counters, see TypeOK
  proc,          \* one UnifiedExecProcess and its OS process per session
  exec,          \* the exec_command call that owns each session id
  writer,        \* the write_stdin call each caller is in
  lockQ,         \* interactionLock of each session: holder first, then waiters
  killing,       \* sessions with an unfinished terminate()
  phase,         \* "up", then terminateAllProcesses: "stopping", "down"
  pollLog,       \* history: output returned by write_stdin, in response order
  execOut,       \* history: chunks returned by exec_command
  over           \* history: sessions whose end some response has reported

vars == <<nextId, mgr, proc, exec, writer, lockQ, killing, phase,
          pollLog, execOut, over>>
history == <<pollLog, execOut, over>>

Ids == 1..(nextId - 1)    \* the session ids handed out

(***************************************************************************)
(* proc[p].os: the session leader.  "unspawnable" is a command for which   *)
(* spawn() yields no pid and later an 'error' event.                       *)
(***************************************************************************)
OsStates == {"none", "running", "gone", "unspawnable"}

TypeOK ==
  /\ nextId \in 1..(MaxCalls + 1)
  /\ mgr \in [live      : Seq(Pids),        \* processes, in Map order
              initial   : SUBSET Pids,      \* initialExecCommandActive
              reserved  : SUBSET Pids,      \* reservedProcessIds
              completed : Seq(Pids),        \* completedProcesses, Map order
              retained  : [Pids -> SUBSET Chunks],  \* their rawOutput
              bytes     : Nat]              \* completedOutputBytes
  /\ proc \in [Pids -> [os      : OsStates,
                        pipe    : BOOLEAN,  \* the OS can still send output
                        exited  : BOOLEAN,  \* exited and cancelled
                        closed  : BOOLEAN,  \* outputClosed
                        arrived : 0..MaxChunks,
                        buf     : SUBSET Chunks]]
  /\ exec \in [Pids -> [pc    : {"none", "spawning", "collecting", "done"},
                        alive : BOOLEAN,    \* processStartedAlive
                        got   : SUBSET Chunks]]
  /\ writer \in [Writers -> [pc     : {"idle", "locking", "collecting"},
                             pid    : Pids \union {0},
                             kind   : {"poll", "input"},
                             exited : BOOLEAN,   \* statusAfterWrite
                             got    : SUBSET Chunks]]
  /\ lockQ \in [Pids -> Seq(Writers)]
  /\ killing \in SUBSET Pids
  /\ phase \in {"up", "stopping", "down"}
  /\ pollLog \in [Pids -> Seq(SUBSET Chunks)]
  /\ execOut \in [Pids -> SUBSET Chunks]
  /\ over \in SUBSET Pids

IdleWriter == [pc |-> "idle", pid |-> 0, kind |-> "poll", exited |-> FALSE, got |-> {}]

Init ==
  /\ nextId = 1
  /\ mgr = [live |-> <<>>, initial |-> {}, reserved |-> {}, completed |-> <<>>,
            retained |-> [p \in Pids |-> {}], bytes |-> 0]
  /\ proc = [p \in Pids |-> [os |-> "none", pipe |-> FALSE, exited |-> FALSE,
                             closed |-> FALSE, arrived |-> 0, buf |-> {}]]
  /\ exec = [p \in Pids |-> [pc |-> "none", alive |-> FALSE, got |-> {}]]
  /\ writer = [w \in Writers |-> IdleWriter]
  /\ lockQ = [p \in Pids |-> <<>>]
  /\ killing = {}
  /\ phase = "up"
  /\ pollLog = [p \in Pids |-> <<>>]
  /\ execOut = [p \in Pids |-> {}]
  /\ over = {}

-----------------------------------------------------------------------------
(***************************************************************************)
(* The manager's synchronous helpers, as functions of the record m.        *)
(***************************************************************************)

\* A Map's keys in order without those of S.
Without(keys, S) ==
  LET kept[i \in 0..Len(keys)] ==
        IF i = 0 THEN <<>> ELSE IF keys[i] \in S THEN kept[i - 1] ELSE Append(kept[i - 1], keys[i])
  IN kept[Len(keys)]

\* releaseProcessId
Release(m, p) ==
  [m EXCEPT !.reserved = @ \ {p},
            !.initial  = @ \ {p},
            !.live     = Without(@, {p})]

\* The rows reapExitedProcesses may compact: nobody collects from them.
Reapable(m) ==
  {p \in ToSet(m.live) : /\ p \notin m.initial
                         /\ proc[p].exited
                         /\ proc[p].closed
                         /\ lockQ[p] = <<>>}

\* The bytes that the sessions in S have in their buffers.
Bytes(buffer, S) == Cardinality({x \in S \X Chunks : x[2] \in buffer[x[1]]})

\* The n oldest completed rows.
Oldest(m, n) == {m.completed[i] : i \in 1..n}

\* The number of oldest rows to empty until the rest fits.
Shed(m) ==
  LET rows   == Len(m.completed)
      enough == {n \in 0..rows : m.bytes - Bytes(m.retained, Oldest(m, n)) <= Budget}
  IN IF enough = {} THEN rows ELSE Min(enough)

\* enforceCompletedOutputBudget
EnforceBudget(m) ==
  LET emptied == Oldest(m, Shed(m))
  IN [m EXCEPT !.retained = [p \in Pids |-> IF p \in emptied THEN {} ELSE @[p]],
               !.bytes    = @ - Bytes(m.retained, emptied)]

\* The loop of reapExitedProcesses: each reapable row moves its unread output
\* to the completed cache and gives its id back.
Compacted(m) ==
  LET gone == Reapable(m)
  IN [m EXCEPT !.live      = Without(@, gone),
               !.reserved  = @ \ gone,
               !.completed = @ \o Without(m.live, Pids \ gone),
               !.retained  = [p \in Pids |-> IF p \in gone THEN proc[p].buf ELSE @[p]],
               !.bytes     = @ + Bytes([p \in Pids |-> proc[p].buf], gone)]

\* reapExitedProcesses, on the manager's side.
Reap(m) == EnforceBudget(Compacted(m))

\* reapExitedProcesses, on the sessions' side: takeBuffer of every reaped row.
ReapedProcs(m) ==
  [p \in Pids |-> IF p \in Reapable(m) THEN [proc[p] EXCEPT !.buf = {}] ELSE proc[p]]

\* Mutant: admission by table size, which sessions being spawned are not in.
FullByTable(m) == Len(m.live) >= MaxLive

\* The admission test of ensureProcessCapacity: reservations count, so that
\* concurrent calls cannot each see the last free slot.
Full(m) == Cardinality(m.reserved) > MaxLive

\* Mutant: the oldest row goes instead of the one that was read.
ConsumeOldest(m, p) ==
  [m EXCEPT !.completed = Tail(@), !.retained[p] = {},
            !.bytes = @ - Cardinality(m.retained[p])]

\* consumeCompletedProcess
Consume(m, p) ==
  [m EXCEPT !.completed = Without(@, {p}),
            !.retained[p] = {},
            !.bytes = @ - Cardinality(m.retained[p])]

\* refreshProcessState: an exited session leaves the table with its id.
Refresh(m, p) == IF proc[p].exited THEN Release(m, p) ELSE m

\* takeBuffer
Drained(p) == [proc EXCEPT ![p].buf = {}]

\* History of a write_stdin response that carries the chunks S.
Answer(p, S) ==
  pollLog' = IF S = {} THEN pollLog ELSE [pollLog EXCEPT ![p] = Append(@, S)]

Final(p, yes) == over' = IF yes THEN over \union {p} ELSE over

-----------------------------------------------------------------------------
(***************************************************************************)
(* exec_command                                                            *)
(***************************************************************************)

\* execTool allocates the id and enters execCommand in one synchronous step:
\* ensureProcessCapacity, then the spawn, which the OS may refuse.
ExecCall(osAnswer) ==
  LET p == nextId
      m == Reap([mgr EXCEPT !.reserved = @ \union {p}])
  IN /\ phase = "up"
     /\ nextId <= MaxCalls
     /\ nextId' = nextId + 1
     /\ IF Full(m)
          THEN /\ mgr' = Release(m, p)
               /\ exec' = [exec EXCEPT ![p].pc = "done"]
               /\ proc' = ReapedProcs(mgr)
          ELSE /\ mgr' = m
               /\ exec' = [exec EXCEPT ![p].pc = "spawning"]
               /\ proc' = [ReapedProcs(mgr) EXCEPT
                             ![p].os = osAnswer, ![p].pipe = (osAnswer = "running")]
     /\ UNCHANGED <<writer, lockQ, killing, phase, history>>

\* UnifiedExecProcess.spawn returns (or throws) after the early-exit wait, and
\* execCommand stores the session if it is still alive.
SpawnReturn(p) ==
  /\ exec[p].pc = "spawning"
  /\ IF proc[p].os = "unspawnable"
       THEN /\ mgr' = Release(mgr, p)
            /\ exec' = [exec EXCEPT ![p].pc = "done"]
       ELSE /\ exec' = [exec EXCEPT ![p].pc = "collecting", ![p].alive = ~proc[p].exited]
            /\ mgr' = IF proc[p].exited
                        THEN mgr
                        ELSE [mgr EXCEPT !.live = Append(@, p), !.initial = @ \union {p}]
  /\ UNCHANGED <<nextId, proc, writer, lockQ, killing, phase, history>>

\* One turn of collectOutputUntilDeadline that drains and goes on waiting.
ExecDrain(p) ==
  /\ exec[p].pc = "collecting"
  /\ proc[p].buf # {}
  /\ exec' = [exec EXCEPT ![p].got = @ \union proc[p].buf]
  /\ proc' = Drained(p)
  /\ UNCHANGED <<nextId, mgr, writer, lockQ, killing, phase, history>>

\* The rest of execCommand once the collection is over, which has no await.  A
\* session that started alive but has left the table is an error.
ExecAnswer(p) ==
  /\ exec' = [exec EXCEPT ![p].pc = "done", ![p].got = {}]
  /\ proc' = Drained(p)
  /\ IF exec[p].alive /\ p \notin ToSet(mgr.live)
       THEN UNCHANGED <<mgr, execOut, over>>
       ELSE /\ execOut' = [execOut EXCEPT ![p] = exec[p].got \union proc[p].buf]
            /\ mgr' = [(IF exec[p].alive THEN Refresh(mgr, p) ELSE Release(mgr, p))
                         EXCEPT !.initial = @ \ {p}]
            /\ Final(p, proc[p].exited)
  /\ UNCHANGED <<nextId, writer, lockQ, killing, phase, pollLog>>

\* The last turn of the collection: the deadline, the post-exit grace or the
\* close of the output has come, whichever is first.
ExecReturn(p) == exec[p].pc = "collecting" /\ ExecAnswer(p)

-----------------------------------------------------------------------------
(***************************************************************************)
(* write_stdin                                                             *)
(***************************************************************************)

\* Up to interactionLock.lock(): reap, answer from the completed cache, or
\* queue on the session's lock.  An unknown id is an error, after the reap.
WriteCall(w, p, kind) ==
  LET m == Reap(mgr)
  IN /\ phase = "up"
     /\ writer[w].pc = "idle"
     /\ p \in Ids
     /\ proc' = ReapedProcs(mgr)
     /\ IF p \in ToSet(m.completed)
          THEN /\ mgr' = Consume(m, p)
               /\ Answer(p, m.retained[p])
               /\ Final(p, TRUE)
               /\ UNCHANGED <<writer, lockQ>>
          ELSE /\ mgr' = m
               /\ UNCHANGED <<pollLog, over>>
               /\ IF p \in ToSet(m.live)
                    THEN /\ writer' = [writer EXCEPT
                              ![w] = [IdleWriter EXCEPT !.pc = "locking",
                                                        !.pid = p, !.kind = kind]]
                         /\ lockQ' = [lockQ EXCEPT ![p] = Append(@, w)]
                    ELSE UNCHANGED <<writer, lockQ>>
     /\ UNCHANGED <<nextId, exec, killing, phase, execOut>>

\* Mutant: an exit path without the finally block's release().
LeaveLockHeld(w, p) ==
  /\ writer' = [writer EXCEPT ![w] = IdleWriter]
  /\ UNCHANGED lockQ

\* The finally block: the caller leaves and the lock goes to the next waiter.
LeaveLock(w, p) ==
  /\ writer' = [writer EXCEPT ![w] = IdleWriter]
  /\ lockQ' = [lockQ EXCEPT ![p] = Tail(@)]

\* Mutant: no exclusion between the waiters.
HoldsLockAny(w, p) == w \in ToSet(lockQ[p])

HoldsLock(w, p) == lockQ[p] # <<>> /\ Head(lockQ[p]) = w

\* Errors before the collection: the session left the table while the caller
\* waited for the lock; a pipe session has no stdin and takes no input but the
\* interrupt; the write to the pty fails and the exit is not known yet.
WriteRejected(w) ==
  LET p == writer[w].pid
  IN /\ writer[w].pc = "locking"
     /\ HoldsLock(w, p)
     /\ \/ p \notin ToSet(mgr.live)
        \/ writer[w].kind = "input" /\ (p \in Tty => ~proc[p].exited)
     /\ LeaveLock(w, p)
     /\ UNCHANGED <<nextId, mgr, proc, exec, killing, phase, history>>

\* The lock is held, the row is still there and the input, if any, has been
\* written (a pipe session's only input is the interrupt, which OsExit models).
\* A write that fails on a session known to have exited is not an error: the
\* call remembers statusAfterWrite and collects what is left.
WriteBegin(w, failed) ==
  LET p == writer[w].pid
  IN /\ writer[w].pc = "locking"
     /\ HoldsLock(w, p)
     /\ p \in ToSet(mgr.live)
     /\ failed => writer[w].kind = "input" /\ p \in Tty /\ proc[p].exited
     /\ writer' = [writer EXCEPT ![w].pc = "collecting", ![w].exited = failed]
     /\ mgr' = IF failed THEN Release(mgr, p) ELSE mgr
     /\ UNCHANGED <<nextId, proc, exec, lockQ, killing, phase, history>>

\* One turn of the collection window of a call that wrote input.  An empty
\* poll (returnOnFirstOutput) never takes it.
WriteDrain(w) ==
  LET p == writer[w].pid
  IN /\ writer[w].pc = "collecting"
     /\ writer[w].kind = "input"
     /\ proc[p].buf # {}
     /\ writer' = [writer EXCEPT ![w].got = @ \union proc[p].buf]
     /\ proc' = Drained(p)
     /\ UNCHANGED <<nextId, mgr, exec, lockQ, killing, phase, history>>

\* The end of the collection and the rest of writeStdin, which has no await.
WriteReturn(w) ==
  LET p == writer[w].pid
      known == p \in ToSet(mgr.live)
      exited == writer[w].exited \/ proc[p].exited
  IN /\ writer[w].pc = "collecting"
     /\ proc' = Drained(p)
     /\ IF known \/ exited
          THEN /\ Answer(p, writer[w].got \union proc[p].buf)
               /\ Final(p, exited)
               /\ mgr' = IF writer[w].exited THEN mgr ELSE Refresh(mgr, p)
          ELSE UNCHANGED <<mgr, pollLog, over>>
     /\ LeaveLock(w, p)
     /\ UNCHANGED <<nextId, exec, killing, phase, execOut>>

-----------------------------------------------------------------------------
(***************************************************************************)
(* listProcesses, backgroundState, terminateProcess, terminateAllProcesses *)
(***************************************************************************)

\* The two queries change state only by reaping first.
Query ==
  /\ phase = "up"
  /\ Reapable(mgr) # {}
  /\ mgr' = Reap(mgr)
  /\ proc' = ReapedProcs(mgr)
  /\ UNCHANGED <<nextId, exec, writer, lockQ, killing, phase, history>>

\* What terminateProcess does to the row of a terminated session: while the
\* initial exec_command owns it, the row stays.
TerminateRow(p) ==
  IF p \in ToSet(mgr.live) /\ p \notin mgr.initial
    THEN /\ mgr' = Release(mgr, p)
         /\ Final(p, TRUE)
    ELSE UNCHANGED <<mgr, over>>

\* terminateProcess up to its await.
TerminateCall(p) ==
  /\ phase = "up"
  /\ p \in Ids /\ p \in ToSet(mgr.live)
  /\ IF proc[p].exited
       THEN /\ TerminateRow(p)
            /\ UNCHANGED killing
       ELSE /\ killing' = killing \union {p}
            /\ UNCHANGED <<mgr, over>>
  /\ UNCHANGED <<nextId, proc, exec, writer, lockQ, phase, pollLog, execOut>>

\* UnifiedExecProcess.terminate has killed the tree; signalExit, closeOutput and
\* what terminateProcess does after its await.  Data already in the pipe can
\* still be read afterwards.
TerminateReturn(p) ==
  /\ p \in killing
  /\ killing' = killing \ {p}
  /\ proc' = [proc EXCEPT ![p].os = "gone", ![p].exited = TRUE, ![p].closed = TRUE]
  /\ TerminateRow(p)
  /\ UNCHANGED <<nextId, exec, writer, lockQ, phase, pollLog, execOut>>

\* terminateAllProcesses forgets every row, then terminates the live ones.
TerminateAll ==
  /\ phase = "up"
  /\ phase' = "stopping"
  /\ killing' = killing \union {p \in Ids : p \in ToSet(mgr.live) /\ ~proc[p].exited}
  /\ mgr' = [mgr EXCEPT !.live = <<>>, !.initial = {}, !.completed = <<>>,
                        !.bytes = 0, !.reserved = {},
                        !.retained = [p \in Pids |-> {}]]
  /\ UNCHANGED <<nextId, proc, exec, writer, lockQ, history>>

\* allSettled over the terminations.
TerminateAllReturn ==
  /\ phase = "stopping"
  /\ killing = {}
  /\ phase' = "down"
  /\ UNCHANGED <<nextId, mgr, proc, exec, writer, lockQ, killing, history>>

-----------------------------------------------------------------------------
(***************************************************************************)
(* The operating system and the events Node delivers.                      *)
(***************************************************************************)

\* The session leader ends by itself, or because of an interrupt or a kill.
\* Descendants may keep the pipe open and go on writing.
OsExit(p) ==
  /\ proc[p].os = "running"
  /\ proc' = [proc EXCEPT ![p].os = "gone"]
  /\ UNCHANGED <<nextId, mgr, exec, writer, lockQ, killing, phase, history>>

\* 'exit' of a child, or onExit of a pty, which also closes the output.
ExitEvent(p) ==
  /\ proc[p].os = "gone"
  /\ ~proc[p].exited
  /\ proc' = [proc EXCEPT ![p].exited = TRUE,
                          ![p].closed = @ \/ p \in Tty,
                          ![p].pipe   = @ /\ p \notin Tty]
  /\ UNCHANGED <<nextId, mgr, exec, writer, lockQ, killing, phase, history>>

\* A 'data' event: pushChunk.
Data(p) ==
  /\ proc[p].pipe
  /\ proc[p].arrived < MaxChunks
  /\ proc' = [proc EXCEPT ![p].arrived = @ + 1,
                          ![p].buf = @ \union {proc[p].arrived + 1}]
  /\ UNCHANGED <<nextId, mgr, exec, writer, lockQ, killing, phase, history>>

\* The last of the session's streams ends: streamEnded, closeOutput.  A pipe
\* session only; nothing more arrives.
StreamsEnd(p) ==
  /\ p \notin Tty
  /\ proc[p].pipe
  /\ proc' = [proc EXCEPT ![p].pipe = FALSE, ![p].closed = TRUE]
  /\ UNCHANGED <<nextId, mgr, exec, writer, lockQ, killing, phase, history>>

-----------------------------------------------------------------------------
Next ==
  \/ \E a \in {"running", "unspawnable"} : ExecCall(a)
  \/ \E p \in Pids :
        \/ SpawnReturn(p) \/ ExecDrain(p) \/ ExecReturn(p)
        \/ TerminateCall(p) \/ TerminateReturn(p)
        \/ OsExit(p) \/ ExitEvent(p) \/ Data(p) \/ StreamsEnd(p)
  \/ \E w \in Writers :
        \/ \E p \in Pids, k \in {"poll", "input"} : WriteCall(w, p, k)
        \/ WriteRejected(w) \/ (\E f \in BOOLEAN : WriteBegin(w, f))
        \/ WriteDrain(w) \/ WriteReturn(w)
  \/ Query \/ TerminateAll \/ TerminateAllReturn

Spec == Init /\ [][Next]_vars

\* Deadlines are timers and continuations are microtasks: a call whose wait is
\* over runs.  Nothing is assumed of the operating system or of the callers.
Fairness ==
  /\ \A p \in Pids : WF_vars(SpawnReturn(p)) /\ WF_vars(ExecReturn(p))
  /\ \A w \in Writers : /\ WF_vars(WriteRejected(w) \/ \E f \in BOOLEAN : WriteBegin(w, f))
                        /\ WF_vars(WriteReturn(w))

FairSpec == Spec /\ Fairness

-----------------------------------------------------------------------------
(***************************************************************************)
(* Properties                                                              *)
(***************************************************************************)

\* Chunks a call has drained and not returned yet, and chunks returned.
InFlight(p) == exec[p].got \union
               UNION {writer[w].got : w \in {v \in Writers : writer[v].pid = p}}
Polled(p) == UNION ToSet(pollLog[p])
Returned(p) == execOut[p] \union Polled(p)

\* completedOutputBytes is exactly what the completed rows retain, whatever the
\* order of reaps, sheds and reads: a drift would wedge or disable the budget.
BytesExact == mgr.bytes = Bytes(mgr.retained, ToSet(mgr.completed))

\* Unread completed output never exceeds its memory budget.
WithinBudget == mgr.bytes <= Budget

\* Concurrent exec_command calls cannot start more processes than the safety
\* limit, also while several of them are between reservation and table entry.
LiveWithinCapacity ==
  phase = "up" => Cardinality({p \in Pids : proc[p].os = "running"}) <= MaxLive

\* While a session has a row, every byte it has produced is in its buffer, in a
\* call that is collecting, in a response, or retained by the completed row
\* (unless the budget emptied that row).
OutputAccounted ==
  /\ \A p \in ToSet(mgr.live) :
        1..proc[p].arrived = proc[p].buf \union InFlight(p) \union Returned(p)
  /\ \A p \in ToSet(mgr.completed) :
        \/ mgr.retained[p] = {}
        \/ 1..proc[p].arrived = mgr.retained[p] \union Returned(p)

\* A byte is handed to at most one response, even when the initial exec_command
\* and a poll drain the same session.
OutputOnce ==
  \A p \in Pids : /\ execOut[p] \intersect Polled(p) = {}
                  /\ Returned(p) \intersect InFlight(p) = {}
                  /\ (Returned(p) \union InFlight(p)) \intersect
                       (proc[p].buf \union mgr.retained[p]) = {}

\* Overlapping write_stdin calls on one session return its output in the order
\* the process wrote it: the interaction lock keeps their windows apart.
PollsInOrder ==
  \A p \in Pids : \A i, j \in DOMAIN pollLog[p] :
    i < j => \A c \in pollLog[p][i], d \in pollLog[p][j] : c < d

\* A session that exec_command left running stays reachable by its id until a
\* response has reported its end: its exit is never forgotten unread.
ExitNotForgotten ==
  \A p \in Pids :
    /\ phase = "up"
    /\ exec[p].pc = "done" /\ exec[p].alive
    /\ p \notin over
    => \/ p \in ToSet(mgr.live)
       \/ p \in ToSet(mgr.completed)
       \/ \E w \in Writers : writer[w].pid = p /\ writer[w].exited

\* An id is in one table at most, and every row holds its reservation, so that
\* allocateProcessId can never hand it out again.
TablesConsistent ==
  /\ ToSet(mgr.live) \intersect ToSet(mgr.completed) = {}
  /\ mgr.initial \subseteq ToSet(mgr.live)
  /\ phase = "up" => ToSet(mgr.live) \subseteq mgr.reserved
  /\ mgr.reserved \intersect ToSet(mgr.completed) = {}

\* exec_command and write_stdin always answer, even when the process never
\* exits, never closes its output, or others queue on the same session.
ExecAnswers == \A p \in Pids : exec[p].pc # "none" ~> exec[p].pc = "done"
WriteAnswers == \A w \in Writers : writer[w].pc # "idle" ~> writer[w].pc = "idle"

\* What the process wrote reaches its readers: all of it, once, and in order,
\* whatever polls, kills and reaps come between the process and the responses.
OutputDelivered == OutputAccounted /\ OutputOnce /\ PollsInOrder

\* No caller of either tool waits for ever.
CallsAnswered == ExecAnswers /\ WriteAnswers

\* Both tables, the reservations and the byte counter describe the same
\* sessions in every state, and an exit nobody has read is in one of them.
TablesAgree == TypeOK /\ TablesConsistent /\ ExitNotForgotten /\ BytesExact /\ WithinBudget
=============================================================================
