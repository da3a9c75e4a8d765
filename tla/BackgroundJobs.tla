----------------------------- MODULE BackgroundJobs -----------------------------
(***************************************************************************)
(* Durable background jobs: BackgroundJobManager in                        *)
(* src/src/clean/main/tools/background.ts.                                 *)
(*                                                                         *)
(* A job is a child process, a log file its output is appended to and a    *)
(* metadata file, replaced atomically (write a temporary file, rename it). *)
(* The manager's map is lost when the application ends and rebuilt from    *)
(* the metadata files when it starts again; the application may end        *)
(* between any two steps.                                                  *)
(*                                                                         *)
(* A job is named by its launch (ids are the generated ones, never used    *)
(* twice).  Output is a number of chunks: read from the pipe, handed to    *)
(* the log's write stream, written.  A save takes a snapshot when it       *)
(* starts; two saves of one job share the temporary file, which opening    *)
(* it truncates, and a rename takes along a file the other is writing.     *)
(***************************************************************************)
EXTENDS Naturals, FiniteSets

CONSTANTS
  MaxJobs,      \* bound: launches
  MaxChunks,    \* bound: output chunks of one job
  MaxRestarts,  \* bound: restarts of the application
  Timed         \* the jobs launched with a timeout

Jobs == 1..MaxJobs

ASSUME JobsAssumption ==
  MaxJobs \in Nat /\ MaxChunks \in Nat /\ MaxRestarts \in Nat /\ Timed \subseteq Jobs

VARIABLES
  launched,   \* launches so far
  job,        \* the LiveJob of each launch and what its closures hold
  jobs,       \* the map: known job ids
  child,      \* the child processes
  saves,      \* saves under way
  meta,       \* metadata files: the persisted state, "none" if there is no file
  tmp,        \* their temporary files
  killing,    \* kill actions awaiting terminateProcessTree
  removing,   \* remove actions awaiting the two rm calls
  up,         \* the application runs
  restarts,   \* bound counter
  answered,   \* history: launches that returned a job id
  killed      \* history: jobs a kill has saved

vars == <<launched, job, jobs, child, saves, meta, tmp, killing, removing,
          up, restarts, answered, killed>>

States == {"running", "completed", "error", "cancelled"}
Persisted == States \union {"none"}
Contents == Persisted \union {"empty"}

TypeOK ==
  /\ launched \in 0..MaxJobs
  /\ job \in [Jobs -> [state : Persisted,
                       owned : BOOLEAN,            \* job.child is set
                       heard : {"no", "early", "late"},  \* handlers: before or after the exit
                       ended : BOOLEAN,            \* sink.end was called
                       finish : Persisted]]        \* what a running finish() will set
  /\ jobs \in SUBSET Jobs
  /\ child \in [Jobs -> [os    : {"none", "running", "gone"},
                         event : {"none", "exit", "close"},
                         made  : 0..MaxChunks,     \* produced,
                         read  : 0..MaxChunks,     \* taken off the pipe,
                         lost  : 0..MaxChunks,     \* of these without a listener,
                         written : 0..MaxChunks]]  \* and in the log
  /\ saves \in SUBSET [of : Jobs, by : {"launch", "finish", "kill"}, state : States,
                       step : {"open", "write", "rename"},
                       file : {"tmp", "meta"}]   \* the name of the file it writes
  /\ meta \in [Jobs -> Contents] /\ tmp \in [Jobs -> Contents]
  /\ killing \in SUBSET Jobs /\ removing \in SUBSET Jobs
  /\ up \in BOOLEAN
  /\ restarts \in 0..MaxRestarts
  /\ answered \in SUBSET Jobs /\ killed \in SUBSET Jobs
  /\ \A j \in Jobs : job[j].owned => job[j].state = "running"

NoJob == [state |-> "none", owned |-> FALSE, heard |-> "no", ended |-> FALSE,
          finish |-> "none"]

Init ==
  /\ launched = 0
  /\ job = [j \in Jobs |-> NoJob]
  /\ jobs = {}
  /\ child = [j \in Jobs |-> [os |-> "none", event |-> "none", made |-> 0,
                              read |-> 0, lost |-> 0, written |-> 0]]
  /\ saves = {}
  /\ meta = [j \in Jobs |-> "none"] /\ tmp = [j \in Jobs |-> "none"]
  /\ killing = {} /\ removing = {}
  /\ up = TRUE
  /\ restarts = 0
  /\ answered = {} /\ killed = {}

\* Chunks handed to the write stream and not on disk yet.
Buffered(j) == child[j].read - child[j].lost - child[j].written

Save(j, by, st) ==
  saves \union {[of |-> j, by |-> by, state |-> st, step |-> "open", file |-> "tmp"]}

-----------------------------------------------------------------------------
(***************************************************************************)
(* launch and save                                                         *)
(***************************************************************************)

\* launch() once the empty log is written: spawn, register, start the save.
Launch ==
  LET j == launched + 1
  IN /\ up /\ launched < MaxJobs
     /\ launched' = j
     /\ child' = [child EXCEPT ![j].os = "running", ![j].event = "none"]
     /\ job' = [job EXCEPT ![j] = [NoJob EXCEPT !.state = "running", !.owned = TRUE]]
     /\ jobs' = jobs \union {j}
     /\ saves' = Save(j, "launch", "running")
     /\ UNCHANGED <<meta, tmp, killing, removing, up, restarts, answered, killed>>

\* What follows the save: launch() attaches its handlers and answers.
AfterSave(s) ==
  IF s.by = "launch"
    THEN /\ job' = [job EXCEPT ![s.of].heard =
                      IF child[s.of].event = "none" THEN "early" ELSE "late"]
         /\ answered' = answered \union {s.of}
    ELSE UNCHANGED <<job, answered>>

\* Mutant: the old metadata file is removed before the new one is written.
SaveOpenRemoving(s) ==
  /\ s \in saves /\ s.step = "open"
  /\ tmp' = [tmp EXCEPT ![s.of] = "empty"] /\ meta' = [meta EXCEPT ![s.of] = "none"]
  /\ saves' = (saves \ {s}) \union {[s EXCEPT !.step = "write"]}
  /\ UNCHANGED <<launched, job, jobs, child, killing, removing, up, restarts,
                 answered, killed>>

\* fs.writeFile opens the temporary file, which is empty from then on.
SaveOpen(s) ==
  /\ s \in saves /\ s.step = "open"
  /\ tmp' = [tmp EXCEPT ![s.of] = "empty"]
  /\ saves' = (saves \ {s}) \union {[s EXCEPT !.step = "write"]}
  /\ UNCHANGED <<launched, job, jobs, child, meta, killing, removing, up, restarts,
                 answered, killed>>

\* It writes into the file it opened, whatever that is called by now.
SaveWrite(s) ==
  /\ s \in saves /\ s.step = "write"
  /\ IF s.file = "tmp"
       THEN tmp' = [tmp EXCEPT ![s.of] = s.state] /\ UNCHANGED meta
       ELSE meta' = [meta EXCEPT ![s.of] = s.state] /\ UNCHANGED tmp
  /\ saves' = (saves \ {s}) \union {[s EXCEPT !.step = "rename"]}
  /\ UNCHANGED <<launched, job, jobs, child, killing, removing, up, restarts,
                 answered, killed>>

\* The other saves of the job, after a rename of the temporary file.
Renamed(s) ==
  {[t EXCEPT !.file = IF t.of = s.of /\ t.step = "write" THEN "meta" ELSE @] :
     t \in saves \ {s}}

SaveRename(s) ==
  /\ s \in saves /\ s.step = "rename"
  /\ tmp[s.of] # "none"
  /\ meta' = [meta EXCEPT ![s.of] = tmp[s.of]]
  /\ tmp' = [tmp EXCEPT ![s.of] = "none"]
  /\ saves' = Renamed(s)
  /\ AfterSave(s)
  /\ UNCHANGED <<launched, jobs, child, killing, removing, up, restarts, killed>>

\* A write or rename fails (the other save may have renamed the shared file):
\* launch() and kill reject, finish() ignores it.
SaveFails(s) ==
  /\ s \in saves
  /\ saves' = saves \ {s}
  /\ UNCHANGED <<launched, job, jobs, child, meta, tmp, killing, removing, up,
                 restarts, answered, killed>>

-----------------------------------------------------------------------------
(***************************************************************************)
(* The child process and its events                                        *)
(***************************************************************************)

Output(j) ==
  /\ child[j].os = "running" /\ child[j].made < MaxChunks
  /\ child' = [child EXCEPT ![j].made = @ + 1]
  /\ UNCHANGED <<launched, job, jobs, saves, meta, tmp, killing, removing, up,
                 restarts, answered, killed>>

OsExit(j) ==
  /\ child[j].os = "running"
  /\ child' = [child EXCEPT ![j].os = "gone"]
  /\ UNCHANGED <<launched, job, jobs, saves, meta, tmp, killing, removing, up,
                 restarts, answered, killed>>

\* 'exit': from now on the pipe is read whether or not anyone listens.
ExitEvent(j) ==
  /\ up
  /\ child[j].os = "gone" /\ child[j].event = "none"
  /\ child' = [child EXCEPT ![j].event = "exit"]
  /\ UNCHANGED <<launched, job, jobs, saves, meta, tmp, killing, removing, up,
                 restarts, answered, killed>>

\* A chunk is read off the pipe.  Nobody listens, or append() gives it to the
\* stream; a stream that has ended breaks, and drops what it still holds.
Data(j) ==
  /\ up
  /\ child[j].read < child[j].made
  /\ job[j].heard # "no" \/ child[j].event = "exit"
  /\ child' = [child EXCEPT ![j].read = @ + 1,
       ![j].lost = CASE job[j].heard = "no" -> @ + 1
                     [] job[j].ended        -> child[j].read + 1 - child[j].written
                     [] OTHER               -> @]
  /\ UNCHANGED <<launched, job, jobs, saves, meta, tmp, killing, removing, up,
                 restarts, answered, killed>>

\* The write stream writes a chunk to the log.
Written(j) ==
  /\ up
  /\ Buffered(j) > 0
  /\ child' = [child EXCEPT ![j].written = @ + 1]
  /\ UNCHANGED <<launched, job, jobs, saves, meta, tmp, killing, removing, up,
                 restarts, answered, killed>>

\* Mutant: finish() leaves a job that is being killed to the kill.
FinishUnlessKilled(j, st) ==
  IF job[j].state = "running" /\ ~job[j].ended /\ j \notin killing
    THEN job' = [job EXCEPT ![j].finish = st, ![j].ended = TRUE]
    ELSE UNCHANGED job

\* finish() up to sink.end
Finish(j, st) ==
  IF job[j].state = "running" /\ ~job[j].ended
    THEN job' = [job EXCEPT ![j].finish = st, ![j].ended = TRUE]
    ELSE UNCHANGED job

\* 'close': the child is gone and its pipes are empty.
CloseEvent(j) ==
  /\ up /\ child[j].event = "exit"
  /\ child[j].read = child[j].made
  /\ child' = [child EXCEPT ![j].event = "close"]
  /\ IF job[j].heard = "no"
       THEN UNCHANGED job
       ELSE \E st \in {"completed", "error"} : Finish(j, st)
  /\ UNCHANGED <<launched, jobs, saves, meta, tmp, killing, removing, up,
                 restarts, answered, killed>>

\* The timer, armed with the handlers and cleared by finish() and kill.  It does
\* not wait for the child to end.
Timeout(j) ==
  /\ up /\ j \in Timed
  /\ job[j].heard # "no" /\ job[j].state = "running" /\ ~job[j].ended
  /\ Finish(j, "cancelled")
  /\ UNCHANGED <<launched, jobs, child, saves, meta, tmp, killing, removing, up,
                 restarts, answered, killed>>

\* Mutant: finish() publishes without waiting for the log.
FlushedNot(j) == TRUE

\* sink.end called back: everything handed to the stream is in the log.
Flushed(j) == Buffered(j) = 0

\* The rest of finish(): publish the state, over a kill's as well, and save it.
FinishReturn(j) ==
  /\ up /\ job[j].finish # "none"
  /\ Flushed(j)
  /\ job' = [job EXCEPT ![j].state = job[j].finish, ![j].owned = FALSE,
                        ![j].finish = "none"]
  /\ saves' = Save(j, "finish", job[j].finish)
  /\ UNCHANGED <<launched, jobs, child, meta, tmp, killing, removing, up,
                 restarts, answered, killed>>

-----------------------------------------------------------------------------
(***************************************************************************)
(* kill, remove, close, and a new start of the application                 *)
(***************************************************************************)

\* The action kill up to its await.  Bound: one kill of a job at a time.
KillCall(j) ==
  /\ up /\ j \in jobs \ killing
  /\ job[j].state = "running" /\ job[j].owned
  /\ killing' = killing \union {j}
  /\ UNCHANGED <<launched, job, jobs, child, saves, meta, tmp, removing, up,
                 restarts, answered, killed>>

\* terminateProcessTree returned, the child may need longer.  A finish() under
\* way is not called off.
KillReturn(j) ==
  /\ up /\ j \in killing
  /\ killing' = killing \ {j}
  /\ job' = [job EXCEPT ![j].state = "cancelled", ![j].owned = FALSE]
  /\ saves' = Save(j, "kill", "cancelled")
  /\ killed' = killed \union {j}
  /\ UNCHANGED <<launched, jobs, child, meta, tmp, removing, up, restarts, answered>>

RemoveCall(j) ==
  /\ up /\ j \in jobs
  /\ job[j].state # "running"
  /\ jobs' = jobs \ {j}
  /\ removing' = removing \union {j}
  /\ UNCHANGED <<launched, job, child, saves, meta, tmp, killing, up, restarts, answered, killed>>

RemoveReturn(j) ==
  /\ up /\ j \in removing
  /\ removing' = removing \ {j}
  /\ meta' = [meta EXCEPT ![j] = "none"]
  /\ UNCHANGED <<launched, job, jobs, child, saves, tmp, killing, up, restarts, answered, killed>>

\* The application ends: close() terminates the children of the running jobs;
\* after a crash they may go on.  Either way no event of theirs is seen again.
End ==
  /\ up
  /\ up' = FALSE
  /\ \E closed \in BOOLEAN :
        child' = [j \in Jobs |-> [child[j] EXCEPT
                    !.event = "close",
                    !.os = IF closed /\ job[j].state = "running" /\ job[j].owned
                             THEN "gone" ELSE @]]
  /\ saves' = {} /\ killing' = {} /\ removing' = {}
  /\ UNCHANGED <<launched, job, jobs, meta, tmp, restarts, answered, killed>>

\* The state initialize() gives a persisted job.
Restored(st) == IF st = "running" THEN "error" ELSE st

\* initialize()
Start ==
  /\ ~up /\ restarts < MaxRestarts
  /\ up' = TRUE
  /\ restarts' = restarts + 1
  /\ jobs' = {j \in Jobs : meta[j] \in States}
  /\ job' = [j \in Jobs |-> IF j \in jobs'
                            THEN [NoJob EXCEPT !.state = Restored(meta[j])] ELSE NoJob]
  /\ UNCHANGED <<launched, child, saves, meta, tmp, killing, removing, answered, killed>>

JobStep(j) ==
  \/ Output(j) \/ OsExit(j) \/ ExitEvent(j) \/ Data(j) \/ Written(j) \/ CloseEvent(j)
  \/ Timeout(j) \/ FinishReturn(j) \/ KillCall(j) \/ KillReturn(j)
  \/ RemoveCall(j) \/ RemoveReturn(j)

Next ==
  \/ Launch \/ End \/ Start
  \/ \E s \in saves : SaveOpen(s) \/ SaveWrite(s) \/ SaveRename(s) \/ SaveFails(s)
  \/ \E j \in Jobs : JobStep(j)

Spec == Init /\ [][Next]_vars

\* Events of a child that has ended are delivered, and streams and finish() go
\* on, while the application runs.
JobFairness ==
  \A j \in Jobs : WF_vars(ExitEvent(j) \/ Data(j) \/ Written(j)
                            \/ CloseEvent(j) \/ FinishReturn(j))

-----------------------------------------------------------------------------
(***************************************************************************)
(* Properties                                                              *)
(***************************************************************************)

\* "Persisted jobs are durable by contract": whenever the application ends, a
\* job that launch() has answered, and that nobody removed, has metadata for
\* the next start to load, in the middle of a save as well.  A job that is
\* killed is excepted: the kill and finish() may save it at once, into one
\* temporary file, and the rename of one publishes what the other has truncated.
KnownAfterRestart ==
  \A j \in (answered \intersect jobs) \ killed : meta[j] \in States

\* A job is shown as running only while this instance owns its child: a process
\* of an earlier instance is never adopted, and no answer or timer is lost.
RunningIsOwned == up => \A j \in jobs : job[j].state = "running" => job[j].owned

\* Once the state says completed, all output of the child is in the log, if the
\* handlers were attached before the child ended.
OutputReadable ==
  \A j \in jobs : job[j].state = "completed" /\ job[j].heard = "early"
                  => child[j].written = child[j].made

\* A child that ends after its handlers were attached ends its job as well,
\* whatever kills, timeouts and saves are under way.
EndsReported ==
  \A j \in Jobs : (job[j].heard = "early" /\ child[j].os = "gone")
                    ~> (job[j].state # "running" \/ ~up)

\* What a job is said to be is so: a running one has a child of this instance,
\* and a completed one has all of its output in the log.
JobsTruthful == TypeOK /\ RunningIsOwned /\ OutputReadable
=============================================================================
