--------------------------- MODULE TunnelSupervisor ---------------------------
(***************************************************************************)
(* The supervisor that runs tunnel-client and keeps it running:            *)
(* startOpenAiTunnel in src/src/main/tunnel/index.ts.                      *)
(*                                                                         *)
(* One supervisor, from startTunnel to the end of stop().  It owns at most *)
(* one client process, watches its readiness on a timer, replaces it after *)
(* a backoff when it exits or stays unready, and gives up for good when    *)
(* the client reports rejected credentials.  launch, the watch callback    *)
(* and the retirement of an old client are asynchronous: each resumes      *)
(* after awaits during which the others may have run, and looks at         *)
(* `stopped' and `current' again.                                          *)
(*                                                                         *)
(* A client is its process tree.  Timers may fire at any time; the growth  *)
(* of the backoff, the log lines and the health numbers are left out.      *)
(***************************************************************************)
EXTENDS Naturals, FiniteSets

CONSTANT MaxRuns    \* bound: client processes started

ASSUME RunsAssumption == MaxRuns \in Nat

Runs == 1..MaxRuns
Observations == {"connected", "offline", "unknown"}

VARIABLES
  stopped,       \* stop() was called or the credentials were rejected
  current,       \* the owned run, 0 for null
  timer,         \* what the one timer will do: watch the client or relaunch
  retiring,      \* the run whose retirement is under way, 0 for none
  launching,     \* launch() is at its first await
  spawned,       \* client processes started so far
  alive,         \* client process trees that run
  unkillable,    \* trees stopTree gave up on
  noticed,       \* runs whose 'exit' event was delivered
  pc,            \* where the code that looks after each run is
  unready,       \* unreadySince # 0 of each run
  report,        \* the last state reported
  stopping,      \* the client stop() is stopping, 0 for none
  phase,         \* of stop(): "up", "stopping", "down"
  missed         \* history: readiness checks missed in a row by each run

vars == <<stopped, current, timer, retiring, launching, spawned, alive,
          unkillable, noticed, pc, unready, report, stopping, phase, missed>>

TypeOK ==
  /\ stopped \in BOOLEAN
  /\ current \in Runs \union {0}
  /\ timer \in {"none", "watch", "relaunch"}
  /\ retiring \in Runs \union {0}
  /\ launching \in BOOLEAN
  /\ spawned \in 0..MaxRuns
  /\ alive \in SUBSET Runs /\ unkillable \in SUBSET Runs /\ noticed \in SUBSET Runs
  /\ pc \in [Runs -> {"off", "starting", "refreshing", "watching", "probing"}]
  /\ unready \in [Runs -> BOOLEAN]
  /\ report \in {"connecting", "auth-failed", "unavailable"} \union Observations
  /\ stopping \in Runs \union {0}
  /\ phase \in {"up", "stopping", "down"}
  /\ missed \in [Runs -> 0..2]
  /\ stopped => current = 0    \* a stopped supervisor owns no client

Init ==
  /\ stopped = FALSE
  /\ current = 0
  /\ timer = "none"
  /\ retiring = 0
  /\ launching = TRUE
  /\ spawned = 0
  /\ alive = {} /\ unkillable = {} /\ noticed = {}
  /\ pc = [r \in Runs |-> "off"]
  /\ unready = [r \in Runs |-> FALSE]
  /\ report = "connecting"
  /\ stopping = 0
  /\ phase = "up"
  /\ missed = [r \in Runs |-> 0]

\* `if (stopped || current !== run) return' after every await.
CurrentRun(r) == ~stopped /\ current = r

-----------------------------------------------------------------------------
(***************************************************************************)
(* launch                                                                  *)
(***************************************************************************)

\* `if (stopped || current) return' in launch()
MaySpawn == ~stopped /\ current = 0

\* launch() after removing the stale health file: spawn.
LaunchSpawn ==
  /\ launching
  /\ launching' = FALSE
  /\ IF MaySpawn
       THEN LET r == spawned + 1
            IN /\ spawned < MaxRuns
               /\ spawned' = r
               /\ current' = r
               /\ alive' = alive \union {r}
               /\ pc' = [pc EXCEPT ![r] = "starting"]
               /\ report' = "connecting"
       ELSE UNCHANGED <<spawned, current, alive, pc, report>>
  /\ UNCHANGED <<stopped, timer, retiring, unkillable, noticed, unready,
                 stopping, phase, missed>>

\* Mutant: the backoff starts without retiring the old client first.
RestartAtOnce(r) ==
  /\ current' = 0
  /\ timer' = "relaunch"
  /\ report' = "connecting"
  /\ UNCHANGED retiring

\* restart: the caller that still finds its run current owns the restart.
Restart(r) ==
  /\ current' = 0
  /\ timer' = "none"
  /\ retiring' = r
  /\ report' = "connecting"

\* A continuation that finds its run superseded ends.
Superseded(r) ==
  /\ pc[r] \in {"starting", "refreshing", "probing"}
  /\ ~CurrentRun(r)
  /\ pc' = [pc EXCEPT ![r] = "off"]
  /\ UNCHANGED <<stopped, current, timer, retiring, launching, spawned, alive,
                 unkillable, noticed, unready, report, stopping, phase, missed>>

\* The readiness loop of launch(): /readyz answered.
BecameReady(r) ==
  /\ pc[r] = "starting"
  /\ CurrentRun(r)
  /\ pc' = [pc EXCEPT ![r] = "refreshing"]
  /\ UNCHANGED <<stopped, current, timer, retiring, launching, spawned, alive,
                 unkillable, noticed, unready, report, stopping, phase, missed>>

\* READY_TIMEOUT_MS passed.
NeverReady(r) ==
  /\ pc[r] = "starting"
  /\ CurrentRun(r)
  /\ pc' = [pc EXCEPT ![r] = "off"]
  /\ Restart(r)
  /\ UNCHANGED <<stopped, launching, spawned, alive, unkillable, noticed, unready,
                 stopping, phase, missed>>

-----------------------------------------------------------------------------
(***************************************************************************)
(* watch                                                                   *)
(***************************************************************************)

\* Mutant: a watch pass ends without arming the next one.
WatchAgainNot == UNCHANGED timer

\* watch(run)
WatchAgain == timer' = "watch"

\* refreshHealth returned: show what was observed and arm the watch timer.
Show(r, seen) ==
  /\ pc[r] = "refreshing"
  /\ CurrentRun(r)
  /\ report' = seen
  /\ WatchAgain
  /\ pc' = [pc EXCEPT ![r] = "watching"]
  /\ UNCHANGED <<stopped, current, retiring, launching, spawned, alive, unkillable,
                 noticed, unready, stopping, phase, missed>>

\* The timer of the watched run fires: probe /readyz.
WatchTimer(r) ==
  /\ timer = "watch"
  /\ pc[r] = "watching" /\ CurrentRun(r)
  /\ timer' = "none"
  /\ pc' = [pc EXCEPT ![r] = "probing"]
  /\ UNCHANGED <<stopped, current, retiring, launching, spawned, alive, unkillable,
                 noticed, unready, report, stopping, phase, missed>>

\* unreadySince after an answered probe
Answered(r) == [unready EXCEPT ![r] = FALSE]

ProbeAnswered(r) ==
  /\ pc[r] = "probing"
  /\ CurrentRun(r)
  /\ unready' = Answered(r)
  /\ missed' = [missed EXCEPT ![r] = 0]
  /\ pc' = [pc EXCEPT ![r] = "refreshing"]
  /\ UNCHANGED <<stopped, current, timer, retiring, launching, spawned, alive,
                 unkillable, noticed, report, stopping, phase>>

\* A first miss, or one before UNREADY_CONFIRM_MS, is only noted.
ProbeMissedAgainLater(r) ==
  /\ pc[r] = "probing"
  /\ CurrentRun(r)
  /\ unready' = [unready EXCEPT ![r] = TRUE]
  /\ missed' = [missed EXCEPT ![r] = IF @ < 2 THEN @ + 1 ELSE @]
  /\ WatchAgain
  /\ pc' = [pc EXCEPT ![r] = "watching"]
  /\ UNCHANGED <<stopped, current, retiring, launching, spawned, alive, unkillable,
                 noticed, report, stopping, phase>>

\* A later miss replaces the client.
WentUnready(r) ==
  /\ pc[r] = "probing"
  /\ CurrentRun(r)
  /\ unready[r]
  /\ missed' = [missed EXCEPT ![r] = IF @ < 2 THEN @ + 1 ELSE @]
  /\ pc' = [pc EXCEPT ![r] = "off"]
  /\ Restart(r)
  /\ UNCHANGED <<stopped, launching, spawned, alive, unkillable, noticed, unready,
                 stopping, phase>>

-----------------------------------------------------------------------------
(***************************************************************************)
(* Retirement, the client's own end, and stop                              *)
(***************************************************************************)

\* restart's continuation once the old tree is gone.
AfterRetirement ==
  IF stopped THEN UNCHANGED <<timer, report>>
             ELSE timer' = "relaunch" /\ UNCHANGED report

\* stopTree of the retired client saw it close (at once, if it had exited).
Retired ==
  /\ retiring # 0
  /\ alive' = alive \ {retiring}
  /\ retiring' = 0
  /\ AfterRetirement
  /\ UNCHANGED <<stopped, current, launching, spawned, unkillable, noticed, pc,
                 unready, stopping, phase, missed>>

\* stopTree timed out: no replacement, the user has to reconnect.
NotRetired ==
  /\ retiring # 0
  /\ retiring \in alive
  /\ unkillable' = unkillable \union {retiring}
  /\ retiring' = 0
  /\ report' = IF stopped THEN report ELSE "unavailable"
  /\ UNCHANGED <<stopped, current, timer, launching, spawned, alive, noticed, pc,
                 unready, stopping, phase, missed>>

\* The relaunch timer fires.
Relaunch ==
  /\ timer = "relaunch"
  /\ timer' = "none"
  /\ launching' = (~stopped /\ current = 0)
  /\ UNCHANGED <<stopped, current, retiring, spawned, alive, unkillable, noticed, pc,
                 unready, report, stopping, phase, missed>>

\* The client process ends by itself.
ClientDies(r) ==
  /\ r \in alive
  /\ alive' = alive \ {r}
  /\ UNCHANGED <<stopped, current, timer, retiring, launching, spawned, unkillable,
                 noticed, pc, unready, report, stopping, phase, missed>>

\* Its 'exit' (or, for a failed spawn, 'error') event.
ExitEvent(r) ==
  /\ r <= spawned /\ r \notin alive /\ r \notin noticed
  /\ noticed' = noticed \union {r}
  /\ IF CurrentRun(r) THEN Restart(r)
                      ELSE UNCHANGED <<current, timer, retiring, report>>
  /\ UNCHANGED <<stopped, launching, spawned, alive, unkillable, pc, unready,
                 stopping, phase, missed>>

GiveUp == stopped' = TRUE

\* handleLine saw a rejected credential: terminal.
AuthFailure(r) ==
  /\ r # 0 /\ CurrentRun(r)
  /\ GiveUp
  /\ current' = 0
  /\ timer' = "none"
  /\ retiring' = r
  /\ report' = "auth-failed"
  /\ UNCHANGED <<launching, spawned, alive, unkillable, noticed, pc, unready,
                 stopping, phase, missed>>

\* Mutant: stop() awaits its own client but not a retirement under way.
RetirementAwaitedNot == TRUE

\* Promise.all in stop(): a retirement under way is awaited as well.
RetirementAwaited == retiring = 0

Stop ==
  /\ phase = "up"
  /\ phase' = "stopping"
  /\ stopped' = TRUE
  /\ timer' = "none"
  /\ stopping' = current
  /\ current' = 0
  /\ UNCHANGED <<retiring, launching, spawned, alive, unkillable, noticed, pc,
                 unready, report, missed>>

StopReturns ==
  /\ phase = "stopping"
  /\ RetirementAwaited
  /\ phase' = "down"
  /\ stopping' = 0
  /\ \/ alive' = alive \ {stopping} /\ UNCHANGED unkillable
     \/ stopping \in alive /\ unkillable' = unkillable \union {stopping} /\ UNCHANGED alive
  /\ UNCHANGED <<stopped, current, timer, retiring, launching, spawned, noticed, pc,
                 unready, report, missed>>

Next ==
  \/ LaunchSpawn \/ Retired \/ NotRetired \/ Relaunch \/ Stop \/ StopReturns
  \/ AuthFailure(current)
  \/ \E r \in Runs :
        \/ Superseded(r) \/ BecameReady(r) \/ NeverReady(r)
        \/ \E o \in Observations : Show(r, o)
        \/ WatchTimer(r) \/ ProbeAnswered(r)
        \/ ProbeMissedAgainLater(r) \/ WentUnready(r)
        \/ ClientDies(r) \/ ExitEvent(r)

Spec == Init /\ [][Next]_vars

-----------------------------------------------------------------------------
(***************************************************************************)
(* Properties                                                              *)
(***************************************************************************)

\* "Starting B without proof that A stopped would create two owned tunnel
\* trees": one supervisor never runs two clients.
OneClient == Cardinality(alive) <= 1

\* stop() resolves only when every client this supervisor started is gone (or
\* stopTree gave up on it), and nothing can start another one afterwards,
\* whatever launch, watch or retirement was under way.
StopIsFinal == phase = "down" => alive \subseteq unkillable /\ timer = "none"

\* Rejected credentials are terminal: no later step starts a client.
AuthFailureIsFinal == [][report = "auth-failed" => alive' \subseteq alive /\ report' = report]_vars

\* A client that stops or goes unready is replaced, never abandoned: until it is
\* stopped or has reported that it gave up, the supervisor always has a step of
\* its own under way or a timer armed.
NeverAbandoned ==
  \/ stopped
  \/ report = "unavailable"
  \/ launching
  \/ retiring # 0
  \/ timer = "relaunch"
  \/ current # 0 /\ (timer = "watch" \/ pc[current] \in {"starting", "refreshing", "probing"})

\* One missed readiness check never terminates the client every live tool call
\* travels through: the watch replaces it only after two misses in a row.
TwoMissesBeforeKill ==
  [][\A r \in Runs : WentUnready(r) => missed[r] >= 1]_vars
=============================================================================
