------------------------------ MODULE Connection ------------------------------
(***************************************************************************)
(* The connection controller (src/src/clean/main/connection.ts): one local *)
(* MCP server and one tunnel that publishes it, started and stopped by     *)
(* operations that run one after another on a promise chain.  Operations   *)
(* come from the user, from configuration and plugin changes, and from the *)
(* start-up retry timer.                                                   *)
(*                                                                         *)
(* The MCP server and the tunnel adapter are seen through their handles: a *)
(* start that succeeds or fails, a stop that ends the server and either    *)
(* ends the tunnel's tree or gives up on it, reports.                      *)
(* A server or tunnel is named by the generation (`mine') that started it. *)
(* The tool surface is a number: the fingerprint of the tools and the      *)
(* connector name.                                                         *)
(***************************************************************************)
EXTENDS Naturals, Sequences, FiniteSets

CONSTANTS
  MaxSurface,    \* bound: tool surfaces a configuration can project
  MaxRetries,    \* number of AUTO_RETRY_DELAYS_MS
  MaxEvents      \* bound: user commands and configuration changes

ASSUME ConnectionAssumption ==
  MaxSurface \in Nat \ {0} /\ MaxRetries \in Nat /\ MaxEvents \in Nat

Surfaces == 1..MaxSurface

VARIABLES
  chain,         \* the operations on the promise chain, the running one first
  run,           \* where the running operation is
  old,           \* handles disconnectNow or the catch block is stopping
  generation,
  endpoint,      \* generation of the stored server handle, 0 for null
  tunnel,        \* generation of the stored tunnel handle, 0 for null
  servers,       \* live servers
  tunnels,       \* live tunnels, the one being started included
  abandoned,     \* history: live tunnels whose stop returned before their tree ended
  observed,      \* observedFingerprint, 0 for null
  config,        \* what getConfig and the plugins say now
  saving,        \* configuration writes under way
  poisoned,      \* a configuration write has failed
  status,        \* the published state
  timer,         \* a start-up retry is pending
  retryIndex,    \* autoRetryIndex
  begun,         \* beginAutoConnect has run
  events         \* bound counter

core == <<old, generation, endpoint, tunnel, servers, tunnels, abandoned, observed, status>>
retry == <<timer, retryIndex>>
settings == <<config, saving, poisoned>>
vars == <<chain, run, core, settings, retry, begun, events>>

Ops == [kind : {"connect", "disconnect", "refresh"}, auto : BOOLEAN]
States == {"disconnected", "starting-server", "connecting-tunnel",
           "tunnel-unavailable", "connected", "offline"}

TypeOK ==
  /\ chain \in Seq(Ops)
  /\ run \in {"idle", "stopping", "server", "tunnel", "failing"}
  /\ old \in [server : Nat, tunnel : Nat]
  /\ generation \in Nat
  /\ endpoint \in Nat /\ tunnel \in Nat
  /\ servers \in SUBSET Nat /\ tunnels \in SUBSET Nat /\ abandoned \in SUBSET Nat
  /\ observed \in Surfaces \union {0}
  /\ config \in [surface : Surfaces, ready : BOOLEAN, auto : BOOLEAN]
  /\ saving \in Nat
  /\ poisoned \in BOOLEAN
  /\ status \in States
  /\ timer \in BOOLEAN
  /\ retryIndex \in 0..MaxRetries
  /\ begun \in BOOLEAN
  /\ events \in 0..MaxEvents

Init ==
  /\ chain = <<>>
  /\ run = "idle"
  /\ old = [server |-> 0, tunnel |-> 0]
  /\ generation = 0
  /\ endpoint = 0 /\ tunnel = 0
  /\ servers = {} /\ tunnels = {} /\ abandoned = {}
  /\ observed = 0
  /\ config \in [surface : {1}, ready : BOOLEAN, auto : BOOLEAN]
  /\ saving = 0
  /\ poisoned = FALSE
  /\ status = "disconnected"
  /\ timer = FALSE
  /\ retryIndex = 0
  /\ begun = FALSE
  /\ events = 0

Event == events < MaxEvents /\ events' = events + 1

-----------------------------------------------------------------------------
(***************************************************************************)
(* Enqueueing                                                              *)
(***************************************************************************)

Enqueue(kind, auto) == chain' = Append(chain, [kind |-> kind, auto |-> auto])

\* Mutant: a change is skipped while an operation runs.
EnqueueRefreshIfIdle ==
  IF chain = <<>> THEN Enqueue("refresh", FALSE) ELSE UNCHANGED chain

EnqueueRefresh == Enqueue("refresh", FALSE)

\* cancelAutoRetry
CancelAutoRetry == timer' = FALSE /\ retryIndex' = 0

\* connect()
UserConnect ==
  /\ Event
  /\ CancelAutoRetry
  /\ Enqueue("connect", FALSE)
  /\ UNCHANGED <<run, core, settings, begun>>

\* disconnect(), also the first thing shutdownConnection does
UserDisconnect ==
  /\ Event
  /\ CancelAutoRetry
  /\ Enqueue("disconnect", FALSE)
  /\ UNCHANGED <<run, core, settings, begun>>

\* saveConfig up to its await: the new configuration is in force at once.
SaveConfig(c) ==
  /\ Event
  /\ config' = c
  /\ saving' = saving + 1
  /\ UNCHANGED <<chain, run, core, poisoned, retry, begun>>

\* The write landed and the listener in connection.ts runs.
SaveDone ==
  /\ saving > 0 /\ ~poisoned
  /\ saving' = saving - 1
  /\ EnqueueRefresh
  /\ UNCHANGED <<run, core, config, poisoned, retry, begun, events>>

\* The write failed: saveConfig rejects before the listeners, and so does every
\* later one, because writeQueue is never reset.
SaveFails ==
  /\ saving > 0
  /\ saving' = saving - 1
  /\ poisoned' = TRUE
  /\ UNCHANGED <<chain, run, core, config, retry, begun, events>>

\* pluginManager.onChanged
PluginChange(s) ==
  /\ Event
  /\ config' = [config EXCEPT !.surface = s]
  /\ EnqueueRefresh
  /\ UNCHANGED <<run, core, saving, poisoned, retry, begun>>

\* Mutant: an unfinished set-up is waited for instead of ending the schedule.
AttemptAutoConnectStubborn ==
  IF config.auto /\ config.ready
    THEN Enqueue("connect", TRUE) /\ timer' = FALSE /\ UNCHANGED <<retryIndex, status>>
    ELSE timer' = TRUE /\ UNCHANGED <<chain, retryIndex, status>>

\* attemptAutoConnect up to its await
AttemptAutoConnect ==
  IF config.auto /\ config.ready
    THEN /\ Enqueue("connect", TRUE)
         /\ timer' = FALSE
         /\ UNCHANGED <<retryIndex, status>>
    ELSE /\ CancelAutoRetry
         /\ status' = IF config.auto THEN "disconnected" ELSE status
         /\ UNCHANGED chain

BeginAutoConnect ==
  /\ ~begun
  /\ begun' = TRUE
  /\ IF config.auto THEN AttemptAutoConnect ELSE UNCHANGED <<chain, retry, status>>
  /\ UNCHANGED <<run, old, generation, endpoint, tunnel, servers, tunnels,
                 abandoned, observed, settings, events>>

RetryTimer ==
  /\ timer
  /\ AttemptAutoConnect
  /\ UNCHANGED <<run, old, generation, endpoint, tunnel, servers, tunnels,
                 abandoned, observed, settings, begun, events>>

-----------------------------------------------------------------------------
(***************************************************************************)
(* Running the first operation of the chain                                *)
(***************************************************************************)

ShouldRetryAutoConnect(st, tn) ==
  tn = 0 /\ st \in {"disconnected", "tunnel-unavailable"}

\* scheduleAutoRetry
ScheduleAutoRetry ==
  IF retryIndex < MaxRetries
    THEN timer' = TRUE /\ retryIndex' = retryIndex + 1
    ELSE CancelAutoRetry

\* The end of an operation.  attemptAutoConnect was the first to await its own
\* operation, so its continuation runs before the next operation begins.
Finish(st, tn) ==
  /\ run' = "idle"
  /\ chain' = Tail(chain)
  /\ IF ~Head(chain).auto THEN UNCHANGED retry
     ELSE IF ShouldRetryAutoConnect(st, tn) THEN ScheduleAutoRetry
     ELSE CancelAutoRetry

Running(where) == chain # <<>> /\ run = where

\* The test of refreshToolSurfaceNow.
RefreshNeeded == endpoint # 0 /\ tunnel # 0 /\ observed # config.surface

\* Mutant: the generation is left alone, so the old tunnel may still report.
NextGenerationSame == generation

NextGeneration == generation + 1

\* refreshToolSurfaceNow with nothing to do
RefreshNoop ==
  /\ Running("idle")
  /\ Head(chain).kind = "refresh"
  /\ ~RefreshNeeded
  /\ Finish(status, tunnel)
  /\ UNCHANGED <<core, settings, begun, events>>

\* Mutant: the handles are forgotten before they are kept for stopping.
OldHandlesDropped == [server |-> endpoint, tunnel |-> 0]

\* oldEndpoint and oldTunnel
OldHandles == [server |-> endpoint, tunnel |-> tunnel]

\* disconnectNow up to its first await
OpBegin ==
  /\ Running("idle")
  /\ Head(chain).kind = "refresh" => RefreshNeeded
  /\ run' = "stopping"
  /\ generation' = NextGeneration
  /\ old' = OldHandles
  /\ endpoint' = 0 /\ tunnel' = 0 /\ observed' = 0
  /\ UNCHANGED <<chain, servers, tunnels, abandoned, status, settings, retry, begun, events>>

\* oldTunnel.stop(), then oldEndpoint.stop().  stopTree gives up after three
\* seconds, the stop resolves as if the tree had ended, and a stop that rejects is
\* caught: the operation goes on beside a tree that may still run.
TunnelStopped ==
  /\ Running("stopping")
  /\ old.tunnel # 0
  /\ \/ tunnels' = tunnels \ {old.tunnel} /\ UNCHANGED abandoned
     \/ abandoned' = abandoned \union {old.tunnel} /\ UNCHANGED tunnels
  /\ old' = [old EXCEPT !.tunnel = 0]
  /\ UNCHANGED <<chain, run, generation, endpoint, tunnel, servers, observed, status,
                 settings, retry, begun, events>>

\* The tree of a tunnel that was given up on ends after all.
AbandonedEnds ==
  /\ \E g \in abandoned : tunnels' = tunnels \ {g} /\ abandoned' = abandoned \ {g}
  /\ UNCHANGED <<chain, run, old, generation, endpoint, tunnel, servers, observed, status,
                 settings, retry, begun, events>>

\* The old server is closed as well.  A disconnect is over; a connect goes on
\* with its own generation unless preflight refuses.
ServerStopped ==
  /\ Running("stopping")
  /\ old.tunnel = 0
  /\ servers' = servers \ {old.server}
  /\ old' = [old EXCEPT !.server = 0]
  /\ IF Head(chain).kind = "disconnect"
       THEN /\ status' = "disconnected"
            /\ Finish("disconnected", tunnel)
            /\ UNCHANGED generation
       ELSE /\ generation' = generation + 1
            /\ IF config.ready
                 THEN /\ status' = "starting-server"
                      /\ run' = "server"
                      /\ UNCHANGED <<chain, retry>>
                 ELSE /\ status' = "disconnected"
                      /\ Finish("disconnected", tunnel)
  /\ UNCHANGED <<endpoint, tunnel, tunnels, abandoned, observed, settings, begun, events>>

\* startMcpServer resolved and startTunnel is called.
ServerStarted ==
  /\ Running("server")
  /\ servers' = servers \union {generation}
  /\ endpoint' = generation
  /\ observed' = config.surface
  /\ tunnels' = tunnels \union {generation}
  /\ status' = "connecting-tunnel"
  /\ run' = "tunnel"
  /\ UNCHANGED <<chain, old, generation, tunnel, abandoned, settings, retry, begun, events>>

\* startMcpServer rejected: the catch block has no server to stop.
ServerFails ==
  /\ Running("server")
  /\ status' = "disconnected"
  /\ Finish("disconnected", tunnel)
  /\ UNCHANGED <<old, generation, endpoint, tunnel, servers, tunnels, abandoned, observed,
                 settings, begun, events>>

\* startTunnel resolved.
TunnelStarted ==
  /\ Running("tunnel")
  /\ tunnel' = generation
  /\ Finish(status, generation)
  /\ UNCHANGED <<old, generation, endpoint, servers, tunnels, abandoned, observed, status,
                 settings, begun, events>>

\* What the catch block stops.
FailedServer == [server |-> endpoint, tunnel |-> 0]

\* startTunnel, or the API key before it, failed: before any process was spawned.
TunnelFails ==
  /\ Running("tunnel")
  /\ run' = "failing"
  /\ tunnels' = tunnels \ {generation}
  /\ old' = FailedServer
  /\ endpoint' = 0
  /\ UNCHANGED <<chain, generation, tunnel, servers, abandoned, observed, status,
                 settings, retry, begun, events>>

\* The end of the catch block.
FailurePublished(st) ==
  /\ Running("failing")
  /\ servers' = servers \ {old.server}
  /\ old' = [old EXCEPT !.server = 0]
  /\ status' = st
  /\ Finish(st, tunnel)
  /\ UNCHANGED <<generation, endpoint, tunnel, tunnels, abandoned, observed,
                 settings, begun, events>>

\* A live tunnel reports; the callback drops what an old generation says.
Report(g, st) ==
  /\ g \in tunnels
  /\ g = generation
  /\ status' = st
  /\ UNCHANGED <<chain, run, old, generation, endpoint, tunnel, servers, tunnels,
                 abandoned, observed, settings, retry, begun, events>>

Step ==
  \/ RefreshNoop \/ OpBegin \/ TunnelStopped \/ ServerStopped
  \/ ServerStarted \/ ServerFails \/ TunnelStarted \/ TunnelFails
  \/ \E st \in {"disconnected", "tunnel-unavailable"} : FailurePublished(st)

Next ==
  \/ UserConnect \/ UserDisconnect
  \/ \E c \in [surface : Surfaces, ready : BOOLEAN, auto : BOOLEAN] : SaveConfig(c)
  \/ SaveDone \/ SaveFails
  \/ \E s \in Surfaces : PluginChange(s)
  \/ BeginAutoConnect \/ RetryTimer
  \/ Step
  \/ AbandonedEnds
  \/ \E g \in tunnels : \E st \in {"connected", "offline", "connecting-tunnel"} : Report(g, st)

Spec == Init /\ [][Next]_vars

\* The next operation of the chain begins once the one before it is over, and
\* timers fire.  Of what an operation waits for nothing is assumed: a server closes
\* when its last connection does, and no deadline bounds that.
FairSpec == Spec /\ WF_vars(RefreshNoop \/ OpBegin) /\ WF_vars(RetryTimer)

-----------------------------------------------------------------------------
(***************************************************************************)
(* Properties                                                              *)
(***************************************************************************)
Idle == chain = <<>>

\* Two servers or tunnels never run at once, also while one operation replaces
\* another, and between operations exactly the stored handles are live: no
\* failed or superseded connect leaves a server listening or a tunnel running.
\* Excepted are the trees of tunnels whose stop was asked for and gave up on them
\* (stopTree after three seconds, in the stop or in a restart before it): the code
\* takes such a stop for done and may start the next tunnel beside the old tree.
NothingLeaks ==
  /\ Cardinality(tunnels \ abandoned) <= 1 /\ Cardinality(servers) <= 1
  /\ Idle => /\ servers = IF endpoint = 0 THEN {} ELSE {endpoint}
             /\ tunnels \ abandoned = IF tunnel = 0 THEN {} ELSE {tunnel}
             /\ endpoint = tunnel

\* The published state never claims a connection that no live tunnel stands for.
StatusTruthful ==
  Idle /\ tunnel = 0 => status \in {"disconnected", "tunnel-unavailable"}

\* From the moment an operation has taken the handles away until it publishes a
\* state of its own, nothing the old tunnel still reports is published (a start-up attempt that
\* finds the set-up incomplete may publish "disconnected").
NoStaleReport ==
  [][run = "stopping" /\ run' = "stopping" => status' \in {status, "disconnected"}]_vars

\* Once notifications have been worked off, the tunnel publishes the current
\* tool surface, provided no configuration write has failed.
SurfaceFresh ==
  Idle /\ saving = 0 /\ ~poisoned /\ tunnel # 0 => observed = config.surface

\* A changed tool surface reaches a live tunnel by itself: the refresh is queued
\* and not lost behind the operation that runs when the change comes.
SurfacePropagates ==
  (tunnel # 0 /\ saving = 0 /\ observed # config.surface)
    ~> (observed = config.surface \/ tunnel = 0 \/ poisoned \/ saving > 0)

\* The start-up retries come to an end.
RetriesEnd == <>[](~timer)
=============================================================================
