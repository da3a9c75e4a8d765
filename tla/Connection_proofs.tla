--------------------------- MODULE Connection_proofs ---------------------------
(***************************************************************************)
(* The connection controller, for any number of commands, configuration    *)
(* changes, surfaces and retries: no server is left behind, nor a tunnel   *)
(* except one whose stop gave up on its tree, the published state is never *)
(* better than the tunnel, an old tunnel is not heard any more, and a      *)
(* settled controller publishes the current tool surface.                  *)
(*                                                                         *)
(* The argument: where the running operation is determines which servers   *)
(* and tunnels are live, and every change of the surface is either seen by *)
(* the server that starts next or followed by an operation on the chain.   *)
(***************************************************************************)
EXTENDS Connection, FiniteSetTheorems, SequenceTheorems, TLAPS

\* The live resource a handle stands for.
Behind(handle) == IF handle = 0 THEN {} ELSE {handle}

\* The tunnels nobody has given up on.
Kept == tunnels \ abandoned

\* What is live at each place of the running operation, and that what was given up
\* on belongs to an earlier generation.
Live ==
  /\ \A g \in abandoned : g < generation
  /\ run = "idle"     => /\ servers = Behind(endpoint) /\ Kept = Behind(tunnel)
                         /\ endpoint = tunnel /\ tunnel <= generation
  /\ run = "stopping" => /\ servers = Behind(old.server) /\ Kept = Behind(old.tunnel)
                         /\ endpoint = 0 /\ tunnel = 0 /\ old.tunnel < generation
  /\ run = "server"   => /\ servers = {} /\ Kept = {}
                         /\ endpoint = 0 /\ tunnel = 0 /\ generation > 0
  /\ run = "tunnel"   => /\ servers = {generation} /\ Kept = {generation}
                         /\ endpoint = generation /\ tunnel = 0 /\ generation > 0
  /\ run = "failing"  => /\ servers = Behind(old.server) /\ Kept = {}
                         /\ endpoint = 0 /\ tunnel = 0

\* An operation that runs is the first of the chain.
Busy == run # "idle" => chain # <<>>

\* Nothing claims a connection while no tunnel is stored.
Claims == run = "idle" /\ tunnel = 0 => status \in {"disconnected", "tunnel-unavailable"}

\* An outdated surface has an operation behind it.
Caught ==
  saving = 0 /\ ~poisoned =>
    /\ run = "idle" /\ tunnel # 0 => observed = config.surface \/ chain # <<>>
    /\ run = "tunnel" => observed = config.surface \/ Len(chain) > 1

ConnInv ==
  /\ TypeOK
  /\ Live
  /\ Busy
  /\ Claims
  /\ Caught

-----------------------------------------------------------------------------
(***************************************************************************)
(* The chain and the retry schedule.                                       *)
(***************************************************************************)
LEMMA Enqueued ==
  ASSUME chain \in Seq(Ops), NEW k \in {"connect", "disconnect", "refresh"}, NEW a \in BOOLEAN,
         Enqueue(k, a)
  PROVE  chain' \in Seq(Ops) /\ chain' # <<>> /\ Len(chain') = Len(chain) + 1
<1>1. [kind |-> k, auto |-> a] \in Ops
  BY DEF Ops
<1> QED
  BY <1>1, AppendProperties DEF Enqueue

LEMMA Refreshed ==
  ASSUME chain \in Seq(Ops), EnqueueRefresh
  PROVE  chain' \in Seq(Ops) /\ chain' # <<>> /\ Len(chain') = Len(chain) + 1
BY Enqueued DEF EnqueueRefresh

LEMMA Cancelled ==
  ASSUME CancelAutoRetry
  PROVE  timer' \in BOOLEAN /\ retryIndex' \in 0..MaxRetries
<1>1. timer' \in BOOLEAN
  BY DEF CancelAutoRetry
<1>2. retryIndex' \in 0..MaxRetries
  BY ConnectionAssumption DEF CancelAutoRetry
<1> QED
  BY <1>1, <1>2

LEMMA Scheduled ==
  ASSUME ScheduleAutoRetry, retryIndex \in 0..MaxRetries
  PROVE  timer' \in BOOLEAN /\ retryIndex' \in 0..MaxRetries
<1>1. CASE retryIndex < MaxRetries
  BY <1>1, ConnectionAssumption DEF ScheduleAutoRetry
<1>2. CASE ~(retryIndex < MaxRetries)
  BY <1>2, Cancelled DEF ScheduleAutoRetry
<1> QED
  BY <1>1, <1>2

LEMMA Finished ==
  ASSUME TypeOK, chain # <<>>, NEW st, NEW tn, Finish(st, tn)
  PROVE  /\ run' = "idle"
         /\ chain' \in Seq(Ops)
         /\ Len(chain) > 1 => chain' # <<>>
         /\ timer' \in BOOLEAN /\ retryIndex' \in 0..MaxRetries
<1>1. chain' \in Seq(Ops) /\ Len(chain') = Len(chain) - 1
  BY HeadTailProperties DEF TypeOK, Finish
<1>2. Len(chain) > 1 => chain' # <<>>
  BY <1>1, EmptySeq DEF TypeOK
<1>3. timer' \in BOOLEAN /\ retryIndex' \in 0..MaxRetries
  BY Cancelled, Scheduled DEF TypeOK, Finish, retry
<1> QED
  BY <1>1, <1>2, <1>3 DEF Finish

LEMMA Attempted ==
  ASSUME TypeOK, AttemptAutoConnect
  PROVE  /\ chain' \in Seq(Ops)
         /\ chain # <<>> => chain' # <<>>
         /\ Len(chain') >= Len(chain)
         /\ timer' \in BOOLEAN /\ retryIndex' \in 0..MaxRetries
         /\ status' \in {status, "disconnected"}
<1>1. CASE config.auto /\ config.ready
  <2>1. Enqueue("connect", TRUE) /\ timer' = FALSE /\ UNCHANGED <<retryIndex, status>>
    BY <1>1 DEF AttemptAutoConnect
  <2>2. chain' \in Seq(Ops) /\ chain' # <<>> /\ Len(chain') = Len(chain) + 1
    BY <2>1, Enqueued DEF TypeOK
  <2>3. Len(chain) \in Nat
    BY LenProperties DEF TypeOK
  <2>4. timer' \in BOOLEAN /\ retryIndex' \in 0..MaxRetries /\ status' = status
    BY <2>1 DEF TypeOK
  <2> QED
    BY <2>2, <2>3, <2>4
<1>2. CASE ~(config.auto /\ config.ready)
  <2>1. CancelAutoRetry /\ status' \in {status, "disconnected"} /\ UNCHANGED chain
    BY <1>2 DEF AttemptAutoConnect
  <2> QED
    BY <2>1, Cancelled, LenProperties DEF TypeOK
<1> QED
  BY <1>1, <1>2

LEMMA ConnInit == Init => ConnInv
<1> SUFFICES ASSUME Init PROVE ConnInv
  OBVIOUS
<1>1. TypeOK
  <2>1. retryIndex \in 0..MaxRetries /\ events \in 0..MaxEvents /\ chain \in Seq(Ops)
    BY ConnectionAssumption DEF Init
  <2>2. config \in [surface : Surfaces, ready : BOOLEAN, auto : BOOLEAN]
    BY ConnectionAssumption DEF Init, Surfaces
  <2> QED
    BY <2>1, <2>2 DEF Init, TypeOK, States
<1> QED
  BY <1>1 DEF Init, ConnInv, Live, Kept, Behind, Busy, Claims, Caught

-----------------------------------------------------------------------------
(***************************************************************************)
(* One lemma per action, one step per conjunct of the invariant.           *)
(***************************************************************************)
LEMMA UserConnectKeeps ==
  ASSUME ConnInv, UserConnect
  PROVE  ConnInv'
<1>1. /\ Enqueue("connect", FALSE) /\ Event /\ CancelAutoRetry
      /\ UNCHANGED <<run, core, settings, begun>>
  BY DEF UserConnect
<1>2. /\ chain' \in Seq(Ops) /\ chain' # <<>>
      /\ Len(chain) \in Nat /\ Len(chain') = Len(chain) + 1
  BY <1>1, Enqueued, LenProperties DEF ConnInv, TypeOK
<1>3. TypeOK'
  <2>1. events' \in 0..MaxEvents
    BY <1>1, ConnectionAssumption DEF Event, ConnInv, TypeOK
  <2> QED
    BY <1>1, <1>2, <2>1, Cancelled DEF ConnInv, TypeOK, core, settings
<1>4. Live'
  BY <1>1, <1>2, ConnectionAssumption DEF Event, CancelAutoRetry, ConnInv, TypeOK,
     Live, Kept, Behind, Busy, core, Finish, settings
<1>5. Busy'
  BY <1>1, <1>2, ConnectionAssumption DEF Event, CancelAutoRetry, ConnInv, TypeOK,
     Busy, Finish, core, settings
<1>6. Claims'
  BY <1>1, <1>2, ConnectionAssumption DEF Event, CancelAutoRetry, ConnInv, TypeOK,
     Live, Kept, Behind, Claims, Finish, core, settings
<1>7. Caught'
  BY <1>1, <1>2, ConnectionAssumption DEF Event, CancelAutoRetry, ConnInv, TypeOK,
     Caught, Live, Kept, Behind, Busy, Finish, core, settings
<1> QED
  BY <1>3, <1>4, <1>5, <1>6, <1>7 DEF ConnInv

LEMMA UserDisconnectKeeps ==
  ASSUME ConnInv, UserDisconnect
  PROVE  ConnInv'
<1>1. /\ Enqueue("disconnect", FALSE) /\ Event /\ CancelAutoRetry
      /\ UNCHANGED <<run, core, settings, begun>>
  BY DEF UserDisconnect
<1>2. /\ chain' \in Seq(Ops) /\ chain' # <<>>
      /\ Len(chain) \in Nat /\ Len(chain') = Len(chain) + 1
  BY <1>1, Enqueued, LenProperties DEF ConnInv, TypeOK
<1>3. TypeOK'
  <2>1. events' \in 0..MaxEvents
    BY <1>1, ConnectionAssumption DEF Event, ConnInv, TypeOK
  <2> QED
    BY <1>1, <1>2, <2>1, Cancelled DEF ConnInv, TypeOK, core, settings
<1>4. Live'
  BY <1>1, <1>2, ConnectionAssumption DEF Event, CancelAutoRetry, ConnInv, TypeOK,
     Live, Kept, Behind, Busy, core, Finish, settings
<1>5. Busy'
  BY <1>1, <1>2, ConnectionAssumption DEF Event, CancelAutoRetry, ConnInv, TypeOK,
     Busy, Finish, core, settings
<1>6. Claims'
  BY <1>1, <1>2, ConnectionAssumption DEF Event, CancelAutoRetry, ConnInv, TypeOK,
     Live, Kept, Behind, Claims, Finish, core, settings
<1>7. Caught'
  BY <1>1, <1>2, ConnectionAssumption DEF Event, CancelAutoRetry, ConnInv, TypeOK,
     Caught, Live, Kept, Behind, Busy, Finish, core, settings
<1> QED
  BY <1>3, <1>4, <1>5, <1>6, <1>7 DEF ConnInv

LEMMA SaveConfigKeeps ==
  ASSUME ConnInv, NEW c \in [surface : Surfaces, ready : BOOLEAN, auto : BOOLEAN], SaveConfig(c)
  PROVE  ConnInv'
<1>1. TypeOK'
  BY ConnectionAssumption DEF SaveConfig, Event, ConnInv, TypeOK, core, retry,
     settings, States
<1>2. Live'
  BY ConnectionAssumption DEF SaveConfig, Event, ConnInv, TypeOK, Live, Kept, Behind, Busy,
     core, Finish, settings
<1>3. Busy'
  BY ConnectionAssumption DEF SaveConfig, Event, ConnInv, TypeOK, Busy, Finish, core,
     settings
<1>4. Claims'
  BY ConnectionAssumption DEF SaveConfig, Event, ConnInv, TypeOK, Live, Kept, Behind, Claims,
     Finish, core, settings
<1>5. Caught'
  BY ConnectionAssumption DEF SaveConfig, Event, ConnInv, TypeOK, Caught, Live, Kept, Behind,
     Busy, Finish, core, settings
<1> QED
  BY <1>1, <1>2, <1>3, <1>4, <1>5 DEF ConnInv

LEMMA SaveDoneKeeps ==
  ASSUME ConnInv, SaveDone
  PROVE  ConnInv'
<1>1. TypeOK'
  BY ConnectionAssumption, Refreshed DEF SaveDone, ConnInv, TypeOK, core, retry,
     settings, States
<1>2. Live'
  BY ConnectionAssumption, Refreshed DEF SaveDone, ConnInv, TypeOK, Live, Kept, Behind, Busy,
     core, Finish, settings
<1>3. Busy'
  BY ConnectionAssumption, Refreshed DEF SaveDone, ConnInv, TypeOK, Busy, Finish, core,
     settings
<1>4. Claims'
  BY ConnectionAssumption, Refreshed DEF SaveDone, ConnInv, TypeOK, Live, Kept, Behind,
     Claims, Finish, core, settings
<1>5. Caught'
  BY ConnectionAssumption, Refreshed DEF SaveDone, ConnInv, TypeOK, Caught, Live, Kept,
     Behind, Busy, Finish, core, settings
<1> QED
  BY <1>1, <1>2, <1>3, <1>4, <1>5 DEF ConnInv

LEMMA SaveFailsKeeps ==
  ASSUME ConnInv, SaveFails
  PROVE  ConnInv'
<1>1. TypeOK'
  BY ConnectionAssumption DEF SaveFails, ConnInv, TypeOK, core, retry, settings, States
<1>2. Live'
  BY ConnectionAssumption DEF SaveFails, ConnInv, TypeOK, Live, Kept, Behind, Busy, core,
     Finish, settings
<1>3. Busy'
  BY ConnectionAssumption DEF SaveFails, ConnInv, TypeOK, Busy, Finish, core, settings
<1>4. Claims'
  BY ConnectionAssumption DEF SaveFails, ConnInv, TypeOK, Live, Kept, Behind, Claims, Finish,
     core, settings
<1>5. Caught'
  BY ConnectionAssumption DEF SaveFails, ConnInv, TypeOK, Caught, Live, Kept, Behind, Busy,
     Finish, core, settings
<1> QED
  BY <1>1, <1>2, <1>3, <1>4, <1>5 DEF ConnInv

LEMMA PluginChangeKeeps ==
  ASSUME ConnInv, NEW s \in Surfaces, PluginChange(s)
  PROVE  ConnInv'
<1>1. TypeOK'
  <2>1. chain' \in Seq(Ops)
    BY Refreshed DEF PluginChange, ConnInv, TypeOK
  <2>2. config' \in [surface : Surfaces, ready : BOOLEAN, auto : BOOLEAN]
    BY DEF PluginChange, ConnInv, TypeOK
  <2>3. events' \in 0..MaxEvents
    BY ConnectionAssumption DEF PluginChange, Event, ConnInv, TypeOK
  <2> QED
    BY <2>1, <2>2, <2>3 DEF PluginChange, ConnInv, TypeOK, core, retry
<1>2. Live'
  BY ConnectionAssumption, Refreshed DEF PluginChange, Event, ConnInv, TypeOK, Live, Kept,
     Behind, Busy, core, Finish, settings
<1>3. Busy'
  BY ConnectionAssumption, Refreshed DEF PluginChange, Event, ConnInv, TypeOK, Busy,
     Finish, core, settings
<1>4. Claims'
  BY ConnectionAssumption, Refreshed DEF PluginChange, Event, ConnInv, TypeOK, Live, Kept,
     Behind, Claims, Finish, core, settings
<1>5. Caught'
  BY ConnectionAssumption, Refreshed DEF PluginChange, Event, ConnInv, TypeOK, Caught,
     Live, Kept, Behind, Busy, Finish, core, settings
<1> QED
  BY <1>1, <1>2, <1>3, <1>4, <1>5 DEF ConnInv

LEMMA BeginAutoConnectKeeps ==
  ASSUME ConnInv, BeginAutoConnect
  PROVE  ConnInv'
<1>1. TypeOK'
  BY ConnectionAssumption, Attempted DEF BeginAutoConnect, ConnInv, TypeOK, core,
     retry, settings, States
<1>2. Live'
  BY ConnectionAssumption, Attempted DEF BeginAutoConnect, ConnInv, TypeOK, Live, Kept,
     Behind, Busy, core, Finish, settings
<1>3. Busy'
  BY ConnectionAssumption, Attempted DEF BeginAutoConnect, ConnInv, TypeOK, Busy,
     Finish, core, settings
<1>4. Claims'
  BY ConnectionAssumption, Attempted DEF BeginAutoConnect, ConnInv, TypeOK, Live, Kept,
     Behind, Claims, Finish, core, settings
<1>5. Caught'
  BY ConnectionAssumption, Attempted DEF BeginAutoConnect, ConnInv, TypeOK, Caught,
     Live, Kept, Behind, Busy, Finish, core, settings
<1> QED
  BY <1>1, <1>2, <1>3, <1>4, <1>5 DEF ConnInv

LEMMA RetryTimerKeeps ==
  ASSUME ConnInv, RetryTimer
  PROVE  ConnInv'
<1>1. TypeOK'
  BY ConnectionAssumption, Attempted DEF RetryTimer, ConnInv, TypeOK, core, retry,
     settings, States
<1>2. Live'
  BY ConnectionAssumption, Attempted DEF RetryTimer, ConnInv, TypeOK, Live, Kept, Behind,
     Busy, core, Finish, settings
<1>3. Busy'
  BY ConnectionAssumption, Attempted DEF RetryTimer, ConnInv, TypeOK, Busy, Finish,
     core, settings
<1>4. Claims'
  BY ConnectionAssumption, Attempted DEF RetryTimer, ConnInv, TypeOK, Live, Kept, Behind,
     Claims, Finish, core, settings
<1>5. Caught'
  BY ConnectionAssumption, Attempted DEF RetryTimer, ConnInv, TypeOK, Caught, Live, Kept,
     Behind, Busy, Finish, core, settings
<1> QED
  BY <1>1, <1>2, <1>3, <1>4, <1>5 DEF ConnInv

LEMMA RefreshNoopKeeps ==
  ASSUME ConnInv, RefreshNoop
  PROVE  ConnInv'
<1>1. TypeOK'
  BY ConnectionAssumption, Finished DEF RefreshNoop, Running, RefreshNeeded, ConnInv,
     TypeOK, core, retry, settings, States
<1>2. Live'
  BY ConnectionAssumption, Finished DEF RefreshNoop, Running, RefreshNeeded, ConnInv,
     TypeOK, Live, Kept, Behind, Busy, core, Finish, settings
<1>3. Busy'
  BY ConnectionAssumption, Finished DEF RefreshNoop, Running, RefreshNeeded, ConnInv,
     TypeOK, Busy, Finish, core, settings
<1>4. Claims'
  BY ConnectionAssumption, Finished DEF RefreshNoop, Running, RefreshNeeded, ConnInv,
     TypeOK, Live, Kept, Behind, Claims, Finish, core, settings
<1>5. Caught'
  BY ConnectionAssumption, Finished DEF RefreshNoop, Running, RefreshNeeded, ConnInv,
     TypeOK, Caught, Live, Kept, Behind, Busy, Finish, core, settings
<1> QED
  BY <1>1, <1>2, <1>3, <1>4, <1>5 DEF ConnInv

LEMMA OpBeginKeeps ==
  ASSUME ConnInv, OpBegin
  PROVE  ConnInv'
<1>1. TypeOK'
  BY ConnectionAssumption DEF OpBegin, Running, RefreshNeeded, NextGeneration,
     OldHandles, ConnInv, TypeOK, core, retry, settings, States
<1>2. Live'
  BY ConnectionAssumption DEF OpBegin, Running, RefreshNeeded, NextGeneration,
     OldHandles, ConnInv, TypeOK, Live, Kept, Behind, Busy, core, Finish, settings
<1>3. Busy'
  BY ConnectionAssumption DEF OpBegin, Running, RefreshNeeded, NextGeneration,
     OldHandles, ConnInv, TypeOK, Busy, Finish, core, settings
<1>4. Claims'
  BY ConnectionAssumption DEF OpBegin, Running, RefreshNeeded, NextGeneration,
     OldHandles, ConnInv, TypeOK, Live, Kept, Behind, Claims, Finish, core, settings
<1>5. Caught'
  BY ConnectionAssumption DEF OpBegin, Running, RefreshNeeded, NextGeneration,
     OldHandles, ConnInv, TypeOK, Caught, Live, Kept, Behind, Busy, Finish, core, settings
<1> QED
  BY <1>1, <1>2, <1>3, <1>4, <1>5 DEF ConnInv

LEMMA TunnelStoppedKeeps ==
  ASSUME ConnInv, TunnelStopped
  PROVE  ConnInv'
<1>1. TypeOK'
  BY ConnectionAssumption DEF TunnelStopped, Running, ConnInv, TypeOK, core, retry,
     settings, States
<1>2. Live'
  BY ConnectionAssumption DEF TunnelStopped, Running, ConnInv, TypeOK, Live, Kept, Behind,
     Busy, core, Finish, settings
<1>3. Busy'
  BY ConnectionAssumption DEF TunnelStopped, Running, ConnInv, TypeOK, Busy, Finish,
     core, settings
<1>4. Claims'
  BY ConnectionAssumption DEF TunnelStopped, Running, ConnInv, TypeOK, Live, Kept, Behind,
     Claims, Finish, core, settings
<1>5. Caught'
  BY DEF TunnelStopped, ConnInv, Caught, settings
<1> QED
  BY <1>1, <1>2, <1>3, <1>4, <1>5 DEF ConnInv

LEMMA AbandonedEndsKeeps ==
  ASSUME ConnInv, AbandonedEnds
  PROVE  ConnInv'
<1>1. TypeOK'
  BY DEF AbandonedEnds, ConnInv, TypeOK, retry, settings
<1>2. Live'
  <2>1. Kept' = Kept /\ \A g \in abandoned' : g \in abandoned
    BY DEF AbandonedEnds, Kept
  <2> QED
    BY <2>1 DEF AbandonedEnds, ConnInv, Live, Behind
<1>3. Busy' /\ Claims' /\ Caught'
  BY DEF AbandonedEnds, ConnInv, Busy, Claims, Caught, settings
<1> QED
  BY <1>1, <1>2, <1>3 DEF ConnInv

LEMMA ServerStoppedKeeps ==
  ASSUME ConnInv, ServerStopped
  PROVE  ConnInv'
<1>1. TypeOK'
  <2>1. TypeOK /\ chain # <<>>
    BY DEF ServerStopped, Running, ConnInv
  <2>2. /\ chain' \in Seq(Ops) /\ run' \in {"idle", "stopping", "server", "tunnel", "failing"}
        /\ timer' \in BOOLEAN /\ retryIndex' \in 0..MaxRetries
    <3>1. CASE Finish("disconnected", tunnel)
      BY <2>1, <3>1, Finished
    <3>2. CASE run' = "server" /\ UNCHANGED <<chain, retry>>
      BY <2>1, <3>2 DEF TypeOK, retry
    <3> QED
      BY <3>1, <3>2 DEF ServerStopped
  <2>3. status' \in States /\ generation' \in Nat
    BY <2>1 DEF ServerStopped, TypeOK, States
  <2>4. /\ old' \in [server : Nat, tunnel : Nat] /\ servers' \in SUBSET Nat
        /\ UNCHANGED <<endpoint, tunnel, tunnels, abandoned, observed, config, saving, poisoned,
                       begun, events>>
    BY <2>1 DEF ServerStopped, TypeOK, settings
  <2> QED
    BY <2>1, <2>2, <2>3, <2>4 DEF TypeOK
<1>2. Live'
  BY ConnectionAssumption, Finished DEF ServerStopped, Running, ConnInv, TypeOK, Live, Kept,
     Behind, Busy, core, Finish, settings
<1>3. Busy'
  BY ConnectionAssumption, Finished DEF ServerStopped, Running, ConnInv, TypeOK, Busy,
     Finish, core, settings
<1>4. Claims'
  BY ConnectionAssumption, Finished DEF ServerStopped, Running, ConnInv, TypeOK, Live, Kept,
     Behind, Claims, Finish, core, settings
<1>5. Caught'
  BY ConnectionAssumption, Finished DEF ServerStopped, Running, ConnInv, TypeOK,
     Caught, Live, Kept, Behind, Busy, Finish, core, settings
<1> QED
  BY <1>1, <1>2, <1>3, <1>4, <1>5 DEF ConnInv

LEMMA ServerStartedKeeps ==
  ASSUME ConnInv, ServerStarted
  PROVE  ConnInv'
<1>1. TypeOK'
  BY ConnectionAssumption DEF ServerStarted, Running, ConnInv, TypeOK, core, retry,
     settings, States
<1>2. Live'
  <2>1. generation \notin abandoned /\ generation \in Nat /\ generation > 0 /\ Kept = {}
    BY DEF ServerStarted, Running, ConnInv, TypeOK, Live
  <2>2. Kept' = {generation}
    BY <2>1 DEF ServerStarted, Kept
  <2>3. servers' = {generation}
    BY DEF ServerStarted, Running, ConnInv, Live
  <2> QED
    BY <2>1, <2>2, <2>3 DEF ServerStarted, Running, ConnInv, TypeOK, Live
<1>3. Busy'
  BY ConnectionAssumption DEF ServerStarted, Running, ConnInv, TypeOK, Busy, Finish,
     core, settings
<1>4. Claims'
  BY ConnectionAssumption DEF ServerStarted, Running, ConnInv, TypeOK, Live, Kept, Behind,
     Claims, Finish, core, settings
<1>5. Caught'
  BY ConnectionAssumption DEF ServerStarted, Running, ConnInv, TypeOK, Caught, Live, Kept,
     Behind, Busy, Finish, core, settings
<1> QED
  BY <1>1, <1>2, <1>3, <1>4, <1>5 DEF ConnInv

LEMMA ServerFailsKeeps ==
  ASSUME ConnInv, ServerFails
  PROVE  ConnInv'
<1>1. TypeOK'
  BY ConnectionAssumption, Finished DEF ServerFails, Running, ConnInv, TypeOK, core,
     retry, settings, States
<1>2. Live'
  BY ConnectionAssumption, Finished DEF ServerFails, Running, ConnInv, TypeOK, Live, Kept,
     Behind, Busy, core, Finish, settings
<1>3. Busy'
  BY ConnectionAssumption, Finished DEF ServerFails, Running, ConnInv, TypeOK, Busy,
     Finish, core, settings
<1>4. Claims'
  BY ConnectionAssumption, Finished DEF ServerFails, Running, ConnInv, TypeOK, Live, Kept,
     Behind, Claims, Finish, core, settings
<1>5. Caught'
  BY ConnectionAssumption, Finished DEF ServerFails, Running, ConnInv, TypeOK, Caught,
     Live, Kept, Behind, Busy, Finish, core, settings
<1> QED
  BY <1>1, <1>2, <1>3, <1>4, <1>5 DEF ConnInv

LEMMA TunnelStartedKeeps ==
  ASSUME ConnInv, TunnelStarted
  PROVE  ConnInv'
<1>1. TypeOK'
  BY ConnectionAssumption, Finished DEF TunnelStarted, Running, ConnInv, TypeOK, core,
     retry, settings, States
<1>2. Live'
  BY ConnectionAssumption, Finished DEF TunnelStarted, Running, ConnInv, TypeOK, Live, Kept,
     Behind, Busy, core, Finish, settings
<1>3. Busy'
  BY ConnectionAssumption, Finished DEF TunnelStarted, Running, ConnInv, TypeOK, Busy,
     Finish, core, settings
<1>4. Claims'
  BY ConnectionAssumption, Finished DEF TunnelStarted, Running, ConnInv, TypeOK, Live, Kept,
     Behind, Claims, Finish, core, settings
<1>5. Caught'
  BY ConnectionAssumption, Finished DEF TunnelStarted, Running, ConnInv, TypeOK,
     Caught, Live, Kept, Behind, Busy, Finish, core, settings
<1> QED
  BY <1>1, <1>2, <1>3, <1>4, <1>5 DEF ConnInv

LEMMA TunnelFailsKeeps ==
  ASSUME ConnInv, TunnelFails
  PROVE  ConnInv'
<1>1. TypeOK'
  BY ConnectionAssumption DEF TunnelFails, Running, FailedServer, ConnInv, TypeOK,
     core, retry, settings, States
<1>2. Live'
  BY ConnectionAssumption DEF TunnelFails, Running, FailedServer, ConnInv, TypeOK,
     Live, Kept, Behind, Busy, core, Finish, settings
<1>3. Busy'
  BY ConnectionAssumption DEF TunnelFails, Running, FailedServer, ConnInv, TypeOK,
     Busy, Finish, core, settings
<1>4. Claims'
  BY ConnectionAssumption DEF TunnelFails, Running, FailedServer, ConnInv, TypeOK,
     Live, Kept, Behind, Claims, Finish, core, settings
<1>5. Caught'
  BY ConnectionAssumption DEF TunnelFails, Running, FailedServer, ConnInv, TypeOK,
     Caught, Live, Kept, Behind, Busy, Finish, core, settings
<1> QED
  BY <1>1, <1>2, <1>3, <1>4, <1>5 DEF ConnInv

LEMMA FailurePublishedKeeps ==
  ASSUME ConnInv, NEW st \in {"disconnected", "tunnel-unavailable"}, FailurePublished(st)
  PROVE  ConnInv'
<1>1. TypeOK'
  BY ConnectionAssumption, Finished DEF FailurePublished, Running, ConnInv, TypeOK,
     core, retry, settings, States
<1>2. Live'
  BY ConnectionAssumption, Finished DEF FailurePublished, Running, ConnInv, TypeOK,
     Live, Kept, Behind, Busy, core, Finish, settings
<1>3. Busy'
  BY ConnectionAssumption, Finished DEF FailurePublished, Running, ConnInv, TypeOK,
     Busy, Finish, core, settings
<1>4. Claims'
  BY ConnectionAssumption, Finished DEF FailurePublished, Running, ConnInv, TypeOK,
     Live, Kept, Behind, Claims, Finish, core, settings
<1>5. Caught'
  BY ConnectionAssumption, Finished DEF FailurePublished, Running, ConnInv, TypeOK,
     Caught, Live, Kept, Behind, Busy, Finish, core, settings
<1> QED
  BY <1>1, <1>2, <1>3, <1>4, <1>5 DEF ConnInv

LEMMA ReportKeeps ==
  ASSUME ConnInv, NEW g, NEW st \in {"connected", "offline", "connecting-tunnel"}, Report(g, st)
  PROVE  ConnInv'
<1>1. TypeOK'
  BY ConnectionAssumption DEF Report, ConnInv, TypeOK, core, retry, settings, States
<1>2. Live'
  BY ConnectionAssumption DEF Report, ConnInv, TypeOK, Live, Kept, Behind, Busy, core,
     Finish, settings
<1>3. Busy'
  BY ConnectionAssumption DEF Report, ConnInv, TypeOK, Busy, Finish, core, settings
<1>4. Claims'
  BY ConnectionAssumption DEF Report, ConnInv, TypeOK, Live, Kept, Behind, Claims, Finish,
     core, settings
<1>5. Caught'
  BY ConnectionAssumption DEF Report, ConnInv, TypeOK, Caught, Live, Kept, Behind, Busy,
     Finish, core, settings
<1> QED
  BY <1>1, <1>2, <1>3, <1>4, <1>5 DEF ConnInv

-----------------------------------------------------------------------------
(***************************************************************************)
(* The invariant of the specification.                                     *)
(***************************************************************************)
LEMMA ConnStep == ConnInv /\ [Next]_vars => ConnInv'
<1> SUFFICES ASSUME ConnInv, [Next]_vars PROVE ConnInv'
  OBVIOUS
<1>1. CASE UNCHANGED vars
  BY <1>1 DEF vars, core, retry, settings, ConnInv, TypeOK, Live, Kept, Behind, Busy, Claims,
     Caught
<1>2. CASE UserConnect \/ UserDisconnect \/ SaveDone \/ SaveFails \/ BeginAutoConnect \/ RetryTimer
  BY <1>2, UserConnectKeeps, UserDisconnectKeeps, SaveDoneKeeps, SaveFailsKeeps,
     BeginAutoConnectKeeps, RetryTimerKeeps
<1>3. ASSUME NEW c \in [surface : Surfaces, ready : BOOLEAN, auto : BOOLEAN], SaveConfig(c)
      PROVE  ConnInv'
  BY <1>3, SaveConfigKeeps
<1>4. ASSUME NEW s \in Surfaces, PluginChange(s)
      PROVE  ConnInv'
  BY <1>4, PluginChangeKeeps
<1>5. CASE Step
  BY <1>5, RefreshNoopKeeps, OpBeginKeeps, TunnelStoppedKeeps, ServerStoppedKeeps,
     ServerStartedKeeps, ServerFailsKeeps, TunnelStartedKeeps, TunnelFailsKeeps,
     FailurePublishedKeeps DEF Step
<1>6. ASSUME NEW g, NEW st \in {"connected", "offline", "connecting-tunnel"}, Report(g, st)
      PROVE  ConnInv'
  BY <1>6, ReportKeeps
<1>7. CASE AbandonedEnds
  BY <1>7, AbandonedEndsKeeps
<1> QED
  BY <1>1, <1>2, <1>3, <1>4, <1>5, <1>6, <1>7 DEF Next

\* What is live follows from where the running operation is, in every state.
THEOREM ConnectionInvariant == Spec => []ConnInv
<1> QED
  BY ConnInit, ConnStep, PTL DEF Spec

LEMMA FewLive == ASSUME ConnInv PROVE Cardinality(Kept) <= 1 /\ Cardinality(servers) <= 1
<1>1. /\ Kept = {} \/ \E t : Kept = {t}
      /\ servers = {} \/ \E t : servers = {t}
  BY DEF ConnInv, TypeOK, Live, Kept, Behind
<1>2. Cardinality({}) = 0 /\ \A t : Cardinality({t}) = 1
  BY FS_EmptySet, FS_Singleton
<1>3. Cardinality(Kept) \in {0, 1} /\ Cardinality(servers) \in {0, 1}
  BY <1>1, <1>2
<1> QED
  BY <1>3

\* No connect, failed, superseded or replaced, leaves a server behind, nor a tunnel
\* other than one whose own stop gave up on its tree
\* (connectNow and disconnectNow in src/src/clean/main/connection.ts).
THEOREM NothingIsLeaked == Spec => []NothingLeaks
<1>1. ConnInv => NothingLeaks
  BY FewLive DEF ConnInv, TypeOK, Live, Kept, Behind, Busy, Idle, NothingLeaks
<1> QED
  BY <1>1, ConnectionInvariant, PTL

\* The controller never claims a connection without a tunnel.
THEOREM StatusIsTruthful == Spec => []StatusTruthful
<1>1. ConnInv => StatusTruthful
  BY DEF ConnInv, TypeOK, Busy, Claims, Idle, StatusTruthful
<1> QED
  BY <1>1, ConnectionInvariant, PTL

\* When the chain is empty a live tunnel publishes the current tool surface.
THEOREM SurfaceIsFresh == Spec => []SurfaceFresh
<1>1. ConnInv => SurfaceFresh
  BY DEF ConnInv, TypeOK, Busy, Caught, Idle, SurfaceFresh
<1> QED
  BY <1>1, ConnectionInvariant, PTL

\* While the old tunnel is being stopped, what it reports is not published.
THEOREM StaleReportsDropped == Spec => NoStaleReport
<1>1. ConnInv /\ [Next]_vars =>
        [run = "stopping" /\ run' = "stopping" => status' \in {status, "disconnected"}]_vars
  <2> SUFFICES ASSUME ConnInv, Next, run = "stopping", run' = "stopping"
               PROVE  status' \in {status, "disconnected"}
    BY DEF vars
  <2>1. CASE UserConnect \/ UserDisconnect \/ SaveDone \/ SaveFails
    BY <2>1 DEF UserConnect, UserDisconnect, SaveDone, SaveFails, core
  <2>2. CASE BeginAutoConnect \/ RetryTimer
    BY <2>2, Attempted DEF BeginAutoConnect, RetryTimer, ConnInv
  <2>3. ASSUME NEW c, SaveConfig(c) PROVE status' = status
    BY <2>3 DEF SaveConfig, core
  <2>4. ASSUME NEW s, PluginChange(s) PROVE status' = status
    BY <2>4 DEF PluginChange, core
  <2>5. CASE Step
    BY <2>5 DEF Step, Running, RefreshNoop, OpBegin, TunnelStopped, ServerStopped,
       ServerStarted,
         ServerFails, TunnelStarted, TunnelFails, FailurePublished, Finish
  <2>6. ASSUME NEW g, NEW st, Report(g, st) PROVE FALSE
    BY <2>6 DEF Report, ConnInv, TypeOK, Live, Kept, Behind
  <2>7. CASE AbandonedEnds
    BY <2>7 DEF AbandonedEnds
  <2> QED
    BY <2>1, <2>2, <2>3, <2>4, <2>5, <2>6, <2>7 DEF Next
<1> QED
  BY <1>1, ConnectionInvariant, PTL DEF Spec, NoStaleReport
=============================================================================
