------------------------ MODULE TunnelSupervisor_proofs ------------------------
(***************************************************************************)
(* One supervisor, for any number of client processes: it never runs two,  *)
(* stop() leaves none behind, rejected credentials are final and a client  *)
(* that is lost is replaced.                                               *)
(*                                                                         *)
(* The argument: at any time at most one of the five things that can lead  *)
(* to a client (the owned run, a retirement, a stop, a launch, the         *)
(* relaunch timer) is under way, and the one client tree that may be alive *)
(* belongs to it or was given up on, after which no launch follows.        *)
(***************************************************************************)
EXTENDS TunnelSupervisor, FiniteSetTheorems, TLAPS

\* No tree but that of the run r is alive.
OnlyTree(r) == alive \subseteq {r}

\* The client whose turn it is, and what it excludes.
Turns ==
  /\ launching => current = 0 /\ retiring = 0 /\ stopping = 0 /\ timer = "none" /\ alive = {}
  /\ timer = "relaunch" =>
       current = 0 /\ retiring = 0 /\ stopping = 0 /\ ~stopped /\ alive = {}
  /\ timer = "watch" => current # 0
  /\ current # 0 => retiring = 0 /\ stopping = 0 /\ ~stopped /\ OnlyTree(current)
  /\ retiring # 0 => stopping = 0 /\ timer = "none" /\ OnlyTree(retiring)
  /\ stopping # 0 => timer = "none" /\ OnlyTree(stopping)

\* When it is nobody's turn, a live tree is one stopTree gave up on.
Abandoned ==
  current = 0 /\ retiring = 0 /\ stopping = 0 => alive \subseteq unkillable

\* The progress of stop(), and what a report stands for.
Phases ==
  /\ phase = "up" => stopping = 0
  /\ phase # "up" => stopped
  /\ stopped => timer = "none"
  /\ phase = "down" => retiring = 0 /\ stopping = 0
  /\ report = "auth-failed" => stopped

\* A run remembers its last miss.
Missed == \A r \in Runs : unready[r] => missed[r] >= 1

SupInv ==
  /\ TypeOK
  /\ \A r, s \in alive : r = s
  /\ Turns
  /\ Abandoned
  /\ Phases
  /\ Missed
  /\ NeverAbandoned

-----------------------------------------------------------------------------
LEMMA NoRunZero == 0 \notin Runs /\ "auth-failed" \notin Observations
BY RunsAssumption DEF Runs, Observations

LEMMA SupInit == Init => SupInv
<1> SUFFICES ASSUME Init PROVE SupInv
  OBVIOUS
<1>1. TypeOK
  <2>1. missed \in [Runs -> 0..2] /\ spawned \in 0..MaxRuns
    BY RunsAssumption DEF Init
  <2> QED
    BY <2>1 DEF Init, TypeOK
<1>2. Missed
  BY DEF Init, Missed
<1>3. Turns /\ Abandoned /\ Phases /\ NeverAbandoned /\ \A r, s \in alive : r = s
  BY DEF Init, Turns, OnlyTree, Abandoned, Phases, NeverAbandoned
<1> QED
  BY <1>1, <1>2, <1>3 DEF SupInv

(***************************************************************************)
(* One lemma per action, one step per conjunct of the invariant.           *)
(***************************************************************************)
LEMMA LaunchSpawnKeeps ==
  ASSUME SupInv, LaunchSpawn
  PROVE  SupInv'
<1>1. CASE MaySpawn
  <2> DEFINE r == spawned + 1
  <2>1. r \in Runs /\ r \in 0..MaxRuns /\ r # 0
    BY <1>1, RunsAssumption DEF LaunchSpawn, SupInv, TypeOK, Runs
  <2>2. /\ ~stopped /\ current = 0 /\ alive = {} /\ timer = "none"
        /\ retiring = 0 /\ stopping = 0
    BY <1>1 DEF MaySpawn, LaunchSpawn, SupInv, Turns
  <2>3. /\ spawned' = r /\ current' = r /\ alive' = {r} /\ report' = "connecting"
        /\ pc' = [pc EXCEPT ![r] = "starting"] /\ launching' = FALSE
        /\ UNCHANGED <<stopped, timer, retiring, unkillable, noticed, unready,
                       stopping, phase, missed>>
    BY <1>1, <2>2 DEF LaunchSpawn
  <2> HIDE DEF r
  <2>4. TypeOK'
    <3>1. pc' \in [Runs -> {"off", "starting", "refreshing", "watching", "probing"}]
      BY <2>1, <2>3 DEF SupInv, TypeOK
    <3>2. alive' \in SUBSET Runs /\ current' \in Runs \union {0} /\ spawned' \in 0..MaxRuns
      BY <2>1, <2>3
    <3> QED
      BY <2>2, <2>3, <3>1, <3>2 DEF SupInv, TypeOK
  <2>5. Turns' /\ Abandoned' /\ \A q, s \in alive' : q = s
    BY <2>1, <2>2, <2>3 DEF Turns, OnlyTree, Abandoned
  <2>6. Phases' /\ Missed'
    BY <2>2, <2>3 DEF SupInv, Phases, Missed
  <2>7. NeverAbandoned'
    BY <2>1, <2>3 DEF SupInv, TypeOK, NeverAbandoned
  <2> QED
    BY <2>4, <2>5, <2>6, <2>7 DEF SupInv
<1>2. CASE ~MaySpawn
  <2>1. stopped /\ stopped'
    BY <1>2 DEF MaySpawn, LaunchSpawn, SupInv, Turns
  <2>2. TypeOK'
    BY <1>2 DEF LaunchSpawn, SupInv, TypeOK
  <2>3. Turns' /\ Abandoned' /\ \A q, s \in alive' : q = s
    BY <1>2 DEF LaunchSpawn, SupInv, Turns, OnlyTree, Abandoned
  <2>4. Phases' /\ Missed' /\ NeverAbandoned'
    BY <1>2, <2>1 DEF LaunchSpawn, SupInv, Phases, Missed, NeverAbandoned
  <2> QED
    BY <2>2, <2>3, <2>4 DEF SupInv
<1> QED
  BY <1>1, <1>2

LEMMA RetiredKeeps ==
  ASSUME SupInv, Retired
  PROVE  SupInv'
<1>1. TypeOK'
  BY NoRunZero DEF Retired, AfterRetirement, SupInv, TypeOK
<1>2. (\A q, s \in alive : q = s)'
  BY NoRunZero DEF Retired, AfterRetirement, SupInv, Turns, OnlyTree
<1>3. Turns'
  BY NoRunZero DEF Retired, AfterRetirement, SupInv, Turns, OnlyTree, TypeOK, Phases
<1>4. Abandoned'
  BY NoRunZero DEF Retired, AfterRetirement, SupInv, Abandoned, Turns, OnlyTree, TypeOK
<1>5. Phases'
  BY NoRunZero DEF Retired, AfterRetirement, SupInv, Phases, TypeOK, Turns
<1>6. Missed'
  BY NoRunZero DEF Retired, AfterRetirement, SupInv, Missed, TypeOK
<1>7. NeverAbandoned'
  BY NoRunZero DEF Retired, AfterRetirement, SupInv, NeverAbandoned, TypeOK, Turns,
     Phases
<1> QED
  BY <1>1, <1>2, <1>3, <1>4, <1>5, <1>6, <1>7 DEF SupInv

LEMMA NotRetiredKeeps ==
  ASSUME SupInv, NotRetired
  PROVE  SupInv'
<1>1. TypeOK'
  BY NoRunZero DEF NotRetired, SupInv, TypeOK
<1>2. (\A q, s \in alive : q = s)'
  BY NoRunZero DEF NotRetired, SupInv, Turns, OnlyTree
<1>3. Turns'
  BY NoRunZero DEF NotRetired, SupInv, Turns, OnlyTree, TypeOK, Phases
<1>4. Abandoned'
  BY NoRunZero DEF NotRetired, SupInv, Abandoned, Turns, OnlyTree, TypeOK
<1>5. Phases'
  BY NoRunZero DEF NotRetired, SupInv, Phases, TypeOK, Turns
<1>6. Missed'
  BY NoRunZero DEF NotRetired, SupInv, Missed, TypeOK
<1>7. NeverAbandoned'
  BY NoRunZero DEF NotRetired, SupInv, NeverAbandoned, TypeOK, Turns, Phases
<1> QED
  BY <1>1, <1>2, <1>3, <1>4, <1>5, <1>6, <1>7 DEF SupInv

LEMMA RelaunchKeeps ==
  ASSUME SupInv, Relaunch
  PROVE  SupInv'
<1>1. TypeOK'
  BY NoRunZero DEF Relaunch, SupInv, TypeOK
<1>2. (\A q, s \in alive : q = s)'
  BY NoRunZero DEF Relaunch, SupInv, Turns, OnlyTree
<1>3. Turns'
  BY NoRunZero DEF Relaunch, SupInv, Turns, OnlyTree, TypeOK, Phases
<1>4. Abandoned'
  BY NoRunZero DEF Relaunch, SupInv, Abandoned, Turns, OnlyTree, TypeOK
<1>5. Phases'
  BY NoRunZero DEF Relaunch, SupInv, Phases, TypeOK, Turns
<1>6. Missed'
  BY NoRunZero DEF Relaunch, SupInv, Missed, TypeOK
<1>7. NeverAbandoned'
  BY NoRunZero DEF Relaunch, SupInv, NeverAbandoned, TypeOK, Turns, Phases
<1> QED
  BY <1>1, <1>2, <1>3, <1>4, <1>5, <1>6, <1>7 DEF SupInv

LEMMA StopKeeps ==
  ASSUME SupInv, Stop
  PROVE  SupInv'
<1>1. TypeOK'
  BY NoRunZero DEF Stop, SupInv, TypeOK
<1>2. (\A q, s \in alive : q = s)'
  BY NoRunZero DEF Stop, SupInv, Turns, OnlyTree
<1>3. Turns'
  BY NoRunZero DEF Stop, SupInv, Turns, OnlyTree, TypeOK, Phases
<1>4. Abandoned'
  BY NoRunZero DEF Stop, SupInv, Phases, Abandoned, Turns, OnlyTree, TypeOK
<1>5. Phases'
  BY NoRunZero DEF Stop, SupInv, Phases, TypeOK, Turns
<1>6. Missed'
  BY NoRunZero DEF Stop, SupInv, Missed, TypeOK
<1>7. NeverAbandoned'
  BY NoRunZero DEF Stop, SupInv, NeverAbandoned, TypeOK, Turns, Phases
<1> QED
  BY <1>1, <1>2, <1>3, <1>4, <1>5, <1>6, <1>7 DEF SupInv

LEMMA StopReturnsKeeps ==
  ASSUME SupInv, StopReturns
  PROVE  SupInv'
<1>1. TypeOK'
  BY NoRunZero DEF StopReturns, RetirementAwaited, SupInv, TypeOK
<1>2. (\A q, s \in alive : q = s)'
  BY NoRunZero DEF StopReturns, RetirementAwaited, SupInv, Turns, OnlyTree
<1>3. Turns'
  BY NoRunZero DEF StopReturns, RetirementAwaited, SupInv, Turns, OnlyTree, TypeOK,
     Phases
<1>4. Abandoned'
  BY NoRunZero DEF StopReturns, RetirementAwaited, SupInv, Abandoned, Turns, OnlyTree,
     TypeOK
<1>5. Phases'
  BY NoRunZero DEF StopReturns, RetirementAwaited, SupInv, Phases, TypeOK, Turns
<1>6. Missed'
  BY NoRunZero DEF StopReturns, RetirementAwaited, SupInv, Missed, TypeOK
<1>7. NeverAbandoned'
  BY NoRunZero DEF StopReturns, RetirementAwaited, SupInv, NeverAbandoned, TypeOK,
     Turns, Phases
<1> QED
  BY <1>1, <1>2, <1>3, <1>4, <1>5, <1>6, <1>7 DEF SupInv

LEMMA AuthFailureKeeps ==
  ASSUME SupInv, AuthFailure(current)
  PROVE  SupInv'
<1>1. TypeOK'
  BY NoRunZero DEF AuthFailure, GiveUp, CurrentRun, SupInv, TypeOK
<1>2. (\A q, s \in alive : q = s)'
  BY NoRunZero DEF AuthFailure, GiveUp, CurrentRun, SupInv, Turns, OnlyTree
<1>3. Turns'
  BY NoRunZero DEF AuthFailure, GiveUp, CurrentRun, SupInv, Turns, OnlyTree, TypeOK,
     Phases
<1>4. Abandoned'
  BY NoRunZero DEF AuthFailure, GiveUp, CurrentRun, SupInv, Abandoned, Turns, OnlyTree,
     TypeOK
<1>5. Phases'
  BY NoRunZero DEF AuthFailure, GiveUp, CurrentRun, SupInv, Phases, TypeOK, Turns
<1>6. Missed'
  BY NoRunZero DEF AuthFailure, GiveUp, CurrentRun, SupInv, Missed, TypeOK
<1>7. NeverAbandoned'
  BY NoRunZero DEF AuthFailure, GiveUp, CurrentRun, SupInv, NeverAbandoned, TypeOK,
     Turns, Phases
<1> QED
  BY <1>1, <1>2, <1>3, <1>4, <1>5, <1>6, <1>7 DEF SupInv

LEMMA SupersededKeeps ==
  ASSUME SupInv, NEW r \in Runs, Superseded(r)
  PROVE  SupInv'
<1>1. TypeOK'
  BY NoRunZero DEF Superseded, CurrentRun, SupInv, TypeOK
<1>2. (\A q, s \in alive : q = s)'
  BY NoRunZero DEF Superseded, CurrentRun, SupInv, Turns, OnlyTree
<1>3. Turns'
  BY NoRunZero DEF Superseded, CurrentRun, SupInv, Turns, OnlyTree, TypeOK, Phases
<1>4. Abandoned'
  BY NoRunZero DEF Superseded, CurrentRun, SupInv, Abandoned, Turns, OnlyTree, TypeOK
<1>5. Phases'
  BY NoRunZero DEF Superseded, CurrentRun, SupInv, Phases, TypeOK, Turns
<1>6. Missed'
  BY NoRunZero DEF Superseded, CurrentRun, SupInv, Missed, TypeOK
<1>7. NeverAbandoned'
  BY NoRunZero DEF Superseded, CurrentRun, SupInv, NeverAbandoned, TypeOK, Turns, Phases
<1> QED
  BY <1>1, <1>2, <1>3, <1>4, <1>5, <1>6, <1>7 DEF SupInv

LEMMA BecameReadyKeeps ==
  ASSUME SupInv, NEW r \in Runs, BecameReady(r)
  PROVE  SupInv'
<1>1. TypeOK'
  BY NoRunZero DEF BecameReady, CurrentRun, SupInv, TypeOK
<1>2. (\A q, s \in alive : q = s)'
  BY NoRunZero DEF BecameReady, CurrentRun, SupInv, Turns, OnlyTree
<1>3. Turns'
  BY NoRunZero DEF BecameReady, CurrentRun, SupInv, Turns, OnlyTree, TypeOK, Phases
<1>4. Abandoned'
  BY NoRunZero DEF BecameReady, CurrentRun, SupInv, Abandoned, Turns, OnlyTree, TypeOK
<1>5. Phases'
  BY NoRunZero DEF BecameReady, CurrentRun, SupInv, Phases, TypeOK, Turns
<1>6. Missed'
  BY NoRunZero DEF BecameReady, CurrentRun, SupInv, Missed, TypeOK
<1>7. NeverAbandoned'
  BY NoRunZero DEF BecameReady, CurrentRun, SupInv, NeverAbandoned, TypeOK, Turns,
     Phases
<1> QED
  BY <1>1, <1>2, <1>3, <1>4, <1>5, <1>6, <1>7 DEF SupInv

LEMMA NeverReadyKeeps ==
  ASSUME SupInv, NEW r \in Runs, NeverReady(r)
  PROVE  SupInv'
<1>1. TypeOK'
  BY NoRunZero DEF NeverReady, Restart, CurrentRun, SupInv, TypeOK
<1>2. (\A q, s \in alive : q = s)'
  BY NoRunZero DEF NeverReady, Restart, CurrentRun, SupInv, Turns, OnlyTree
<1>3. Turns'
  BY NoRunZero DEF NeverReady, Restart, CurrentRun, SupInv, Turns, OnlyTree, TypeOK,
     Phases
<1>4. Abandoned'
  BY NoRunZero DEF NeverReady, Restart, CurrentRun, SupInv, Abandoned, Turns, OnlyTree,
     TypeOK
<1>5. Phases'
  BY NoRunZero DEF NeverReady, Restart, CurrentRun, SupInv, Phases, TypeOK, Turns
<1>6. Missed'
  BY NoRunZero DEF NeverReady, Restart, CurrentRun, SupInv, Missed, TypeOK
<1>7. NeverAbandoned'
  BY NoRunZero DEF NeverReady, Restart, CurrentRun, SupInv, NeverAbandoned, TypeOK,
     Turns, Phases
<1> QED
  BY <1>1, <1>2, <1>3, <1>4, <1>5, <1>6, <1>7 DEF SupInv

LEMMA ShowKeeps ==
  ASSUME SupInv, NEW r \in Runs, NEW o \in Observations, Show(r, o)
  PROVE  SupInv'
<1>1. TypeOK'
  BY NoRunZero DEF Show, WatchAgain, CurrentRun, SupInv, TypeOK
<1>2. (\A q, s \in alive : q = s)'
  BY NoRunZero DEF Show, WatchAgain, CurrentRun, SupInv, Turns, OnlyTree
<1>3. Turns'
  BY NoRunZero DEF Show, WatchAgain, CurrentRun, SupInv, Turns, OnlyTree, TypeOK, Phases
<1>4. Abandoned'
  BY NoRunZero DEF Show, WatchAgain, CurrentRun, SupInv, Abandoned, Turns, OnlyTree,
     TypeOK
<1>5. Phases'
  BY NoRunZero DEF Show, WatchAgain, CurrentRun, SupInv, Phases, TypeOK, Turns
<1>6. Missed'
  BY NoRunZero DEF Show, WatchAgain, CurrentRun, SupInv, Missed, TypeOK
<1>7. NeverAbandoned'
  BY NoRunZero DEF Show, WatchAgain, CurrentRun, SupInv, NeverAbandoned, TypeOK, Turns,
     Phases
<1> QED
  BY <1>1, <1>2, <1>3, <1>4, <1>5, <1>6, <1>7 DEF SupInv

LEMMA WatchTimerKeeps ==
  ASSUME SupInv, NEW r \in Runs, WatchTimer(r)
  PROVE  SupInv'
<1>1. TypeOK'
  BY NoRunZero DEF WatchTimer, CurrentRun, SupInv, TypeOK
<1>2. (\A q, s \in alive : q = s)'
  BY NoRunZero DEF WatchTimer, CurrentRun, SupInv, Turns, OnlyTree
<1>3. Turns'
  BY NoRunZero DEF WatchTimer, CurrentRun, SupInv, Turns, OnlyTree, TypeOK, Phases
<1>4. Abandoned'
  BY NoRunZero DEF WatchTimer, CurrentRun, SupInv, Abandoned, Turns, OnlyTree, TypeOK
<1>5. Phases'
  BY NoRunZero DEF WatchTimer, CurrentRun, SupInv, Phases, TypeOK, Turns
<1>6. Missed'
  BY NoRunZero DEF WatchTimer, CurrentRun, SupInv, Missed, TypeOK
<1>7. NeverAbandoned'
  BY NoRunZero DEF WatchTimer, CurrentRun, SupInv, NeverAbandoned, TypeOK, Turns, Phases
<1> QED
  BY <1>1, <1>2, <1>3, <1>4, <1>5, <1>6, <1>7 DEF SupInv

LEMMA ProbeAnsweredKeeps ==
  ASSUME SupInv, NEW r \in Runs, ProbeAnswered(r)
  PROVE  SupInv'
<1>1. TypeOK'
  BY NoRunZero DEF ProbeAnswered, Answered, CurrentRun, SupInv, TypeOK
<1>2. (\A q, s \in alive : q = s)'
  BY NoRunZero DEF ProbeAnswered, Answered, CurrentRun, SupInv, Turns, OnlyTree
<1>3. Turns'
  BY NoRunZero DEF ProbeAnswered, Answered, CurrentRun, SupInv, Turns, OnlyTree,
     TypeOK, Phases
<1>4. Abandoned'
  BY NoRunZero DEF ProbeAnswered, Answered, CurrentRun, SupInv, Abandoned, Turns,
     OnlyTree, TypeOK
<1>5. Phases'
  BY NoRunZero DEF ProbeAnswered, Answered, CurrentRun, SupInv, Phases, TypeOK, Turns
<1>6. Missed'
  BY NoRunZero DEF ProbeAnswered, Answered, CurrentRun, SupInv, Missed, TypeOK
<1>7. NeverAbandoned'
  BY NoRunZero DEF ProbeAnswered, Answered, CurrentRun, SupInv, NeverAbandoned, TypeOK,
     Turns, Phases
<1> QED
  BY <1>1, <1>2, <1>3, <1>4, <1>5, <1>6, <1>7 DEF SupInv

LEMMA ProbeMissedAgainLaterKeeps ==
  ASSUME SupInv, NEW r \in Runs, ProbeMissedAgainLater(r)
  PROVE  SupInv'
<1>1. TypeOK'
  BY NoRunZero DEF ProbeMissedAgainLater, WatchAgain, CurrentRun, SupInv, TypeOK
<1>2. (\A q, s \in alive : q = s)'
  BY NoRunZero DEF ProbeMissedAgainLater, WatchAgain, CurrentRun, SupInv, Turns,
     OnlyTree
<1>3. Turns'
  BY NoRunZero DEF ProbeMissedAgainLater, WatchAgain, CurrentRun, SupInv, Turns,
     OnlyTree, TypeOK, Phases
<1>4. Abandoned'
  BY NoRunZero DEF ProbeMissedAgainLater, WatchAgain, CurrentRun, SupInv, Abandoned,
     Turns, OnlyTree, TypeOK
<1>5. Phases'
  BY NoRunZero DEF ProbeMissedAgainLater, WatchAgain, CurrentRun, SupInv, Phases,
     TypeOK, Turns
<1>6. Missed'
  BY NoRunZero DEF ProbeMissedAgainLater, WatchAgain, CurrentRun, SupInv, Missed, TypeOK
<1>7. NeverAbandoned'
  BY NoRunZero DEF ProbeMissedAgainLater, WatchAgain, CurrentRun, SupInv,
     NeverAbandoned, TypeOK, Turns, Phases
<1> QED
  BY <1>1, <1>2, <1>3, <1>4, <1>5, <1>6, <1>7 DEF SupInv

LEMMA WentUnreadyKeeps ==
  ASSUME SupInv, NEW r \in Runs, WentUnready(r)
  PROVE  SupInv'
<1>1. TypeOK'
  BY NoRunZero DEF WentUnready, Restart, CurrentRun, SupInv, TypeOK
<1>2. (\A q, s \in alive : q = s)'
  BY NoRunZero DEF WentUnready, Restart, CurrentRun, SupInv, Turns, OnlyTree
<1>3. Turns'
  BY NoRunZero DEF WentUnready, Restart, CurrentRun, SupInv, Turns, OnlyTree, TypeOK,
     Phases
<1>4. Abandoned'
  BY NoRunZero DEF WentUnready, Restart, CurrentRun, SupInv, Abandoned, Turns,
     OnlyTree, TypeOK
<1>5. Phases'
  BY NoRunZero DEF WentUnready, Restart, CurrentRun, SupInv, Phases, TypeOK, Turns
<1>6. Missed'
  BY NoRunZero DEF WentUnready, Restart, CurrentRun, SupInv, Missed, TypeOK
<1>7. NeverAbandoned'
  BY NoRunZero DEF WentUnready, Restart, CurrentRun, SupInv, NeverAbandoned, TypeOK,
     Turns, Phases
<1> QED
  BY <1>1, <1>2, <1>3, <1>4, <1>5, <1>6, <1>7 DEF SupInv

LEMMA ClientDiesKeeps ==
  ASSUME SupInv, NEW r \in Runs, ClientDies(r)
  PROVE  SupInv'
<1>1. TypeOK'
  BY NoRunZero DEF ClientDies, SupInv, TypeOK
<1>2. (\A q, s \in alive : q = s)'
  BY NoRunZero DEF ClientDies, SupInv, Turns, OnlyTree
<1>3. Turns'
  BY NoRunZero DEF ClientDies, SupInv, Turns, OnlyTree, TypeOK, Phases
<1>4. Abandoned'
  BY NoRunZero DEF ClientDies, SupInv, Abandoned, Turns, OnlyTree, TypeOK
<1>5. Phases'
  BY NoRunZero DEF ClientDies, SupInv, Phases, TypeOK, Turns
<1>6. Missed'
  BY NoRunZero DEF ClientDies, SupInv, Missed, TypeOK
<1>7. NeverAbandoned'
  BY NoRunZero DEF ClientDies, SupInv, NeverAbandoned, TypeOK, Turns, Phases
<1> QED
  BY <1>1, <1>2, <1>3, <1>4, <1>5, <1>6, <1>7 DEF SupInv

LEMMA ExitEventKeeps ==
  ASSUME SupInv, NEW r \in Runs, ExitEvent(r)
  PROVE  SupInv'
<1>1. TypeOK'
  BY NoRunZero DEF ExitEvent, Restart, CurrentRun, SupInv, TypeOK
<1>2. (\A q, s \in alive : q = s)'
  BY NoRunZero DEF ExitEvent, Restart, CurrentRun, SupInv, Turns, OnlyTree
<1>3. Turns'
  BY NoRunZero DEF ExitEvent, Restart, CurrentRun, SupInv, Turns, OnlyTree, TypeOK,
     Phases
<1>4. Abandoned'
  BY NoRunZero DEF ExitEvent, Restart, CurrentRun, SupInv, Abandoned, Turns, OnlyTree,
     TypeOK
<1>5. Phases'
  BY NoRunZero DEF ExitEvent, Restart, CurrentRun, SupInv, Phases, TypeOK, Turns
<1>6. Missed'
  BY NoRunZero DEF ExitEvent, Restart, CurrentRun, SupInv, Missed, TypeOK
<1>7. NeverAbandoned'
  BY NoRunZero DEF ExitEvent, Restart, CurrentRun, SupInv, NeverAbandoned, TypeOK,
     Turns, Phases
<1> QED
  BY <1>1, <1>2, <1>3, <1>4, <1>5, <1>6, <1>7 DEF SupInv

-----------------------------------------------------------------------------
(***************************************************************************)
(* The invariant of the specification.                                     *)
(***************************************************************************)
LEMMA SupStep == SupInv /\ [Next]_vars => SupInv'
<1> SUFFICES ASSUME SupInv, [Next]_vars PROVE SupInv'
  OBVIOUS
<1>1. CASE UNCHANGED vars
  BY <1>1 DEF vars, SupInv, TypeOK, Turns, OnlyTree, Abandoned, Phases, Missed,
     NeverAbandoned
<1>2. CASE LaunchSpawn
  BY <1>2, LaunchSpawnKeeps
<1>3. CASE Retired
  BY <1>3, RetiredKeeps
<1>4. CASE NotRetired
  BY <1>4, NotRetiredKeeps
<1>5. CASE Relaunch
  BY <1>5, RelaunchKeeps
<1>6. CASE Stop
  BY <1>6, StopKeeps
<1>7. CASE StopReturns
  BY <1>7, StopReturnsKeeps
<1>8. CASE AuthFailure(current)
  BY <1>8, AuthFailureKeeps
<1>9. ASSUME NEW r \in Runs,
            \/ Superseded(r) \/ BecameReady(r) \/ NeverReady(r) \/ WatchTimer(r)
            \/ ProbeAnswered(r) \/ ProbeMissedAgainLater(r) \/ WentUnready(r)
            \/ ClientDies(r) \/ ExitEvent(r)
     PROVE  SupInv'
  BY <1>9, SupersededKeeps, BecameReadyKeeps, NeverReadyKeeps,
     WatchTimerKeeps, ProbeAnsweredKeeps, ProbeMissedAgainLaterKeeps, WentUnreadyKeeps,
     ClientDiesKeeps, ExitEventKeeps
<1>10. ASSUME NEW r \in Runs, NEW o \in Observations, Show(r, o)
     PROVE  SupInv'
  BY <1>10, ShowKeeps
<1> QED
  BY <1>1, <1>2, <1>3, <1>4, <1>5, <1>6, <1>7, <1>8, <1>9, <1>10 DEF Next

\* Every reachable state has at most one turn under way.
THEOREM SupervisorInvariant == Spec => []SupInv
<1> QED
  BY SupInit, SupStep, PTL DEF Spec

LEMMA AtMostOne ==
  ASSUME \A r, s \in alive : r = s
  PROVE  OneClient
<1>1. CASE alive = {}
  BY <1>1, FS_EmptySet DEF OneClient
<1>2. CASE alive # {}
  <2>1. PICK r \in alive : TRUE
    BY <1>2
  <2>2. alive = {r}
    BY <2>1
  <2> QED
    BY <2>2, FS_Singleton, Cardinality({r}) = 1 DEF OneClient
<1> QED
  BY <1>1, <1>2

\* One supervisor never runs two clients, whatever exits, missed probes, deadlines
\* and stops come together (restart in src/src/main/tunnel/index.ts).
THEOREM NeverTwoClients == Spec => []OneClient
<1>1. SupInv => OneClient
  BY AtMostOne DEF SupInv
<1> QED
  BY <1>1, SupervisorInvariant, PTL

\* When stop() has resolved, every client is gone or was given up on, and no
\* timer is left.
THEOREM StopLeavesNothing == Spec => []StopIsFinal
<1>1. SupInv => StopIsFinal
  BY DEF SupInv, TypeOK, Turns, Abandoned, Phases, StopIsFinal
<1> QED
  BY <1>1, SupervisorInvariant, PTL

\* A lost client is being replaced, or the supervisor has said that it gave up.
THEOREM ClientReplaced == Spec => []NeverAbandoned
<1>1. SupInv => NeverAbandoned
  BY DEF SupInv
<1> QED
  BY <1>1, SupervisorInvariant, PTL

\* After rejected credentials no step starts a client or changes the report.
THEOREM AuthFailureStays == Spec => AuthFailureIsFinal
<1>1. SupInv /\ [Next]_vars =>
        [report = "auth-failed" => alive' \subseteq alive /\ report' = report]_vars
  <2> SUFFICES ASSUME SupInv, Next, report = "auth-failed"
               PROVE  alive' \subseteq alive /\ report' = report
    BY DEF vars
  <2>1. stopped
    BY DEF SupInv, Phases
  <2>2. timer = "none" /\ current = 0
    BY <2>1 DEF SupInv, Phases, TypeOK
  <2>3. CASE LaunchSpawn \/ Retired \/ NotRetired \/ Relaunch \/ Stop \/ StopReturns
    BY <2>1, <2>2, <2>3 DEF LaunchSpawn, MaySpawn, Retired, AfterRetirement, NotRetired,
         Relaunch, Stop, StopReturns
  <2>4. CASE AuthFailure(current)
    BY <2>2, <2>4 DEF AuthFailure
  <2>5. ASSUME NEW r \in Runs,
               \/ Superseded(r) \/ BecameReady(r) \/ NeverReady(r) \/ WatchTimer(r)
               \/ ProbeAnswered(r) \/ ProbeMissedAgainLater(r) \/ WentUnready(r)
               \/ ClientDies(r) \/ ExitEvent(r) \/ \E o \in Observations : Show(r, o)
        PROVE  alive' \subseteq alive /\ report' = report
    BY <2>1, <2>5 DEF CurrentRun, Superseded, BecameReady, NeverReady, WatchTimer,
         ProbeAnswered, ProbeMissedAgainLater, WentUnready, ClientDies, ExitEvent, Show
  <2> QED
    BY <2>3, <2>4, <2>5 DEF Next
<1> QED
  BY <1>1, SupervisorInvariant, PTL DEF Spec, AuthFailureIsFinal

\* The watch replaces a client only when it has missed a check before.
THEOREM TwoMisses == Spec => TwoMissesBeforeKill
<1>1. SupInv => [\A r \in Runs : WentUnready(r) => missed[r] >= 1]_vars
  BY DEF SupInv, Missed, WentUnready
<1> QED
  BY <1>1, SupervisorInvariant, PTL DEF Spec, TwoMissesBeforeKill
=============================================================================
