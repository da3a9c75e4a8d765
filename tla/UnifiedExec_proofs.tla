-------------------------- MODULE UnifiedExec_proofs --------------------------
(***************************************************************************)
(* Three facts about the session manager, for any number of calls,         *)
(* sessions, callers and chunks of output.                                 *)
(*                                                                         *)
(* Capacity: admission by reservation keeps the number of running          *)
(* processes within maxLiveProcesses.  The reservations never exceed the   *)
(* limit, and a process that runs holds a reservation.  A reservation is   *)
(* given back only for a session that is known to have exited or never     *)
(* had a process.                                                          *)
(*                                                                         *)
(* Output and tables: the output of a session is delivered once, whole and *)
(* in order, and the two tables, the reservations and the byte counter     *)
(* describe the same sessions.  The argument, in the second half: for each *)
(* session, what its tables say, where each chunk that has arrived is, and *)
(* who queues on its lock are one invariant; a step touches one session,   *)
(* or reaps, and the others are as they were.                              *)
(***************************************************************************)
EXTENDS UnifiedExec, FiniteSetTheorems, WellFoundedInduction, TLAPS

MgrFields == {"live", "initial", "reserved", "completed", "retained", "bytes"}

\* Of mgr only the reservations matter here.
MgrOK(m) == DOMAIN m = MgrFields /\ m.reserved \in SUBSET Pids

ProcType == [os : OsStates, pipe : BOOLEAN, exited : BOOLEAN, closed : BOOLEAN, arrived : 0..MaxChunks, buf : SUBSET Chunks]
ProcOK == proc \in [Pids -> ProcType]

ExecType == [pc : {"none", "spawning", "collecting", "done"}, alive : BOOLEAN, got : SUBSET Chunks]
ExecOK == exec \in [Pids -> ExecType]

\* The reservations stay within the limit.
Bounded(m) == Cardinality(m.reserved) <= MaxLive

\* What happens to a process in order: an id not handed out has none, a session
\* marked exited has no leader any more, and a call that found its session
\* exited at the spawn is right about it.  Only ids handed out are killed.
Lifecycle ==
  /\ \A p \in Pids : p >= nextId => proc[p].os = "none"
  /\ \A p \in Pids : proc[p].exited => proc[p].os = "gone"
  /\ \A p \in killing : p < nextId
  /\ \A p \in Pids : exec[p].pc = "collecting" /\ ~exec[p].alive => proc[p].exited

\* A running process holds its reservation until the shutdown.
Holds == phase = "up" => \A p \in Pids : proc[p].os = "running" => p \in mgr.reserved

CapInv ==
  /\ nextId \in 1..(MaxCalls + 1) /\ killing \in SUBSET Pids
  /\ MgrOK(mgr) /\ ProcOK /\ ExecOK
  /\ Bounded(mgr)
  /\ Lifecycle
  /\ Holds

-----------------------------------------------------------------------------
LEMMA PidsFinite == IsFiniteSet(Pids) /\ \A S \in SUBSET Pids :
                      IsFiniteSet(S) /\ Cardinality(S) \in Nat
<1>1. IsFiniteSet(Pids)
  BY FS_Interval, CallsAssumption DEF Pids
<1> QED
  BY <1>1, FS_Subset, FS_CardinalityType

\* Giving reservations back keeps the bound.
LEMMA FewerReserved ==
  ASSUME NEW S \in SUBSET Pids, NEW R \in SUBSET S, Cardinality(S) <= MaxLive
  PROVE  Cardinality(R) <= MaxLive
<1>1. IsFiniteSet(S) /\ Cardinality(S) \in Nat /\ Cardinality(R) \in Nat
  BY PidsFinite
<1>2. Cardinality(R) <= Cardinality(S)
  BY <1>1, FS_Subset
<1> QED
  BY <1>1, <1>2, LiveAssumption

LEMMA ReleaseFields ==
  ASSUME NEW m, NEW p, MgrOK(m)
  PROVE  MgrOK(Release(m, p)) /\ Release(m, p).reserved = m.reserved \ {p}
BY DEF MgrOK, MgrFields, Release

LEMMA BudgetFields ==
  ASSUME NEW m, DOMAIN m = MgrFields
  PROVE  DOMAIN EnforceBudget(m) = MgrFields /\ EnforceBudget(m).reserved = m.reserved
BY DEF MgrFields, EnforceBudget

LEMMA ReapFields ==
  ASSUME NEW m, MgrOK(m)
  PROVE  MgrOK(Reap(m)) /\ Reap(m).reserved = m.reserved \ Reapable(m)
<1>1. /\ DOMAIN Compacted(m) = MgrFields
      /\ Compacted(m).reserved = m.reserved \ Reapable(m)
  BY DEF Compacted, MgrOK, MgrFields
<1>2. DOMAIN Reap(m) = MgrFields /\ Reap(m).reserved = m.reserved \ Reapable(m)
  BY <1>1, BudgetFields DEF Reap
<1> QED
  BY <1>2 DEF MgrOK

\* A session that is reaped has exited, so its process holds no reservation.
LEMMA ReapedGone ==
  ASSUME Lifecycle, NEW m, NEW p \in Pids, p \in Reapable(m)
  PROVE  proc[p].os # "running"
BY DEF Lifecycle, Reapable

\* Reaping empties buffers and changes nothing else of a session.
LEMMA ReapedProcsFields ==
  ASSUME ProcOK, NEW m
  PROVE  /\ ReapedProcs(m) \in [Pids -> ProcType]
         /\ \A p \in Pids : /\ ReapedProcs(m)[p].os = proc[p].os
                            /\ ReapedProcs(m)[p].exited = proc[p].exited
BY DEF ProcOK, ProcType, ReapedProcs

-----------------------------------------------------------------------------
LEMMA CapInit == Init => CapInv
<1> SUFFICES ASSUME Init PROVE CapInv
  OBVIOUS
<1> USE DEF Init
<1>1. nextId \in 1..(MaxCalls + 1) /\ killing \in SUBSET Pids /\ MgrOK(mgr) /\ ProcOK /\ ExecOK
  BY CallsAssumption, SizeAssumption
  DEF MgrOK, MgrFields, ProcOK, ProcType, ExecOK, ExecType, OsStates, Pids
<1>2. Bounded(mgr)
  BY FS_EmptySet, LiveAssumption DEF Bounded
<1>3. Lifecycle /\ Holds
  BY DEF Lifecycle, Holds
<1> QED
  BY <1>1, <1>2, <1>3 DEF CapInv

\* A step that leaves the processes and the phase alone and gives back only
\* reservations of sessions whose process does not run.
LEMMA GiveBack ==
  ASSUME CapInv, MgrOK(mgr)', mgr'.reserved \subseteq mgr.reserved, phase' = phase,
         \A p \in Pids : proc'[p].os = "running" => proc[p].os = "running",
         \A p \in mgr.reserved \ mgr'.reserved : proc'[p].os # "running"
  PROVE  Bounded(mgr)' /\ Holds'
<1>1. Bounded(mgr)'
  BY FewerReserved DEF CapInv, MgrOK, Bounded
<1>2. Holds'
  BY DEF CapInv, MgrOK, Holds
<1> QED
  BY <1>1, <1>2

LEMMA ExecCallStep ==
  ASSUME CapInv, NEW a \in {"running", "unspawnable"}, ExecCall(a)
  PROVE  CapInv'
<1> DEFINE p == nextId
           m0 == [mgr EXCEPT !.reserved = @ \union {p}]
           m == Reap(m0)
<1>0. /\ phase = "up" /\ phase' = phase /\ killing' = killing
      /\ nextId <= MaxCalls /\ nextId' = nextId + 1
  BY DEF ExecCall
<1>01. nextId \in Nat /\ nextId >= 1 /\ nextId + 1 \in 1..(MaxCalls + 1)
  BY <1>0, CallsAssumption DEF CapInv
<1>1. p \in Pids /\ p \in Nat /\ nextId' = p + 1 /\ phase = "up" /\ phase' = "up"
  BY <1>0, <1>01, CallsAssumption DEF Pids
<1>2. MgrOK(m0) /\ m0.reserved = mgr.reserved \union {p}
  BY <1>1 DEF CapInv, MgrOK, MgrFields
<1>3. MgrOK(m) /\ m.reserved = (mgr.reserved \union {p}) \ Reapable(m0)
  <2> HIDE DEF m0
  <2> QED BY <1>2, ReapFields
<1>4. proc[p].os = "none" /\ p \notin Reapable(m0)
  BY <1>1 DEF CapInv, Lifecycle, Reapable
<1>5. \A q \in Pids : q \in Reapable(m0) => proc[q].os # "running"
  <2> HIDE DEF m0
  <2> QED BY ReapedGone DEF CapInv
<1> DEFINE rp == ReapedProcs(mgr)
<1>6. /\ rp \in [Pids -> ProcType]
      /\ \A q \in Pids : rp[q].os = proc[q].os /\ rp[q].exited = proc[q].exited
  BY ReapedProcsFields DEF CapInv
<1>7. CASE Full(m)
  <2>1. mgr' = Release(m, p) /\ exec' = [exec EXCEPT ![p].pc = "done"] /\ proc' = rp
    BY <1>7 DEF ExecCall
  <2> HIDE DEF m, rp
  <2>2. MgrOK(mgr)' /\ mgr'.reserved = m.reserved \ {p}
    BY <2>1, <1>3, ReleaseFields
  <2>3. ProcOK' /\ ExecOK'
    <3>1. ProcOK'
      BY <2>1, <1>6 DEF ProcOK
    <3>2. ExecOK'
      BY <2>1, <1>1 DEF CapInv, ExecOK, ExecType
    <3> QED
      BY <3>1, <3>2
  <2>4. Lifecycle'
    <3>1. \A q \in Pids : q >= nextId' => proc'[q].os = "none"
      BY <2>1, <1>6, <1>1 DEF CapInv, Lifecycle, Pids
    <3>2. \A q \in Pids : proc'[q].exited => proc'[q].os = "gone"
      BY <2>1, <1>6 DEF CapInv, Lifecycle
    <3>3. \A q \in Pids : q # p => exec'[q] = exec[q]
      BY <2>1
    <3>4. exec'[p].pc = "done"
      BY <2>1, <1>1 DEF CapInv, ExecOK, ExecType
    <3>5. \A q \in Pids : exec'[q].pc = "collecting" /\ ~exec'[q].alive => proc'[q].exited
      BY <2>1, <1>6, <3>3, <3>4 DEF CapInv, Lifecycle
    <3>6. \A q \in killing' : q < nextId'
      BY <1>0, <1>01 DEF CapInv, Lifecycle, Pids
    <3> QED
      BY <3>1, <3>2, <3>5, <3>6 DEF Lifecycle
  <2>5. Bounded(mgr)' /\ Holds'
    <3>1. mgr'.reserved \subseteq mgr.reserved
      BY <2>2, <1>3
    <3>2. \A q \in Pids : proc'[q].os = proc[q].os
      BY <2>1, <1>6
    <3>3. \A q \in mgr.reserved \ mgr'.reserved : q \in Reapable(m0) \/ q = p
      BY <2>2, <1>3
    <3>4. \A q \in mgr.reserved \ mgr'.reserved : proc'[q].os # "running"
      BY <3>2, <3>3, <1>4, <1>5, <1>1 DEF CapInv, MgrOK
    <3> QED
      BY <3>1, <3>2, <3>4, <2>2, <1>1, GiveBack
  <2> QED
    BY <1>0, <1>01, <1>1, <2>2, <2>3, <2>4, <2>5 DEF CapInv
<1>8. CASE ~Full(m)
  <2>1. /\ mgr' = m
        /\ exec' = [exec EXCEPT ![p].pc = "spawning"]
        /\ proc' = [rp EXCEPT ![p].os = a, ![p].pipe = (a = "running")]
    BY <1>8 DEF ExecCall
  <2> HIDE DEF m, rp
  <2>2. ProcOK' /\ ExecOK'
    <3>1. (a = "running") \in BOOLEAN /\ a \in OsStates
      BY DEF OsStates
    <3>2. proc' \in [Pids -> ProcType]
      <4> DEFINE b == (a = "running")
      <4>1. b \in BOOLEAN /\ proc' = [rp EXCEPT ![p].os = a, ![p].pipe = b]
        BY <2>1
      <4> HIDE DEF b
      <4> DEFINE y == [rp[p] EXCEPT !.os = a, !.pipe = b]
      <4>2. rp \in [Pids -> ProcType] /\ rp[p] \in ProcType
        BY <1>6, <1>1
      <4>3. y \in ProcType
        BY <4>1, <4>2, <3>1 DEF ProcType
      <4>4. proc' = [rp EXCEPT ![p] = y]
        BY <4>1
      <4> HIDE DEF y
      <4> QED
        BY <4>2, <4>3, <4>4
    <3>3. ExecOK'
      BY <2>1, <1>1 DEF CapInv, ExecOK, ExecType
    <3> QED
      BY <3>2, <3>3 DEF ProcOK
  <2>3. /\ \A q \in Pids \ {p} : proc'[q].os = proc[q].os
        /\ \A q \in Pids : proc'[q].exited = proc[q].exited
        /\ proc'[p].os = a
    BY <2>1, <1>6, <1>1
  <2>4. ~proc[p].exited
    BY <1>4, <1>1 DEF CapInv, Lifecycle
  <2>5. Lifecycle'
    <3>1. \A q \in Pids : q >= nextId' => proc'[q].os = "none"
      BY <2>3, <1>1 DEF CapInv, Lifecycle, Pids
    <3>2. \A q \in Pids : proc'[q].exited => proc'[q].os = "gone"
      BY <2>3, <2>4 DEF CapInv, Lifecycle
    <3>3. \A q \in Pids : q # p => exec'[q] = exec[q]
      BY <2>1
    <3>4. exec'[p].pc = "spawning"
      BY <2>1, <1>1 DEF CapInv, ExecOK, ExecType
    <3>5. \A q \in Pids : exec'[q].pc = "collecting" /\ ~exec'[q].alive => proc'[q].exited
      BY <2>3, <3>3, <3>4 DEF CapInv, Lifecycle
    <3>6. \A q \in killing' : q < nextId'
      BY <1>0, <1>01 DEF CapInv, Lifecycle, Pids
    <3> QED
      BY <3>1, <3>2, <3>5, <3>6 DEF Lifecycle
  <2>6. Bounded(mgr)'
    <3>1. Cardinality(m.reserved) \in Nat
      BY <1>3, PidsFinite DEF MgrOK
    <3> QED
      BY <3>1, <2>1, <1>8, LiveAssumption DEF Bounded, Full
  <2>7. Holds'
    BY <2>1, <2>3, <1>1, <1>3, <1>4, <1>5 DEF Holds, CapInv
  <2> QED
    BY <1>0, <1>01, <1>1, <1>3, <2>1, <2>2, <2>5, <2>6, <2>7 DEF CapInv
<1> QED
  BY <1>7, <1>8

-----------------------------------------------------------------------------
\* A step that leaves os and exited of every session alone and gives back only
\* reservations of sessions whose process does not run.
LEMMA QuietStep ==
  ASSUME CapInv, nextId' = nextId, phase' = phase,
         \A p \in killing' : p \in Pids /\ p < nextId,
         MgrOK(mgr)', mgr'.reserved \subseteq mgr.reserved, ProcOK', ExecOK',
         \A q \in Pids : proc'[q].os = proc[q].os /\ proc'[q].exited = proc[q].exited,
         \A p \in Pids : exec'[p].pc = "collecting" /\ ~exec'[p].alive => proc[p].exited,
         \A p \in Pids : p \in mgr.reserved /\ p \notin mgr'.reserved
                         => proc[p].os # "running"
  PROVE  CapInv'
<1>1. Bounded(mgr)'
  BY FewerReserved DEF CapInv, MgrOK, Bounded
<1>2. Holds'
  BY DEF CapInv, Holds
<1>3. Lifecycle'
  BY DEF CapInv, Lifecycle
<1> QED
  BY <1>1, <1>2, <1>3 DEF CapInv

\* Emptying a buffer disturbs nothing the invariant speaks of.
LEMMA DrainedFields ==
  ASSUME ProcOK, NEW p \in Pids
  PROVE  /\ Drained(p) \in [Pids -> ProcType]
         /\ \A q \in Pids : /\ Drained(p)[q].os = proc[q].os
                            /\ Drained(p)[q].exited = proc[q].exited
BY DEF ProcOK, ProcType, Drained

\* refreshProcessState and the release of an exited session's row.
LEMMA RefreshFields ==
  ASSUME NEW m, NEW p, MgrOK(m)
  PROVE  /\ MgrOK(Refresh(m, p))
         /\ Refresh(m, p).reserved \subseteq m.reserved
         /\ \A q : q \in m.reserved /\ q \notin Refresh(m, p).reserved
                  => q = p /\ proc[p].exited
BY ReleaseFields DEF Refresh

LEMMA TerminateRowFields ==
  ASSUME MgrOK(mgr), NEW p, TerminateRow(p)
  PROVE  /\ MgrOK(mgr)'
         /\ mgr'.reserved \subseteq mgr.reserved
         /\ \A q : q \in mgr.reserved /\ q \notin mgr'.reserved => q = p
<1>1. mgr' = Release(mgr, p) \/ mgr' = mgr
  BY DEF TerminateRow
<1> QED
  BY <1>1, ReleaseFields DEF MgrOK

-----------------------------------------------------------------------------
LEMMA SpawnReturnStep ==
  ASSUME CapInv, NEW p \in Pids, SpawnReturn(p)
  PROVE  CapInv'
<1>1. UNCHANGED <<nextId, proc, killing, phase>>
  BY DEF SpawnReturn
<1>2. ProcOK' /\ \A q \in killing' : q \in Pids /\ q < nextId
  BY <1>1 DEF CapInv, ProcOK, ProcType, Lifecycle
<1>3. CASE proc[p].os = "unspawnable"
  <2>1. mgr' = Release(mgr, p) /\ exec' = [exec EXCEPT ![p].pc = "done"]
    BY <1>3 DEF SpawnReturn
  <2>2. MgrOK(mgr)' /\ mgr'.reserved = mgr.reserved \ {p}
    BY <2>1, ReleaseFields DEF CapInv
  <2>3. ExecOK'
    BY <2>1 DEF CapInv, ExecOK, ExecType
  <2>4. /\ exec'[p].pc = "done"
        /\ \A q \in Pids : q # p => exec'[q] = exec[q]
    BY <2>1 DEF CapInv, ExecOK, ExecType
  <2>5. \A q \in Pids : exec'[q].pc = "collecting" /\ ~exec'[q].alive => proc[q].exited
    BY <2>4 DEF CapInv, Lifecycle
  <2>6. \A q \in Pids : q \in mgr.reserved /\ q \notin mgr'.reserved => proc[q].os # "running"
    BY <2>2, <1>3
  <2> QED
    BY <1>1, <1>2, <2>2, <2>3, <2>5, <2>6, QuietStep
<1>4. CASE proc[p].os # "unspawnable"
  <2>1. /\ exec' = [exec EXCEPT ![p].pc = "collecting", ![p].alive = ~proc[p].exited]
        /\ mgr' = IF proc[p].exited
                    THEN mgr
                    ELSE [mgr EXCEPT !.live = Append(@, p), !.initial = @ \union {p}]
    BY <1>4 DEF SpawnReturn
  <2>2. MgrOK(mgr)' /\ mgr'.reserved = mgr.reserved
    BY <2>1 DEF CapInv, MgrOK, MgrFields
  <2>3. PICK b \in BOOLEAN : b = ~proc[p].exited
    OBVIOUS
  <2>4. exec' = [exec EXCEPT ![p].pc = "collecting", ![p].alive = b]
    BY <2>1, <2>3
  <2>5. ExecOK' /\ exec'[p].alive = b /\ \A q \in Pids : q # p => exec'[q] = exec[q]
    <3>1. PICK at \in {"none", "spawning", "collecting", "done"} : at = "collecting"
      OBVIOUS
    <3> DEFINE y == [exec[p] EXCEPT !.pc = at, !.alive = b]
    <3>2. y \in ExecType /\ y.alive = b
      BY DEF CapInv, ExecOK, ExecType
    <3>3. exec' = [exec EXCEPT ![p] = y]
      BY <2>4, <3>1
    <3> HIDE DEF y
    <3> QED
      BY <3>2, <3>3 DEF CapInv, ExecOK
  <2>6. \A q \in Pids : exec'[q].pc = "collecting" /\ ~exec'[q].alive => proc[q].exited
    BY <2>3, <2>5 DEF CapInv, Lifecycle
  <2> QED
    BY <1>1, <1>2, <2>2, <2>5, <2>6, QuietStep
<1> QED
  BY <1>3, <1>4

LEMMA ExecDrainStep ==
  ASSUME CapInv, NEW p \in Pids, ExecDrain(p)
  PROVE  CapInv'
<1>1. /\ UNCHANGED <<nextId, mgr, killing, phase>>
      /\ proc' = Drained(p)
      /\ exec' = [exec EXCEPT ![p].got = @ \union proc[p].buf]
  BY DEF ExecDrain
<1>2. ProcOK' /\ \A q \in Pids : proc'[q].os = proc[q].os /\ proc'[q].exited = proc[q].exited
  BY <1>1, DrainedFields DEF CapInv, ProcOK, ProcType
<1>3. ExecOK' /\ \A q \in Pids : exec'[q].pc = exec[q].pc /\ exec'[q].alive = exec[q].alive
  BY <1>1 DEF CapInv, ExecOK, ExecType, ProcOK, ProcType
<1>4. \A q \in Pids : exec'[q].pc = "collecting" /\ ~exec'[q].alive => proc[q].exited
  BY <1>3 DEF CapInv, Lifecycle
<1>5. MgrOK(mgr)' /\ mgr'.reserved = mgr.reserved /\ \A q \in killing' : q \in Pids /\ q < nextId
  BY <1>1 DEF CapInv, MgrOK, Lifecycle
<1> QED
  BY <1>1, <1>2, <1>3, <1>4, <1>5, QuietStep

LEMMA ExecReturnStep ==
  ASSUME CapInv, NEW p \in Pids, ExecReturn(p)
  PROVE  CapInv'
<1>1. /\ UNCHANGED <<nextId, killing, phase>>
      /\ proc' = Drained(p)
      /\ exec' = [exec EXCEPT ![p].pc = "done", ![p].got = {}]
      /\ exec[p].pc = "collecting"
  BY DEF ExecReturn, ExecAnswer
<1>2. ProcOK' /\ \A q \in Pids : proc'[q].os = proc[q].os /\ proc'[q].exited = proc[q].exited
  BY <1>1, DrainedFields DEF CapInv, ProcOK, ProcType
<1>3. /\ ExecOK' /\ exec'[p].pc = "done"
      /\ \A q \in Pids : q # p => exec'[q] = exec[q]
  BY <1>1 DEF CapInv, ExecOK, ExecType
<1>4. \A q \in Pids : exec'[q].pc = "collecting" /\ ~exec'[q].alive => proc[q].exited
  BY <1>3 DEF CapInv, Lifecycle
<1>5. \A q \in killing' : q \in Pids /\ q < nextId
  BY <1>1 DEF CapInv, Lifecycle
<1>6. /\ MgrOK(mgr)' /\ mgr'.reserved \subseteq mgr.reserved
      /\ \A q \in Pids : q \in mgr.reserved /\ q \notin mgr'.reserved => q = p /\ proc[p].exited
  <2>1. CASE exec[p].alive /\ p \notin ToSet(mgr.live)
    BY <2>1 DEF ExecReturn, ExecAnswer, CapInv, MgrOK
  <2>2. CASE ~(exec[p].alive /\ p \notin ToSet(mgr.live))
    <3> DEFINE m == IF exec[p].alive THEN Refresh(mgr, p) ELSE Release(mgr, p)
    <3>1. mgr' = [m EXCEPT !.initial = @ \ {p}]
      BY <2>2 DEF ExecReturn, ExecAnswer
    <3>2. exec[p].alive \/ proc[p].exited
      BY <1>1 DEF CapInv, Lifecycle
    <3>3. /\ MgrOK(m) /\ m.reserved \subseteq mgr.reserved
          /\ \A q \in Pids : q \in mgr.reserved /\ q \notin m.reserved => q = p /\ proc[p].exited
      BY <3>2, RefreshFields, ReleaseFields DEF CapInv
    <3> HIDE DEF m
    <3>4. MgrOK(mgr)' /\ mgr'.reserved = m.reserved
      BY <3>1, <3>3 DEF MgrOK, MgrFields
    <3> QED
      BY <3>3, <3>4
  <2> QED
    BY <2>1, <2>2
<1>7. \A q \in Pids : q \in mgr.reserved /\ q \notin mgr'.reserved => proc[q].os # "running"
  BY <1>2, <1>6 DEF CapInv, Lifecycle
<1> QED
  BY <1>1, <1>2, <1>3, <1>4, <1>5, <1>6, <1>7, QuietStep

\* Steps that leave exec_command calls and terminations alone and give back
\* reservations of exited sessions only.
LEMMA TableStep ==
  ASSUME CapInv, UNCHANGED <<nextId, exec, phase>>,
         \A q \in killing' : q \in Pids /\ q < nextId,
         MgrOK(mgr)', mgr'.reserved \subseteq mgr.reserved, ProcOK',
         \A q \in Pids : proc'[q].os = proc[q].os /\ proc'[q].exited = proc[q].exited,
         \A q \in Pids : q \in mgr.reserved /\ q \notin mgr'.reserved => proc[q].exited
  PROVE  CapInv'
<1>1. ExecOK' /\ \A q \in Pids : exec'[q].pc = "collecting" /\ ~exec'[q].alive => proc[q].exited
  BY DEF CapInv, ExecOK, ExecType, Lifecycle
<1>2. \A q \in Pids : q \in mgr.reserved /\ q \notin mgr'.reserved => proc[q].os # "running"
  BY DEF CapInv, Lifecycle
<1> QED
  BY <1>1, <1>2, QuietStep

LEMMA WriteCallStep ==
  ASSUME CapInv, NEW w \in Writers, NEW p \in Pids, NEW k, WriteCall(w, p, k)
  PROVE  CapInv'
<1>1. UNCHANGED <<nextId, exec, phase, killing>> /\ proc' = ReapedProcs(mgr)
  BY DEF WriteCall
<1>2. mgr' = Reap(mgr) \/ mgr' = Consume(Reap(mgr), p)
  BY DEF WriteCall
<1>3. MgrOK(Reap(mgr)) /\ Reap(mgr).reserved = mgr.reserved \ Reapable(mgr)
  BY ReapFields DEF CapInv
<1>4. MgrOK(mgr)' /\ mgr'.reserved = mgr.reserved \ Reapable(mgr)
  <2>1. CASE mgr' = Consume(Reap(mgr), p)
    BY <2>1, <1>3 DEF Consume, MgrOK, MgrFields
  <2> QED
    BY <1>2, <1>3, <2>1
<1>5. \A q \in Pids : q \in mgr.reserved /\ q \notin mgr'.reserved => proc[q].exited
  BY <1>4 DEF Reapable
<1>6. ProcOK' /\ \A q \in Pids : proc'[q].os = proc[q].os /\ proc'[q].exited = proc[q].exited
  BY <1>1, ReapedProcsFields DEF CapInv, ProcOK, ProcType
<1>7. (\A q \in killing' : q \in Pids /\ q < nextId) /\ mgr'.reserved \subseteq mgr.reserved
  BY <1>1, <1>4 DEF CapInv, Lifecycle
<1> QED
  BY <1>1, <1>4, <1>5, <1>6, <1>7, TableStep

LEMMA WriteBeginStep ==
  ASSUME CapInv, NEW w \in Writers, NEW f \in BOOLEAN, WriteBegin(w, f)
  PROVE  CapInv'
<1> DEFINE p == writer[w].pid
<1>1. /\ UNCHANGED <<nextId, exec, phase, killing, proc>>
      /\ f => proc[p].exited
      /\ mgr' = IF f THEN Release(mgr, p) ELSE mgr
  BY DEF WriteBegin
<1> HIDE DEF p
<1>2. /\ MgrOK(mgr)' /\ mgr'.reserved \subseteq mgr.reserved
      /\ \A q \in Pids : q \in mgr.reserved /\ q \notin mgr'.reserved => proc[q].exited
  BY <1>1, ReleaseFields DEF CapInv, MgrOK
<1>3. ProcOK' /\ \A q \in killing' : q \in Pids /\ q < nextId
  BY <1>1 DEF CapInv, ProcOK, ProcType, Lifecycle
<1>4. \A q \in Pids : proc'[q].os = proc[q].os /\ proc'[q].exited = proc[q].exited
  BY <1>1
<1> QED
  BY <1>1, <1>2, <1>3, <1>4, TableStep

\* A caller that drains a session changes nothing of it but the buffer.
LEMMA DrainStep ==
  ASSUME CapInv, NEW p, proc' = Drained(p)
  PROVE  /\ ProcOK'
         /\ \A q \in Pids : proc'[q].os = proc[q].os /\ proc'[q].exited = proc[q].exited
<1>1. CASE p \in Pids
  BY <1>1, DrainedFields DEF CapInv, ProcOK, ProcType
<1>2. CASE p \notin Pids
  BY <1>2 DEF CapInv, ProcOK, ProcType, Drained
<1> QED
  BY <1>1, <1>2

LEMMA WriteDrainStep ==
  ASSUME CapInv, NEW w \in Writers, WriteDrain(w)
  PROVE  CapInv'
<1>1. UNCHANGED <<nextId, mgr, exec, phase, killing>> /\ proc' = Drained(writer[w].pid)
  BY DEF WriteDrain
<1>2. /\ ProcOK'
      /\ \A q \in Pids : proc'[q].os = proc[q].os /\ proc'[q].exited = proc[q].exited
  BY <1>1, DrainStep
<1>3. /\ MgrOK(mgr)' /\ mgr'.reserved \subseteq mgr.reserved
      /\ \A q \in Pids : q \in mgr.reserved /\ q \notin mgr'.reserved => proc[q].exited
      /\ \A q \in killing' : q \in Pids /\ q < nextId
  BY <1>1 DEF CapInv, MgrOK, Lifecycle
<1> QED
  BY <1>1, <1>2, <1>3, TableStep

LEMMA WriteReturnStep ==
  ASSUME CapInv, NEW w \in Writers, WriteReturn(w)
  PROVE  CapInv'
<1> DEFINE p == writer[w].pid
<1>1. /\ UNCHANGED <<nextId, exec, phase, killing>>
      /\ proc' = Drained(p)
      /\ mgr' = mgr \/ mgr' = Refresh(mgr, p)
  BY DEF WriteReturn
<1> HIDE DEF p
<1>2. /\ ProcOK'
      /\ \A q \in Pids : proc'[q].os = proc[q].os /\ proc'[q].exited = proc[q].exited
  BY <1>1, DrainStep
<1>3. /\ MgrOK(mgr)' /\ mgr'.reserved \subseteq mgr.reserved
      /\ \A q \in Pids : q \in mgr.reserved /\ q \notin mgr'.reserved => proc[q].exited
  BY <1>1, RefreshFields DEF CapInv, MgrOK
<1>4. \A q \in killing' : q \in Pids /\ q < nextId
  BY <1>1 DEF CapInv, Lifecycle
<1> QED
  BY <1>1, <1>2, <1>3, <1>4, TableStep

LEMMA QueryStep ==
  ASSUME CapInv, Query
  PROVE  CapInv'
<1>1. /\ UNCHANGED <<nextId, exec, phase, killing>>
      /\ proc' = ReapedProcs(mgr) /\ mgr' = Reap(mgr)
  BY DEF Query
<1>2. /\ ProcOK'
      /\ \A q \in Pids : proc'[q].os = proc[q].os /\ proc'[q].exited = proc[q].exited
  BY <1>1, ReapedProcsFields DEF CapInv, ProcOK, ProcType
<1>3. MgrOK(mgr)' /\ mgr'.reserved = mgr.reserved \ Reapable(mgr)
  BY <1>1, ReapFields DEF CapInv
<1>4. /\ mgr'.reserved \subseteq mgr.reserved
      /\ \A q \in Pids : q \in mgr.reserved /\ q \notin mgr'.reserved => proc[q].exited
      /\ \A q \in killing' : q \in Pids /\ q < nextId
  BY <1>1, <1>3 DEF Reapable, CapInv, Lifecycle
<1> QED
  BY <1>1, <1>2, <1>3, <1>4, TableStep

LEMMA TerminateCallStep ==
  ASSUME CapInv, NEW p \in Pids, TerminateCall(p)
  PROVE  CapInv'
<1>1. UNCHANGED <<nextId, proc, exec, phase>> /\ p \in Ids
  BY DEF TerminateCall
<1>2. /\ ProcOK'
      /\ \A q \in Pids : proc'[q].os = proc[q].os /\ proc'[q].exited = proc[q].exited
  BY <1>1 DEF CapInv, ProcOK, ProcType
<1>3. /\ MgrOK(mgr)' /\ mgr'.reserved \subseteq mgr.reserved
      /\ \A q \in Pids : q \in mgr.reserved /\ q \notin mgr'.reserved => proc[q].exited
  <2>1. CASE proc[p].exited
    BY <2>1, TerminateRowFields DEF TerminateCall, CapInv
  <2>2. CASE ~proc[p].exited
    BY <2>2 DEF TerminateCall, CapInv, MgrOK
  <2> QED
    BY <2>1, <2>2
<1>4. killing' \subseteq killing \union {p}
  BY DEF TerminateCall
<1>5. p < nextId
  BY <1>1 DEF CapInv, Ids
<1>6. \A q \in killing' : q \in Pids /\ q < nextId
  BY <1>4, <1>5 DEF CapInv, Lifecycle
<1> QED
  BY <1>1, <1>2, <1>3, <1>6, TableStep

LEMMA TerminateReturnStep ==
  ASSUME CapInv, NEW p \in Pids, TerminateReturn(p)
  PROVE  CapInv'
<1>1. /\ UNCHANGED <<nextId, exec, phase>>
      /\ p \in killing /\ killing' = killing \ {p}
      /\ proc' = [proc EXCEPT ![p].os = "gone", ![p].exited = TRUE, ![p].closed = TRUE]
      /\ TerminateRow(p)
  BY DEF TerminateReturn
<1>2. /\ ProcOK'
      /\ \A q \in Pids : q # p => proc'[q] = proc[q]
      /\ proc'[p].os = "gone" /\ proc'[p].exited
  <2>1. proc' = [proc EXCEPT ![p].os = "gone", ![p].exited = TRUE, ![p].closed = TRUE]
    BY <1>1
  <2>2. PICK o \in OsStates, yes \in BOOLEAN : o = "gone" /\ yes = TRUE
    BY DEF OsStates
  <2> DEFINE y == [proc[p] EXCEPT !.os = o, !.exited = yes, !.closed = yes]
  <2>3. y \in ProcType /\ y.os = o /\ y.exited = yes
    BY DEF CapInv, ProcOK, ProcType
  <2>4. proc' = [proc EXCEPT ![p] = y]
    BY <2>1, <2>2
  <2> HIDE DEF y
  <2>5. ProcOK' /\ proc'[p] = y /\ \A q \in Pids : q # p => proc'[q] = proc[q]
    BY <2>3, <2>4 DEF CapInv, ProcOK
  <2> QED
    BY <2>2, <2>3, <2>5
<1>3. p < nextId /\ \A q \in killing' : q \in Pids /\ q < nextId
  BY <1>1 DEF CapInv, Lifecycle
<1>4. /\ MgrOK(mgr)' /\ mgr'.reserved \subseteq mgr.reserved
      /\ \A q \in Pids : q \in mgr.reserved /\ q \notin mgr'.reserved => q = p
  BY <1>1, TerminateRowFields DEF CapInv
<1>5. Bounded(mgr)'
  BY <1>4, FewerReserved DEF CapInv, MgrOK, Bounded
<1>6. Holds'
  BY <1>1, <1>2, <1>4 DEF CapInv, Holds
<1>7. Lifecycle'
  <2>1. \A q \in Pids : q >= nextId' => proc'[q].os = "none"
    <3> SUFFICES ASSUME NEW q \in Pids, q >= nextId PROVE proc'[q].os = "none"
      BY <1>1
    <3>1. q # p
      BY <1>3, CallsAssumption DEF CapInv, Pids
    <3> QED
      BY <3>1, <1>2 DEF CapInv, Lifecycle
  <2>2. \A q \in Pids : proc'[q].exited => proc'[q].os = "gone"
    BY <1>2 DEF CapInv, Lifecycle
  <2>3. \A q \in Pids : exec'[q].pc = "collecting" /\ ~exec'[q].alive => proc'[q].exited
    BY <1>1, <1>2 DEF CapInv, Lifecycle
  <2> QED
    BY <1>1, <1>3, <2>1, <2>2, <2>3 DEF Lifecycle
<1>8. ExecOK'
  BY <1>1 DEF CapInv, ExecOK, ExecType
<1> QED
  BY <1>1, <1>2, <1>4, <1>5, <1>6, <1>7, <1>8 DEF CapInv

LEMMA TerminateAllStep ==
  ASSUME CapInv, TerminateAll
  PROVE  CapInv'
<1>1. /\ UNCHANGED <<nextId, proc, exec>> /\ phase' = "stopping"
      /\ killing' = killing \union {p \in Ids : p \in ToSet(mgr.live) /\ ~proc[p].exited}
  BY DEF TerminateAll
<1>2. MgrOK(mgr)' /\ mgr'.reserved = {}
  BY DEF TerminateAll, CapInv, MgrOK, MgrFields
<1>3. killing' \in SUBSET Pids /\ \A q \in killing' : q < nextId
  <2>1. \A q \in Ids : q < nextId
    BY DEF CapInv, Ids
  <2>2. Ids \subseteq Pids
    BY CallsAssumption DEF CapInv, Ids, Pids
  <2> QED
    BY <1>1, <2>1, <2>2 DEF CapInv, Lifecycle
<1>4. Bounded(mgr)'
  BY <1>2, FS_EmptySet, LiveAssumption DEF Bounded
<1>5. Holds' /\ Lifecycle' /\ ProcOK' /\ ExecOK'
  BY <1>1, <1>3 DEF CapInv, Holds, Lifecycle, ProcOK, ProcType, ExecOK, ExecType
<1> QED
  BY <1>1, <1>2, <1>3, <1>4, <1>5 DEF CapInv

\* The operating system and the event loop.
LEMMA WorldStep ==
  ASSUME CapInv, NEW p \in Pids,
         OsExit(p) \/ ExitEvent(p) \/ Data(p) \/ StreamsEnd(p)
  PROVE  CapInv'
<1>1. UNCHANGED <<nextId, mgr, exec, phase>> /\ killing' \subseteq killing
  BY DEF OsExit, ExitEvent, Data, StreamsEnd
<1>11. /\ MgrOK(mgr)' /\ mgr'.reserved \subseteq mgr.reserved
       /\ \A q \in Pids : q \in mgr.reserved /\ q \notin mgr'.reserved => proc[q].exited
       /\ \A q \in killing' : q \in Pids /\ q < nextId
  BY <1>1 DEF CapInv, MgrOK, Lifecycle
<1>2. CASE OsExit(p)
  <2>1. proc' = [proc EXCEPT ![p].os = "gone"] /\ proc[p].os = "running"
    BY <1>2 DEF OsExit
  <2>2. p < nextId
    BY <2>1 DEF CapInv, Lifecycle, Pids
  <2>3. /\ ProcOK' /\ proc'[p].os = "gone" /\ proc'[p].exited = proc[p].exited
        /\ \A q \in Pids : q # p => proc'[q] = proc[q]
    BY <2>1 DEF CapInv, ProcOK, ProcType, OsStates
  <2>4. Lifecycle'
    <3>1. \A q \in Pids : q >= nextId' => proc'[q].os = "none"
      BY <1>1, <2>2, <2>3 DEF CapInv, Lifecycle, Pids
    <3>2. \A q \in Pids : proc'[q].exited => proc'[q].os = "gone"
      BY <2>3 DEF CapInv, Lifecycle
    <3>3. \A q \in Pids : exec'[q].pc = "collecting" /\ ~exec'[q].alive => proc'[q].exited
      BY <1>1, <2>3 DEF CapInv, Lifecycle
    <3>4. \A q \in killing' : q < nextId'
      BY <1>1 DEF CapInv, Lifecycle
    <3> QED
      BY <3>1, <3>2, <3>3, <3>4 DEF Lifecycle
  <2>5. Holds' /\ MgrOK(mgr)' /\ Bounded(mgr)' /\ ExecOK'
    BY <1>1, <2>3 DEF CapInv, Holds, MgrOK, Bounded, ExecOK, ExecType
  <2> QED
    BY <1>1, <2>3, <2>4, <2>5 DEF CapInv
<1>3. CASE ExitEvent(p)
  <2> DEFINE c == proc[p].closed \/ p \in Tty
             d == proc[p].pipe /\ p \notin Tty
  <2>1. /\ proc[p].os = "gone" /\ c \in BOOLEAN /\ d \in BOOLEAN
        /\ proc' = [proc EXCEPT ![p].exited = TRUE, ![p].closed = c, ![p].pipe = d]
    BY <1>3 DEF ExitEvent
  <2> HIDE DEF c, d
  <2>2. /\ ProcOK' /\ proc'[p].os = "gone" /\ proc'[p].exited
        /\ \A q \in Pids : q # p => proc'[q] = proc[q]
    <3>1. PICK yes \in BOOLEAN : yes = TRUE
      OBVIOUS
    <3> DEFINE y == [proc[p] EXCEPT !.exited = yes, !.closed = c, !.pipe = d]
    <3>2. y \in ProcType /\ y.os = proc[p].os /\ y.exited = yes
      BY <2>1 DEF CapInv, ProcOK, ProcType
    <3>3. proc' = [proc EXCEPT ![p] = y]
      BY <2>1, <3>1
    <3> HIDE DEF y
    <3>4. ProcOK' /\ proc'[p] = y /\ \A q \in Pids : q # p => proc'[q] = proc[q]
      BY <3>2, <3>3 DEF CapInv, ProcOK
    <3> QED
      BY <2>1, <3>1, <3>2, <3>4
  <2>3. Lifecycle'
    BY <1>1, <2>1, <2>2 DEF CapInv, Lifecycle
  <2>4. Holds' /\ MgrOK(mgr)' /\ Bounded(mgr)' /\ ExecOK'
    BY <1>1, <2>2 DEF CapInv, Holds, MgrOK, Bounded, ExecOK, ExecType
  <2> QED
    BY <1>1, <2>2, <2>3, <2>4 DEF CapInv
<1>4. CASE Data(p)
  <2>1. /\ proc' = [proc EXCEPT ![p].arrived = @ + 1, ![p].buf = @ \union {proc[p].arrived + 1}]
        /\ proc[p].arrived < MaxChunks
    BY <1>4 DEF Data
  <2>2. proc[p].arrived + 1 \in 0..MaxChunks /\ proc[p].arrived + 1 \in Chunks
    BY <2>1, SizeAssumption DEF CapInv, ProcOK, ProcType, Chunks
  <2>3. /\ ProcOK'
        /\ \A q \in Pids : proc'[q].os = proc[q].os /\ proc'[q].exited = proc[q].exited
    <3> DEFINE n == proc[p].arrived + 1
               b == proc[p].buf \union {n}
               y == [proc[p] EXCEPT !.arrived = n, !.buf = b]
    <3>1. n \in 0..MaxChunks /\ b \in SUBSET Chunks
      BY <2>2 DEF CapInv, ProcOK, ProcType
    <3>2. proc' = [proc EXCEPT ![p] = y]
      BY <2>1
    <3> HIDE DEF n, b
    <3>3. y \in ProcType /\ y.os = proc[p].os /\ y.exited = proc[p].exited
      BY <3>1 DEF CapInv, ProcOK, ProcType
    <3> HIDE DEF y
    <3>4. ProcOK' /\ proc'[p] = y /\ \A q \in Pids : q # p => proc'[q] = proc[q]
      BY <3>2, <3>3 DEF CapInv, ProcOK
    <3> QED
      BY <3>3, <3>4
  <2> QED
    BY <1>1, <1>11, <2>3, TableStep
<1>5. CASE StreamsEnd(p)
  <2>1. proc' = [proc EXCEPT ![p].pipe = FALSE, ![p].closed = TRUE]
    BY <1>5 DEF StreamsEnd
  <2>2. /\ ProcOK'
        /\ \A q \in Pids : proc'[q].os = proc[q].os /\ proc'[q].exited = proc[q].exited
    <3>1. PICK no \in BOOLEAN, yes \in BOOLEAN : no = FALSE /\ yes = TRUE
      OBVIOUS
    <3> DEFINE y == [proc[p] EXCEPT !.pipe = no, !.closed = yes]
    <3>2. y \in ProcType /\ y.os = proc[p].os /\ y.exited = proc[p].exited
      BY DEF CapInv, ProcOK, ProcType
    <3>3. proc' = [proc EXCEPT ![p] = y]
      BY <2>1, <3>1
    <3> HIDE DEF y
    <3> QED
      BY <3>2, <3>3 DEF CapInv, ProcOK
  <2> QED
    BY <1>1, <1>11, <2>2, TableStep
<1> QED
  BY <1>2, <1>3, <1>4, <1>5

\* Steps of callers and of the shutdown that leave all of it alone, and stuttering.
LEMMA OtherStep ==
  ASSUME CapInv, UNCHANGED <<nextId, mgr, proc, exec, killing>>,
         phase' = "up" => phase = "up"
  PROVE  CapInv'
BY DEF CapInv, MgrOK, ProcOK, ProcType, ExecOK, ExecType, Bounded, Lifecycle, Holds

-----------------------------------------------------------------------------
\* Every state of the session manager satisfies the reservation invariant.
THEOREM CapacityInvariant == Spec => []CapInv
<1>1. Init => CapInv
  BY CapInit
<1>2. CapInv /\ [Next]_vars => CapInv'
  <2> SUFFICES ASSUME CapInv, [Next]_vars PROVE CapInv'
    OBVIOUS
  <2>1. CASE \E a \in {"running", "unspawnable"} : ExecCall(a)
    BY <2>1, ExecCallStep
  <2>2. CASE \E p \in Pids : SpawnReturn(p) \/ ExecDrain(p) \/ ExecReturn(p)
    BY <2>2, SpawnReturnStep, ExecDrainStep, ExecReturnStep
  <2>3. CASE \E p \in Pids : TerminateCall(p) \/ TerminateReturn(p)
    BY <2>3, TerminateCallStep, TerminateReturnStep
  <2>4. CASE \E p \in Pids : OsExit(p) \/ ExitEvent(p) \/ Data(p) \/ StreamsEnd(p)
    BY <2>4, WorldStep
  <2>5. CASE \E w \in Writers, p \in Pids, k \in {"poll", "input"} : WriteCall(w, p, k)
    BY <2>5, WriteCallStep
  <2>6. CASE \E w \in Writers : WriteRejected(w)
    BY <2>6, OtherStep DEF WriteRejected
  <2>7. CASE \E w \in Writers, f \in BOOLEAN : WriteBegin(w, f)
    BY <2>7, WriteBeginStep
  <2>8. CASE \E w \in Writers : WriteDrain(w) \/ WriteReturn(w)
    BY <2>8, WriteDrainStep, WriteReturnStep
  <2>9. CASE Query
    BY <2>9, QueryStep
  <2>10. CASE TerminateAll
    BY <2>10, TerminateAllStep
  <2>11. CASE TerminateAllReturn
    BY <2>11, OtherStep DEF TerminateAllReturn
  <2>12. CASE UNCHANGED vars
    BY <2>12, OtherStep DEF vars
  <2> QED
    BY <2>1, <2>2, <2>3, <2>4, <2>5, <2>6, <2>7, <2>8, <2>9, <2>10, <2>11, <2>12 DEF Next
<1> QED
  BY <1>1, <1>2, PTL DEF Spec

\* Concurrent exec_command calls never start more processes than the safety
\* limit of ensureProcessCapacity, for every limit and any number of calls.
THEOREM CapacityHolds == Spec => []LiveWithinCapacity
<1>1. CapInv => LiveWithinCapacity
  <2> SUFFICES ASSUME CapInv, phase = "up"
               PROVE  Cardinality({p \in Pids : proc[p].os = "running"}) <= MaxLive
    BY DEF LiveWithinCapacity
  <2>1. {p \in Pids : proc[p].os = "running"} \subseteq mgr.reserved
    BY DEF CapInv, Holds
  <2> QED
    BY <2>1, FewerReserved DEF CapInv, MgrOK, Bounded
<1> QED
  BY <1>1, CapacityInvariant, PTL

-----------------------------------------------------------------------------
(* What every state is made of.                                            *)

MgrType == [live : Seq(Pids), initial : SUBSET Pids, reserved : SUBSET Pids, completed : Seq(Pids),
            retained : [Pids -> SUBSET Chunks], bytes : Nat]
WriterType == [pc : {"idle", "locking", "collecting"}, pid : Pids \union {0}, kind : {"poll", "input"}, exited : BOOLEAN,
               got : SUBSET Chunks]

Live(m, p) == p \in ToSet(m.live)
Kept(m, p) == p \in ToSet(m.completed)
Polling(p) == UNION {writer[w].got : w \in {v \in Writers : writer[v].pid = p}}

(* A session that its exec_command has not stored yet is in no table, and  *)
(* one being spawned has its id.                                           *)
Started(m, P, p) ==
  /\ exec[p].pc \in {"none", "spawning"} => exec[p].alive = FALSE /\ ~Live(m, p) /\ ~Kept(m, p) /\ lockQ[p] = <<>>
  /\ exec[p].pc = "none" => P[p].os = "none" /\ P[p].pipe = FALSE /\ P[p].closed = FALSE /\ P[p].arrived = 0
  /\ exec[p].pc = "spawning" /\ phase = "up" => p \in m.reserved
  /\ exec[p].pc # "collecting" => exec[p].got = {}
  /\ exec[p].pc # "done" => execOut[p] = {}
(* What the tables say of a session; a completed one is at rest.           *)
Rows(m, P, p) ==
  /\ ~(Live(m, p) /\ Kept(m, p))
  /\ p \in m.initial <=> Live(m, p) /\ exec[p].pc = "collecting"
  /\ Live(m, p) => exec[p].alive = TRUE /\ (phase = "up" => p \in m.reserved)
  /\ Kept(m, p) => /\ p \notin m.reserved /\ P[p].buf = {} /\ P[p].pipe = FALSE /\ lockQ[p] = <<>> /\ exec[p].pc = "done"
  /\ ~Kept(m, p) => m.retained[p] = {}
(* Once a session that may be reaped is closed, nothing arrives any more.  *)
Closing(m, P, p) ==
  /\ P[p].closed = TRUE => P[p].pipe = FALSE \/ P[p].exited = TRUE
  /\ Live(m, p) /\ p \notin m.initial /\ P[p].exited = TRUE /\ P[p].closed = TRUE => P[p].pipe = FALSE
(* Where the output of a session is: e is what its exec_command has in     *)
(* hand, l what its polls have, b its buffer, r the completed cache, x and *)
(* q what both have returned.  Each of the n chunks is in one place; what  *)
(* polls returned comes before what they have in hand, and that before     *)
(* what is still in the buffer.                                            *)
Apart(e, l, b, r, x, q, n) ==
  /\ (b \union r) \union (e \union l) \union (x \union q) \subseteq 1..n
  /\ x \intersect q = {} /\ e \intersect l = {} /\ b \intersect r = {}
  /\ (x \union q) \intersect (e \union l) = {}
  /\ ((x \union q) \union (e \union l)) \intersect (b \union r) = {}
  /\ \A c \in q, d \in (b \union r) \union l : c < d
  /\ \A c \in l, d \in b : c < d
(* While a session has a row, or is about to get one, everything that      *)
(* arrived is somewhere.                                                   *)
Open(m, p) == Live(m, p) \/ exec[p].pc \in {"none", "spawning"}
Whole(e, l, b, r, x, q, n, open, kept) ==
  /\ open => 1..n \subseteq b \union (e \union l) \union (x \union q)
  /\ kept => r = {} \/ 1..n \subseteq r \union (x \union q)
Output(m, P, p) ==
  /\ Apart(exec[p].got, Polling(p), P[p].buf, m.retained[p], execOut[p], Polled(p), P[p].arrived)
  /\ Whole(exec[p].got, Polling(p), P[p].buf, m.retained[p], execOut[p], Polled(p), P[p].arrived, Open(m, p), Kept(m, p))
(* The responses to the polls of one session. *)
Ordered(log) == \A i, j \in DOMAIN log : i < j => \A c \in log[i], d \in log[j] : c < d
(* The end of a session that was left running is reported or to be found.  *)
Reported(m, p) ==
  phase = "up" /\ exec[p].alive = TRUE /\ p \notin over =>
    Live(m, p) \/ Kept(m, p) \/ \E w \in Writers : writer[w].pid = p /\ writer[w].exited = TRUE
Session(m, P, p) ==
  Started(m, P, p) /\ Rows(m, P, p) /\ Closing(m, P, p) /\ Output(m, P, p) /\ Ordered(pollLog[p]) /\ Reported(m, p)

(* The interaction lock of a session: its callers are those that queue on  *)
(* it, and who collects is the first.                                      *)
Waiting(w) ==
  /\ writer[w].pc = "idle" => writer[w] = IdleWriter
  /\ writer[w].pc # "idle" => writer[w].pid \in Pids /\ w \in ToSet(lockQ[writer[w].pid])
  /\ writer[w].pc = "locking" => writer[w].got = {} /\ writer[w].exited = FALSE
  /\ writer[w].pc = "collecting" => HoldsLock(w, writer[w].pid)
Queue(p) ==
  /\ \A i \in DOMAIN lockQ[p] : writer[lockQ[p][i]].pid = p
  /\ \A i, j \in DOMAIN lockQ[p] : lockQ[p][i] = lockQ[p][j] => i = j

(* The counter of the completed output is exact and within its budget. *)
Counted(m) == m.bytes = Bytes(m.retained, ToSet(m.completed))

Rest ==
  /\ nextId \in 1..(MaxCalls + 1) /\ killing \in SUBSET Pids /\ phase \in {"up", "stopping", "down"} /\ over \in SUBSET Pids
  /\ exec \in [Pids -> ExecType] /\ writer \in [Writers -> WriterType] /\ lockQ \in [Pids -> Seq(Writers)]
  /\ pollLog \in [Pids -> Seq(SUBSET Chunks)] /\ execOut \in [Pids -> SUBSET Chunks]
  /\ \A p \in Pids : exec[p].pc = "none" <=> p >= nextId
  /\ \A p \in killing : exec[p].pc # "none"
  /\ \A w \in Writers : Waiting(w)
  /\ \A p \in Pids : Queue(p)
(* The invariant, for a manager's record and sessions that may be those in *)
(* the middle of a step.                                                   *)
Good(m, P) ==
  /\ m \in MgrType /\ P \in [Pids -> ProcType]
  /\ \A p \in Pids : Session(m, P, p)
  /\ Counted(m) /\ m.bytes <= Budget
ExecInv == Rest /\ Good(mgr, proc)
-----------------------------------------------------------------------------
(* Helpers on sequences and numbers.                                       *)

(* A set of numbers with 0, and with the next of each, has them all.       *)
LEMMA AllNumbers ==
  ASSUME NEW S \in SUBSET Nat, 0 \in S, \A n \in S : n + 1 \in S
  PROVE  S = Nat
<1> SUFFICES ASSUME Nat \ S # {} PROVE FALSE
  OBVIOUS
<1>1. IsWellFoundedOn(OpToRel(<, Nat), Nat)
  BY NatLessThanWellFounded
<1>2. PICK n \in Nat \ S : \A k \in Nat \ S : ~(<<k, n>> \in OpToRel(<, Nat))
  BY <1>1, WFMin
<1>3. \A k \in Nat \ S : ~(k < n)
  BY <1>2 DEF OpToRel
<1>4. n # 0
  OBVIOUS
<1>5. n - 1 \in Nat /\ n - 1 < n /\ (n - 1) + 1 = n
  BY <1>4
<1>6. n - 1 \in S
  BY <1>3, <1>5
<1> QED
  BY <1>5, <1>6

LEMMA LeastIn ==
  ASSUME NEW S \in SUBSET Nat, S # {}
  PROVE  Min(S) \in S
<1>1. IsWellFoundedOn(OpToRel(<, Nat), Nat)
  BY NatLessThanWellFounded
<1>2. PICK n \in S : \A k \in S : ~(<<k, n>> \in OpToRel(<, Nat))
  BY <1>1, WFMin
<1>3. \A k \in S : n <= k
  <2> TAKE k \in S
  <2>1. ~(k < n) /\ k \in Nat /\ n \in Nat
    BY <1>2 DEF OpToRel
  <2> QED
    BY <2>1
<1> QED
  BY <1>2, <1>3 DEF Min

Filtered(keys, S, n, f) ==
  f = [i \in 0..n |-> IF i = 0 THEN <<>> ELSE IF keys[i] \in S THEN f[i - 1] ELSE Append(f[i - 1], keys[i])]

LEMMA FilteredExists ==
  ASSUME NEW keys, NEW S
  PROVE  \A n \in Nat : \E f : Filtered(keys, S, n, f)
<1> DEFINE Has == {n \in Nat : \E f : Filtered(keys, S, n, f)}
<1>1. 0 \in Has
  <2> DEFINE f == [i \in 0..0 |-> <<>>]
  <2>1. Filtered(keys, S, 0, f)
    BY DEF Filtered
  <2> QED
    BY <2>1
<1>2. ASSUME NEW n \in Has PROVE n + 1 \in Has
  <2>1. PICK f : Filtered(keys, S, n, f)
    OBVIOUS
  <2> DEFINE e == IF keys[n + 1] \in S THEN f[n] ELSE Append(f[n], keys[n + 1])
             g == [i \in 0..(n + 1) |-> IF i = n + 1 THEN e ELSE f[i]]
  <2>2. \A i \in 0..n : f[i] = IF i = 0 THEN <<>> ELSE IF keys[i] \in S THEN f[i - 1] ELSE Append(f[i - 1], keys[i])
    BY <2>1 DEF Filtered
  <2>3. \A i \in 0..(n + 1) : i # 0 => i - 1 \in 0..n /\ g[i - 1] = f[i - 1]
    OBVIOUS
  <2>4. \A i \in 0..(n + 1) : g[i] = IF i = 0 THEN <<>> ELSE IF keys[i] \in S THEN g[i - 1] ELSE Append(g[i - 1], keys[i])
    <3> TAKE i \in 0..(n + 1)
    <3>1. CASE i = n + 1
      BY <2>3, <3>1
    <3>2. CASE i # n + 1
      BY <2>2, <2>3, <3>2
    <3> QED
      BY <3>1, <3>2
  <2> HIDE DEF e
  <2>5. g = [i \in 0..(n + 1) |-> g[i]]
    OBVIOUS
  <2> HIDE DEF g
  <2>6. Filtered(keys, S, n + 1, g)
    BY <2>4, <2>5 DEF Filtered
  <2> QED
    BY <2>6
<1> HIDE DEF Has
<1>3. Has = Nat
  BY <1>1, <1>2, AllNumbers DEF Has
<1> QED
  BY <1>3 DEF Has

LEMMA Appended ==
  ASSUME NEW T, NEW q \in Seq(T), NEW e \in T
  PROVE  /\ Append(q, e) \in Seq(T) /\ ToSet(Append(q, e)) = ToSet(q) \union {e}
         /\ DOMAIN Append(q, e) = DOMAIN q \union {Len(q) + 1} /\ Len(q) + 1 \notin DOMAIN q
         /\ Append(q, e)[Len(q) + 1] = e /\ \A i \in DOMAIN q : Append(q, e)[i] = q[i]
<1>1. /\ Append(q, e) \in Seq(T) /\ DOMAIN Append(q, e) = 1..(Len(q) + 1) /\ DOMAIN q = 1..Len(q) /\ Len(q) \in Nat
      /\ Append(q, e)[Len(q) + 1] = e /\ \A i \in DOMAIN q : Append(q, e)[i] = q[i]
  OBVIOUS
<1>2. DOMAIN Append(q, e) = DOMAIN q \union {Len(q) + 1} /\ Len(q) + 1 \notin DOMAIN q
  BY <1>1
<1>3. ToSet(Append(q, e)) = ToSet(q) \union {e}
  BY <1>1, <1>2 DEF ToSet
<1> QED
  BY <1>1, <1>2, <1>3

(* What is left of a map when keys are taken out of it.                    *)
LEMMA WithoutIs ==
  ASSUME NEW T, NEW keys \in Seq(T), NEW S
  PROVE  Without(keys, S) \in Seq(T) /\ ToSet(Without(keys, S)) = ToSet(keys) \ S
<1> DEFINE n == Len(keys)
           f == CHOOSE g : Filtered(keys, S, n, g)
           Keys(i) == {keys[k] : k \in 1..i}
           Right == {i \in Nat : i <= n => f[i] \in Seq(T) /\ ToSet(f[i]) = Keys(i) \ S}
<1>1. n \in Nat /\ DOMAIN keys = 1..n /\ \A i \in 1..n : keys[i] \in T
  OBVIOUS
<1>2. Without(keys, S) = f[n]
  BY DEF Without, Filtered
<1> HIDE DEF n
<1>3. Filtered(keys, S, n, f)
  BY <1>1, FilteredExists
<1> HIDE DEF f
<1>4. \A i \in 0..n : f[i] = IF i = 0 THEN <<>> ELSE IF keys[i] \in S THEN f[i - 1] ELSE Append(f[i - 1], keys[i])
  BY <1>3 DEF Filtered
<1>5. 0 \in Right
  <2>1. f[0] = <<>>
    BY <1>1, <1>4
  <2>2. <<>> \in Seq(T) /\ ToSet(<<>>) = {}
    BY DEF ToSet
  <2>3. Keys(0) = {}
    OBVIOUS
  <2> QED
    BY <2>1, <2>2, <2>3
<1>6. ASSUME NEW i \in Right PROVE i + 1 \in Right
  <2> SUFFICES ASSUME i + 1 <= n PROVE f[i + 1] \in Seq(T) /\ ToSet(f[i + 1]) = Keys(i + 1) \ S
    OBVIOUS
  <2>1. i \in Nat /\ i <= n /\ i + 1 \in 1..n /\ i + 1 \in 0..n /\ (i + 1) - 1 = i /\ i + 1 # 0
    BY <1>1
  <2>2. f[i] \in Seq(T) /\ ToSet(f[i]) = Keys(i) \ S
    BY <2>1
  <2>3. PICK e \in T : e = keys[i + 1]
    BY <1>1, <2>1
  <2>4. Keys(i + 1) = Keys(i) \union {e}
    <3>1. 1..(i + 1) = (1..i) \union {i + 1}
      BY <2>1
    <3> QED
      BY <2>3, <3>1
  <2>5. f[i + 1] = IF e \in S THEN f[i] ELSE Append(f[i], e)
    BY <1>4, <2>1, <2>3
  <2> HIDE DEF Keys
  <2>6. ToSet(Append(f[i], e)) = ToSet(f[i]) \union {e} /\ Append(f[i], e) \in Seq(T)
    BY <2>2, Appended
  <2> QED
    BY <2>2, <2>4, <2>5, <2>6
<1> HIDE DEF Keys
<1>7. Right \in SUBSET Nat
  OBVIOUS
<1> HIDE DEF Right
<1>8. Right = Nat
  BY <1>5, <1>6, <1>7, AllNumbers
<1>9. f[n] \in Seq(T) /\ ToSet(f[n]) = Keys(n) \ S
  BY <1>1, <1>8 DEF Right
<1>10. Keys(n) = ToSet(keys)
  BY <1>1 DEF Keys, ToSet
<1> QED
  BY <1>2, <1>9, <1>10

(* The first caller leaves a queue in which nobody is twice.               *)
LEMMA FirstLeaves ==
  ASSUME NEW T, NEW q \in Seq(T), q # <<>>, \A i, j \in DOMAIN q : q[i] = q[j] => i = j
  PROVE  /\ Tail(q) \in Seq(T) /\ ToSet(Tail(q)) = ToSet(q) \ {Head(q)} /\ Head(q) \in T
         /\ \A i, j \in DOMAIN Tail(q) : Tail(q)[i] = Tail(q)[j] => i = j
<1>1. /\ Len(q) \in Nat \ {0} /\ Head(q) = q[1] /\ DOMAIN q = 1..Len(q) /\ Tail(q) \in Seq(T)
      /\ DOMAIN Tail(q) = 1..(Len(q) - 1) /\ \A i \in 1..(Len(q) - 1) : Tail(q)[i] = q[i + 1]
  OBVIOUS
<1>2. ToSet(Tail(q)) = {q[i] : i \in 2..Len(q)}
  <2>1. \A i \in 2..Len(q) : i - 1 \in 1..(Len(q) - 1) /\ (i - 1) + 1 = i
    BY <1>1
  <2>2. \A i \in 1..(Len(q) - 1) : i + 1 \in 2..Len(q)
    BY <1>1
  <2>3. \A x : x \in ToSet(Tail(q)) => \E i \in 2..Len(q) : x = q[i]
    BY <1>1, <2>2 DEF ToSet
  <2>4. \A i \in 2..Len(q) : q[i] = Tail(q)[i - 1] /\ i - 1 \in DOMAIN Tail(q)
    BY <1>1, <2>1
  <2>5. \A i \in 2..Len(q) : q[i] \in ToSet(Tail(q))
    BY <2>4 DEF ToSet
  <2> QED
    BY <2>3, <2>5
<1>3. {q[i] : i \in 2..Len(q)} = ToSet(q) \ {q[1]}
  <2>1. \A i \in 1..Len(q) : i = 1 \/ i \in 2..Len(q)
    BY <1>1
  <2>2. \A i \in 2..Len(q) : i \in DOMAIN q /\ i # 1 /\ 1 \in DOMAIN q
    BY <1>1
  <2> QED
    BY <1>1, <2>1, <2>2 DEF ToSet
<1>4. \A i, j \in DOMAIN Tail(q) : Tail(q)[i] = Tail(q)[j] => i = j
  <2>1. \A i \in DOMAIN Tail(q) : i + 1 \in DOMAIN q /\ Tail(q)[i] = q[i + 1] /\ i \in Int
    BY <1>1
  <2>2. ASSUME NEW i \in DOMAIN Tail(q), NEW j \in DOMAIN Tail(q), Tail(q)[i] = Tail(q)[j] PROVE i = j
    <3>1. i + 1 = j + 1
      BY <2>1, <2>2
    <3> QED
      BY <2>1, <3>1
  <2> QED
    BY <2>2
<1> QED
  BY <1>1, <1>2, <1>3, <1>4

-----------------------------------------------------------------------------
(* The byte counts.                                                        *)

Held(buffer, S) == {x \in S \X Chunks : x[2] \in buffer[x[1]]}

LEMMA HeldFinite ==
  ASSUME NEW buffer, NEW S \in SUBSET Pids
  PROVE  IsFiniteSet(Held(buffer, S)) /\ Bytes(buffer, S) = Cardinality(Held(buffer, S)) /\ Bytes(buffer, S) \in Nat
<1>1. IsFiniteSet(Pids) /\ IsFiniteSet(Chunks)
  BY FS_Interval, CallsAssumption, SizeAssumption DEF Pids, Chunks
<1>2. IsFiniteSet(S)
  BY <1>1, FS_Subset
<1>3. IsFiniteSet(S \X Chunks)
  BY <1>1, <1>2, FS_Product
<1>4. IsFiniteSet(Held(buffer, S))
  BY <1>3, FS_Subset DEF Held
<1>5. Bytes(buffer, S) = Cardinality(Held(buffer, S))
  BY DEF Bytes, Held
<1> QED
  BY <1>4, <1>5, FS_CardinalityType

(* Two buffers that agree on the sessions of S hold the same there. *)
LEMMA BytesSame ==
  ASSUME NEW b, NEW c, NEW S, \A p \in S : b[p] = c[p]
  PROVE  Bytes(b, S) = Bytes(c, S)
<1>1. Held(b, S) = Held(c, S)
  BY DEF Held
<1> QED
  BY <1>1 DEF Bytes, Held

LEMMA BytesNone ==
  ASSUME NEW b, NEW S, \A p \in S : b[p] = {}
  PROVE  Bytes(b, S) = 0
<1>1. Held(b, S) = {}
  BY DEF Held
<1> QED
  BY <1>1, FS_EmptySet DEF Bytes, Held

LEMMA BytesUnion ==
  ASSUME NEW b, NEW S \in SUBSET Pids, NEW T \in SUBSET Pids, S \intersect T = {}
  PROVE  Bytes(b, S \union T) = Bytes(b, S) + Bytes(b, T)
<1>1. Held(b, S \union T) = Held(b, S) \union Held(b, T)
  BY DEF Held
<1>2. Held(b, S) \intersect Held(b, T) = {}
  <2> SUFFICES ASSUME NEW x \in Held(b, S), x \in Held(b, T) PROVE FALSE
    OBVIOUS
  <2>1. x[1] \in S /\ x[1] \in T
    BY DEF Held
  <2> QED
    BY <2>1
<1>3. S \union T \in SUBSET Pids
  OBVIOUS
<1>4. IsFiniteSet(Held(b, S)) /\ IsFiniteSet(Held(b, T))
  BY HeldFinite
<1>5. /\ Bytes(b, S \union T) = Cardinality(Held(b, S \union T))
      /\ Bytes(b, S) = Cardinality(Held(b, S)) /\ Bytes(b, T) = Cardinality(Held(b, T))
  BY DEF Bytes, Held
<1>6. Cardinality(Held(b, S)) \in Nat /\ Cardinality(Held(b, T)) \in Nat
  BY <1>4, FS_CardinalityType
<1>7. Cardinality({}) = 0
  BY FS_EmptySet
<1> DEFINE A == Held(b, S)
           B == Held(b, T)
<1> HIDE DEF A, B
<1>8. Cardinality(A \union B) = Cardinality(A) + Cardinality(B) - Cardinality(A \intersect B)
  BY <1>4, FS_Union DEF A, B
<1>9. Cardinality(A \union B) = Cardinality(A) + Cardinality(B)
  <2>1. A \intersect B = {}
    BY <1>2 DEF A, B
  <2>2. Cardinality(A \intersect B) = 0
    BY <2>1, <1>7
  <2>3. Cardinality(A) \in Nat /\ Cardinality(B) \in Nat
    BY <1>6 DEF A, B
  <2> QED
    BY <2>2, <2>3, <1>8
<1> QED
  BY <1>1, <1>5, <1>9 DEF A, B

LEMMA BytesOne ==
  ASSUME NEW b, NEW p \in Pids, b[p] \in SUBSET Chunks
  PROVE  Bytes(b, {p}) = Cardinality(b[p])
<1> DEFINE s == {p}
           H == Held(b, s)
<1>1. H = s \X b[p]
  <2>1. \A x \in H : x[1] = p /\ x[2] \in b[p] /\ x = <<x[1], x[2]>>
    BY DEF Held
  <2>2. \A x \in H : x \in s \X b[p]
    BY <2>1
  <2>3. \A x \in s \X b[p] : x \in H
    BY DEF Held
  <2> HIDE DEF H, s
  <2> QED
    BY <2>2, <2>3
<1>2. IsFiniteSet(Chunks)
  BY FS_Interval, SizeAssumption DEF Chunks
<1>3. IsFiniteSet(b[p])
  BY <1>2, FS_Subset
<1>4. IsFiniteSet(s) /\ Cardinality(s) = 1
  BY FS_Singleton
<1> DEFINE c == b[p]
<1>5. Cardinality(s \X c) = Cardinality(s) * Cardinality(c) /\ Cardinality(c) \in Nat
  <2> HIDE DEF s, c
  <2> QED
    BY <1>3, <1>4, FS_Product, FS_CardinalityType DEF c
<1>6. Cardinality(H) = Cardinality(c)
  <2>1. Cardinality(H) = 1 * Cardinality(c)
    BY <1>1, <1>4, <1>5
  <2> HIDE DEF H, c
  <2> QED
    BY <2>1, <1>5
<1> QED
  BY <1>6 DEF Bytes, Held

-----------------------------------------------------------------------------
(* The helpers of the manager.                                             *)

LEMMA JoinedIs ==
  ASSUME NEW T, NEW s \in Seq(T), NEW d \in Seq(T)
  PROVE  s \o d \in Seq(T) /\ ToSet(s \o d) = ToSet(s) \union ToSet(d)
<1>1. /\ s \o d \in Seq(T) /\ Len(s) \in Nat /\ Len(d) \in Nat /\ Len(s \o d) = Len(s) + Len(d)
      /\ DOMAIN s = 1..Len(s) /\ DOMAIN d = 1..Len(d) /\ DOMAIN (s \o d) = 1..(Len(s) + Len(d))
      /\ \A i \in 1..(Len(s) + Len(d)) : (s \o d)[i] = IF i <= Len(s) THEN s[i] ELSE d[i - Len(s)]
  OBVIOUS
<1>2. \A i \in 1..(Len(s) + Len(d)) : i \in 1..Len(s) \/ i - Len(s) \in 1..Len(d)
  BY <1>1
<1>3. \A i \in 1..Len(s) : i \in 1..(Len(s) + Len(d)) /\ (s \o d)[i] = s[i]
  BY <1>1
<1>4. \A i \in 1..Len(d) : i + Len(s) \in 1..(Len(s) + Len(d)) /\ (s \o d)[i + Len(s)] = d[i]
  BY <1>1
<1>5. ToSet(s \o d) \subseteq ToSet(s) \union ToSet(d)
  BY <1>1, <1>2 DEF ToSet
<1>6. ToSet(s) \subseteq ToSet(s \o d)
  BY <1>1, <1>3 DEF ToSet
<1>7. ToSet(d) \subseteq ToSet(s \o d)
  BY <1>1, <1>4 DEF ToSet
<1> QED
  BY <1>1, <1>5, <1>6, <1>7

LEMMA RowsOf ==
  ASSUME NEW m \in MgrType
  PROVE  ToSet(m.live) \in SUBSET Pids /\ ToSet(m.completed) \in SUBSET Pids
BY DEF MgrType, ToSet

LEMMA ReleaseIs ==
  ASSUME NEW m \in MgrType, NEW p
  PROVE  /\ Release(m, p) \in MgrType
         /\ Release(m, p).reserved = m.reserved \ {p} /\ Release(m, p).initial = m.initial \ {p}
         /\ ToSet(Release(m, p).live) = ToSet(m.live) \ {p} /\ Release(m, p).completed = m.completed
         /\ Release(m, p).retained = m.retained /\ Release(m, p).bytes = m.bytes
<1> DEFINE k == Without(m.live, {p})
           y == Release(m, p)
<1>1. m.live \in Seq(Pids)
  BY DEF MgrType
<1>2. k \in Seq(Pids) /\ ToSet(k) = ToSet(m.live) \ {p}
  BY <1>1, WithoutIs
<1>3. y = [m EXCEPT !.reserved = @ \ {p}, !.initial = @ \ {p}, !.live = k]
  BY DEF Release
<1> HIDE DEF k, y
<1>4. /\ y \in MgrType /\ y.reserved = m.reserved \ {p} /\ y.initial = m.initial \ {p} /\ y.live = k
      /\ y.completed = m.completed /\ y.retained = m.retained /\ y.bytes = m.bytes
  BY <1>2, <1>3 DEF MgrType
<1> QED
  BY <1>2, <1>4 DEF y

LEMMA ConsumeIs ==
  ASSUME NEW m \in MgrType, NEW p \in Pids, Kept(m, p), Counted(m)
  PROVE  /\ Consume(m, p) \in MgrType /\ Counted(Consume(m, p)) /\ Consume(m, p).bytes <= m.bytes
         /\ Consume(m, p).live = m.live /\ Consume(m, p).initial = m.initial /\ Consume(m, p).reserved = m.reserved
         /\ ToSet(Consume(m, p).completed) = ToSet(m.completed) \ {p}
         /\ \A q \in Pids : Consume(m, p).retained[q] = IF q = p THEN {} ELSE m.retained[q]
<1> DEFINE S == ToSet(m.completed)
           k == Without(m.completed, {p})
           z == Cardinality(m.retained[p])
           r == [m.retained EXCEPT ![p] = {}]
           y == Consume(m, p)
<1>1. m.completed \in Seq(Pids) /\ m.retained \in [Pids -> SUBSET Chunks] /\ m.bytes \in Nat
  BY DEF MgrType
<1>2. k \in Seq(Pids) /\ ToSet(k) = S \ {p}
  BY <1>1, WithoutIs
<1>3. S \in SUBSET Pids /\ p \in S /\ S \ {p} \in SUBSET Pids /\ {p} \in SUBSET Pids /\ (S \ {p}) \intersect {p} = {}
  BY RowsOf DEF Kept
<1>4. Bytes(m.retained, (S \ {p}) \union {p}) = Bytes(m.retained, S \ {p}) + Bytes(m.retained, {p})
  <2> DEFINE A == S \ {p}
             B == {p}
  <2> HIDE DEF A, B, S
  <2>1. A \in SUBSET Pids /\ B \in SUBSET Pids /\ A \intersect B = {}
    BY <1>3 DEF A, B
  <2>2. Bytes(m.retained, A \union B) = Bytes(m.retained, A) + Bytes(m.retained, B)
    BY <2>1, BytesUnion
  <2> QED
    BY <2>2 DEF A, B
<1>5. (S \ {p}) \union {p} = S
  BY <1>3
<1>6. m.retained[p] \in SUBSET Chunks
  BY <1>1
<1>7. Bytes(m.retained, {p}) = z
  BY <1>6, BytesOne
<1>8. Bytes(m.retained, S \ {p}) \in Nat /\ Bytes(m.retained, {p}) \in Nat
  BY <1>3, HeldFinite
<1>9. m.bytes = Bytes(m.retained, S)
  BY DEF Counted
<1>10. m.bytes - z = Bytes(m.retained, S \ {p}) /\ m.bytes - z \in Nat /\ m.bytes - z <= m.bytes
  <2> HIDE DEF S, z
  <2>1. PICK a \in Nat : a = Bytes(m.retained, S \ {p})
    BY <1>8
  <2>2. z \in Nat /\ m.bytes = a + z
    BY <1>4, <1>5, <1>7, <1>8, <1>9, <2>1
  <2> QED
    BY <2>1, <2>2
<1>11. r \in [Pids -> SUBSET Chunks] /\ \A q \in Pids : r[q] = IF q = p THEN {} ELSE m.retained[q]
  BY <1>1
<1>12. Bytes(r, S \ {p}) = Bytes(m.retained, S \ {p})
  <2>1. \A q \in S \ {p} : r[q] = m.retained[q]
    BY <1>3, <1>11
  <2> HIDE DEF r, S
  <2> QED
    BY <2>1, BytesSame
<1>13. y = [m EXCEPT !.completed = k, !.retained = r, !.bytes = m.bytes - z]
  BY <1>1 DEF Consume, MgrType
<1> HIDE DEF r, y, k, z, S
<1>14. /\ y \in MgrType /\ y.live = m.live /\ y.initial = m.initial /\ y.reserved = m.reserved
       /\ y.completed = k /\ y.retained = r /\ y.bytes = m.bytes - z
  BY <1>2, <1>10, <1>11, <1>13 DEF MgrType
<1>15. Counted(y)
  BY <1>2, <1>10, <1>12, <1>14 DEF Counted
<1> QED
  BY <1>2, <1>10, <1>11, <1>14, <1>15 DEF y, S

LEMMA ReapableIs ==
  ASSUME NEW m \in MgrType
  PROVE  /\ Reapable(m) \in SUBSET Pids
         /\ \A p \in Pids : p \in Reapable(m) <=> Live(m, p) /\ p \notin m.initial /\ proc[p].exited /\ proc[p].closed /\
                lockQ[p] = <<>>
BY RowsOf DEF Reapable, Live

LEMMA CompactedIs ==
  ASSUME NEW m \in MgrType, Counted(m), proc \in [Pids -> ProcType], \A p \in Pids : ~(Live(m, p) /\ Kept(m, p))
  PROVE  /\ Compacted(m) \in MgrType /\ Counted(Compacted(m))
         /\ Compacted(m).initial = m.initial /\ Compacted(m).reserved = m.reserved \ Reapable(m)
         /\ ToSet(Compacted(m).live) = ToSet(m.live) \ Reapable(m)
         /\ ToSet(Compacted(m).completed) = ToSet(m.completed) \union Reapable(m)
         /\ \A p \in Pids : Compacted(m).retained[p] = IF p \in Reapable(m) THEN proc[p].buf ELSE m.retained[p]
<1> DEFINE g == Reapable(m)
           k == Without(m.live, g)
           d == Without(m.live, Pids \ g)
           S == ToSet(m.completed)
           b == [p \in Pids |-> proc[p].buf]
           r == [p \in Pids |-> IF p \in g THEN proc[p].buf ELSE m.retained[p]]
           z == Bytes(b, g)
           y == Compacted(m)
<1>1. /\ m.live \in Seq(Pids) /\ m.completed \in Seq(Pids) /\ m.retained \in [Pids -> SUBSET Chunks] /\ m.bytes \in Nat
  BY DEF MgrType
<1>2. g \in SUBSET Pids /\ g \subseteq ToSet(m.live) /\ S \in SUBSET Pids /\ ToSet(m.live) \in SUBSET Pids
  BY RowsOf DEF Reapable
<1>3. S \intersect g = {}
  BY <1>2 DEF Live, Kept
<1>4. k \in Seq(Pids) /\ ToSet(k) = ToSet(m.live) \ g
  <2> HIDE DEF g
  <2> QED
    BY <1>1, WithoutIs
<1>5. d \in Seq(Pids) /\ ToSet(d) = g
  <2>1. d \in Seq(Pids) /\ ToSet(d) = ToSet(m.live) \ (Pids \ g)
    <3> HIDE DEF g
    <3> QED
      BY <1>1, WithoutIs
  <2> HIDE DEF d, g
  <2> QED
    BY <1>2, <2>1
<1>6. y = [m EXCEPT !.live = k, !.reserved = @ \ g, !.completed = @ \o d, !.retained = r, !.bytes = @ + z]
  BY <1>1 DEF Compacted, MgrType
<1>7. \A p \in Pids : proc[p].buf \in SUBSET Chunks
  BY DEF ProcType
<1> HIDE DEF g, k, d, S
<1>8. r \in [Pids -> SUBSET Chunks] /\ \A p \in Pids : b[p] = proc[p].buf
  BY <1>1, <1>7
<1>9. Bytes(r, S) = m.bytes
  <2>1. \A p \in S : r[p] = m.retained[p]
    BY <1>2, <1>3
  <2> HIDE DEF r
  <2> QED
    BY <2>1, BytesSame DEF Counted, S
<1>10. Bytes(r, g) = z /\ z \in Nat
  <2>1. \A p \in g : r[p] = b[p]
    BY <1>2, <1>8
  <2> HIDE DEF r, b
  <2> QED
    BY <1>2, <2>1, BytesSame, HeldFinite
<1>11. Bytes(r, S \union g) = m.bytes + z
  <2> HIDE DEF r, z
  <2> QED
    BY <1>2, <1>3, <1>9, <1>10, BytesUnion
<1>12. \A p \in Pids : r[p] = IF p \in g THEN proc[p].buf ELSE m.retained[p]
  OBVIOUS
<1>13. m.completed \o d \in Seq(Pids) /\ ToSet(m.completed \o d) = S \union g
  <2> DEFINE s == m.completed
  <2>1. s \in Seq(Pids) /\ d \in Seq(Pids)
    BY <1>1, <1>5
  <2> HIDE DEF s
  <2>2. s \o d \in Seq(Pids) /\ ToSet(s \o d) = ToSet(s) \union ToSet(d)
    BY <2>1, JoinedIs
  <2> QED
    BY <2>2, <1>5 DEF s, S
<1> HIDE DEF r, z, y, b
<1>14. /\ y \in MgrType /\ y.initial = m.initial /\ y.reserved = m.reserved \ g /\ y.live = k
       /\ y.completed = m.completed \o d /\ y.retained = r /\ y.bytes = m.bytes + z
  <2>1. PICK c \in Seq(Pids) : c = m.completed \o d
    BY <1>13
  <2>2. m.bytes + z \in Nat
    BY <1>1, <1>10
  <2>3. y = [m EXCEPT !.live = k, !.reserved = @ \ g, !.completed = c, !.retained = r, !.bytes = @ + z]
    BY <1>6, <2>1 DEF MgrType
  <2>4. y \in MgrType /\ y.initial = m.initial /\ y.reserved = m.reserved \ g /\ y.live = k
       /\ y.completed = c /\ y.retained = r /\ y.bytes = m.bytes + z
    BY <1>4, <1>8, <2>2, <2>3 DEF MgrType
  <2> QED
    BY <2>1, <2>4
<1>15. Counted(y)
  BY <1>11, <1>13, <1>14 DEF Counted
<1> QED
  BY <1>4, <1>12, <1>13, <1>14, <1>15 DEF y, S, g

LEMMA EnforcedIs ==
  ASSUME NEW m \in MgrType, Counted(m)
  PROVE  /\ EnforceBudget(m) \in MgrType /\ Counted(EnforceBudget(m)) /\ EnforceBudget(m).bytes <= Budget
         /\ EnforceBudget(m).live = m.live /\ EnforceBudget(m).initial = m.initial /\ EnforceBudget(m).reserved = m.reserved
         /\ EnforceBudget(m).completed = m.completed
         /\ \A p \in Pids : EnforceBudget(m).retained[p] = {} \/ EnforceBudget(m).retained[p] = m.retained[p]
         /\ \A p \in Pids : ~Kept(m, p) => EnforceBudget(m).retained[p] = m.retained[p]
<1> DEFINE S == ToSet(m.completed)
           rows == Len(m.completed)
           enough == {n \in 0..rows : m.bytes - Bytes(m.retained, Oldest(m, n)) <= Budget}
           e == Oldest(m, Shed(m))
           r == [p \in Pids |-> IF p \in e THEN {} ELSE m.retained[p]]
           z == Bytes(m.retained, e)
           y == EnforceBudget(m)
<1>1. m.completed \in Seq(Pids) /\ m.retained \in [Pids -> SUBSET Chunks] /\ m.bytes \in Nat /\ rows \in Nat /\ S \in SUBSET Pids
  BY RowsOf DEF MgrType
<1>2. m.bytes = Bytes(m.retained, S)
  BY DEF Counted
<1>3. Oldest(m, rows) = S
  BY <1>1 DEF Oldest, ToSet
<1>4. rows \in enough
  <2>1. m.bytes - Bytes(m.retained, Oldest(m, rows)) = 0
    BY <1>1, <1>2, <1>3
  <2> HIDE DEF rows
  <2> QED
    BY <1>1, <2>1, SizeAssumption
<1>5. Shed(m) \in enough
  <2>1. enough \in SUBSET Nat /\ enough # {}
    BY <1>4
  <2>2. Shed(m) = Min(enough)
    BY <1>4 DEF Shed
  <2> HIDE DEF enough
  <2> QED
    BY <2>1, <2>2, LeastIn
<1>6. m.bytes - z <= Budget /\ Shed(m) \in 0..rows
  BY <1>5
<1> HIDE DEF enough
<1>7. e \subseteq S /\ e \in SUBSET Pids
  <2>1. \A i \in 1..Shed(m) : i \in DOMAIN m.completed
    BY <1>1, <1>6
  <2>2. e \subseteq S
    BY <2>1 DEF Oldest, ToSet
  <2> QED
    BY <1>1, <2>2
<1>8. y = [m EXCEPT !.retained = r, !.bytes = @ - z]
  BY <1>1 DEF EnforceBudget, MgrType
<1> HIDE DEF S, rows, e
<1>9. Bytes(m.retained, S) = Bytes(m.retained, S \ e) + z /\ z \in Nat /\ Bytes(m.retained, S \ e) \in Nat
  <2> DEFINE A == S \ e
  <2>1. A \union e = S /\ A \intersect e = {} /\ A \in SUBSET Pids
    BY <1>1, <1>7
  <2> HIDE DEF A
  <2> QED
    BY <1>7, <2>1, BytesUnion, HeldFinite DEF A
<1>10. r \in [Pids -> SUBSET Chunks] /\ (\A p \in e : r[p] = {}) /\ \A p \in S \ e : r[p] = m.retained[p]
  BY <1>1, <1>7
<1>11. \A p \in Pids : (r[p] = {} \/ r[p] = m.retained[p]) /\ (p \notin S => r[p] = m.retained[p])
  BY <1>7
<1> HIDE DEF r
<1>12. Bytes(r, S) = Bytes(m.retained, S \ e)
  <2> DEFINE A == S \ e
  <2>1. A \union e = S /\ A \intersect e = {} /\ A \in SUBSET Pids /\ \A p \in A : r[p] = m.retained[p]
    BY <1>1, <1>7, <1>10
  <2> HIDE DEF A
  <2>2. Bytes(r, S) = Bytes(r, A) + Bytes(r, e) /\ Bytes(r, A) \in Nat
    BY <1>7, <2>1, BytesUnion, HeldFinite
  <2>3. Bytes(r, e) = 0
    BY <1>10, BytesNone
  <2>4. Bytes(r, A) = Bytes(m.retained, A)
    BY <2>1, BytesSame
  <2> QED
    BY <2>2, <2>3, <2>4 DEF A
<1> HIDE DEF z, y
<1>13. m.bytes - z \in Nat /\ m.bytes - z = Bytes(m.retained, S \ e)
  <2>1. PICK a \in Nat : a = Bytes(m.retained, S \ e)
    BY <1>9
  <2>2. m.bytes = a + z /\ z \in Nat
    BY <1>2, <1>9, <2>1
  <2> QED
    BY <2>1, <2>2
<1>14. /\ y \in MgrType /\ y.live = m.live /\ y.initial = m.initial /\ y.reserved = m.reserved /\ y.completed = m.completed
       /\ y.retained = r /\ y.bytes = m.bytes - z
  BY <1>8, <1>10, <1>13 DEF MgrType
<1>15. Counted(y)
  BY <1>12, <1>13, <1>14 DEF Counted, S
<1> QED
  BY <1>6, <1>11, <1>14, <1>15 DEF y, S, Kept

-----------------------------------------------------------------------------
(* Who calls on a session, and where its output goes in one step.          *)

LEMMA NoCallers ==
  ASSUME Rest, NEW p \in Pids, lockQ[p] = <<>>
  PROVE  Polling(p) = {} /\ \A w \in Writers : writer[w].pid # p
<1>1. \A w \in Writers : writer[w].pid # p
  <2> SUFFICES ASSUME NEW w \in Writers, writer[w].pid = p PROVE FALSE
    OBVIOUS
  <2>1. Waiting(w)
    BY DEF Rest
  <2>2. writer[w].pc # "idle"
    <3> SUFFICES ASSUME writer[w] = IdleWriter PROVE FALSE
      BY <2>1 DEF Waiting
    <3>1. IdleWriter.pid = 0
      BY DEF IdleWriter
    <3>2. p # 0
      BY DEF Pids
    <3> QED
      BY <3>1, <3>2
  <2>3. w \in ToSet(lockQ[p])
    BY <2>1, <2>2 DEF Waiting
  <2> QED
    BY <2>3 DEF ToSet
<1> QED
  BY <1>1 DEF Polling

LEMMA HolderOnly ==
  ASSUME Rest, NEW w \in Writers, writer[w].pc # "idle", HoldsLock(w, writer[w].pid)
  PROVE  /\ writer[w].pid \in Pids /\ Polling(writer[w].pid) = writer[w].got
         /\ \A v \in Writers \ {w} : writer[v].pid = writer[w].pid => writer[v].got = {} /\ writer[v].exited = FALSE
<1>1. writer[w].pid \in Pids
  BY DEF Rest, Waiting
<1> DEFINE p == writer[w].pid
<1>2. \A v \in Writers \ {w} : writer[v].pid = p => writer[v].got = {} /\ writer[v].exited = FALSE
  <2> TAKE v \in Writers \ {w}
  <2> HAVE writer[v].pid = p
  <2>1. Waiting(v) /\ writer[v] \in WriterType
    BY DEF Rest
  <2>2. writer[v].pc \in {"idle", "locking", "collecting"}
    BY <2>1 DEF WriterType
  <2>3. writer[v].pc # "idle"
    <3> SUFFICES ASSUME writer[v] = IdleWriter PROVE FALSE
      BY <2>1 DEF Waiting
    <3>1. IdleWriter.pid = 0
      BY DEF IdleWriter
    <3>2. p # 0
      BY <1>1 DEF Pids
    <3> QED
      BY <3>1, <3>2
  <2>4. ~HoldsLock(v, p)
    BY DEF HoldsLock
  <2>5. writer[v].pc = "locking"
    BY <2>1, <2>2, <2>3, <2>4 DEF Waiting
  <2> QED
    BY <2>1, <2>5 DEF Waiting
<1>3. Polling(p) = writer[w].got
  <2>1. \A c \in Polling(p) : c \in writer[w].got
    BY <1>2 DEF Polling
  <2>2. writer[w].got \subseteq Polling(p)
    BY DEF Polling
  <2> QED
    BY <2>1, <2>2
<1> QED
  BY <1>1, <1>2, <1>3

(* The moves of the output: a call of either kind takes the buffer, a poll *)
(* or the exec_command returns or drops what it has in hand, the buffer    *)
(* becomes the completed cache, the cache is emptied or read, a chunk      *)
(* arrives.                                                                *)
LEMMA OutTakenByExec ==
  ASSUME NEW e, NEW l, NEW b, NEW r, NEW x, NEW q, NEW n \in Nat, Apart(e, l, b, r, x, q, n)
  PROVE  Apart(e \union b, l, {}, r, x, q, n)
BY DEF Apart

LEMMA OutTakenByPoll ==
  ASSUME NEW e, NEW l, NEW b, NEW r, NEW x, NEW q, NEW n \in Nat, Apart(e, l, b, r, x, q, n)
  PROVE  Apart(e, l \union b, {}, r, x, q, n)
BY DEF Apart

LEMMA OutPolled ==
  ASSUME NEW e, NEW l, NEW b, NEW r, NEW x, NEW q, NEW n \in Nat, Apart(e, l, b, r, x, q, n), r = {}
  PROVE  Apart(e, {}, {}, r, x, q \union (l \union b), n)
BY DEF Apart

LEMMA OutDropped ==
  ASSUME NEW e, NEW l, NEW b, NEW r, NEW x, NEW q, NEW n \in Nat, Apart(e, l, b, r, x, q, n)
  PROVE  Apart({}, l, {}, r, x, q, n) /\ Apart(e, {}, {}, r, x, q, n)
BY DEF Apart

LEMMA OutAnswered ==
  ASSUME NEW e, NEW l, NEW b, NEW r, NEW x, NEW q, NEW n \in Nat, Apart(e, l, b, r, x, q, n), x = {}
  PROVE  Apart({}, l, {}, r, e \union b, q, n)
BY DEF Apart

LEMMA OutMoved ==
  ASSUME NEW e, NEW l, NEW b, NEW r, NEW x, NEW q, NEW n \in Nat, Apart(e, l, b, r, x, q, n), r = {}, l = {}
  PROVE  Apart(e, l, {}, b, x, q, n) /\ Apart(e, l, {}, {}, x, q, n)
BY DEF Apart

LEMMA OutEmptied ==
  ASSUME NEW e, NEW l, NEW b, NEW r, NEW x, NEW q, NEW n \in Nat, Apart(e, l, b, r, x, q, n)
  PROVE  Apart(e, l, b, {}, x, q, n)
BY DEF Apart

LEMMA OutConsumed ==
  ASSUME NEW e, NEW l, NEW b, NEW r, NEW x, NEW q, NEW n \in Nat, Apart(e, l, b, r, x, q, n), l = {}, b = {}
  PROVE  Apart(e, l, b, {}, x, q \union r, n)
BY DEF Apart

LEMMA OutArrived ==
  ASSUME NEW e, NEW l, NEW b, NEW r, NEW x, NEW q, NEW n \in Nat, Apart(e, l, b, r, x, q, n), r = {}
  PROVE  Apart(e, l, b \union {n + 1}, r, x, q, n + 1)
BY DEF Apart
-----------------------------------------------------------------------------
(* Reaping keeps the invariant.                                            *)

LEMMA ReapIs ==
  ASSUME NEW m, Good(m, proc)
  PROVE  /\ Reap(m) \in MgrType /\ Counted(Reap(m)) /\ Reap(m).bytes <= Budget /\ Reapable(m) \in SUBSET Pids
         /\ ReapedProcs(m) \in [Pids -> ProcType]
         /\ Reap(m).initial = m.initial /\ Reap(m).reserved = m.reserved \ Reapable(m)
         /\ \A p \in Pids :
              /\ Live(Reap(m), p) <=> Live(m, p) /\ p \notin Reapable(m)
              /\ Kept(Reap(m), p) <=> Kept(m, p) \/ p \in Reapable(m)
              /\ Kept(Reap(m), p) =>
                   Reap(m).retained[p] = {} \/ Reap(m).retained[p] = IF p \in Reapable(m) THEN proc[p].buf ELSE m.retained[p]
              /\ ~Kept(Reap(m), p) => Reap(m).retained[p] = m.retained[p]
              /\ p \in Reapable(m) => Live(m, p) /\ p \notin m.initial /\ proc[p].exited = TRUE /\ proc[p].closed = TRUE /\
                     lockQ[p] = <<>>
              /\ p \in Reapable(m) => ReapedProcs(m)[p] = [proc[p] EXCEPT !.buf = {}]
              /\ p \notin Reapable(m) => ReapedProcs(m)[p] = proc[p]
<1> DEFINE c == Compacted(m)
           n == Reap(m)
           g == Reapable(m)
<1>1. /\ m \in MgrType /\ Counted(m) /\ proc \in [Pids -> ProcType] /\ \A p \in Pids : ~(Live(m, p) /\ Kept(m, p))
  BY DEF Good, Session, Rows
<1>2. /\ c \in MgrType /\ Counted(c)
      /\ c.initial = m.initial /\ c.reserved = m.reserved \ g
      /\ ToSet(c.live) = ToSet(m.live) \ g
      /\ ToSet(c.completed) = ToSet(m.completed) \union g
      /\ \A p \in Pids : c.retained[p] = IF p \in g THEN proc[p].buf ELSE m.retained[p]
  BY <1>1, CompactedIs
<1>3. n = EnforceBudget(c)
  BY DEF Reap
<1>4. g \in SUBSET Pids /\ \A p \in Pids : p \in g <=> Live(m, p) /\ p \notin m.initial /\ proc[p].exited /\
          proc[p].closed /\ lockQ[p] = <<>>
  BY <1>1, ReapableIs
<1>5. \A p \in Pids : proc[p].exited \in BOOLEAN /\ proc[p].closed \in BOOLEAN
  BY <1>1 DEF ProcType
<1>6. /\ ReapedProcs(m) \in [Pids -> ProcType]
      /\ \A p \in Pids : (p \in g => ReapedProcs(m)[p] = [proc[p] EXCEPT !.buf = {}]) /\ (p \notin g =>
             ReapedProcs(m)[p] = proc[p])
  BY <1>1 DEF ReapedProcs, ProcType
<1> HIDE DEF c, n, g
<1>7. /\ n \in MgrType /\ Counted(n) /\ n.bytes <= Budget
      /\ n.live = c.live /\ n.initial = c.initial /\ n.reserved = c.reserved
      /\ n.completed = c.completed
      /\ \A p \in Pids : n.retained[p] = {} \/ n.retained[p] = c.retained[p]
      /\ \A p \in Pids : ~Kept(c, p) => n.retained[p] = c.retained[p]
  BY <1>2, <1>3, EnforcedIs
<1>8. \A p \in Pids : (Live(n, p) <=> Live(m, p) /\ p \notin g) /\ (Kept(n, p) <=> Kept(m, p) \/ p \in g) /\ (Kept(c,
          p) <=> Kept(n, p))
  BY <1>2, <1>7 DEF Live, Kept
<1>9. \A p \in Pids :
              /\ Kept(n, p) => n.retained[p] = {} \/ n.retained[p] = IF p \in g THEN proc[p].buf ELSE m.retained[p]
              /\ ~Kept(n, p) => n.retained[p] = m.retained[p]
  BY <1>2, <1>7, <1>8
<1>10. \A p \in Pids : p \in g => Live(m, p) /\ p \notin m.initial /\ proc[p].exited = TRUE /\ proc[p].closed = TRUE /\
           lockQ[p] = <<>>
  BY <1>4, <1>5
<1>11. n.initial = m.initial /\ n.reserved = m.reserved \ g
  BY <1>2, <1>7
<1>12. n \in MgrType /\ Counted(n) /\ n.bytes <= Budget /\ g \in SUBSET Pids
  BY <1>4, <1>7
<1> QED
  BY <1>6, <1>8, <1>9, <1>10, <1>11, <1>12 DEF n, g

LEMMA ReapGood ==
  ASSUME Rest, NEW m, Good(m, proc)
  PROVE  Good(Reap(m), ReapedProcs(m))
<1> DEFINE n == Reap(m)
           P == ReapedProcs(m)
           g == Reapable(m)
<1>1. n \in MgrType /\ Counted(n) /\ n.bytes <= Budget /\ P \in [Pids -> ProcType]
  BY ReapIs
<1>2. ASSUME NEW p \in Pids PROVE Session(n, P, p)
  <2>1. /\ n.initial = m.initial /\ n.reserved = m.reserved \ g
        /\ Live(n, p) <=> Live(m, p) /\ p \notin g
        /\ Kept(n, p) <=> Kept(m, p) \/ p \in g
        /\ Kept(n, p) => n.retained[p] = {} \/ n.retained[p] = IF p \in g THEN proc[p].buf ELSE m.retained[p]
        /\ ~Kept(n, p) => n.retained[p] = m.retained[p]
        /\ p \in g => Live(m, p) /\ p \notin m.initial /\ proc[p].exited = TRUE /\ proc[p].closed = TRUE /\ lockQ[p] = <<>>
        /\ p \in g => P[p] = [proc[p] EXCEPT !.buf = {}]
        /\ p \notin g => P[p] = proc[p]
    BY ReapIs
  <2>2. Session(m, proc, p) /\ proc[p] \in ProcType /\ m \in MgrType
    BY DEF Good
  <2>3. proc[p].arrived \in Nat
    BY <2>2, SizeAssumption DEF ProcType
  <2> HIDE DEF n, P, g
  <2>4. CASE p \notin g
    <3>1. P[p] = proc[p] /\ (Live(n, p) <=> Live(m, p)) /\ (Kept(n, p) <=> Kept(m, p))
          /\ (n.retained[p] = {} \/ n.retained[p] = m.retained[p]) /\ (~Kept(n, p) => n.retained[p] = m.retained[p])
          /\ (p \in n.reserved <=> p \in m.reserved) /\ n.initial = m.initial
      BY <2>1, <2>4
    <3>2. Started(n, P, p) /\ Rows(n, P, p) /\ Closing(n, P, p)
      BY <2>2, <3>1 DEF Session, Started, Rows, Closing
    <3>3. Output(n, P, p)
      <4>1. Output(m, proc, p)
        BY <2>2 DEF Session
      <4>2. Apart(exec[p].got, Polling(p), P[p].buf, n.retained[p], execOut[p], Polled(p), P[p].arrived)
        BY <2>3, <3>1, <4>1, OutEmptied DEF Output
      <4>3. Whole(exec[p].got, Polling(p), P[p].buf, n.retained[p], execOut[p], Polled(p), P[p].arrived, Open(n, p), Kept(n, p))
        BY <3>1, <4>1 DEF Output, Whole, Open
      <4> QED
        BY <4>2, <4>3 DEF Output
    <3>4. Ordered(pollLog[p]) /\ Reported(n, p)
      BY <2>2, <3>1 DEF Session, Reported
    <3> QED
      BY <3>2, <3>3, <3>4 DEF Session
  <2>5. CASE p \in g
    <3>1. /\ Live(m, p) /\ p \notin m.initial /\ proc[p].exited = TRUE /\ proc[p].closed = TRUE /\ lockQ[p] = <<>>
          /\ P[p] = [proc[p] EXCEPT !.buf = {}]
          /\ ~Live(n, p) /\ Kept(n, p) /\ p \notin n.reserved /\ p \notin n.initial
          /\ n.retained[p] = {} \/ n.retained[p] = proc[p].buf
      BY <2>1, <2>5
    <3>2. /\ P[p].buf = {} /\ P[p].pipe = proc[p].pipe /\ P[p].exited = proc[p].exited /\ P[p].closed = proc[p].closed
          /\ P[p].arrived = proc[p].arrived
      BY <2>2, <3>1 DEF ProcType
    <3>3. exec[p].pc = "done" /\ exec[p].got = {} /\ m.retained[p] = {} /\ proc[p].pipe = FALSE
      <4>1. exec[p] \in ExecType
        BY DEF Rest
      <4>2. exec[p].pc \in {"none", "spawning", "collecting", "done"}
        BY <4>1 DEF ExecType
      <4> QED
        BY <2>2, <3>1, <4>2 DEF Session, Started, Rows, Closing
    <3>4. Polling(p) = {}
      BY <3>1, NoCallers
    <3>5. Started(n, P, p) /\ Rows(n, P, p) /\ Closing(n, P, p)
      BY <2>2, <3>1, <3>2, <3>3 DEF Session, Started, Rows, Closing
    <3>6. Output(n, P, p)
      <4>1. Output(m, proc, p)
        BY <2>2 DEF Session
      <4>2. Apart(exec[p].got, Polling(p), P[p].buf, n.retained[p], execOut[p], Polled(p), P[p].arrived)
        <5>1. Apart(exec[p].got, Polling(p), proc[p].buf, m.retained[p], execOut[p], Polled(p), proc[p].arrived)
          BY <4>1 DEF Output
        <5>2. /\ Apart(exec[p].got, Polling(p), {}, proc[p].buf, execOut[p], Polled(p), proc[p].arrived)
              /\ Apart(exec[p].got, Polling(p), {}, {}, execOut[p], Polled(p), proc[p].arrived)
          BY <2>3, <3>3, <3>4, <5>1, OutMoved
        <5> QED
          BY <3>1, <3>2, <5>2
      <4>3. Whole(exec[p].got, Polling(p), P[p].buf, n.retained[p], execOut[p], Polled(p), P[p].arrived, Open(n, p), Kept(n, p))
        BY <3>1, <3>2, <3>3, <3>4, <4>1 DEF Output, Whole, Open
      <4> QED
        BY <4>2, <4>3 DEF Output
    <3>7. Ordered(pollLog[p]) /\ Reported(n, p)
      BY <2>2, <3>1 DEF Session, Reported
    <3> QED
      BY <3>5, <3>6, <3>7 DEF Session
  <2> QED
    BY <2>4, <2>5
<1> QED
  BY <1>1, <1>2 DEF Good

(* A session that a step does not touch. *)
Same(m, P, n, R, p) ==
  /\ R[p] = P[p] /\ n.retained[p] = m.retained[p]
  /\ Live(n, p) <=> Live(m, p)
  /\ Kept(n, p) <=> Kept(m, p)
  /\ p \in n.initial <=> p \in m.initial
  /\ p \in n.reserved <=> p \in m.reserved

SameCalls(p) ==
  /\ exec'[p] = exec[p] /\ lockQ'[p] = lockQ[p] /\ pollLog'[p] = pollLog[p] /\ execOut'[p] = execOut[p]
  /\ p \in over' <=> p \in over
  /\ \A w \in Writers : writer'[w] = writer[w] \/ (writer[w].pid # p /\ writer'[w].pid # p)

LEMMA Untouched ==
  ASSUME NEW m, NEW P, NEW n, NEW R, NEW p \in Pids, Session(m, P, p), Same(m, P, n, R, p), SameCalls(p), phase' = phase
  PROVE  Session(n, R, p)'
<1>1. Polling(p)' = Polling(p)
  BY DEF Polling, SameCalls
<1>2. Polled(p)' = Polled(p)
  BY DEF Polled, SameCalls
<1>3. (Started(n, R, p) /\ Rows(n, R, p) /\ Closing(n, R, p))'
  BY DEF Session, Started, Rows, Closing, Same, SameCalls, Live, Kept
<1>4. Output(n, R, p)'
  BY <1>1, <1>2 DEF Session, Output, Open, Same, SameCalls, Live, Kept
<1>5. Ordered(pollLog[p])' /\ Reported(n, p)'
  BY DEF Session, Reported, Ordered, Same, SameCalls, Live, Kept
<1> QED
  BY <1>3, <1>4, <1>5 DEF Session

-----------------------------------------------------------------------------
(* Steps that touch one session at most. *)

LEMMA OneSession ==
  ASSUME NEW m, NEW P, Good(m, P), phase' = phase, NEW p \in Pids,
         mgr' \in MgrType, proc' \in [Pids -> ProcType], Counted(mgr)', mgr'.bytes <= Budget,
         \A q \in Pids \ {p} : Same(m, P, mgr', proc', q) /\ SameCalls(q),
         Session(mgr, proc, p)'
  PROVE  Good(mgr, proc)'
<1>1. \A q \in Pids : Session(m, P, q)
  BY DEF Good
<1>2. \A q \in Pids \ {p} : Session(mgr, proc, q)'
  BY <1>1, Untouched
<1>3. \A q \in Pids : Session(mgr, proc, q)'
  BY <1>2
<1> QED
  BY <1>3 DEF Good

LEMMA CallsKept ==
  ASSUME Rest, UNCHANGED <<writer, lockQ>>
  PROVE  (\A w \in Writers : Waiting(w))' /\ (\A p \in Pids : Queue(p))'
BY DEF Rest, Waiting, Queue, HoldsLock

LEMMA WorldKeeps ==
  ASSUME ExecInv, NEW p \in Pids, UNCHANGED <<nextId, mgr, exec, writer, lockQ, killing, phase, history>>,
         proc' \in [Pids -> ProcType], \A q \in Pids \ {p} : proc'[q] = proc[q],
         exec[p].pc # "none",
         Kept(mgr, p) => proc'[p].buf = {} /\ proc'[p].pipe = FALSE, Closing(mgr, proc', p),
         Apart(exec[p].got, Polling(p), proc'[p].buf, mgr.retained[p], execOut[p], Polled(p), proc'[p].arrived),
         Whole(exec[p].got, Polling(p), proc'[p].buf, mgr.retained[p], execOut[p], Polled(p), proc'[p].arrived, Open(mgr, p),
             Kept(mgr, p))
  PROVE  ExecInv'
<1>1. Rest'
  <2>1. (\A w \in Writers : Waiting(w))' /\ (\A q \in Pids : Queue(q))'
    BY CallsKept DEF ExecInv
  <2> QED
    BY <2>1 DEF ExecInv, Rest, history
<1>2. \A q \in Pids \ {p} : Same(mgr, proc, mgr', proc', q) /\ SameCalls(q)
  BY DEF Same, SameCalls, history
<1>3. Session(mgr, proc, p)'
  <2>1. Session(mgr, proc, p)
    BY DEF ExecInv, Good
  <2>2. Polling(p)' = Polling(p) /\ Polled(p)' = Polled(p)
    BY DEF Polling, Polled, history
  <2>3. (Started(mgr, proc, p) /\ Rows(mgr, proc, p) /\ Closing(mgr, proc, p))'
    BY <2>1 DEF Session, Started, Rows, Closing, Live, Kept, history
  <2>4. Output(mgr, proc, p)'
    BY <2>2 DEF Output, Open, Live, Kept, history
  <2>5. Ordered(pollLog[p])' /\ Reported(mgr, p)'
    BY <2>1 DEF Session, Reported, Ordered, Live, Kept, history
  <2> QED
    BY <2>3, <2>4, <2>5 DEF Session
<1>4. mgr' \in MgrType /\ Counted(mgr)' /\ mgr'.bytes <= Budget /\ phase' = phase /\ Good(mgr, proc)
  BY DEF ExecInv, Good, Counted
<1>5. Good(mgr, proc)'
  BY <1>2, <1>3, <1>4, OneSession
<1> QED
  BY <1>1, <1>5 DEF ExecInv

LEMMA OutputOf ==
  ASSUME ExecInv, NEW p \in Pids
  PROVE  /\ Session(mgr, proc, p) /\ proc[p] \in ProcType /\ proc[p].arrived \in Nat /\ exec[p] \in ExecType /\
                mgr.retained[p] \in SUBSET Chunks
         /\ Apart(exec[p].got, Polling(p), proc[p].buf, mgr.retained[p], execOut[p], Polled(p), proc[p].arrived)
         /\ Whole(exec[p].got, Polling(p), proc[p].buf, mgr.retained[p], execOut[p], Polled(p), proc[p].arrived,
                Open(mgr, p), Kept(mgr, p))
<1>1. Session(mgr, proc, p) /\ proc[p] \in ProcType /\ exec[p] \in ExecType /\ mgr.retained[p] \in SUBSET Chunks
  BY DEF ExecInv, Good, Rest, MgrType
<1>2. proc[p].arrived \in Nat
  BY <1>1, SizeAssumption DEF ProcType
<1> QED
  BY <1>1, <1>2 DEF Session, Output

LEMMA OsExitKeeps ==
  ASSUME ExecInv, NEW p \in Pids, OsExit(p)
  PROVE  ExecInv'
<1>1. proc' = [proc EXCEPT ![p].os = "gone"] /\ UNCHANGED <<nextId, mgr, exec, writer, lockQ, killing, phase, history>> /\
          proc[p].os = "running"
  BY DEF OsExit
<1>2. proc \in [Pids -> ProcType]
  BY DEF ExecInv, Good
<1>3. /\ proc' \in [Pids -> ProcType] /\ \A q \in Pids \ {p} : proc'[q] = proc[q]
      /\ proc'[p].pipe = proc[p].pipe /\ proc'[p].exited = proc[p].exited /\ proc'[p].closed = proc[p].closed
      /\ proc'[p].arrived = proc[p].arrived /\ proc'[p].buf = proc[p].buf
  BY <1>1, <1>2 DEF ProcType, OsStates
<1>4. /\ Session(mgr, proc, p)
      /\ Apart(exec[p].got, Polling(p), proc'[p].buf, mgr.retained[p], execOut[p], Polled(p), proc'[p].arrived)
      /\ Whole(exec[p].got, Polling(p), proc'[p].buf, mgr.retained[p], execOut[p], Polled(p), proc'[p].arrived, Open(mgr, p),
             Kept(mgr, p))
  BY <1>3, OutputOf
<1>5. /\ exec[p].pc # "none"
      /\ Kept(mgr, p) => proc'[p].buf = {} /\ proc'[p].pipe = FALSE
      /\ Closing(mgr, proc', p)
  BY <1>1, <1>3, <1>4 DEF Session, Started, Rows, Closing
<1> QED
  BY <1>1, <1>3, <1>4, <1>5, WorldKeeps

LEMMA ExitEventKeeps ==
  ASSUME ExecInv, NEW p \in Pids, ExitEvent(p)
  PROVE  ExecInv'
<1> DEFINE c == proc[p].closed \/ p \in Tty
           i == proc[p].pipe /\ p \notin Tty
<1>1. /\ proc' = [proc EXCEPT ![p].exited = TRUE, ![p].closed = c, ![p].pipe = i]
      /\ UNCHANGED <<nextId, mgr, exec, writer, lockQ, killing, phase, history>> /\ proc[p].exited # TRUE /\ proc[p].os = "gone"
  BY DEF ExitEvent
<1>2. proc \in [Pids -> ProcType]
  BY DEF ExecInv, Good
<1>3. PICK cl, pi \in BOOLEAN : cl = c /\ pi = i
  OBVIOUS
<1>4. proc' = [proc EXCEPT ![p].exited = TRUE, ![p].closed = cl, ![p].pipe = pi]
  BY <1>1, <1>3
<1>5. /\ proc[p].closed \in BOOLEAN /\ proc[p].pipe \in BOOLEAN
  BY <1>2 DEF ProcType
<1>6. (cl = TRUE => proc[p].closed = TRUE \/ pi = FALSE) /\ (proc[p].pipe = FALSE => pi = FALSE)
  BY <1>3, <1>5
<1> HIDE DEF c, i
<1>7. /\ proc' \in [Pids -> ProcType] /\ \A q \in Pids \ {p} : proc'[q] = proc[q]
      /\ proc'[p].pipe = pi /\ proc'[p].exited = TRUE /\ proc'[p].closed = cl
      /\ proc'[p].arrived = proc[p].arrived /\ proc'[p].buf = proc[p].buf
  <2>1. PICK yes \in BOOLEAN : yes = TRUE
    OBVIOUS
  <2>2. proc' = [proc EXCEPT ![p].exited = yes, ![p].closed = cl, ![p].pipe = pi]
    BY <1>4, <2>1
  <2>3. /\ proc' \in [Pids -> ProcType] /\ \A q \in Pids \ {p} : proc'[q] = proc[q]
        /\ proc'[p].pipe = pi /\ proc'[p].exited = yes /\ proc'[p].closed = cl
        /\ proc'[p].arrived = proc[p].arrived /\ proc'[p].buf = proc[p].buf
    <3> DEFINE y == [proc[p] EXCEPT !.exited = yes, !.closed = cl, !.pipe = pi]
    <3>1. y \in ProcType /\ y.pipe = pi /\ y.exited = yes /\ y.closed = cl /\ y.arrived = proc[p].arrived /\ y.buf = proc[p].buf
      BY <1>2 DEF ProcType
    <3>2. proc' = [proc EXCEPT ![p] = y]
      BY <2>2
    <3> HIDE DEF y
    <3> QED
      BY <1>2, <3>1, <3>2
  <2> QED
    BY <2>1, <2>3
<1>8. /\ Session(mgr, proc, p)
      /\ Apart(exec[p].got, Polling(p), proc'[p].buf, mgr.retained[p], execOut[p], Polled(p), proc'[p].arrived)
      /\ Whole(exec[p].got, Polling(p), proc'[p].buf, mgr.retained[p], execOut[p], Polled(p), proc'[p].arrived, Open(mgr, p),
             Kept(mgr, p))
  BY <1>7, OutputOf
<1>9. /\ exec[p].pc # "none"
      /\ Kept(mgr, p) => proc'[p].buf = {} /\ proc'[p].pipe = FALSE
      /\ Closing(mgr, proc', p)
  BY <1>1, <1>6, <1>7, <1>8 DEF Session, Started, Rows, Closing
<1> QED
  BY <1>1, <1>7, <1>8, <1>9, WorldKeeps

LEMMA StreamsEndKeeps ==
  ASSUME ExecInv, NEW p \in Pids, StreamsEnd(p)
  PROVE  ExecInv'
<1>1. /\ proc' = [proc EXCEPT ![p].pipe = FALSE, ![p].closed = TRUE]
      /\ UNCHANGED <<nextId, mgr, exec, writer, lockQ, killing, phase, history>> /\ proc[p].pipe # FALSE
  BY DEF StreamsEnd
<1>2. proc \in [Pids -> ProcType]
  BY DEF ExecInv, Good
<1>3. PICK no \in BOOLEAN : no = FALSE
  OBVIOUS
<1>4. PICK yes \in BOOLEAN : yes = TRUE
  OBVIOUS
<1>5. proc' = [proc EXCEPT ![p].pipe = no, ![p].closed = yes]
  BY <1>1, <1>3, <1>4
<1>6. /\ proc' \in [Pids -> ProcType] /\ \A q \in Pids \ {p} : proc'[q] = proc[q]
      /\ proc'[p].pipe = no /\ proc'[p].exited = proc[p].exited /\ proc'[p].closed = yes
      /\ proc'[p].arrived = proc[p].arrived /\ proc'[p].buf = proc[p].buf
  BY <1>2, <1>5 DEF ProcType
<1>7. /\ Session(mgr, proc, p)
      /\ Apart(exec[p].got, Polling(p), proc'[p].buf, mgr.retained[p], execOut[p], Polled(p), proc'[p].arrived)
      /\ Whole(exec[p].got, Polling(p), proc'[p].buf, mgr.retained[p], execOut[p], Polled(p), proc'[p].arrived, Open(mgr, p),
             Kept(mgr, p))
  BY <1>6, OutputOf
<1>8. /\ exec[p].pc # "none"
      /\ Kept(mgr, p) => proc'[p].buf = {} /\ proc'[p].pipe = FALSE
      /\ Closing(mgr, proc', p)
  BY <1>1, <1>3, <1>6, <1>7 DEF Session, Started, Rows, Closing
<1> QED
  BY <1>1, <1>6, <1>7, <1>8, WorldKeeps

LEMMA DataKeeps ==
  ASSUME ExecInv, NEW p \in Pids, Data(p)
  PROVE  ExecInv'
<1> DEFINE n == proc[p].arrived
<1>1. /\ proc' = [proc EXCEPT ![p].arrived = n + 1, ![p].buf = @ \union {n + 1}] /\ n < MaxChunks
      /\ UNCHANGED <<nextId, mgr, exec, writer, lockQ, killing, phase, history>> /\ proc[p].pipe # FALSE
  BY DEF Data
<1>2. proc \in [Pids -> ProcType] /\ Session(mgr, proc, p) /\ proc[p] \in ProcType /\ n \in Nat
  BY OutputOf DEF ExecInv, Good
<1>3. n + 1 \in 0..MaxChunks /\ n + 1 \in Chunks
  BY <1>1, <1>2, SizeAssumption DEF Chunks
<1>4. /\ proc' \in [Pids -> ProcType] /\ \A q \in Pids \ {p} : proc'[q] = proc[q]
      /\ proc'[p].pipe = proc[p].pipe /\ proc'[p].exited = proc[p].exited /\ proc'[p].closed = proc[p].closed
      /\ proc'[p].arrived = n + 1 /\ proc'[p].buf = proc[p].buf \union {n + 1}
  <2>1. PICK k \in 0..MaxChunks : k = n + 1
    BY <1>3
  <2>2. PICK s \in SUBSET Chunks : s = proc[p].buf \union {n + 1}
    BY <1>2, <1>3 DEF ProcType
  <2>3. proc' = [proc EXCEPT ![p].arrived = k, ![p].buf = s]
    BY <1>1, <1>2, <2>1, <2>2
  <2> HIDE DEF n
  <2> QED
    BY <1>2, <2>1, <2>2, <2>3 DEF ProcType
<1> HIDE DEF n
<1>5. exec[p].pc # "none" /\ ~Kept(mgr, p) /\ mgr.retained[p] = {}
  BY <1>1, <1>2 DEF Session, Started, Rows
<1>6. Apart(exec[p].got, Polling(p), proc'[p].buf, mgr.retained[p], execOut[p], Polled(p), proc'[p].arrived)
  <2>1. Apart(exec[p].got, Polling(p), proc[p].buf, mgr.retained[p], execOut[p], Polled(p), n)
    BY OutputOf DEF n
  <2> QED
    BY <1>2, <1>4, <1>5, <2>1, OutArrived
<1>7. Whole(exec[p].got, Polling(p), proc'[p].buf, mgr.retained[p], execOut[p], Polled(p), proc'[p].arrived, Open(mgr, p),
          Kept(mgr, p))
  <2>1. Whole(exec[p].got, Polling(p), proc[p].buf, mgr.retained[p], execOut[p], Polled(p), n, Open(mgr, p), Kept(mgr, p))
    BY OutputOf DEF n
  <2>2. 1..(n + 1) = (1..n) \union {n + 1}
    BY <1>2
  <2> QED
    BY <1>4, <1>5, <2>1, <2>2 DEF Whole
<1>8. Closing(mgr, proc', p)
  BY <1>2, <1>4 DEF Session, Closing
<1> QED
  BY <1>1, <1>4, <1>5, <1>6, <1>7, <1>8, WorldKeeps

(* A step of one exec_command, which no poll notices. *)
LEMMA ExecOnly ==
  ASSUME ExecInv, NEW p \in Pids, UNCHANGED <<nextId, writer, lockQ, killing, phase, pollLog>>,
         mgr' \in MgrType, mgr'.retained = mgr.retained, mgr'.completed = mgr.completed, mgr'.bytes = mgr.bytes,
         \A q \in Pids \ {p} : (Live(mgr, q)' <=> Live(mgr, q)) /\ (q \in mgr'.initial <=> q \in mgr.initial) /\
             (q \in mgr'.reserved <=> q \in mgr.reserved),
         proc' \in [Pids -> ProcType], \A q \in Pids \ {p} : proc'[q] = proc[q],
         exec' \in [Pids -> ExecType], \A q \in Pids \ {p} : exec'[q] = exec[q], exec[p].pc # "none", exec'[p].pc # "none",
         over' \in SUBSET Pids, \A q \in Pids \ {p} : q \in over' <=> q \in over,
         execOut' \in [Pids -> SUBSET Chunks], \A q \in Pids \ {p} : execOut'[q] = execOut[q],
         (Started(mgr, proc, p) /\ Rows(mgr, proc, p) /\ Closing(mgr, proc, p) /\ Reported(mgr, p))',
         Apart(exec'[p].got, Polling(p), proc'[p].buf, mgr.retained[p], execOut'[p], Polled(p), proc'[p].arrived),
         Whole(exec'[p].got, Polling(p), proc'[p].buf, mgr.retained[p], execOut'[p], Polled(p), proc'[p].arrived,
             Open(mgr, p)', Kept(mgr, p))
  PROVE  ExecInv'
<1>1. Rest'
  <2>1. (\A w \in Writers : Waiting(w))' /\ (\A q \in Pids : Queue(q))'
    BY CallsKept DEF ExecInv
  <2>2. \A q \in Pids : exec'[q].pc = "none" <=> q >= nextId'
    BY DEF ExecInv, Rest
  <2>4. \A q \in killing' : exec'[q].pc # "none"
    BY DEF ExecInv, Rest
  <2>3. /\ nextId' \in 1..(MaxCalls + 1) /\ killing' \in SUBSET Pids /\ phase' \in {"up", "stopping", "down"}
        /\ writer' \in [Writers -> WriterType] /\ lockQ' \in [Pids -> Seq(Writers)] /\ pollLog' \in [Pids -> Seq(SUBSET Chunks)]
    BY DEF ExecInv, Rest
  <2> QED
    BY <2>1, <2>2, <2>3, <2>4 DEF Rest
<1>2. \A q \in Pids \ {p} : Same(mgr, proc, mgr', proc', q) /\ SameCalls(q)
  BY DEF Same, SameCalls, Live, Kept
<1>3. Session(mgr, proc, p)'
  <2>1. Session(mgr, proc, p)
    BY DEF ExecInv, Good
  <2>2. Polling(p)' = Polling(p) /\ Polled(p)' = Polled(p) /\ (Kept(mgr, p)' <=> Kept(mgr, p))
    BY DEF Polling, Polled, Kept
  <2>3. Output(mgr, proc, p)'
    BY <2>2 DEF Output, Whole
  <2>4. Ordered(pollLog[p])'
    BY <2>1 DEF Session, Ordered
  <2> QED
    BY <2>3, <2>4 DEF Session
<1>4. Counted(mgr)' /\ mgr'.bytes <= Budget /\ Good(mgr, proc)
  BY DEF ExecInv, Good, Counted
<1>5. Good(mgr, proc)'
  BY <1>2, <1>3, <1>4, OneSession
<1> QED
  BY <1>1, <1>5 DEF ExecInv

LEMMA SpawnReturnKeeps ==
  ASSUME ExecInv, NEW p \in Pids, SpawnReturn(p)
  PROVE  ExecInv'
<1>1. /\ UNCHANGED <<nextId, proc, writer, lockQ, killing, phase, pollLog, execOut, over>> /\ exec[p].pc = "spawning"
  BY DEF SpawnReturn, history
<1>2. /\ Session(mgr, proc, p) /\ proc[p] \in ProcType /\ exec[p] \in ExecType
      /\ Apart(exec[p].got, Polling(p), proc[p].buf, mgr.retained[p], execOut[p], Polled(p), proc[p].arrived)
      /\ Whole(exec[p].got, Polling(p), proc[p].buf, mgr.retained[p], execOut[p], Polled(p), proc[p].arrived, Open(mgr, p),
             Kept(mgr, p))
  BY OutputOf
<1>3. /\ mgr \in MgrType /\ proc' \in [Pids -> ProcType] /\ exec \in [Pids -> ExecType] /\ over' \in SUBSET Pids /\
             execOut' \in [Pids -> SUBSET Chunks]
      /\ \A q \in Pids : execOut'[q] = execOut[q] /\ proc'[q] = proc[q] /\ (q \in over' <=> q \in over)
  BY <1>1 DEF ExecInv, Good, Rest
<1>4. /\ exec[p].alive = FALSE /\ ~Live(mgr, p) /\ ~Kept(mgr, p) /\ exec[p].got = {} /\ execOut[p] = {} /\ p \notin mgr.initial
      /\ phase = "up" => p \in mgr.reserved
  BY <1>1, <1>2 DEF Session, Started, Rows
<1>5. CASE proc[p].os = "unspawnable"
  <2>1. mgr' = Release(mgr, p) /\ exec' = [exec EXCEPT ![p].pc = "done"]
    BY <1>5 DEF SpawnReturn
  <2>2. /\ mgr' \in MgrType
        /\ mgr'.reserved = mgr.reserved \ {p} /\ mgr'.initial = mgr.initial \ {p}
        /\ ToSet(mgr'.live) = ToSet(mgr.live) \ {p} /\ mgr'.completed = mgr.completed
        /\ mgr'.retained = mgr.retained /\ mgr'.bytes = mgr.bytes
    BY <1>3, <2>1, ReleaseIs
  <2>3. /\ exec' \in [Pids -> ExecType] /\ \A q \in Pids \ {p} : exec'[q] = exec[q]
        /\ exec'[p].pc = "done" /\ exec'[p].alive = FALSE /\ exec'[p].got = {}
    <3>1. PICK at \in {"none", "spawning", "collecting", "done"} : at = "done"
      OBVIOUS
    <3> DEFINE y == [exec[p] EXCEPT !.pc = at]
    <3>2. y \in ExecType /\ y.pc = at /\ y.alive = FALSE /\ y.got = {}
      BY <1>2, <1>4 DEF ExecType
    <3>3. exec' = [exec EXCEPT ![p] = y]
      BY <2>1, <3>1
    <3> HIDE DEF y
    <3> QED
      BY <1>3, <3>1, <3>2, <3>3
  <2>4. ~Live(mgr, p)' /\ ~Kept(mgr, p)' /\ ~Open(mgr, p)'
    BY <1>4, <2>2, <2>3 DEF Live, Kept, Open
  <2>5. (Started(mgr, proc, p) /\ Rows(mgr, proc, p) /\ Closing(mgr, proc, p) /\ Reported(mgr, p))'
    BY <1>1, <1>2, <1>4, <2>2, <2>3, <2>4 DEF Session, Started, Rows, Closing, Reported
  <2>6. \A q \in Pids \ {p} : (Live(mgr, q)' <=> Live(mgr, q)) /\ (q \in mgr'.initial <=> q \in mgr.initial) /\
            (q \in mgr'.reserved <=> q \in mgr.reserved)
    BY <2>2 DEF Live
  <2>7. Whole(exec'[p].got, Polling(p), proc'[p].buf, mgr.retained[p], execOut'[p], Polled(p), proc'[p].arrived,
            Open(mgr, p)', Kept(mgr, p))
    BY <1>4, <2>4 DEF Whole
  <2>8. Apart(exec'[p].got, Polling(p), proc'[p].buf, mgr.retained[p], execOut'[p], Polled(p), proc'[p].arrived)
    BY <1>2, <1>3, <1>4, <2>3
  <2> QED
    BY <1>1, <1>3, <2>2, <2>3, <2>5, <2>6, <2>7, <2>8, ExecOnly
<1>6. CASE proc[p].os # "unspawnable"
  <2>1. PICK b \in BOOLEAN : b = ~proc[p].exited
    OBVIOUS
  <2>2. /\ exec' = [exec EXCEPT ![p].pc = "collecting", ![p].alive = b]
        /\ mgr' = IF b THEN [mgr EXCEPT !.live = Append(@, p), !.initial = @ \union {p}] ELSE mgr
    BY <1>6, <2>1 DEF SpawnReturn
  <2>3. /\ exec' \in [Pids -> ExecType] /\ \A q \in Pids \ {p} : exec'[q] = exec[q]
        /\ exec'[p].pc = "collecting" /\ exec'[p].alive = b /\ exec'[p].got = {}
    <3>1. PICK at \in {"none", "spawning", "collecting", "done"} : at = "collecting"
      OBVIOUS
    <3> DEFINE y == [exec[p] EXCEPT !.pc = at, !.alive = b]
    <3>2. y \in ExecType /\ y.pc = at /\ y.alive = b /\ y.got = {}
      BY <1>2, <1>4 DEF ExecType
    <3>3. exec' = [exec EXCEPT ![p] = y]
      BY <2>2, <3>1
    <3> HIDE DEF y
    <3> QED
      BY <1>3, <3>1, <3>2, <3>3
  <2>4. /\ mgr' \in MgrType /\ mgr'.reserved = mgr.reserved /\ mgr'.initial = (IF b THEN mgr.initial \union {p} ELSE mgr.initial)
        /\ ToSet(mgr'.live) = (IF b THEN ToSet(mgr.live) \union {p} ELSE ToSet(mgr.live)) /\ mgr'.completed = mgr.completed
        /\ mgr'.retained = mgr.retained /\ mgr'.bytes = mgr.bytes
    <3>1. CASE b
      <4> DEFINE s == mgr.live
      <4>1. s \in Seq(Pids)
        BY <1>3 DEF MgrType
      <4> HIDE DEF s
      <4>2. PICK t \in Seq(Pids) : t = Append(s, p) /\ ToSet(t) = ToSet(s) \union {p}
        <5>1. Append(s, p) \in Seq(Pids) /\ ToSet(Append(s, p)) = ToSet(s) \union {p}
          BY <4>1, Appended
        <5> QED
          BY <5>1
      <4>3. mgr' = [mgr EXCEPT !.live = t, !.initial = @ \union {p}]
        BY <2>2, <3>1, <4>2 DEF s, MgrType
      <4>4. /\ mgr' \in MgrType /\ mgr'.reserved = mgr.reserved /\ mgr'.initial = mgr.initial \union {p} /\ mgr'.live = t
            /\ mgr'.completed = mgr.completed /\ mgr'.retained = mgr.retained /\ mgr'.bytes = mgr.bytes
        BY <1>3, <4>3 DEF MgrType
      <4> QED
        BY <3>1, <4>2, <4>4 DEF s
    <3>2. CASE ~b
      BY <1>3, <2>2, <3>2
    <3> QED
      BY <3>1, <3>2
  <2>5. (Live(mgr, p)' <=> b) /\ ~Kept(mgr, p)' /\ (Open(mgr, p)' <=> b)
    BY <1>4, <2>3, <2>4 DEF Live, Kept, Open
  <2>6. b => proc[p].exited # TRUE
    BY <2>1
  <2>7. (Started(mgr, proc, p) /\ Rows(mgr, proc, p) /\ Closing(mgr, proc, p) /\ Reported(mgr, p))'
    BY <1>1, <1>2, <1>4, <2>3, <2>4, <2>5, <2>6 DEF Session, Started, Rows, Closing, Reported
  <2>8. \A q \in Pids \ {p} : (Live(mgr, q)' <=> Live(mgr, q)) /\ (q \in mgr'.initial <=> q \in mgr.initial) /\
            (q \in mgr'.reserved <=> q \in mgr.reserved)
    BY <2>4 DEF Live
  <2>9. Whole(exec'[p].got, Polling(p), proc'[p].buf, mgr.retained[p], execOut'[p], Polled(p), proc'[p].arrived,
            Open(mgr, p)', Kept(mgr, p))
    BY <1>1, <1>2, <1>3, <1>4, <2>3, <2>5 DEF Whole, Open
  <2>10. Apart(exec'[p].got, Polling(p), proc'[p].buf, mgr.retained[p], execOut'[p], Polled(p), proc'[p].arrived)
    BY <1>2, <1>3, <1>4, <2>3
  <2> QED
    BY <1>1, <1>3, <2>3, <2>4, <2>7, <2>8, <2>9, <2>10, ExecOnly
<1> QED
  BY <1>5, <1>6

(* What takeBuffer leaves. *)
LEMMA DrainedIs ==
  ASSUME NEW p \in Pids, proc \in [Pids -> ProcType], proc' = Drained(p)
  PROVE  /\ proc' \in [Pids -> ProcType] /\ \A q \in Pids \ {p} : proc'[q] = proc[q]
         /\ proc'[p].os = proc[p].os /\ proc'[p].buf = {} /\ proc'[p].arrived = proc[p].arrived /\ proc'[p].pipe = proc[p].pipe
         /\ proc'[p].exited = proc[p].exited /\ proc'[p].closed = proc[p].closed
<1>1. PICK s \in SUBSET Chunks : s = {}
  OBVIOUS
<1>2. proc' = [proc EXCEPT ![p].buf = s]
  BY <1>1 DEF Drained
<1> QED
  BY <1>1, <1>2 DEF ProcType

LEMMA ExecDrainKeeps ==
  ASSUME ExecInv, NEW p \in Pids, ExecDrain(p)
  PROVE  ExecInv'
<1>1. /\ UNCHANGED <<nextId, mgr, writer, lockQ, killing, phase, pollLog, execOut, over>> /\ exec[p].pc = "collecting"
      /\ exec' = [exec EXCEPT ![p].got = @ \union proc[p].buf] /\ proc' = Drained(p)
  BY DEF ExecDrain, history
<1>2. /\ Session(mgr, proc, p) /\ proc[p] \in ProcType /\ exec[p] \in ExecType /\ proc[p].arrived \in Nat
      /\ Apart(exec[p].got, Polling(p), proc[p].buf, mgr.retained[p], execOut[p], Polled(p), proc[p].arrived)
      /\ Whole(exec[p].got, Polling(p), proc[p].buf, mgr.retained[p], execOut[p], Polled(p), proc[p].arrived, Open(mgr, p),
             Kept(mgr, p))
  BY OutputOf
<1>3. /\ mgr' \in MgrType /\ exec \in [Pids -> ExecType] /\ over' \in SUBSET Pids /\ execOut' \in [Pids -> SUBSET Chunks]
      /\ \A q \in Pids : execOut'[q] = execOut[q] /\ (q \in over' <=> q \in over) /\ (Live(mgr, q)' <=> Live(mgr, q)) /\
             (Kept(mgr, q)' <=> Kept(mgr, q))
  BY <1>1 DEF ExecInv, Good, Rest, Live, Kept
<1>4. /\ proc' \in [Pids -> ProcType] /\ \A q \in Pids \ {p} : proc'[q] = proc[q]
      /\ proc'[p].os = proc[p].os /\ proc'[p].buf = {} /\ proc'[p].arrived = proc[p].arrived /\ proc'[p].pipe = proc[p].pipe
      /\ proc'[p].exited = proc[p].exited /\ proc'[p].closed = proc[p].closed
  BY <1>1, DrainedIs DEF ExecInv, Good
<1>5. /\ exec' \in [Pids -> ExecType] /\ \A q \in Pids \ {p} : exec'[q] = exec[q]
      /\ exec'[p].pc = exec[p].pc /\ exec'[p].alive = exec[p].alive /\ exec'[p].got = exec[p].got \union proc[p].buf
  <2>1. PICK s \in SUBSET Chunks : s = exec[p].got \union proc[p].buf
    BY <1>2 DEF ExecType, ProcType
  <2>2. exec' = [exec EXCEPT ![p].got = s]
    BY <1>1, <2>1
  <2> QED
    BY <1>3, <2>1, <2>2 DEF ExecType
<1>6. (Started(mgr, proc, p) /\ Rows(mgr, proc, p) /\ Closing(mgr, proc, p) /\ Reported(mgr, p))'
  BY <1>1, <1>2, <1>3, <1>4, <1>5 DEF Session, Started, Rows, Closing, Reported
<1>7. Open(mgr, p)' <=> Open(mgr, p)
  BY <1>3, <1>5 DEF Open
<1>8. Whole(exec'[p].got, Polling(p), proc'[p].buf, mgr.retained[p], execOut'[p], Polled(p), proc'[p].arrived, Open(mgr, p)',
          Kept(mgr, p))
  BY <1>2, <1>3, <1>4, <1>5, <1>7 DEF Whole
<1>9. Apart(exec'[p].got, Polling(p), proc'[p].buf, mgr.retained[p], execOut'[p], Polled(p), proc'[p].arrived)
  BY <1>2, <1>3, <1>4, <1>5, OutTakenByExec
<1>10. mgr'.retained = mgr.retained /\ mgr'.completed = mgr.completed /\ mgr'.bytes = mgr.bytes /\
           mgr'.initial = mgr.initial /\ mgr'.reserved = mgr.reserved
  BY <1>1
<1> QED
  BY <1>1, <1>3, <1>4, <1>5, <1>6, <1>8, <1>9, <1>10, ExecOnly

LEMMA ExecReturnKeeps ==
  ASSUME ExecInv, NEW p \in Pids, ExecReturn(p)
  PROVE  ExecInv'
<1>1. /\ UNCHANGED <<nextId, writer, lockQ, killing, phase, pollLog>> /\ exec[p].pc = "collecting"
      /\ exec' = [exec EXCEPT ![p].pc = "done", ![p].got = {}] /\ proc' = Drained(p)
  BY DEF ExecReturn, ExecAnswer
<1>2. /\ Session(mgr, proc, p) /\ proc[p] \in ProcType /\ exec[p] \in ExecType /\ proc[p].arrived \in Nat
      /\ Apart(exec[p].got, Polling(p), proc[p].buf, mgr.retained[p], execOut[p], Polled(p), proc[p].arrived)
      /\ Whole(exec[p].got, Polling(p), proc[p].buf, mgr.retained[p], execOut[p], Polled(p), proc[p].arrived, Open(mgr, p),
             Kept(mgr, p))
  BY OutputOf
<1>3. mgr \in MgrType /\ exec \in [Pids -> ExecType] /\ over \in SUBSET Pids /\ execOut \in [Pids -> SUBSET Chunks]
  BY DEF ExecInv, Good, Rest
<1>4. /\ proc' \in [Pids -> ProcType] /\ \A q \in Pids \ {p} : proc'[q] = proc[q]
      /\ proc'[p].os = proc[p].os /\ proc'[p].buf = {} /\ proc'[p].arrived = proc[p].arrived /\ proc'[p].pipe = proc[p].pipe
      /\ proc'[p].exited = proc[p].exited /\ proc'[p].closed = proc[p].closed
  BY <1>1, DrainedIs DEF ExecInv, Good
<1>5. /\ exec' \in [Pids -> ExecType] /\ \A q \in Pids \ {p} : exec'[q] = exec[q]
      /\ exec'[p].pc = "done" /\ exec'[p].alive = exec[p].alive /\ exec'[p].got = {}
  <2>1. PICK s \in SUBSET Chunks : s = {}
    OBVIOUS
  <2>2. exec' = [exec EXCEPT ![p].pc = "done", ![p].got = s]
    BY <1>1, <2>1
  <2> QED
    BY <1>3, <2>1, <2>2 DEF ExecType
<1>6. ~Kept(mgr, p) /\ execOut[p] = {} /\ (p \in mgr.initial <=> Live(mgr, p)) /\ mgr.retained[p] = {}
  BY <1>1, <1>2 DEF Session, Started, Rows
<1>7. proc[p].exited \in BOOLEAN /\ exec[p].alive \in BOOLEAN
  BY <1>2 DEF ProcType, ExecType
<1>8. CASE exec[p].alive = TRUE /\ ~Live(mgr, p)
  <2>1. UNCHANGED <<mgr, execOut, over>>
    BY <1>8 DEF ExecReturn, ExecAnswer, Live
  <2>2. ~Live(mgr, p)' /\ ~Kept(mgr, p)' /\ ~Open(mgr, p)'
    BY <1>5, <1>6, <1>8, <2>1 DEF Live, Kept, Open
  <2>3. (Started(mgr, proc, p) /\ Rows(mgr, proc, p) /\ Closing(mgr, proc, p) /\ Reported(mgr, p))'
    BY <1>1, <1>2, <1>4, <1>5, <1>6, <1>8, <2>1, <2>2 DEF Session, Started, Rows, Closing, Reported
  <2>4. Whole(exec'[p].got, Polling(p), proc'[p].buf, mgr.retained[p], execOut'[p], Polled(p), proc'[p].arrived,
            Open(mgr, p)', Kept(mgr, p))
    BY <1>6, <2>2 DEF Whole
  <2>5. Apart(exec'[p].got, Polling(p), proc'[p].buf, mgr.retained[p], execOut'[p], Polled(p), proc'[p].arrived)
    BY <1>2, <1>4, <1>5, <2>1, OutDropped
  <2>6. \A q \in Pids \ {p} : (Live(mgr, q)' <=> Live(mgr, q)) /\ (q \in mgr'.initial <=> q \in mgr.initial) /\
            (q \in mgr'.reserved <=> q \in mgr.reserved)
    BY <2>1 DEF Live
  <2>7. /\ mgr' \in MgrType /\ mgr'.retained = mgr.retained /\ mgr'.completed = mgr.completed /\ mgr'.bytes = mgr.bytes
        /\ over' \in SUBSET Pids /\ (\A q \in Pids \ {p} : q \in over' <=> q \in over)
        /\ execOut' \in [Pids -> SUBSET Chunks] /\ \A q \in Pids \ {p} : execOut'[q] = execOut[q]
    BY <1>3, <2>1
  <2> QED
    BY <1>1, <1>4, <1>5, <2>3, <2>4, <2>5, <2>6, <2>7, ExecOnly
<1>9. CASE ~(exec[p].alive = TRUE /\ ~Live(mgr, p))
  <2> DEFINE m == IF exec[p].alive THEN Refresh(mgr, p) ELSE Release(mgr, p)
             s == exec[p].got \union proc[p].buf
  <2>1. /\ execOut' = [execOut EXCEPT ![p] = s] /\ mgr' = [m EXCEPT !.initial = @ \ {p}] /\ Final(p, proc[p].exited)
    BY <1>9, <1>7 DEF ExecReturn, ExecAnswer, Live
  <2>2. PICK stays \in BOOLEAN : stays <=> exec[p].alive = TRUE /\ proc[p].exited = FALSE
    OBVIOUS
  <2>3. m = IF stays THEN mgr ELSE Release(mgr, p)
    BY <1>7, <2>2 DEF Refresh
  <2>4. /\ m \in MgrType
        /\ ~stays => m.reserved = mgr.reserved \ {p} /\ m.initial = mgr.initial \ {p} /\ ToSet(m.live) = ToSet(mgr.live) \ {p}
        /\ stays => m = mgr
        /\ m.completed = mgr.completed /\ m.retained = mgr.retained /\ m.bytes = mgr.bytes
    BY <1>3, <2>3, ReleaseIs
  <2> HIDE DEF m
  <2>5. /\ mgr' \in MgrType /\ mgr'.reserved = m.reserved /\ mgr'.initial = m.initial \ {p} /\ mgr'.live = m.live
        /\ mgr'.completed = m.completed /\ mgr'.retained = m.retained /\ mgr'.bytes = m.bytes
    BY <2>1, <2>4 DEF MgrType
  <2>6. s \in SUBSET Chunks
    BY <1>2 DEF ExecType, ProcType
  <2>7. execOut' \in [Pids -> SUBSET Chunks] /\ execOut'[p] = s /\ \A q \in Pids \ {p} : execOut'[q] = execOut[q]
    BY <1>3, <2>1, <2>6
  <2>8. over' \in SUBSET Pids /\ (\A q \in Pids \ {p} : q \in over' <=> q \in over) /\
            (p \in over' <=> p \in over \/ proc[p].exited = TRUE)
    BY <1>3, <1>7, <2>1 DEF Final
  <2>9. (Live(mgr, p)' <=> Live(mgr, p) /\ stays) /\ ~Kept(mgr, p)' /\ (Open(mgr, p)' <=> Live(mgr, p)')
    BY <1>5, <1>6, <2>4, <2>5 DEF Live, Kept, Open
  <2>10. /\ p \notin mgr'.initial /\ (Live(mgr, p)' => Live(mgr, p) /\ (p \in mgr'.reserved <=> p \in mgr.reserved))
         /\ mgr'.retained[p] = {}
    BY <1>6, <2>4, <2>5, <2>9
  <2>11. (Started(mgr, proc, p) /\ Rows(mgr, proc, p))'
    BY <1>1, <1>2, <1>4, <1>5, <2>9, <2>10 DEF Session, Started, Rows
  <2>12. Closing(mgr, proc, p)'
    BY <1>1, <1>2, <1>4, <1>5, <2>2, <2>9, <2>10 DEF Session, Closing
  <2>13. Reported(mgr, p)'
    BY <1>1, <1>5, <1>7, <1>9, <2>2, <2>8, <2>9 DEF Reported
  <2>14. Whole(exec'[p].got, Polling(p), proc'[p].buf, mgr.retained[p], execOut'[p], Polled(p), proc'[p].arrived,
             Open(mgr, p)', Kept(mgr, p))
    BY <1>2, <1>4, <1>5, <1>6, <2>7, <2>9 DEF Whole, Open
  <2>15. Apart(exec'[p].got, Polling(p), proc'[p].buf, mgr.retained[p], execOut'[p], Polled(p), proc'[p].arrived)
    BY <1>2, <1>4, <1>5, <1>6, <2>7, OutAnswered
  <2>16. \A q \in Pids \ {p} : (Live(mgr, q)' <=> Live(mgr, q)) /\ (q \in mgr'.initial <=> q \in mgr.initial) /\
             (q \in mgr'.reserved <=> q \in mgr.reserved)
    BY <2>4, <2>5 DEF Live
  <2>17. mgr'.retained = mgr.retained /\ mgr'.completed = mgr.completed /\ mgr'.bytes = mgr.bytes
    BY <2>4, <2>5
  <2> HIDE DEF s
  <2> QED
    BY <1>1, <1>4, <1>5, <2>5, <2>7, <2>8, <2>11, <2>12, <2>13, <2>14, <2>15, <2>16, <2>17, ExecOnly
<1> QED
  BY <1>8, <1>9

-----------------------------------------------------------------------------
(* Terminations. *)

(* A step that takes a row away, if it takes one, and is not part of a     *)
(* call.                                                                   *)
LEMMA RowGone ==
  ASSUME ExecInv, NEW p \in Pids, UNCHANGED <<nextId, exec, writer, lockQ, phase, pollLog, execOut>>,
         killing' \in SUBSET Pids, killing' \subseteq killing, exec[p].pc # "none",
         TerminateRow(p),
         proc' \in [Pids -> ProcType], \A q \in Pids \ {p} : proc'[q] = proc[q],
         proc'[p].buf = proc[p].buf, proc'[p].arrived = proc[p].arrived, proc'[p].pipe = proc[p].pipe, proc'[p].exited = TRUE
  PROVE  ExecInv'
<1>1. /\ Session(mgr, proc, p) /\ proc[p] \in ProcType /\ exec[p] \in ExecType /\ proc[p].arrived \in Nat
      /\ Apart(exec[p].got, Polling(p), proc[p].buf, mgr.retained[p], execOut[p], Polled(p), proc[p].arrived)
      /\ Whole(exec[p].got, Polling(p), proc[p].buf, mgr.retained[p], execOut[p], Polled(p), proc[p].arrived, Open(mgr, p),
             Kept(mgr, p))
  BY OutputOf
<1>2. mgr \in MgrType /\ over \in SUBSET Pids
  BY DEF ExecInv, Good, Rest
<1>3. PICK goes \in BOOLEAN : goes <=> Live(mgr, p) /\ p \notin mgr.initial
  OBVIOUS
<1>4. (goes => mgr' = Release(mgr, p) /\ over' = over \union {p}) /\ (~goes => mgr' = mgr /\ over' = over)
  BY <1>3 DEF TerminateRow, Final, Live
<1>5. /\ mgr' \in MgrType
      /\ goes => mgr'.reserved = mgr.reserved \ {p} /\ mgr'.initial = mgr.initial \ {p} /\
             ToSet(mgr'.live) = ToSet(mgr.live) \ {p}
      /\ ~goes => mgr' = mgr
      /\ mgr'.completed = mgr.completed /\ mgr'.retained = mgr.retained /\ mgr'.bytes = mgr.bytes
  <2>1. CASE goes
    BY <1>2, <1>4, <2>1, ReleaseIs
  <2>2. CASE ~goes
    BY <1>2, <1>4, <2>2
  <2> QED
    BY <2>1, <2>2
<1>6. over' \in SUBSET Pids /\ (p \in over' <=> p \in over \/ goes) /\ \A q \in Pids \ {p} : q \in over' <=> q \in over
  BY <1>2, <1>4
<1>7. /\ Live(mgr, p)' <=> Live(mgr, p) /\ ~goes
      /\ Kept(mgr, p)' <=> Kept(mgr, p)
      /\ Open(mgr, p)' => Open(mgr, p)
  BY <1>5 DEF Live, Kept, Open
<1>8. \A q \in Pids \ {p} : /\ Live(mgr, q)' <=> Live(mgr, q)
                            /\ Kept(mgr, q)' <=> Kept(mgr, q)
                            /\ q \in mgr'.initial <=> q \in mgr.initial
                            /\ q \in mgr'.reserved <=> q \in mgr.reserved
  BY <1>5 DEF Live, Kept
<1>9. Rest'
  <2>1. (\A w \in Writers : Waiting(w))' /\ (\A q \in Pids : Queue(q))'
    BY CallsKept DEF ExecInv
  <2> QED
    BY <1>6, <2>1 DEF ExecInv, Rest
<1>10. \A q \in Pids \ {p} : Same(mgr, proc, mgr', proc', q) /\ SameCalls(q)
  BY <1>5, <1>6, <1>8 DEF Same, SameCalls, Live, Kept
<1>11. Session(mgr, proc, p)'
  <2>1. Polling(p)' = Polling(p) /\ Polled(p)' = Polled(p)
    BY DEF Polling, Polled
  <2>2. (Started(mgr, proc, p) /\ Rows(mgr, proc, p))'
    BY <1>1, <1>3, <1>5, <1>7 DEF Session, Started, Rows
  <2>3. Closing(mgr, proc, p)'
    BY <1>1, <1>3, <1>5, <1>7 DEF Session, Closing, Rows
  <2>4. Output(mgr, proc, p)'
    BY <1>1, <1>5, <1>7, <2>1 DEF Output, Whole
  <2>5. Ordered(pollLog[p])' /\ Reported(mgr, p)'
    BY <1>1, <1>3, <1>6, <1>7 DEF Session, Reported, Ordered
  <2> QED
    BY <2>2, <2>3, <2>4, <2>5 DEF Session
<1>12. Counted(mgr)' /\ mgr'.bytes <= Budget /\ Good(mgr, proc)
  BY <1>5 DEF ExecInv, Good, Counted
<1>13. Good(mgr, proc)'
  BY <1>5, <1>10, <1>11, <1>12, OneSession
<1> QED
  BY <1>9, <1>13 DEF ExecInv

LEMMA TerminateCallKeeps ==
  ASSUME ExecInv, NEW p \in Pids, TerminateCall(p)
  PROVE  ExecInv'
<1>1. UNCHANGED <<nextId, proc, exec, writer, lockQ, phase, pollLog, execOut>>
  BY DEF TerminateCall
<1>2. proc \in [Pids -> ProcType] /\ killing \in SUBSET Pids
  BY DEF ExecInv, Good, Rest
<1>3. proc[p].exited \in BOOLEAN
  BY <1>2 DEF ProcType
<1>6. exec[p].pc # "none"
  BY DEF TerminateCall, Ids, ExecInv, Rest
<1>4. CASE proc[p].exited = TRUE
  <2>1. TerminateRow(p) /\ killing' = killing
    BY <1>4 DEF TerminateCall
  <2> QED
    BY <1>1, <1>2, <1>4, <1>6, <2>1, RowGone
<1>5. CASE proc[p].exited = FALSE
  <2>1. killing' = killing \union {p} /\ mgr' = mgr /\ over' = over
    BY <1>5 DEF TerminateCall
  <2>2. Rest'
    <3>1. (\A w \in Writers : Waiting(w))' /\ (\A q \in Pids : Queue(q))'
      BY <1>1, CallsKept DEF ExecInv
    <3>2. killing' \in SUBSET Pids
      BY <1>2, <2>1
    <3>3. \A q \in killing' : exec'[q].pc # "none"
      BY <1>1, <1>6, <2>1 DEF ExecInv, Rest
    <3> QED
      BY <1>1, <2>1, <3>1, <3>2, <3>3 DEF ExecInv, Rest
  <2>3. Good(mgr, proc)'
    <3>1. \A q \in Pids \ {p} : Same(mgr, proc, mgr', proc', q) /\ SameCalls(q)
      BY <1>1, <2>1 DEF Same, SameCalls, Live, Kept
    <3>2. Same(mgr, proc, mgr', proc', p) /\ SameCalls(p) /\ Session(mgr, proc, p)
      BY <1>1, <2>1 DEF Same, SameCalls, Live, Kept, ExecInv, Good
    <3>3. Session(mgr, proc, p)'
      BY <1>1, <3>2, Untouched
    <3>4. mgr' \in MgrType /\ proc' \in [Pids -> ProcType] /\ Counted(mgr)' /\ mgr'.bytes <= Budget /\ Good(mgr, proc)
      BY <1>1, <2>1 DEF ExecInv, Good, Counted
    <3> QED
      BY <1>1, <3>1, <3>3, <3>4, OneSession
  <2> QED
    BY <2>2, <2>3 DEF ExecInv
<1> QED
  BY <1>3, <1>4, <1>5

LEMMA TerminateReturnKeeps ==
  ASSUME ExecInv, NEW p \in Pids, TerminateReturn(p)
  PROVE  ExecInv'
<1>1. /\ UNCHANGED <<nextId, exec, writer, lockQ, phase, pollLog, execOut>> /\ TerminateRow(p) /\ killing' = killing \ {p}
      /\ proc' = [proc EXCEPT ![p].os = "gone", ![p].exited = TRUE, ![p].closed = TRUE]
  BY DEF TerminateReturn
<1>2. proc \in [Pids -> ProcType] /\ killing \in SUBSET Pids
  BY DEF ExecInv, Good, Rest
<1>3. PICK yes \in BOOLEAN : yes = TRUE
  OBVIOUS
<1>4. PICK gone \in OsStates : gone = "gone"
  BY DEF OsStates
<1> DEFINE y == [proc[p] EXCEPT !.os = gone, !.exited = yes, !.closed = yes]
<1>5. y \in ProcType /\ y.pipe = proc[p].pipe /\ y.exited = yes /\ y.arrived = proc[p].arrived /\ y.buf = proc[p].buf
  BY <1>2 DEF ProcType
<1>6. proc' = [proc EXCEPT ![p] = y]
  BY <1>1, <1>3, <1>4
<1> HIDE DEF y
<1>7. /\ proc' \in [Pids -> ProcType] /\ (\A q \in Pids \ {p} : proc'[q] = proc[q])
      /\ proc'[p].buf = proc[p].buf /\ proc'[p].arrived = proc[p].arrived /\ proc'[p].pipe = proc[p].pipe /\
             proc'[p].exited = TRUE
  BY <1>2, <1>3, <1>5, <1>6
<1>8. killing' \in SUBSET Pids /\ killing' \subseteq killing /\ exec[p].pc # "none"
  BY <1>1, <1>2 DEF TerminateReturn, ExecInv, Rest
<1> QED
  BY <1>1, <1>7, <1>8, RowGone

LEMMA TerminateAllKeeps ==
  ASSUME ExecInv, TerminateAll
  PROVE  ExecInv'
<1> DEFINE none == [p \in Pids |-> {}]
<1>1. /\ UNCHANGED <<nextId, proc, exec, writer, lockQ, pollLog, execOut, over>> /\ phase' = "stopping"
      /\ killing' = killing \union {p \in Ids : p \in ToSet(mgr.live) /\ ~proc[p].exited}
      /\ mgr' = [mgr EXCEPT !.live = <<>>, !.initial = {}, !.completed = <<>>, !.bytes = 0, !.reserved = {}, !.retained = none]
  BY DEF TerminateAll, history
<1>2. mgr \in MgrType /\ killing \in SUBSET Pids /\ nextId \in 1..(MaxCalls + 1)
  BY DEF ExecInv, Good, Rest
<1>3. /\ mgr' \in MgrType /\ ToSet(mgr'.live) = {} /\ mgr'.initial = {} /\ ToSet(mgr'.completed) = {} /\ mgr'.bytes = 0
      /\ mgr'.reserved = {} /\ \A p \in Pids : mgr'.retained[p] = {}
  <2>1. PICK e \in Seq(Pids) : e = <<>>
    <3>1. <<>> \in Seq(Pids)
      OBVIOUS
    <3> QED
      BY <3>1, Zenon
  <2>2. PICK s \in SUBSET Pids : s = {}
    OBVIOUS
  <2>3. PICK z \in Nat : z = 0
    OBVIOUS
  <2>4. none \in [Pids -> SUBSET Chunks] /\ \A p \in Pids : none[p] = {}
    <3>1. none = [p \in Pids |-> s]
      BY <2>2
    <3> QED
      BY <2>2, <3>1
  <2> HIDE DEF none
  <2>5. mgr' = [mgr EXCEPT !.live = e, !.initial = s, !.completed = e, !.bytes = z, !.reserved = s, !.retained = none]
    BY <1>1, <2>1, <2>2, <2>3
  <2>6. /\ mgr' \in MgrType /\ mgr'.live = e /\ mgr'.initial = s /\ mgr'.completed = e /\ mgr'.bytes = z
        /\ mgr'.reserved = s /\ mgr'.retained = none
    BY <1>2, <2>4, <2>5 DEF MgrType
  <2>7. ToSet(e) = {}
    BY <2>1 DEF ToSet
  <2> QED
    BY <2>1, <2>2, <2>3, <2>4, <2>6, <2>7
<1>4. Rest'
  <2>1. (\A w \in Writers : Waiting(w))' /\ (\A q \in Pids : Queue(q))'
    BY <1>1, CallsKept DEF ExecInv
  <2>2. \A p \in Ids : p \in Pids /\ exec[p].pc # "none"
    BY <1>2, CallsAssumption DEF Ids, Pids, ExecInv, Rest
  <2>3. killing' \in SUBSET Pids /\ \A p \in killing' : exec'[p].pc # "none"
    BY <1>1, <1>2, <2>2 DEF ExecInv, Rest
  <2>4. phase' \in {"up", "stopping", "down"}
    BY <1>1
  <2> QED
    BY <1>1, <2>1, <2>3, <2>4 DEF ExecInv, Rest
<1>5. ASSUME NEW p \in Pids PROVE Session(mgr, proc, p)'
  <2>1. /\ Session(mgr, proc, p) /\ proc[p] \in ProcType /\ exec[p] \in ExecType /\ proc[p].arrived \in Nat
        /\ Apart(exec[p].got, Polling(p), proc[p].buf, mgr.retained[p], execOut[p], Polled(p), proc[p].arrived)
        /\ Whole(exec[p].got, Polling(p), proc[p].buf, mgr.retained[p], execOut[p], Polled(p), proc[p].arrived, Open(mgr, p),
               Kept(mgr, p))
    BY OutputOf, <1>2 DEF ExecInv
  <2>2. ~Live(mgr, p)' /\ ~Kept(mgr, p)' /\ (Open(mgr, p)' => Open(mgr, p)) /\ mgr'.retained[p] = {} /\ p \notin mgr'.initial
    BY <1>1, <1>3 DEF Live, Kept, Open
  <2>3. Polling(p)' = Polling(p) /\ Polled(p)' = Polled(p)
    BY <1>1 DEF Polling, Polled
  <2>4. (Started(mgr, proc, p) /\ Rows(mgr, proc, p) /\ Closing(mgr, proc, p) /\ Reported(mgr, p))'
    BY <1>1, <2>1, <2>2 DEF Session, Started, Rows, Closing, Reported
  <2>5. Apart(exec[p].got, Polling(p), proc[p].buf, mgr.retained[p], execOut[p], Polled(p), proc[p].arrived)'
    BY <1>1, <2>1, <2>2, <2>3, OutEmptied
  <2>6. Output(mgr, proc, p)'
    BY <1>1, <2>1, <2>2, <2>3, <2>5 DEF Output, Whole
  <2>7. Ordered(pollLog[p])'
    BY <1>1, <2>1 DEF Session, Ordered
  <2> QED
    BY <2>4, <2>6, <2>7 DEF Session
<1>6. Counted(mgr)' /\ mgr'.bytes <= Budget
  <2>1. Bytes(mgr'.retained, ToSet(mgr'.completed)) = 0
    BY <1>3, BytesNone
  <2> QED
    BY <1>3, <2>1, SizeAssumption DEF Counted
<1>7. proc' \in [Pids -> ProcType]
  BY <1>1 DEF ExecInv, Good
<1> QED
  BY <1>3, <1>4, <1>5, <1>6, <1>7 DEF ExecInv, Good

LEMMA TerminateAllReturnKeeps ==
  ASSUME ExecInv, TerminateAllReturn
  PROVE  ExecInv'
<1>1. UNCHANGED <<nextId, mgr, proc, exec, writer, lockQ, killing, pollLog, execOut, over>> /\ phase = "stopping" /\
          phase' = "down"
  BY DEF TerminateAllReturn, history
<1>2. Rest'
  <2>1. (\A w \in Writers : Waiting(w))' /\ (\A q \in Pids : Queue(q))'
    BY <1>1, CallsKept DEF ExecInv
  <2>2. phase' \in {"up", "stopping", "down"}
    BY <1>1
  <2> QED
    BY <1>1, <2>1, <2>2 DEF ExecInv, Rest
<1>3. ASSUME NEW p \in Pids PROVE Session(mgr, proc, p)'
  <2>1. Session(mgr, proc, p)
    BY DEF ExecInv, Good
  <2>2. Polling(p)' = Polling(p) /\ Polled(p)' = Polled(p)
    BY <1>1 DEF Polling, Polled
  <2>3. (Live(mgr, p)' <=> Live(mgr, p)) /\ (Kept(mgr, p)' <=> Kept(mgr, p)) /\ (Open(mgr, p)' <=> Open(mgr, p))
    BY <1>1 DEF Live, Kept, Open
  <2>4. (Started(mgr, proc, p) /\ Rows(mgr, proc, p) /\ Closing(mgr, proc, p) /\ Reported(mgr, p))'
    BY <1>1, <2>1, <2>3 DEF Session, Started, Rows, Closing, Reported
  <2>5. Output(mgr, proc, p)'
    BY <1>1, <2>1, <2>2, <2>3 DEF Session, Output, Whole
  <2>6. Ordered(pollLog[p])'
    BY <1>1, <2>1 DEF Session, Ordered
  <2> QED
    BY <2>4, <2>5, <2>6 DEF Session
<1>4. Counted(mgr)' /\ mgr'.bytes <= Budget /\ mgr' \in MgrType /\ proc' \in [Pids -> ProcType]
  BY <1>1 DEF ExecInv, Good, Counted
<1> QED
  BY <1>2, <1>3, <1>4 DEF ExecInv, Good

(* Nothing happens but that the tables become m and the sessions P. *)
LEMMA Settled ==
  ASSUME ExecInv, Good(mgr', proc'), UNCHANGED <<nextId, exec, writer, lockQ, killing, phase, history>>
  PROVE  ExecInv'
<1>1. Rest'
  <2>1. (\A w \in Writers : Waiting(w))' /\ (\A q \in Pids : Queue(q))'
    BY CallsKept DEF ExecInv
  <2> QED
    BY <2>1 DEF ExecInv, Rest, history
<1>2. ASSUME NEW p \in Pids PROVE Session(mgr, proc, p)'
  <2>1. Session(mgr', proc', p)
    BY DEF Good
  <2>2. Same(mgr', proc', mgr', proc', p) /\ SameCalls(p)
    BY DEF Same, SameCalls, history
  <2> QED
    BY <2>1, <2>2, Untouched
<1>3. mgr' \in MgrType /\ proc' \in [Pids -> ProcType] /\ Counted(mgr)' /\ mgr'.bytes <= Budget
  BY DEF Good, Counted
<1> QED
  BY <1>1, <1>2, <1>3 DEF ExecInv, Good

LEMMA QueryKeeps ==
  ASSUME ExecInv, Query
  PROVE  ExecInv'
<1>1. mgr' = Reap(mgr) /\ proc' = ReapedProcs(mgr) /\ UNCHANGED <<nextId, exec, writer, lockQ, killing, phase, history>>
  BY DEF Query
<1>2. Good(Reap(mgr), ReapedProcs(mgr))
  BY ReapGood DEF ExecInv
<1>3. Good(mgr', proc')
  BY <1>1, <1>2
<1> QED
  BY <1>1, <1>3, Settled

LEMMA StutterKeeps ==
  ASSUME ExecInv, UNCHANGED vars
  PROVE  ExecInv'
<1>1. Good(mgr', proc')
  BY DEF ExecInv, vars
<1>2. UNCHANGED <<nextId, exec, writer, lockQ, killing, phase, history>>
  BY DEF vars, history
<1> QED
  BY <1>1, <1>2, Settled

-----------------------------------------------------------------------------
(* A new session. *)

LEMMA ReservedGood ==
  ASSUME ExecInv, NEW p \in Pids, exec[p].pc = "none"
  PROVE  Good([mgr EXCEPT !.reserved = @ \union {p}], proc)
<1> DEFINE m == [mgr EXCEPT !.reserved = @ \union {p}]
<1>1. mgr \in MgrType /\ proc \in [Pids -> ProcType] /\ Counted(mgr) /\ mgr.bytes <= Budget
  BY DEF ExecInv, Good
<1>2. /\ m \in MgrType /\ m.live = mgr.live /\ m.initial = mgr.initial /\ m.completed = mgr.completed
      /\ m.retained = mgr.retained /\ m.bytes = mgr.bytes /\ m.reserved = mgr.reserved \union {p}
  BY <1>1 DEF MgrType
<1> HIDE DEF m
<1>3. ASSUME NEW q \in Pids PROVE Session(m, proc, q)
  <2>1. Session(mgr, proc, q)
    BY DEF ExecInv, Good
  <2>2. (Live(m, q) <=> Live(mgr, q)) /\ (Kept(m, q) <=> Kept(mgr, q)) /\ (Open(m, q) <=> Open(mgr, q))
    BY <1>2 DEF Live, Kept, Open
  <2>3. Started(m, proc, q) /\ Rows(m, proc, q) /\ Closing(m, proc, q) /\ Reported(m, q)
    BY <1>2, <2>1, <2>2 DEF Session, Started, Rows, Closing, Reported
  <2>4. Output(m, proc, q)
    BY <1>2, <2>1, <2>2 DEF Session, Output, Whole
  <2> QED
    BY <2>1, <2>3, <2>4 DEF Session
<1>4. Counted(m) /\ m.bytes <= Budget
  BY <1>1, <1>2 DEF Counted
<1>5. Good(m, proc)
  BY <1>1, <1>2, <1>3, <1>4 DEF Good
<1> QED
  BY <1>5 DEF m

LEMMA ExecCallKeeps ==
  ASSUME ExecInv, NEW a \in {"running", "unspawnable"}, ExecCall(a)
  PROVE  ExecInv'
<1>1. /\ UNCHANGED <<writer, lockQ, killing, phase, pollLog, execOut, over>> /\ nextId <= MaxCalls /\ nextId' = nextId + 1
  BY DEF ExecCall, history
<1>a. nextId \in Pids /\ nextId \in Nat /\ nextId' \in 1..(MaxCalls + 1) /\ exec \in [Pids -> ExecType] /\ mgr \in MgrType
  <2>1. nextId \in 1..(MaxCalls + 1) /\ exec \in [Pids -> ExecType] /\ mgr \in MgrType
    BY DEF ExecInv, Rest, Good
  <2> QED
    BY <1>1, <2>1, CallsAssumption DEF Pids
<1>b. PICK p \in Pids : p = nextId
  BY <1>a
<1> DEFINE m0 == [mgr EXCEPT !.reserved = @ \union {p}]
           m == Reap(m0)
           P == ReapedProcs(m0)
<1>2. p \in Pids /\ p = nextId /\ nextId \in Nat /\ nextId' \in 1..(MaxCalls + 1) /\ exec[p].pc = "none" /\
          exec \in [Pids -> ExecType] /\ mgr \in MgrType
  BY <1>a, <1>b DEF ExecInv, Rest
<1>3. Reapable(mgr) = Reapable(m0)
  BY <1>2 DEF Reapable, MgrType
<1>4. ReapedProcs(mgr) = P
  BY <1>3 DEF ReapedProcs
<1>5. /\ mgr' = IF Full(m) THEN Release(m, p) ELSE m
      /\ exec' = IF Full(m) THEN [exec EXCEPT ![p].pc = "done"] ELSE [exec EXCEPT ![p].pc = "spawning"]
      /\ proc' = IF Full(m) THEN P ELSE [P EXCEPT ![p].os = a, ![p].pipe = (a = "running")]
  BY <1>b, <1>4 DEF ExecCall
<1>6. Good(m0, proc)
  BY <1>2, ReservedGood
<1>7. m0.reserved = mgr.reserved \union {p}
  BY <1>2 DEF MgrType
<1> HIDE DEF m0
<1>8. Good(m, P) /\ m.reserved = m0.reserved \ Reapable(m0) /\ (p \in Reapable(m0) => Live(m0, p))
  BY <1>2, <1>6, ReapGood, ReapIs DEF ExecInv
<1>9. ~Live(m0, p)
  BY <1>2, <1>6 DEF Good, Session, Started
<1>10. p \in m.reserved
  BY <1>7, <1>8, <1>9
<1> HIDE DEF m, P
<1>11. /\ Session(m, P, p) /\ m \in MgrType /\ P \in [Pids -> ProcType] /\ Counted(m) /\ m.bytes <= Budget /\
              P[p] \in ProcType /\ exec[p] \in ExecType
  BY <1>2, <1>8 DEF Good
<1>12. /\ ~Live(m, p) /\ ~Kept(m, p) /\ exec[p].alive = FALSE /\ exec[p].got = {} /\ execOut[p] = {} /\ p \notin m.initial
       /\ P[p].os = "none" /\ P[p].pipe = FALSE /\ P[p].closed = FALSE /\ P[p].arrived = 0 /\ m.retained[p] = {}
  BY <1>2, <1>11 DEF Session, Started, Rows
<1>13. PICK c \in {"done", "spawning"} : c = IF Full(m) THEN "done" ELSE "spawning"
  OBVIOUS
<1>14. /\ exec' \in [Pids -> ExecType] /\ \A q \in Pids \ {p} : exec'[q] = exec[q]
       /\ exec'[p].pc = c /\ exec'[p].alive = FALSE /\ exec'[p].got = {}
  <2>1. exec' = [exec EXCEPT ![p].pc = c]
    BY <1>5, <1>13
  <2> QED
    BY <1>2, <1>12, <2>1 DEF ExecType
<1>15. /\ mgr' \in MgrType /\ mgr'.completed = m.completed /\ mgr'.retained = m.retained /\ mgr'.bytes = m.bytes
       /\ ToSet(mgr'.live) = ToSet(m.live) /\ mgr'.initial = m.initial /\
              mgr'.reserved = (IF c = "done" THEN m.reserved \ {p} ELSE m.reserved)
  <2>1. CASE Full(m)
    <3>1. mgr' = Release(m, p) /\ c = "done"
      BY <1>5, <1>13, <2>1
    <3>2. /\ mgr' \in MgrType /\ mgr'.completed = m.completed /\ mgr'.retained = m.retained /\ mgr'.bytes = m.bytes
          /\ ToSet(mgr'.live) = ToSet(m.live) \ {p} /\ mgr'.initial = m.initial \ {p} /\ mgr'.reserved = m.reserved \ {p}
      BY <1>11, <3>1, ReleaseIs
    <3> QED
      BY <1>12, <3>1, <3>2 DEF Live
  <2>2. CASE ~Full(m)
    BY <1>5, <1>11, <1>13, <2>2
  <2> QED
    BY <2>1, <2>2
<1>16. /\ proc' \in [Pids -> ProcType] /\ \A q \in Pids \ {p} : proc'[q] = P[q]
       /\ proc'[p].buf = P[p].buf /\ proc'[p].arrived = 0 /\ proc'[p].closed = FALSE
  <2>1. CASE Full(m)
    BY <1>5, <1>11, <1>12, <2>1
  <2>2. CASE ~Full(m)
    <3>1. PICK b \in BOOLEAN : b = (a = "running")
      OBVIOUS
    <3>2. PICK o \in OsStates : o = a
      BY DEF OsStates
    <3> DEFINE y == [P[p] EXCEPT !.os = o, !.pipe = b]
    <3>3. y \in ProcType /\ y.buf = P[p].buf /\ y.arrived = P[p].arrived /\ y.closed = P[p].closed
      BY <1>11 DEF ProcType
    <3>4. proc' = [P EXCEPT ![p] = y]
      BY <1>5, <2>2, <3>1, <3>2
    <3> HIDE DEF y
    <3> QED
      BY <1>2, <1>11, <1>12, <3>3, <3>4
  <2> QED
    BY <2>1, <2>2
<1>17. Rest'
  <2>1. (\A w \in Writers : Waiting(w))' /\ (\A q \in Pids : Queue(q))'
    BY <1>1, CallsKept DEF ExecInv
  <2>2. \A q \in Pids : exec'[q].pc = "none" <=> q >= nextId'
    <3> TAKE q \in Pids
    <3>1. exec[q].pc = "none" <=> q >= nextId
      BY DEF ExecInv, Rest
    <3>2. q \in Nat
      BY DEF Pids
    <3>3. CASE q = p
      BY <1>1, <1>2, <1>13, <1>14, <3>3
    <3>4. CASE q # p
      BY <1>1, <1>2, <1>14, <3>1, <3>2, <3>4
    <3> QED
      BY <3>3, <3>4
  <2>3. \A q \in killing' : exec'[q].pc # "none"
    BY <1>1, <1>13, <1>14 DEF ExecInv, Rest
  <2> QED
    BY <1>1, <1>2, <1>14, <2>1, <2>2, <2>3 DEF ExecInv, Rest
<1>18. \A q \in Pids \ {p} : Same(m, P, mgr', proc', q) /\ SameCalls(q)
  BY <1>1, <1>14, <1>15, <1>16 DEF Same, SameCalls, Live, Kept
<1>19. Session(mgr, proc, p)'
  <2>1. Polling(p)' = Polling(p) /\ Polled(p)' = Polled(p)
    BY <1>1 DEF Polling, Polled
  <2>2. ~Live(mgr, p)' /\ ~Kept(mgr, p)' /\ p \notin mgr'.initial /\ mgr'.retained[p] = {} /\ (c = "spawning" =>
            p \in mgr'.reserved)
    BY <1>10, <1>12, <1>15 DEF Live, Kept
  <2>3. (Started(mgr, proc, p) /\ Rows(mgr, proc, p) /\ Closing(mgr, proc, p) /\ Reported(mgr, p))'
    BY <1>1, <1>2, <1>11, <1>12, <1>13, <1>14, <1>16, <2>2 DEF Session, Started, Rows, Closing, Reported
  <2>4. Output(m, P, p)
    BY <1>11 DEF Session
  <2>5. Output(mgr, proc, p)'
    <3>1. Apart(exec[p].got, Polling(p), proc[p].buf, mgr.retained[p], execOut[p], Polled(p), proc[p].arrived)'
      BY <1>1, <1>12, <1>14, <1>16, <2>1, <2>2, <2>4 DEF Output
    <3>2. 1..0 = {}
      OBVIOUS
    <3>3. Whole(exec[p].got, Polling(p), proc[p].buf, mgr.retained[p], execOut[p], Polled(p), proc[p].arrived, Open(mgr, p),
              Kept(mgr, p))'
      BY <1>16, <2>2, <3>2 DEF Whole
    <3> QED
      BY <3>1, <3>3 DEF Output
  <2>6. Ordered(pollLog[p])'
    BY <1>1, <1>11 DEF Session, Ordered
  <2> QED
    BY <2>3, <2>5, <2>6 DEF Session
<1>20. Counted(mgr)' /\ mgr'.bytes <= Budget
  BY <1>11, <1>15 DEF Counted
<1>21. Good(mgr, proc)'
  BY <1>1, <1>2, <1>8, <1>15, <1>16, <1>18, <1>19, <1>20, OneSession
<1> QED
  BY <1>17, <1>21 DEF ExecInv

-----------------------------------------------------------------------------
(* Polls. *)

LEMMA AnswerIs ==
  ASSUME NEW p \in Pids, NEW S \in SUBSET Chunks, Answer(p, S), pollLog \in [Pids -> Seq(SUBSET Chunks)],
         Ordered(pollLog[p]), \A c \in Polled(p), d \in S : c < d
  PROVE  /\ pollLog' \in [Pids -> Seq(SUBSET Chunks)] /\ \A q \in Pids \ {p} : pollLog'[q] = pollLog[q]
         /\ Polled(p)' = Polled(p) \union S /\ Ordered(pollLog[p])'
<1>1. CASE S = {}
  BY <1>1 DEF Answer, Polled
<1>2. CASE S # {}
  <2> DEFINE log == pollLog[p]
             new == Append(log, S)
             T == SUBSET Chunks
  <2>1. log \in Seq(T) /\ S \in T
    OBVIOUS
  <2>2. pollLog' = [pollLog EXCEPT ![p] = new]
    BY <1>2 DEF Answer
  <2> HIDE DEF log, T
  <2>3. /\ new \in Seq(T) /\ ToSet(new) = ToSet(log) \union {S}
        /\ DOMAIN new = DOMAIN log \union {Len(log) + 1} /\ Len(log) + 1 \notin DOMAIN log
        /\ new[Len(log) + 1] = S /\ \A i \in DOMAIN log : new[i] = log[i]
    BY <2>1, Appended
  <2> USE DEF T
  <2> HIDE DEF new
  <2>4. pollLog' \in [Pids -> Seq(SUBSET Chunks)] /\ (\A q \in Pids \ {p} : pollLog'[q] = pollLog[q]) /\ pollLog'[p] = new
    BY <2>2, <2>3
  <2>5. Polled(p) = UNION ToSet(log) /\ Polled(p)' = UNION ToSet(new)
    BY <2>4 DEF Polled, log
  <2>6. Polled(p)' = Polled(p) \union S
    BY <2>3, <2>5
  <2>7. Ordered(new)
    <3>1. Len(log) \in Nat /\ \A i \in DOMAIN log : i \in Nat /\ i <= Len(log)
      BY <2>1
    <3> SUFFICES ASSUME NEW i \in DOMAIN new, NEW j \in DOMAIN new, i < j, NEW c \in new[i], NEW d \in new[j] PROVE c < d
      BY DEF Ordered
    <3>2. i \in DOMAIN log
      BY <2>3, <3>1
    <3>3. c \in log[i]
      BY <2>3, <3>2
    <3>4. CASE j \in DOMAIN log
      <4>1. Ordered(log) /\ d \in log[j]
        BY <2>3, <3>4 DEF log
      <4> QED
        BY <3>2, <3>3, <3>4, <4>1 DEF Ordered
    <3>5. CASE j \notin DOMAIN log
      <4>1. d \in S
        BY <2>3, <3>5
      <4>2. log[i] \in ToSet(log)
        BY <3>2 DEF ToSet
      <4>3. c \in Polled(p)
        BY <2>5, <3>3, <4>2
      <4> QED
        BY <4>1, <4>3
    <3> QED
      BY <3>4, <3>5
  <2> QED
    BY <2>4, <2>6, <2>7
<1> QED
  BY <1>1, <1>2

Callers ==
  /\ writer \in [Writers -> WriterType] /\ lockQ \in [Pids -> Seq(Writers)]
  /\ \A w \in Writers : Waiting(w)
  /\ \A p \in Pids : Queue(p)

(* Only callers of session p move, if any. *)
CallsOn(p) ==
  /\ \A q \in Pids \ {p} : lockQ'[q] = lockQ[q]
  /\ \A v \in Writers : writer'[v] = writer[v] \/ (writer[v].pid \in {0, p} /\ writer'[v].pid \in {0, p})

LEMMA Joins ==
  ASSUME Callers, NEW w \in Writers, NEW p \in Pids, NEW y \in WriterType, writer[w].pc = "idle",
         y.pc = "locking", y.pid = p, y.got = {}, y.exited = FALSE,
         writer' = [writer EXCEPT ![w] = y], lockQ' = [lockQ EXCEPT ![p] = Append(@, w)]
  PROVE  Callers'
<1> DEFINE q == lockQ[p]
           new == Append(q, w)
<1>1. q \in Seq(Writers) /\ \A v \in Writers : Waiting(v)
  BY DEF Callers
<1> HIDE DEF q
<1>2. /\ new \in Seq(Writers) /\ ToSet(new) = ToSet(q) \union {w}
      /\ DOMAIN new = DOMAIN q \union {Len(q) + 1} /\ Len(q) + 1 \notin DOMAIN q
      /\ new[Len(q) + 1] = w /\ \A i \in DOMAIN q : new[i] = q[i]
  BY <1>1, Appended
<1>3. new # <<>> /\ (q # <<>> => Head(new) = Head(q))
  <2>1. Len(q) \in Nat /\ Len(new) = Len(q) + 1 /\ DOMAIN q = 1..Len(q) /\ (q # <<>> => Len(q) # 0)
    BY <1>1
  <2>2. new # <<>>
    BY <1>1
  <2>3. ASSUME q # <<>> PROVE Head(new) = Head(q)
    <3>1. Head(new) = new[1] /\ Head(q) = q[1] /\ 1 \in DOMAIN q
      BY <1>1, <1>2, <2>1, <2>2, <2>3
    <3> QED
      BY <1>2, <3>1
  <2> QED
    BY <2>2, <2>3
<1>4. /\ lockQ' \in [Pids -> Seq(Writers)] /\ lockQ'[p] = new /\ (\A r \in Pids \ {p} : lockQ'[r] = lockQ[r])
      /\ writer' \in [Writers -> WriterType] /\ writer'[w] = y /\ (\A v \in Writers \ {w} : writer'[v] = writer[v])
  BY <1>2 DEF Callers, q
<1> HIDE DEF new
<1>5. writer[w].pid = 0 /\ writer[w].pid # p
  <2>1. IdleWriter.pid = 0 /\ writer[w] = IdleWriter
    BY <1>1 DEF IdleWriter, Waiting
  <2> QED
    BY <2>1 DEF Pids
<1>6. ASSUME NEW v \in Writers PROVE Waiting(v)'
  <2>1. CASE v = w
    <3>1. w \in ToSet(new) /\ y.pc # "idle" /\ y.pc # "collecting"
      BY <1>2
    <3> QED
      BY <1>4, <2>1, <3>1 DEF Waiting
  <2>2. CASE v # w
    <3>1. writer'[v] = writer[v] /\ Waiting(v)
      BY <1>1, <1>4, <2>2
    <3>2. ASSUME writer[v].pc # "idle" PROVE writer[v].pid \in Pids /\ v \in ToSet(lockQ'[writer[v].pid])
      <4>1. writer[v].pid \in Pids /\ v \in ToSet(lockQ[writer[v].pid])
        BY <3>1, <3>2 DEF Waiting
      <4> QED
        BY <1>2, <1>4, <4>1 DEF q
    <3>3. ASSUME writer[v].pc = "collecting" PROVE HoldsLock(v, writer[v].pid)'
      <4>1. HoldsLock(v, writer[v].pid) /\ writer[v].pid \in Pids
        BY <3>1, <3>3 DEF Waiting
      <4>2. CASE writer[v].pid = p
        BY <1>3, <1>4, <3>1, <4>1, <4>2 DEF HoldsLock, q
      <4>3. CASE writer[v].pid # p
        BY <1>4, <3>1, <4>1, <4>3 DEF HoldsLock
      <4> QED
        BY <4>2, <4>3
    <3> QED
      BY <3>1, <3>2, <3>3 DEF Waiting
  <2> QED
    BY <2>1, <2>2
<1>7. ASSUME NEW r \in Pids PROVE Queue(r)'
  <2>1. Queue(r) /\ lockQ[r] \in Seq(Writers)
    BY DEF Callers
  <2>2. \A i \in DOMAIN lockQ[r] : lockQ[r][i] \in Writers
    BY <2>1
  <2>3. r # 0
    BY DEF Pids
  <2>4. \A i \in DOMAIN lockQ[r] : lockQ[r][i] # w /\ writer'[lockQ[r][i]].pid = r
    BY <1>4, <1>5, <2>1, <2>2, <2>3 DEF Queue
  <2>5. CASE r # p
    BY <1>4, <2>1, <2>4, <2>5 DEF Queue
  <2>6. CASE r = p
    <3>1. lockQ[r] = q /\ lockQ'[r] = new
      BY <1>4, <2>6 DEF q
    <3>2. \A i \in DOMAIN new : writer'[new[i]].pid = p
      BY <1>2, <1>4, <2>4, <2>6, <3>1
    <3>3. \A i, j \in DOMAIN new : new[i] = new[j] => i = j
      BY <1>2, <2>1, <2>4, <3>1 DEF Queue
    <3> QED
      BY <2>6, <3>1, <3>2, <3>3 DEF Queue
  <2> QED
    BY <2>5, <2>6
<1> QED
  BY <1>4, <1>6, <1>7 DEF Callers

LEMMA Leaves ==
  ASSUME Rest, NEW w \in Writers, NEW p \in Pids, p = writer[w].pid, writer[w].pc # "idle", HoldsLock(w, p), LeaveLock(w, p)
  PROVE  /\ Callers' /\ Polling(p)' = {} /\ lockQ[p] # <<>> /\ CallsOn(p)
         /\ \A v \in Writers : writer[v].pid = p /\ writer[v].exited = TRUE => v = w
<1> DEFINE q == lockQ[p]
           t == Tail(q)
<1>1. /\ q \in Seq(Writers) /\ (\A v \in Writers : Waiting(v)) /\ Queue(p) /\ writer \in [Writers -> WriterType]
      /\ lockQ \in [Pids -> Seq(Writers)] /\ \A r \in Pids : Queue(r)
  BY DEF Rest
<1>2. q # <<>> /\ Head(q) = w
  BY DEF HoldsLock
<1>3. \A i, j \in DOMAIN q : q[i] = q[j] => i = j
  BY <1>1 DEF Queue
<1> HIDE DEF q
<1>4. t \in Seq(Writers) /\ ToSet(t) = ToSet(q) \ {w} /\ \A i, j \in DOMAIN t : t[i] = t[j] => i = j
  BY <1>1, <1>2, <1>3, FirstLeaves
<1>5. PICK y \in WriterType : y = IdleWriter /\ y.pc = "idle" /\ y.pid = 0 /\ y.got = {}
  <2>1. PICK e \in SUBSET Chunks : e = {}
    OBVIOUS
  <2>2. PICK no \in BOOLEAN : no = FALSE
    OBVIOUS
  <2>3. PICK z \in Pids \union {0} : z = 0
    OBVIOUS
  <2> DEFINE y == [pc |-> "idle", pid |-> z, kind |-> "poll", exited |-> no, got |-> e]
  <2>4. y \in WriterType /\ y.pc = "idle" /\ y.pid = z /\ y.got = e
    BY DEF WriterType
  <2>5. y = IdleWriter
    BY <2>1, <2>2, <2>3 DEF IdleWriter
  <2> HIDE DEF y
  <2> QED
    BY <2>1, <2>3, <2>4, <2>5
<1>6. writer' = [writer EXCEPT ![w] = y] /\ lockQ' = [lockQ EXCEPT ![p] = t]
  BY <1>5 DEF LeaveLock, q
<1> HIDE DEF t
<1>7. /\ lockQ' \in [Pids -> Seq(Writers)] /\ lockQ'[p] = t /\ (\A r \in Pids \ {p} : lockQ'[r] = lockQ[r])
      /\ writer' \in [Writers -> WriterType] /\ writer'[w] = y /\ (\A v \in Writers \ {w} : writer'[v] = writer[v])
  BY <1>1, <1>4, <1>6
<1>8. /\ Polling(p) = writer[w].got
      /\ \A v \in Writers \ {w} : writer[v].pid = p => writer[v].got = {} /\ writer[v].exited = FALSE
  BY HolderOnly
<1>9. ASSUME NEW v \in Writers PROVE Waiting(v)'
  <2>1. CASE v = w
    BY <1>5, <1>7, <2>1 DEF Waiting
  <2>2. CASE v # w
    <3>1. writer'[v] = writer[v] /\ Waiting(v)
      BY <1>1, <1>7, <2>2
    <3>2. ASSUME writer[v].pc # "idle" PROVE writer[v].pid \in Pids /\ v \in ToSet(lockQ'[writer[v].pid])
      <4>1. writer[v].pid \in Pids /\ v \in ToSet(lockQ[writer[v].pid])
        BY <3>1, <3>2 DEF Waiting
      <4> QED
        BY <1>4, <1>7, <2>2, <4>1 DEF q
    <3>3. ASSUME writer[v].pc = "collecting" PROVE HoldsLock(v, writer[v].pid)'
      <4>1. HoldsLock(v, writer[v].pid) /\ writer[v].pid \in Pids
        BY <3>1, <3>3 DEF Waiting
      <4>2. writer[v].pid # p
        BY <1>2, <2>2, <4>1 DEF HoldsLock, q
      <4> QED
        BY <1>7, <3>1, <4>1, <4>2 DEF HoldsLock
    <3> QED
      BY <3>1, <3>2, <3>3 DEF Waiting
  <2> QED
    BY <2>1, <2>2
<1>10. ASSUME NEW r \in Pids PROVE Queue(r)'
  <2>1. Queue(r) /\ lockQ[r] \in Seq(Writers)
    BY <1>1
  <2>2. CASE r # p
    <3>1. lockQ'[r] = lockQ[r]
      BY <1>7, <2>2
    <3>2. \A i \in DOMAIN lockQ[r] : lockQ[r][i] \in Writers
      BY <2>1
    <3>3. \A i \in DOMAIN lockQ[r] : writer'[lockQ[r][i]].pid = r
      BY <1>7, <2>1, <2>2, <3>2 DEF Queue
    <3> QED
      BY <2>1, <3>1, <3>3 DEF Queue
  <2>3. CASE r = p
    <3>1. \A i \in DOMAIN t : t[i] \in Writers \ {w} /\ writer[t[i]].pid = p
      <4> TAKE i \in DOMAIN t
      <4>1. t[i] \in ToSet(q) \ {w}
        BY <1>4 DEF ToSet
      <4>2. PICK j \in DOMAIN q : t[i] = q[j]
        BY <4>1 DEF ToSet
      <4> QED
        BY <1>1, <4>1, <4>2 DEF Queue, q
    <3>2. \A i \in DOMAIN t : writer'[t[i]].pid = p
      BY <1>7, <3>1
    <3> QED
      BY <1>4, <1>7, <2>3, <3>2 DEF Queue
  <2> QED
    BY <2>2, <2>3
<1>11. Callers'
  BY <1>7, <1>9, <1>10 DEF Callers
<1>12. Polling(p)' = {}
  <2>1. p # 0
    BY DEF Pids
  <2>2. \A v \in Writers : writer'[v].pid = p => writer'[v].got = {}
    BY <1>5, <1>7, <1>8, <2>1
  <2> QED
    BY <2>2 DEF Polling
<1>13. CallsOn(p)
  BY <1>5, <1>7 DEF CallsOn
<1>14. \A v \in Writers : writer[v].pid = p /\ writer[v].exited = TRUE => v = w
  BY <1>8
<1> QED
  BY <1>2, <1>7, <1>11, <1>12, <1>13, <1>14 DEF q

(* A step of one poll, after a reap or not. *)
LEMMA PollOnly ==
  ASSUME Rest, NEW m, NEW P, Good(m, P), NEW p \in Pids, UNCHANGED <<nextId, exec, killing, phase, execOut>>, Callers',
         mgr' \in MgrType, Counted(mgr)', mgr'.bytes <= Budget, proc' \in [Pids -> ProcType],
         \A q \in Pids \ {p} : Same(m, P, mgr', proc', q),
         CallsOn(p), \A q \in Pids \ {p} : pollLog'[q] = pollLog[q] /\ (q \in over' <=> q \in over),
         pollLog' \in [Pids -> Seq(SUBSET Chunks)], over' \in SUBSET Pids, Ordered(pollLog[p])',
         (Started(mgr, proc, p) /\ Rows(mgr, proc, p) /\ Closing(mgr, proc, p) /\ Reported(mgr, p))',
         Output(mgr, proc, p)'
  PROVE  ExecInv'
<1>1. Rest'
  BY DEF Rest, Callers
<1>2. \A q \in Pids \ {p} : Same(m, P, mgr', proc', q) /\ SameCalls(q)
  <2> TAKE q \in Pids \ {p}
  <2>1. q \notin {0, p}
    BY DEF Pids
  <2> QED
    BY <2>1 DEF SameCalls, CallsOn
<1>3. Session(mgr, proc, p)'
  BY DEF Session
<1>4. Good(mgr, proc)'
  BY <1>2, <1>3, OneSession
<1> QED
  BY <1>1, <1>4 DEF ExecInv

LEMMA CallersOf ==
  ASSUME Rest, UNCHANGED <<writer, lockQ>>
  PROVE  Callers'
<1>1. (\A w \in Writers : Waiting(w))' /\ (\A p \in Pids : Queue(p))'
  BY CallsKept
<1> QED
  BY <1>1 DEF Rest, Callers

LEMMA WriteCallKeeps ==
  ASSUME ExecInv, NEW w \in Writers, NEW p \in Pids, NEW kind \in {"poll", "input"}, WriteCall(w, p, kind)
  PROVE  ExecInv'
<1> DEFINE m == Reap(mgr)
           P == ReapedProcs(mgr)
<1>1. UNCHANGED <<nextId, exec, killing, phase, execOut>> /\ proc' = P /\ writer[w].pc = "idle"
  BY DEF WriteCall
<1>2. Good(m, P) /\ Rest
  BY ReapGood DEF ExecInv
<1>3. /\ Kept(m, p) => mgr' = Consume(m, p) /\ Answer(p, m.retained[p]) /\ Final(p, TRUE) /\ UNCHANGED <<writer, lockQ>>
      /\ ~Kept(m, p) => mgr' = m /\ UNCHANGED <<pollLog, over>>
      /\ ~Kept(m, p) /\ Live(m, p) =>
           /\ writer' = [writer EXCEPT ![w] = [IdleWriter EXCEPT !.pc = "locking", !.pid = p, !.kind = kind]]
           /\ lockQ' = [lockQ EXCEPT ![p] = Append(@, w)]
      /\ ~Kept(m, p) /\ ~Live(m, p) => UNCHANGED <<writer, lockQ>>
  BY DEF WriteCall, Kept, Live
<1> HIDE DEF m, P
<1>4. /\ m \in MgrType /\ P \in [Pids -> ProcType] /\ Counted(m) /\ m.bytes <= Budget /\ Session(m, P, p) /\ P[p] \in ProcType
      /\ P[p].arrived \in Nat /\ m.retained[p] \in SUBSET Chunks
  <2>1. m \in MgrType /\ P \in [Pids -> ProcType] /\ Counted(m) /\ m.bytes <= Budget /\ Session(m, P, p) /\ P[p] \in ProcType
    BY <1>2 DEF Good
  <2> QED
    BY <2>1, SizeAssumption DEF ProcType, MgrType
<1>5. pollLog \in [Pids -> Seq(SUBSET Chunks)] /\ over \in SUBSET Pids /\ Ordered(pollLog[p]) /\ Callers
  BY <1>2, <1>4 DEF Rest, Session, Callers
<1>6. /\ Apart(exec[p].got, Polling(p), P[p].buf, m.retained[p], execOut[p], Polled(p), P[p].arrived)
      /\ Whole(exec[p].got, Polling(p), P[p].buf, m.retained[p], execOut[p], Polled(p), P[p].arrived, Open(m, p), Kept(m, p))
  BY <1>4 DEF Session, Output
<1>7. CASE Kept(m, p)
  <2>1. mgr' = Consume(m, p) /\ Answer(p, m.retained[p]) /\ Final(p, TRUE) /\ UNCHANGED <<writer, lockQ>>
    BY <1>3, <1>7
  <2>2. /\ mgr' \in MgrType /\ Counted(Consume(m, p)) /\ mgr'.bytes <= m.bytes
        /\ mgr'.live = m.live /\ mgr'.initial = m.initial /\ mgr'.reserved = m.reserved
        /\ ToSet(mgr'.completed) = ToSet(m.completed) \ {p}
        /\ \A q \in Pids : mgr'.retained[q] = IF q = p THEN {} ELSE m.retained[q]
    <3>1. /\ Consume(m, p) \in MgrType /\ Counted(Consume(m, p)) /\ Consume(m, p).bytes <= m.bytes
          /\ Consume(m, p).live = m.live /\ Consume(m, p).initial = m.initial /\ Consume(m, p).reserved = m.reserved
          /\ ToSet(Consume(m, p).completed) = ToSet(m.completed) \ {p}
          /\ \A q \in Pids : Consume(m, p).retained[q] = IF q = p THEN {} ELSE m.retained[q]
      BY <1>4, <1>7, ConsumeIs
    <3> QED
      BY <2>1, <3>1
  <2>3. Counted(mgr)' /\ mgr'.bytes <= Budget
    <3>1. Counted(mgr)'
      BY <2>1, <2>2 DEF Counted
    <3>2. mgr'.bytes \in Nat /\ m.bytes \in Nat
      BY <1>4, <2>2 DEF MgrType
    <3> QED
      BY <1>4, <2>2, <3>1, <3>2, SizeAssumption
  <2>4. \A c \in Polled(p), d \in m.retained[p] : c < d
    BY <1>6 DEF Apart
  <2>5. /\ pollLog' \in [Pids -> Seq(SUBSET Chunks)] /\ (\A q \in Pids \ {p} : pollLog'[q] = pollLog[q])
        /\ Polled(p)' = Polled(p) \union m.retained[p] /\ Ordered(pollLog[p])'
    BY <1>4, <1>5, <2>1, <2>4, AnswerIs
  <2>6. over' = over \union {p}
    BY <2>1 DEF Final
  <2>7. /\ ~Live(m, p) /\ p \notin m.initial /\ P[p].buf = {} /\ lockQ[p] = <<>> /\ exec[p].pc = "done"
    BY <1>4, <1>7 DEF Session, Rows
  <2>8. ~Live(mgr, p)' /\ ~Kept(mgr, p)' /\ ~Open(mgr, p)' /\ mgr'.retained[p] = {}
    BY <1>1, <2>2, <2>7 DEF Live, Kept, Open
  <2>9. Polling(p) = {} /\ Polling(p)' = Polling(p)
    BY <1>2, <2>1, <2>7, NoCallers DEF Polling
  <2>10. (Started(mgr, proc, p) /\ Rows(mgr, proc, p) /\ Closing(mgr, proc, p) /\ Reported(mgr, p))'
    BY <1>1, <1>4, <2>1, <2>2, <2>6, <2>7, <2>8 DEF Session, Started, Rows, Closing, Reported
  <2>11. Output(mgr, proc, p)'
    <3>1. Apart(exec[p].got, Polling(p), P[p].buf, {}, execOut[p], Polled(p) \union m.retained[p], P[p].arrived)
      BY <1>4, <1>6, <2>7, <2>9, OutConsumed
    <3>2. Apart(exec[p].got, Polling(p), proc[p].buf, mgr.retained[p], execOut[p], Polled(p), proc[p].arrived)'
      BY <1>1, <2>5, <2>8, <2>9, <3>1
    <3> QED
      BY <2>8, <3>2 DEF Output, Whole
  <2>12. \A q \in Pids \ {p} : Same(m, P, mgr', proc', q)
    BY <1>1, <2>2 DEF Same, Live, Kept
  <2>13. Callers'
    BY <1>2, <2>1, CallersOf
  <2>14. /\ CallsOn(p) /\ \A q \in Pids \ {p} : pollLog'[q] = pollLog[q] /\ (q \in over' <=> q \in over)
         /\ over' \in SUBSET Pids /\ proc' \in [Pids -> ProcType]
    BY <1>1, <1>4, <1>5, <2>1, <2>5, <2>6 DEF CallsOn
  <2> QED
    BY <1>1, <1>2, <2>2, <2>3, <2>5, <2>10, <2>11, <2>12, <2>13, <2>14, PollOnly
<1>8. CASE ~Kept(m, p) /\ Live(m, p)
  <2>1. PICK y \in WriterType : /\ y = [IdleWriter EXCEPT !.pc = "locking", !.pid = p, !.kind = kind]
                                /\ y.pc = "locking" /\ y.pid = p /\ y.got = {} /\ y.exited = FALSE
    <3>1. PICK e \in SUBSET Chunks : e = {}
      OBVIOUS
    <3>2. PICK no \in BOOLEAN : no = FALSE
      OBVIOUS
    <3>3. PICK at \in {"idle", "locking", "collecting"} : at = "locking"
      OBVIOUS
    <3>4. PICK i \in WriterType : i = IdleWriter /\ i.got = e /\ i.exited = no
      <4>1. PICK z \in Pids \union {0} : z = 0
        OBVIOUS
      <4> DEFINE i == [pc |-> "idle", pid |-> z, kind |-> "poll", exited |-> no, got |-> e]
      <4>2. i \in WriterType /\ i.got = e /\ i.exited = no
        BY DEF WriterType
      <4>3. i = IdleWriter
        BY <3>1, <3>2, <4>1 DEF IdleWriter
      <4> HIDE DEF i
      <4> QED
        BY <4>2, <4>3
    <3> DEFINE y == [i EXCEPT !.pc = at, !.pid = p, !.kind = kind]
    <3>5. y \in WriterType /\ y.pc = at /\ y.pid = p /\ y.got = i.got /\ y.exited = i.exited
      BY DEF WriterType
    <3>6. y = [IdleWriter EXCEPT !.pc = "locking", !.pid = p, !.kind = kind]
      BY <3>3, <3>4
    <3> HIDE DEF y
    <3> QED
      BY <3>1, <3>2, <3>3, <3>4, <3>5, <3>6
  <2>2. /\ mgr' = m /\ UNCHANGED <<pollLog, over>> /\ writer' = [writer EXCEPT ![w] = y] /\
               lockQ' = [lockQ EXCEPT ![p] = Append(@, w)]
    BY <1>3, <1>8, <2>1
  <2>3. Callers'
    BY <1>1, <1>5, <2>1, <2>2, Joins
  <2>4. writer \in [Writers -> WriterType] /\ lockQ \in [Pids -> Seq(Writers)] /\ writer[w] = IdleWriter
    BY <1>1, <1>5 DEF Callers, Waiting
  <2>5. writer[w].pid = 0 /\ writer[w].got = {} /\ p # 0 /\ writer[w].exited = FALSE
    BY <2>4 DEF IdleWriter, Pids
  <2>6. writer'[w] = y /\ (\A v \in Writers \ {w} : writer'[v] = writer[v]) /\ \A q \in Pids \ {p} : lockQ'[q] = lockQ[q]
    BY <2>2, <2>4
  <2>7. Polling(p)' = Polling(p)
    <3>1. \A v \in Writers : writer'[v].pid = p => (writer'[v].got = {} \/ (writer[v].pid = p /\ writer'[v].got = writer[v].got))
      BY <2>1, <2>6
    <3>2. \A v \in Writers : writer[v].pid = p => writer'[v] = writer[v]
      BY <2>5, <2>6
    <3> QED
      BY <3>1, <3>2 DEF Polling
  <2>8. (Live(mgr, p)' <=> Live(m, p)) /\ (Kept(mgr, p)' <=> Kept(m, p)) /\ (Open(mgr, p)' <=> Open(m, p)) /\
            Polled(p)' = Polled(p)
    BY <1>1, <2>2 DEF Live, Kept, Open, Polled
  <2>9. (Started(mgr, proc, p) /\ Rows(mgr, proc, p) /\ Closing(mgr, proc, p))'
    BY <1>1, <1>4, <1>8, <2>2, <2>8 DEF Session, Started, Rows, Closing
  <2>10. Reported(mgr, p)'
    BY <1>8, <2>8 DEF Reported
  <2>11. Output(mgr, proc, p)'
    BY <1>1, <1>6, <2>2, <2>7, <2>8 DEF Output, Whole
  <2>12. \A q \in Pids \ {p} : Same(m, P, mgr', proc', q)
    BY <1>1, <2>2 DEF Same, Live, Kept
  <2>13. /\ CallsOn(p) /\ \A q \in Pids \ {p} : pollLog'[q] = pollLog[q] /\ (q \in over' <=> q \in over)
         /\ over' \in SUBSET Pids /\ proc' \in [Pids -> ProcType] /\ mgr' \in MgrType /\ mgr'.bytes <= Budget
         /\ pollLog' \in [Pids -> Seq(SUBSET Chunks)]
    BY <1>1, <1>4, <1>5, <2>1, <2>2, <2>5, <2>6 DEF CallsOn
  <2>14. Counted(mgr)' /\ Ordered(pollLog[p])'
    BY <1>4, <1>5, <2>2 DEF Counted
  <2> QED
    BY <1>1, <1>2, <2>3, <2>9, <2>10, <2>11, <2>12, <2>13, <2>14, PollOnly
<1>9. CASE ~Kept(m, p) /\ ~Live(m, p)
  <2>1. Good(mgr', proc') /\ UNCHANGED <<nextId, exec, writer, lockQ, killing, phase, history>>
    BY <1>1, <1>2, <1>3, <1>9 DEF history
  <2> QED
    BY <2>1, Settled
<1> QED
  BY <1>7, <1>8, <1>9

(* The row of a session whose lock a call holds: it stays as it was, or is *)
(* released (goes).                                                        *)
LEMMA HeldRow ==
  ASSUME NEW p \in Pids, NEW goes \in BOOLEAN, Session(mgr, proc, p), lockQ[p] # <<>>, exec' = exec, phase' = phase,
         proc'[p].exited = proc[p].exited, proc'[p].closed = proc[p].closed, proc'[p].pipe = proc[p].pipe,
         proc'[p].os = proc[p].os, proc'[p].arrived = proc[p].arrived,
         execOut' = execOut, mgr'.retained[p] = mgr.retained[p],
         Kept(mgr, p)' <=> Kept(mgr, p),
         Live(mgr, p)' <=> Live(mgr, p) /\ ~goes,
         p \in mgr'.initial <=> p \in mgr.initial /\ ~goes,
         p \in mgr'.reserved <=> p \in mgr.reserved /\ ~goes
  PROVE  /\ (Started(mgr, proc, p) /\ Rows(mgr, proc, p) /\ Closing(mgr, proc, p))'
         /\ Open(mgr, p)' => Open(mgr, p)
         /\ exec[p].pc \notin {"none", "spawning"} /\ ~Kept(mgr, p) /\ ~Kept(mgr, p)' /\ mgr.retained[p] = {}
<1>1. exec[p].pc \notin {"none", "spawning"} /\ ~Kept(mgr, p) /\ mgr.retained[p] = {}
  BY DEF Session, Started, Rows
<1>2. exec'[p] = exec[p]
  OBVIOUS
<1>3. Started(mgr, proc, p)'
  BY <1>1, <1>2 DEF Session, Started
<1>4. Rows(mgr, proc, p)'
  BY <1>1, <1>2 DEF Session, Rows
<1>5. Closing(mgr, proc, p)'
  BY DEF Session, Rows, Closing
<1>6. Open(mgr, p)' => Open(mgr, p)
  BY <1>1, <1>2 DEF Open
<1> QED
  BY <1>1, <1>3, <1>4, <1>5, <1>6

LEMMA WriteRejectedKeeps ==
  ASSUME ExecInv, NEW w \in Writers, WriteRejected(w)
  PROVE  ExecInv'
<1>1. /\ UNCHANGED <<nextId, mgr, proc, exec, killing, phase, pollLog, execOut, over>> /\ writer[w].pc = "locking"
      /\ HoldsLock(w, writer[w].pid) /\ LeaveLock(w, writer[w].pid) /\ Rest /\ Good(mgr, proc)
  BY DEF WriteRejected, history, ExecInv
<1>2. PICK p \in Pids : p = writer[w].pid /\ Polling(p) = writer[w].got
  BY <1>1, HolderOnly
<1>3. /\ Callers' /\ Polling(p)' = {} /\ lockQ[p] # <<>>
      /\ CallsOn(p)
      /\ \A v \in Writers : writer[v].pid = p /\ writer[v].exited = TRUE => v = w
  BY <1>1, <1>2, Leaves
<1>4. writer[w].got = {} /\ writer[w].exited = FALSE
  BY <1>1 DEF Rest, Waiting
<1>5. /\ Session(mgr, proc, p) /\ Output(mgr, proc, p)
      /\ mgr' \in MgrType /\ mgr'.bytes <= Budget /\ proc' \in [Pids -> ProcType] /\ Counted(mgr)'
  BY <1>1 DEF Good, Session, Counted
<1>6. (Live(mgr, p)' <=> Live(mgr, p)) /\ (Kept(mgr, p)' <=> Kept(mgr, p)) /\ (Open(mgr, p)' <=> Open(mgr, p)) /\
          Polled(p)' = Polled(p)
  BY <1>1 DEF Live, Kept, Open, Polled
<1>7. ~Kept(mgr, p)
  BY <1>3, <1>5 DEF Session, Rows
<1>8. (Started(mgr, proc, p) /\ Rows(mgr, proc, p) /\ Closing(mgr, proc, p))'
  <2>1. PICK no \in BOOLEAN : no = FALSE
    OBVIOUS
  <2> QED
    BY <1>1, <1>3, <1>5, <1>6, <2>1, HeldRow
<1>9. Reported(mgr, p)'
  BY <1>1, <1>3, <1>4, <1>5, <1>6 DEF Session, Reported
<1>10. Output(mgr, proc, p)'
  BY <1>1, <1>2, <1>3, <1>4, <1>5, <1>6 DEF Output, Whole
<1>11. \A q \in Pids \ {p} : Same(mgr, proc, mgr', proc', q)
  BY <1>1 DEF Same, Live, Kept
<1>12. /\ \A q \in Pids \ {p} : pollLog'[q] = pollLog[q] /\ (q \in over' <=> q \in over)
       /\ over' \in SUBSET Pids /\ pollLog' \in [Pids -> Seq(SUBSET Chunks)] /\ Ordered(pollLog[p])'
  BY <1>1, <1>3, <1>5 DEF Rest, Session
<1> QED
  BY <1>1, <1>3, <1>5, <1>8, <1>9, <1>10, <1>11, <1>12, PollOnly

(* A step of the call that has the session's lock and keeps it. *)
Moves(w, p, y) ==
  /\ y.pid = p /\ y.pc = "collecting" /\ writer' = [writer EXCEPT ![w] = y] /\ lockQ' = lockQ
  /\ writer[w].pid = p /\ writer[w].pc # "idle" /\ HoldsLock(w, p)

LEMMA StillHolds ==
  ASSUME Rest, NEW w \in Writers, NEW p \in Pids, NEW y \in WriterType, Moves(w, p, y)
  PROVE  Callers' /\ Polling(p)' = y.got /\ lockQ[p] # <<>> /\ CallsOn(p)
<1>1. /\ writer' \in [Writers -> WriterType] /\ writer'[w] = y /\ (\A v \in Writers \ {w} : writer'[v] = writer[v])
      /\ lockQ \in [Pids -> Seq(Writers)] /\ p = writer[w].pid /\ writer[w].pc # "idle" /\ HoldsLock(w, p) /\ lockQ' = lockQ
      /\ y.pid = p /\ y.pc = "collecting"
  BY DEF Rest, Moves
<1>2. \A v \in Writers : Waiting(v)
  BY DEF Rest
<1>3. /\ Polling(p) = writer[w].got
      /\ \A v \in Writers \ {w} : writer[v].pid = p => writer[v].got = {} /\ writer[v].exited = FALSE
  <2>1. HoldsLock(w, writer[w].pid)
    BY <1>1
  <2>2. /\ Polling(writer[w].pid) = writer[w].got
        /\ \A v \in Writers \ {w} : writer[v].pid = writer[w].pid => writer[v].got = {} /\ writer[v].exited = FALSE
    BY <1>1, <2>1, HolderOnly
  <2> QED
    BY <1>1, <2>2
<1>4. ASSUME NEW v \in Writers PROVE Waiting(v)'
  <2>1. CASE v = w
    <3>1. w \in ToSet(lockQ[p]) /\ HoldsLock(w, p)
      BY <1>1, <1>2 DEF Waiting
    <3>2. y.pc # "idle" /\ y.pc # "locking"
      BY <1>1
    <3> QED
      BY <1>1, <2>1, <3>1, <3>2 DEF Waiting, HoldsLock
  <2>2. CASE v # w
    BY <1>1, <1>2, <2>2 DEF Waiting, HoldsLock
  <2> QED
    BY <2>1, <2>2
<1>5. ASSUME NEW q \in Pids PROVE Queue(q)'
  <2>1. Queue(q) /\ \A i \in DOMAIN lockQ[q] : lockQ[q][i] \in Writers
    BY <1>1 DEF Rest
  <2>2. \A v \in Writers : writer'[v].pid = writer[v].pid
    BY <1>1
  <2> QED
    BY <1>1, <2>1, <2>2 DEF Queue
<1>6. Callers'
  BY <1>1, <1>4, <1>5 DEF Callers
<1>7. Polling(p)' = y.got
  <2>1. \A v \in Writers \ {w} : writer'[v].pid = p => writer'[v].got = {}
    BY <1>1, <1>3
  <2>2. \A c \in Polling(p)' : c \in y.got
    BY <1>1, <2>1 DEF Polling
  <2>3. y.got \subseteq Polling(p)'
    BY <1>1 DEF Polling
  <2> QED
    BY <2>2, <2>3
<1>8. CallsOn(p)
  BY <1>1 DEF CallsOn
<1>9. lockQ[p] # <<>>
  BY <1>1 DEF HoldsLock
<1> QED
  BY <1>6, <1>7, <1>8, <1>9

LEMMA WriteBeginKeeps ==
  ASSUME ExecInv, NEW w \in Writers, NEW failed \in BOOLEAN, WriteBegin(w, failed)
  PROVE  ExecInv'
<1>1. /\ UNCHANGED <<nextId, proc, exec, lockQ, killing, phase, pollLog, execOut, over>> /\ writer[w].pc = "locking"
      /\ HoldsLock(w, writer[w].pid) /\ Live(mgr, writer[w].pid) /\ Rest /\ Good(mgr, proc)
      /\ writer' = [writer EXCEPT ![w].pc = "collecting", ![w].exited = failed]
      /\ mgr' = IF failed THEN Release(mgr, writer[w].pid) ELSE mgr
  BY DEF WriteBegin, history, ExecInv, Live
<1>2. PICK p \in Pids : p = writer[w].pid /\ Polling(p) = writer[w].got
  BY <1>1, HolderOnly
<1>3. writer[w].got = {} /\ writer[w].exited = FALSE /\ writer[w] \in WriterType
  BY <1>1 DEF Rest, Waiting
<1>4. PICK at \in {"idle", "locking", "collecting"} : at = "collecting"
  OBVIOUS
<1>5. PICK y \in WriterType : /\ y = [writer[w] EXCEPT !.pc = at, !.exited = failed]
                             /\ y.pc = at /\ y.pid = p /\ y.got = {} /\ y.exited = failed
  <2> DEFINE z == [writer[w] EXCEPT !.pc = at, !.exited = failed]
  <2>1. z \in WriterType /\ z.pc = at /\ z.pid = p /\ z.got = {} /\ z.exited = failed
    BY <1>2, <1>3 DEF WriterType
  <2>2. z = [writer[w] EXCEPT !.pc = at, !.exited = failed]
    OBVIOUS
  <2> HIDE DEF z
  <2> QED
    BY <2>1, <2>2
<1>6. writer' = [writer EXCEPT ![w] = y]
  BY <1>1, <1>4, <1>5
<1>7. /\ Callers' /\ Polling(p)' = {} /\ lockQ[p] # <<>> /\ CallsOn(p)
      /\ \A v \in Writers : writer[v].pid = p /\ writer[v].exited = TRUE => v = w
      /\ writer'[w] = y
  <2>1. writer[w].pc # "idle" /\ HoldsLock(w, p) /\ lockQ' = lockQ
    BY <1>1, <1>2
  <2>2. Moves(w, p, y)
    BY <1>2, <1>4, <1>5, <1>6, <2>1 DEF Moves
  <2>3. writer'[w] = y
    BY <1>1, <1>6 DEF Rest
  <2>4. Callers' /\ Polling(p)' = y.got /\ lockQ[p] # <<>> /\ CallsOn(p)
    BY <1>1, <2>2, StillHolds
  <2>5. \A v \in Writers : writer[v].pid = p /\ writer[v].exited = TRUE => v = w
    BY <1>1, <1>2, <2>1, HolderOnly
  <2> QED
    BY <1>5, <2>3, <2>4, <2>5
<1>8. /\ Session(mgr, proc, p) /\ Output(mgr, proc, p) /\ mgr \in MgrType /\ proc' \in [Pids -> ProcType] /\ ~Kept(mgr, p)
  BY <1>1, <1>2 DEF Good, Session, Rows
<1>9. /\ mgr' \in MgrType /\ mgr'.completed = mgr.completed /\ mgr'.retained = mgr.retained /\ mgr'.bytes = mgr.bytes
      /\ failed => mgr'.reserved = mgr.reserved \ {p} /\ mgr'.initial = mgr.initial \ {p} /\
             ToSet(mgr'.live) = ToSet(mgr.live) \ {p}
      /\ ~failed => mgr' = mgr
  <2>1. CASE failed
    BY <1>1, <1>2, <1>8, <2>1, ReleaseIs
  <2>2. CASE ~failed
    BY <1>1, <1>8, <2>2
  <2> QED
    BY <2>1, <2>2
<1>10. /\ Live(mgr, p)' <=> Live(mgr, p) /\ ~failed
       /\ ~Kept(mgr, p)'
       /\ Open(mgr, p)' => Open(mgr, p)
       /\ Polled(p)' = Polled(p)
  BY <1>1, <1>8, <1>9 DEF Live, Kept, Open, Polled
<1>11. (Started(mgr, proc, p) /\ Rows(mgr, proc, p) /\ Closing(mgr, proc, p))'
  <2>1. /\ p \in mgr'.initial <=> p \in mgr.initial /\ ~failed
        /\ p \in mgr'.reserved <=> p \in mgr.reserved /\ ~failed
    BY <1>9
  <2> QED
    BY <1>1, <1>7, <1>8, <1>9, <1>10, <2>1, HeldRow
<1>12. Reported(mgr, p)'
  <2>1. CASE failed = TRUE
    BY <1>2, <1>5, <1>7, <2>1 DEF Reported
  <2>2. CASE failed = FALSE
    BY <1>1, <1>2, <1>10, <2>2 DEF Reported
  <2> QED
    BY <2>1, <2>2
<1>13. Output(mgr, proc, p)'
  <2>1. Polling(p)' = Polling(p)
    BY <1>2, <1>3, <1>7
  <2> QED
    BY <1>1, <1>8, <1>9, <1>10, <2>1 DEF Output, Whole
<1>14. \A q \in Pids \ {p} : Same(mgr, proc, mgr', proc', q)
  BY <1>1, <1>9 DEF Same, Live, Kept
<1>15. /\ \A q \in Pids \ {p} : pollLog'[q] = pollLog[q] /\ (q \in over' <=> q \in over)
       /\ over' \in SUBSET Pids /\ pollLog' \in [Pids -> Seq(SUBSET Chunks)] /\ Ordered(pollLog[p])'
  BY <1>1, <1>2, <1>5, <1>7, <1>8 DEF Rest, Session
<1>16. Counted(mgr)' /\ mgr'.bytes <= Budget
  BY <1>1, <1>9 DEF Good, Counted
<1> QED
  BY <1>1, <1>7, <1>8, <1>9, <1>11, <1>12, <1>13, <1>14, <1>15, <1>16, PollOnly

LEMMA WriteDrainKeeps ==
  ASSUME ExecInv, NEW w \in Writers, WriteDrain(w)
  PROVE  ExecInv'
<1>1. /\ UNCHANGED <<nextId, mgr, exec, lockQ, killing, phase, pollLog, execOut, over>> /\ writer[w].pc = "collecting"
      /\ Rest /\ Good(mgr, proc) /\ proc' = Drained(writer[w].pid)
      /\ writer' = [writer EXCEPT ![w].got = @ \union proc[writer[w].pid].buf]
  BY DEF WriteDrain, history, ExecInv
<1>2. HoldsLock(w, writer[w].pid) /\ writer[w] \in WriterType
  BY <1>1 DEF Rest, Waiting
<1>3. PICK p \in Pids : p = writer[w].pid /\ Polling(p) = writer[w].got
  BY <1>1, <1>2, HolderOnly
<1>4. /\ Session(mgr, proc, p) /\ proc[p] \in ProcType /\ proc[p].arrived \in Nat
      /\ Apart(exec[p].got, Polling(p), proc[p].buf, mgr.retained[p], execOut[p], Polled(p), proc[p].arrived)
      /\ Whole(exec[p].got, Polling(p), proc[p].buf, mgr.retained[p], execOut[p], Polled(p), proc[p].arrived, Open(mgr, p),
             Kept(mgr, p))
  BY OutputOf
<1>5. PICK s \in SUBSET Chunks : s = writer[w].got \union proc[p].buf
  BY <1>2, <1>4 DEF WriterType, ProcType
<1>6. PICK y \in WriterType : /\ y = [writer[w] EXCEPT !.got = s]
                             /\ y.pc = "collecting" /\ y.pid = p /\ y.got = s /\ y.exited = writer[w].exited
  <2> DEFINE z == [writer[w] EXCEPT !.got = s]
  <2>1. z \in WriterType /\ z.pc = "collecting" /\ z.pid = p /\ z.got = s /\ z.exited = writer[w].exited
    BY <1>1, <1>2, <1>3 DEF WriterType
  <2>2. z = [writer[w] EXCEPT !.got = s]
    OBVIOUS
  <2> HIDE DEF z
  <2> QED
    BY <2>1, <2>2
<1>7. writer' = [writer EXCEPT ![w] = y]
  BY <1>1, <1>3, <1>5, <1>6
<1>8. /\ Callers' /\ Polling(p)' = s /\ lockQ[p] # <<>> /\ CallsOn(p)
      /\ \A v \in Writers : writer'[v].pid = writer[v].pid /\ writer'[v].exited = writer[v].exited
  <2>1. writer[w].pc # "idle" /\ HoldsLock(w, p) /\ lockQ' = lockQ
    BY <1>1, <1>2, <1>3
  <2>2. Moves(w, p, y)
    BY <1>3, <1>6, <1>7, <2>1 DEF Moves
  <2>3. \A v \in Writers : writer'[v] = IF v = w THEN y ELSE writer[v]
    BY <1>1, <1>7 DEF Rest
  <2>4. /\ Callers' /\ Polling(p)' = y.got /\ lockQ[p] # <<>> /\ CallsOn(p)
    BY <1>1, <2>2, StillHolds
  <2>5. \A v \in Writers : writer'[v].pid = writer[v].pid /\ writer'[v].exited = writer[v].exited
    BY <1>3, <1>6, <2>3
  <2> QED
    BY <1>6, <2>4, <2>5
<1>9. /\ proc' \in [Pids -> ProcType] /\ (\A q \in Pids \ {p} : proc'[q] = proc[q])
      /\ proc'[p].os = proc[p].os /\ proc'[p].buf = {} /\ proc'[p].arrived = proc[p].arrived /\ proc'[p].pipe = proc[p].pipe
      /\ proc'[p].exited = proc[p].exited /\ proc'[p].closed = proc[p].closed
  BY <1>1, <1>3, DrainedIs DEF Good
<1>10. /\ Live(mgr, p)' <=> Live(mgr, p)
       /\ Kept(mgr, p)' <=> Kept(mgr, p)
       /\ Open(mgr, p)' <=> Open(mgr, p)
       /\ Polled(p)' = Polled(p)
  BY <1>1 DEF Live, Kept, Open, Polled
<1>11. (Started(mgr, proc, p) /\ Rows(mgr, proc, p) /\ Closing(mgr, proc, p))'
  <2>1. PICK no \in BOOLEAN : no = FALSE
    OBVIOUS
  <2> QED
    BY <1>1, <1>4, <1>8, <1>9, <1>10, <2>1, HeldRow
<1>12. Reported(mgr, p)'
  BY <1>1, <1>4, <1>8, <1>10 DEF Session, Reported
<1>13. Output(mgr, proc, p)'
  <2>1. Apart(exec[p].got, Polling(p) \union proc[p].buf, {}, mgr.retained[p], execOut[p], Polled(p), proc[p].arrived)
    BY <1>4, OutTakenByPoll
  <2>2. Apart(exec[p].got, Polling(p), proc[p].buf, mgr.retained[p], execOut[p], Polled(p), proc[p].arrived)'
    BY <1>1, <1>3, <1>5, <1>8, <1>9, <1>10, <2>1
  <2>3. Whole(exec[p].got, Polling(p), proc[p].buf, mgr.retained[p], execOut[p], Polled(p), proc[p].arrived, Open(mgr, p),
            Kept(mgr, p))'
    <3>1. /\ exec'[p].got = exec[p].got /\ mgr'.retained[p] = mgr.retained[p] /\ execOut'[p] = execOut[p]
          /\ Polling(p)' = Polling(p) \union proc[p].buf /\ proc'[p].buf = {} /\ proc'[p].arrived = proc[p].arrived
      BY <1>1, <1>3, <1>5, <1>8, <1>9
    <3>2. ASSUME Open(mgr, p)'
          PROVE  1..proc'[p].arrived \subseteq proc'[p].buf \union (exec'[p].got \union Polling(p)')
                                                  \union (execOut'[p] \union Polled(p)')
      <4>1. 1..proc[p].arrived \subseteq proc[p].buf \union (exec[p].got \union Polling(p)) \union (execOut[p] \union Polled(p))
        BY <1>4, <1>10, <3>2 DEF Whole
      <4> QED
        BY <1>10, <3>1, <4>1
    <3>3. Kept(mgr, p)' => mgr'.retained[p] = {} \/ 1..proc'[p].arrived \subseteq mgr'.retained[p] \union (execOut'[p] \union
              Polled(p)')
      BY <1>4, <1>10, <3>1 DEF Whole
    <3> QED
      BY <3>2, <3>3 DEF Whole
  <2> QED
    BY <2>2, <2>3 DEF Output
<1>14. \A q \in Pids \ {p} : Same(mgr, proc, mgr', proc', q)
  BY <1>1, <1>9 DEF Same, Live, Kept
<1>15. /\ \A q \in Pids \ {p} : pollLog'[q] = pollLog[q] /\ (q \in over' <=> q \in over)
       /\ over' \in SUBSET Pids /\ pollLog' \in [Pids -> Seq(SUBSET Chunks)] /\ Ordered(pollLog[p])'
  BY <1>1, <1>3, <1>4, <1>6, <1>8 DEF Rest, Session
<1>16. Counted(mgr)' /\ mgr'.bytes <= Budget /\ mgr' \in MgrType
  BY <1>1 DEF Good, Counted
<1> QED
  BY <1>1, <1>8, <1>9, <1>11, <1>12, <1>13, <1>14, <1>15, <1>16, PollOnly

LEMMA WriteReturnKeeps ==
  ASSUME ExecInv, NEW w \in Writers, WriteReturn(w)
  PROVE  ExecInv'
<1>1. Rest /\ Good(mgr, proc) /\ writer[w].pc = "collecting"
  BY DEF WriteReturn, ExecInv
<1>2. HoldsLock(w, writer[w].pid) /\ writer[w] \in WriterType
  BY <1>1 DEF Rest, Waiting
<1>3. PICK p \in Pids : p = writer[w].pid /\ Polling(p) = writer[w].got
  BY <1>1, <1>2, HolderOnly
<1> DEFINE s == writer[w].got \union proc[p].buf
<1>4. PICK ended \in BOOLEAN : ended <=> writer[w].exited \/ proc[p].exited
  OBVIOUS
<1>5. /\ UNCHANGED <<nextId, exec, killing, phase, execOut>> /\ proc' = Drained(p) /\ LeaveLock(w, p)
      /\ Live(mgr, p) \/ ended =>
           /\ Answer(p, s) /\ Final(p, writer[w].exited \/ proc[p].exited)
           /\ mgr' = IF writer[w].exited THEN mgr ELSE Refresh(mgr, p)
      /\ ~(Live(mgr, p) \/ ended) => UNCHANGED <<mgr, pollLog, over>>
  BY <1>3, <1>4 DEF WriteReturn, Live
<1>6. /\ Callers' /\ Polling(p)' = {} /\ lockQ[p] # <<>>
      /\ CallsOn(p)
      /\ \A v \in Writers : writer[v].pid = p /\ writer[v].exited = TRUE => v = w
  BY <1>1, <1>2, <1>3, <1>5, Leaves
<1>7. /\ Session(mgr, proc, p) /\ proc[p] \in ProcType /\ proc[p].arrived \in Nat
      /\ Apart(exec[p].got, Polling(p), proc[p].buf, mgr.retained[p], execOut[p], Polled(p), proc[p].arrived)
      /\ Whole(exec[p].got, Polling(p), proc[p].buf, mgr.retained[p], execOut[p], Polled(p), proc[p].arrived, Open(mgr, p),
             Kept(mgr, p))
  BY OutputOf
<1>8. /\ proc' \in [Pids -> ProcType] /\ (\A q \in Pids \ {p} : proc'[q] = proc[q])
      /\ proc'[p].os = proc[p].os /\ proc'[p].buf = {} /\ proc'[p].arrived = proc[p].arrived /\ proc'[p].pipe = proc[p].pipe
      /\ proc'[p].exited = proc[p].exited /\ proc'[p].closed = proc[p].closed
  BY <1>1, <1>5, DrainedIs DEF Good
<1>9. ~Kept(mgr, p) /\ mgr.retained[p] = {} /\ mgr \in MgrType
  BY <1>1, <1>6, <1>7 DEF Session, Rows, Good
<1>10. s \in SUBSET Chunks /\ writer[w].exited \in BOOLEAN /\ proc[p].exited \in BOOLEAN
  BY <1>2, <1>7 DEF WriterType, ProcType
<1>11. /\ pollLog \in [Pids -> Seq(SUBSET Chunks)] /\ over \in SUBSET Pids /\ Ordered(pollLog[p])
  BY <1>1, <1>6, <1>7 DEF Rest, Session
<1> HIDE DEF s
<1>12. CASE Live(mgr, p) \/ ended
  <2>1. PICK goes \in BOOLEAN : goes <=> writer[w].exited = FALSE /\ proc[p].exited = TRUE
    OBVIOUS
  <2>2. mgr' = IF goes THEN Release(mgr, p) ELSE mgr
    BY <1>5, <1>10, <1>12, <2>1 DEF Refresh
  <2>3. /\ mgr' \in MgrType /\ mgr'.completed = mgr.completed /\ mgr'.retained = mgr.retained /\ mgr'.bytes = mgr.bytes
        /\ goes => mgr'.reserved = mgr.reserved \ {p} /\ mgr'.initial = mgr.initial \ {p} /\
               ToSet(mgr'.live) = ToSet(mgr.live) \ {p}
        /\ ~goes => mgr' = mgr
    <3>1. CASE goes
      BY <1>9, <2>2, <3>1, ReleaseIs
    <3>2. CASE ~goes
      BY <1>9, <2>2, <3>2
    <3> QED
      BY <3>1, <3>2
  <2>4. \A c \in Polled(p), d \in s : c < d
    <3>1. \A c \in Polled(p), d \in proc[p].buf \union Polling(p) : c < d
      BY <1>7 DEF Apart
    <3>2. s = proc[p].buf \union Polling(p)
      BY <1>3 DEF s
    <3> QED
      BY <3>1, <3>2
  <2>5. /\ pollLog' \in [Pids -> Seq(SUBSET Chunks)] /\ (\A q \in Pids \ {p} : pollLog'[q] = pollLog[q])
        /\ Polled(p)' = Polled(p) \union s /\ Ordered(pollLog[p])'
    BY <1>5, <1>10, <1>11, <1>12, <2>4, AnswerIs
  <2>6. over' = IF ended THEN over \union {p} ELSE over
    BY <1>4, <1>5, <1>12 DEF Final
  <2>7. over' \in SUBSET Pids /\ (\A q \in Pids \ {p} : q \in over' <=> q \in over) /\ (p \in over' <=> p \in over \/ ended)
    BY <1>11, <2>6
  <2>8. /\ Live(mgr, p)' <=> Live(mgr, p) /\ ~goes
        /\ ~Kept(mgr, p)'
        /\ Open(mgr, p)' => Open(mgr, p)
    BY <1>5, <1>9, <2>3 DEF Live, Kept, Open
  <2>9. (Started(mgr, proc, p) /\ Rows(mgr, proc, p) /\ Closing(mgr, proc, p))'
    <3>1. /\ p \in mgr'.initial <=> p \in mgr.initial /\ ~goes
          /\ p \in mgr'.reserved <=> p \in mgr.reserved /\ ~goes
      BY <2>3
    <3> QED
      BY <1>5, <1>6, <1>7, <1>8, <1>9, <2>3, <2>8, <3>1, HeldRow
  <2>10. Reported(mgr, p)'
    BY <1>4, <1>10, <1>12, <2>1, <2>7, <2>8 DEF Reported
  <2>11. Output(mgr, proc, p)'
    <3>1. Apart(exec[p].got, {}, {}, mgr.retained[p], execOut[p], Polled(p) \union (Polling(p) \union proc[p].buf),
              proc[p].arrived)
      BY <1>7, <1>9, OutPolled
    <3>2. Polled(p)' = Polled(p) \union (Polling(p) \union proc[p].buf)
      BY <1>3, <2>5 DEF s
    <3>3. Apart(exec[p].got, Polling(p), proc[p].buf, mgr.retained[p], execOut[p], Polled(p), proc[p].arrived)'
      BY <1>5, <1>6, <1>8, <2>3, <3>1, <3>2
    <3>4. Whole(exec[p].got, Polling(p), proc[p].buf, mgr.retained[p], execOut[p], Polled(p), proc[p].arrived, Open(mgr, p),
              Kept(mgr, p))'
      BY <1>5, <1>6, <1>7, <1>8, <2>3, <2>8, <3>2 DEF Whole
    <3> QED
      BY <3>3, <3>4 DEF Output
  <2>12. \A q \in Pids \ {p} : Same(mgr, proc, mgr', proc', q)
    BY <1>8, <2>3 DEF Same, Live, Kept
  <2>13. Counted(mgr)' /\ mgr'.bytes <= Budget
    BY <1>1, <2>3 DEF Good, Counted
  <2> QED
    BY <1>1, <1>5, <1>6, <1>8, <1>11, <2>3, <2>5, <2>7, <2>9, <2>10, <2>11, <2>12, <2>13, PollOnly
<1>13. CASE ~(Live(mgr, p) \/ ended)
  <2>1. UNCHANGED <<mgr, pollLog, over>>
    BY <1>5, <1>13
  <2>2. ~Live(mgr, p)' /\ ~Kept(mgr, p)' /\ (Open(mgr, p)' <=> Open(mgr, p)) /\ Polled(p)' = Polled(p)
    BY <1>5, <1>9, <1>13, <2>1 DEF Live, Kept, Open, Polled
  <2>3. (Started(mgr, proc, p) /\ Rows(mgr, proc, p) /\ Closing(mgr, proc, p))'
    <3>1. PICK no \in BOOLEAN : no = FALSE
      OBVIOUS
    <3> QED
      BY <1>5, <1>6, <1>7, <1>8, <1>9, <1>13, <2>1, <2>2, <3>1, HeldRow
  <2>4. Reported(mgr, p)'
    BY <1>4, <1>5, <1>6, <1>7, <1>9, <1>10, <1>13, <2>1 DEF Session, Reported
  <2>5. exec[p].pc \notin {"none", "spawning"}
    BY <1>6, <1>7 DEF Session, Started
  <2>6. Output(mgr, proc, p)'
    <3>1. Apart(exec[p].got, Polling(p), proc[p].buf, mgr.retained[p], execOut[p], Polled(p), proc[p].arrived)'
      BY <1>5, <1>6, <1>7, <1>8, <2>1, <2>2, OutDropped
    <3>2. Whole(exec[p].got, Polling(p), proc[p].buf, mgr.retained[p], execOut[p], Polled(p), proc[p].arrived, Open(mgr, p),
              Kept(mgr, p))'
      BY <1>13, <2>2, <2>5 DEF Whole, Open
    <3> QED
      BY <3>1, <3>2 DEF Output
  <2>7. \A q \in Pids \ {p} : Same(mgr, proc, mgr', proc', q)
    BY <1>8, <2>1 DEF Same, Live, Kept
  <2>8. /\ \A q \in Pids \ {p} : pollLog'[q] = pollLog[q] /\ (q \in over' <=> q \in over)
        /\ over' \in SUBSET Pids /\ pollLog' \in [Pids -> Seq(SUBSET Chunks)] /\ Ordered(pollLog[p])'
        /\ mgr' \in MgrType /\ Counted(mgr)' /\ mgr'.bytes <= Budget
    BY <1>1, <1>6, <1>9, <1>11, <2>1 DEF Good, Counted
  <2> QED
    BY <1>1, <1>5, <1>6, <1>8, <1>11, <2>3, <2>4, <2>6, <2>7, <2>8, PollOnly
<1> QED
  BY <1>12, <1>13

-----------------------------------------------------------------------------
(* The invariant holds at the start and in every step.                     *)

LEMMA ExecInit ==
  ASSUME Init
  PROVE  ExecInv
<1>1. PICK none \in SUBSET Chunks : none = {}
  OBVIOUS
<1>2. PICK no \in BOOLEAN : no = FALSE
  OBVIOUS
<1>3. PICK zero \in 0..MaxChunks : zero = 0
  BY SizeAssumption
<1>4. PICK nobody \in Pids \union {0} : nobody = 0
  OBVIOUS
<1>5. PICK idle \in Seq(Writers) : idle = <<>>
  <2>1. <<>> \in Seq(Writers)
    OBVIOUS
  <2> QED
    BY <2>1
<1>6. PICK silent \in Seq(SUBSET Chunks) : silent = <<>>
  <2>1. <<>> \in Seq(SUBSET Chunks)
    OBVIOUS
  <2> QED
    BY <2>1
<1>7. PICK empty \in Seq(Pids) : empty = <<>>
  <2>1. <<>> \in Seq(Pids)
    OBVIOUS
  <2> QED
    BY <2>1
<1>8. DOMAIN idle = {} /\ DOMAIN silent = {} /\ DOMAIN empty = {}
  BY <1>5, <1>6, <1>7
<1>9. ToSet(idle) = {} /\ ToSet(silent) = {} /\ ToSet(empty) = {}
  BY <1>8 DEF ToSet
<1>10. /\ \A p \in Pids : exec[p].pc = "none" /\ exec[p].alive = no /\ exec[p].got = none
       /\ exec \in [Pids -> ExecType]
  <2> DEFINE y == [pc |-> "none", alive |-> no, got |-> none]
  <2>1. y \in ExecType /\ y.pc = "none" /\ y.alive = no /\ y.got = none
    BY DEF ExecType
  <2>2. exec = [p \in Pids |-> y]
    BY <1>1, <1>2 DEF Init
  <2> HIDE DEF y
  <2> QED
    BY <2>1, <2>2
<1>11. /\ \A p \in Pids : /\ proc[p].os = "none" /\ proc[p].pipe = no /\ proc[p].exited = no /\ proc[p].closed = no
                          /\ proc[p].arrived = zero /\ proc[p].buf = none
       /\ proc \in [Pids -> ProcType]
  <2>1. PICK o \in OsStates : o = "none"
    BY DEF OsStates
  <2> DEFINE y == [os |-> o, pipe |-> no, exited |-> no, closed |-> no, arrived |-> zero, buf |-> none]
  <2>2. y \in ProcType /\ y.os = o /\ y.pipe = no /\ y.exited = no /\ y.closed = no /\ y.arrived = zero /\ y.buf = none
    BY DEF ProcType
  <2>3. proc = [p \in Pids |-> y]
    BY <1>1, <1>2, <1>3, <2>1 DEF Init
  <2> HIDE DEF y
  <2> QED
    BY <2>1, <2>2, <2>3
<1>12. /\ \A w \in Writers : writer[w] = IdleWriter
       /\ writer \in [Writers -> WriterType] /\ IdleWriter.pc = "idle" /\ IdleWriter.pid = 0
  <2> DEFINE y == [pc |-> "idle", pid |-> nobody, kind |-> "poll", exited |-> no, got |-> none]
  <2>1. y \in WriterType /\ y.pc = "idle" /\ y.pid = nobody
    BY DEF WriterType
  <2>2. y = IdleWriter
    BY <1>1, <1>2, <1>4 DEF IdleWriter
  <2> HIDE DEF y
  <2>3. writer = [w \in Writers |-> y]
    BY <2>2 DEF Init
  <2> QED
    BY <1>4, <2>1, <2>2, <2>3
<1>13. /\ mgr.live = empty /\ mgr.initial = {} /\ mgr.reserved = {} /\ mgr.completed = empty /\ mgr.bytes = 0
       /\ \A p \in Pids : mgr.retained[p] = none
       /\ mgr \in MgrType
  <2>1. PICK keep \in [Pids -> SUBSET Chunks] : keep = [p \in Pids |-> none]
    OBVIOUS
  <2>2. PICK i \in SUBSET Pids : i = {}
    OBVIOUS
  <2>3. PICK n \in Nat : n = 0
    OBVIOUS
  <2> DEFINE y == [live |-> empty, initial |-> i, reserved |-> i, completed |-> empty, retained |-> keep, bytes |-> n]
  <2>4. /\ y \in MgrType /\ y.live = empty /\ y.initial = i /\ y.reserved = i /\ y.completed = empty /\ y.bytes = n
        /\ y.retained = keep
    BY DEF MgrType
  <2>5. mgr = y
    BY <1>1, <1>7, <2>1, <2>2, <2>3 DEF Init
  <2> HIDE DEF y
  <2> QED
    BY <2>1, <2>2, <2>3, <2>4, <2>5
<1>14. /\ lockQ = [p \in Pids |-> idle] /\ pollLog = [p \in Pids |-> silent] /\ execOut = [p \in Pids |-> none]
       /\ nextId = 1 /\ killing = {} /\ phase = "up" /\ over = {}
  BY <1>1, <1>5, <1>6 DEF Init
<1>15. \A p \in Pids : lockQ[p] = idle /\ pollLog[p] = silent /\ execOut[p] = none
  BY <1>14
<1>16. Rest
  <2>1. /\ nextId \in 1..(MaxCalls + 1) /\ killing \in SUBSET Pids /\ phase \in {"up", "stopping", "down"} /\ over \in SUBSET Pids
    BY <1>14, CallsAssumption
  <2>2. lockQ \in [Pids -> Seq(Writers)] /\ pollLog \in [Pids -> Seq(SUBSET Chunks)] /\ execOut \in [Pids -> SUBSET Chunks]
    <3> DEFINE Logs == Seq(SUBSET Chunks)
    <3>1. silent \in Logs
      OBVIOUS
    <3> HIDE DEF Logs
    <3>2. pollLog \in [Pids -> Logs]
      BY <1>14, <3>1
    <3> QED
      BY <1>14, <3>2 DEF Logs
  <2>3. \A p \in Pids : exec[p].pc = "none" <=> p >= nextId
    BY <1>10, <1>14, CallsAssumption DEF Pids
  <2>4. \A w \in Writers : Waiting(w)
    BY <1>12 DEF Waiting
  <2>5. \A p \in Pids : Queue(p)
    BY <1>8, <1>15 DEF Queue
  <2> QED
    BY <1>10, <1>12, <1>14, <2>1, <2>2, <2>3, <2>4, <2>5 DEF Rest
<1>17. ASSUME NEW p \in Pids PROVE Session(mgr, proc, p)
  <2>1. ~Live(mgr, p) /\ ~Kept(mgr, p)
    BY <1>9, <1>13 DEF Live, Kept
  <2>2. lockQ[p] = <<>> /\ Polling(p) = {}
    BY <1>5, <1>15, <1>16, NoCallers
  <2>3. Polled(p) = {}
    BY <1>9, <1>15 DEF Polled
  <2>4. Started(mgr, proc, p)
    BY <1>1, <1>2, <1>3, <1>10, <1>11, <1>15, <2>1, <2>2 DEF Started
  <2>5. Rows(mgr, proc, p) /\ Closing(mgr, proc, p)
    BY <1>1, <1>2, <1>11, <1>13, <2>1 DEF Rows, Closing
  <2>6. Apart(exec[p].got, Polling(p), proc[p].buf, mgr.retained[p], execOut[p], Polled(p), proc[p].arrived)
    BY <1>1, <1>3, <1>10, <1>11, <1>13, <1>15, <2>2, <2>3 DEF Apart
  <2>7. Whole(exec[p].got, Polling(p), proc[p].buf, mgr.retained[p], execOut[p], Polled(p), proc[p].arrived, Open(mgr, p),
            Kept(mgr, p))
    <3>1. 1..proc[p].arrived = {}
      BY <1>3, <1>11
    <3> QED
      BY <2>1, <3>1 DEF Whole
  <2>8. Ordered(pollLog[p])
    BY <1>8, <1>15 DEF Ordered
  <2>9. Reported(mgr, p)
    BY <1>2, <1>10 DEF Reported
  <2> QED
    BY <2>4, <2>5, <2>6, <2>7, <2>8, <2>9 DEF Session, Output
<1>18. Counted(mgr) /\ mgr.bytes <= Budget
  <2>1. Bytes(mgr.retained, ToSet(mgr.completed)) = 0
    <3>1. ToSet(mgr.completed) = {}
      BY <1>9, <1>13
    <3>2. {x \in {} \X Chunks : x[2] \in mgr.retained[x[1]]} = {}
      OBVIOUS
    <3> QED
      BY <3>1, <3>2, FS_EmptySet DEF Bytes
  <2> QED
    BY <1>13, <2>1, SizeAssumption DEF Counted
<1> QED
  BY <1>11, <1>13, <1>16, <1>17, <1>18 DEF ExecInv, Good

LEMMA ExecNext ==
  ASSUME ExecInv, [Next]_vars
  PROVE  ExecInv'
<1>1. ASSUME NEW a \in {"running", "unspawnable"}, ExecCall(a) PROVE ExecInv'
  BY <1>1, ExecCallKeeps
<1>2. ASSUME NEW p \in Pids, SpawnReturn(p) \/ ExecDrain(p) \/ ExecReturn(p) PROVE ExecInv'
  BY <1>2, SpawnReturnKeeps, ExecDrainKeeps, ExecReturnKeeps
<1>3. ASSUME NEW p \in Pids, TerminateCall(p) \/ TerminateReturn(p) PROVE ExecInv'
  BY <1>3, TerminateCallKeeps, TerminateReturnKeeps
<1>4. ASSUME NEW p \in Pids, OsExit(p) \/ ExitEvent(p) \/ Data(p) \/ StreamsEnd(p) PROVE ExecInv'
  BY <1>4, OsExitKeeps, ExitEventKeeps, DataKeeps, StreamsEndKeeps
<1>5. ASSUME NEW w \in Writers, NEW p \in Pids, NEW k \in {"poll", "input"}, WriteCall(w, p, k) PROVE ExecInv'
  BY <1>5, WriteCallKeeps
<1>6. ASSUME NEW w \in Writers, WriteRejected(w) PROVE ExecInv'
  BY <1>6, WriteRejectedKeeps
<1>7. ASSUME NEW w \in Writers, NEW f \in BOOLEAN, WriteBegin(w, f) PROVE ExecInv'
  BY <1>7, WriteBeginKeeps
<1>8. ASSUME NEW w \in Writers, WriteDrain(w) \/ WriteReturn(w) PROVE ExecInv'
  BY <1>8, WriteDrainKeeps, WriteReturnKeeps
<1>9. CASE Query \/ TerminateAll \/ TerminateAllReturn
  BY <1>9, QueryKeeps, TerminateAllKeeps, TerminateAllReturnKeeps
<1>10. CASE UNCHANGED vars
  BY <1>10, StutterKeeps
<1> QED
  BY <1>1, <1>2, <1>3, <1>4, <1>5, <1>6, <1>7, <1>8, <1>9, <1>10 DEF Next

(* The invariant above is one of the session manager. *)
THEOREM ExecInvariant == Spec => []ExecInv
<1>1. Init => ExecInv
  BY ExecInit
<1>2. ExecInv /\ [Next]_vars => ExecInv'
  BY ExecNext
<1> QED
  BY <1>1, <1>2, PTL DEF Spec

LEMMA OutputFollows ==
  ASSUME ExecInv
  PROVE  OutputDelivered
<1>1. /\ mgr.live \in Seq(Pids) /\ mgr.completed \in Seq(Pids)
      /\ \A p \in Pids : Session(mgr, proc, p) /\ proc[p].arrived \in Nat
  BY SizeAssumption DEF ExecInv, Good, MgrType, ProcType
<1>2. \A p \in Pids : InFlight(p) = exec[p].got \union Polling(p)
  BY DEF InFlight, Polling
<1>3. ASSUME NEW p \in Pids
      PROVE  /\ Apart(exec[p].got, Polling(p), proc[p].buf, mgr.retained[p], execOut[p], Polled(p), proc[p].arrived)
             /\ Whole(exec[p].got, Polling(p), proc[p].buf, mgr.retained[p], execOut[p], Polled(p), proc[p].arrived,
                    Open(mgr, p), Kept(mgr, p))
  BY <1>1 DEF Session, Output
<1>4. OutputAccounted
  <2>1. ASSUME NEW p \in ToSet(mgr.live) PROVE 1..proc[p].arrived = proc[p].buf \union InFlight(p) \union Returned(p)
    <3>1. p \in Pids /\ Live(mgr, p)
      BY <1>1 DEF ToSet, Live
    <3> QED
      BY <1>2, <1>3, <3>1 DEF Apart, Whole, Open, Returned
  <2>2. ASSUME NEW p \in ToSet(mgr.completed) PROVE mgr.retained[p] = {} \/ 1..proc[p].arrived = mgr.retained[p] \union
               Returned(p)
    <3>1. p \in Pids /\ Kept(mgr, p)
      BY <1>1 DEF ToSet, Kept
    <3> QED
      BY <1>3, <3>1 DEF Apart, Whole, Returned
  <2> QED
    BY <2>1, <2>2 DEF OutputAccounted
<1>5. OutputOnce
  BY <1>2, <1>3 DEF OutputOnce, Apart, Returned
<1>6. PollsInOrder
  BY <1>1 DEF PollsInOrder, Session, Ordered
<1> QED
  BY <1>4, <1>5, <1>6 DEF OutputDelivered

(* Whatever the numbers of sessions, callers and chunks: while a session   *)
(* has a row, all it has written is in its buffer, in a call that is       *)
(* collecting, in a response or in the completed cache; no byte is in two  *)
(* of these, so none is returned twice; and the responses to overlapping   *)
(* write_stdin calls carry the output in the order it was written.         *)
THEOREM OutputIsDelivered == Spec => []OutputDelivered
<1>1. ExecInv => OutputDelivered
  BY OutputFollows
<1> QED
  BY <1>1, ExecInvariant, PTL

LEMMA TablesFollow ==
  ASSUME ExecInv
  PROVE  TablesAgree
<1>1. /\ mgr.live \in Seq(Pids) /\ mgr.completed \in Seq(Pids) /\ mgr.initial \subseteq Pids /\ Rest /\ mgr.bytes <= Budget
      /\ \A p \in Pids : Session(mgr, proc, p)
  BY DEF ExecInv, Good, MgrType
<1>2. TypeOK
  <2>1. mgr \in MgrType /\ proc \in [Pids -> ProcType]
    BY DEF ExecInv, Good
  <2> QED
    BY <1>1, <2>1 DEF Rest, TypeOK, MgrType, ProcType, ExecType, WriterType
<1>3. /\ \A p \in ToSet(mgr.live) : p \in Pids /\ Live(mgr, p)
      /\ \A p \in ToSet(mgr.completed) : p \in Pids /\ Kept(mgr, p)
  BY <1>1 DEF ToSet, Live, Kept
<1>4. \A p \in Pids : Rows(mgr, proc, p)
  BY <1>1 DEF Session
<1>5. TablesConsistent
  <2>1. \A p \in ToSet(mgr.live) : p \notin ToSet(mgr.completed)
    BY <1>3, <1>4 DEF Rows, Kept
  <2>2. \A p \in mgr.initial : p \in ToSet(mgr.live)
    BY <1>1, <1>4 DEF Rows, Live
  <2>3. phase = "up" => \A p \in ToSet(mgr.live) : p \in mgr.reserved
    BY <1>3, <1>4 DEF Rows
  <2>4. \A p \in ToSet(mgr.completed) : p \notin mgr.reserved
    BY <1>3, <1>4 DEF Rows
  <2> QED
    BY <2>1, <2>2, <2>3, <2>4 DEF TablesConsistent
<1>6. ExitNotForgotten
  <2> SUFFICES ASSUME NEW p \in Pids, phase = "up", exec[p].alive, p \notin over
               PROVE  \/ p \in ToSet(mgr.live)
                      \/ p \in ToSet(mgr.completed)
                      \/ \E w \in Writers : writer[w].pid = p /\ writer[w].exited
    BY DEF ExitNotForgotten
  <2>1. exec[p].alive = TRUE
    BY <1>1 DEF Rest, ExecType
  <2> QED
    BY <1>1, <2>1 DEF Session, Reported, Live, Kept
<1>7. BytesExact /\ WithinBudget
  BY <1>1 DEF ExecInv, Good, Counted, BytesExact, WithinBudget
<1> QED
  BY <1>2, <1>5, <1>6, <1>7 DEF TablesAgree

(* Whatever the interleaving of calls, exits, kills and reaps: an id is in *)
(* one table at most and every row holds its reservation; the counter of   *)
(* the completed output is exact and never above its budget; and the end   *)
(* of a session left running stays to be found until a response has told.  *)
THEOREM TablesAlwaysAgree == Spec => []TablesAgree
<1>1. ExecInv => TablesAgree
  BY TablesFollow
<1> QED
  BY <1>1, ExecInvariant, PTL
=============================================================================
