------------------------ MODULE InteractionLock_proofs ------------------------
(***************************************************************************)
(* Proofs about InteractionLock, for every finite set of callers.          *)
(***************************************************************************)
EXTENDS InteractionLock, FiniteSetTheorems, TLAPS

Queued == {c \in Clients : pc[c] = "queued"}

\* The counter counts: what one more and one fewer queued caller do to it.
LEMMA CountQueued ==
  ASSUME NEW S \in SUBSET Clients, NEW c \in Clients
  PROVE  /\ Cardinality(S) \in Nat
         /\ c \notin S => Cardinality(S \union {c}) = Cardinality(S) + 1
         /\ c \in S => Cardinality(S \ {c}) = Cardinality(S) - 1
         /\ Cardinality(S) = 0 => S = {}
         /\ c \in S => Cardinality(S) > 0
<1>1. IsFiniteSet(S)
  BY FS_Subset, ClientsAssumption
<1>2. Cardinality(S) \in Nat
  BY <1>1, FS_CardinalityType
<1>3. c \notin S => Cardinality(S \union {c}) = Cardinality(S) + 1
  BY <1>1, FS_AddElement
<1>4. c \in S => Cardinality(S \ {c}) = Cardinality(S) - 1
  BY <1>1, FS_RemoveElement
<1>5. Cardinality(S) = 0 => S = {}
  BY <1>1, FS_EmptySet
<1>6. c \in S => Cardinality(S) > 0
  BY <1>2, <1>5
<1> QED
  BY <1>2, <1>3, <1>4, <1>5, <1>6

LEMMA InitLockInv == Init => LockInv
<1> SUFFICES ASSUME Init PROVE LockInv
  OBVIOUS
<1>1. {c \in Clients : pc[c] = "queued"} = {}
  BY DEF Init
<1>2. Cardinality({}) = 0
  BY FS_EmptySet
<1> QED
  BY <1>1, <1>2 DEF Init, LockInv, TypeOK, Chained

\* The flag and the counter together tell whether the chain is empty.
LEMMA TryOpenMeansIdle ==
  ASSUME LockInv, TryOpen
  PROVE  Chained = {}
<1>1. Queued \in SUBSET Clients
  BY DEF Queued
<1>2. Queued = {}
  <2>1. CASE Clients = {}
    BY <2>1 DEF Queued
  <2>2. CASE Clients # {}
    <3>1. PICK c \in Clients : TRUE
      BY <2>2
    <3> QED
      BY <1>1, <3>1, CountQueued DEF Queued, LockInv, TryOpen
  <2> QED
    BY <2>1, <2>2
<1> QED
  BY <1>2 DEF Queued, LockInv, TypeOK, TryOpen, Chained

LEMMA LockPreserves ==
  ASSUME LockInv, NEW c \in Clients, Lock(c)
  PROVE  LockInv'
<1> USE DEF LockInv, TypeOK, Lock
<1>1. Queued' = Queued \union {c} /\ c \notin Queued
  BY DEF Queued
<1>2. queued' = Cardinality(Queued')
  BY <1>1, CountQueued, Queued \in SUBSET Clients DEF Queued
<1>3. Chained' = Chained \union {c} /\ Chained \in SUBSET Clients
  BY DEF Chained
<1>4. TypeOK'
  BY <1>3
<1>5. \A d, e \in Chained' : d # e => d \in ahead'[e] \/ e \in ahead'[d]
  BY <1>3
<1>6. (locked <=> \E d \in Clients : pc[d] = "holding")'
  OBVIOUS
<1>7. (\A d \in Clients : pc[d] # "queued" => ahead[d] = {})'
  OBVIOUS
<1> QED
  BY <1>2, <1>4, <1>5, <1>6, <1>7 DEF Queued

\* A caller that resumes finds no holder: it waits for every caller on the
\* chain before it, and the callers after it wait for it.
LEMMA ResumePreserves ==
  ASSUME LockInv, NEW c \in Clients, Resume(c)
  PROVE  LockInv' /\ ~locked
<1> USE DEF LockInv, TypeOK, Resume
<1>1. \A d \in Clients : pc[d] # "holding"
  BY DEF Chained
<1>2. Queued' = Queued \ {c} /\ c \in Queued
  BY DEF Queued
<1>3. queued' = Cardinality(Queued') /\ queued' \in Nat
  BY <1>2, CountQueued, Queued \in SUBSET Clients, Queued' \in SUBSET Clients DEF Queued
<1>4. TypeOK'
  BY <1>3
<1>5. Chained' = Chained
  BY DEF Chained
<1>6. (locked <=> \E d \in Clients : pc[d] = "holding")'
  OBVIOUS
<1>7. (\A d \in Clients : pc[d] # "queued" => ahead[d] = {})'
  OBVIOUS
<1> QED
  BY <1>1, <1>3, <1>4, <1>5, <1>6, <1>7 DEF Queued

LEMMA TryLockPreserves ==
  ASSUME LockInv, NEW c \in Clients, TryLock(c)
  PROVE  LockInv'
<1> USE DEF LockInv, TypeOK, TryLock
<1>1. Chained = {}
  BY TryOpenMeansIdle
<1>2. Queued' = Queued
  BY DEF Queued
<1>3. Chained' = {c}
  BY <1>1 DEF Chained
<1> QED
  BY <1>2, <1>3 DEF Queued

LEMMA ReleasePreserves ==
  ASSUME LockInv, NEW c \in Clients, Release(c)
  PROVE  LockInv' /\ locked /\ \A d \in Clients : pc[d] = "holding" => d = c
<1> USE DEF LockInv, TypeOK, Release, Resolved
<1>1. Queued' = Queued
  BY DEF Queued
<1>2. Chained' = Chained \ {c} /\ Chained \in SUBSET Clients
  BY DEF Chained
<1>3. \A d \in Clients : pc[d] = "holding" => d = c
  BY DEF Chained
<1>4. (locked <=> \E d \in Clients : pc[d] = "holding")'
  BY <1>3
<1>5. TypeOK'
  OBVIOUS
<1>6. (\A d \in Clients : pc[d] # "queued" => ahead[d] = {})'
  OBVIOUS
<1>7. (\A d, e \in Chained : d # e => d \in ahead[e] \/ e \in ahead[d])'
  BY <1>2
<1> QED
  BY <1>1, <1>3, <1>4, <1>5, <1>6, <1>7 DEF Queued

LEMMA NextPreserves == LockInv /\ [Next]_vars => LockInv'
<1> SUFFICES ASSUME LockInv, [Next]_vars PROVE LockInv'
  OBVIOUS
<1>1. CASE UNCHANGED vars
  BY <1>1 DEF LockInv, TypeOK, Chained, vars
<1>2. CASE Next
  BY <1>2, LockPreserves, ResumePreserves, TryLockPreserves, ReleasePreserves DEF Next
<1> QED
  BY <1>1, <1>2

\* LockInv is an invariant of the lock: the flag and the counter always tell
\* the truth about the promise chain.
THEOREM LockInvariant == Spec => []LockInv
  BY InitLockInv, NextPreserves, PTL DEF Spec

\* No two callers, reaper included, are ever inside one session's lock.
THEOREM LockMutualExclusion == Spec => []MutualExclusion
<1>1. LockInv => MutualExclusion
  BY DEF LockInv, TypeOK, MutualExclusion, Chained
<1> QED
  BY <1>1, LockInvariant, PTL

-----------------------------------------------------------------------------
(***************************************************************************)
(* Refinement                                                              *)
(***************************************************************************)

\* While one caller holds the lock the mapping names it, otherwise nobody.
LEMMA HolderIs ==
  ASSUME LockInv
  PROVE  /\ \A c \in Clients : pc[c] = "holding" => Holder = c
         /\ ~locked => Holder = NoOne
         /\ \A c \in Clients : Holder = c => pc[c] = "holding"
<1>1. MutualExclusion
  BY DEF LockInv, TypeOK, MutualExclusion, Chained
<1> QED
  BY <1>1, ClientsAssumption DEF Holder, MutualExclusion, LockInv

LEMMA HolderIsNext ==
  ASSUME LockInv'
  PROVE  /\ \A c \in Clients : pc'[c] = "holding" => Holder' = c
         /\ ~locked' => Holder' = NoOne
<1>1. MutualExclusion'
  BY DEF LockInv, TypeOK, MutualExclusion, Chained
<1> QED
  BY <1>1, ClientsAssumption DEF Holder, MutualExclusion, LockInv

LEMMA StepRefines ==
  ASSUME LockInv, LockInv', [Next]_vars
  PROVE  [Exclusive!Next]_<<Holder, Queued>>
<1>1. ASSUME NEW c \in Clients, Lock(c)
      PROVE  Exclusive!Request(c)
  <2>1. \A d \in Clients : pc'[d] = "holding" <=> pc[d] = "holding"
    BY <1>1 DEF Lock, LockInv, TypeOK
  <2>2. Holder' = Holder
    BY <2>1 DEF Holder
  <2>3. Queued' = Queued \union {c} /\ c \notin Queued
    BY <1>1 DEF Lock, LockInv, TypeOK, Queued
  <2>4. c # Holder
    BY <1>1, HolderIs DEF Lock
  <2> QED
    BY <2>2, <2>3, <2>4 DEF Queued, Exclusive!Request
<1>2. ASSUME NEW c \in Clients, Resume(c)
      PROVE  Exclusive!Grant(c)
  <2>1. Holder = NoOne
    BY <1>2, ResumePreserves, HolderIs
  <2>2. Holder' = c
    BY <1>2, HolderIsNext DEF Resume, LockInv, TypeOK
  <2>3. Queued' = Queued \ {c} /\ c \in Queued
    BY <1>2 DEF Resume, LockInv, TypeOK, Queued
  <2> QED
    BY <2>1, <2>2, <2>3 DEF Queued, Exclusive!Grant
<1>3. ASSUME NEW c \in Clients, TryLock(c)
      PROVE  Exclusive!Try(c)
  <2>1. Queued = {} /\ Holder = NoOne
    BY <1>3, TryOpenMeansIdle, HolderIs DEF TryLock, TryOpen, Queued, Chained
  <2>2. Holder' = c
    BY <1>3, HolderIsNext DEF TryLock, LockInv, TypeOK
  <2>3. Queued' = Queued
    BY <1>3 DEF TryLock, LockInv, TypeOK, Queued
  <2> QED
    BY <2>1, <2>2, <2>3 DEF Queued, Exclusive!Try
<1>4. ASSUME NEW c \in Clients, Release(c)
      PROVE  Exclusive!Free(c)
  <2>1. Holder = c
    BY <1>4, HolderIs DEF Release
  <2>2. Holder' = NoOne
    BY <1>4, HolderIsNext DEF Release
  <2>3. Queued' = Queued
    BY <1>4 DEF Release, LockInv, TypeOK, Queued
  <2> QED
    BY <2>1, <2>2, <2>3 DEF Queued, Exclusive!Free
<1>5. CASE UNCHANGED vars
  BY <1>5 DEF vars, Holder, Queued
<1>6. CASE Next
  BY <1>1, <1>2, <1>3, <1>4, <1>6 DEF Next, Exclusive!Next
<1> QED
  BY <1>5, <1>6

\* The promise-chain lock implements the exclusive lock its callers rely on: no
\* try barges in ahead of a waiting caller.
THEOREM LockImplementsExclusive == Spec => ExclusiveSpec
<1>1. Init => Exclusive!Init
  BY DEF Init, Exclusive!Init, Holder
<1>2. LockInv /\ LockInv' /\ [Next]_vars
        => [Exclusive!Next]_<<Holder, {c \in Clients : pc[c] = "queued"}>>
  BY StepRefines DEF Queued
<1> QED
  BY <1>1, <1>2, LockInvariant, PTL DEF Spec, ExclusiveSpec, Exclusive!Spec
=============================================================================
