--------------------------- MODULE InteractionLock ---------------------------
(***************************************************************************)
(* The class Mutex of src/src/main/codex/unified-exec.ts, the interaction  *)
(* lock of one session, at the granularity of microtasks.                  *)
(*                                                                         *)
(* lock() chains a promise onto the tail and resumes in a microtask after  *)
(* every promise before it has been resolved; release() clears the flag    *)
(* synchronously.  Between the two the lock is neither locked nor free:    *)
(* the counter `queued' is what keeps tryLock() out of that gap.           *)
(***************************************************************************)
EXTENDS Naturals, FiniteSets

CONSTANTS Clients,   \* concurrent callers: write_stdin calls and the reaper
          NoOne      \* not a client

ASSUME ClientsAssumption == IsFiniteSet(Clients) /\ NoOne \notin Clients

VARIABLES
  pc,       \* where each caller is
  ahead,    \* ahead[c]: the callers whose promise c's `previous' still awaits
  locked,   \* the flag
  queued    \* lock() calls counted and not resumed yet

vars == <<pc, ahead, locked, queued>>

TypeOK ==
  /\ pc \in [Clients -> {"idle", "queued", "holding"}]
  /\ ahead \in [Clients -> SUBSET Clients]
  /\ locked \in BOOLEAN
  /\ queued \in Nat

Init ==
  /\ pc = [c \in Clients |-> "idle"]
  /\ ahead = [c \in Clients |-> {}]
  /\ locked = FALSE
  /\ queued = 0

\* Callers whose promise is on the chain and not resolved.
Chained == {c \in Clients : pc[c] # "idle"}

\* lock() up to `await previous'.
Lock(c) ==
  /\ pc[c] = "idle"
  /\ pc' = [pc EXCEPT ![c] = "queued"]
  /\ ahead' = [ahead EXCEPT ![c] = Chained]
  /\ queued' = queued + 1
  /\ UNCHANGED locked

\* The continuation of lock(), a microtask.
Resume(c) ==
  /\ pc[c] = "queued"
  /\ ahead[c] = {}
  /\ pc' = [pc EXCEPT ![c] = "holding"]
  /\ queued' = queued - 1
  /\ locked' = TRUE
  /\ UNCHANGED ahead

\* Mutant: tryLock looks at the flag alone.
TryOpenByFlag == ~locked

\* The test of tryLock().
TryOpen == ~locked /\ queued = 0

\* tryLock() when it succeeds; when it fails it changes nothing.
TryLock(c) ==
  /\ pc[c] = "idle"
  /\ TryOpen
  /\ pc' = [pc EXCEPT ![c] = "holding"]
  /\ locked' = TRUE
  /\ UNCHANGED <<ahead, queued>>

\* Mutant: the hand-off serves the newest waiter first, a stack for a queue.
ResolvedNewest(c) ==
  LET waiting == {d \in Clients : pc[d] = "queued"}
      newest == {d \in waiting : \A e \in waiting : d \notin ahead[e]}
  IN [d \in Clients |-> IF d \in waiting \ newest
                          THEN (ahead[d] \ {c}) \union newest ELSE {}]

\* resolve() of the holder's promise.
Resolved(c) == [d \in Clients |-> ahead[d] \ {c}]

\* release()
Release(c) ==
  /\ pc[c] = "holding"
  /\ pc' = [pc EXCEPT ![c] = "idle"]
  /\ ahead' = Resolved(c)
  /\ locked' = FALSE
  /\ UNCHANGED queued

Next == \E c \in Clients : Lock(c) \/ Resume(c) \/ TryLock(c) \/ Release(c)

Spec == Init /\ [][Next]_vars

\* Microtasks run, and every holder releases in a finally block.
FairSpec == Spec /\ \A c \in Clients : WF_vars(Resume(c)) /\ WF_vars(Release(c))

-----------------------------------------------------------------------------
(***************************************************************************)
(* Properties                                                              *)
(***************************************************************************)

\* "Reads and writes against one session must not overlap: they share a
\* draining buffer" (writeStdin); the reaper drains it too.
MutualExclusion ==
  \A c, d \in Clients : pc[c] = "holding" /\ pc[d] = "holding" => c = d

\* Why MutualExclusion holds: the flag and the counter tell the truth, callers
\* on the chain are ordered, and a holder waits for nobody.
LockInv ==
  /\ TypeOK
  /\ locked <=> \E c \in Clients : pc[c] = "holding"
  /\ queued = Cardinality({c \in Clients : pc[c] = "queued"})
  /\ \A c \in Clients : pc[c] # "queued" => ahead[c] = {}
  /\ \A c, d \in Chained : c # d => c \in ahead[d] \/ d \in ahead[c]

\* Every lock() call is served: no caller is lost in the handoff.
LockServed == \A c \in Clients : pc[c] = "queued" ~> pc[c] = "holding"

\* The lock does what its callers rely on, in particular no try barges in
\* ahead of a waiter.
Holder == IF \E c \in Clients : pc[c] = "holding"
            THEN CHOOSE c \in Clients : pc[c] = "holding"
            ELSE NoOne
Exclusive == INSTANCE ExclusiveLock
               WITH holder <- Holder, waiting <- {c \in Clients : pc[c] = "queued"}
ExclusiveSpec == Exclusive!Spec
=============================================================================
