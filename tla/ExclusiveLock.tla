---------------------------- MODULE ExclusiveLock ----------------------------
(***************************************************************************)
(* What the callers of a session's interaction lock rely on: one holder at *)
(* a time, a caller that waits is served before a caller that only tries.  *)
(***************************************************************************)
CONSTANTS Clients, NoOne

VARIABLES holder, waiting

Init == holder = NoOne /\ waiting = {}

Request(c) ==
  /\ c # holder /\ c \notin waiting
  /\ waiting' = waiting \union {c}
  /\ UNCHANGED holder

Grant(c) ==
  /\ holder = NoOne
  /\ c \in waiting
  /\ holder' = c
  /\ waiting' = waiting \ {c}

\* A try succeeds only when nobody is entitled to the lock.
Try(c) ==
  /\ holder = NoOne /\ waiting = {}
  /\ holder' = c
  /\ UNCHANGED waiting

Free(c) ==
  /\ holder = c
  /\ holder' = NoOne
  /\ UNCHANGED waiting

Next == \E c \in Clients : Request(c) \/ Grant(c) \/ Try(c) \/ Free(c)

Spec == Init /\ [][Next]_<<holder, waiting>>
=============================================================================
