--------------------------- MODULE Persistence_proofs ---------------------------
(***************************************************************************)
(* Proofs about what outlives the application: the credential store        *)
(* (SecretStore) and the background jobs (BackgroundJobs).  For each, an   *)
(* inductive invariant in named parts, one lemma for each action that says *)
(* the action keeps it, and the theorems that follow.                      *)
(***************************************************************************)
EXTENDS BackgroundJobs, SecretStore, Integers, FiniteSetTheorems, SequenceTheorems, TLAPS

-----------------------------------------------------------------------------
(***************************************************************************)
(* The credential store                                                    *)
(***************************************************************************)

Values == Texts \union {0}
CallRecords == [st : {"idle", "load", "rotate", "told", "set", "saved", "failed"},
                key : Keys \union {None}, value : Values, seen : SUBSET Values, shut : BOOLEAN]
Operations == [does : {"set", "rotate"}, call : Calls]

SecretTypes ==
  /\ ring \in Rings /\ file \in Files /\ cache \in Maps \union {None} /\ pending \in BOOLEAN
  /\ load \in [at : {"none", "probe", "read", "decrypt", "warn"}, file : Files \union {None}]
  /\ queue \in Seq(Operations)
  /\ at \in {"turn", "load", "check", "encrypt", "write", "publish"}
  /\ next \in Maps /\ before \in Maps /\ endings \in 0..Endings
  /\ call \in [Calls -> CallRecords]

\* A call that has begun knows its key; reads and writes have states of their own.
CallKinds ==
  /\ \A c \in Calls : call[c].st # "idle" => call[c].key \in Keys
  /\ \A c \in Gets : call[c].st \in {"idle", "load", "rotate", "told", "saved", "failed"}
  /\ \A c \in Sets : call[c].st \in {"idle", "set", "saved", "failed"}

\* What is queued has been called.
QueueKinds ==
  \A i \in 1..Len(queue) :
    LET c == queue[i].call IN
    /\ queue[i].does = "set" => c \in Sets /\ call[c].st # "idle"
    /\ queue[i].does = "rotate" => c \in Gets /\ call[c].st \notin {"idle", "load"}

\* A load is in flight only while there is no copy in memory, and what it has read
\* is the file; a write waits for a load, or has a copy in memory of a file it
\* understood.
LoadOrCopy ==
  /\ load.at # "none" => cache = None
  /\ load.at = "decrypt" => load.file = file /\ file.kind \notin {"absent", "basic"}
  /\ at # "turn" => queue # <<>>
  /\ at = "load" => load.at # "none" /\ Head(queue).does = "set"
  /\ at \in {"check", "encrypt", "write", "publish"} => cache # None
  /\ cache # None => file.kind \in Ours

\* What the running operation writes: the copy in memory, with its own change.
Writes ==
  at \in {"check", "encrypt", "write", "publish"} =>
    next = IF Head(queue).does = "set" THEN Composed(cache) ELSE cache

\* What a reader has been shown while it waits covers what it can be told.
Shown ==
  \A c \in Calls : Reading(c) =>
    /\ file.map[call[c].key] \in call[c].seen
    /\ ring # "ready" \/ file.kind \notin Ours \/ load.at = "warn" => call[c].shut

Told ==
  \A c \in Gets : call[c].st \notin {"idle", "load"} =>
    call[c].value \in call[c].seen \/ (call[c].value = 0 /\ call[c].shut)

Published == at = "publish" => file.kind = "sealed" /\ file.map = next

SecretInv == SecretTypes /\ CallKinds /\ QueueKinds /\ LoadOrCopy /\ CacheIsFile /\ Writes /\ Published /\ Shown /\ Told

-----------------------------------------------------------------------------
LEMMA EmptyIsMap == Empty \in Maps /\ None \notin Maps
<1>1. None \in Seq({}) /\ Len(None) = 0
  BY DEF None
<1>2. DOMAIN None = {}
  BY <1>1
<1> QED
  BY <1>2, SecretsAssumption DEF Empty, Maps

LEMMA SecretsStart == SecretsInit => SecretInv
<1> SUFFICES ASSUME SecretsInit PROVE SecretInv
  OBVIOUS
<1> USE DEF SecretsInit
<1>1. SecretTypes
  <2>1. call \in [Calls -> CallRecords]
    BY DEF Idle, CallRecords, Values
  <2>2. file.map \in Maps
    BY DEF Files
  <2>3. load \in [at : {"none", "probe", "read", "decrypt", "warn"}, file : Files \union {None}]
    BY DEF NoLoad
  <2>4. endings \in 0..Endings
    BY SecretsAssumption
  <2>5. queue \in Seq(Operations)
    OBVIOUS
  <2>6. /\ ring \in Rings /\ file \in Files /\ cache \in Maps \union {None} /\ pending \in BOOLEAN
        /\ at = "turn" /\ next \in Maps /\ before \in Maps
    BY <2>2, EmptyIsMap
  <2> HIDE DEF SecretsInit
  <2> QED
    BY <2>1, <2>3, <2>4, <2>5, <2>6 DEF SecretTypes
<1>2. CallKinds /\ QueueKinds /\ Shown /\ Told
  BY DEF CallKinds, QueueKinds, Shown, Told, Reading, Idle, Calls
<1> QED
  BY <1>1, <1>2 DEF SecretInv, LoadOrCopy, CacheIsFile, Writes, Published, NoLoad

\* Every reader of a load can be put in some order, since the calls are finitely many.
LEMMA ReadersInOrder ==
  ASSUME NEW S \in SUBSET Calls
  PROVE  /\ SetToSeq(S) \in Seq(S)
         /\ Reseals(SetToSeq(S)) \in Seq(Operations)
         /\ \A i \in 1..Len(Reseals(SetToSeq(S))) :
              Reseals(SetToSeq(S))[i].does = "rotate" /\ Reseals(SetToSeq(S))[i].call \in S
<1> DEFINE n == Cardinality(S)  order == SetToSeq(S)
<1>1. IsFiniteSet(S)
  BY FS_Subset, SecretsAssumption DEF Calls
<1>2. n \in Nat /\ ExistsBijection(1..n, S)
  BY <1>1, FS_CardinalityType
<1>3. \E f \in [1..n -> S] : IsInjective(f)
  BY <1>2 DEF ExistsBijection, Bijection, Injection
<1>4. order \in [1..n -> S]
  BY <1>3 DEF SetToSeq
<1>5. order \in Seq(S) /\ Len(order) = n
  BY <1>2, <1>4
<1> HIDE DEF order
<1>6. Reseals(order) = [i \in 1..n |-> [does |-> "rotate", call |-> order[i]]]
  BY <1>5 DEF Reseals
<1>7. \A i \in 1..n : order[i] \in S
  BY <1>4
<1>8. Reseals(order) \in [1..n -> Operations]
  BY <1>6, <1>7 DEF Operations
<1>9. Reseals(order) \in Seq(Operations) /\ Len(Reseals(order)) = n
  BY <1>2, <1>8
<1>10. \A i \in 1..n : Reseals(order)[i].does = "rotate" /\ Reseals(order)[i].call \in S
  BY <1>6, <1>7
<1> QED
  BY <1>5, <1>9, <1>10 DEF order

-----------------------------------------------------------------------------
\* The fields of the records, and what a change of one call leaves alone.
LEMMA CallFields ==
  ASSUME SecretInv, NEW c \in Calls
  PROVE  /\ call[c] \in CallRecords
         /\ call[c].st \in {"idle", "load", "rotate", "told", "set", "saved", "failed"}
         /\ call[c].key \in Keys \union {None} /\ call[c].value \in Values
         /\ call[c].seen \in SUBSET Values /\ call[c].shut \in BOOLEAN
         /\ call[c].st # "idle" => call[c].key \in Keys
BY DEF SecretInv, SecretTypes, CallRecords, CallKinds

LEMMA QueueFacts ==
  ASSUME SecretInv, queue # <<>>
  PROVE  /\ Head(queue) \in Operations /\ Head(queue) = queue[1] /\ Len(queue) \in Nat \ {0}
         /\ Head(queue).call \in Calls /\ Head(queue).does \in {"set", "rotate"}
         /\ Tail(queue) \in Seq(Operations) /\ Len(Tail(queue)) = Len(queue) - 1
         /\ \A i \in 1..Len(Tail(queue)) : Tail(queue)[i] = queue[i + 1]
         /\ Head(queue).does = "set" =>
              Head(queue).call \in Sets /\ call[Head(queue).call].st # "idle"
         /\ Head(queue).does = "rotate" =>
              Head(queue).call \in Gets /\ call[Head(queue).call].st \notin {"idle", "load"}
<1>1. queue \in Seq(Operations)
  BY DEF SecretInv, SecretTypes
<1>2. /\ Len(queue) \in Nat \ {0} /\ Head(queue) = queue[1] /\ Head(queue) \in Operations
      /\ Tail(queue) \in Seq(Operations) /\ Len(Tail(queue)) = Len(queue) - 1
      /\ \A i \in 1..Len(Tail(queue)) : Tail(queue)[i] = queue[i + 1]
  BY <1>1
<1>3. Head(queue).call \in Calls /\ Head(queue).does \in {"set", "rotate"}
  BY <1>2 DEF Operations
<1> QED
  BY <1>2, <1>3 DEF SecretInv, QueueKinds

\* The map in force with the change of a set is a map.
LEMMA ComposedIsMap ==
  ASSUME SecretInv, queue # <<>>, Head(queue).does = "set", NEW m \in Maps
  PROVE  Composed(m) \in Maps
<1>1. /\ call[Head(queue).call].key \in Keys /\ call[Head(queue).call].value \in Values
  BY QueueFacts, CallFields
<1> QED
  BY <1>1 DEF Composed, Maps, Values

\* A step that leaves the calls, the queue and its running operation alone.
LEMMA LoadEndsKeeps ==
  ASSUME SecretInv, load.at # "none",
         NEW m \in Maps, NEW c \in Maps \union {None}, NEW p \in BOOLEAN,
         LoadEnds(m, c, p), UNCHANGED <<ring, file, before, endings>>,
         c # None => c = file.map /\ m = file.map /\ file.kind \in Ours,
         c = None => m = Empty /\ (ring # "ready" \/ file.kind \notin Ours \/ load.at = "warn")
  PROVE  SecretInv'
<1> DEFINE readers == {x \in Calls : Reading(x)}
           reseal == c # None /\ p
           refused == IF at = "load" /\ c = None THEN {Head(queue).call} ELSE {}
           rest == IF refused # {} THEN Tail(queue) ELSE queue
           more == IF reseal THEN Reseals(SetToSeq(readers)) ELSE <<>>
<1>1. /\ load' = NoLoad /\ cache' = c /\ pending' = p /\ queue' = rest \o more
      /\ at' = IF at # "load" THEN at ELSE IF c = None THEN "turn" ELSE "check"
      /\ next' = IF at = "load" /\ c # None THEN Composed(c) ELSE next
      /\ call' = [x \in Calls |->
           IF x \in readers
           THEN [call[x] EXCEPT !.st = IF reseal THEN "rotate" ELSE "told", !.value = m[call[x].key]]
           ELSE IF x \in refused THEN [call[x] EXCEPT !.st = "failed"] ELSE call[x]]
  BY DEF LoadEnds
<1>2. /\ cache = None /\ at \in {"turn", "load"} /\ (at = "load" => queue # <<>> /\ Head(queue).does = "set")
  BY DEF SecretInv, LoadOrCopy, SecretTypes
<1>3. readers \subseteq Gets /\ refused \subseteq Sets
  <2>1. readers \subseteq Gets
    BY DEF Reading, SecretInv, CallKinds, Calls
  <2> QED
    BY <2>1, <1>2, QueueFacts
<1>4. /\ rest \in Seq(Operations)
      /\ \A i \in 1..Len(rest) : \E j \in 1..Len(queue) : rest[i] = queue[j]
      /\ refused = {} => rest = queue
  <2>1. queue \in Seq(Operations) /\ Len(queue) \in Nat
    BY DEF SecretInv, SecretTypes
  <2>2. CASE refused = {}
    BY <2>1, <2>2
  <2>3. CASE refused # {}
    <3>1. rest = Tail(queue) /\ queue # <<>>
      BY <2>3, <1>2
    <3>2. /\ rest \in Seq(Operations) /\ Len(rest) = Len(queue) - 1
          /\ \A i \in 1..Len(rest) : rest[i] = queue[i + 1]
      BY <3>1, QueueFacts
    <3> HIDE DEF rest, refused
    <3>3. \A i \in 1..Len(rest) : i + 1 \in 1..Len(queue)
      BY <2>1, <3>2
    <3> QED
      BY <2>3, <3>2, <3>3
  <2> QED
    BY <2>2, <2>3
<1>5. /\ more \in Seq(Operations)
      /\ \A i \in 1..Len(more) : reseal /\ more[i].does = "rotate" /\ more[i].call \in readers
  <2>1. CASE reseal
    BY <2>1, ReadersInOrder
  <2>2. CASE ~reseal
    BY <2>2
  <2> QED
    BY <2>1, <2>2
<1>6. /\ queue' \in Seq(Operations) /\ Len(queue') = Len(rest) + Len(more)
      /\ \A i \in 1..Len(queue') : \/ \E j \in 1..Len(queue) : queue'[i] = queue[j]
                                   \/ reseal /\ queue'[i].does = "rotate" /\ queue'[i].call \in readers
      /\ at' # "turn" => queue' # <<>> /\ Head(queue') = Head(queue)
  <2> HIDE DEF rest, more, readers, reseal, refused
  <2>1. /\ queue' \in Seq(Operations) /\ Len(queue') = Len(rest) + Len(more)
        /\ Len(rest) \in Nat /\ Len(more) \in Nat
        /\ \A i \in 1..Len(rest) + Len(more) :
             queue'[i] = IF i <= Len(rest) THEN rest[i] ELSE more[i - Len(rest)]
    <3>1. queue' = rest \o more /\ rest \in Seq(Operations) /\ more \in Seq(Operations)
      BY <1>1, <1>4, <1>5
    <3>2. Len(rest) \in Nat /\ Len(more) \in Nat
      BY <3>1
    <3> QED
      BY <3>1, <3>2, ConcatProperties
  <2>2. \A i \in 1..Len(queue') : \/ i \in 1..Len(rest) /\ queue'[i] = rest[i]
                                  \/ (i - Len(rest)) \in 1..Len(more) /\ queue'[i] = more[i - Len(rest)]
    <3> TAKE i \in 1..Len(queue')
    <3>1. i \in 1..Len(rest) + Len(more) /\ i \in Nat
      BY <2>1
    <3>2. CASE i <= Len(rest)
      BY <2>1, <3>1, <3>2
    <3>3. CASE ~(i <= Len(rest))
      BY <2>1, <3>1, <3>3
    <3> QED
      BY <3>2, <3>3
  <2>3. ASSUME at' # "turn" PROVE queue' # <<>> /\ Head(queue') = Head(queue)
    <3>1. at = "load" /\ c # None
      BY <2>3, <1>1, <1>2
    <3>2. rest = queue /\ queue # <<>>
      BY <3>1, <1>2 DEF rest, refused
    <3>3. 1 <= Len(rest) /\ Head(queue) = queue[1]
      BY <3>2, QueueFacts
    <3>4. queue'[1] = queue[1] /\ Len(queue') >= 1
      BY <2>1, <3>2, <3>3
    <3> QED
      BY <2>1, <3>3, <3>4
  <2>4. ASSUME NEW i \in 1..Len(queue')
        PROVE  \/ \E j \in 1..Len(queue) : queue'[i] = queue[j]
               \/ reseal /\ queue'[i].does = "rotate" /\ queue'[i].call \in readers
    BY <2>2, <1>4, <1>5
  <2>5. queue' \in Seq(Operations) /\ Len(queue') = Len(rest) + Len(more)
    BY <2>1
  <2> QED
    BY <2>3, <2>4, <2>5
<1>7. \A x \in Calls :
        /\ call'[x].key = call[x].key /\ call'[x].seen = call[x].seen /\ call'[x].shut = call[x].shut
        /\ x \in readers => call'[x].st = (IF reseal THEN "rotate" ELSE "told")
                             /\ call'[x].value = m[call[x].key] /\ m[call[x].key] \in Values
        /\ x \in refused => call'[x].st = "failed" /\ call'[x].value = call[x].value
        /\ x \notin readers \union refused => call'[x] = call[x]
        /\ call'[x] \in CallRecords
  <2> TAKE x \in Calls
  <2>1. call[x] \in CallRecords
    BY CallFields
  <2>2. x \in readers => m[call[x].key] \in Values
    BY CallFields DEF Reading, Maps, Values
  <2>3. refused \intersect readers = {}
    BY <1>3, SecretsAssumption
  <2> HIDE DEF readers, refused, reseal
  <2> QED
    BY <1>1, <2>1, <2>2, <2>3 DEF CallRecords
<1>8. \A x \in readers : call[x].st = "load"
  BY DEF Reading
<1> HIDE DEF readers, refused, rest, more, reseal
<1>9. SecretTypes'
  <2>1. load' \in [at : {"none", "probe", "read", "decrypt", "warn"}, file : Files \union {None}]
    BY <1>1 DEF NoLoad
  <2>2. next' \in Maps
    BY <1>1, <1>2, ComposedIsMap DEF SecretInv, SecretTypes
  <2>3. call' \in [Calls -> CallRecords]
    BY <1>1, <1>7
  <2> QED
    BY <1>1, <1>2, <1>6, <2>1, <2>2, <2>3 DEF SecretInv, SecretTypes
<1>10. CallKinds'
  <2> SUFFICES ASSUME NEW x \in Calls
               PROVE  /\ call'[x].st # "idle" => call'[x].key \in Keys
                      /\ x \in Gets => call'[x].st \in {"idle", "load", "rotate", "told", "saved", "failed"}
                      /\ x \in Sets => call'[x].st \in {"idle", "set", "saved", "failed"}
    BY DEF CallKinds, Calls
  <2>1. /\ call[x].st # "idle" => call[x].key \in Keys
        /\ x \in Gets => call[x].st \in {"idle", "load", "rotate", "told", "saved", "failed"}
        /\ x \in Sets => call[x].st \in {"idle", "set", "saved", "failed"}
    BY DEF SecretInv, CallKinds
  <2>2. CASE x \in readers
    BY <2>1, <2>2, <1>3, <1>7, <1>8, SecretsAssumption
  <2>3. CASE x \in refused
    <3>1. call[x].st # "idle" /\ x \in Sets /\ x \notin Gets
      BY <2>3, <1>2, <1>3, QueueFacts, SecretsAssumption DEF refused
    <3> QED
      BY <2>1, <2>3, <3>1, <1>7
  <2>4. CASE x \notin readers \union refused
    BY <2>1, <2>4, <1>7
  <2> QED
    BY <2>2, <2>3, <2>4
<1>11. QueueKinds'
  <2> SUFFICES ASSUME NEW i \in 1..Len(queue') 
               PROVE  /\ queue'[i].does = "set" =>
                           queue'[i].call \in Sets /\ call'[queue'[i].call].st # "idle"
                      /\ queue'[i].does = "rotate" =>
                           queue'[i].call \in Gets /\ call'[queue'[i].call].st \notin {"idle", "load"}
    BY DEF QueueKinds
  <2>1. CASE \E j \in 1..Len(queue) : queue'[i] = queue[j]
    <3> PICK j \in 1..Len(queue) : queue'[i] = queue[j]
      BY <2>1
    <3>1. /\ queue[j].does = "set" => queue[j].call \in Sets /\ call[queue[j].call].st # "idle"
          /\ queue[j].does = "rotate" => queue[j].call \in Gets /\ call[queue[j].call].st \notin {"idle", "load"}
      BY DEF SecretInv, QueueKinds
    <3> QED
      BY <3>1, <1>3, <1>7, <1>8, SecretsAssumption DEF Calls
  <2>2. CASE reseal /\ queue'[i].does = "rotate" /\ queue'[i].call \in readers
    BY <2>2, <1>3, <1>7 DEF Calls
  <2> QED
    BY <2>1, <2>2, <1>6
<1>12. LoadOrCopy' /\ CacheIsFile' /\ Published'
  BY <1>1, <1>2, <1>6 DEF LoadOrCopy, CacheIsFile, Published, NoLoad
<1>13. Writes'
  <2>1. at = "load" /\ c # None => Composed(c)' = Composed(c)
    <3> SUFFICES ASSUME at = "load", c # None PROVE Composed(c)' = Composed(c)
      OBVIOUS
    <3>1. Head(queue') = Head(queue) /\ Head(queue).call \in Sets
      BY <1>1, <1>2, <1>6, QueueFacts
    <3>2. call'[Head(queue).call] = call[Head(queue).call]
      BY <3>1, <1>3, <1>7, SecretsAssumption DEF Calls, refused
    <3> QED
      BY <3>1, <3>2 DEF Composed
  <2> QED
    BY <2>1, <1>1, <1>2, <1>6 DEF Writes, Composed
<1>14. Shown'
  <2>1. ASSUME NEW x \in Calls PROVE call'[x].st # "load"
    <3>1. x \in readers => call'[x].st \in {"rotate", "told"}
      BY <1>7
    <3>2. x \in refused => call'[x].st = "failed"
      BY <1>7
    <3>3. x \notin readers \union refused => call'[x].st # "load"
      BY <1>7 DEF readers, Reading
    <3> QED
      BY <3>1, <3>2, <3>3
  <2> QED
    BY <2>1 DEF Shown, Reading
<1>15. Told'
  <2> SUFFICES ASSUME NEW x \in Gets, call'[x].st \notin {"idle", "load"}
               PROVE  call'[x].value \in call'[x].seen \/ (call'[x].value = 0 /\ call'[x].shut)
    BY DEF Told
  <2>0. x \in Calls
    BY DEF Calls
  <2>1. CASE x \in readers
    <3>1. /\ file.map[call[x].key] \in call[x].seen
          /\ ring # "ready" \/ file.kind \notin Ours \/ load.at = "warn" => call[x].shut
      BY <2>0, <2>1 DEF SecretInv, Shown, readers
    <3>2. Empty[call[x].key] = 0
      BY <2>0, <2>1, <1>8, CallFields DEF Empty
    <3> QED
      BY <2>0, <2>1, <3>1, <3>2, <1>7
  <2>2. CASE x \notin readers
    BY <2>0, <2>2, <1>7, <1>3, SecretsAssumption DEF SecretInv, Told
  <2> QED
    BY <2>1, <2>2
<1> QED
  BY <1>9, <1>10, <1>11, <1>12, <1>13, <1>14, <1>15 DEF SecretInv

\* The running operation ends: its call is answered and it leaves the queue.
LEMMA LeaveKeeps ==
  ASSUME SecretInv, queue # <<>>, NEW answer \in {"told", "saved", "failed"}, Leave(answer),
         Head(queue).does = "set" => answer # "told",
         UNCHANGED <<ring, file, load, next, before, endings>>,
         \/ at # "publish" /\ UNCHANGED <<cache, pending>>
         \/ at = "publish" /\ cache' = next /\ pending' = FALSE
  PROVE  SecretInv'
<1> DEFINE c == Head(queue).call
<1>1. /\ queue' = Tail(queue) /\ at' = "turn"
      /\ call' = [call EXCEPT ![c].st = IF @ = "rotate" THEN "told" ELSE answer]
  BY DEF Leave
<1>2. /\ c \in Calls /\ call[c].st \notin {"idle"}
      /\ Head(queue).does = "set" => c \in Sets
      /\ Head(queue).does = "rotate" => c \in Gets /\ call[c].st # "load"
      /\ Head(queue).does \in {"set", "rotate"}
  BY QueueFacts
<1>3. call[c] \in CallRecords /\ call[c].st # "load"
  BY <1>2, CallFields, SecretsAssumption DEF SecretInv, CallKinds
<1> HIDE DEF c
<1>4. \A x \in Calls :
        /\ call'[x].key = call[x].key /\ call'[x].value = call[x].value
        /\ call'[x].seen = call[x].seen /\ call'[x].shut = call[x].shut
        /\ x # c => call'[x] = call[x]
        /\ x = c => call'[x].st \in {"told", answer}
                    /\ (Head(queue).does = "set" => call'[x].st # "told")
        /\ call'[x] \in CallRecords
  <2> TAKE x \in Calls
  <2>1. call[x] \in CallRecords /\ call \in [Calls -> CallRecords]
    BY CallFields DEF SecretInv, SecretTypes
  <2>2. CASE x # c
    BY <1>1, <1>2, <2>1, <2>2
  <2>3. CASE x = c
    <3>1. call'[c] = [call[c] EXCEPT !.st = IF @ = "rotate" THEN "told" ELSE answer]
      BY <1>1, <1>2, <2>1
    <3>2. Head(queue).does = "set" => call[c].st # "rotate"
      BY <1>2, SecretsAssumption DEF SecretInv, CallKinds
    <3> QED
      BY <3>1, <3>2, <2>1, <2>3 DEF CallRecords
  <2> QED
    BY <2>2, <2>3
<1>5. SecretTypes'
  <2>1. call' \in [Calls -> CallRecords]
    BY <1>1, <1>4 DEF SecretInv, SecretTypes
  <2> QED
    BY <2>1, <1>1, QueueFacts DEF SecretInv, SecretTypes
<1>6. CallKinds'
  <2> SUFFICES ASSUME NEW x \in Calls
               PROVE  /\ call'[x].st # "idle" => call'[x].key \in Keys
                      /\ x \in Gets => call'[x].st \in {"idle", "load", "rotate", "told", "saved", "failed"}
                      /\ x \in Sets => call'[x].st \in {"idle", "set", "saved", "failed"}
    BY DEF CallKinds, Calls
  <2>1. /\ call[x].st # "idle" => call[x].key \in Keys
        /\ x \in Gets => call[x].st \in {"idle", "load", "rotate", "told", "saved", "failed"}
        /\ x \in Sets => call[x].st \in {"idle", "set", "saved", "failed"}
    BY DEF SecretInv, CallKinds
  <2> QED
    BY <2>1, <1>2, <1>4, SecretsAssumption
<1>7. QueueKinds'
  <2> SUFFICES ASSUME NEW i \in 1..Len(queue')
               PROVE  /\ queue'[i].does = "set" =>
                           queue'[i].call \in Sets /\ call'[queue'[i].call].st # "idle"
                      /\ queue'[i].does = "rotate" =>
                           queue'[i].call \in Gets /\ call'[queue'[i].call].st \notin {"idle", "load"}
    BY DEF QueueKinds
  <2>1. queue'[i] = queue[i + 1] /\ i + 1 \in 1..Len(queue)
    BY <1>1, QueueFacts
  <2>2. /\ queue[i + 1].does = "set" => queue[i + 1].call \in Sets /\ call[queue[i + 1].call].st # "idle"
        /\ queue[i + 1].does = "rotate" => queue[i + 1].call \in Gets /\ call[queue[i + 1].call].st \notin {"idle", "load"}
    BY <2>1 DEF SecretInv, QueueKinds
  <2> QED
    BY <2>1, <2>2, <1>4 DEF Calls
<1>8. LoadOrCopy'
  <2>1. at = "publish" => load.at = "none" /\ file.kind \in Ours
    BY DEF SecretInv, LoadOrCopy, Published, Ours
  <2> QED
    BY <2>1, <1>1 DEF SecretInv, LoadOrCopy
<1>9. CacheIsFile' /\ Published' /\ Writes'
  BY <1>1 DEF SecretInv, CacheIsFile, Published, Writes
<1>10. Shown'
  <2> SUFFICES ASSUME NEW x \in Calls, call'[x].st = "load"
               PROVE  /\ file.map[call'[x].key] \in call'[x].seen
                      /\ ring # "ready" \/ file.kind \notin Ours \/ load.at = "warn" => call'[x].shut
    BY DEF Shown, Reading
  <2>1. call[x].st = "load"
    BY <1>4
  <2> QED
    BY <2>1, <1>4 DEF SecretInv, Shown, Reading
<1>11. Told'
  <2> SUFFICES ASSUME NEW x \in Gets, call'[x].st \notin {"idle", "load"}
               PROVE  call'[x].value \in call'[x].seen \/ (call'[x].value = 0 /\ call'[x].shut)
    BY DEF Told
  <2>1. x \in Calls
    BY DEF Calls
  <2>2. call[x].st \notin {"idle", "load"}
    BY <2>1, <1>2, <1>3, <1>4
  <2> QED
    BY <2>1, <2>2, <1>4 DEF SecretInv, Told
<1> QED
  BY <1>5, <1>6, <1>7, <1>8, <1>9, <1>10, <1>11 DEF SecretInv

\* A step after which every call has its state, key and value still: what the
\* invariant says of calls and queue is not disturbed.
LEMMA CallsStay ==
  ASSUME SecretInv, queue' = queue, call' \in [Calls -> CallRecords],
         \A x \in Calls : /\ call'[x].st = call[x].st /\ call'[x].key = call[x].key
                          /\ call'[x].value = call[x].value
  PROVE  /\ CallKinds' /\ QueueKinds'
         /\ cache' = cache /\ queue # <<>> => Composed(cache)' = Composed(cache)
<1>1. CallKinds'
  BY DEF SecretInv, CallKinds, Calls
<1>2. QueueKinds'
  <2> SUFFICES ASSUME NEW i \in 1..Len(queue)
               PROVE  /\ queue[i].does = "set" =>
                           queue[i].call \in Sets /\ call'[queue[i].call].st # "idle"
                      /\ queue[i].does = "rotate" =>
                           queue[i].call \in Gets /\ call'[queue[i].call].st \notin {"idle", "load"}
    BY DEF QueueKinds
  <2> QED
    BY DEF SecretInv, QueueKinds, Calls
<1>3. cache' = cache /\ queue # <<>> => Composed(cache)' = Composed(cache)
  BY QueueFacts DEF Composed
<1> QED
  BY <1>1, <1>2, <1>3

\* A step that may change the key store, the file and who sees it, and moves the
\* running operation or the load on: no call changes but in what it has seen.
LEMMA SeenStay ==
  ASSUME SecretInv, queue' = queue, call' \in [Calls -> CallRecords],
         \A x \in Calls : /\ call'[x].st = call[x].st /\ call'[x].key = call[x].key
                          /\ call'[x].value = call[x].value
                          /\ ~Reading(x) => call'[x] = call[x]
  PROVE  Told'
<1> SUFFICES ASSUME NEW x \in Gets, call'[x].st \notin {"idle", "load"}
             PROVE  call'[x].value \in call'[x].seen \/ (call'[x].value = 0 /\ call'[x].shut)
  BY DEF Told
<1>1. x \in Calls /\ call'[x] = call[x]
  BY DEF Reading, Calls
<1> QED
  BY <1>1 DEF SecretInv, Told

-----------------------------------------------------------------------------
LEMMA GetHitKeeps ==
  ASSUME SecretInv, NEW c \in Gets, NEW k \in Keys, GetHit(c, k)
  PROVE  SecretInv'
<1> DEFINE shut == Shut  more == IF pending THEN Reseals(<<c>>) ELSE <<>>
           answer == [st |-> IF pending THEN "rotate" ELSE "told", key |-> k,
                      value |-> cache[k], seen |-> Current(k), shut |-> shut]
<1>1. /\ call[c].st = "idle" /\ cache # None
      /\ call' = [call EXCEPT ![c] = answer]
      /\ queue' = queue \o more
      /\ UNCHANGED <<ring, file, cache, pending, load, at, next, before, endings>>
  BY DEF GetHit
<1>2. c \in Calls /\ c \notin Sets /\ cache \in Maps /\ before \in Maps /\ file.map \in Maps
  BY <1>1, SecretsAssumption DEF Calls, SecretInv, SecretTypes, Files
<1>3. shut \in BOOLEAN
  BY DEF Shut
<1>4. Current(k) \subseteq Values /\ cache[k] \in Current(k)
  BY <1>1, <1>2 DEF Current, Maps, Values, SecretInv, CacheIsFile
<1> HIDE DEF shut
<1>5. answer \in CallRecords
  BY <1>2, <1>3, <1>4 DEF CallRecords, Maps, Values
<1>6. /\ call' \in [Calls -> CallRecords]
      /\ \A x \in Calls : call'[x] = IF x = c THEN answer ELSE call[x]
  BY <1>1, <1>2, <1>5 DEF SecretInv, SecretTypes
<1>7. /\ more \in Seq(Operations) /\ Len(more) \in Nat
      /\ \A i \in 1..Len(more) : pending /\ more[i].does = "rotate" /\ more[i].call = c
  <2>1. Reseals(<<c>>) = [i \in 1..1 |-> [does |-> "rotate", call |-> c]]
    BY DEF Reseals
  <2>2. Reseals(<<c>>) \in [1..1 -> Operations]
    BY <2>1, <1>2 DEF Operations
  <2>3. \A n \in Nat : \A f \in [1..n -> Operations] : f \in Seq(Operations) /\ Len(f) = n
    OBVIOUS
  <2>4. Reseals(<<c>>) \in Seq(Operations) /\ Len(Reseals(<<c>>)) = 1
    BY <2>2, <2>3
  <2> QED
    BY <2>1, <2>4
<1> HIDE DEF more
<1>8. /\ queue \in Seq(Operations) /\ Len(queue) \in Nat /\ queue' \in Seq(Operations)
      /\ Len(queue') = Len(queue) + Len(more)
      /\ \A i \in 1..Len(queue) + Len(more) :
           queue'[i] = IF i <= Len(queue) THEN queue[i] ELSE more[i - Len(queue)]
  <2>1. queue \in Seq(Operations) /\ queue' = queue \o more
    BY <1>1 DEF SecretInv, SecretTypes
  <2> QED
    BY <2>1, <1>7, ConcatProperties
<1>9. queue # <<>> => queue' # <<>> /\ Head(queue') = Head(queue) /\ Head(queue).call # c
  <2> SUFFICES ASSUME queue # <<>>
               PROVE  queue' # <<>> /\ Head(queue') = Head(queue) /\ Head(queue).call # c
    OBVIOUS
  <2>1. Len(queue) >= 1 /\ Head(queue) = queue[1] /\ call[Head(queue).call].st # "idle"
    BY QueueFacts
  <2>2. queue'[1] = queue[1] /\ Len(queue') >= 1
    BY <2>1, <1>7, <1>8
  <2> QED
    BY <2>1, <2>2, <1>1, <1>8
<1>10. SecretTypes'
  BY <1>1, <1>6, <1>8 DEF SecretInv, SecretTypes
<1>11. CallKinds'
  BY <1>2, <1>6 DEF SecretInv, CallKinds, Calls
<1>12. QueueKinds'
  <2> SUFFICES ASSUME NEW i \in 1..Len(queue')
               PROVE  /\ queue'[i].does = "set" =>
                           queue'[i].call \in Sets /\ call'[queue'[i].call].st # "idle"
                      /\ queue'[i].does = "rotate" =>
                           queue'[i].call \in Gets /\ call'[queue'[i].call].st \notin {"idle", "load"}
    BY DEF QueueKinds
  <2>0. i \in 1..Len(queue) + Len(more) /\ i \in Nat
    BY <1>8
  <2>1. CASE i <= Len(queue)
    <3>1. i \in 1..Len(queue) /\ queue'[i] = queue[i]
      BY <2>0, <2>1, <1>8
    <3>2. /\ queue[i].does = "set" => queue[i].call \in Sets /\ call[queue[i].call].st # "idle"
          /\ queue[i].does = "rotate" => queue[i].call \in Gets /\ call[queue[i].call].st \notin {"idle", "load"}
      BY <3>1 DEF SecretInv, QueueKinds
    <3> QED
      BY <3>1, <3>2, <1>1, <1>6 DEF Calls
  <2>2. CASE ~(i <= Len(queue))
    <3>1. Len(queue) \in Nat /\ Len(more) \in Nat
      BY <1>7, <1>8
    <3>2. i - Len(queue) \in 1..Len(more)
      BY <2>0, <2>2, <3>1
    <3>3. queue'[i] = more[i - Len(queue)]
      BY <2>0, <2>2, <1>8
    <3> QED
      BY <3>2, <3>3, <1>2, <1>6, <1>7
  <2> QED
    BY <2>1, <2>2
<1>13. LoadOrCopy' /\ CacheIsFile' /\ Published'
  BY <1>1, <1>9 DEF SecretInv, LoadOrCopy, CacheIsFile, Published
<1>14. Writes'
  <2>1. at \in {"check", "encrypt", "write", "publish"} => Composed(cache)' = Composed(cache)
    BY <1>1, <1>6, <1>9, QueueFacts DEF Composed, SecretInv, LoadOrCopy
  <2> QED
    BY <2>1, <1>1, <1>9 DEF SecretInv, Writes, LoadOrCopy
<1>15. Shown'
  BY <1>1, <1>6 DEF SecretInv, Shown, Reading
<1>16. Told'
  BY <1>4, <1>6 DEF SecretInv, Told, Calls
<1> QED
  BY <1>10, <1>11, <1>12, <1>13, <1>14, <1>15, <1>16 DEF SecretInv

LEMMA JoinedFacts ==
  ASSUME SecretInv
  PROVE  /\ Joined \in [at : {"none", "probe", "read", "decrypt", "warn"}, file : Files \union {None}]
         /\ Joined.at # "none" /\ (load.at # "none" => Joined = load)
         /\ Joined.at \in {"decrypt", "warn"} => Joined = load
BY DEF Joined, NoLoad, SecretInv, SecretTypes

LEMMA GetMissKeeps ==
  ASSUME SecretInv, NEW c \in Gets, NEW k \in Keys, GetMiss(c, k)
  PROVE  SecretInv'
<1> DEFINE shut == Shut \/ load.at = "warn"
           answer == [st |-> "load", key |-> k, value |-> 0, seen |-> Current(k), shut |-> shut]
<1>1. /\ call[c].st = "idle" /\ cache = None
      /\ call' = [call EXCEPT ![c] = answer] /\ load' = Joined
      /\ UNCHANGED <<ring, file, cache, pending, queue, at, next, before, endings>>
  BY DEF GetMiss
<1>2. c \in Calls /\ c \notin Sets /\ before \in Maps /\ file.map \in Maps
  BY SecretsAssumption DEF Calls, SecretInv, SecretTypes, Files
<1>3. shut \in BOOLEAN /\ (ring # "ready" \/ file.kind \notin Ours \/ load.at = "warn" => shut)
  BY DEF Shut
<1>4. Current(k) \subseteq Values /\ file.map[k] \in Current(k)
  BY <1>2 DEF Current, Maps, Values
<1> HIDE DEF shut
<1>5. answer \in CallRecords
  BY <1>3, <1>4 DEF CallRecords, Values
<1>6. /\ call' \in [Calls -> CallRecords]
      /\ \A x \in Calls : call'[x] = IF x = c THEN answer ELSE call[x]
  BY <1>1, <1>2, <1>5 DEF SecretInv, SecretTypes
<1>7. SecretTypes'
  BY <1>1, <1>6, JoinedFacts DEF SecretInv, SecretTypes
<1>8. CallKinds'
  BY <1>2, <1>6 DEF SecretInv, CallKinds, Calls
<1>9. QueueKinds'
  <2> SUFFICES ASSUME NEW i \in 1..Len(queue)
               PROVE  /\ queue[i].does = "set" =>
                           queue[i].call \in Sets /\ call'[queue[i].call].st # "idle"
                      /\ queue[i].does = "rotate" =>
                           queue[i].call \in Gets /\ call'[queue[i].call].st \notin {"idle", "load"}
    BY <1>1 DEF QueueKinds
  <2> QED
    BY <1>1, <1>6 DEF SecretInv, QueueKinds, Calls
<1>10. LoadOrCopy' /\ CacheIsFile' /\ Published' /\ Writes'
  BY <1>1, JoinedFacts DEF SecretInv, LoadOrCopy, CacheIsFile, Published, Writes
<1>11. Shown'
  BY <1>1, <1>3, <1>4, <1>6, JoinedFacts DEF SecretInv, Shown, Reading
<1>12. Told'
  BY <1>6 DEF SecretInv, Told, Calls
<1> QED
  BY <1>7, <1>8, <1>9, <1>10, <1>11, <1>12 DEF SecretInv

LEMMA SetCallKeeps ==
  ASSUME SecretInv, NEW c \in Sets, NEW k \in Keys, NEW v \in Values, SetCall(c, k, v)
  PROVE  SecretInv'
<1> DEFINE answer == [Idle EXCEPT !.st = "set", !.key = k, !.value = v]
           op == [does |-> "set", call |-> c]
<1>1. /\ call[c].st = "idle"
      /\ call' = [call EXCEPT ![c] = answer] /\ queue' = Append(queue, op)
      /\ UNCHANGED <<ring, file, cache, pending, load, at, next, before, endings>>
  BY DEF SetCall
<1>2. c \in Calls /\ c \notin Gets /\ op \in Operations
  BY SecretsAssumption DEF Calls, Operations
<1>3. answer \in CallRecords /\ answer.st = "set" /\ answer.key = k
  BY DEF CallRecords, Idle, Values
<1> HIDE DEF answer
<1>4. /\ call' \in [Calls -> CallRecords]
      /\ \A x \in Calls : call'[x] = IF x = c THEN answer ELSE call[x]
  BY <1>1, <1>2, <1>3 DEF SecretInv, SecretTypes
<1>5. /\ queue \in Seq(Operations) /\ queue' \in Seq(Operations) /\ Len(queue') = Len(queue) + 1
      /\ \A i \in 1..Len(queue') : queue'[i] = IF i = Len(queue) + 1 THEN op ELSE queue[i]
  BY <1>1, <1>2 DEF SecretInv, SecretTypes
<1>6. queue # <<>> => queue' # <<>> /\ Head(queue') = Head(queue) /\ Head(queue).call # c
  BY <1>1, <1>5, QueueFacts
<1>7. SecretTypes'
  BY <1>1, <1>4, <1>5 DEF SecretInv, SecretTypes
<1>8. CallKinds'
  BY <1>2, <1>3, <1>4 DEF SecretInv, CallKinds, Calls
<1>9. QueueKinds'
  <2> SUFFICES ASSUME NEW i \in 1..Len(queue')
               PROVE  /\ queue'[i].does = "set" =>
                           queue'[i].call \in Sets /\ call'[queue'[i].call].st # "idle"
                      /\ queue'[i].does = "rotate" =>
                           queue'[i].call \in Gets /\ call'[queue'[i].call].st \notin {"idle", "load"}
    BY DEF QueueKinds
  <2>1. CASE i = Len(queue) + 1
    BY <2>1, <1>2, <1>3, <1>4, <1>5
  <2>2. CASE i # Len(queue) + 1
    <3>1. i \in 1..Len(queue) /\ queue'[i] = queue[i]
      BY <2>2, <1>5
    <3> QED
      BY <3>1, <1>1, <1>4 DEF SecretInv, QueueKinds, Calls
  <2> QED
    BY <2>1, <2>2
<1>10. LoadOrCopy' /\ CacheIsFile' /\ Published'
  BY <1>1, <1>6 DEF SecretInv, LoadOrCopy, CacheIsFile, Published
<1>11. Writes'
  <2>1. at \in {"check", "encrypt", "write", "publish"} => Composed(cache)' = Composed(cache)
    BY <1>1, <1>4, <1>6, QueueFacts DEF Composed, SecretInv, LoadOrCopy
  <2> QED
    BY <2>1, <1>1, <1>6 DEF SecretInv, Writes, LoadOrCopy
<1>12. Shown'
  BY <1>1, <1>3, <1>4 DEF SecretInv, Shown, Reading
<1>13. Told'
  BY <1>2, <1>4 DEF SecretInv, Told, Calls
<1> QED
  BY <1>7, <1>8, <1>9, <1>10, <1>11, <1>12, <1>13 DEF SecretInv

-----------------------------------------------------------------------------
LEMMA LoadProbeKeeps ==
  ASSUME SecretInv, LoadProbe
  PROVE  SecretInv'
<1>1. CASE ring = "ready"
  <2>1. /\ load' = [load EXCEPT !.at = "read"] /\ load.at = "probe"
        /\ UNCHANGED <<ring, file, cache, pending, queue, at, next, call, before, endings>>
    BY <1>1 DEF LoadProbe
  <2>2. load'.at = "read" /\ load' \in [at : {"none", "probe", "read", "decrypt", "warn"}, file : Files \union {None}]
    BY <2>1 DEF SecretInv, SecretTypes
  <2> QED
    BY <2>1, <2>2 DEF SecretInv, SecretTypes, CallKinds, QueueKinds, LoadOrCopy, CacheIsFile, Writes,
                      Composed, Published, Shown, Reading, Told
<1>2. CASE ring # "ready"
  <2>1. /\ LoadEnds(Empty, None, pending) /\ load.at # "none"
        /\ UNCHANGED <<ring, file, before, endings>>
    BY <1>2 DEF LoadProbe
  <2>2. pending \in BOOLEAN
    BY DEF SecretInv, SecretTypes
  <2> QED
    BY <1>2, <2>1, <2>2, EmptyIsMap, LoadEndsKeeps
<1> QED
  BY <1>1, <1>2

LEMMA LoadReadKeeps ==
  ASSUME SecretInv, LoadRead
  PROVE  SecretInv'
<1>1. load.at = "read" /\ UNCHANGED <<ring, file, before, endings>> /\ file \in Files
  BY DEF LoadRead, SecretInv, SecretTypes
<1>2. CASE file.kind = "absent"
  <2>1. LoadEnds(Empty, Empty, FALSE)
    BY <1>2 DEF LoadRead
  <2>2. file.map = Empty /\ file.kind \in Ours
    BY <1>1, <1>2 DEF Files, Ours
  <2> QED
    BY <1>1, <2>1, <2>2, EmptyIsMap, LoadEndsKeeps
<1>3. CASE file.kind = "basic"
  <2>1. LoadEnds(Empty, None, FALSE)
    BY <1>3 DEF LoadRead
  <2>2. file.kind \notin Ours
    BY <1>3 DEF Ours
  <2> QED
    BY <1>1, <2>1, <2>2, EmptyIsMap, LoadEndsKeeps
<1>4. CASE file.kind \notin {"absent", "basic"}
  <2>1. /\ load' = [at |-> "decrypt", file |-> file]
        /\ UNCHANGED <<ring, file, cache, pending, queue, at, next, call, before, endings>>
    BY <1>4 DEF LoadRead
  <2>2. load' \in [at : {"none", "probe", "read", "decrypt", "warn"}, file : Files \union {None}]
        /\ load'.at = "decrypt" /\ load'.file = file
    BY <1>1, <2>1
  <2> QED
    BY <1>1, <1>4, <2>1, <2>2
       DEF SecretInv, SecretTypes, CallKinds, QueueKinds, LoadOrCopy, CacheIsFile, Writes,
           Composed, Published, Shown, Reading, Told
<1> QED
  BY <1>2, <1>3, <1>4

LEMMA LoadDecryptKeeps ==
  ASSUME SecretInv, LoadDecrypt
  PROVE  SecretInv'
<1>1. /\ load.at = "decrypt" /\ load.file.kind # "broken"
      /\ LoadEnds(load.file.map, load.file.map, load.file.kind = "former")
      /\ UNCHANGED <<ring, file, before, endings>>
  BY DEF LoadDecrypt
<1>2. load.file = file /\ file.kind \notin {"absent", "basic"} /\ file \in Files
  BY <1>1 DEF SecretInv, LoadOrCopy, SecretTypes
<1>3. file.map \in Maps /\ file.map # None /\ file.kind \in Ours
  BY <1>1, <1>2, EmptyIsMap DEF Files, Ours
<1> DEFINE former == file.kind = "former"
<1>4. former \in BOOLEAN /\ LoadEnds(file.map, file.map, former)
  BY <1>1, <1>2
<1> HIDE DEF former
<1> QED
  BY <1>1, <1>3, <1>4, LoadEndsKeeps

LEMMA LoadWarnedKeeps ==
  ASSUME SecretInv, LoadWarned
  PROVE  SecretInv'
<1>1. load.at = "warn" /\ LoadEnds(Empty, None, FALSE) /\ UNCHANGED <<ring, file, before, endings>>
  BY DEF LoadWarned
<1> QED
  BY <1>1, EmptyIsMap, LoadEndsKeeps

LEMMA DeniedCalls ==
  ASSUME SecretInv
  PROVE  /\ Denied \in [Calls -> CallRecords]
         /\ \A x \in Calls : /\ Denied[x].st = call[x].st /\ Denied[x].key = call[x].key
                             /\ Denied[x].value = call[x].value /\ Denied[x].seen = call[x].seen
                             /\ Reading(x) => Denied[x].shut = TRUE
                             /\ ~Reading(x) => Denied[x] = call[x]
<1>1. ASSUME NEW x \in Calls
      PROVE  /\ Denied[x] \in CallRecords
             /\ Denied[x].st = call[x].st /\ Denied[x].key = call[x].key
             /\ Denied[x].value = call[x].value /\ Denied[x].seen = call[x].seen
             /\ Reading(x) => Denied[x].shut = TRUE
             /\ ~Reading(x) => Denied[x] = call[x]
  <2>1. call[x] \in CallRecords
    BY CallFields
  <2>2. Denied[x] = IF Reading(x) THEN [call[x] EXCEPT !.shut = TRUE] ELSE call[x]
    BY DEF Denied
  <2>3. CASE Reading(x)
    <3>1. Denied[x] = [call[x] EXCEPT !.shut = TRUE]
      BY <2>2, <2>3
    <3>2. /\ [call[x] EXCEPT !.shut = TRUE] \in CallRecords
          /\ [call[x] EXCEPT !.shut = TRUE].shut = TRUE
      BY <2>1 DEF CallRecords
    <3>3. /\ Denied[x].st = call[x].st /\ Denied[x].key = call[x].key
          /\ Denied[x].value = call[x].value /\ Denied[x].seen = call[x].seen
      BY <2>1, <3>1 DEF CallRecords
    <3> QED
      BY <2>3, <3>1, <3>2, <3>3
  <2>4. CASE ~Reading(x)
    BY <2>1, <2>2, <2>4
  <2> QED
    BY <2>3, <2>4
<1>2. Denied \in [Calls -> CallRecords]
  BY <1>1 DEF Denied
<1> QED
  BY <1>1, <1>2

LEMMA LoadFailsKeeps ==
  ASSUME SecretInv, LoadFails
  PROVE  SecretInv'
<1>1. /\ load.at \in {"read", "decrypt"} /\ load' = [load EXCEPT !.at = "warn"] /\ call' = Denied
      /\ UNCHANGED <<ring, file, cache, pending, queue, at, next, before, endings>>
  BY DEF LoadFails
<1>2. load' \in [at : {"none", "probe", "read", "decrypt", "warn"}, file : Files \union {None}]
      /\ load'.at = "warn"
  BY <1>1 DEF SecretInv, SecretTypes
<1>3. CallKinds' /\ QueueKinds' /\ Told' /\ (queue # <<>> => Composed(cache)' = Composed(cache))
  BY <1>1, DeniedCalls, CallsStay, SeenStay
<1>4. SecretTypes'
  BY <1>1, <1>2, DeniedCalls DEF SecretInv, SecretTypes
<1>5. LoadOrCopy' /\ CacheIsFile' /\ Published' /\ Writes'
  BY <1>1, <1>2, <1>3 DEF SecretInv, LoadOrCopy, CacheIsFile, Published, Writes
<1>6. Shown'
  BY <1>1, DeniedCalls DEF SecretInv, Shown, Reading
<1> QED
  BY <1>3, <1>4, <1>5, <1>6 DEF SecretInv

LEMMA RingChangesKeeps ==
  ASSUME SecretInv, RingChanges
  PROVE  SecretInv'
<1>1. /\ ring' \in Rings /\ call' = IF ring' = "ready" THEN call ELSE Denied
      /\ UNCHANGED <<file, cache, pending, load, queue, at, next, before, endings>>
  BY DEF RingChanges
<1>2. /\ call' \in [Calls -> CallRecords]
      /\ \A x \in Calls : /\ call'[x].st = call[x].st /\ call'[x].key = call[x].key
                          /\ call'[x].value = call[x].value /\ call'[x].seen = call[x].seen
                          /\ Reading(x) /\ (ring' # "ready" \/ call[x].shut = TRUE) => call'[x].shut = TRUE
                          /\ ~Reading(x) => call'[x] = call[x]
  BY <1>1, DeniedCalls DEF SecretInv, SecretTypes
<1>3. CallKinds' /\ QueueKinds' /\ Told' /\ (queue # <<>> => Composed(cache)' = Composed(cache))
  BY <1>1, <1>2, CallsStay, SeenStay
<1>4. SecretTypes'
  BY <1>1, <1>2 DEF SecretInv, SecretTypes
<1>5. LoadOrCopy' /\ CacheIsFile' /\ Published' /\ Writes'
  BY <1>1, <1>3 DEF SecretInv, LoadOrCopy, CacheIsFile, Published, Writes
<1>6. Shown'
  <2> SUFFICES ASSUME NEW x \in Calls, call'[x].st = "load"
               PROVE  /\ file.map[call'[x].key] \in call'[x].seen
                      /\ ring' # "ready" \/ file.kind \notin Ours \/ load.at = "warn" => call'[x].shut
    BY <1>1 DEF Shown, Reading
  <2>1. call[x].st = "load" /\ call[x].shut \in BOOLEAN
    BY <1>2, CallFields
  <2>2. /\ file.map[call[x].key] \in call[x].seen
        /\ file.kind \notin Ours \/ load.at = "warn" => call[x].shut
    BY <2>1 DEF SecretInv, Shown, Reading
  <2>3. ring' # "ready" \/ file.kind \notin Ours \/ load.at = "warn" => ring' # "ready" \/ call[x].shut = TRUE
    BY <2>1, <2>2
  <2> QED
    BY <1>2, <2>1, <2>2, <2>3 DEF Reading
<1> QED
  BY <1>3, <1>4, <1>5, <1>6 DEF SecretInv

-----------------------------------------------------------------------------
LEMMA SetTurnKeeps ==
  ASSUME SecretInv, SetTurn
  PROVE  SecretInv'
<1>1. /\ queue # <<>> /\ Head(queue).does = "set"
      /\ UNCHANGED <<ring, file, cache, pending, queue, call, before, endings>>
  BY DEF SetTurn, Turn
<1>2. CallKinds' /\ QueueKinds' /\ Told' /\ (queue # <<>> => Composed(cache)' = Composed(cache))
  BY <1>1, CallsStay, SeenStay DEF SecretInv, SecretTypes
<1>3. CASE cache # None
  <2>1. at' = "check" /\ next' = Composed(cache) /\ UNCHANGED load /\ cache \in Maps
    BY <1>3 DEF SetTurn, SecretInv, SecretTypes
  <2>2. SecretTypes'
    BY <1>1, <2>1, ComposedIsMap DEF SecretInv, SecretTypes
  <2>3. LoadOrCopy' /\ CacheIsFile' /\ Published' /\ Writes'
    BY <1>1, <1>2, <1>3, <2>1 DEF SecretInv, LoadOrCopy, CacheIsFile, Published, Writes, SetTurn, Turn
  <2>4. Shown'
    BY <1>1, <2>1 DEF SecretInv, Shown, Reading
  <2> QED
    BY <1>2, <2>2, <2>3, <2>4 DEF SecretInv
<1>4. CASE cache = None
  <2>1. at' = "load" /\ load' = Joined /\ UNCHANGED next
    BY <1>4 DEF SetTurn
  <2>2. SecretTypes'
    BY <1>1, <2>1, JoinedFacts DEF SecretInv, SecretTypes
  <2>3. LoadOrCopy' /\ CacheIsFile' /\ Published' /\ Writes'
    BY <1>1, <1>4, <2>1, JoinedFacts DEF SecretInv, LoadOrCopy, CacheIsFile, Published, Writes
  <2>4. Shown'
    BY <1>1, <2>1, JoinedFacts DEF SecretInv, Shown, Reading
  <2> QED
    BY <1>2, <2>2, <2>3, <2>4 DEF SecretInv
<1> QED
  BY <1>3, <1>4

LEMMA RotateTurnKeeps ==
  ASSUME SecretInv, RotateTurn
  PROVE  SecretInv'
<1>1. /\ queue # <<>> /\ Head(queue).does = "rotate" /\ at = "turn"
      /\ UNCHANGED <<ring, file, cache, pending, load, before, endings>>
  BY DEF RotateTurn, Turn
<1>2. CASE pending /\ cache # None
  <2>1. at' = "check" /\ next' = cache /\ UNCHANGED <<queue, call>> /\ cache \in Maps
    BY <1>2 DEF RotateTurn, SecretInv, SecretTypes
  <2>2. CallKinds' /\ QueueKinds' /\ Told'
    BY <1>1, <2>1, CallsStay, SeenStay DEF SecretInv, SecretTypes
  <2>3. SecretTypes' /\ LoadOrCopy' /\ CacheIsFile' /\ Published' /\ Writes' /\ Shown'
    BY <1>1, <1>2, <2>1
       DEF SecretInv, SecretTypes, LoadOrCopy, CacheIsFile, Published, Writes, Shown, Reading
  <2> QED
    BY <2>2, <2>3 DEF SecretInv
<1>3. CASE ~(pending /\ cache # None)
  <2>1. Leave("told") /\ UNCHANGED next
    BY <1>3 DEF RotateTurn
  <2> QED
    BY <1>1, <2>1, LeaveKeeps
<1> QED
  BY <1>2, <1>3

LEMMA SealedKeeps ==
  ASSUME SecretInv, Sealed
  PROVE  SecretInv'
<1>1. /\ at \in {"check", "encrypt"} /\ at' \in {"encrypt", "write"}
      /\ UNCHANGED <<ring, file, cache, pending, load, queue, next, call, before, endings>>
  BY DEF Sealed
<1>2. CallKinds' /\ QueueKinds' /\ Told' /\ (queue # <<>> => Composed(cache)' = Composed(cache))
  BY <1>1, CallsStay, SeenStay DEF SecretInv, SecretTypes
<1>3. SecretTypes' /\ LoadOrCopy' /\ CacheIsFile' /\ Published' /\ Writes' /\ Shown'
  BY <1>1, <1>2
     DEF SecretInv, SecretTypes, LoadOrCopy, CacheIsFile, Published, Writes, Shown, Reading
<1> QED
  BY <1>2, <1>3 DEF SecretInv

LEMMA RefusedKeeps ==
  ASSUME SecretInv, Refused
  PROVE  SecretInv'
<1>1. Leave("failed") /\ UNCHANGED <<ring, file, cache, pending, load, next, before, endings>>
  BY DEF Refused
<1>2. queue # <<>> /\ at # "publish"
  BY DEF Refused, Turn, SecretInv, LoadOrCopy
<1> QED
  BY <1>1, <1>2, LeaveKeeps

LEMMA WriteFailsKeeps ==
  ASSUME SecretInv, WriteFails
  PROVE  SecretInv'
<1>1. Leave("failed") /\ UNCHANGED <<ring, file, cache, pending, load, next, before, endings>>
  BY DEF WriteFails
<1>2. queue # <<>> /\ at # "publish"
  BY DEF WriteFails, SecretInv, LoadOrCopy
<1> QED
  BY <1>1, <1>2, LeaveKeeps

LEMMA PublishKeeps ==
  ASSUME SecretInv, Publish
  PROVE  SecretInv'
<1>1. /\ at = "publish" /\ cache' = next /\ pending' = FALSE /\ Leave("saved")
      /\ UNCHANGED <<ring, file, load, next, before, endings>>
  BY DEF Publish
<1>2. queue # <<>>
  BY <1>1 DEF SecretInv, LoadOrCopy
<1> QED
  BY <1>1, <1>2, LeaveKeeps

LEMMA ReplacedKeeps ==
  ASSUME SecretInv, Replaced
  PROVE  SecretInv'
<1>1. /\ at = "write" /\ at' = "publish" /\ file' = [kind |-> "sealed", map |-> next]
      /\ before' = file.map /\ call' = Seeing(next)
      /\ UNCHANGED <<ring, cache, pending, load, queue, next, endings>>
  BY DEF Replaced
<1>2. /\ next \in Maps /\ queue # <<>> /\ cache # None /\ load.at = "none" /\ file.kind \in Ours
      /\ file.map \in Maps /\ cache = file.map
  BY <1>1 DEF SecretInv, SecretTypes, LoadOrCopy, CacheIsFile, Files
<1>3. file' \in Files /\ file'.kind = "sealed" /\ file'.map = next /\ "sealed" \in Ours
  BY <1>1, <1>2 DEF Files, Ours
<1>4. \A x \in Calls :
        /\ call'[x] \in CallRecords
        /\ call'[x].st = call[x].st /\ call'[x].key = call[x].key
        /\ call'[x].value = call[x].value /\ call'[x].shut = call[x].shut
        /\ Reading(x) => next[call[x].key] \in call'[x].seen
        /\ ~Reading(x) => call'[x] = call[x]
  <2> TAKE x \in Calls
  <2>1. /\ call[x] \in CallRecords
        /\ call'[x] = IF Reading(x) THEN [call[x] EXCEPT !.seen = @ \union {next[call[x].key]}] ELSE call[x]
    BY <1>1, CallFields DEF Seeing
  <2>2. CASE Reading(x)
    <3>1. call[x].key \in Keys
      BY <2>2, CallFields DEF Reading
    <3>2. next[call[x].key] \in Values
      BY <3>1, <1>2 DEF Maps, Values
    <3> QED
      BY <2>1, <2>2, <3>2 DEF CallRecords
  <2>3. CASE ~Reading(x)
    BY <2>1, <2>3
  <2> QED
    BY <2>2, <2>3
<1>5. call' \in [Calls -> CallRecords]
  BY <1>1, <1>4 DEF Seeing
<1>6. CallKinds' /\ QueueKinds' /\ Told' /\ Composed(cache)' = Composed(cache)
  BY <1>1, <1>2, <1>4, <1>5, CallsStay, SeenStay
<1>7. SecretTypes'
  BY <1>1, <1>2, <1>3, <1>5 DEF SecretInv, SecretTypes
<1>8. LoadOrCopy' /\ CacheIsFile' /\ Published' /\ Writes'
  BY <1>1, <1>2, <1>3, <1>6 DEF SecretInv, LoadOrCopy, CacheIsFile, Published, Writes
<1>9. Shown'
  <2> SUFFICES ASSUME NEW x \in Calls, call'[x].st = "load"
               PROVE  /\ next[call'[x].key] \in call'[x].seen
                      /\ ring # "ready" \/ "sealed" \notin Ours \/ load.at = "warn" => call'[x].shut
    BY <1>1, <1>3 DEF Shown, Reading
  <2>1. Reading(x)
    BY <1>4 DEF Reading
  <2>2. ring # "ready" => call[x].shut
    BY <2>1 DEF SecretInv, Shown
  <2> QED
    BY <2>1, <2>2, <1>2, <1>3, <1>4
<1> QED
  BY <1>6, <1>7, <1>8, <1>9 DEF SecretInv

LEMMA RestartedKeeps ==
  ASSUME SecretInv, Restarted
  PROVE  SecretInv'
<1>1. /\ endings < Endings /\ endings' = endings + 1
      /\ cache' = None /\ pending' = FALSE /\ load' = NoLoad /\ queue' = <<>> /\ at' = "turn" /\ next' = Empty
      /\ call' = [c \in Calls |-> IF call[c].st \in {"load", "rotate", "set"} THEN Idle ELSE call[c]]
      /\ UNCHANGED <<ring, file, before>>
  BY DEF Restarted
<1>2. Idle \in CallRecords /\ Idle.st = "idle"
  BY DEF Idle, CallRecords, Values
<1>3. \A x \in Calls : /\ call'[x] \in CallRecords
                       /\ call'[x] = call[x] \/ call'[x].st = "idle"
                       /\ call'[x].st # "load"
  BY <1>1, <1>2, CallFields
<1>4. SecretTypes'
  <2>1. load' \in [at : {"none", "probe", "read", "decrypt", "warn"}, file : Files \union {None}]
    BY <1>1 DEF NoLoad
  <2>2. endings' \in 0..Endings
    BY <1>1, SecretsAssumption DEF SecretInv, SecretTypes
  <2>3. queue' \in Seq(Operations) /\ next' \in Maps
    BY <1>1, EmptyIsMap
  <2>4. call' \in [Calls -> CallRecords]
    BY <1>1, <1>3
  <2> QED
    BY <1>1, <2>1, <2>2, <2>3, <2>4 DEF SecretInv, SecretTypes
<1>5. CallKinds'
  BY <1>3 DEF SecretInv, CallKinds, Calls
<1>6. QueueKinds'
  BY <1>1 DEF QueueKinds
<1>7. LoadOrCopy' /\ CacheIsFile' /\ Published' /\ Writes'
  BY <1>1 DEF LoadOrCopy, CacheIsFile, Published, Writes, NoLoad
<1>8. Shown'
  BY <1>3 DEF Shown, Reading
<1>9. Told'
  BY <1>3 DEF SecretInv, Told, Calls
<1> QED
  BY <1>4, <1>5, <1>6, <1>7, <1>8, <1>9 DEF SecretInv

-----------------------------------------------------------------------------
\* Every step of the store keeps the invariant.
LEMMA SecretsStep == SecretInv /\ [SecretsNext]_secretVars => SecretInv'
<1> SUFFICES ASSUME SecretInv, [SecretsNext]_secretVars PROVE SecretInv'
  OBVIOUS
<1>1. ASSUME NEW c \in Gets, NEW k \in Keys, GetHit(c, k) \/ GetMiss(c, k) PROVE SecretInv'
  BY <1>1, GetHitKeeps, GetMissKeeps
<1>2. ASSUME NEW c \in Sets, NEW k \in Keys, NEW v \in Texts \union {0}, SetCall(c, k, v) PROVE SecretInv'
  BY <1>2, SetCallKeeps DEF Values
<1>3. CASE LoadProbe \/ LoadRead \/ LoadDecrypt \/ LoadFails \/ LoadWarned
  BY <1>3, LoadProbeKeeps, LoadReadKeeps, LoadDecryptKeeps, LoadFailsKeeps, LoadWarnedKeeps
<1>4. CASE SetTurn \/ RotateTurn \/ Sealed \/ Refused
  BY <1>4, SetTurnKeeps, RotateTurnKeeps, SealedKeeps, RefusedKeeps
<1>5. CASE WriteFails \/ Replaced \/ Publish
  BY <1>5, WriteFailsKeeps, ReplacedKeeps, PublishKeeps
<1>6. CASE RingChanges \/ Restarted
  BY <1>6, RingChangesKeeps, RestartedKeeps
<1>7. CASE UNCHANGED secretVars
  BY <1>7 DEF secretVars, SecretInv, SecretTypes, CallKinds, QueueKinds, LoadOrCopy, CacheIsFile, Writes,
              Composed, Published, Shown, Reading, Told
<1> QED
  BY <1>1, <1>2, <1>3, <1>4, <1>5, <1>6, <1>7 DEF SecretsNext

\* The credentials in memory, on their way to the file and in every answer: the
\* promises of secrets.ts loadAll, writeAll, setSecret and getSecret at every step.
THEOREM SecretsInvariant == SecretsSpec => []SecretInv
<1> QED
  BY SecretsStart, SecretsStep, PTL DEF SecretsSpec

LEMMA TypesAsChecked == SecretInv => SecretsTypeOK /\ CacheIsFile /\ ReadsCurrent
<1> SUFFICES ASSUME SecretInv PROVE SecretsTypeOK /\ CacheIsFile /\ ReadsCurrent
  OBVIOUS
<1>1. \A i \in 1..Len(queue) : queue[i].does \in {"set", "rotate"} /\ queue[i].call \in Calls
  <2>1. queue \in Seq(Operations)
    BY DEF SecretInv, SecretTypes
  <2>2. \A i \in 1..Len(queue) : queue[i] \in Operations
    BY <2>1
  <2> QED
    BY <2>2 DEF Operations
<1>2. load.at \in {"none", "probe", "read", "decrypt", "warn"}
  BY DEF SecretInv, SecretTypes
<1>3. \A c \in Calls : call[c].st \in {"idle", "load", "rotate", "told", "set", "saved", "failed"}
  BY CallFields
<1>4. SecretsTypeOK
  BY <1>1, <1>2, <1>3 DEF SecretsTypeOK, SecretInv, SecretTypes
<1> QED
  BY <1>4 DEF ReadsCurrent, SecretInv, Told

\* What the running operation has published is its own change and no other.
LEMMA FileStep ==
  ASSUME SecretInv, [SecretsNext]_secretVars, file' # file
  PROVE  /\ file.kind \in Ours /\ queue # <<>>
         /\ LET op == Head(queue)  c == call[op.call] IN
            file'.map = IF op.does = "set" THEN [file.map EXCEPT ![c.key] = c.value] ELSE file.map
<1>1. Replaced
  BY DEF SecretsNext, secretVars, GetHit, GetMiss, SetCall, LoadProbe, LoadRead, LoadDecrypt, LoadFails,
         LoadWarned, SetTurn, RotateTurn, Sealed, Refused, WriteFails, Publish, RingChanges, Restarted
<1>2. at = "write" /\ file' = [kind |-> "sealed", map |-> next]
  BY <1>1 DEF Replaced
<1>3. cache # None /\ cache = file.map /\ file.kind \in Ours /\ queue # <<>>
  BY <1>2 DEF SecretInv, LoadOrCopy, CacheIsFile
<1>4. next = IF Head(queue).does = "set" THEN Composed(file.map) ELSE file.map
  BY <1>2, <1>3 DEF SecretInv, Writes
<1> QED
  BY <1>2, <1>3, <1>4 DEF Composed

LEMMA SavedStep ==
  ASSUME SecretInv, [SecretsNext]_secretVars, NEW c \in Sets,
         call[c].st # "saved", call'[c].st = "saved"
  PROVE  file.kind = "sealed" /\ file.map[call[c].key] = call[c].value
<1>0. c \in Calls /\ c \notin Gets /\ call[c].st \in {"idle", "set", "failed"} /\ call \in [Calls -> CallRecords]
  BY SecretsAssumption DEF Calls, SecretInv, SecretTypes, CallKinds
<1>1. Publish /\ Head(queue).call = c
  <2>1. ASSUME NEW g \in Gets, NEW k \in Keys, GetHit(g, k) \/ GetMiss(g, k) PROVE FALSE
    BY <2>1, <1>0 DEF GetHit, GetMiss
  <2>2. ASSUME NEW x \in Sets, NEW k \in Keys, NEW v \in Texts \union {0}, SetCall(x, k, v) PROVE FALSE
    BY <2>2, <1>0 DEF SetCall, Idle
  <2>3. ASSUME NEW m, NEW k, NEW p, LoadEnds(m, k, p) PROVE FALSE
    <3>1. ~Reading(c) /\ call[c] \in CallRecords
      BY <1>0, CallFields DEF Reading
    <3>2. call'[c] = call[c] \/ call'[c] = [call[c] EXCEPT !.st = "failed"]
      BY <2>3, <1>0, <3>1 DEF LoadEnds
    <3> QED
      BY <3>1, <3>2 DEF CallRecords
  <2>4. ASSUME NEW a \in {"told", "failed"}, Leave(a) PROVE FALSE
    BY <2>4, <1>0 DEF Leave
  <2>5. ~(LoadProbe \/ LoadRead \/ LoadDecrypt \/ LoadWarned)
    BY <2>3 DEF LoadProbe, LoadRead, LoadDecrypt, LoadWarned
  <2>6. ~(LoadFails \/ RingChanges)
    BY <1>0, DeniedCalls DEF LoadFails, RingChanges
  <2>7. ~(RotateTurn \/ Refused \/ WriteFails)
    BY <2>4 DEF RotateTurn, Refused, WriteFails
  <2>8. ~(SetTurn \/ Sealed \/ UNCHANGED secretVars)
    BY DEF SetTurn, Sealed, secretVars
  <2>9. ~Replaced
    BY <1>0, CallFields DEF Replaced, Seeing, Reading
  <2>10. ~Restarted
    BY <1>0 DEF Restarted, Idle
  <2>11. Publish
    BY <2>1, <2>2, <2>5, <2>6, <2>7, <2>8, <2>9, <2>10 DEF SecretsNext
  <2>12. call' = [call EXCEPT ![Head(queue).call].st = IF @ = "rotate" THEN "told" ELSE "saved"]
    BY <2>11 DEF Publish, Leave
  <2> QED
    BY <2>11, <2>12, <1>0
<1>2. at = "publish" /\ queue # <<>> /\ cache # None /\ file.kind = "sealed" /\ file.map = next
  BY <1>1 DEF Publish, SecretInv, LoadOrCopy, Published
<1>3. Head(queue).does = "set" /\ cache \in Maps
  BY <1>0, <1>1, <1>2, QueueFacts DEF SecretInv, SecretTypes
<1>4. next = Composed(cache) /\ call[c].key \in Keys
  BY <1>0, <1>1, <1>2, <1>3, QueueFacts, CallFields DEF SecretInv, Writes
<1> QED
  BY <1>1, <1>2, <1>3, <1>4 DEF Composed, Maps

\* Whatever the key store does between two awaits, whichever step fails and
\* whenever the application ends (secrets.ts setSecret, rotateIfNeeded, getSecret):
\* the file changes by a set, in its own key only, or by a reseal; a set is answered
\* when its value is there; the copy in memory is the file; readers hear what is so.
THEOREM CredentialsAreKept == SecretsSpec => CredentialsKept
<1>1. SecretInv /\ [SecretsNext]_secretVars =>
        [file' # file =>
           /\ file.kind \in Ours /\ queue # <<>>
           /\ LET op == Head(queue)  c == call[op.call] IN
              file'.map = IF op.does = "set" THEN [file.map EXCEPT ![c.key] = c.value] ELSE file.map]_file
  BY FileStep
<1>2. SecretInv /\ [SecretsNext]_secretVars =>
        [\A c \in Sets : call[c].st # "saved" /\ call'[c].st = "saved" =>
                           file.kind = "sealed" /\ file.map[call[c].key] = call[c].value]_call
  BY SavedStep
<1> QED
  BY <1>1, <1>2, SecretsInvariant, TypesAsChecked, PTL DEF SecretsSpec, CredentialsKept, OnlyItsKey, SavedIsThere

-----------------------------------------------------------------------------
(***************************************************************************)
(* Background jobs                                                         *)
(***************************************************************************)

\* A chunk is read before it is lost or written, and none is both.
Chunks ==
  \A j \in Jobs : /\ child[j].lost + child[j].written <= child[j].read
                  /\ child[j].read <= child[j].made

\* What has not been launched has no child and no save, and nobody has heard of it.
Fresh ==
  /\ \A s \in saves : s.of \in 1..launched
  /\ answered \union jobs \union killing \union removing \subseteq 1..launched
  /\ \A j \in Jobs : j > launched => /\ job[j] = NoJob /\ meta[j] = "none"
                                     /\ child[j].os = "none" /\ child[j].made = 0

\* Events come in their order; when the application is down nothing is under way.
Events ==
  /\ \A j \in Jobs : child[j].event = "exit" => child[j].os = "gone"
  /\ ~up => /\ saves = {} /\ killing = {} /\ removing = {}
            /\ \A j \in Jobs : child[j].event = "close"

\* finish() runs once, and only where the handlers are attached.
FinishOnce ==
  \A j \in Jobs :
    /\ job[j].ended => job[j].heard # "no"
    /\ job[j].finish # "none" => job[j].ended /\ job[j].finish # "running"
    /\ job[j].state = "running" => job[j].owned

\* A save of launch() precedes the handlers, one of finish() follows it, and one
\* of a kill is of a job that has been killed.
SaveOrder ==
  \A s \in saves :
    /\ s.by = "launch" => /\ job[s.of].heard = "no" /\ ~job[s.of].ended
                          /\ job[s.of].state \in {"running", "cancelled"}
    /\ s.by = "finish" => job[s.of].ended /\ job[s.of].finish = "none"
    /\ s.by = "kill" => s.of \in killed

\* launch() saves a job once.
LaunchSave ==
  \A s, t \in saves : s.of = t.of /\ s.by = "launch" /\ t.by = "launch" => s = t

\* A job that is not killed has one save at a time, alone with its temporary file.
SavedAlone ==
  \A s \in saves :
    s.of \notin killed =>
      /\ \A t \in saves : t.of = s.of => t = s
      /\ s.file = "tmp"
      /\ s.step = "rename" => tmp[s.of] = s.state

\* No output is lost on its way to the log of a job whose handlers were early, and
\* once finish() is to say completed there is no more of it.
Delivery ==
  \A j \in Jobs :
    /\ job[j].heard = "no" /\ child[j].event = "none" => child[j].lost = 0
    /\ job[j].heard = "early" /\ ~job[j].ended => child[j].lost = 0
    /\ job[j].heard = "early" /\ "completed" \in {job[j].state, job[j].finish} =>
         child[j].os = "gone" /\ child[j].read = child[j].made /\ child[j].lost = 0
    /\ job[j].heard = "early" /\ job[j].state = "completed" => child[j].written = child[j].made

Removed == removing \intersect jobs = {}

JobInv == TypeOK /\ Chunks /\ Fresh /\ Events /\ FinishOnce /\ SaveOrder /\ LaunchSave /\ SavedAlone
          /\ Delivery /\ Removed /\ KnownAfterRestart

JobRecords == [state : Persisted, owned : BOOLEAN, heard : {"no", "early", "late"},
               ended : BOOLEAN, finish : Persisted]
ChildRecords == [os : {"none", "running", "gone"}, event : {"none", "exit", "close"},
                 made : 0..MaxChunks, read : 0..MaxChunks, lost : 0..MaxChunks,
                 written : 0..MaxChunks]
SaveRecords == [of : Jobs, by : {"launch", "finish", "kill"}, state : States,
                step : {"open", "write", "rename"}, file : {"tmp", "meta"}]

LEMMA JobTypes ==
  ASSUME JobInv
  PROVE  /\ job \in [Jobs -> JobRecords] /\ child \in [Jobs -> ChildRecords]
         /\ saves \subseteq SaveRecords
BY DEF JobInv, TypeOK, JobRecords, ChildRecords, SaveRecords

LEMMA JobFields ==
  ASSUME JobInv, NEW j \in Jobs
  PROVE  /\ job[j] \in JobRecords /\ child[j] \in ChildRecords
         /\ job[j].state \in Persisted /\ job[j].owned \in BOOLEAN
         /\ job[j].heard \in {"no", "early", "late"} /\ job[j].ended \in BOOLEAN
         /\ job[j].finish \in Persisted
         /\ child[j].os \in {"none", "running", "gone"} /\ child[j].event \in {"none", "exit", "close"}
         /\ child[j].made \in 0..MaxChunks /\ child[j].read \in 0..MaxChunks
         /\ child[j].lost \in 0..MaxChunks /\ child[j].written \in 0..MaxChunks
         /\ job[j].owned => job[j].state = "running"
BY JobTypes DEF JobRecords, ChildRecords, JobInv, TypeOK

LEMMA SaveFields ==
  ASSUME JobInv, NEW s \in saves
  PROVE  /\ s \in SaveRecords /\ s.of \in Jobs /\ s.by \in {"launch", "finish", "kill"}
         /\ s.state \in States /\ s.step \in {"open", "write", "rename"} /\ s.file \in {"tmp", "meta"}
BY JobTypes DEF SaveRecords

LEMMA JobsStart == Init => JobInv
<1> SUFFICES ASSUME Init PROVE JobInv
  OBVIOUS
<1>1. TypeOK
  <2>1. job \in [Jobs -> JobRecords]
    BY DEF Init, NoJob, JobRecords, Persisted
  <2>2. child \in [Jobs -> ChildRecords]
    BY JobsAssumption DEF Init, ChildRecords
  <2>3. launched \in 0..MaxJobs /\ restarts \in 0..MaxRestarts
    BY JobsAssumption DEF Init
  <2>4. meta \in [Jobs -> Contents] /\ tmp \in [Jobs -> Contents]
    BY DEF Init, Contents, Persisted
  <2>5. \A j \in Jobs : ~job[j].owned
    BY DEF Init, NoJob
  <2> QED
    BY <2>1, <2>2, <2>3, <2>4, <2>5 DEF Init, TypeOK, JobRecords, ChildRecords
<1>2. \A j \in Jobs : job[j] = NoJob /\ child[j] = [os |-> "none", event |-> "none", made |-> 0,
                                                     read |-> 0, lost |-> 0, written |-> 0]
  BY DEF Init
<1>3. Chunks /\ Events /\ FinishOnce /\ Delivery
  BY <1>2 DEF Init, Chunks, Events, FinishOnce, Delivery, NoJob
<1>4. Fresh /\ SaveOrder /\ LaunchSave /\ SavedAlone /\ Removed /\ KnownAfterRestart
  BY <1>2 DEF Init, Fresh, SaveOrder, LaunchSave, SavedAlone, Removed, KnownAfterRestart
<1> QED
  BY <1>1, <1>3, <1>4 DEF JobInv

-----------------------------------------------------------------------------
\* What a child may become, beside the record of its job.
ChildMay(j, r, c) ==
  /\ c \in ChildRecords
  /\ c.lost + c.written <= c.read /\ c.read <= c.made
  /\ j > launched => c.os = "none" /\ c.made = 0
  /\ c.event = "exit" => c.os = "gone"
  /\ ~up => c.event = "close"
  /\ r.heard = "no" /\ c.event = "none" => c.lost = 0
  /\ r.heard = "early" /\ ~r.ended => c.lost = 0
  /\ r.heard = "early" /\ "completed" \in {r.state, r.finish} =>
       c.os = "gone" /\ c.read = c.made /\ c.lost = 0
  /\ r.heard = "early" /\ r.state = "completed" => c.written = c.made

LEMMA ChildIs == ASSUME JobInv, NEW j \in Jobs PROVE ChildMay(j, job[j], child[j])
BY JobFields DEF ChildMay, JobInv, Chunks, Fresh, Events, Delivery

LEMMA ChildOnly ==
  ASSUME JobInv, NEW j \in Jobs, NEW c, ChildMay(j, job[j], c), child' = [child EXCEPT ![j] = c],
         UNCHANGED <<launched, job, jobs, saves, meta, tmp, killing, removing, up,
                     restarts, answered, killed>>
  PROVE  JobInv'
<1>1. c \in ChildRecords
  BY DEF ChildMay
<1>2. child' \in [Jobs -> ChildRecords] /\ \A k \in Jobs : child'[k] = IF k = j THEN c ELSE child[k]
  BY <1>1, JobTypes
<1>3. TypeOK'
  BY <1>2 DEF JobInv, TypeOK, ChildRecords
<1>4. \A k \in Jobs : ChildMay(k, job[k], child'[k])
  BY <1>2, ChildIs
<1>5. Chunks' /\ Fresh' /\ Events' /\ Delivery'
  BY <1>4 DEF JobInv, Chunks, Fresh, Events, Delivery, ChildMay
<1>6. FinishOnce' /\ SaveOrder' /\ LaunchSave' /\ SavedAlone' /\ Removed' /\ KnownAfterRestart'
  BY DEF JobInv, FinishOnce, SaveOrder, LaunchSave, SavedAlone, Removed, KnownAfterRestart
<1> QED
  BY <1>3, <1>5, <1>6 DEF JobInv

LEMMA OutputKeeps == ASSUME JobInv, NEW j \in Jobs, Output(j) PROVE JobInv'
<1> DEFINE c == [child[j] EXCEPT !.made = @ + 1]
<1>1. /\ child[j].os = "running" /\ child[j].made < MaxChunks /\ child' = [child EXCEPT ![j] = c]
      /\ UNCHANGED <<launched, job, jobs, saves, meta, tmp, killing, removing, up,
                     restarts, answered, killed>>
  BY DEF Output
<1>2. ChildMay(j, job[j], c)
  BY <1>1, ChildIs, JobFields, JobsAssumption DEF ChildMay, ChildRecords
<1> QED
  BY <1>1, <1>2, ChildOnly

LEMMA OsExitKeeps == ASSUME JobInv, NEW j \in Jobs, OsExit(j) PROVE JobInv'
<1> DEFINE c == [child[j] EXCEPT !.os = "gone"]
<1>1. /\ child[j].os = "running" /\ child' = [child EXCEPT ![j] = c]
      /\ UNCHANGED <<launched, job, jobs, saves, meta, tmp, killing, removing, up,
                     restarts, answered, killed>>
  BY DEF OsExit
<1>2. ChildMay(j, job[j], c)
  BY <1>1, ChildIs, JobFields DEF ChildMay, ChildRecords
<1> QED
  BY <1>1, <1>2, ChildOnly

LEMMA ExitEventKeeps == ASSUME JobInv, NEW j \in Jobs, ExitEvent(j) PROVE JobInv'
<1> DEFINE c == [child[j] EXCEPT !.event = "exit"]
<1>1. /\ up /\ child[j].os = "gone" /\ child' = [child EXCEPT ![j] = c]
      /\ UNCHANGED <<launched, job, jobs, saves, meta, tmp, killing, removing, up,
                     restarts, answered, killed>>
  BY DEF ExitEvent
<1>2. ChildMay(j, job[j], c)
  BY <1>1, ChildIs, JobFields DEF ChildMay, ChildRecords
<1> QED
  BY <1>1, <1>2, ChildOnly

LEMMA WrittenKeeps == ASSUME JobInv, NEW j \in Jobs, Written(j) PROVE JobInv'
<1> DEFINE c == [child[j] EXCEPT !.written = @ + 1]
<1>1. /\ Buffered(j) > 0 /\ child' = [child EXCEPT ![j] = c]
      /\ UNCHANGED <<launched, job, jobs, saves, meta, tmp, killing, removing, up,
                     restarts, answered, killed>>
  BY DEF Written
<1>2. ChildMay(j, job[j], c)
  BY <1>1, ChildIs, JobFields, JobsAssumption DEF ChildMay, ChildRecords, Buffered
<1> QED
  BY <1>1, <1>2, ChildOnly

LEMMA ReadOne ==
  ASSUME JobInv, NEW j \in Jobs, NEW l \in 0..MaxChunks, child[j].read + 1 \in 0..MaxChunks,
         child' = [child EXCEPT ![j].read = @ + 1, ![j].lost = l]
  PROVE  child' = [child EXCEPT ![j] = [child[j] EXCEPT !.read = @ + 1, !.lost = l]]
<1> DEFINE c == [child[j] EXCEPT !.read = @ + 1, !.lost = l]
<1>1. child \in [Jobs -> ChildRecords] /\ child[j] \in ChildRecords
  BY JobTypes
<1>2. child' \in [Jobs -> ChildRecords] /\ [child EXCEPT ![j] = c] \in [Jobs -> ChildRecords]
  BY <1>1 DEF ChildRecords
<1>3. \A k \in Jobs : child'[k] = [child EXCEPT ![j] = c][k]
  BY <1>1 DEF ChildRecords
<1> QED
  BY <1>2, <1>3

LEMMA DataKeeps == ASSUME JobInv, NEW j \in Jobs, Data(j) PROVE JobInv'
<1>1. /\ up /\ child[j].read < child[j].made /\ (job[j].heard # "no" \/ child[j].event = "exit")
      /\ UNCHANGED <<launched, job, jobs, saves, meta, tmp, killing, removing, up,
                     restarts, answered, killed>>
  BY DEF Data
<1>2. PICK l \in Int :
        /\ child' = [child EXCEPT ![j].read = @ + 1, ![j].lost = l]
        /\ \/ job[j].heard = "no" /\ l = child[j].lost + 1
           \/ job[j].ended /\ l = child[j].read + 1 - child[j].written
           \/ job[j].heard # "no" /\ ~job[j].ended /\ l = child[j].lost
  <2>0. child[j].lost + 1 \in Int /\ child[j].read + 1 - child[j].written \in Int /\ child[j].lost \in Int
    BY JobFields
  <2>1. CASE job[j].heard = "no"
    <3>1. ~job[j].ended
      BY <2>1 DEF JobInv, FinishOnce
    <3> QED
      BY <2>0, <2>1, <3>1, JobTypes DEF Data
  <2>2. CASE job[j].heard # "no" /\ job[j].ended
    BY <2>0, <2>2, JobTypes DEF Data
  <2>3. CASE job[j].heard # "no" /\ ~job[j].ended
    BY <2>0, <2>3, JobTypes DEF Data
  <2> QED
    BY <2>1, <2>2, <2>3
<1> DEFINE c == [child[j] EXCEPT !.read = @ + 1, !.lost = l]
<1>3. l + child[j].written <= child[j].read + 1 /\ l \in 0..MaxChunks /\ child[j].read + 1 \in 0..MaxChunks
  BY <1>1, <1>2, ChildIs, JobFields, JobsAssumption DEF ChildMay
<1>4. ChildMay(j, job[j], c)
  <2>2. c \in ChildRecords
    BY <1>3, JobFields DEF ChildRecords
  <2>3. /\ c.os = child[j].os /\ c.event = child[j].event /\ c.made = child[j].made
        /\ c.read = child[j].read + 1 /\ c.lost = l /\ c.written = child[j].written
    BY JobFields DEF ChildRecords
  <2>4. l + child[j].written <= child[j].read + 1 /\ child[j].read + 1 <= child[j].made
    BY <1>1, <1>3, JobFields
  <2> HIDE DEF c
  <2>5. job[j].heard = "early" /\ ~job[j].ended => l = 0
    BY <1>2, ChildIs DEF ChildMay
  <2>6. ~(job[j].heard = "early" /\ "completed" \in {job[j].state, job[j].finish})
    BY <1>1, ChildIs, JobFields DEF ChildMay
  <2>7. child[j].event # "none" \/ job[j].heard # "no"
    BY <1>1
  <2> QED
    BY <1>1, <2>2, <2>3, <2>4, <2>5, <2>6, <2>7, ChildIs DEF ChildMay
<1>5. child' = [child EXCEPT ![j] = c]
  BY <1>2, <1>3, ReadOne
<1> QED
  BY <1>1, <1>4, <1>5, ChildOnly

-----------------------------------------------------------------------------
\* What the record of a job may become.
JobMay(r) ==
  /\ r \in JobRecords /\ (r.owned <=> r.state = "running")
  /\ r.ended => r.heard # "no"
  /\ r.finish # "none" => r.ended /\ r.finish # "running"

LEMMA JobIs == ASSUME JobInv, NEW j \in Jobs PROVE JobMay(job[j])
BY JobFields DEF JobMay, JobInv, FinishOnce

LEMMA RowsStep ==
  ASSUME JobInv, NEW j \in Jobs, NEW r, NEW c, JobMay(r), ChildMay(j, r, c),
         job' = [job EXCEPT ![j] = r], child' = [child EXCEPT ![j] = c],
         j \in 1..launched \/ r = job[j],
         UNCHANGED <<launched, up>>, up \/ UNCHANGED <<saves, killing, removing>>
  PROVE  /\ job' \in [Jobs -> JobRecords] /\ child' \in [Jobs -> ChildRecords]
         /\ \A k \in Jobs : job'[k].owned => job'[k].state = "running"
         /\ Chunks' /\ Events' /\ FinishOnce' /\ Delivery'
         /\ \A k \in Jobs : k > launched =>
                              job'[k] = NoJob /\ child'[k].os = "none" /\ child'[k].made = 0
<1>1. r \in JobRecords /\ c \in ChildRecords
  BY DEF JobMay, ChildMay
<1>2. /\ job' \in [Jobs -> JobRecords] /\ \A k \in Jobs : job'[k] = IF k = j THEN r ELSE job[k]
      /\ child' \in [Jobs -> ChildRecords] /\ \A k \in Jobs : child'[k] = IF k = j THEN c ELSE child[k]
  BY <1>1, JobTypes
<1>3. \A k \in Jobs : JobMay(job'[k]) /\ ChildMay(k, job'[k], child'[k])
  BY <1>2, JobIs, ChildIs
<1>4. Chunks' /\ Delivery' /\ FinishOnce'
  BY <1>3 DEF Chunks, Delivery, FinishOnce, ChildMay, JobMay
<1>5. Events'
  BY <1>3 DEF JobInv, Events, ChildMay
<1>6. \A k \in Jobs : k > launched =>
                        job'[k] = NoJob /\ child'[k].os = "none" /\ child'[k].made = 0
  <2> SUFFICES ASSUME NEW k \in Jobs, k > launched
               PROVE  job'[k] = NoJob /\ child'[k].os = "none" /\ child'[k].made = 0
    OBVIOUS
  <2>1. k \notin 1..launched
    BY DEF JobInv, TypeOK, Jobs
  <2>2. job[k] = NoJob
    BY DEF JobInv, Fresh
  <2> QED
    BY <1>2, <1>3, <2>1, <2>2 DEF ChildMay
<1> QED
  BY <1>2, <1>3, <1>4, <1>5, <1>6 DEF ChildMay, JobMay

\* A job that runs, or that finish() is about to end, has been launched.
LEMMA LaunchedIs ==
  ASSUME JobInv, NEW j \in Jobs,
         job[j].state # "none" \/ job[j].finish # "none" \/ j \in killing \/ \E s \in saves : s.of = j
  PROVE  j \in 1..launched
<1>1. launched \in Nat /\ j \in Nat /\ j >= 1
  BY DEF JobInv, TypeOK, Jobs
<1>2. ~(j > launched)
  BY <1>1 DEF JobInv, Fresh, NoJob
<1> QED
  BY <1>1, <1>2

\* finish() up to sink.end: what becomes of the record of the job.
LEMMA FinishRecord ==
  ASSUME JobInv, NEW j \in Jobs, NEW st \in {"completed", "error", "cancelled"}, job[j].heard # "no",
         Finish(j, st)
  PROVE  \E r : /\ JobMay(r) /\ job' = [job EXCEPT ![j] = r]
                /\ r = job[j] \/ (j \in 1..launched /\ ~job[j].ended /\ r.ended /\ r.finish = st)
                /\ r.heard = job[j].heard /\ r.state = job[j].state
<1>1. job \in [Jobs -> JobRecords] /\ JobMay(job[j])
  BY JobTypes, JobIs
<1>2. CASE job[j].state = "running" /\ ~job[j].ended
  <2> DEFINE r == [job[j] EXCEPT !.finish = st, !.ended = TRUE]
  <2>1. job' = [job EXCEPT ![j].finish = st, ![j].ended = TRUE]
    BY <1>2 DEF Finish
  <2>2. r \in JobRecords /\ st \in Persisted
    BY <1>1 DEF JobRecords, Persisted, States
  <2>3. job' \in [Jobs -> JobRecords] /\ [job EXCEPT ![j] = r] \in [Jobs -> JobRecords]
    BY <1>1, <2>1, <2>2 DEF JobRecords
  <2>4. \A k \in Jobs : job'[k] = [job EXCEPT ![j] = r][k]
    BY <1>1, <2>1 DEF JobRecords
  <2>5. job' = [job EXCEPT ![j] = r]
    BY <2>3, <2>4
  <2>6. /\ r.finish = st /\ r.ended = TRUE /\ r.heard = job[j].heard /\ r.state = job[j].state
        /\ r.owned = job[j].owned
    BY <1>1 DEF JobRecords
  <2> HIDE DEF r
  <2>7. JobMay(r)
    BY <1>1, <2>2, <2>6 DEF JobMay
  <2>8. j \in 1..launched
    BY <1>2, LaunchedIs
  <2> QED
    BY <1>2, <2>5, <2>6, <2>7, <2>8
<1>3. CASE ~(job[j].state = "running" /\ ~job[j].ended)
  <2>1. job' = job
    BY <1>3 DEF Finish
  <2>2. job' = [job EXCEPT ![j] = job[j]]
    BY <1>1, <2>1
  <2> QED
    BY <1>1, <2>2
<1> QED
  BY <1>2, <1>3

LEMMA CloseEventKeeps == ASSUME JobInv, NEW j \in Jobs, CloseEvent(j) PROVE JobInv'
<1> DEFINE c == [child[j] EXCEPT !.event = "close"]
<1>1. /\ up /\ child[j].event = "exit" /\ child[j].read = child[j].made /\ child' = [child EXCEPT ![j] = c]
      /\ UNCHANGED <<launched, jobs, saves, meta, tmp, killing, removing, up,
                     restarts, answered, killed>>
  BY DEF CloseEvent
<1>2. PICK r : /\ JobMay(r) /\ job' = [job EXCEPT ![j] = r]
               /\ r = job[j] \/ (j \in 1..launched /\ job[j].heard # "no" /\ ~job[j].ended /\ r.ended /\ r.finish # "none")
               /\ r.heard = job[j].heard /\ r.state = job[j].state
  <2>1. CASE job[j].heard = "no"
    <3>1. job' = [job EXCEPT ![j] = job[j]]
      BY <2>1, JobTypes DEF CloseEvent
    <3> QED
      BY <3>1, JobIs
  <2>2. CASE job[j].heard # "no"
    <3>1. PICK st \in {"completed", "error"} : Finish(j, st)
      BY <2>2 DEF CloseEvent
    <3> QED
      BY <2>2, <3>1, FinishRecord
  <2> QED
    BY <2>1, <2>2
<1>3. c \in ChildRecords /\ c.event = "close" /\ c.os = child[j].os /\ c.made = child[j].made
      /\ c.read = child[j].read /\ c.lost = child[j].lost /\ c.written = child[j].written
  BY JobFields DEF ChildRecords
<1> HIDE DEF c
<1>4. ChildMay(j, r, c)
  BY <1>1, <1>2, <1>3, ChildIs DEF ChildMay
<1>5. /\ job' \in [Jobs -> JobRecords] /\ child' \in [Jobs -> ChildRecords]
      /\ \A k \in Jobs : job'[k].owned => job'[k].state = "running"
      /\ Chunks' /\ Events' /\ FinishOnce' /\ Delivery'
      /\ \A k \in Jobs : k > launched =>
                              job'[k] = NoJob /\ child'[k].os = "none" /\ child'[k].made = 0
  BY <1>1, <1>2, <1>4, RowsStep
<1>6. TypeOK'
  BY <1>1, <1>5 DEF JobInv, TypeOK, JobRecords, ChildRecords
<1>7. Fresh' /\ LaunchSave' /\ SavedAlone' /\ Removed' /\ KnownAfterRestart'
  BY <1>1, <1>5 DEF JobInv, Fresh, LaunchSave, SavedAlone, Removed, KnownAfterRestart
<1>8. SaveOrder'
  <2>1. \A k \in Jobs : job'[k] = IF k = j THEN r ELSE job[k]
    BY <1>2, JobTypes
  <2> SUFFICES ASSUME NEW s \in saves
               PROVE  /\ s.by = "launch" => /\ job'[s.of].heard = "no" /\ ~job'[s.of].ended
                                            /\ job'[s.of].state \in {"running", "cancelled"}
                      /\ s.by = "finish" => job'[s.of].ended /\ job'[s.of].finish = "none"
                      /\ s.by = "kill" => s.of \in killed
    BY <1>1 DEF SaveOrder
  <2>2. /\ s.by = "launch" => /\ job[s.of].heard = "no" /\ ~job[s.of].ended
                              /\ job[s.of].state \in {"running", "cancelled"}
        /\ s.by = "finish" => job[s.of].ended /\ job[s.of].finish = "none"
        /\ s.by = "kill" => s.of \in killed
    BY DEF JobInv, SaveOrder
  <2>3. CASE s.of = j
    BY <1>2, <2>1, <2>2, <2>3
  <2>4. CASE s.of # j
    BY <2>1, <2>2, <2>4, SaveFields
  <2> QED
    BY <2>3, <2>4
<1> QED
  BY <1>5, <1>6, <1>7, <1>8 DEF JobInv

LEMMA TimeoutKeeps == ASSUME JobInv, NEW j \in Jobs, Timeout(j) PROVE JobInv'
<1>1. /\ up /\ job[j].heard # "no" /\ ~job[j].ended
      /\ UNCHANGED <<launched, jobs, child, saves, meta, tmp, killing, removing, up,
                     restarts, answered, killed>>
  BY DEF Timeout
<1>2. PICK r : /\ JobMay(r) /\ job' = [job EXCEPT ![j] = r]
               /\ r = job[j] \/ (j \in 1..launched /\ r.ended /\ r.finish = "cancelled")
               /\ r.heard = job[j].heard /\ r.state = job[j].state
  BY <1>1, FinishRecord DEF Timeout
<1>3. ChildMay(j, r, child[j])
  BY <1>1, <1>2, ChildIs DEF ChildMay
<1>4. child' = [child EXCEPT ![j] = child[j]]
  BY <1>1, JobTypes
<1>5. /\ job' \in [Jobs -> JobRecords] /\ child' \in [Jobs -> ChildRecords]
      /\ \A k \in Jobs : job'[k].owned => job'[k].state = "running"
      /\ Chunks' /\ Events' /\ FinishOnce' /\ Delivery'
      /\ \A k \in Jobs : k > launched =>
                              job'[k] = NoJob /\ child'[k].os = "none" /\ child'[k].made = 0
  BY <1>1, <1>2, <1>3, <1>4, RowsStep
<1>6. TypeOK'
  BY <1>1, <1>5 DEF JobInv, TypeOK, JobRecords, ChildRecords
<1>7. Fresh' /\ LaunchSave' /\ SavedAlone' /\ Removed' /\ KnownAfterRestart'
  BY <1>1, <1>5 DEF JobInv, Fresh, LaunchSave, SavedAlone, Removed, KnownAfterRestart
<1>8. SaveOrder'
  <2>1. \A k \in Jobs : job'[k] = IF k = j THEN r ELSE job[k]
    BY <1>2, JobTypes
  <2>2. \A s \in saves : s.of = j => s.by = "kill" /\ j \in killed
    BY <1>1, SaveFields DEF JobInv, SaveOrder
  <2> QED
    BY <1>1, <2>1, <2>2, SaveFields DEF JobInv, SaveOrder
<1> QED
  BY <1>5, <1>6, <1>7, <1>8 DEF JobInv

-----------------------------------------------------------------------------
\* A save moves on: it is the same save, and only its job's files change.
LEMMA SaveMoves ==
  ASSUME JobInv, NEW s \in saves, NEW t \in SaveRecords,
         t.of = s.of, t.by = s.by, t.state = s.state, t.file = s.file,
         saves' = (saves \ {s}) \union {t},
         meta' \in [Jobs -> Contents], tmp' \in [Jobs -> Contents],
         \A k \in Jobs : k # s.of => meta'[k] = meta[k] /\ tmp'[k] = tmp[k],
         s.of \notin killed => /\ meta'[s.of] = meta[s.of]
                               /\ t.step = "rename" => tmp'[s.of] = t.state,
         UNCHANGED <<launched, job, jobs, child, killing, removing, up, restarts, answered, killed>>
  PROVE  JobInv'
<1>1. saves' \subseteq SaveRecords
  BY JobTypes
<1>2. TypeOK'
  BY <1>1 DEF JobInv, TypeOK, SaveRecords
<1>3. up
  BY DEF JobInv, Events
<1>4. Chunks' /\ Events' /\ FinishOnce' /\ Delivery' /\ Removed'
  BY <1>3 DEF JobInv, Chunks, Events, FinishOnce, Delivery, Removed
<1>5. Fresh' /\ SaveOrder' /\ LaunchSave'
  <2>1. s.of \in 1..launched /\ t.of \in 1..launched /\ launched \in Nat
    BY DEF JobInv, TypeOK, Fresh
  <2>2. \A k \in Jobs : k > launched => k # s.of
    BY <2>1 DEF Jobs
  <2>3. Fresh'
    BY <2>1, <2>2 DEF JobInv, Fresh
  <2> QED
    BY <2>3 DEF JobInv, SaveOrder, LaunchSave
<1>6. SavedAlone'
  <2> SUFFICES ASSUME NEW u \in saves', u.of \notin killed
               PROVE  /\ \A v \in saves' : v.of = u.of => v = u
                      /\ u.file = "tmp"
                      /\ u.step = "rename" => tmp'[u.of] = u.state
    BY DEF SavedAlone
  <2>1. CASE u = t
    BY <2>1 DEF JobInv, SavedAlone
  <2>2. CASE u # t
    <3>1. u \in saves /\ u # s /\ u.of # s.of /\ u.of \in Jobs
      BY <2>2, SaveFields DEF JobInv, SavedAlone
    <3> QED
      BY <3>1 DEF JobInv, SavedAlone
  <2> QED
    BY <2>1, <2>2
<1>7. KnownAfterRestart'
  <2> SUFFICES ASSUME NEW k \in (answered \intersect jobs) \ killed PROVE meta'[k] \in States
    BY DEF KnownAfterRestart
  <2>1. k \in Jobs /\ meta'[k] = meta[k]
    BY DEF JobInv, TypeOK
  <2> QED
    BY <2>1 DEF JobInv, KnownAfterRestart
<1> QED
  BY <1>2, <1>4, <1>5, <1>6, <1>7 DEF JobInv

LEMMA SaveOpenKeeps == ASSUME JobInv, NEW s \in saves, SaveOpen(s) PROVE JobInv'
<1> DEFINE t == [s EXCEPT !.step = "write"]
<1>1. /\ tmp' = [tmp EXCEPT ![s.of] = "empty"] /\ saves' = (saves \ {s}) \union {t}
      /\ UNCHANGED <<launched, job, jobs, child, meta, killing, removing, up, restarts, answered, killed>>
  BY DEF SaveOpen
<1>2. t \in SaveRecords /\ t.of = s.of /\ t.by = s.by /\ t.state = s.state /\ t.file = s.file
      /\ t.step = "write"
  BY SaveFields DEF SaveRecords
<1>3. meta \in [Jobs -> Contents] /\ tmp \in [Jobs -> Contents] /\ "empty" \in Contents
  BY DEF JobInv, TypeOK, Contents
<1> HIDE DEF t
<1>4. tmp' \in [Jobs -> Contents] /\ \A k \in Jobs : k # s.of => tmp'[k] = tmp[k]
  BY <1>1, <1>3
<1> QED
  BY <1>1, <1>2, <1>3, <1>4, SaveMoves

LEMMA SaveWriteKeeps == ASSUME JobInv, NEW s \in saves, SaveWrite(s) PROVE JobInv'
<1> DEFINE t == [s EXCEPT !.step = "rename"]
<1>1. /\ IF s.file = "tmp"
           THEN tmp' = [tmp EXCEPT ![s.of] = s.state] /\ UNCHANGED meta
           ELSE meta' = [meta EXCEPT ![s.of] = s.state] /\ UNCHANGED tmp
      /\ saves' = (saves \ {s}) \union {t}
      /\ UNCHANGED <<launched, job, jobs, child, killing, removing, up, restarts, answered, killed>>
  BY DEF SaveWrite
<1>2. t \in SaveRecords /\ t.of = s.of /\ t.by = s.by /\ t.state = s.state /\ t.file = s.file
  BY SaveFields DEF SaveRecords
<1>3. meta \in [Jobs -> Contents] /\ tmp \in [Jobs -> Contents] /\ s.state \in Contents /\ s.of \in Jobs
  BY SaveFields DEF JobInv, TypeOK, Contents, Persisted
<1>4. s.of \notin killed => s.file = "tmp"
  BY DEF JobInv, SavedAlone
<1> HIDE DEF t
<1>5. /\ meta' \in [Jobs -> Contents] /\ tmp' \in [Jobs -> Contents]
      /\ \A k \in Jobs : k # s.of => meta'[k] = meta[k] /\ tmp'[k] = tmp[k]
      /\ s.of \notin killed => meta'[s.of] = meta[s.of] /\ tmp'[s.of] = s.state
  BY <1>1, <1>3, <1>4
<1> QED
  BY <1>1, <1>2, <1>5, SaveMoves

\* A rename may be the one launch() waits for: its handlers are attached.
LEMMA SaveRenameKeeps == ASSUME JobInv, NEW s \in saves, SaveRename(s) PROVE JobInv'
<1> DEFINE j == s.of
           heard == IF child[j].event = "none" THEN "early" ELSE "late"
           r == IF s.by = "launch" THEN [job[j] EXCEPT !.heard = heard] ELSE job[j]
           moved(u) == [u EXCEPT !.file = IF u.of = j /\ u.step = "write" THEN "meta" ELSE @]
<1>1. /\ s.step = "rename" /\ tmp[j] # "none"
      /\ meta' = [meta EXCEPT ![j] = tmp[j]] /\ tmp' = [tmp EXCEPT ![j] = "none"]
      /\ saves' = Renamed(s)
      /\ UNCHANGED <<launched, jobs, child, killing, removing, up, restarts, killed>>
  BY DEF SaveRename
<1>2. j \in Jobs /\ s \in SaveRecords /\ s.state \in States /\ s.by \in {"launch", "finish", "kill"}
  BY SaveFields
<1>3. up
  BY DEF JobInv, Events
<1>4. /\ job' = [job EXCEPT ![j] = r]
      /\ answered' = IF s.by = "launch" THEN answered \union {j} ELSE answered
  BY <1>2, JobTypes DEF SaveRename, AfterSave
<1>5. JobMay(r) /\ ChildMay(j, r, child[j])
  <2>1. CASE s.by = "launch"
    <3>1. /\ r.heard = heard /\ r.state = job[j].state /\ r.owned = job[j].owned /\ r.ended = job[j].ended
          /\ r.finish = job[j].finish /\ r \in JobRecords
      BY <1>2, <2>1, JobTypes DEF JobRecords
    <3>2. job[j].heard = "no" /\ ~job[j].ended /\ job[j].state \in {"running", "cancelled"}
      BY <2>1 DEF JobInv, SaveOrder
    <3> HIDE DEF r
    <3>3. JobMay(r)
      BY <1>2, <3>1, <3>2, JobIs DEF JobMay
    <3>4. job[j].finish = "none"
      BY <1>2, <3>2, JobIs DEF JobMay
    <3> QED
      BY <1>2, <3>1, <3>2, <3>3, <3>4, ChildIs DEF ChildMay
  <2>2. CASE s.by # "launch"
    BY <1>2, <2>2, JobIs, ChildIs
  <2> QED
    BY <2>1, <2>2
<1> HIDE DEF r
<1>6. child' = [child EXCEPT ![j] = child[j]]
  BY <1>1, JobTypes
<1>7. /\ job' \in [Jobs -> JobRecords] /\ child' \in [Jobs -> ChildRecords]
      /\ \A k \in Jobs : job'[k].owned => job'[k].state = "running"
      /\ Chunks' /\ Events' /\ FinishOnce' /\ Delivery'
      /\ \A k \in Jobs : k > launched =>
                              job'[k] = NoJob /\ child'[k].os = "none" /\ child'[k].made = 0
  BY <1>1, <1>2, <1>3, <1>4, <1>5, <1>6, RowsStep, LaunchedIs
<1>8. \A t \in saves' : \E u \in saves :
        /\ u # s /\ t \in SaveRecords
        /\ t = moved(u)
        /\ t.of = u.of /\ t.by = u.by /\ t.state = u.state /\ t.step = u.step
        /\ u.of # j => t = u
  <2> TAKE t \in saves'
  <2>1. PICK u \in saves \ {s} : t = [u EXCEPT !.file = IF u.of = s.of /\ u.step = "write" THEN "meta" ELSE @]
    BY <1>1 DEF Renamed
  <2>2. u \in SaveRecords
    BY SaveFields
  <2>3. CASE u.of = s.of /\ u.step = "write"
    BY <2>1, <2>2, <2>3 DEF SaveRecords
  <2>4. CASE ~(u.of = s.of /\ u.step = "write")
    <3>1. t = u
      BY <2>1, <2>2, <2>4 DEF SaveRecords
    <3> QED
      BY <3>1, <2>1, <2>2
  <2> QED
    BY <2>3, <2>4
<1>9. j \notin killed => /\ tmp[j] = s.state /\ \A u \in saves : u.of = j => u = s
  BY <1>1 DEF JobInv, SavedAlone
<1>10. meta \in [Jobs -> Contents] /\ tmp \in [Jobs -> Contents] /\ "none" \in Contents
  BY DEF JobInv, TypeOK, Contents, Persisted
<1> HIDE DEF j
<1>11. /\ meta' \in [Jobs -> Contents] /\ tmp' \in [Jobs -> Contents]
       /\ \A k \in Jobs : meta'[k] = IF k = j THEN tmp[j] ELSE meta[k]
       /\ \A k \in Jobs : k # j => tmp'[k] = tmp[k]
  BY <1>1, <1>2, <1>10
<1>12. TypeOK'
  <2>1. saves' \subseteq SaveRecords
    BY <1>8
  <2> QED
    BY <1>1, <1>2, <1>4, <1>7, <1>11, <2>1 DEF JobInv, TypeOK, JobRecords, ChildRecords, SaveRecords
<1>13. Fresh'
  <2>1. j \in 1..launched /\ launched \in Nat
    BY DEF JobInv, TypeOK, Fresh, j
  <2>2. \A k \in Jobs : k > launched => k # j
    BY <2>1 DEF Jobs
  <2>3. \A t \in saves' : t.of \in 1..launched
    BY <1>8 DEF JobInv, Fresh
  <2> QED
    BY <1>1, <1>4, <1>7, <1>11, <2>1, <2>2, <2>3 DEF JobInv, Fresh
<1>14. SaveOrder'
  <2> SUFFICES ASSUME NEW t \in saves'
               PROVE  /\ t.by = "launch" => /\ job'[t.of].heard = "no" /\ ~job'[t.of].ended
                                            /\ job'[t.of].state \in {"running", "cancelled"}
                      /\ t.by = "finish" => job'[t.of].ended /\ job'[t.of].finish = "none"
                      /\ t.by = "kill" => t.of \in killed
    BY <1>1 DEF SaveOrder
  <2>1. PICK u \in saves : /\ u # s /\ t.of = u.of /\ t.by = u.by
    BY <1>8
  <2>2. /\ u.by = "launch" => /\ job[u.of].heard = "no" /\ ~job[u.of].ended
                              /\ job[u.of].state \in {"running", "cancelled"}
        /\ u.by = "finish" => job[u.of].ended /\ job[u.of].finish = "none"
        /\ u.by = "kill" => u.of \in killed
    BY DEF JobInv, SaveOrder
  <2>3. u.of \in Jobs /\ job'[u.of] = IF u.of = j THEN r ELSE job[u.of]
    BY <1>4, SaveFields, JobTypes
  <2>4. CASE u.of = j /\ s.by = "launch"
    <3>1. u.by # "launch" /\ ~job[j].ended
      BY <2>1, <2>4 DEF JobInv, SaveOrder, LaunchSave, j
    <3> QED
      BY <2>1, <2>2, <2>4, <3>1
  <2>5. CASE ~(u.of = j /\ s.by = "launch")
    BY <2>1, <2>2, <2>3, <2>5 DEF r
  <2> QED
    BY <2>4, <2>5
<1>15. LaunchSave'
  <2> SUFFICES ASSUME NEW t \in saves', NEW v \in saves', t.of = v.of, t.by = "launch", v.by = "launch"
               PROVE  t = v
    BY DEF LaunchSave
  <2>1. PICK u \in saves : /\ u # s /\ t.of = u.of /\ t.by = u.by /\ t = moved(u)
    BY <1>8
  <2>2. PICK w \in saves : /\ w # s /\ v.of = w.of /\ v.by = w.by
                           /\ v = moved(w)
    BY <1>8
  <2>3. u = w
    BY <2>1, <2>2 DEF JobInv, LaunchSave
  <2> HIDE DEF moved
  <2> QED
    BY <2>1, <2>2, <2>3
<1>16. SavedAlone'
  <2> SUFFICES ASSUME NEW t \in saves', t.of \notin killed
               PROVE  /\ \A v \in saves' : v.of = t.of => v = t
                      /\ t.file = "tmp"
                      /\ t.step = "rename" => tmp'[t.of] = t.state
    BY <1>1 DEF SavedAlone
  <2>1. PICK u \in saves : u # s /\ t.of = u.of /\ (u.of # j => t = u)
    BY <1>8
  <2>2. u.of # j /\ t = u /\ u.of \in Jobs
    BY <2>1, <1>9, SaveFields
  <2>3. ASSUME NEW v \in saves', v.of = t.of PROVE v = t
    <3>1. PICK w \in saves : v.of = w.of /\ (w.of # j => v = w)
      BY <1>8
    <3> QED
      BY <2>2, <2>3, <3>1 DEF JobInv, SavedAlone
  <2> QED
    BY <2>2, <2>3, <1>11 DEF JobInv, SavedAlone
<1>17. Removed' /\ KnownAfterRestart'
  <2>1. Removed'
    BY <1>1 DEF JobInv, Removed
  <2> SUFFICES ASSUME NEW k \in (answered' \intersect jobs) \ killed PROVE meta'[k] \in States
    BY <1>1, <2>1 DEF KnownAfterRestart
  <2>2. k \in Jobs
    BY DEF JobInv, TypeOK
  <2>3. CASE k = j
    BY <2>2, <2>3, <1>2, <1>9, <1>11
  <2>4. CASE k # j
    BY <2>2, <2>4, <1>4, <1>11 DEF JobInv, KnownAfterRestart
  <2> QED
    BY <2>3, <2>4
<1> QED
  BY <1>7, <1>12, <1>13, <1>14, <1>15, <1>16, <1>17 DEF JobInv

LEMMA SaveFailsKeeps == ASSUME JobInv, NEW s \in saves, SaveFails(s) PROVE JobInv'
<1>1. /\ saves' = saves \ {s}
      /\ UNCHANGED <<launched, job, jobs, child, meta, tmp, killing, removing, up,
                     restarts, answered, killed>>
  BY DEF SaveFails
<1>2. up
  BY DEF JobInv, Events
<1>3. TypeOK'
  BY <1>1, JobTypes DEF JobInv, TypeOK, SaveRecords
<1> QED
  BY <1>1, <1>2, <1>3
     DEF JobInv, Chunks, Fresh, Events, FinishOnce, SaveOrder, LaunchSave, SavedAlone, Delivery,
         Removed, KnownAfterRestart

-----------------------------------------------------------------------------
\* A new save, of a job that is killed or has none.
LEMMA NewSave ==
  ASSUME JobInv, NEW j \in Jobs, NEW by \in {"launch", "finish", "kill"}, NEW st \in States,
         saves' = Save(j, by, st), killed \subseteq killed',
         j \in killed' \/ \A s \in saves : s.of # j,
         by = "launch" => \A s \in saves : s.of # j \/ s.by # "launch",
         \A k \in Jobs : k # j => tmp'[k] = tmp[k]
  PROVE  /\ saves' \subseteq SaveRecords /\ LaunchSave' /\ SavedAlone'
         /\ \A s \in saves' : s \in saves \/ (s.of = j /\ s.by = by)
<1> DEFINE n == [of |-> j, by |-> by, state |-> st, step |-> "open", file |-> "tmp"]
<1>1. saves' = saves \union {n} /\ n \in SaveRecords
  BY DEF Save, SaveRecords
<1>2. n.of = j /\ n.by = by /\ n.step = "open" /\ n.file = "tmp"
  OBVIOUS
<1> HIDE DEF n
<1>3. saves' \subseteq SaveRecords
  BY <1>1, JobTypes
<1>4. LaunchSave'
  BY <1>1, <1>2 DEF JobInv, LaunchSave
<1>5. SavedAlone'
  <2> SUFFICES ASSUME NEW u \in saves', u.of \notin killed'
               PROVE  /\ \A v \in saves' : v.of = u.of => v = u
                      /\ u.file = "tmp"
                      /\ u.step = "rename" => tmp'[u.of] = u.state
    BY DEF SavedAlone
  <2>1. CASE u = n
    BY <1>1, <1>2, <2>1
  <2>2. CASE u # n
    <3>1. u \in saves /\ u.of # j /\ u.of \notin killed /\ u.of \in Jobs
      BY <1>1, <1>2, <2>2, SaveFields
    <3> QED
      BY <1>1, <1>2, <3>1 DEF JobInv, SavedAlone
  <2> QED
    BY <2>1, <2>2
<1> QED
  BY <1>1, <1>2, <1>3, <1>4, <1>5

LEMMA LaunchKeeps == ASSUME JobInv, Launch PROVE JobInv'
<1> DEFINE j == launched + 1
           c == [child[j] EXCEPT !.os = "running", !.event = "none"]
           r == [NoJob EXCEPT !.state = "running", !.owned = TRUE]
<1>1. /\ up /\ launched < MaxJobs /\ launched' = j
      /\ child' = [child EXCEPT ![j].os = "running", ![j].event = "none"]
      /\ job' = [job EXCEPT ![j] = r] /\ jobs' = jobs \union {j}
      /\ saves' = Save(j, "launch", "running")
      /\ UNCHANGED <<meta, tmp, killing, removing, up, restarts, answered, killed>>
  BY DEF Launch
<1>2. launched \in 0..MaxJobs
  BY DEF JobInv, TypeOK
<1>3. j \in Jobs /\ j > launched /\ launched' \in 0..MaxJobs /\ \A k \in 1..launched : k # j /\ k \in 1..j
  BY <1>1, <1>2, JobsAssumption DEF Jobs
<1>4. child[j] \in ChildRecords /\ child \in [Jobs -> ChildRecords] /\ job \in [Jobs -> JobRecords]
  BY <1>3, JobTypes
<1>5. /\ c \in ChildRecords /\ c.os = "running" /\ c.event = "none" /\ c.made = child[j].made
      /\ c.read = child[j].read /\ c.lost = child[j].lost /\ c.written = child[j].written
  BY <1>4 DEF ChildRecords
<1>6. /\ child' \in [Jobs -> ChildRecords] /\ child'[j] = c
      /\ \A k \in Jobs : k # j => child'[k] = child[k]
  BY <1>1, <1>3, <1>4, <1>5 DEF ChildRecords
<1>7. /\ r \in JobRecords /\ r.state = "running" /\ r.owned = TRUE /\ r.heard = "no" /\ r.ended = FALSE
      /\ r.finish = "none"
  BY DEF NoJob, JobRecords, Persisted, States
<1> HIDE DEF r, c, j
<1>8. job' \in [Jobs -> JobRecords] /\ \A k \in Jobs : job'[k] = IF k = j THEN r ELSE job[k]
  BY <1>1, <1>3, <1>4, <1>7
<1>9. /\ child[j].made = 0 /\ child[j].read = 0 /\ child[j].lost = 0 /\ child[j].written = 0
  BY <1>3, JobFields, ChildIs DEF ChildMay
<1>10. \A s \in saves : s.of # j
  BY <1>3 DEF JobInv, Fresh
<1>11. /\ saves' \subseteq SaveRecords /\ LaunchSave' /\ SavedAlone'
       /\ \A s \in saves' : s \in saves \/ (s.of = j /\ s.by = "launch")
  BY <1>1, <1>3, <1>10, NewSave DEF States
<1>12. TypeOK'
  <2>1. \A k \in Jobs : job'[k].owned => job'[k].state = "running"
    BY <1>7, <1>8, JobFields
  <2> QED
    BY <1>1, <1>3, <1>6, <1>8, <1>11, <2>1 DEF JobInv, TypeOK, JobRecords, ChildRecords, SaveRecords
<1>13. Chunks'
  BY <1>5, <1>6, <1>9 DEF JobInv, Chunks
<1>14. Fresh'
  <2>1. \A k \in Jobs : k > j => k > launched /\ k # j
    BY <1>2 DEF j, Jobs
  <2>2. \A k \in Jobs : k > j => job'[k] = NoJob /\ meta[k] = "none" /\ child'[k].os = "none" /\ child'[k].made = 0
    BY <1>6, <1>8, <2>1 DEF JobInv, Fresh
  <2>3. j \in 1..j
    BY <1>2 DEF j
  <2>4. \A s \in saves' : s.of \in 1..j
    BY <1>3, <1>11, <2>3 DEF JobInv, Fresh
  <2>5. answered \union jobs' \union killing \union removing \subseteq 1..j
    BY <1>1, <1>3, <2>3 DEF JobInv, Fresh
  <2> QED
    BY <1>1, <2>2, <2>4, <2>5 DEF Fresh
<1>15. Events'
  BY <1>1, <1>5, <1>6 DEF JobInv, Events
<1>16. FinishOnce'
  BY <1>7, <1>8 DEF JobInv, FinishOnce
<1>17. SaveOrder'
  BY <1>1, <1>7, <1>8, <1>10, <1>11, SaveFields, <1>3 DEF JobInv, SaveOrder
<1>18. Delivery'
  BY <1>5, <1>6, <1>7, <1>8, <1>9 DEF JobInv, Delivery
<1>19. Removed' /\ KnownAfterRestart'
  <2>1. j \notin answered
    BY <1>3 DEF JobInv, Fresh
  <2>2. j \notin removing
    BY <1>3 DEF JobInv, Fresh
  <2> QED
    BY <1>1, <2>1, <2>2 DEF JobInv, Removed, KnownAfterRestart
<1> QED
  BY <1>11, <1>12, <1>13, <1>14, <1>15, <1>16, <1>17, <1>18, <1>19 DEF JobInv

LEMMA FinishReturnKeeps == ASSUME JobInv, NEW j \in Jobs, FinishReturn(j) PROVE JobInv'
<1> DEFINE st == job[j].finish
           r == [job[j] EXCEPT !.state = st, !.owned = FALSE, !.finish = "none"]
<1>1. /\ up /\ st # "none" /\ Buffered(j) = 0
      /\ job' = [job EXCEPT ![j].state = st, ![j].owned = FALSE, ![j].finish = "none"]
      /\ saves' = Save(j, "finish", st)
      /\ UNCHANGED <<launched, jobs, child, meta, tmp, killing, removing, up,
                     restarts, answered, killed>>
  BY DEF FinishReturn, Flushed
<1>2. /\ job[j] \in JobRecords /\ job \in [Jobs -> JobRecords]
      /\ st \in States \ {"running"} /\ job[j].ended /\ job[j].heard # "no"
  <2>1. job[j] \in JobRecords /\ job \in [Jobs -> JobRecords] /\ st \in Persisted
    BY JobTypes, JobFields
  <2> QED
    BY <1>1, <2>1 DEF JobInv, FinishOnce, Persisted
<1>3. r \in JobRecords /\ r.state = st /\ r.owned = FALSE /\ r.finish = "none"
      /\ r.ended = job[j].ended /\ r.heard = job[j].heard
  BY <1>2 DEF JobRecords, Persisted
<1>4. job' = [job EXCEPT ![j] = r]
  <2>1. job' \in [Jobs -> JobRecords] /\ [job EXCEPT ![j] = r] \in [Jobs -> JobRecords]
    BY <1>1, <1>2, <1>3 DEF JobRecords, Persisted
  <2>2. \A k \in Jobs : job'[k] = [job EXCEPT ![j] = r][k]
    BY <1>1, <1>2 DEF JobRecords
  <2> QED
    BY <2>1, <2>2
<1> HIDE DEF r
<1>5. JobMay(r)
  BY <1>2, <1>3 DEF JobMay
<1>6. ChildMay(j, r, child[j])
  <2>1. child[j].read - child[j].lost - child[j].written = 0
    BY <1>1 DEF Buffered
  <2>2. r.heard = "early" /\ "completed" \in {r.state, r.finish} =>
          child[j].os = "gone" /\ child[j].read = child[j].made /\ child[j].lost = 0
    BY <1>3, ChildIs DEF ChildMay
  <2>3. r.heard = "early" /\ r.state = "completed" => child[j].written = child[j].made
    BY <2>1, <2>2, JobFields, JobsAssumption
  <2> QED
    BY <1>2, <1>3, <2>2, <2>3, ChildIs DEF ChildMay
<1>7. child' = [child EXCEPT ![j] = child[j]]
  BY <1>1, JobTypes
<1>8. /\ job' \in [Jobs -> JobRecords] /\ child' \in [Jobs -> ChildRecords]
      /\ \A k \in Jobs : job'[k].owned => job'[k].state = "running"
      /\ Chunks' /\ Events' /\ FinishOnce' /\ Delivery'
      /\ \A k \in Jobs : k > launched =>
                           job'[k] = NoJob /\ child'[k].os = "none" /\ child'[k].made = 0
  BY <1>1, <1>4, <1>5, <1>6, <1>7, RowsStep, LaunchedIs
<1>9. \A s \in saves : s.of = j => s.by = "kill" /\ j \in killed
  BY <1>1, <1>2, SaveFields DEF JobInv, SaveOrder
<1>10. /\ saves' \subseteq SaveRecords /\ LaunchSave' /\ SavedAlone'
       /\ \A s \in saves' : s \in saves \/ (s.of = j /\ s.by = "finish")
  BY <1>1, <1>2, <1>9, NewSave
<1>11. TypeOK'
  BY <1>1, <1>8, <1>10 DEF JobInv, TypeOK, JobRecords, ChildRecords, SaveRecords
<1>12. Fresh'
  <2>1. j \in 1..launched
    BY <1>1, LaunchedIs
  <2> QED
    BY <1>1, <1>8, <1>10, <2>1 DEF JobInv, Fresh
<1>13. SaveOrder'
  <2>1. \A k \in Jobs : job'[k] = IF k = j THEN r ELSE job[k]
    BY <1>2, <1>4
  <2> SUFFICES ASSUME NEW s \in saves'
               PROVE  /\ s.by = "launch" => /\ job'[s.of].heard = "no" /\ ~job'[s.of].ended
                                            /\ job'[s.of].state \in {"running", "cancelled"}
                      /\ s.by = "finish" => job'[s.of].ended /\ job'[s.of].finish = "none"
                      /\ s.by = "kill" => s.of \in killed
    BY <1>1 DEF SaveOrder
  <2>2. CASE s.of = j
    BY <1>2, <1>3, <1>9, <1>10, <2>1, <2>2
  <2>3. CASE s.of # j
    BY <1>10, <2>1, <2>3, SaveFields DEF JobInv, SaveOrder
  <2> QED
    BY <2>2, <2>3
<1>14. Removed' /\ KnownAfterRestart'
  BY <1>1 DEF JobInv, Removed, KnownAfterRestart
<1> QED
  BY <1>8, <1>10, <1>11, <1>12, <1>13, <1>14 DEF JobInv

-----------------------------------------------------------------------------
LEMMA KillCallKeeps == ASSUME JobInv, NEW j \in Jobs, KillCall(j) PROVE JobInv'
<1>1. /\ up /\ j \in jobs /\ killing' = killing \union {j}
      /\ UNCHANGED <<launched, job, jobs, child, saves, meta, tmp, removing, up,
                     restarts, answered, killed>>
  BY DEF KillCall
<1>2. TypeOK' /\ Fresh'
  BY <1>1 DEF JobInv, TypeOK, Fresh
<1> QED
  BY <1>1, <1>2
     DEF JobInv, Chunks, Events, FinishOnce, SaveOrder, LaunchSave, SavedAlone, Delivery,
         Removed, KnownAfterRestart

LEMMA KillReturnKeeps == ASSUME JobInv, NEW j \in Jobs, KillReturn(j) PROVE JobInv'
<1> DEFINE r == [job[j] EXCEPT !.state = "cancelled", !.owned = FALSE]
<1>1. /\ up /\ j \in killing /\ killing' = killing \ {j}
      /\ job' = [job EXCEPT ![j].state = "cancelled", ![j].owned = FALSE]
      /\ saves' = Save(j, "kill", "cancelled") /\ killed' = killed \union {j}
      /\ UNCHANGED <<launched, jobs, child, meta, tmp, removing, up, restarts, answered>>
  BY DEF KillReturn
<1>2. job[j] \in JobRecords /\ job \in [Jobs -> JobRecords]
  BY JobTypes
<1>3. r \in JobRecords /\ r.state = "cancelled" /\ r.owned = FALSE /\ r.finish = job[j].finish
      /\ r.ended = job[j].ended /\ r.heard = job[j].heard
  BY <1>2 DEF JobRecords, Persisted, States
<1>4. job' = [job EXCEPT ![j] = r]
  <2>1. job' \in [Jobs -> JobRecords] /\ [job EXCEPT ![j] = r] \in [Jobs -> JobRecords]
    BY <1>1, <1>2, <1>3 DEF JobRecords, Persisted, States
  <2>2. \A k \in Jobs : job'[k] = [job EXCEPT ![j] = r][k]
    BY <1>1, <1>2 DEF JobRecords
  <2> QED
    BY <2>1, <2>2
<1> HIDE DEF r
<1>5. JobMay(r) /\ ChildMay(j, r, child[j])
  BY <1>2, <1>3, JobIs, ChildIs DEF JobMay, ChildMay
<1>6. child' = [child EXCEPT ![j] = child[j]]
  BY <1>1, JobTypes
<1>7. /\ job' \in [Jobs -> JobRecords] /\ child' \in [Jobs -> ChildRecords]
      /\ \A k \in Jobs : job'[k].owned => job'[k].state = "running"
      /\ Chunks' /\ Events' /\ FinishOnce' /\ Delivery'
      /\ \A k \in Jobs : k > launched =>
                           job'[k] = NoJob /\ child'[k].os = "none" /\ child'[k].made = 0
  BY <1>1, <1>4, <1>5, <1>6, RowsStep, LaunchedIs
<1>8. /\ saves' \subseteq SaveRecords /\ LaunchSave' /\ SavedAlone'
      /\ \A s \in saves' : s \in saves \/ (s.of = j /\ s.by = "kill")
  BY <1>1, NewSave DEF States
<1>9. TypeOK'
  BY <1>1, <1>7, <1>8 DEF JobInv, TypeOK, JobRecords, ChildRecords, SaveRecords
<1>10. Fresh'
  <2>1. j \in 1..launched
    BY <1>1, LaunchedIs
  <2> QED
    BY <1>1, <1>7, <1>8, <2>1 DEF JobInv, Fresh
<1>11. SaveOrder'
  <2>1. \A k \in Jobs : job'[k] = IF k = j THEN r ELSE job[k]
    BY <1>2, <1>4
  <2> SUFFICES ASSUME NEW s \in saves'
               PROVE  /\ s.by = "launch" => /\ job'[s.of].heard = "no" /\ ~job'[s.of].ended
                                            /\ job'[s.of].state \in {"running", "cancelled"}
                      /\ s.by = "finish" => job'[s.of].ended /\ job'[s.of].finish = "none"
                      /\ s.by = "kill" => s.of \in killed'
    BY DEF SaveOrder
  <2>2. CASE s \in saves
    <3>1. /\ s.by = "launch" => /\ job[s.of].heard = "no" /\ ~job[s.of].ended
                                /\ job[s.of].state \in {"running", "cancelled"}
          /\ s.by = "finish" => job[s.of].ended /\ job[s.of].finish = "none"
          /\ s.by = "kill" => s.of \in killed
      BY <2>2 DEF JobInv, SaveOrder
    <3>2. s.of \in Jobs
      BY <2>2, SaveFields
    <3> QED
      BY <1>1, <1>3, <2>1, <3>1, <3>2
  <2>3. CASE s.of = j /\ s.by = "kill"
    BY <1>1, <2>3
  <2> QED
    BY <1>8, <2>2, <2>3
<1>12. Removed' /\ KnownAfterRestart'
  BY <1>1 DEF JobInv, Removed, KnownAfterRestart
<1> QED
  BY <1>7, <1>8, <1>9, <1>10, <1>11, <1>12 DEF JobInv

LEMMA RemoveCallKeeps == ASSUME JobInv, NEW j \in Jobs, RemoveCall(j) PROVE JobInv'
<1>1. /\ up /\ j \in jobs /\ jobs' = jobs \ {j} /\ removing' = removing \union {j}
      /\ UNCHANGED <<launched, job, child, saves, meta, tmp, killing, up, restarts, answered, killed>>
  BY DEF RemoveCall
<1>2. TypeOK'
  BY <1>1 DEF JobInv, TypeOK
<1> QED
  BY <1>1, <1>2
     DEF JobInv, Chunks, Fresh, Events, FinishOnce, SaveOrder, LaunchSave, SavedAlone, Delivery,
         Removed, KnownAfterRestart

LEMMA RemoveReturnKeeps == ASSUME JobInv, NEW j \in Jobs, RemoveReturn(j) PROVE JobInv'
<1>1. /\ up /\ j \in removing /\ removing' = removing \ {j} /\ meta' = [meta EXCEPT ![j] = "none"]
      /\ UNCHANGED <<launched, job, jobs, child, saves, tmp, killing, up, restarts, answered, killed>>
  BY DEF RemoveReturn
<1>2. /\ meta \in [Jobs -> Contents] /\ meta' \in [Jobs -> Contents]
      /\ \A k \in Jobs : meta'[k] = IF k = j THEN "none" ELSE meta[k]
  BY <1>1 DEF JobInv, TypeOK, Contents, Persisted
<1>3. TypeOK'
  BY <1>1, <1>2 DEF JobInv, TypeOK
<1>4. Fresh'
  BY <1>1, <1>2 DEF JobInv, Fresh
<1>5. KnownAfterRestart'
  <2>1. j \notin jobs /\ jobs \subseteq Jobs
    BY <1>1 DEF JobInv, Removed, TypeOK
  <2> QED
    BY <1>1, <1>2, <2>1 DEF JobInv, KnownAfterRestart
<1> QED
  BY <1>1, <1>3, <1>4, <1>5
     DEF JobInv, Chunks, Events, FinishOnce, SaveOrder, LaunchSave, SavedAlone, Delivery, Removed

LEMMA EndKeeps == ASSUME JobInv, End PROVE JobInv'
<1>1. PICK closed \in BOOLEAN :
        child' = [j \in Jobs |-> [child[j] EXCEPT
                    !.event = "close",
                    !.os = IF closed /\ job[j].state = "running" /\ job[j].owned
                             THEN "gone" ELSE @]]
  BY DEF End
<1>2. /\ up /\ up' = FALSE /\ saves' = {} /\ killing' = {} /\ removing' = {}
      /\ UNCHANGED <<launched, job, jobs, meta, tmp, restarts, answered, killed>>
  BY DEF End
<1>3. \A j \in Jobs :
        /\ child'[j] \in ChildRecords /\ child'[j].event = "close"
        /\ child'[j].os = child[j].os \/ (child'[j].os = "gone" /\ job[j].state = "running")
        /\ child'[j].made = child[j].made /\ child'[j].read = child[j].read
        /\ child'[j].lost = child[j].lost /\ child'[j].written = child[j].written
  <2> TAKE j \in Jobs
  <2> DEFINE os == IF closed /\ job[j].state = "running" /\ job[j].owned THEN "gone" ELSE child[j].os
  <2>1. child'[j] = [child[j] EXCEPT !.event = "close", !.os = os] /\ child[j] \in ChildRecords
    BY <1>1, JobTypes
  <2>2. os \in {"none", "running", "gone"} /\ (os = child[j].os \/ (os = "gone" /\ job[j].state = "running"))
    BY JobFields
  <2> HIDE DEF os
  <2> QED
    BY <2>1, <2>2 DEF ChildRecords
<1>4. child' \in [Jobs -> ChildRecords]
  BY <1>1, <1>3
<1>5. TypeOK'
  BY <1>2, <1>4 DEF JobInv, TypeOK, ChildRecords
<1>6. Fresh'
  <2>1. \A j \in Jobs : j > launched => job[j].state # "running"
    BY DEF JobInv, Fresh, NoJob
  <2> QED
    BY <1>2, <1>3, <2>1 DEF JobInv, Fresh
<1>7. Chunks' /\ Events' /\ Delivery'
  BY <1>2, <1>3 DEF JobInv, Chunks, Events, Delivery
<1> QED
  BY <1>2, <1>5, <1>6, <1>7
     DEF JobInv, FinishOnce, SaveOrder, LaunchSave, SavedAlone, Removed, KnownAfterRestart

LEMMA StartKeeps == ASSUME JobInv, Start PROVE JobInv'
<1>1. /\ ~up /\ restarts < MaxRestarts /\ up' = TRUE /\ restarts' = restarts + 1
      /\ jobs' = {j \in Jobs : meta[j] \in States}
      /\ job' = [j \in Jobs |-> IF j \in jobs' THEN [NoJob EXCEPT !.state = Restored(meta[j])] ELSE NoJob]
      /\ UNCHANGED <<launched, child, saves, meta, tmp, killing, removing, answered, killed>>
  BY DEF Start
<1>2. saves = {} /\ killing = {} /\ removing = {}
  BY <1>1 DEF JobInv, Events
<1>3. \A j \in Jobs : /\ job'[j] \in JobRecords /\ job'[j].owned = FALSE /\ job'[j].heard = "no"
                      /\ job'[j].ended = FALSE /\ job'[j].finish = "none" /\ job'[j].state # "running"
                      /\ job'[j].state # "none" => meta[j] # "none"
  <2> TAKE j \in Jobs
  <2>1. CASE j \in jobs'
    <3>1. Restored(meta[j]) \in States \ {"running"} /\ meta[j] # "none"
      BY <1>1, <2>1 DEF Restored, States
    <3>2. job'[j] = [NoJob EXCEPT !.state = Restored(meta[j])]
      BY <1>1, <2>1
    <3> QED
      BY <3>1, <3>2 DEF NoJob, JobRecords, Persisted
  <2>2. CASE j \notin jobs'
    <3>1. job'[j] = NoJob
      BY <1>1, <2>2
    <3> QED
      BY <3>1 DEF NoJob, JobRecords, Persisted
  <2> QED
    BY <2>1, <2>2
<1>4. job' \in [Jobs -> JobRecords] /\ restarts' \in 0..MaxRestarts /\ jobs' \subseteq Jobs
  <2>1. job' \in [Jobs -> JobRecords]
    BY <1>1, <1>3
  <2> QED
    BY <1>1, <2>1, JobsAssumption DEF JobInv, TypeOK
<1>5. TypeOK'
  BY <1>1, <1>2, <1>3, <1>4 DEF JobInv, TypeOK, JobRecords
<1>6. Fresh'
  <2>1. \A j \in jobs' : j \in 1..launched
    <3> TAKE j \in jobs'
    <3>1. j \in Jobs /\ meta[j] # "none" /\ launched \in Nat
      BY <1>1 DEF States, JobInv, TypeOK
    <3> QED
      BY <3>1 DEF JobInv, Fresh, Jobs
  <2>2. \A j \in Jobs : j > launched => job'[j] = NoJob
    <3> TAKE j \in Jobs
    <3>1. meta[j] = "none" => j \notin jobs'
      BY <1>1 DEF States
    <3> QED
      BY <1>1, <3>1 DEF JobInv, Fresh
  <2> QED
    BY <1>1, <1>2, <2>1, <2>2 DEF JobInv, Fresh
<1>7. Chunks' /\ Events' /\ FinishOnce' /\ SaveOrder' /\ LaunchSave' /\ SavedAlone' /\ Removed'
  BY <1>1, <1>2, <1>3
     DEF JobInv, Chunks, Events, FinishOnce, SaveOrder, LaunchSave, SavedAlone, Removed
<1>8. Delivery'
  BY <1>1, <1>3 DEF JobInv, Events, Delivery
<1>9. KnownAfterRestart'
  BY <1>1 DEF KnownAfterRestart
<1> QED
  BY <1>5, <1>6, <1>7, <1>8, <1>9 DEF JobInv

-----------------------------------------------------------------------------
\* Every step of the manager, of the children and of the application keeps it.
LEMMA JobsStep == JobInv /\ [Next]_vars => JobInv'
<1> SUFFICES ASSUME JobInv, [Next]_vars PROVE JobInv'
  OBVIOUS
<1>1. CASE Launch \/ End \/ Start
  BY <1>1, LaunchKeeps, EndKeeps, StartKeeps
<1>2. ASSUME NEW s \in saves, SaveOpen(s) \/ SaveWrite(s) \/ SaveRename(s) \/ SaveFails(s) PROVE JobInv'
  BY <1>2, SaveOpenKeeps, SaveWriteKeeps, SaveRenameKeeps, SaveFailsKeeps
<1>3. ASSUME NEW j \in Jobs, JobStep(j) PROVE JobInv'
  <2>1. CASE Output(j) \/ OsExit(j) \/ ExitEvent(j) \/ Data(j) \/ Written(j)
    BY <2>1, OutputKeeps, OsExitKeeps, ExitEventKeeps, DataKeeps, WrittenKeeps
  <2>2. CASE CloseEvent(j) \/ Timeout(j) \/ FinishReturn(j)
    BY <2>2, CloseEventKeeps, TimeoutKeeps, FinishReturnKeeps
  <2>3. CASE KillCall(j) \/ KillReturn(j) \/ RemoveCall(j) \/ RemoveReturn(j)
    BY <2>3, KillCallKeeps, KillReturnKeeps, RemoveCallKeeps, RemoveReturnKeeps
  <2> QED
    BY <1>3, <2>1, <2>2, <2>3 DEF JobStep
<1>4. CASE UNCHANGED vars
  <2>1. TypeOK'
    BY <1>4 DEF vars, JobInv, TypeOK
  <2> QED
    BY <1>4, <2>1
       DEF vars, JobInv, Chunks, Fresh, Events, FinishOnce, SaveOrder, LaunchSave, SavedAlone, Delivery,
           Removed, KnownAfterRestart
<1> QED
  BY <1>1, <1>2, <1>3, <1>4 DEF Next

\* background.ts save, finish, kill and the order in which they meet: the
\* invariant the promises below rest on.
THEOREM JobsInvariant == Spec => []JobInv
<1> QED
  BY JobsStart, JobsStep, PTL DEF Spec

\* Persisted jobs are durable (background.ts initialize): a job that launch() has
\* answered has its metadata for the next start at every step, in the middle of a
\* save as well, unless it has been removed or killed.
THEOREM JobsSurvive == Spec => []KnownAfterRestart
<1>1. JobInv => KnownAfterRestart
  BY DEF JobInv
<1> QED
  BY <1>1, JobsInvariant, PTL

\* A job that runs has a child of this instance, and one that has completed has all
\* of its output in its log (background.ts finish and initialize).
THEOREM JobsAreTruthful == Spec => []JobsTruthful
<1>1. JobInv => JobsTruthful
  BY DEF JobInv, JobsTruthful, RunningIsOwned, OutputReadable, FinishOnce, Delivery, TypeOK
<1> QED
  BY <1>1, JobsInvariant, PTL
=================================================================================
