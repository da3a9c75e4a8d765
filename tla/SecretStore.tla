----------------------------- MODULE SecretStore -----------------------------
(***************************************************************************)
(* The credential store, src/src/main/secrets.ts: one encrypted file that  *)
(* holds a small map, a decrypted copy of it in memory, one load shared by *)
(* all who miss the copy, and a queue of writes (the promises loadInFlight *)
(* and mutationQueue).  Reads do not queue.                                *)
(*                                                                         *)
(* The operating system's key store may lock, unlock or fall back to its   *)
(* unprotected provider between any two awaits; every check of it is one   *)
(* look at its state.  A load wakes all who share it before anything else  *)
(* can happen: what follows in each of them are microtasks.                *)
(***************************************************************************)
EXTENDS Naturals, Sequences, FiniteSets, SequencesExt

CONSTANTS
  Gets, Sets,  \* calls of getSecret and of setSecret, each made once
  Keys,        \* SecretKey
  Texts,       \* what may be stored under a key; 0 stands for nothing
  Endings      \* bound: ends of the application, each followed by a start

ASSUME SecretsAssumption ==
  /\ IsFiniteSet(Gets \union Sets) /\ Gets \intersect Sets = {}
  /\ Keys # {} /\ 0 \notin Texts /\ Endings \in Nat

VARIABLES
  ring,      \* the operating system's key store
  file,      \* secrets.bin
  cache,     \* cache: the decrypted map, or None
  pending,   \* rotationPending
  load,      \* loadInFlight: where loadAll is, and the file as it has read it
  queue,     \* mutationQueue: the running operation and those behind it
  at,        \* where the running operation is
  next,      \* the map it writes
  call,      \* the calls
  before,    \* history: the map in the file before the last rename
  endings    \* bound counter

secretVars == <<ring, file, cache, pending, load, queue, at, next, call, before, endings>>

Calls == Gets \union Sets
Rings == {"ready", "locked", "basic"}
Maps == [Keys -> Texts \union {0}]
Empty == [k \in Keys |-> 0]
None == <<>>
Ours == {"absent", "sealed", "former"}   \* "former": sealed by a key no longer selected
Files == {f \in [kind : Ours \union {"basic", "broken"}, map : Maps] :
            f.kind \in {"sealed", "former"} \/ f.map = Empty}
NoLoad == [at |-> "none", file |-> None]
Idle == [st |-> "idle", key |-> None, value |-> 0, seen |-> {}, shut |-> FALSE]

SecretsTypeOK ==
  /\ ring \in Rings /\ file \in Files /\ cache \in Maps \union {None} /\ pending \in BOOLEAN
  /\ load.at \in {"none", "probe", "read", "decrypt", "warn"}
  /\ \A i \in 1..Len(queue) : queue[i].does \in {"set", "rotate"} /\ queue[i].call \in Calls
  /\ at \in {"turn", "load", "check", "encrypt", "write", "publish"}
  /\ next \in Maps /\ before \in Maps /\ endings \in 0..Endings
  /\ \A c \in Calls : call[c].st \in {"idle", "load", "rotate", "told", "set", "saved", "failed"}

SecretsInit ==
  /\ ring \in Rings /\ file \in Files
  /\ cache = None /\ pending = FALSE /\ load = NoLoad /\ queue = <<>> /\ at = "turn"
  /\ next = Empty /\ call = [c \in Calls |-> Idle] /\ before = file.map /\ endings = 0

-----------------------------------------------------------------------------
(* History: what a reader of k may be told, from its call to its answer:   *)
(* what the file holds, and also the former map until a rename has been    *)
(* published; nothing if the key store or the file was shut to it, or to   *)
(* the load it joined.                                                     *)
Current(k) == {file.map[k]} \union IF at = "publish" THEN {before[k]} ELSE {}
Shut == ring # "ready" \/ file.kind \notin Ours
Reading(c) == call[c].st = "load"
Seeing(m) ==   \* the file changes to m
  [c \in Calls |-> IF Reading(c) THEN [call[c] EXCEPT !.seen = @ \union {m[call[c].key]}] ELSE call[c]]
Denied ==      \* the key store or the file cannot be read
  [c \in Calls |-> IF Reading(c) THEN [call[c] EXCEPT !.shut = TRUE] ELSE call[c]]

\* The running operation ends; the next one has its turn.
Leave(answer) ==
  LET c == Head(queue).call IN
  /\ queue' = Tail(queue) /\ at' = "turn"
  /\ call' = [call EXCEPT ![c].st = IF @ = "rotate" THEN "told" ELSE answer]

\* setSecret: the map in force with the change of the running operation.
Composed(m) == LET c == Head(queue).call IN [m EXCEPT ![call[c].key] = call[c].value]

\* rotateIfNeeded: every reader of a map that is to be resealed queues for it.
Reseals(readers) == [i \in 1..Len(readers) |-> [does |-> "rotate", call |-> readers[i]]]

\* readAll joins the load in flight or starts one.
Joined == IF load.at = "none" THEN [NoLoad EXCEPT !.at = "probe"] ELSE load

\* The load ends with the map m: c is the cache from now on, p whether it is to
\* be resealed.  A write that waits composes from an authoritative map or fails.
LoadEnds(m, c, p) ==
  LET readers == {x \in Calls : Reading(x)}
      reseal == c # None /\ p
      refused == IF at = "load" /\ c = None THEN {Head(queue).call} ELSE {}
  IN
  /\ load' = NoLoad /\ cache' = c /\ pending' = p
  /\ queue' = (IF refused # {} THEN Tail(queue) ELSE queue)
              \o (IF reseal THEN Reseals(SetToSeq(readers)) ELSE <<>>)
  /\ at' = IF at # "load" THEN at ELSE IF c = None THEN "turn" ELSE "check"
  /\ next' = IF at = "load" /\ c # None THEN Composed(c) ELSE next
  /\ call' = [x \in Calls |->
       IF x \in readers
       THEN [call[x] EXCEPT !.st = IF reseal THEN "rotate" ELSE "told", !.value = m[call[x].key]]
       ELSE IF x \in refused THEN [call[x] EXCEPT !.st = "failed"] ELSE call[x]]

-----------------------------------------------------------------------------
(* getSecret *)
GetHit(c, k) ==
  /\ call[c].st = "idle" /\ cache # None
  /\ call' = [call EXCEPT ![c] = [st |-> IF pending THEN "rotate" ELSE "told", key |-> k,
                                  value |-> cache[k], seen |-> Current(k), shut |-> Shut]]
  /\ queue' = queue \o (IF pending THEN Reseals(<<c>>) ELSE <<>>)
  /\ UNCHANGED <<ring, file, cache, pending, load, at, next, before, endings>>

GetMiss(c, k) ==
  /\ call[c].st = "idle" /\ cache = None
  /\ call' = [call EXCEPT ![c] = [st |-> "load", key |-> k, value |-> 0,
                                  seen |-> Current(k), shut |-> Shut \/ load.at = "warn"]]
  /\ load' = Joined
  /\ UNCHANGED <<ring, file, cache, pending, queue, at, next, before, endings>>

(* setSecret, and clearSecret with 0: queued at once *)
SetCall(c, k, v) ==
  /\ call[c].st = "idle"
  /\ call' = [call EXCEPT ![c] = [Idle EXCEPT !.st = "set", !.key = k, !.value = v]]
  /\ queue' = Append(queue, [does |-> "set", call |-> c])
  /\ UNCHANGED <<ring, file, cache, pending, load, at, next, before, endings>>

(* loadAll, one action per await *)
LoadProbe ==
  /\ load.at = "probe"
  /\ IF ring = "ready"
     THEN load' = [load EXCEPT !.at = "read"] /\ UNCHANGED <<cache, pending, queue, at, next, call>>
     ELSE LoadEnds(Empty, None, pending)
  /\ UNCHANGED <<ring, file, before, endings>>

LoadRead ==
  /\ load.at = "read"
  /\ CASE file.kind = "absent" -> LoadEnds(Empty, Empty, FALSE)
       [] file.kind = "basic"  -> LoadEnds(Empty, None, FALSE)
       [] OTHER -> /\ load' = [at |-> "decrypt", file |-> file]
                   /\ UNCHANGED <<cache, pending, queue, at, next, call>>
  /\ UNCHANGED <<ring, file, before, endings>>

LoadDecrypt ==
  /\ load.at = "decrypt" /\ ring = "ready" /\ load.file.kind # "broken"
  /\ LoadEnds(load.file.map, load.file.map, load.file.kind = "former")
  /\ UNCHANGED <<ring, file, before, endings>>

LoadFails ==   \* reading, decryption or the form of the map
  /\ load.at \in {"read", "decrypt"}
  /\ load' = [load EXCEPT !.at = "warn"] /\ call' = Denied
  /\ UNCHANGED <<ring, file, cache, pending, queue, at, next, before, endings>>

\* Mutant: a load that fails leaves an empty map in the cache.
LoadWarnedEmpty ==
  /\ load.at = "warn"
  /\ LoadEnds(Empty, Empty, FALSE)
  /\ UNCHANGED <<ring, file, before, endings>>

LoadWarned ==
  /\ load.at = "warn"
  /\ LoadEnds(Empty, None, FALSE)
  /\ UNCHANGED <<ring, file, before, endings>>

(* The operation whose turn it is *)
Turn(does) == queue # <<>> /\ at = "turn" /\ Head(queue).does = does

SetTurn ==
  /\ Turn("set") /\ ring = "ready"
  /\ IF cache # None
     THEN at' = "check" /\ next' = Composed(cache) /\ UNCHANGED load
     ELSE at' = "load" /\ load' = Joined /\ UNCHANGED next
  /\ UNCHANGED <<ring, file, cache, pending, queue, call, before, endings>>

RotateTurn ==
  /\ Turn("rotate")
  /\ IF pending /\ cache # None
     THEN at' = "check" /\ next' = cache /\ UNCHANGED <<queue, call>>
     ELSE Leave("told") /\ UNCHANGED next
  /\ UNCHANGED <<ring, file, cache, pending, load, before, endings>>

(* writeAll *)
Sealed ==
  /\ at \in {"check", "encrypt"} /\ ring = "ready"
  /\ at' = IF at = "check" THEN "encrypt" ELSE "write"
  /\ UNCHANGED <<ring, file, cache, pending, load, queue, next, call, before, endings>>

Refused ==
  /\ Turn("set") \/ at \in {"check", "encrypt"}
  /\ ring # "ready"
  /\ Leave("failed")
  /\ UNCHANGED <<ring, file, cache, pending, load, next, before, endings>>

WriteFails ==   \* the temporary file or its rename
  /\ at = "write"
  /\ Leave("failed")
  /\ UNCHANGED <<ring, file, cache, pending, load, next, before, endings>>

Replaced ==
  /\ at = "write" /\ at' = "publish"
  /\ file' = [kind |-> "sealed", map |-> next] /\ before' = file.map
  /\ call' = Seeing(next)
  /\ UNCHANGED <<ring, cache, pending, load, queue, next, endings>>

Publish ==
  /\ at = "publish"
  /\ cache' = next /\ pending' = FALSE
  /\ Leave("saved")
  /\ UNCHANGED <<ring, file, load, next, before, endings>>

(* The user or the desktop *)
RingChanges ==
  /\ ring' \in Rings \ {ring}
  /\ call' = IF ring' = "ready" THEN call ELSE Denied
  /\ UNCHANGED <<file, cache, pending, load, queue, at, next, before, endings>>

(* The application ends, at any step, and starts again *)
Restarted ==
  /\ endings < Endings /\ endings' = endings + 1
  /\ cache' = None /\ pending' = FALSE /\ load' = NoLoad /\ queue' = <<>> /\ at' = "turn" /\ next' = Empty
  /\ call' = [c \in Calls |-> IF call[c].st \in {"load", "rotate", "set"} THEN Idle ELSE call[c]]
  /\ UNCHANGED <<ring, file, before>>

SecretsNext ==
  \/ \E c \in Gets, k \in Keys : GetHit(c, k) \/ GetMiss(c, k)
  \/ \E c \in Sets, k \in Keys, v \in Texts \union {0} : SetCall(c, k, v)
  \/ LoadProbe \/ LoadRead \/ LoadDecrypt \/ LoadFails \/ LoadWarned
  \/ SetTurn \/ RotateTurn \/ Sealed \/ Refused \/ WriteFails \/ Replaced \/ Publish
  \/ RingChanges \/ Restarted

SecretsSpec == SecretsInit /\ [][SecretsNext]_secretVars

-----------------------------------------------------------------------------
\* The file changes by a set, in its own key only, or by a reseal, in no key; a
\* file whose contents were not understood is never replaced.
OnlyItsKey ==
  [][file' # file =>
       /\ file.kind \in Ours /\ queue # <<>>
       /\ LET op == Head(queue)  c == call[op.call] IN
          file'.map = IF op.does = "set" THEN [file.map EXCEPT ![c.key] = c.value] ELSE file.map]_file

\* A set is answered when its value is in the file.
SavedIsThere ==
  [][\A c \in Sets : call[c].st # "saved" /\ call'[c].st = "saved" =>
                       file.kind = "sealed" /\ file.map[call[c].key] = call[c].value]_call

\* The copy in memory is the map in the file, but for a rename not yet published.
CacheIsFile == cache # None => cache = IF at = "publish" THEN before ELSE file.map

\* A reader is told what the key held during its call, or nothing if the key
\* store or the file was shut to it or to the load it shared.
ReadsCurrent ==
  \A c \in Gets : call[c].st \in {"rotate", "told"} =>
                    call[c].value \in call[c].seen \/ (call[c].value = 0 /\ call[c].shut)

\* The credentials in the file, in memory and in every answer agree, whatever the
\* key store does between two awaits and whenever the application ends.
CredentialsKept == OnlyItsKey /\ SavedIsThere /\ [](SecretsTypeOK /\ CacheIsFile /\ ReadsCurrent)
=============================================================================
