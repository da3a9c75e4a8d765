------------------------------ MODULE OpenCode ------------------------------
(***************************************************************************)
(* The OpenCode integration (src/src/main/integrations/opencode): the tool *)
(* calls of a remote model, each a process that sends HTTP requests to an  *)
(* OpenCode server on this machine, the two kinds of queue that order      *)
(* them, the client they share, and the event pump.  A request may be      *)
(* refused, lost, answered to nobody, or taken after its sender gave up;   *)
(* the server may be replaced and the application restarted.  Text,        *)
(* directories and the selection of a model are left out.                  *)
(***************************************************************************)
EXTENDS Integers, Sequences, FiniteSets, SequencesExt, FiniteSetsExt

CONSTANTS Calls,        \* tool calls that may be under way at once
          Reqs,         \* caller-chosen creation request ids
          Batches,      \* what a start may ask for: sequences of request ids
          Mixes,        \* what one behaviour is about: the kinds of calls made and the sessions found
          MaxWorkers,   \* maxConcurrentWorkers
          MaxSessions, MaxCalls, MaxFaults, MaxAsks, MaxClients

\* That one start names different requests is left to its caller.
ASSUME OpenCodeAssumption ==
  /\ MaxWorkers \in Nat \ {0} /\ MaxSessions \in Nat \ {0, 1}
  /\ {MaxCalls, MaxFaults, MaxAsks, MaxClients} \subseteq Nat /\ Reqs # {}
  /\ \A b \in Batches : b \in Seq(Reqs) /\ Len(b) \in 1..2 /\ (Len(b) = 2 => b[1] # b[2])
  /\ {"initial", "pump"} \intersect Calls = {}

None == "none"
Nothing == <<None, 0>>                  \* no turn and no creation id
Members == {1, 2}                       \* the tasks of one start call
Procs == Calls \X (Members \union {0})  \* <<c, 0>> is the call itself
Main(c) == <<c, 0>>
Pump == <<"pump", 0>>
Sids == 1..MaxSessions

VARIABLES
  instance, sessions, late,        \* the server: identity, sessions, requests still to be taken
  auth, client, pin,               \* the backend: auth, its current client, the instance each client has pinned
  pc, loc,                         \* where each process and the event pump is, and its local values
  admission, queue,                \* workerAdmissionQueue, sessionQueues
  left,                            \* what the bounds still allow
  early, tardy,                    \* history: a batch answered before its members, a request taken late,
  buried, missed                   \*   ids whose session a listing missed, running workers overlooked

server == <<instance, sessions, late>>
backend == <<auth, client, pin>>
history == <<early, tardy, buried, missed>>
vars == <<server, backend, pc, loc, admission, queue, left, history>>

-----------------------------------------------------------------------------
(* Lost and refused requests, replacements of the server and restarts of   *)
(* the application share one bound.                                        *)
Fault == left.faults > 0
Faulty == left' = [left EXCEPT !.faults = @ - 1]
Reliable == UNCHANGED left

(* The server, as the requests use it. *)

Unfinished == {"accepted", "running", "aborting", "lost"}
Turn(id, by) == [id |-> id, by |-> by, state |-> "accepted"]
Busy(s) == \E i \in DOMAIN sessions[s].turns : sessions[s].turns[i].state \in {"running", "aborting"}
Has(s, id) == \E i \in DOMAIN sessions[s].turns : sessions[s].turns[i].id = id
LastUnfinished(s) == LET t == sessions[s].turns IN t # <<>> /\ Last(t).state \in Unfinished

(* Sessions whose metadata carries the creation id: that of a standalone   *)
(* worker is its request's, that of a swarm member its swarm's and its own.*)
Creation(kind, r) == <<kind, r>>
Created(id) == {s \in DOMAIN sessions : sessions[s].req = id}

(* The effect of each mutation, on the sequence of sessions. *)
WithSession(all, id) ==
  Append(all, [req |-> id, member |-> FALSE, swarm |-> FALSE, paused |-> FALSE, asks |-> FALSE, turns |-> <<>>])
WithTurn(all, s, t) == [all EXCEPT ![s].turns = Append(@, t)]
WithTurns(all, s, from, to) ==
  [all EXCEPT ![s].turns = [i \in DOMAIN @ |-> IF @[i].state \in from THEN [@[i] EXCEPT !.state = to] ELSE @[i]]]

ServerStep == UNCHANGED <<instance, backend, pc, loc, admission, queue, early, buried, missed>>

TurnStarts(s) ==
  /\ \E i \in DOMAIN sessions[s].turns : sessions[s].turns[i].state = "accepted"
  /\ sessions' = WithTurns(sessions, s, {"accepted"}, "running")
  /\ UNCHANGED <<late, left, tardy>> /\ ServerStep

(* An agent that waits for a permission or an answer does not end, aborted or not. *)
TurnEnds(s) ==
  /\ Busy(s) /\ ~sessions[s].asks
  /\ sessions' = WithTurns(sessions, s, {"running", "aborting"}, "ended")
  /\ UNCHANGED <<late, left, tardy>> /\ ServerStep

Asks(s) ==
  /\ \E i \in DOMAIN sessions[s].turns : sessions[s].turns[i].state = "running"
  /\ ~sessions[s].asks /\ left.asks > 0
  /\ sessions' = [sessions EXCEPT ![s].asks = TRUE]
  /\ left' = [left EXCEPT !.asks = @ - 1]
  /\ UNCHANGED <<late, tardy>> /\ ServerStep

(* A request whose client has given up on it is taken after all. *)
TakesLate(m) ==
  /\ m \in late
  /\ late' = late \ {m} /\ tardy' = TRUE
  /\ sessions' = IF m.what = "create" THEN WithSession(sessions, m.req)
                 ELSE WithTurn(sessions, m.sid, m.turn)
  /\ m.what = "create" => Len(sessions) < MaxSessions
  /\ UNCHANGED left /\ ServerStep

(* Another process answers on the port: the same sessions, a new identity; *)
(* what was running has no terminal message and never gets one.            *)
Replaced ==
  /\ Fault
  /\ instance' = instance + 1 /\ late' = {}
  /\ sessions' = [s \in DOMAIN sessions |->
       [WithTurns(sessions, s, Unfinished, "lost")[s] EXCEPT !.asks = FALSE]]
  /\ Faulty
  /\ UNCHANGED <<backend, pc, loc, admission, queue, history>>

-----------------------------------------------------------------------------
(* Requests.  One step of a process is one request: the client it goes     *)
(* through, and what the caller learns.                                    *)

Reaches(k) == pin[k] \in {0, instance}       \* otherwise 409: another instance

Goto(p, where) == pc' = [pc EXCEPT ![p] = where]
InQueues == UNCHANGED <<admission, queue>>

NoLocals == [kind |-> None, reqs |-> <<>>, req |-> Nothing, sid |-> 0, turn |-> Nothing, conn |-> 0, client |-> 0,
             owned |-> FALSE, why |-> None]

(* A process whose turn it is in a queue gives it up when its call ends.   *)
\* Mutant: a call that ends keeps its place in its session's queue.
Heads(q, p) == q # <<>> /\ Head(q) = p
After(q, p) == IF Heads(q, p) THEN Tail(q) ELSE q
LeaveAdmission(p) == admission' = After(admission, p) /\ UNCHANGED queue
Leave(p) == admission' = After(admission, p) /\ queue' = [s \in Sids |-> After(queue[s], p)]

(* The call is answered: call() turns an instance mismatch into offline.   *)
(* A member of a batch only ends; its call, if still there, looks at it.   *)
Gone(p, q) == q = p \/ (q[1] = p[1] /\ pc[q] = "ended")
Answered(p, why) ==
  LET alone == p[2] = 0 \/ pc[Main(p[1])] # "members" IN
  /\ loc' = [q \in DOMAIN loc |-> IF q = p /\ ~alone THEN [NoLocals EXCEPT !.why = why]
                                   ELSE IF alone /\ Gone(p, q) THEN NoLocals ELSE loc[q]]
  /\ pc' = [q \in DOMAIN pc |-> IF q = p /\ ~alone THEN "ended" ELSE IF alone /\ Gone(p, q) THEN "idle" ELSE pc[q]]
  /\ IF p[2] = 0 THEN Leave(p) ELSE InQueues
  /\ auth' = IF p[2] = 0 /\ why = "mismatch" THEN "offline" ELSE auth
  /\ UNCHANGED <<client, pin>>

Rest == UNCHANGED <<instance, history>>   \* what no request of a call changes

-----------------------------------------------------------------------------
(* Connections. *)

(* Where a process stands before a request that starts with requireReady(). *)
Sending == {"list", "relist", "own", "join", "find", "prompt", "verify", "count",
            "check", "enter", "abort", "settle", "latest", "waiting", "pending", "reply", "subscribe"}
(* A process waits for its turn in a queue before it looks at the connection. *)
Turned(p) ==
  /\ pc[p] = "count" => Heads(admission, p)
  /\ pc[p] \in {"check", "abort"} => Heads(queue[loc[p].sid], p)
May(p, where) == pc[p] = where /\ Turned(p) /\ loc[p].conn = 0 /\ auth = "ready"

(* requireReady(), connect(): a new client takes the place of the last one *)
(* before it knows the instance it talks to.  A client nobody refers to is *)
(* forgotten.                                                              *)
InUse == {client} \union {loc[p].client : p \in DOMAIN loc} \union {loc[p].conn : p \in DOMAIN loc}
Reconnect(p) ==
  /\ pc[p] \in Sending /\ Turned(p) /\ loc[p].conn = 0 /\ auth # "ready" /\ (1..MaxClients) \ InUse # {}
  /\ client' = Min((1..MaxClients) \ InUse)
  /\ pin' = [k \in 1..MaxClients |-> IF k \in InUse THEN pin[k] ELSE 0]
  /\ loc' = [loc EXCEPT ![p].conn = client']
  /\ UNCHANGED <<server, auth, pc, admission, queue, left, history>>

(* connect() comes back: identity, pinned probe, then the credential; and *)
(* the event pump is running.                                              *)
PumpOn == pc' = [pc EXCEPT ![Pump] = "subscribe"]
Connects(p) ==
  /\ loc[p].conn # 0
  /\ pin' = [pin EXCEPT ![loc[p].conn] = instance] /\ auth' = "ready"
  /\ loc' = [loc EXCEPT ![p].conn = 0]
  /\ PumpOn
  /\ UNCHANGED <<server, client, admission, queue, left, history>>

ConnectFails(p) ==
  /\ loc[p].conn # 0 /\ Fault /\ Faulty
  /\ IF p = Pump THEN loc' = [loc EXCEPT ![p].conn = 0] /\ UNCHANGED <<backend, pc, admission, queue>>
     ELSE Answered(p, "error")
  /\ UNCHANGED <<sessions, late>> /\ Rest

(* opencode_info status: start() again on the client there is, which       *)
(* refuses another instance than the one it has pinned.                    *)
Status(c) ==
  LET p == Main(c) IN
  /\ pc[p] = "status"
  /\ \/ /\ Reaches(client) /\ Reliable
        /\ pin' = [pin EXCEPT ![client] = instance] /\ auth' = "ready"
        /\ pc' = [pc EXCEPT ![p] = "idle", ![Pump] = "subscribe"]
     \/ /\ ~Reaches(client) /\ Reliable
        /\ auth' = "offline" /\ Goto(p, "idle") /\ UNCHANGED pin
     \/ /\ Fault /\ Faulty
        /\ auth' \in {"offline", "needs-auth"} /\ Goto(p, "idle") /\ UNCHANGED pin
  /\ UNCHANGED <<server, client, loc, admission, queue, history>>

(* The event pump: it subscribes, loses its stream and subscribes again;   *)
(* another instance, or a rejected credential, ends it.                    *)
PumpStops ==
  /\ May(Pump, "subscribe")
  /\ \/ Reaches(client) /\ Fault /\ Faulty /\ auth' = "needs-auth"
     \/ ~Reaches(client) /\ Reliable /\ auth' = "offline"
  /\ Goto(Pump, "off")
  /\ UNCHANGED <<server, client, pin, loc, admission, queue, history>>

-----------------------------------------------------------------------------
(* A request of process p through client k.  Effect is what the server     *)
(* does; the last parameter of each says where the process goes.           *)

(* A read: its answer, or an error that ends the caller. *)
Read(p, k) == Reaches(k) /\ Reliable
ReadFails(p) ==
  /\ \/ ~Reaches(client) /\ Reliable /\ Answered(p, "mismatch")
     \/ Reaches(client) /\ Fault /\ Faulty /\ Answered(p, "error")
  /\ UNCHANGED <<sessions, late>> /\ Rest
Stay == UNCHANGED <<sessions, late, backend, admission, queue>>

(* A mutation has five ends: taken and answered; refused; and three that   *)
(* look alike to the caller: lost, taken but unanswered, and taken late.   *)
Taken(k) == Reaches(k) /\ Reliable
Refused(p, k) ==
  /\ \/ ~Reaches(k) /\ Reliable /\ Answered(p, "mismatch")
     \/ Reaches(k) /\ Fault /\ Faulty /\ Answered(p, "error")
  /\ UNCHANGED <<sessions, late>> /\ Rest
Ambiguous(k, after, message) ==
  /\ Reaches(k) /\ Fault /\ Faulty
  /\ \/ sessions' = after /\ UNCHANGED late
     \/ UNCHANGED <<sessions, late>>
     \/ UNCHANGED sessions /\ late' = late \union {message}

-----------------------------------------------------------------------------
(* The life of a call. *)

Local(p, kind, sid) == [NoLocals EXCEPT !.kind = kind, !.sid = sid, !.turn = <<p[1], left.calls>>]
MembersIdle(c) == \A i \in Members : pc[<<c, i>>] = "idle"
Starts == {"start", "swarm_start"}
Queued == {"continue", "send", "turn", "cancel", "pause", "resume", "abort"}
First(kind) == CASE kind \in Starts -> "count" [] kind \in Queued -> "enter" [] kind = "wait" -> "latest"
                 [] kind = "answer" -> "pending" [] kind = "status" -> "status"

Begin(c, kind, sid, reqs) ==
  LET p == Main(c) IN
  /\ pc[p] = "idle" /\ left.calls > 0 /\ MembersIdle(c)
  /\ left' = [left EXCEPT !.calls = @ - 1]
  /\ loc' = [loc EXCEPT ![p] = [Local(p, kind, sid) EXCEPT !.reqs = reqs]]
  /\ Goto(p, First(kind))
  /\ admission' = IF kind \in Starts THEN Append(admission, p) ELSE admission
  /\ UNCHANGED <<server, backend, queue, history>>

BeginStart(c) == \E kind \in left.kinds \intersect Starts, b \in Batches : Begin(c, kind, 0, b)
BeginOther(c) == \E kind \in left.kinds \ Starts, s \in DOMAIN sessions : Begin(c, kind, s, <<>>)

(* A worker is in the ownership group, a swarm member in its swarm's.      *)
Ours(s) == IF sessions[s].req[1] = "swarm_start" THEN sessions[s].swarm ELSE sessions[s].member
(* Before its place in the session's queue: requireWorker() or             *)
(* authorizeSession() for it, and the client session() goes on with.       *)
Enter(p) ==
  LET s == loc[p].sid IN
  /\ May(p, "enter") /\ Read(p, client)
  /\ IF loc[p].kind \in {"continue", "cancel"} /\ ~Ours(s)
     THEN Answered(p, "error") /\ UNCHANGED <<sessions, late>>
     ELSE /\ queue' = [queue EXCEPT ![s] = Append(@, p)]
          /\ loc' = [loc EXCEPT ![p].client = client]
          /\ Goto(p, CASE loc[p].kind \in {"continue", "send", "turn"} -> "check"
                       [] loc[p].kind = "cancel" -> "abort" [] OTHER -> "control")
          /\ UNCHANGED <<sessions, late, backend, admission>>
  /\ Rest

-----------------------------------------------------------------------------
(* A prompt: promptAsync. *)

Accepted(p) ==
  IF loc[p].kind = "turn" THEN Goto(p, "waiting") /\ UNCHANGED <<loc, auth, client, pin, admission, queue>>
  ELSE Answered(p, "ok")
By(p) == IF p[2] = 0 THEN loc[p].kind ELSE "start"
Prompt(p) ==
  LET s == loc[p].sid
      t == Turn(loc[p].turn, By(p))
      after == WithTurn(sessions, s, t) IN
  /\ May(p, "prompt")
  /\ \/ Taken(client) /\ sessions' = after /\ UNCHANGED late /\ Accepted(p)
     \/ /\ Ambiguous(client, after, [what |-> "prompt", req |-> Nothing, sid |-> s, turn |-> t])
        /\ Goto(p, "verify") /\ UNCHANGED <<backend, loc, admission, queue>>
  /\ Rest
PromptRefused(p) == pc[p] = "prompt" /\ Turned(p) /\ loc[p].conn = 0 /\ auth = "ready" /\ Refused(p, client)

(* An ambiguous prompt is never sent again: its message id is looked for. *)
Verify(p) ==
  /\ May(p, "verify")
  /\ \/ Read(p, client) /\ Has(loc[p].sid, loc[p].turn) /\ Accepted(p)
     \/ Read(p, client) /\ ~Has(loc[p].sid, loc[p].turn) /\ Answered(p, "error")
     \/ (Fault \/ ~Reaches(client)) /\ (IF Reaches(client) THEN Faulty ELSE Reliable) /\ Answered(p, "error")
  /\ UNCHANGED <<sessions, late>> /\ Rest

-----------------------------------------------------------------------------
(* Calls on one session, in the order of its queue. *)

\* Mutant: a worker whose turn was accepted but does not run yet is taken for idle.
ReadyIfIdle(p) ==
  LET s == loc[p].sid IN
  IF loc[p].kind = "continue" THEN Ours(s) /\ ~Busy(s) ELSE ~sessions[s].paused /\ ~Busy(s)
Ready(p) ==
  LET s == loc[p].sid IN
  IF loc[p].kind = "continue"
  THEN Ours(s) /\ ~Busy(s) /\ ~LastUnfinished(s)
  ELSE ~sessions[s].paused /\ ~Busy(s)
Check(p) ==
  /\ May(p, "check") /\ Read(p, client)
  /\ IF Ready(p) THEN Goto(p, "prompt") /\ UNCHANGED <<loc, auth, client, pin, admission, queue>>
     ELSE Answered(p, "error")
  /\ UNCHANGED <<sessions, late>> /\ Rest

(* pause, resume and abort go through the client the call began with. *)
Controlled(kind, s) ==
  CASE kind = "pause" -> [sessions EXCEPT ![s].paused = TRUE]
    [] kind = "resume" -> [sessions EXCEPT ![s].paused = FALSE]
    [] kind \in {"abort", "cancel"} -> WithTurns(sessions, s, {"running"}, "aborting")
Control(p) ==
  LET k == loc[p].client IN
  /\ pc[p] = "control" /\ Heads(queue[loc[p].sid], p)
  /\ \/ /\ Taken(k) /\ sessions' = Controlled(loc[p].kind, loc[p].sid)
        /\ UNCHANGED late /\ Answered(p, "ok") /\ Rest
     \/ /\ Reaches(k) /\ Fault /\ Faulty /\ sessions' \in {sessions, Controlled(loc[p].kind, loc[p].sid)}
        /\ UNCHANGED late /\ Answered(p, "error") /\ Rest
     \/ ~Reaches(k) /\ Refused(p, k)

(* cancel: abort, then settle what the session waits for, then wait for    *)
(* idle; only an abort that fails ends it early.                           *)
Abort(p) ==
  LET s == loc[p].sid IN
  /\ May(p, "abort")
  /\ \/ /\ Taken(client) /\ sessions' = Controlled("cancel", s)
        /\ Goto(p, "settle") /\ UNCHANGED <<late, backend, loc, admission, queue>> /\ Rest
     \/ /\ Reaches(client) /\ Fault /\ Faulty /\ sessions' \in {sessions, Controlled("cancel", s)}
        /\ UNCHANGED late /\ Answered(p, "error") /\ Rest
     \/ ~Reaches(client) /\ Refused(p, client)
Settle(p) ==
  /\ May(p, "settle")
  /\ \/ Reaches(client) /\ Reliable /\ sessions' = [sessions EXCEPT ![loc[p].sid].asks = FALSE]
     \/ Reaches(client) /\ Fault /\ Faulty /\ UNCHANGED sessions
     \/ ~Reaches(client) /\ Reliable /\ UNCHANGED sessions
  /\ Goto(p, "waiting") /\ UNCHANGED <<late, backend, loc, admission, queue>> /\ Rest

(* waitTurn() and the wait for idle after an abort: a look, an event or a  *)
(* second later another, until the deadline.                               *)
Latest(p) ==
  LET t == sessions[loc[p].sid].turns IN
  /\ May(p, "latest") /\ Read(p, client)
  /\ IF t = <<>> THEN Answered(p, "empty")
     ELSE /\ loc' = [loc EXCEPT ![p].turn = Last(t).id] /\ Goto(p, "waiting")
          /\ UNCHANGED <<backend, admission, queue>>
  /\ UNCHANGED <<sessions, late>> /\ Rest
Over(p) ==
  LET s == loc[p].sid IN
  IF loc[p].kind = "cancel" THEN ~Busy(s)
  ELSE \E i \in DOMAIN sessions[s].turns : sessions[s].turns[i].id = loc[p].turn /\ sessions[s].turns[i].state = "ended"
Sees(p) ==
  /\ May(p, "waiting") /\ Read(p, client) /\ Over(p)
  /\ Answered(p, "ok") /\ UNCHANGED <<sessions, late>> /\ Rest
Expires(p) ==
  /\ pc[p] = "waiting" /\ loc[p].conn = 0 /\ Reliable
  /\ Answered(p, "running") /\ UNCHANGED <<sessions, late>> /\ Rest

(* opencode_request: the pending requests are listed, then one is answered. *)
Pending(p) ==
  /\ May(p, "pending") /\ Read(p, client)
  /\ IF sessions[loc[p].sid].asks
     THEN Goto(p, "reply") /\ UNCHANGED <<loc, auth, client, pin, admission, queue>>
     ELSE Answered(p, "error")
  /\ UNCHANGED <<sessions, late>> /\ Rest
Reply(p) ==
  /\ May(p, "reply")
  /\ \/ /\ Taken(client) /\ sessions' = [sessions EXCEPT ![loc[p].sid].asks = FALSE]
        /\ UNCHANGED late /\ Answered(p, "ok") /\ Rest
     \/ Refused(p, client)

-----------------------------------------------------------------------------
(* Starts: a batch is admitted when its turn comes. *)

(* What runs is counted by asking after every member of the ownership      *)
(* group.  A member whose session, or whose last turn, could not be read   *)
(* is taken for one that does not run.                                     *)
Active == {s \in DOMAIN sessions : sessions[s].member /\ (Busy(s) \/ LastUnfinished(s))}
InSwarm(r) == \E s \in Created(Creation("swarm_start", r)) : sessions[s].swarm
Asked(p) ==
  IF loc[p].kind = "start" THEN Len(loc[p].reqs)
  ELSE Cardinality({i \in DOMAIN loc[p].reqs : ~InSwarm(loc[p].reqs[i])})
\* Mutant: the ceiling is held against what runs, not against what would run then.
AdmissibleNow(p, overlooked) == Cardinality(Active \ overlooked) <= MaxWorkers
Admissible(p, overlooked) == Cardinality(Active \ overlooked) + Asked(p) <= MaxWorkers
InitialTurn(id) == <<"initial", id>>       \* one message id per creation, whoever sends it
Member(p, i) ==
  LET id == Creation(loc[p].kind, loc[p].reqs[i]) IN
  [NoLocals EXCEPT !.kind = loc[p].kind, !.req = id, !.turn = InitialTurn(id)]
Admits(p) ==
  LET admitted(q) == q[1] = p[1] /\ q[2] \in DOMAIN loc[p].reqs IN
  /\ loc' = [q \in DOMAIN loc |-> IF admitted(q) THEN Member(p, q[2]) ELSE loc[q]]
  /\ pc' = [q \in DOMAIN pc |-> IF q = p THEN "members" ELSE IF admitted(q) THEN "list" ELSE pc[q]]
  /\ UNCHANGED <<backend, admission, queue>>
Count(c) ==
  LET p == Main(c) IN
  /\ May(p, "count") /\ Reaches(client)
  /\ \E overlooked \in SUBSET Active :
     /\ Cardinality(overlooked) <= left.faults
     /\ left' = [left EXCEPT !.faults = @ - Cardinality(overlooked)]
     /\ missed' = missed + Cardinality(overlooked)
     /\ IF Admissible(p, overlooked) THEN Admits(p) ELSE Answered(p, "error")
  /\ UNCHANGED <<sessions, late, instance, early, tardy, buried>>

(* Promise.all answers a start at its first failure, the members that are  *)
(* still at work left to themselves; allSettled answers a swarm at the end. *)
Failing(m) == pc[m] = "ended" /\ loc[m].why \in {"error", "mismatch"}
Working(c) == {i \in Members : pc[<<c, i>>] \notin {"idle", "ended"}}
BatchFails(c) ==
  LET p == Main(c) IN
  /\ pc[p] = "members" /\ loc[p].kind = "start"
  /\ \E i \in Members : Failing(<<c, i>>) /\ Answered(p, loc[<<c, i>>].why)
  /\ early' = (early \/ Working(c) # {})
  /\ UNCHANGED <<server, left, tardy, buried, missed>>
BatchAnswers(c) ==
  LET p == Main(c) IN
  /\ pc[p] = "members" /\ Working(c) = {}
  /\ loc[p].kind = "start" => \A i \in Members : ~Failing(<<c, i>>)
  /\ Answered(p, "ok") /\ UNCHANGED <<server, left, history>>
-----------------------------------------------------------------------------
(* One member of a batch: startWorker, startSwarmMember. *)

Swarm(p) == loc[p].kind = "swarm_start"
(* A listed session that carries the request id is taken for this worker.  *)
(* One is created when none is listed: there is none, or the listing,      *)
(* which ends at 100 sessions and at what it may see, does not come to it. *)
Adopts(p) ==
  \E s \in Created(loc[p].req) : loc' = [loc EXCEPT ![p].sid = s] /\ Goto(p, "own")
List(p) ==
  /\ May(p, "list") /\ Reaches(client)
  /\ \/ Reliable /\ Adopts(p) /\ UNCHANGED buried
     \/ /\ loc' = [loc EXCEPT ![p].client = client] /\ Goto(p, "create")
        /\ IF Created(loc[p].req) = {} THEN Reliable /\ UNCHANGED buried
           ELSE Fault /\ Faulty /\ buried' = buried \union {loc[p].req}
  /\ Stay /\ UNCHANGED <<instance, early, tardy, missed>>
Create(p) ==
  LET k == loc[p].client  r == loc[p].req  after == WithSession(sessions, r) IN
  /\ pc[p] = "create" /\ Len(sessions) < MaxSessions
  /\ \/ /\ Taken(k) /\ sessions' = after /\ UNCHANGED late
        /\ loc' = [loc EXCEPT ![p].sid = Len(after)] /\ Goto(p, "own")
     \/ /\ Ambiguous(k, after, [what |-> "create", req |-> r, sid |-> 0, turn |-> Nothing])
        /\ Goto(p, "relist") /\ UNCHANGED loc
  /\ UNCHANGED <<backend, admission, queue>> /\ Rest
CreateRefused(p) == pc[p] = "create" /\ Refused(p, loc[p].client)
Relist(p) ==
  /\ May(p, "relist")
  /\ \/ Read(p, client) /\ Adopts(p) /\ UNCHANGED <<backend, admission, queue>>
     \/ Read(p, client) /\ Created(loc[p].req) = {} /\ Answered(p, "error")
     \/ ~Reaches(client) /\ Reliable /\ Answered(p, "error")
     \/ Reaches(client) /\ Fault /\ Faulty /\ Answered(p, "error")
  /\ UNCHANGED <<sessions, late>> /\ Rest

(* A worker whose ownership is not recorded gets no prompt.  A failure is  *)
(* a warning, whatever it is.                                              *)
Owned(p, owned) ==
  IF Swarm(p) THEN loc' = [loc EXCEPT ![p].owned = owned] /\ Goto(p, "join") /\ UNCHANGED <<backend, admission, queue>>
  ELSE IF owned THEN Goto(p, "find") /\ UNCHANGED <<loc, backend, admission, queue>>
  ELSE Answered(p, "incomplete")
Own(p) ==
  LET after == [sessions EXCEPT ![loc[p].sid].member = TRUE] IN
  /\ May(p, "own")
  /\ \/ Taken(client) /\ sessions' = after /\ Owned(p, TRUE)
     \/ Reaches(client) /\ Fault /\ Faulty /\ sessions' \in {sessions, after} /\ Owned(p, FALSE)
     \/ ~Reaches(client) /\ Reliable /\ UNCHANGED sessions /\ Owned(p, FALSE)
  /\ UNCHANGED late /\ Rest
Join(p) ==
  LET after == [sessions EXCEPT ![loc[p].sid].swarm = TRUE] IN
  /\ May(p, "join")
  /\ \/ /\ Taken(client) /\ sessions' = after
        /\ IF loc[p].owned THEN Goto(p, "find") /\ UNCHANGED <<loc, backend, admission, queue>> ELSE Answered(p, "incomplete")
     \/ Reaches(client) /\ Fault /\ Faulty /\ sessions' \in {sessions, after} /\ Answered(p, "incomplete")
     \/ ~Reaches(client) /\ Reliable /\ UNCHANGED sessions /\ Answered(p, "incomplete")
  /\ UNCHANGED late /\ Rest

(* The initial message of the request, if it was ever accepted, is the     *)
(* worker's turn; only without it is the prompt sent.                      *)
\* Mutant: a retried creation sends its prompt without looking for it.
FindUnseen(p) ==
  /\ May(p, "find") /\ Read(p, client)
  /\ Goto(p, "prompt") /\ UNCHANGED <<loc, auth, client, pin, admission, queue>>
  /\ UNCHANGED <<sessions, late>> /\ Rest
Find(p) ==
  /\ May(p, "find") /\ Read(p, client)
  /\ IF Has(loc[p].sid, loc[p].turn) THEN Answered(p, "ok")
     ELSE Goto(p, "prompt") /\ UNCHANGED <<loc, auth, client, pin, admission, queue>>
  /\ UNCHANGED <<sessions, late>> /\ Rest

-----------------------------------------------------------------------------
Reading == {"enter", "check", "latest", "waiting", "pending", "count", "list", "find"}
Unreadable(p) ==
  /\ pc[p] \in Reading /\ Turned(p) /\ loc[p].conn = 0 /\ auth = "ready"
  /\ ~(pc[p] = "waiting" /\ loc[p].kind = "cancel")
  /\ ReadFails(p)

(* The application ends and is started again: only the server remembers. *)
Restart ==
  /\ Fault /\ Faulty
  /\ auth' = "unknown" /\ client' = 1 /\ pin' = [k \in 1..MaxClients |-> 0]
  /\ pc' = [p \in DOMAIN pc |-> IF p = Pump THEN "off" ELSE "idle"]
  /\ loc' = [p \in DOMAIN loc |-> NoLocals]
  /\ admission' = <<>> /\ queue' = [s \in Sids |-> <<>>]
  /\ UNCHANGED <<server, history>>

(* What an earlier run of the application may have left on the server: a   *)
(* session of the user, and a worker at any point of its start.            *)
UserSession == WithSession(<<>>, Nothing)
Oldest == Creation("start", CHOOSE r \in Reqs : TRUE)
Worker(member, turns) ==
  Append(UserSession, [WithSession(<<>>, Oldest)[1] EXCEPT !.member = member, !.turns = turns])
History ==
  {UserSession, Worker(FALSE, <<>>), Worker(TRUE, <<>>)}
  \union {Worker(TRUE, <<[Turn(InitialTurn(Oldest), "start") EXCEPT !.state = st]>>) :
            st \in {"running", "ended", "lost"}}
ASSUME MixAssumption ==
  \A mix \in Mixes :
    mix.found \subseteq History /\ mix.kinds \subseteq Starts \union Queued \union {"wait", "answer", "status"}
Init ==
  /\ instance = 1 /\ late = {}
  /\ auth = "unknown" /\ client = 1 /\ pin = [k \in 1..MaxClients |-> 0]
  /\ pc = [p \in Procs \union {Pump} |-> IF p = Pump THEN "off" ELSE "idle"]
  /\ loc = [p \in Procs \union {Pump} |-> NoLocals]
  /\ admission = <<>> /\ queue = [s \in Sids |-> <<>>]
  /\ \E mix \in Mixes :
       /\ sessions \in mix.found
       /\ left = [kinds |-> mix.kinds, calls |-> MaxCalls, faults |-> MaxFaults, asks |-> MaxAsks]
  /\ early = FALSE /\ tardy = FALSE /\ buried = {} /\ missed = 0

Request(p) ==
  \/ Reconnect(p) \/ Connects(p) \/ ConnectFails(p) \/ Unreadable(p)
  \/ Prompt(p) \/ PromptRefused(p) \/ Verify(p)
MemberStep(p) == List(p) \/ Create(p) \/ CreateRefused(p) \/ Relist(p) \/ Own(p) \/ Join(p) \/ Find(p)
CallStep(c) ==
  LET p == Main(c) IN
  \/ Enter(p) \/ Check(p) \/ Control(p) \/ Abort(p) \/ Settle(p)
  \/ Latest(p) \/ Sees(p) \/ Expires(p) \/ Pending(p) \/ Reply(p)
  \/ Status(c) \/ Count(c) \/ BatchFails(c) \/ BatchAnswers(c)
ServerNext ==
  \/ \E s \in DOMAIN sessions : TurnStarts(s) \/ TurnEnds(s) \/ Asks(s)
  \/ \E m \in late : TakesLate(m)
  \/ Replaced
Next ==
  \/ \E c \in Calls : BeginStart(c) \/ BeginOther(c) \/ CallStep(c)
  \/ \E c \in Calls, i \in Members : MemberStep(<<c, i>>)
  \/ \E p \in Procs \union {Pump} : Request(p)
  \/ PumpStops \/ ServerNext \/ Restart

(* Every request is answered or times out, and every wait has a deadline.  *)
(* Nothing is assumed of the server.                                       *)
Fairness ==
  /\ \A c \in Calls : WF_vars(Request(Main(c)) \/ CallStep(c))
  /\ \A c \in Calls, i \in Members : WF_vars(Request(<<c, i>>) \/ MemberStep(<<c, i>>))
Spec == Init /\ [][Next]_vars /\ Fairness

-----------------------------------------------------------------------------
(* A creation request has one session and its initial prompt is accepted   *)
(* once, over retries, lost answers and restarts.  What it does not cover: *)
(* a batch answered while a member was still starting, a request that the  *)
(* server took after its client had given up on it, and the one creation   *)
(* id whose session a listing missed, because a hundred others came first. *)
Initial(id) == {x \in Sids \X (1..MaxCalls * 2) :
                 /\ x[1] \in DOMAIN sessions /\ x[2] \in DOMAIN sessions[x[1]].turns
                 /\ sessions[x[1]].turns[x[2]].id = InitialTurn(id)}
ExactlyOnce ==
  early \/ tardy \/ \A id \in (Starts \X Reqs) \ buried : Cardinality(Created(id)) <= 1 /\ Cardinality(Initial(id)) <= 1

(* A worker that was sent its prompt is in the ownership group, so no      *)
(* agent runs that a restarted application could not find and cancel.      *)
OwnedBeforePrompt ==
  \A s \in DOMAIN sessions :
    (\E i \in DOMAIN sessions[s].turns : sessions[s].turns[i].by = "start") => sessions[s].member

(* A creation request comes to one agent, and one that can be found again. *)
StartedOnce == ExactlyOnce /\ OwnedBeforePrompt

(* However many starts are asked for, alone or in batches and from two     *)
(* calls at once, no more standalone workers run than the ceiling and as   *)
(* many more as were overlooked because a read about them failed.  It does *)
(* not cover a batch answered early or a request taken late either.        *)
AtWork(s) == \E i \in DOMAIN sessions[s].turns :
  sessions[s].turns[i].by = "start" /\ sessions[s].turns[i].state \in {"accepted", "running", "aborting"}
CeilingRespected ==
  early \/ tardy \/ Cardinality({s \in DOMAIN sessions : AtWork(s) /\ ~sessions[s].swarm}) <= MaxWorkers + missed

(* Two calls that continue one worker never have their turns run together. *)
Continued(s) == {i \in DOMAIN sessions[s].turns :
  sessions[s].turns[i].by = "continue" /\ sessions[s].turns[i].state \in {"accepted", "running", "aborting"}}
ContinueSerial == tardy \/ \A s \in DOMAIN sessions : Cardinality(Continued(s)) <= 1

(* Every call is answered, whatever the server does: no queue is left held *)
(* and no wait is without an end.                                          *)
EveryCallAnswered == \A c \in Calls : pc[Main(c)] # "idle" ~> pc[Main(c)] = "idle"
=============================================================================
