---------------------------- MODULE OpenCode_proofs ----------------------------
(***************************************************************************)
(* Proofs about the OpenCode integration (OpenCode): that a creation       *)
(* request has one owned session and one initial prompt, that no more      *)
(* workers run than the ceiling, and that the continuations of a session   *)
(* never run together, for any number of calls, requests and sessions and  *)
(* however often requests, the server and the application fail.            *)
(*                                                                         *)
(* And about the choice of a model and a variant (ModelChoice): that a     *)
(* loose reference is never resolved by a guess.                           *)
(***************************************************************************)
EXTENDS OpenCode, ModelChoice, FiniteSetTheorems, WellFoundedInduction, TLAPS
-----------------------------------------------------------------------------
(* What every state is made of. *)

Rests == {"idle", "ended"}
MemberSteps == {"list", "create", "relist", "own", "join", "find", "prompt", "verify"}
Turning == {"check", "prompt", "verify"}
MainSteps == {"count", "members", "status", "enter", "control", "abort", "settle", "waiting", "latest", "pending", "reply"}
             \union Turning
AskedKinds == Starts \union Queued \union {"wait", "answer", "status"}
KindNames == AskedKinds \union {None}
Ids == (Starts \X Reqs) \union {Nothing}
TurnIds == (Calls \X Nat) \union ({"initial"} \X (Starts \X Reqs)) \union {Nothing}
Whys == {None, "ok", "error", "mismatch", "incomplete", "empty", "running"}
TurnType == [id : TurnIds, by : KindNames, state : Unfinished \union {"ended"}]
SessionType == [req : Ids, member : BOOLEAN, swarm : BOOLEAN, paused : BOOLEAN, asks : BOOLEAN, turns : Seq(TurnType)]
LocType == [kind : KindNames, reqs : Batches \union {<<>>}, req : Ids, sid : Nat, turn : TurnIds, conn : Nat, client : Nat,
            owned : BOOLEAN, why : Whys]
Everyone == Procs \union {Pump}

LeftType == [kinds : SUBSET AskedKinds, calls : Nat, faults : Nat, asks : Nat]
CallsTyped ==
  /\ pc \in [Everyone -> Rests \union MemberSteps \union MainSteps \union {"off", "subscribe"}]
  /\ loc \in [Everyone -> LocType]
  /\ queue \in [Sids -> Seq(Procs)] /\ admission \in Seq(Procs)
HistoryTyped == early \in BOOLEAN /\ tardy \in BOOLEAN /\ buried \subseteq Ids /\ missed \in Nat
Types ==
  /\ sessions \in Seq(SessionType) /\ Len(sessions) <= MaxSessions
  /\ CallsTyped
  /\ client \in Nat /\ left \in LeftType
  /\ HistoryTyped

(* A session with a worker's turn is in the ownership group; turns begin   *)
(* in their order; and the first message of a creation is in its session.  *)
SessionOk(x) ==
  /\ \A i \in DOMAIN x.turns : x.turns[i].by = "start" => x.member = TRUE
  /\ \A i, j \in DOMAIN x.turns : i < j /\ x.turns[i].state = "accepted" => x.turns[j].state = "accepted"
  /\ \A i \in DOMAIN x.turns, id \in Starts \X Reqs : x.turns[i].id = InitialTurn(id) => x.req = id
LateOk(m) ==
  /\ m.what \in {"create", "prompt"}
  /\ m.what = "create" => m.req \in Ids
  /\ m.what = "prompt" =>
       /\ m.sid \in DOMAIN sessions /\ m.turn \in TurnType /\ m.turn.state = "accepted"
       /\ m.turn.by = "start" => sessions[m.sid].member = TRUE
       /\ \A id \in Starts \X Reqs : m.turn.id = InitialTurn(id) => sessions[m.sid].req = id
ServerOk == (\A s \in DOMAIN sessions : SessionOk(sessions[s])) /\ (\A m \in late : LateOk(m))

(* One member of a batch: the session it is at is that of its request, and *)
(* nothing is sent to it before its ownership is recorded.                 *)
MemberOk(p) ==
  /\ pc[p] \in Rests \union MemberSteps
  /\ pc[p] \in MemberSteps =>
       loc[p].kind \in Starts /\ loc[p].req \in {loc[p].kind} \X Reqs /\ loc[p].turn = InitialTurn(loc[p].req)
  /\ pc[p] \in {"own", "join", "find", "prompt", "verify"} =>
       loc[p].sid \in DOMAIN sessions /\ sessions[loc[p].sid].req = loc[p].req
  /\ pc[p] = "join" => loc[p].kind = "swarm_start" /\ (loc[p].owned = TRUE => sessions[loc[p].sid].member = TRUE)
  /\ pc[p] \in {"find", "prompt", "verify"} =>
       sessions[loc[p].sid].member = TRUE /\ (loc[p].kind = "swarm_start" => sessions[loc[p].sid].swarm = TRUE)
(* Any other process of a call: it sends a prompt only in its turn. *)
MainOk(p) ==
  /\ pc[p] \in {"idle"} \union MainSteps
  /\ pc[p] = "members" => loc[p].conn = 0
  /\ pc[p] \in {"count", "members"} => loc[p].kind \in Starts /\ loc[p].reqs \in Batches
  /\ pc[p] \notin {"idle", "count", "members"} => loc[p].sid \in DOMAIN sessions
  /\ (pc[p] = "enter" => loc[p].kind \in Queued) /\ (pc[p] = "control" => loc[p].kind \in {"pause", "resume", "abort"})
  /\ pc[p] \in {"enter"} \union Turning => loc[p].turn \in Calls \X Nat
  /\ pc[p] \in Turning => loc[p].kind \in {"continue", "send", "turn"}
  /\ pc[p] = "prompt" => Heads(queue[loc[p].sid], p)
  /\ pc[p] = "prompt" /\ loc[p].kind = "continue" /\ tardy = FALSE => Continued(loc[p].sid) = {}
Serial == tardy = FALSE => \A s \in DOMAIN sessions : \A i, j \in Continued(s) : i = j

(* Unless a batch was answered early or a request taken late, one batch is *)
(* at work at a time, for requests that have one session, unless a listing *)
(* missed one, and one message in a session.                               *)
AtWorkNow(p) == pc[p] \in MemberSteps
BatchOk(c) ==
  /\ pc[Main(c)] = "members" => Heads(admission, Main(c))
  /\ \A i \in Members : LET p == <<c, i>> IN
       /\ AtWorkNow(p) => /\ pc[Main(c)] = "members" /\ i \in DOMAIN loc[Main(c)].reqs
                          /\ loc[p].kind = loc[Main(c)].kind /\ loc[p].req = Creation(loc[p].kind, loc[Main(c)].reqs[i])
       /\ pc[p] = "create" => loc[p].req \in buried \/ Created(loc[p].req) = {}
       /\ pc[p] = "prompt" => ~Has(loc[p].sid, loc[p].turn)
Unique ==
  /\ \A s, t \in DOMAIN sessions : sessions[s].req = sessions[t].req /\ sessions[s].req \in (Starts \X Reqs) \ buried => s = t
  /\ \A s \in DOMAIN sessions : \A i, j \in DOMAIN sessions[s].turns :
       sessions[s].turns[i].id = sessions[s].turns[j].id /\ sessions[s].turns[i].id = InitialTurn(sessions[s].req) => i = j
(* The workers that run and those that the batch may still start. *)
Running == {s \in DOMAIN sessions : AtWork(s) /\ ~sessions[s].swarm}
StillToStart == {p \in Calls \X Members : loc[p].kind = "start" /\ pc[p] \in MemberSteps \ {"verify"}}
Room == IsFiniteSet(StillToStart) /\ Cardinality(Running) + Cardinality(StillToStart) <= MaxWorkers + missed
Regular == early = FALSE /\ tardy = FALSE => (\A c \in Calls : BatchOk(c)) /\ Unique /\ Room

CallsOk == (\A c \in Calls : MainOk(Main(c))) /\ (\A p \in Calls \X Members : MemberOk(p)) /\ pc[Pump] \in {"off", "subscribe"}
OpenCodeInv == Types /\ ServerOk /\ CallsOk /\ Serial /\ Regular

(* Two ways of a step with the sessions: it adds to them, or it only lets  *)
(* turns go on and end, and marks a session as a member.                   *)
AtWorkStates == {"accepted", "running", "aborting"}
Milder(x, y) ==
  /\ y \in SessionType /\ y.req = x.req
  /\ (x.member = TRUE => y.member = TRUE) /\ (x.swarm = TRUE => y.swarm = TRUE)
  /\ DOMAIN y.turns = DOMAIN x.turns
  /\ \A i \in DOMAIN x.turns :
       /\ y.turns[i].id = x.turns[i].id /\ y.turns[i].by = x.turns[i].by
       /\ y.turns[i].state \in AtWorkStates => x.turns[i].state \in AtWorkStates
  /\ \/ \A i \in DOMAIN x.turns : y.turns[i].state = "accepted" <=> x.turns[i].state = "accepted"
     \/ \A i \in DOMAIN x.turns : y.turns[i].state # "accepted"
SameSessions ==
  /\ sessions' \in Seq(SessionType) /\ Len(sessions') = Len(sessions) /\ DOMAIN sessions' = DOMAIN sessions
  /\ \A s \in DOMAIN sessions : Milder(sessions[s], sessions'[s])
(* A process that a step leaves where it is. *)
Kept(q) ==
  /\ pc'[q] = pc[q]
  /\ loc'[q].kind = loc[q].kind /\ loc'[q].reqs = loc[q].reqs /\ loc'[q].req = loc[q].req
  /\ loc'[q].sid = loc[q].sid /\ loc'[q].turn = loc[q].turn /\ loc'[q].owned = loc[q].owned
  /\ pc[q] = "members" => loc'[q].conn \in {0, loc[q].conn}
Grows ==
  /\ DOMAIN sessions \subseteq DOMAIN sessions'
  /\ \A s \in DOMAIN sessions :
       /\ sessions'[s].req = sessions[s].req
       /\ (sessions[s].member = TRUE => sessions'[s].member = TRUE) /\ (sessions[s].swarm = TRUE => sessions'[s].swarm = TRUE)
(* What a step of process p leaves of the others, and of their places. *)
Others(p) ==
  /\ \A q \in Procs \ {p} : Kept(q) \/ (q \in Calls \X Members /\ pc'[q] \in Rests)
  /\ pc'[Pump] \in {"off", "subscribe"}
Places(p) ==
  /\ \A q \in Procs \ {p} : Heads(admission, q) => Heads(admission', q)
  /\ \A q \in Procs \ {p}, s \in Sids : Heads(queue[s], q) => Heads(queue'[s], q)
Remembers ==
  (early' = FALSE => early = FALSE) /\ (tardy' = FALSE => tardy = FALSE) /\ buried \subseteq buried' /\ missed <= missed'
(* How the process that takes a step may go on: a call does not become     *)
(* that of a batch, nor leave one whose members are at work; and a member  *)
(* stays at its request.                                                   *)
Leads(c) ==
  \/ Kept(Main(c)) /\ (Heads(admission, Main(c)) => Heads(admission', Main(c)))
  \/ /\ pc'[Main(c)] # "members"
     /\ pc[Main(c)] # "members" \/ early' = TRUE \/ \A i \in Members : ~AtWorkNow(<<c, i>>)
Onward(p) ==
  pc'[p] \in MemberSteps =>
    /\ pc[p] \in MemberSteps /\ (pc[p] = "verify" => pc'[p] = "verify")
    /\ loc'[p].kind = loc[p].kind /\ loc'[p].req = loc[p].req
    /\ early = FALSE /\ tardy = FALSE /\ pc'[p] = "create" => loc[p].req \in buried' \/ Created(loc[p].req) = {}
    /\ early = FALSE /\ tardy = FALSE /\ pc'[p] = "prompt" =>
         ~Has(loc[p].sid, loc[p].turn) /\ loc'[p].sid = loc[p].sid /\ loc'[p].turn = loc[p].turn
           /\ loc[p].sid \in DOMAIN sessions
(* The prompt of process p is turn t of session s, the n-th. *)
Prompting(p, s, t, n) ==
  /\ pc[p] = "prompt" /\ s \in DOMAIN sessions /\ s = loc[p].sid /\ t \in TurnType /\ t = Turn(loc[p].turn, By(p))
  /\ sessions' = WithTurn(sessions, s, t) /\ n = Len(sessions[s].turns) + 1

-----------------------------------------------------------------------------
(* Sequences and numbers.                                                  *)

LEMMA LeastIn ==
  ASSUME NEW S \in SUBSET Nat, S # {}
  PROVE  Min(S) \in S /\ \A k \in S : Min(S) <= k
<1> DEFINE R == OpToRel(<, Nat)
<1>1. IsWellFoundedOn(R, Nat)
  BY NatLessThanWellFounded
<1>2. \A x, y \in Nat : <<x, y>> \in R <=> x < y
  BY DEF OpToRel
<1> HIDE DEF R
<1>3. PICK m \in S : \A k \in S : ~(<<k, m>> \in R)
  BY <1>1, WFMin
<1>4. \E x \in S : \A y \in S : x <= y
  <2>1. ASSUME NEW y \in S PROVE m <= y
    <3>1. m \in Nat /\ y \in Nat /\ ~(<<y, m>> \in R)
      BY <1>3
    <3>2. ~(y < m)
      BY <1>2, <3>1
    <3> QED
      BY <3>1, <3>2
  <2> QED
    BY <2>1
<1> QED
  BY <1>4 DEF Min

LEMMA SequenceOf ==
  ASSUME NEW S, NEW n \in Nat, NEW f \in [1..n -> S]
  PROVE  f \in Seq(S) /\ Len(f) = n /\ DOMAIN f = 1..n
OBVIOUS

LEMMA Indices ==
  ASSUME NEW S, NEW q \in Seq(S)
  PROVE  DOMAIN q = 1..Len(q) /\ Len(q) \in Nat /\ \A i \in DOMAIN q : q[i] \in S
OBVIOUS

LEMMA Appending ==
  ASSUME NEW S, NEW q \in Seq(S), NEW e \in S
  PROVE  /\ Append(q, e) \in Seq(S) /\ Len(Append(q, e)) = Len(q) + 1
         /\ DOMAIN Append(q, e) = DOMAIN q \union {Len(q) + 1} /\ Len(q) + 1 \notin DOMAIN q
         /\ Append(q, e)[Len(q) + 1] = e /\ \A i \in DOMAIN q : Append(q, e)[i] = q[i]
<1>1. DOMAIN q = 1..Len(q) /\ Len(q) \in Nat
  OBVIOUS
<1>2. Append(q, e) \in Seq(S) /\ Len(Append(q, e)) = Len(q) + 1 /\ DOMAIN Append(q, e) = 1..Len(q) + 1
  OBVIOUS
<1>3. 1..Len(q) + 1 = (1..Len(q)) \union {Len(q) + 1} /\ Len(q) + 1 \notin 1..Len(q)
  BY <1>1
<1> QED
  BY <1>1, <1>2, <1>3

(* A place at the head of a queue is lost only by leaving it. *)
LEMMA HeadStays ==
  ASSUME NEW S, NEW q \in Seq(S), NEW r, Heads(q, r), NEW p
  PROVE  /\ p # r => Heads(After(q, p), r)
         /\ p \in S => Heads(Append(q, p), r)
<1>1. q # <<>> /\ Head(q) = r /\ Head(q) = q[1] /\ Len(q) > 0
  BY DEF Heads
<1>2. p # r => After(q, p) = q
  BY <1>1 DEF After, Heads
<1>3. p \in S => Append(q, p) # <<>> /\ Head(Append(q, p)) = q[1]
  BY <1>1
<1> QED
  BY <1>1, <1>2, <1>3 DEF Heads

LEMMA Leaving ==
  ASSUME NEW S, NEW q \in Seq(S), NEW p
  PROVE  After(q, p) \in Seq(S)
<1>1. CASE Heads(q, p)
  <2>1. q # <<>>
    BY <1>1 DEF Heads
  <2>2. Tail(q) \in Seq(S)
    BY <2>1
  <2> QED
    BY <1>1, <2>2 DEF After
<1>2. CASE ~Heads(q, p)
  BY <1>2 DEF After
<1> QED
  BY <1>1, <1>2

(* Who the processes are. *)
LEMMA Who ==
  /\ Everyone = Procs \union {Pump} /\ Pump \notin Procs
  /\ Procs = {Main(c) : c \in Calls} \union (Calls \X Members)
  /\ \A c \in Calls : Main(c) \in Procs /\ Main(c) \notin Calls \X Members /\ Main(c)[1] = c /\ Main(c)[2] = 0
  /\ \A c \in Calls, i \in Members : <<c, i>> \in Procs /\ <<c, i>>[1] = c /\ <<c, i>>[2] = i
  /\ \A c, d \in Calls : Main(c) = Main(d) => c = d
  /\ \A p \in Procs : p[2] = 0 <=> p \notin Calls \X Members
<1>1. Calls \intersect {"initial", "pump"} = {}
  BY OpenCodeAssumption DEF OpenCodeAssumption
<1> QED
  BY <1>1 DEF Everyone, Procs, Members, Pump, Main

-----------------------------------------------------------------------------
(* What a step does to the sessions.                                       *)

LEMMA SessionFields ==
  ASSUME NEW x \in SessionType
  PROVE  /\ x.req \in Ids /\ x.member \in BOOLEAN /\ x.swarm \in BOOLEAN /\ x.paused \in BOOLEAN /\ x.asks \in BOOLEAN
         /\ x.turns \in Seq(TurnType) /\ DOMAIN x.turns = 1..Len(x.turns) /\ Len(x.turns) \in Nat
         /\ \A i \in DOMAIN x.turns :
              x.turns[i] \in TurnType /\ x.turns[i].id \in TurnIds /\ x.turns[i].by \in KindNames
              /\ x.turns[i].state \in Unfinished \union {"ended"}
<1>1. x.turns \in Seq(TurnType)
  BY DEF SessionType
<1>2. DOMAIN x.turns = 1..Len(x.turns) /\ Len(x.turns) \in Nat /\ \A i \in DOMAIN x.turns : x.turns[i] \in TurnType
  BY <1>1, Indices
<1>3. \A t \in TurnType : t.id \in TurnIds /\ t.by \in KindNames /\ t.state \in Unfinished \union {"ended"}
  BY DEF TurnType
<1>4. x.req \in Ids /\ x.member \in BOOLEAN /\ x.swarm \in BOOLEAN /\ x.paused \in BOOLEAN /\ x.asks \in BOOLEAN
  BY DEF SessionType
<1> QED
  BY <1>1, <1>2, <1>3, <1>4

LEMMA MildItself ==
  ASSUME NEW x \in SessionType
  PROVE  Milder(x, x)
BY DEF Milder

LEMMA SessionsAre ==
  ASSUME Types
  PROVE  /\ sessions \in Seq(SessionType) /\ DOMAIN sessions = 1..Len(sessions) /\ Len(sessions) \in Nat
         /\ \A s \in DOMAIN sessions : sessions[s] \in SessionType /\ s \in Nat /\ s \in Sids
<1>1. sessions \in Seq(SessionType) /\ Len(sessions) <= MaxSessions /\ MaxSessions \in Nat
  BY OpenCodeAssumption DEF Types, OpenCodeAssumption
<1>2. DOMAIN sessions = 1..Len(sessions) /\ Len(sessions) \in Nat /\ \A s \in DOMAIN sessions : sessions[s] \in SessionType
  BY <1>1, Indices
<1>3. \A s \in 1..Len(sessions) : s \in Nat /\ s \in 1..MaxSessions
  BY <1>1, <1>2
<1> QED
  BY <1>1, <1>2, <1>3 DEF Sids

LEMMA Unchanged ==
  ASSUME Types, UNCHANGED sessions
  PROVE  SameSessions
BY SessionsAre, MildItself DEF SameSessions

(* One session is replaced by a milder one. *)
LEMMA OneMilder ==
  ASSUME Types, NEW s \in DOMAIN sessions, NEW y, Milder(sessions[s], y), sessions' = [sessions EXCEPT ![s] = y]
  PROVE  SameSessions
<1>1. y \in SessionType
  BY DEF Milder
<1>2. sessions \in Seq(SessionType) /\ DOMAIN sessions = 1..Len(sessions) /\ Len(sessions) \in Nat
      /\ \A t \in DOMAIN sessions : sessions[t] \in SessionType
  BY SessionsAre
<1>3. sessions' \in [1..Len(sessions) -> SessionType]
  BY <1>1, <1>2
<1>4. sessions' \in Seq(SessionType) /\ Len(sessions') = Len(sessions) /\ DOMAIN sessions' = DOMAIN sessions
  BY <1>2, <1>3, SequenceOf
<1>5. \A t \in DOMAIN sessions : Milder(sessions[t], sessions'[t])
  BY <1>2, MildItself
<1> QED
  BY <1>4, <1>5 DEF SameSessions

(* A mark on a session. *)
LEMMA Marked ==
  ASSUME Types, NEW s \in DOMAIN sessions, NEW b \in BOOLEAN,
         \/ sessions' = sessions
         \/ sessions' = [sessions EXCEPT ![s].member = TRUE]
         \/ sessions' = [sessions EXCEPT ![s].swarm = TRUE]
         \/ sessions' = [sessions EXCEPT ![s].paused = b]
         \/ sessions' = [sessions EXCEPT ![s].asks = b]
  PROVE  SameSessions
<1>1. sessions[s] \in SessionType
  BY SessionsAre
<1>2. CASE sessions' = sessions
  BY <1>2, Unchanged
<1>3. CASE sessions' = [sessions EXCEPT ![s].member = TRUE]
  <2> DEFINE y == [sessions[s] EXCEPT !.member = TRUE]
  <2>1. Milder(sessions[s], y)
    <3>1. y \in SessionType /\ y.req = sessions[s].req /\ y.swarm = sessions[s].swarm /\ y.turns = sessions[s].turns /\ y.member = TRUE
      BY <1>1 DEF SessionType
    <3> HIDE DEF y
    <3> QED
      BY <3>1 DEF Milder
  <2>2. sessions' = [sessions EXCEPT ![s] = y]
    BY <1>3
  <2> QED
    BY <2>1, <2>2, OneMilder
<1>4. CASE sessions' = [sessions EXCEPT ![s].swarm = TRUE]
  <2> DEFINE y == [sessions[s] EXCEPT !.swarm = TRUE]
  <2>1. Milder(sessions[s], y)
    <3>1. y \in SessionType /\ y.req = sessions[s].req /\ y.member = sessions[s].member /\ y.turns = sessions[s].turns /\ y.swarm = TRUE
      BY <1>1 DEF SessionType
    <3> HIDE DEF y
    <3> QED
      BY <3>1 DEF Milder
  <2>2. sessions' = [sessions EXCEPT ![s] = y]
    BY <1>4
  <2> QED
    BY <2>1, <2>2, OneMilder
<1>5. CASE sessions' = [sessions EXCEPT ![s].paused = b]
  <2> DEFINE y == [sessions[s] EXCEPT !.paused = b]
  <2>1. Milder(sessions[s], y)
    <3>1. y \in SessionType /\ y.req = sessions[s].req /\ y.member = sessions[s].member /\ y.swarm = sessions[s].swarm
          /\ y.turns = sessions[s].turns
      BY <1>1 DEF SessionType
    <3> HIDE DEF y
    <3> QED
      BY <3>1 DEF Milder
  <2>2. sessions' = [sessions EXCEPT ![s] = y]
    BY <1>5
  <2> QED
    BY <2>1, <2>2, OneMilder
<1>6. CASE sessions' = [sessions EXCEPT ![s].asks = b]
  <2> DEFINE y == [sessions[s] EXCEPT !.asks = b]
  <2>1. Milder(sessions[s], y)
    <3>1. y \in SessionType /\ y.req = sessions[s].req /\ y.member = sessions[s].member /\ y.swarm = sessions[s].swarm
          /\ y.turns = sessions[s].turns
      BY <1>1 DEF SessionType
    <3> HIDE DEF y
    <3> QED
      BY <3>1 DEF Milder
  <2>2. sessions' = [sessions EXCEPT ![s] = y]
    BY <1>6
  <2> QED
    BY <2>1, <2>2, OneMilder
<1> QED
  BY <1>2, <1>3, <1>4, <1>5, <1>6

(* Turns that go on, or end: all of them that were in the same state. *)
LEMMA TurnsChanged ==
  ASSUME NEW x \in SessionType, NEW from, NEW to,
         \/ from = {"accepted"} /\ to = "running"
         \/ from = {"running", "aborting"} /\ to = "ended"
         \/ from = {"running"} /\ to = "aborting"
         \/ from = Unfinished /\ to = "lost",
         NEW y, y = [x EXCEPT !.turns = [i \in DOMAIN x.turns |-> IF x.turns[i].state \in from THEN [x.turns[i] EXCEPT !.state = to]
                                                                  ELSE x.turns[i]]]
  PROVE  Milder(x, y)
<1> DEFINE turns == [i \in DOMAIN x.turns |-> IF x.turns[i].state \in from THEN [x.turns[i] EXCEPT !.state = to] ELSE x.turns[i]]
<1>1. /\ x.turns \in Seq(TurnType) /\ DOMAIN x.turns = 1..Len(x.turns) /\ Len(x.turns) \in Nat
      /\ \A i \in DOMAIN x.turns : x.turns[i] \in TurnType
  BY SessionFields
<1>2. to \in Unfinished \union {"ended"}
  BY DEF Unfinished
<1>3. \A t \in TurnType : /\ [t EXCEPT !.state = to] \in TurnType /\ [t EXCEPT !.state = to].state = to
                          /\ [t EXCEPT !.state = to].id = t.id /\ [t EXCEPT !.state = to].by = t.by
  BY <1>2 DEF TurnType
<1>4. \A i \in DOMAIN x.turns : /\ turns[i] \in TurnType /\ turns[i].id = x.turns[i].id /\ turns[i].by = x.turns[i].by
                                /\ turns[i].state = IF x.turns[i].state \in from THEN to ELSE x.turns[i].state
  BY <1>1, <1>3
<1>5. turns \in Seq(TurnType) /\ DOMAIN turns = DOMAIN x.turns
  <2>1. turns \in [1..Len(x.turns) -> TurnType]
    BY <1>1, <1>4
  <2> QED
    BY <1>1, <2>1, SequenceOf
<1>6. y = [x EXCEPT !.turns = turns]
  OBVIOUS
<1> HIDE DEF turns
<1>7. y \in SessionType /\ y.req = x.req /\ y.member = x.member /\ y.swarm = x.swarm /\ y.turns = turns
  BY <1>5, <1>6 DEF SessionType
<1>8. \A i \in DOMAIN x.turns : turns[i].state \in AtWorkStates => x.turns[i].state \in AtWorkStates
  BY <1>4 DEF AtWorkStates, Unfinished
<1>9. \/ \A i \in DOMAIN x.turns : turns[i].state = "accepted" <=> x.turns[i].state = "accepted"
      \/ \A i \in DOMAIN x.turns : turns[i].state # "accepted"
  BY <1>4 DEF Unfinished
<1> QED
  BY <1>4, <1>5, <1>7, <1>8, <1>9 DEF Milder

-----------------------------------------------------------------------------
(* What a step keeps, part by part.                                        *)

LEMMA SameGrow ==
  ASSUME SameSessions
  PROVE  Grows
BY DEF SameSessions, Grows, Milder

LEMMA MemberKept ==
  ASSUME Types, Grows, NEW q \in Calls \X Members, MemberOk(q), Kept(q) \/ pc'[q] \in Rests
  PROVE  MemberOk(q)'
<1>1. CASE pc'[q] \in Rests
  BY <1>1 DEF MemberOk, Rests, MemberSteps
<1>2. CASE Kept(q)
  <2>1. /\ pc'[q] = pc[q] /\ loc'[q].kind = loc[q].kind /\ loc'[q].req = loc[q].req
        /\ loc'[q].sid = loc[q].sid /\ loc'[q].turn = loc[q].turn /\ loc'[q].owned = loc[q].owned
    BY <1>2 DEF Kept
  <2>2. pc'[q] \in Rests \union MemberSteps
    BY <2>1 DEF MemberOk
  <2>3. pc'[q] \in MemberSteps =>
          loc'[q].kind \in Starts /\ loc'[q].req \in {loc'[q].kind} \X Reqs /\ loc'[q].turn = InitialTurn(loc'[q].req)
    BY <2>1 DEF MemberOk
  <2>4. pc'[q] \in {"own", "join", "find", "prompt", "verify"} =>
          loc'[q].sid \in DOMAIN sessions' /\ sessions'[loc'[q].sid].req = loc'[q].req
    BY <2>1 DEF MemberOk, Grows
  <2>5. pc'[q] = "join" => loc'[q].kind = "swarm_start" /\ (loc'[q].owned = TRUE => sessions'[loc'[q].sid].member = TRUE)
    BY <2>1 DEF MemberOk, Grows
  <2>6. pc'[q] \in {"find", "prompt", "verify"} =>
          sessions'[loc'[q].sid].member = TRUE /\ (loc'[q].kind = "swarm_start" => sessions'[loc'[q].sid].swarm = TRUE)
    BY <2>1 DEF MemberOk, Grows
  <2> QED
    BY <2>2, <2>3, <2>4, <2>5, <2>6 DEF MemberOk
<1> QED
  BY <1>1, <1>2

LEMMA MainKept ==
  ASSUME Types, Grows, NEW q \in Procs, MainOk(q), Kept(q),
         \A s \in Sids : Heads(queue[s], q) => Heads(queue'[s], q),
         tardy' = FALSE => tardy = FALSE,
         \A s \in DOMAIN sessions : pc[q] = "prompt" /\ loc[q].kind = "continue" /\ tardy' = FALSE /\ loc[q].sid = s
                                   => Continued(s)' \subseteq Continued(s)
  PROVE  MainOk(q)'
<1>1. /\ pc'[q] = pc[q] /\ loc'[q].kind = loc[q].kind /\ loc'[q].reqs = loc[q].reqs
      /\ loc'[q].sid = loc[q].sid /\ loc'[q].turn = loc[q].turn
      /\ pc[q] = "members" => loc'[q].conn \in {0, loc[q].conn}
  BY DEF Kept
<1>2. pc'[q] \in {"idle"} \union MainSteps
  BY <1>1 DEF MainOk
<1>3. /\ pc'[q] = "members" => loc'[q].conn = 0
      /\ pc'[q] \in {"count", "members"} => loc'[q].kind \in Starts /\ loc'[q].reqs \in Batches
  BY <1>1 DEF MainOk
<1>4. pc'[q] \notin {"idle", "count", "members"} => loc'[q].sid \in DOMAIN sessions'
  BY <1>1 DEF MainOk, Grows
<1>5. /\ pc'[q] = "enter" => loc'[q].kind \in Queued
      /\ pc'[q] = "control" => loc'[q].kind \in {"pause", "resume", "abort"}
      /\ pc'[q] \in {"enter"} \union Turning => loc'[q].turn \in Calls \X Nat
      /\ pc'[q] \in Turning => loc'[q].kind \in {"continue", "send", "turn"}
  BY <1>1 DEF MainOk
<1>6. pc'[q] = "prompt" => Heads(queue'[loc'[q].sid], q)
  <2> SUFFICES ASSUME pc[q] = "prompt" PROVE Heads(queue'[loc[q].sid], q)
    BY <1>1
  <2>1. loc[q].sid \in DOMAIN sessions /\ Heads(queue[loc[q].sid], q)
    BY DEF MainOk
  <2>2. loc[q].sid \in Sids
    BY <2>1, SessionsAre
  <2> QED
    BY <2>1, <2>2
<1>7. \A s \in DOMAIN sessions : pc[q] = "prompt" /\ loc[q].kind = "continue" /\ tardy' = FALSE /\ loc[q].sid = s => Continued(s)' = {}
  <2> SUFFICES ASSUME pc[q] = "prompt", loc[q].kind = "continue", tardy' = FALSE, NEW s \in DOMAIN sessions, loc[q].sid = s
               PROVE  Continued(s)' = {}
    OBVIOUS
  <2>1. Continued(s) = {}
    BY DEF MainOk
  <2>2. Continued(s)' \subseteq Continued(s)
    OBVIOUS
  <2> QED
    BY <2>1, <2>2
<1>8. (pc[q] = "prompt" /\ loc[q].kind = "continue" /\ tardy = FALSE => Continued(loc[q].sid) = {})'
  <2> SUFFICES ASSUME pc[q] = "prompt", loc[q].kind = "continue", tardy' = FALSE PROVE Continued(loc[q].sid)' = {}
    BY <1>1
  <2>1. loc[q].sid \in DOMAIN sessions
    BY DEF MainOk, MainSteps
  <2>2. PICK s \in DOMAIN sessions : s = loc[q].sid
    BY <2>1
  <2>3. Continued(s)' = {}
    BY <1>7, <2>2
  <2>4. loc'[q].sid = s
    BY <1>1, <2>2
  <2> QED
    BY <2>3, <2>4 DEF Continued
<1> QED
  BY <1>2, <1>3, <1>4, <1>5, <1>6, <1>8 DEF MainOk

LEMMA CallsKept ==
  ASSUME Types, CallsOk, Grows, NEW p \in Everyone, Others(p), Places(p), Remembers,
         \A c \in Calls : p = Main(c) => MainOk(p)',
         p \in Calls \X Members => MemberOk(p)',
         \A q \in Procs \ {p}, s \in DOMAIN sessions :
           pc[q] = "prompt" /\ loc[q].kind = "continue" /\ tardy' = FALSE /\ loc[q].sid = s => Continued(s)' \subseteq Continued(s)
  PROVE  CallsOk'
<1>1. ASSUME NEW c \in Calls PROVE MainOk(Main(c))'
  <2>1. Main(c) \in Procs /\ Main(c) \notin Calls \X Members
    BY Who
  <2>2. CASE Main(c) = p
    BY <2>2
  <2>3. CASE Main(c) # p
    <3>1. Kept(Main(c))
      BY <2>1, <2>3 DEF Others
    <3>2. MainOk(Main(c))
      BY DEF CallsOk
    <3>3. \A s \in Sids : Heads(queue[s], Main(c)) => Heads(queue'[s], Main(c))
      BY <2>1, <2>3 DEF Places
    <3>4. tardy' = FALSE => tardy = FALSE
      BY DEF Remembers
    <3>5. \A s \in DOMAIN sessions : pc[Main(c)] = "prompt" /\ loc[Main(c)].kind = "continue" /\ tardy' = FALSE /\ loc[Main(c)].sid = s
                                     => Continued(s)' \subseteq Continued(s)
      BY <2>1, <2>3
    <3> QED
      BY <2>1, <3>1, <3>2, <3>3, <3>4, <3>5, MainKept
  <2> QED
    BY <2>2, <2>3
<1>2. ASSUME NEW q \in Calls \X Members PROVE MemberOk(q)'
  <2>1. q \in Procs
    BY Who
  <2>2. CASE q = p
    BY <2>2
  <2>3. CASE q # p
    <3>1. Kept(q) \/ pc'[q] \in Rests
      BY <2>1, <2>3 DEF Others
    <3>2. MemberOk(q)
      BY DEF CallsOk
    <3> QED
      BY <3>1, <3>2, MemberKept
  <2> QED
    BY <2>2, <2>3
<1>3. pc'[Pump] \in {"off", "subscribe"}
  BY DEF Others
<1> QED
  BY <1>1, <1>2, <1>3 DEF CallsOk

LEMMA MilderOk ==
  ASSUME NEW x \in SessionType, NEW y, Milder(x, y), SessionOk(x)
  PROVE  SessionOk(y)
<1>1. \A i \in DOMAIN y.turns : y.turns[i].by = "start" => y.member = TRUE
  BY DEF Milder, SessionOk
<1>2. \A i, j \in DOMAIN y.turns : i < j /\ y.turns[i].state = "accepted" => y.turns[j].state = "accepted"
  BY DEF Milder, SessionOk
<1>3. \A i \in DOMAIN y.turns, id \in Starts \X Reqs : y.turns[i].id = InitialTurn(id) => y.req = id
  BY DEF Milder, SessionOk
<1> QED
  BY <1>1, <1>2, <1>3 DEF SessionOk

LEMMA LateKept ==
  ASSUME Grows, NEW m, LateOk(m)
  PROVE  LateOk(m)'
BY DEF LateOk, Grows

LEMMA ServerKept ==
  ASSUME Types, ServerOk, SameSessions, \A m \in late' \ late : LateOk(m)'
  PROVE  ServerOk'
<1>1. ASSUME NEW s \in DOMAIN sessions' PROVE SessionOk(sessions[s])'
  <2>1. s \in DOMAIN sessions /\ Milder(sessions[s], sessions'[s])
    BY DEF SameSessions
  <2>2. sessions[s] \in SessionType /\ SessionOk(sessions[s])
    BY <2>1, SessionsAre DEF ServerOk
  <2>3. SessionOk(sessions'[s])
    BY <2>1, <2>2, MilderOk
  <2> QED
    BY <2>3 DEF SessionOk
<1>2. ASSUME NEW m \in late' PROVE LateOk(m)'
  <2>1. Grows
    BY SameGrow
  <2>2. CASE m \in late
    BY <2>1, <2>2, LateKept DEF ServerOk
  <2> QED
    BY <2>2
<1> QED
  BY <1>1, <1>2 DEF ServerOk

(* The turns of calls that continue a session, and the workers that run. *)
LEMMA NothingStarts ==
  ASSUME Types, SameSessions
  PROVE  /\ \A s \in DOMAIN sessions : Continued(s)' \subseteq Continued(s)
         /\ Running' \subseteq Running
         /\ \A id : Created(id)' = Created(id)
         /\ \A id : \A s \in DOMAIN sessions : Has(s, id)' <=> Has(s, id)
<1>1. /\ DOMAIN sessions' = DOMAIN sessions
      /\ \A s \in DOMAIN sessions : Milder(sessions[s], sessions'[s])
  BY DEF SameSessions
<1>2. ASSUME NEW s \in DOMAIN sessions PROVE Continued(s)' \subseteq Continued(s)
  BY <1>1 DEF Continued, Milder, AtWorkStates
<1>3. ASSUME NEW s \in Running' PROVE s \in Running
  <2>1. s \in DOMAIN sessions /\ Milder(sessions[s], sessions'[s]) /\ AtWork(s)' /\ ~sessions'[s].swarm
    BY <1>1 DEF Running
  <2>2. AtWork(s)
    BY <2>1 DEF AtWork, Milder, AtWorkStates
  <2>3. ~sessions[s].swarm
    BY <2>1, SessionsAre, SessionFields DEF Milder
  <2> QED
    BY <2>1, <2>2, <2>3 DEF Running
<1>4. ASSUME NEW id PROVE Created(id)' = Created(id)
  BY <1>1 DEF Created, Milder
<1>5. ASSUME NEW id, NEW s \in DOMAIN sessions PROVE Has(s, id)' <=> Has(s, id)
  BY <1>1 DEF Has, Milder
<1> QED
  BY <1>2, <1>3, <1>4, <1>5

LEMMA SerialKept ==
  ASSUME Types, Serial, SameSessions, Remembers
  PROVE  Serial'
<1> SUFFICES ASSUME tardy' = FALSE, NEW s \in DOMAIN sessions', NEW i \in Continued(s)', NEW j \in Continued(s)'
             PROVE  i = j
  BY DEF Serial
<1>1. tardy = FALSE /\ s \in DOMAIN sessions
  BY DEF Remembers, SameSessions
<1>2. i \in Continued(s) /\ j \in Continued(s)
  BY <1>1, NothingStarts
<1> QED
  BY <1>1, <1>2 DEF Serial

LEMMA UniqueKept ==
  ASSUME Types, Unique, SameSessions, Remembers
  PROVE  Unique'
<1>1. /\ DOMAIN sessions' = DOMAIN sessions
      /\ \A s \in DOMAIN sessions : Milder(sessions[s], sessions'[s])
  BY DEF SameSessions
<1>2. ASSUME NEW s \in DOMAIN sessions', NEW t \in DOMAIN sessions', sessions'[s].req = sessions'[t].req,
             sessions'[s].req \in (Starts \X Reqs) \ buried'
      PROVE  s = t
  BY <1>1, <1>2 DEF Unique, Milder, Remembers
<1>3. ASSUME NEW s \in DOMAIN sessions', NEW i \in DOMAIN sessions'[s].turns, NEW j \in DOMAIN sessions'[s].turns,
             sessions'[s].turns[i].id = sessions'[s].turns[j].id, sessions'[s].turns[i].id = InitialTurn(sessions'[s].req)
      PROVE  i = j
  <2>1. s \in DOMAIN sessions /\ Milder(sessions[s], sessions'[s])
    BY <1>1
  <2>2. /\ DOMAIN sessions'[s].turns = DOMAIN sessions[s].turns /\ sessions'[s].req = sessions[s].req
        /\ \A k \in DOMAIN sessions[s].turns : sessions'[s].turns[k].id = sessions[s].turns[k].id
    BY <2>1 DEF Milder
  <2>3. /\ i \in DOMAIN sessions[s].turns /\ j \in DOMAIN sessions[s].turns
        /\ sessions[s].turns[i].id = sessions[s].turns[j].id /\ sessions[s].turns[i].id = InitialTurn(sessions[s].req)
    BY <1>3, <2>2
  <2> QED
    BY <2>1, <2>3 DEF Unique
<1> QED
  BY <1>2, <1>3 DEF Unique

LEMMA RunningIsFinite ==
  ASSUME Types
  PROVE  IsFiniteSet(Running) /\ IsFiniteSet(Active) /\ IsFiniteSet(DOMAIN sessions)
<1>1. DOMAIN sessions = 1..Len(sessions) /\ Len(sessions) \in Nat
  BY SessionsAre
<1>2. IsFiniteSet(DOMAIN sessions)
  BY <1>1, FS_Interval
<1>3. Running \subseteq DOMAIN sessions /\ Active \subseteq DOMAIN sessions
  BY DEF Running, Active
<1> QED
  BY <1>2, <1>3, FS_Subset

LEMMA RoomKept ==
  ASSUME Types, Types', Remembers, Room, Running' \subseteq Running, StillToStart' \subseteq StillToStart
  PROVE  Room'
<1>1. IsFiniteSet(Running) /\ IsFiniteSet(StillToStart)
  BY RunningIsFinite DEF Room
<1>2. IsFiniteSet(Running') /\ Cardinality(Running') <= Cardinality(Running)
  BY <1>1, FS_Subset
<1>3. IsFiniteSet(StillToStart') /\ Cardinality(StillToStart') <= Cardinality(StillToStart)
  BY <1>1, FS_Subset
<1>4. Cardinality(Running) \in Nat /\ Cardinality(StillToStart) \in Nat /\ Cardinality(Running') \in Nat
      /\ Cardinality(StillToStart') \in Nat
  BY <1>1, <1>2, <1>3, FS_CardinalityType
<1>5. /\ Cardinality(Running) + Cardinality(StillToStart) <= MaxWorkers + missed /\ MaxWorkers \in Nat
      /\ missed \in Nat /\ missed' \in Nat /\ missed <= missed'
  BY OpenCodeAssumption DEF Room, OpenCodeAssumption, Types, HistoryTyped, Remembers
<1>6. Cardinality(Running') + Cardinality(StillToStart') <= MaxWorkers + missed'
  BY <1>2, <1>3, <1>4, <1>5
<1> QED
  BY <1>3, <1>6 DEF Room

LEMMA StillKept ==
  ASSUME NEW p \in Everyone, Others(p), p \in Calls \X Members => Onward(p)
  PROVE  StillToStart' \subseteq StillToStart
<1> SUFFICES ASSUME NEW q \in StillToStart' PROVE q \in StillToStart
  OBVIOUS
<1>1. q \in Calls \X Members /\ loc'[q].kind = "start" /\ pc'[q] \in MemberSteps \ {"verify"}
  BY DEF StillToStart
<1>2. loc[q].kind = "start" /\ pc[q] \in MemberSteps \ {"verify"}
  <2>1. CASE q = p
    <3>1. Onward(q)
      BY <1>1, <2>1
    <3> QED
      BY <1>1, <3>1 DEF Onward
  <2>2. CASE q # p
    <3>1. q \in Procs
      BY <1>1, Who
    <3>2. Kept(q)
      BY <1>1, <2>2, <3>1 DEF Others, Rests, MemberSteps
    <3> QED
      BY <1>1, <3>2 DEF Kept
  <2> QED
    BY <2>1, <2>2
<1> QED
  BY <1>1, <1>2 DEF StillToStart

LEMMA BatchKept ==
  ASSUME Types, CallsOk, NEW p \in Everyone, Others(p), Places(p), Remembers,
         \A c \in Calls : p = Main(c) => Leads(c), p \in Calls \X Members => Onward(p),
         \A id : \A q \in Calls \X Members :
           AtWorkNow(q) /\ pc'[q] = "create" /\ loc[q].req = id /\ Created(id) = {} => Created(id)' = {},
         \A id : \A q \in Calls \X Members, s \in DOMAIN sessions :
           AtWorkNow(q) /\ pc'[q] = "prompt" /\ loc[q].sid = s /\ loc[q].turn = id /\ ~Has(s, id) => ~Has(s, id)',
         early = FALSE, tardy = FALSE, early' = FALSE,
         NEW c \in Calls, BatchOk(c)
  PROVE  BatchOk(c)'
<1>1. Main(c) \in Procs /\ Main(c) \notin Calls \X Members /\ \A i \in Members : <<c, i>> \in Calls \X Members /\ <<c, i>> \in Procs
  BY Who
<1>2. pc'[Main(c)] = "members" => Kept(Main(c)) /\ Heads(admission', Main(c))
  <2> SUFFICES ASSUME pc'[Main(c)] = "members" PROVE Kept(Main(c)) /\ Heads(admission', Main(c))
    OBVIOUS
  <2>1. CASE Main(c) = p
    <3>1. Kept(Main(c)) /\ (Heads(admission, Main(c)) => Heads(admission', Main(c)))
      BY <2>1 DEF Leads
    <3> QED
      BY <3>1 DEF Kept, BatchOk
  <2>2. CASE Main(c) # p
    <3>1. Kept(Main(c))
      BY <1>1, <2>2 DEF Others
    <3>2. Heads(admission, Main(c)) => Heads(admission', Main(c))
      BY <1>1, <2>2 DEF Places
    <3> QED
      BY <3>1, <3>2 DEF Kept, BatchOk
  <2> QED
    BY <2>1, <2>2
<1>3. ASSUME NEW i \in Members, pc'[<<c, i>>] \in MemberSteps
      PROVE  /\ AtWorkNow(<<c, i>>) /\ loc'[<<c, i>>].kind = loc[<<c, i>>].kind /\ loc'[<<c, i>>].req = loc[<<c, i>>].req
             /\ pc'[<<c, i>>] = "create" => loc[<<c, i>>].req \in buried' \/ Created(loc[<<c, i>>].req) = {}
             /\ pc'[<<c, i>>] = "prompt" =>
                  /\ ~Has(loc[<<c, i>>].sid, loc[<<c, i>>].turn)
                  /\ loc'[<<c, i>>].sid = loc[<<c, i>>].sid /\ loc'[<<c, i>>].turn = loc[<<c, i>>].turn
                  /\ loc[<<c, i>>].sid \in DOMAIN sessions
  <2> DEFINE q == <<c, i>>
  <2>1. q \in Calls \X Members /\ q \in Procs
    BY <1>1
  <2>2. MemberOk(q)
    BY <2>1 DEF CallsOk
  <2> SUFFICES /\ AtWorkNow(q) /\ loc'[q].kind = loc[q].kind /\ loc'[q].req = loc[q].req
               /\ pc'[q] = "create" => loc[q].req \in buried' \/ Created(loc[q].req) = {}
               /\ pc'[q] = "prompt" => /\ ~Has(loc[q].sid, loc[q].turn)
                                       /\ loc'[q].sid = loc[q].sid /\ loc'[q].turn = loc[q].turn /\ loc[q].sid \in DOMAIN sessions
    OBVIOUS
  <2>3. CASE q = p
    <3>1. Onward(q) /\ pc'[q] \in MemberSteps
      BY <1>3, <2>1, <2>3
    <3> QED
      BY <3>1 DEF Onward, AtWorkNow
  <2>4. CASE q # p
    <3>1. Kept(q) /\ pc'[q] \in MemberSteps
      BY <1>3, <2>1, <2>4 DEF Others, Rests, MemberSteps
    <3>2. pc[q] = "create" => loc[q].req \in buried' \/ Created(loc[q].req) = {}
      BY DEF BatchOk, Remembers
    <3>3. pc[q] = "prompt" => ~Has(loc[q].sid, loc[q].turn) /\ loc[q].sid \in DOMAIN sessions
      BY <2>2 DEF BatchOk, MemberOk
    <3> HIDE DEF q
    <3> QED
      BY <3>1, <3>2, <3>3 DEF Kept, AtWorkNow
  <2> QED
    BY <2>3, <2>4
<1>4. ASSUME NEW i \in Members, pc'[<<c, i>>] \in MemberSteps
      PROVE  /\ pc'[Main(c)] = "members" /\ i \in DOMAIN loc'[Main(c)].reqs
             /\ loc'[<<c, i>>].kind = loc'[Main(c)].kind
             /\ loc'[<<c, i>>].req = Creation(loc'[<<c, i>>].kind, loc'[Main(c)].reqs[i])
  <2>1. AtWorkNow(<<c, i>>) /\ loc'[<<c, i>>].kind = loc[<<c, i>>].kind /\ loc'[<<c, i>>].req = loc[<<c, i>>].req
    BY <1>3, <1>4
  <2>2. /\ pc[Main(c)] = "members" /\ i \in DOMAIN loc[Main(c)].reqs
        /\ loc[<<c, i>>].kind = loc[Main(c)].kind /\ loc[<<c, i>>].req = Creation(loc[<<c, i>>].kind, loc[Main(c)].reqs[i])
    BY <2>1 DEF BatchOk
  <2>3. Kept(Main(c))
    <3>1. CASE Main(c) = p
      <4>1. Leads(c)
        BY <3>1
      <4>2. early' # TRUE /\ ~(\A k \in Members : ~AtWorkNow(<<c, k>>))
        BY <2>1
      <4> QED
        BY <2>2, <4>1, <4>2 DEF Leads
    <3>2. CASE Main(c) # p
      BY <1>1, <3>2, <2>2 DEF Others
    <3> QED
      BY <3>1, <3>2
  <2> QED
    BY <2>1, <2>2, <2>3 DEF Kept
<1>5. ASSUME NEW i \in Members, pc'[<<c, i>>] = "create"
      PROVE  loc'[<<c, i>>].req \in buried' \/ (Created(loc[<<c, i>>].req) = {})'
  <2>1. /\ loc[<<c, i>>].req \in buried' \/ Created(loc[<<c, i>>].req) = {}
        /\ loc'[<<c, i>>].req = loc[<<c, i>>].req /\ AtWorkNow(<<c, i>>)
    BY <1>3, <1>5 DEF MemberSteps
  <2> SUFFICES ASSUME Created(loc[<<c, i>>].req) = {} PROVE (Created(loc[<<c, i>>].req) = {})'
    BY <2>1
  <2>2. PICK id : id = loc[<<c, i>>].req
    OBVIOUS
  <2>3. Created(id)' = {}
    BY <1>1, <1>5, <2>1, <2>2
  <2>4. loc'[<<c, i>>].req = id
    BY <2>1, <2>2
  <2> QED
    BY <2>3, <2>4 DEF Created
<1>6. ASSUME NEW i \in Members, pc'[<<c, i>>] = "prompt"
      PROVE  (~Has(loc[<<c, i>>].sid, loc[<<c, i>>].turn))'
  <2>1. /\ ~Has(loc[<<c, i>>].sid, loc[<<c, i>>].turn)
        /\ loc'[<<c, i>>].sid = loc[<<c, i>>].sid /\ loc'[<<c, i>>].turn = loc[<<c, i>>].turn
        /\ loc[<<c, i>>].sid \in DOMAIN sessions /\ AtWorkNow(<<c, i>>)
    BY <1>3, <1>6 DEF MemberSteps
  <2>2. PICK s \in DOMAIN sessions : s = loc[<<c, i>>].sid
    BY <2>1
  <2>3. PICK id : id = loc[<<c, i>>].turn
    OBVIOUS
  <2>4. ~Has(s, id)'
    BY <1>1, <1>6, <2>1, <2>2, <2>3
  <2>5. loc'[<<c, i>>].sid = s /\ loc'[<<c, i>>].turn = id
    BY <2>1, <2>2, <2>3
  <2> QED
    BY <2>4, <2>5 DEF Has
<1> QED
  BY <1>2, <1>4, <1>5, <1>6 DEF BatchOk, AtWorkNow

(* The common case: process p takes a step and the sessions stay, or only  *)
(* go on.                                                                  *)
LEMMA Moves ==
  ASSUME OpenCodeInv, Types', SameSessions, Remembers, NEW p \in Everyone, Others(p), Places(p),
         \A m \in late' \ late : LateOk(m)',
         \A c \in Calls : p = Main(c) => MainOk(p)' /\ Leads(c),
         p \in Calls \X Members => MemberOk(p)' /\ Onward(p)
  PROVE  OpenCodeInv'
<1>1. Types /\ ServerOk /\ CallsOk /\ Serial /\ Regular
  BY DEF OpenCodeInv
<1>2. ServerOk'
  BY <1>1, ServerKept
<1>3. CallsOk'
  <2>1. Grows
    BY SameGrow
  <2>2. \A s \in DOMAIN sessions : Continued(s)' \subseteq Continued(s)
    BY <1>1, NothingStarts
  <2> QED
    BY <1>1, <2>1, <2>2, CallsKept
<1>4. Serial'
  BY <1>1, SerialKept
<1>5. Regular'
  <2> SUFFICES ASSUME early' = FALSE, tardy' = FALSE PROVE (\A c \in Calls : BatchOk(c)') /\ Unique' /\ Room'
    BY DEF Regular
  <2>1. early = FALSE /\ tardy = FALSE
    BY DEF Remembers
  <2>2. (\A c \in Calls : BatchOk(c)) /\ Unique /\ Room
    BY <1>1, <2>1 DEF Regular
  <2>3. \A c \in Calls : BatchOk(c)'
    <3>1. /\ \A id : Created(id)' = Created(id)
          /\ \A id : \A s \in DOMAIN sessions : Has(s, id)' <=> Has(s, id)
      BY <1>1, NothingStarts
    <3> QED
      BY <1>1, <2>1, <2>2, <3>1, BatchKept
  <2>4. Unique'
    BY <1>1, <2>2, UniqueKept
  <2>5. StillToStart' \subseteq StillToStart
    BY StillKept
  <2>6. Running' \subseteq Running
    BY <1>1, NothingStarts
  <2>7. Room'
    BY <1>1, <2>2, <2>5, <2>6, RoomKept
  <2> QED
    BY <2>3, <2>4, <2>7
<1> QED
  BY <1>2, <1>3, <1>4, <1>5 DEF OpenCodeInv

-----------------------------------------------------------------------------
(* The end of a call.                                                      *)

LEMMA LocFields ==
  ASSUME NEW l \in LocType
  PROVE  /\ l.kind \in KindNames /\ l.reqs \in Batches \union {<<>>} /\ l.req \in Ids /\ l.sid \in Nat /\ l.turn \in TurnIds
         /\ l.conn \in Nat /\ l.client \in Nat /\ l.owned \in BOOLEAN /\ l.why \in Whys
BY DEF LocType

LEMMA NoLocalsTyped ==
  /\ NoLocals \in LocType
  /\ \A why \in Whys : [NoLocals EXCEPT !.why = why] \in LocType
BY DEF NoLocals, LocType, KindNames, Ids, TurnIds, Whys, None

LEMMA TypesAre ==
  ASSUME Types
  PROVE  /\ pc \in [Everyone -> Rests \union MemberSteps \union MainSteps \union {"off", "subscribe"}]
         /\ loc \in [Everyone -> LocType] /\ DOMAIN pc = Everyone /\ DOMAIN loc = Everyone
         /\ queue \in [Sids -> Seq(Procs)] /\ admission \in Seq(Procs)
         /\ \A q \in Everyone : loc[q] \in LocType
         /\ client \in Nat /\ left \in LeftType /\ HistoryTyped
BY DEF Types, CallsTyped

LEMMA HistoryKept ==
  ASSUME Types, UNCHANGED history
  PROVE  HistoryTyped' /\ Remembers
BY DEF Types, HistoryTyped, Remembers, history

LEMMA Bounds ==
  ASSUME Types, Reliable \/ (Fault /\ Faulty)
  PROVE  left' \in LeftType
<1>1. left \in LeftType
  BY DEF Types
<1>2. CASE Reliable
  BY <1>1, <1>2 DEF Reliable
<1>3. CASE Fault /\ Faulty
  <2> DEFINE n == left.faults - 1
  <2>1. n \in Nat
    BY <1>1, <1>3 DEF Fault, LeftType
  <2>2. left' = [left EXCEPT !.faults = n]
    BY <1>3 DEF Faulty
  <2> HIDE DEF n
  <2> QED
    BY <1>1, <2>1, <2>2 DEF LeftType
<1> QED
  BY <1>2, <1>3

LEMMA QueuesLeft ==
  ASSUME Types, NEW p \in Procs, Leave(p) \/ InQueues
  PROVE  queue' \in [Sids -> Seq(Procs)] /\ admission' \in Seq(Procs) /\ Places(p)
<1>1. queue \in [Sids -> Seq(Procs)] /\ admission \in Seq(Procs)
  BY TypesAre
<1>2. CASE InQueues
  BY <1>1, <1>2 DEF InQueues, Places
<1>3. CASE Leave(p)
  <2>1. admission' = After(admission, p) /\ queue' = [s \in Sids |-> After(queue[s], p)]
    BY <1>3 DEF Leave
  <2>2. admission' \in Seq(Procs)
    BY <1>1, <2>1, Leaving
  <2>3. \A s \in Sids : queue[s] \in Seq(Procs)
    BY <1>1
  <2>4. \A s \in Sids : After(queue[s], p) \in Seq(Procs)
    BY <2>3, Leaving
  <2>5. ASSUME NEW q \in Procs \ {p}, Heads(admission, q) PROVE Heads(admission', q)
    BY <1>1, <2>1, <2>5, HeadStays
  <2>6. ASSUME NEW q \in Procs \ {p}, NEW s \in Sids, Heads(queue[s], q) PROVE Heads(queue'[s], q)
    <3>1. queue'[s] = After(queue[s], p)
      BY <2>1
    <3> QED
      BY <2>3, <2>6, <3>1, HeadStays
  <2> QED
    BY <2>1, <2>2, <2>4, <2>5, <2>6 DEF Places
<1> QED
  BY <1>2, <1>3

LEMMA MayAnswer ==
  ASSUME Types, CallsOk, NEW p \in Procs, NEW why \in Whys, Answered(p, why)
  PROVE  /\ CallsTyped' /\ client' = client /\ Others(p) /\ Places(p)
         /\ \A c \in Calls : p = Main(c) => pc'[p] = "idle"
         /\ p \in Calls \X Members => pc'[p] \in Rests
<1> DEFINE alone == p[2] = 0 \/ pc[Main(p[1])] # "members"
<1>1. /\ loc' = [q \in DOMAIN loc |-> IF q = p /\ ~alone THEN [NoLocals EXCEPT !.why = why]
                                      ELSE IF alone /\ Gone(p, q) THEN NoLocals ELSE loc[q]]
      /\ pc' = [q \in DOMAIN pc |-> IF q = p /\ ~alone THEN "ended" ELSE IF alone /\ Gone(p, q) THEN "idle" ELSE pc[q]]
      /\ Leave(p) \/ InQueues
      /\ client' = client
  BY DEF Answered
<1> HIDE DEF alone
<1>2. /\ pc \in [Everyone -> Rests \union MemberSteps \union MainSteps \union {"off", "subscribe"}]
      /\ loc \in [Everyone -> LocType] /\ DOMAIN pc = Everyone /\ DOMAIN loc = Everyone
  BY TypesAre
<1>3. pc' \in [Everyone -> Rests \union MemberSteps \union MainSteps \union {"off", "subscribe"}]
  BY <1>1, <1>2 DEF Rests
<1>4. loc' \in [Everyone -> LocType]
  BY <1>1, <1>2, NoLocalsTyped
<1>5. queue' \in [Sids -> Seq(Procs)] /\ admission' \in Seq(Procs) /\ Places(p)
  BY <1>1, QueuesLeft
<1>6. p \in Everyone /\ Pump \in Everyone /\ Pump # p /\ Procs \subseteq Everyone
  BY Who
<1>7. pc'[p] \in Rests
  BY <1>1, <1>2, <1>6 DEF Rests, Gone
<1>8. \A c \in Calls : p = Main(c) => pc'[p] = "idle"
  BY <1>1, <1>2, <1>6 DEF Gone, Main, alone
<1>9. ASSUME NEW q \in Procs \ {p}
      PROVE  Kept(q) \/ (q \in Calls \X Members /\ pc'[q] \in Rests)
  <2>1. q \in Everyone /\ q # p
    BY <1>6
  <2>2. CASE alone /\ Gone(p, q)
    <3>1. pc[q] = "ended" /\ pc'[q] = "idle"
      BY <1>1, <1>2, <2>1, <2>2 DEF Gone
    <3>2. \A c \in Calls : q # Main(c)
      BY <3>1 DEF CallsOk, MainOk, MainSteps, Turning
    <3>3. q \in Calls \X Members
      BY <3>2, Who
    <3> QED
      BY <3>1, <3>3 DEF Rests
  <2>3. CASE ~(alone /\ Gone(p, q))
    <3>1. pc'[q] = pc[q] /\ loc'[q] = loc[q]
      BY <1>1, <1>2, <2>1, <2>3
    <3> QED
      BY <3>1 DEF Kept
  <2> QED
    BY <2>2, <2>3
<1>10. pc'[Pump] \in {"off", "subscribe"}
  <2>1. pc[Pump] \in {"off", "subscribe"}
    BY DEF CallsOk
  <2>2. ~Gone(p, Pump)
    BY <1>6, <2>1 DEF Gone
  <2> QED
    BY <1>1, <1>2, <1>6, <2>1, <2>2
<1> QED
  BY <1>1, <1>3, <1>4, <1>5, <1>7, <1>8, <1>9, <1>10 DEF CallsTyped, Others

LEMMA StillTyped ==
  ASSUME Types, SameSessions, CallsTyped', client' \in Nat, left' \in LeftType, HistoryTyped'
  PROVE  Types'
<1>1. Len(sessions') <= MaxSessions
  BY DEF Types, SameSessions
<1>2. sessions' \in Seq(SessionType)
  BY DEF SameSessions
<1> QED
  BY <1>1, <1>2 DEF Types

LEMMA Ends ==
  ASSUME OpenCodeInv, NEW p \in Procs, NEW why \in Whys, Answered(p, why), SameSessions, left' \in LeftType,
         HistoryTyped', Remembers, \A m \in late' \ late : LateOk(m)',
         p \notin Calls \X Members =>
           pc[p] # "members" \/ early' = TRUE \/ \A i \in Members : ~AtWorkNow(<<p[1], i>>)
  PROVE  OpenCodeInv'
<1>1. Types /\ CallsOk
  BY DEF OpenCodeInv
<1>2. /\ CallsTyped' /\ client' = client /\ Others(p) /\ Places(p)
      /\ \A c \in Calls : p = Main(c) => pc'[p] = "idle"
      /\ p \in Calls \X Members => pc'[p] \in Rests
  BY <1>1, MayAnswer
<1>3. Types'
  BY <1>1, <1>2, StillTyped, TypesAre
<1>4. ASSUME NEW c \in Calls, p = Main(c) PROVE MainOk(p)' /\ Leads(c)
  <2>1. pc'[p] = "idle"
    BY <1>2, <1>4
  <2>2. MainOk(p)'
    BY <2>1 DEF MainOk, MainSteps, Turning
  <2>3. p \notin Calls \X Members /\ p[1] = c
    BY <1>4, Who
  <2>4. Leads(c)
    BY <1>4, <2>1, <2>3 DEF Leads
  <2> QED
    BY <2>2, <2>4
<1>5. ASSUME p \in Calls \X Members PROVE MemberOk(p)' /\ Onward(p)
  BY <1>2, <1>5 DEF MemberOk, Onward, Rests, MemberSteps
<1>6. p \in Everyone
  BY Who
<1> QED
  BY <1>1, <1>2, <1>3, <1>4, <1>5, <1>6, Moves

-----------------------------------------------------------------------------
(* A process that goes on.                                                 *)

LEMMA OfCalls ==
  ASSUME CallsOk, NEW p \in Procs
  PROVE  /\ p \notin Calls \X Members => MainOk(p) /\ \E c \in Calls : p = Main(c) /\ p[1] = c
         /\ p \in Calls \X Members => MemberOk(p) /\ \A c \in Calls : p # Main(c)
         /\ p \in Everyone /\ p # Pump
BY Who DEF CallsOk

LEMMA GoesOn ==
  ASSUME Types, CallsOk, NEW p \in Procs, NEW where \in Rests \union MemberSteps \union MainSteps, NEW l \in LocType,
         pc' = [pc EXCEPT ![p] = where], loc' = [loc EXCEPT ![p] = l],
         queue' \in [Sids -> Seq(Procs)], admission' \in Seq(Procs)
  PROVE  CallsTyped' /\ Others(p) /\ pc'[p] = where /\ loc'[p] = l
<1>1. /\ pc \in [Everyone -> Rests \union MemberSteps \union MainSteps \union {"off", "subscribe"}]
      /\ loc \in [Everyone -> LocType]
  BY TypesAre
<1>2. p \in Everyone /\ Pump \in Everyone /\ Pump # p /\ Procs \subseteq Everyone
  BY Who
<1>3. pc' \in [Everyone -> Rests \union MemberSteps \union MainSteps \union {"off", "subscribe"}] /\ pc'[p] = where
      /\ \A q \in Everyone \ {p} : pc'[q] = pc[q]
  BY <1>1, <1>2
<1>4. loc' \in [Everyone -> LocType] /\ loc'[p] = l /\ \A q \in Everyone \ {p} : loc'[q] = loc[q]
  BY <1>1, <1>2
<1>5. \A q \in Procs \ {p} : Kept(q)
  BY <1>2, <1>3, <1>4 DEF Kept
<1>6. pc'[Pump] \in {"off", "subscribe"}
  BY <1>2, <1>3 DEF CallsOk
<1> QED
  BY <1>3, <1>4, <1>5, <1>6 DEF CallsTyped, Others

(* One that stays in its queues. *)
LEMMA InPlace ==
  ASSUME Types, NEW p \in Everyone, InQueues
  PROVE  queue' \in [Sids -> Seq(Procs)] /\ admission' \in Seq(Procs) /\ Places(p)
BY TypesAre DEF InQueues, Places

LEMMA LocUnchanged ==
  ASSUME Types, NEW p \in Procs, UNCHANGED loc
  PROVE  loc' = [loc EXCEPT ![p] = loc[p]] /\ loc[p] \in LocType
<1>1. loc \in [Everyone -> LocType] /\ p \in Everyone
  BY TypesAre, Who
<1> QED
  BY <1>1

LEMMA StepOn ==
  ASSUME OpenCodeInv, NEW p \in Procs, NEW where \in Rests \union MemberSteps \union MainSteps, NEW l \in LocType,
         pc' = [pc EXCEPT ![p] = where], loc' = [loc EXCEPT ![p] = l],
         queue' \in [Sids -> Seq(Procs)], admission' \in Seq(Procs), Places(p),
         SameSessions, left' \in LeftType, client' = client, UNCHANGED history \/ (HistoryTyped' /\ Remembers),
         \A m \in late' \ late : LateOk(m)',
         p \notin Calls \X Members => pc[p] # "members" /\ where # "members" /\ MainOk(p)',
         p \in Calls \X Members => MemberOk(p)' /\ Onward(p)
  PROVE  OpenCodeInv'
<1>1. Types /\ CallsOk
  BY DEF OpenCodeInv
<1>2. CallsTyped' /\ Others(p) /\ pc'[p] = where /\ loc'[p] = l
  BY <1>1, GoesOn
<1>3. client' \in Nat /\ HistoryTyped' /\ Remembers
  BY <1>1, TypesAre, HistoryKept
<1>4. Types'
  BY <1>1, <1>2, <1>3, StillTyped
<1>5. p \in Everyone
  BY Who
<1>6. ASSUME NEW c \in Calls, p = Main(c) PROVE MainOk(p)' /\ Leads(c)
  <2>1. p \notin Calls \X Members
    BY <1>6, Who
  <2> QED
    BY <1>2, <1>6, <2>1 DEF Leads
<1> QED
  BY <1>2, <1>3, <1>4, <1>5, <1>6, Moves

(* Nothing of a process changes but the connection it is at. *)
LEMMA StaysThere ==
  ASSUME OpenCodeInv, UNCHANGED <<sessions, late, admission, queue, history>>, CallsTyped', client' \in Nat, left' \in LeftType,
         pc'[Pump] \in {"off", "subscribe"}, \A q \in Procs : Kept(q)
  PROVE  OpenCodeInv'
<1>1. Types /\ CallsOk
  BY DEF OpenCodeInv
<1>2. SameSessions
  BY <1>1, Unchanged
<1>3. HistoryTyped' /\ Remembers
  BY <1>1, HistoryKept
<1>4. Types'
  BY <1>1, <1>2, <1>3, StillTyped, TypesAre
<1>5. Pump \in Everyone /\ Pump \notin Procs /\ \A c \in Calls : Main(c) \in Procs /\ Calls \X Members \subseteq Procs
  BY Who
<1>6. Others(Pump) /\ Places(Pump)
  BY <1>5 DEF Others, Places
<1>7. (\A c \in Calls : Pump # Main(c)) /\ Pump \notin Calls \X Members
  BY Who
<1> QED
  BY <1>2, <1>3, <1>4, <1>5, <1>6, <1>7, Moves

-----------------------------------------------------------------------------
(* Connections.                                                            *)

LEMMA ConnTyped ==
  ASSUME Types, NEW p \in Everyone, NEW n \in Nat, loc' = [loc EXCEPT ![p].conn = n]
  PROVE  /\ loc' \in [Everyone -> LocType]
         /\ \A q \in Everyone : /\ loc'[q].kind = loc[q].kind /\ loc'[q].reqs = loc[q].reqs /\ loc'[q].req = loc[q].req
                                /\ loc'[q].sid = loc[q].sid /\ loc'[q].turn = loc[q].turn /\ loc'[q].owned = loc[q].owned
                                /\ loc'[q].conn = IF q = p THEN n ELSE loc[q].conn
<1>1. loc \in [Everyone -> LocType]
  BY TypesAre
<1> DEFINE l == [loc[p] EXCEPT !.conn = n]
<1>2. /\ l \in LocType /\ l.kind = loc[p].kind /\ l.reqs = loc[p].reqs /\ l.req = loc[p].req
      /\ l.sid = loc[p].sid /\ l.turn = loc[p].turn /\ l.owned = loc[p].owned /\ l.conn = n
  <2>1. loc[p] \in LocType
    BY <1>1
  <2> QED
    BY <2>1 DEF LocType
<1>3. loc' = [loc EXCEPT ![p] = l]
  OBVIOUS
<1> HIDE DEF l
<1>4. loc' \in [Everyone -> LocType] /\ loc'[p] = l /\ \A q \in Everyone \ {p} : loc'[q] = loc[q]
  BY <1>1, <1>2, <1>3
<1> QED
  BY <1>2, <1>4

LEMMA Reconnecting ==
  ASSUME OpenCodeInv, NEW p \in Everyone, Reconnect(p)
  PROVE  OpenCodeInv'
<1>1. Types /\ CallsOk
  BY DEF OpenCodeInv
<1>2. /\ pc[p] \in Sending /\ (1..MaxClients) \ InUse # {} /\ client' = Min((1..MaxClients) \ InUse)
      /\ loc' = [loc EXCEPT ![p].conn = client'] /\ UNCHANGED <<server, auth, pc, admission, queue, left, history>>
  BY DEF Reconnect
<1>3. client' \in Nat
  <2>1. (1..MaxClients) \ InUse \subseteq Nat
    BY OpenCodeAssumption DEF OpenCodeAssumption
  <2>2. Min((1..MaxClients) \ InUse) \in (1..MaxClients) \ InUse
    BY <1>2, <2>1, LeastIn
  <2> QED
    BY <1>2, <2>1, <2>2
<1>4. PICK n \in Nat : n = client'
  BY <1>3
<1>5. loc' = [loc EXCEPT ![p].conn = n]
  BY <1>2, <1>4
<1>6. /\ loc' \in [Everyone -> LocType]
      /\ \A q \in Everyone : /\ loc'[q].kind = loc[q].kind /\ loc'[q].reqs = loc[q].reqs /\ loc'[q].req = loc[q].req
                             /\ loc'[q].sid = loc[q].sid /\ loc'[q].turn = loc[q].turn /\ loc'[q].owned = loc[q].owned
                             /\ loc'[q].conn = IF q = p THEN n ELSE loc[q].conn
  BY <1>1, <1>5, ConnTyped
<1>7. CallsTyped'
  BY <1>2, <1>6, <1>1, TypesAre DEF CallsTyped
<1>8. pc' = pc
  BY <1>2
<1>9. \A q \in Procs : Kept(q)
  <2>1. pc[p] # "members"
    BY <1>2 DEF Sending
  <2>2. Procs \subseteq Everyone
    BY Who
  <2> QED
    BY <1>6, <1>8, <2>1, <2>2 DEF Kept
<1>10. pc'[Pump] \in {"off", "subscribe"} /\ left' \in LeftType
  BY <1>1, <1>2, <1>8, TypesAre DEF CallsOk
<1>11. UNCHANGED <<sessions, late, admission, queue, history>>
  BY <1>2 DEF server
<1> QED
  BY <1>3, <1>7, <1>9, <1>10, <1>11, StaysThere

LEMMA Connecting ==
  ASSUME OpenCodeInv, NEW p \in Everyone, Connects(p)
  PROVE  OpenCodeInv'
<1>1. Types /\ CallsOk
  BY DEF OpenCodeInv
<1>2. /\ loc' = [loc EXCEPT ![p].conn = 0] /\ pc' = [pc EXCEPT ![Pump] = "subscribe"]
      /\ UNCHANGED <<server, client, admission, queue, left, history>>
  BY DEF Connects, PumpOn
<1>3. /\ loc' \in [Everyone -> LocType]
      /\ \A q \in Everyone : /\ loc'[q].kind = loc[q].kind /\ loc'[q].reqs = loc[q].reqs /\ loc'[q].req = loc[q].req
                             /\ loc'[q].sid = loc[q].sid /\ loc'[q].turn = loc[q].turn /\ loc'[q].owned = loc[q].owned
                             /\ loc'[q].conn = IF q = p THEN 0 ELSE loc[q].conn
  <2>1. PICK n \in Nat : n = 0
    OBVIOUS
  <2>2. loc' = [loc EXCEPT ![p].conn = n]
    BY <1>2, <2>1
  <2> QED
    BY <1>1, <2>1, <2>2, ConnTyped
<1>4. /\ pc' \in [Everyone -> Rests \union MemberSteps \union MainSteps \union {"off", "subscribe"}]
      /\ pc'[Pump] = "subscribe" /\ \A q \in Everyone \ {Pump} : pc'[q] = pc[q]
  <2>1. pc \in [Everyone -> Rests \union MemberSteps \union MainSteps \union {"off", "subscribe"}] /\ Pump \in Everyone
    BY <1>1, TypesAre, Who
  <2> QED
    BY <1>2, <2>1
<1>5. CallsTyped'
  BY <1>1, <1>2, <1>3, <1>4, TypesAre DEF CallsTyped
<1>6. \A q \in Procs : Kept(q)
  <2>1. Procs \subseteq Everyone \ {Pump}
    BY Who
  <2>2. \A q \in Procs : pc'[q] = pc[q]
    BY <1>4, <2>1
  <2> QED
    BY <1>3, <2>1, <2>2 DEF Kept
<1>7. client' \in Nat /\ left' \in LeftType
  BY <1>1, <1>2, TypesAre
<1>8. UNCHANGED <<sessions, late, admission, queue, history>>
  BY <1>2 DEF server
<1> QED
  BY <1>4, <1>5, <1>6, <1>7, <1>8, StaysThere

LEMMA PumpStopping ==
  ASSUME OpenCodeInv, PumpStops
  PROVE  OpenCodeInv'
<1>1. Types /\ CallsOk
  BY DEF OpenCodeInv
<1>2. /\ pc' = [pc EXCEPT ![Pump] = "off"] /\ UNCHANGED <<server, client, loc, admission, queue, history>>
      /\ Reliable \/ (Fault /\ Faulty)
  BY DEF PumpStops, Goto
<1>3. /\ pc' \in [Everyone -> Rests \union MemberSteps \union MainSteps \union {"off", "subscribe"}]
      /\ pc'[Pump] = "off" /\ \A q \in Everyone \ {Pump} : pc'[q] = pc[q]
  <2>1. pc \in [Everyone -> Rests \union MemberSteps \union MainSteps \union {"off", "subscribe"}] /\ Pump \in Everyone
    BY <1>1, TypesAre, Who
  <2> QED
    BY <1>2, <2>1
<1>4. CallsTyped'
  BY <1>1, <1>2, <1>3, TypesAre DEF CallsTyped
<1>5. \A q \in Procs : Kept(q)
  <2>1. Procs \subseteq Everyone \ {Pump}
    BY Who
  <2>2. \A q \in Procs : pc'[q] = pc[q] /\ loc'[q] = loc[q]
    BY <1>2, <1>3, <2>1
  <2> QED
    BY <2>2 DEF Kept
<1>6. client' \in Nat /\ left' \in LeftType
  BY <1>1, <1>2, TypesAre, Bounds
<1>7. UNCHANGED <<sessions, late, admission, queue, history>>
  BY <1>2 DEF server
<1> QED
  BY <1>3, <1>4, <1>5, <1>6, <1>7, StaysThere

(* The common end: a request of a process fails, or comes back with        *)
(* nothing left to do.                                                     *)
LEMMA Fails ==
  ASSUME OpenCodeInv, NEW p \in Procs, NEW why \in Whys, Answered(p, why), pc[p] # "members",
         SameSessions, late' = late, Rest, Reliable \/ (Fault /\ Faulty)
  PROVE  OpenCodeInv'
<1>1. Types
  BY DEF OpenCodeInv
<1>2. UNCHANGED history
  BY DEF Rest, history
<1>3. left' \in LeftType
  BY <1>1, Bounds
<1>4. HistoryTyped' /\ Remembers /\ \A m \in late' \ late : LateOk(m)'
  BY <1>1, <1>2, HistoryKept
<1> QED
  BY <1>3, <1>4, Ends

LEMMA EndsUnchanged ==
  ASSUME OpenCodeInv, NEW p \in Procs, NEW why \in Whys, Answered(p, why), pc[p] # "members",
         UNCHANGED <<sessions, late>>, Rest, Reliable \/ (Fault /\ Faulty)
  PROVE  OpenCodeInv'
<1>1. SameSessions
  BY Unchanged DEF OpenCodeInv
<1> QED
  BY <1>1, Fails

LEMMA ConnectFailing ==
  ASSUME OpenCodeInv, NEW p \in Everyone, ConnectFails(p)
  PROVE  OpenCodeInv'
<1>1. Types /\ CallsOk
  BY DEF OpenCodeInv
<1>2. loc[p].conn # 0 /\ Fault /\ Faulty /\ UNCHANGED <<sessions, late>> /\ Rest
  BY DEF ConnectFails
<1>3. CASE p = Pump
  <2>1. loc' = [loc EXCEPT ![p].conn = 0] /\ UNCHANGED <<backend, pc, admission, queue>>
    BY <1>3 DEF ConnectFails
  <2>2. /\ loc' \in [Everyone -> LocType]
        /\ \A q \in Everyone : /\ loc'[q].kind = loc[q].kind /\ loc'[q].reqs = loc[q].reqs /\ loc'[q].req = loc[q].req
                               /\ loc'[q].sid = loc[q].sid /\ loc'[q].turn = loc[q].turn /\ loc'[q].owned = loc[q].owned
                               /\ loc'[q].conn = IF q = p THEN 0 ELSE loc[q].conn
    <3>1. PICK n \in Nat : n = 0
      OBVIOUS
    <3>2. loc' = [loc EXCEPT ![p].conn = n]
      BY <2>1, <3>1
    <3> QED
      BY <1>1, <3>1, <3>2, ConnTyped
  <2>3. CallsTyped'
    BY <1>1, <2>1, <2>2, TypesAre DEF CallsTyped
  <2>4. \A q \in Procs : Kept(q)
    BY <2>1, <2>2, Who DEF Kept
  <2>5. client' \in Nat /\ left' \in LeftType /\ pc'[Pump] \in {"off", "subscribe"}
    BY <1>1, <1>2, <2>1, TypesAre, Bounds DEF backend, CallsOk
  <2>6. UNCHANGED <<sessions, late, admission, queue, history>>
    BY <1>2, <2>1 DEF Rest
  <2> QED
    BY <2>3, <2>4, <2>5, <2>6, StaysThere
<1>4. CASE p # Pump
  <2>1. p \in Procs
    BY <1>4, Who
  <2>2. Answered(p, "error")
    BY <1>4 DEF ConnectFails
  <2>3. pc[p] # "members"
    <3>1. CASE p \in Calls \X Members
      BY <1>1, <2>1, <3>1, OfCalls DEF MemberOk, Rests, MemberSteps
    <3>2. CASE p \notin Calls \X Members
      BY <1>1, <1>2, <2>1, <3>2, OfCalls DEF MainOk
    <3> QED
      BY <3>1, <3>2
  <2>4. "error" \in Whys
    BY DEF Whys
  <2> QED
    BY <1>2, <2>1, <2>2, <2>3, <2>4, EndsUnchanged
<1> QED
  BY <1>3, <1>4

LEMMA ReadFailing ==
  ASSUME OpenCodeInv, NEW p \in Procs, pc[p] # "members", ReadFails(p)
  PROVE  OpenCodeInv'
<1>1. \/ Reliable /\ Answered(p, "mismatch")
      \/ Fault /\ Faulty /\ Answered(p, "error")
  BY DEF ReadFails
<1>2. UNCHANGED <<sessions, late>> /\ Rest /\ "mismatch" \in Whys /\ "error" \in Whys
  BY DEF ReadFails, Whys
<1> QED
  BY <1>1, <1>2, EndsUnchanged

LEMMA Refusing ==
  ASSUME OpenCodeInv, NEW p \in Procs, NEW k, pc[p] # "members", Refused(p, k)
  PROVE  OpenCodeInv'
<1>1. \/ Reliable /\ Answered(p, "mismatch")
      \/ Fault /\ Faulty /\ Answered(p, "error")
  BY DEF Refused
<1>2. UNCHANGED <<sessions, late>> /\ Rest /\ "mismatch" \in Whys /\ "error" \in Whys
  BY DEF Refused, Whys
<1> QED
  BY <1>1, <1>2, EndsUnchanged

-----------------------------------------------------------------------------
(* Calls on one session.                                                   *)

LEMMA TurnsMild ==
  ASSUME Types, NEW s \in DOMAIN sessions, NEW from, NEW to,
         \/ from = {"accepted"} /\ to = "running"
         \/ from = {"running", "aborting"} /\ to = "ended"
         \/ from = {"running"} /\ to = "aborting"
         \/ from = Unfinished /\ to = "lost",
         sessions' = WithTurns(sessions, s, from, to)
  PROVE  SameSessions
<1> DEFINE x == sessions[s]
           y == [x EXCEPT !.turns = [i \in DOMAIN x.turns |-> IF x.turns[i].state \in from THEN [x.turns[i] EXCEPT !.state = to]
                                                              ELSE x.turns[i]]]
<1>1. x \in SessionType
  BY SessionsAre
<1>2. Milder(x, y)
  BY <1>1, TurnsChanged
<1>3. sessions' = [sessions EXCEPT ![s] = y]
  BY DEF WithTurns
<1> HIDE DEF y
<1> QED
  BY <1>2, <1>3, OneMilder

LEMMA ControlledMild ==
  ASSUME Types, NEW s \in DOMAIN sessions, NEW kind \in {"pause", "resume", "abort", "cancel"},
         sessions' = Controlled(kind, s) \/ sessions' = sessions
  PROVE  SameSessions
<1>1. CASE sessions' = sessions
  BY <1>1, Unchanged
<1>2. CASE sessions' = Controlled(kind, s) /\ kind = "pause"
  <2>1. sessions' = [sessions EXCEPT ![s].paused = TRUE]
    BY <1>2 DEF Controlled
  <2> QED
    BY <2>1, Marked
<1>3. CASE sessions' = Controlled(kind, s) /\ kind = "resume"
  <2>1. sessions' = [sessions EXCEPT ![s].paused = FALSE]
    BY <1>3 DEF Controlled
  <2> QED
    BY <2>1, Marked
<1>4. CASE sessions' = Controlled(kind, s) /\ kind \in {"abort", "cancel"}
  <2>1. sessions' = WithTurns(sessions, s, {"running"}, "aborting")
    BY <1>4 DEF Controlled
  <2> QED
    BY <2>1, TurnsMild
<1> QED
  BY <1>1, <1>2, <1>3, <1>4

LEMMA MainAt ==
  ASSUME OpenCodeInv, NEW p \in Procs, pc[p] \in MainSteps \ {"prompt", "verify"}
  PROVE  /\ p \notin Calls \X Members /\ MainOk(p) /\ Types /\ CallsOk
         /\ pc[p] \notin {"count", "members"} => loc[p].sid \in DOMAIN sessions /\ loc[p].sid \in Sids
         /\ loc[p] \in LocType
<1>1. Types /\ CallsOk
  BY DEF OpenCodeInv
<1>2. p \notin Calls \X Members
  BY <1>1, OfCalls DEF MemberOk, Rests, MemberSteps, MainSteps, Turning
<1>3. MainOk(p)
  BY <1>1, <1>2, OfCalls
<1>4. pc[p] \notin {"count", "members"} => loc[p].sid \in DOMAIN sessions
  BY <1>3 DEF MainOk, MainSteps, Turning
<1>5. loc[p] \in LocType
  BY <1>1, OfCalls, TypesAre
<1> QED
  BY <1>1, <1>2, <1>3, <1>4, <1>5, SessionsAre

(* A call that goes on at its session, and not to a prompt. *)
LEMMA MainGoesOn ==
  ASSUME OpenCodeInv, NEW p \in Procs, pc[p] \in MainSteps, pc[p] # "members", p \notin Calls \X Members,
         NEW where \in {"settle", "waiting", "reply"}, NEW l \in LocType, l.sid = loc[p].sid, loc[p].sid \in DOMAIN sessions,
         pc' = [pc EXCEPT ![p] = where], loc' = [loc EXCEPT ![p] = l], InQueues, client' = client,
         SameSessions, late' = late, Rest, Reliable \/ (Fault /\ Faulty)
  PROVE  OpenCodeInv'
<1>1. Types /\ CallsOk
  BY DEF OpenCodeInv
<1>2. where \in Rests \union MemberSteps \union MainSteps
  BY DEF MainSteps
<1>3. UNCHANGED history /\ left' \in LeftType
  BY <1>1, Bounds DEF Rest, history
<1>4. p \in Everyone /\ queue' \in [Sids -> Seq(Procs)] /\ admission' \in Seq(Procs) /\ Places(p)
  BY <1>1, Who, InPlace
<1>5. pc'[p] = where /\ loc'[p] = l
  BY <1>1, <1>2, <1>4, GoesOn
<1>6. loc'[p].sid \in DOMAIN sessions'
  BY <1>5 DEF SameSessions
<1>7. MainOk(p)'
  BY <1>5, <1>6 DEF MainOk, MainSteps, Turning
<1> QED
  BY <1>2, <1>3, <1>4, <1>7, StepOn

LEMMA Controlling ==
  ASSUME OpenCodeInv, NEW p \in Procs, Control(p)
  PROVE  OpenCodeInv'
<1>1. pc[p] = "control"
  BY DEF Control
<1>2. p \notin Calls \X Members /\ MainOk(p) /\ Types /\ loc[p].sid \in DOMAIN sessions
  BY <1>1, MainAt DEF MainSteps
<1>3. loc[p].kind \in {"pause", "resume", "abort"}
  BY <1>1, <1>2 DEF MainOk
<1>4. CASE ~Reaches(loc[p].client) /\ Refused(p, loc[p].client)
  BY <1>1, <1>4, Refusing
<1>5. CASE /\ Taken(loc[p].client) /\ sessions' = Controlled(loc[p].kind, loc[p].sid)
           /\ UNCHANGED late /\ Answered(p, "ok") /\ Rest
  <2>1. SameSessions
    BY <1>2, <1>3, <1>5, ControlledMild
  <2>2. "ok" \in Whys /\ Reliable /\ pc[p] # "members"
    BY <1>1, <1>5 DEF Whys, Taken
  <2> QED
    BY <1>5, <2>1, <2>2, Fails
<1>6. CASE /\ Fault /\ Faulty /\ sessions' \in {sessions, Controlled(loc[p].kind, loc[p].sid)}
           /\ UNCHANGED late /\ Answered(p, "error") /\ Rest
  <2>1. SameSessions
    BY <1>2, <1>3, <1>6, ControlledMild
  <2>2. "error" \in Whys /\ pc[p] # "members"
    BY <1>1 DEF Whys
  <2> QED
    BY <1>6, <2>1, <2>2, Fails
<1> QED
  BY <1>4, <1>5, <1>6 DEF Control

LEMMA Aborting ==
  ASSUME OpenCodeInv, NEW p \in Procs, Abort(p)
  PROVE  OpenCodeInv'
<1>1. pc[p] = "abort" /\ pc[p] # "members"
  BY DEF Abort, May
<1>2. p \notin Calls \X Members /\ MainOk(p) /\ Types /\ loc[p].sid \in DOMAIN sessions /\ loc[p] \in LocType
  BY <1>1, MainAt DEF MainSteps
<1>4. CASE ~Reaches(client) /\ Refused(p, client)
  BY <1>1, <1>4, Refusing
<1>5. CASE /\ Taken(client) /\ sessions' = Controlled("cancel", loc[p].sid)
           /\ Goto(p, "settle") /\ UNCHANGED <<late, backend, loc, admission, queue>> /\ Rest
  <2>1. SameSessions
    BY <1>2, <1>5, ControlledMild
  <2>2. Reliable /\ InQueues /\ client' = client /\ pc' = [pc EXCEPT ![p] = "settle"] /\ late' = late
    BY <1>5 DEF Taken, InQueues, backend, Goto
  <2>3. loc' = [loc EXCEPT ![p] = loc[p]]
    BY <1>2, <1>5, LocUnchanged
  <2>4. pc[p] \in MainSteps
    BY <1>1 DEF MainSteps
  <2> QED
    BY <1>1, <1>2, <1>5, <2>1, <2>2, <2>3, <2>4, MainGoesOn
<1>6. CASE /\ Fault /\ Faulty /\ sessions' \in {sessions, Controlled("cancel", loc[p].sid)}
           /\ UNCHANGED late /\ Answered(p, "error") /\ Rest
  <2>1. SameSessions
    BY <1>2, <1>6, ControlledMild
  <2>2. "error" \in Whys
    BY DEF Whys
  <2> QED
    BY <1>1, <1>6, <2>1, <2>2, Fails
<1> QED
  BY <1>4, <1>5, <1>6 DEF Abort

LEMMA Settling ==
  ASSUME OpenCodeInv, NEW p \in Procs, Settle(p)
  PROVE  OpenCodeInv'
<1>1. pc[p] = "settle" /\ pc[p] # "members" /\ pc[p] \in MainSteps
  BY DEF Settle, May, MainSteps
<1>2. p \notin Calls \X Members /\ MainOk(p) /\ Types /\ loc[p].sid \in DOMAIN sessions /\ loc[p] \in LocType
  BY <1>1, MainAt
<1>3. /\ sessions' = sessions \/ sessions' = [sessions EXCEPT ![loc[p].sid].asks = FALSE]
      /\ Reliable \/ (Fault /\ Faulty)
      /\ Goto(p, "waiting") /\ UNCHANGED <<late, backend, loc, admission, queue>> /\ Rest
  BY DEF Settle
<1>4. SameSessions
  BY <1>2, <1>3, Marked
<1>5. InQueues /\ client' = client /\ pc' = [pc EXCEPT ![p] = "waiting"] /\ late' = late
  BY <1>3 DEF InQueues, backend, Goto
<1>6. loc' = [loc EXCEPT ![p] = loc[p]]
  BY <1>2, <1>3, LocUnchanged
<1> QED
  BY <1>1, <1>2, <1>3, <1>4, <1>5, <1>6, MainGoesOn

LEMMA Looking ==
  ASSUME OpenCodeInv, NEW p \in Procs, Latest(p)
  PROVE  OpenCodeInv'
<1>1. pc[p] = "latest" /\ pc[p] # "members" /\ pc[p] \in MainSteps /\ Reliable
  BY DEF Latest, May, MainSteps, Read
<1>2. p \notin Calls \X Members /\ MainOk(p) /\ Types /\ loc[p].sid \in DOMAIN sessions /\ loc[p] \in LocType
  BY <1>1, MainAt
<1>3. UNCHANGED <<sessions, late>> /\ Rest
  BY DEF Latest
<1>4. CASE sessions[loc[p].sid].turns = <<>>
  <2>1. Answered(p, "empty") /\ "empty" \in Whys
    BY <1>4 DEF Latest, Whys
  <2> QED
    BY <1>1, <1>3, <2>1, EndsUnchanged
<1>5. CASE sessions[loc[p].sid].turns # <<>>
  <2> DEFINE t == sessions[loc[p].sid].turns
             l == [loc[p] EXCEPT !.turn = Last(t).id]
  <2>1. /\ loc' = [loc EXCEPT ![p] = l] /\ pc' = [pc EXCEPT ![p] = "waiting"] /\ InQueues /\ client' = client /\ late' = late
    BY <1>3, <1>5 DEF Latest, Goto, InQueues, backend
  <2>2. Last(t).id \in TurnIds
    <3>1. sessions[loc[p].sid] \in SessionType
      BY <1>2, SessionsAre
    <3>2. DOMAIN t = 1..Len(t) /\ Len(t) \in Nat /\ t \in Seq(TurnType) /\ \A i \in DOMAIN t : t[i].id \in TurnIds
      BY <3>1, SessionFields
    <3>3. Len(t) \in DOMAIN t
      BY <1>5, <3>2
    <3> QED
      BY <3>2, <3>3 DEF Last
  <2>3. l \in LocType /\ l.sid = loc[p].sid
    BY <1>2, <2>2 DEF LocType
  <2>4. SameSessions
    BY <1>2, <1>3, Unchanged
  <2> HIDE DEF l
  <2> QED
    BY <1>1, <1>2, <1>3, <2>1, <2>3, <2>4, MainGoesOn
<1> QED
  BY <1>4, <1>5

LEMMA Seeing ==
  ASSUME OpenCodeInv, NEW p \in Procs, Sees(p) \/ Expires(p)
  PROVE  OpenCodeInv'
<1>1. pc[p] # "members" /\ Reliable /\ UNCHANGED <<sessions, late>> /\ Rest
  BY DEF Sees, Expires, May, Read
<1>2. Answered(p, "ok") \/ Answered(p, "running")
  BY DEF Sees, Expires
<1>3. "ok" \in Whys /\ "running" \in Whys
  BY DEF Whys
<1> QED
  BY <1>1, <1>2, <1>3, EndsUnchanged

LEMMA Listing ==
  ASSUME OpenCodeInv, NEW p \in Procs, Pending(p)
  PROVE  OpenCodeInv'
<1>1. pc[p] = "pending" /\ pc[p] # "members" /\ pc[p] \in MainSteps /\ Reliable
  BY DEF Pending, May, MainSteps, Read
<1>2. p \notin Calls \X Members /\ MainOk(p) /\ Types /\ loc[p].sid \in DOMAIN sessions /\ loc[p] \in LocType
  BY <1>1, MainAt
<1>3. UNCHANGED <<sessions, late>> /\ Rest
  BY DEF Pending
<1>4. CASE Answered(p, "error")
  BY <1>1, <1>3, <1>4, EndsUnchanged DEF Whys
<1>5. CASE Goto(p, "reply") /\ UNCHANGED <<loc, auth, client, pin, admission, queue>>
  <2>1. InQueues /\ client' = client /\ pc' = [pc EXCEPT ![p] = "reply"] /\ late' = late
    BY <1>3, <1>5 DEF InQueues, Goto
  <2>2. loc' = [loc EXCEPT ![p] = loc[p]]
    BY <1>2, <1>5, LocUnchanged
  <2>3. SameSessions
    BY <1>2, <1>3, Unchanged
  <2> QED
    BY <1>1, <1>2, <1>3, <2>1, <2>2, <2>3, MainGoesOn
<1> QED
  BY <1>4, <1>5 DEF Pending

LEMMA Replying ==
  ASSUME OpenCodeInv, NEW p \in Procs, Reply(p)
  PROVE  OpenCodeInv'
<1>1. pc[p] = "reply" /\ pc[p] # "members"
  BY DEF Reply, May
<1>2. Types /\ loc[p].sid \in DOMAIN sessions
  BY <1>1, MainAt DEF MainSteps
<1>3. CASE Refused(p, client)
  BY <1>1, <1>3, Refusing
<1>4. CASE /\ Taken(client) /\ sessions' = [sessions EXCEPT ![loc[p].sid].asks = FALSE]
           /\ UNCHANGED late /\ Answered(p, "ok") /\ Rest
  <2>1. SameSessions
    BY <1>2, <1>4, Marked
  <2>2. "ok" \in Whys /\ Reliable
    BY <1>4 DEF Whys, Taken
  <2> QED
    BY <1>1, <1>4, <2>1, <2>2, Fails
<1> QED
  BY <1>3, <1>4 DEF Reply

-----------------------------------------------------------------------------
(* A call begins, and takes its place at a session.                        *)

LEMMA Beginning ==
  ASSUME OpenCodeInv, NEW c \in Calls, NEW kind \in AskedKinds, NEW sid \in Nat, NEW reqs \in Batches \union {<<>>},
         Begin(c, kind, sid, reqs),
         kind \in Starts => reqs \in Batches, kind \notin Starts => sid \in DOMAIN sessions
  PROVE  OpenCodeInv'
<1> DEFINE p == Main(c)
           l == [Local(p, kind, sid) EXCEPT !.reqs = reqs]
           where == First(kind)
<1>1. Types /\ CallsOk /\ p \in Procs /\ p \notin Calls \X Members /\ p[1] = c
  BY Who DEF OpenCodeInv
<1>2. /\ pc[p] = "idle" /\ left.calls > 0 /\ left' = [left EXCEPT !.calls = @ - 1]
      /\ loc' = [loc EXCEPT ![p] = l] /\ pc' = [pc EXCEPT ![p] = where]
      /\ admission' = (IF kind \in Starts THEN Append(admission, p) ELSE admission)
      /\ UNCHANGED <<server, backend, queue, history>>
  BY DEF Begin, Goto
<1>3. left' \in LeftType /\ left.calls \in Nat
  <2> DEFINE n == left.calls - 1
  <2>1. left \in LeftType
    BY <1>1, TypesAre
  <2>2. n \in Nat /\ left.calls \in Nat
    BY <1>2, <2>1 DEF LeftType
  <2>3. left' = [left EXCEPT !.calls = n]
    BY <1>2
  <2> HIDE DEF n
  <2> QED
    BY <2>1, <2>2, <2>3 DEF LeftType
<1>4. l \in LocType /\ l.kind = kind /\ l.sid = sid /\ l.reqs = reqs /\ l.turn \in Calls \X Nat /\ l.conn = 0
  <2>1. <<c, left.calls>> \in Calls \X Nat /\ <<c, left.calls>> \in TurnIds
    BY <1>3 DEF TurnIds
  <2>2. kind \in KindNames /\ None \in Whys /\ Nothing \in Ids
    BY DEF KindNames, Whys, Ids
  <2>3. l = [kind |-> kind, reqs |-> reqs, req |-> Nothing, sid |-> sid, turn |-> <<c, left.calls>>, conn |-> 0, client |-> 0,
             owned |-> FALSE, why |-> None]
    <3>1. PICK turn : turn = <<p[1], left.calls>> /\ turn = <<c, left.calls>>
      BY <1>1
    <3>2. l = [NoLocals EXCEPT !.kind = kind, !.sid = sid, !.turn = turn, !.reqs = reqs]
      BY <3>1 DEF Local
    <3> HIDE DEF l
    <3> QED
      BY <3>1, <3>2 DEF NoLocals
  <2> HIDE DEF l
  <2> QED
    BY <2>1, <2>2, <2>3 DEF LocType
<1>5. /\ where \in {"count", "enter", "latest", "pending", "status"}
      /\ (where = "count" <=> kind \in Starts) /\ (where = "enter" => kind \in Queued)
  <2>1. CASE kind \in Starts
    BY <2>1 DEF First, Starts, Queued
  <2>2. CASE kind \in Queued
    BY <2>2 DEF First, Starts, Queued
  <2>3. CASE kind = "wait"
    BY <2>3 DEF First, Starts, Queued
  <2>4. CASE kind = "answer"
    BY <2>4 DEF First, Starts, Queued
  <2>5. CASE kind = "status"
    BY <2>5 DEF First, Starts, Queued
  <2> QED
    BY <2>1, <2>2, <2>3, <2>4, <2>5 DEF AskedKinds
<1>6. where \in Rests \union MemberSteps \union MainSteps
  BY <1>5 DEF MainSteps
<1>7. SameSessions /\ client' = client /\ late' = late /\ UNCHANGED history
  BY <1>1, <1>2, Unchanged DEF server, backend, history
<1>8. queue' \in [Sids -> Seq(Procs)] /\ admission' \in Seq(Procs) /\ Places(p)
  <2>1. queue \in [Sids -> Seq(Procs)] /\ admission \in Seq(Procs) /\ queue' = queue
    BY <1>1, <1>2, TypesAre
  <2>2. admission' \in Seq(Procs)
    BY <1>1, <1>2, <2>1, Appending
  <2>3. ASSUME NEW q \in Procs, Heads(admission, q) PROVE Heads(admission', q)
    BY <1>1, <1>2, <2>1, <2>3, HeadStays
  <2> QED
    BY <2>1, <2>2, <2>3 DEF Places
<1>9. pc'[p] = where /\ loc'[p] = l
  <2> HIDE DEF l, where, p
  <2> QED
    BY <1>1, <1>2, <1>4, <1>6, <1>8, GoesOn
<1> HIDE DEF l, where, p
<1>10. MainOk(p)'
  <2>1. sid \in DOMAIN sessions' \/ where = "count"
    BY <1>5, <1>7 DEF SameSessions
  <2>2. /\ pc'[p] = where /\ loc'[p].kind = kind /\ loc'[p].reqs = reqs /\ loc'[p].sid = sid
        /\ loc'[p].turn \in Calls \X Nat /\ loc'[p].conn = 0
    BY <1>3, <1>4, <1>9
  <2>3. pc'[p] \notin Turning \union {"members", "control", "prompt"}
    BY <1>5, <2>2 DEF Turning
  <2>4. pc'[p] \in MainSteps /\ (pc'[p] = "count" <=> kind \in Starts) /\ (pc'[p] = "enter" => kind \in Queued)
    BY <1>5, <2>2 DEF MainSteps
  <2>5. pc'[p] \notin {"idle", "count", "members"} => loc'[p].sid \in DOMAIN sessions'
    BY <2>1, <2>2
  <2> QED
    BY <2>2, <2>3, <2>4, <2>5 DEF MainOk
<1>11. pc[p] # "members" /\ where # "members"
  BY <1>2, <1>5
<1> QED
  BY <1>1, <1>2, <1>3, <1>4, <1>6, <1>7, <1>8, <1>10, <1>11, StepOn

LEMMA Entering ==
  ASSUME OpenCodeInv, NEW p \in Procs, Enter(p)
  PROVE  OpenCodeInv'
<1>1. pc[p] = "enter" /\ pc[p] # "members" /\ Reliable /\ Rest
  BY DEF Enter, May, Read
<1>2. /\ p \notin Calls \X Members /\ MainOk(p) /\ Types /\ CallsOk
      /\ loc[p].sid \in DOMAIN sessions /\ loc[p].sid \in Sids /\ loc[p] \in LocType
  BY <1>1, MainAt DEF MainSteps
<1>3. CASE Answered(p, "error") /\ UNCHANGED <<sessions, late>>
  BY <1>1, <1>3, EndsUnchanged DEF Whys
<1>4. CASE /\ queue' = [queue EXCEPT ![loc[p].sid] = Append(@, p)]
           /\ loc' = [loc EXCEPT ![p].client = client]
           /\ Goto(p, CASE loc[p].kind \in {"continue", "send", "turn"} -> "check"
                        [] loc[p].kind = "cancel" -> "abort" [] OTHER -> "control")
           /\ UNCHANGED <<sessions, late, backend, admission>>
  <2> DEFINE where == CASE loc[p].kind \in {"continue", "send", "turn"} -> "check"
                        [] loc[p].kind = "cancel" -> "abort" [] OTHER -> "control"
             l == [loc[p] EXCEPT !.client = client]
             s == loc[p].sid
             line == Append(queue[s], p)
  <2>1. loc[p].kind \in Queued /\ loc[p].turn \in Calls \X Nat
    BY <1>1, <1>2 DEF MainOk
  <2>2. /\ where \in {"check", "abort", "control"}
        /\ where = "check" => loc[p].kind \in {"continue", "send", "turn"}
        /\ where = "control" => loc[p].kind \in {"pause", "resume", "abort"}
    BY <2>1 DEF Queued
  <2>3. l \in LocType /\ l.kind = loc[p].kind /\ l.sid = s /\ l.turn = loc[p].turn
    BY <1>2, TypesAre DEF LocType
  <2>4. loc' = [loc EXCEPT ![p] = l] /\ pc' = [pc EXCEPT ![p] = where] /\ queue' = [queue EXCEPT ![s] = line]
        /\ admission' = admission /\ client' = client /\ late' = late
    BY <1>4 DEF Goto, backend
  <2>5. UNCHANGED history /\ left' \in LeftType /\ SameSessions
    BY <1>1, <1>2, <1>4, Bounds, Unchanged DEF Rest, history
  <2>6. queue' \in [Sids -> Seq(Procs)] /\ admission' \in Seq(Procs) /\ Places(p)
    <3>1. queue \in [Sids -> Seq(Procs)] /\ admission \in Seq(Procs)
      BY <1>2, TypesAre
    <3>2. line \in Seq(Procs)
      BY <1>2, <3>1, Appending
    <3> HIDE DEF line
    <3>3. queue' \in [Sids -> Seq(Procs)] /\ \A t \in Sids : queue'[t] = IF t = s THEN line ELSE queue[t]
      BY <1>2, <2>4, <3>1, <3>2
    <3>4. ASSUME NEW q \in Procs, NEW t \in Sids, Heads(queue[t], q) PROVE Heads(queue'[t], q)
      <4>1. CASE t = s
        <5>1. queue[s] \in Seq(Procs) /\ Heads(queue[s], q)
          BY <3>1, <3>4, <4>1
        <5>2. Heads(line, q)
          BY <5>1, HeadStays DEF line
        <5> QED
          BY <3>3, <4>1, <5>2
      <4>2. CASE t # s
        BY <3>3, <3>4, <4>2
      <4> QED
        BY <4>1, <4>2
    <3> QED
      BY <2>4, <3>1, <3>3, <3>4 DEF Places
  <2> HIDE DEF where, l
  <2>7. where \in Rests \union MemberSteps \union MainSteps
    BY <2>2 DEF MainSteps, Turning
  <2>8. pc'[p] = where /\ loc'[p] = l
    BY <1>2, <2>3, <2>4, <2>6, <2>7, GoesOn
  <2>9. MainOk(p)'
    <3>1. s \in DOMAIN sessions'
      BY <1>2, <2>5 DEF SameSessions
    <3> QED
      BY <2>1, <2>2, <2>3, <2>8, <3>1 DEF MainOk, MainSteps, Turning
  <2>10. where # "members"
    BY <2>2
  <2> QED
    BY <1>1, <1>2, <2>3, <2>4, <2>5, <2>6, <2>7, <2>9, <2>10, StepOn
<1> QED
  BY <1>3, <1>4 DEF Enter

(* A worker that is continued has no turn under way that continues it: its *)
(* last turn is over, and so is every turn before it.                      *)
LEMMA NothingContinues ==
  ASSUME Types, ServerOk, NEW s \in DOMAIN sessions, ~Busy(s), ~LastUnfinished(s)
  PROVE  \A i \in DOMAIN sessions[s].turns : sessions[s].turns[i].state \notin AtWorkStates
<1> DEFINE t == sessions[s].turns
<1>1. sessions[s] \in SessionType /\ SessionOk(sessions[s])
  BY SessionsAre DEF ServerOk
<1>2. DOMAIN t = 1..Len(t) /\ Len(t) \in Nat /\ t \in Seq(TurnType)
  BY <1>1, SessionFields
<1> SUFFICES ASSUME NEW i \in DOMAIN t, t[i].state \in AtWorkStates PROVE FALSE
  OBVIOUS
<1>3. t[i].state = "accepted"
  BY DEF Busy, AtWorkStates
<1>4. t # <<>> /\ Last(t) = t[Len(t)] /\ Len(t) \in DOMAIN t /\ i <= Len(t)
  BY <1>2 DEF Last
<1>5. t[Len(t)].state = "accepted"
  <2>1. CASE i = Len(t)
    BY <1>3, <2>1
  <2>2. CASE i < Len(t)
    BY <1>1, <1>3, <1>4, <2>2 DEF SessionOk
  <2> QED
    BY <1>2, <1>4, <2>1, <2>2
<1> QED
  BY <1>4, <1>5 DEF LastUnfinished, Unfinished

LEMMA Checking ==
  ASSUME OpenCodeInv, NEW p \in Procs, Check(p)
  PROVE  OpenCodeInv'
<1>1. pc[p] = "check" /\ pc[p] # "members" /\ Reliable /\ Rest /\ UNCHANGED <<sessions, late>> /\ Heads(queue[loc[p].sid], p)
  BY DEF Check, May, Read, Turned
<1>2. /\ p \notin Calls \X Members /\ MainOk(p) /\ Types /\ CallsOk /\ ServerOk
      /\ loc[p].sid \in DOMAIN sessions /\ loc[p].sid \in Sids /\ loc[p] \in LocType
  BY <1>1, MainAt DEF MainSteps, Turning, OpenCodeInv
<1>3. CASE Answered(p, "error")
  BY <1>1, <1>3, EndsUnchanged DEF Whys
<1>4. CASE Ready(p) /\ Goto(p, "prompt") /\ UNCHANGED <<loc, auth, client, pin, admission, queue>>
  <2>1. InQueues /\ client' = client /\ pc' = [pc EXCEPT ![p] = "prompt"] /\ late' = late
    BY <1>1, <1>4 DEF InQueues, Goto
  <2>2. loc' = [loc EXCEPT ![p] = loc[p]]
    BY <1>2, <1>4, LocUnchanged
  <2>3. UNCHANGED history /\ left' \in LeftType /\ SameSessions
    BY <1>1, <1>2, Bounds, Unchanged DEF Rest, history
  <2>4. queue' \in [Sids -> Seq(Procs)] /\ admission' \in Seq(Procs) /\ Places(p)
    BY <1>2, <2>1, InPlace, Who
  <2>5. "prompt" \in Rests \union MemberSteps \union MainSteps
    BY DEF MainSteps, Turning
  <2>6. pc'[p] = "prompt" /\ loc'[p] = loc[p]
    BY <1>2, <2>1, <2>2, <2>4, <2>5, GoesOn
  <2>7. loc[p].turn \in Calls \X Nat /\ loc[p].kind \in {"continue", "send", "turn"}
    BY <1>1, <1>2 DEF MainOk, Turning
  <2>8. loc[p].kind = "continue" => Continued(loc[p].sid) = {}
    <3>1. ASSUME loc[p].kind = "continue" PROVE ~Busy(loc[p].sid) /\ ~LastUnfinished(loc[p].sid)
      BY <1>4, <3>1 DEF Ready
    <3> QED
      BY <1>2, <3>1, NothingContinues DEF Continued, AtWorkStates
  <2>9. loc[p].kind = "continue" => (Continued(loc[p].sid) = {})'
    BY <1>1, <2>6, <2>8 DEF Continued
  <2>10. queue' = queue
    BY <1>4
  <2>11. MainOk(p)'
    BY <1>1, <1>2, <2>6, <2>7, <2>9, <2>10 DEF MainOk, MainSteps, Turning
  <2> QED
    BY <1>1, <1>2, <2>1, <2>2, <2>3, <2>4, <2>5, <2>11, StepOn
<1> QED
  BY <1>3, <1>4 DEF Check

LEMMA Lands ==
  ASSUME Types, NEW p \in Procs, NEW where, NEW l, pc' = [pc EXCEPT ![p] = where], loc' = [loc EXCEPT ![p] = l]
  PROVE  pc'[p] = where /\ loc'[p] = l
BY TypesAre, Who

LEMMA StatusChecked ==
  ASSUME OpenCodeInv, NEW c \in Calls, Status(c)
  PROVE  OpenCodeInv'
<1> DEFINE p == Main(c)
<1>1. /\ Types /\ CallsOk /\ p \in Procs /\ p \notin Calls \X Members /\ p \in Everyone /\ Pump \in Everyone /\ p # Pump
      /\ Procs \subseteq Everyone /\ Pump \notin Procs
  BY Who DEF OpenCodeInv
<1>2. /\ pc[p] = "status" /\ UNCHANGED <<server, client, loc, admission, queue, history>>
      /\ Reliable \/ (Fault /\ Faulty)
      /\ \/ pc' = [pc EXCEPT ![p] = "idle", ![Pump] = "subscribe"]
         \/ pc' = [pc EXCEPT ![p] = "idle"]
  BY DEF Status, Goto
<1> HIDE DEF p
<1>3. pc \in [Everyone -> Rests \union MemberSteps \union MainSteps \union {"off", "subscribe"}]
  BY <1>1, TypesAre
<1>4. /\ pc' \in [Everyone -> Rests \union MemberSteps \union MainSteps \union {"off", "subscribe"}]
      /\ pc'[p] = "idle" /\ pc'[Pump] \in {"subscribe", pc[Pump]} /\ \A q \in Procs \ {p} : pc'[q] = pc[q]
  BY <1>1, <1>2, <1>3 DEF Rests
<1>5. CallsTyped'
  BY <1>1, <1>2, <1>4, TypesAre DEF CallsTyped
<1>6. SameSessions /\ late' = late /\ UNCHANGED history /\ client' = client /\ left' \in LeftType
  BY <1>1, <1>2, Unchanged, Bounds DEF server, history
<1>7. Types' /\ Remembers
  BY <1>1, <1>5, <1>6, StillTyped, TypesAre, HistoryKept
<1>8. Others(p) /\ Places(p)
  <2>1. \A q \in Procs \ {p} : Kept(q)
    BY <1>2, <1>4 DEF Kept
  <2>2. pc'[Pump] \in {"off", "subscribe"}
    BY <1>1, <1>4 DEF CallsOk
  <2> QED
    BY <1>2, <1>6, <2>1, <2>2 DEF Others, Places
<1>9. MainOk(p)'
  BY <1>4 DEF MainOk, MainSteps, Turning
<1>10. \A d \in Calls : p = Main(d) => Leads(d)
  BY <1>2, <1>4 DEF Leads
<1> QED
  BY <1>1, <1>6, <1>7, <1>8, <1>9, <1>10, Moves

LEMMA BatchOver ==
  ASSUME OpenCodeInv, NEW c \in Calls, BatchFails(c) \/ BatchAnswers(c)
  PROVE  OpenCodeInv'
<1> DEFINE p == Main(c)
<1>1. Types /\ p \in Procs /\ p[1] = c
  BY Who DEF OpenCodeInv
<1>2. PICK why \in Whys : Answered(p, why)
  <2>1. CASE BatchAnswers(c)
    BY <2>1 DEF BatchAnswers, Whys
  <2>2. CASE BatchFails(c)
    <3>1. PICK i \in Members : Answered(p, loc[<<c, i>>].why)
      BY <2>2 DEF BatchFails
    <3>2. loc[<<c, i>>] \in LocType
      BY <1>1, TypesAre, Who
    <3> QED
      BY <3>1, <3>2, LocFields
  <2> QED
    BY <2>1, <2>2
<1>3. /\ UNCHANGED <<sessions, late, left, tardy, buried, missed>>
      /\ early' = (early \/ Working(c) # {}) \/ (early' = early /\ Working(c) = {})
  BY DEF BatchFails, BatchAnswers, server, history
<1>4. HistoryTyped /\ left \in LeftType
  BY <1>1, TypesAre
<1>5. HistoryTyped' /\ left' \in LeftType /\ Remembers
  <2>1. early' \in BOOLEAN /\ (early' = FALSE => early = FALSE)
    BY <1>3, <1>4 DEF HistoryTyped
  <2>2. tardy' = tardy /\ buried' = buried /\ missed' = missed /\ missed <= missed' /\ left' = left
    BY <1>3, <1>4 DEF HistoryTyped
  <2> QED
    BY <1>4, <2>1, <2>2 DEF HistoryTyped, Remembers
<1>6. early' = TRUE \/ \A i \in Members : ~AtWorkNow(<<c, i>>)
  <2>1. CASE Working(c) = {}
    BY <2>1 DEF Working, AtWorkNow, MemberSteps
  <2>2. CASE Working(c) # {}
    BY <1>3, <2>2
  <2> QED
    BY <2>1, <2>2
<1>7. \A i \in Members : ~AtWorkNow(<<c, i>>) => ~AtWorkNow(<<p[1], i>>)
  BY <1>1
<1>8. SameSessions /\ late' = late
  BY <1>1, <1>3, Unchanged
<1> QED
  BY <1>1, <1>2, <1>5, <1>6, <1>7, <1>8, Ends

LEMMA Verifying ==
  ASSUME OpenCodeInv, NEW p \in Procs, Verify(p)
  PROVE  OpenCodeInv'
<1>1. /\ pc[p] = "verify" /\ pc[p] # "members" /\ UNCHANGED <<sessions, late>> /\ Rest
      /\ Reliable \/ (Fault /\ Faulty)
      /\ Answered(p, "error") \/ Accepted(p)
  BY DEF Verify, May, Read
<1>2. Types /\ CallsOk
  BY DEF OpenCodeInv
<1>3. CASE Answered(p, "error") \/ Answered(p, "ok")
  BY <1>1, <1>3, EndsUnchanged DEF Whys
<1>4. CASE loc[p].kind = "turn" /\ Goto(p, "waiting") /\ UNCHANGED <<loc, auth, client, pin, admission, queue>>
  <2>1. p \notin Calls \X Members
    BY <1>1, <1>2, <1>4, OfCalls DEF MemberOk, MemberSteps, Starts
  <2>2. MainOk(p) /\ pc[p] \in MainSteps /\ loc[p].sid \in DOMAIN sessions
    BY <1>1, <1>2, <2>1, OfCalls DEF MainOk, MainSteps, Turning
  <2>3. InQueues /\ client' = client /\ pc' = [pc EXCEPT ![p] = "waiting"] /\ late' = late
    BY <1>1, <1>4 DEF InQueues, Goto
  <2>4. loc' = [loc EXCEPT ![p] = loc[p]] /\ loc[p] \in LocType
    BY <1>2, <1>4, LocUnchanged
  <2>5. SameSessions
    BY <1>1, <1>2, Unchanged
  <2> QED
    BY <1>1, <2>1, <2>2, <2>3, <2>4, <2>5, MainGoesOn
<1> QED
  BY <1>1, <1>3, <1>4 DEF Accepted

LEMMA RequestFailing ==
  ASSUME OpenCodeInv, NEW p \in Procs, PromptRefused(p) \/ Unreadable(p) \/ CreateRefused(p)
  PROVE  OpenCodeInv'
<1>1. pc[p] # "members"
  BY DEF PromptRefused, Unreadable, CreateRefused, Reading
<1>2. ReadFails(p) \/ Refused(p, client) \/ Refused(p, loc[p].client)
  BY DEF PromptRefused, Unreadable, CreateRefused
<1> QED
  BY <1>1, <1>2, ReadFailing, Refusing

-----------------------------------------------------------------------------
(* A member of a batch.                                                    *)

LEMMA MemberAt ==
  ASSUME OpenCodeInv, NEW p \in Procs, pc[p] \in MemberSteps \ {"prompt", "verify"}
  PROVE  /\ p \in Calls \X Members /\ MemberOk(p) /\ Types /\ CallsOk /\ loc[p] \in LocType
<1>1. Types /\ CallsOk
  BY DEF OpenCodeInv
<1>2. p \in Calls \X Members
  BY <1>1, OfCalls DEF MainOk, Rests, MemberSteps, MainSteps, Turning
<1> QED
  BY <1>1, <1>2, OfCalls, TypesAre

LEMMA MemberGoesOn ==
  ASSUME OpenCodeInv, NEW p \in Procs, p \in Calls \X Members, NEW where \in MemberSteps, NEW l \in LocType,
         pc' = [pc EXCEPT ![p] = where], loc' = [loc EXCEPT ![p] = l], InQueues, client' = client,
         SameSessions, \A m \in late' \ late : LateOk(m)', Rest \/ (HistoryTyped' /\ Remembers),
         Reliable \/ (Fault /\ Faulty), MemberOk(p)', Onward(p)
  PROVE  OpenCodeInv'
<1>1. Types /\ CallsOk
  BY DEF OpenCodeInv
<1>2. where \in Rests \union MemberSteps \union MainSteps
  OBVIOUS
<1>3. left' \in LeftType /\ (UNCHANGED history \/ (HistoryTyped' /\ Remembers))
  BY <1>1, Bounds DEF Rest
<1>4. p \in Everyone /\ queue' \in [Sids -> Seq(Procs)] /\ admission' \in Seq(Procs) /\ Places(p)
  BY <1>1, Who, InPlace
<1> QED
  BY <1>2, <1>3, <1>4, StepOn

(* A listed session is taken, or a new one is asked for. *)
LEMMA Adopting ==
  ASSUME OpenCodeInv, NEW p \in Procs, pc[p] \in {"list", "relist"}, Adopts(p),
         UNCHANGED <<sessions, late>>, InQueues, client' = client, UNCHANGED history, Reliable
  PROVE  OpenCodeInv'
<1>1. p \in Calls \X Members /\ MemberOk(p) /\ Types /\ CallsOk /\ loc[p] \in LocType
  BY MemberAt DEF MemberSteps
<1>2. /\ pc[p] \in MemberSteps /\ loc[p].kind \in Starts /\ loc[p].req \in {loc[p].kind} \X Reqs
      /\ loc[p].turn = InitialTurn(loc[p].req)
  BY <1>1 DEF MemberOk, MemberSteps
<1>3. SameSessions /\ (\A m \in late' \ late : LateOk(m)') /\ HistoryTyped' /\ Remembers
  BY <1>1, Unchanged, HistoryKept
<1>4. PICK s \in Created(loc[p].req) : loc' = [loc EXCEPT ![p].sid = s] /\ Goto(p, "own")
  BY DEF Adopts
<1>5. s \in DOMAIN sessions /\ s \in Nat /\ sessions[s].req = loc[p].req
  BY <1>1, <1>4, SessionsAre DEF Created
<1> DEFINE l == [loc[p] EXCEPT !.sid = s]
<1>6. l \in LocType /\ l.kind = loc[p].kind /\ l.req = loc[p].req /\ l.turn = loc[p].turn /\ l.sid = s
  BY <1>1, <1>5 DEF LocType
<1>7. pc' = [pc EXCEPT ![p] = "own"] /\ loc' = [loc EXCEPT ![p] = l]
  BY <1>4 DEF Goto
<1> HIDE DEF l
<1>8. pc'[p] = "own" /\ loc'[p] = l
  BY <1>1, <1>7, Lands
<1>9. s \in DOMAIN sessions' /\ sessions'[s].req = loc[p].req
  BY <1>5
<1>10. MemberOk(p)'
  BY <1>2, <1>6, <1>8, <1>9 DEF MemberOk, MemberSteps
<1>11. Onward(p)
  BY <1>2, <1>6, <1>8 DEF Onward
<1>12. "own" \in MemberSteps
  BY DEF MemberSteps
<1> QED
  BY <1>1, <1>3, <1>6, <1>7, <1>10, <1>11, <1>12, MemberGoesOn

LEMMA NoneListed ==
  ASSUME OpenCodeInv, NEW p \in Procs, pc[p] = "list", loc' = [loc EXCEPT ![p].client = client], Goto(p, "create"),
         UNCHANGED <<sessions, late>>, InQueues, client' = client, UNCHANGED <<early, tardy, missed>>,
         \/ Created(loc[p].req) = {} /\ Reliable /\ UNCHANGED buried
         \/ Fault /\ Faulty /\ buried' = buried \union {loc[p].req}
  PROVE  OpenCodeInv'
<1>1. p \in Calls \X Members /\ MemberOk(p) /\ Types /\ CallsOk /\ loc[p] \in LocType
  BY MemberAt DEF MemberSteps
<1>2. /\ pc[p] \in MemberSteps /\ loc[p].kind \in Starts /\ loc[p].req \in {loc[p].kind} \X Reqs
      /\ loc[p].turn = InitialTurn(loc[p].req)
  BY <1>1 DEF MemberOk, MemberSteps
<1>3. SameSessions /\ \A m \in late' \ late : LateOk(m)'
  BY <1>1, Unchanged
<1>4. HistoryTyped' /\ Remembers
  <2>1. early \in BOOLEAN /\ tardy \in BOOLEAN /\ buried \subseteq Ids /\ missed \in Nat /\ loc[p].req \in Ids
    BY <1>1, LocFields DEF Types, HistoryTyped
  <2> QED
    BY <2>1 DEF HistoryTyped, Remembers
<1> DEFINE l == [loc[p] EXCEPT !.client = client]
<1>5. l \in LocType /\ l.kind = loc[p].kind /\ l.req = loc[p].req /\ l.turn = loc[p].turn
  BY <1>1, TypesAre DEF LocType
<1>6. pc' = [pc EXCEPT ![p] = "create"] /\ loc' = [loc EXCEPT ![p] = l]
  BY DEF Goto
<1> HIDE DEF l
<1>7. pc'[p] = "create" /\ loc'[p] = l
  BY <1>1, <1>6, Lands
<1>8. MemberOk(p)'
  BY <1>2, <1>5, <1>7 DEF MemberOk, MemberSteps
<1>9. Onward(p)
  BY <1>2, <1>5, <1>7 DEF Onward
<1>10. "create" \in MemberSteps
  BY DEF MemberSteps
<1> QED
  BY <1>1, <1>3, <1>4, <1>5, <1>6, <1>8, <1>9, <1>10, MemberGoesOn

LEMMA MemberFinds ==
  ASSUME OpenCodeInv, NEW p \in Procs, List(p) \/ Relist(p)
  PROVE  OpenCodeInv'
<1>1. CASE List(p)
  <2>1. /\ pc[p] = "list" /\ UNCHANGED <<sessions, late>> /\ InQueues /\ client' = client
        /\ UNCHANGED <<early, tardy, missed>>
    BY <1>1 DEF List, May, Stay, InQueues, backend
  <2>2. CASE Reliable /\ Adopts(p) /\ UNCHANGED buried
    <3>1. UNCHANGED history
      BY <2>1, <2>2 DEF history
    <3> QED
      BY <2>1, <2>2, <3>1, Adopting
  <2>3. CASE /\ loc' = [loc EXCEPT ![p].client = client] /\ Goto(p, "create")
             /\ IF Created(loc[p].req) = {} THEN Reliable /\ UNCHANGED buried
                ELSE Fault /\ Faulty /\ buried' = buried \union {loc[p].req}
    <3>1. \/ Created(loc[p].req) = {} /\ Reliable /\ UNCHANGED buried
          \/ Fault /\ Faulty /\ buried' = buried \union {loc[p].req}
      BY <2>3
    <3> QED
      BY <2>1, <2>3, <3>1, NoneListed
  <2> QED
    BY <1>1, <2>2, <2>3 DEF List
<1>2. CASE Relist(p)
  <2>1. pc[p] = "relist" /\ pc[p] # "members" /\ UNCHANGED <<sessions, late>> /\ Rest
    BY <1>2 DEF Relist, May
  <2>2. CASE Reliable /\ Adopts(p) /\ UNCHANGED <<backend, admission, queue>>
    <3>1. InQueues /\ client' = client /\ UNCHANGED history
      BY <2>1, <2>2 DEF InQueues, backend, Rest
    <3> QED
      BY <2>1, <2>2, <3>1, Adopting
  <2>3. CASE Answered(p, "error") /\ (Reliable \/ (Fault /\ Faulty))
    BY <2>1, <2>3, EndsUnchanged DEF Whys
  <2> QED
    BY <1>2, <2>2, <2>3 DEF Relist, Read
<1> QED
  BY <1>1, <1>2

LEMMA OwnMember ==
  ASSUME OpenCodeInv, NEW p \in Procs, Own(p)
  PROVE  OpenCodeInv'
<1> DEFINE s == loc[p].sid
           after == [sessions EXCEPT ![s].member = TRUE]
<1>1. pc[p] = "own" /\ pc[p] # "members" /\ UNCHANGED late /\ Rest
  BY DEF Own, May
<1>2. p \in Calls \X Members /\ MemberOk(p) /\ Types /\ CallsOk /\ loc[p] \in LocType
  BY <1>1, MemberAt DEF MemberSteps
<1>3. /\ pc[p] \in MemberSteps /\ loc[p].kind \in Starts /\ loc[p].req \in {loc[p].kind} \X Reqs
      /\ loc[p].turn = InitialTurn(loc[p].req) /\ s \in DOMAIN sessions /\ sessions[s].req = loc[p].req
  BY <1>1, <1>2 DEF MemberOk, MemberSteps
<1>4. PICK owned \in BOOLEAN : /\ Owned(p, owned) /\ sessions' \in {sessions, after} /\ (owned => sessions' = after)
                               /\ Reliable \/ (Fault /\ Faulty)
  <2>1. CASE Taken(client) /\ sessions' = after /\ Owned(p, TRUE)
    BY <2>1 DEF Taken
  <2>2. CASE Fault /\ Faulty /\ sessions' \in {sessions, after} /\ Owned(p, FALSE)
    BY <2>2
  <2>3. CASE Reliable /\ UNCHANGED sessions /\ Owned(p, FALSE)
    BY <2>3
  <2> QED
    BY <2>1, <2>2, <2>3 DEF Own
<1>5. SameSessions
  BY <1>2, <1>3, <1>4, Marked
<1>6. s \in DOMAIN sessions' /\ sessions'[s].req = loc[p].req
  BY <1>3, <1>5, SameGrow DEF Grows
<1>7. owned => sessions'[s].member = TRUE
  <2>1. sessions[s] \in SessionType
    BY <1>2, <1>3, SessionsAre
  <2> QED
    BY <1>3, <1>4, <2>1 DEF SessionType
<1>8. CASE Answered(p, "incomplete")
  BY <1>1, <1>4, <1>5, <1>8, Fails DEF Whys
<1>9. CASE Swarm(p) /\ loc' = [loc EXCEPT ![p].owned = owned] /\ Goto(p, "join") /\ UNCHANGED <<backend, admission, queue>>
  <2> DEFINE l == [loc[p] EXCEPT !.owned = owned]
  <2>1. /\ l \in LocType /\ l.kind = loc[p].kind /\ l.req = loc[p].req /\ l.turn = loc[p].turn /\ l.sid = s
        /\ l.owned = TRUE => owned
    BY <1>2 DEF LocType
  <2>2. pc' = [pc EXCEPT ![p] = "join"] /\ loc' = [loc EXCEPT ![p] = l] /\ InQueues /\ client' = client
    BY <1>9 DEF Goto, InQueues, backend
  <2> HIDE DEF l
  <2>3. pc'[p] = "join" /\ loc'[p] = l
    BY <1>2, <2>2, Lands
  <2>4. loc[p].kind = "swarm_start"
    BY <1>9 DEF Swarm
  <2>5. MemberOk(p)'
    BY <1>3, <1>6, <1>7, <2>1, <2>3, <2>4 DEF MemberOk, MemberSteps
  <2>6. Onward(p)
    BY <1>1, <1>3, <2>1, <2>3 DEF Onward
  <2>7. "join" \in MemberSteps /\ \A m \in late' \ late : LateOk(m)'
    BY <1>1 DEF MemberSteps
  <2> QED
    BY <1>1, <1>2, <1>4, <1>5, <2>1, <2>2, <2>5, <2>6, <2>7, MemberGoesOn
<1>10. CASE ~Swarm(p) /\ owned /\ Goto(p, "find") /\ UNCHANGED <<loc, backend, admission, queue>>
  <2>1. pc' = [pc EXCEPT ![p] = "find"] /\ loc' = [loc EXCEPT ![p] = loc[p]] /\ InQueues /\ client' = client
    BY <1>2, <1>10, LocUnchanged DEF Goto, InQueues, backend
  <2>2. pc'[p] = "find" /\ loc'[p] = loc[p]
    BY <1>2, <2>1, Lands
  <2>3. MemberOk(p)'
    BY <1>3, <1>6, <1>7, <1>10, <2>2 DEF MemberOk, MemberSteps, Swarm
  <2>4. Onward(p)
    BY <1>1, <1>3, <2>2 DEF Onward
  <2>5. "find" \in MemberSteps /\ \A m \in late' \ late : LateOk(m)'
    BY <1>1 DEF MemberSteps
  <2> QED
    BY <1>1, <1>2, <1>4, <1>5, <2>1, <2>3, <2>4, <2>5, MemberGoesOn
<1> QED
  BY <1>4, <1>8, <1>9, <1>10 DEF Owned

LEMMA JoinMember ==
  ASSUME OpenCodeInv, NEW p \in Procs, Join(p)
  PROVE  OpenCodeInv'
<1> DEFINE s == loc[p].sid
           after == [sessions EXCEPT ![s].swarm = TRUE]
<1>1. pc[p] = "join" /\ pc[p] # "members" /\ UNCHANGED late /\ Rest
  BY DEF Join, May
<1>2. p \in Calls \X Members /\ MemberOk(p) /\ Types /\ CallsOk /\ loc[p] \in LocType
  BY <1>1, MemberAt DEF MemberSteps
<1>3. /\ pc[p] \in MemberSteps /\ loc[p].kind \in Starts /\ loc[p].req \in {loc[p].kind} \X Reqs
      /\ loc[p].turn = InitialTurn(loc[p].req) /\ s \in DOMAIN sessions /\ sessions[s].req = loc[p].req
      /\ loc[p].owned = TRUE => sessions[s].member = TRUE
  BY <1>1, <1>2 DEF MemberOk, MemberSteps
<1>4. sessions' \in {sessions, after} /\ (Reliable \/ (Fault /\ Faulty))
  BY DEF Join, Taken
<1>5. SameSessions
  BY <1>2, <1>3, <1>4, Marked
<1>6. s \in DOMAIN sessions' /\ sessions'[s].req = loc[p].req /\ (sessions[s].member = TRUE => sessions'[s].member = TRUE)
  BY <1>3, <1>5, SameGrow DEF Grows
<1>7. CASE Answered(p, "incomplete")
  BY <1>1, <1>4, <1>5, <1>7, Fails DEF Whys
<1>8. CASE sessions' = after /\ loc[p].owned /\ Goto(p, "find") /\ UNCHANGED <<loc, backend, admission, queue>>
  <2>1. pc' = [pc EXCEPT ![p] = "find"] /\ loc' = [loc EXCEPT ![p] = loc[p]] /\ InQueues /\ client' = client
    BY <1>2, <1>8, LocUnchanged DEF Goto, InQueues, backend
  <2>2. pc'[p] = "find" /\ loc'[p] = loc[p]
    BY <1>2, <2>1, Lands
  <2>3. sessions[s] \in SessionType /\ loc[p].owned \in BOOLEAN
    BY <1>2, <1>3, SessionsAre, LocFields
  <2>4. sessions'[s].swarm = TRUE
    BY <1>3, <1>8, <2>3 DEF SessionType
  <2>5. loc[p].owned = TRUE
    BY <1>8, <2>3
  <2>6. MemberOk(p)'
    BY <1>3, <1>6, <2>2, <2>4, <2>5 DEF MemberOk, MemberSteps
  <2>7. Onward(p)
    BY <1>1, <1>3, <2>2 DEF Onward
  <2>8. "find" \in MemberSteps /\ \A m \in late' \ late : LateOk(m)'
    BY <1>1 DEF MemberSteps
  <2> QED
    BY <1>1, <1>2, <1>4, <1>5, <2>1, <2>6, <2>7, <2>8, MemberGoesOn
<1> QED
  BY <1>7, <1>8 DEF Join

LEMMA FindMember ==
  ASSUME OpenCodeInv, NEW p \in Procs, Find(p)
  PROVE  OpenCodeInv'
<1>1. pc[p] = "find" /\ pc[p] # "members" /\ UNCHANGED <<sessions, late>> /\ Rest /\ Reliable
  BY DEF Find, May, Read
<1>2. p \in Calls \X Members /\ MemberOk(p) /\ Types /\ CallsOk /\ loc[p] \in LocType
  BY <1>1, MemberAt DEF MemberSteps
<1>3. SameSessions
  BY <1>1, <1>2, Unchanged
<1>4. CASE Answered(p, "ok")
  BY <1>1, <1>4, EndsUnchanged DEF Whys
<1>5. CASE ~Has(loc[p].sid, loc[p].turn) /\ Goto(p, "prompt") /\ UNCHANGED <<loc, auth, client, pin, admission, queue>>
  <2>1. pc' = [pc EXCEPT ![p] = "prompt"] /\ loc' = [loc EXCEPT ![p] = loc[p]] /\ InQueues /\ client' = client
    BY <1>2, <1>5, LocUnchanged DEF Goto, InQueues
  <2>2. pc'[p] = "prompt" /\ loc'[p] = loc[p]
    BY <1>2, <2>1, Lands
  <2>3. MemberOk(p)'
    BY <1>1, <1>2, <2>2 DEF MemberOk, MemberSteps
  <2>4. Onward(p)
    BY <1>1, <1>2, <1>5, <2>2 DEF Onward, MemberOk, MemberSteps
  <2>5. "prompt" \in MemberSteps /\ \A m \in late' \ late : LateOk(m)'
    BY <1>1 DEF MemberSteps
  <2> QED
    BY <1>1, <1>2, <1>3, <2>1, <2>3, <2>4, <2>5, MemberGoesOn
<1> QED
  BY <1>4, <1>5 DEF Find

-----------------------------------------------------------------------------
(* The server by itself, and the application again.                        *)

LEMMA ServerMoves ==
  ASSUME OpenCodeInv, SameSessions, late' \subseteq late, left' \in LeftType,
         UNCHANGED <<client, pc, loc, admission, queue, history>>
  PROVE  OpenCodeInv'
<1>1. Types /\ CallsOk
  BY DEF OpenCodeInv
<1>2. CallsTyped'
  BY <1>1, TypesAre DEF CallsTyped
<1>3. Types' /\ Remembers
  BY <1>1, <1>2, StillTyped, TypesAre, HistoryKept
<1>4. \A q \in Procs : Kept(q)
  BY DEF Kept
<1>5. Pump \in Everyone /\ Pump \notin Calls \X Members /\ \A c \in Calls : Pump # Main(c)
  BY Who
<1>6. Others(Pump) /\ Places(Pump)
  BY <1>1, <1>4 DEF Others, Places, CallsOk
<1> QED
  BY <1>3, <1>5, <1>6, Moves

LEMMA TurnsGoOn ==
  ASSUME OpenCodeInv, NEW s \in DOMAIN sessions, TurnStarts(s) \/ TurnEnds(s)
  PROVE  OpenCodeInv'
<1>1. Types
  BY DEF OpenCodeInv
<1>2. /\ sessions' = WithTurns(sessions, s, {"accepted"}, "running") \/ sessions' = WithTurns(sessions, s, {"running", "aborting"}, "ended")
      /\ UNCHANGED <<late, left, client, pc, loc, admission, queue, history>>
  BY DEF TurnStarts, TurnEnds, ServerStep, backend, history
<1>3. SameSessions
  BY <1>1, <1>2, TurnsMild
<1> QED
  BY <1>1, <1>2, <1>3, TypesAre, ServerMoves

LEMMA AgentAsks ==
  ASSUME OpenCodeInv, NEW s \in DOMAIN sessions, Asks(s)
  PROVE  OpenCodeInv'
<1>1. Types
  BY DEF OpenCodeInv
<1>2. /\ sessions' = [sessions EXCEPT ![s].asks = TRUE] /\ left' = [left EXCEPT !.asks = @ - 1] /\ left.asks > 0
      /\ UNCHANGED <<late, client, pc, loc, admission, queue, history>>
  BY DEF Asks, ServerStep, backend, history
<1>3. SameSessions
  BY <1>1, <1>2, Marked
<1>4. left' \in LeftType
  <2> DEFINE n == left.asks - 1
  <2>1. left \in LeftType
    BY <1>1, TypesAre
  <2>2. n \in Nat
    BY <1>2, <2>1 DEF LeftType
  <2>3. left' = [left EXCEPT !.asks = n]
    BY <1>2
  <2> HIDE DEF n
  <2> QED
    BY <2>1, <2>2, <2>3 DEF LeftType
<1> QED
  BY <1>2, <1>3, <1>4, ServerMoves

LEMMA ServerReplaced ==
  ASSUME OpenCodeInv, Replaced
  PROVE  OpenCodeInv'
<1>1. Types
  BY DEF OpenCodeInv
<1>2. /\ sessions' = [s \in DOMAIN sessions |-> [WithTurns(sessions, s, Unfinished, "lost")[s] EXCEPT !.asks = FALSE]]
      /\ late' = {} /\ Fault /\ Faulty /\ UNCHANGED <<client, pc, loc, admission, queue, history>>
  BY DEF Replaced, backend, history
<1>3. sessions \in Seq(SessionType) /\ DOMAIN sessions = 1..Len(sessions) /\ Len(sessions) \in Nat
      /\ \A s \in DOMAIN sessions : sessions[s] \in SessionType
  BY <1>1, SessionsAre
<1>4. ASSUME NEW s \in DOMAIN sessions PROVE Milder(sessions[s], sessions'[s])
  <2> DEFINE x == sessions[s]
             turns == [i \in DOMAIN x.turns |-> IF x.turns[i].state \in Unfinished THEN [x.turns[i] EXCEPT !.state = "lost"]
                                                ELSE x.turns[i]]
             y == [x EXCEPT !.turns = turns]
             z == [y EXCEPT !.asks = FALSE]
  <2>1. Milder(x, y)
    BY <1>3, TurnsChanged
  <2>2. sessions'[s] = z
    <3>1. WithTurns(sessions, s, Unfinished, "lost")[s] = y
      BY <1>3 DEF WithTurns
    <3> QED
      BY <1>2, <3>1
  <2> HIDE DEF turns, y
  <2>3. y \in SessionType
    BY <2>1 DEF Milder
  <2>4. z \in SessionType /\ z.req = y.req /\ z.member = y.member /\ z.swarm = y.swarm /\ z.turns = y.turns
    BY <2>3 DEF SessionType
  <2> HIDE DEF z
  <2>5. Milder(x, z)
    BY <2>1, <2>4 DEF Milder
  <2> QED
    BY <2>2, <2>5
<1>5. SameSessions
  <2>1. \A s \in DOMAIN sessions : sessions'[s] \in SessionType
    BY <1>4 DEF Milder
  <2>2. sessions' \in [1..Len(sessions) -> SessionType]
    BY <1>2, <1>3, <2>1
  <2>3. sessions' \in Seq(SessionType) /\ Len(sessions') = Len(sessions) /\ DOMAIN sessions' = DOMAIN sessions
    BY <1>3, <2>2, SequenceOf
  <2> QED
    BY <1>4, <2>3 DEF SameSessions
<1>6. left' \in LeftType
  BY <1>1, <1>2, Bounds
<1> QED
  BY <1>2, <1>5, <1>6, ServerMoves

LEMMA ApplicationRestarts ==
  ASSUME OpenCodeInv, Restart
  PROVE  OpenCodeInv'
<1>1. Types /\ CallsOk /\ ServerOk
  BY DEF OpenCodeInv
<1>2. /\ pc' = [p \in DOMAIN pc |-> IF p = Pump THEN "off" ELSE "idle"] /\ loc' = [p \in DOMAIN loc |-> NoLocals]
      /\ admission' = <<>> /\ queue' = [s \in Sids |-> <<>>] /\ client' = 1
      /\ UNCHANGED <<sessions, late, history>> /\ Fault /\ Faulty
  BY DEF Restart, server, history
<1>3. /\ pc' \in [Everyone -> Rests \union MemberSteps \union MainSteps \union {"off", "subscribe"}]
      /\ pc'[Pump] = "off" /\ \A q \in Procs : pc'[q] = "idle"
  BY <1>1, <1>2, TypesAre, Who DEF Rests
<1>4. CallsTyped'
  <2>1. loc' \in [Everyone -> LocType]
    BY <1>1, <1>2, TypesAre, NoLocalsTyped
  <2> QED
    BY <1>2, <1>3, <2>1 DEF CallsTyped
<1>5. SameSessions
  BY <1>1, <1>2, Unchanged
<1>6. left' \in LeftType
  BY <1>1, <1>2, Bounds
<1>7. Types' /\ Remembers /\ early' = early /\ tardy' = tardy
  BY <1>1, <1>2, <1>4, <1>5, <1>6, StillTyped, TypesAre, HistoryKept DEF history
<1>8. CallsOk'
  <2>1. \A c \in Calls : MainOk(Main(c))'
    BY <1>3, Who DEF MainOk, MainSteps, Turning
  <2>2. \A p \in Calls \X Members : MemberOk(p)'
    BY <1>3, Who DEF MemberOk, Rests, MemberSteps
  <2> QED
    BY <1>3, <2>1, <2>2 DEF CallsOk
<1>9. ServerOk'
  BY <1>1, <1>2, <1>5, ServerKept
<1>10. Serial /\ Regular
  BY DEF OpenCodeInv
<1>11. Serial'
  BY <1>1, <1>5, <1>7, <1>10, SerialKept DEF Remembers
<1>12. Regular'
  <2> SUFFICES ASSUME early = FALSE, tardy = FALSE PROVE (\A c \in Calls : BatchOk(c)') /\ Unique' /\ Room'
    BY <1>7 DEF Regular
  <2>1. (\A c \in Calls : BatchOk(c)) /\ Unique /\ Room
    BY <1>10 DEF Regular
  <2>2. \A c \in Calls : pc'[Main(c)] = "idle" /\ \A i \in Members : pc'[<<c, i>>] = "idle"
    BY <1>3, Who
  <2>3. \A c \in Calls : BatchOk(c)'
    BY <2>2 DEF BatchOk, AtWorkNow, MemberSteps
  <2>4. Unique'
    BY <1>1, <1>5, <1>7, <2>1, UniqueKept
  <2>5. StillToStart' \subseteq StillToStart
    BY <1>3, Who DEF StillToStart, MemberSteps
  <2>6. Room'
    BY <1>1, <1>5, <1>7, <2>1, <2>5, NothingStarts, RoomKept
  <2> QED
    BY <2>3, <2>4, <2>6
<1> QED
  BY <1>7, <1>8, <1>9, <1>11, <1>12 DEF OpenCodeInv

-----------------------------------------------------------------------------
(* A session or a turn more.                                               *)

LEMMA NewSession ==
  ASSUME Types, NEW id \in Ids, Len(sessions) < MaxSessions, sessions' = WithSession(sessions, id)
  PROVE  /\ sessions' \in Seq(SessionType) /\ Len(sessions') = Len(sessions) + 1 /\ Len(sessions') <= MaxSessions
         /\ DOMAIN sessions' = DOMAIN sessions \union {Len(sessions) + 1} /\ Len(sessions) + 1 \notin DOMAIN sessions
         /\ \A s \in DOMAIN sessions : sessions'[s] = sessions[s]
         /\ sessions'[Len(sessions) + 1].req = id /\ sessions'[Len(sessions) + 1].turns = <<>>
         /\ Grows
<1> DEFINE x == [req |-> id, member |-> FALSE, swarm |-> FALSE, paused |-> FALSE, asks |-> FALSE, turns |-> <<>>]
<1>1. x \in SessionType /\ x.req = id /\ x.turns = <<>>
  BY DEF SessionType
<1>2. sessions \in Seq(SessionType) /\ Len(sessions) \in Nat /\ MaxSessions \in Nat
  BY SessionsAre, OpenCodeAssumption DEF OpenCodeAssumption
<1>3. sessions' = Append(sessions, x)
  BY DEF WithSession
<1> HIDE DEF x
<1>4. /\ sessions' \in Seq(SessionType) /\ Len(sessions') = Len(sessions) + 1
      /\ DOMAIN sessions' = DOMAIN sessions \union {Len(sessions) + 1} /\ Len(sessions) + 1 \notin DOMAIN sessions
      /\ sessions'[Len(sessions) + 1] = x /\ \A i \in DOMAIN sessions : sessions'[i] = sessions[i]
  BY <1>1, <1>2, <1>3, Appending
<1>5. Len(sessions') <= MaxSessions
  BY <1>2, <1>4
<1>6. Grows
  BY <1>4 DEF Grows
<1> QED
  BY <1>1, <1>4, <1>5, <1>6

LEMMA NewTurn ==
  ASSUME Types, NEW s \in DOMAIN sessions, NEW t \in TurnType, sessions' = WithTurn(sessions, s, t)
  PROVE  /\ sessions' \in Seq(SessionType) /\ Len(sessions') = Len(sessions) /\ DOMAIN sessions' = DOMAIN sessions
         /\ \A u \in DOMAIN sessions : u # s => sessions'[u] = sessions[u]
         /\ \A u \in DOMAIN sessions : sessions'[u].req = sessions[u].req /\ sessions'[u].member = sessions[u].member
                                       /\ sessions'[u].swarm = sessions[u].swarm
         /\ sessions'[s].turns = Append(sessions[s].turns, t)
         /\ Grows
<1> DEFINE turns == Append(sessions[s].turns, t)
           y == [sessions[s] EXCEPT !.turns = turns]
<1>1. sessions \in Seq(SessionType) /\ DOMAIN sessions = 1..Len(sessions) /\ Len(sessions) \in Nat /\ sessions[s] \in SessionType
  BY SessionsAre
<1>2. turns \in Seq(TurnType)
  BY <1>1, SessionFields, Appending
<1>3. sessions' = [sessions EXCEPT ![s] = y]
  BY DEF WithTurn
<1> HIDE DEF turns
<1>4. y \in SessionType /\ y.req = sessions[s].req /\ y.member = sessions[s].member /\ y.swarm = sessions[s].swarm /\ y.turns = turns
  BY <1>1, <1>2 DEF SessionType
<1> HIDE DEF y
<1>5. sessions' \in [1..Len(sessions) -> SessionType]
  BY <1>1, <1>3, <1>4
<1>6. sessions' \in Seq(SessionType) /\ Len(sessions') = Len(sessions) /\ DOMAIN sessions' = DOMAIN sessions
  BY <1>1, <1>5, SequenceOf
<1>7. sessions'[s] = y /\ \A u \in DOMAIN sessions : u # s => sessions'[u] = sessions[u]
  BY <1>3
<1>8. \A u \in DOMAIN sessions : sessions'[u].req = sessions[u].req /\ sessions'[u].member = sessions[u].member
                                 /\ sessions'[u].swarm = sessions[u].swarm
  BY <1>4, <1>7
<1>9. Grows
  BY <1>6, <1>8 DEF Grows
<1> QED
  BY <1>4, <1>6, <1>7, <1>8, <1>9 DEF turns

LEMMA NewSessionOk ==
  ASSUME Types, ServerOk, NEW id \in Ids, Len(sessions) < MaxSessions, sessions' = WithSession(sessions, id),
         \A m \in late' \ late : LateOk(m)'
  PROVE  ServerOk'
<1>1. /\ DOMAIN sessions' = DOMAIN sessions \union {Len(sessions) + 1} /\ \A s \in DOMAIN sessions : sessions'[s] = sessions[s]
      /\ sessions'[Len(sessions) + 1].turns = <<>> /\ Grows
  BY NewSession
<1>2. \A s \in DOMAIN sessions' : SessionOk(sessions'[s])
  <2>1. SessionOk(sessions'[Len(sessions) + 1])
    BY <1>1 DEF SessionOk
  <2> QED
    BY <1>1, <2>1 DEF ServerOk
<1>3. \A m \in late' : LateOk(m)'
  BY <1>1, LateKept DEF ServerOk
<1> QED
  BY <1>2, <1>3 DEF ServerOk

LEMMA NewTurnOk ==
  ASSUME Types, ServerOk, NEW s \in DOMAIN sessions, NEW t \in TurnType, sessions' = WithTurn(sessions, s, t),
         t.state = "accepted", t.by = "start" => sessions[s].member = TRUE,
         \A id \in Starts \X Reqs : t.id = InitialTurn(id) => sessions[s].req = id,
         \A m \in late' \ late : LateOk(m)'
  PROVE  ServerOk'
<1>1. /\ DOMAIN sessions' = DOMAIN sessions /\ \A u \in DOMAIN sessions : u # s => sessions'[u] = sessions[u]
      /\ sessions'[s].req = sessions[s].req /\ sessions'[s].member = sessions[s].member
      /\ sessions'[s].turns = Append(sessions[s].turns, t) /\ Grows
  BY NewTurn
<1> DEFINE turns == sessions[s].turns
           n == Len(turns) + 1
<1>2. SessionOk(sessions[s]) /\ turns \in Seq(TurnType) /\ DOMAIN turns = 1..Len(turns) /\ Len(turns) \in Nat
  BY SessionsAre, SessionFields DEF ServerOk
<1>3. /\ DOMAIN sessions'[s].turns = DOMAIN turns \union {n}
      /\ sessions'[s].turns[n] = t /\ \A i \in DOMAIN turns : sessions'[s].turns[i] = turns[i]
  BY <1>1, <1>2, Appending
<1>4. \A i \in DOMAIN turns : i \in Nat /\ i < n
  BY <1>2
<1>5. n \in Nat /\ ~(n < n)
  BY <1>2
<1> HIDE DEF n
<1>6. SessionOk(sessions'[s])
  <2>1. \A i \in DOMAIN sessions'[s].turns : sessions'[s].turns[i].by = "start" => sessions'[s].member = TRUE
    BY <1>1, <1>2, <1>3 DEF SessionOk
  <2>2. ASSUME NEW i \in DOMAIN sessions'[s].turns, NEW j \in DOMAIN sessions'[s].turns, i < j,
               sessions'[s].turns[i].state = "accepted"
        PROVE  sessions'[s].turns[j].state = "accepted"
    <3>1. CASE j = n
      BY <1>3, <3>1
    <3>2. CASE j # n
      <4>1. j \in DOMAIN turns /\ i # n
        BY <1>3, <1>4, <1>5, <2>2, <3>2
      <4>2. i \in DOMAIN turns
        BY <1>3, <4>1
      <4> QED
        BY <1>2, <1>3, <2>2, <4>1, <4>2 DEF SessionOk
    <3> QED
      BY <3>1, <3>2
  <2>3. \A i \in DOMAIN sessions'[s].turns, id \in Starts \X Reqs : sessions'[s].turns[i].id = InitialTurn(id) => sessions'[s].req = id
    BY <1>1, <1>2, <1>3 DEF SessionOk
  <2> QED
    BY <2>1, <2>2, <2>3 DEF SessionOk
<1>7. \A u \in DOMAIN sessions' : SessionOk(sessions'[u])
  <2>1. \A u \in DOMAIN sessions : u # s => SessionOk(sessions'[u])
    BY <1>1 DEF ServerOk
  <2> QED
    BY <1>1, <1>6, <2>1
<1>8. \A m \in late' : LateOk(m)'
  BY <1>1, LateKept DEF ServerOk
<1> QED
  BY <1>7, <1>8 DEF ServerOk

(* What the server takes late makes the behaviour one that promises less.  *)
LEMMA TakenLate ==
  ASSUME OpenCodeInv, NEW m \in late, TakesLate(m)
  PROVE  OpenCodeInv'
<1>1. Types /\ CallsOk /\ ServerOk /\ LateOk(m)
  BY DEF OpenCodeInv, ServerOk
<1>2. /\ late' = late \ {m} /\ tardy' = TRUE
      /\ UNCHANGED <<left, client, pc, loc, admission, queue, early, buried, missed>>
  BY DEF TakesLate, ServerStep, backend
<1>3. sessions' \in Seq(SessionType) /\ Len(sessions') <= MaxSessions /\ Grows /\ ServerOk'
  <2>1. CASE m.what = "create"
    <3>1. m.req \in Ids /\ Len(sessions) < MaxSessions /\ sessions' = WithSession(sessions, m.req)
      BY <1>1, <2>1 DEF LateOk, TakesLate
    <3> QED
      BY <1>1, <1>2, <3>1, NewSession, NewSessionOk
  <2>2. CASE m.what = "prompt"
    <3>1. /\ m.sid \in DOMAIN sessions /\ m.turn \in TurnType /\ m.turn.state = "accepted"
          /\ m.turn.by = "start" => sessions[m.sid].member = TRUE
          /\ \A id \in Starts \X Reqs : m.turn.id = InitialTurn(id) => sessions[m.sid].req = id
          /\ sessions' = WithTurn(sessions, m.sid, m.turn)
      BY <1>1, <2>2 DEF LateOk, TakesLate
    <3>2. Len(sessions) <= MaxSessions
      BY <1>1 DEF Types
    <3>3. sessions' \in Seq(SessionType) /\ Len(sessions') = Len(sessions) /\ Grows
      BY <1>1, <3>1, NewTurn
    <3>4. ServerOk'
      BY <1>1, <1>2, <3>1, NewTurnOk
    <3> QED
      BY <3>2, <3>3, <3>4
  <2> QED
    BY <1>1, <2>1, <2>2 DEF LateOk
<1>4. Types' /\ Remembers
  <2>1. CallsTyped'
    BY <1>1, <1>2, TypesAre DEF CallsTyped
  <2> QED
    BY <1>1, <1>2, <1>3, <2>1, TypesAre DEF Types, HistoryTyped, Remembers
<1>5. CallsOk'
  <2>1. \A q \in Procs : Kept(q)
    BY <1>2 DEF Kept
  <2>2. Pump \in Everyone /\ Pump \notin Calls \X Members /\ \A c \in Calls : Pump # Main(c)
    BY Who
  <2>3. Others(Pump) /\ Places(Pump)
    BY <1>1, <1>2, <2>1 DEF Others, Places, CallsOk
  <2> QED
    BY <1>1, <1>2, <1>3, <1>4, <2>2, <2>3, CallsKept DEF Remembers
<1>6. Serial' /\ Regular'
  BY <1>2 DEF Serial, Regular
<1> QED
  BY <1>3, <1>4, <1>5, <1>6 DEF OpenCodeInv

-----------------------------------------------------------------------------
(* A session is created.                                                   *)

(* The members at work are those of one batch, for different requests. *)
LEMMA OneBatch ==
  ASSUME OpenCodeInv, early = FALSE, tardy = FALSE, NEW c \in Calls, NEW d \in Calls, Heads(admission, Main(c)),
         NEW i \in Members, AtWorkNow(<<d, i>>)
  PROVE  c = d
<1>1. BatchOk(d)
  BY DEF OpenCodeInv, Regular
<1>2. Heads(admission, Main(d))
  BY <1>1 DEF BatchOk
<1>3. Main(c) = Main(d)
  BY <1>2 DEF Heads
<1> QED
  BY <1>3, Who

LEMMA DifferentRequests ==
  ASSUME OpenCodeInv, early = FALSE, tardy = FALSE, NEW p \in Calls \X Members, NEW q \in Calls \X Members,
         AtWorkNow(p), AtWorkNow(q), p # q
  PROVE  loc[p].req # loc[q].req
<1>1. PICK c \in Calls, i \in Members : p = <<c, i>>
  OBVIOUS
<1>2. PICK d \in Calls, j \in Members : q = <<d, j>>
  OBVIOUS
<1>3. BatchOk(c) /\ BatchOk(d)
  BY DEF OpenCodeInv, Regular
<1>4. Heads(admission, Main(c))
  BY <1>1, <1>3 DEF BatchOk
<1>5. c = d
  BY <1>1, <1>2, <1>4, OneBatch
<1>6. i # j
  BY <1>1, <1>2, <1>5
<1> DEFINE reqs == loc[Main(c)].reqs
<1>7. /\ pc[Main(c)] = "members" /\ i \in DOMAIN reqs /\ j \in DOMAIN reqs
      /\ loc[p].req = <<loc[p].kind, reqs[i]>> /\ loc[q].req = <<loc[q].kind, reqs[j]>>
  BY <1>1, <1>2, <1>3, <1>5 DEF BatchOk, Creation
<1>8. reqs \in Batches
  <2>1. MainOk(Main(c))
    BY DEF OpenCodeInv, CallsOk
  <2> QED
    BY <1>7, <2>1 DEF MainOk
<1>9. reqs \in Seq(Reqs) /\ Len(reqs) \in 1..2 /\ (Len(reqs) = 2 => reqs[1] # reqs[2])
  BY <1>8, OpenCodeAssumption DEF OpenCodeAssumption
<1>10. i \in 1..Len(reqs) /\ j \in 1..Len(reqs) /\ Len(reqs) \in Nat
  BY <1>7, <1>9
<1>11. reqs[i] # reqs[j]
  <2>1. CASE Len(reqs) = 1
    BY <1>6, <1>10, <2>1
  <2>2. CASE Len(reqs) = 2
    <3>1. (i = 1 /\ j = 2) \/ (i = 2 /\ j = 1)
      BY <1>6 DEF Members
    <3> QED
      BY <1>9, <2>2, <3>1
  <2> QED
    BY <1>9, <2>1, <2>2
<1> QED
  BY <1>7, <1>11

LEMMA Creating ==
  ASSUME OpenCodeInv, NEW p \in Procs, p \in Calls \X Members, pc[p] = "create", Len(sessions) < MaxSessions,
         sessions' = WithSession(sessions, loc[p].req), late' = late, NEW where \in {"own", "relist"}, NEW l \in LocType,
         l.kind = loc[p].kind, l.req = loc[p].req, l.turn = loc[p].turn, where = "own" => l.sid = Len(sessions) + 1,
         pc' = [pc EXCEPT ![p] = where], loc' = [loc EXCEPT ![p] = l],
         UNCHANGED <<backend, admission, queue>>, Rest, Reliable \/ (Fault /\ Faulty)
  PROVE  OpenCodeInv'
<1> DEFINE r == loc[p].req
           n == Len(sessions) + 1
<1>1. Types /\ CallsOk /\ ServerOk /\ Serial /\ Regular
  BY DEF OpenCodeInv
<1>2. MemberOk(p) /\ loc[p].kind \in Starts /\ r \in {loc[p].kind} \X Reqs /\ loc[p].turn = InitialTurn(r)
  BY <1>1, OfCalls DEF MemberOk, MemberSteps
<1>3. r \in Ids /\ r \in Starts \X Reqs
  BY <1>2 DEF Ids
<1>4. /\ sessions' \in Seq(SessionType) /\ Len(sessions') = n /\ Len(sessions') <= MaxSessions
      /\ DOMAIN sessions' = DOMAIN sessions \union {n} /\ n \notin DOMAIN sessions
      /\ \A s \in DOMAIN sessions : sessions'[s] = sessions[s]
      /\ sessions'[n].req = r /\ sessions'[n].turns = <<>> /\ Grows
  BY <1>1, <1>3, NewSession
<1> HIDE DEF n
<1>5. where \in Rests \union MemberSteps \union MainSteps /\ where \in MemberSteps
  BY DEF MemberSteps
<1>6. queue' \in [Sids -> Seq(Procs)] /\ admission' \in Seq(Procs) /\ Places(p)
  BY <1>1, InPlace, Who DEF InQueues
<1>7. CallsTyped' /\ Others(p) /\ pc'[p] = where /\ loc'[p] = l
  BY <1>1, <1>5, <1>6, GoesOn
<1>8. /\ HistoryTyped' /\ Remembers /\ early' = early /\ tardy' = tardy /\ buried' = buried
      /\ client' = client /\ left' \in LeftType
  BY <1>1, Bounds, HistoryKept DEF Rest, history, backend
<1>9. Types'
  BY <1>1, <1>4, <1>7, <1>8, TypesAre DEF Types
<1>10. ServerOk'
  BY <1>1, <1>3, NewSessionOk
<1>11. p \in Everyone /\ \A c \in Calls : p # Main(c)
  BY <1>1, OfCalls
<1>12. MemberOk(p)'
  <2>1. where = "own" => l.sid \in DOMAIN sessions' /\ sessions'[l.sid].req = r
    BY <1>4 DEF n
  <2> QED
    BY <1>2, <1>5, <1>7, <2>1 DEF MemberOk, MemberSteps
<1>13. \A s \in DOMAIN sessions : Continued(s)' = Continued(s)
  BY <1>4 DEF Continued
<1>14. CallsOk'
  BY <1>1, <1>4, <1>7, <1>6, <1>8, <1>11, <1>12, <1>13, CallsKept
<1>15. Serial'
  <2>1. PICK new : new = n
    OBVIOUS
  <2>2. Continued(new)' = {}
    BY <1>4, <2>1 DEF Continued
  <2>3. \A s \in DOMAIN sessions' : s \in DOMAIN sessions \/ s = new
    BY <1>4, <2>1
  <2>4. \A s \in DOMAIN sessions' : Continued(s)' \subseteq IF s = new THEN {} ELSE Continued(s)
    BY <1>13, <2>2, <2>3
  <2> QED
    BY <1>1, <1>8, <2>3, <2>4 DEF Serial
<1>16. ASSUME early = FALSE, tardy = FALSE PROVE (\A c \in Calls : BatchOk(c)') /\ Unique' /\ Room'
  <2>1. (\A c \in Calls : BatchOk(c)) /\ Unique /\ Room
    BY <1>1, <1>16 DEF Regular
  <2>2. AtWorkNow(p)
    BY DEF AtWorkNow, MemberSteps
  <2>3. r \in buried \/ Created(r) = {}
    <3>1. PICK c \in Calls, i \in Members : p = <<c, i>>
      OBVIOUS
    <3> QED
      BY <2>1, <3>1 DEF BatchOk
  <2>4. ASSUME NEW id, NEW q \in Calls \X Members, AtWorkNow(q), pc'[q] = "create", loc[q].req = id, Created(id) = {}
        PROVE  Created(id)' = {}
    <3>1. q # p
      BY <1>7, <2>4
    <3>2. id # r
      BY <1>16, <2>2, <2>4, <3>1, DifferentRequests
    <3> QED
      BY <1>4, <2>4, <3>2 DEF Created
  <2>5. ASSUME NEW id, NEW s \in DOMAIN sessions, ~Has(s, id) PROVE ~Has(s, id)'
    BY <1>4, <2>5 DEF Has
  <2>6. Onward(p)
    BY <1>5, <1>7, <2>2 DEF Onward, AtWorkNow
  <2>7. \A c \in Calls : BatchOk(c)'
    BY <1>1, <1>6, <1>7, <1>8, <1>11, <1>16, <2>1, <2>4, <2>5, <2>6, BatchKept
  <2>8. Unique'
    <3>1. r \in buried \/ \A s \in DOMAIN sessions : sessions'[s].req # r
      BY <1>4, <2>3 DEF Created
    <3>2. ASSUME NEW s \in DOMAIN sessions', NEW t \in DOMAIN sessions', sessions'[s].req = sessions'[t].req,
                 sessions'[s].req \in (Starts \X Reqs) \ buried'
          PROVE  s = t
      BY <1>4, <1>8, <2>1, <3>1, <3>2 DEF Unique
    <3>3. ASSUME NEW s \in DOMAIN sessions', NEW i \in DOMAIN sessions'[s].turns, NEW j \in DOMAIN sessions'[s].turns,
                 sessions'[s].turns[i].id = sessions'[s].turns[j].id, sessions'[s].turns[i].id = InitialTurn(sessions'[s].req)
          PROVE  i = j
      <4>1. s # n
        BY <1>4, <3>3
      <4>2. s \in DOMAIN sessions /\ sessions'[s] = sessions[s]
        BY <1>4, <4>1
      <4> QED
        BY <2>1, <3>3, <4>2 DEF Unique
    <3> QED
      BY <3>2, <3>3 DEF Unique
  <2>9. Running' \subseteq Running
    <3>1. ASSUME NEW s \in Running' PROVE s \in Running
      <4>1. s \in DOMAIN sessions' /\ AtWork(s)' /\ ~sessions'[s].swarm
        BY DEF Running
      <4>2. s # n
        BY <1>4, <4>1 DEF AtWork
      <4>3. s \in DOMAIN sessions /\ sessions'[s] = sessions[s]
        BY <1>4, <4>1, <4>2
      <4> QED
        BY <4>1, <4>3 DEF Running, AtWork
    <3> QED
      BY <3>1
  <2>10. StillToStart' \subseteq StillToStart
    BY <1>7, <1>11, <2>6, StillKept
  <2>11. Room'
    BY <1>1, <1>8, <1>9, <2>1, <2>9, <2>10, RoomKept
  <2> QED
    BY <2>7, <2>8, <2>11
<1>17. Regular'
  BY <1>8, <1>16 DEF Regular
<1> QED
  BY <1>9, <1>10, <1>14, <1>15, <1>17 DEF OpenCodeInv

LEMMA CreateMember ==
  ASSUME OpenCodeInv, NEW p \in Procs, Create(p)
  PROVE  OpenCodeInv'
<1> DEFINE r == loc[p].req
           k == loc[p].client
           after == WithSession(sessions, r)
           message == [what |-> "create", req |-> r, sid |-> 0, turn |-> Nothing]
<1>1. pc[p] = "create" /\ Len(sessions) < MaxSessions /\ UNCHANGED <<backend, admission, queue>> /\ Rest
  BY DEF Create
<1>2. p \in Calls \X Members /\ MemberOk(p) /\ Types /\ CallsOk /\ loc[p] \in LocType
  BY <1>1, MemberAt DEF MemberSteps
<1>3. r \in Ids
  BY <1>2, LocFields
<1>4. CASE Taken(k) /\ sessions' = after /\ UNCHANGED late /\ loc' = [loc EXCEPT ![p].sid = Len(after)] /\ Goto(p, "own")
  <2> DEFINE n == Len(sessions) + 1
             l == [loc[p] EXCEPT !.sid = n]
  <2>1. Len(after) = n /\ n \in Nat
    <3>1. Len(sessions') = n
      BY <1>1, <1>2, <1>3, <1>4, NewSession
    <3> QED
      BY <1>2, <1>4, <3>1, SessionsAre
  <2> HIDE DEF n
  <2>2. l \in LocType /\ l.kind = loc[p].kind /\ l.req = r /\ l.turn = loc[p].turn /\ l.sid = n
    BY <1>2, <2>1 DEF LocType
  <2>3. loc' = [loc EXCEPT ![p] = l]
    BY <1>4, <2>1
  <2> HIDE DEF l
  <2>4. pc' = [pc EXCEPT ![p] = "own"] /\ Reliable
    BY <1>4 DEF Goto, Taken
  <2>5. l.sid = Len(sessions) + 1
    BY <2>2 DEF n
  <2> QED
    BY <1>1, <1>2, <1>4, <2>2, <2>3, <2>4, <2>5, Creating
<1>5. CASE Ambiguous(k, after, message) /\ Goto(p, "relist") /\ UNCHANGED loc
  <2>1. pc' = [pc EXCEPT ![p] = "relist"] /\ loc' = [loc EXCEPT ![p] = loc[p]] /\ Fault /\ Faulty
    BY <1>2, <1>5, LocUnchanged DEF Goto, Ambiguous
  <2>2. CASE sessions' = after /\ UNCHANGED late
    BY <1>1, <1>2, <2>1, <2>2, Creating
  <2>3. CASE UNCHANGED sessions /\ late' \subseteq late \union {message}
    <3>1. SameSessions
      BY <1>2, <2>3, Unchanged
    <3>2. PICK sent : sent = message /\ LateOk(sent)
      <4>1. LateOk(message)
        BY <1>3 DEF LateOk
      <4> HIDE DEF message
      <4> QED
        BY <4>1
    <3>3. LateOk(sent)'
      BY <3>1, <3>2, SameGrow, LateKept
    <3>4. \A m \in late' \ late : LateOk(m)'
      <4>1. ASSUME NEW m \in late' \ late PROVE LateOk(m)'
        <5>1. m = sent
          BY <2>3, <3>2
        <5> QED
          BY <3>3, <5>1
      <4> QED
        BY <4>1
    <3>5. pc'[p] = "relist" /\ loc'[p] = loc[p]
      BY <1>2, <2>1, Lands
    <3>6. MemberOk(p)'
      BY <1>1, <1>2, <3>5 DEF MemberOk, MemberSteps
    <3>7. Onward(p)
      BY <1>1, <3>5 DEF Onward, MemberSteps
    <3>8. "relist" \in MemberSteps /\ InQueues /\ client' = client
      BY <1>1 DEF MemberSteps, InQueues, backend
    <3> QED
      BY <1>1, <1>2, <2>1, <3>1, <3>4, <3>6, <3>7, <3>8, MemberGoesOn
  <2> QED
    BY <1>5, <2>2, <2>3 DEF Ambiguous
<1> QED
  BY <1>1, <1>4, <1>5 DEF Create

-----------------------------------------------------------------------------
(* A prompt.                                                               *)

LEMMA PromptIs ==
  ASSUME OpenCodeInv, NEW p \in Procs, pc[p] = "prompt"
  PROVE  /\ Types /\ CallsOk /\ ServerOk /\ loc[p].sid \in DOMAIN sessions /\ loc[p].sid \in Sids /\ loc[p] \in LocType
         /\ Turn(loc[p].turn, By(p)) \in TurnType /\ Turn(loc[p].turn, By(p)).state = "accepted"
         /\ Turn(loc[p].turn, By(p)).id = loc[p].turn /\ Turn(loc[p].turn, By(p)).by = By(p)
         /\ By(p) = "start" => p \in Calls \X Members /\ sessions[loc[p].sid].member = TRUE
         /\ \A id \in Starts \X Reqs : loc[p].turn = InitialTurn(id) => p \in Calls \X Members /\ sessions[loc[p].sid].req = id
         /\ p \in Calls \X Members => /\ By(p) = "start" /\ loc[p].turn = InitialTurn(loc[p].req) /\ loc[p].req \in Starts \X Reqs
                                      /\ sessions[loc[p].sid].req = loc[p].req /\ loc[p].kind \in Starts
                                      /\ (loc[p].kind = "swarm_start" => sessions[loc[p].sid].swarm = TRUE)
         /\ p \notin Calls \X Members => /\ By(p) = loc[p].kind /\ By(p) \in {"continue", "send", "turn"} /\ loc[p].turn \in Calls \X Nat
                                         /\ Heads(queue[loc[p].sid], p)
                                         /\ (By(p) = "continue" /\ tardy = FALSE => Continued(loc[p].sid) = {})
<1> DEFINE s == loc[p].sid
           t == Turn(loc[p].turn, By(p))
<1>1. Types /\ CallsOk /\ ServerOk
  BY DEF OpenCodeInv
<1>2. loc[p] \in LocType
  BY <1>1, OfCalls, TypesAre
<1>3. CASE p \in Calls \X Members
  <2>1. MemberOk(p) /\ p[2] # 0
    BY <1>1, <1>3, OfCalls DEF Members
  <2>2. /\ loc[p].kind \in Starts /\ loc[p].req \in Starts \X Reqs /\ loc[p].turn = InitialTurn(loc[p].req)
        /\ s \in DOMAIN sessions /\ sessions[s].req = loc[p].req /\ sessions[s].member = TRUE
        /\ (loc[p].kind = "swarm_start" => sessions[s].swarm = TRUE)
    BY <2>1 DEF MemberOk, MemberSteps
  <2>3. By(p) = "start" /\ By(p) \in KindNames
    BY <2>1 DEF By, KindNames, AskedKinds, Starts
  <2>4. loc[p].turn \in TurnIds
    BY <1>2, LocFields
  <2>5. t \in TurnType /\ t.state = "accepted" /\ t.id = loc[p].turn /\ t.by = By(p)
    BY <2>3, <2>4 DEF Turn, TurnType, Unfinished
  <2>6. \A id \in Starts \X Reqs : loc[p].turn = InitialTurn(id) => sessions[s].req = id
    BY <2>2 DEF InitialTurn
  <2> QED
    BY <1>1, <1>2, <1>3, <2>2, <2>3, <2>5, <2>6, SessionsAre
<1>4. CASE p \notin Calls \X Members
  <2>1. MainOk(p) /\ p[2] = 0
    BY <1>1, <1>4, OfCalls, Who
  <2>2. /\ loc[p].kind \in {"continue", "send", "turn"} /\ loc[p].turn \in Calls \X Nat /\ s \in DOMAIN sessions
        /\ Heads(queue[s], p) /\ (loc[p].kind = "continue" /\ tardy = FALSE => Continued(s) = {})
    BY <2>1 DEF MainOk, MainSteps, Turning
  <2>3. By(p) = loc[p].kind /\ By(p) \in KindNames
    BY <2>1, <2>2 DEF By, KindNames, AskedKinds, Queued
  <2>4. loc[p].turn \in TurnIds
    BY <1>2, LocFields
  <2>5. t \in TurnType /\ t.state = "accepted" /\ t.id = loc[p].turn /\ t.by = By(p)
    BY <2>3, <2>4 DEF Turn, TurnType, Unfinished
  <2>6. \A id \in Starts \X Reqs : loc[p].turn # InitialTurn(id)
    <3>1. "initial" \notin Calls
      BY OpenCodeAssumption DEF OpenCodeAssumption
    <3> QED
      BY <2>2, <3>1 DEF InitialTurn
  <2> QED
    BY <1>1, <1>2, <1>4, <2>2, <2>3, <2>5, <2>6, SessionsAre
<1> QED
  BY <1>3, <1>4

LEMMA PromptTurn ==
  ASSUME OpenCodeInv, NEW p \in Procs, pc[p] = "prompt", NEW t, t = Turn(loc[p].turn, By(p))
  PROVE  t \in TurnType /\ t.state = "accepted" /\ t.id = loc[p].turn /\ t.by = By(p)
<1>1. Turn(loc[p].turn, By(p)) \in TurnType
  BY PromptIs
<1>2. t = [id |-> loc[p].turn, by |-> By(p), state |-> "accepted"]
  BY DEF Turn
<1> QED
  BY <1>1, <1>2

LEMMA PromptedServer ==
  ASSUME OpenCodeInv, NEW p \in Procs, NEW s, NEW t, NEW n, Prompting(p, s, t, n), late' = late
  PROVE  ServerOk'
<1>0. /\ pc[p] = "prompt" /\ s \in DOMAIN sessions /\ s = loc[p].sid /\ t \in TurnType /\ t = Turn(loc[p].turn, By(p))
      /\ sessions' = WithTurn(sessions, s, t) /\ n = Len(sessions[s].turns) + 1
  BY DEF Prompting
<1>1. Types /\ ServerOk /\ t.state = "accepted" /\ t.id = loc[p].turn /\ t.by = By(p)
  BY <1>0, PromptTurn DEF OpenCodeInv
<1>2. By(p) = "start" => sessions[s].member = TRUE
  BY <1>0, PromptIs
<1>3. \A id \in Starts \X Reqs : loc[p].turn = InitialTurn(id) => sessions[s].req = id
  BY <1>0, PromptIs
<1>4. \A m \in late' \ late : LateOk(m)'
  BY <1>0
<1>5. t.by = "start" => sessions[s].member = TRUE
  BY <1>0, <1>1, <1>2
<1>6. \A id \in Starts \X Reqs : t.id = InitialTurn(id) => sessions[s].req = id
  BY <1>0, <1>1, <1>3
<1> QED
  BY <1>0, <1>1, <1>4, <1>5, <1>6, NewTurnOk

LEMMA PromptedTurns ==
  ASSUME OpenCodeInv, NEW p \in Procs, NEW s, NEW t, NEW n, Prompting(p, s, t, n)
  PROVE  /\ \A u \in DOMAIN sessions : u # s => sessions'[u] = sessions[u] /\ Continued(u)' = Continued(u)
         /\ n \notin DOMAIN sessions[s].turns
         /\ DOMAIN sessions'[s].turns = DOMAIN sessions[s].turns \union {n} /\ sessions'[s].turns[n] = t
         /\ \A i \in DOMAIN sessions[s].turns : sessions'[s].turns[i] = sessions[s].turns[i]
         /\ Continued(s)' \subseteq Continued(s) \union {n}
         /\ By(p) # "continue" => Continued(s)' \subseteq Continued(s)
<1>0. /\ pc[p] = "prompt" /\ s \in DOMAIN sessions /\ s = loc[p].sid /\ t \in TurnType /\ t = Turn(loc[p].turn, By(p))
      /\ sessions' = WithTurn(sessions, s, t) /\ n = Len(sessions[s].turns) + 1
  BY DEF Prompting
<1>1. Types /\ t.by = By(p)
  BY <1>0, PromptTurn DEF OpenCodeInv
<1>2. /\ sessions'[s].turns = Append(sessions[s].turns, t) /\ DOMAIN sessions' = DOMAIN sessions
      /\ \A u \in DOMAIN sessions : u # s => sessions'[u] = sessions[u]
  BY <1>0, <1>1, NewTurn
<1> DEFINE old == sessions[s].turns
           new == sessions'[s].turns
<1>3. old \in Seq(TurnType)
  BY <1>0, <1>1, SessionsAre, SessionFields
<1>5. DOMAIN new = DOMAIN old \union {n} /\ n \notin DOMAIN old /\ new[n] = t /\ \A i \in DOMAIN old : new[i] = old[i]
  <2>1. new = Append(old, t)
    BY <1>0, <1>2
  <2> HIDE DEF old, new
  <2>2. /\ DOMAIN Append(old, t) = DOMAIN old \union {Len(old) + 1} /\ Len(old) + 1 \notin DOMAIN old
        /\ Append(old, t)[Len(old) + 1] = t /\ \A i \in DOMAIN old : Append(old, t)[i] = old[i]
    BY <1>0, <1>3, Appending
  <2>3. n = Len(old) + 1
    BY <1>0 DEF old
  <2> QED
    BY <1>0, <2>1, <2>2, <2>3
<1>6. ASSUME NEW i \in Continued(s)', i # n PROVE i \in Continued(s)
  <2>1. i \in DOMAIN new /\ new[i].by = "continue" /\ new[i].state \in {"accepted", "running", "aborting"}
    BY <1>0 DEF Continued
  <2>2. i \in DOMAIN old /\ new[i] = old[i]
    BY <1>0, <1>5, <1>6, <2>1
  <2>3. old[i].by = "continue" /\ old[i].state \in {"accepted", "running", "aborting"}
    BY <1>0, <2>1, <2>2
  <2> QED
    BY <1>0, <2>2, <2>3 DEF Continued
<1>7. By(p) # "continue" => n \notin Continued(s)'
  <2>1. new[n].by = By(p)
    BY <1>0, <1>1, <1>5
  <2>2. n \in Continued(s)' => new[n].by = "continue"
    BY <1>0 DEF Continued
  <2> QED
    BY <1>0, <2>1, <2>2
<1>8. \A u \in DOMAIN sessions : u # s => Continued(u)' = Continued(u)
  BY <1>0, <1>2 DEF Continued
<1>9. Continued(s)' \subseteq Continued(s) \union {n} /\ (By(p) # "continue" => Continued(s)' \subseteq Continued(s))
  BY <1>0, <1>6, <1>7
<1> QED
  BY <1>0, <1>2, <1>5, <1>8, <1>9

LEMMA PromptedCalls ==
  ASSUME OpenCodeInv, NEW p \in Procs, NEW s, NEW t, NEW n, Prompting(p, s, t, n),
         Others(p), Places(p), Remembers, tardy' = tardy,
         \A c \in Calls : p = Main(c) => MainOk(p)',
         p \in Calls \X Members => MemberOk(p)'
  PROVE  CallsOk' /\ Serial'
<1>0. /\ pc[p] = "prompt" /\ s \in DOMAIN sessions /\ s = loc[p].sid /\ t \in TurnType /\ t = Turn(loc[p].turn, By(p))
      /\ sessions' = WithTurn(sessions, s, t) /\ n = Len(sessions[s].turns) + 1
  BY DEF Prompting
<1>1. Types /\ CallsOk /\ Serial /\ s \in Sids
  BY <1>0, PromptIs DEF OpenCodeInv
<1>2. Grows /\ DOMAIN sessions' = DOMAIN sessions
  BY <1>0, <1>1, NewTurn
<1>3. ASSUME NEW q \in Procs \ {p}, NEW u \in DOMAIN sessions,
             pc[q] = "prompt", loc[q].kind = "continue", tardy' = FALSE, loc[q].sid = u
      PROVE  Continued(u)' \subseteq Continued(u)
  <2>1. CASE u # s
    BY <1>0, <2>1, PromptedTurns
  <2>2. CASE u = s
    <3>1. q \notin Calls \X Members /\ Heads(queue[s], q)
      <4>1. q \notin Calls \X Members
        BY <1>0, <1>3, PromptIs DEF Starts
      <4> QED
        BY <1>0, <1>3, <2>2, <4>1, PromptIs
    <3>2. p \in Calls \X Members
      <4>1. p \notin Calls \X Members => Heads(queue[s], p)
        BY <1>0, PromptIs
      <4> QED
        BY <1>0, <3>1, <4>1 DEF Heads
    <3>3. By(p) # "continue"
      BY <1>0, <3>2, PromptIs
    <3> QED
      BY <1>0, <2>2, <3>3, PromptedTurns
  <2> QED
    BY <1>0, <2>1, <2>2
<1>4. p \in Everyone
  BY <1>0, Who
<1>5. CallsOk'
  BY <1>0, <1>1, <1>2, <1>3, <1>4, CallsKept
<1>6. Serial'
  <2> SUFFICES ASSUME tardy' = FALSE, NEW u \in DOMAIN sessions', NEW i \in Continued(u)', NEW j \in Continued(u)' PROVE i = j
    BY <1>0 DEF Serial
  <2>1. tardy = FALSE /\ u \in DOMAIN sessions /\ \A k, l \in Continued(u) : k = l
    BY <1>0, <1>1, <1>2 DEF Serial
  <2>2. CASE u # s \/ By(p) # "continue"
    <3>1. Continued(u)' \subseteq Continued(u)
      BY <1>0, <2>1, <2>2, PromptedTurns
    <3> QED
      BY <1>0, <2>1, <3>1
  <2>3. CASE u = s /\ By(p) = "continue"
    <3>1. p \notin Calls \X Members
      BY <1>0, <2>3, PromptIs
    <3>2. Continued(s) = {}
      BY <1>0, <2>1, <2>3, <3>1, PromptIs
    <3>3. Continued(s)' \subseteq Continued(s) \union {n}
      BY <1>0, PromptedTurns
    <3> QED
      BY <1>0, <2>3, <3>2, <3>3
  <2> QED
    BY <1>0, <2>2, <2>3
<1> QED
  BY <1>0, <1>5, <1>6

LEMMA PromptedRegular ==
  ASSUME OpenCodeInv, NEW p \in Procs, NEW s, NEW t, NEW n, Prompting(p, s, t, n),
         Types', Others(p), Places(p), Remembers, early = FALSE, tardy = FALSE, early' = FALSE,
         \A c \in Calls : p = Main(c) => Leads(c),
         p \in Calls \X Members => pc'[p] \in Rests \union {"verify"} /\ Onward(p)
  PROVE  (\A c \in Calls : BatchOk(c)') /\ Unique' /\ Room'
<1>0. /\ pc[p] = "prompt" /\ s \in DOMAIN sessions /\ s = loc[p].sid /\ t \in TurnType /\ t = Turn(loc[p].turn, By(p))
      /\ sessions' = WithTurn(sessions, s, t) /\ n = Len(sessions[s].turns) + 1
  BY DEF Prompting
<1>1. Types /\ CallsOk /\ ServerOk /\ (\A c \in Calls : BatchOk(c)) /\ Unique /\ Room /\ p \in Everyone
  BY <1>0, Who DEF OpenCodeInv, Regular
<1>2. /\ DOMAIN sessions' = DOMAIN sessions /\ \A u \in DOMAIN sessions : u # s => sessions'[u] = sessions[u]
      /\ \A u \in DOMAIN sessions : sessions'[u].req = sessions[u].req /\ sessions'[u].member = sessions[u].member
                                    /\ sessions'[u].swarm = sessions[u].swarm
  BY <1>0, <1>1, NewTurn
<1>3. t.id = loc[p].turn /\ t.by = By(p)
  BY <1>0, PromptTurn
<1>4. /\ n \notin DOMAIN sessions[s].turns
      /\ DOMAIN sessions'[s].turns = DOMAIN sessions[s].turns \union {n} /\ sessions'[s].turns[n] = t
      /\ \A i \in DOMAIN sessions[s].turns : sessions'[s].turns[i] = sessions[s].turns[i]
  BY <1>0, PromptedTurns
<1>5. p \in Calls \X Members => AtWorkNow(p) /\ ~Has(s, loc[p].turn)
  <2> SUFFICES ASSUME p \in Calls \X Members PROVE AtWorkNow(p) /\ ~Has(s, loc[p].turn)
    BY <1>0
  <2>1. PICK c \in Calls, i \in Members : p = <<c, i>>
    BY <1>0
  <2> QED
    BY <1>0, <1>1, <2>1 DEF BatchOk, AtWorkNow, MemberSteps
<1>6. \A c \in Calls : BatchOk(c)'
  <2>1. \A id : Created(id)' = Created(id)
    BY <1>0, <1>2 DEF Created
  <2>2. ASSUME NEW id, NEW q \in Calls \X Members, NEW u \in DOMAIN sessions,
               AtWorkNow(q), pc'[q] = "prompt", loc[q].sid = u, loc[q].turn = id, ~Has(u, id)
        PROVE  ~Has(u, id)'
    <3>1. CASE u # s
      BY <1>0, <1>2, <2>2, <3>1 DEF Has
    <3>2. CASE u = s
      <4>1. t.id # id
        <5>1. q # p
          BY <1>0, <2>2 DEF Rests
        <5>2. pc[q] = "prompt" /\ q \in Procs
          BY <1>0, <2>2, <5>1, Who DEF Others, Kept, Rests
        <5>3. loc[q].turn = InitialTurn(loc[q].req) /\ loc[q].req \in Starts \X Reqs
          BY <1>0, <5>2, PromptIs
        <5>4. CASE p \in Calls \X Members
          <6>1. loc[p].req # loc[q].req
            BY <1>0, <1>5, <2>2, <5>1, <5>4, DifferentRequests
          <6>2. loc[p].turn = InitialTurn(loc[p].req)
            BY <1>0, <5>4, PromptIs
          <6> QED
            BY <1>0, <1>3, <2>2, <5>3, <6>1, <6>2 DEF InitialTurn
        <5>5. CASE p \notin Calls \X Members
          BY <1>0, <1>3, <2>2, <5>3, <5>5, PromptIs
        <5> QED
          BY <1>0, <5>4, <5>5
      <4> QED
        <5> SUFFICES ASSUME NEW i \in DOMAIN sessions'[s].turns, sessions'[s].turns[i].id = id PROVE FALSE
          BY <1>0, <3>2 DEF Has
        <5>1. i # n
          BY <1>0, <1>4, <4>1
        <5>2. i \in DOMAIN sessions[s].turns /\ sessions[s].turns[i].id = id
          BY <1>0, <1>4, <5>1
        <5> QED
          BY <1>0, <2>2, <3>2, <5>2 DEF Has
    <3> QED
      BY <1>0, <3>1, <3>2
  <2> QED
    BY <1>0, <1>1, <2>1, <2>2, BatchKept
<1>7. Unique'
  <2>1. ASSUME NEW u \in DOMAIN sessions', NEW v \in DOMAIN sessions', sessions'[u].req = sessions'[v].req,
               sessions'[u].req \in (Starts \X Reqs) \ buried'
        PROVE  u = v
    BY <1>0, <1>1, <1>2, <2>1 DEF Unique, Remembers
  <2>2. ASSUME NEW u \in DOMAIN sessions', NEW i \in DOMAIN sessions'[u].turns, NEW j \in DOMAIN sessions'[u].turns,
               sessions'[u].turns[i].id = sessions'[u].turns[j].id, sessions'[u].turns[i].id = InitialTurn(sessions'[u].req)
        PROVE  i = j
    <3>1. CASE u # s
      <4>1. u \in DOMAIN sessions /\ sessions'[u] = sessions[u]
        BY <1>0, <1>2, <3>1
      <4> QED
        BY <1>0, <1>1, <2>2, <4>1 DEF Unique
    <3>2. CASE u = s
      <4>1. CASE i # n /\ j # n
        <5>1. i \in DOMAIN sessions[s].turns /\ j \in DOMAIN sessions[s].turns
          BY <1>0, <1>4, <2>2, <3>2, <4>1
        <5>2. sessions[s].turns[i].id = sessions[s].turns[j].id /\ sessions[s].turns[i].id = InitialTurn(sessions[s].req)
          BY <1>0, <1>2, <1>4, <2>2, <3>2, <5>1
        <5> QED
          BY <1>0, <1>1, <5>1, <5>2 DEF Unique
      <4>2. CASE i = n \/ j = n
        <5>1. sessions'[s].turns[i].id = loc[p].turn /\ sessions'[s].turns[j].id = loc[p].turn
          <6>1. sessions'[s].turns[n].id = loc[p].turn /\ sessions'[s].turns[i].id = sessions'[s].turns[j].id
            BY <1>0, <1>3, <1>4, <2>2, <3>2
          <6> QED
            BY <1>0, <4>2, <6>1
        <5>2. loc[p].turn = InitialTurn(sessions[s].req)
          BY <1>0, <1>2, <2>2, <3>2, <5>1
        <5>3. p \in Calls \X Members
          <6>1. CASE sessions[s].req \in Starts \X Reqs
            BY <1>0, <5>2, <6>1, PromptIs
          <6>2. CASE sessions[s].req \notin Starts \X Reqs
            <7>1. p \notin Calls \X Members => loc[p].turn \in Calls \X Nat
              BY <1>0, PromptIs
            <7>2. "initial" \notin Calls
              BY <1>0, OpenCodeAssumption DEF OpenCodeAssumption
            <7> QED
              BY <1>0, <5>2, <7>1, <7>2 DEF InitialTurn
          <6> QED
            BY <1>0, <6>1, <6>2
        <5>4. \A k \in DOMAIN sessions[s].turns : sessions[s].turns[k].id # loc[p].turn
          BY <1>0, <1>5, <5>3 DEF Has
        <5> QED
          <6>1. i \in DOMAIN sessions[s].turns \union {n} /\ j \in DOMAIN sessions[s].turns \union {n}
            BY <1>0, <1>4, <2>2, <3>2
          <6>2. \A k \in DOMAIN sessions[s].turns : sessions'[s].turns[k].id # loc[p].turn
            BY <1>0, <1>4, <5>4
          <6> QED
            BY <5>1, <6>1, <6>2
      <4> QED
        BY <1>0, <4>1, <4>2
    <3> QED
      BY <1>0, <3>1, <3>2
  <2>3. \A u, v \in DOMAIN sessions' :
          sessions'[u].req = sessions'[v].req /\ sessions'[u].req \in (Starts \X Reqs) \ buried' => u = v
    BY <2>1
  <2>4. \A u \in DOMAIN sessions' : \A i, j \in DOMAIN sessions'[u].turns :
          sessions'[u].turns[i].id = sessions'[u].turns[j].id /\ sessions'[u].turns[i].id = InitialTurn(sessions'[u].req) => i = j
    BY <2>2
  <2> QED
    BY <1>0, <2>3, <2>4 DEF Unique, InitialTurn
<1>8. StillToStart' \subseteq StillToStart
  BY <1>0, <1>1, StillKept
<1>9. Running' \subseteq Running \union {s}
  <2>1. ASSUME NEW u \in Running', u # s PROVE u \in Running
    <3>1. u \in DOMAIN sessions /\ AtWork(u)' /\ ~sessions'[u].swarm
      BY <1>0, <1>2 DEF Running
    <3>2. sessions'[u] = sessions[u]
      BY <1>0, <1>2, <2>1, <3>1
    <3> QED
      BY <1>0, <3>1, <3>2 DEF Running, AtWork
  <2> QED
    BY <1>0, <2>1
<1>10. (t.by # "start" \/ sessions[s].swarm = TRUE) => Running' \subseteq Running
  <2> SUFFICES ASSUME t.by # "start" \/ sessions[s].swarm = TRUE, s \in Running' PROVE s \in Running
    BY <1>0, <1>9
  <2>1. AtWork(s)' /\ ~sessions'[s].swarm
    BY <1>0 DEF Running
  <2>2. t.by # "start" /\ ~sessions[s].swarm
    BY <1>0, <1>2, <2>1
  <2>3. AtWork(s)
    <3>1. PICK i \in DOMAIN sessions'[s].turns :
            sessions'[s].turns[i].by = "start" /\ sessions'[s].turns[i].state \in {"accepted", "running", "aborting"}
      BY <1>0, <2>1 DEF AtWork
    <3>2. i # n
      BY <1>0, <1>4, <2>2, <3>1
    <3>3. i \in DOMAIN sessions[s].turns /\ sessions'[s].turns[i] = sessions[s].turns[i]
      BY <1>0, <1>4, <3>2
    <3> QED
      BY <1>0, <3>1, <3>3 DEF AtWork
  <2> QED
    BY <1>0, <2>2, <2>3 DEF Running
<1>11. Room'
  <2>1. CASE t.by # "start" \/ sessions[s].swarm = TRUE
    BY <1>0, <1>1, <1>8, <1>10, <2>1, RoomKept
  <2>2. CASE t.by = "start" /\ sessions[s].swarm # TRUE
    <3>1. p \in Calls \X Members /\ loc[p].kind = "start"
      BY <1>0, <1>3, <2>2, PromptIs DEF Starts
    <3>2. p \in StillToStart
      BY <1>0, <3>1 DEF StillToStart, MemberSteps
    <3>3. StillToStart' \subseteq StillToStart \ {p}
      <4>1. p \notin StillToStart'
        BY <1>0, <3>1 DEF StillToStart, Rests, MemberSteps
      <4> QED
        BY <1>0, <1>8, <4>1
    <3>4. IsFiniteSet(Running) /\ IsFiniteSet(StillToStart) /\ Cardinality(Running) \in Nat
          /\ Cardinality(StillToStart) \in Nat /\ Cardinality(Running) + Cardinality(StillToStart) <= MaxWorkers + missed
      BY <1>0, <1>1, RunningIsFinite, FS_CardinalityType DEF Room
    <3>5. /\ IsFiniteSet(Running \union {s}) /\ Cardinality(Running \union {s}) <= Cardinality(Running) + 1
          /\ Cardinality(Running \union {s}) \in Nat
      <4>1. IsFiniteSet(Running \union {s}) /\ (Cardinality(Running \union {s}) = Cardinality(Running)
                                                \/ Cardinality(Running \union {s}) = Cardinality(Running) + 1)
        BY <1>0, <3>4, FS_AddElement
      <4> QED
        BY <1>0, <3>4, <4>1
    <3>6. /\ IsFiniteSet(StillToStart \ {p}) /\ Cardinality(StillToStart \ {p}) = Cardinality(StillToStart) - 1
          /\ Cardinality(StillToStart \ {p}) \in Nat
      BY <1>0, <3>2, <3>4, FS_RemoveElement, FS_CardinalityType
    <3>7. IsFiniteSet(Running') /\ Cardinality(Running') <= Cardinality(Running \union {s}) /\ Cardinality(Running') \in Nat
      BY <1>0, <1>9, <3>5, FS_Subset, FS_CardinalityType
    <3>8. IsFiniteSet(StillToStart') /\ Cardinality(StillToStart') <= Cardinality(StillToStart \ {p})
          /\ Cardinality(StillToStart') \in Nat
      BY <1>0, <3>3, <3>6, FS_Subset, FS_CardinalityType
    <3>9. MaxWorkers \in Nat /\ missed \in Nat /\ missed' \in Nat /\ missed <= missed'
      BY <1>0, <1>1, OpenCodeAssumption DEF OpenCodeAssumption, Types, HistoryTyped, Remembers
    <3>10. Cardinality(Running') + Cardinality(StillToStart') <= MaxWorkers + missed'
      BY <1>0, <3>4, <3>5, <3>6, <3>7, <3>8, <3>9
    <3> QED
      BY <1>0, <3>8, <3>10 DEF Room
  <2> QED
    BY <1>0, <2>1, <2>2
<1> QED
  BY <1>0, <1>6, <1>7, <1>11

LEMMA Prompted ==
  ASSUME OpenCodeInv, NEW p \in Procs, pc[p] = "prompt", sessions' = WithTurn(sessions, loc[p].sid, Turn(loc[p].turn, By(p))),
         late' = late, CallsTyped', client' = client, Others(p), Places(p), Rest, Reliable \/ (Fault /\ Faulty),
         p \in Calls \X Members => pc'[p] \in Rests \union {"verify"},
         p \notin Calls \X Members => pc'[p] \in {"idle", "waiting", "verify"},
         pc'[p] \in {"waiting", "verify"} => loc'[p] = loc[p]
  PROVE  OpenCodeInv'
<1> DEFINE s == loc[p].sid
           turn == Turn(loc[p].turn, By(p))
<1>1. Types /\ CallsOk /\ ServerOk /\ s \in DOMAIN sessions /\ turn \in TurnType
  BY PromptIs
<1>2. PICK t : t = turn
  OBVIOUS
<1>3. PICK n : n = Len(sessions[s].turns) + 1
  OBVIOUS
<1>4. PICK u : u = s
  OBVIOUS
<1>5. Prompting(p, u, t, n)
  BY <1>1, <1>2, <1>3, <1>4 DEF Prompting
<1>6. sessions' \in Seq(SessionType) /\ Len(sessions') = Len(sessions) /\ DOMAIN sessions' = DOMAIN sessions /\ Grows
  BY <1>1, NewTurn
<1>7. /\ HistoryTyped' /\ Remembers /\ early' = early /\ tardy' = tardy /\ left' \in LeftType
  BY <1>1, Bounds, HistoryKept DEF Rest, history
<1>8. Types'
  <2>1. Len(sessions) <= MaxSessions
    BY <1>1 DEF Types
  <2> QED
    BY <1>1, <1>6, <1>7, <2>1, TypesAre DEF Types
<1>9. ASSUME NEW c \in Calls, p = Main(c) PROVE MainOk(p)' /\ Leads(c)
  <2>1. p \notin Calls \X Members
    BY <1>9, Who
  <2>2. pc'[p] \in {"idle", "waiting", "verify"} /\ (pc'[p] # "idle" => loc'[p] = loc[p])
    BY <2>1
  <2>3. loc[p].kind \in {"continue", "send", "turn"} /\ loc[p].turn \in Calls \X Nat
    BY <2>1, PromptIs
  <2>4. MainOk(p)'
    BY <1>1, <1>6, <2>2, <2>3 DEF MainOk, MainSteps, Turning
  <2>5. Leads(c)
    BY <1>9, <2>2 DEF Leads
  <2> QED
    BY <2>4, <2>5
<1>10. ASSUME p \in Calls \X Members PROVE pc'[p] \in Rests \union {"verify"} /\ MemberOk(p)' /\ Onward(p)
  <2>1. pc'[p] \in Rests \union {"verify"} /\ (pc'[p] = "verify" => loc'[p] = loc[p])
    BY <1>10
  <2>2. MemberOk(p)
    BY <1>1, <1>10, OfCalls
  <2>3. MemberOk(p)'
    BY <1>6, <2>1, <2>2 DEF MemberOk, Rests, MemberSteps, Grows
  <2>4. Onward(p)
    BY <2>1 DEF Onward, Rests, MemberSteps
  <2> QED
    BY <2>1, <2>3, <2>4
<1>11. ServerOk'
  BY <1>5, PromptedServer
<1>12. CallsOk' /\ Serial'
  BY <1>5, <1>7, <1>9, <1>10, PromptedCalls
<1>13. Regular'
  <2> SUFFICES ASSUME early' = FALSE, tardy' = FALSE PROVE (\A c \in Calls : BatchOk(c)') /\ Unique' /\ Room'
    BY DEF Regular
  <2>1. early = FALSE /\ tardy = FALSE
    BY <1>7
  <2> QED
    BY <1>5, <1>7, <1>8, <1>9, <1>10, <2>1, PromptedRegular
<1> QED
  BY <1>8, <1>11, <1>12, <1>13 DEF OpenCodeInv

LEMMA Prompts ==
  ASSUME OpenCodeInv, NEW p \in Procs, Prompt(p)
  PROVE  OpenCodeInv'
<1> DEFINE s == loc[p].sid
           t == Turn(loc[p].turn, By(p))
           after == WithTurn(sessions, s, t)
           message == [what |-> "prompt", req |-> Nothing, sid |-> s, turn |-> t]
<1>1. pc[p] = "prompt" /\ Rest
  BY DEF Prompt, May
<1>2. Types /\ CallsOk /\ loc[p] \in LocType /\ s \in DOMAIN sessions
  BY <1>1, PromptIs
<1>3. CASE Taken(client) /\ sessions' = after /\ UNCHANGED late /\ Accepted(p)
  <2>1. CASE Answered(p, "ok")
    <3>1. /\ CallsTyped' /\ client' = client /\ Others(p) /\ Places(p)
          /\ \A c \in Calls : p = Main(c) => pc'[p] = "idle"
          /\ p \in Calls \X Members => pc'[p] \in Rests
      BY <1>2, <2>1, MayAnswer DEF Whys
    <3>2. p \notin Calls \X Members => pc'[p] = "idle"
      BY <1>2, <3>1, OfCalls
    <3>3. pc'[p] \notin {"waiting", "verify"} /\ Reliable
      BY <1>3, <3>1, <3>2 DEF Rests, Taken
    <3> QED
      BY <1>1, <1>3, <3>1, <3>2, <3>3, Prompted
  <2>2. CASE loc[p].kind = "turn" /\ Goto(p, "waiting") /\ UNCHANGED <<loc, auth, client, pin, admission, queue>>
    <3>1. pc' = [pc EXCEPT ![p] = "waiting"] /\ loc' = [loc EXCEPT ![p] = loc[p]] /\ InQueues /\ client' = client /\ Reliable
      BY <1>2, <1>3, <2>2, LocUnchanged DEF Goto, InQueues, Taken
    <3>2. queue' \in [Sids -> Seq(Procs)] /\ admission' \in Seq(Procs) /\ Places(p)
      BY <1>2, <3>1, InPlace, Who
    <3>3. "waiting" \in Rests \union MemberSteps \union MainSteps
      BY DEF MainSteps
    <3>4. CallsTyped' /\ Others(p) /\ pc'[p] = "waiting" /\ loc'[p] = loc[p]
      BY <1>2, <3>1, <3>2, <3>3, GoesOn
    <3>5. p \notin Calls \X Members
      BY <1>1, <2>2, PromptIs DEF Starts
    <3> QED
      BY <1>1, <1>3, <3>1, <3>2, <3>4, <3>5, Prompted
  <2> QED
    BY <1>3, <2>1, <2>2 DEF Accepted
<1>4. CASE Ambiguous(client, after, message) /\ Goto(p, "verify") /\ UNCHANGED <<backend, loc, admission, queue>>
  <2>1. pc' = [pc EXCEPT ![p] = "verify"] /\ loc' = [loc EXCEPT ![p] = loc[p]] /\ InQueues /\ client' = client
        /\ Fault /\ Faulty
    BY <1>2, <1>4, LocUnchanged DEF Goto, InQueues, backend, Ambiguous
  <2>2. queue' \in [Sids -> Seq(Procs)] /\ admission' \in Seq(Procs) /\ Places(p)
    BY <1>2, <2>1, InPlace, Who
  <2>3. "verify" \in Rests \union MemberSteps \union MainSteps
    BY DEF MainSteps, Turning
  <2>4. CallsTyped' /\ Others(p) /\ pc'[p] = "verify" /\ loc'[p] = loc[p]
    BY <1>2, <2>1, <2>2, <2>3, GoesOn
  <2>5. CASE sessions' = after /\ UNCHANGED late
    BY <1>1, <2>1, <2>2, <2>4, <2>5, Prompted
  <2>6. CASE UNCHANGED sessions /\ late' \subseteq late \union {message}
    <3>1. SameSessions
      BY <1>2, <2>6, Unchanged
    <3>2. PICK sent : sent = message /\ LateOk(sent)
      <4>1. /\ t \in TurnType /\ t.state = "accepted" /\ (t.by = "start" => sessions[s].member = TRUE)
            /\ \A id \in Starts \X Reqs : t.id = InitialTurn(id) => sessions[s].req = id
        <5>1. t \in TurnType /\ t.state = "accepted" /\ t.id = loc[p].turn /\ t.by = By(p)
          BY <1>1, PromptTurn
        <5>2. By(p) = "start" => sessions[s].member = TRUE
          BY <1>1, PromptIs
        <5>3. \A id \in Starts \X Reqs : loc[p].turn = InitialTurn(id) => sessions[s].req = id
          BY <1>1, PromptIs
        <5> QED
          BY <5>1, <5>2, <5>3
      <4>2. message.what = "prompt" /\ message.sid = s /\ message.turn = t
        OBVIOUS
      <4> HIDE DEF message, t
      <4>3. LateOk(message)
        BY <1>2, <4>1, <4>2 DEF LateOk
      <4> QED
        BY <4>3
    <3>3. LateOk(sent)'
      BY <3>1, <3>2, SameGrow, LateKept
    <3>4. ASSUME NEW m \in late' \ late PROVE LateOk(m)'
      <4>1. m = sent
        BY <2>6, <3>2
      <4> QED
        BY <3>3, <4>1
    <3>5. UNCHANGED history /\ left' \in LeftType
      BY <1>1, <1>2, <2>1, Bounds DEF Rest, history
    <3>6. ASSUME p \notin Calls \X Members PROVE MainOk(p)'
      <4>1. loc[p].kind \in {"continue", "send", "turn"} /\ loc[p].turn \in Calls \X Nat
        BY <1>1, <3>6, PromptIs
      <4> QED
        BY <1>2, <2>4, <2>6, <4>1 DEF MainOk, MainSteps, Turning
    <3>7. ASSUME p \in Calls \X Members PROVE MemberOk(p)' /\ Onward(p)
      <4>1. MemberOk(p)
        BY <1>2, <3>7, OfCalls
      <4>2. MemberOk(p)'
        BY <1>1, <2>4, <2>6, <4>1 DEF MemberOk, MemberSteps
      <4>3. Onward(p)
        BY <1>1, <2>4 DEF Onward, MemberSteps
      <4> QED
        BY <4>2, <4>3
    <3> QED
      BY <1>1, <1>2, <2>1, <2>2, <2>3, <3>1, <3>4, <3>5, <3>6, <3>7, StepOn
  <2> QED
    BY <1>4, <2>5, <2>6 DEF Ambiguous
<1> QED
  BY <1>3, <1>4 DEF Prompt

-----------------------------------------------------------------------------
(* A batch is admitted.                                                    *)

(* A worker that runs is counted: it is in the group, and its last turn is *)
(* not over, or an earlier one runs still.                                 *)
LEMMA RunningIsActive ==
  ASSUME Types, ServerOk
  PROVE  Running \subseteq Active
<1> SUFFICES ASSUME NEW s \in Running PROVE s \in Active
  OBVIOUS
<1>1. s \in DOMAIN sessions /\ AtWork(s)
  BY DEF Running
<1>2. sessions[s] \in SessionType /\ SessionOk(sessions[s])
  BY <1>1, SessionsAre DEF ServerOk
<1>3. PICK i \in DOMAIN sessions[s].turns : sessions[s].turns[i].by = "start" /\ sessions[s].turns[i].state \in AtWorkStates
  BY <1>1 DEF AtWork, AtWorkStates
<1>4. sessions[s].member = TRUE
  BY <1>2, <1>3 DEF SessionOk
<1>5. Busy(s) \/ LastUnfinished(s)
  BY <1>1, <1>3, NothingContinues
<1> QED
  BY <1>1, <1>4, <1>5 DEF Active

LEMMA Admitting ==
  ASSUME OpenCodeInv, NEW c \in Calls, NEW p, p = Main(c), pc[p] = "count", Heads(admission, p), loc[p].conn = 0,
         NEW overlooked \in SUBSET Active, Admissible(p, overlooked), Admits(p), missed' = missed + Cardinality(overlooked),
         UNCHANGED <<sessions, late, early, tardy>>, left' \in LeftType, HistoryTyped', Remembers
  PROVE  OpenCodeInv'
<1> DEFINE reqs == loc[p].reqs
           kind == loc[p].kind
           Mine(q) == q[1] = c /\ q[2] \in DOMAIN reqs
<1>1. /\ Types /\ CallsOk /\ ServerOk /\ Serial /\ Regular /\ p \in Procs /\ p \notin Calls \X Members /\ p \in Everyone
      /\ p[1] = c /\ p[2] = 0 /\ Pump \in Everyone /\ Pump[1] # c /\ Procs \subseteq Everyone
  <2>1. "pump" \notin Calls
    BY OpenCodeAssumption DEF OpenCodeAssumption
  <2> QED
    BY <2>1, Who DEF OpenCodeInv, Pump
<1>2. MainOk(p) /\ kind \in Starts /\ reqs \in Batches
  BY <1>1 DEF CallsOk, MainOk
<1>3. /\ reqs \in Seq(Reqs) /\ Len(reqs) \in 1..2 /\ DOMAIN reqs = 1..Len(reqs) /\ (\A i \in DOMAIN reqs : reqs[i] \in Reqs)
      /\ DOMAIN reqs \subseteq Members /\ 0 \notin DOMAIN reqs
  <2>1. reqs \in Seq(Reqs) /\ Len(reqs) \in 1..2
    BY <1>2, OpenCodeAssumption DEF OpenCodeAssumption
  <2>2. DOMAIN reqs = 1..Len(reqs) /\ \A i \in DOMAIN reqs : reqs[i] \in Reqs
    BY <2>1, Indices
  <2>3. \A i \in DOMAIN reqs : i \in {1, 2} /\ i # 0
    BY <2>1, <2>2
  <2> QED
    BY <2>1, <2>2, <2>3 DEF Members
<1>4. /\ pc \in [Everyone -> Rests \union MemberSteps \union MainSteps \union {"off", "subscribe"}]
      /\ loc \in [Everyone -> LocType]
  BY <1>1, TypesAre
<1>5. \A i \in DOMAIN reqs : /\ Member(p, i) \in LocType /\ Member(p, i).kind = kind /\ Member(p, i).req = <<kind, reqs[i]>>
                             /\ Member(p, i).turn = InitialTurn(<<kind, reqs[i]>>)
  <2> SUFFICES ASSUME NEW i \in DOMAIN reqs
               PROVE  /\ Member(p, i) \in LocType /\ Member(p, i).kind = kind /\ Member(p, i).req = <<kind, reqs[i]>>
                      /\ Member(p, i).turn = InitialTurn(<<kind, reqs[i]>>)
    OBVIOUS
  <2>1. PICK id : id = <<kind, reqs[i]>>
    OBVIOUS
  <2>2. id \in Starts \X Reqs /\ id \in Ids
    BY <1>2, <1>3, <2>1 DEF Ids
  <2>3. PICK turn : turn = InitialTurn(id)
    OBVIOUS
  <2>4. turn \in TurnIds
    BY <2>2, <2>3 DEF InitialTurn, TurnIds
  <2>5. kind \in KindNames
    BY <1>2 DEF KindNames, AskedKinds
  <2>6. Member(p, i) = [NoLocals EXCEPT !.kind = kind, !.req = id, !.turn = turn]
    BY <2>1, <2>3 DEF Member, Creation
  <2>7. Member(p, i) = [kind |-> kind, reqs |-> <<>>, req |-> id, sid |-> 0, turn |-> turn, conn |-> 0, client |-> 0,
                        owned |-> FALSE, why |-> None]
    BY <2>6 DEF NoLocals
  <2> HIDE DEF kind
  <2>8. Member(p, i) \in LocType
    BY <2>2, <2>4, <2>5, <2>7 DEF LocType, Whys
  <2>9. Member(p, i).kind = kind /\ Member(p, i).req = id /\ Member(p, i).turn = turn
    BY <2>7
  <2> QED
    BY <2>1, <2>3, <2>8, <2>9
<1>0. /\ loc' = [q \in DOMAIN loc |-> IF Mine(q) THEN Member(p, q[2]) ELSE loc[q]]
      /\ pc' = [q \in DOMAIN pc |-> IF q = p THEN "members" ELSE IF Mine(q) THEN "list" ELSE pc[q]]
      /\ UNCHANGED <<backend, admission, queue>>
  BY <1>1 DEF Admits
<1>6. /\ loc' \in [Everyone -> LocType]
      /\ \A q \in Everyone : loc'[q] = IF Mine(q) THEN Member(p, q[2]) ELSE loc[q]
  BY <1>0, <1>4, <1>5
<1>7. /\ pc' \in [Everyone -> Rests \union MemberSteps \union MainSteps \union {"off", "subscribe"}]
      /\ pc'[p] = "members"
      /\ \A q \in Everyone \ {p} : pc'[q] = IF Mine(q) THEN "list" ELSE pc[q]
  BY <1>0, <1>1, <1>4 DEF MainSteps, MemberSteps
<1>8. loc'[p] = loc[p]
  BY <1>1, <1>3, <1>6
<1>9. \A q \in Everyone \ {p} : ~Mine(q) => pc'[q] = pc[q] /\ loc'[q] = loc[q]
  BY <1>6, <1>7
<1>10. SameSessions /\ Grows
  BY <1>1, Unchanged, SameGrow
<1>11. early' = early /\ tardy' = tardy /\ client' = client /\ UNCHANGED <<admission, queue>>
  BY <1>0 DEF backend
<1>12. Types'
  <2>1. CallsTyped'
    BY <1>1, <1>6, <1>7, <1>11, TypesAre DEF CallsTyped
  <2> QED
    BY <1>1, <1>10, <1>11, <2>1, StillTyped, TypesAre
<1> HIDE DEF Mine
<1>13. CallsOk'
  <2>1. ASSUME NEW d \in Calls PROVE MainOk(Main(d))'
    <3>1. Main(d) \in Procs /\ Main(d) \in Everyone /\ Main(d)[2] = 0
      BY <1>1, Who
    <3>2. CASE d = c
      <4>1. loc'[Main(d)] = loc[p] /\ pc'[Main(d)] = "members"
        BY <1>7, <1>8, <3>2
      <4> QED
        BY <1>2, <4>1 DEF MainOk, MainSteps, Turning
    <3>3. CASE d # c
      <4>1. Main(d) # p
        BY <3>3, Who
      <4>2. ~Mine(Main(d))
        BY <1>3, <3>1 DEF Mine
      <4>3. Kept(Main(d))
        BY <1>9, <3>1, <4>1, <4>2 DEF Kept
      <4>4. \A s \in DOMAIN sessions : Continued(s)' \subseteq Continued(s)
        BY <1>1, <1>10, NothingStarts
      <4>5. \A s \in Sids : Heads(queue[s], Main(d)) => Heads(queue'[s], Main(d))
        BY <1>11
      <4>6. MainOk(Main(d)) /\ (tardy' = FALSE => tardy = FALSE)
        BY <1>1, <1>11 DEF CallsOk
      <4> QED
        BY <1>1, <1>10, <3>1, <4>3, <4>4, <4>5, <4>6, MainKept
    <3> QED
      BY <3>2, <3>3
  <2>2. ASSUME NEW q \in Calls \X Members PROVE MemberOk(q)'
    <3>1. q \in Everyone /\ q # p
      BY <1>1, Who
    <3>2. CASE Mine(q)
      <4>1. q[2] \in DOMAIN reqs
        BY <3>2 DEF Mine
      <4>2. pc'[q] = "list" /\ loc'[q].kind = kind /\ loc'[q].req = <<kind, reqs[q[2]]>> /\ loc'[q].turn = InitialTurn(loc'[q].req)
        <5>1. loc'[q] = Member(p, q[2])
          BY <1>6, <3>1, <3>2
        <5>2. pc'[q] = "list"
          BY <1>7, <3>1, <3>2
        <5>3. PICK i \in DOMAIN reqs : i = q[2]
          BY <4>1
        <5>4. PICK m : m = Member(p, i)
          OBVIOUS
        <5>5. m.kind = kind /\ m.req = <<kind, reqs[i]>> /\ m.turn = InitialTurn(<<kind, reqs[i]>>)
          BY <1>5, <5>4
        <5> QED
          BY <5>1, <5>2, <5>3, <5>4, <5>5
      <4>3. loc'[q].req \in {loc'[q].kind} \X Reqs /\ loc'[q].kind \in Starts
        <5>1. PICK r : r = reqs[q[2]]
          OBVIOUS
        <5>2. r \in Reqs
          BY <1>3, <4>1, <5>1
        <5>3. <<kind, r>> \in {kind} \X Reqs
          BY <5>2
        <5> QED
          BY <1>2, <4>2, <5>1, <5>3
      <4> QED
        BY <4>2, <4>3 DEF MemberOk, MemberSteps
    <3>3. CASE ~Mine(q)
      <4>1. Kept(q)
        BY <1>9, <3>1, <3>3 DEF Kept
      <4>2. MemberOk(q)
        BY <1>1 DEF CallsOk
      <4> QED
        BY <1>1, <1>10, <4>1, <4>2, MemberKept
    <3> QED
      BY <3>2, <3>3
  <2>3. pc'[Pump] \in {"off", "subscribe"}
    <3>1. ~Mine(Pump) /\ Pump # p
      BY <1>1, Who DEF Mine
    <3> QED
      BY <1>1, <1>9, <3>1 DEF CallsOk
  <2> QED
    BY <2>1, <2>2, <2>3 DEF CallsOk
<1>14. ServerOk' /\ Serial'
  BY <1>1, <1>10, <1>11, ServerKept, SerialKept
<1>15. ASSUME early = FALSE, tardy = FALSE PROVE (\A d \in Calls : BatchOk(d)') /\ Unique' /\ Room'
  <2>1. (\A d \in Calls : BatchOk(d)) /\ Unique /\ Room
    BY <1>1, <1>15 DEF Regular
  <2>2. ASSUME NEW d \in Calls, NEW i \in Members PROVE ~AtWorkNow(<<d, i>>)
    <3> SUFFICES ASSUME AtWorkNow(<<d, i>>) PROVE FALSE
      OBVIOUS
    <3>1. d = c
      BY <1>15, OneBatch
    <3>2. pc[Main(d)] = "members"
      BY <2>1 DEF BatchOk
    <3> QED
      BY <3>1, <3>2
  <2>3. ASSUME NEW d \in Calls, NEW i \in Members, pc'[<<d, i>>] \in MemberSteps
        PROVE  /\ d = c /\ i \in DOMAIN reqs /\ pc'[<<d, i>>] = "list" /\ loc'[<<d, i>>].kind = kind
               /\ loc'[<<d, i>>].req = Creation(kind, reqs[i])
    <3>1. <<d, i>> \in Everyone /\ <<d, i>> # p
      BY <1>1, Who
    <3>2. Mine(<<d, i>>)
      <4>1. pc[<<d, i>>] \notin MemberSteps
        BY <2>2 DEF AtWorkNow
      <4> QED
        BY <1>9, <2>3, <3>1, <4>1
    <3>3. d = c /\ i \in DOMAIN reqs
      BY <3>2 DEF Mine
    <3>4. pc'[<<d, i>>] = "list" /\ loc'[<<d, i>>] = Member(p, i)
      BY <1>6, <1>7, <3>1, <3>2
    <3> QED
      BY <1>5, <3>3, <3>4 DEF Creation
  <2>4. ASSUME NEW d \in Calls PROVE BatchOk(d)'
    <3>1. pc'[Main(d)] = "members" => Heads(admission', Main(d))
      <4>1. CASE d = c
        BY <1>11, <4>1
      <4>2. CASE d # c
        <5>1. Main(d) \in Everyone \ {p} /\ ~Mine(Main(d))
          BY <1>1, <1>3, <4>2, Who DEF Mine
        <5> QED
          BY <1>9, <1>11, <2>1, <5>1 DEF BatchOk
      <4> QED
        BY <4>1, <4>2
    <3>2. ASSUME NEW i \in Members, pc'[<<d, i>>] \in MemberSteps
          PROVE  /\ pc'[Main(d)] = "members" /\ i \in DOMAIN loc'[Main(d)].reqs
                 /\ loc'[<<d, i>>].kind = loc'[Main(d)].kind
                 /\ loc'[<<d, i>>].req = Creation(loc'[<<d, i>>].kind, loc'[Main(d)].reqs[i])
                 /\ pc'[<<d, i>>] # "create" /\ pc'[<<d, i>>] # "prompt"
      <4>1. /\ d = c /\ i \in DOMAIN reqs /\ pc'[<<d, i>>] = "list" /\ loc'[<<d, i>>].kind = kind
            /\ loc'[<<d, i>>].req = Creation(kind, reqs[i])
        BY <2>3, <3>2
      <4>2. Main(d) = p
        BY <4>1
      <4> QED
        BY <1>7, <1>8, <4>1, <4>2
    <3>3. \A i \in Members : pc'[<<d, i>>] # "create" /\ pc'[<<d, i>>] # "prompt"
      BY <3>2 DEF MemberSteps
    <3> QED
      BY <3>1, <3>2, <3>3 DEF BatchOk, AtWorkNow
  <2>5. Unique'
    BY <1>1, <1>10, <2>1, UniqueKept
  <2>6. Running' = Running
    BY DEF Running, AtWork
  <2>7. IsFiniteSet(Running) /\ IsFiniteSet(Active) /\ Cardinality(Running) \in Nat /\ Cardinality(Active) \in Nat
        /\ Cardinality(Running) <= Cardinality(Active)
    BY <1>1, RunningIsActive, RunningIsFinite, FS_Subset, FS_CardinalityType
  <2>8. /\ \A n \in Nat : n = Asked(p) => Cardinality(Active) + n <= MaxWorkers + missed'
        /\ MaxWorkers \in Nat /\ missed' \in Nat
    <3>1. Cardinality(Active \ overlooked) + Asked(p) <= MaxWorkers /\ MaxWorkers \in Nat
      BY OpenCodeAssumption DEF Admissible, OpenCodeAssumption
    <3>2. /\ Cardinality(Active \ overlooked) = Cardinality(Active) - Cardinality(Active \intersect overlooked)
          /\ Active \intersect overlooked = overlooked /\ IsFiniteSet(overlooked) /\ Cardinality(overlooked) \in Nat
      BY <2>7, FS_Difference, FS_Subset, FS_CardinalityType
    <3>3. missed \in Nat /\ missed' = missed + Cardinality(overlooked)
      BY <1>1 DEF Types, HistoryTyped
    <3> QED
      BY <2>7, <3>1, <3>2, <3>3
  <2>9. StillToStart' \subseteq {<<c, i>> : i \in DOMAIN reqs} /\ (kind # "start" => StillToStart' = {})
    <3>1. ASSUME NEW q \in StillToStart' PROVE q \in {<<c, i>> : i \in DOMAIN reqs} /\ kind = "start"
      <4>1. PICK d \in Calls, i \in Members : q = <<d, i>>
        BY DEF StillToStart
      <4>2. pc'[<<d, i>>] \in MemberSteps /\ loc'[<<d, i>>].kind = "start"
        BY <4>1 DEF StillToStart
      <4>3. d = c /\ i \in DOMAIN reqs /\ loc'[<<d, i>>].kind = kind
        BY <2>3, <4>2
      <4> QED
        BY <4>1, <4>2, <4>3
    <3> QED
      BY <3>1
  <2>10. Room'
    <3>1. CASE kind = "start"
      <4>1. Asked(p) = Len(reqs)
        BY <3>1 DEF Asked
      <4>2. IsFiniteSet(StillToStart') /\ Cardinality(StillToStart') <= Len(reqs) /\ Cardinality(StillToStart') \in Nat
        <5>1. CASE Len(reqs) = 1
          <6>1. DOMAIN reqs = {1}
            BY <1>3, <5>1
          <6>2. StillToStart' \subseteq {<<c, 1>>}
            BY <2>9, <6>1
          <6>3. IsFiniteSet({<<c, 1>>}) /\ Cardinality({<<c, 1>>}) = 1
            BY FS_Singleton
          <6> QED
            BY <5>1, <6>2, <6>3, FS_Subset, FS_CardinalityType
        <5>2. CASE Len(reqs) = 2
          <6>1. DOMAIN reqs = {1, 2}
            BY <1>3, <5>2
          <6>2. StillToStart' \subseteq {<<c, 1>>} \union {<<c, 2>>}
            BY <2>9, <6>1
          <6>3. PICK x, y : x = <<c, 1>> /\ y = <<c, 2>>
            OBVIOUS
          <6>4. x # y
            BY <6>3
          <6>5. IsFiniteSet({x}) /\ Cardinality({x}) = 1
            BY FS_Singleton
          <6>6. y \notin {x}
            BY <6>4
          <6>7. IsFiniteSet({x} \union {y}) /\ Cardinality({x} \union {y}) = 2
            <7> DEFINE X == {x}
            <7>1. IsFiniteSet(X) /\ Cardinality(X) = 1 /\ y \notin X
              BY <6>5, <6>6
            <7> HIDE DEF X
            <7>2. IsFiniteSet(X \union {y}) /\ Cardinality(X \union {y}) = Cardinality(X) + 1
              BY <7>1, FS_AddElement
            <7>3. Cardinality(X \union {y}) = 2
              BY <7>1, <7>2
            <7> QED
              BY <7>2, <7>3 DEF X
          <6> QED
            BY <5>2, <6>2, <6>3, <6>7, FS_Subset, FS_CardinalityType
        <5> QED
          BY <1>3, <5>1, <5>2
      <4>3. Len(reqs) \in Nat
        BY <1>3
      <4>4. Cardinality(Running') + Cardinality(StillToStart') <= MaxWorkers + missed'
        BY <2>6, <2>7, <2>8, <4>1, <4>2, <4>3
      <4> QED
        BY <4>2, <4>4 DEF Room
    <3>2. CASE kind # "start"
      <4>1. StillToStart' = {} /\ IsFiniteSet(StillToStart') /\ Cardinality(StillToStart') = 0
        BY <2>9, <3>2, FS_EmptySet
      <4>2. Asked(p) \in Nat
        <5> DEFINE New == {i \in DOMAIN reqs : ~InSwarm(reqs[i])}
        <5>1. IsFiniteSet(DOMAIN reqs)
          BY <1>3, FS_Interval
        <5>2. New \subseteq DOMAIN reqs
          OBVIOUS
        <5> HIDE DEF New
        <5>3. Cardinality(New) \in Nat
          BY <5>1, <5>2, FS_Subset, FS_CardinalityType
        <5> QED
          BY <3>2, <5>3 DEF Asked, New
      <4>3. Cardinality(Running') + Cardinality(StillToStart') <= MaxWorkers + missed'
        BY <2>6, <2>7, <2>8, <4>1, <4>2
      <4> QED
        BY <4>1, <4>3 DEF Room
    <3> QED
      BY <3>1, <3>2
  <2> QED
    BY <2>4, <2>5, <2>10
<1>16. Regular'
  BY <1>11, <1>15 DEF Regular
<1> QED
  BY <1>12, <1>13, <1>14, <1>16 DEF OpenCodeInv

LEMMA Counting ==
  ASSUME OpenCodeInv, NEW c \in Calls, Count(c)
  PROVE  OpenCodeInv'
<1>1. PICK p : p = Main(c)
  OBVIOUS
<1>2. /\ pc[p] = "count" /\ Heads(admission, p) /\ loc[p].conn = 0 /\ UNCHANGED <<sessions, late, early, tardy, buried>>
      /\ p \in Procs /\ pc[p] # "members"
  BY <1>1, Who DEF Count, May, Turned
<1>3. PICK overlooked \in SUBSET Active :
        /\ Cardinality(overlooked) <= left.faults
        /\ left' = [left EXCEPT !.faults = @ - Cardinality(overlooked)]
        /\ missed' = missed + Cardinality(overlooked)
        /\ IF Admissible(p, overlooked) THEN Admits(p) ELSE Answered(p, "error")
  BY <1>1 DEF Count
<1>4. Types /\ left \in LeftType /\ missed \in Nat
  BY DEF OpenCodeInv, Types, HistoryTyped
<1>5. Cardinality(overlooked) \in Nat
  BY <1>4, RunningIsFinite, FS_Subset, FS_CardinalityType
<1>6. left' \in LeftType
  <2> DEFINE n == left.faults - Cardinality(overlooked)
  <2>1. n \in Nat
    BY <1>3, <1>4, <1>5 DEF LeftType
  <2>2. left' = [left EXCEPT !.faults = n]
    BY <1>3
  <2> HIDE DEF n
  <2> QED
    BY <1>4, <2>1, <2>2 DEF LeftType
<1>7. HistoryTyped' /\ Remembers
  BY <1>2, <1>3, <1>4, <1>5 DEF Types, HistoryTyped, Remembers
<1>8. CASE ~Admissible(p, overlooked)
  <2>1. Answered(p, "error") /\ "error" \in Whys
    BY <1>3, <1>8 DEF Whys
  <2>2. SameSessions /\ \A m \in late' \ late : LateOk(m)'
    BY <1>2, <1>4, Unchanged
  <2> QED
    BY <1>2, <1>6, <1>7, <2>1, <2>2, Ends
<1>9. CASE Admissible(p, overlooked)
  BY <1>1, <1>2, <1>3, <1>6, <1>7, <1>9, Admitting
<1> QED
  BY <1>8, <1>9

-----------------------------------------------------------------------------
(* The initial states: what an earlier run left.                           *)

LEMMA OldestIs == Oldest \in Starts \X Reqs /\ Oldest \in Ids
<1>1. (CHOOSE r \in Reqs : TRUE) \in Reqs
  BY OpenCodeAssumption DEF OpenCodeAssumption
<1> QED
  BY <1>1 DEF Oldest, Creation, Ids, Starts

LEMMA FirstSession ==
  ASSUME NEW id \in Ids, NEW all, all = WithSession(<<>>, id)
  PROVE  /\ all \in Seq(SessionType) /\ Len(all) = 1 /\ DOMAIN all = {1}
         /\ all[1] = [req |-> id, member |-> FALSE, swarm |-> FALSE, paused |-> FALSE, asks |-> FALSE, turns |-> <<>>]
         /\ all[1] \in SessionType /\ all[1].req = id /\ all[1].turns = <<>>
<1> DEFINE x == [req |-> id, member |-> FALSE, swarm |-> FALSE, paused |-> FALSE, asks |-> FALSE, turns |-> <<>>]
<1>1. x \in SessionType /\ x.req = id /\ x.turns = <<>>
  BY DEF SessionType
<1>2. all = Append(<<>>, x)
  BY DEF WithSession
<1> HIDE DEF x
<1>3. all \in Seq(SessionType) /\ Len(all) = 1 /\ DOMAIN all = {1} /\ all[1] = x
  <2>1. <<>> \in Seq(SessionType)
    OBVIOUS
  <2>2. PICK q \in Seq(SessionType) : q = <<>>
    BY <2>1
  <2>3. Len(q) = 0 /\ DOMAIN q = {}
    BY <2>2
  <2>4. PICK e \in SessionType : e = x
    BY <1>1
  <2>5. /\ Append(q, e) \in Seq(SessionType) /\ Len(Append(q, e)) = Len(q) + 1
        /\ DOMAIN Append(q, e) = DOMAIN q \union {Len(q) + 1} /\ Append(q, e)[Len(q) + 1] = e
    BY Appending
  <2>6. all = Append(q, e)
    BY <1>2, <2>2, <2>4
  <2>7. 0 + 1 = 1
    OBVIOUS
  <2> QED
    BY <2>3, <2>4, <2>5, <2>6, <2>7
<1> QED
  BY <1>1, <1>3 DEF x

LEMMA UserSessionIs ==
  /\ UserSession \in Seq(SessionType) /\ Len(UserSession) = 1 /\ DOMAIN UserSession = {1}
  /\ UserSession[1].req = Nothing /\ UserSession[1].turns = <<>>
<1>1. PICK id \in Ids : id = Nothing
  BY DEF Ids
<1>2. PICK all : all = WithSession(<<>>, id)
  OBVIOUS
<1>3. UserSession = all
  BY <1>1, <1>2 DEF UserSession
<1> QED
  BY <1>1, <1>2, <1>3, FirstSession

LEMMA WorkerIs ==
  ASSUME NEW member \in BOOLEAN, NEW turns \in Seq(TurnType), NEW h, h = Worker(member, turns)
  PROVE  /\ h \in Seq(SessionType) /\ Len(h) = 2 /\ DOMAIN h = {1, 2}
         /\ h[1].req = Nothing /\ h[1].turns = <<>>
         /\ h[2].req = Oldest /\ h[2].turns = turns /\ h[2].member = member
<1>1. PICK old \in Ids : old = Oldest
  BY OldestIs
<1>2. PICK all : all = WithSession(<<>>, old)
  OBVIOUS
<1>3. PICK w \in SessionType : w = all[1]
  <2>1. all[1] \in SessionType
    BY <1>2, FirstSession
  <2> QED
    BY <2>1
<1>4. w.req = old
  BY <1>2, <1>3, FirstSession
<1> DEFINE y == [w EXCEPT !.member = member, !.turns = turns]
<1>5. y \in SessionType /\ y.req = old /\ y.turns = turns /\ y.member = member
  BY <1>4 DEF SessionType
<1>6. h = Append(UserSession, y)
  BY <1>1, <1>2, <1>3 DEF Worker
<1> HIDE DEF y
<1>7. PICK user : user = UserSession
  OBVIOUS
<1>8. /\ user \in Seq(SessionType) /\ Len(user) = 1 /\ DOMAIN user = {1} /\ user[1].req = Nothing /\ user[1].turns = <<>>
  BY <1>7, UserSessionIs
<1>9. h \in Seq(SessionType) /\ Len(h) = 2 /\ DOMAIN h = {1, 2} /\ h[2] = y /\ h[1] = user[1]
  <2>1. h = Append(user, y)
    BY <1>6, <1>7
  <2>2. /\ h \in Seq(SessionType) /\ Len(h) = Len(user) + 1 /\ DOMAIN h = DOMAIN user \union {Len(user) + 1}
        /\ h[Len(user) + 1] = y /\ \A i \in DOMAIN user : h[i] = user[i]
    BY <1>5, <1>8, <2>1, Appending
  <2> QED
    BY <1>8, <2>2
<1> QED
  BY <1>1, <1>5, <1>8, <1>9

LEMMA Histories ==
  ASSUME sessions \in History
  PROVE  /\ sessions \in Seq(SessionType) /\ Len(sessions) <= 2 /\ DOMAIN sessions \subseteq {1, 2}
         /\ 1 \in DOMAIN sessions => sessions[1].req = Nothing /\ sessions[1].turns = <<>>
         /\ 2 \in DOMAIN sessions =>
              /\ sessions[2].req = Oldest
              /\ \/ sessions[2].turns = <<>>
                 \/ /\ sessions[2].member = TRUE /\ DOMAIN sessions[2].turns = {1}
                    /\ sessions[2].turns[1].id = InitialTurn(Oldest) /\ sessions[2].turns[1].state # "accepted"
                    /\ sessions[2].turns[1].by = "start"
<1>1. PICK st \in {"running", "ended", "lost"} :
        \/ sessions = UserSession
        \/ sessions = Worker(FALSE, <<>>)
        \/ sessions = Worker(TRUE, <<>>)
        \/ sessions = Worker(TRUE, <<[Turn(InitialTurn(Oldest), "start") EXCEPT !.state = st]>>)
  BY DEF History
<1>2. <<>> \in Seq(TurnType)
  OBVIOUS
<1>3. CASE sessions = UserSession
  BY <1>3, UserSessionIs
<1>4. CASE sessions = Worker(FALSE, <<>>) \/ sessions = Worker(TRUE, <<>>)
  <2>1. PICK member \in BOOLEAN, turns \in Seq(TurnType) : sessions = Worker(member, turns) /\ turns = <<>>
    BY <1>2, <1>4
  <2>2. PICK h : h = sessions
    OBVIOUS
  <2>3. h = Worker(member, turns)
    BY <2>1, <2>2
  <2>4. /\ h \in Seq(SessionType) /\ Len(h) = 2 /\ DOMAIN h = {1, 2}
        /\ h[1].req = Nothing /\ h[1].turns = <<>> /\ h[2].req = Oldest /\ h[2].turns = turns
    BY <2>3, WorkerIs
  <2>5. DOMAIN h \subseteq {1, 2} /\ Len(h) <= 2
    BY <2>4
  <2>6. h[2].turns = <<>>
    BY <2>1, <2>4
  <2> QED
    BY <2>2, <2>4, <2>5, <2>6
<1>5. CASE sessions = Worker(TRUE, <<[Turn(InitialTurn(Oldest), "start") EXCEPT !.state = st]>>)
  <2>1. PICK turn : turn = InitialTurn(Oldest)
    OBVIOUS
  <2>2. turn \in TurnIds
    BY <2>1, OldestIs DEF InitialTurn, TurnIds
  <2>3. PICK t : t = [Turn(InitialTurn(Oldest), "start") EXCEPT !.state = st]
    OBVIOUS
  <2>4. t = [id |-> turn, by |-> "start", state |-> st]
    BY <2>1, <2>3 DEF Turn
  <2>5. t \in TurnType
    BY <2>2, <2>4 DEF TurnType, KindNames, AskedKinds, Starts, Unfinished
  <2>6. t.id = turn /\ t.by = "start" /\ t.state # "accepted"
    BY <2>4
  <2>7. PICK turns : turns = <<t>>
    OBVIOUS
  <2>8. turns \in Seq(TurnType) /\ DOMAIN turns = {1} /\ turns[1] = t
    BY <2>5, <2>7
  <2>9. PICK b \in BOOLEAN, h \in {sessions} : b = TRUE
    OBVIOUS
  <2>10. h = Worker(b, turns)
    BY <1>5, <2>3, <2>7, <2>9
  <2>11. /\ h \in Seq(SessionType) /\ Len(h) = 2 /\ DOMAIN h = {1, 2}
         /\ h[1].req = Nothing /\ h[1].turns = <<>>
         /\ h[2].req = Oldest /\ h[2].turns = turns /\ h[2].member = b
    BY <2>8, <2>10, WorkerIs
  <2>12. DOMAIN h \subseteq {1, 2} /\ Len(h) <= 2 /\ h = sessions
    BY <2>9, <2>11
  <2>13. /\ h[2].member = TRUE /\ DOMAIN h[2].turns = {1} /\ h[2].turns[1].id = InitialTurn(Oldest)
         /\ h[2].turns[1].state # "accepted" /\ h[2].turns[1].by = "start"
    <3>1. h[2].turns[1] = t /\ DOMAIN h[2].turns = {1}
      BY <2>8, <2>11
    <3>2. h[2].member = TRUE
      BY <2>9, <2>11
    <3> QED
      BY <2>1, <2>6, <3>1, <3>2
  <2> QED
    BY <2>11, <2>12, <2>13
<1> QED
  BY <1>1, <1>3, <1>4, <1>5

LEMMA InitialServer ==
  ASSUME sessions \in History, late = {}
  PROVE  /\ ServerOk /\ Unique /\ (\A s \in DOMAIN sessions : Continued(s) = {})
         /\ Running \subseteq {2} /\ sessions \in Seq(SessionType) /\ Len(sessions) <= MaxSessions
<1>1. Oldest \in Starts \X Reqs
  BY OldestIs
<1>2. PICK old : old = Oldest
  OBVIOUS
<1>3. /\ sessions \in Seq(SessionType) /\ Len(sessions) <= 2 /\ Len(sessions) \in Nat
      /\ \A s \in DOMAIN sessions :
           \/ s = 1 /\ sessions[s].req = Nothing /\ sessions[s].turns = <<>>
           \/ s = 2 /\ sessions[s].req = old /\ sessions[s].turns = <<>>
           \/ /\ s = 2 /\ sessions[s].req = old /\ sessions[s].member = TRUE /\ DOMAIN sessions[s].turns = {1}
              /\ sessions[s].turns[1].id = InitialTurn(old) /\ sessions[s].turns[1].state # "accepted"
              /\ sessions[s].turns[1].by = "start"
  <2>1. /\ sessions \in Seq(SessionType) /\ Len(sessions) <= 2 /\ DOMAIN sessions \subseteq {1, 2}
        /\ 1 \in DOMAIN sessions => sessions[1].req = Nothing /\ sessions[1].turns = <<>>
        /\ 2 \in DOMAIN sessions =>
             /\ sessions[2].req = old
             /\ \/ sessions[2].turns = <<>>
                \/ /\ sessions[2].member = TRUE /\ DOMAIN sessions[2].turns = {1}
                   /\ sessions[2].turns[1].id = InitialTurn(old) /\ sessions[2].turns[1].state # "accepted"
                   /\ sessions[2].turns[1].by = "start"
    BY <1>2, Histories
  <2>2. Len(sessions) \in Nat
    BY <2>1
  <2>3. \A s \in DOMAIN sessions : s = 1 \/ s = 2
    BY <2>1
  <2> QED
    BY <2>1, <2>2, <2>3
<1>4. DOMAIN <<>> = {}
  OBVIOUS
<1>5. \A s \in DOMAIN sessions : \A i \in DOMAIN sessions[s].turns :
        /\ i = 1 /\ s = 2 /\ sessions[s].req = old /\ sessions[s].member = TRUE
        /\ sessions[s].turns[i].id = InitialTurn(old) /\ sessions[s].turns[i].state # "accepted"
        /\ sessions[s].turns[i].by = "start"
  BY <1>3, <1>4
<1>6. Nothing \notin Starts \X Reqs
  BY DEF Nothing, None, Starts
<1>7. \A id : InitialTurn(id) = InitialTurn(old) => id = old
  BY DEF InitialTurn
<1>8. ServerOk
  <2>1. ASSUME NEW s \in DOMAIN sessions PROVE SessionOk(sessions[s])
    BY <1>5, <1>7 DEF SessionOk
  <2> QED
    BY <2>1 DEF ServerOk
<1>9. Unique
  BY <1>3, <1>5, <1>6 DEF Unique
<1>10. \A s \in DOMAIN sessions : Continued(s) = {}
  BY <1>5 DEF Continued
<1>11. Running \subseteq {2}
  BY <1>5 DEF Running, AtWork
<1>12. Len(sessions) <= MaxSessions
  BY <1>3, OpenCodeAssumption DEF OpenCodeAssumption
<1> QED
  BY <1>3, <1>8, <1>9, <1>10, <1>11, <1>12

LEMMA Initially == Init => OpenCodeInv
<1> SUFFICES ASSUME Init PROVE OpenCodeInv
  OBVIOUS
<1>1. PICK mix \in Mixes :
        /\ sessions \in mix.found
        /\ left = [kinds |-> mix.kinds, calls |-> MaxCalls, faults |-> MaxFaults, asks |-> MaxAsks]
  BY DEF Init
<1>2. /\ late = {} /\ client = 1 /\ admission = <<>> /\ queue = [s \in Sids |-> <<>>] /\ HistoryTyped /\ missed = 0
      /\ pc = [p \in Everyone |-> IF p = Pump THEN "off" ELSE "idle"] /\ loc = [p \in Everyone |-> NoLocals]
  BY DEF Init, Everyone, HistoryTyped
<1>3. sessions \in History /\ mix.kinds \subseteq AskedKinds
  BY <1>1, MixAssumption DEF AskedKinds
<1>4. /\ ServerOk /\ Unique /\ (\A s \in DOMAIN sessions : Continued(s) = {})
      /\ Running \subseteq {2} /\ sessions \in Seq(SessionType) /\ Len(sessions) <= MaxSessions
  BY <1>2, <1>3, InitialServer
<1>5. left \in LeftType
  BY <1>1, <1>3, OpenCodeAssumption DEF OpenCodeAssumption, LeftType
<1>6. pc[Pump] = "off" /\ \A q \in Procs : pc[q] = "idle"
  BY <1>2, Who
<1>7. Types
  <2>1. pc \in [Everyone -> Rests \union MemberSteps \union MainSteps \union {"off", "subscribe"}]
    BY <1>2 DEF Rests
  <2>2. loc \in [Everyone -> LocType]
    BY <1>2, NoLocalsTyped
  <2>3. <<>> \in Seq(Procs)
    OBVIOUS
  <2> QED
    BY <1>2, <1>4, <1>5, <2>1, <2>2, <2>3 DEF Types, CallsTyped
<1>8. CallsOk
  <2>1. \A c \in Calls : MainOk(Main(c))
    BY <1>6, Who DEF MainOk, Turning
  <2>2. \A p \in Calls \X Members : MemberOk(p)
    BY <1>6, Who DEF MemberOk, Rests, MemberSteps
  <2> QED
    BY <1>6, <2>1, <2>2 DEF CallsOk
<1>9. Serial
  BY <1>4 DEF Serial
<1>10. \A c \in Calls : BatchOk(c)
  BY <1>6, Who DEF BatchOk, AtWorkNow, MemberSteps
<1>11. Room
  <2>1. StillToStart = {}
    BY <1>6, Who DEF StillToStart, MemberSteps
  <2>2. IsFiniteSet(StillToStart) /\ Cardinality(StillToStart) = 0
    BY <2>1, FS_EmptySet
  <2>3. PICK n \in Nat : n = 2
    OBVIOUS
  <2>4. IsFiniteSet({n}) /\ Cardinality({n}) = 1
    BY FS_Singleton
  <2>5. Running \subseteq {n}
    BY <1>4, <2>3
  <2>6. Cardinality(Running) <= 1 /\ Cardinality(Running) \in Nat
    BY <2>4, <2>5, FS_Subset, FS_CardinalityType
  <2>7. MaxWorkers \in Nat \ {0} /\ missed = 0
    BY <1>2, OpenCodeAssumption DEF OpenCodeAssumption
  <2>8. Cardinality(Running) + Cardinality(StillToStart) <= MaxWorkers + missed
    BY <2>2, <2>6, <2>7
  <2> QED
    BY <2>2, <2>8 DEF Room
<1> QED
  BY <1>4, <1>7, <1>8, <1>9, <1>10, <1>11 DEF OpenCodeInv, Regular

-----------------------------------------------------------------------------
(* Every step.                                                             *)

LEMMA Begun ==
  ASSUME OpenCodeInv, NEW c \in Calls, BeginStart(c) \/ BeginOther(c)
  PROVE  OpenCodeInv'
<1>1. Types /\ left.kinds \subseteq AskedKinds
  BY DEF OpenCodeInv, Types, LeftType
<1>2. CASE BeginStart(c)
  <2>1. PICK kind \in left.kinds \intersect Starts, b \in Batches : Begin(c, kind, 0, b)
    BY <1>2 DEF BeginStart
  <2>2. PICK n \in Nat : n = 0
    OBVIOUS
  <2>3. kind \in AskedKinds /\ kind \in Starts /\ Begin(c, kind, n, b)
    BY <1>1, <2>1, <2>2
  <2> QED
    BY <2>1, <2>3, Beginning
<1>3. CASE BeginOther(c)
  <2>1. PICK kind \in left.kinds \ Starts, s \in DOMAIN sessions : Begin(c, kind, s, <<>>)
    BY <1>3 DEF BeginOther
  <2>2. PICK none : none = <<>>
    OBVIOUS
  <2>3. kind \in AskedKinds /\ kind \notin Starts /\ s \in Nat /\ none \in Batches \union {<<>>} /\ Begin(c, kind, s, none)
    BY <1>1, <2>1, <2>2, SessionsAre
  <2> QED
    BY <2>1, <2>3, Beginning
<1> QED
  BY <1>2, <1>3

LEMMA Called ==
  ASSUME OpenCodeInv, NEW c \in Calls, CallStep(c)
  PROVE  OpenCodeInv'
<1>1. Main(c) \in Procs
  BY Who
<1> QED
  BY <1>1, Entering, Checking, Controlling, Aborting, Settling, Looking, Seeing, Listing, Replying, StatusChecked, Counting,
     BatchOver DEF CallStep

LEMMA Requested ==
  ASSUME OpenCodeInv, NEW p \in Procs \union {Pump}, Request(p)
  PROVE  OpenCodeInv'
<1>1. p \in Everyone
  BY Who
<1>2. CASE Reconnect(p) \/ Connects(p) \/ ConnectFails(p)
  BY <1>1, <1>2, Reconnecting, Connecting, ConnectFailing
<1>3. CASE Unreadable(p) \/ Prompt(p) \/ PromptRefused(p) \/ Verify(p)
  <2>1. pc[p] \in Reading \union {"prompt", "verify"}
    BY <1>3 DEF Unreadable, Prompt, PromptRefused, Verify, May
  <2>2. p \in Procs
    BY <2>1 DEF OpenCodeInv, CallsOk, Reading
  <2> QED
    BY <1>3, <2>2, RequestFailing, Prompts, Verifying
<1> QED
  BY <1>2, <1>3 DEF Request

LEMMA Steps == OpenCodeInv /\ [Next]_vars => OpenCodeInv'
<1> SUFFICES ASSUME OpenCodeInv, [Next]_vars PROVE OpenCodeInv'
  OBVIOUS
<1>1. ASSUME NEW c \in Calls, BeginStart(c) \/ BeginOther(c) \/ CallStep(c) PROVE OpenCodeInv'
  BY <1>1, Begun, Called
<1>2. ASSUME NEW c \in Calls, NEW i \in Members, MemberStep(<<c, i>>) PROVE OpenCodeInv'
  <2>1. PICK p : p = <<c, i>>
    OBVIOUS
  <2>2. p \in Procs
    BY <2>1, Who
  <2>3. MemberStep(p)
    BY <1>2, <2>1
  <2> QED
    BY <2>2, <2>3, MemberFinds, CreateMember, RequestFailing, OwnMember, JoinMember, FindMember DEF MemberStep
<1>3. ASSUME NEW p \in Procs \union {Pump}, Request(p) PROVE OpenCodeInv'
  BY <1>3, Requested
<1>4. CASE PumpStops
  BY <1>4, PumpStopping
<1>5. CASE ServerNext
  BY <1>5, TurnsGoOn, AgentAsks, TakenLate, ServerReplaced DEF ServerNext
<1>6. CASE Restart
  BY <1>6, ApplicationRestarts
<1>7. CASE UNCHANGED vars
  <2>1. /\ UNCHANGED <<sessions, late, client, pc, loc, admission, queue, left>> /\ UNCHANGED history
    BY <1>7 DEF vars, server, backend, history
  <2>2. Types
    BY DEF OpenCodeInv
  <2>3. SameSessions /\ left' \in LeftType /\ late' \subseteq late
    BY <2>1, <2>2, Unchanged, TypesAre
  <2> QED
    BY <2>1, <2>3, ServerMoves
<1> QED
  BY <1>1, <1>2, <1>3, <1>4, <1>5, <1>6, <1>7 DEF Next

(* The sessions, the queues and the calls of every reachable state are as  *)
(* OpenCodeInv says (backend.ts: startWorker, continueWorker, the queues). *)
THEOREM OpenCodeInvariant == Spec => []OpenCodeInv
<1>1. Init => OpenCodeInv
  BY Initially
<1>2. OpenCodeInv /\ [Next]_vars => OpenCodeInv'
  BY Steps
<1> QED
  BY <1>1, <1>2, PTL DEF Spec

-----------------------------------------------------------------------------
(* What it says of agents.                                                 *)

LEMMA AtMostOne ==
  ASSUME NEW S, \A x, y \in S : x = y
  PROVE  IsFiniteSet(S) /\ Cardinality(S) <= 1
<1>1. CASE S = {}
  BY <1>1, FS_EmptySet
<1>2. CASE S # {}
  <2>1. PICK x : x \in S
    BY <1>2
  <2>2. S = {x}
    BY <2>1
  <2>3. IsFiniteSet({x}) /\ Cardinality({x}) = 1
    BY FS_Singleton
  <2> QED
    BY <2>2, <2>3
<1> QED
  BY <1>1, <1>2

(* A creation request comes to at most one session and one initial prompt, *)
(* over retries, lost answers, replacements of the server and restarts,    *)
(* and no agent runs unowned (startWorker and startSwarmMember: the list   *)
(* before the creation, the ownership before the prompt, the look for the  *)
(* message before it is sent), except after what ExactlyOnce names.        *)
THEOREM AgentsStartedOnce == Spec => []StartedOnce
<1>1. OpenCodeInv => StartedOnce
  <2> SUFFICES ASSUME OpenCodeInv PROVE StartedOnce
    OBVIOUS
  <2>1. Types /\ ServerOk /\ Regular
    BY DEF OpenCodeInv
  <2>2. \A s \in DOMAIN sessions : SessionOk(sessions[s])
    BY <2>1 DEF ServerOk
  <2>3. ASSUME early = FALSE, tardy = FALSE, NEW id \in (Starts \X Reqs) \ buried
        PROVE  Cardinality(Created(id)) <= 1 /\ Cardinality(Initial(id)) <= 1
    <3>1. Unique
      BY <2>1, <2>3 DEF Regular
    <3>2. \A s, t \in Created(id) : s = t
      BY <3>1 DEF Created, Unique
    <3>3. ASSUME NEW x \in Initial(id), NEW y \in Initial(id) PROVE x = y
      <4>1. /\ x[1] \in DOMAIN sessions /\ x[2] \in DOMAIN sessions[x[1]].turns
            /\ sessions[x[1]].turns[x[2]].id = InitialTurn(id)
            /\ y[1] \in DOMAIN sessions /\ y[2] \in DOMAIN sessions[y[1]].turns
            /\ sessions[y[1]].turns[y[2]].id = InitialTurn(id)
            /\ x \in Sids \X (1..MaxCalls * 2) /\ y \in Sids \X (1..MaxCalls * 2)
        BY DEF Initial
      <4>2. sessions[x[1]].req = id /\ sessions[y[1]].req = id
        BY <2>2, <4>1 DEF SessionOk
      <4>3. x[1] = y[1]
        BY <3>1, <4>1, <4>2 DEF Unique
      <4>4. x[2] = y[2]
        BY <3>1, <4>1, <4>2, <4>3 DEF Unique
      <4> QED
        BY <4>1, <4>3, <4>4
    <3> QED
      BY <3>2, <3>3, AtMostOne
  <2>4. ExactlyOnce
    BY <2>1, <2>3 DEF ExactlyOnce, Types, HistoryTyped
  <2>5. OwnedBeforePrompt
    BY <2>2 DEF OwnedBeforePrompt, SessionOk
  <2> QED
    BY <2>4, <2>5 DEF StartedOnce
<1> QED
  BY <1>1, OpenCodeInvariant, PTL

(* However many starts are asked for, alone or in batches and from several *)
(* calls at once, no more standalone workers run than maxConcurrentWorkers *)
(* and the workers that a failed read left uncounted (activeWorkerCount    *)
(* under serialWorkerAdmission).                                           *)
THEOREM CeilingHolds == Spec => []CeilingRespected
<1>1. OpenCodeInv => CeilingRespected
  <2> SUFFICES ASSUME OpenCodeInv, early = FALSE, tardy = FALSE
               PROVE  Cardinality({s \in DOMAIN sessions : AtWork(s) /\ ~sessions[s].swarm}) <= MaxWorkers + missed
    BY DEF CeilingRespected, OpenCodeInv, Types, HistoryTyped
  <2>1. Types /\ Room
    BY DEF OpenCodeInv, Regular
  <2>2. Cardinality(StillToStart) \in Nat /\ Cardinality(Running) \in Nat /\ missed \in Nat
    BY <2>1, RunningIsFinite, FS_CardinalityType DEF Room, Types, HistoryTyped
  <2>3. Cardinality(Running) + Cardinality(StillToStart) <= MaxWorkers + missed
    BY <2>1 DEF Room
  <2>4. Cardinality(Running) <= MaxWorkers + missed
    BY <2>2, <2>3, OpenCodeAssumption DEF OpenCodeAssumption
  <2> QED
    BY <2>4 DEF Running
<1> QED
  BY <1>1, OpenCodeInvariant, PTL

(* Two calls that continue one worker never have their turns run together, *)
(* whatever order they come in and whatever is lost (serialSession and the *)
(* look at the session inside it).                                         *)
THEOREM ContinuationsAreSerial == Spec => []ContinueSerial
<1>1. OpenCodeInv => ContinueSerial
  <2> SUFFICES ASSUME OpenCodeInv, tardy = FALSE, NEW s \in DOMAIN sessions PROVE Cardinality(Continued(s)) <= 1
    BY DEF ContinueSerial, OpenCodeInv, Types, HistoryTyped
  <2>1. \A i, j \in Continued(s) : i = j
    BY DEF OpenCodeInv, Serial
  <2> QED
    BY <2>1, AtMostOne
<1> QED
  BY <1>1, OpenCodeInvariant, PTL

-----------------------------------------------------------------------------
(* The choice of a model and of a variant (ModelChoice).                   *)

LEMMA SingleIs ==
  ASSUME NEW S, IsFiniteSet(S), NEW T \in SUBSET S
  PROVE  /\ Cardinality(T) \in Nat
         /\ Single(T) <=> \E x : T = {x}
         /\ T # {} => Single(T) \/ Cardinality(T) > 1
<1>1. IsFiniteSet(T)
  BY FS_Subset
<1>2. Cardinality(T) \in Nat /\ (Cardinality(T) = 0 <=> T = {})
  BY <1>1, FS_CardinalityType, FS_EmptySet
<1>3. Cardinality(T) = 1 <=> \E x : T = {x}
  BY <1>1, FS_Singleton
<1>4. Single(T) <=> \E x : T = {x}
  BY <1>3 DEF Single
<1>5. ASSUME T # {} PROVE Cardinality(T) = 1 \/ Cardinality(T) > 1
  <2> DEFINE n == Cardinality(T)
  <2>1. n \in Nat /\ n # 0
    BY <1>2, <1>5
  <2> HIDE DEF n
  <2>2. n = 1 \/ n > 1
    BY <2>1
  <2> QED
    BY <2>2 DEF n
<1> QED
  BY <1>2, <1>4, <1>5, Zenon DEF Single

\* The route m is preferred to o for its provider.
Prefers(m, o, want) ==
  \/ m.provider = "opencode-go" /\ o.provider # "opencode-go"
  \/ m.provider = "opencode" /\ o.provider # m.provider
  \/ want # "" /\ m.provider = want /\ o.provider # want

(* Of routes that match equally well one is chosen only for its provider,  *)
(* and the only one always is.                                             *)
LEMMA PreferredIsBest ==
  ASSUME NEW routes, IsFiniteSet(routes), NEW want,
         \A o \in routes : want = "" \/ Lower[o.provider] = Lower[want]
  PROVE  /\ PreferredCandidate(routes, want) \subseteq routes
         /\ \A m \in PreferredCandidate(routes, want) : \A o \in routes \ {m} : Prefers(m, o, want)
         /\ Single(routes) => PreferredCandidate(routes, want) # {}
<1> DEFINE exact == {m \in routes : m.provider = want}
           alike == {m \in routes : Lower[m.provider] = Lower[want]}
           go == {m \in routes : m.provider = "opencode-go"}
           oc == {m \in routes : m.provider = "opencode"}
           C == PreferredCandidate(routes, want)
<1>1. C = IF want # "" /\ exact # {} THEN IF Single(exact) THEN exact ELSE {}
          ELSE IF want # "" /\ alike # {} THEN IF Single(alike) THEN alike ELSE {}
          ELSE IF Single(go) THEN go
          ELSE IF Single(oc) THEN oc
          ELSE IF Single(routes) THEN routes ELSE {}
  BY Zenon DEF PreferredCandidate
<1>2. /\ Single(exact) <=> \E x : exact = {x}
      /\ Single(alike) <=> \E x : alike = {x}
      /\ Single(go) <=> \E x : go = {x}
      /\ Single(oc) <=> \E x : oc = {x}
      /\ Single(routes) <=> \E x : routes = {x}
  <2>1. exact \in SUBSET routes /\ alike \in SUBSET routes /\ go \in SUBSET routes /\ oc \in SUBSET routes
    OBVIOUS
  <2> HIDE DEF exact, alike, go, oc
  <2> QED
    BY <2>1, SingleIs
<1>3. C \subseteq routes
  BY <1>1
<1>4. ASSUME NEW m \in C, NEW o \in routes \ {m} PROVE Prefers(m, o, want)
  <2>1. CASE want # "" /\ exact # {}
    <3>1. exact = {m}
      <4>1. C = exact /\ Single(exact)
        BY <1>1, <2>1
      <4> QED
        BY <1>2, <4>1
    <3>2. m.provider = want /\ o.provider # want
      BY <3>1
    <3> QED
      BY <2>1, <3>2 DEF Prefers
  <2>2. CASE want # "" /\ exact = {} /\ alike # {}
    <3>1. alike = {m}
      <4>1. C = alike /\ Single(alike)
        BY <1>1, <2>2
      <4> QED
        BY <1>2, <4>1
    <3>2. o \in alike
      BY <2>2
    <3> QED
      BY <3>1, <3>2
  <2>3. CASE want = "" \/ (exact = {} /\ alike = {})
    <3>1. C = IF Single(go) THEN go ELSE IF Single(oc) THEN oc ELSE IF Single(routes) THEN routes ELSE {}
      BY <1>1, <2>3
    <3>2. CASE Single(go)
      <4>1. C = go
        BY <3>1, <3>2
      <4>2. go = {m}
        BY <1>2, <3>2, <4>1
      <4> QED
        BY <4>2 DEF Prefers
    <3>3. CASE ~Single(go) /\ Single(oc)
      <4>1. C = oc
        BY <3>1, <3>3
      <4>2. oc = {m}
        BY <1>2, <3>3, <4>1
      <4> QED
        BY <4>2 DEF Prefers
    <3>4. CASE ~Single(go) /\ ~Single(oc)
      <4>1. C = routes /\ Single(routes)
        BY <3>1, <3>4
      <4> QED
        BY <1>2, <4>1
    <3> QED
      BY <3>2, <3>3, <3>4
  <2> QED
    BY <2>1, <2>2, <2>3
<1>5. ASSUME Single(routes) PROVE C # {}
  <2>1. PICK x : routes = {x}
    BY <1>2, <1>5
  <2>2. CASE want # ""
    <3>1. alike = {x} /\ Single(alike)
      BY <1>2, <2>1, <2>2
    <3>2. exact = {} \/ exact = {x}
      BY <2>1
    <3>3. exact = {} \/ Single(exact)
      BY <1>2, <3>2
    <3> QED
      BY <1>1, <2>2, <3>1, <3>2, <3>3
  <2>3. CASE want = ""
    <3>1. C = IF Single(go) THEN go ELSE IF Single(oc) THEN oc ELSE routes
      BY <1>1, <1>5, <2>3
    <3>2. (Single(go) => go # {}) /\ (Single(oc) => oc # {})
      BY <1>2
    <3> QED
      BY <2>1, <3>1, <3>2
  <2> QED
    BY <2>2, <2>3
<1> QED
  BY <1>3, <1>4, <1>5

\* The routes a reference may mean.
Scope(all, want) == {m \in all : want = "" \/ Lower[m.provider] = Lower[want]}

LEMMA FamilyInScope ==
  ASSUME NEW all, NEW ref, NEW want, want # ""
  PROVE  FamilySibling(all, ref, want) \subseteq Scope(all, want)
<1> QED
  BY DEF FamilySibling, Scope

(* The words that are in the reference find only the routes with most of   *)
(* them.                                                                   *)
LEMMA FuzzyIsBest ==
  ASSUME NEW all, IsFiniteSet(all), NEW want, NEW ref, IsFiniteSet(Words[ref])
  PROVE  /\ FuzzyFamily(all, ref, want) \subseteq Scope(all, want)
         /\ \A m \in FuzzyFamily(all, ref, want) :
              /\ Score(m, ref) >= 2
              /\ \A o \in Scope(all, want) \ {m} : Score(m, ref) > Score(o, ref) \/ Prefers(m, o, want)
<1> DEFINE n == Cardinality(Words[ref])
           enough == IF (n + 1) \div 2 > 2 THEN (n + 1) \div 2 ELSE 2
           scored == {m \in all : (want = "" \/ Lower[m.provider] = Lower[want]) /\ Score(m, ref) >= enough}
           best == {m \in scored : \A o \in scored : Score(o, ref) <= Score(m, ref)}
           F == FuzzyFamily(all, ref, want)
<1>1. F \subseteq PreferredCandidate(best, want)
  BY DEF FuzzyFamily, Score
<1>2. \A m : Score(m, ref) \in Nat
  BY FS_Intersection, FS_CardinalityType DEF Score
<1>3. n \in Nat
  BY FS_CardinalityType
<1>4. enough \in Nat /\ enough >= 2
  <2> HIDE DEF n
  <2> QED
    BY <1>3
<1>5. IsFiniteSet(best) /\ (\A o \in best : want = "" \/ Lower[o.provider] = Lower[want])
  <2>1. best \in SUBSET all
    OBVIOUS
  <2>2. IsFiniteSet(best)
    <3> HIDE DEF best
    <3> QED
      BY <2>1, FS_Subset
  <2> QED
    BY <2>2
<1>6. /\ PreferredCandidate(best, want) \subseteq best
      /\ \A m \in PreferredCandidate(best, want) : \A o \in best \ {m} : Prefers(m, o, want)
  <2> HIDE DEF best
  <2> QED
    BY <1>5, PreferredIsBest
<1>7. ASSUME NEW m \in F PROVE m \in best /\ m \in scored /\ m \in Scope(all, want)
  BY <1>1, <1>6, <1>7 DEF Scope
<1>8. ASSUME NEW m \in F, NEW o \in Scope(all, want) \ {m}
      PROVE  Score(m, ref) > Score(o, ref) \/ Prefers(m, o, want)
  <2>1. m \in best /\ m \in scored
    BY <1>7
  <2>2. CASE o \in best
    <3> HIDE DEF best
    <3> QED
      BY <1>1, <1>6, <2>2
  <2>3. CASE o \in scored \ best
    <3>1. PICK x \in scored : ~(Score(x, ref) <= Score(o, ref))
      BY <2>3
    <3>2. Score(x, ref) <= Score(m, ref)
      BY <2>1
    <3>3. Score(m, ref) \in Nat /\ Score(o, ref) \in Nat /\ Score(x, ref) \in Nat
      BY <1>2
    <3> HIDE DEF scored, best, enough, F
    <3> QED
      BY <3>1, <3>2, <3>3
  <2>4. CASE o \notin scored
    <3>1. ~(Score(o, ref) >= enough)
      BY <2>4 DEF Scope
    <3>2. Score(m, ref) >= enough
      BY <2>1
    <3>3. Score(m, ref) \in Nat /\ Score(o, ref) \in Nat
      BY <1>2
    <3> HIDE DEF enough
    <3> QED
      BY <1>4, <3>1, <3>2, <3>3
  <2> QED
    BY <2>2, <2>3, <2>4
<1>9. ASSUME NEW m \in F PROVE Score(m, ref) >= 2
  <2>1. Score(m, ref) >= enough /\ Score(m, ref) \in Nat
    BY <1>2, <1>7
  <2> HIDE DEF enough
  <2> QED
    BY <1>4, <2>1
<1> QED
  BY <1>7, <1>8, <1>9

(* What ResolveModel makes of a reference: the first of three ways to      *)
(* match that does not miss, else a sibling, else the words.               *)
LEMMA ModelNotGuessed ==
  ASSUME NEW all, IsFiniteSet(all), NEW want, NEW ref, IsFiniteSet(Words[ref])
  PROVE  LET r == ResolveModel(all, want, ref)  rivals == Scope(all, want) IN
         /\ r.model \subseteq rivals /\ r.candidates \subseteq rivals
         /\ \A m \in r.model :
              /\ \A o \in rivals \ {m} : Rank(o, ref) >= Rank(m, ref) /\ Better(m, o, ref, all, want)
              /\ Rank(m, ref) = 4 => Score(m, ref) >= 2 \/ m \in FamilySibling(all, ref, want)
         /\ ref # "" /\ (\E m \in rivals : Rank(m, ref) < 4) => r.model # {} \/ Cardinality(r.candidates) > 1
<1> DEFINE r == ResolveModel(all, want, ref)
           rivals == Scope(all, want)
           exact == {m \in rivals : m.id = ref}
           alike == {m \in rivals : Lower[m.id] = Lower[ref]}
           named == {m \in rivals : m.name # "" /\ Lower[m.name] = Lower[ref]}
           ranks == <<exact, alike, named>>
           found == {k \in 1..3 : PreferredCandidate(ranks[k], want) # {} \/ Cardinality(ranks[k]) > 1}
           first == ranks[Min(found)]
           chosen == PreferredCandidate(first, want)
           sibling == IF want = "" THEN {} ELSE FamilySibling(all, ref, want)
           fuzzy == FuzzyFamily(all, ref, want)
<1>1. r = IF ref = "" THEN NoRoute
          ELSE IF found # {} THEN [model |-> chosen, candidates |-> IF chosen = {} THEN first ELSE {}]
          ELSE [model |-> IF sibling # {} THEN sibling ELSE fuzzy, candidates |-> {}]
  BY Zenon DEF ResolveModel, Scope
<1>2. \A m : Rank(m, ref) \in 1..4
  BY DEF Rank
<1>3. /\ \A m \in rivals : Rank(m, ref) = 1 <=> m \in exact
      /\ \A m \in rivals : Rank(m, ref) = 2 <=> m \in alike \ exact
      /\ \A m \in rivals : Rank(m, ref) = 3 <=> m \in named \ (exact \union alike)
  <2>1. ASSUME NEW m \in rivals
        PROVE  Rank(m, ref) = IF m \in exact THEN 1 ELSE IF m \in alike THEN 2 ELSE IF m \in named THEN 3 ELSE 4
    BY DEF Rank
  <2> HIDE DEF exact, alike, named, rivals
  <2> QED
    BY <2>1
<1>4. ASSUME NEW T \in SUBSET rivals
      PROVE  /\ PreferredCandidate(T, want) \subseteq T
             /\ \A m \in PreferredCandidate(T, want) : \A o \in T \ {m} : Prefers(m, o, want)
             /\ T # {} => PreferredCandidate(T, want) # {} \/ Cardinality(T) > 1
  <2>1. T \in SUBSET all /\ (\A o \in T : want = "" \/ Lower[o.provider] = Lower[want])
    BY DEF Scope
  <2>2. IsFiniteSet(T)
    BY <2>1, FS_Subset
  <2>3. T # {} => Single(T) \/ Cardinality(T) > 1
    BY <2>1, SingleIs
  <2> QED
    BY <2>1, <2>2, <2>3, PreferredIsBest
<1>5. \A m, o : Prefers(m, o, want) => Better(m, o, ref, all, want)
  BY DEF Prefers, Better
<1>6. ranks[1] = exact /\ ranks[2] = alike /\ ranks[3] = named
  OBVIOUS
<1> HIDE DEF r, rivals, exact, alike, named, ranks, chosen, sibling, fuzzy
<1>7. /\ \A k \in 1..3 : ranks[k] \in SUBSET rivals /\ (k \notin found => ranks[k] = {})
      /\ \A k \in found : PreferredCandidate(ranks[k], want) # {} \/ Cardinality(ranks[k]) > 1
      /\ found \subseteq 1..3 /\ found \in SUBSET Nat
  <2>1. \A k \in 1..3 : ranks[k] \in SUBSET rivals
    <3>1. exact \in SUBSET rivals /\ alike \in SUBSET rivals /\ named \in SUBSET rivals
      BY DEF exact, alike, named
    <3>2. \A k \in 1..3 : k = 1 \/ k = 2 \/ k = 3
      OBVIOUS
    <3> QED
      BY <1>6, <3>1, <3>2
  <2>2. ASSUME NEW k \in 1..3, k \notin found PROVE ranks[k] = {}
    <3>1. PreferredCandidate(ranks[k], want) = {} /\ ~(Cardinality(ranks[k]) > 1)
      BY <2>2
    <3> QED
      BY <1>4, <2>1, <3>1
  <2> QED
    BY <2>1, <2>2
<1> HIDE DEF found, first
<1>8. CASE ref = ""
  <2>1. r.model = {} /\ r.candidates = {}
    BY <1>1, <1>8 DEF NoRoute
  <2> QED
    BY <1>8, <2>1 DEF r, rivals
<1>9. CASE ref # "" /\ found # {}
  <2>1. Min(found) \in found /\ \A k \in found : Min(found) <= k
    BY <1>7, <1>9, LeastIn
  <2>2. PICK n \in 1..3 : n = Min(found)
    BY <1>7, <2>1
  <2>3. /\ first = ranks[n] /\ first \in SUBSET rivals
        /\ \A k \in 1..(n - 1) : ranks[k] = {}
        /\ PreferredCandidate(first, want) # {} \/ Cardinality(first) > 1
    <3>1. first = ranks[n] /\ first \in SUBSET rivals
      BY <1>7, <2>2 DEF first
    <3>2. \A k \in 1..(n - 1) : k \in 1..3 /\ k \notin found
      BY <2>1, <2>2
    <3>3. \A k \in 1..(n - 1) : ranks[k] = {}
      BY <1>7, <3>2
    <3> QED
      BY <1>7, <2>1, <2>2, <3>1, <3>3
  <2>4. r.model = chosen /\ r.candidates = IF chosen = {} THEN first ELSE {}
    BY <1>1, <1>9
  <2>5. chosen \subseteq first
    BY <1>4, <2>3 DEF chosen
  <2>6. \A m \in first : Rank(m, ref) = n
    <3>1. CASE n = 1
      BY <1>3, <1>6, <2>3, <3>1
    <3>2. CASE n = 2
      <4>1. exact = {} /\ first = alike
        BY <1>6, <2>3, <3>2
      <4> QED
        BY <1>3, <2>3, <3>2, <4>1
    <3>3. CASE n = 3
      <4>1. exact = {} /\ alike = {} /\ first = named
        BY <1>6, <2>3, <3>3
      <4> QED
        BY <1>3, <2>3, <3>3, <4>1
    <3> QED
      BY <2>2, <3>1, <3>2, <3>3
  <2>7. \A o \in rivals \ first : Rank(o, ref) > n
    <3>1. CASE n = 1
      BY <1>2, <1>3, <1>6, <2>3, <3>1
    <3>2. CASE n = 2
      <4>1. exact = {} /\ first = alike
        BY <1>6, <2>3, <3>2
      <4> QED
        BY <1>2, <1>3, <2>3, <3>2, <4>1
    <3>3. CASE n = 3
      <4>1. exact = {} /\ alike = {} /\ first = named
        BY <1>6, <2>3, <3>3
      <4> QED
        BY <1>2, <1>3, <2>3, <3>3, <4>1
    <3> QED
      BY <2>2, <3>1, <3>2, <3>3
  <2>8. ASSUME NEW m \in chosen
        PROVE  /\ \A o \in rivals \ {m} : Rank(o, ref) >= Rank(m, ref) /\ Better(m, o, ref, all, want)
               /\ Rank(m, ref) # 4
    <3>1. m \in first /\ Rank(m, ref) = n
      BY <2>5, <2>6
    <3>2. ASSUME NEW o \in rivals \ {m} PROVE Rank(o, ref) >= Rank(m, ref) /\ Better(m, o, ref, all, want)
      <4>1. CASE o \in first
        <5>1. Rank(o, ref) = n
          BY <2>6, <4>1
        <5>2. Prefers(m, o, want)
          BY <1>4, <2>3, <4>1 DEF chosen
        <5> QED
          BY <1>5, <2>2, <3>1, <5>1, <5>2
      <4>2. CASE o \notin first
        <5>1. Rank(o, ref) > n /\ Rank(o, ref) \in Nat
          BY <1>2, <2>7, <4>2
        <5>2. Rank(m, ref) < Rank(o, ref) /\ Rank(o, ref) >= Rank(m, ref)
          BY <2>2, <3>1, <5>1
        <5> QED
          BY <5>2 DEF Better
      <4> QED
        BY <4>1, <4>2
    <3> QED
      BY <2>2, <3>1, <3>2
  <2>9. r.model # {} \/ Cardinality(r.candidates) > 1
    BY <2>3, <2>4 DEF chosen
  <2>10. r.model \subseteq rivals /\ r.candidates \subseteq rivals
    BY <2>3, <2>4, <2>5
  <2> QED
    BY <2>4, <2>8, <2>9, <2>10 DEF r, rivals
<1>10. CASE ref # "" /\ found = {}
  <2>1. exact = {} /\ alike = {} /\ named = {}
    <3>1. ranks[1] = {} /\ ranks[2] = {} /\ ranks[3] = {}
      <4>1. {1, 2, 3} \subseteq 1..3
        OBVIOUS
      <4> QED
        BY <1>7, <1>10, <4>1
    <3> QED
      BY <1>6, <3>1
  <2>2. \A m \in rivals : Rank(m, ref) = 4
    BY <1>2, <1>3, <2>1
  <2>3. r.model = (IF sibling # {} THEN sibling ELSE fuzzy) /\ r.candidates = {}
    BY <1>1, <1>10
  <2>4. sibling \subseteq rivals /\ sibling \subseteq FamilySibling(all, ref, want)
    BY FamilyInScope DEF sibling, rivals
  <2>5. /\ fuzzy \subseteq rivals
        /\ \A m \in fuzzy : /\ Score(m, ref) >= 2
                            /\ \A o \in rivals \ {m} : Score(m, ref) > Score(o, ref) \/ Prefers(m, o, want)
    BY FuzzyIsBest DEF fuzzy, rivals
  <2>6. r.model \subseteq rivals
    BY <2>3, <2>4, <2>5
  <2>7. ASSUME NEW m \in r.model
        PROVE  /\ Score(m, ref) >= 2 \/ m \in FamilySibling(all, ref, want)
               /\ \A o \in rivals \ {m} : Rank(o, ref) >= Rank(m, ref) /\ Better(m, o, ref, all, want)
    <3>1. Rank(m, ref) = 4 /\ \A o \in rivals : Rank(o, ref) = 4
      BY <2>2, <2>6, <2>7
    <3>2. m \in FamilySibling(all, ref, want) \/ m \in fuzzy
      BY <2>3, <2>4, <2>7
    <3>3. ASSUME NEW o \in rivals \ {m} PROVE Better(m, o, ref, all, want)
      BY <1>5, <2>5, <3>1, <3>2 DEF Better
    <3>4. Score(m, ref) >= 2 \/ m \in FamilySibling(all, ref, want)
      BY <2>5, <3>2
    <3> QED
      BY <3>1, <3>3, <3>4
  <2>8. ~(\E m \in rivals : Rank(m, ref) < 4)
    BY <2>2
  <2> QED
    BY <2>3, <2>6, <2>7, <2>8 DEF r, rivals
<1> QED
  BY <1>8, <1>9, <1>10

(* What ResolveVariant makes of a name.                                    *)
LEMMA VariantNotGuessed ==
  ASSUME NEW of \in Published, NEW want \in Variants
  PROVE  LET r == ResolveVariant(of, want) IN
         /\ r \subseteq ToSet(of) \union {"default"}
         /\ \A v \in r : Squeezed[v] = Squeezed[want] \/ \E a \in Aliases : {Squeezed[v], Squeezed[want]} \subseteq a[2]
         /\ want \in ToSet(of) /\ Squeezed[want] \notin {"base", "normal", "default"} => r = {want}
<1> DEFINE r == ResolveVariant(of, want)
           places == DOMAIN of
           exact == {i \in places : of[i] = want}
           alike == {i \in places : Lower[of[i]] = Lower[want]}
           direct == {i \in places : Squeezed[of[i]] = Squeezed[want]}
           canonical == {a[1] : a \in {a \in Aliases : Squeezed[want] \in a[2]}}
           aliased == {i \in places : Squeezed[of[i]] \in canonical}
           usual == Squeezed[want] \in {"base", "normal"} \/ Lower[want] = "default"
<1>1. r = IF usual THEN {"default"}
          ELSE IF exact # {} THEN {of[Min(exact)]} ELSE IF alike # {} THEN {of[Min(alike)]}
          ELSE IF Single(direct) THEN {of[Min(direct)]} ELSE IF Single(aliased) THEN {of[Min(aliased)]} ELSE {}
  BY Zenon DEF ResolveVariant
<1>2. /\ places = 1..Len(of) /\ Len(of) \in Nat /\ IsFiniteSet(places) /\ places \in SUBSET Nat
      /\ ToSet(of) = {of[i] : i \in places}
  <2>1. of \in Seq(ToSet(of))
    BY ChoiceAssumption
  <2>2. DOMAIN of = 1..Len(of) /\ Len(of) \in Nat
    BY <2>1
  <2>3. IsFiniteSet(1..Len(of))
    BY <2>2, FS_Interval
  <2> QED
    BY <2>2, <2>3 DEF ToSet
<1>3. ASSUME NEW I \in SUBSET places, I # {} \/ Single(I)
      PROVE  Min(I) \in I /\ Min(I) \in places
  <2>1. I # {}
    BY <1>2, <1>3, SingleIs
  <2> QED
    BY <1>2, <2>1, LeastIn
<1>4. \A i \in places : of[i] \in VariantNamed /\ of[i] \in ToSet(of)
  BY <1>2 DEF VariantNamed
<1>5. want \in VariantNamed /\ "default" \in VariantNamed
  BY DEF VariantNamed
<1>6. \A v \in VariantNamed : Lower[v] = Lower[want] => Squeezed[v] = Squeezed[want]
  BY <1>5, ChoiceAssumption
<1>7. exact \in SUBSET places /\ alike \in SUBSET places /\ direct \in SUBSET places /\ aliased \in SUBSET places
  OBVIOUS
<1>8. /\ \A i \in exact : of[i] = want
      /\ \A i \in alike : Lower[of[i]] = Lower[want]
      /\ \A i \in direct : Squeezed[of[i]] = Squeezed[want]
      /\ \A i \in aliased : \E a \in Aliases : {Squeezed[of[i]], Squeezed[want]} \subseteq a[2]
  <2>1. \A a \in Aliases : a[1] \in a[2]
    BY DEF Aliases
  <2> QED
    BY <2>1
<1>9. want \in ToSet(of) => exact # {}
  BY <1>2
<1>10. usual => Squeezed[want] \in {"base", "normal", "default"}
  BY <1>5, ChoiceAssumption
<1>11. \E a \in Aliases : {"default", "base", "normal"} \subseteq a[2]
  <2>1. <<"default", {"default", "base", "normal"}>> \in Aliases
    BY DEF Aliases
  <2> QED
    BY <2>1
<1> HIDE DEF r, places, exact, alike, direct, canonical, aliased, usual
<1>12. CASE usual
  <2>1. r = {"default"} /\ Squeezed["default"] = "default"
    BY <1>1, <1>12, ChoiceAssumption
  <2> QED
    BY <1>10, <1>11, <1>12, <2>1 DEF r
<1>13. CASE ~usual /\ exact # {}
  <2>1. r = {of[Min(exact)]} /\ Min(exact) \in exact
    BY <1>1, <1>3, <1>7, <1>13
  <2>2. r = {want} /\ want \in ToSet(of)
    BY <1>4, <1>7, <1>8, <2>1
  <2> QED
    BY <2>2 DEF r
<1>14. CASE ~usual /\ exact = {} /\ alike # {}
  <2>1. r = {of[Min(alike)]} /\ Min(alike) \in alike
    BY <1>1, <1>3, <1>7, <1>14
  <2> QED
    BY <1>4, <1>6, <1>7, <1>8, <1>9, <1>14, <2>1 DEF r
<1>15. CASE ~usual /\ exact = {} /\ alike = {} /\ Single(direct)
  <2>1. r = {of[Min(direct)]} /\ Min(direct) \in direct
    BY <1>1, <1>3, <1>7, <1>15
  <2> QED
    BY <1>4, <1>7, <1>8, <1>9, <1>15, <2>1 DEF r
<1>16. CASE ~usual /\ exact = {} /\ alike = {} /\ ~Single(direct) /\ Single(aliased)
  <2>1. r = {of[Min(aliased)]} /\ Min(aliased) \in aliased
    BY <1>1, <1>3, <1>7, <1>16
  <2> QED
    BY <1>4, <1>7, <1>8, <1>9, <1>16, <2>1 DEF r
<1>17. CASE ~usual /\ exact = {} /\ alike = {} /\ ~Single(direct) /\ ~Single(aliased)
  <2>1. r = {}
    BY <1>1, <1>17
  <2> QED
    BY <1>9, <1>17, <2>1 DEF r
<1> QED
  BY <1>12, <1>13, <1>14, <1>15, <1>16, <1>17

\* A question that was answered was answered by ResolveModel or ResolveVariant.
ChoiceInv ==
  \/ /\ ask.is = "model" /\ ask.all \in Catalogs /\ ask.ref \in References
     /\ result \subseteq {ResolveModel(ask.all, ask.want, ask.ref)}
  \/ /\ ask.is = "variant" /\ ask.of \in Published /\ ask.want \in Variants
     /\ result \subseteq {ResolveVariant(ask.of, ask.want)}

LEMMA ChoiceInvImplies == ChoiceInv => ChosenNotGuessed
<1> SUFFICES ASSUME ChoiceInv, NEW r \in result
             PROVE  /\ ask.is = "model" =>
                         LET rivals == {m \in ask.all : ask.want = "" \/ Lower[m.provider] = Lower[ask.want]}  ref == ask.ref IN
                         /\ r.model \subseteq rivals /\ r.candidates \subseteq rivals
                         /\ \A m \in r.model :
                              /\ \A o \in rivals \ {m} : Rank(o, ref) >= Rank(m, ref) /\ Better(m, o, ref, ask.all, ask.want)
                              /\ Rank(m, ref) = 4 => Score(m, ref) >= 2 \/ m \in FamilySibling(ask.all, ref, ask.want)
                         /\ ref # "" /\ (\E m \in rivals : Rank(m, ref) < 4) => r.model # {} \/ Cardinality(r.candidates) > 1
                    /\ ask.is = "variant" =>
                         /\ r \subseteq ToSet(ask.of) \union {"default"}
                         /\ \A v \in r : Squeezed[v] = Squeezed[ask.want]
                                         \/ \E a \in Aliases : {Squeezed[v], Squeezed[ask.want]} \subseteq a[2]
                         /\ ask.want \in ToSet(ask.of) /\ Squeezed[ask.want] \notin {"base", "normal", "default"} => r = {ask.want}
  BY Zenon DEF ChosenNotGuessed
<1>1. CASE ask.is = "model"
  <2>1. /\ ask.all \in Catalogs /\ ask.ref \in References /\ r = ResolveModel(ask.all, ask.want, ask.ref)
    BY <1>1 DEF ChoiceInv
  <2>2. IsFiniteSet(ask.all) /\ IsFiniteSet(Words[ask.ref])
    BY <2>1, ChoiceAssumption
  <2> DEFINE all == ask.all  want == ask.want  ref == ask.ref
  <2>3. r = ResolveModel(all, want, ref) /\ IsFiniteSet(all) /\ IsFiniteSet(Words[ref])
    BY <2>1, <2>2
  <2> HIDE DEF all, want, ref
  <2>4. LET rivals == Scope(all, want) IN
         /\ r.model \subseteq rivals /\ r.candidates \subseteq rivals
         /\ \A m \in r.model :
              /\ \A o \in rivals \ {m} : Rank(o, ref) >= Rank(m, ref) /\ Better(m, o, ref, all, want)
              /\ Rank(m, ref) = 4 => Score(m, ref) >= 2 \/ m \in FamilySibling(all, ref, want)
         /\ ref # "" /\ (\E m \in rivals : Rank(m, ref) < 4) => r.model # {} \/ Cardinality(r.candidates) > 1
    BY <2>3, ModelNotGuessed, Zenon
  <2> QED
    BY <1>1, <2>4, Zenon DEF all, want, ref, Scope
<1>2. CASE ask.is = "variant"
  <2>1. ask.of \in Published /\ ask.want \in Variants /\ r = ResolveVariant(ask.of, ask.want)
    BY <1>2 DEF ChoiceInv
  <2> DEFINE of == ask.of  want == ask.want
  <2>2. of \in Published /\ want \in Variants /\ r = ResolveVariant(of, want)
    BY <2>1
  <2> HIDE DEF of, want
  <2>3. /\ r \subseteq ToSet(of) \union {"default"}
        /\ \A v \in r : Squeezed[v] = Squeezed[want] \/ \E a \in Aliases : {Squeezed[v], Squeezed[want]} \subseteq a[2]
        /\ want \in ToSet(of) /\ Squeezed[want] \notin {"base", "normal", "default"} => r = {want}
    BY <2>2, VariantNotGuessed, Zenon
  <2>4. ask.is # "model"
    BY <1>2
  <2> QED
    BY <2>3, <2>4, Zenon DEF of, want
<1>3. ask.is \in {"model", "variant"}
  BY DEF ChoiceInv
<1> QED
  BY <1>1, <1>2, <1>3

(* A loose reference of the caller is never resolved by a guess: for any   *)
(* catalog, any names of models and any published variants, what is chosen *)
(* is the best match for a reason the caller gave or the only one, and what *)
(* is certain is never missed.  (model-catalog.ts:142-278)                 *)
THEOREM NeverGuesses == ChoiceSpec => []ChosenNotGuessed
<1>1. ChoiceInit => ChoiceInv
  BY DEF ChoiceInit, ChoiceInv
<1>2. ChoiceInv /\ [ChoiceNext]_asked => ChoiceInv'
  <2> SUFFICES ASSUME ChoiceInv, [ChoiceNext]_asked PROVE ChoiceInv'
    OBVIOUS
  <2>1. ask' = ask
    BY DEF ChoiceNext, ChoosesModel, ChoosesVariant, Answers, asked
  <2>2. CASE ask.is = "model"
    <3>1. result' \subseteq {ResolveModel(ask.all, ask.want, ask.ref)}
      BY <2>2 DEF ChoiceInv, ChoiceNext, ChoosesModel, ChoosesVariant, Answers, asked
    <3> QED
      BY <2>1, <2>2, <3>1 DEF ChoiceInv
  <2>3. CASE ask.is = "variant"
    <3>1. result' \subseteq {ResolveVariant(ask.of, ask.want)}
      BY <2>3 DEF ChoiceInv, ChoiceNext, ChoosesModel, ChoosesVariant, Answers, asked
    <3> QED
      BY <2>1, <2>3, <3>1 DEF ChoiceInv
  <2> QED
    BY <2>2, <2>3 DEF ChoiceInv
<1> QED
  BY <1>1, <1>2, ChoiceInvImplies, PTL DEF ChoiceSpec

=============================================================================
