----------------------------- MODULE PluginManager -----------------------------
(***************************************************************************)
(* src/main/plugins/manager.ts: installed MCP servers, their policy        *)
(* (enabled or not), their connections and their durable record.           *)
(*                                                                         *)
(* Every request on an installation runs in that installation's queue      *)
(* (`serial`); an operation is the head of its queue, and its `pc` names   *)
(* the await it is at.  A connection attempt (`startConnection`) is a      *)
(* process of its own: an operation that waits for it stops waiting when   *)
(* the attempt is aborted, while the attempt goes on to its next check.    *)
(* Some requests act at once, before they are queued (setEnabled,          *)
(* uninstall, authenticate), and so do the events of a server.             *)
(*                                                                         *)
(* A step runs from one await to the next.  Continuations of promises that *)
(* are already resolved run before any input or output is looked at        *)
(* (`Quiet`).                                                              *)
(***************************************************************************)
EXTENDS DurableStore, FiniteSets

CONSTANTS
  Ids,        \* installations
  Installer,  \* the queue of install()
  Found,      \* the sets of installations that can be on disk at the start
  NewKinds,   \* the kinds that install() is asked for
  Kinds,      \* source.kind: "child" (stdio, or HTTP with static headers), "oauth", "native"
  NativeStates, \* what runtimeStatus() of a native backend may say
  MaxConns,   \* connection attempts that can exist at a time
  MaxOps      \* requests and server events in a behaviour

ASSUME PluginAssumption ==
  /\ Installer \notin Ids /\ Found \subseteq SUBSET Ids
  /\ NewKinds \subseteq Kinds /\ Kinds \subseteq {"child", "oauth", "native"}
  /\ NativeStates \subseteq {"ready", "needs-auth", "error"}
  /\ MaxConns \in Nat /\ MaxOps \in Nat

VARIABLES
  rows,      \* the RecordEntry objects; known: the catalog has tools
  records,   \* the installations in this.records
  dirs,      \* installation -> its generation directories on disk
  queue,     \* this.queues
  conn,      \* connection attempts, and the connections they became
  starting,  \* this.starting
  live,      \* this.live, and this.nativeLive for native installations
  auth,      \* this.authenticating: the number of the sign-in, 0 for none
  aborted,   \* sign-ins whose controller is aborted
  signedIn,  \* installations with stored OAuth tokens
  closer,    \* close(): "open", "killing", "draining", "leaving" or "closed"
  ops

vars == <<storeVars, rows, records, dirs, queue, conn, starting, live, auth, aborted,
          signedIn, closer, ops>>

Statuses == {"disabled", "installed", "connecting", "ready", "error", "needs-auth",
             "authenticating"}
Keys == Ids \cup {Installer}
Conns == 1 .. MaxConns
closing == closer # "open"

NoRow ==
  [kind |-> "none", enabled |-> FALSE, status |-> "disabled", dir |-> 0, known |-> FALSE,
   installedAt |-> 0]
NoConn == [id |-> Installer, phase |-> "none", aborted |-> FALSE, alive |-> FALSE,
           dying |-> FALSE, users |-> 0, why |-> "error"]

(* An operation: the installation it is about, where it is, the connection it waits for (c), *)
(* the connection or sign-in it is about (arg), its directory, and the row replace() saved.  *)
Op(name, i, c, arg) ==
  [op |-> name, id |-> i, pc |-> "start", c |-> c, arg |-> arg, dir |-> ops + 1,
   old |-> NoRow, due |-> FALSE]

-------------------------------------------------------------------------------
(* Connections *)

Gone(c) == c # 0 => ~conn[c].alive
Kill(r) == [r EXCEPT !.dying = r.alive]

\* Mutant: aborting an attempt does not stop the server it has started.
RetiredLiveOnly(S, c) ==
  LET r == conn[c]
      abort == r.id \in S /\ starting[r.id] = c
  IN [r EXCEPT !.aborted = r.aborted \/ abort,
               !.dying = r.dying \/ (r.id \in S /\ live[r.id] = c /\ r.alive)]

(* disconnect(): what it does before its first await.  The connection being made is aborted, *)
(* and `retire` kills its server; the live one is forgotten, then killed.  (An aborted       *)
(* attempt leaves `starting` two microtasks later; connect(), its only reader, asks for the  *)
(* abort as well.)                                                                           *)
Retired(S, c) ==
  LET r == conn[c]
      abort == r.id \in S /\ starting[r.id] = c
      kill == r.id \in S /\ (live[r.id] = c \/ (abort /\ rows[r.id].kind # "native"))
  IN [r EXCEPT !.aborted = r.aborted \/ abort, !.dying = r.dying \/ (kill /\ r.alive)]
RetireConns(S) ==
  /\ conn' = [c \in Conns |-> Retired(S, c)]
  /\ live' = [i \in Ids |-> IF i \in S THEN 0 ELSE live[i]]
  /\ starting' = [i \in Ids |-> IF i \in S THEN 0 ELSE starting[i]]
  /\ aborted' = aborted \cup ({auth[i] : i \in S} \ {0})
IdleStatus(r) ==
  IF ~r.enabled THEN "disabled"
  ELSE IF r.status \in {"error", "needs-auth"} THEN r.status ELSE "installed"
Disconnected(S, rws) ==
  [i \in Ids |-> IF i \in S THEN [rws[i] EXCEPT !.status = IdleStatus(rws[i])] ELSE rws[i]]
Disconnect(S, rws) ==
  /\ RetireConns(S)
  /\ rows' = Disconnected(S, rws)

(* connect(): joins the attempt being made; otherwise startConnection() runs up to its first *)
(* await, which it does not reach for a disabled row or while closing.                       *)
Joinable(i) == starting[i] # 0
Referenced(c) ==
  \/ c \in {starting[i] : i \in Ids} \cup {live[i] : i \in Ids}
  \/ \E k \in Keys : \E n \in DOMAIN queue[k] : queue[k][n].c = c
  \/ \E k \in Keys : \E n \in DOMAIN queue[k] :
       queue[k][n].op \in {"release", "refresh"} /\ queue[k][n].arg = c
Reusable(c) ==
  conn[c].phase \in {"none", "over"} /\ ~conn[c].alive /\ conn[c].users = 0 /\ ~Referenced(c)
Spare == {c \in Conns : Reusable(c)}
Starts(i, rws) == ~Joinable(i) /\ ~closing /\ rws[i].enabled
Attempt(i, rws) ==
  IF Joinable(i) THEN starting[i]
  ELSE IF Starts(i, rws) THEN CHOOSE c \in Spare : \A d \in Spare : c <= d ELSE 0
Connect(i, rws, c) ==
  /\ c = Attempt(i, rws)
  /\ IF Starts(i, rws)
     THEN /\ conn' = [conn EXCEPT ![c] = [NoConn EXCEPT !.id = i, !.phase = "creds"]]
          /\ starting' = [starting EXCEPT ![i] = c]
          /\ rows' = [rws EXCEPT ![i].status = "connecting"]
     ELSE UNCHANGED <<conn, starting>> /\ rows' = rws

(* The attempt is over: connect()'s promise is answered; what is not in use is nothing more. *)
Cleared(r) == IF r.phase = "over" /\ ~r.alive /\ r.users = 0 THEN NoConn ELSE r
Over(c) ==
  /\ conn' = [conn EXCEPT ![c] = Cleared([@ EXCEPT !.phase = "over"])]
  /\ starting' = [i \in Ids |-> IF starting[i] = c THEN 0 ELSE starting[i]]

(* exposure(): whether the tools of an installation are offered. *)
Exposed(i) ==
  /\ i \in records /\ rows[i].enabled /\ rows[i].known
  /\ rows[i].status \notin {"error", "needs-auth", "authenticating"}
  /\ rows[i].kind = "oauth" => live[i] # 0

-------------------------------------------------------------------------------
(* Queues *)

Enqueue(k, o) == queue' = [queue EXCEPT ![k] = Append(@, o)]
Goto(k, pc, c) ==
  queue' = [queue EXCEPT ![k] = <<[Head(@) EXCEPT !.pc = pc, !.c = c]>> \o Tail(@)]
Done(k) == queue' = [queue EXCEPT ![k] = Tail(@)]
At(k, name, pc) ==
  queue[k] # <<>> /\ Head(queue[k]).op \in name /\ Head(queue[k]).pc = pc
This(k) == Head(queue[k])

(* The awaits that end without input or output: a server is gone, or connect() has answered. *)
Outside == {"installing", "storing", "signing", "refreshing", "cleanup", "cleaning", "saving"}
Answered(o) == o.c # 0 => starting[o.id] # o.c
Ready(o) ==
  IF o.pc \in {"connected", "restored", "finishing"} THEN Answered(o)
  ELSE o.pc \notin Outside /\ Gone(o.c)

ConnReady(c) ==
  \/ conn[c].phase \in {"saved", "unsaved"}
  \/ conn[c].phase \in {"failing", "quitting"} /\ ~conn[c].alive

MustDie == {c \in Conns : conn[c].alive /\ conn[c].dying}
CloserReady ==
  \/ closer \in {"killing", "leaving"} /\ MustDie = {}
  \/ closer = "draining" /\ \A k \in Keys : \A n \in DOMAIN queue[k] : ~queue[k][n].due
Quiet ==
  /\ \A k \in Keys : queue[k] # <<>> => ~Ready(Head(queue[k]))
  /\ \A c \in Conns : ~ConnReady(c)
  /\ ~CloserReady

keepConns == UNCHANGED <<conn, starting, live>>
keepAuth == UNCHANGED <<auth, aborted, signedIn>>
keepRows == UNCHANGED <<rows, records>>
keepRest == UNCHANGED <<dirs, closer, ops>>

(* this.save(), and its continuation. *)
Save(k) ==
  /\ WriteNow(k)
  /\ Goto(k, "saving", 0)
  /\ keepConns /\ keepAuth /\ keepRest
(* `await this.disconnect(row)`, going on at pc. *)
Stop(k, pc) ==
  LET i == This(k).id IN
  /\ Disconnect({i}, rows)
  /\ Goto(k, pc, live[i])
  /\ UNCHANGED <<storeVars, records, auth, signedIn>> /\ keepRest
(* `await this.connect(row)`, going on at pc. *)
Start(k, rws, pc) ==
  \E c \in Conns \cup {0} :
    /\ Connect(This(k).id, rws, c)
    /\ Goto(k, pc, c)
    /\ UNCHANGED <<storeVars, records, live>> /\ keepAuth
End(k) ==
  /\ Done(k)
  /\ keepConns /\ keepAuth /\ keepRows /\ keepRest /\ UNCHANGED storeVars
StartIf(k, enabled, pc) ==
  \/ enabled /\ Start(k, rows, pc) /\ keepRest
  \/ ~enabled /\ End(k)

-------------------------------------------------------------------------------
(* Requests: what each does before it is queued *)

Request(i) == Quiet /\ ~closing /\ ops < MaxOps /\ ops' = ops + 1 /\ i \in records

SetEnabled(i, e) ==
  /\ Request(i)
  /\ LET rws == [rows EXCEPT ![i].enabled = e] IN
     \/ e /\ rows' = rws /\ keepConns /\ UNCHANGED aborted /\ Enqueue(i, Op("setEnabled", i, 0, 0))
     \/ /\ ~e /\ Disconnect({i}, rws)
        /\ Enqueue(i, Op("setEnabled", i, live[i], 0))
  /\ UNCHANGED <<storeVars, records, dirs, auth, signedIn, closer>>

SetToolEnabled(i) ==
  /\ Request(i)
  /\ Enqueue(i, Op("tool", i, 0, 0))
  /\ keepConns /\ keepAuth /\ keepRows /\ UNCHANGED <<storeVars, dirs, closer>>

(* restart(), and configure() without (0) and with (1) another source.  (Nothing calls        *)
(* update(), which is the second without the credentials.)                                    *)
Lifecycle(i, name, source) ==
  /\ Request(i)
  /\ aborted' = aborted \cup ({auth[i]} \ {0})
  /\ Enqueue(i, Op(name, i, 0, source))
  /\ keepConns /\ keepRows /\ UNCHANGED <<storeVars, dirs, auth, signedIn, closer>>

(* uninstall(): this.records becomes another array. *)
Uninstall(i) ==
  /\ Request(i)
  /\ LET rws == [rows EXCEPT ![i].enabled = FALSE] IN
     \/ /\ rows[i].kind = "native" /\ rows' = rws /\ keepConns /\ UNCHANGED aborted
        /\ Enqueue(i, Op("uninstall", i, 0, 0))
     \/ /\ rows[i].kind # "native" /\ Disconnect({i}, rws)
        /\ Enqueue(i, Op("uninstall", i, live[i], 0))
  /\ records' = records \ {i}
  /\ Detach(records)
  /\ UNCHANGED <<dirs, auth, signedIn, closer>>

Install(i, kind) ==
  /\ Quiet /\ ~closing /\ ops < MaxOps /\ ops' = ops + 1
  /\ rows[i] = NoRow /\ queue[Installer] = <<>>
  /\ rows' = [rows EXCEPT ![i].kind = kind]
  /\ Enqueue(Installer, Op("install", i, 0, 0))
  /\ keepConns /\ keepAuth /\ UNCHANGED <<storeVars, records, dirs, closer>>

Authenticate(i) ==
  /\ Request(i)
  /\ rows[i].enabled /\ rows[i].kind = "oauth" /\ auth[i] = 0
  /\ RetireConns({i})
  /\ rows' = [rows EXCEPT ![i].status = "authenticating"]
  /\ auth' = [auth EXCEPT ![i] = ops + 1]
  /\ Enqueue(i, Op("auth", i, live[i], ops + 1))
  /\ UNCHANGED <<storeVars, records, dirs, signedIn, closer>>

CancelAuthentication(i) ==
  /\ Request(i) /\ auth[i] # 0
  /\ aborted' = aborted \cup {auth[i]}
  /\ auth' = [auth EXCEPT ![i] = 0]
  /\ rows' = IF rows[i].status = "authenticating"
             THEN [rows EXCEPT ![i].status = IF rows[i].enabled THEN "needs-auth" ELSE "disabled"]
             ELSE rows
  /\ keepConns /\ UNCHANGED <<storeVars, records, dirs, queue, signedIn, closer>>

(* call(): a server's tool runs outside the queue once the call is admitted. *)
Call(i) ==
  /\ Quiet /\ ops < MaxOps /\ ops' = ops + 1
  /\ rows[i].kind \in {"child", "oauth"} /\ Exposed(i)
  /\ Enqueue(i, Op("call", i, 0, 0))
  /\ keepConns /\ keepAuth /\ keepRows /\ UNCHANGED <<storeVars, dirs, closer>>

(* A native call is not queued; without a backend it connects first. *)
NativeCall(i) ==
  /\ Quiet /\ ops < MaxOps /\ ops' = ops + 1
  /\ i \in records /\ rows[i].kind = "native" /\ rows[i].enabled
  /\ \/ /\ live[i] # 0
        /\ conn' = [conn EXCEPT ![live[i]].users = @ + 1]
        /\ UNCHANGED <<rows, starting>>
     \/ live[i] = 0 /\ \E c \in Conns \cup {0} : Connect(i, rows, c)
  /\ keepAuth /\ UNCHANGED <<storeVars, records, dirs, queue, live, closer>>

-------------------------------------------------------------------------------
(* Operations *)

(* replace(): the new generation is installed beside the old one. *)
BeginReplace(k) ==
  LET o == This(k) IN
  /\ dirs' = [dirs EXCEPT ![o.id] = @ \cup {o.dir}]
  /\ queue' = [queue EXCEPT ![k][1].pc = "installing", ![k][1].old = rows[o.id]]
  /\ keepConns /\ keepAuth /\ keepRows /\ UNCHANGED <<storeVars, closer, ops>>

Begin(k) ==
  LET o == This(k)
      i == o.id
  IN
  /\ queue[k] # <<>> /\ o.pc = "start" /\ Ready(o)
  /\ \/ o.op = "tool" /\ Save(k) /\ keepRows
     \/ o.op = "setEnabled" /\ Stop(k, "stopped")
     \/ o.op = "restart" /\ i \in records /\ Stop(k, "stopped")
     \/ o.op = "configure" /\ i \in records /\ Goto(k, "storing", 0)
        /\ keepConns /\ keepAuth /\ keepRows /\ keepRest /\ UNCHANGED storeVars
     \/ o.op \in {"restart", "configure"} /\ i \notin records /\ End(k)
     \/ o.op = "uninstall" /\ rows[i].kind # "native" /\ Stop(k, "stopped")
     \/ o.op = "uninstall" /\ rows[i].kind = "native" /\ Goto(k, "cleanup", 0)
        /\ keepConns /\ keepAuth /\ keepRows /\ keepRest /\ UNCHANGED storeVars
     \/ o.op = "install" /\ ~closing /\ BeginReplace(k)
     \/ o.op = "install" /\ closing /\ End(k)

(* storeCredentials() and the native backend's own clean-up are over. *)
Prepared(k) ==
  /\ Quiet
  /\ \/ At(k, {"uninstall"}, "cleanup") /\ Stop(k, "stopped")
     \/ At(k, {"configure"}, "storing") /\
        \/ This(k).arg = 0 /\ Stop(k, "stopped")
        \/ This(k).arg = 1 /\ ~closing /\ BeginReplace(k)
        \/ This(k).arg = 1 /\ closing /\ Stop(k, "undone")

Replaces(o) == o.op = "configure" /\ o.arg = 1

(* installSource() ends; a replacement retires the old server only now. *)
InstallOk(k) ==
  LET o == This(k) IN
  /\ Quiet /\ queue[k] # <<>> /\ o.pc = "installing"
  /\ \/ Replaces(o) /\ ~closing /\ Stop(k, "swap")
     \/ Replaces(o) /\ closing /\ Stop(k, "undo")
     \/ /\ o.op = "install" /\ ~closing
        /\ rows' = [rows EXCEPT ![o.id] = [@ EXCEPT !.enabled = TRUE, !.status = "installed",
                                                    !.dir = o.dir, !.installedAt = o.dir]]
        /\ records' = records \cup {o.id}
        /\ Save(k)
     \/ /\ o.op = "install" /\ closing
        /\ dirs' = [dirs EXCEPT ![o.id] = @ \ {o.dir}]
        /\ Done(k) /\ keepConns /\ keepAuth /\ keepRows /\ UNCHANGED <<storeVars, closer, ops>>
InstallFails(k) ==
  LET o == This(k) IN
  /\ Quiet /\ queue[k] # <<>> /\ o.pc = "installing"
  /\ \/ Replaces(o) /\ Stop(k, "undo")
     \/ /\ o.op = "install"
        /\ dirs' = [dirs EXCEPT ![o.id] = @ \ {o.dir}]
        /\ Done(k) /\ keepConns /\ keepAuth /\ keepRows /\ UNCHANGED <<storeVars, closer, ops>>

(* replace(): the row takes the new generation before anything is known of it. *)
Swap(k) ==
  LET o == This(k)
      rws == [rows EXCEPT ![o.id].dir = o.dir]
  IN
  /\ At(k, {"configure"}, "swap") /\ Ready(o)
  /\ \/ rws[o.id].enabled /\ Start(k, rws, "connected") /\ keepRest
     \/ ~rws[o.id].enabled /\ rows' = rws /\ UNCHANGED records /\ Save(k)
Swapped(k) ==
  LET o == This(k) IN
  /\ At(k, {"configure"}, "connected") /\ Ready(o)
  /\ \/ rows[o.id].status \in {"ready", "needs-auth"} /\ Save(k) /\ keepRows
     \/ rows[o.id].status \notin {"ready", "needs-auth"} /\ Stop(k, "undo")

\* Mutant: the rollback restores the status but not the generation.
RolledBackStatus(o) == [rows[o.id] EXCEPT !.status = o.old.status]

(* replace(): the rollback keeps a newer policy; the directory goes before the old server starts. *)
RolledBack(o) == [o.old EXCEPT !.enabled = rows[o.id].enabled]
Undo(k) ==
  LET o == This(k) IN
  /\ At(k, {"configure"}, "undo") /\ Ready(o)
  /\ rows' = [rows EXCEPT ![o.id] = RolledBack(o)]
  /\ Goto(k, "cleaning", 0)
  /\ keepConns /\ keepAuth /\ keepRest /\ UNCHANGED <<storeVars, records>>
Cleaned(k) ==
  LET o == This(k) IN
  /\ Quiet /\ At(k, {"configure"}, "cleaning")
  /\ dirs' = [dirs EXCEPT ![o.id] = @ \ {o.dir}]
  /\ UNCHANGED <<closer, ops>>
  /\ \/ rows[o.id].enabled /\ Start(k, rows, "restored")
     \/ /\ ~rows[o.id].enabled /\ Goto(k, "restored", 0)
        /\ keepConns /\ keepAuth /\ keepRows /\ UNCHANGED storeVars
(* replace() throws, and configure() disconnects and connects once more. *)
Restored(k) ==
  /\ At(k, {"configure"}, "restored") /\ Ready(This(k))
  /\ Stop(k, "undone")

(* The server is gone: restart() connects, the others save first. *)
Stopped(k) ==
  LET o == This(k) IN
  /\ queue[k] # <<>> /\ Ready(o)
  /\ \/ At(k, {"restart"}, "stopped") /\ StartIf(k, rows[o.id].enabled, "finishing")
     \/ At(k, {"setEnabled", "configure", "uninstall"}, "stopped") /\ Save(k) /\ keepRows
     \/ At(k, {"configure"}, "undone") /\ StartIf(k, rows[o.id].enabled, "finishing")

Saved(k) ==
  LET o == This(k) IN
  /\ queue[k] # <<>> /\ o.pc = "saved"
  /\ \/ o.op \in {"tool", "refresh"} /\ End(k)
     \/ o.op = "setEnabled" /\ StartIf(k, rows[o.id].enabled /\ o.id \in records, "finishing")
     \/ o.op = "configure" /\ o.arg = 0 /\ StartIf(k, rows[o.id].enabled, "finishing")
     \/ o.op = "install" /\ Start(k, rows, "finishing") /\ keepRest
     \/ /\ Replaces(o) \/ o.op = "uninstall"
        /\ dirs' = [dirs EXCEPT ![o.id] = IF Replaces(o) THEN @ \ {o.old.dir} ELSE {}]
        /\ Done(k) /\ keepConns /\ keepAuth /\ keepRows /\ UNCHANGED <<storeVars, closer, ops>>

(* A refresh or its save failed: the connection goes unless calls still use it. *)
RefreshFails(k) ==
  LET o == This(k)
      i == o.id
  IN
  \/ live[i] # o.arg /\ End(k)
  \/ live[i] = o.arg /\ conn[o.arg].users = 0 /\ Stop(k, "spoiled")
  \/ /\ live[i] = o.arg /\ conn[o.arg].users # 0
     /\ rows' = [rows EXCEPT ![i].status = "error"]
     /\ Done(k) /\ keepConns /\ keepAuth /\ keepRest /\ UNCHANGED <<storeVars, records>>

Unsaved(k) ==
  LET o == This(k) IN
  /\ queue[k] # <<>> /\ o.pc = "unsaved"
  /\ \/ o.op \in {"tool", "setEnabled"} /\ End(k)
     \/ o.op = "configure" /\ o.arg = 0 /\ Stop(k, "undone")
     \/ Replaces(o) /\ Stop(k, "undo")
     \/ o.op = "refresh" /\ RefreshFails(k)
     \/ /\ o.op = "uninstall"
        /\ records' = records \cup {o.id}
        /\ Done(k) /\ keepConns /\ keepAuth /\ keepRest /\ UNCHANGED <<storeVars, rows>>
     \/ /\ o.op = "install"
        /\ records' = records \ {o.id}
        /\ Detach(records)
        /\ dirs' = [dirs EXCEPT ![o.id] = @ \ {o.dir}]
        /\ Done(k) /\ keepConns /\ keepAuth /\ UNCHANGED <<rows, closer, ops>>

Finish(k) ==
  LET o == This(k) IN
  /\ queue[k] # <<>> /\ Ready(o)
  /\ \/ o.pc \in {"finishing", "dying"} /\ End(k)
     \/ /\ o.pc = "spoiled"
        /\ rows' = [rows EXCEPT ![o.id].status = "error"]
        /\ Done(k) /\ keepConns /\ keepAuth /\ keepRest /\ UNCHANGED <<storeVars, records>>

-------------------------------------------------------------------------------
(* Calls *)

(* The part of call() in the queue: start the server if need be, check again, take a use. *)
Admit(k, c) ==
  /\ conn' = [conn EXCEPT ![c].users = @ + 1]
  /\ Done(k) /\ keepAuth /\ keepRows /\ keepRest /\ UNCHANGED <<storeVars, starting, live>>
Reject(k, c) ==
  \/ conn[c].users = 0 /\ Stop(k, "dying")
  \/ conn[c].users # 0 /\ End(k)
BeginCall(k) ==
  LET i == This(k).id IN
  /\ At(k, {"call"}, "start")
  /\ \/ (closing \/ ~Exposed(i)) /\ End(k)
     \/ ~closing /\ Exposed(i) /\ live[i] # 0 /\ Admit(k, live[i])
     \/ ~closing /\ Exposed(i) /\ live[i] = 0 /\ Start(k, rows, "connected") /\ keepRest
CallConnected(k) ==
  LET i == This(k).id IN
  /\ At(k, {"call"}, "connected") /\ Ready(This(k))
  /\ \/ live[i] = 0 /\ End(k)
     \/ live[i] # 0 /\ ~closing /\ Exposed(i) /\ Admit(k, live[i])
     \/ live[i] # 0 /\ (closing \/ ~Exposed(i)) /\ Reject(k, live[i])

(* The server answers, or the call fails; then release(). *)
FailedStatus(i, why) == IF rows[i].enabled THEN why ELSE "disabled"
LastUse(c) == conn[c].users = 1
Unused(r) == Cleared([r EXCEPT !.users = @ - 1])
Released(i, c, rws) ==
  IF live[i] = c /\ LastUse(c) /\ rws[i].status \in {"error", "needs-auth"}
  THEN Enqueue(i, Op("release", i, 0, c)) ELSE UNCHANGED queue
CallEnds(c, why) ==
  LET i == conn[c].id
      failed == why # "ok" /\ live[i] = c /\ i \in records
      rws == IF failed THEN [rows EXCEPT ![i].status = FailedStatus(i, why)] ELSE rows
  IN
  /\ Quiet /\ conn[c].users > 0 /\ rows[i].kind # "native"
  /\ why = "ok" => conn[c].alive
  /\ why = "needs-auth" => rows[i].kind = "oauth"
  /\ rows' = rws
  /\ conn' = [conn EXCEPT ![c] = Unused(@)]
  /\ Released(i, c, rws)
  /\ keepAuth /\ keepRest /\ UNCHANGED <<storeVars, records, starting, live>>
Release(k) ==
  LET o == This(k) IN
  /\ At(k, {"release"}, "start")
  /\ \/ live[o.id] = o.arg /\ conn[o.arg].users = 0 /\ Stop(k, "dying")
     \/ ~(live[o.id] = o.arg /\ conn[o.arg].users = 0) /\ End(k)

(* A native call ends: syncNativeStatus() shows the state of the backend that ran it. *)
NativeCallEnds(c, state) ==
  LET i == conn[c].id IN
  /\ Quiet /\ conn[c].users > 0 /\ rows[i].kind = "native"
  /\ conn' = [conn EXCEPT ![c] = Unused(@)]
  /\ rows' = [rows EXCEPT ![i].status = state]
  /\ keepAuth /\ keepRest /\ UNCHANGED <<storeVars, records, queue, starting, live>>

-------------------------------------------------------------------------------
(* Sign-in *)

(* The end of authenticate()'s operation, with the status its catch sets. *)
AuthEnds(k, status) ==
  LET o == This(k)
      i == o.id
  IN
  /\ rows' = IF status # "keep" /\ auth[i] = o.arg /\ rows[i].enabled /\ i \in records
             THEN [rows EXCEPT ![i].status = status] ELSE rows
  /\ auth' = [auth EXCEPT ![i] = IF @ = o.arg THEN 0 ELSE @]
  /\ aborted' = aborted \ {o.arg}
  /\ Done(k) /\ keepConns /\ keepRest /\ UNCHANGED <<storeVars, records>>
BeginAuth(k) ==
  LET o == This(k)
      i == o.id
      able == ~closing /\ rows[i].enabled /\ i \in records
  IN
  /\ At(k, {"auth"}, "start") /\ Ready(o)
  /\ \/ o.arg \in aborted /\ AuthEnds(k, "needs-auth") /\ UNCHANGED signedIn
     \/ o.arg \notin aborted /\ ~able /\ AuthEnds(k, "keep") /\ UNCHANGED signedIn
     \/ /\ o.arg \notin aborted /\ able
        /\ rows' = [rows EXCEPT ![i].status = "authenticating"]
        /\ Goto(k, "signing", 0)
        /\ keepConns /\ keepAuth /\ keepRest /\ UNCHANGED <<storeVars, records>>
(* signIn() has stored tokens; an abort after that still ends the operation. *)
SignedIn(k) ==
  LET o == This(k)
      i == o.id
      valid == auth[i] = o.arg /\ rows[i].enabled /\ ~closing
  IN
  /\ Quiet /\ At(k, {"auth"}, "signing")
  /\ signedIn' = signedIn \cup {i}
  /\ \/ o.arg \in aborted /\ AuthEnds(k, "needs-auth")
     \/ o.arg \notin aborted /\ ~valid /\ AuthEnds(k, "keep")
     \/ /\ o.arg \notin aborted /\ valid
        /\ auth' = [auth EXCEPT ![i] = 0]
        /\ \E c \in Conns \cup {0} : Connect(i, rows, c) /\ Goto(k, "finishing", c)
        /\ keepRest /\ UNCHANGED <<storeVars, records, live, aborted>>
SignInFails(k, why) ==
  /\ Quiet /\ At(k, {"auth"}, "signing")
  /\ AuthEnds(k, why) /\ UNCHANGED signedIn

-------------------------------------------------------------------------------
(* startConnection() and startNativeConnection() *)

Phase(c, phase) == conn' = [conn EXCEPT ![c].phase = phase]
Native(c) == rows[conn[c].id].kind = "native"
Wanted(i) == ~closing /\ rows[i].enabled /\ i \in records
ConnFrame == keepAuth /\ keepRest /\ UNCHANGED <<records, queue>>

(* credentials() has answered: the checks, and the server is started. *)
Credentials(c) ==
  LET r == conn[c]
      i == r.id
  IN
  /\ Quiet /\ r.phase = "creds"
  /\ \/ (r.aborted \/ (~Native(c) /\ ~Wanted(i)))
        /\ Over(c) /\ UNCHANGED <<rows, live>>
     \/ /\ ~r.aborted /\ Native(c)
        /\ conn' = [conn EXCEPT ![c].phase = "opening", ![c].alive = TRUE]
        /\ live' = [live EXCEPT ![i] = c] /\ UNCHANGED <<rows, starting>>
     \/ /\ ~r.aborted /\ ~Native(c) /\ Wanted(i)
        /\ rows[i].kind = "oauth" /\ i \notin signedIn
        /\ rows' = [rows EXCEPT ![i].status = "needs-auth"]
        /\ Over(c) /\ UNCHANGED live
     \/ /\ ~r.aborted /\ ~Native(c) /\ Wanted(i)
        /\ rows[i].kind = "child" \/ i \in signedIn
        /\ conn' = [conn EXCEPT ![c].phase = "opening", ![c].alive = TRUE]
        /\ UNCHANGED <<rows, live, starting>>
  /\ ConnFrame /\ UNCHANGED storeVars

(* publishTools() and its save. *)
Publish(c, status, phase) ==
  /\ Phase(c, phase) /\ UNCHANGED starting
  /\ rows' = [rows EXCEPT ![conn[c].id].status = status, ![conn[c].id].known = TRUE]
  /\ WriteNow(c)
KillIn(c, phase, why) ==
  /\ conn' = [conn EXCEPT ![c] = [Kill(@) EXCEPT !.phase = phase, !.why = why]]
  /\ UNCHANGED <<rows, starting, storeVars>>

(* The server has answered initialize and tools/list. *)
Opened(c) ==
  LET r == conn[c]
      i == r.id
  IN
  /\ Quiet /\ r.phase = "opening" /\ r.alive /\ ~Native(c)
  /\ \/ r.aborted /\ KillIn(c, "failing", "error") /\ UNCHANGED live
     \/ ~r.aborted /\ (closing \/ ~rows[i].enabled) /\ KillIn(c, "quitting", "error")
        /\ UNCHANGED live
     \/ /\ ~r.aborted /\ ~closing /\ rows[i].enabled
        /\ live' = [live EXCEPT ![i] = c]
        /\ Publish(c, "ready", "saving")
  /\ ConnFrame
OpenFails(c, why) ==
  LET r == conn[c] IN
  /\ Quiet /\ r.phase = "opening" /\ ~Native(c)
  /\ why = "needs-auth" => rows[r.id].kind = "oauth"
  /\ KillIn(c, "failing", why)
  /\ ConnFrame /\ UNCHANGED live

(* The native backend's start() returns; it may first hand over credentials to store. *)
NativeOpened(c, status) ==
  LET r == conn[c] IN
  /\ Quiet /\ r.phase = "opening" /\ Native(c)
  /\ \/ r.aborted /\ Over(c) /\ UNCHANGED <<rows, storeVars>>
     \/ ~r.aborted /\ status = "storing" /\ Phase(c, "storing")
        /\ UNCHANGED <<rows, starting, storeVars>>
     \/ ~r.aborted /\ status = "error" /\ Publish(c, status, "resaving")
     \/ ~r.aborted /\ status \in {"ready", "needs-auth"} /\ Publish(c, status, "saving")
  /\ ConnFrame /\ UNCHANGED live
NativeStored(c) ==
  /\ Quiet /\ conn[c].phase = "storing"
  /\ Publish(c, "ready", "saving")
  /\ ConnFrame /\ UNCHANGED live

(* The end of an attempt: its record is saved, or its catch has run. *)
ConnSaved(c) ==
  LET r == conn[c]
      i == r.id
  IN
  \/ /\ r.phase = "saved" \/ (r.phase = "unsaved" /\ Native(c) /\ r.aborted)
     /\ Over(c) /\ ConnFrame /\ UNCHANGED <<storeVars, rows, live>>
  \/ /\ r.phase = "unsaved" /\ Native(c) /\ ~r.aborted
     /\ Publish(c, "error", "resaving") /\ ConnFrame /\ UNCHANGED live
  \/ /\ r.phase = "unsaved" /\ ~Native(c)
     /\ live' = [live EXCEPT ![i] = IF @ = c THEN 0 ELSE @]
     /\ KillIn(c, "failing", "error") /\ ConnFrame
\* Mutant: an attempt that was aborted reports its failure as well.
ReportsAlways(r) == r.phase = "failing"
Reports(r) == r.phase = "failing" /\ ~r.aborted
ConnFailed(c) ==
  LET r == conn[c] IN
  /\ ~r.alive /\ r.phase \in {"failing", "quitting"}
  /\ Over(c)
  /\ rows' = IF Reports(r) THEN [rows EXCEPT ![r.id].status = r.why] ELSE rows
  /\ ConnFrame /\ UNCHANGED <<storeVars, live>>
(* A killed server has ended. *)
ServerGone(c) ==
  /\ Quiet /\ conn[c].alive /\ conn[c].dying
  /\ conn' = [conn EXCEPT ![c] = Cleared([@ EXCEPT !.alive = FALSE, !.dying = FALSE])]
  /\ keepAuth /\ keepRest /\ keepRows /\ UNCHANGED <<storeVars, queue, starting, live>>
(* A server ends by itself: client.onclose, once it is published. *)
ServerCloses(c) ==
  LET i == conn[c].id IN
  /\ Quiet /\ ops < MaxOps /\ ops' = ops + 1
  /\ conn[c].alive /\ ~conn[c].dying /\ ~Native(c)
  /\ conn' = [conn EXCEPT ![c] = Cleared([@ EXCEPT !.alive = FALSE])]
  /\ live' = [live EXCEPT ![i] = IF @ = c THEN 0 ELSE @]
  /\ rows' = IF live[i] = c THEN [rows EXCEPT ![i].status = "error"] ELSE rows
  /\ keepAuth /\ UNCHANGED <<storeVars, records, queue, starting, dirs, closer>>

(* notifications/tools/list_changed *)
ListChanged(c) ==
  LET i == conn[c].id IN
  /\ Quiet /\ ops < MaxOps /\ ops' = ops + 1
  /\ i \in Ids /\ c = live[i] /\ ~Native(c) /\ rows[i].status # "connecting"
  /\ rows' = [rows EXCEPT ![i].status = "connecting"]
  /\ Enqueue(i, Op("refresh", i, 0, c))
  /\ keepConns /\ keepAuth /\ UNCHANGED <<storeVars, records, dirs, closer>>
BeginRefresh(k) ==
  LET o == This(k)
      current == live[o.id] = o.arg /\ rows[o.id].enabled
  IN
  /\ At(k, {"refresh"}, "start")
  /\ \/ ~current /\ End(k)
     \/ /\ current /\ Goto(k, "refreshing", 0)
        /\ keepConns /\ keepAuth /\ keepRest /\ keepRows /\ UNCHANGED storeVars
Refreshed(k, ok) ==
  LET o == This(k) IN
  /\ Quiet /\ At(k, {"refresh"}, "refreshing")
  /\ ok => conn[o.arg].alive
  /\ \/ ~ok /\ RefreshFails(k)
     \/ ok /\ live[o.id] # o.arg /\ End(k)
     \/ /\ ok /\ live[o.id] = o.arg
        /\ rows' = [rows EXCEPT ![o.id].status = "ready"]
        /\ UNCHANGED records /\ Save(k)

-------------------------------------------------------------------------------
(* The durable record *)

Content(v) ==
  [i \in (IF v.live THEN records ELSE v.ids) |-> [enabled |-> rows[i].enabled, dir |-> rows[i].dir]]
Result(who, ok) ==
  LET pc == IF ok THEN "saved" ELSE "unsaved" IN
  /\ queue' = IF who \in Keys THEN [queue EXCEPT ![who][1].pc = pc] ELSE queue
  /\ \/ who \notin Conns /\ UNCHANGED <<conn, starting>>
     \/ /\ who \in Conns /\ conn[who].phase # "resaving"
        /\ conn' = [conn EXCEPT ![who].phase = pc] /\ UNCHANGED starting
     \/ who \in Conns /\ conn[who].phase = "resaving" /\ Over(who)
StoreFrame == keepAuth /\ keepRest /\ keepRows /\ UNCHANGED live
StoreBegins ==
  /\ Quiet /\ FlushBegin(Content(Head(wq).val))
  /\ StoreFrame /\ UNCHANGED <<queue, conn, starting>>
StoreEnds ==
  /\ Quiet /\ StoreFrame
  /\ \/ FlushEnd /\ Result(flush.who, TRUE)
     \/ FlushFail /\ Result(flush.who, FALSE)
StoreRetries == Quiet /\ RetryFires /\ StoreFrame /\ UNCHANGED <<queue, conn, starting>>

-------------------------------------------------------------------------------
(* close() *)

Close ==
  /\ Quiet /\ closer = "open"
  /\ closer' = "killing"
  /\ rows' = Disconnected(records, rows)
  /\ live' = [i \in Ids |-> IF i \in records THEN 0 ELSE live[i]]
  /\ aborted' = aborted \cup ({auth[i] : i \in records} \ {0})
  /\ conn' = [c \in Conns |->
       LET r == Retired(records, c)
           connecting == r.phase \notin {"none", "over"} /\ ~Native(c)
       IN [r EXCEPT !.aborted = @ \/ (\E i \in Ids : starting[i] = c),
                    !.dying = @ \/ (connecting /\ r.alive)]]
  /\ starting' = [i \in Ids |-> 0]
  /\ UNCHANGED <<storeVars, records, queue, dirs, auth, signedIn, ops>>
CloseDrains ==
  /\ closer = "killing" /\ MustDie = {}
  /\ closer' = "draining"
  /\ queue' = [k \in Keys |-> [n \in DOMAIN queue[k] |-> [queue[k][n] EXCEPT !.due = TRUE]]]
  /\ keepConns /\ keepAuth /\ keepRows /\ UNCHANGED <<storeVars, dirs, ops>>
CloseDrained ==
  /\ closer = "draining" /\ CloserReady
  /\ Disconnect(records, rows)
  /\ closer' = "leaving"
  /\ UNCHANGED <<storeVars, records, queue, dirs, auth, signedIn, ops>>
CloseEnds ==
  /\ closer = "leaving" /\ MustDie = {}
  /\ closer' = "closed"
  /\ keepConns /\ keepAuth /\ keepRows /\ UNCHANGED <<storeVars, queue, dirs, ops>>

-------------------------------------------------------------------------------
(* initialize(): the stored records, and a connection in the background for each enabled one. *)

Number(S) == CHOOSE f \in [S -> Conns] : \A i, j \in S : f[i] = f[j] => i = j
Init ==
  /\ records \in Found
  /\ \E kind \in [records -> Kinds], on \in SUBSET records :
       /\ rows = [i \in Ids |->
            IF i \in records
            THEN [kind |-> kind[i], enabled |-> i \in on,
                  status |-> IF i \in on THEN "connecting" ELSE "disabled", dir |-> 0,
                  known |-> TRUE, installedAt |-> 0]
            ELSE NoRow]
       /\ starting = [i \in Ids |-> IF i \in on THEN Number(on)[i] ELSE 0]
       /\ conn = [c \in Conns |->
            IF \E i \in on : Number(on)[i] = c
            THEN [NoConn EXCEPT !.id = CHOOSE i \in on : Number(on)[i] = c, !.phase = "creds"]
            ELSE NoConn]
       /\ disk = [i \in records |-> [enabled |-> i \in on, dir |-> 0]]
  /\ dirs = [i \in Ids |-> IF i \in records THEN {0} ELSE {}]
  /\ queue = [k \in Keys |-> <<>>]
  /\ live = [i \in Ids |-> 0]
  /\ auth = [i \in Ids |-> 0]
  /\ aborted = {}
  /\ signedIn \in SUBSET {i \in records : rows[i].kind = "oauth"}
  /\ closer = "open" /\ ops = 0
  /\ pend = None /\ wq = <<>> /\ flush = Idle /\ retry = FALSE /\ faults \in 0 .. MaxFaults

Requests ==
  \E i \in Ids :
    \/ \E e \in BOOLEAN : SetEnabled(i, e)
    \/ SetToolEnabled(i)
    \/ Lifecycle(i, "restart", 0)
    \/ \E source \in {0, 1} : Lifecycle(i, "configure", source)
    \/ Uninstall(i)
    \/ \E kind \in NewKinds : Install(i, kind)
    \/ Authenticate(i) \/ CancelAuthentication(i)
    \/ Call(i) \/ NativeCall(i)
(* What a queue does by itself once the promise it awaits is resolved. *)
Continue(k) ==
  \/ Begin(k) \/ Swap(k) \/ Swapped(k) \/ Undo(k) \/ Restored(k) \/ Stopped(k)
  \/ Saved(k) \/ Unsaved(k) \/ Finish(k)
  \/ BeginCall(k) \/ CallConnected(k) \/ Release(k) \/ BeginAuth(k) \/ BeginRefresh(k)
(* What a queue waits for: files, an installer, a browser, a server. *)
Complete(k) ==
  \/ Prepared(k) \/ InstallOk(k) \/ InstallFails(k) \/ Cleaned(k)
  \/ SignedIn(k) \/ \E why \in {"needs-auth", "error"} : SignInFails(k, why)
  \/ \E ok \in BOOLEAN : Refreshed(k, ok)
Attempted(c) ==
  \/ Credentials(c) \/ Opened(c)
  \/ \E why \in {"needs-auth", "error"} : OpenFails(c, why)
  \/ \E status \in NativeStates \cup {"storing"} : NativeOpened(c, status)
  \/ NativeStored(c) \/ ConnSaved(c) \/ ConnFailed(c)
Stores == StoreBegins \/ StoreEnds \/ StoreRetries
Closes == CloseDrains \/ CloseDrained \/ CloseEnds
Used(c) ==
  \/ \E why \in {"ok", "needs-auth", "error"} : CallEnds(c, why)
  \/ \E state \in NativeStates : NativeCallEnds(c, state)

Next ==
  \/ Requests \/ Close \/ Closes \/ Stores
  \/ \E k \in Keys : Continue(k) \/ Complete(k)
  \/ \E c \in Conns : Attempted(c) \/ ServerGone(c) \/ Used(c) \/ ServerCloses(c) \/ ListChanged(c)

Spec == Init /\ [][Next]_vars

-------------------------------------------------------------------------------
(* Properties *)

(* Every variable of the manager has the values the code gives it. *)
RowType == [kind : Kinds \cup {"none"}, enabled : BOOLEAN, status : Statuses, dir : 0 .. MaxOps,
            known : BOOLEAN, installedAt : 0 .. MaxOps]
ConnType ==
  [id : Keys, phase : {"none", "creds", "opening", "storing", "saving", "saved", "unsaved",
                       "resaving", "failing", "quitting", "over"},
   aborted : BOOLEAN, alive : BOOLEAN, dying : BOOLEAN, users : Nat, why : {"error", "needs-auth"}]
TypeOK ==
  /\ rows \in [Ids -> RowType]
  /\ records \subseteq Ids
  /\ dirs \in [Ids -> SUBSET (0 .. MaxOps)]
  /\ conn \in [Conns -> ConnType]
  /\ starting \in [Ids -> 0 .. MaxConns]
  /\ live \in [Ids -> 0 .. MaxConns]
  /\ auth \in [Ids -> 0 .. MaxOps]
  /\ aborted \subseteq 1 .. MaxOps
  /\ signedIn \subseteq Ids
  /\ closer \in {"open", "killing", "draining", "leaving", "closed"}
  /\ ops \in 0 .. MaxOps

(* "The record is the live policy authority": no published server belongs to an installation *)
(* that the user has switched off or removed, whatever was being started or replaced.        *)
RevokedNow ==
  \A i \in Ids : live[i] # 0 /\ rows[i].kind # "native" => rows[i].enabled

(* install() connects from its own queue, which does not exclude the requests on the new      *)
(* installation: some promises hold only for the installations found at the start.            *)
FromDisk(i) == rows[i].installedAt = 0
Child(c) == conn[c].id \in Ids /\ rows[conn[c].id].kind = "child"
Owned(c) ==
  ~conn[c].dying =>
    live[conn[c].id] = c \/ (starting[conn[c].id] = c /\ ~conn[c].aborted)
(* No child server runs that nothing will stop: it is published, or still being made by the   *)
(* attempt that requests know of, or being killed.                                            *)
NoStrayServer ==
  \A c \in Conns : conn[c].alive /\ Child(c) /\ FromDisk(conn[c].id) => Owned(c)

(* replace(): whatever fails, the row names a generation that is still there. *)
InstalledCodeExists == \A i \in records : rows[i].dir \in dirs[i]

(* Nothing is under way. *)
Calm ==
  /\ Quiet /\ ~closing
  /\ \A k \in Keys : queue[k] = <<>>
  /\ \A c \in Conns : conn[c].phase \in {"none", "over"} /\ ~conn[c].dying
Stored == wq = <<>> /\ ~flush.busy /\ ~retry

(* When everything has run, the status of an installation is the truth about its server,     *)
(* however the requests, the attempts and the server's events crossed: nothing is for ever    *)
(* "connecting", a "ready" one is connected, a disabled one has no server.                    *)
Settles ==
  Calm => \A i \in records : rows[i].kind # "native" =>
    /\ rows[i].status \notin {"connecting", "authenticating"}
    /\ rows[i].status = "ready" => live[i] # 0
    /\ rows[i].status = "disabled" => live[i] = 0
    /\ ~rows[i].enabled => rows[i].status = "disabled"

(* release(): a server that failed a call is stopped when its last user is done. *)
ErrorRetires ==
  \A i \in Ids :
    live[i] # 0 /\ rows[i].kind = "child" /\ FromDisk(i) /\ rows[i].status = "error" =>
      conn[live[i]].users > 0 \/ queue[i] # <<>>

(* close(): no server is left, and none starts afterwards. *)
CloseLeavesNothing ==
  closer = "closed" =>
    \A c \in Conns : Child(c) /\ FromDisk(conn[c].id) => ~conn[c].alive

(* save(): once the store is at rest the file has the user's choice for every installation. *)
ChoicesAreDurable ==
  Calm /\ Stored => \A i \in records : i \in DOMAIN disk /\ disk[i].enabled = rows[i].enabled

(* Every server is one the user wants and the manager knows of, in every state and at the     *)
(* end: none that was revoked, none that is lost, none that failed and is idle, none after    *)
(* close().                                                                                   *)
ServersAccounted == RevokedNow /\ NoStrayServer /\ ErrorRetires /\ CloseLeavesNothing

(* The rows are true to the disk in both directions: they name code that is there, and the    *)
(* file that is read at the next start has what they say.                                     *)
RowsKept == TypeOK /\ InstalledCodeExists /\ ChoicesAreDurable
===============================================================================
