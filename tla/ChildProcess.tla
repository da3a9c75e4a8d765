----------------------------- MODULE ChildProcess ----------------------------
(***************************************************************************)
(* A child process that a tool waits for: exec.ts run, git.ts runGit,      *)
(* test.ts runChild, typecheck.ts runGit ("names"), project.ts run with a  *)
(* limit ("probe") and without ("files"), archive/system.ts run, and       *)
(* exec.ts terminateProcessTree, which ends one that takes too long.       *)
(*                                                                         *)
(* The child writes characters of two bytes, may start a descendant, in    *)
(* its process group or out of it, that inherits the pipes or not, and may *)
(* end or never end.  Bytes are counted, not named: what is kept of a      *)
(* stream is always its beginning.                                         *)
(***************************************************************************)
EXTENDS Integers, FiniteSets, FiniteSetsExt

CONSTANTS Kinds, MaxOutput, MaxWrites   \* the latter bounds the characters of a request

ASSUME LimitAssumption == MaxOutput \in Nat \ {0} /\ MaxWrites \in Nat

VARIABLES platform,     \* "posix" or "win32"
          kind, child, heir, killer, timer, timedOut,
          written, unread, kept, truncated, mangled, answer, writes, heirs

childVars == <<platform, kind, child, heir, killer, timer, timedOut, written, unread, kept, truncated, mangled, answer, writes, heirs>>

Detached == {"command", "test", "git"}          \* leads a group of its own, where there are groups
Timed == Kinds \ {"files", "archive"}
Streams(k) == IF k \in {"names", "probe", "files"} THEN {"out"} ELSE {"out", "err"}
Capped == {"command", "test", "git", "probe"}
Flagged == {"command", "test", "git"}           \* says that it is truncated
Nothing == [out |-> 0, err |-> 0]
Total(n) == n.out + n.err
Living == {s \in {"child", "heir"} : IF s = "child" THEN child.is = "running" ELSE heir.is = "running"}
Holding == child.is = "running" \/ (heir.is = "running" /\ heir.holds)

ChildInit ==
  /\ platform \in {"posix", "win32"}
  /\ kind = "git" /\ child = [is |-> "none", code |-> 0] /\ heir = [is |-> "none", inside |-> TRUE, holds |-> TRUE]
  /\ killer = "idle" /\ timer = FALSE /\ timedOut = FALSE
  /\ written = Nothing /\ unread = Nothing /\ kept = Nothing /\ truncated = FALSE /\ mangled = FALSE
  /\ answer = {} /\ writes = 0 /\ heirs = 0

\* A process that was left behind by an earlier child no longer counts.
Forgotten ==
  /\ heir' = [is |-> "none", inside |-> TRUE, holds |-> TRUE] /\ killer' = "idle" /\ timedOut' = FALSE
  /\ written' = Nothing /\ unread' = Nothing /\ kept' = Nothing /\ truncated' = FALSE /\ mangled' = FALSE /\ answer' = {}
Spawn(k) ==
  /\ kind' = k /\ \E c \in {"running", "failed"} : child' = [is |-> c, code |-> 0]
  /\ timer' = (k \in Timed) /\ Forgotten /\ UNCHANGED <<platform, writes, heirs>>

-----------------------------------------------------------------------------
(* What the processes do.                                                  *)

Write(s) ==
  /\ Holding /\ writes < MaxWrites /\ answer = {}
  /\ written' = [written EXCEPT ![s] = @ + 2]
  /\ unread' = IF s \in Streams(kind) THEN [unread EXCEPT ![s] = @ + 2] ELSE unread
  /\ writes' = writes + 1
  /\ UNCHANGED <<platform, kind, child, heir, killer, timer, timedOut, kept, truncated, mangled, answer, heirs>>
StartHeir ==
  /\ child.is = "running" /\ heir.is = "none" /\ heirs = 0
  /\ heir' \in [is : {"running"}, inside : BOOLEAN, holds : BOOLEAN] /\ heirs' = 1
  /\ UNCHANGED <<platform, kind, child, killer, timer, timedOut, written, unread, kept, truncated, mangled, answer, writes>>
Exits(code) == [is |-> "exited", code |-> code]
ChildExits(code) ==
  /\ child.is = "running" /\ child' = Exits(code)
  /\ UNCHANGED <<platform, kind, heir, killer, timer, timedOut, written, unread, kept, truncated, mangled, answer, writes, heirs>>
HeirExits ==
  /\ heir.is = "running" /\ heir' = [heir EXCEPT !.is = "exited"]
  /\ UNCHANGED <<platform, kind, child, killer, timer, timedOut, written, unread, kept, truncated, mangled, answer, writes, heirs>>

-----------------------------------------------------------------------------
(* What the tool does.                                                     *)

\* Mutant: each stream has the limit for itself.
OwnRoom(s) == IF kind \in Capped THEN MaxOutput - kept[s] ELSE unread[s]
Room(s) ==
  CASE kind = "command" -> MaxOutput - kept[s]
    [] kind \in {"test", "probe"} -> MaxOutput - Total(kept)
    [] kind = "git" -> ((MaxOutput - Total(kept)) \div 2) * 2     \* whole characters
    [] OTHER -> unread[s]
\* A chunk is what is there to be read, or a part of it.  git.ts decodes each by itself.
Data(s) ==
  /\ answer = {}
  /\ \E n \in 1..unread[s] :
       LET got == Min({n, Room(s)}) IN
       /\ unread' = [unread EXCEPT ![s] = @ - n]
       /\ kept' = [kept EXCEPT ![s] = @ + got]
       /\ truncated' = (truncated \/ got < n)
       /\ mangled' = (mangled \/ (kind = "git" /\ n % 2 = 1))
  /\ UNCHANGED <<platform, kind, child, heir, killer, timer, timedOut, written, answer, writes, heirs>>

\* Everyone in the group, which lasts as long as anyone is in it.
InGroup == kind \in Detached /\ (child.is = "running" \/ (heir.is = "running" /\ heir.inside))
Killed(p) == IF p.is = "running" THEN [p EXCEPT !.is = "exited"] ELSE p
ChildKilled == IF child.is = "running" THEN Exits(-1) ELSE child
KillGroup ==
  /\ child' = ChildKilled
  /\ heir' = IF InGroup /\ heir.inside THEN Killed(heir) ELSE heir
  /\ killer' = "done"
Timeout ==
  /\ timer /\ answer = {} /\ child.is # "failed"
  /\ timer' = FALSE /\ timedOut' = TRUE
  /\ \/ kind = "probe" /\ child' \in {child, ChildKilled} /\ killer' = "done" /\ UNCHANGED heir      \* may be ignored
     \/ kind # "probe" /\ platform = "posix" /\ KillGroup
     \/ kind # "probe" /\ platform = "win32" /\ killer' = "asked" /\ UNCHANGED <<child, heir>>
  /\ UNCHANGED <<platform, kind, written, unread, kept, truncated, mangled, answer, writes, heirs>>
\* taskkill reaches the descendants only through their parent.
TaskkillEnds ==
  /\ killer = "asked"
  /\ child' = ChildKilled /\ heir' = IF child.is = "running" /\ heir.inside THEN Killed(heir) ELSE heir
  /\ killer' = IF child.is = "running" THEN "done" ELSE "missed"
  /\ UNCHANGED <<platform, kind, timer, timedOut, written, unread, kept, truncated, mangled, answer, writes, heirs>>
\* It is not there, does not start, fails or takes too long.
TaskkillFails ==
  /\ killer = "asked" /\ killer' = "missed" /\ child' = ChildKilled
  /\ UNCHANGED <<platform, kind, heir, timer, timedOut, written, unread, kept, truncated, mangled, answer, writes, heirs>>

Code(code) == IF code = -1 /\ kind # "test" /\ kind # "command" THEN 1 ELSE code
Answer(how, code, got, cut, late) == [how |-> how, code |-> code, got |-> got, truncated |-> cut, timedOut |-> late]
\* A child that cannot be started; node may say that it closed as well, to nobody.
Error ==
  /\ child.is = "failed" /\ answer = {} /\ timer' = FALSE
  /\ answer' = {Answer("error", IF kind = "command" THEN -1 ELSE 1, Nothing, FALSE, FALSE)}
  /\ UNCHANGED <<platform, kind, child, heir, killer, timedOut, written, unread, kept, truncated, mangled, writes, heirs>>
Closed ==
  /\ child.is = "exited" /\ ~Holding /\ unread = Nothing /\ answer = {} /\ timer' = FALSE
  /\ answer' = {Answer("close", Code(child.code), IF kind = "names" /\ child.code # 0 THEN Nothing ELSE kept,
                       truncated, timedOut /\ kind \in {"command", "test", "git"})}
  /\ UNCHANGED <<platform, kind, child, heir, killer, timedOut, written, unread, kept, truncated, mangled, writes, heirs>>

Handlers == (\E s \in {"out", "err"} : Data(s)) \/ TaskkillEnds \/ TaskkillFails \/ Error \/ Closed

-----------------------------------------------------------------------------
(* An answer says what happened: the code of a child that has ended, with  *)
(* everything that was written to the pipes and what is missing of it, no  *)
(* more than the limit, and said to be truncated exactly if something is   *)
(* missing (where that is said at all); that it took too long only if it   *)
(* did, and then nothing of its group is left (the child alone, where there*)
(* are no groups).  A text of git's is right only if no chunk ended inside *)
(* a character.  (exec.ts:207-374, test.ts:57-96, git.ts:51-94,            *)
(* typecheck.ts:122-137, project.ts:40-54, archive/system.ts:75-96)        *)
AnswerTruthful ==
  \A a \in answer :
    /\ a.how = "close" =>
         LET there == [s \in {"out", "err"} |-> IF s \in Streams(kind) THEN written[s] ELSE 0] IN
         /\ child.is = "exited" /\ ~Holding
         /\ a.code = child.code \/ (child.code = -1 /\ a.code = 1 /\ kind \notin {"test", "command"})
         /\ \A s \in {"out", "err"} : a.got[s] <= there[s]
         /\ kind = "command" => a.got.out <= MaxOutput /\ a.got.err <= MaxOutput
         /\ kind \in Capped \ {"command"} => Total(a.got) <= MaxOutput
         /\ kind \in Flagged => (a.truncated <=> a.got # there)
         /\ kind \in {"files", "archive"} \/ (kind = "names" /\ a.code = 0) => a.got = there
         /\ kind = "probe" /\ a.got # there => Total(a.got) = MaxOutput
         /\ a.timedOut => timedOut /\ (platform = "posix" => ~(heir.is = "running" /\ heir.inside))
         /\ a.code = 0 => child.code = 0
    /\ a.how = "error" => child.is = "failed" /\ a.code # 0 /\ written = Nothing

(* Every call is answered once its time is up, whatever the child does,    *)
(* unless a process that it cannot reach holds the pipes: one that left    *)
(* the group, one of a child that leads no group, or one that taskkill     *)
(* missed; or it has no limit, or asks the child to end and the child does *)
(* not.  (exec.ts:207-374, test.ts:82, git.ts:81, typecheck.ts:128,        *)
(* project.ts:50, archive/system.ts:75)                                    *)
OutOfReach ==
  /\ Holding /\ ~timer
  /\ \/ kind \in Kinds \ Timed
     \/ kind = "probe"
     \/ heir.is = "running" /\ heir.holds /\ (~heir.inside \/ (platform = "posix" /\ kind = "names") \/ (platform = "win32" /\ killer = "missed"))
EveryWaitEnds == (child.is # "none" /\ answer = {}) ~> (answer # {} \/ OutOfReach)
=============================================================================
