------------------------------- MODULE GitTool -------------------------------
(***************************************************************************)
(* What the git tool makes of the commands it runs one after another       *)
(* (git.ts), on a repository that others use as well, and every other call *)
(* that waits for one child.  A commit or a restore is preceded by a look  *)
(* for conflicts.  Bounds: git itself warns only while it looks or writes, *)
(* once, and starts a descendant (a hook) only while it writes.            *)
(***************************************************************************)
EXTENDS ChildProcess, Sequences

CONSTANTS MaxTurns              \* how often others begin or end a conflict

VARIABLES asked,                \* [mode, confirm, dry, over]: over, git itself does not mind conflicts
          plan, told, repo,     \* repo: [conflict, turns]
          worked, mine,         \* this child has done its work; this call has changed the repository
          clear, blind          \* there was no conflict at some time since the look began; the look may have missed one

toolVars == <<asked, plan, told, repo, worked, mine, clear, blind>>
gitVars == <<childVars, toolVars>>

Changing == {"stage", "unstage", "restore", "commit"}
Requests ==
  LET request(modes, confirm, dry, over) == [mode : modes, confirm : confirm, dry : dry, over : over] IN
  request((Kinds \ {"git"}) \union {"status", "look", "shell"}, {TRUE}, {FALSE}, {FALSE})
  \union request({"stage", "restore", "commit"}, {FALSE}, {FALSE}, {FALSE}) \union request({"commit"}, {TRUE}, {TRUE}, {FALSE})
  \union request({"stage", "unstage"}, {TRUE}, {FALSE}, {TRUE})
  \union request({"restore"}, {TRUE}, {FALSE}, BOOLEAN) \union request({"commit"}, {TRUE}, {FALSE}, {FALSE})
PlanOf(mode) ==
  CASE mode \in {"status"} -> <<"top", "status">>
    [] mode \in {"look", "shell"} -> <<"top", mode>>
    [] mode \in {"stage", "unstage"} -> <<"top", "write", "status">>
    [] mode = "restore" -> <<"top", "check", "write", "status">>
    [] mode = "commit" -> <<"top", "check", "preview", "write", "head", "status">>
    [] OTHER -> <<"run">>

GitInit ==
  /\ ChildInit
  /\ asked \in Requests /\ plan = PlanOf(asked.mode) /\ told = "" /\ repo \in [conflict : BOOLEAN, turns : {0}]
  /\ worked = FALSE /\ mine = FALSE /\ clear = FALSE /\ blind = FALSE

Launch ==
  /\ told = "" /\ child.is = "none"
  /\ Spawn(IF Head(plan) = "run" THEN asked.mode ELSE "git")
  /\ worked' = FALSE
  /\ clear' = IF Head(plan) = "check" THEN ~repo.conflict ELSE clear
  /\ UNCHANGED <<asked, plan, told, repo, mine, blind>>

-----------------------------------------------------------------------------
(* git, and the others.                                                    *)

Says == Head(plan) \in {"top", "look", "shell"} \/ (Head(plan) = "check" /\ repo.conflict)
Works ==
  /\ kind = "git" /\ child.is = "running" /\ ~worked /\ worked' = TRUE
  /\ mine' = (mine \/ (Head(plan) = "write" /\ (asked.over \/ ~repo.conflict)))
  /\ written' = IF Says THEN [written EXCEPT !.out = @ + 2] ELSE written
  /\ unread' = IF Says THEN [unread EXCEPT !.out = @ + 2] ELSE unread
  /\ UNCHANGED <<platform, kind, child, heir, killer, timer, timedOut, kept, truncated, mangled, answer, writes, heirs>>
  /\ UNCHANGED <<asked, plan, told, repo, clear, blind>>
ChildEnds ==
  /\ \/ kind # "git" /\ \E c \in {0, 1, -1} : ChildExits(c)
     \/ kind = "git" /\ worked /\ (Head(plan) = "write" => mine) /\ ChildExits(0)
     \/ kind = "git" /\ ~(worked /\ Head(plan) = "write" /\ mine) /\ ChildExits(1)
     \/ kind = "git" /\ ChildExits(-1)
  /\ UNCHANGED toolVars
Writes ==
  /\ \E s \in {"out", "err"} : Write(s) /\ (kind = "git" => s = "err" /\ writes = 0 /\ Head(plan) \in {"check", "write"})
  /\ UNCHANGED toolVars
Others ==
  /\ asked.mode \in {"restore", "commit"} /\ told = "" /\ repo.turns < MaxTurns
  /\ repo' = [conflict |-> ~repo.conflict, turns |-> repo.turns + 1]
  /\ clear' = (clear \/ repo.conflict)
  /\ UNCHANGED <<asked, plan, told, worked, mine, blind>> /\ UNCHANGED childVars

-----------------------------------------------------------------------------
(* The tool.                                                               *)

\* Mutant: what the look for conflicts has found is not read.
GoesOn(step, a) ==
  CASE step = "top" ->
         IF a.code # 0 \/ a.got.out = 0 \/ (asked.mode \in {"stage", "unstage", "restore"} /\ ~asked.confirm) THEN "error" ELSE ""
    [] step = "preview" -> IF asked.dry THEN "would" ELSE IF ~asked.confirm THEN "error" ELSE ""
    [] step \in {"write", "status", "look"} -> IF a.code # 0 THEN "error" ELSE ""
    [] OTHER -> ""
Verdict(step, a) ==
  CASE step = "top" ->
         IF a.code # 0 \/ a.got.out = 0 \/ (asked.mode \in {"stage", "unstage", "restore"} /\ ~asked.confirm) THEN "error" ELSE ""
    [] step = "check" -> IF a.got.out > 0 THEN "refused" ELSE ""
    [] step = "preview" -> IF asked.dry THEN "would" ELSE IF ~asked.confirm THEN "error" ELSE ""
    [] step \in {"write", "status", "look"} -> IF a.code # 0 THEN "error" ELSE ""
    [] OTHER -> ""
Decide ==
  /\ told = ""
  /\ \E a \in answer :
       LET verdict == Verdict(Head(plan), a) IN
       /\ told' = IF verdict = "" /\ Len(plan) = 1 THEN "done" ELSE verdict
       /\ blind' = IF Head(plan) = "check" THEN a.code # 0 \/ a.truncated ELSE blind
  /\ IF told' = ""
     THEN plan' = Tail(plan) /\ worked' = FALSE /\ Forgotten /\ child' = [is |-> "none", code |-> 0] /\ timer' = FALSE /\ UNCHANGED kind
     ELSE UNCHANGED <<plan, worked, kind, child, heir, killer, timer, timedOut, written, unread, kept, truncated, mangled, answer>>
  /\ UNCHANGED <<platform, writes, heirs>>
  /\ UNCHANGED <<asked, repo, mine, clear>>

GitNext ==
  \/ Launch \/ Decide \/ Works \/ ChildEnds \/ Writes \/ Others
  \/ Handlers /\ UNCHANGED toolVars
  \/ Timeout /\ UNCHANGED toolVars
  \/ StartHeir /\ (kind = "git" => Head(plan) = "write") /\ UNCHANGED toolVars
  \/ HeirExits /\ UNCHANGED toolVars
\* The tool's steps are taken by the event loop; nothing makes a child write or end.
GitFairness ==
  /\ WF_gitVars(Launch) /\ WF_gitVars(Decide)
  /\ WF_gitVars(Handlers /\ UNCHANGED toolVars) /\ WF_gitVars(Timeout /\ UNCHANGED toolVars)

-----------------------------------------------------------------------------
(* What the tool says it did, it did; when it says that it refused, or what*)
(* a commit would do, it has changed nothing, and it changes nothing       *)
(* without the confirmation.  If it changed the repository while there was *)
(* a conflict ever since it began to look for one, then the look failed,   *)
(* took too long, or lost its output to warnings: its code is not read,    *)
(* and what git's warnings fill of the limit is not there for its output.  *)
(* (git.ts:112-130, 175-215)                                               *)
ChangesAsConfirmed ==
  /\ told = "done" /\ asked.mode \in Changing => mine
  /\ told \in {"refused", "would"} => ~mine
  /\ mine => asked.mode \in Changing /\ asked.confirm /\ ~asked.dry
  /\ mine /\ asked.mode \in {"restore", "commit"} => clear \/ blind
=============================================================================
