-------------------------------- MODULE Waits --------------------------------
(***************************************************************************)
(* Tool calls that wait for what the application does not control: for the *)
(* remote side of a transfer, or for a child process.  Transfers and       *)
(* children share no state, so a behaviour has either transfers or one     *)
(* call that runs children; this is a bound, not something the code does.  *)
(***************************************************************************)
EXTENDS Transfer, GitTool

NoTransfer ==
  /\ asks = <<>> /\ names = [x \in {Dest} \union Calls |-> Nobody] /\ away = names /\ parent = 1
  /\ size = [c \in Calls |-> 0] /\ source = <<0>> /\ remote = {}
  /\ pc = [c \in Calls |-> "idle"] /\ loc = [c \in Calls |-> NoCall]
  /\ hindered = {} /\ left = [others |-> 0, faults |-> 0]
NoChild ==
  /\ ChildInit /\ platform = "posix"
  /\ asked = [mode |-> "status", confirm |-> TRUE, dry |-> FALSE, over |-> FALSE] /\ plan = <<>> /\ told = "nothing"
  /\ repo = [conflict |-> FALSE, turns |-> MaxTurns] /\ worked = FALSE /\ mine = FALSE /\ clear = FALSE /\ blind = FALSE

WaitsInit == (Init /\ NoChild) \/ (NoTransfer /\ GitInit)
WaitsNext == (Next /\ UNCHANGED gitVars) \/ (GitNext /\ UNCHANGED vars)
Spec == WaitsInit /\ [][WaitsNext]_<<vars, gitVars>> /\ Fairness /\ GitFairness

-----------------------------------------------------------------------------
(* What a download leaves is the whole file at its destination or nothing. *)
(* (local-file-target.ts:107-162)                                          *)
DownloadsWhole == PublishedIsWhole /\ NothingLeft

(* What an upload says of the remote file is so, success or failure.       *)
(* (openai-files-client.ts:286-338, local-file-source.ts:82-96)            *)
UploadsTruthful == SureMeansAbsent /\ UploadedIsSnapshot

(* Every call that waits is answered, whatever the other side does.        *)
(* (stream-deadline.ts:10-41, exec.ts:340-374)                             *)
EveryoneAnswered == EveryTransferEnds /\ EveryWaitEnds
=============================================================================
