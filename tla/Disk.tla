-------------------------------- MODULE Disk --------------------------------
(***************************************************************************)
(* The files that the mutating tools share with each other and with every  *)
(* other program on the machine, the primitives the tools reach them       *)
(* through (codex/filesystem.ts and node's fs), and the cache of the       *)
(* modification time and size each file had when a tool last reported it   *)
(* (ReadCache).                                                            *)
(*                                                                         *)
(* A text is a sequence of tokens; line endings are the business of        *)
(* TextLines.  Every write changes the modification time, so what is kept  *)
(* of a recorded stat is whether it still is the file's: "fresh" or        *)
(* "stale".                                                                *)
(***************************************************************************)
EXTENDS Integers, Sequences, FiniteSets, SequencesExt

CONSTANTS Paths,        \* the files named by the calls
          Calls,        \* tool calls under way at once
          MaxFaults,    \* writes and removals that fail
          MaxEdits      \* edits made by other programs

ASSUME DiskAssumption == MaxFaults \in Nat /\ MaxEdits \in Nat /\ Calls \subseteq Nat \ {0}

VARIABLES
  files,     \* what is at each path
  cache,     \* readCache: what is known of the file since a tool reported it
  shown,     \* history: what the last report of each path was about
  touched,   \* per call, the paths others wrote since the call last looked at or wrote them
  disturbed, \* history: calls during which somebody else wrote, or a write of theirs failed
  pc, loc,   \* where each call is, and its local values
  left       \* what the bounds still allow

disk == <<files, cache, shown>>
vars == <<files, cache, shown, touched, disturbed, pc, loc, left>>

Nowhere == [is |-> "none", text |-> <<>>]
Folder == [is |-> "dir", text |-> <<>>]
File(text) == [is |-> "file", text |-> text]
IsContent(f) == f.is \in {"none", "dir", "file"} /\ f = [is |-> f.is, text |-> f.text]

Foreign == "x"                         \* the token other programs add
Elsewhere == 0
Exists(p) == files[p].is # "none"
With(f, p, v) == [q \in DOMAIN f \union {p} |-> IF q = p THEN v ELSE f[q]]

-----------------------------------------------------------------------------
(* A write by c: the recorded stat is no longer the file's, and every      *)
(* other call that has looked at the file has missed a change.             *)
Put(c, p, what) ==
  /\ files' = [files EXCEPT ![p] = what]
  /\ cache' = [cache EXCEPT ![p] = IF @ = "fresh" THEN "stale" ELSE @]
  /\ touched' = [d \in Calls |-> IF d = c THEN touched[d] \ {p} ELSE touched[d] \union {p}]
  /\ disturbed' = disturbed \union {d \in Calls : d # c /\ pc[d] # "idle"}
  /\ UNCHANGED shown

(* A write that fails leaves the file as it was or, once it has been       *)
(* truncated, empty.  A removal that fails leaves the file.                *)
RemoveFails(c) ==
  /\ left.faults > 0
  /\ left' = [left EXCEPT !.faults = @ - 1]
  /\ disturbed' = disturbed \union {c}
  /\ UNCHANGED <<disk, touched>>
PutFails(c, p, what) ==
  \/ RemoveFails(c)
  \/ /\ left.faults > 0 /\ what # Nowhere /\ files[p].is # "dir"
     /\ left' = [left EXCEPT !.faults = @ - 1]
     /\ files' = [files EXCEPT ![p] = File(<<>>)]
     /\ cache' = [cache EXCEPT ![p] = IF @ = "fresh" THEN "stale" ELSE @]
     /\ touched' = [d \in Calls |-> IF d = c THEN touched[d] ELSE touched[d] \union {p}]
     /\ disturbed' = disturbed \union {d \in Calls : pc[d] # "idle"}
     /\ UNCHANGED shown

Reliably == UNCHANGED left
Looking == UNCHANGED <<disk, touched, disturbed, left>>
LookingAt(c, ps) == touched' = [touched EXCEPT ![c] = @ \ ps] /\ UNCHANGED <<disk, disturbed, left>>

Here(c, where) == pc[c] = where
Goto(c, where) == pc' = [pc EXCEPT ![c] = where]
Set(c, values) == loc' = [loc EXCEPT ![c] = [f \in DOMAIN @ |-> IF f \in DOMAIN values THEN values[f] ELSE @[f]]]

NoCall == [kind |-> "none", answer |-> "none"]
Answers(c, answer) == Goto(c, "done") /\ loc' = [loc EXCEPT ![c] = [kind |-> @.kind, answer |-> answer]]

(* Another program edits, creates or removes a file. *)
ElsewhereEdits(p) ==
  /\ left.edits > 0 /\ files[p].is # "dir"
  /\ \E what \in {File(Append(files[p].text, Foreign)), Nowhere} : what # files[p] /\ Put(Elsewhere, p, what)
  /\ left' = [left EXCEPT !.edits = @ - 1]
  /\ UNCHANGED <<pc, loc>>

-----------------------------------------------------------------------------
(* ReadCache. *)

Stale(p) == cache[p] = "stale" /\ Exists(p)   \* freshness() of a file that is there

(* The stat of each path that is a file, recorded after the caller was     *)
(* shown texts[p] or wrote it; another program may have written since.     *)
Unseen == <<"unseen">>
Record(c, texts) ==
  LET ps == {p \in DOMAIN texts : files[p].is = "file"} IN
  /\ cache' = [p \in Paths |-> IF p \in ps THEN "fresh" ELSE cache[p]]
  /\ shown' = [p \in Paths |-> IF p \in ps THEN (IF p \in touched[c] THEN Unseen ELSE texts[p]) ELSE shown[p]]
  /\ UNCHANGED <<files, touched, disturbed, left>>

DiskInit(contents) ==
  /\ files = contents
  /\ cache = [p \in Paths |-> "missing"] /\ shown = [p \in Paths |-> Unseen]
  /\ touched = [c \in Calls |-> {}] /\ disturbed = {}
  /\ pc = [c \in Calls |-> "idle"] /\ loc = [c \in Calls |-> NoCall]
  /\ left = [faults |-> MaxFaults, edits |-> MaxEdits]
=============================================================================
