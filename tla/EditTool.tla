------------------------------ MODULE EditTool ------------------------------
(***************************************************************************)
(* The edit and read tools, one step for what happens between two awaits.  *)
(* An edit is computed from the text it reads; the file is looked at again *)
(* before it is written.  How the spans of an edit are found and replaced  *)
(* is in TextLines; here one token is replaced by another.                 *)
(***************************************************************************)
EXTENDS Disk

EditBegins(c, ask) ==    \* ask: the file, the old text ("" creates a file) and the new
  /\ Here(c, "idle") /\ Goto(c, "stat")
  /\ loc' = [loc EXCEPT ![c] = [kind |-> "edit", answer |-> "none", ask |-> ask, text |-> <<>>]]
  /\ Looking

Target(c) == loc[c].ask.path
Missing(c) == IF loc[c].ask.old = "" THEN Goto(c, "create") /\ UNCHANGED loc ELSE Answers(c, "refused")

EditStat(c) ==
  /\ Here(c, "stat")
  /\ IF ~Exists(Target(c)) THEN Missing(c)
     ELSE IF files[Target(c)].is = "dir" THEN Answers(c, "refused")
     ELSE Goto(c, "load") /\ UNCHANGED loc
  /\ LookingAt(c, {Target(c)})
EditLoad(c) ==
  /\ Here(c, "load")
  /\ IF ~Exists(Target(c)) THEN Missing(c)
     ELSE Goto(c, "compute") /\ Set(c, [text |-> files[Target(c)].text])
  /\ Looking

\* The old text must be there once; freshness() fails when the file it knows is gone.
At(c) == {i \in DOMAIN loc[c].text : loc[c].text[i] = loc[c].ask.old}
Edited(c) == [i \in DOMAIN loc[c].text |-> IF i \in At(c) THEN loc[c].ask.new ELSE loc[c].text[i]]
EditComputes(c) ==
  /\ Here(c, "compute")
  /\ IF \/ Stale(Target(c)) \/ (cache[Target(c)] # "missing" /\ ~Exists(Target(c)))
        \/ Cardinality(At(c)) # 1
     THEN Answers(c, "refused")
     ELSE Goto(c, "check") /\ UNCHANGED loc
  /\ Looking
\* Mutant: the file only has to be there.
EditUnchecked(c) ==
  /\ Here(c, "check") /\ UNCHANGED loc /\ Exists(Target(c)) /\ Goto(c, "put")
  /\ LookingAt(c, {Target(c)})
EditChecks(c) ==
  /\ Here(c, "check")
  /\ IF ~Exists(Target(c)) \/ Target(c) \in touched[c] THEN Answers(c, "refused")
     ELSE Goto(c, "put") /\ UNCHANGED loc
  /\ LookingAt(c, {Target(c)})
EditPuts(c) ==
  /\ Here(c, "put")
  /\ \/ Put(c, Target(c), File(Edited(c))) /\ Reliably /\ Set(c, [text |-> Edited(c)]) /\ Goto(c, "record")
     \/ PutFails(c, Target(c), File(Edited(c))) /\ Answers(c, "failed")
Creates(c) ==
  /\ Here(c, "create")
  /\ LET new == <<loc[c].ask.new>> IN
     \/ Put(c, Target(c), File(new)) /\ Reliably /\ Set(c, [text |-> new]) /\ Goto(c, "record")
     \/ PutFails(c, Target(c), File(new)) /\ Answers(c, "failed")
EditRecords(c) ==
  /\ Here(c, "record")
  /\ IF Exists(Target(c)) THEN Answers(c, "applied") /\ Record(c, [p \in {Target(c)} |-> loc[c].text])
     ELSE Answers(c, "failed") /\ Looking

EditStep(c) ==
  \/ EditStat(c) \/ EditLoad(c) \/ EditComputes(c) \/ EditChecks(c) \/ EditPuts(c) \/ Creates(c) \/ EditRecords(c)

-----------------------------------------------------------------------------
(* The JSON tool formats or patches a document: it is read, and replaced   *)
(* only if it still holds exactly what was read.  The cache of reads is    *)
(* not told.                                                               *)

JsonBegins(c, ask) ==
  /\ Here(c, "idle") /\ Goto(c, "parse")
  /\ loc' = [loc EXCEPT ![c] = [kind |-> "json", answer |-> "none", ask |-> ask, text |-> <<>>]]
  /\ Looking
JsonLoads(c) ==
  /\ Here(c, "parse")
  /\ IF files[Target(c)].is # "file" THEN Answers(c, "refused")
     ELSE LET text == files[Target(c)].text IN
          IF loc[c].ask.old \in ToSet(text) THEN Goto(c, "compare") /\ Set(c, [text |-> text]) ELSE Answers(c, "refused")
  /\ LookingAt(c, {Target(c)})
Unchanged(c) == files[Target(c)] = File(loc[c].text)
JsonCompares(c) ==
  /\ Here(c, "compare")
  /\ IF Unchanged(c) THEN Goto(c, "replace") /\ UNCHANGED loc ELSE Answers(c, "refused")
  /\ LookingAt(c, {Target(c)})
JsonReplaces(c) ==
  /\ Here(c, "replace")
  /\ IF files[Target(c)].is = "dir" THEN Answers(c, "failed") /\ Looking
     ELSE LET new == File(Edited(c)) IN
          \/ Put(c, Target(c), new) /\ Reliably /\ Answers(c, "applied")
          \/ PutFails(c, Target(c), new) /\ Answers(c, "failed")
JsonStep(c) == JsonLoads(c) \/ JsonCompares(c) \/ JsonReplaces(c)

-----------------------------------------------------------------------------
(* Reading: the stat is recorded first, the lines are streamed after.      *)

ReadBegins(c, p) ==
  /\ Here(c, "idle") /\ Goto(c, "look")
  /\ loc' = [loc EXCEPT ![c] = [kind |-> "read", answer |-> "none", path |-> p, text |-> <<>>]]
  /\ Looking
ReadStep(c) ==
  LET p == loc[c].path IN
  \/ /\ Here(c, "look")
     /\ IF files[p].is = "file"
        THEN Goto(c, "stream") /\ UNCHANGED loc /\ Record(c, [q \in {p} |-> files[q].text])
        ELSE Answers(c, "refused") /\ Looking
  \/ /\ Here(c, "stream")
     /\ IF files[p].is = "file" THEN Answers(c, "read") /\ shown' = [shown EXCEPT ![p] = files[p].text]
        ELSE Answers(c, "failed") /\ UNCHANGED shown
     /\ UNCHANGED <<files, cache, touched, disturbed, left>>
=============================================================================
