----------------------------- MODULE PatchTool ------------------------------
(***************************************************************************)
(* The patch tool.  A native patch is verified as a whole against what is  *)
(* on disk, its preimages are kept, and its hunks are applied one by one;  *)
(* a git-style diff is computed as a whole before anything is written.     *)
(* When a step fails the preimages are put back, but only where the file   *)
(* still is what the patch wrote.  Nothing holds the files meanwhile: a    *)
(* step is what happens between two awaits.                                *)
(*                                                                         *)
(* Three things tell the files apart that the hunks are verified against   *)
(* from those they are applied to: a file above 16 MiB is not read, a path *)
(* inside another may need a folder where the patch puts a file, and an    *)
(* added file takes the line endings of the file it replaces.  A folder    *)
(* that was made for a file and is left empty is not told from no folder,  *)
(* and only patches are asked about paths inside one another.              *)
(***************************************************************************)
EXTENDS Disk

CONSTANTS Inside,       \* the pairs of paths the first of which is inside the second
          Heavy,        \* lines that put the file that holds them above MAX_PATCH_SOURCE_BYTES
          Crlf          \* a line, as a file of the other line ending holds it

Crlfs == {Crlf[line] : line \in DOMAIN Crlf}
ASSUME PatchAssumption ==
  /\ Inside \subseteq Paths \X Paths
  /\ DOMAIN Crlf \cap Crlfs = {}
  /\ \A x, y \in DOMAIN Crlf : Crlf[x] = Crlf[y] => x = y

\* A hunk: op is "add", "delete" or "update"; an update replaces the first
\* old by new, and moves the file when "to" is another path.
Moves(hk) == hk.op = "update" /\ hk.to # hk.path
Named(hs) == UNION {{hs[i].path, hs[i].to} : i \in DOMAIN hs}
Sources(hs) == {hs[i].path : i \in {j \in DOMAIN hs : hs[j].op # "add"}}

\* What is in the way of a file at p: a file that p is inside of, or one inside p.
Blocked(p) == \E q \in Paths : (<<p, q>> \in Inside /\ files[q].is = "file") \/ (<<q, p>> \in Inside /\ Exists(q))
Puts(c, p, what) == (what # Nowhere => ~Blocked(p)) /\ Put(c, p, what)
CannotPut(c, p, what) == PutFails(c, p, what) \/ (what # Nowhere /\ Blocked(p) /\ Looking)
Readable(p) == files[p].is # "dir" /\ ~Blocked(p)    \* readOptional

\* A line without its ending, and as the line old ends.
Line(x) == IF x \in Crlfs THEN CHOOSE line \in DOMAIN Crlf : Crlf[line] = x ELSE x
Lines(text) == [i \in DOMAIN text |-> Line(text[i])]
EndedLike(x, old) == IF old \in Crlfs /\ Line(x) \in DOMAIN Crlf THEN Crlf[Line(x)] ELSE Line(x)
Alike(f, g) == f.is = g.is /\ Lines(f.text) = Lines(g.text)
TooLarge(f) == \E i \in DOMAIN f.text : Lines(f.text)[i] \in Heavy

\* deriveNewContentsFromChunks: the lines to replace must be there, and keep their endings
Applies(text, hk) == \E i \in DOMAIN text : Lines(text)[i] = hk.old
FirstOf(lines, old) == CHOOSE i \in DOMAIN lines : lines[i] = old /\ \A j \in 1..(i - 1) : lines[j] # old
Derive(text, hk) == LET i == FirstOf(Lines(text), hk.old) IN [text EXCEPT ![i] = EndedLike(hk.new, text[i])]
After(text, hk, added) == CASE hk.op = "add" -> File(<<added>>)
                            [] hk.op = "delete" -> Nowhere
                            [] hk.op = "update" -> File(Derive(text, hk))
AsPlanned(text, hk) == After(text, hk, hk.new)
\* healTextLineEndings: the first line stands for the endings of the file
AsApplied(text, hk) == After(text, hk, IF text = <<>> THEN hk.new ELSE EndedLike(hk.new, text[1]))

Now(c) == loc[c].hunks[loc[c].i]
AtLast(c) == loc[c].i = Len(loc[c].hunks)

-----------------------------------------------------------------------------
(* Before anything is written.  A native patch is resolved and its paths   *)
(* checked against the read cache first; a diff is planned first.          *)

PatchBegins(c, kind, hs) ==
  /\ Here(c, "idle") /\ Goto(c, IF kind = "native" THEN "resolve" ELSE "plan")
  /\ loc' = [loc EXCEPT ![c] = [kind |-> kind, answer |-> "none", hunks |-> hs, i |-> 1, pending |-> <<>>,
                                snap |-> <<>>, kept |-> <<>>, text |-> <<>>, over |-> Nowhere, delta |-> <<>>, todo |-> <<>>, failed |-> FALSE]]
  /\ Looking

Resolve(c) ==
  /\ Here(c, "resolve")
  /\ IF /\ \A p \in Sources(loc[c].hunks) : Exists(p)
        /\ \A p \in Named(loc[c].hunks) : Readable(p) /\ ~Stale(p)
     THEN Goto(c, "verify") /\ UNCHANGED loc ELSE Answers(c, "refused")
  /\ Looking

(* verifyApplyPatchArgs: a dry run of the hunks, each against what the     *)
(* earlier ones would leave at its path, or else what is on disk: only     *)
(* what is on disk can be too large, or in the way.                        *)
Before(c, p) == IF p \in DOMAIN loc[c].pending THEN loc[c].pending[p] ELSE files[p]
NoTarget(c, p) == p \notin DOMAIN loc[c].pending /\ (TooLarge(files[p]) \/ Blocked(p))
Refuses(c, hk) ==
  \/ NoTarget(c, hk.path) \/ NoTarget(c, hk.to)
  \/ Before(c, hk.path).is = "dir"
  \/ hk.op # "add" /\ Before(c, hk.path).is = "none"
  \/ hk.op = "update" /\ ~Applies(Before(c, hk.path).text, hk)
  \/ Moves(hk) /\ Before(c, hk.to).is = "dir"
\* Mutant: the source is taken to be gone after every update.
SourceGone(c, hk) == With(With(loc[c].pending, hk.to, AsPlanned(Before(c, hk.path).text, hk)), hk.path, Nowhere)
Pending(c, hk) == With(With(loc[c].pending, hk.path, Nowhere), hk.to, AsPlanned(Before(c, hk.path).text, hk))
Verify(c) ==
  /\ Here(c, "verify")
  /\ IF Refuses(c, Now(c)) THEN Answers(c, "refused")
     ELSE IF ~AtLast(c) THEN Set(c, [pending |-> Pending(c, Now(c)), i |-> loc[c].i + 1]) /\ UNCHANGED pc
     ELSE \/ Set(c, [pending |-> Pending(c, Now(c)), i |-> 1]) /\ Goto(c, "snapshot")
          \/ Answers(c, "planned")
  /\ Looking

\* gitPatch: every section is computed from what is on disk, then the sources are checked
Plan(c) ==
  /\ Here(c, "plan")
  /\ LET hk == Now(c) IN
     IF hk.op # "add" /\ (files[hk.path].is # "file" \/ ~Applies(files[hk.path].text, hk)) THEN Answers(c, "refused")
     ELSE /\ Set(c, [text |-> Append(loc[c].text, AsPlanned(files[hk.path].text, hk)), i |-> IF AtLast(c) THEN 1 ELSE loc[c].i + 1])
          /\ Goto(c, IF AtLast(c) THEN "planned" ELSE "plan")
  /\ Looking
Planned(c) ==
  /\ Here(c, "planned")
  /\ \/ (\A p \in Sources(loc[c].hunks) : ~Stale(p)) /\ Goto(c, "snapshot") /\ UNCHANGED loc
     \/ Answers(c, IF \A p \in Sources(loc[c].hunks) : ~Stale(p) THEN "planned" ELSE "refused")
  /\ Looking

(* The preimages, one path at a time in the order the hunks name them. *)
NextKept(c, p) ==
  \E i \in DOMAIN loc[c].hunks :
    LET hk == loc[c].hunks[i] IN
    /\ \A j \in 1..(i - 1) : {loc[c].hunks[j].path, loc[c].hunks[j].to} \subseteq DOMAIN loc[c].snap
    /\ p \notin DOMAIN loc[c].snap
    /\ p = IF hk.path \in DOMAIN loc[c].snap THEN hk.to ELSE hk.path
Snapshot(c) ==
  /\ Here(c, "snapshot")
  /\ \/ /\ Named(loc[c].hunks) \subseteq DOMAIN loc[c].snap
        /\ Goto(c, IF loc[c].kind = "native" THEN "read" ELSE "write") /\ UNCHANGED loc
     \/ \E p \in Named(loc[c].hunks) :
          /\ NextKept(c, p)
          /\ IF ~Readable(p) THEN Answers(c, "refused")
             ELSE Set(c, [snap |-> With(loc[c].snap, p, files[p]), kept |-> Append(loc[c].kept, p)]) /\ UNCHANGED pc
  /\ Looking

-----------------------------------------------------------------------------
(* The hunks are applied: applyHunksToFiles, and the loop of gitPatch.     *)

NextHunk(c, delta) ==
  /\ Set(c, [delta |-> delta, i |-> IF AtLast(c) THEN loc[c].i ELSE loc[c].i + 1])
  /\ Goto(c, IF AtLast(c) THEN "refresh" ELSE IF loc[c].kind = "native" THEN "read" ELSE "write")
Fails(c, delta) == Set(c, [todo |-> Reverse(loc[c].kept), delta |-> delta]) /\ Goto(c, "rollback")
Also(c, p, what) == Append(loc[c].delta, [path |-> p, what |-> what])

Read(c) ==
  /\ Here(c, "read")
  /\ LET hk == Now(c) was == files[hk.path] IN
     IF \/ ~Readable(hk.path) \/ TooLarge(was)
        \/ hk.op # "add" /\ was.is = "none"
        \/ hk.op = "update" /\ ~Applies(was.text, hk)
     THEN Fails(c, loc[c].delta)
     ELSE /\ Set(c, [text |-> was.text, over |-> files[hk.to]])
          /\ Goto(c, IF hk.op = "delete" THEN "remove" ELSE "write")
  /\ Looking

\* What the hunk leaves at its path: derived from what was read, or planned.
Result(c) == IF loc[c].kind = "native" THEN AsApplied(loc[c].text, Now(c)) ELSE loc[c].text[loc[c].i]
Write(c) ==
  /\ Here(c, "write")
  /\ LET hk == Now(c)  wrote == Also(c, hk.to, Result(c)) IN
     \/ /\ Puts(c, hk.to, Result(c)) /\ Reliably
        /\ IF Moves(hk) THEN Set(c, [delta |-> wrote]) /\ Goto(c, "remove") ELSE NextHunk(c, wrote)
     \/ CannotPut(c, hk.to, Result(c)) /\ Fails(c, loc[c].delta)

(* Deleting, or removing the source of a move.  rm() of a diff is forced,  *)
(* unlink() of a native patch needs the file.                              *)
Removes(c) ==
  /\ Here(c, "remove")
  /\ LET hk == Now(c) IN
     \/ /\ loc[c].kind = "native" => Exists(hk.path)
        /\ Put(c, hk.path, Nowhere) /\ NextHunk(c, Also(c, hk.path, Nowhere)) /\ Reliably
     \/ /\ IF loc[c].kind = "native" /\ Moves(hk) THEN Goto(c, "unmove") /\ UNCHANGED loc ELSE Fails(c, loc[c].delta)
        /\ \/ RemoveFails(c)
           \/ loc[c].kind = "native" /\ ~Exists(hk.path) /\ Looking

(* The source of a move could not be removed: the destination is put back  *)
(* only if the source is as it was read and the destination still ours.    *)
Unmove(c) ==
  /\ Here(c, "unmove")
  /\ IF files[Now(c).path] = File(loc[c].text) /\ files[Now(c).to] = Result(c)
     THEN Goto(c, "unmoving") /\ UNCHANGED loc
     ELSE Fails(c, loc[c].delta)
  /\ Looking
Unmoving(c) ==
  /\ Here(c, "unmoving")
  /\ \/ Puts(c, Now(c).to, loc[c].over) /\ Reliably /\ Fails(c, Front(loc[c].delta))
     \/ CannotPut(c, Now(c).to, loc[c].over) /\ Fails(c, loc[c].delta)

-----------------------------------------------------------------------------
(* restoreCapturedPreimages. *)

Expected(c) ==
  LET d == loc[c].delta IN
  [p \in {d[i].path : i \in DOMAIN d} |->
     d[CHOOSE i \in DOMAIN d : d[i].path = p /\ \A j \in (i + 1)..Len(d) : d[j].path # p].what]

Ours(c, p) == Readable(p) /\ p \in DOMAIN Expected(c) /\ files[p] = Expected(c)[p]
\* Mutant: a file that the patch has not written is passed over.
WrittenAndLost(c, p) == files[p] # loc[c].snap[p] /\ p \in DOMAIN Expected(c)
Lost(c, p) == files[p] # loc[c].snap[p] \/ ~Readable(p)
Rollback(c) ==
  /\ Here(c, "rollback") /\ loc[c].todo # <<>>
  /\ LET p == Head(loc[c].todo) IN
     /\ LookingAt(c, {p})
     /\ IF Lost(c, p) /\ Ours(c, p) THEN Goto(c, "putback") /\ UNCHANGED loc
        ELSE /\ Set(c, [todo |-> Tail(loc[c].todo), failed |-> loc[c].failed \/ Lost(c, p)])
             /\ UNCHANGED pc
PutBack(c) ==
  /\ Here(c, "putback") /\ Goto(c, "rollback")
  /\ LET p == Head(loc[c].todo) IN
     \/ Puts(c, p, loc[c].snap[p]) /\ Reliably /\ Set(c, [todo |-> Tail(loc[c].todo)])
     \/ CannotPut(c, p, loc[c].snap[p]) /\ Set(c, [todo |-> Tail(loc[c].todo), failed |-> TRUE])
RolledBack(c) ==
  /\ Here(c, "rollback") /\ loc[c].todo = <<>>
  /\ Answers(c, IF loc[c].failed THEN "incomplete" ELSE "rolled back") /\ Looking

\* refreshReadCache, and the answer
Refresh(c) ==
  /\ Here(c, "refresh") /\ Answers(c, "applied")
  /\ Record(c, [p \in DOMAIN Expected(c) |-> Expected(c)[p].text])

PatchStep(c) ==
  \/ Resolve(c) \/ Verify(c) \/ Plan(c) \/ Planned(c) \/ Snapshot(c)
  \/ Read(c) \/ Write(c) \/ Removes(c) \/ Unmove(c) \/ Unmoving(c)
  \/ Rollback(c) \/ PutBack(c) \/ RolledBack(c) \/ Refresh(c)
=============================================================================
