---------------------------- MODULE ArchiveTool -----------------------------
(***************************************************************************)
(* The archive tool, as far as it changes files: extraction of an archive  *)
(* member by member, and the creation of one (archive.ts), one step for    *)
(* what happens between two awaits.                                        *)
(*                                                                         *)
(* What a call asks: the format ("zip", "tar", "single" for a file that    *)
(* was only compressed, "system" for a format that 7-Zip, tar or unrar     *)
(* read), the members the archive holds, what it holds when it is opened   *)
(* again (another program may have replaced it), and whether existing      *)
(* files are to be overwritten.  A member is                               *)
(*   [name |-> a path, type |-> "file", "dir", "link" or "corrupt",        *)
(*    to |-> a name, over |-> too big or encrypted, unsafe |-> its name    *)
(*    leaves the destination, text |-> its content]                        *)
(***************************************************************************)
EXTENDS Disk

Counted == {"extracted", "dirs", "skipped", "links", "blocked", "errors"}

ExtractBegins(c, ask) ==
  /\ Here(c, "idle") /\ Goto(c, "list")
  /\ loc' = [loc EXCEPT ![c] = [kind |-> "extract", answer |-> "none", ask |-> ask, at |-> 1,
                                holds |-> ask.members, before |-> files, count |-> [k \in Counted |-> 0]]]
  /\ Looking

Members(c) == loc[c].ask.members
Entry(c) == Members(c)[loc[c].at]
Overwrites(c) == loc[c].ask.overwrite
Accounted(n) == n.extracted + n.dirs + n.skipped + n.links + n.blocked + n.errors
Tally(c, k) == [loc[c].count EXCEPT ![k] = @ + 1]
Counts(c, k) == Goto(c, "entry") /\ Set(c, [count |-> Tally(c, k), at |-> loc[c].at + 1])
Aborts(c) == Goto(c, "done") /\ Set(c, [answer |-> "failed"])

\* The listing comes first; the members are then looked up in the archive as it is by now.
Lists(c) ==
  /\ Here(c, "list")
  /\ IF loc[c].ask.format = "system" /\ \E i \in DOMAIN Members(c) : Members(c)[i].unsafe
     THEN Aborts(c)
     ELSE Goto(c, "entry") /\ \E holds \in {Members(c), loc[c].ask.again} : Set(c, [holds |-> holds])
  /\ Looking

(* The last member of a name is the one whose content is extracted. *)
Holders(c, name) == {i \in DOMAIN loc[c].holds : loc[c].holds[i].name = name}
\* Mutant: the first one.
FirstHolding(c, name) == loc[c].holds[CHOOSE i \in Holders(c, name) : \A j \in Holders(c, name) : i <= j]
Holding(c, name) == loc[c].holds[CHOOSE i \in Holders(c, name) : \A j \in Holders(c, name) : j <= i]
LinksTo(c, e) == IF e.type = "link" /\ Holders(c, e.to) # {} /\ Holding(c, e.to).type = "file" THEN e.to ELSE e.name
Content(c) ==
  LET src == Holding(c, LinksTo(c, Entry(c))) IN IF src.type = "link" THEN <<>> ELSE src.text

(* What is decided of a member before the destination is looked at. *)
Verdict(c, e) ==
  LET zip == loc[c].ask.format = "zip"
      gone == Holders(c, e.name) = {}
  IN IF e.unsafe THEN "blocked"
     ELSE IF zip /\ gone THEN "errors"
     ELSE IF e.type = "dir" THEN "mkdir"
     ELSE IF e.type = "link" THEN (IF LinksTo(c, e) = e.name THEN "links" ELSE "probe")
     ELSE IF gone \/ Holding(c, e.name).over THEN "errors"
     ELSE "probe"
Decides(c) ==
  /\ Here(c, "entry") /\ loc[c].ask.format \in {"zip", "tar"} /\ loc[c].at <= Len(Members(c))
  /\ LET v == Verdict(c, Entry(c)) IN
     \/ v = "probe" /\ Goto(c, "probe") /\ UNCHANGED loc
     \/ v = "mkdir" /\ Goto(c, "mkdir") /\ UNCHANGED loc
     \/ v \in Counted /\ Counts(c, v)
  /\ Looking
Finished(c) ==
  /\ Here(c, "entry") /\ loc[c].at > Len(Members(c))
  /\ Goto(c, "done") /\ Set(c, [answer |-> "extracted"])
  /\ Looking

\* mkdir with recursive: a directory may be there, a file may not.
MakesFolder(c) ==
  /\ Here(c, "mkdir")
  /\ LET p == Entry(c).name IN
     \/ files[p].is = "file" /\ Aborts(c) /\ Looking
     \/ files[p].is = "dir" /\ Counts(c, "dirs") /\ Looking
     \/ files[p].is = "none" /\ Counts(c, "dirs") /\ Put(c, p, Folder) /\ Reliably

\* A hard link and a single decompressed file are not looked at for being a directory.
Plain(c) == loc[c].ask.format \in {"zip", "tar"} /\ Entry(c).type # "link"
Skips(c) == Exists(Entry(c).name) /\ (~Overwrites(c) \/ (Plain(c) /\ files[Entry(c).name].is = "dir"))
LooksAt(c) ==
  /\ \/ Here(c, "probe")
     \/ Here(c, "entry") /\ loc[c].ask.format = "single" /\ loc[c].at <= Len(Members(c))
  /\ IF Skips(c) THEN Counts(c, "skipped") ELSE Goto(c, "unpack") /\ UNCHANGED loc
  /\ LookingAt(c, {Entry(c).name})
\* A zip member is decompressed and its checksum compared before the file is written.
WritesOut(c) ==
  /\ Here(c, "unpack")
  /\ LET p == Entry(c).name IN
     IF files[p].is = "dir" \/ Holding(c, p).type = "corrupt" THEN Aborts(c) /\ Looking
     ELSE \/ Put(c, p, File(Content(c))) /\ Reliably /\ Counts(c, "extracted")
          \/ PutFails(c, p, File(Content(c))) /\ Aborts(c)

\* The system's tool is told to overwrite, and may stop half way.
SystemWrites(c) ==
  /\ Here(c, "entry") /\ loc[c].ask.format = "system" /\ loc[c].at <= Len(Members(c))
  /\ LET p == Entry(c).name IN
     IF files[p].is = "dir" THEN Aborts(c) /\ Looking
     ELSE \/ Put(c, p, File(Entry(c).text)) /\ Reliably /\ Counts(c, "extracted")
          \/ PutFails(c, p, File(Entry(c).text)) /\ Aborts(c)

-----------------------------------------------------------------------------
(* Creation: each source is read in turn, the archive is then written over *)
(* whatever file is at its path.                                           *)

CreateBegins(c, ask) ==   \* ask: the archive's path and its sources
  /\ Here(c, "idle")
  /\ loc' = [loc EXCEPT ![c] = [kind |-> "archive", answer |-> "none", ask |-> ask, at |-> 1, text |-> <<>>]]
  /\ IF files[ask.path].is = "dir" THEN Goto(c, "refuse") ELSE Goto(c, "collect")
  /\ Looking
Collects(c) ==
  LET from == loc[c].ask.from[loc[c].at] IN
  /\ Here(c, "collect") /\ loc[c].at <= Len(loc[c].ask.from)
  /\ IF ~Exists(from) THEN Answers(c, "failed")
     ELSE Goto(c, "collect") /\ Set(c, [at |-> loc[c].at + 1, text |-> loc[c].text \o files[from].text])
  /\ LookingAt(c, {from})
WritesArchive(c) ==
  /\ \/ Here(c, "refuse") /\ Answers(c, "refused") /\ Looking
     \/ /\ Here(c, "collect") /\ loc[c].at > Len(loc[c].ask.from)
        /\ LET p == loc[c].ask.path IN
           IF files[p].is = "dir" THEN Answers(c, "failed") /\ Looking
           ELSE \/ Put(c, p, File(loc[c].text)) /\ Reliably /\ Answers(c, "created")
                \/ PutFails(c, p, File(loc[c].text)) /\ Answers(c, "failed")

ArchiveStep(c) ==
  \/ Lists(c) \/ Decides(c) \/ Finished(c) \/ MakesFolder(c) \/ LooksAt(c) \/ WritesOut(c) \/ SystemWrites(c)
  \/ Collects(c) \/ WritesArchive(c)
=============================================================================
