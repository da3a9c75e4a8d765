----------------------------- MODULE FileTools ------------------------------
(***************************************************************************)
(* Patches, edits, JSON rewrites, reads, extractions and the creation of   *)
(* archives under way together, and other programs.                        *)
(***************************************************************************)
EXTENDS PatchTool, EditTool, ArchiveTool

CONSTANTS Mixes      \* what one behaviour is about: the files, those others edit, and what each call asks

\* What the schemas of the tools and the parsers of patches and archives let through.
HunkTyped(hk) ==
  /\ hk.path \in Paths /\ hk.to \in Paths /\ hk.op \in {"add", "delete", "update"}
  /\ hk.op # "update" => hk.to = hk.path
AskTyped(ask) ==
  \/ ask.kind = "none"
  \/ /\ ask.kind = "patch" /\ ask.formats \subseteq {"native", "git"}
     /\ ask.hunks \in Seq(ToSet(ask.hunks)) \ {<<>>} /\ \A hk \in ToSet(ask.hunks) : HunkTyped(hk)
  \/ ask.kind \in {"edit", "json", "read"} /\ ask.path \in Paths
  \/ /\ ask.kind = "extract" /\ ask.members \in Seq(ToSet(ask.members)) /\ ask.again \in Seq(ToSet(ask.again))
     /\ \A m \in ToSet(ask.members) : m.name \in Paths
  \/ ask.kind = "create" /\ ask.path \in Paths /\ ask.from \in Seq(Paths)
ASSUME MixAssumption ==
  \A m \in Mixes :
    /\ DOMAIN m.files = Paths /\ \A p \in Paths : IsContent(m.files[p])
    /\ m.edited \subseteq Paths
    /\ \A c \in Calls : AskTyped(m.calls[c])

VARIABLE mix
all == <<vars, mix>>

Init ==
  /\ mix \in Mixes
  /\ DiskInit(mix.files)

Begins(c) ==
  LET asked == mix.calls[c] IN
  \/ asked.kind = "patch" /\ \E kind \in asked.formats : PatchBegins(c, kind, asked.hunks)
  \/ asked.kind = "edit" /\ EditBegins(c, asked)
  \/ asked.kind = "json" /\ JsonBegins(c, asked)
  \/ asked.kind = "read" /\ ReadBegins(c, asked.path)
  \/ asked.kind = "extract" /\ ExtractBegins(c, asked)
  \/ asked.kind = "create" /\ CreateBegins(c, asked)

Next ==
  /\ UNCHANGED mix
  /\ \/ \E c \in Calls : Begins(c) \/ PatchStep(c) \/ EditStep(c) \/ ArchiveStep(c) \/ JsonStep(c) \/ (loc[c].kind = "read" /\ ReadStep(c))
     \/ \E p \in mix.edited : ~Blocked(p) /\ ElsewhereEdits(p)

Spec == Init /\ [][Next]_all

-----------------------------------------------------------------------------
(* A patch that reports its writes as rolled back has left every file as   *)
(* it was before the patch, unless somebody else wrote the file after the  *)
(* rollback looked at it.                                                  *)
(* (patch.ts:183,280 "committed patch writes were safely rolled back")     *)
RollbackTruthful ==
  \A c \in Calls :
    pc[c] = "rollback" /\ loc[c].todo = <<>> /\ ~loc[c].failed =>
      \A p \in DOMAIN loc[c].snap : files[p] = loc[c].snap[p] \/ p \in touched[c]

(* A patch that verification accepted applies, and leaves what the dry run *)
(* said, when nobody else writes meanwhile and no write fails.             *)
(* (apply-patch/index.ts:575-582)                                          *)
(* Excepted are the patches that verification cannot foretell, for it asks *)
(* the disk only about paths no earlier hunk has written: those that come  *)
(* back to a file they have made larger than 16 MiB (index.ts:263,283,309  *)
(* against 604,645), and those that name a path and another inside it.     *)
(* Line endings are excepted too: a file that is added over another takes  *)
(* its endings when it is written (270-272), not in the dry run (608).     *)
Outgrown(hs) == \E j \in DOMAIN hs : \E i \in 1..(j - 1) : Line(hs[i].new) \in Heavy /\ hs[i].to = hs[j].path
Nested(hs) == \E p, q \in Named(hs) : <<p, q>> \in Inside
Foretold(hs) == ~Outgrown(hs) /\ ~Nested(hs)
VerifiedApplies ==
  \A c \in Calls \ disturbed :
    loc[c].kind = "native" /\ pc[c] # "done" /\ Foretold(loc[c].hunks) =>
      /\ pc[c] \notin {"unmove", "rollback", "putback"}
      /\ pc[c] = "refresh" => \A p \in DOMAIN loc[c].pending : Alike(files[p], loc[c].pending[p])

(* A file is replaced only by a call that has just seen what it replaces:  *)
(* an edit or a JSON rewrite replaces exactly the text it was computed     *)
(* from, and an extraction that is not to overwrite finds nothing there,   *)
(* unless somebody wrote the file between the last look and the write.     *)
(* (edit.ts:456, json.ts:79-83, archive.ts:266,356)                        *)
ReplacesWhatItSaw ==
  [][\A c \in Calls :
       /\ pc[c] \in {"put", "replace"} /\ pc'[c] # pc[c] =>
            files[Target(c)] = File(loc[c].text) \/ Target(c) \in touched[c] \/ files'[Target(c)] = files[Target(c)]
       /\ pc[c] = "unpack" /\ pc'[c] # pc[c] /\ ~Overwrites(c) =>
            LET p == Entry(c).name IN ~Exists(p) \/ p \in touched[c] \/ files'[p] = files[p]]_all

(* The archive holds only files under the name p, when it is listed and    *)
(* when it is read, and the tools of the system read what was listed.      *)
OnlyFiles(c, p) ==
  LET asFile(m) == m.name = p => m.type = "file"
      held == {j \in DOMAIN loc[c].holds : loc[c].holds[j].name = p}
  IN /\ held # {} /\ \A j \in held : asFile(loc[c].holds[j]) /\ ~loc[c].holds[j].over
     /\ \A i \in DOMAIN Members(c) : asFile(Members(c)[i])
     /\ loc[c].ask.format = "system" => loc[c].holds = Members(c)

(* An extraction accounts for every member it was to extract, once, and    *)
(* when nobody else wrote meanwhile each file that was extracted holds the *)
(* content of the archive's last member of that name.  (archive.ts:211)    *)
ExtractionAccounted ==
  \A c \in Calls :
    loc[c].kind = "extract" /\ loc[c].answer = "extracted" =>
      /\ Accounted(loc[c].count) = Len(Members(c))
      /\ c \notin disturbed =>
           \A i \in DOMAIN Members(c) :
             LET p == Members(c)[i].name  held == {j \in DOMAIN loc[c].holds : loc[c].holds[j].name = p} IN
             ~Members(c)[i].unsafe /\ OnlyFiles(c, p) =>
               \/ files[p] = loc[c].before[p] /\ loc[c].before[p] # Nowhere
               \/ files[p].is = "dir"
               \/ \E j \in held : (\A k \in held : k <= j) /\ files[p] = File(loc[c].holds[j].text)

(* A file the read cache holds as unchanged is as a tool last showed it or *)
(* left it: a later edit or patch is not applied to a text nobody has seen.*)
(* Excepted is a write that lands between a tool's own write and its stat. *)
FreshMeansSeen ==
  \A p \in Paths : cache[p] = "fresh" /\ files[p].is = "file" /\ shown[p] # Unseen => files[p].text = shown[p]

(* Nothing is replaced unseen: what a call replaces it has just looked at, *)
(* and what later calls may take as known a tool has shown.                *)
SeenBeforeReplaced == []FreshMeansSeen /\ ReplacesWhatItSaw

(* What restoreCapturedPreimages says of an edit made by another program   *)
(* while the patch was under way: "A concurrent external edit wins"        *)
(* (patch.ts:60).  A preimage never replaces a text that holds such an     *)
(* edit, unless it was made after the rollback looked.                     *)
ExternalEditWins ==
  [][\A c \in Calls : pc[c] = "putback" /\ pc'[c] # "putback" =>
       LET p == Head(loc[c].todo) IN
       Foreign \in ToSet(files[p].text) => Foreign \in ToSet(loc[c].snap[p].text) \/ p \in touched[c]]_all
=============================================================================
