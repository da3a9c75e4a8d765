------------------------------ MODULE TextTools -----------------------------
(***************************************************************************)
(* The text algorithms at work: an edit of a text, a rewrite of a file     *)
(* that takes over its line endings, and a patch that arrives line by line *)
(* and is then applied to a file.                                          *)
(***************************************************************************)
EXTENDS EditText, PatchText, Asks

CONSTANTS EditCases,    \* [text |-> ..., ops |-> ...]
          HealCases,    \* [before |-> ..., after |-> ...]
          PatchLines,   \* the lines a patch may have
          MaxLines,     \* how many of them
          FilesToPatch  \* sequences of lines

ASSUME TextToolsAssumption == MaxLines \in Nat

TextInit ==
  \/ ask \in {[is |-> "edit", of |-> c] : c \in EditCases} /\ result = {}
  \/ ask \in {[is |-> "heal", of |-> c] : c \in HealCases} /\ result = {}
  \/ ask = [is |-> "patch", of |-> Unread, lines |-> 0] /\ result = {}

EditsText == ask.is = "edit" /\ result = {} /\ result' = Edits(ask.of.text, ask.of.ops) /\ result' # {} /\ UNCHANGED ask
HealsText == ask.is = "heal" /\ result = {} /\ result' = Heals(ask.of.before, ask.of.after) /\ UNCHANGED ask
ReadLine ==
  /\ ask.is = "patch" /\ ask.lines < MaxLines /\ result = {}
  /\ \E line \in PatchLines :
       LET s == ProcessLine(ask.of, line) IN s.mode # "rejected" /\ ask' = [ask EXCEPT !.of = s, !.lines = @ + 1]
  /\ UNCHANGED result
ApplyPatch ==
  /\ ask.is = "patch" /\ ask.of.mode = "ended" /\ result = {}
  /\ \E k \in DOMAIN ask.of.hunks, file \in FilesToPatch :
       LET hunk == ask.of.hunks[k] IN
       /\ hunk.kind = "update" /\ Updates(file, hunk.chunks) # {}
       /\ result' = Updates(file, hunk.chunks)
       /\ ask' = [is |-> "applied", file |-> file, chunks |-> hunk.chunks]

TextNext == EditsText \/ HealsText \/ ReadLine \/ ApplyPatch

-----------------------------------------------------------------------------
(* The spans of an edit are replaced as if at once, wherever they are and  *)
(* in whatever order they were given.  The exception is an edit that fills *)
(* one empty line more than once, which is not taken for an overlap: the   *)
(* texts come out there in the reverse of the order they were given in.    *)
(* In a text with one kind of line ending no other kind appears, unless    *)
(* the old text was quoted from inside a CRLF; and a replaced range of     *)
(* lines leaves all others alone.  (edit.ts:335-352, 237-239)              *)
FillsTwice(s) == \E i, j \in DOMAIN s : i # j /\ s[i].start = s[i].end /\ s[j].start = s[i].start /\ s[j].end = s[i].end
Splits(t, p) == p \in 1..(Len(t) - 1) /\ t[p] = "r" /\ t[p + 1] = "n"
Texts(t) == [k \in DOMAIN LineTable(t) |-> TextOf(t, LineTable(t)[k])]
RangeReplaced(t, op, r) ==
  LET old == Texts(t)  before == SubSeq(old, 1, op.from - 1)  after == SubSeq(old, op.to + 1, Len(old)) IN
  Texts(r) = before \o (IF ~op.delete THEN Texts(op.new) ELSE IF after = <<>> THEN <<<<>>>> ELSE <<>>) \o after
EditsInPlace ==
  ask.is = "edit" =>
    LET t == ask.of.text  ops == ask.of.ops IN
    \A r \in result : \A s \in Spans(t, ops) :
      /\ r = Replaced(t, IF FillsTwice(s) THEN Reverse(s) ELSE s)
      /\ ~Mixed(EolsOf(t)) /\ Endings(EolsOf(t)) # <<>> /\ (\A k \in DOMAIN s : ~Splits(t, s[k].start) /\ ~Splits(t, s[k].end)) =>
           ToSet(Endings(EolsOf(r))) \subseteq {Fallback(t)}
      /\ ~Mixed(EolsOf(t)) /\ Len(ops) = 1 /\ ops[1].is = "range" => RangeReplaced(t, ops[1], r)

(* A healed rewrite is the rewrite, up to its line endings; a file healed  *)
(* from itself is itself; in a file with one kind of line ending that kind *)
(* remains.  (A bare CR before a line that is empty and ends in LF makes   *)
(* one CRLF of the two.)  (text-eol.ts:151-157)                            *)
HealsEndingsOnly ==
  ask.is = "heal" =>
    LET b == ask.of.before  a == ask.of.after IN
    \A h \in result :
      /\ Canonical(h) = Canonical(a) \/ CR \in ToSet(EolsOf(b))
      /\ a = Canonical(b) => h = b
      /\ ~Mixed(EolsOf(b)) /\ Endings(EolsOf(b)) # <<>> => ToSet(Endings(EolsOf(h))) \subseteq ToSet(EolsOf(b))

(* An accepted patch is complete: each update has chunks, no chunk is      *)
(* empty, and its context lines are the same on both sides, in order.      *)
(* What it makes of a file: windows of it that resemble the chunks'        *)
(* old lines, in order and apart, are replaced; every line outside them,   *)
(* and every context line within them, keeps its own text and terminator,  *)
(* and whether the file ends in a terminator stays as it was.              *)
(* (streaming-parser.ts:87-110, file-update.ts:98-165, text-file.ts:96-102)*)
Complete(chunks) ==
  /\ chunks # <<>>
  /\ \A c \in ToSet(chunks) :
       /\ ~Blank(c)
       /\ \A i \in DOMAIN c.kept :
            /\ c.old[c.kept[i][1] + 1] = c.new[c.kept[i][2] + 1]
            /\ i > 1 => c.kept[i - 1][1] < c.kept[i][1] /\ c.kept[i - 1][2] < c.kept[i][2]
Resembles(f, p, old) == \A k \in DOMAIN old : Alike(Len(Looser), f[p + k].text, old[k])
Trailing(lines) == IF lines # <<>> /\ lines[Len(lines)] = "" THEN Front(lines) ELSE lines
Windows(f, chunks) ==      \* where each chunk may have been placed, and how long it was taken to be
  {w \in [DOMAIN chunks -> (0..Len(f)) \X (0..Len(f))] :
     \A k \in DOMAIN chunks :
       LET c == chunks[k]  p == w[k][1]  n == w[k][2] IN
       /\ n \in {Len(c.old), Len(Trailing(c.old))} /\ p + n <= Len(f)
       /\ IF c.old = <<>> THEN p = Len(f) ELSE Resembles(f, p, Slice(c.old, 0, n))
       /\ \A j \in 1..(k - 1) : chunks[j].old = <<>> \/ c.old = <<>> \/ w[j][1] + w[j][2] <= p}
(* The new lines of a window; those kept are the file's.                   *)
WindowLines(f, p, n, c) ==
  LET new == IF n < Len(c.old) THEN Trailing(c.new) ELSE c.new
      keptAs(j) == {c.kept[i][1] : i \in {i \in DOMAIN c.kept : c.kept[i][2] = j - 1 /\ c.kept[i][1] < n}}
  IN [j \in DOMAIN new |-> IF keptAs(j) = {} THEN [text |-> new[j], eol |-> NoEol]
                           ELSE f[p + 1 + (CHOOSE i \in keptAs(j) : TRUE)]]
Expected(f, chunks, w) ==
  LET found == SelectSeq([k \in DOMAIN chunks |-> k], LAMBDA k : chunks[k].old # <<>>)
      added == SelectSeq([k \in DOMAIN chunks |-> k], LAMBDA k : chunks[k].old = <<>>)
      end(i) == IF i = 0 THEN 0 ELSE w[found[i]][1] + w[found[i]][2]
  IN FlattenSeq([i \in DOMAIN found |-> Slice(f, end(i - 1), w[found[i]][1])
                                          \o WindowLines(f, w[found[i]][1], w[found[i]][2], chunks[found[i]])])
     \o Slice(f, end(Len(found)), Len(f))
     \o FlattenSeq([i \in DOMAIN added |-> WindowLines(f, Len(f), 0, chunks[added[i]])])
Agrees(r, e) ==
  /\ Len(r) = Len(e)
  /\ \A k \in DOMAIN e : r[k].text = e[k].text /\ (e[k].eol # NoEol /\ k < Len(e) => r[k].eol = e[k].eol)
  /\ \A k \in 1..(Len(r) - 1) : r[k].eol # NoEol
PatchesInPlace ==
  /\ ask.is = "patch" /\ ask.of.mode = "ended" =>
       \A k \in DOMAIN ask.of.hunks : ask.of.hunks[k].kind = "update" => Complete(ask.of.hunks[k].chunks)
  /\ ask.is = "applied" =>
       \A r \in result :
         /\ \E w \in Windows(ask.file, ask.chunks) : Agrees(r, Expected(ask.file, ask.chunks, w))
         /\ ask.file # <<>> /\ r # <<>> => (r[Len(r)].eol = NoEol <=> ask.file[Len(ask.file)].eol = NoEol)
=============================================================================
