------------------------------ MODULE PatchText -----------------------------
(***************************************************************************)
(* How the text of a native patch is read (streaming-parser.ts), line by   *)
(* line, and how the chunks of an update are found in a file and replaced  *)
(* (seek-sequence.ts, file-update.ts, text-file.ts), in the mode that      *)
(* preserves line endings, the only one this program asks for.             *)
(*                                                                         *)
(* A line of a patch is [kind |-> what it starts with, text |-> the rest,  *)
(* lead |-> whether white space comes before it].  A line of a file is     *)
(* [text |-> its text, eol |-> its terminator].                            *)
(***************************************************************************)
EXTENDS TextLines

CONSTANT Looser       \* the comparisons of a line, each looser than the one before

\* Of String: as written, without trailing, without surrounding white space, with plain punctuation.
Alike(level, a, b) == Looser[level][a] = Looser[level][b]

-----------------------------------------------------------------------------
(* The parser. *)

Chunk(context) == [context |-> context, old |-> <<>>, new |-> <<>>, kept |-> <<>>, eof |-> FALSE]
NoContext == "no context"
Blank(chunk) == chunk.old = <<>> /\ chunk.new = <<>>

Unread == [mode |-> "not_started", hunks |-> <<>>, env |-> FALSE]
Rejected == [Unread EXCEPT !.mode = "rejected"]
LastHunk(s) == s.hunks[Len(s.hunks)]
LastChunk(s) == LastHunk(s).chunks[Len(LastHunk(s).chunks)]

(* A header or the end marker may not follow an update that has no lines.  *)
EmptyUpdate(s) ==
  /\ s.hunks # <<>> /\ LastHunk(s).kind = "update"
  /\ IF LastHunk(s).chunks = <<>> THEN s.mode = "update" ELSE Blank(LastChunk(s))
Opens(s, hunk) ==
  IF EmptyUpdate(s) THEN Rejected
  ELSE [s EXCEPT !.mode = hunk.kind, !.hunks = Append(@, hunk)]

Headers == {"env", "end", "add", "delete", "update"}
\* Inside an update a marker must start the line; elsewhere it is trimmed.
IsHeader(s, line) ==
  /\ line.kind \in Headers /\ (line.kind = "env" => s.mode = "started") /\ (s.mode = "update" => ~line.lead)
Header(s, line) ==
  CASE line.kind = "env" -> IF s.env THEN Rejected ELSE [s EXCEPT !.env = TRUE]
    [] line.kind = "end" -> IF EmptyUpdate(s) THEN Rejected ELSE [s EXCEPT !.mode = "ended"]
    [] line.kind = "add" -> Opens(s, [kind |-> "add", contents |-> <<>>])
    [] line.kind = "delete" -> Opens(s, [kind |-> "delete"])
    [] line.kind = "update" -> Opens(s, [kind |-> "update", moves |-> FALSE, chunks |-> <<>>])

WithChunks(s, chunks) == [s EXCEPT !.hunks[Len(s.hunks)].chunks = chunks]
Amend(s, chunk) == WithChunks(s, Front(LastHunk(s).chunks) \o <<chunk>>)
\* Lines before the first @@ belong to a chunk of their own.
Ready(s) == IF LastHunk(s).chunks = <<>> THEN WithChunks(s, <<Chunk(NoContext)>>) ELSE s

UpdateLine(s, line) ==
  LET chunks == LastHunk(s).chunks
      some == chunks # <<>>
      marker == line.kind \in {"@@", "@@ "} /\ ~line.lead
      r == Ready(s)  c == LastChunk(r)
      keeps(text) == Amend(r, [c EXCEPT !.old = Append(@, text), !.new = Append(@, text),
                                        !.kept = Append(@, <<Len(c.old), Len(c.new)>>)])
  IN IF some /\ LastChunk(s).eof /\ line.kind \in {"", " "} /\ line.text = "" THEN s
     ELSE IF some /\ LastChunk(s).eof /\ ~marker THEN Rejected
     ELSE IF ~some /\ ~LastHunk(s).moves /\ line.kind = "move" /\ ~line.lead THEN [s EXCEPT !.hunks[Len(s.hunks)].moves = TRUE]
     ELSE IF marker THEN
       IF some /\ Blank(LastChunk(s)) THEN Rejected
       ELSE WithChunks(s, Append(chunks, Chunk(IF line.kind = "@@" THEN NoContext ELSE line.text)))
     ELSE IF line.kind = "eof" /\ ~line.lead THEN
       IF ~some THEN s ELSE IF Blank(LastChunk(s)) THEN Rejected ELSE Amend(s, [LastChunk(s) EXCEPT !.eof = TRUE])
     ELSE IF line.kind = "" THEN keeps("")
     ELSE IF line.kind = " " \/ line.lead THEN keeps(line.text)
     ELSE IF line.kind = "+" THEN Amend(r, [c EXCEPT !.new = Append(@, line.text)])
     ELSE IF line.kind = "-" THEN Amend(r, [c EXCEPT !.old = Append(@, line.text)])
     ELSE Rejected

ProcessLine(s, line) ==
  IF s.mode = "not_started" THEN IF line.kind = "begin" THEN [s EXCEPT !.mode = "started"] ELSE Rejected
  ELSE IF s.mode = "ended" THEN IF line.kind = "" THEN s ELSE Rejected
  ELSE IF IsHeader(s, line) THEN Header(s, line)
  ELSE IF s.mode = "add" /\ line.kind = "+" /\ ~line.lead THEN [s EXCEPT !.hunks[Len(s.hunks)].contents = Append(@, line.text)]
  ELSE IF s.mode = "update" THEN UpdateLine(s, line)
  ELSE Rejected

-----------------------------------------------------------------------------
(* Finding lines: exactly first, then ever more loosely; a chunk marked as *)
(* the end of the file is looked for at the end only.                      *)

None == -1
Seek(texts, pattern, from, eof) ==      \* offsets count from 0; None when not found
  LET last == Len(texts) - Len(pattern)
      start == IF eof /\ last > from THEN last ELSE from
      fits(level, p) == \A k \in DOMAIN pattern : Alike(level, texts[p + k], pattern[k])
      found(level) == {p \in start..last : fits(level, p)}
      levels == {l \in DOMAIN Looser : found(l) # {}}
  IN IF pattern = <<>> THEN from
     ELSE IF levels = {} THEN None
     ELSE LET hits == found(CHOOSE l \in levels : \A m \in levels : l <= m) IN CHOOSE p \in hits : \A q \in hits : p <= q

(* The parts of a chunk between the lines it keeps. *)
Parts(at, chunk, old, new) ==
  LET kept == SelectSeq(chunk.kept, LAMBDA k : k[1] < Len(old) /\ k[2] < Len(new))
      before(i) == IF i = 1 THEN <<0, 0>> ELSE <<kept[i - 1][1] + 1, kept[i - 1][2] + 1>>
      until(i) == IF i > Len(kept) THEN <<Len(old), Len(new)>> ELSE kept[i]
      part(i) == [start |-> at + before(i)[1], count |-> until(i)[1] - before(i)[1], new |-> Slice(new, before(i)[2], until(i)[2])]
  IN SelectSeq([i \in 1..(Len(kept) + 1) |-> part(i)], LAMBDA p : p.count # 0 \/ p.new # <<>>)

\* What is known so far: where to look from, the replacements, whether a chunk was not found.
Place(texts, so, chunk) ==
  LET context == Seek(texts, <<chunk.context>>, so.at, FALSE)
      from == IF chunk.context = NoContext THEN so.at ELSE context + 1
      whole == Seek(texts, chunk.old, from, chunk.eof)
      shorter == whole = None /\ chunk.old[Len(chunk.old)] = ""
      old == IF shorter THEN Front(chunk.old) ELSE chunk.old
      new == IF shorter /\ chunk.new # <<>> /\ chunk.new[Len(chunk.new)] = "" THEN Front(chunk.new) ELSE chunk.new
      at == IF shorter THEN Seek(texts, old, from, chunk.eof) ELSE whole
  IN IF so.lost \/ (chunk.context # NoContext /\ context = None) THEN [so EXCEPT !.lost = TRUE]
     ELSE IF chunk.old = <<>> THEN
       [so EXCEPT !.at = from, !.parts = Append(@, [start |-> Len(texts), count |-> 0, new |-> chunk.new])]
     ELSE IF at = None THEN [so EXCEPT !.lost = TRUE]
     ELSE [so EXCEPT !.at = at + Len(old), !.parts = @ \o Parts(at, chunk, old, new)]

\* Mutant: in the order of the chunks.
AsGiven(parts) == parts
Sorted(parts) ==        \* by where they start; stable
  LET before(i, j) == parts[i].start < parts[j].start \/ (parts[i].start = parts[j].start /\ i < j) IN
  [k \in DOMAIN parts |-> parts[CHOOSE i \in DOMAIN parts : Cardinality({j \in DOMAIN parts : before(j, i)}) = k - 1]]

-----------------------------------------------------------------------------
(* Replacing them: the k-th new line takes the terminator of the k-th line *)
(* it replaces; whether the file ends in a terminator stays as it is.      *)

NewLine(lines, part, k) ==
  LET eols == [j \in DOMAIN lines |-> lines[j].eol]  at == part.start + k
      inherited == IF k <= part.count /\ at \in DOMAIN eols THEN eols[at] ELSE NoEol
  IN [text |-> part.new[k],
      eol |-> IF inherited # NoEol THEN inherited
              ELSE LocalEol(eols, part.start + 1, part.start + part.count, DominantOr(eols, LF))]
Rebuilt(lines, parts) ==
  LET s == Sorted(parts)
      upto(k) == IF k > Len(s) THEN Len(lines) ELSE s[k].start
      after(k) == IF k = 0 THEN 0 ELSE s[k].start + s[k].count
  IN FlattenSeq([k \in 1..(Len(s) + 1) |->
       (IF k = 1 THEN <<>> ELSE [j \in DOMAIN s[k - 1].new |-> NewLine(lines, s[k - 1], j)])
       \o Slice(lines, after(k - 1), upto(k))])
Terminated(lines, built) ==
  LET own == DominantOr([j \in DOMAIN lines |-> lines[j].eol], LF)
      eols == [j \in DOMAIN built |-> built[j].eol]
      eol(k) ==
        IF k = Len(built) THEN
          IF lines # <<>> /\ lines[Len(lines)].eol = NoEol THEN NoEol ELSE IF eols[k] = NoEol THEN own ELSE eols[k]
        ELSE IF eols[k] # NoEol THEN eols[k]
        ELSE FirstOf(<<Before(eols, k), After(eols, k + 1), own>>)
  IN [k \in DOMAIN built |-> [built[k] EXCEPT !.eol = eol(k)]]

Updates(lines, chunks) ==    \* {} when a chunk is not found
  LET texts == [k \in DOMAIN lines |-> lines[k].text]
      so == FoldLeft(LAMBDA s, c : Place(texts, s, c), [at |-> 0, parts |-> <<>>, lost |-> FALSE], chunks)
  IN IF so.lost THEN {} ELSE {Terminated(lines, Rebuilt(lines, so.parts))}
=============================================================================
