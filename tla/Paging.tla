------------------------------- MODULE Paging -------------------------------
(***************************************************************************)
(* How long output is cut to size: windows of a file and pages of a list   *)
(* that say where to continue (read.ts, archive.ts), text cut at its end   *)
(* (common.ts) or in its middle (truncate.ts), and the buffer that keeps   *)
(* the head and the tail of a stream (head-tail-buffer.ts).                *)
(*                                                                         *)
(* A text is the sequence of the widths of its characters in bytes; a list *)
(* is the sequence of the sizes of its rows.  A page says what it shows    *)
(* and, if that is not all, where the next begins.                         *)
(***************************************************************************)
EXTENDS Integers, Sequences, FiniteSets, SequencesExt

CONSTANTS MaxBytes,     \* what a page may take
          Prefix        \* what a line number takes

ASSUME PagingAssumption == MaxBytes \in Nat /\ Prefix \in Nat /\ Prefix + 4 <= MaxBytes

Least(a, b) == IF a < b THEN a ELSE b
AtLeast0(n) == IF n < 0 THEN 0 ELSE n
Bytes(text) == FoldLeft(LAMBDA n, w : n + w, 0, text)
From(text, k) == SubSeq(text, k, Len(text))
Sep(rows) == IF rows = <<>> THEN 0 ELSE 1       \* the line feed between rows

-----------------------------------------------------------------------------
(* The end of a text is cut where no character is cut.                     *)

IsLead(text) == FlattenSeq([k \in DOMAIN text |-> [b \in 1..text[k] |-> b = 1]])
TruncateUtf8(text, max) ==      \* how many characters are left
  IF Bytes(text) <= max THEN Len(text)
  ELSE LET end == CHOOSE e \in 0..max : (e = 0 \/ IsLead(text)[e + 1]) /\ \A f \in (e + 1)..max : ~IsLead(text)[f + 1]
       IN Cardinality({b \in 1..end : IsLead(text)[b]})

-----------------------------------------------------------------------------
(* A window of a file: rows <<line, first character, how many>>, until     *)
(* enough rows, or bytes, are shown; a line that does not fit is continued *)
(* at a column, by itself.                                                 *)

Cursor(offset, column, limit) == [offset |-> offset, column |-> column, limit |-> limit]
Fits(p, text) == TruncateUtf8(text, AtLeast0(MaxBytes - p.bytes - Sep(p.rows) - Prefix))
\* Mutant: a line that was cut is said to go on after the line.
SkipsRest(n, col, k, limit) == {Cursor(n + 1, 1, limit)}
Continues(n, col, k, limit) == {Cursor(n, col + k, 1)}
Visit(p, n, line, ask) ==       \* p: rows, bytes, next, stopped
  LET col == IF n = ask.offset THEN ask.column ELSE 1
      text == From(line, col)
      k == Fits(p, text)
      size == Prefix + Bytes(SubSeq(text, 1, k)) + Sep(p.rows)
      stop == [p EXCEPT !.stopped = TRUE, !.next = {Cursor(ask.offset + Len(p.rows), 1, ask.limit)}]
      shown == [p EXCEPT !.rows = Append(@, <<n, col, k>>), !.bytes = @ + size]
  IN IF p.stopped \/ n < ask.offset THEN p
     ELSE IF Len(p.rows) >= ask.limit \/ size > MaxBytes - p.bytes THEN stop
     ELSE IF k < Len(text) THEN [shown EXCEPT !.stopped = TRUE, !.next = Continues(n, col, k, ask.limit)]
     ELSE shown
Window(lines, ask) ==
  LET end == FoldLeft(LAMBDA p, n : Visit(p, n, lines[n], ask), [rows |-> <<>>, bytes |-> 0, next |-> {}, stopped |-> FALSE],
                      [n \in DOMAIN lines |-> n])
  IN [rows |-> end.rows, next |-> end.next]

\* The tail: rows at the front are dropped until the rest fits.
RECURSIVE Trimmed(_, _)
Trimmed(rows, limit) ==
  IF rows # <<>> /\ (Len(rows) > limit \/ FoldLeft(LAMBDA n, r : n + r[2] + 1, 0, rows) > MaxBytes) THEN Trimmed(Tail(rows), limit) ELSE rows
TailRows(sizes, limit) ==
  FoldLeft(LAMBDA rows, n : Trimmed(Append(rows, <<n, sizes[n]>>), limit), <<>>, [n \in DOMAIN sizes |-> n])

-----------------------------------------------------------------------------
(* Pages of a list: by number (a directory, the members of an archive), by *)
(* number and bytes (an outline, the hits of a search), and the lines of a *)
(* member of an archive.                                                   *)

Rows(a, b) == [i \in 1..AtLeast0(b - a + 1) |-> a + i - 1]
SlicePage(sizes, offset, limit) ==
  LET rows == Rows(offset, Least(offset + limit - 1, Len(sizes))) IN
  [rows |-> rows, next |-> IF offset - 1 + Len(rows) < Len(sizes) THEN {offset + Len(rows)} ELSE {}]
HitsPage(sizes, offset, limit) ==
  LET add(p, n) ==
        LET size == sizes[n] + Sep(p.rows) IN
        IF p.full THEN p
        ELSE IF Len(p.rows) >= limit \/ p.bytes + size > MaxBytes THEN [p EXCEPT !.full = TRUE]
        ELSE [p EXCEPT !.rows = Append(@, n), !.bytes = @ + size]
      end == FoldLeft(add, [rows |-> <<>>, bytes |-> 0, full |-> FALSE], Rows(offset, Len(sizes)))
  IN [rows |-> end.rows, next |-> IF end.full THEN {offset + Len(end.rows)} ELSE {}]
\* A search walks a tree, the directory that was found last first; offsets count from 0.
\* An entry is [dir, ignored, name, lines]: the rows it gives, for its name and for what it
\* holds; a directory's lines are its entries.  A row is <<what, size>>.
RECURSIVE Found(_, _)
Found(stack, mode) ==
  IF stack = <<>> THEN <<>>
  ELSE LET entries == SelectSeq(stack[Len(stack)], LAMBDA e : ~(e.dir /\ e.ignored))
           rows(e) == (IF mode = "content" THEN <<>> ELSE e.name) \o (IF e.dir \/ mode = "name" THEN <<>> ELSE e.lines)
           dirs == SelectSeq(entries, LAMBDA e : e.dir)
       IN FlattenSeq([i \in DOMAIN entries |-> rows(entries[i])])
          \o Found(Front(stack) \o [i \in DOMAIN dirs |-> dirs[i].lines], mode)
FindPage(rows, offset, limit) ==
  LET page == HitsPage([i \in DOMAIN rows |-> rows[i][2]], offset + 1, limit) IN
  [rows |-> page.rows, next |-> {n - 1 : n \in page.next}]
MemberPage(sizes, offset, limit) ==
  LET shown == Rows(offset, Least(offset + limit - 1, Len(sizes)))
      taken(k) == FoldLeft(LAMBDA n, i : n + sizes[i] + 1, 0, SubSeq(shown, 1, k))
      rows == SubSeq(shown, 1, CHOOSE k \in 0..Len(shown) : taken(k) <= MaxBytes /\ (k < Len(shown) => taken(k + 1) > MaxBytes))
  IN [rows |-> rows, next |-> IF Len(rows) < Len(shown) \/ offset - 1 + Len(shown) < Len(sizes) THEN {offset + Len(rows)} ELSE {}]

-----------------------------------------------------------------------------
(* A text cut in its middle: how many characters come before the marker,   *)
(* how many it says are gone, and how many come after it.                  *)

Cut(before, removed, after) == [before |-> before, removed |-> removed, after |-> after]
SplitString(text, left, right) ==
  LET tail == AtLeast0(Bytes(text) - right)
      visit(p, k) ==
        LET end == p.at + text[k] IN
        IF end <= left THEN [p EXCEPT !.at = end, !.prefix = k]
        ELSE IF p.at >= tail THEN [p EXCEPT !.at = end, !.suffix = IF @ = 0 THEN k ELSE @]
        ELSE [p EXCEPT !.at = end, !.removed = @ + 1]
      end == FoldLeft(visit, [at |-> 0, prefix |-> 0, suffix |-> 0, removed |-> 0], [k \in DOMAIN text |-> k])
  IN Cut(end.prefix, end.removed, IF end.suffix = 0 THEN 0 ELSE Len(text) - end.suffix + 1)
TruncateMiddle(text, max) ==
  IF Bytes(text) <= max THEN Cut(Len(text), 0, 0)
  ELSE IF max = 0 THEN Cut(0, Len(text), 0)
  ELSE SplitString(text, max \div 2, max - max \div 2)

-----------------------------------------------------------------------------
(* The head and the tail of a stream: half of the budget each.             *)

NoOutput == [head |-> <<>>, tail |-> <<>>, omitted |-> 0]
PushToTail(b, chunk, max) ==
  LET budget == max - max \div 2  tail == b.tail \o chunk IN
  IF Len(tail) <= budget THEN [b EXCEPT !.tail = tail]
  ELSE [b EXCEPT !.tail = From(tail, Len(tail) - budget + 1), !.omitted = @ + Len(tail) - budget]
PushChunk(b, chunk, max) ==
  LET n == Least(AtLeast0(max \div 2 - Len(b.head)), Len(chunk)) IN
  IF max = 0 THEN [b EXCEPT !.omitted = @ + Len(chunk)]
  ELSE PushToTail([b EXCEPT !.head = @ \o SubSeq(chunk, 1, n)], From(chunk, n + 1), max)
PushBuffer(b, other, max) ==
  [PushChunk(PushChunk(b, other.head, max), other.tail, max) EXCEPT !.omitted = @ + other.omitted]
=============================================================================
