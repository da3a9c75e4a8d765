---------------------------- MODULE PagingTools -----------------------------
(***************************************************************************)
(* A caller that reads on where each page says to, output that is cut, and *)
(* chunks of output that two buffers keep before one takes over the other. *)
(***************************************************************************)
EXTENDS Paging, Asks

CONSTANTS TextFiles,        \* files: sequences of lines
          Lists,        \* sequences of sizes
          Trees,        \* directories to search
          Outputs,      \* sequences of chunk lengths
          Limits, MaxPages

PagingInit ==
  /\ result = {}
  /\ \/ ask \in {[is |-> "window", of |-> t, at |-> Cursor(o, 1, l), limit |-> l, first |-> o, got |-> <<>>, pages |-> 0] :
                   t \in TextFiles, o \in 1..3, l \in Limits}
     \/ ask \in {[is |-> k, of |-> s, at |-> o, limit |-> l, first |-> o, got |-> <<>>, pages |-> 0] :
                   k \in {"slice", "hits", "member"}, s \in Lists, o \in 1..3, l \in Limits}
     \/ ask \in {[is |-> "find", of |-> t, mode |-> m, at |-> o, limit |-> l, first |-> o, got |-> <<>>, pages |-> 0] :
                   t \in Trees, m \in {"name", "content", "both"}, o \in 0..2, l \in Limits}
     \/ ask \in {[is |-> "tail", of |-> s, limit |-> l] : s \in Lists, l \in Limits}
     \/ ask \in {[is |-> "cut", of |-> line, max |-> m] : line \in UNION {ToSet(t) : t \in TextFiles}, m \in 0..MaxBytes}
     \/ ask \in {[is |-> "buffer", of |-> a, then |-> b, max |-> m] : a, b \in Outputs, m \in 0..5}

Reads(page, at) ==
  /\ result = {} /\ ask.pages < MaxPages
  /\ ask' = [ask EXCEPT !.got = @ \o page.rows, !.pages = @ + 1, !.at = IF page.next = {} THEN @ ELSE at]
  /\ result' = IF page.next = {} THEN {"end"} ELSE {}
\* The limit of a continued line is the page's; otherwise the caller keeps its own or the last.
ReadsWindow ==
  ask.is = "window" /\ LET page == Window(ask.of, ask.at) IN
    \E limit \in {ask.limit} \union {n.limit : n \in page.next} :
      /\ \A n \in page.next : n.column > 1 => limit = n.limit
      /\ Reads(page, IF page.next = {} THEN ask.at ELSE Cursor((CHOOSE n \in page.next : TRUE).offset, (CHOOSE n \in page.next : TRUE).column, limit))
ReadsPage ==
  /\ ask.is \in {"slice", "hits", "member", "find"}
  /\ LET page == CASE ask.is = "slice" -> SlicePage(ask.of, ask.at, ask.limit)
                   [] ask.is = "hits" -> HitsPage(ask.of, ask.at, ask.limit)
                   [] ask.is = "member" -> MemberPage(ask.of, ask.at, ask.limit)
                   [] ask.is = "find" -> FindPage(Found(<<ask.of>>, ask.mode), ask.at, ask.limit)
     IN Reads(page, IF page.next = {} THEN ask.at ELSE CHOOSE n \in page.next : TRUE)
Cuts ==
  /\ result = {} /\ UNCHANGED ask
  /\ \/ ask.is = "tail" /\ result' = {TailRows(ask.of, ask.limit)}
     \/ ask.is = "cut" /\ result' = {[end |-> TruncateUtf8(ask.of, ask.max), middle |-> TruncateMiddle(ask.of, ask.max)]}

Bytes1(lengths, from) ==        \* the chunks of a stream, whose bytes are numbered
  [k \in DOMAIN lengths |-> [i \in 1..lengths[k] |-> from + Bytes(SubSeq(lengths, 1, k - 1)) + i]]
Pushed(chunks, max) == FoldLeft(LAMBDA b, c : PushChunk(b, c, max), NoOutput, chunks)
Buffers ==
  /\ ask.is = "buffer" /\ result = {} /\ UNCHANGED ask
  /\ result' = {PushBuffer(Pushed(Bytes1(ask.of, 0), ask.max), Pushed(Bytes1(ask.then, Bytes(ask.of)), ask.max), ask.max)}
PagingNext == ReadsWindow \/ ReadsPage \/ Cuts \/ Buffers

-----------------------------------------------------------------------------
(* Who reads on where each page says to gets everything from where it      *)
(* began, once and in order, however its pages are bounded: every line of  *)
(* a file to its end, a long one in pieces; every row of a list; every     *)
(* match in a tree that is not under an ignored directory.  No page        *)
(* leads back to itself, unless a line of an archive's member is larger    *)
(* than a page.  (read.ts:84-149, 151-198, 232-235, 306-381;               *)
(* archive.ts:186-201, 574-595)                                            *)
Next2(lines, r) ==          \* where the text goes on after a row
  IF r[2] + r[3] - 1 = Len(lines[r[1]]) THEN <<r[1] + 1, 1>> ELSE <<r[1], r[2] + r[3]>>
WindowsInOrder ==
  LET got == ask.got IN
  /\ \A i \in DOMAIN got : <<got[i][1], got[i][2]>> = IF i = 1 THEN <<ask.first, 1>> ELSE Next2(ask.of, got[i - 1])
  /\ \A i \in DOMAIN got : i > 2 => got[i][1] # got[i - 2][1] \/ got[i][2] # got[i - 2][2]
  /\ result # {} /\ ask.first <= Len(ask.of) => got # <<>> /\ Next2(ask.of, got[Len(got)]) = <<Len(ask.of) + 1, 1>>
PagesInOrder ==
  /\ ask.got = Rows(ask.first, ask.first + Len(ask.got) - 1)
  /\ result # {} /\ ask.first <= Len(ask.of) => Len(ask.got) = Len(ask.of) - ask.first + 1
RECURSIVE Holds(_, _)
Holds(dir, mode) ==         \* what a search should find
  UNION {IF e.dir /\ e.ignored THEN {} ELSE (IF mode = "content" THEN {} ELSE ToSet(e.name))
           \union (IF e.dir THEN Holds(e.lines, mode) ELSE IF mode = "name" THEN {} ELSE ToSet(e.lines)) : e \in ToSet(dir)}
FoundInOrder ==
  LET rows == Found(<<ask.of>>, ask.mode) IN
  /\ ToSet(rows) = Holds(ask.of, ask.mode) /\ Len(rows) = Cardinality(ToSet(rows))
  /\ ask.got = Rows(ask.first + 1, ask.first + Len(ask.got))
  /\ result # {} /\ ask.first <= Len(rows) => Len(ask.got) = Len(rows) - ask.first
ReadingOnGetsAll ==
  ask.is \in {"window", "slice", "hits", "member", "find"} =>
    \/ ask.is = "member" /\ \E i \in DOMAIN ask.of : ask.of[i] >= MaxBytes
    \/ /\ ask.pages > Len(ask.got) => result # {}
       /\ CASE ask.is = "window" -> WindowsInOrder [] ask.is = "find" -> FoundInOrder [] OTHER -> PagesInOrder

(* What is cut is accounted for: a text keeps as many whole characters at  *)
(* its end, or at both ends, as fit, and the marker says how many are      *)
(* gone; a tail is the longest that fits; and of two streams of output one *)
(* after the other, the first and the last bytes are kept and the others   *)
(* counted, wherever the chunks and the buffers were divided.              *)
(* (common.ts:29, truncate.ts:75-110, read.ts:91-106,                      *)
(* head-tail-buffer.ts:41-110)                                             *)
Longest(n, of, max, size(_)) == size(n) <= max /\ (n < of => size(n + 1) > max)
CutWell(text, max, r) ==
  LET first(k) == Bytes(SubSeq(text, 1, k))  last(k) == Bytes(From(text, Len(text) - k + 1))  m == r.middle IN
  /\ Longest(r.end, Len(text), max, first)
  /\ m.before + m.removed + m.after = Len(text)
  /\ IF Bytes(text) <= max THEN m.removed = 0
     ELSE Longest(m.before, Len(text), max \div 2, first) /\ Longest(m.after, Len(text), max - max \div 2, last)
TailOf(sizes, limit, rows) ==
  LET taken(k) == Bytes(From(sizes, Len(sizes) - k + 1)) + k IN
  /\ [i \in DOMAIN rows |-> rows[i][1]] = Rows(Len(sizes) - Len(rows) + 1, Len(sizes))
  /\ Len(rows) <= limit /\ taken(Len(rows)) <= MaxBytes
  /\ Len(rows) < Len(sizes) /\ Len(rows) < limit => taken(Len(rows) + 1) > MaxBytes
HeadAndTail(n, max, b) ==
  LET head == Least(max \div 2, n)  tail == Least(max - max \div 2, n - head) IN
  /\ b.head \o b.tail = Rows(1, head) \o Rows(n - tail + 1, n)
  /\ b.omitted = n - head - tail
CutIsAccounted ==
  \A r \in result :
    /\ ask.is = "cut" => CutWell(ask.of, ask.max, r)
    /\ ask.is = "tail" => TailOf(ask.of, ask.limit, r)
    /\ ask.is = "buffer" => HeadAndTail(Bytes(ask.of) + Bytes(ask.then), ask.max, r)
=============================================================================
