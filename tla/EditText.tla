------------------------------ MODULE EditText ------------------------------
(***************************************************************************)
(* What an edit makes of a text (edit.ts): each operation becomes spans to *)
(* replace, and the spans are replaced together.  An operation that is     *)
(* refused has no result.                                                  *)
(***************************************************************************)
EXTENDS TextLines

Span(from, to, new) == [start |-> from, end |-> to, new |-> new]

(* The occurrences of a text in another, from the left, none overlapping.  *)
At(t, needle) == {p \in 0..(Len(t) - Len(needle)) : Slice(t, p, p + Len(needle)) = needle}
Occurrences(t, needle) ==
  IF needle = <<>> THEN <<>>
  ELSE FoldLeft(LAMBDA hits, p : IF hits # <<>> /\ p < hits[Len(hits)] + Len(needle) THEN hits ELSE Append(hits, p),
                <<>>, Ascending(t, At(t, needle)))
\* Where the k-th character of the canonical text is in the text itself.
Original(t) ==
  LET inside == {p \in 1..(Len(t) - 1) : t[p] = "r" /\ t[p + 1] = "n"} IN Ascending(t, (0..Len(t)) \ inside)
HasBreak(t) == "n" \in ToSet(t) \/ "r" \in ToSet(t)

(* Where the old text is, whatever terminators it was quoted with.         *)
Matches(t, needle, normalize) ==
  LET places(hits, length, map) == [k \in DOMAIN hits |-> [start |-> map[hits[k] + 1], end |-> map[hits[k] + length + 1]]]
      canonical(c) == places(Occurrences(Canonical(t), c), Len(c), Original(t))
      choice(raw) == IF ~HasBreak(needle) \/ (raw # <<>> /\ ~normalize)
                     THEN places(raw, Len(needle), [p \in 1..(Len(t) + 1) |-> p - 1]) ELSE canonical(Canonical(needle))
  IN choice(Occurrences(t, needle))

LineAt(lines, p) == CHOOSE k \in DOMAIN lines : lines[k].start <= p /\ (k = Len(lines) \/ p < lines[k].eolEnd)
Fallback(t) == DominantOr(EolsOf(t), LF)
Local(t, from, to) == LocalEol(EolsOf(t), from, to, Fallback(t))
Inside(t, from, to) == Endings(EolsOf(Slice(t, from, to)))

\* The new text takes the terminators of what it replaces, in their order.
ForSpan(t, new, from, to) ==
  LET eol(lines) == Local(t, LineAt(lines, from), LineAt(lines, IF to > from THEN to - 1 ELSE from)) IN
  RewriteEols(new, Inside(t, from, to), eol(LineTable(t)))

Includes(t, part) == At(t, part) # {}

ExactSpans(t, op) ==    \* op: old, new, all
  LET spans(hits) == IF hits = <<>> \/ (~op.all /\ Len(hits) > 1) THEN {}
                     ELSE {[k \in DOMAIN hits |-> Span(hits[k].start, hits[k].end, ForSpan(t, op.new, hits[k].start, hits[k].end))]}
  IN IF op.old = <<>> \/ Canonical(op.old) = Canonical(op.new) THEN {} ELSE spans(Matches(t, op.old, Mixed(EolsOf(t))))

LineSpan(t, op) ==      \* op: line, old, new
  LET lines == LineTable(t) IN
  IF op.line \notin DOMAIN lines \/ op.old = <<>> \/ ~Includes(TextOf(t, lines[op.line]), Canonical(op.old)) THEN {}
  ELSE LET l == lines[op.line] IN {<<Span(l.start, l.end, RewriteEols(op.new, <<>>, Local(t, op.line, op.line)))>>}

RangeSpan(t, op) ==     \* op: from, to, delete, old, new
  LET lines == LineTable(t)
      actual == FlattenSeq([k \in 1..(op.to - op.from + 1) |->
                  (IF k = 1 THEN <<>> ELSE LF) \o TextOf(t, lines[op.from + k - 1])])
  IN IF op.to < op.from \/ op.from \notin DOMAIN lines \/ op.to \notin DOMAIN lines \/ (op.old = <<>> /\ op.to - op.from >= 5) THEN {}
     ELSE IF op.old # <<>> /\ ~Includes(actual, Canonical(op.old)) THEN {}
     ELSE LET a == lines[op.from]  z == lines[op.to] IN
          IF op.delete THEN {<<Span(a.start, z.eolEnd, <<>>)>>}
          ELSE {<<Span(a.start, z.end, RewriteEols(op.new, Inside(t, a.start, z.end), Local(t, op.from, op.to)))>>}

Closed(t, eol) == IF Len(t) >= Len(eol) /\ Slice(t, Len(t) - Len(eol), Len(t)) = eol THEN t ELSE t \o eol
InsertSpan(t, op) ==    \* op: at, old, new
  LET lines == LineTable(t)
      anchor == IF op.at = 0 THEN 1 ELSE op.at
      eol == Local(t, anchor, anchor)
      new == RewriteEols(op.new, <<>>, eol)
  IN IF op.at \notin 0..Len(lines) THEN {}
     ELSE IF op.at = 0 THEN {<<Span(0, 0, Closed(new, eol))>>}
     ELSE LET l == lines[op.at] IN
          IF op.old = <<>> \/ ~Includes(TextOf(t, l), Canonical(op.old)) THEN {}
          ELSE IF l.eolEnd > l.end THEN {<<Span(l.eolEnd, l.eolEnd, Closed(new, eol))>>}
          ELSE {<<Span(Len(t), Len(t), (IF t = <<>> THEN <<>> ELSE eol) \o new)>>}

AppendSpan(t, op) ==    \* op: new
  LET lines == LineTable(t)
      ended == t # <<>> /\ t[Len(t)] \in {"r", "n"}
      anchor == IF ended THEN Len(lines) - 1 ELSE Len(lines)
      eol == Local(t, anchor, anchor)
  IN {<<Span(Len(t), Len(t), (IF t # <<>> /\ ~ended THEN eol ELSE <<>>) \o RewriteEols(op.new, <<>>, eol))>>}

(* The old text is looked for within five lines of an anchor.              *)
Reach == 5
AnchorLines(t, op) ==   \* op: near, occurrence, old, new
  LET lines == LineTable(t)
      chosen(hits) == {hits[k].start : k \in {op.occurrence} \cap DOMAIN hits}
      anchors == chosen(Matches(t, op.near, Mixed(EolsOf(t))))
  IN {k \in DOMAIN lines : \E p \in anchors : p \in lines[k].start..lines[k].eolEnd /\ \A j \in 1..(k - 1) : p > lines[j].eolEnd}
SpansNear(t, op, at) ==
  LET lines == LineTable(t)
      lo == IF at - Reach < 1 THEN 0 ELSE lines[at - Reach].start
      hi == IF at + Reach > Len(lines) THEN Len(t) ELSE lines[at + Reach].eolEnd
      only(hits) == IF Len(hits) = 1 THEN {Span(lo + hits[1].start, lo + hits[1].end, op.new)} ELSE {}
  IN {<<[s EXCEPT !.new = ForSpan(t, @, s.start, s.end)]>> : s \in only(Matches(Slice(t, lo, hi), op.old, TRUE))}
NearSpan(t, op) == IF op.old = <<>> THEN {} ELSE UNION {SpansNear(t, op, at) : at \in AnchorLines(t, op)}

SpansOf(t, op) ==
  CASE op.is = "exact" -> ExactSpans(t, op) [] op.is = "line" -> LineSpan(t, op) [] op.is = "range" -> RangeSpan(t, op)
    [] op.is = "insert" -> InsertSpan(t, op) [] op.is = "append" -> AppendSpan(t, op) [] op.is = "near" -> NearSpan(t, op)

-----------------------------------------------------------------------------
(* The operations of one call are replaced together, the last span first.  *)

Spans(t, ops) ==
  FoldLeft(LAMBDA spans, op : {s \o more : s \in spans, more \in SpansOf(t, op)}, {<<>>}, ops)
Orderly(spans, first(_, _)) ==   \* a stable sort
  LET before(i, j) == first(spans[i], spans[j]) \/ (~first(spans[j], spans[i]) /\ i < j)
  IN [k \in DOMAIN spans |-> spans[CHOOSE i \in DOMAIN spans : Cardinality({j \in DOMAIN spans : before(j, i)}) = k - 1]]
Forward(a, b) == a.start < b.start \/ (a.start = b.start /\ a.end < b.end)
Backward(a, b) == a.start > b.start \/ (a.start = b.start /\ a.end > b.end)
Overlap(spans) ==
  LET s == Orderly(spans, Forward) IN \E k \in 2..Len(s) : s[k].start < s[k - 1].end
Apply(t, spans) ==
  FoldLeft(LAMBDA now, s : Slice(now, 0, s.start) \o s.new \o Slice(now, s.end, Len(now)), t, Orderly(spans, Backward))

Edits(t, ops) ==
  LET results == {Apply(t, s) : s \in {s \in Spans(t, ops) : ~Overlap(s)}} IN results \ {t}

-----------------------------------------------------------------------------
(* The same by reference: what is between the spans stays, each span is    *)
(* replaced where it is.                                                   *)
Replaced(t, spans) ==
  LET s == Orderly(spans, Forward)
      gap(k) == Slice(t, IF k = 1 THEN 0 ELSE s[k - 1].end, s[k].start)
  IN FlattenSeq([k \in DOMAIN s |-> gap(k) \o s[k].new]) \o Slice(t, s[Len(s)].end, Len(t))
=============================================================================
