----------------------------- MODULE TextLines ------------------------------
(***************************************************************************)
(* Lines and their terminators, as the edit tool, the patch tools and the  *)
(* JSON tool see them (edit.ts, text-eol.ts, text-file.ts).                *)
(*                                                                         *)
(* A text is a sequence of characters; "r" and "n" stand for CR and LF,    *)
(* any other character for text.  Offsets count from 0, as in the code.    *)
(***************************************************************************)
EXTENDS Integers, Sequences, FiniteSets, SequencesExt

CRLF == <<"r", "n">>
LF == <<"n">>
CR == <<"r">>
NoEol == <<>>
Eols == <<CRLF, LF, CR>>

Slice(t, from, to) == SubSeq(t, from + 1, to)          \* t.slice(from, to)
Ascending(t, S) == SelectSeq([i \in 1..(Len(t) + 1) |-> i - 1], LAMBDA p : p \in S)   \* a set of offsets in t

-----------------------------------------------------------------------------
(* The lines of a text: where each starts, where its text ends and where   *)
(* its terminator does.  A text that ends in a terminator has an empty     *)
(* last line.                                                              *)

Breaks(t) == {i \in DOMAIN t : t[i] = "n" \/ (t[i] = "r" /\ (i = Len(t) \/ t[i + 1] # "n"))}
BreakEnd(t, i) == IF t[i] = "n" /\ i > 1 /\ t[i - 1] = "r" THEN i - 2 ELSE i - 1

LinesAt(t, b) ==
  [k \in 1..(Len(b) + 1) |->
     [start |-> IF k = 1 THEN 0 ELSE b[k - 1],
      end |-> IF k > Len(b) THEN Len(t) ELSE BreakEnd(t, b[k]),
      eolEnd |-> IF k > Len(b) THEN Len(t) ELSE b[k]]]
LineTable(t) == LinesAt(t, Ascending(t, Breaks(t)))
TextOf(t, line) == Slice(t, line.start, line.end)
EolOf(t, line) == Slice(t, line.end, line.eolEnd)

\* Without the empty line after a last terminator.
Physical(t) ==
  LET lines == LineTable(t)  all == [k \in DOMAIN lines |-> [text |-> TextOf(t, lines[k]), eol |-> EolOf(t, lines[k])]] IN
  IF lines[Len(lines)].start = Len(t) THEN Front(all) ELSE all
Render(lines) == FlattenSeq([k \in DOMAIN lines |-> lines[k].text \o lines[k].eol])
EolsOf(t) == LET eols(lines) == [k \in DOMAIN lines |-> EolOf(t, lines[k])] IN eols(LineTable(t))

Endings(eols) == SelectSeq(eols, LAMBDA e : e # NoEol)
Times(eols, e) == Cardinality({k \in DOMAIN eols : eols[k] = e})
(* The terminator used most; the first one seen if it is among those.      *)
Winner(eols) ==
  LET seen == Endings(eols)
      best == {e \in ToSet(seen) : \A f \in ToSet(seen) : Times(seen, f) <= Times(seen, e)}
  IN IF seen[1] \in best THEN seen[1] ELSE Eols[CHOOSE k \in 1..3 : Eols[k] \in best /\ \A j \in 1..(k - 1) : Eols[j] \notin best]
Dominant(eols) == IF Endings(eols) = <<>> THEN NoEol ELSE Winner(eols)
DominantOr(eols, e) == IF Endings(eols) = <<>> THEN e ELSE Winner(eols)
Mixed(eols) == Cardinality(ToSet(Endings(eols))) > 1

-----------------------------------------------------------------------------
(* The terminator of a new line among others: that of the lines it         *)
(* replaces, of its neighbours when they agree, the first of these that    *)
(* there is, the text's own.                                               *)

Before(eols, k) == LET found == {j \in 1..(k - 1) : j \in DOMAIN eols /\ eols[j] # NoEol} IN
                   IF found = {} THEN NoEol ELSE eols[CHOOSE j \in found : \A i \in found : i <= j]
After(eols, k) == LET found == {j \in DOMAIN eols : j >= k /\ eols[j] # NoEol} IN
                  IF found = {} THEN NoEol ELSE eols[CHOOSE j \in found : \A i \in found : j <= i]
FirstOf(choices) == SelectSeq(choices, LAMBDA e : e # NoEol)[1]

\* lines from..to are replaced; from = to + 1 when lines are only inserted
LocalEol(eols, from, to, fallback) ==
  LET here == SubSeq(eols, from, to)  seen == Endings(here)
      before == Before(eols, from)  after == After(eols, to + 1)
      most == {e \in ToSet(seen) : \A f \in ToSet(seen) : Times(seen, f) <= Times(seen, e)}
  IN IF Cardinality(most) = 1 THEN Winner(here)
     ELSE IF before # NoEol /\ before = after THEN before
     ELSE FirstOf(<<IF seen = <<>> THEN NoEol ELSE seen[1], before, after, fallback>>)

(* The k-th terminator of a new text becomes the k-th inherited one.       *)
RewriteEols(t, inherited, fallback) ==
  LET eol(k, own) == IF own = NoEol THEN NoEol ELSE IF k \in DOMAIN inherited THEN inherited[k] ELSE fallback
      rewritten(lines) == [k \in DOMAIN lines |-> TextOf(t, lines[k]) \o eol(k, EolOf(t, lines[k]))]
  IN FlattenSeq(rewritten(LineTable(t)))
Canonical(t) == RewriteEols(t, <<>>, LF)

-----------------------------------------------------------------------------
(* healTextLineEndings: a rewrite of a whole file takes over the           *)
(* terminators of the file it replaces.                                    *)

NearBy(old, k, fallback) ==
  LET eols == [j \in DOMAIN old |-> old[j].eol]  before == Before(eols, k)  after == After(eols, k) IN
  IF before # NoEol /\ before = after THEN before ELSE FirstOf(<<before, after, fallback>>)

(* As many lines as before, or too many to align: equal lines at the start *)
(* and the end keep their terminators, the others take them by position.   *)
CommonPrefix(old, new) ==
  LET same(n) == \A k \in 1..n : old[k].text = new[k].text
  IN CHOOSE n \in 0..Len(old) : n <= Len(new) /\ same(n) /\ (n < Len(old) /\ n < Len(new) => ~same(n + 1))
CommonSuffix(old, new, prefix) ==
  LET most == (IF Len(old) < Len(new) THEN Len(old) ELSE Len(new)) - prefix
      same(n) == \A k \in 0..(n - 1) : old[Len(old) - k].text = new[Len(new) - k].text
  IN CHOOSE n \in 0..most : same(n) /\ (n < most => ~same(n + 1))
Positional(old, new, fallback) ==
  LET prefix == CommonPrefix(old, new)
      suffix == CommonSuffix(old, new, prefix)
      middle == Len(old) - prefix - suffix
      known(k) == IF old[k].eol = NoEol THEN fallback ELSE old[k].eol
      eol(k) ==
        IF k <= prefix THEN known(k)
        ELSE IF k > Len(new) - suffix THEN known(Len(old) - (Len(new) - k))
        ELSE LET source == IF k <= prefix + middle THEN k ELSE prefix + (IF middle = 0 THEN 1 ELSE middle)
             IN IF k <= prefix + middle /\ old[k].eol # NoEol THEN old[k].eol ELSE NearBy(old, source, fallback)
  IN [k \in DOMAIN new |-> [new[k] EXCEPT !.eol = IF @ = NoEol THEN NoEol ELSE eol(k)]]

(* Otherwise the lines are aligned by diffArrays; an alignment is an       *)
(* increasing map of the lines kept, from new to old, as large as there is *)
(* one; between two of them are the lines removed and then those added.    *)
Alignments(old, new) ==
  LET maps == UNION {[ks -> DOMAIN old] : ks \in SUBSET DOMAIN new}
      fits(a) == \A i, j \in DOMAIN a : old[a[i]].text = new[i].text /\ (i < j => a[i] < a[j])
      longest(S) == {a \in S : \A b \in S : Cardinality(DOMAIN b) <= Cardinality(DOMAIN a)}
  IN longest({a \in maps : fits(a)})
Aligned(old, new, a, fallback) ==
  LET kept(k) == {i \in DOMAIN a : i < k}
      last(k) == IF kept(k) = {} THEN 0 ELSE CHOOSE i \in kept(k) : \A j \in kept(k) : j <= i
      from(k) == IF last(k) = 0 THEN 0 ELSE a[last(k)]              \* the last old line kept before
      later(k) == {a[i] : i \in {i \in DOMAIN a : i > k}}
      upto(k) == IF later(k) = {} THEN Len(old) ELSE (CHOOSE i \in later(k) : \A j \in later(k) : i <= j) - 1
      removed(k) == upto(k) - from(k)
      offset(k) == k - last(k)                                      \* 1 for the first line added
      eol(k) ==
        IF k \in DOMAIN a THEN IF old[a[k]].eol # NoEol THEN old[a[k]].eol ELSE NearBy(old, a[k], fallback)
        ELSE IF removed(k) = 0 THEN NearBy(old, from(k) + 1, fallback)
        ELSE LET source == from(k) + (IF offset(k) <= removed(k) THEN offset(k) ELSE removed(k) + 1)
             IN IF offset(k) <= removed(k) /\ old[source].eol # NoEol THEN old[source].eol ELSE NearBy(old, source, fallback)
  IN [k \in DOMAIN new |-> [new[k] EXCEPT !.eol = IF @ = NoEol THEN NoEol ELSE eol(k)]]

Heals(before, after) ==      \* what the rewrite may become, one for each alignment
  LET eols == EolsOf(before)  old == Physical(before)  new == Physical(after) IN
  IF Dominant(eols) = NoEol \/ after = <<>> THEN {after}
  ELSE IF ~Mixed(eols) THEN {RewriteEols(after, <<>>, Dominant(eols))}
  ELSE IF Len(old) = Len(new) THEN {Render(Positional(old, new, Dominant(eols)))}
  ELSE {Render(Aligned(old, new, a, Dominant(eols))) : a \in Alignments(old, new)}
=============================================================================
