------------------------------ MODULE JsonDoc -------------------------------
(***************************************************************************)
(* What the JSON tool makes of a document (json/core.ts): patches,         *)
(* differences, paths and inferred schemas.                                *)
(*                                                                         *)
(* A document is a leaf, an array, or an object, whose keys have an order. *)
(* A key is a string; some are made of digits, and some of those are not   *)
(* how the number they are read as is written.  An operation that is       *)
(* refused has no result.  Which keys are forbidden, the limit on the      *)
(* number of differences and all wording are left out.                     *)
(***************************************************************************)
EXTENDS Integers, Sequences, FiniteSets, SequencesExt, Asks

Leaf(type, v) == [type |-> type, val |-> v]
Arr(s) == [arr |-> s]
Obj(keys, of) == [keys |-> keys, of |-> of]
Null == Leaf("null", "null")
IsArr(v) == "arr" \in DOMAIN v
IsObj(v) == "of" \in DOMAIN v
TypeOf(v) == IF IsArr(v) THEN "array" ELSE IF IsObj(v) THEN "object" ELSE v.type

CONSTANTS SchemaItems, SchemaKeys   \* how many a schema looks at in each array and object

ASSUME JsonDocAssumption == SchemaItems \in Nat /\ SchemaKeys \in Nat

Numerals == <<"0", "1", "2", "3">>          \* the places in an array
Large == "9007199254740992"                 \* 2^53
Respelled == ("01" :> "1") @@ ("9007199254740993" :> Large)
Numeral(k) == k \in ToSet(Numerals) \union {Large} \union DOMAIN Respelled
NumberOf(k) == IF k \in ToSet(Numerals) THEN (CHOOSE i \in DOMAIN Numerals : Numerals[i] = k) - 1 ELSE 2^30
\* A token of digits becomes a number, and that the key it is written as.
PointerToTokens(path) == [i \in DOMAIN path |-> IF path[i] \in DOMAIN Respelled THEN Respelled[path[i]] ELSE path[i]]
Keys(v) == IF IsObj(v) THEN DOMAIN v.of ELSE IF IsArr(v) THEN {Numerals[i] : i \in DOMAIN v.arr} ELSE {}
KeySeq(v) == IF IsObj(v) THEN v.keys ELSE IF IsArr(v) THEN SubSeq(Numerals, 1, Len(v.arr)) ELSE <<>>
Child(v, k) == IF IsArr(v) THEN v.arr[NumberOf(k) + 1] ELSE v.of[k]

\* An assignment to a property; an object keeps its numerals first and in
\* order, what is no element of an array is lost when the document is written.
Inserted(keys, k) ==
  LET first(j) == j \in ToSet(Numerals) /\ k \in ToSet(Numerals) => NumberOf(j) < NumberOf(k)
      earlier == SelectSeq(keys, LAMBDA j : (k \in ToSet(Numerals) => j \in ToSet(Numerals)) /\ first(j))
  IN earlier \o <<k>> \o SelectSeq(keys, LAMBDA j : j \notin ToSet(earlier))
Put(v, k, x) ==
  IF IsArr(v) /\ k \notin ToSet(Numerals) THEN v
  ELSE IF IsArr(v) THEN LET n == IF Len(v.arr) > NumberOf(k) THEN Len(v.arr) ELSE NumberOf(k) + 1 IN
                   Arr([i \in 1..n |-> IF i = NumberOf(k) + 1 THEN x ELSE IF i \in DOMAIN v.arr THEN v.arr[i] ELSE Null])
  ELSE Obj(IF k \in DOMAIN v.of THEN v.keys ELSE Inserted(v.keys, k),
           [j \in DOMAIN v.of \union {k} |-> IF j = k THEN x ELSE v.of[j]])

-----------------------------------------------------------------------------
(* A patch.  op: is, path, and value (add, replace, test) or from (copy,   *)
(* move); a path is a sequence of keys.                                    *)

RECURSIVE Get(_, _)
Get(v, path) ==
  IF path = <<>> THEN {v} ELSE IF Head(path) \notin Keys(v) THEN {} ELSE Get(Child(v, Head(path)), Tail(path))

\* splice: a position that is no number is the first, one too far the end
IndexFor(v, k) == IF ~Numeral(k) THEN 0 ELSE IF NumberOf(k) > Len(v.arr) THEN Len(v.arr) ELSE NumberOf(k)
\* Mutant: the element takes the place of the one there.
Overwrites(v, k, x) ==
  IF IsArr(v) THEN IF k = "-" THEN {Arr(Append(v.arr, x))} ELSE {Put(v, k, x)}
  ELSE IF IsObj(v) THEN {Put(v, k, x)} ELSE {}
Added(v, k, x) ==
  IF IsArr(v) THEN IF k = "-" THEN {Arr(Append(v.arr, x))} ELSE {Arr(InsertAt(v.arr, IndexFor(v, k) + 1, x))}
  ELSE IF IsObj(v) THEN {Put(v, k, x)} ELSE {}
Without(v, k) ==
  IF IsArr(v) THEN IF IndexFor(v, k) < Len(v.arr) THEN Arr(RemoveAt(v.arr, IndexFor(v, k) + 1)) ELSE v
  ELSE IF k \in Keys(v) THEN Obj(SelectSeq(v.keys, LAMBDA j : j # k), [j \in DOMAIN v.of \ {k} |-> v.of[j]]) ELSE v
Changed(v, k, op) ==
  CASE op.is = "add" -> Added(v, k, op.value)
    [] op.is = "replace" -> IF k \in Keys(v) THEN {Put(v, k, op.value)} ELSE {}
    [] op.is = "remove" -> {Without(v, k)}
RECURSIVE Within(_, _, _)
Within(v, path, op) ==      \* an addition makes what is missing on its way
  IF path = <<>> THEN {}
  ELSE IF Len(path) = 1 THEN Changed(v, path[1], op)
  ELSE LET k == path[1]
           missing == IF op.is = "add" /\ (IsArr(v) \/ IsObj(v)) THEN {IF Numeral(path[2]) THEN Arr(<<>>) ELSE Obj(<<>>, <<>>)} ELSE {}
           next == IF k \in Keys(v) THEN {Child(v, k)} ELSE missing
       IN UNION {{Put(v, k, x) : x \in Within(c, Tail(path), op)} : c \in {c \in next : IsArr(c) \/ IsObj(c)}}
Applied(v, op) ==
  LET path == PointerToTokens(op.path)  from == PointerToTokens(op.from) IN
  CASE op.is = "test" -> {x \in {v} : Get(v, path) = {op.value}}
    [] op.is = "copy" -> UNION {Within(v, path, [is |-> "add", value |-> x]) : x \in Get(v, from)}
    [] op.is = "move" -> UNION {UNION {Within(rest, path, [is |-> "add", value |-> x]) : rest \in Within(v, from, [is |-> "remove"])}
                                  : x \in Get(v, from)}
    [] OTHER -> Within(v, path, op)
JsonPatch(v, ops) == FoldLeft(LAMBDA S, op : UNION {Applied(x, op) : x \in S}, {v}, ops)

-----------------------------------------------------------------------------
(* Differences.  Each names where it is.                                   *)

RECURSIVE Diff(_, _, _)
Diff(a, b, at) ==
  IF TypeOf(a) # TypeOf(b) THEN {[kind |-> "type", at |-> at]}
  ELSE IF ~IsArr(a) /\ ~IsObj(a) THEN {[kind |-> "changed", at |-> at] : v \in {a.val} \ {b.val}}
  ELSE UNION {IF k \notin Keys(a) THEN {[kind |-> "added", at |-> Append(at, k)]}
              ELSE IF k \notin Keys(b) THEN {[kind |-> "removed", at |-> Append(at, k)]}
              ELSE Diff(Child(a, k), Child(b, k), Append(at, k)) : k \in Keys(a) \union Keys(b)}

-----------------------------------------------------------------------------
(* The schema of a document, of which only the first elements and keys are *)
(* looked at.  The elements of an array are merged into one; two types     *)
(* that are not the same single type become a union that says no more.     *)

Whole == {"1"}      \* the numbers that are integers
SchemaType(v) == IF TypeOf(v) = "number" /\ v.val \in Whole THEN "integer" ELSE TypeOf(v)
NoSchema == [types |-> {"none"}]
Schema(types, one, props, required, items) == [types |-> types, one |-> one, props |-> props, required |-> required, items |-> items]
Union(types) == Schema(types, FALSE, <<>>, {}, NoSchema)
AnySchema == Schema({}, TRUE, <<>>, {}, NoSchema)
RECURSIVE MergeSchemas(_, _)
MergeSchemas(a, b) ==
  IF a = NoSchema THEN b ELSE IF b = NoSchema THEN a
  ELSE IF ~a.one \/ ~b.one \/ a.types # b.types THEN Union(a.types \union b.types)
  ELSE IF a.types = {"object"}
       THEN LET both == DOMAIN a.props \cap DOMAIN b.props IN
            Schema({"object"}, TRUE,
                   [k \in DOMAIN a.props \union DOMAIN b.props |->
                      IF k \in both THEN MergeSchemas(a.props[k], b.props[k]) ELSE IF k \in DOMAIN a.props THEN a.props[k] ELSE b.props[k]],
                   (a.required \union b.required) \cap both, NoSchema)
  ELSE IF a.types = {"array"}
       THEN LET items == MergeSchemas(a.items, b.items) IN
            Schema({"array"}, TRUE, <<>>, {}, IF items = NoSchema THEN AnySchema ELSE items)
  ELSE a
First(s, n) == SubSeq(s, 1, IF n < Len(s) THEN n ELSE Len(s))
RECURSIVE Infer(_)
Infer(v) ==
  IF IsArr(v) THEN LET items == FoldLeft(LAMBDA s, x : MergeSchemas(s, Infer(x)), NoSchema, First(v.arr, SchemaItems)) IN
                   Schema({"array"}, TRUE, <<>>, {}, IF items = NoSchema THEN AnySchema ELSE items)
  ELSE IF IsObj(v) THEN LET keys == ToSet(First(v.keys, SchemaKeys)) IN
                        Schema({"object"}, TRUE, [k \in keys |-> Infer(v.of[k])], keys, NoSchema)
  ELSE Schema({SchemaType(v)}, TRUE, <<>>, {}, NoSchema)

-----------------------------------------------------------------------------
(* A search: the places where a key or a leaf holds the text, or that have *)
(* the type, in the order of the document.  A hit's path writes a numeral  *)
(* as an index, whatever it is a key of.  q: text, type, max, depth.       *)

PathFor(at) == [i \in DOMAIN at |-> <<IF Numeral(at[i]) THEN "index" ELSE "key", at[i]>>]
PointerFor(at) == IF at = <<>> THEN <<"">> ELSE at
RECURSIVE AtPath(_, _)
AtPath(v, path) ==
  IF path = <<>> THEN {v}
  ELSE LET k == path[1][2] IN
       IF k \in Keys(v) /\ (path[1][1] = "index" => IsArr(v)) THEN AtPath(Child(v, k), Tail(path)) ELSE {}
Hits(v, q, at) ==
  \/ at # <<>> /\ at[Len(at)] = q.text
  \/ ~IsArr(v) /\ ~IsObj(v) /\ v.val = q.text
  \/ TypeOf(v) = q.type
RECURSIVE Search(_, _, _, _)
Search(v, q, at, found) ==
  IF Len(found) >= q.max THEN found
  ELSE LET here == IF Hits(v, q, at) THEN <<[path |-> PathFor(at), pointer |-> PointerFor(at)]>> ELSE <<>>
           below == IF Len(at) >= q.depth THEN <<>> ELSE KeySeq(v)
       IN FoldLeft(LAMBDA f, k : Search(Child(v, k), q, Append(at, k), f), found \o here, below)

-----------------------------------------------------------------------------
(* A scaffold: a row for each of the first nodes of the document, and rows *)
(* that say where and how much was left out.  l: nodes, depth, keys, items.*)

Row(of, at, n) == [row |-> of, at |-> at, count |-> n]
LimitOf(v, l) == IF IsArr(v) THEN l.items ELSE l.keys
Hidden(v, l, at) ==
  IF Len(KeySeq(v)) > LimitOf(v, l) THEN <<Row("hidden", at, Len(KeySeq(v)) - LimitOf(v, l))>> ELSE <<>>
RECURSIVE Scaffold(_, _, _, _)
Scaffold(v, l, at, s) ==
  IF s.nodes >= l.nodes
  THEN [s EXCEPT !.truncated = @ + 1, !.rows = IF s.truncated = 0 THEN Append(@, Row("truncated", at, 0)) ELSE @]
  ELSE LET here == [s EXCEPT !.nodes = @ + 1, !.rows = Append(@, Row("node", at, 0))]
           shown == First(KeySeq(v), LimitOf(v, l))
       IN IF ~IsArr(v) /\ ~IsObj(v) THEN here
          ELSE IF Len(at) >= l.depth THEN [here EXCEPT !.rows = Append(@, Row("deep", at, 0))]
          ELSE LET below == FoldLeft(LAMBDA t, k : Scaffold(Child(v, k), l, Append(at, k), t), here, shown) IN
               [below EXCEPT !.rows = @ \o Hidden(v, l, at)]

-----------------------------------------------------------------------------
(* The same by reference.  An operation of the standard, where what it     *)
(* names is there and the tool does not refuse it on purpose (the root),   *)
(* changes one container and leaves everything else.                       *)

RECURSIVE Same(_, _)        \* the order of keys does not matter
Same(a, b) ==
  /\ TypeOf(a) = TypeOf(b) /\ Keys(a) = Keys(b)
  /\ IF IsArr(a) \/ IsObj(a) THEN \A k \in Keys(a) : Same(Child(a, k), Child(b, k)) ELSE a.val = b.val

RECURSIVE Names(_, _, _)    \* a place that is there, or could be (adds)
Names(v, path, adds) ==
  LET k == Head(path) IN
  IF path = <<>> THEN ~adds
  ELSE IF Len(path) > 1 \/ ~adds THEN k \in Keys(v) /\ (Len(path) > 1 => Names(Child(v, k), Tail(path), adds))
  ELSE IsObj(v) \/ (IsArr(v) /\ (k = "-" \/ (Numeral(k) /\ NumberOf(k) <= Len(v.arr))))

Takes(p, k, op, q) ==       \* the container p becomes q
  LET n == IF k = "-" THEN Len(p.arr) ELSE NumberOf(k)
      after == IF op.is = "add" THEN n + 1 ELSE n + 2
      new == IF op.is = "remove" THEN <<>> ELSE <<op.value>>
      keys == IF op.is = "remove" THEN Keys(p) \ {k} ELSE Keys(p) \union {k}
  IN IF IsArr(p) THEN IsArr(q) /\ q.arr = SubSeq(p.arr, 1, n) \o new \o SubSeq(p.arr, after, Len(p.arr))
     ELSE IsObj(q) /\ Keys(q) = keys /\ \A j \in keys : q.of[j] = IF j = k THEN op.value ELSE p.of[j]
RECURSIVE Becomes(_, _, _, _)
Becomes(v, path, op, r) ==
  IF Len(path) = 1 THEN Takes(v, path[1], op, r)
  ELSE /\ TypeOf(v) = TypeOf(r) /\ Keys(v) = Keys(r)
       /\ \A j \in Keys(v) \ {path[1]} : Child(r, j) = Child(v, j)
       /\ Becomes(Child(v, path[1]), Tail(path), op, Child(r, path[1]))

Beneath(p, q) == Len(p) < Len(q) /\ SubSeq(q, 1, Len(p)) = p
AsWritten(path) == PointerToTokens(path) = path
AsStandard(v, op, results) ==
  AsWritten(op.path) /\ AsWritten(op.from) =>
  CASE op.is = "test" ->    \* the tool also minds the order of keys
         /\ results \subseteq {v}
         /\ results # {} => \A x \in Get(v, op.path) : Same(x, op.value)
         /\ (\E x \in Get(v, op.path) : x = op.value) => results # {}
    [] op.is \in {"add", "replace", "remove"} ->
         op.path # <<>> /\ Names(v, op.path, op.is = "add") => \E r \in results : Becomes(v, op.path, op, r)
    [] op.is = "copy" ->
         op.from # <<>> /\ op.path # <<>> /\ Names(v, op.from, FALSE) /\ Names(v, op.path, TRUE) =>
           \E r \in results, x \in Get(v, op.from) : Becomes(v, op.path, [is |-> "add", value |-> x], r)
    [] op.is = "move" ->
         op.from # <<>> /\ op.path # <<>> /\ Names(v, op.from, FALSE) /\ ~Beneath(op.from, op.path) =>
           \A x \in Get(v, op.from), rest \in Within(v, op.from, [is |-> "remove"]) :
             Names(rest, op.path, TRUE) => \E r \in results : Becomes(rest, op.path, [is |-> "add", value |-> x], r)

\* Every place where a and b differ is named, or lies under one that is; nothing else is.
RECURSIVE Places(_)
Places(v) == {<<>>} \union UNION {{<<k>> \o p : p \in Places(Child(v, k))} : k \in Keys(v)}
Locates(a, b, diffs) ==
  /\ \A d \in diffs : d.at \in Places(a) \union Places(b) /\ (d.at \in Places(a) \cap Places(b) =>
                        \A x \in Get(a, d.at), y \in Get(b, d.at) : ~Same(x, y))
  /\ \A p \in Places(a) \union Places(b) :
       (p \notin Places(a) \/ p \notin Places(b) \/ \E x \in Get(a, p), y \in Get(b, p) : ~Same(x, y))
         => \E d \in diffs : Beneath(p, d.at) \/ Beneath(d.at, p) \/ d.at = p

RECURSIVE Admits(_, _, _)
Admits(s, v, strictly) ==
  /\ s.types # {} => SchemaType(v) \in s.types
  /\ s.one /\ IsObj(v) /\ s.types # {} =>
       /\ strictly => s.required \subseteq Keys(v)
       /\ \A k \in Keys(v) : k \in DOMAIN s.props /\ Admits(s.props[k], v.of[k], strictly)
  /\ s.one /\ IsArr(v) /\ s.types # {} => \A i \in DOMAIN v.arr : Admits(s.items, v.arr[i], strictly)

-----------------------------------------------------------------------------
(***************************************************************************)
(* The JSON tool at work: a patch operation on a document, the differences *)
(* of two documents, and the schema, the hits of a search and the scaffold *)
(* of a document.                                                          *)
(***************************************************************************)

CONSTANTS Documents, PatchOps, Searches, ScaffoldLimits

JsonInit ==
  /\ result = {}
  /\ \/ ask \in {[is |-> "jsonPatch", doc |-> d, op |-> op] : d \in Documents, op \in PatchOps}
     \/ ask \in {[is |-> "jsonDiff", doc |-> a, with |-> b] : a, b \in Documents}
     \/ ask \in {[is |-> "jsonSchema", doc |-> d] : d \in Documents}
     \/ ask \in {[is |-> "jsonSearch", doc |-> d, by |-> q] : d \in Documents, q \in Searches}
     \/ ask \in {[is |-> "jsonScaffold", doc |-> d, limits |-> l] : d \in Documents, l \in ScaffoldLimits}

PatchesJson == ask.is = "jsonPatch" /\ Answers(JsonPatch(ask.doc, <<ask.op>>))
DiffsJson == ask.is = "jsonDiff" /\ Answers(Diff(ask.doc, ask.with, <<>>))
InfersSchema == ask.is = "jsonSchema" /\ Answers(Infer(ask.doc))
SearchesJson == ask.is = "jsonSearch" /\ Answers(Search(ask.doc, ask.by, <<>>, <<>>))
SketchesJson == ask.is = "jsonScaffold" /\ Answers(Scaffold(ask.doc, ask.limits, <<>>, [rows |-> <<>>, nodes |-> 0, truncated |-> 0]))
JsonNext == PatchesJson \/ DiffsJson \/ InfersSchema \/ SearchesJson \/ SketchesJson

-----------------------------------------------------------------------------
(* A patch operation that RFC 6902 defines for the document does what the  *)
(* standard says, and changes nothing else.  The exception is a path with  *)
(* a token of digits that is not how its number is written: the code takes *)
(* it for a number and goes to another key.  (core.ts:505-594)             *)
PatchesAsStandard == ask.is = "jsonPatch" => \A r \in result : AsStandard(ask.doc, ask.op, r)

(* What the tool says of a document is so: every difference is named where *)
(* it is, and only those; the schema admits what was looked at of the      *)
(* document, the first elements of its arrays and the first keys of its    *)
(* objects (what it requires is there, unless an array of three objects or *)
(* more was merged); a hit's pointer leads back to a place that matches,   *)
(* unless it is the root's or has digits that are not how their number is  *)
(* written, and so does its path, unless it goes through a key of digits   *)
(* of an object; all hits are named unless the limit was reached; and a    *)
(* scaffold shows, or counts as hidden or truncated, every child of what   *)
(* it shows and does not cut for depth.                                    *)
(* (core.ts:279-328, 409-466, 505-513, 605-694)                            *)
RECURSIVE Looked(_)
Looked(v) ==
  IF IsArr(v) THEN Arr([i \in DOMAIN First(v.arr, SchemaItems) |-> Looked(v.arr[i])])
  ELSE IF IsObj(v) THEN LET keys == First(v.keys, SchemaKeys) IN Obj(keys, [k \in ToSet(keys) |-> Looked(v.of[k])])
  ELSE v
RECURSIVE Merges(_)
Merges(v) == (IsArr(v) /\ Cardinality({i \in DOMAIN v.arr : IsObj(v.arr[i])}) > 2) \/ \E k \in Keys(v) : Merges(Child(v, k))
AtPlace(v, p) == CHOOSE x \in Get(v, p) : TRUE
Leads(v, p) == \A i \in DOMAIN p : Numeral(p[i]) => IsArr(AtPlace(v, SubSeq(p, 1, i - 1)))
FoundWell(v, q, hits) ==
  /\ Len(hits) <= q.max /\ \A i, j \in DOMAIN hits : hits[i] = hits[j] => i = j
  /\ \A h \in ToSet(hits) :
       \E p \in Places(v) : h.pointer = PointerFor(p) /\ Hits(AtPlace(v, p), q, p) /\ (Leads(v, p) => AtPath(v, h.path) = Get(v, p))
         /\ (p # <<>> /\ AsWritten(p) => Get(v, PointerToTokens(h.pointer)) = Get(v, p))
  /\ Len(hits) < q.max => \A p \in Places(v) :
       Len(p) <= q.depth /\ Hits(AtPlace(v, p), q, p) => \E h \in ToSet(hits) : h.pointer = PointerFor(p)
Accounted(v, s) ==
  LET at(kind) == {r \in ToSet(s.rows) : r.row = kind}
      children == UNION {{Append(r.at, k) : k \in Keys(AtPlace(v, r.at))} : r \in {r \in at("node") : ~\E d \in at("deep") : d.at = r.at}}
      hidden == FoldLeft(LAMBDA n, r : IF r.row = "hidden" THEN n + r.count ELSE n, 0, s.rows)
  IN /\ Cardinality(at("node")) = s.nodes
     /\ \A r \in at("node") : r.at \in children \union {<<>>}
     /\ Cardinality(children) + 1 = s.nodes + s.truncated + hidden
     /\ s.truncated > 0 <=> at("truncated") # {}
DescribesDocument ==
  \A r \in result :
    /\ ask.is = "jsonDiff" => Locates(ask.doc, ask.with, r)
    /\ ask.is = "jsonSchema" => Admits(r, Looked(ask.doc), ~Merges(Looked(ask.doc)))
    /\ ask.is = "jsonSearch" => FoundWell(ask.doc, ask.by, r)
    /\ ask.is = "jsonScaffold" => Accounted(ask.doc, r)
=============================================================================
