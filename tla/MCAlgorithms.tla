---------------------------- MODULE MCAlgorithms ----------------------------
EXTENDS Algorithms

(* Texts                                                                  *)
UpTo(S, n) == UNION {[1..k -> S] : k \in 0..n}
Source == UpTo({"x", "r", "n"}, 4)
New == UpTo({"x", "n"}, 2)

Exact(old, new, all) == [is |-> "exact", old |-> old, new |-> new, all |-> all]
LineOf(k, new) == [is |-> "line", line |-> k, old |-> <<"x">>, new |-> new]
RangeOf(a, b, delete, new) == [is |-> "range", from |-> a, to |-> b, delete |-> delete, old |-> <<>>, new |-> new]
Insert(at, old, new) == [is |-> "insert", at |-> at, old |-> old, new |-> new]
Near(k, old, new) == [is |-> "near", near |-> <<"x">>, occurrence |-> k, old |-> old, new |-> new]

Operations ==
  {Exact(old, new, all) : old \in UpTo({"x", "r", "n"}, 2) \ {<<>>}, new \in {<<>>, <<"y">>, <<"n", "y">>}, all \in BOOLEAN}
  \union {LineOf(k, new) : k \in 1..3, new \in New}
  \union {RangeOf(a, b, d, new) : a, b \in 1..3, d \in BOOLEAN, new \in {<<>>, <<"y">>, <<"n", "y">>}}
  \union {Insert(k, old, new) : k \in 0..3, old \in {<<"x">>, <<>>}, new \in {<<"y">>, <<"y", "n">>}}
  \union {[is |-> "append", new |-> new] : new \in New}
  \union {Near(k, old, <<"n", "y">>) : k \in 1..2, old \in {<<"x">>, <<"x", "n">>}}
Batches ==
  {<<RangeOf(a, a, FALSE, <<"y">>), LineOf(b, new)>> : a, b \in 1..3, new \in {<<"z">>, <<"z", "n">>}}
  \union {<<RangeOf(a, a, FALSE, <<"y">>), RangeOf(b, b, d, <<"z", "n">>)>> : a, b \in 1..3, d \in BOOLEAN}
  \union {<<RangeOf(a, a, FALSE, <<"y">>), Exact(<<"x">>, <<"z">>, FALSE), RangeOf(b, b, FALSE, <<"u">>)>> : a, b \in 1..3}
MCEditCases ==
  {[text |-> t, ops |-> <<op>>] : t \in Source, op \in Operations} \union {[text |-> t, ops |-> ops] : t \in Source, ops \in Batches}

MCHealCases ==
  {[before |-> b, after |-> a] : b \in UpTo({"x", "r", "n"}, 4), a \in UpTo({"x", "y", "n"}, 3)}
  \union {[before |-> <<"x", "r", "n", "y", "n", "z", "n">>, after |-> a] :
            a \in {<<"y", "n", "z", "n">>, <<"y", "n", "z", "n", "u", "n">>, <<"x", "n", "u", "n", "y", "n", "z">>}}

MCLooser == LET as(a, b, c, d) == ("a" :> a) @@ ("a " :> b) @@ (" a" :> c) @@ ("~a" :> d) @@ ("" :> "") @@ ("b" :> "b") IN
  <<as("a", "a ", " a", "~a"), as("a", "a", " a", "~a"), as("a", "a", "a", "~a"), as("a", "a", "a", "a")>>

L(kind, text, lead) == [kind |-> kind, text |-> text, lead |-> lead]
MCPatchLines ==
  {L(kind, "", FALSE) : kind \in {"begin", "env", "end", "add", "delete", "update", "move", "@@", "eof", "", "junk"}}
  \union {L("end", "b", TRUE), L("@@ ", "a", FALSE), L(" ", "a", FALSE), L(" ", "", FALSE), L("-", "a", FALSE), L("-", "b", FALSE),
          L("+", "b", FALSE)}

FileOf(texts, eols, last) == [k \in DOMAIN texts |-> [text |-> texts[k], eol |-> IF k = Len(texts) /\ ~last THEN NoEol ELSE eols[k]]]
MCFilesToPatch ==
  {FileOf(texts, eols, last) :
     texts \in {<<>>, <<"a">>, <<"b", "a ">>, <<"b", "a", "b">>, <<" a", "b", "~a">>, <<"a", "", "a">>},
     eols \in {<<CRLF, LF, CRLF>>, <<LF, CRLF, CRLF>>}, last \in BOOLEAN}

-----------------------------------------------------------------------------
(* JSON documents                                                         *)
One == Leaf("number", "1")
Str == Leaf("string", "s")
Half == Leaf("number", "1.5")
O(keys, vals) == Obj(keys, [k \in ToSet(keys) |-> vals[CHOOSE i \in DOMAIN keys : keys[i] = k]])
Empty == {Arr(<<>>), Obj(<<>>, <<>>)}
Flat == Empty \union {Arr(<<x>>) : x \in {One, Str}} \union {Arr(<<One, x>>) : x \in {Half, Str}}
              \union {O(<<"a">>, <<x>>) : x \in {One, Null}} \union {O(<<"0">>, <<Str>>), O(<<"a", "b">>, <<One, Str>>), O(<<"b", "a">>, <<Str, One>>)}
Odd == "9007199254740993"
MCDocuments ==
  {One, Str} \union Flat \union {Arr(<<x>>) : x \in Flat} \union {O(<<"a">>, <<x>>) : x \in Flat}
  \union {Arr(<<x, y>>) : x \in Empty, y \in {Arr(<<One>>), O(<<"a", "b">>, <<One, Str>>)}} \union {Arr(<<O(<<"a">>, <<One>>), O(<<"a", "b">>, <<Str, One>>)>>)}
  \union {O(<<"b", "a">>, <<Arr(<<One, Str>>), O(<<"a">>, <<Arr(<<Str>>)>>)>>), O(<<"0", "a">>, <<Arr(<<Str>>), One>>),
          Arr(<<O(<<"a">>, <<One>>), O(<<"b">>, <<One>>), O(<<"a", "b">>, <<One, Arr(<<>>)>>)>>)}
  \union {Arr(<<One, One, One, Str>>), O(<<"a", "b", "c">>, <<One, Str, Null>>), O(<<"1", "01">>, <<One, Str>>),
          O(<<"a", "01", Large, Odd>>, <<One, Arr(<<One>>), Str, One>>)}

Tokens == {"a", "b", "0", "1"}
Paths == {<<>>} \union {<<k>> : k \in Tokens \union {"2", "-"}} \union {<<j, k>> : j \in Tokens, k \in Tokens \union {"-"}} \union {<<"a", "a", "0">>}
         \union {<<"01">>, <<"a", "01">>, <<"01", "0">>, <<Large>>, <<Odd>>}
MCPatchOps ==
  {[is |-> is, from |-> <<>>, path |-> p, value |-> v] : is \in {"add", "replace", "test"}, p \in Paths, v \in {Str, Arr(<<One>>), O(<<"a", "b">>, <<One, Str>>)}}
  \union {[is |-> "remove", from |-> <<>>, path |-> p] : p \in Paths}
  \union {[is |-> is, from |-> f, path |-> p] : is \in {"copy", "move"}, f \in {<<"a">>, <<"0">>, <<"1">>, <<"a", "0">>, <<"0", "a">>, <<"01">>}, p \in Paths}
MCSearches == {[text |-> t, type |-> y, max |-> m, depth |-> d] : t \in {"a", "s", "0", "x"}, y \in {"array", "none"}, m \in {1, 9}, d \in {1, 3}}
MCScaffoldLimits == [nodes : {1, 3, 9}, depth : {1, 3}, keys : {1, 2}, items : {1, 3}]

-----------------------------------------------------------------------------
(* Archives                                                               *)
F(size, deflated, text) == [size |-> size, deflated |-> deflated, text |-> text]
D(kids) == [kids |-> kids]
Files == {F(0, 0, Nil), F(3, 2, "t"), F(4, 5, "u"), F(9, 1, "big")}
Deep(f) == D(<<<<"b", D(<<<<"c", D(<<<<"d", f>>>>)>>, <<"e", f>>>>)>>>>)
MCSources ==
  {<<<<"f", f>>>> : f \in Files} \union {<<<<"d", D(<<<<"f", f>>>>)>>>> : f \in Files} \union {<<<<"a", f>>, <<"b", g>>>> : f, g \in Files}
  \union {<<<<"a", Deep(f)>>, <<"z", g>>>> : f, g \in Files} \union {<<<<"d", D(<<>>)>>, <<"a", f>>>> : f \in Files}
  \union {<<<<"a", F(3, 2, "t")>>, <<"a", F(4, 5, "u")>>>>, <<<<"q", D(<<<<"a", Deep(F(3, 2, "t"))>>>>)>>>>}
MCArchiveNames == DOMAIN TarSuffixes \union DOMAIN CompressionExt \union {".zip", ".7z", ".rar", ".txt"}

TarMember(name, link, flag, size, text, as) == [name |-> name, link |-> link, flag |-> flag, size |-> size, text |-> text, as |-> as]
TarMemberOf(as) ==
  {TarMember(n, <<>>, "0", f.size, f.text, as) : n \in {<<"a">>, <<".", "b", "c">>, <<"p", "q", "r">>}, f \in {F(0, 0, Nil), F(3, 0, "t"), F(4, 0, "u")}}
  \union {TarMember(<<"d", "">>, <<>>, "5", 0, Nil, as), TarMember(<<"l">>, <<"a">>, "1", 0, Nil, as)}
  \union (IF as = "ustar" THEN {} ELSE {TarMember(<<"p", "q", "m">>, <<"x", "y", "z">>, "2", 0, Nil, as)})
MCTarMembers ==
  LET all == UNION {TarMemberOf(as) : as \in {"gnu", "pax", "ustar"}} IN
  {<<m, n>> : m, n \in all} \union {<<m, n, m>> : m \in TarMemberOf("gnu"), n \in TarMemberOf("pax")} \union {<<m>> : m \in all}

ZipMember(name, size, comp) == [name |-> name, link |-> <<>>, flag |-> "0", size |-> size, comp |-> comp, text |-> IF comp = 0 THEN Nil ELSE ToString(<<name, size>>)]
ZipMembersOf == {ZipMember(n, s[1], s[2]) : n \in {<<"a">>, <<"b", "c">>}, s \in {<<0, 0>>, <<3, 2>>, <<900, 5>>, <<900, 900>>, <<1200, 900>>}}
MCZipMembers == UNION {[1..k -> ZipMembersOf] : k \in 1..3}

-----------------------------------------------------------------------------
(* Pages and cuts                                                         *)
SeqsUpTo(S, n) == UNION {[1..k -> S] : k \in 0..n}
MCTextFiles == SeqsUpTo(SeqsUpTo({1, 3}, 3) \union {<<3, 3, 3, 3, 1>>, <<1, 3, 1, 3, 3, 1, 4, 4>>}, 2) \union {<<<<>>, <<3, 3, 3>>, <<1>>>>, <<<<1>>, <<>>, <<>>, <<4>>>>}
Match(dir, ignored, name, lines) == [dir |-> dir, ignored |-> ignored, name |-> name, lines |-> lines]
FileIn(k, lines) == Match(FALSE, FALSE, <<<<k, 2>>>>, [i \in DOMAIN lines |-> <<10 * k + i, lines[i]>>])
FolderIn(k, ignored, kids) == Match(TRUE, ignored, <<<<k, 3>>>>, kids)
MCTrees ==
  {<<FolderIn(1, i, <<FileIn(2, a), FolderIn(3, j, <<FileIn(4, b)>>)>>), FileIn(5, b), FolderIn(6, FALSE, <<FileIn(7, a)>>)>> :
     i, j \in BOOLEAN, a, b \in {<<>>, <<3>>, <<1, 6, 2>>}} \union {<<>>}
MCLists == SeqsUpTo({1, 3, 7}, 4) \union {<<1, 8, 1>>}
MCOutputs == SeqsUpTo({0, 1, 2, 5}, 3)

-----------------------------------------------------------------------------
(* Models and variants                                                    *)
Ids == {"gpt-5", "GPT-5", "gpt-5-mini", "Big Pickle", "x"}
ProviderNames == {"opencode-go", "opencode", "acme", "Acme", ""}
VariantNames == {"default", "base", "high", "HIGH", "x-high", "xhigh", "extra high", "max", "maximum", "off", "none", "odd"}
MCLower ==
  [s \in (Ids \union ProviderNames \union VariantNames \union {"big pickle"}) \ {"GPT-5", "Acme", "HIGH", "Big Pickle"} |-> s]
  @@ ("GPT-5" :> "gpt-5") @@ ("Acme" :> "acme") @@ ("HIGH" :> "high") @@ ("Big Pickle" :> "big pickle")
MCSqueezed ==
  [s \in VariantNames \ {"HIGH", "x-high", "extra high"} |-> s] @@ ("HIGH" :> "high") @@ ("x-high" :> "xhigh") @@ ("extra high" :> "extrahigh")
MCWords ==
  [s \in Ids |-> CASE s \in {"gpt-5", "GPT-5"} -> {"gpt"} [] s = "gpt-5-mini" -> {"gpt", "mini"} [] s = "Big Pickle" -> {"big", "pickle"} [] OTHER -> {}]
  @@ ("big gpt mini" :> {"big", "gpt", "mini"}) @@ ("big pickle" :> {"big", "pickle"}) @@ ("" :> {})
MCLowerAll == MCLower @@ ("big gpt mini" :> "big gpt mini")
Route(p, id, name) == [provider |-> p, id |-> id, name |-> name, words |-> MCWords[id] \union (IF name = "" THEN {} ELSE MCWords[name])]
Routes ==
  LET of == {"opencode-go", "opencode", "acme"} IN
  {Route(p, id, "") : p \in of, id \in {"gpt-5", "GPT-5"}} \union {Route(p, id, name) : p \in of, id \in {"gpt-5-mini", "x"}, name \in {"", "Big Pickle"}}
MCCatalogs == {{}} \union {{a, b, c} : a, b, c \in Routes}
MCReferences == {"gpt-5", "GPT-5", "Big Pickle", "big pickle", "big gpt mini", "gpt-5-mini", ""}
MCPublished == {<<>>, <<"high", "HIGH">>, <<"high", "max">>, <<"x-high", "xhigh">>, <<"xhigh", "none">>, <<"maximum", "default", "odd">>, <<"base", "x-high">>}

-----------------------------------------------------------------------------
(* Tests                                                                   *)
Test(name, outcome) == [name |-> name, suite |-> FALSE, outcome |-> outcome, kids |-> <<>>]
Suite(name, suite, kids) == [name |-> name, suite |-> suite, kids |-> kids,
  outcome |-> IF \E i \in DOMAIN kids : kids[i].outcome = "failed" THEN "failed" ELSE "passed"]
Tests == {Test(n, o) : n \in {"a", "b"}, o \in {"passed", "failed", "skipped"}}
MCTestTrees ==
  {<<>>} \union {<<t>> : t \in Tests} \union {<<Suite("b", TRUE, <<t, u>>)>> : t, u \in Tests}
  \union {<<Suite("b", TRUE, <<t>>), u>> : t \in {Test(n, o) : n \in {"a", "fail", "pass"}, o \in {"passed", "skipped"}},
                                             u \in {Test(n, o) : n \in {"a", "fail"}, o \in {"todo", "unfinished", "passed", "skipped"}}}
  \union {<<t, Suite(n, s, <<Suite("b", r, <<t>>), u>>), Suite("b", TRUE, <<>>)>> : n \in {"a", "b"}, s, r \in BOOLEAN, t \in Tests, u \in {Test("a", "passed"), Test("b", "failed")}}
MCPrinted == {<<>>, <<{"FAIL"}>>, <<{"PASS"}, {}>>}
File(dirs, base) == [dirs |-> dirs, base |-> base]
MCFileOrder ==
  <<File(<<"__tests__">>, "c.js"), File(<<"__tests__">>, "notes.md"), File(<<>>, "a.test.ts"), File(<<"dist">>, "a.test.ts"),
    File(<<"src">>, "a.test.ts"), File(<<"test">>, "a.test.ts"), File(<<"test">>, "c.js"), File(<<>>, "test-b.js")>>
MCTestFiles == SUBSET ToSet(MCFileOrder)
FolderWith(configs, package, lock, imports) == [configs |-> configs, package |-> package, lock |-> lock, imports |-> imports]
Packages == {{}} \union {{[script |-> s, deps |-> d]} : s \in {{}, {"node"}, {"jest"}}, d \in {{}, {"vitest"}, {"mocha", "ava"}}}
MCFolders ==
  LET all == {FolderWith(c, p, l, i) : c \in {<<>>, <<"jest", "vitest">>}, p \in Packages, l, i \in BOOLEAN} IN
  {<<FolderWith(<<>>, {}, FALSE, FALSE), FolderWith(<<>>, p, FALSE, FALSE), FolderWith(<<"ava">>, {}, FALSE, FALSE)>> : p \in Packages}
  \union {<<d, e>> : d \in all, e \in {f \in all : ~f.lock /\ f.configs = <<>>}}
=============================================================================
