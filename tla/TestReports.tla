---------------------------- MODULE TestReports -----------------------------
(***************************************************************************)
(* What the test tool says of a run (test.ts, test-scope.ts): the harness  *)
(* it finds for a directory, the command it runs, and what it makes of the *)
(* report, all of it or what came before a limit.                          *)
(*                                                                         *)
(* A tree of tests is a sequence of nodes [name, suite, outcome, kids]; a  *)
(* test marked as to do has the outcome "todo" when its body passes, and   *)
(* "unfinished" when it does not, which the runner does not mind.  A       *)
(* report is a sequence of lines [is, ...]; fields that nothing looks at   *)
(* are left out.  Numbers in a report have one digit.                      *)
(***************************************************************************)
EXTENDS Integers, Sequences, FiniteSets, SequencesExt, Asks

CONSTANTS TestTrees, Harnesses, Printed,    \* what tests print: sequences of sets of "PASS" and "FAIL"
          Folders,                          \* sequences of directories, upwards
          TestFiles, FileOrder              \* sets of [dirs, base], and all such files, sorted

Nodes == {"vitest", "jest", "mocha", "ava", "playwright"}   \* those that run under node from node_modules
Signals == <<"vitest", "jest", "bun", "node", "mocha", "ava", "playwright">>

-----------------------------------------------------------------------------
(* A directory has configs (a sequence of harnesses), perhaps a package    *)
(* [script, deps], a lock file of bun, and tests that import node:test.    *)

Signalled(d, h) ==
  \/ \E p \in d.package : h \in p.script \/ h \in p.deps
  \/ h = "bun" /\ d.lock
  \/ h = "node" /\ d.imports
DetectIn(d) ==
  LET found == SelectSeq(Signals, LAMBDA h : Signalled(d, h)) IN
  IF d.configs # <<>> THEN {d.configs[1]} ELSE IF found # <<>> THEN {found[1]} ELSE {}
RECURSIVE DetectHarness(_)
DetectHarness(dirs) ==
  IF dirs = <<>> THEN {}
  ELSE IF DetectIn(dirs[1]) # {} \/ dirs[1].package # {} THEN DetectIn(dirs[1])
  ELSE DetectHarness(Tail(dirs))

\* Which report is asked for, and whether into a file; {} is refused.
BuildCommand(h, runtime, installed) ==
  CASE h = "bun" -> IF runtime = "node" THEN {} ELSE {[report |-> "text", file |-> FALSE]}
    [] h = "node" -> IF runtime = "bun" THEN {} ELSE {[report |-> "tap", file |-> FALSE]}
    [] OTHER -> IF h \notin installed THEN {}
                ELSE {[report |-> IF h = "ava" THEN "own" ELSE "json", file |-> h \in {"vitest", "playwright"}]}

-----------------------------------------------------------------------------
(* Parsers.  A case is <<path, outcome>>.                                  *)

Summary(parsed, passed, failed, skipped, tests) ==
  [parsed |-> parsed, passed |-> passed, failed |-> failed, skipped |-> skipped, tests |-> tests]
With(tests, outcome) == SelectSeq(tests, LAMBDA t : t[2] = outcome)
Counted(parsed, tests) == Summary(parsed, Len(With(tests, "passed")), Len(With(tests, "failed")), Len(With(tests, "skipped")), tests)

\* TAP: a test's name stands before it and its result after it, a suite's after all of it.
Flush(s) == [s EXCEPT !.entries = @ \o s.current, !.current = <<>>]
\* Mutant: a result does not end its test.
StaysIn(contexts, name) == contexts
Popped(contexts, name) == IF contexts # <<>> /\ contexts[Len(contexts)] = name THEN Front(contexts) ELSE contexts
Leaves(s) == LET f == Flush(s) IN [f EXCEPT !.contexts = IF @ = <<>> THEN @ ELSE Front(@)]
TapLine(s, line) ==
  CASE line.is = "end" -> Flush(s)
    [] line.is = "subtest" -> LET f == Flush(s) IN [f EXCEPT !.contexts = Append(@, line.name)]
    [] line.is = "point" ->
         LET contexts == Popped(s.contexts, line.name) IN
         [s EXCEPT !.contexts = contexts,
                   !.current = <<[path |-> IF line.name = "" THEN contexts ELSE Append(contexts, line.name),
                                  ok |-> line.ok, skip |-> line.skip, type |-> ""]>>]
    [] line.is = "plan" -> Leaves(s)
    [] line.is = "type" -> [s EXCEPT !.current = IF @ = <<>> THEN @ ELSE <<[@[1] EXCEPT !.type = line.type]>>]
    [] line.is = "foot" -> [s EXCEPT !.foot = [k \in DOMAIN @ |-> IF k = line.key THEN line.n ELSE @[k]]]
    [] OTHER -> s
ParseTap(lines) ==
  LET s == Flush(FoldLeft(TapLine, [contexts |-> <<>>, current |-> <<>>, entries |-> <<>>,
                                    foot |-> [tests |-> 0, pass |-> 0, fail |-> 0, skipped |-> 0]], lines))
      cases == SelectSeq(s.entries, LAMBDA e : e.type # "suite")
      tests == [i \in DOMAIN cases |-> <<cases[i].path, IF cases[i].skip THEN "skipped" ELSE IF cases[i].ok THEN "passed" ELSE "failed">>]
  IN IF ~\E i \in DOMAIN lines : lines[i].is = "version" \/ (lines[i].is = "point" /\ lines[i].top) THEN {}
     ELSE {IF s.foot.tests > 0 \/ s.foot.pass > 0 THEN Summary(TRUE, s.foot.pass, s.foot.fail, s.foot.skipped, tests) ELSE Counted(TRUE, tests)}

ParseBunText(lines) ==
  LET results == SelectSeq(lines, LAMBDA l : l.is = "bun")
      tests == [i \in DOMAIN results |-> <<results[i].path, results[i].outcome>>]
      said(outcome) == SelectSeq(lines, LAMBDA l : l.is = "sum" /\ l.outcome = outcome)
      count(outcome) == IF said(outcome) = <<>> THEN Len(With(tests, outcome)) ELSE said(outcome)[Len(said(outcome))].n
  IN IF With(tests, "passed") \o With(tests, "failed") = <<>> THEN {}
     ELSE {Summary(TRUE, count("passed"), count("failed"), count("skipped"), tests)}

\* The whole of the output is one JSON value, or it is not JSON.
NormalizeStatus(outcome) == IF outcome \in {"passed", "failed"} THEN outcome ELSE "skipped"
ParseJsonReporter(lines) ==
  IF Len(lines) # 1 \/ lines[1].is # "json" THEN {}
  ELSE LET n == lines[1].numbers  cases == lines[1].cases IN
       {Summary(TRUE, n.passed, n.failed, n.pending + n.todo, [i \in DOMAIN cases |-> <<cases[i][1], NormalizeStatus(cases[i][2])>>])}

(* The words "pass" and "fail" wherever a line has them: in a title, in    *)
(* what a test printed, in " 0 fail"; and "not ok 1" holds " ok 1".        *)
LineWords(line) ==
  CASE line.is \in {"text", "json", "bun"} -> line.says
    [] line.is = "sum" -> {w \in {"PASS", "FAIL"} : line.outcome = IF w = "PASS" THEN "passed" ELSE "failed"}
    [] line.is = "point" -> {"PASS"} \union {w \in {"FAIL"} : ~line.ok}
    [] OTHER -> {}
GenericPass(line) == "PASS" \in LineWords(line)
GenericFail(line) == "FAIL" \in LineWords(line)
ParseGeneric(lines) ==
  Summary(FALSE, Len(SelectSeq(lines, GenericPass)), Len(SelectSeq(lines, LAMBDA l : GenericFail(l) /\ ~GenericPass(l))), 0, <<>>)

ParseReporter(lines, h) ==
  LET first(a, b, c) == IF a # {} THEN a ELSE IF b # {} THEN b ELSE c
      parsed == CASE h \in {"vitest", "jest"} -> ParseJsonReporter(lines)
                  [] h = "node" -> ParseTap(lines)
                  [] h = "bun" -> ParseBunText(lines)
                  [] OTHER -> first(ParseJsonReporter(lines), ParseTap(lines), ParseBunText(lines))
  IN IF parsed = {} THEN ParseGeneric(lines) ELSE CHOOSE p \in parsed : TRUE

-----------------------------------------------------------------------------
(* What the runners write.                                                 *)

RECURSIVE Cases(_, _)       \* in the order in which they end
Cases(at, tree) ==
  FlattenSeq([i \in DOMAIN tree |->
    LET path == Append(at, tree[i].name) IN
    Cases(path, tree[i].kids) \o (IF tree[i].suite THEN <<>> ELSE <<<<path, tree[i].outcome>>>>)])
Line(is) == [is |-> is]
RECURSIVE TapLines(_, _)
TapLines(tree, depth) ==
  FlattenSeq([i \in DOMAIN tree |->
    LET t == tree[i] IN
    <<[is |-> "subtest", name |-> t.name]>> \o TapLines(t.kids, depth + 1)
    \o <<[is |-> "point", top |-> depth = 0, name |-> t.name, ok |-> t.outcome \notin {"failed", "unfinished"}, skip |-> t.outcome = "skipped"],
         [is |-> "type", type |-> IF t.suite THEN "suite" ELSE "test"], Line("end")>>])
  \o (IF tree = <<>> THEN <<>> ELSE <<Line("plan")>>)
Numbers(cases) ==
  [passed |-> Len(With(cases, "passed")), failed |-> Len(With(cases, "failed")), pending |-> Len(With(cases, "skipped")),
   todo |-> Len(With(cases, "todo")) + Len(With(cases, "unfinished"))]
Footer(cases) ==
  LET n == Numbers(cases)  foot(key, k) == [is |-> "foot", key |-> key, n |-> k] IN
  <<foot("tests", Len(cases)), foot("pass", n.passed), foot("fail", n.failed), foot("skipped", n.pending)>>
Text(says) == [is |-> "text", says |-> says]
Title(path) == {w \in {"PASS", "FAIL"} : \E i \in DOMAIN path : path[i] = IF w = "PASS" THEN "pass" ELSE "fail"}
Titles(cases) == UNION {Title(cases[i][1]) : i \in DOMAIN cases}
Json(cases) == <<[is |-> "json", says |-> Titles(cases), numbers |-> Numbers(cases), cases |-> cases]>>
BunLine(path, outcome) ==
  IF outcome \in {"todo", "unfinished"} THEN Text(Title(path)) ELSE [is |-> "bun", says |-> Title(path), path |-> path, outcome |-> outcome]
Sums(cases) == LET n == Numbers(cases)  sum(o, k) == [is |-> "sum", outcome |-> o, n |-> k] IN <<sum("passed", n.passed), sum("skipped", n.pending), sum("failed", n.failed)>>
\* What it writes where its report goes; the tests print as well.  mocha's JSON
\* is not the one looked for, and stands on many lines; jest's comes with text.
Output(h, tree, printed) ==
  LET cases == Cases(<<>>, tree) IN
  CASE h = "node" -> <<Line("version")>> \o printed \o TapLines(tree, 0) \o Footer(cases)
    [] h = "bun" -> printed \o [i \in DOMAIN cases |-> BunLine(cases[i][1], cases[i][2])] \o Sums(cases)
    [] h = "jest" -> printed \o <<Text({IF With(cases, "failed") = <<>> THEN "PASS" ELSE "FAIL"})>> \o Json(cases)
    [] h = "mocha" -> printed \o [i \in DOMAIN cases |-> Text(Title(cases[i][1]))]
    [] OTHER -> printed \o <<Text({})>>
(* What may be left of a line that is cut in its middle.                   *)
Torn == "~"         \* a part of a name
TornLines(line) ==
  CASE line.is = "subtest" -> {[line EXCEPT !.name = Torn]}
    [] line.is = "point" -> {[line EXCEPT !.name = n, !.skip = FALSE] : n \in {line.name, Torn, ""}}
    [] line.is = "type" -> {[line EXCEPT !.type = Torn]}
    [] line.is = "bun" -> {[line EXCEPT !.says = w, !.path = <<Torn>>] : w \in SUBSET {"PASS", "FAIL"}}
    [] line.is \in {"text", "json"} -> {Text(w) : w \in SUBSET {"PASS", "FAIL"}}
    [] OTHER -> {}

-----------------------------------------------------------------------------
(* The tool.                                                               *)

(* a: of, harness, printed; why the output ends; how much of it was        *)
(* captured, whole lines and perhaps a part of the next.                   *)
ToFile(h) == \E c \in BuildCommand(h, "auto", Nodes) : c.file
\* The report in the file, if the run got to write one, otherwise what was captured.
Reported(a) == a.why # "timeout" /\ (a.cut = Len(Output(a.harness, a.of, a.printed)) \/ ToFile(a.harness))
Report(a) ==
  IF Reported(a) /\ ToFile(a.harness) THEN Json(Cases(<<>>, a.of)) ELSE SubSeq(Output(a.harness, a.of, a.printed), 1, a.cut) \o a.part
FailurePage(failures, offset) ==
  LET shown == SubSeq(failures, offset + 1, Min({offset + 1, Len(failures)})) IN     \* pages of one
  [shown |-> shown, next |-> IF offset + Len(shown) < Len(failures) THEN {offset + Len(shown)} ELSE {}]
Status(timedOut, summary, exit) == IF timedOut THEN "timed-out" ELSE IF summary.failed > 0 \/ exit # 0 THEN "failed" ELSE "passed"
TestTool(a) ==
  LET summary == ParseReporter(Report(a), a.harness)
      exit == IF a.why = "timeout" \/ With(Cases(<<>>, a.of), "failed") # <<>> THEN 1 ELSE 0
  IN [status |-> Status(a.why = "timeout", summary, exit), summary |-> summary,
      pages |-> [at \in 0..Len(With(summary.tests, "failed")) |-> FailurePage(With(summary.tests, "failed"), at)]]

IsTestFile(h, f) ==
  \/ f.base = "a.test.ts"
  \/ "__tests__" \in ToSet(f.dirs) /\ f.base # "notes.md"
  \/ h = "node" /\ (f.base = "test-b.js" \/ ("test" \in ToSet(f.dirs) /\ f.base \in {"test-b.js", "c.js"}))
  \/ h = "bun" /\ "test" \in ToSet(f.dirs) /\ f.base # "notes.md"
\* The directory that is asked for may itself be one that is passed by.
ListTestFiles(h, files, at) ==
  SelectSeq(FileOrder, LAMBDA f : /\ f \in files /\ IsPrefix(at, f.dirs) /\ IsTestFile(h, f)
                                  /\ "dist" \notin ToSet(SubSeq(f.dirs, Len(at) + 1, Len(f.dirs))))
ListPage(listed, offset, limit) ==
  LET shown == SubSeq(listed, offset + 1, Min({offset + limit, Len(listed)})) IN
  [shown |-> shown, next |-> IF offset + Len(shown) < Len(listed) THEN {offset + Len(shown)} ELSE {}]

TestsInit ==
  /\ result = {}
  /\ \/ \E h \in Harnesses, t \in TestTrees, words \in Printed, why \in {"end", "timeout", "limit"} :
          LET printed == [i \in DOMAIN words |-> Text(words[i])]  all == Output(h, t, printed) IN
          \E cut \in (IF why = "end" THEN {Len(all)} ELSE 0..Len(all)) :
          \E part \in {<<>>} \union (IF cut = Len(all) THEN {} ELSE {<<line>> : line \in TornLines(all[cut + 1])}) :
            ask = [is |-> "tests", of |-> t, harness |-> h, printed |-> printed, why |-> why, cut |-> cut, part |-> part]
     \/ ask \in {[is |-> "harness", of |-> dirs, runtime |-> r, installed |-> i] :
                   dirs \in Folders, r \in {"auto", "bun", "node"}, i \in SUBSET {"vitest", "jest"}}
     \/ ask \in [is : {"list"}, of : TestFiles, harness : Harnesses, at : {<<>>, <<"dist">>}, limit : {1, 2}]
RunsTests == ask.is = "tests" /\ Answers(TestTool(ask))
PicksHarness == ask.is = "harness" /\ Answers([harness |-> DetectHarness(ask.of),
  commands |-> UNION {BuildCommand(h, ask.runtime, ask.installed) : h \in DetectHarness(ask.of)}])
ListsTests == ask.is = "list" /\
  LET listed == ListTestFiles(ask.harness, ask.of, ask.at) IN Answers([at \in 0..Len(listed) |-> ListPage(listed, at, ask.limit)])
TestsNext == RunsTests \/ PicksHarness \/ ListsTests

-----------------------------------------------------------------------------
(* A run is called passed only if it ended and every test of it passed,    *)
(* was skipped or is to be done; and then it is, unless its report was cut *)
(* or is one the tool cannot parse and has the word "fail" on a line that  *)
(* has not "pass", be it in a title, in what a test printed or in bun's    *)
(* "0 fail": jest's beside text, mocha's, and bun's when no test passed or *)
(* failed.  These name no test.  A report that is whole and parsed names   *)
(* every test, and no suite, once, in its place, with its outcome, and     *)
(* counts them; but of the tests to be done bun names and TAP counts none, *)
(* TAP's are given as passed or failed, JSON's as skipped.  One that was   *)
(* cut names no other in that place, but for the last it names, whose name *)
(* or outcome may be cut off, or that may be a suite.  A TAP name is only  *)
(* that good where no suite has the name of the suite it is in, and no     *)
(* test prints what looks like a line of the report.  The harness is one   *)
(* that the nearest directory to say so signals, no further up than the    *)
(* nearest package, and its config beats all.  The pages of the failures,  *)
(* and those of the files, give each of them once, in order.               *)
(* (test-scope.ts:153-191, 386-731, test.ts:66-78, 98-147, 190-194)        *)
RECURSIVE NamedApart(_, _)
NamedApart(parent, tree) == \A i \in DOMAIN tree : (tree[i].kids # <<>> => tree[i].name # parent) /\ NamedApart(tree[i].name, tree[i].kids)
RECURSIVE FollowedFrom(_, _)
FollowedFrom(pages, at) == pages[at].shown \o (IF pages[at].next = {} THEN <<>> ELSE FollowedFrom(pages, CHOOSE n \in pages[at].next : TRUE))
Told(h, cases) ==
  LET told(o) == IF h # "node" THEN NormalizeStatus(o) ELSE IF o = "todo" THEN "passed" ELSE IF o = "unfinished" THEN "failed" ELSE o
      all == [i \in DOMAIN cases |-> <<cases[i][1], told(cases[i][2])>>]
  IN IF h = "bun" THEN SelectSeq(cases, LAMBDA c : c[2] \notin {"todo", "unfinished"}) ELSE all
SaidOf(a, r) ==
  LET cases == Cases(<<>>, a.of)  told == Told(a.harness, cases)  s == r.summary  n == Numbers(cases)  whole == Reported(a)
      unparsed == {"jest", "mocha"} \union {h \in {"bun"} : n.passed + n.failed = 0}
      misleads == \E line \in ToSet(Report(a)) : "FAIL" \in LineWords(line) /\ "PASS" \notin LineWords(line)
  IN
  /\ r.status = "passed" => a.why # "timeout" /\ n.failed = 0
  /\ whole /\ n.failed = 0 => r.status = "passed" \/ (a.harness \in unparsed /\ misleads)
  /\ FollowedFrom(r.pages, 0) = With(s.tests, "failed")
  /\ whole /\ s.parsed => <<s.passed, s.failed, s.skipped>> = <<n.passed, n.failed, n.pending + (IF ToFile(a.harness) THEN n.todo ELSE 0)>>
  /\ whole /\ cases # <<>> => s.parsed \/ a.harness \in unparsed
  /\ s.parsed /\ NamedApart("", a.of) => IF whole THEN s.tests = told ELSE IsPrefix(s.tests, told) \/ IsPrefix(Front(s.tests), told)
HarnessIsNearest(dirs, h) ==
  LET says(d) == d.configs # <<>> \/ \E x \in ToSet(Signals) : Signalled(d, x)
      reach == {i \in DOMAIN dirs : \A j \in 1..(i - 1) : dirs[j].package = {} /\ ~says(dirs[j])}
      nearest == {i \in reach : says(dirs[i])}
  IN /\ h = {} <=> nearest = {}
     /\ \A i \in nearest, x \in h : IF dirs[i].configs # <<>> THEN x \in ToSet(dirs[i].configs) ELSE Signalled(dirs[i], x)
TestsAsReported ==
  \A r \in result :
    /\ ask.is = "tests" => SaidOf(ask, r)
    /\ ask.is = "list" => LET got == FollowedFrom(r, 0) IN
         /\ got = SelectSeq(FileOrder, LAMBDA f : f \in ToSet(got))
         /\ ToSet(got) = {f \in ask.of : IsTestFile(ask.harness, f) /\ (f.dirs = ask.at \/ (ask.at = <<>> /\ f.dirs # <<>> /\ "dist" \notin ToSet(f.dirs)))}
    /\ ask.is = "harness" =>
         /\ HarnessIsNearest(ask.of, r.harness)
         /\ r.commands # {} => r.harness \subseteq {"bun", "node"} \union ask.installed
=============================================================================
