---------------------------- MODULE MCFileTools -----------------------------
EXTENDS FileTools, TLC

A == "a"  B == "b"  D == "d"     \* a is inside d, were d a folder
MCPaths == {A, B, D}
MCInside == {<<A, D>>}
Big == "big"
MCCrlf == ("1" :> "1r") @@ ("2" :> "2r") @@ ("3" :> "3r") @@ ("5" :> "5r")
Hunk(op, p, to, old, new) == [op |-> op, path |-> p, to |-> to, old |-> old, new |-> new]
Add(p, new) == Hunk("add", p, p, "", new)
Delete(p) == Hunk("delete", p, p, "1", "")
Update(p, old, new) == Hunk("update", p, p, old, new)
Move(p, to, old, new) == Hunk("update", p, to, old, new)

Both == {"native", "git"}
Patch(formats, hs) == [kind |-> "patch", formats |-> formats, hunks |-> hs]
Edit(p, old, new) == [kind |-> "edit", path |-> p, old |-> old, new |-> new]
Json(p, old, new) == [kind |-> "json", path |-> p, old |-> old, new |-> new]
ReadOf(p) == [kind |-> "read", path |-> p]
Idle == [kind |-> "none"]

Files(a, b) == (A :> a) @@ (B :> b) @@ (D :> Nowhere)
One == File(<<"1">>)
OneCrlf == File(<<"1r">>)
Large == File(<<"1", Big>>)
Mix(fs, one, two) == [files |-> fs, edited |-> {A, B}, calls |-> <<one, two>>]
Among(d, hs) == [Mix([Files(Nowhere, Nowhere) EXCEPT ![D] = d], Patch(Both, hs), Idle) EXCEPT !.edited = {A, D}]

Member(name, type, to, text) == [name |-> name, type |-> type, to |-> to, text |-> <<text>>, over |-> FALSE, unsafe |-> FALSE]
Plainly(name, text) == Member(name, "file", name, text)
Extract(format, overwrite, members, again) ==
  [kind |-> "extract", format |-> format, overwrite |-> overwrite, members |-> members, again |-> again]
Create(from) == [kind |-> "create", path |-> B, from |-> from]
Archives ==
  {Extract("zip", o, ms, ms) : o \in BOOLEAN, ms \in
     {<<Plainly(A, "8"), Plainly(B, "9"), Plainly(A, "0")>>,
      <<Member(B, "dir", B, ""), [Plainly(A, "8") EXCEPT !.over = TRUE], Plainly(B, "9")>>,
      <<[Plainly(A, "8") EXCEPT !.unsafe = TRUE], Member(B, "corrupt", B, "9")>>}}
  \union {Extract("tar", o, ms, ms) : o \in BOOLEAN, ms \in
     {<<Plainly(A, "8"), Member(B, "link", A, "")>>,
      <<Member(A, "dir", A, ""), Member(B, "link", A, ""), [Plainly(A, "8") EXCEPT !.over = TRUE]>>,
      <<Plainly(B, "8"), Member(A, "link", "c", ""), Plainly(B, "9")>>}}
  \union {Extract(f, FALSE, <<Plainly(A, "8"), Plainly(B, "9")>>, <<Plainly(B, "7")>>) : f \in {"zip", "tar"}}
  \union {Extract("single", o, <<Plainly(A, "8")>>, <<Plainly(A, "8")>>) : o \in BOOLEAN}
  \union {Extract("system", FALSE, <<Plainly(A, "8"), [Plainly(B, "9") EXCEPT !.unsafe = u]>>, <<>>) : u \in BOOLEAN}

MCMixes ==
  {Mix(Files(One, b), Patch(Both, hs), two) :
     b \in {One, Nowhere, Folder},
     hs \in {<<Update(A, "1", "2"), Update(B, "1", "3")>>,
             <<Update(A, "1", "2"), Update(A, "2", "3")>>,
             <<Move(A, B, "1", "2"), Add(A, "3")>>,
             <<Add(B, "4"), Delete(A)>>,
             <<Delete(A), Add(A, "5")>>,
             <<Update(B, "1", "2"), Move(A, B, "1", "3")>>,
             <<Move(A, B, "1", "2"), Update(B, "2", "3")>>},
     two \in {Idle, Edit(A, "1", "7")}}
  \union {Mix(Files(a, b), Patch(Both, hs), Idle) :
     a \in {OneCrlf, Large}, b \in {One, Large},
     hs \in {<<Add(A, "5"), Update(A, "5", "2")>>,
             <<Update(A, "1", "2"), Move(A, B, "2", "3")>>,
             <<Update(B, "1", Big), Move(A, B, "1", "3")>>,
             <<Update(B, "1", Big), Update(B, Big, "2")>>}}
  \union {Among(d, hs) : d \in {One, Nowhere},
     hs \in {<<Add(A, "5"), Add(D, "3")>>,
             <<Add(D, "5"), Add(A, "3")>>,
             <<Delete(D), Add(A, "3")>>,
             <<Move(D, B, "1", "2"), Add(A, "3")>>}}
  \union {Mix(Files(a, Nowhere), ReadOf(A), Edit(A, old, "7")) : a \in {One, Nowhere}, old \in {"1", ""}}
  \union {Mix(Files(One, Nowhere), Edit(A, "1", "6"), Edit(A, old, "7")) : old \in {"1", "6"}}
  \union {Mix(Files(One, b), Json(A, "1", "6"), two) : b \in {Nowhere, Folder}, two \in {Edit(A, "1", "7"), Create(<<A>>)}}
  \union {Mix(Files(a, b), ask, Idle) : a \in {One, Folder, Nowhere}, b \in {One, Nowhere}, ask \in Archives}
  \union {Mix(Files(One, Nowhere), ask, two) : ask \in Archives, two \in {Edit(A, "1", "7"), Create(<<A, A>>)}}

\* Two updates of a native patch, the second of which fails.
MCNative == {Mix(Files(One, One), Patch({"native"}, <<Update(A, "1", "2"), Update(B, "1", "3")>>), Idle)}
=============================================================================
