-------------------------- MODULE FileTools_proofs --------------------------
(***************************************************************************)
(* Theorems about the file tools, for any files, any calls under way       *)
(* together, any hunks and members they ask for, and any number of edits   *)
(* by other programs and of writes that fail.                              *)
(*                                                                         *)
(* The invariant has three layers.  Of every call: the type of its local   *)
(* values at each place.  Of every call and every path: what the call      *)
(* knows of the file unless somebody else has written it since (Knows);    *)
(* others can only add to what it does not know, so a step of theirs       *)
(* leaves this layer as it is.  Of a call during which nobody else has     *)
(* written: where it is in what it was to do (Alone); a patch is somewhere *)
(* in the sequence of files its dry run went through, an extraction has    *)
(* left the last member of each name.                                      *)
(***************************************************************************)
EXTENDS FileTools, WellFoundedInduction, SequenceTheorems, TLAPS

\* A sequence, whatever its elements are.
IsSeq(s) == s \in Seq(ToSet(s))

PatchPlaces == {"resolve", "verify", "plan", "planned", "snapshot", "read", "write", "remove", "unmove", "unmoving",
                "rollback", "putback", "refresh"}
EditPlaces == {"stat", "load", "create", "compute", "check", "put", "record"}
JsonPlaces == {"parse", "compare", "replace"}
ReadPlaces == {"look", "stream"}
ExtractPlaces == {"list", "entry", "mkdir", "probe", "unpack"}
CreatePlaces == {"collect", "refuse"}
Places == {"idle", "done"} \union PatchPlaces \union EditPlaces \union JsonPlaces \union ReadPlaces
          \union ExtractPlaces \union CreatePlaces

PatchFields == {"kind", "answer", "hunks", "i", "pending", "snap", "kept", "text", "over", "delta", "todo", "failed"}
EditFields == {"kind", "answer", "ask", "text"}
ReadFields == {"kind", "answer", "path", "text"}
ExtractFields == {"kind", "answer", "ask", "at", "holds", "before", "count"}
CreateFields == {"kind", "answer", "ask", "at", "text"}

-----------------------------------------------------------------------------
(* What the local values of a call are like at each place.                 *)

HunksTyped(hs) == IsSeq(hs) /\ hs # <<>> /\ \A i \in 1..Len(hs) : HunkTyped(hs[i])
PlannedTexts(where, l) ==
  /\ IsSeq(l.text) /\ \A k \in 1..Len(l.text) : IsContent(l.text[k])
  /\ Len(l.text) = IF where = "plan" THEN l.i - 1 ELSE Len(l.hunks)
PatchTyped(where, l) ==
  /\ DOMAIN l = PatchFields /\ l.kind \in {"native", "git"}
  /\ HunksTyped(l.hunks) /\ l.i \in 1..Len(l.hunks)
  /\ DOMAIN l.pending \subseteq Paths
  /\ DOMAIN l.snap \subseteq Paths /\ \A p \in DOMAIN l.snap : IsContent(l.snap[p])
  /\ l.kept \in Seq(DOMAIN l.snap) /\ ToSet(l.kept) = DOMAIN l.snap
  /\ where \in {"rollback", "putback"} => l.todo \in Seq(DOMAIN l.snap)
  /\ IsContent(l.over)
  /\ IsSeq(l.delta) /\ \A k \in 1..Len(l.delta) : l.delta[k].path \in Paths
  /\ where \in {"resolve", "verify", "read", "unmove", "unmoving"} => l.kind = "native"
  /\ where \in {"plan", "planned"} => l.kind = "git"
  /\ l.kind = "git" => PlannedTexts(where, l)
  /\ where \in {"resolve", "verify", "plan", "planned", "snapshot"} => l.delta = <<>>
  /\ where = "putback" => l.todo # <<>>
EditTyped(l) == DOMAIN l = EditFields /\ l.kind \in {"edit", "json"} /\ l.ask.path \in Paths
ReadTyped(l) == DOMAIN l = ReadFields /\ l.kind = "read" /\ l.path \in Paths
ExtractTyped(where, l) ==
  /\ DOMAIN l = ExtractFields /\ l.kind = "extract"
  /\ IsSeq(l.ask.members) /\ \A i \in 1..Len(l.ask.members) : l.ask.members[i].name \in Paths
  /\ IsSeq(l.ask.again) /\ IsSeq(l.holds)
  /\ l.at \in 1..(Len(l.ask.members) + 1)
  /\ where \in {"mkdir", "probe", "unpack"} => l.at <= Len(l.ask.members) /\ l.ask.format # "system"
  /\ where = "mkdir" => l.ask.members[l.at].type = "dir"
  /\ l.count \in [Counted -> Nat] /\ Accounted(l.count) = l.at - 1
  /\ where = "done" /\ l.answer = "extracted" => l.at = Len(l.ask.members) + 1
  /\ where # "done" => l.answer = "none"
CreateTyped(l) ==
  /\ DOMAIN l = CreateFields /\ l.kind = "archive" /\ l.ask.path \in Paths
  /\ l.ask.from \in Seq(Paths) /\ l.at \in 1..(Len(l.ask.from) + 1)
CallTyped(where, l) ==
  /\ where \in Places
  /\ where = "idle" => l = NoCall
  /\ where \in PatchPlaces => PatchTyped(where, l)
  /\ where \in EditPlaces \union JsonPlaces => EditTyped(l)
  /\ where \in ReadPlaces => ReadTyped(l)
  /\ where \in ExtractPlaces => ExtractTyped(where, l)
  /\ where \in CreatePlaces => CreateTyped(l)
  /\ where = "done" => {"kind", "answer"} \subseteq DOMAIN l /\ (l.kind = "extract" => ExtractTyped(where, l))

DiskTyped ==
  /\ DOMAIN files = Paths /\ \A p \in Paths : IsContent(files[p])
  /\ cache \in [Paths -> {"missing", "fresh", "stale"}] /\ DOMAIN shown = Paths
  /\ touched \in [Calls -> SUBSET Paths] /\ disturbed \subseteq Calls
  /\ left \in [faults : Nat, edits : Nat]
TypeOK ==
  /\ mix \in Mixes /\ DiskTyped
  /\ DOMAIN pc = Calls /\ DOMAIN loc = Calls
  /\ \A c \in Calls : CallTyped(pc[c], loc[c])

-----------------------------------------------------------------------------
(* What a call knows of the files fs, of which others have written those   *)
(* in t since it looked.                                                   *)

\* A rollback without failures has dealt with every path that is not to do.
RollOK(where, l, fs, t) ==
  where \in {"rollback", "putback"} /\ ~l.failed =>
    \A p \in DOMAIN l.snap : p \in ToSet(l.todo) \/ fs[p] = l.snap[p] \/ p \in t

\* What a patch wrote last to a path is there.
LastOf(d, k) == \A j \in (k + 1)..Len(d) : d[j].path # d[k].path
DeltaOK(where, l, fs, t) ==
  where \in {"read", "write", "remove", "refresh"} =>
    \A k \in 1..Len(l.delta) : LastOf(l.delta, k) => fs[l.delta[k].path] = l.delta[k].what \/ l.delta[k].path \in t

\* An edit and a JSON rewrite know the text of their file.
EditOK(where, l, fs, t) ==
  /\ where = "load" => fs[l.ask.path].is # "dir" \/ l.ask.path \in t
  /\ where \in {"compute", "check", "put", "record", "replace"} => fs[l.ask.path] = File(l.text) \/ l.ask.path \in t

\* An extraction that does not overwrite has found nothing at the path.
UnpackOK(where, l, fs, t) ==
  where = "unpack" /\ ~l.ask.overwrite =>
    LET p == l.ask.members[l.at].name IN fs[p].is = "none" \/ p \in t

-----------------------------------------------------------------------------
(* What is true of a call while nobody else has written.                   *)

\* The dry run: W[k] is what the first k - 1 hunks leave.
Effect(w, hk) == With(With(w, hk.path, Nowhere), hk.to, AsApplied(w[hk.path].text, hk))
Bad(w, hk) ==
  \/ w[hk.path].is = "dir" \/ TooLarge(w[hk.path])
  \/ hk.op # "add" /\ w[hk.path].is = "none"
  \/ hk.op = "update" /\ ~Applies(w[hk.path].text, hk)
  \/ Moves(hk) /\ w[hk.to].is = "dir"
DryRun(hs, n, W) ==
  /\ \A k \in 1..(n + 1) : DOMAIN W[k] = Paths
  /\ \A k \in 1..n : ~Bad(W[k], hs[k]) /\ W[k + 1] = Effect(W[k], hs[k])

\* Nothing is in the way of the files a patch names.
InTheWay(fs, p, q) == (<<p, q>> \in Inside /\ fs[q].is = "file") \/ (<<q, p>> \in Inside /\ fs[q].is # "none")
Clear(hs, fs) == \A p \in Named(hs), q \in Paths : ~InTheWay(fs, p, q)

\* One of the first n hunks has made the file at p too large.
Grown(hs, n, p) == \E k \in 1..n : Line(hs[k].new) \in Heavy /\ hs[k].to = p

\* Where a patch is: what the files are, of those the dry run went through.
Reached(where, l, fs, W) ==
  LET n == Len(l.hunks)  hk == l.hunks[l.i] IN
  /\ where = "snapshot" => l.i = 1 /\ fs = W[1]
  /\ where = "read" => fs = W[l.i]
  /\ where = "write" => fs = W[l.i] /\ l.text = fs[hk.path].text /\ hk.op # "delete"
  /\ where = "remove" =>
       \/ hk.op = "delete" /\ fs = W[l.i]
       \/ Moves(hk) /\ fs = With(W[l.i], hk.to, AsApplied(W[l.i][hk.path].text, hk))
  /\ where = "refresh" => fs = W[n + 1]
Sure(l) == l.kind = "native" /\ Foretold(l.hunks)
NativeOK(where, l, fs) ==
  Sure(l) =>
    /\ where \in {"verify", "snapshot", "read", "write", "remove"} => Clear(l.hunks, fs)
    /\ where = "resolve" => l.pending = <<>> /\ l.i = 1
    /\ where = "verify" =>
         \E W : /\ DryRun(l.hunks, l.i - 1, W) /\ W[1] = fs
                /\ \A p \in Paths : Alike(W[l.i][p], IF p \in DOMAIN l.pending THEN l.pending[p] ELSE fs[p])
                /\ \A p \in DOMAIN l.pending : TooLarge(l.pending[p]) => Grown(l.hunks, l.i - 1, p)
    /\ where \in {"snapshot", "read", "write", "remove", "refresh"} =>
         \E W : /\ DryRun(l.hunks, Len(l.hunks), W) /\ Reached(where, l, fs, W)
                /\ \A p \in DOMAIN l.pending : Alike(W[Len(l.hunks) + 1][p], l.pending[p])
    /\ where \notin {"unmove", "unmoving", "rollback", "putback"}

\* OnlyFiles, of the local values of an extraction.
Held(l, p) == {j \in DOMAIN l.holds : l.holds[j].name = p}
OnlyIn(l, p) ==
  /\ Held(l, p) # {} /\ \A j \in Held(l, p) : l.holds[j].type = "file" /\ ~l.holds[j].over
  /\ \A i \in DOMAIN l.ask.members : l.ask.members[i].name = p => l.ask.members[i].type = "file"
  /\ l.ask.format = "system" => l.holds = l.ask.members
LastText(l, fs, p) == \E j \in Held(l, p) : (\A k \in Held(l, p) : k <= j) /\ fs[p] = File(l.holds[j].text)
Extracted(l, fs, p) ==
  /\ l.ask.format # "system" =>
       /\ fs[p] = l.before[p] \/ fs[p].is = "dir" \/ LastText(l, fs, p)
       /\ \A i \in 1..(l.at - 1) :
            l.ask.members[i].name = p /\ ~l.ask.members[i].unsafe =>
              (fs[p] = l.before[p] /\ l.before[p] # Nowhere) \/ fs[p].is = "dir" \/ LastText(l, fs, p)
  /\ l.ask.format = "system" =>
       \A i \in 1..(l.at - 1) :
         l.ask.members[i].name = p /\ (\A k \in (i + 1)..(l.at - 1) : l.ask.members[k].name # p) =>
           fs[p] = File(l.ask.members[i].text)
ExtractOK(where, l, fs) ==
  l.kind = "extract" =>
    /\ where = "list" => fs = l.before /\ l.at = 1
    /\ where \in {"entry", "mkdir", "probe", "unpack"} \/ (where = "done" /\ l.answer = "extracted") =>
         \A p \in Paths : OnlyIn(l, p) => Extracted(l, fs, p)

-----------------------------------------------------------------------------
Knows(where, l, fs, t) ==
  RollOK(where, l, fs, t) /\ DeltaOK(where, l, fs, t) /\ EditOK(where, l, fs, t) /\ UnpackOK(where, l, fs, t)
Alone(where, l, fs) == NativeOK(where, l, fs) /\ ExtractOK(where, l, fs)
CallInv(c) ==
  /\ CallTyped(pc[c], loc[c])
  /\ Knows(pc[c], loc[c], files, touched[c])
  /\ c \notin disturbed => Alone(pc[c], loc[c], files)
Inv ==
  /\ mix \in Mixes /\ DiskTyped /\ DOMAIN pc = Calls /\ DOMAIN loc = Calls
  /\ \A c \in Calls : CallInv(c)
  /\ FreshMeansSeen

-----------------------------------------------------------------------------
(* Numbers, sequences and records.                                         *)

LEMMA AllNumbers ==
  ASSUME NEW S \in SUBSET Nat, 0 \in S, \A n \in S : n + 1 \in S
  PROVE  S = Nat
<1> SUFFICES ASSUME Nat \ S # {} PROVE FALSE
  OBVIOUS
<1>1. IsWellFoundedOn(OpToRel(<, Nat), Nat)
  BY NatLessThanWellFounded
<1>2. PICK n \in Nat \ S : \A k \in Nat \ S : ~(<<k, n>> \in OpToRel(<, Nat))
  BY <1>1, WFMin
<1>3. \A k \in Nat \ S : ~(k < n)
  BY <1>2 DEF OpToRel
<1>4. n - 1 \in Nat /\ n - 1 < n /\ (n - 1) + 1 = n
  OBVIOUS
<1> QED
  BY <1>3, <1>4

\* A set of positions has a last one.
LEMMA LastIn ==
  ASSUME NEW n \in Nat, NEW S \in SUBSET (1..n), S # {}
  PROVE  \E k \in S : \A j \in S : j <= k
<1> DEFINE Has == {m \in Nat : \A T \in SUBSET (1..m) : T # {} => \E k \in T : \A j \in T : j <= k}
<1>1. 0 \in Has
  <2>1. \A T \in SUBSET (1..0) : T = {}
    OBVIOUS
  <2> QED
    BY <2>1, Zenon
<1>2. ASSUME NEW m \in Has PROVE m + 1 \in Has
  <2>0. m \in Nat /\ \A T \in SUBSET (1..m) : T # {} => \E k \in T : \A j \in T : j <= k
    OBVIOUS
  <2> HIDE DEF Has
  <2> SUFFICES ASSUME NEW T \in SUBSET (1..(m + 1)), T # {} PROVE \E k \in T : \A j \in T : j <= k
    BY <2>0 DEF Has
  <2>1. CASE m + 1 \in T
    BY <2>0, <2>1
  <2>2. CASE m + 1 \notin T
    <3>1. T \in SUBSET (1..m)
      BY <2>0, <2>2
    <3> QED
      BY <2>0, <3>1
  <2> QED
    BY <2>1, <2>2
<1> HIDE DEF Has
<1>3. Has \in SUBSET Nat
  BY DEF Has
<1>4. Has = Nat
  BY <1>1, <1>2, <1>3, AllNumbers
<1> QED
  BY <1>4 DEF Has

LEMMA SeqFacts ==
  ASSUME NEW s, IsSeq(s)
  PROVE  Len(s) \in Nat /\ DOMAIN s = 1..Len(s)
BY LenProperties DEF IsSeq

LEMMA EmptyIsSeq == IsSeq(<<>>) /\ Len(<<>>) = 0 /\ DOMAIN <<>> = {}
<1>1. <<>> \in Seq({}) /\ Len(<<>>) = 0
  BY EmptySeq
<1>2. DOMAIN <<>> = {}
  BY <1>1, LenProperties
<1>3. ToSet(<<>>) = {}
  BY <1>2 DEF ToSet
<1> QED
  BY <1>1, <1>2, <1>3 DEF IsSeq

LEMMA AppendFacts ==
  ASSUME NEW s, IsSeq(s), NEW x
  PROVE  /\ IsSeq(Append(s, x)) /\ Len(Append(s, x)) = Len(s) + 1
         /\ Append(s, x)[Len(s) + 1] = x
         /\ \A i \in 1..Len(s) : Append(s, x)[i] = s[i]
<1> DEFINE T == ToSet(s) \union {x}
           a == Append(s, x)
<1>1. s \in Seq(T) /\ x \in T
  BY SeqMonotonic DEF IsSeq
<1>2. a \in Seq(T) /\ Len(a) = Len(s) + 1 /\ a[Len(s) + 1] = x /\ \A i \in 1..Len(s) : a[i] = s[i]
  <2> HIDE DEF T
  <2> QED
    BY <1>1
<1>3. DOMAIN a = 1..Len(a)
  BY <1>2, LenProperties
<1>4. a \in Seq(ToSet(a))
  <2>1. \A i \in 1..Len(a) : a[i] \in ToSet(a)
    BY <1>3 DEF ToSet
  <2>2. a \in [1..Len(a) -> ToSet(a)] /\ Len(a) \in Nat
    <3>1. a \in [1..Len(a) -> T] /\ Len(a) \in Nat
      BY <1>2, LenProperties
    <3> HIDE DEF a, T
    <3> QED
      BY <2>1, <3>1
  <2> HIDE DEF a
  <2> QED
    BY <2>2, SeqDef
<1> QED
  BY <1>2, <1>4 DEF IsSeq

LEMMA ToSetOfSeq ==
  ASSUME NEW S, NEW s \in Seq(S)
  PROVE  /\ \A x : x \in ToSet(s) <=> \E i \in 1..Len(s) : s[i] = x
         /\ ToSet(s) \subseteq S
<1>1. DOMAIN s = 1..Len(s) /\ \A i \in 1..Len(s) : s[i] \in S
  BY LenProperties
<1> QED
  BY <1>1 DEF ToSet

LEMMA AppendToSet ==
  ASSUME NEW S, NEW s \in Seq(S), NEW x \in S
  PROVE  Append(s, x) \in Seq(S) /\ ToSet(Append(s, x)) = ToSet(s) \union {x}
<1> DEFINE a == Append(s, x)
<1>1. a \in Seq(S) /\ Len(a) = Len(s) + 1 /\ a[Len(s) + 1] = x /\ (\A i \in 1..Len(s) : a[i] = s[i]) /\ Len(s) \in Nat
  OBVIOUS
<1> HIDE DEF a
<1>2. \A y : y \in ToSet(a) <=> \E i \in 1..Len(a) : a[i] = y
  BY <1>1, ToSetOfSeq
<1>3. \A y : y \in ToSet(s) <=> \E i \in 1..Len(s) : s[i] = y
  BY ToSetOfSeq
<1>4. ASSUME NEW y, y \in ToSet(a) PROVE y \in ToSet(s) \union {x}
  BY <1>1, <1>2, <1>3, <1>4
<1>5. ASSUME NEW y, y \in ToSet(s) \union {x} PROVE y \in ToSet(a)
  BY <1>1, <1>2, <1>3, <1>5
<1> QED
  BY <1>1, <1>4, <1>5 DEF a

LEMMA ReverseFacts ==
  ASSUME NEW S, NEW s \in Seq(S)
  PROVE  Reverse(s) \in Seq(S) /\ ToSet(Reverse(s)) = ToSet(s)
<1> DEFINE r == Reverse(s)
<1>1. Len(s) \in Nat /\ \A i \in 1..Len(s) : s[i] \in S
  BY LenProperties
<1>2. r = [i \in 1..Len(s) |-> s[(Len(s) - i) + 1]]
  BY DEF Reverse
<1> HIDE DEF r
<1>3. r \in [1..Len(s) -> S]
  BY <1>1, <1>2
<1>4. r \in Seq(S) /\ Len(r) = Len(s)
  <2>1. r \in Seq(S)
    BY <1>1, <1>3, SeqDef
  <2>2. DOMAIN r = 1..Len(r) /\ Len(r) \in Nat
    BY <2>1, LenProperties
  <2> QED
    BY <1>1, <1>3, <2>1, <2>2
<1>5. \A y : y \in ToSet(r) <=> \E i \in 1..Len(s) : r[i] = y
  BY <1>4, ToSetOfSeq
<1>6. \A y : y \in ToSet(s) <=> \E i \in 1..Len(s) : s[i] = y
  BY ToSetOfSeq
<1>7. ASSUME NEW y, y \in ToSet(r) PROVE y \in ToSet(s)
  BY <1>1, <1>2, <1>5, <1>6, <1>7
<1>8. ASSUME NEW y, y \in ToSet(s) PROVE y \in ToSet(r)
  <2>1. PICK i \in 1..Len(s) : s[i] = y
    BY <1>6, <1>8
  <2> DEFINE k == (Len(s) - i) + 1
  <2>2. k \in 1..Len(s) /\ (Len(s) - k) + 1 = i
    BY <1>1
  <2>3. r[k] = s[(Len(s) - k) + 1]
    BY <1>2, <2>2
  <2> QED
    BY <1>5, <2>1, <2>2, <2>3
<1> QED
  BY <1>4, <1>7, <1>8 DEF r

LEMMA TailFacts ==
  ASSUME NEW S, NEW s \in Seq(S), s # <<>>
  PROVE  Head(s) \in S /\ Tail(s) \in Seq(S) /\ \A x \in ToSet(s) : x = Head(s) \/ x \in ToSet(Tail(s))
<1>1. /\ Head(s) \in S /\ Tail(s) \in Seq(S) /\ Len(Tail(s)) = Len(s) - 1 /\ Len(s) \in Nat \ {0}
      /\ \A i \in 1..Len(Tail(s)) : Tail(s)[i] = s[i + 1]
  BY HeadTailProperties, EmptySeq
<1>2. Head(s) = s[1]
  OBVIOUS
<1>3. ASSUME NEW x \in ToSet(s), x # Head(s) PROVE x \in ToSet(Tail(s))
  <2>1. PICK i \in 1..Len(s) : s[i] = x
    BY ToSetOfSeq
  <2>2. i - 1 \in 1..Len(Tail(s)) /\ Tail(s)[i - 1] = x
    <3>1. i # 1
      BY <1>2, <1>3, <2>1
    <3> QED
      BY <1>1, <2>1, <3>1
  <2>3. \A y : y \in ToSet(Tail(s)) <=> \E k \in 1..Len(Tail(s)) : Tail(s)[k] = y
    BY <1>1, ToSetOfSeq
  <2> QED
    BY <2>2, <2>3
<1> QED
  BY <1>1, <1>3

LEMMA FrontFacts ==
  ASSUME NEW s, IsSeq(s)
  PROVE  /\ IsSeq(Front(s)) /\ Len(Front(s)) <= Len(s)
         /\ \A i \in 1..Len(Front(s)) : Front(s)[i] = s[i]
<1> DEFINE f == Front(s)
<1>1. s \in Seq(ToSet(s)) /\ Len(s) \in Nat /\ \A i \in 1..(Len(s) - 1) : s[i] \in ToSet(s)
  BY SeqFacts DEF IsSeq, ToSet
<1>2. /\ f \in Seq(ToSet(s)) /\ Len(f) = IF 1 <= Len(s) - 1 THEN (Len(s) - 1) - 1 + 1 ELSE 0
      /\ \A i \in 1..((Len(s) - 1) - 1 + 1) : f[i] = s[1 + i - 1]
  BY <1>1, SubSeqProperties DEF Front
<1> HIDE DEF f
<1>3. Len(f) \in Nat /\ DOMAIN f = 1..Len(f)
  BY <1>2, LenProperties
<1>4. f \in [1..Len(f) -> ToSet(f)]
  <2>1. f \in [1..Len(f) -> ToSet(s)]
    BY <1>2, LenProperties
  <2>2. \A i \in 1..Len(f) : f[i] \in ToSet(f)
    BY <1>3 DEF ToSet
  <2> QED
    BY <2>1, <2>2
<1>5. f \in Seq(ToSet(f))
  BY <1>3, <1>4, SeqDef
<1>6. \A i \in 1..Len(f) : f[i] = s[i]
  BY <1>1, <1>2, <1>3
<1>7. Len(f) <= Len(s)
  BY <1>1, <1>2
<1> QED
  BY <1>5, <1>6, <1>7 DEF IsSeq, f

-----------------------------------------------------------------------------
(* What one step does to the disk, for the call that takes it and for the  *)
(* others.                                                                 *)

\* The others miss at most a change they will know they missed.
DiskFor(d) ==
  /\ touched[d] \subseteq touched'[d]
  /\ \A p \in Paths : files'[p] = files[p] \/ p \in touched'[d]
  /\ d \notin disturbed' => d \notin disturbed /\ (pc[d] = "idle" \/ files' = files)
Sound(c) == DiskTyped' /\ FreshMeansSeen' /\ \A d \in Calls \ {c} : DiskFor(d)
Untouched(c) == files' = files /\ (c \in disturbed' <=> c \in disturbed)
PutsAt(c, p, what) ==
  /\ files' = [files EXCEPT ![p] = what] /\ files'[p] = what /\ \A q \in Paths \ {p} : files'[q] = files[q]
  /\ c \in Calls => touched'[c] = touched[c] \ {p} /\ (c \in disturbed' <=> c \in disturbed)
FailsAt(c, p) ==
  /\ \A q \in Paths \ {p} : files'[q] = files[q]
  /\ touched'[c] = touched[c] /\ c \in disturbed'

LEMMA PutEffect ==
  ASSUME DiskTyped, FreshMeansSeen, NEW c \in Calls \union {Elsewhere}, NEW p \in Paths, NEW what, IsContent(what),
         Put(c, p, what), left' \in [faults : Nat, edits : Nat]
  PROVE  Sound(c) /\ PutsAt(c, p, what)
<1>1. PutsAt(c, p, what)
  <2>1. files' = [files EXCEPT ![p] = what] /\ files'[p] = what /\ \A q \in Paths \ {p} : files'[q] = files[q]
    BY DEF Put, DiskTyped
  <2>2. c \in Calls => touched'[c] = touched[c] \ {p} /\ (c \in disturbed' <=> c \in disturbed)
    BY DEF Put
  <2> QED
    BY <2>1, <2>2 DEF PutsAt
<1>2. DiskTyped'
  <2>1. DOMAIN files' = Paths /\ \A q \in Paths : IsContent(files'[q])
    <3>1. DOMAIN files' = Paths
      BY DEF Put, DiskTyped
    <3>2. \A q \in Paths : files'[q] = what \/ files'[q] = files[q]
      BY <1>1 DEF PutsAt
    <3> QED
      BY <3>1, <3>2 DEF DiskTyped
  <2>2. cache' \in [Paths -> {"missing", "fresh", "stale"}] /\ DOMAIN shown' = Paths
    BY DEF Put, DiskTyped
  <2>3. touched' \in [Calls -> SUBSET Paths]
    <3>1. touched' = [d \in Calls |-> IF d = c THEN touched[d] \ {p} ELSE touched[d] \union {p}]
      BY DEF Put
    <3>2. \A d \in Calls : touched[d] \in SUBSET Paths
      BY DEF DiskTyped
    <3> QED
      BY <3>1, <3>2
  <2>4. disturbed' \subseteq Calls
    BY DEF Put, DiskTyped
  <2> QED
    BY <2>1, <2>2, <2>3, <2>4 DEF DiskTyped
<1>3. FreshMeansSeen'
  <2> SUFFICES ASSUME NEW q \in Paths, cache'[q] = "fresh", files'[q].is = "file", shown'[q] # Unseen
               PROVE  files'[q].text = shown'[q]
    BY DEF FreshMeansSeen
  <2>1. q # p /\ cache[q] = "fresh"
    BY DEF Put, DiskTyped
  <2>2. files'[q] = files[q] /\ shown' = shown
    BY <1>1, <2>1 DEF PutsAt, Put
  <2> QED
    BY <2>1, <2>2 DEF FreshMeansSeen
<1>4. ASSUME NEW d \in Calls \ {c} PROVE DiskFor(d)
  <2>1. touched'[d] = touched[d] \union {p}
    BY DEF Put
  <2>2. d \notin disturbed' => d \notin disturbed /\ pc[d] = "idle"
    BY DEF Put
  <2> QED
    BY <1>1, <2>1, <2>2 DEF DiskFor, PutsAt
<1> QED
  BY <1>1, <1>2, <1>3, <1>4 DEF Sound

LEMMA RemoveFailsEffect ==
  ASSUME DiskTyped, FreshMeansSeen, NEW c \in Calls, NEW p \in Paths, RemoveFails(c)
  PROVE  Sound(c) /\ FailsAt(c, p) /\ files' = files
<1>1. files' = files /\ cache' = cache /\ shown' = shown /\ touched' = touched /\ disturbed' = disturbed \union {c}
  BY DEF RemoveFails, disk
<1>2. left' \in [faults : Nat, edits : Nat]
  BY DEF RemoveFails, DiskTyped
<1>3. DiskTyped' /\ FreshMeansSeen'
  BY <1>1, <1>2 DEF DiskTyped, FreshMeansSeen
<1>4. \A d \in Calls \ {c} : DiskFor(d)
  BY <1>1 DEF DiskFor
<1> QED
  BY <1>1, <1>3, <1>4 DEF Sound, FailsAt

LEMMA PutFailsEffect ==
  ASSUME DiskTyped, FreshMeansSeen, NEW c \in Calls, NEW p \in Paths, NEW what, pc[c] # "idle", PutFails(c, p, what)
  PROVE  Sound(c) /\ FailsAt(c, p)
<1>1. CASE RemoveFails(c)
  BY <1>1, RemoveFailsEffect
<1>2. CASE ~RemoveFails(c)
  <2> DEFINE empty == File(<<>>)
  <2>1. /\ left.faults > 0 /\ left' = [left EXCEPT !.faults = @ - 1]
        /\ files' = [files EXCEPT ![p] = empty]
        /\ cache' = [cache EXCEPT ![p] = IF @ = "fresh" THEN "stale" ELSE @]
        /\ touched' = [d \in Calls |-> IF d = c THEN touched[d] ELSE touched[d] \union {p}]
        /\ disturbed' = disturbed \union {d \in Calls : pc[d] # "idle"}
        /\ shown' = shown
    BY <1>2 DEF PutFails
  <2>2. IsContent(empty)
    BY DEF IsContent, File
  <2> HIDE DEF empty
  <2>3. left' \in [faults : Nat, edits : Nat]
    BY <2>1 DEF DiskTyped
  <2>4. FailsAt(c, p)
    BY <2>1 DEF FailsAt, DiskTyped
  <2>5. DiskTyped'
    <3>1. DOMAIN files' = Paths /\ \A q \in Paths : files'[q] = empty \/ files'[q] = files[q]
      BY <2>1 DEF DiskTyped
    <3>2. cache' \in [Paths -> {"missing", "fresh", "stale"}] /\ DOMAIN shown' = Paths
      BY <2>1 DEF DiskTyped
    <3>3. touched' \in [Calls -> SUBSET Paths]
      <4>1. \A d \in Calls : touched[d] \in SUBSET Paths
        BY DEF DiskTyped
      <4> QED
        BY <2>1, <4>1
    <3>4. disturbed' \subseteq Calls
      BY <2>1 DEF DiskTyped
    <3>5. \A q \in Paths : IsContent(files'[q])
      BY <2>2, <3>1 DEF DiskTyped
    <3> QED
      BY <2>3, <3>1, <3>2, <3>3, <3>4, <3>5 DEF DiskTyped
  <2>6. FreshMeansSeen'
    <3> SUFFICES ASSUME NEW q \in Paths, cache'[q] = "fresh", files'[q].is = "file", shown'[q] # Unseen
                 PROVE  files'[q].text = shown'[q]
      BY DEF FreshMeansSeen
    <3>1. q # p /\ cache[q] = "fresh" /\ files'[q] = files[q]
      BY <2>1 DEF DiskTyped
    <3> QED
      BY <2>1, <3>1 DEF FreshMeansSeen
  <2>7. \A d \in Calls \ {c} : DiskFor(d)
    <3> TAKE d \in Calls \ {c}
    <3>1. touched'[d] = touched[d] \union {p} /\ \A q \in Paths : q # p => files'[q] = files[q]
      BY <2>1 DEF DiskTyped
    <3>2. d \notin disturbed' => d \notin disturbed /\ pc[d] = "idle"
      BY <2>1
    <3> QED
      BY <3>1, <3>2 DEF DiskFor
  <2> QED
    BY <2>4, <2>5, <2>6, <2>7 DEF Sound
<1> QED
  BY <1>1, <1>2

LEMMA LookingAtEffect ==
  ASSUME DiskTyped, FreshMeansSeen, NEW c \in Calls, NEW ps, LookingAt(c, ps)
  PROVE  Sound(c) /\ Untouched(c) /\ touched'[c] = touched[c] \ ps
<1>1. /\ files' = files /\ cache' = cache /\ shown' = shown /\ disturbed' = disturbed /\ left' = left
      /\ touched' = [touched EXCEPT ![c] = @ \ ps]
  BY DEF LookingAt, disk
<1>2. touched' \in [Calls -> SUBSET Paths] /\ touched'[c] = touched[c] \ ps /\ \A d \in Calls \ {c} : touched'[d] = touched[d]
  BY <1>1 DEF DiskTyped
<1>3. DiskTyped' /\ FreshMeansSeen'
  BY <1>1, <1>2 DEF DiskTyped, FreshMeansSeen
<1> QED
  BY <1>1, <1>2, <1>3 DEF Sound, Untouched, DiskFor

LEMMA LookingEffect ==
  ASSUME DiskTyped, FreshMeansSeen, NEW c \in Calls, Looking
  PROVE  Sound(c) /\ Untouched(c) /\ touched'[c] = touched[c]
<1>1. files' = files /\ cache' = cache /\ shown' = shown /\ disturbed' = disturbed /\ left' = left /\ touched' = touched
  BY DEF Looking, disk
<1> QED
  BY <1>1 DEF DiskTyped, FreshMeansSeen, Sound, Untouched, DiskFor

LEMMA RecordEffect ==
  ASSUME DiskTyped, FreshMeansSeen, NEW c \in Calls, NEW texts, Record(c, texts),
         \A p \in Paths \cap DOMAIN texts : files[p].is = "file" /\ p \notin touched[c] => files[p].text = texts[p]
  PROVE  Sound(c) /\ Untouched(c) /\ touched'[c] = touched[c]
<1> DEFINE ps == {p \in DOMAIN texts : files[p].is = "file"}
<1>1. /\ cache' = [p \in Paths |-> IF p \in ps THEN "fresh" ELSE cache[p]]
      /\ shown' = [p \in Paths |-> IF p \in ps THEN (IF p \in touched[c] THEN Unseen ELSE texts[p]) ELSE shown[p]]
      /\ files' = files /\ touched' = touched /\ disturbed' = disturbed /\ left' = left
  BY DEF Record
<1> HIDE DEF ps
<1>2. DiskTyped'
  BY <1>1 DEF DiskTyped
<1>3. FreshMeansSeen'
  <2> SUFFICES ASSUME NEW q \in Paths, cache'[q] = "fresh", files'[q].is = "file", shown'[q] # Unseen
               PROVE  files'[q].text = shown'[q]
    BY DEF FreshMeansSeen
  <2>1. CASE q \in ps
    BY <1>1, <2>1 DEF ps
  <2>2. CASE q \notin ps
    BY <1>1, <2>2 DEF FreshMeansSeen
  <2> QED
    BY <2>1, <2>2
<1> QED
  BY <1>1, <1>2, <1>3 DEF Sound, Untouched, DiskFor

-----------------------------------------------------------------------------
(* A step of one call leaves the invariant of every other.                 *)

Base == mix \in Mixes /\ DiskTyped /\ FreshMeansSeen /\ DOMAIN pc = Calls /\ DOMAIN loc = Calls
Own(c) ==
  /\ DOMAIN pc' = Calls /\ DOMAIN loc' = Calls
  /\ \A d \in Calls \ {c} : pc'[d] = pc[d] /\ loc'[d] = loc[d]
StepOK(c) == Sound(c) /\ Own(c) /\ (c \in Calls => CallInv(c)')

LEMMA KnowsMonotone ==
  ASSUME NEW w, NEW l, CallTyped(w, l), NEW fs, NEW t, NEW fs2, NEW t2, t \subseteq t2,
         \A p \in Paths : fs2[p] = fs[p] \/ p \in t2, Knows(w, l, fs, t), t2 \subseteq Paths
  PROVE  Knows(w, l, fs2, t2)
<1>1. RollOK(w, l, fs2, t2)
  <2> SUFFICES ASSUME w \in {"rollback", "putback"}, ~l.failed, NEW p \in DOMAIN l.snap
               PROVE  p \in ToSet(l.todo) \/ fs2[p] = l.snap[p] \/ p \in t2
    BY DEF RollOK
  <2>1. p \in ToSet(l.todo) \/ fs[p] = l.snap[p] \/ p \in t
    BY DEF Knows, RollOK
  <2>2. PatchTyped(w, l)
    BY DEF CallTyped, PatchPlaces
  <2>3. p \in Paths
    BY <2>2 DEF PatchTyped
  <2> QED
    BY <2>1, <2>3
<1>2. DeltaOK(w, l, fs2, t2)
  <2> SUFFICES ASSUME w \in {"read", "write", "remove", "refresh"}, NEW k \in 1..Len(l.delta), LastOf(l.delta, k)
               PROVE  fs2[l.delta[k].path] = l.delta[k].what \/ l.delta[k].path \in t2
    BY DEF DeltaOK
  <2>1. PatchTyped(w, l)
    BY DEF CallTyped, PatchPlaces
  <2>2. l.delta[k].path \in Paths
    BY <2>1 DEF PatchTyped
  <2> QED
    BY <2>2 DEF Knows, DeltaOK
<1>3. EditOK(w, l, fs2, t2)
  <2>1. w \in EditPlaces \union JsonPlaces => l.ask.path \in Paths
    BY DEF CallTyped, EditTyped
  <2> QED
    BY <2>1 DEF Knows, EditOK, EditPlaces, JsonPlaces
<1>4. UnpackOK(w, l, fs2, t2)
  <2> SUFFICES ASSUME w = "unpack", ~l.ask.overwrite
               PROVE  LET p == l.ask.members[l.at].name IN fs2[p].is = "none" \/ p \in t2
    BY DEF UnpackOK
  <2>1. ExtractTyped(w, l)
    BY DEF CallTyped, ExtractPlaces
  <2>2. l.at \in 1..Len(l.ask.members)
    BY <2>1, SeqFacts DEF ExtractTyped
  <2>3. l.ask.members[l.at].name \in Paths
    BY <2>1, <2>2 DEF ExtractTyped
  <2> QED
    BY <2>3 DEF Knows, UnpackOK
<1> QED
  BY <1>1, <1>2, <1>3, <1>4 DEF Knows

LEMMA IdleAlone ==
  ASSUME NEW l, l = NoCall, NEW fs
  PROVE  Alone("idle", l, fs)
BY DEF Alone, NativeOK, Sure, ExtractOK, NoCall

LEMMA OthersKeep ==
  ASSUME NEW d \in Calls, CallInv(d), DiskTyped', DiskFor(d), pc'[d] = pc[d], loc'[d] = loc[d]
  PROVE  CallInv(d)'
<1>1. CallTyped(pc'[d], loc'[d])
  BY DEF CallInv
<1>2. Knows(pc'[d], loc'[d], files', touched'[d])
  <2>1. touched'[d] \subseteq Paths
    BY DEF DiskTyped
  <2> QED
    BY <2>1, KnowsMonotone DEF CallInv, DiskFor
<1>3. d \notin disturbed' => Alone(pc'[d], loc'[d], files')
  <2> SUFFICES ASSUME d \notin disturbed' PROVE Alone(pc'[d], loc'[d], files')
    OBVIOUS
  <2>1. CASE pc[d] = "idle"
    <3>1. loc[d] = NoCall
      BY <2>1 DEF CallInv, CallTyped
    <3> QED
      BY <2>1, <3>1, IdleAlone
  <2>2. CASE files' = files /\ d \notin disturbed
    BY <2>2 DEF CallInv
  <2> QED
    BY <2>1, <2>2 DEF DiskFor
<1> QED
  BY <1>1, <1>2, <1>3 DEF CallInv

LEMMA Frame ==
  ASSUME Inv, NEW c, StepOK(c), mix' = mix
  PROVE  Inv'
<1>1. \A d \in Calls : CallInv(d)'
  <2> TAKE d \in Calls
  <2>1. CASE d = c
    BY <2>1 DEF StepOK
  <2>2. CASE d # c
    BY <2>2, OthersKeep DEF Inv, StepOK, Sound, Own
  <2> QED
    BY <2>1, <2>2
<1> QED
  BY <1>1 DEF Inv, StepOK, Sound, Own

LEMMA GotoFacts ==
  ASSUME Base, NEW c \in Calls, NEW w, Goto(c, w)
  PROVE  DOMAIN pc' = Calls /\ pc'[c] = w /\ \A d \in Calls \ {c} : pc'[d] = pc[d]
BY DEF Goto, Base

Keeps(c) == DOMAIN loc' = Calls /\ \A d \in Calls \ {c} : loc'[d] = loc[d]

LEMMA SetKeeps ==
  ASSUME Base, NEW c \in Calls, NEW values, Set(c, values)
  PROVE  Keeps(c) /\ DOMAIN loc'[c] = DOMAIN loc[c]
         /\ \A f \in DOMAIN loc[c] : loc'[c][f] = IF f \in DOMAIN values THEN values[f] ELSE loc[c][f]
BY DEF Set, Base, Keeps

LEMMA AnswersFacts ==
  ASSUME Base, NEW c \in Calls, NEW answer, Answers(c, answer)
  PROVE  /\ Keeps(c) /\ loc'[c] = [kind |-> loc[c].kind, answer |-> answer] /\ Own(c) /\ pc'[c] = "done"
BY DEF Answers, Goto, Base, Keeps, Own

LEMMA Answered ==
  ASSUME NEW k, k \in {"native", "git", "edit", "json", "read", "archive"}, NEW a, NEW l,
         l = [kind |-> k, answer |-> a], NEW fs, NEW t
  PROVE  CallTyped("done", l) /\ Knows("done", l, fs, t) /\ Alone("done", l, fs)
<1>1. l.kind = k /\ {"kind", "answer"} \subseteq DOMAIN l /\ l.kind # "extract"
  OBVIOUS
<1>2. CallTyped("done", l)
  BY <1>1 DEF CallTyped, Places, PatchPlaces, EditPlaces, JsonPlaces, ReadPlaces, ExtractPlaces, CreatePlaces
<1>3. Knows("done", l, fs, t)
  BY DEF Knows, RollOK, DeltaOK, EditOK, UnpackOK
<1>4. Alone("done", l, fs)
  BY <1>1 DEF Alone, NativeOK, Sure, ExtractOK
<1> QED
  BY <1>2, <1>3, <1>4

LEMMA AnswersKeeps ==
  ASSUME Base, NEW c \in Calls, NEW answer, Answers(c, answer),
         loc[c].kind \in {"native", "git", "edit", "json", "read", "archive"}
  PROVE  Own(c) /\ CallInv(c)'
<1>1. Own(c) /\ pc'[c] = "done" /\ loc'[c] = [kind |-> loc[c].kind, answer |-> answer]
  BY AnswersFacts
<1>2. CallTyped("done", loc'[c]) /\ Knows("done", loc'[c], files', touched'[c]) /\ Alone("done", loc'[c], files')
  BY <1>1, Answered
<1> QED
  BY <1>1, <1>2 DEF CallInv

-----------------------------------------------------------------------------
(* The steps of the edit, JSON and read tools.                             *)

LEMMA EditAt ==
  ASSUME NEW w \in EditPlaces \union JsonPlaces, NEW l, EditTyped(l), NEW fs, NEW t, EditOK(w, l, fs, t)
  PROVE  CallTyped(w, l) /\ Knows(w, l, fs, t) /\ Alone(w, l, fs)
<1>1. CallTyped(w, l)
  BY DEF CallTyped, Places, PatchPlaces, EditPlaces, JsonPlaces, ReadPlaces, ExtractPlaces, CreatePlaces
<1>2. Knows(w, l, fs, t)
  BY DEF Knows, RollOK, DeltaOK, UnpackOK, EditPlaces, JsonPlaces
<1>3. Alone(w, l, fs)
  BY DEF Alone, NativeOK, Sure, ExtractOK, EditTyped
<1> QED
  BY <1>1, <1>2, <1>3

LEMMA ReadAt ==
  ASSUME NEW w \in ReadPlaces, NEW l, ReadTyped(l), NEW fs, NEW t
  PROVE  CallTyped(w, l) /\ Knows(w, l, fs, t) /\ Alone(w, l, fs)
<1>1. CallTyped(w, l)
  BY DEF CallTyped, Places, PatchPlaces, EditPlaces, JsonPlaces, ReadPlaces, ExtractPlaces, CreatePlaces
<1>2. Knows(w, l, fs, t)
  BY DEF Knows, RollOK, DeltaOK, EditOK, UnpackOK, ReadPlaces
<1>3. Alone(w, l, fs)
  BY DEF Alone, NativeOK, Sure, ExtractOK, ReadTyped
<1> QED
  BY <1>1, <1>2, <1>3

\* A step that only goes to another place of the same tool, or answers.
LEMMA EditGoes ==
  ASSUME Base, NEW c \in Calls, EditTyped(loc[c]), NEW w \in EditPlaces \union JsonPlaces, Goto(c, w), loc' = loc,
         EditOK(w, loc[c], files', touched'[c])
  PROVE  Own(c) /\ CallInv(c)'
<1>1. pc'[c] = w /\ loc'[c] = loc[c] /\ Own(c)
  BY GotoFacts DEF Own, Base
<1> QED
  BY <1>1, EditAt DEF CallInv

LEMMA EditSets ==
  ASSUME Base, NEW c \in Calls, EditTyped(loc[c]), NEW w \in EditPlaces \union JsonPlaces, Goto(c, w), NEW x, Set(c, [text |-> x])
  PROVE  /\ Own(c) /\ EditTyped(loc'[c]) /\ loc'[c].text = x /\ loc'[c].ask = loc[c].ask
         /\ EditOK(w, loc'[c], files', touched'[c]) => CallInv(c)'
<1>1. pc'[c] = w /\ DOMAIN pc' = Calls /\ \A d \in Calls \ {c} : pc'[d] = pc[d]
  BY GotoFacts
<1>2. /\ Keeps(c) /\ DOMAIN loc'[c] = DOMAIN loc[c]
      /\ \A f \in DOMAIN loc[c] : loc'[c][f] = IF f \in DOMAIN [text |-> x] THEN [text |-> x][f] ELSE loc[c][f]
  BY SetKeeps
<1>3. loc'[c].text = x /\ loc'[c].ask = loc[c].ask /\ loc'[c].kind = loc[c].kind
  BY <1>2 DEF EditTyped, EditFields
<1>4. EditTyped(loc'[c])
  BY <1>2, <1>3 DEF EditTyped
<1> QED
  BY <1>1, <1>2, <1>3, <1>4, EditAt DEF CallInv, Keeps, Own

LEMMA EditHere ==
  ASSUME NEW c \in Calls, CallInv(c), pc[c] \in EditPlaces \union JsonPlaces
  PROVE  EditTyped(loc[c]) /\ Target(c) \in Paths /\ EditOK(pc[c], loc[c], files, touched[c])
         /\ loc[c].kind \in {"edit", "json"} /\ Target(c) = loc[c].ask.path
<1>1. EditTyped(loc[c])
  BY DEF CallInv, CallTyped
<1> QED
  BY <1>1 DEF CallInv, EditTyped, Target, Knows

LEMMA MissingSteps ==
  ASSUME Base, NEW c \in Calls, CallInv(c), pc[c] \in EditPlaces, Missing(c)
  PROVE  Own(c) /\ CallInv(c)'
<1>1. EditTyped(loc[c]) /\ loc[c].kind \in {"edit", "json"}
  BY EditHere
<1>2. CASE Goto(c, "create") /\ loc' = loc
  <2>1. EditOK("create", loc[c], files', touched'[c])
    BY DEF EditOK
  <2> QED
    BY <1>1, <1>2, <2>1, EditGoes DEF EditPlaces
<1>3. CASE Answers(c, "refused")
  BY <1>1, <1>3, AnswersKeeps
<1> QED
  BY <1>2, <1>3 DEF Missing

LEMMA EditStatSteps ==
  ASSUME Base, NEW c \in Calls, CallInv(c), EditStat(c)
  PROVE  StepOK(c)
<1>1. pc[c] = "stat" /\ pc[c] \in EditPlaces
  BY DEF EditStat, Here, EditPlaces
<1>2. EditTyped(loc[c]) /\ Target(c) \in Paths /\ loc[c].kind \in {"edit", "json"} /\ Target(c) = loc[c].ask.path
  BY <1>1, EditHere
<1>3. Sound(c) /\ Untouched(c)
  BY LookingAtEffect DEF EditStat, Base
<1>4. CASE ~Exists(Target(c))
  <2>1. Missing(c)
    BY <1>4 DEF EditStat
  <2> QED
    BY <1>1, <1>3, <2>1, MissingSteps DEF StepOK
<1>5. CASE Exists(Target(c)) /\ files[Target(c)].is = "dir"
  <2>1. Answers(c, "refused")
    BY <1>5 DEF EditStat
  <2> QED
    BY <1>2, <1>3, <2>1, AnswersKeeps DEF StepOK
<1>6. CASE Exists(Target(c)) /\ files[Target(c)].is # "dir"
  <2>1. Goto(c, "load") /\ loc' = loc
    BY <1>6 DEF EditStat
  <2>2. EditOK("load", loc[c], files', touched'[c])
    BY <1>2, <1>3, <1>6 DEF EditOK, Untouched
  <2>3. Own(c) /\ CallInv(c)'
    BY <1>2, <2>1, <2>2, EditGoes DEF EditPlaces
  <2> QED
    BY <1>3, <2>3 DEF StepOK
<1> QED
  BY <1>4, <1>5, <1>6

LEMMA IsFile ==
  ASSUME DiskTyped, NEW p \in Paths, files[p].is \notin {"none", "dir"}
  PROVE  files[p] = File(files[p].text)
BY DEF DiskTyped, IsContent, File

LEMMA EditLoadSteps ==
  ASSUME Base, NEW c \in Calls, CallInv(c), EditLoad(c)
  PROVE  StepOK(c)
<1>1. pc[c] = "load" /\ pc[c] \in EditPlaces
  BY DEF EditLoad, Here, EditPlaces
<1>2. /\ EditTyped(loc[c]) /\ Target(c) \in Paths /\ Target(c) = loc[c].ask.path
      /\ EditOK("load", loc[c], files, touched[c])
  BY <1>1, EditHere
<1>3. Sound(c) /\ Untouched(c) /\ touched'[c] = touched[c]
  BY LookingEffect DEF EditLoad, Base
<1>4. CASE ~Exists(Target(c))
  <2>1. Missing(c)
    BY <1>4 DEF EditLoad
  <2> QED
    BY <1>1, <1>3, <2>1, MissingSteps DEF StepOK
<1>5. CASE Exists(Target(c))
  <2> DEFINE x == files[Target(c)].text
  <2>1. Goto(c, "compute") /\ Set(c, [text |-> x])
    BY <1>5 DEF EditLoad
  <2>2. x = files[Target(c)].text
    OBVIOUS
  <2> HIDE DEF x
  <2>3. /\ Own(c) /\ loc'[c].text = x /\ loc'[c].ask = loc[c].ask
        /\ EditOK("compute", loc'[c], files', touched'[c]) => CallInv(c)'
    BY <1>2, <2>1, EditSets DEF EditPlaces
  <2>4. files[Target(c)].is # "dir" => files[Target(c)] = File(x)
    BY <1>2, <1>5, <2>2, IsFile DEF Base, Exists
  <2>5. EditOK("compute", loc'[c], files', touched'[c])
    BY <1>2, <1>3, <2>3, <2>4 DEF EditOK, Untouched
  <2> QED
    BY <1>3, <2>3, <2>5 DEF StepOK
<1> QED
  BY <1>4, <1>5

LEMMA EditComputesSteps ==
  ASSUME Base, NEW c \in Calls, CallInv(c), EditComputes(c)
  PROVE  StepOK(c)
<1>1. pc[c] = "compute" /\ pc[c] \in EditPlaces
  BY DEF EditComputes, Here, EditPlaces
<1>2. /\ EditTyped(loc[c]) /\ loc[c].kind \in {"edit", "json"}
      /\ EditOK("compute", loc[c], files, touched[c])
  BY <1>1, EditHere
<1>3. Sound(c) /\ Untouched(c) /\ touched'[c] = touched[c]
  BY LookingEffect DEF EditComputes, Base
<1>4. CASE Answers(c, "refused")
  BY <1>2, <1>3, <1>4, AnswersKeeps DEF StepOK
<1>5. CASE Goto(c, "check") /\ loc' = loc
  <2>1. EditOK("check", loc[c], files', touched'[c])
    BY <1>2, <1>3 DEF EditOK, Untouched
  <2>2. Own(c) /\ CallInv(c)'
    BY <1>2, <1>5, <2>1, EditGoes DEF EditPlaces
  <2> QED
    BY <1>3, <2>2 DEF StepOK
<1> QED
  BY <1>4, <1>5 DEF EditComputes

LEMMA EditChecksSteps ==
  ASSUME Base, NEW c \in Calls, CallInv(c), EditChecks(c)
  PROVE  StepOK(c)
<1>1. pc[c] = "check" /\ pc[c] \in EditPlaces
  BY DEF EditChecks, Here, EditPlaces
<1>2. /\ EditTyped(loc[c]) /\ loc[c].kind \in {"edit", "json"} /\ Target(c) = loc[c].ask.path
      /\ EditOK("check", loc[c], files, touched[c])
  BY <1>1, EditHere
<1>3. Sound(c) /\ Untouched(c)
  BY LookingAtEffect DEF EditChecks, Base
<1>4. CASE ~Exists(Target(c)) \/ Target(c) \in touched[c]
  <2>1. Answers(c, "refused")
    BY <1>4 DEF EditChecks
  <2> QED
    BY <1>2, <1>3, <2>1, AnswersKeeps DEF StepOK
<1>5. CASE Exists(Target(c)) /\ Target(c) \notin touched[c]
  <2>1. Goto(c, "put") /\ loc' = loc
    BY <1>5 DEF EditChecks
  <2>2. EditOK("put", loc[c], files', touched'[c])
    BY <1>2, <1>3, <1>5 DEF EditOK, Untouched
  <2>3. Own(c) /\ CallInv(c)'
    BY <1>2, <2>1, <2>2, EditGoes DEF EditPlaces
  <2> QED
    BY <1>3, <2>3 DEF StepOK
<1> QED
  BY <1>4, <1>5

LEMMA FileIsContent == ASSUME NEW x PROVE IsContent(File(x)) /\ File(x).is = "file" /\ File(x).text = x
BY DEF IsContent, File

\* A write of an edit, a creation or a JSON rewrite: it lands or it fails.
LEMMA EditWrites ==
  ASSUME Base, NEW c \in Calls, CallInv(c), pc[c] \in EditPlaces \union JsonPlaces, NEW x,
         \/ Put(c, Target(c), File(x)) /\ Reliably /\ Set(c, [text |-> x]) /\ Goto(c, "record")
         \/ Put(c, Target(c), File(x)) /\ Reliably /\ Answers(c, "applied")
         \/ PutFails(c, Target(c), File(x)) /\ Answers(c, "failed")
  PROVE  StepOK(c)
<1>1. EditTyped(loc[c]) /\ Target(c) \in Paths /\ loc[c].kind \in {"edit", "json"} /\ Target(c) = loc[c].ask.path
  BY EditHere
<1>2. pc[c] # "idle"
  BY DEF EditPlaces, JsonPlaces
<1>3. CASE Put(c, Target(c), File(x)) /\ Reliably
  <2>1. left' \in [faults : Nat, edits : Nat]
    BY <1>3 DEF Reliably, Base, DiskTyped
  <2> DEFINE y == File(x)
  <2>2. IsContent(y) /\ Put(c, Target(c), y)
    BY <1>3, FileIsContent
  <2>3. Sound(c) /\ PutsAt(c, Target(c), y)
    <3> HIDE DEF y
    <3> QED
      BY <1>1, <2>1, <2>2, PutEffect DEF Base
  <2>4. CASE Set(c, [text |-> x]) /\ Goto(c, "record")
    <3>1. /\ Own(c) /\ loc'[c].text = x /\ loc'[c].ask = loc[c].ask
          /\ EditOK("record", loc'[c], files', touched'[c]) => CallInv(c)'
      BY <1>1, <2>4, EditSets DEF EditPlaces
    <3>2. EditOK("record", loc'[c], files', touched'[c])
      BY <1>1, <2>3, <3>1 DEF EditOK, PutsAt
    <3> QED
      BY <2>3, <3>1, <3>2 DEF StepOK
  <2>5. CASE Answers(c, "applied")
    BY <1>1, <2>3, <2>5, AnswersKeeps DEF StepOK
  <2>6. CASE ~(Set(c, [text |-> x]) /\ Goto(c, "record")) /\ ~Answers(c, "applied")
    <3>1. PutFails(c, Target(c), File(x)) /\ Answers(c, "failed")
      BY <2>6
    <3>2. Sound(c)
      BY <1>1, <1>2, <3>1, PutFailsEffect DEF Base
    <3> QED
      BY <1>1, <3>1, <3>2, AnswersKeeps DEF StepOK
  <2> QED
    BY <2>4, <2>5, <2>6
<1>4. CASE ~(Put(c, Target(c), File(x)) /\ Reliably)
  <2>1. PutFails(c, Target(c), File(x)) /\ Answers(c, "failed")
    BY <1>4
  <2>2. Sound(c)
    BY <1>1, <1>2, <2>1, PutFailsEffect DEF Base
  <2> QED
    BY <1>1, <2>1, <2>2, AnswersKeeps DEF StepOK
<1> QED
  BY <1>3, <1>4

LEMMA EditPutsSteps ==
  ASSUME Base, NEW c \in Calls, CallInv(c), EditPuts(c) \/ Creates(c)
  PROVE  StepOK(c)
<1>1. CASE EditPuts(c)
  <2> DEFINE x == Edited(c)
  <2>1. \/ Put(c, Target(c), File(x)) /\ Reliably /\ Set(c, [text |-> x]) /\ Goto(c, "record")
        \/ PutFails(c, Target(c), File(x)) /\ Answers(c, "failed")
    BY <1>1 DEF EditPuts
  <2>2. pc[c] \in EditPlaces
    BY <1>1 DEF EditPuts, Here, EditPlaces
  <2> HIDE DEF x
  <2> QED
    BY <2>1, <2>2, EditWrites
<1>2. CASE Creates(c)
  <2> DEFINE x == <<loc[c].ask.new>>
  <2>1. \/ Put(c, Target(c), File(x)) /\ Reliably /\ Set(c, [text |-> x]) /\ Goto(c, "record")
        \/ PutFails(c, Target(c), File(x)) /\ Answers(c, "failed")
    BY <1>2 DEF Creates
  <2>2. pc[c] \in EditPlaces
    BY <1>2 DEF Creates, Here, EditPlaces
  <2> HIDE DEF x
  <2> QED
    BY <2>1, <2>2, EditWrites
<1> QED
  BY <1>1, <1>2

LEMMA EditRecordsSteps ==
  ASSUME Base, NEW c \in Calls, CallInv(c), EditRecords(c)
  PROVE  StepOK(c)
<1>1. pc[c] = "record" /\ pc[c] \in EditPlaces
  BY DEF EditRecords, Here, EditPlaces
<1>2. /\ EditTyped(loc[c]) /\ loc[c].kind \in {"edit", "json"} /\ Target(c) = loc[c].ask.path
      /\ EditOK("record", loc[c], files, touched[c])
  BY <1>1, EditHere
<1>3. CASE Exists(Target(c))
  <2> DEFINE texts == [p \in {Target(c)} |-> loc[c].text]
  <2>1. Answers(c, "applied") /\ Record(c, texts)
    BY <1>3 DEF EditRecords
  <2>2. DOMAIN texts = {Target(c)} /\ texts[Target(c)] = loc[c].text
    OBVIOUS
  <2>3. Target(c) \notin touched[c] => files[Target(c)].text = loc[c].text
    BY <1>2, FileIsContent DEF EditOK
  <2> HIDE DEF texts
  <2>4. \A p \in Paths \cap DOMAIN texts : files[p].is = "file" /\ p \notin touched[c] => files[p].text = texts[p]
    BY <2>2, <2>3
  <2>5. Sound(c)
    BY <2>1, <2>4, RecordEffect DEF Base
  <2> QED
    BY <1>2, <2>1, <2>5, AnswersKeeps DEF StepOK
<1>4. CASE ~Exists(Target(c))
  <2>1. Answers(c, "failed") /\ Looking
    BY <1>4 DEF EditRecords
  <2>2. Sound(c)
    BY <2>1, LookingEffect DEF Base
  <2> QED
    BY <1>2, <2>1, <2>2, AnswersKeeps DEF StepOK
<1> QED
  BY <1>3, <1>4

LEMMA EditToolSteps ==
  ASSUME Base, NEW c \in Calls, CallInv(c), EditStep(c)
  PROVE  StepOK(c)
BY EditStatSteps, EditLoadSteps, EditComputesSteps, EditChecksSteps, EditPutsSteps, EditRecordsSteps DEF EditStep

LEMMA JsonLoadsSteps ==
  ASSUME Base, NEW c \in Calls, CallInv(c), JsonLoads(c)
  PROVE  StepOK(c)
<1>1. pc[c] = "parse" /\ pc[c] \in JsonPlaces
  BY DEF JsonLoads, Here, JsonPlaces
<1>2. EditTyped(loc[c]) /\ loc[c].kind \in {"edit", "json"}
  BY <1>1, EditHere
<1>3. Sound(c)
  BY LookingAtEffect DEF JsonLoads, Base
<1>4. CASE Answers(c, "refused")
  BY <1>2, <1>3, <1>4, AnswersKeeps DEF StepOK
<1>5. CASE ~Answers(c, "refused")
  <2> DEFINE x == files[Target(c)].text
  <2>1. Goto(c, "compare") /\ Set(c, [text |-> x])
    BY <1>5 DEF JsonLoads
  <2> HIDE DEF x
  <2>2. Own(c) /\ (EditOK("compare", loc'[c], files', touched'[c]) => CallInv(c)')
    BY <1>2, <2>1, EditSets DEF JsonPlaces
  <2>3. EditOK("compare", loc'[c], files', touched'[c])
    BY DEF EditOK
  <2> QED
    BY <1>3, <2>2, <2>3 DEF StepOK
<1> QED
  BY <1>4, <1>5

LEMMA JsonComparesSteps ==
  ASSUME Base, NEW c \in Calls, CallInv(c), JsonCompares(c)
  PROVE  StepOK(c)
<1>1. pc[c] = "compare" /\ pc[c] \in JsonPlaces
  BY DEF JsonCompares, Here, JsonPlaces
<1>2. EditTyped(loc[c]) /\ loc[c].kind \in {"edit", "json"} /\ Target(c) = loc[c].ask.path
  BY <1>1, EditHere
<1>3. Sound(c) /\ Untouched(c)
  BY LookingAtEffect DEF JsonCompares, Base
<1>4. CASE ~Unchanged(c)
  <2>1. Answers(c, "refused")
    BY <1>4 DEF JsonCompares
  <2> QED
    BY <1>2, <1>3, <2>1, AnswersKeeps DEF StepOK
<1>5. CASE Unchanged(c)
  <2>1. Goto(c, "replace") /\ loc' = loc
    BY <1>5 DEF JsonCompares
  <2>2. EditOK("replace", loc[c], files', touched'[c])
    BY <1>2, <1>3, <1>5 DEF EditOK, Untouched, Unchanged
  <2>3. Own(c) /\ CallInv(c)'
    BY <1>2, <2>1, <2>2, EditGoes DEF JsonPlaces
  <2> QED
    BY <1>3, <2>3 DEF StepOK
<1> QED
  BY <1>4, <1>5

LEMMA JsonReplacesSteps ==
  ASSUME Base, NEW c \in Calls, CallInv(c), JsonReplaces(c)
  PROVE  StepOK(c)
<1>1. pc[c] = "replace" /\ pc[c] \in JsonPlaces
  BY DEF JsonReplaces, Here, JsonPlaces
<1>2. loc[c].kind \in {"edit", "json"}
  BY <1>1, EditHere
<1>3. CASE files[Target(c)].is = "dir"
  <2>1. Answers(c, "failed") /\ Looking
    BY <1>3 DEF JsonReplaces
  <2>2. Sound(c)
    BY <2>1, LookingEffect DEF Base
  <2> QED
    BY <1>2, <2>1, <2>2, AnswersKeeps DEF StepOK
<1>4. CASE files[Target(c)].is # "dir"
  <2> DEFINE x == Edited(c)
  <2>1. \/ Put(c, Target(c), File(x)) /\ Reliably /\ Answers(c, "applied")
        \/ PutFails(c, Target(c), File(x)) /\ Answers(c, "failed")
    BY <1>4 DEF JsonReplaces
  <2> HIDE DEF x
  <2> QED
    BY <1>1, <2>1, EditWrites
<1> QED
  BY <1>3, <1>4

LEMMA JsonToolSteps ==
  ASSUME Base, NEW c \in Calls, CallInv(c), JsonStep(c)
  PROVE  StepOK(c)
BY JsonLoadsSteps, JsonComparesSteps, JsonReplacesSteps DEF JsonStep

LEMMA ReadToolSteps ==
  ASSUME Base, NEW c \in Calls, CallInv(c), ReadStep(c)
  PROVE  StepOK(c)
<1> DEFINE p == loc[c].path
<1>1. ReadTyped(loc[c]) /\ loc[c].kind = "read" /\ p \in Paths
  <2>1. pc[c] \in ReadPlaces
    BY DEF ReadStep, Here, ReadPlaces
  <2> QED
    BY <2>1 DEF CallInv, CallTyped, ReadTyped
<1>2. CASE Here(c, "look") /\ files[p].is = "file"
  <2> DEFINE texts == [q \in {p} |-> files[q].text]
  <2>1. Goto(c, "stream") /\ loc' = loc /\ Record(c, texts)
    BY <1>2 DEF ReadStep, Here
  <2>2. \A q \in Paths \cap DOMAIN texts : files[q].is = "file" /\ q \notin touched[c] => files[q].text = texts[q]
    OBVIOUS
  <2> HIDE DEF texts
  <2>3. Sound(c)
    BY <2>1, <2>2, RecordEffect DEF Base
  <2>4. pc'[c] = "stream" /\ loc'[c] = loc[c] /\ Own(c)
    BY <2>1, GotoFacts DEF Own, Base
  <2>5. CallInv(c)'
    BY <1>1, <2>4, ReadAt DEF CallInv, ReadPlaces
  <2> QED
    BY <2>3, <2>4, <2>5 DEF StepOK
<1>3. CASE Here(c, "look") /\ files[p].is # "file"
  <2>1. Answers(c, "refused") /\ Looking
    BY <1>3 DEF ReadStep, Here
  <2>2. Sound(c)
    BY <2>1, LookingEffect DEF Base
  <2> QED
    BY <1>1, <2>1, <2>2, AnswersKeeps DEF StepOK
<1>4. CASE Here(c, "stream")
  <2>1. /\ \/ files[p].is = "file" /\ Answers(c, "read") /\ shown' = [shown EXCEPT ![p] = files[p].text]
           \/ Answers(c, "failed") /\ shown' = shown
        /\ files' = files /\ cache' = cache /\ touched' = touched /\ disturbed' = disturbed /\ left' = left
    BY <1>4 DEF ReadStep, Here
  <2>2. DiskTyped'
    BY <2>1 DEF Base, DiskTyped
  <2>3. FreshMeansSeen'
    <3>1. \A q \in Paths : shown'[q] = shown[q] \/ shown'[q] = files[q].text
      BY <2>1 DEF Base, DiskTyped
    <3> QED
      BY <2>1, <3>1 DEF Base, FreshMeansSeen
  <2>4. Sound(c)
    BY <2>1, <2>2, <2>3 DEF Sound, DiskFor
  <2>5. Own(c) /\ CallInv(c)'
    BY <1>1, <2>1, AnswersKeeps
  <2> QED
    BY <2>4, <2>5 DEF StepOK
<1> QED
  BY <1>2, <1>3, <1>4 DEF ReadStep

-----------------------------------------------------------------------------
(* The steps of the archive tool.                                          *)

LEMMA ExtractAt ==
  ASSUME NEW w \in ExtractPlaces, NEW l, ExtractTyped(w, l), NEW fs, NEW t, UnpackOK(w, l, fs, t)
  PROVE  CallTyped(w, l) /\ Knows(w, l, fs, t) /\ (ExtractOK(w, l, fs) => Alone(w, l, fs))
<1>1. CallTyped(w, l)
  BY DEF CallTyped, Places, PatchPlaces, EditPlaces, JsonPlaces, ReadPlaces, ExtractPlaces, CreatePlaces
<1>2. Knows(w, l, fs, t)
  BY DEF Knows, RollOK, DeltaOK, EditOK, ExtractPlaces
<1>3. NativeOK(w, l, fs)
  BY DEF NativeOK, Sure, ExtractTyped
<1> QED
  BY <1>1, <1>2, <1>3 DEF Alone

LEMMA ExtractDone ==
  ASSUME NEW l, ExtractTyped("done", l), NEW fs, NEW t
  PROVE  CallTyped("done", l) /\ Knows("done", l, fs, t) /\ (ExtractOK("done", l, fs) => Alone("done", l, fs))
<1>1. CallTyped("done", l)
  <2>1. {"kind", "answer"} \subseteq DOMAIN l
    BY DEF ExtractTyped, ExtractFields
  <2> QED
    BY <2>1 DEF CallTyped, Places, PatchPlaces, EditPlaces, JsonPlaces, ReadPlaces, ExtractPlaces, CreatePlaces
<1>2. Knows("done", l, fs, t)
  BY DEF Knows, RollOK, DeltaOK, EditOK, UnpackOK
<1>3. NativeOK("done", l, fs)
  BY DEF NativeOK, Sure, ExtractTyped
<1> QED
  BY <1>1, <1>2, <1>3 DEF Alone

LEMMA CreateAt ==
  ASSUME NEW w \in CreatePlaces, NEW l, CreateTyped(l), NEW fs, NEW t
  PROVE  CallTyped(w, l) /\ Knows(w, l, fs, t) /\ Alone(w, l, fs)
<1>1. CallTyped(w, l)
  BY DEF CallTyped, Places, PatchPlaces, EditPlaces, JsonPlaces, ReadPlaces, ExtractPlaces, CreatePlaces
<1>2. Knows(w, l, fs, t)
  BY DEF Knows, RollOK, DeltaOK, EditOK, UnpackOK, CreatePlaces
<1>3. Alone(w, l, fs)
  BY DEF Alone, NativeOK, Sure, ExtractOK, CreateTyped
<1> QED
  BY <1>1, <1>2, <1>3

LEMMA ExtractHere ==
  ASSUME NEW c \in Calls, CallInv(c), pc[c] \in ExtractPlaces
  PROVE  /\ ExtractTyped(pc[c], loc[c]) /\ UnpackOK(pc[c], loc[c], files, touched[c])
         /\ c \notin disturbed => ExtractOK(pc[c], loc[c], files)
         /\ loc[c].at <= Len(Members(c)) => Entry(c).name \in Paths /\ Entry(c) = loc[c].ask.members[loc[c].at]
         /\ Members(c) = loc[c].ask.members /\ Len(Members(c)) \in Nat /\ DOMAIN Members(c) = 1..Len(Members(c))
         /\ loc[c].at \in Nat
<1>1. ExtractTyped(pc[c], loc[c])
  BY DEF CallInv, CallTyped
<1>2. Members(c) = loc[c].ask.members /\ Len(Members(c)) \in Nat /\ DOMAIN Members(c) = 1..Len(Members(c))
  BY <1>1, SeqFacts DEF ExtractTyped, Members
<1>3. loc[c].at \in Nat /\ (loc[c].at <= Len(Members(c)) => loc[c].at \in 1..Len(loc[c].ask.members))
  BY <1>1, <1>2 DEF ExtractTyped
<1> QED
  BY <1>1, <1>2, <1>3 DEF CallInv, Knows, Alone, Entry, ExtractTyped

\* Only the place in the archive and the counts change.
SameArchive(l, m) == m.ask = l.ask /\ m.holds = l.holds /\ m.before = l.before /\ m.kind = l.kind

LEMMA CountsFacts ==
  ASSUME Base, NEW c \in Calls, ExtractTyped(pc[c], loc[c]), pc[c] \in ExtractPlaces, loc[c].at <= Len(Members(c)),
         NEW k \in Counted, Counts(c, k)
  PROVE  /\ Own(c) /\ pc'[c] = "entry" /\ ExtractTyped("entry", loc'[c]) /\ SameArchive(loc[c], loc'[c])
         /\ loc'[c].at = loc[c].at + 1 /\ loc[c].at \in Nat
<1> DEFINE values == [count |-> Tally(c, k), at |-> loc[c].at + 1]
<1>1. Goto(c, "entry") /\ Set(c, values)
  BY DEF Counts
<1>2. DOMAIN values = {"count", "at"} /\ values["count"] = Tally(c, k) /\ values["at"] = loc[c].at + 1
  OBVIOUS
<1> HIDE DEF values
<1>3. /\ Keeps(c) /\ DOMAIN loc'[c] = DOMAIN loc[c]
      /\ \A f \in DOMAIN loc[c] : loc'[c][f] = IF f \in DOMAIN values THEN values[f] ELSE loc[c][f]
  BY <1>1, SetKeeps
<1>4. /\ loc'[c].count = Tally(c, k) /\ loc'[c].at = loc[c].at + 1
      /\ SameArchive(loc[c], loc'[c]) /\ loc'[c].answer = loc[c].answer
  BY <1>2, <1>3 DEF ExtractTyped, ExtractFields, SameArchive
<1>5. Own(c) /\ pc'[c] = "entry"
  BY <1>1, <1>3, GotoFacts DEF Own, Keeps
<1>6. Tally(c, k) \in [Counted -> Nat] /\ Accounted(Tally(c, k)) = Accounted(loc[c].count) + 1
  <2>1. loc[c].count \in [Counted -> Nat]
    BY DEF ExtractTyped
  <2>2. PICK n \in [Counted -> Nat] : n = loc[c].count
    BY <2>1
  <2>3. Tally(c, k) = [n EXCEPT ![k] = @ + 1]
    BY <2>2 DEF Tally
  <2> DEFINE m == Tally(c, k)
  <2>4. m \in [Counted -> Nat] /\ \A x \in Counted : m[x] = IF x = k THEN n[x] + 1 ELSE n[x]
    BY <2>3
  <2> HIDE DEF m
  <2>5. \A x \in Counted : n[x] \in Nat
    OBVIOUS
  <2>6. Accounted(m) = Accounted(n) + 1
    <3>1. PICK a \in Nat, b \in Nat, d \in Nat, e \in Nat, f \in Nat, g \in Nat :
             /\ a = n.extracted /\ b = n.dirs /\ d = n.skipped /\ e = n.links /\ f = n.blocked /\ g = n.errors
      BY <2>5 DEF Counted
    <3>2. /\ m.extracted = IF k = "extracted" THEN a + 1 ELSE a
          /\ m.dirs = IF k = "dirs" THEN b + 1 ELSE b
          /\ m.skipped = IF k = "skipped" THEN d + 1 ELSE d
          /\ m.links = IF k = "links" THEN e + 1 ELSE e
          /\ m.blocked = IF k = "blocked" THEN f + 1 ELSE f
          /\ m.errors = IF k = "errors" THEN g + 1 ELSE g
      BY <2>4, <3>1 DEF Counted
    <3>3. Accounted(n) = a + b + d + e + f + g
      BY <3>1 DEF Accounted
    <3>4. k \in {"extracted", "dirs", "skipped", "links", "blocked", "errors"}
      BY DEF Counted
    <3>5. CASE k = "extracted"
      <4>1. m.extracted = a + 1 /\ m.dirs = b /\ m.skipped = d /\ m.links = e /\ m.blocked = f /\ m.errors = g
        BY <3>2, <3>5
      <4>2. Accounted(m) = (a + 1) + b + d + e + f + g
        BY <4>1 DEF Accounted
      <4> QED
        BY <3>3, <4>2, SMTT(30)
    <3>6. CASE k = "dirs"
      <4>1. m.extracted = a /\ m.dirs = b + 1 /\ m.skipped = d /\ m.links = e /\ m.blocked = f /\ m.errors = g
        BY <3>2, <3>6
      <4>2. Accounted(m) = a + (b + 1) + d + e + f + g
        BY <4>1 DEF Accounted
      <4> QED
        BY <3>3, <4>2, SMTT(30)
    <3>7. CASE k = "skipped"
      <4>1. m.extracted = a /\ m.dirs = b /\ m.skipped = d + 1 /\ m.links = e /\ m.blocked = f /\ m.errors = g
        BY <3>2, <3>7
      <4>2. Accounted(m) = a + b + (d + 1) + e + f + g
        BY <4>1 DEF Accounted
      <4> QED
        BY <3>3, <4>2, SMTT(30)
    <3>8. CASE k = "links"
      <4>1. m.extracted = a /\ m.dirs = b /\ m.skipped = d /\ m.links = e + 1 /\ m.blocked = f /\ m.errors = g
        BY <3>2, <3>8
      <4>2. Accounted(m) = a + b + d + (e + 1) + f + g
        BY <4>1 DEF Accounted
      <4> QED
        BY <3>3, <4>2, SMTT(30)
    <3>9. CASE k = "blocked"
      <4>1. m.extracted = a /\ m.dirs = b /\ m.skipped = d /\ m.links = e /\ m.blocked = f + 1 /\ m.errors = g
        BY <3>2, <3>9
      <4>2. Accounted(m) = a + b + d + e + (f + 1) + g
        BY <4>1 DEF Accounted
      <4> QED
        BY <3>3, <4>2, SMTT(30)
    <3>10. CASE k = "errors"
      <4>1. m.extracted = a /\ m.dirs = b /\ m.skipped = d /\ m.links = e /\ m.blocked = f /\ m.errors = g + 1
        BY <3>2, <3>10
      <4>2. Accounted(m) = a + b + d + e + f + (g + 1)
        BY <4>1 DEF Accounted
      <4> QED
        BY <3>3, <4>2, SMTT(30)
    <3> QED
      BY <3>4, <3>5, <3>6, <3>7, <3>8, <3>9, <3>10
  <2> QED
    BY <2>2, <2>4, <2>6 DEF m
<1>7. loc[c].at \in Nat /\ loc[c].at + 1 \in 1..(Len(loc[c].ask.members) + 1)
  <2>1. IsSeq(loc[c].ask.members) /\ Members(c) = loc[c].ask.members /\ loc[c].at \in 1..(Len(loc[c].ask.members) + 1)
    BY DEF ExtractTyped, Members
  <2>2. Len(loc[c].ask.members) \in Nat
    BY <2>1, SeqFacts
  <2> QED
    BY <2>1, <2>2
<1>8. ExtractTyped("entry", loc'[c])
  <2>1. loc'[c].count \in [Counted -> Nat] /\ Accounted(loc'[c].count) = loc'[c].at - 1
    BY <1>4, <1>6, <1>7 DEF ExtractTyped
  <2>2. loc'[c].answer = "none"
    BY <1>4 DEF ExtractTyped, ExtractPlaces
  <2> QED
    BY <1>3, <1>4, <1>7, <2>1, <2>2 DEF ExtractTyped, SameArchive
<1> QED
  BY <1>4, <1>5, <1>7, <1>8

LEMMA AbortsFacts ==
  ASSUME Base, NEW c \in Calls, ExtractTyped(pc[c], loc[c]), Aborts(c)
  PROVE  Own(c) /\ CallInv(c)'
<1> DEFINE values == [answer |-> "failed"]
<1>1. Goto(c, "done") /\ Set(c, values)
  BY DEF Aborts
<1>2. DOMAIN values = {"answer"} /\ values["answer"] = "failed"
  OBVIOUS
<1> HIDE DEF values
<1>3. /\ Keeps(c) /\ DOMAIN loc'[c] = DOMAIN loc[c]
      /\ \A f \in DOMAIN loc[c] : loc'[c][f] = IF f \in DOMAIN values THEN values[f] ELSE loc[c][f]
  BY <1>1, SetKeeps
<1>4. /\ loc'[c].answer = "failed" /\ loc'[c].count = loc[c].count /\ loc'[c].at = loc[c].at
      /\ SameArchive(loc[c], loc'[c])
  BY <1>2, <1>3 DEF ExtractTyped, ExtractFields, SameArchive
<1>5. Own(c) /\ pc'[c] = "done"
  BY <1>1, <1>3, GotoFacts DEF Own, Keeps
<1>6. ExtractTyped("done", loc'[c])
  BY <1>3, <1>4 DEF ExtractTyped, SameArchive
<1>7. ExtractOK("done", loc'[c], files')
  BY <1>4 DEF ExtractOK
<1> QED
  BY <1>5, <1>6, <1>7, ExtractDone DEF CallInv

LEMMA SameOnly ==
  ASSUME NEW l, NEW m, SameArchive(l, m), NEW p
  PROVE  /\ OnlyIn(m, p) <=> OnlyIn(l, p)
         /\ Held(m, p) = Held(l, p)
         /\ \A fs : LastText(m, fs, p) <=> LastText(l, fs, p)
<1>1. Held(m, p) = Held(l, p)
  BY DEF Held, SameArchive
<1>2. m.holds = l.holds /\ m.ask = l.ask
  BY DEF SameArchive
<1> QED
  BY <1>1, <1>2 DEF OnlyIn, LastText

\* How far an extraction has got with the file p, after one more member.
LEMMA OneMore ==
  ASSUME NEW l, NEW m, SameArchive(l, m), l.at \in Nat, m.at = l.at + 1, NEW p \in Paths, NEW fs, NEW fs2, Extracted(l, fs, p),
         NEW e, e = l.ask.members[l.at],
         \/ fs2[p] = fs[p] /\ e.name # p
         \/ fs2[p] = fs[p] /\ l.ask.format # "system" /\ (e.unsafe \/ fs[p].is # "none")
         \/ LastText(l, fs2, p) /\ l.ask.format # "system"
         \/ fs2[p] = File(e.text) /\ e.name = p /\ l.ask.format = "system"
  PROVE  Extracted(m, fs2, p)
<1>1. m.ask = l.ask /\ m.before = l.before /\ (LastText(m, fs2, p) <=> LastText(l, fs2, p))
  BY SameOnly DEF SameArchive
<1>2. CASE l.ask.format # "system"
  <2>1. fs2[p] = fs[p] => (LastText(l, fs, p) <=> LastText(l, fs2, p))
    BY DEF LastText
  <2>2. fs2[p] = l.before[p] \/ fs2[p].is = "dir" \/ LastText(m, fs2, p)
    BY <1>1, <1>2, <2>1 DEF Extracted
  <2>3. ASSUME NEW i \in 1..(m.at - 1), l.ask.members[i].name = p, ~l.ask.members[i].unsafe
        PROVE  (fs2[p] = l.before[p] /\ l.before[p] # Nowhere) \/ fs2[p].is = "dir" \/ LastText(m, fs2, p)
    <3>1. CASE LastText(l, fs2, p)
      BY <1>1, <3>1
    <3>2. CASE fs2[p] = fs[p] /\ i # l.at
      <4>1. i \in 1..(l.at - 1)
        BY <2>3, <3>2
      <4> QED
        BY <1>1, <1>2, <2>1, <2>3, <3>2, <4>1 DEF Extracted
    <3>3. CASE fs2[p] = fs[p] /\ i = l.at /\ ~LastText(l, fs2, p)
      <4>1. fs[p].is # "none"
        BY <1>2, <2>3, <3>3
      <4>2. fs[p] # Nowhere
        BY <4>1 DEF Nowhere
      <4> QED
        BY <2>2, <3>3, <4>2
    <3> QED
      BY <1>2, <3>1, <3>2, <3>3
  <2> QED
    BY <1>1, <1>2, <2>2, <2>3 DEF Extracted
<1>3. CASE l.ask.format = "system"
  <2>1. ASSUME NEW i \in 1..(m.at - 1), l.ask.members[i].name = p, \A k \in (i + 1)..(m.at - 1) : l.ask.members[k].name # p
        PROVE  fs2[p] = File(l.ask.members[i].text)
    <3>1. CASE i = l.at
      BY <1>3, <2>1, <3>1
    <3>2. CASE i # l.at
      <4>1. i \in 1..(l.at - 1) /\ l.at \in (i + 1)..(m.at - 1)
        BY <2>1, <3>2
      <4>2. e.name # p
        BY <2>1, <4>1
      <4>3. \A k \in (i + 1)..(l.at - 1) : l.ask.members[k].name # p
        BY <2>1
      <4>4. fs2[p] = fs[p]
        BY <1>3, <4>2
      <4> QED
        BY <1>3, <2>1, <4>1, <4>4, <4>3 DEF Extracted
    <3> QED
      BY <3>1, <3>2
  <2> QED
    BY <1>1, <1>3, <2>1 DEF Extracted
<1> QED
  BY <1>2, <1>3

\* A counted member: what remains is to say what became of its file.
LEMMA CountsSteps ==
  ASSUME Base, NEW c \in Calls, CallInv(c), pc[c] \in ExtractPlaces \ {"list"}, loc[c].at <= Len(Members(c)),
         NEW k \in Counted, Counts(c, k), Sound(c),
         c \notin disturbed' => c \notin disturbed,
         c \notin disturbed => \A p \in Paths : OnlyIn(loc[c], p) =>
            \/ files'[p] = files[p] /\ Entry(c).name # p
            \/ files'[p] = files[p] /\ loc[c].ask.format # "system" /\ (Entry(c).unsafe \/ files[p].is # "none")
            \/ LastText(loc[c], files', p) /\ loc[c].ask.format # "system"
            \/ files'[p] = File(Entry(c).text) /\ Entry(c).name = p /\ loc[c].ask.format = "system"
  PROVE  StepOK(c)
<1>1. ExtractTyped(pc[c], loc[c]) /\ pc[c] \in ExtractPlaces /\ Entry(c) = loc[c].ask.members[loc[c].at]
      /\ (c \notin disturbed => ExtractOK(pc[c], loc[c], files))
  BY ExtractHere
<1>2. /\ Own(c) /\ pc'[c] = "entry" /\ ExtractTyped("entry", loc'[c]) /\ SameArchive(loc[c], loc'[c])
      /\ loc'[c].at = loc[c].at + 1 /\ loc[c].at \in Nat
  BY <1>1, CountsFacts
<1>3. UnpackOK("entry", loc'[c], files', touched'[c])
  BY DEF UnpackOK
<1>4. ASSUME c \notin disturbed' PROVE ExtractOK("entry", loc'[c], files')
  <2> SUFFICES ASSUME NEW p \in Paths, OnlyIn(loc'[c], p) PROVE Extracted(loc'[c], files', p)
    BY DEF ExtractOK
  <2>1. OnlyIn(loc[c], p)
    BY <1>2, SameOnly
  <2>2. Extracted(loc[c], files, p)
    BY <1>1, <1>4, <2>1 DEF ExtractOK, ExtractPlaces, ExtractTyped
  <2>3. c \notin disturbed /\ Entry(c) = loc[c].ask.members[loc[c].at]
    BY <1>1, <1>4
  <2>4. \/ files'[p] = files[p] /\ Entry(c).name # p
        \/ files'[p] = files[p] /\ loc[c].ask.format # "system" /\ (Entry(c).unsafe \/ files[p].is # "none")
        \/ LastText(loc[c], files', p) /\ loc[c].ask.format # "system"
        \/ files'[p] = File(Entry(c).text) /\ Entry(c).name = p /\ loc[c].ask.format = "system"
    BY <2>1, <2>3
  <2> QED
    BY <1>2, <2>2, <2>3, <2>4, OneMore
<1>5. CallInv(c)'
  BY <1>2, <1>3, <1>4, ExtractAt DEF CallInv, ExtractPlaces
<1> QED
  BY <1>2, <1>5 DEF StepOK

\* A member that is to be looked at further: nothing has changed.
LEMMA ExtractGoes ==
  ASSUME Base, NEW c \in Calls, CallInv(c), pc[c] \in ExtractPlaces \ {"list"}, NEW w \in ExtractPlaces \ {"list"},
         ExtractTyped(w, loc[c]), UnpackOK(w, loc[c], files', touched'[c]),
         Goto(c, w), loc' = loc, Sound(c), Untouched(c)
  PROVE  StepOK(c)
<1>1. pc'[c] = w /\ loc'[c] = loc[c] /\ Own(c)
  BY GotoFacts DEF Own, Base
<1>2. c \notin disturbed' => ExtractOK(w, loc[c], files')
  <2>1. ExtractTyped(pc[c], loc[c]) /\ (c \notin disturbed => ExtractOK(pc[c], loc[c], files))
    BY ExtractHere
  <2> QED
    BY <2>1 DEF ExtractOK, Untouched, ExtractPlaces
<1>3. CallInv(c)'
  BY <1>1, <1>2, ExtractAt DEF CallInv
<1> QED
  BY <1>1, <1>3 DEF StepOK

LEMMA ListsSteps ==
  ASSUME Base, NEW c \in Calls, CallInv(c), Lists(c)
  PROVE  StepOK(c)
<1>1. pc[c] = "list" /\ pc[c] \in ExtractPlaces
  BY DEF Lists, Here, ExtractPlaces
<1>2. /\ ExtractTyped("list", loc[c]) /\ Members(c) = loc[c].ask.members
      /\ (c \notin disturbed => ExtractOK("list", loc[c], files))
  BY <1>1, ExtractHere
<1>3. Sound(c) /\ Untouched(c)
  BY LookingEffect DEF Lists, Base
<1>4. CASE Aborts(c)
  BY <1>1, <1>2, <1>3, <1>4, AbortsFacts DEF StepOK
<1>5. CASE ~Aborts(c)
  <2>1. PICK h \in {Members(c), loc[c].ask.again} : Goto(c, "entry") /\ Set(c, [holds |-> h])
    BY <1>5 DEF Lists
  <2> DEFINE values == [holds |-> h]
  <2>2. DOMAIN values = {"holds"} /\ values["holds"] = h
    OBVIOUS
  <2>3. Set(c, values)
    BY <2>1
  <2> HIDE DEF values
  <2>4. /\ Keeps(c) /\ DOMAIN loc'[c] = DOMAIN loc[c]
        /\ \A f \in DOMAIN loc[c] : loc'[c][f] = IF f \in DOMAIN values THEN values[f] ELSE loc[c][f]
    BY <2>3, SetKeeps
  <2>5. /\ loc'[c].holds = h /\ loc'[c].ask = loc[c].ask /\ loc'[c].before = loc[c].before /\ loc'[c].kind = loc[c].kind
        /\ loc'[c].at = loc[c].at /\ loc'[c].count = loc[c].count /\ loc'[c].answer = loc[c].answer
    BY <1>2, <2>2, <2>4 DEF ExtractTyped, ExtractFields
  <2>6. IsSeq(h)
    BY <1>2 DEF ExtractTyped
  <2>7. ExtractTyped("entry", loc'[c])
    BY <1>2, <2>4, <2>5, <2>6 DEF ExtractTyped
  <2>8. Own(c) /\ pc'[c] = "entry"
    BY <2>1, <2>4, GotoFacts DEF Own, Keeps
  <2>9. c \notin disturbed' => ExtractOK("entry", loc'[c], files')
    <3> SUFFICES ASSUME c \notin disturbed' PROVE ExtractOK("entry", loc'[c], files')
      OBVIOUS
    <3>1. files' = loc'[c].before /\ loc'[c].at = 1
      BY <1>2, <1>3, <2>5 DEF ExtractOK, Untouched, ExtractTyped
    <3>2. \A i : ~(i \in 1..(loc'[c].at - 1))
      BY <3>1
    <3>3. \A p \in Paths : Extracted(loc'[c], files', p)
      BY <3>1, <3>2 DEF Extracted
    <3> QED
      BY <3>3 DEF ExtractOK
  <2>10. UnpackOK("entry", loc'[c], files', touched'[c])
    BY DEF UnpackOK
  <2>11. CallInv(c)'
    BY <2>7, <2>8, <2>9, <2>10, ExtractAt DEF CallInv, ExtractPlaces
  <2> QED
    BY <1>3, <2>8, <2>11 DEF StepOK
<1> QED
  BY <1>4, <1>5

LEMMA HolderLast ==
  ASSUME NEW c \in Calls, ExtractTyped(pc[c], loc[c]), NEW p, Held(loc[c], p) # {}
  PROVE  \E j \in Held(loc[c], p) : (\A k \in Held(loc[c], p) : k <= j) /\ Holding(c, p) = loc[c].holds[j]
<1>1. Held(loc[c], p) \in SUBSET (1..Len(loc[c].holds)) /\ Len(loc[c].holds) \in Nat
  BY SeqFacts DEF Held, ExtractTyped
<1>2. \E j \in Held(loc[c], p) : \A k \in Held(loc[c], p) : k <= j
  BY <1>1, LastIn
<1>3. Holders(c, p) = Held(loc[c], p)
  BY DEF Holders, Held
<1> DEFINE last == CHOOSE i \in Holders(c, p) : \A j \in Holders(c, p) : j <= i
<1>4. last \in Held(loc[c], p) /\ \A k \in Held(loc[c], p) : k <= last
  BY <1>2, <1>3
<1>5. Holding(c, p) = loc[c].holds[last]
  BY DEF Holding
<1> HIDE DEF last
<1> QED
  BY <1>4, <1>5

\* What a plain file's member is decided to be, and what is written of it.
LEMMA PlainMember ==
  ASSUME NEW c \in Calls, CallInv(c), pc[c] \in ExtractPlaces, loc[c].at <= Len(Members(c)), OnlyIn(loc[c], Entry(c).name)
  PROVE  /\ Entry(c).type = "file" /\ (Verdict(c, Entry(c)) \in Counted => Entry(c).unsafe)
         /\ \A fs : fs[Entry(c).name] = File(Content(c)) => LastText(loc[c], fs, Entry(c).name)
<1> DEFINE e == Entry(c)
<1>1. /\ ExtractTyped(pc[c], loc[c]) /\ loc[c].at \in 1..Len(Members(c)) /\ e = loc[c].ask.members[loc[c].at]
      /\ DOMAIN loc[c].ask.members = 1..Len(Members(c))
  <2>1. ExtractTyped(pc[c], loc[c]) /\ e = loc[c].ask.members[loc[c].at]
        /\ Members(c) = loc[c].ask.members /\ DOMAIN Members(c) = 1..Len(Members(c)) /\ loc[c].at \in Nat
    BY ExtractHere
  <2>2. loc[c].at \in 1..Len(Members(c))
    BY <2>1 DEF ExtractTyped
  <2> QED
    BY <2>1, <2>2
<1> HIDE DEF e
<1>2. e.type = "file" /\ Held(loc[c], e.name) # {}
  BY <1>1 DEF OnlyIn, e
<1>3. Holders(c, e.name) = Held(loc[c], e.name)
  BY DEF Holders, Held
<1>4. PICK j \in Held(loc[c], e.name) :
        (\A k \in Held(loc[c], e.name) : k <= j) /\ Holding(c, e.name) = loc[c].holds[j]
  BY <1>1, <1>2, HolderLast
<1>5. Holding(c, e.name).type = "file" /\ ~Holding(c, e.name).over
  BY <1>4 DEF OnlyIn, e
<1>6. Verdict(c, e) \in Counted => e.unsafe
  BY <1>2, <1>3, <1>5 DEF Verdict, Counted
<1>7. LinksTo(c, e) = e.name
  BY <1>2 DEF LinksTo
<1>8. Content(c) = loc[c].holds[j].text
  BY <1>4, <1>5, <1>7 DEF Content, e
<1>9. \A fs : fs[e.name] = File(Content(c)) => LastText(loc[c], fs, e.name)
  BY <1>4, <1>8 DEF LastText
<1> QED
  BY <1>2, <1>6, <1>9 DEF e

LEMMA DecidesSteps ==
  ASSUME Base, NEW c \in Calls, CallInv(c), Decides(c)
  PROVE  StepOK(c)
<1>1. pc[c] = "entry" /\ pc[c] \in ExtractPlaces \ {"list"} /\ loc[c].at <= Len(Members(c)) /\ loc[c].ask.format \in {"zip", "tar"}
  BY DEF Decides, Here, ExtractPlaces
<1>2. ExtractTyped("entry", loc[c]) /\ Entry(c) = loc[c].ask.members[loc[c].at] /\ Members(c) = loc[c].ask.members
  BY <1>1, ExtractHere
<1>3. Sound(c) /\ Untouched(c)
  BY LookingEffect DEF Decides, Base
<1>4. CASE Goto(c, "probe") /\ loc' = loc
  <2>1. ExtractTyped("probe", loc[c]) /\ UnpackOK("probe", loc[c], files', touched'[c])
    BY <1>1, <1>2 DEF ExtractTyped, UnpackOK
  <2> QED
    BY <1>1, <1>3, <1>4, <2>1, ExtractGoes DEF ExtractPlaces
<1>5. CASE Verdict(c, Entry(c)) = "mkdir" /\ Goto(c, "mkdir") /\ loc' = loc
  <2>1. Entry(c).type = "dir"
    BY <1>5 DEF Verdict
  <2>2. ExtractTyped("mkdir", loc[c]) /\ UnpackOK("mkdir", loc[c], files', touched'[c])
    BY <1>1, <1>2, <2>1 DEF ExtractTyped, UnpackOK
  <2> QED
    BY <1>1, <1>3, <1>5, <2>2, ExtractGoes DEF ExtractPlaces
<1>6. CASE Verdict(c, Entry(c)) \in Counted /\ Counts(c, Verdict(c, Entry(c)))
  <2>1. PICK v \in Counted : v = Verdict(c, Entry(c)) /\ Counts(c, v)
    BY <1>6
  <2>2. \A p \in Paths : OnlyIn(loc[c], p) =>
            \/ files'[p] = files[p] /\ Entry(c).name # p
            \/ files'[p] = files[p] /\ loc[c].ask.format # "system" /\ (Entry(c).unsafe \/ files[p].is # "none")
    <3> SUFFICES ASSUME NEW p \in Paths, OnlyIn(loc[c], p), Entry(c).name = p PROVE Entry(c).unsafe
      BY <1>1, <1>3 DEF Untouched
    <3> QED
      BY <1>1, <1>6, PlainMember
  <2> QED
    BY <1>1, <1>3, <2>1, <2>2, CountsSteps DEF Untouched
<1> QED
  BY <1>4, <1>5, <1>6 DEF Decides

LEMMA FinishedSteps ==
  ASSUME Base, NEW c \in Calls, CallInv(c), Finished(c)
  PROVE  StepOK(c)
<1>1. pc[c] = "entry" /\ pc[c] \in ExtractPlaces /\ loc[c].at > Len(Members(c))
  BY DEF Finished, Here, ExtractPlaces
<1>2. /\ ExtractTyped("entry", loc[c]) /\ Members(c) = loc[c].ask.members /\ Len(Members(c)) \in Nat
      /\ (c \notin disturbed => ExtractOK("entry", loc[c], files))
  BY <1>1, ExtractHere
<1>3. Sound(c) /\ Untouched(c)
  BY LookingEffect DEF Finished, Base
<1> DEFINE values == [answer |-> "extracted"]
<1>4. Goto(c, "done") /\ Set(c, values)
  BY DEF Finished
<1>5. DOMAIN values = {"answer"} /\ values["answer"] = "extracted"
  OBVIOUS
<1> HIDE DEF values
<1>6. /\ Keeps(c) /\ DOMAIN loc'[c] = DOMAIN loc[c]
      /\ \A f \in DOMAIN loc[c] : loc'[c][f] = IF f \in DOMAIN values THEN values[f] ELSE loc[c][f]
  BY <1>4, SetKeeps
<1>7. loc'[c].count = loc[c].count /\ loc'[c].at = loc[c].at /\ SameArchive(loc[c], loc'[c])
  BY <1>2, <1>5, <1>6 DEF ExtractTyped, ExtractFields, SameArchive
<1>8. Own(c) /\ pc'[c] = "done"
  BY <1>4, <1>6, GotoFacts DEF Own, Keeps
<1>9. loc[c].at = Len(loc[c].ask.members) + 1
  BY <1>1, <1>2 DEF ExtractTyped
<1>10. ExtractTyped("done", loc'[c])
  BY <1>2, <1>6, <1>7, <1>9 DEF ExtractTyped, SameArchive
<1>11. c \notin disturbed' => ExtractOK("done", loc'[c], files')
  <2> SUFFICES ASSUME c \notin disturbed', NEW p \in Paths, OnlyIn(loc'[c], p) PROVE Extracted(loc'[c], files', p)
    BY DEF ExtractOK
  <2>1. OnlyIn(loc[c], p)
    BY <1>7, SameOnly
  <2>2. Extracted(loc[c], files, p)
    BY <1>2, <1>3, <2>1 DEF ExtractOK, Untouched, ExtractTyped
  <2>3. \A fs : LastText(loc'[c], fs, p) <=> LastText(loc[c], fs, p)
    BY <1>7, SameOnly
  <2> QED
    BY <1>3, <1>7, <2>2, <2>3 DEF Extracted, Untouched, SameArchive
<1>12. CallInv(c)'
  BY <1>8, <1>10, <1>11, ExtractDone DEF CallInv
<1> QED
  BY <1>3, <1>8, <1>12 DEF StepOK

LEMMA MakesFolderSteps ==
  ASSUME Base, NEW c \in Calls, CallInv(c), MakesFolder(c)
  PROVE  StepOK(c)
<1> DEFINE p == Entry(c).name
<1>1. pc[c] = "mkdir" /\ pc[c] \in ExtractPlaces \ {"list"}
  BY DEF MakesFolder, Here, ExtractPlaces
<1>2. /\ ExtractTyped("mkdir", loc[c]) /\ loc[c].at <= Len(Members(c)) /\ Entry(c).type = "dir" /\ p \in Paths
  <2>1. ExtractTyped("mkdir", loc[c]) /\ Members(c) = loc[c].ask.members
    BY <1>1, ExtractHere
  <2>2. loc[c].at <= Len(Members(c))
    BY <2>1 DEF ExtractTyped
  <2>3. p \in Paths /\ Entry(c) = loc[c].ask.members[loc[c].at]
    BY <1>1, <2>2, ExtractHere
  <2> QED
    BY <2>1, <2>2, <2>3 DEF ExtractTyped
<1>3. \A q \in Paths : OnlyIn(loc[c], q) => Entry(c).name # q
  <2> SUFFICES ASSUME OnlyIn(loc[c], p) PROVE FALSE
    OBVIOUS
  <2> QED
    BY <1>1, <1>2, PlainMember
<1>4. CASE Aborts(c) /\ Looking
  <2>1. Sound(c)
    BY <1>4, LookingEffect DEF Base
  <2> QED
    BY <1>1, <1>2, <1>4, <2>1, AbortsFacts DEF StepOK
<1>5. CASE Counts(c, "dirs") /\ Looking
  <2>1. Sound(c) /\ Untouched(c)
    BY <1>5, LookingEffect DEF Base
  <2>2. \A q \in Paths : OnlyIn(loc[c], q) => files'[q] = files[q] /\ Entry(c).name # q
    BY <1>3, <2>1 DEF Untouched
  <2>3. PICK k \in Counted : k = "dirs"
    BY DEF Counted
  <2> QED
    BY <1>1, <1>2, <1>5, <2>1, <2>2, <2>3, CountsSteps DEF Untouched
<1>6. CASE Counts(c, "dirs") /\ Put(c, p, Folder) /\ Reliably
  <2>1. IsContent(Folder) /\ left' \in [faults : Nat, edits : Nat]
    BY <1>6 DEF IsContent, Folder, Reliably, Base, DiskTyped
  <2>2. Sound(c) /\ PutsAt(c, p, Folder)
    BY <1>2, <1>6, <2>1, PutEffect DEF Base
  <2>3. \A q \in Paths : OnlyIn(loc[c], q) => files'[q] = files[q] /\ Entry(c).name # q
    BY <1>3, <2>2 DEF PutsAt
  <2>4. PICK k \in Counted : k = "dirs"
    BY DEF Counted
  <2> QED
    BY <1>1, <1>2, <1>6, <2>2, <2>3, <2>4, CountsSteps DEF PutsAt
<1> QED
  BY <1>4, <1>5, <1>6 DEF MakesFolder

LEMMA LooksAtSteps ==
  ASSUME Base, NEW c \in Calls, CallInv(c), LooksAt(c)
  PROVE  StepOK(c)
<1> DEFINE p == Entry(c).name
<1>1. pc[c] \in ExtractPlaces \ {"list"}
  BY DEF LooksAt, Here, ExtractPlaces
<1>2. /\ ExtractTyped(pc[c], loc[c]) /\ Members(c) = loc[c].ask.members
      /\ loc[c].at <= Len(Members(c)) /\ loc[c].ask.format # "system"
  <2>1. ExtractTyped(pc[c], loc[c]) /\ Members(c) = loc[c].ask.members
    BY <1>1, ExtractHere
  <2> QED
    BY <2>1 DEF LooksAt, Here, ExtractTyped
<1>3. p \in Paths /\ Entry(c) = loc[c].ask.members[loc[c].at]
  BY <1>1, <1>2, ExtractHere
<1>4. Sound(c) /\ Untouched(c)
  BY LookingAtEffect DEF LooksAt, Base
<1>5. CASE Skips(c)
  <2>1. Counts(c, "skipped")
    BY <1>5 DEF LooksAt
  <2>2. files[p].is # "none"
    BY <1>5 DEF Skips, Exists
  <2>3. \A q \in Paths : OnlyIn(loc[c], q) =>
            \/ files'[q] = files[q] /\ Entry(c).name # q
            \/ files'[q] = files[q] /\ loc[c].ask.format # "system" /\ (Entry(c).unsafe \/ files[q].is # "none")
    BY <1>2, <1>4, <2>2 DEF Untouched
  <2>4. PICK k \in Counted : k = "skipped"
    BY DEF Counted
  <2> QED
    BY <1>1, <1>2, <1>4, <2>1, <2>3, <2>4, CountsSteps DEF Untouched
<1>6. CASE ~Skips(c)
  <2>1. Goto(c, "unpack") /\ loc' = loc
    BY <1>6 DEF LooksAt
  <2>2. ExtractTyped("unpack", loc[c])
    BY <1>1, <1>2 DEF ExtractTyped, ExtractPlaces
  <2>3. UnpackOK("unpack", loc[c], files', touched'[c])
    BY <1>3, <1>4, <1>6 DEF UnpackOK, Skips, Exists, Overwrites, Untouched
  <2> QED
    BY <1>1, <1>4, <2>1, <2>2, <2>3, ExtractGoes DEF ExtractPlaces
<1> QED
  BY <1>5, <1>6

LEMMA FailedWrites ==
  ASSUME Base, NEW c \in Calls, CallInv(c), pc[c] \in ExtractPlaces, NEW p \in Paths, NEW what,
         PutFails(c, p, what), Aborts(c)
  PROVE  StepOK(c)
<1>1. pc[c] # "idle" /\ ExtractTyped(pc[c], loc[c])
  BY ExtractHere DEF ExtractPlaces
<1>2. Sound(c)
  BY <1>1, PutFailsEffect DEF Base
<1> QED
  BY <1>1, <1>2, AbortsFacts DEF StepOK

\* A member's file is written: what it holds then, if only files have its name.
LEMMA WritesMember ==
  ASSUME Base, NEW c \in Calls, CallInv(c), pc[c] \in ExtractPlaces \ {"list"}, loc[c].at <= Len(Members(c)), NEW x,
         \/ Put(c, Entry(c).name, File(x)) /\ Reliably /\ Counts(c, "extracted")
         \/ PutFails(c, Entry(c).name, File(x)) /\ Aborts(c),
         \/ loc[c].ask.format # "system" /\ x = Content(c)
         \/ loc[c].ask.format = "system" /\ x = Entry(c).text
  PROVE  StepOK(c)
<1> DEFINE p == Entry(c).name
           y == File(x)
<1>1. p \in Paths
  BY ExtractHere
<1>2. IsContent(y) /\ y = File(x)
  BY FileIsContent
<1>3. CASE PutFails(c, p, y) /\ Aborts(c)
  BY <1>1, <1>3, FailedWrites
<1>4. CASE Put(c, p, y) /\ Reliably /\ Counts(c, "extracted")
  <2>1. left' \in [faults : Nat, edits : Nat]
    BY <1>4 DEF Reliably, Base, DiskTyped
  <2>2. Sound(c) /\ PutsAt(c, p, y)
    <3> HIDE DEF y
    <3> QED
      BY <1>1, <1>2, <1>4, <2>1, PutEffect DEF Base
  <2>3. files'[p] = File(x) /\ \A q \in Paths \ {p} : files'[q] = files[q]
    BY <2>2 DEF PutsAt
  <2>4. ASSUME NEW q \in Paths, OnlyIn(loc[c], q)
        PROVE  \/ files'[q] = files[q] /\ Entry(c).name # q
               \/ LastText(loc[c], files', q) /\ loc[c].ask.format # "system"
               \/ files'[q] = File(Entry(c).text) /\ Entry(c).name = q /\ loc[c].ask.format = "system"
    <3>1. CASE q # p
      BY <2>3, <3>1
    <3>2. CASE q = p /\ loc[c].ask.format # "system"
      <4>1. \A fs : fs[p] = File(Content(c)) => LastText(loc[c], fs, p)
        BY <2>4, <3>2, PlainMember
      <4> QED
        BY <2>3, <3>2, <4>1
    <3>3. CASE q = p /\ loc[c].ask.format = "system"
      BY <2>3, <3>3
    <3> QED
      BY <3>1, <3>2, <3>3
  <2>5. PICK k \in Counted : k = "extracted"
    BY DEF Counted
  <2>6. c \notin disturbed' => c \notin disturbed
    BY <2>2 DEF PutsAt
  <2> QED
    BY <1>4, <2>2, <2>4, <2>5, <2>6, CountsSteps
<1> QED
  BY <1>3, <1>4

LEMMA WritesOutSteps ==
  ASSUME Base, NEW c \in Calls, CallInv(c), WritesOut(c) \/ SystemWrites(c)
  PROVE  StepOK(c)
<1> DEFINE p == Entry(c).name
<1>1. pc[c] \in ExtractPlaces \ {"list"} /\ pc[c] \in {"unpack", "entry"}
  BY DEF WritesOut, SystemWrites, Here, ExtractPlaces
<1>2. ExtractTyped(pc[c], loc[c]) /\ Members(c) = loc[c].ask.members
  BY <1>1, ExtractHere
<1>3. CASE Aborts(c) /\ Looking
  <2>1. Sound(c)
    BY <1>3, LookingEffect DEF Base
  <2> QED
    BY <1>1, <1>2, <1>3, <2>1, AbortsFacts DEF StepOK
<1>4. CASE WritesOut(c) /\ ~(Aborts(c) /\ Looking)
  <2> DEFINE x == Content(c)
  <2>1. pc[c] = "unpack" /\ loc[c].at <= Len(Members(c)) /\ loc[c].ask.format # "system"
    BY <1>2, <1>4 DEF WritesOut, Here, ExtractTyped
  <2>2. \/ Put(c, p, File(x)) /\ Reliably /\ Counts(c, "extracted")
        \/ PutFails(c, p, File(x)) /\ Aborts(c)
    BY <1>4 DEF WritesOut
  <2> QED
    BY <1>1, <2>1, <2>2, WritesMember
<1>5. CASE SystemWrites(c) /\ ~(Aborts(c) /\ Looking)
  <2> DEFINE x == Entry(c).text
  <2>1. loc[c].at <= Len(Members(c)) /\ loc[c].ask.format = "system"
    BY <1>5 DEF SystemWrites
  <2>2. \/ Put(c, p, File(x)) /\ Reliably /\ Counts(c, "extracted")
        \/ PutFails(c, p, File(x)) /\ Aborts(c)
    BY <1>5 DEF SystemWrites
  <2> QED
    BY <1>1, <2>1, <2>2, WritesMember
<1> QED
  BY <1>3, <1>4, <1>5

LEMMA CollectsSteps ==
  ASSUME Base, NEW c \in Calls, CallInv(c), Collects(c)
  PROVE  StepOK(c)
<1> DEFINE from == loc[c].ask.from[loc[c].at]
           x == loc[c].text \o files[from].text
           values == [at |-> loc[c].at + 1, text |-> x]
<1>1. pc[c] = "collect" /\ loc[c].at <= Len(loc[c].ask.from)
  BY DEF Collects, Here
<1>2. CreateTyped(loc[c]) /\ loc[c].kind = "archive"
  <2>1. CreateTyped(loc[c])
    BY <1>1 DEF CallInv, CallTyped, CreatePlaces
  <2> QED
    BY <2>1 DEF CreateTyped
<1>3. Sound(c)
  BY LookingAtEffect DEF Collects, Base
<1>4. CASE Answers(c, "failed")
  BY <1>2, <1>3, <1>4, AnswersKeeps DEF StepOK
<1>5. CASE Goto(c, "collect") /\ Set(c, values)
  <2>1. DOMAIN values = {"at", "text"} /\ values["at"] = loc[c].at + 1
    OBVIOUS
  <2> HIDE DEF values
  <2>2. /\ Keeps(c) /\ DOMAIN loc'[c] = DOMAIN loc[c]
        /\ \A f \in DOMAIN loc[c] : loc'[c][f] = IF f \in DOMAIN values THEN values[f] ELSE loc[c][f]
    BY <1>5, SetKeeps
  <2>3. loc'[c].at = loc[c].at + 1 /\ loc'[c].ask = loc[c].ask /\ loc'[c].kind = loc[c].kind
    BY <1>2, <2>1, <2>2 DEF CreateTyped, CreateFields
  <2>4. Len(loc[c].ask.from) \in Nat
    BY <1>2, LenProperties DEF CreateTyped
  <2>5. CreateTyped(loc'[c])
    BY <1>1, <1>2, <2>2, <2>3, <2>4 DEF CreateTyped
  <2>6. Own(c) /\ pc'[c] = "collect"
    BY <1>5, <2>2, GotoFacts DEF Own, Keeps
  <2>7. CallInv(c)'
    BY <2>5, <2>6, CreateAt DEF CallInv, CreatePlaces
  <2> QED
    BY <1>3, <2>6, <2>7 DEF StepOK
<1> QED
  BY <1>4, <1>5 DEF Collects

LEMMA WritesArchiveSteps ==
  ASSUME Base, NEW c \in Calls, CallInv(c), WritesArchive(c)
  PROVE  StepOK(c)
<1> DEFINE p == loc[c].ask.path
           y == File(loc[c].text)
<1>1. pc[c] \in CreatePlaces /\ pc[c] # "idle"
  BY DEF WritesArchive, Here, CreatePlaces
<1>2. loc[c].kind = "archive" /\ p \in Paths
  <2>1. CreateTyped(loc[c])
    BY <1>1 DEF CallInv, CallTyped
  <2> QED
    BY <2>1 DEF CreateTyped
<1>3. IsContent(y)
  BY FileIsContent
<1>4. Answers(c, "refused") \/ Answers(c, "failed") \/ Answers(c, "created")
  BY DEF WritesArchive
<1>5. Looking \/ (Put(c, p, y) /\ Reliably) \/ PutFails(c, p, y)
  BY DEF WritesArchive
<1> HIDE DEF y
<1>6. Sound(c)
  <2>1. Reliably => left' \in [faults : Nat, edits : Nat]
    BY DEF Reliably, Base, DiskTyped
  <2> QED
    BY <1>1, <1>2, <1>3, <1>5, <2>1, LookingEffect, PutEffect, PutFailsEffect DEF Base
<1> QED
  BY <1>2, <1>4, <1>6, AnswersKeeps DEF StepOK

LEMMA ArchiveToolSteps ==
  ASSUME Base, NEW c \in Calls, CallInv(c), ArchiveStep(c)
  PROVE  StepOK(c)
BY ListsSteps, DecidesSteps, FinishedSteps, MakesFolderSteps, LooksAtSteps, WritesOutSteps, CollectsSteps, WritesArchiveSteps
   DEF ArchiveStep

-----------------------------------------------------------------------------
(* The steps of the patch tool.                                            *)

LEMMA PatchAt ==
  ASSUME NEW w \in PatchPlaces, NEW l, PatchTyped(w, l), NEW fs, NEW t, RollOK(w, l, fs, t), DeltaOK(w, l, fs, t)
  PROVE  CallTyped(w, l) /\ Knows(w, l, fs, t) /\ (NativeOK(w, l, fs) => Alone(w, l, fs))
<1>1. CallTyped(w, l)
  BY DEF CallTyped, Places, PatchPlaces, EditPlaces, JsonPlaces, ReadPlaces, ExtractPlaces, CreatePlaces
<1>2. Knows(w, l, fs, t)
  BY DEF Knows, EditOK, UnpackOK, PatchPlaces
<1>3. ExtractOK(w, l, fs)
  BY DEF ExtractOK, PatchTyped
<1> QED
  BY <1>1, <1>2, <1>3 DEF Alone

LEMMA PatchHere ==
  ASSUME NEW c \in Calls, CallInv(c), pc[c] \in PatchPlaces
  PROVE  /\ PatchTyped(pc[c], loc[c]) /\ loc[c].kind \in {"native", "git", "edit", "json", "read", "archive"}
         /\ RollOK(pc[c], loc[c], files, touched[c]) /\ DeltaOK(pc[c], loc[c], files, touched[c])
         /\ c \notin disturbed => NativeOK(pc[c], loc[c], files)
         /\ Now(c) = loc[c].hunks[loc[c].i] /\ HunkTyped(Now(c)) /\ Now(c).path \in Paths /\ Now(c).to \in Paths
         /\ Len(loc[c].hunks) \in Nat \ {0} /\ loc[c].i \in 1..Len(loc[c].hunks) /\ pc[c] # "idle"
<1>1. PatchTyped(pc[c], loc[c])
  BY DEF CallInv, CallTyped
<1>2. IsSeq(loc[c].hunks) /\ loc[c].i \in 1..Len(loc[c].hunks) /\ \A i \in 1..Len(loc[c].hunks) : HunkTyped(loc[c].hunks[i])
  BY <1>1 DEF PatchTyped, HunksTyped
<1>3. Len(loc[c].hunks) \in Nat \ {0}
  BY <1>2, SeqFacts
<1>4. Now(c) = loc[c].hunks[loc[c].i] /\ HunkTyped(Now(c))
  BY <1>2 DEF Now
<1> QED
  BY <1>1, <1>2, <1>3, <1>4 DEF CallInv, Knows, Alone, HunkTyped, PatchTyped, PatchPlaces

Arrives(c, w) == DOMAIN pc' = Calls /\ pc'[c] = w /\ \A d \in Calls \ {c} : pc'[d] = pc[d]

LEMMA GoesThere ==
  ASSUME Base, NEW c \in Calls, NEW w, Goto(c, w) \/ (pc' = pc /\ pc[c] = w)
  PROVE  Arrives(c, w)
BY DEF Goto, Base, Arrives

\* Some of the fields change, the others are as they were.
LEMMA PatchSets ==
  ASSUME Base, NEW c \in Calls, PatchTyped(pc[c], loc[c]), NEW values, Set(c, values), NEW w, Arrives(c, w)
  PROVE  /\ Own(c) /\ pc'[c] = w /\ DOMAIN loc'[c] = PatchFields
         /\ \A f \in PatchFields : loc'[c][f] = IF f \in DOMAIN values THEN values[f] ELSE loc[c][f]
<1>1. /\ Keeps(c) /\ DOMAIN loc'[c] = DOMAIN loc[c]
      /\ \A f \in DOMAIN loc[c] : loc'[c][f] = IF f \in DOMAIN values THEN values[f] ELSE loc[c][f]
  BY SetKeeps
<1>2. DOMAIN loc[c] = PatchFields
  BY DEF PatchTyped
<1> QED
  BY <1>1, <1>2 DEF Own, Keeps, Arrives

LEMMA PatchGoes ==
  ASSUME Base, NEW c \in Calls, NEW w \in PatchPlaces, PatchTyped(w, loc[c]), Goto(c, w), loc' = loc,
         RollOK(w, loc[c], files', touched'[c]), DeltaOK(w, loc[c], files', touched'[c]),
         c \notin disturbed' => NativeOK(w, loc[c], files')
  PROVE  Own(c) /\ CallInv(c)'
<1>1. pc'[c] = w /\ loc'[c] = loc[c] /\ Own(c)
  BY GotoFacts DEF Own, Base
<1> QED
  BY <1>1, PatchAt DEF CallInv

LEMMA EarlyKnows ==
  ASSUME NEW w, w \in {"resolve", "verify", "plan", "planned", "snapshot", "unmove", "unmoving"}, NEW l, NEW fs, NEW t
  PROVE  RollOK(w, l, fs, t) /\ DeltaOK(w, l, fs, t)
BY DEF RollOK, DeltaOK

LEMMA BlockedIs ==
  ASSUME NEW p
  PROVE  Blocked(p) <=> \E q \in Paths : InTheWay(files, p, q)
BY DEF Blocked, InTheWay, Exists

\* Of a patch none of whose paths is inside another, what it writes is in the way of none.
LEMMA ClearKept ==
  ASSUME NEW hs, Foretold(hs), NEW fs, NEW gs, Clear(hs, fs), NEW p \in Named(hs), \A q \in Paths \ {p} : gs[q] = fs[q]
  PROVE  Clear(hs, gs)
<1> SUFFICES ASSUME NEW r \in Named(hs), NEW q \in Paths PROVE ~InTheWay(gs, r, q)
  BY DEF Clear
<1>1. CASE q = p
  BY <1>1 DEF Foretold, Nested, InTheWay
<1>2. CASE q # p
  BY <1>2 DEF Clear, InTheWay
<1> QED
  BY <1>1, <1>2

\* The paths of the hunk a patch is at are among those it names.
LEMMA NamedHere ==
  ASSUME NEW c \in Calls, CallInv(c), pc[c] \in PatchPlaces
  PROVE  Now(c).path \in Named(loc[c].hunks) /\ Now(c).to \in Named(loc[c].hunks)
<1>1. Now(c) = loc[c].hunks[loc[c].i] /\ loc[c].i \in 1..Len(loc[c].hunks) /\ IsSeq(loc[c].hunks)
  BY PatchHere DEF PatchTyped, HunksTyped
<1>2. loc[c].i \in DOMAIN loc[c].hunks
  BY <1>1, SeqFacts
<1> QED
  BY <1>1, <1>2 DEF Named

LEMMA AlikeSame == ASSUME NEW f PROVE Alike(f, f)
BY DEF Alike

LEMMA EndedLikeIs ==
  ASSUME NEW x, NEW old
  PROVE  Line(EndedLike(x, old)) = Line(x)
<1>1. Line(x) \notin Crlfs
  <2>1. CASE x \in Crlfs
    <3>1. \E line \in DOMAIN Crlf : Crlf[line] = x
      BY <2>1 DEF Crlfs
    <3>2. Line(x) \in DOMAIN Crlf
      BY <2>1, <3>1 DEF Line
    <3> QED
      BY <3>2, PatchAssumption
  <2>2. CASE x \notin Crlfs
    BY <2>2 DEF Line
  <2> QED
    BY <2>1, <2>2
<1>2. Line(Line(x)) = Line(x)
  <2> DEFINE y == Line(x)
  <2> HIDE DEF y
  <2>1. y \notin Crlfs
    BY <1>1 DEF y
  <2>2. Line(y) = y
    BY <2>1 DEF Line
  <2> QED
    BY <2>2 DEF y
<1>3. ASSUME Line(x) \in DOMAIN Crlf PROVE Line(Crlf[Line(x)]) = Line(x)
  <2> DEFINE y == Line(x)
  <2> HIDE DEF y
  <2>1. y \in DOMAIN Crlf
    BY <1>3 DEF y
  <2>2. Crlf[y] \in Crlfs /\ \A line \in DOMAIN Crlf : Crlf[line] = Crlf[y] => line = y
    BY <2>1, PatchAssumption DEF Crlfs
  <2>3. Line(Crlf[y]) = y
    BY <2>1, <2>2 DEF Line
  <2> QED
    BY <2>3 DEF y
<1> QED
  BY <1>2, <1>3 DEF EndedLike

\* What is derived from two texts that differ in their line endings does so too.
LEMMA DeriveLines ==
  ASSUME NEW t, NEW hk
  PROVE  Lines(Derive(t, hk)) = [Lines(t) EXCEPT ![FirstOf(Lines(t), hk.old)] = Line(hk.new)]
<1> DEFINE k == FirstOf(Lines(t), hk.old)
           d == [t EXCEPT ![k] = EndedLike(hk.new, t[k])]
<1>1. Derive(t, hk) = d
  BY DEF Derive
<1> HIDE DEF k
<1>2. Line(EndedLike(hk.new, t[k])) = Line(hk.new)
  BY EndedLikeIs
<1>3. DOMAIN d = DOMAIN t /\ \A i \in DOMAIN t : d[i] = IF i = k THEN EndedLike(hk.new, t[k]) ELSE t[i]
  OBVIOUS
<1> HIDE DEF d
<1>4. Lines(d) = [i \in DOMAIN t |-> IF i = k THEN Line(hk.new) ELSE Line(t[i])]
  BY <1>2, <1>3 DEF Lines
<1>5. [Lines(t) EXCEPT ![k] = Line(hk.new)] = [i \in DOMAIN t |-> IF i = k THEN Line(hk.new) ELSE Line(t[i])]
  BY DEF Lines
<1> QED
  BY <1>1, <1>4, <1>5 DEF k

LEMMA OneLine ==
  ASSUME NEW x
  PROVE  Lines(<<x>>) = [i \in {1} |-> Line(x)]
BY DEF Lines

LEMMA AfterAlike ==
  ASSUME NEW f, NEW g, Alike(f, g), NEW hk, HunkTyped(hk)
  PROVE  /\ Alike(AsApplied(f.text, hk), AsPlanned(g.text, hk))
         /\ Applies(f.text, hk) <=> Applies(g.text, hk)
         /\ TooLarge(f) <=> TooLarge(g)
         /\ f.is = g.is
<1>1. f.is = g.is /\ Lines(f.text) = Lines(g.text)
  BY DEF Alike
<1>2. DOMAIN f.text = DOMAIN g.text
  <2>1. DOMAIN Lines(f.text) = DOMAIN f.text /\ DOMAIN Lines(g.text) = DOMAIN g.text
    BY DEF Lines
  <2> QED
    BY <1>1, <2>1
<1>3. (Applies(f.text, hk) <=> Applies(g.text, hk)) /\ (TooLarge(f) <=> TooLarge(g))
  BY <1>1, <1>2 DEF Applies, TooLarge
<1>4. Alike(AsApplied(f.text, hk), AsPlanned(g.text, hk))
  <2>1. CASE hk.op = "add"
    <3> DEFINE x == IF f.text = <<>> THEN hk.new ELSE EndedLike(hk.new, f.text[1])
               y == hk.new
    <3>1. AsApplied(f.text, hk) = File(<<x>>) /\ AsPlanned(g.text, hk) = File(<<y>>)
      BY <2>1 DEF AsApplied, AsPlanned, After
    <3>2. Line(x) = Line(y)
      BY EndedLikeIs
    <3> HIDE DEF x, y
    <3>3. Lines(<<x>>) = Lines(<<y>>)
      BY <3>2, OneLine
    <3> DEFINE u == <<x>>
               v == <<y>>
    <3>4. Lines(u) = Lines(v) /\ AsApplied(f.text, hk) = File(u) /\ AsPlanned(g.text, hk) = File(v)
      BY <3>1, <3>3
    <3> HIDE DEF u, v
    <3> QED
      BY <3>4 DEF Alike, File
  <2>2. CASE hk.op = "delete"
    <3>1. AsApplied(f.text, hk) = Nowhere /\ AsPlanned(g.text, hk) = Nowhere
      BY <2>2 DEF AsApplied, AsPlanned, After
    <3>2. PICK n : n = Nowhere
      OBVIOUS
    <3> QED
      BY <3>1, <3>2, AlikeSame
  <2>3. CASE hk.op = "update"
    <3>1. AsApplied(f.text, hk) = File(Derive(f.text, hk)) /\ AsPlanned(g.text, hk) = File(Derive(g.text, hk))
      BY <2>3 DEF AsApplied, AsPlanned, After
    <3>2. Lines(Derive(f.text, hk)) = Lines(Derive(g.text, hk))
      BY <1>1, DeriveLines
    <3> QED
      BY <3>1, <3>2 DEF Alike, File
  <2> QED
    BY <2>1, <2>2, <2>3 DEF HunkTyped
<1> QED
  BY <1>1, <1>3, <1>4

\* A file is made too large by the line a hunk adds, or was too large before.
LEMMA TooLargeAfter ==
  ASSUME NEW g, NEW hk, HunkTyped(hk), TooLarge(AsPlanned(g.text, hk))
  PROVE  Line(hk.new) \in Heavy \/ TooLarge(g)
<1>1. CASE hk.op = "add"
  <2>1. AsPlanned(g.text, hk) = File(<<hk.new>>)
    BY <1>1 DEF AsPlanned, After
  <2>2. PICK x, u : x = hk.new /\ u = <<x>>
    OBVIOUS
  <2>3. PICK i \in DOMAIN u : Lines(u)[i] \in Heavy
    BY <2>1, <2>2 DEF TooLarge, File
  <2>4. i = 1 /\ Lines(u)[1] = Line(x)
    <3>1. DOMAIN u = {1} /\ u[1] = x
      BY <2>2
    <3> QED
      BY <2>3, <3>1 DEF Lines
  <2> QED
    BY <2>2, <2>3, <2>4
<1>2. CASE hk.op = "delete"
  <2>1. AsPlanned(g.text, hk) = Nowhere
    BY <1>2 DEF AsPlanned, After
  <2>2. PICK e : e = <<>>
    OBVIOUS
  <2>3. DOMAIN e = {} /\ Nowhere.text = e
    BY <2>2, EmptyIsSeq DEF Nowhere
  <2> QED
    BY <2>1, <2>3 DEF TooLarge
<1>3. CASE hk.op = "update"
  <2> DEFINE d == Derive(g.text, hk)
             k == FirstOf(Lines(g.text), hk.old)
  <2>1. AsPlanned(g.text, hk) = File(d)
    BY <1>3 DEF AsPlanned, After
  <2>2. Lines(d) = [Lines(g.text) EXCEPT ![k] = Line(hk.new)]
    BY DeriveLines
  <2> HIDE DEF d, k
  <2>3. DOMAIN Lines(d) = DOMAIN d /\ DOMAIN Lines(g.text) = DOMAIN g.text
    BY DEF Lines
  <2>4. PICK i \in DOMAIN d : Lines(d)[i] \in Heavy
    BY <2>1 DEF TooLarge, File
  <2>5. i \in DOMAIN g.text /\ (Lines(d)[i] = Line(hk.new) \/ Lines(d)[i] = Lines(g.text)[i])
    BY <2>2, <2>3, <2>4
  <2> QED
    BY <2>4, <2>5 DEF TooLarge
<1> QED
  BY <1>1, <1>2, <1>3 DEF HunkTyped

LEMMA ResolveSteps ==
  ASSUME Base, NEW c \in Calls, CallInv(c), Resolve(c)
  PROVE  StepOK(c)
<1>1. pc[c] = "resolve" /\ pc[c] \in PatchPlaces
  BY DEF Resolve, Here, PatchPlaces
<1>2. /\ PatchTyped("resolve", loc[c]) /\ (c \notin disturbed => NativeOK("resolve", loc[c], files))
      /\ loc[c].kind \in {"native", "git", "edit", "json", "read", "archive"}
  BY <1>1, PatchHere
<1>3. Sound(c) /\ Untouched(c)
  BY LookingEffect DEF Resolve, Base
<1>4. CASE Answers(c, "refused")
  BY <1>2, <1>3, <1>4, AnswersKeeps DEF StepOK
<1>5. CASE /\ Goto(c, "verify") /\ loc' = loc
           /\ \A p \in Named(loc[c].hunks) : ~Blocked(p)
  <2>1. PatchTyped("verify", loc[c])
    BY <1>2 DEF PatchTyped, PlannedTexts
  <2>2. c \notin disturbed' => NativeOK("verify", loc[c], files')
    <3> SUFFICES ASSUME c \notin disturbed', Sure(loc[c]) PROVE NativeOK("verify", loc[c], files')
      BY DEF NativeOK, Sure
    <3>1. files' = files /\ loc[c].pending = <<>> /\ loc[c].i = 1
      BY <1>2, <1>3 DEF NativeOK, Sure, Untouched
    <3> DEFINE W == [k \in 1..1 |-> files]
    <3>2. W[1] = files /\ DOMAIN files = Paths
      BY DEF Base, DiskTyped
    <3> HIDE DEF W
    <3>3. DryRun(loc[c].hunks, loc[c].i - 1, W)
      BY <3>1, <3>2 DEF DryRun
    <3>4. \A p \in Paths : Alike(W[loc[c].i][p], IF p \in DOMAIN loc[c].pending THEN loc[c].pending[p] ELSE files'[p])
      BY <3>1, <3>2, EmptyIsSeq, AlikeSame
    <3>5. \A p \in DOMAIN loc[c].pending : TooLarge(loc[c].pending[p]) => Grown(loc[c].hunks, loc[c].i - 1, p)
      BY <3>1, EmptyIsSeq
    <3>6. Clear(loc[c].hunks, files')
      BY <1>5, <3>1, BlockedIs DEF Clear
    <3> QED
      BY <3>1, <3>2, <3>3, <3>4, <3>5, <3>6 DEF NativeOK, Sure
  <2>3. Own(c) /\ CallInv(c)'
    BY <1>5, <2>1, <2>2, EarlyKnows, PatchGoes DEF PatchPlaces
  <2> QED
    BY <1>3, <2>3 DEF StepOK
<1> QED
  BY <1>4, <1>5 DEF Resolve, Readable

LEMMA WithIs ==
  ASSUME NEW f, NEW p, NEW v
  PROVE  /\ DOMAIN With(f, p, v) = DOMAIN f \union {p}
         /\ \A q \in DOMAIN f \union {p} : With(f, p, v)[q] = IF q = p THEN v ELSE f[q]
         /\ p \in DOMAIN f => With(f, p, v) = [f EXCEPT ![p] = v]
BY DEF With

LEMMA EffectIs ==
  ASSUME NEW w, DOMAIN w = Paths, NEW hk, HunkTyped(hk)
  PROVE  /\ DOMAIN Effect(w, hk) = Paths
         /\ \A q \in Paths : Effect(w, hk)[q] = IF q = hk.to THEN AsApplied(w[hk.path].text, hk)
                                                ELSE IF q = hk.path THEN Nowhere ELSE w[q]
         /\ hk.to = hk.path => Effect(w, hk) = [w EXCEPT ![hk.path] = AsApplied(w[hk.path].text, hk)]
         /\ hk.to # hk.path => Effect(w, hk) = [With(w, hk.to, AsApplied(w[hk.path].text, hk)) EXCEPT ![hk.path] = Nowhere]
<1> DEFINE v == AsApplied(w[hk.path].text, hk)
<1>1. PICK n : n = Nowhere
  OBVIOUS
<1>2. PICK p \in Paths, q \in Paths : p = hk.path /\ q = hk.to
  BY DEF HunkTyped
<1> DEFINE e == With(With(w, p, n), q, v)
           h == [r \in Paths |-> IF r = q THEN v ELSE IF r = p THEN n ELSE w[r]]
<1>3. Effect(w, hk) = e
  BY <1>1, <1>2 DEF Effect
<1> HIDE DEF v
<1>4. e = h
  <2> DEFINE u == With(w, p, n)
  <2>1. u = [r \in Paths |-> IF r = p THEN n ELSE w[r]]
    BY <1>2 DEF With
  <2> HIDE DEF u
  <2>2. With(u, q, v) = [r \in Paths |-> IF r = q THEN v ELSE u[r]]
    BY <1>2, <2>1 DEF With
  <2>3. \A r \in Paths : u[r] = IF r = p THEN n ELSE w[r]
    BY <2>1
  <2>4. With(u, q, v) = h
    BY <2>2, <2>3
  <2> QED
    BY <2>4 DEF u
<1> HIDE DEF e
<1>5. DOMAIN h = Paths /\ \A r \in Paths : h[r] = IF r = q THEN v ELSE IF r = p THEN n ELSE w[r]
  OBVIOUS
<1>6. q = p => h = [w EXCEPT ![q] = v]
  OBVIOUS
<1>7. q # p => h = [With(w, q, v) EXCEPT ![p] = n]
  <2> DEFINE u == With(w, q, v)
  <2>1. u = [r \in Paths |-> IF r = q THEN v ELSE w[r]]
    BY <1>2 DEF With
  <2> HIDE DEF u
  <2>2. q # p => h = [u EXCEPT ![p] = n]
    BY <2>1
  <2> QED
    BY <2>2 DEF u
<1> HIDE DEF h
<1>8. /\ DOMAIN Effect(w, hk) = Paths
      /\ \A r \in Paths : Effect(w, hk)[r] = IF r = hk.to THEN v ELSE IF r = hk.path THEN Nowhere ELSE w[r]
  BY <1>1, <1>2, <1>3, <1>4, <1>5
<1>9. hk.to = hk.path => Effect(w, hk) = [w EXCEPT ![hk.path] = v]
  BY <1>2, <1>3, <1>4, <1>6
<1>10. hk.to # hk.path => Effect(w, hk) = [With(w, hk.to, v) EXCEPT ![hk.path] = Nowhere]
  BY <1>1, <1>2, <1>3, <1>4, <1>7
<1> QED
  BY <1>8, <1>9, <1>10 DEF v

LEMMA EffectInPlace ==
  ASSUME NEW w, DOMAIN w = Paths, NEW hk, HunkTyped(hk), hk.to = hk.path
  PROVE  Effect(w, hk) = [w EXCEPT ![hk.path] = AsApplied(w[hk.path].text, hk)]
BY EffectIs

\* One more hunk of the dry run.
LEMMA DryRunGrows ==
  ASSUME NEW hs, NEW n \in Nat, NEW W, DryRun(hs, n, W), HunkTyped(hs[n + 1]), ~Bad(W[n + 1], hs[n + 1])
  PROVE  \E V : DryRun(hs, n + 1, V) /\ V[1] = W[1] /\ V[n + 2] = Effect(W[n + 1], hs[n + 1])
<1> DEFINE V == [k \in 1..(n + 2) |-> IF k = n + 2 THEN Effect(W[n + 1], hs[n + 1]) ELSE W[k]]
<1>1. V[n + 2] = Effect(W[n + 1], hs[n + 1]) /\ \A k \in 1..(n + 1) : V[k] = W[k]
  OBVIOUS
<1> HIDE DEF V
<1>2. DOMAIN V[n + 2] = Paths
  BY <1>1, EffectIs DEF DryRun
<1>3. \A k \in 1..((n + 1) + 1) : DOMAIN V[k] = Paths
  BY <1>1, <1>2 DEF DryRun
<1>4. ASSUME NEW k \in 1..(n + 1) PROVE ~Bad(V[k], hs[k]) /\ V[k + 1] = Effect(V[k], hs[k])
  <2>1. CASE k = n + 1
    <3>1. k + 1 = n + 2
      BY <2>1
    <3> QED
      BY <1>1, <2>1, <3>1
  <2>2. CASE k \in 1..n
    <3>1. k \in 1..(n + 1) /\ k + 1 \in 1..(n + 1)
      BY <2>2
    <3> QED
      BY <1>1, <2>2, <3>1 DEF DryRun
  <2> QED
    BY <2>1, <2>2
<1>5. V[1] = W[1]
  BY <1>1
<1> QED
  BY <1>1, <1>3, <1>4, <1>5 DEF DryRun

LEMMA VerifySteps ==
  ASSUME Base, NEW c \in Calls, CallInv(c), Verify(c)
  PROVE  StepOK(c)
<1> DEFINE hk == Now(c)
           ahead == Pending(c, hk)
<1>1. pc[c] = "verify" /\ pc[c] \in PatchPlaces
  BY DEF Verify, Here, PatchPlaces
<1>2. /\ PatchTyped("verify", loc[c]) /\ (c \notin disturbed => NativeOK("verify", loc[c], files))
      /\ loc[c].kind \in {"native", "git", "edit", "json", "read", "archive"}
      /\ hk = loc[c].hunks[loc[c].i] /\ HunkTyped(hk) /\ hk.path \in Paths /\ hk.to \in Paths
      /\ Len(loc[c].hunks) \in Nat \ {0} /\ loc[c].i \in 1..Len(loc[c].hunks)
  BY <1>1, PatchHere
<1>3. Sound(c) /\ Untouched(c)
  BY LookingEffect DEF Verify, Base
<1>4. CASE Answers(c, "refused") \/ Answers(c, "planned")
  BY <1>2, <1>3, <1>4, AnswersKeeps DEF StepOK
<1>5. CASE /\ ~Refuses(c, hk)
           /\ \E w \in {"verify", "snapshot"}, j \in Nat :
                /\ Set(c, [pending |-> ahead, i |-> j]) /\ Arrives(c, w)
                /\ \/ w = "verify" /\ loc[c].i # Len(loc[c].hunks) /\ j = loc[c].i + 1
                   \/ w = "snapshot" /\ loc[c].i = Len(loc[c].hunks) /\ j = 1
  <2>1. PICK w \in {"verify", "snapshot"}, j \in Nat :
                /\ Set(c, [pending |-> ahead, i |-> j]) /\ Arrives(c, w)
                /\ \/ w = "verify" /\ loc[c].i # Len(loc[c].hunks) /\ j = loc[c].i + 1
                   \/ w = "snapshot" /\ loc[c].i = Len(loc[c].hunks) /\ j = 1
    BY <1>5
  <2>2. /\ DOMAIN ahead \subseteq Paths
        /\ \A q \in Paths : (IF q \in DOMAIN ahead THEN ahead[q] ELSE files[q])
                            = IF q = hk.to THEN AsPlanned(Before(c, hk.path).text, hk)
                              ELSE IF q = hk.path THEN Nowhere ELSE Before(c, q)
        /\ \A q \in DOMAIN ahead : q \in {hk.path, hk.to} \/ q \in DOMAIN loc[c].pending
    <3> DEFINE v == AsPlanned(Before(c, hk.path).text, hk)
               g == loc[c].pending
    <3>1. PICK n : n = Nowhere
      OBVIOUS
    <3> DEFINE u == With(g, hk.path, n)
    <3>2. ahead = With(u, hk.to, v)
      BY <3>1 DEF Pending
    <3> HIDE DEF ahead, v
    <3>3. /\ DOMAIN ahead = DOMAIN g \union {hk.path, hk.to}
          /\ \A r \in DOMAIN ahead : ahead[r] = IF r = hk.to THEN v ELSE IF r = hk.path THEN n ELSE g[r]
      <4>1. DOMAIN u = DOMAIN g \union {hk.path} /\ \A r \in DOMAIN u : u[r] = IF r = hk.path THEN n ELSE g[r]
        BY DEF With
      <4> HIDE DEF u
      <4>2. DOMAIN ahead = DOMAIN u \union {hk.to} /\ \A r \in DOMAIN ahead : ahead[r] = IF r = hk.to THEN v ELSE u[r]
        BY <3>2 DEF With
      <4> QED
        BY <4>1, <4>2
    <3>4. DOMAIN g \subseteq Paths
      BY <1>2 DEF PatchTyped
    <3>5. DOMAIN ahead \subseteq Paths
      BY <1>2, <3>3, <3>4
    <3>6. \A q \in Paths : (IF q \in DOMAIN ahead THEN ahead[q] ELSE files[q])
                            = IF q = hk.to THEN v ELSE IF q = hk.path THEN n ELSE Before(c, q)
      BY <3>3 DEF Before
    <3> QED
      BY <3>1, <3>3, <3>5, <3>6 DEF v
  <2> DEFINE values == [pending |-> ahead, i |-> j]
  <2>3. DOMAIN values = {"pending", "i"} /\ values["pending"] = ahead /\ values["i"] = j /\ Set(c, values)
    BY <2>1
  <2> HIDE DEF values, ahead, hk
  <2>4. /\ Own(c) /\ pc'[c] = w /\ DOMAIN loc'[c] = PatchFields
        /\ \A f \in PatchFields : loc'[c][f] = IF f \in DOMAIN values THEN values[f] ELSE loc[c][f]
    BY <1>1, <1>2, <2>1, <2>3, PatchSets
  <2>5. /\ loc'[c].pending = ahead /\ loc'[c].i = j /\ loc'[c].hunks = loc[c].hunks /\ loc'[c].kind = loc[c].kind
        /\ loc'[c].kept = loc[c].kept /\ loc'[c].todo = loc[c].todo /\ loc'[c].snap = loc[c].snap
        /\ loc'[c].over = loc[c].over /\ loc'[c].delta = loc[c].delta /\ loc'[c].text = loc[c].text
    BY <2>3, <2>4 DEF PatchFields
  <2>6. j \in 1..Len(loc[c].hunks)
    BY <1>2, <2>1
  <2>7. PatchTyped(w, loc'[c])
    <3>1. loc[c].kind = "native"
      BY <1>2 DEF PatchTyped
    <3> QED
      BY <1>2, <2>1, <2>2, <2>4, <2>5, <2>6, <3>1 DEF PatchTyped
  <2>8. c \notin disturbed' => NativeOK(w, loc'[c], files')
    <3> SUFFICES ASSUME c \notin disturbed', Sure(loc[c]) PROVE NativeOK(w, loc'[c], files')
      BY <2>5 DEF NativeOK, Sure
    <3>1. files' = files /\ c \notin disturbed
      BY <1>3 DEF Untouched
    <3>2. PICK n \in Nat : n = loc[c].i - 1 /\ n + 1 = loc[c].i
      BY <1>2
    <3>3. PICK W : /\ DryRun(loc[c].hunks, n, W) /\ W[1] = files
                   /\ \A p \in Paths : Alike(W[n + 1][p], IF p \in DOMAIN loc[c].pending THEN loc[c].pending[p] ELSE files[p])
                   /\ \A p \in DOMAIN loc[c].pending : TooLarge(loc[c].pending[p]) => Grown(loc[c].hunks, n, p)
      BY <1>2, <3>1, <3>2 DEF NativeOK
    <3>4. \A p \in Paths : Alike(W[n + 1][p], Before(c, p))
      BY <3>3 DEF Before
    <3>a. Clear(loc[c].hunks, files')
      BY <1>2, <3>1 DEF NativeOK
    <3>b. ~TooLarge(Before(c, hk.path))
      <4>1. CASE hk.path \notin DOMAIN loc[c].pending
        BY <1>5, <4>1 DEF Refuses, NoTarget, Before
      <4>2. CASE hk.path \in DOMAIN loc[c].pending
        <5>1. ~Grown(loc[c].hunks, n, hk.path)
          <6>1. ~Outgrown(loc[c].hunks)
            BY DEF Sure, Foretold
          <6>2. loc[c].i \in DOMAIN loc[c].hunks /\ hk.path = loc[c].hunks[loc[c].i].path
            BY <1>2, SeqFacts DEF PatchTyped, HunksTyped
          <6> QED
            BY <3>2, <6>1, <6>2 DEF Outgrown, Grown
        <5> QED
          BY <3>3, <4>2, <5>1 DEF Before
      <4> QED
        BY <4>1, <4>2
    <3>5. ~Bad(W[n + 1], hk)
      <4>1. /\ Alike(W[n + 1][hk.path], Before(c, hk.path)) /\ Alike(W[n + 1][hk.to], Before(c, hk.to))
        BY <1>2, <3>4
      <4>2. /\ Applies(W[n + 1][hk.path].text, hk) <=> Applies(Before(c, hk.path).text, hk)
            /\ TooLarge(W[n + 1][hk.path]) <=> TooLarge(Before(c, hk.path))
            /\ W[n + 1][hk.path].is = Before(c, hk.path).is /\ W[n + 1][hk.to].is = Before(c, hk.to).is
        <5>1. PICK f, g, h, k : /\ f = W[n + 1][hk.path] /\ g = Before(c, hk.path)
                                /\ h = W[n + 1][hk.to] /\ k = Before(c, hk.to)
          OBVIOUS
        <5>2. Alike(f, g) /\ Alike(h, k) /\ HunkTyped(hk)
          BY <1>2, <4>1, <5>1
        <5>3. (Applies(f.text, hk) <=> Applies(g.text, hk)) /\ (TooLarge(f) <=> TooLarge(g)) /\ f.is = g.is
          BY <5>2, AfterAlike
        <5>4. h.is = k.is
          BY <5>2 DEF Alike
        <5> QED
          BY <5>1, <5>3, <5>4
      <4> QED
        BY <1>5, <3>b, <4>2 DEF Bad, Refuses
    <3>6. PICK V : DryRun(loc[c].hunks, n + 1, V) /\ V[1] = files /\ V[n + 2] = Effect(W[n + 1], hk)
      <4>1. HunkTyped(loc[c].hunks[n + 1]) /\ loc[c].hunks[n + 1] = hk
        BY <1>2, <3>2
      <4>2. ~Bad(W[n + 1], loc[c].hunks[n + 1])
        BY <3>5, <4>1
      <4> QED
        BY <3>3, <4>1, <4>2, DryRunGrows
    <3>7. DOMAIN W[n + 1] = Paths
      BY <3>3 DEF DryRun
    <3>8. \A p \in Paths : Alike(V[n + 2][p], IF p \in DOMAIN ahead THEN ahead[p] ELSE files[p])
      <4> DEFINE e == Effect(W[n + 1], hk)
      <4>1. \A q \in Paths : e[q] = IF q = hk.to THEN AsApplied(W[n + 1][hk.path].text, hk)
                                     ELSE IF q = hk.path THEN Nowhere ELSE W[n + 1][q]
        <5> DEFINE w0 == W[n + 1]
        <5>1. DOMAIN w0 = Paths
          BY <3>7
        <5> HIDE DEF w0, hk
        <5>2. \A q \in Paths : Effect(w0, hk)[q] = IF q = hk.to THEN AsApplied(w0[hk.path].text, hk)
                                                 ELSE IF q = hk.path THEN Nowhere ELSE w0[q]
          BY <1>2, <5>1, EffectIs
        <5> QED
          BY <5>2 DEF w0
      <4>2. V[n + 2] = e
        BY <3>6
      <4> HIDE DEF e
      <4>3. Alike(AsApplied(W[n + 1][hk.path].text, hk), AsPlanned(Before(c, hk.path).text, hk))
        BY <1>2, <3>4, AfterAlike
      <4>4. PICK gone : gone = Nowhere
        OBVIOUS
      <4>5. Alike(gone, gone)
        BY AlikeSame
      <4> DEFINE u == AsApplied(W[n + 1][hk.path].text, hk)
                 v == AsPlanned(Before(c, hk.path).text, hk)
      <4>6. /\ Alike(u, v) /\ \A q \in Paths : e[q] = IF q = hk.to THEN u ELSE IF q = hk.path THEN gone ELSE W[n + 1][q]
            /\ \A q \in Paths : (IF q \in DOMAIN ahead THEN ahead[q] ELSE files[q])
                               = IF q = hk.to THEN v ELSE IF q = hk.path THEN gone ELSE Before(c, q)
        BY <2>2, <4>1, <4>3, <4>4
      <4> HIDE DEF u, v
      <4> QED
        BY <3>4, <4>2, <4>5, <4>6
    <3>c. \A p \in DOMAIN ahead : TooLarge(ahead[p]) => Grown(loc[c].hunks, n + 1, p)
      <4> SUFFICES ASSUME NEW p \in DOMAIN ahead, TooLarge(ahead[p]) PROVE Grown(loc[c].hunks, n + 1, p)
        OBVIOUS
      <4>0. hk = loc[c].hunks[n + 1] /\ n + 1 \in 1..(n + 1) /\ p \in Paths
        BY <1>2, <2>2, <3>2
      <4>1. CASE p = hk.to
        <5>1. TooLarge(AsPlanned(Before(c, hk.path).text, hk))
          <6> DEFINE v == AsPlanned(Before(c, hk.path).text, hk)
          <6>1. ahead[p] = v
            BY <2>2, <4>0, <4>1
          <6> HIDE DEF v
          <6> QED
            BY <6>1 DEF v
        <5>2. Line(hk.new) \in Heavy
          BY <1>2, <3>b, <5>1, TooLargeAfter
        <5> QED
          BY <4>0, <4>1, <5>2 DEF Grown
      <4>2. CASE p = hk.path /\ p # hk.to
        <5>1. PICK gone : gone = Nowhere
          OBVIOUS
        <5>2. ahead[p] = gone
          BY <2>2, <4>0, <4>2, <5>1
        <5>3. PICK none : none = <<>>
          OBVIOUS
        <5>4. DOMAIN none = {} /\ gone.text = none
          BY <5>1, <5>3, EmptyIsSeq DEF Nowhere
        <5> QED
          BY <5>2, <5>4 DEF TooLarge
      <4>3. CASE p # hk.path /\ p # hk.to
        <5>1. p \in DOMAIN loc[c].pending /\ ahead[p] = loc[c].pending[p]
          BY <2>2, <4>0, <4>3 DEF Before
        <5>2. Grown(loc[c].hunks, n, p)
          BY <3>3, <5>1
        <5>3. \A k \in 1..n : k \in 1..(n + 1)
          OBVIOUS
        <5> QED
          BY <5>2, <5>3 DEF Grown
      <4> QED
        BY <4>1, <4>2, <4>3
    <3>9. CASE w = "verify"
      <4>1. j - 1 = n + 1 /\ j = n + 2
        BY <2>1, <3>2, <3>9
      <4> QED
        BY <2>5, <3>1, <3>6, <3>8, <3>9, <3>a, <3>c, <4>1 DEF NativeOK, Sure
    <3>10. CASE w = "snapshot"
      <4>1. j = 1 /\ n + 1 = Len(loc[c].hunks) /\ n + 2 = Len(loc[c].hunks) + 1
        BY <2>1, <3>2, <3>10
      <4>2. \A p \in DOMAIN ahead : Alike(V[Len(loc[c].hunks) + 1][p], ahead[p])
        BY <2>2, <3>8, <4>1
      <4>3. Reached("snapshot", loc'[c], files', V)
        BY <2>5, <3>1, <3>6, <4>1 DEF Reached
      <4> QED
        BY <2>5, <3>6, <3>10, <3>a, <4>1, <4>2, <4>3 DEF NativeOK, Sure
    <3> QED
      BY <3>9, <3>10
  <2>9. CallInv(c)'
    BY <2>1, <2>4, <2>7, <2>8, EarlyKnows, PatchAt DEF CallInv, PatchPlaces
  <2> QED
    BY <1>3, <2>4, <2>9 DEF StepOK
<1>6. CASE ~Refuses(c, hk) /\ ~AtLast(c)
  <2>1. Set(c, [pending |-> ahead, i |-> loc[c].i + 1]) /\ pc' = pc
    BY <1>6 DEF Verify
  <2>2. Arrives(c, "verify")
    BY <1>1, <2>1, GoesThere
  <2>3. loc[c].i + 1 \in Nat /\ loc[c].i # Len(loc[c].hunks)
    BY <1>2, <1>6 DEF AtLast
  <2> QED
    BY <1>5, <1>6, <2>1, <2>2, <2>3
<1>7. CASE ~Refuses(c, hk) /\ AtLast(c) /\ ~Answers(c, "planned")
  <2>1. Set(c, [pending |-> ahead, i |-> 1]) /\ Goto(c, "snapshot")
    BY <1>7 DEF Verify
  <2>2. 1 \in Nat /\ loc[c].i = Len(loc[c].hunks) /\ Arrives(c, "snapshot")
    BY <1>7, <2>1, GoesThere DEF AtLast
  <2> QED
    BY <1>5, <1>7, <2>1, <2>2
<1> QED
  BY <1>4, <1>6, <1>7 DEF Verify


LEMMA AfterIsContent ==
  ASSUME NEW hk, HunkTyped(hk), NEW x
  PROVE  IsContent(AsApplied(x, hk)) /\ IsContent(AsPlanned(x, hk))
BY DEF AsApplied, AsPlanned, After, HunkTyped, IsContent, File, Nowhere

LEMMA PlanSteps ==
  ASSUME Base, NEW c \in Calls, CallInv(c), Plan(c)
  PROVE  StepOK(c)
<1> DEFINE hk == Now(c)
           x == AsPlanned(files[hk.path].text, hk)
           n == Len(loc[c].hunks)
           texts == Append(loc[c].text, x)
<1>1. pc[c] = "plan" /\ pc[c] \in PatchPlaces
  BY DEF Plan, Here, PatchPlaces
<1>2. /\ PatchTyped("plan", loc[c]) /\ loc[c].kind \in {"native", "git", "edit", "json", "read", "archive"}
      /\ HunkTyped(hk) /\ n \in Nat \ {0} /\ loc[c].i \in 1..n
  BY <1>1, PatchHere
<1>3. Sound(c)
  BY LookingEffect DEF Plan, Base
<1>4. CASE Answers(c, "refused")
  BY <1>2, <1>3, <1>4, AnswersKeeps DEF StepOK
<1>5. CASE ~Answers(c, "refused")
  <2>1. PICK w, j : /\ Set(c, [text |-> texts, i |-> j]) /\ Goto(c, w)
                    /\ \/ w = "plan" /\ loc[c].i # n /\ j = loc[c].i + 1
                       \/ w = "planned" /\ loc[c].i = n /\ j = 1
    <3>1. /\ Set(c, [text |-> texts, i |-> IF AtLast(c) THEN 1 ELSE loc[c].i + 1])
          /\ Goto(c, IF AtLast(c) THEN "planned" ELSE "plan")
      BY <1>5 DEF Plan
    <3>2. CASE AtLast(c)
      BY <3>1, <3>2 DEF AtLast
    <3>3. CASE ~AtLast(c)
      BY <3>1, <3>3 DEF AtLast
    <3> QED
      BY <3>2, <3>3
  <2>2. IsContent(x)
    BY <1>2, AfterIsContent
  <2> HIDE DEF x
  <2>3. /\ IsSeq(texts) /\ Len(texts) = Len(loc[c].text) + 1 /\ texts[Len(loc[c].text) + 1] = x
        /\ \A i \in 1..Len(loc[c].text) : texts[i] = loc[c].text[i]
    BY <1>2, AppendFacts DEF PatchTyped, PlannedTexts
  <2> DEFINE values == [text |-> texts, i |-> j]
  <2>4. DOMAIN values = {"text", "i"} /\ values["text"] = texts /\ values["i"] = j /\ Set(c, values)
    BY <2>1
  <2> HIDE DEF values, texts, n, hk
  <2>5. /\ Own(c) /\ pc'[c] = w /\ DOMAIN loc'[c] = PatchFields
        /\ \A f \in PatchFields : loc'[c][f] = IF f \in DOMAIN values THEN values[f] ELSE loc[c][f]
    <3>1. Arrives(c, w)
      BY <2>1, GoesThere
    <3> QED
      BY <1>1, <1>2, <2>4, <3>1, PatchSets
  <2>6. /\ loc'[c].text = texts /\ loc'[c].i = j /\ loc'[c].hunks = loc[c].hunks /\ loc'[c].kind = loc[c].kind
        /\ loc'[c].kept = loc[c].kept /\ loc'[c].todo = loc[c].todo /\ loc'[c].snap = loc[c].snap
        /\ loc'[c].over = loc[c].over /\ loc'[c].delta = loc[c].delta /\ loc'[c].pending = loc[c].pending
    BY <2>4, <2>5 DEF PatchFields
  <2>7. loc[c].kind = "git" /\ PlannedTexts("plan", loc[c])
    BY <1>2 DEF PatchTyped
  <2>8. j \in 1..n /\ Len(texts) = IF w = "plan" THEN j - 1 ELSE n
    <3>1. Len(loc[c].text) = loc[c].i - 1
      BY <2>7 DEF PlannedTexts
    <3> QED
      BY <1>2, <2>1, <2>3, <3>1
  <2>9. PlannedTexts(w, loc'[c])
    <3>1. ASSUME NEW k \in 1..Len(texts) PROVE IsContent(texts[k])
      <4>1. Len(loc[c].text) \in Nat /\ \A i \in 1..Len(loc[c].text) : IsContent(loc[c].text[i])
        BY <2>7, SeqFacts DEF PlannedTexts
      <4> QED
        BY <2>2, <2>3, <4>1
    <3> QED
      BY <2>3, <2>6, <2>8, <3>1 DEF PlannedTexts, n
  <2>10. PatchTyped(w, loc'[c])
    BY <1>2, <2>1, <2>5, <2>6, <2>7, <2>8, <2>9 DEF PatchTyped, n
  <2>11. NativeOK(w, loc'[c], files')
    BY <2>6, <2>7 DEF NativeOK, Sure
  <2>12. CallInv(c)'
    BY <2>1, <2>5, <2>10, <2>11, EarlyKnows, PatchAt DEF CallInv, PatchPlaces
  <2> QED
    BY <1>3, <2>5, <2>12 DEF StepOK
<1> QED
  BY <1>4, <1>5

LEMMA PlannedSteps ==
  ASSUME Base, NEW c \in Calls, CallInv(c), Planned(c)
  PROVE  StepOK(c)
<1>1. pc[c] = "planned" /\ pc[c] \in PatchPlaces
  BY DEF Planned, Here, PatchPlaces
<1>2. PatchTyped("planned", loc[c]) /\ loc[c].kind \in {"native", "git", "edit", "json", "read", "archive"}
  BY <1>1, PatchHere
<1>3. Sound(c)
  BY LookingEffect DEF Planned, Base
<1>4. CASE Goto(c, "snapshot") /\ loc' = loc
  <2>1. loc[c].kind = "git"
    BY <1>2 DEF PatchTyped
  <2>2. PatchTyped("snapshot", loc[c]) /\ NativeOK("snapshot", loc[c], files')
    BY <1>2, <2>1 DEF PatchTyped, PlannedTexts, NativeOK, Sure
  <2>3. Own(c) /\ CallInv(c)'
    BY <1>4, <2>2, EarlyKnows, PatchGoes DEF PatchPlaces
  <2> QED
    BY <1>3, <2>3 DEF StepOK
<1>5. ASSUME NEW a, Answers(c, a) PROVE StepOK(c)
  BY <1>2, <1>3, <1>5, AnswersKeeps DEF StepOK
<1> QED
  BY <1>4, <1>5 DEF Planned

\* What holds of a native patch does not depend on what it keeps.
LEMMA NativeSame ==
  ASSUME NEW w, NEW l, NEW m, NEW fs, NativeOK(w, l, fs), m.kind = l.kind, m.hunks = l.hunks, m.i = l.i,
         m.pending = l.pending, m.text = l.text
  PROVE  NativeOK(w, m, fs)
BY DEF NativeOK, Sure, Reached

LEMMA SnapshotSteps ==
  ASSUME Base, NEW c \in Calls, CallInv(c), Snapshot(c)
  PROVE  StepOK(c)
<1>1. pc[c] = "snapshot" /\ pc[c] \in PatchPlaces
  BY DEF Snapshot, Here, PatchPlaces
<1>2. /\ PatchTyped("snapshot", loc[c]) /\ loc[c].kind \in {"native", "git", "edit", "json", "read", "archive"}
      /\ c \notin disturbed => NativeOK("snapshot", loc[c], files)
  BY <1>1, PatchHere
<1>3. Sound(c) /\ Untouched(c)
  BY LookingEffect DEF Snapshot, Base
<1>4. CASE Goto(c, IF loc[c].kind = "native" THEN "read" ELSE "write") /\ loc' = loc
  <2>1. PICK w \in {"read", "write"} : w = IF loc[c].kind = "native" THEN "read" ELSE "write"
    OBVIOUS
  <2>2. PatchTyped(w, loc[c])
    BY <1>2, <2>1 DEF PatchTyped, PlannedTexts
  <2>3. RollOK(w, loc[c], files', touched'[c]) /\ DeltaOK(w, loc[c], files', touched'[c])
    <3>1. loc[c].delta = <<>>
      BY <1>2 DEF PatchTyped
    <3>2. Len(loc[c].delta) = 0
      BY <3>1, EmptyIsSeq
    <3> QED
      BY <2>1, <3>2 DEF RollOK, DeltaOK
  <2>4. c \notin disturbed' => NativeOK(w, loc[c], files')
    <3> SUFFICES ASSUME c \notin disturbed', Sure(loc[c]) PROVE NativeOK("read", loc[c], files')
      BY <2>1 DEF NativeOK, Sure
    <3>1. files' = files /\ NativeOK("snapshot", loc[c], files)
      BY <1>2, <1>3 DEF Untouched
    <3>2. PICK W : /\ DryRun(loc[c].hunks, Len(loc[c].hunks), W) /\ Reached("snapshot", loc[c], files, W)
                   /\ \A p \in DOMAIN loc[c].pending : Alike(W[Len(loc[c].hunks) + 1][p], loc[c].pending[p])
      BY <3>1 DEF NativeOK
    <3>3. Reached("read", loc[c], files', W)
      BY <3>1, <3>2 DEF Reached
    <3>4. Clear(loc[c].hunks, files')
      BY <3>1 DEF NativeOK
    <3> QED
      BY <3>2, <3>3, <3>4 DEF NativeOK
  <2>5. Own(c) /\ CallInv(c)'
    BY <1>4, <2>1, <2>2, <2>3, <2>4, PatchGoes DEF PatchPlaces
  <2> QED
    BY <1>3, <2>5 DEF StepOK
<1>5. CASE Answers(c, "refused")
  BY <1>2, <1>3, <1>5, AnswersKeeps DEF StepOK
<1>6. ASSUME NEW p \in Named(loc[c].hunks), pc' = pc,
             Set(c, [snap |-> With(loc[c].snap, p, files[p]), kept |-> Append(loc[c].kept, p)])
      PROVE  StepOK(c)
  <2> DEFINE snap == With(loc[c].snap, p, files[p])
             kept == Append(loc[c].kept, p)
             values == [snap |-> snap, kept |-> kept]
  <2>1. p \in Paths /\ IsContent(files[p])
    <3>1. HunksTyped(loc[c].hunks)
      BY <1>2 DEF PatchTyped
    <3>2. \A i \in DOMAIN loc[c].hunks : loc[c].hunks[i].path \in Paths /\ loc[c].hunks[i].to \in Paths
      BY <3>1, SeqFacts DEF HunksTyped, HunkTyped
    <3>3. p \in Paths
      BY <3>2 DEF Named
    <3> QED
      BY <3>3 DEF Base, DiskTyped
  <2>2. /\ DOMAIN snap = DOMAIN loc[c].snap \union {p}
        /\ \A q \in DOMAIN snap : snap[q] = IF q = p THEN files[p] ELSE loc[c].snap[q]
    BY DEF With
  <2>3. kept \in Seq(DOMAIN snap) /\ ToSet(kept) = DOMAIN snap
    <3>1. loc[c].kept \in Seq(DOMAIN loc[c].snap) /\ ToSet(loc[c].kept) = DOMAIN loc[c].snap
      BY <1>2 DEF PatchTyped
    <3>2. loc[c].kept \in Seq(DOMAIN loc[c].snap \union {p})
      BY <3>1, SeqMonotonic
    <3>3. kept \in Seq(DOMAIN loc[c].snap \union {p}) /\ ToSet(kept) = ToSet(loc[c].kept) \union {p}
      BY <3>2, AppendToSet
    <3> QED
      BY <2>2, <3>1, <3>3
  <2>4. DOMAIN values = {"snap", "kept"} /\ values["snap"] = snap /\ values["kept"] = kept /\ Set(c, values)
    BY <1>6
  <2> HIDE DEF snap, kept, values
  <2>5. /\ Own(c) /\ pc'[c] = "snapshot" /\ DOMAIN loc'[c] = PatchFields
        /\ \A f \in PatchFields : loc'[c][f] = IF f \in DOMAIN values THEN values[f] ELSE loc[c][f]
    <3>1. Arrives(c, pc[c])
      BY <1>6, GoesThere
    <3> QED
      BY <1>1, <1>2, <2>4, <3>1, PatchSets
  <2>6. /\ loc'[c].text = loc[c].text /\ loc'[c].i = loc[c].i /\ loc'[c].hunks = loc[c].hunks /\ loc'[c].kind = loc[c].kind
        /\ loc'[c].kept = kept /\ loc'[c].todo = loc[c].todo /\ loc'[c].snap = snap
        /\ loc'[c].over = loc[c].over /\ loc'[c].delta = loc[c].delta /\ loc'[c].pending = loc[c].pending
    BY <2>4, <2>5 DEF PatchFields
  <2>7. DOMAIN snap \subseteq Paths /\ \A q \in DOMAIN snap : IsContent(snap[q])
    BY <1>2, <2>1, <2>2 DEF PatchTyped
  <2>8. PatchTyped("snapshot", loc'[c])
    <3>1. PlannedTexts("snapshot", loc[c]) => PlannedTexts("snapshot", loc'[c])
      BY <2>6 DEF PlannedTexts
    <3> QED
      BY <1>2, <2>3, <2>5, <2>6, <2>7, <3>1 DEF PatchTyped
  <2>9. c \notin disturbed' => NativeOK("snapshot", loc'[c], files')
    BY <1>2, <1>3, <2>6, NativeSame DEF Untouched
  <2>10. CallInv(c)'
    BY <2>5, <2>8, <2>9, EarlyKnows, PatchAt DEF CallInv, PatchPlaces
  <2> QED
    BY <1>3, <2>5, <2>10 DEF StepOK
<1> QED
  BY <1>4, <1>5, <1>6 DEF Snapshot

-----------------------------------------------------------------------------
(* The hunks are applied.                                                  *)

DeltaTyped(d) == IsSeq(d) /\ \A k \in 1..Len(d) : d[k].path \in Paths
DeltaKnown(d, fs, t) == \A k \in 1..Len(d) : LastOf(d, k) => fs[d[k].path] = d[k].what \/ d[k].path \in t

\* What a write adds to the record of what the patch left.
LEMMA DeltaAppend ==
  ASSUME NEW d, DeltaTyped(d), NEW fs, NEW t, DeltaKnown(d, fs, t), NEW p \in Paths, NEW what, NEW fs2, NEW t2,
         fs2[p] = what, \A q \in Paths \ {p} : fs2[q] = fs[q], t2 = t \ {p}
  PROVE  DeltaTyped(Append(d, [path |-> p, what |-> what])) /\ DeltaKnown(Append(d, [path |-> p, what |-> what]), fs2, t2)
<1> DEFINE x == [path |-> p, what |-> what]
           a == Append(d, x)
<1>1. x.path = p /\ x.what = what
  OBVIOUS
<1> HIDE DEF x
<1>2. /\ IsSeq(a) /\ Len(a) = Len(d) + 1 /\ a[Len(d) + 1] = x /\ Len(d) \in Nat
      /\ \A i \in 1..Len(d) : a[i] = d[i]
  BY AppendFacts, SeqFacts DEF DeltaTyped
<1> HIDE DEF a
<1>3. ASSUME NEW k \in 1..Len(a) PROVE a[k].path \in Paths
  BY <1>1, <1>2 DEF DeltaTyped
<1>4. ASSUME NEW k \in 1..Len(a), LastOf(a, k) PROVE fs2[a[k].path] = a[k].what \/ a[k].path \in t2
  <2>1. CASE k = Len(d) + 1
    BY <1>1, <1>2, <2>1
  <2>2. CASE k \in 1..Len(d)
    <3>1. Len(d) + 1 \in (k + 1)..Len(a)
      BY <1>2, <2>2
    <3>2. a[k] = d[k] /\ a[k].path # p
      BY <1>1, <1>2, <1>4, <2>2, <3>1 DEF LastOf
    <3>3. LastOf(d, k)
      <4>1. \A j \in (k + 1)..Len(d) : j \in (k + 1)..Len(a) /\ a[j] = d[j]
        BY <1>2, <2>2
      <4> QED
        BY <1>4, <3>2, <4>1 DEF LastOf
    <3>4. fs[d[k].path] = d[k].what \/ d[k].path \in t
      BY <2>2, <3>3 DEF DeltaKnown
    <3>5. d[k].path \in Paths \ {p}
      BY <2>2, <3>2 DEF DeltaTyped
    <3>6. fs2[d[k].path] = fs[d[k].path] /\ (d[k].path \in t => d[k].path \in t2)
      BY <3>5
    <3> QED
      BY <3>2, <3>4, <3>6
  <2> QED
    BY <1>2, <2>1, <2>2
<1> QED
  BY <1>2, <1>3, <1>4 DEF DeltaTyped, DeltaKnown, a, x

LEMMA DeltaHere ==
  ASSUME NEW w, NEW l, PatchTyped(w, l)
  PROVE  /\ DeltaTyped(l.delta)
         /\ \A fs, t : w \in {"read", "write", "remove", "refresh"} => (DeltaOK(w, l, fs, t) <=> DeltaKnown(l.delta, fs, t))
BY DEF PatchTyped, DeltaTyped, DeltaOK, DeltaKnown

\* A failed step starts the rollback of everything that was captured.
LEMMA FailsSteps ==
  ASSUME Base, NEW c \in Calls, CallInv(c), Sound(c), pc[c] \in {"read", "write", "remove", "unmove", "unmoving"},
         NEW d, DeltaTyped(d), Fails(c, d), c \notin disturbed' => ~Sure(loc[c])
  PROVE  StepOK(c)
<1> DEFINE todo == Reverse(loc[c].kept)
           values == [todo |-> todo, delta |-> d]
<1>1. pc[c] \in PatchPlaces
  BY DEF PatchPlaces
<1>2. PatchTyped(pc[c], loc[c])
  BY <1>1, PatchHere
<1>3. loc[c].kept \in Seq(DOMAIN loc[c].snap) /\ ToSet(loc[c].kept) = DOMAIN loc[c].snap
  BY <1>2 DEF PatchTyped
<1>4. todo \in Seq(DOMAIN loc[c].snap) /\ ToSet(todo) = DOMAIN loc[c].snap
  BY <1>3, ReverseFacts
<1>5. DOMAIN values = {"todo", "delta"} /\ values["todo"] = todo /\ values["delta"] = d /\ Set(c, values)
  BY DEF Fails
<1> HIDE DEF todo, values
<1>6. /\ Own(c) /\ pc'[c] = "rollback" /\ DOMAIN loc'[c] = PatchFields
      /\ \A f \in PatchFields : loc'[c][f] = IF f \in DOMAIN values THEN values[f] ELSE loc[c][f]
  <2>1. Arrives(c, "rollback")
    BY GoesThere DEF Fails
  <2> QED
    BY <1>2, <1>5, <2>1, PatchSets
<1>7. /\ loc'[c].text = loc[c].text /\ loc'[c].i = loc[c].i /\ loc'[c].hunks = loc[c].hunks /\ loc'[c].kind = loc[c].kind
      /\ loc'[c].kept = loc[c].kept /\ loc'[c].todo = todo /\ loc'[c].snap = loc[c].snap
      /\ loc'[c].over = loc[c].over /\ loc'[c].delta = d /\ loc'[c].pending = loc[c].pending
  BY <1>5, <1>6 DEF PatchFields
<1>8. PatchTyped("rollback", loc'[c])
  <2>1. loc[c].kind = "git" => PlannedTexts("rollback", loc'[c])
    BY <1>2, <1>7 DEF PatchTyped, PlannedTexts
  <2> QED
    BY <1>2, <1>4, <1>6, <1>7, <2>1 DEF PatchTyped, DeltaTyped
<1>9. RollOK("rollback", loc'[c], files', touched'[c]) /\ DeltaOK("rollback", loc'[c], files', touched'[c])
  BY <1>4, <1>7 DEF RollOK, DeltaOK
<1>10. c \notin disturbed' => NativeOK("rollback", loc'[c], files')
  BY <1>7 DEF NativeOK, Sure
<1>11. CallInv(c)'
  BY <1>6, <1>8, <1>9, <1>10, PatchAt DEF CallInv, PatchPlaces
<1> QED
  BY <1>6, <1>11 DEF StepOK

\* Where an undisturbed native patch is in what the dry run went through.
Foreseen(c, W) ==
  /\ DryRun(loc[c].hunks, Len(loc[c].hunks), W)
  /\ \A p \in DOMAIN loc[c].pending : Alike(W[Len(loc[c].hunks) + 1][p], loc[c].pending[p])

LEMMA ForeseenHere ==
  ASSUME NEW c \in Calls, CallInv(c), pc[c] \in PatchPlaces, NEW W, Foreseen(c, W)
  PROVE  /\ DOMAIN W[loc[c].i] = Paths /\ ~Bad(W[loc[c].i], Now(c)) /\ W[loc[c].i + 1] = Effect(W[loc[c].i], Now(c))
<1>1. /\ Now(c) = loc[c].hunks[loc[c].i] /\ Len(loc[c].hunks) \in Nat \ {0} /\ loc[c].i \in 1..Len(loc[c].hunks)
      /\ loc[c].i \in 1..(Len(loc[c].hunks) + 1)
  BY PatchHere
<1> QED
  BY <1>1 DEF Foreseen, DryRun

\* After a hunk the next one, or the end.
LEMMA NextHunkSteps ==
  ASSUME Base, NEW c \in Calls, CallInv(c), Sound(c), pc[c] \in {"write", "remove"}, NEW d, DeltaTyped(d), NextHunk(c, d),
         DeltaKnown(d, files', touched'[c]),
         c \notin disturbed' /\ Sure(loc[c]) =>
           Clear(loc[c].hunks, files') /\ \E W : Foreseen(c, W) /\ files' = W[loc[c].i + 1]
  PROVE  StepOK(c)
<1> DEFINE n == Len(loc[c].hunks)
<1>1. pc[c] \in PatchPlaces
  BY DEF PatchPlaces
<1>2. PatchTyped(pc[c], loc[c]) /\ n \in Nat \ {0} /\ loc[c].i \in 1..n
  BY <1>1, PatchHere
<1>3. PICK w \in {"read", "write", "refresh"}, j \in 1..n :
         /\ Set(c, [delta |-> d, i |-> j]) /\ Goto(c, w)
         /\ \/ w = "refresh" /\ loc[c].i = n /\ j = n
            \/ w # "refresh" /\ loc[c].i # n /\ j = loc[c].i + 1
         /\ w = "read" => loc[c].kind = "native"
         /\ w = "write" => loc[c].kind # "native"
  <2>1. CASE AtLast(c)
    <3>1. Set(c, [delta |-> d, i |-> loc[c].i]) /\ Goto(c, "refresh") /\ loc[c].i = n
      BY <2>1 DEF NextHunk, AtLast
    <3> QED
      BY <1>2, <3>1
  <2>2. CASE ~AtLast(c)
    <3>1. /\ Set(c, [delta |-> d, i |-> loc[c].i + 1]) /\ Goto(c, IF loc[c].kind = "native" THEN "read" ELSE "write")
          /\ loc[c].i # n
      BY <2>2 DEF NextHunk, AtLast
    <3>2. loc[c].i + 1 \in 1..n
      BY <1>2, <3>1
    <3>3. CASE loc[c].kind = "native"
      BY <3>1, <3>2, <3>3
    <3>4. CASE loc[c].kind # "native"
      BY <3>1, <3>2, <3>4
    <3> QED
      BY <3>3, <3>4
  <2> QED
    BY <2>1, <2>2
<1> DEFINE values == [delta |-> d, i |-> j]
<1>4. DOMAIN values = {"delta", "i"} /\ values["delta"] = d /\ values["i"] = j /\ Set(c, values)
  BY <1>3
<1> HIDE DEF values, n
<1>5. /\ Own(c) /\ pc'[c] = w /\ DOMAIN loc'[c] = PatchFields
      /\ \A f \in PatchFields : loc'[c][f] = IF f \in DOMAIN values THEN values[f] ELSE loc[c][f]
  <2>1. Arrives(c, w)
    BY <1>3, GoesThere
  <2> QED
    BY <1>2, <1>4, <2>1, PatchSets
<1>6. /\ loc'[c].text = loc[c].text /\ loc'[c].i = j /\ loc'[c].hunks = loc[c].hunks /\ loc'[c].kind = loc[c].kind
      /\ loc'[c].kept = loc[c].kept /\ loc'[c].todo = loc[c].todo /\ loc'[c].snap = loc[c].snap
      /\ loc'[c].over = loc[c].over /\ loc'[c].delta = d /\ loc'[c].pending = loc[c].pending
  BY <1>4, <1>5 DEF PatchFields
<1>7. PatchTyped(w, loc'[c])
  <2>1. loc[c].kind = "git" => PlannedTexts(w, loc'[c])
    BY <1>2, <1>3, <1>6 DEF PatchTyped, PlannedTexts
  <2> QED
    BY <1>2, <1>3, <1>5, <1>6, <2>1 DEF PatchTyped, DeltaTyped, n
<1>8. RollOK(w, loc'[c], files', touched'[c]) /\ DeltaOK(w, loc'[c], files', touched'[c])
  BY <1>3, <1>6 DEF RollOK, DeltaOK, DeltaKnown
<1>9. c \notin disturbed' => NativeOK(w, loc'[c], files')
  <2> SUFFICES ASSUME c \notin disturbed', Sure(loc[c]) PROVE NativeOK(w, loc'[c], files')
    BY <1>6 DEF NativeOK, Sure
  <2>1. PICK W : Foreseen(c, W) /\ files' = W[loc[c].i + 1]
    OBVIOUS
  <2>2. w \in {"read", "refresh"}
    BY <1>3 DEF Sure
  <2>3. Reached(w, loc'[c], files', W)
    BY <1>3, <1>6, <2>1, <2>2 DEF Reached, n
  <2> QED
    BY <1>6, <2>1, <2>2, <2>3 DEF NativeOK, Sure, Foreseen
<1>10. CallInv(c)'
  BY <1>5, <1>7, <1>8, <1>9, PatchAt DEF CallInv, PatchPlaces
<1> QED
  BY <1>5, <1>10 DEF StepOK

LEMMA ReadSteps ==
  ASSUME Base, NEW c \in Calls, CallInv(c), Read(c)
  PROVE  StepOK(c)
<1> DEFINE hk == Now(c)
           was == files[hk.path]
           over == files[hk.to]
<1>1. pc[c] = "read" /\ pc[c] \in PatchPlaces
  BY DEF Read, Here, PatchPlaces
<1>2. /\ PatchTyped("read", loc[c]) /\ (c \notin disturbed => NativeOK("read", loc[c], files))
      /\ HunkTyped(hk) /\ hk.path \in Paths /\ hk.to \in Paths /\ hk = loc[c].hunks[loc[c].i]
      /\ DeltaOK("read", loc[c], files, touched[c])
  BY <1>1, PatchHere
<1>3. Sound(c) /\ Untouched(c) /\ touched'[c] = touched[c]
  BY LookingEffect DEF Read, Base
<1>4. loc[c].kind = "native" /\ DeltaTyped(loc[c].delta)
  BY <1>2, DeltaHere DEF PatchTyped
<1>5. c \notin disturbed' /\ Sure(loc[c]) =>
        Clear(loc[c].hunks, files) /\ ~Blocked(hk.path) /\ \E W : Foreseen(c, W) /\ files = W[loc[c].i] /\ ~Bad(files, hk)
  <2> SUFFICES ASSUME c \notin disturbed', Sure(loc[c])
               PROVE  /\ Clear(loc[c].hunks, files) /\ ~Blocked(hk.path)
                      /\ \E W : Foreseen(c, W) /\ files = W[loc[c].i] /\ ~Bad(files, hk)
    OBVIOUS
  <2>1. NativeOK("read", loc[c], files)
    BY <1>2, <1>3 DEF Untouched
  <2>2. PICK W : Foreseen(c, W) /\ Reached("read", loc[c], files, W)
    BY <2>1 DEF NativeOK, Foreseen
  <2>3. files = W[loc[c].i]
    BY <2>2 DEF Reached
  <2>4. ~Bad(W[loc[c].i], hk)
    BY <1>1, <2>2, ForeseenHere
  <2>5. Clear(loc[c].hunks, files)
    BY <2>1 DEF NativeOK
  <2>6. ~Blocked(hk.path)
    BY <1>1, <2>5, NamedHere, BlockedIs DEF Clear
  <2> QED
    BY <2>2, <2>3, <2>4, <2>5, <2>6
<1> DEFINE bad == \/ ~Readable(hk.path) \/ TooLarge(was)
                  \/ hk.op # "add" /\ was.is = "none"
                  \/ hk.op = "update" /\ ~Applies(was.text, hk)
<1>6. CASE bad
  <2>1. Fails(c, loc[c].delta)
    BY <1>6 DEF Read
  <2>2. c \in disturbed' \/ ~Sure(loc[c])
    BY <1>5, <1>6 DEF Bad, Readable
  <2> QED
    BY <1>1, <1>3, <1>4, <2>1, <2>2, FailsSteps
<1>7. CASE ~bad
  <2>1. PICK w \in {"remove", "write"} : w = IF hk.op = "delete" THEN "remove" ELSE "write"
    OBVIOUS
  <2> DEFINE values == [text |-> was.text, over |-> over]
  <2>2. Goto(c, w) /\ Set(c, values)
    BY <1>7, <2>1 DEF Read
  <2>3. DOMAIN values = {"text", "over"} /\ values["text"] = was.text /\ values["over"] = over
    OBVIOUS
  <2>4. IsContent(over)
    BY <1>2 DEF Base, DiskTyped
  <2> HIDE DEF values, over
  <2>5. /\ Own(c) /\ pc'[c] = w /\ DOMAIN loc'[c] = PatchFields
        /\ \A f \in PatchFields : loc'[c][f] = IF f \in DOMAIN values THEN values[f] ELSE loc[c][f]
    <3>1. Arrives(c, w)
      BY <2>2, GoesThere
    <3> QED
      BY <1>1, <1>2, <2>2, <3>1, PatchSets
  <2>6. /\ loc'[c].text = was.text /\ loc'[c].i = loc[c].i /\ loc'[c].hunks = loc[c].hunks /\ loc'[c].kind = loc[c].kind
        /\ loc'[c].kept = loc[c].kept /\ loc'[c].todo = loc[c].todo /\ loc'[c].snap = loc[c].snap
        /\ loc'[c].over = over /\ loc'[c].delta = loc[c].delta /\ loc'[c].pending = loc[c].pending
    BY <2>3, <2>5 DEF PatchFields
  <2>7. PatchTyped(w, loc'[c])
    BY <1>2, <1>4, <2>1, <2>4, <2>5, <2>6 DEF PatchTyped
  <2>8. RollOK(w, loc'[c], files', touched'[c]) /\ DeltaOK(w, loc'[c], files', touched'[c])
    BY <1>2, <1>3, <2>1, <2>6 DEF RollOK, DeltaOK, Untouched
  <2>9. c \notin disturbed' => NativeOK(w, loc'[c], files')
    <3> SUFFICES ASSUME c \notin disturbed', Sure(loc[c]) PROVE NativeOK(w, loc'[c], files')
      BY <2>6 DEF NativeOK, Sure
    <3>1. PICK W : Foreseen(c, W) /\ files = W[loc[c].i] /\ ~Bad(files, hk)
      BY <1>5
    <3>2. files' = files /\ hk = loc'[c].hunks[loc'[c].i]
      BY <1>2, <1>3, <2>6 DEF Untouched
    <3>3. Reached(w, loc'[c], files', W)
      BY <2>1, <2>6, <3>1, <3>2 DEF Reached
    <3> QED
      BY <1>5, <2>1, <2>6, <3>1, <3>2, <3>3 DEF NativeOK, Foreseen
  <2>10. CallInv(c)'
    BY <2>1, <2>5, <2>7, <2>8, <2>9, PatchAt DEF CallInv, PatchPlaces
  <2> QED
    BY <1>3, <2>5, <2>10 DEF StepOK
<1> QED
  BY <1>6, <1>7

LEMMA ResultIsContent ==
  ASSUME NEW c \in Calls, CallInv(c), pc[c] \in {"write", "unmove"}
  PROVE  IsContent(Result(c))
<1>1. PatchTyped(pc[c], loc[c]) /\ HunkTyped(Now(c)) /\ Len(loc[c].hunks) \in Nat /\ loc[c].i \in 1..Len(loc[c].hunks)
  BY PatchHere DEF PatchPlaces
<1>2. CASE loc[c].kind = "native"
  BY <1>1, <1>2, AfterIsContent DEF Result
<1>3. CASE loc[c].kind # "native"
  <2>1. loc[c].kind = "git"
    BY <1>1, <1>3 DEF PatchTyped
  <2>2. PlannedTexts(pc[c], loc[c])
    BY <1>1, <2>1 DEF PatchTyped
  <2>3. Len(loc[c].text) = Len(loc[c].hunks)
    BY <2>2 DEF PlannedTexts
  <2> QED
    BY <1>1, <1>3, <2>2, <2>3 DEF PlannedTexts, Result
<1> QED
  BY <1>2, <1>3

LEMMA WriteSteps ==
  ASSUME Base, NEW c \in Calls, CallInv(c), Write(c)
  PROVE  StepOK(c)
<1> DEFINE hk == Now(c)
           what == Result(c)
           wrote == Also(c, hk.to, what)
           l == loc[c]
<1>1. pc[c] = "write" /\ pc[c] \in PatchPlaces /\ pc[c] # "idle"
  BY DEF Write, Here, PatchPlaces
<1>2. /\ PatchTyped("write", l) /\ (c \notin disturbed => NativeOK("write", l, files))
      /\ HunkTyped(hk) /\ hk.path \in Paths /\ hk.to \in Paths /\ hk = l.hunks[l.i]
      /\ DeltaOK("write", l, files, touched[c])
  BY <1>1, PatchHere
<1>3. DeltaTyped(l.delta) /\ DeltaKnown(l.delta, files, touched[c])
  BY <1>2, DeltaHere
<1>4. IsContent(what)
  BY <1>1, ResultIsContent
<1>a. c \notin disturbed /\ Sure(l) => Clear(l.hunks, files) /\ ~Blocked(hk.to)
  <2> SUFFICES ASSUME c \notin disturbed, Sure(l) PROVE Clear(l.hunks, files) /\ ~Blocked(hk.to)
    OBVIOUS
  <2>1. Clear(l.hunks, files)
    BY <1>2 DEF NativeOK
  <2> QED
    BY <1>1, <2>1, NamedHere, BlockedIs DEF Clear
<1>5. CASE CannotPut(c, hk.to, what) /\ Fails(c, l.delta)
  <2>1. Sound(c) /\ (c \in disturbed' \/ ~Sure(l))
    <3>1. CASE PutFails(c, hk.to, what)
      BY <1>1, <1>2, <3>1, PutFailsEffect DEF Base, FailsAt
    <3>2. CASE Blocked(hk.to) /\ Looking
      <4>1. Sound(c) /\ Untouched(c)
        BY <3>2, LookingEffect DEF Base
      <4> QED
        BY <1>a, <3>2, <4>1 DEF Untouched
    <3> QED
      BY <1>5, <3>1, <3>2 DEF CannotPut
  <2> QED
    BY <1>1, <1>3, <1>5, <2>1, FailsSteps
<1>6. CASE /\ Puts(c, hk.to, what) /\ Reliably
           /\ IF Moves(hk) THEN Set(c, [delta |-> wrote]) /\ Goto(c, "remove") ELSE NextHunk(c, wrote)
  <2>1. Sound(c) /\ PutsAt(c, hk.to, what)
    <3>1. left' \in [faults : Nat, edits : Nat]
      BY <1>6 DEF Reliably, Base, DiskTyped
    <3> QED
      BY <1>2, <1>4, <1>6, <3>1, PutEffect DEF Base, Puts
  <2>2. DeltaTyped(wrote) /\ DeltaKnown(wrote, files', touched'[c])
    <3>1. files'[hk.to] = what /\ (\A q \in Paths \ {hk.to} : files'[q] = files[q]) /\ touched'[c] = touched[c] \ {hk.to}
      BY <2>1 DEF PutsAt
    <3> HIDE DEF hk, what
    <3> QED
      BY <1>2, <1>3, <3>1, DeltaAppend DEF Also
  <2>a. c \notin disturbed' /\ Sure(l) => Clear(l.hunks, files')
    <3> SUFFICES ASSUME c \notin disturbed', Sure(l) PROVE Clear(l.hunks, files')
      OBVIOUS
    <3>1. Clear(l.hunks, files) /\ hk.to \in Named(l.hunks) /\ \A q \in Paths \ {hk.to} : files'[q] = files[q]
      BY <1>1, <1>a, <2>1, NamedHere DEF PutsAt
    <3> QED
      BY <3>1, ClearKept DEF Sure
  <2>3. c \notin disturbed' /\ Sure(l) =>
          \E W : /\ Foreseen(c, W) /\ W[l.i + 1] = Effect(W[l.i], hk) /\ hk.op # "delete"
                 /\ files' = [W[l.i] EXCEPT ![hk.to] = AsApplied(W[l.i][hk.path].text, hk)] /\ DOMAIN W[l.i] = Paths
    <3> SUFFICES ASSUME c \notin disturbed', Sure(l)
                 PROVE \E W : /\ Foreseen(c, W) /\ W[l.i + 1] = Effect(W[l.i], hk) /\ hk.op # "delete"
                              /\ files' = [W[l.i] EXCEPT ![hk.to] = AsApplied(W[l.i][hk.path].text, hk)] /\ DOMAIN W[l.i] = Paths
      OBVIOUS
    <3>1. NativeOK("write", l, files)
      BY <1>2, <2>1 DEF PutsAt
    <3>2. PICK W : Foreseen(c, W) /\ Reached("write", l, files, W)
      BY <3>1 DEF NativeOK, Sure, Foreseen
    <3>3. files = W[l.i] /\ l.text = files[hk.path].text /\ hk.op # "delete"
      BY <1>2, <3>2 DEF Reached
    <3>4. W[l.i + 1] = Effect(W[l.i], hk) /\ DOMAIN W[l.i] = Paths
      BY <1>1, <3>2, ForeseenHere
    <3>5. what = AsApplied(W[l.i][hk.path].text, hk)
      BY <3>3 DEF Result, Sure
    <3>6. files' = [files EXCEPT ![hk.to] = what]
      BY <2>1 DEF PutsAt
    <3> QED
      BY <3>2, <3>3, <3>4, <3>5, <3>6
  <2>4. CASE ~Moves(hk)
    <3>1. NextHunk(c, wrote)
      BY <1>6, <2>4
    <3>2. hk.op # "delete" => hk.to = hk.path
      BY <1>2, <2>4 DEF Moves, HunkTyped
    <3>3. c \notin disturbed' /\ Sure(l) => \E W : Foreseen(c, W) /\ files' = W[l.i + 1]
      <4> SUFFICES ASSUME c \notin disturbed', Sure(l) PROVE \E W : Foreseen(c, W) /\ files' = W[l.i + 1]
        OBVIOUS
      <4>1. PICK W : /\ Foreseen(c, W) /\ W[l.i + 1] = Effect(W[l.i], hk) /\ hk.op # "delete"
                     /\ files' = [W[l.i] EXCEPT ![hk.to] = AsApplied(W[l.i][hk.path].text, hk)] /\ DOMAIN W[l.i] = Paths
        BY <2>3
      <4>2. Effect(W[l.i], hk) = [W[l.i] EXCEPT ![hk.to] = AsApplied(W[l.i][hk.path].text, hk)]
        <5> DEFINE w0 == W[l.i]
        <5>1. DOMAIN w0 = Paths /\ hk.to = hk.path
          BY <3>2, <4>1
        <5> HIDE DEF w0, hk
        <5>2. Effect(w0, hk) = [w0 EXCEPT ![hk.path] = AsApplied(w0[hk.path].text, hk)]
          BY <1>2, <5>1, EffectInPlace
        <5> QED
          BY <5>1, <5>2 DEF w0
      <4> QED
        BY <4>1, <4>2
    <3> HIDE DEF wrote
    <3> QED
      BY <1>1, <2>1, <2>2, <2>a, <3>1, <3>3, NextHunkSteps
  <2>5. CASE Moves(hk)
    <3> DEFINE values == [delta |-> wrote]
    <3>1. Set(c, values) /\ Goto(c, "remove")
      BY <1>6, <2>5
    <3>2. DOMAIN values = {"delta"} /\ values["delta"] = wrote
      OBVIOUS
    <3> HIDE DEF values, wrote, what
    <3>3. /\ Own(c) /\ pc'[c] = "remove" /\ DOMAIN loc'[c] = PatchFields
          /\ \A f \in PatchFields : loc'[c][f] = IF f \in DOMAIN values THEN values[f] ELSE l[f]
      <4>1. Arrives(c, "remove")
        BY <3>1, GoesThere
      <4> QED
        BY <1>1, <1>2, <3>1, <4>1, PatchSets
    <3>4. /\ loc'[c].text = l.text /\ loc'[c].i = l.i /\ loc'[c].hunks = l.hunks /\ loc'[c].kind = l.kind
          /\ loc'[c].kept = l.kept /\ loc'[c].todo = l.todo /\ loc'[c].snap = l.snap
          /\ loc'[c].over = l.over /\ loc'[c].delta = wrote /\ loc'[c].pending = l.pending
      BY <3>2, <3>3 DEF PatchFields
    <3>5. PatchTyped("remove", loc'[c])
      <4>1. l.kind = "git" => PlannedTexts("remove", loc'[c])
        BY <1>2, <3>4 DEF PatchTyped, PlannedTexts
      <4> QED
        BY <1>2, <2>2, <3>3, <3>4, <4>1 DEF PatchTyped, DeltaTyped
    <3>6. RollOK("remove", loc'[c], files', touched'[c]) /\ DeltaOK("remove", loc'[c], files', touched'[c])
      BY <2>2, <3>4 DEF RollOK, DeltaOK, DeltaKnown
    <3>7. c \notin disturbed' => NativeOK("remove", loc'[c], files')
      <4> SUFFICES ASSUME c \notin disturbed', Sure(l) PROVE NativeOK("remove", loc'[c], files')
        BY <3>4 DEF NativeOK, Sure
      <4>1. PICK W : /\ Foreseen(c, W) /\ W[l.i + 1] = Effect(W[l.i], hk) /\ hk.op # "delete"
                     /\ files' = [W[l.i] EXCEPT ![hk.to] = AsApplied(W[l.i][hk.path].text, hk)] /\ DOMAIN W[l.i] = Paths
        BY <2>3
      <4> DEFINE v == AsApplied(W[l.i][hk.path].text, hk)
      <4>2. files' = With(W[l.i], hk.to, v)
        <5> HIDE DEF v, hk
        <5>1. DOMAIN W[l.i] \union {hk.to} = Paths
          BY <1>2, <4>1
        <5>2. files' = [W[l.i] EXCEPT ![hk.to] = v]
          BY <4>1 DEF v
        <5> QED
          BY <4>1, <5>1, <5>2 DEF With
      <4>3. Reached("remove", loc'[c], files', W)
        BY <1>2, <2>5, <3>4, <4>2 DEF Reached
      <4> QED
        BY <2>a, <3>4, <4>1, <4>3 DEF NativeOK, Foreseen
    <3>8. CallInv(c)'
      BY <3>3, <3>5, <3>6, <3>7, PatchAt DEF CallInv, PatchPlaces
    <3> QED
      BY <2>1, <3>3, <3>8 DEF StepOK
  <2> QED
    BY <2>4, <2>5
<1> QED
  BY <1>5, <1>6 DEF Write

LEMMA RemovesSteps ==
  ASSUME Base, NEW c \in Calls, CallInv(c), Removes(c)
  PROVE  StepOK(c)
<1> DEFINE hk == Now(c)
           l == loc[c]
<1>1. pc[c] = "remove" /\ pc[c] \in PatchPlaces /\ pc[c] # "idle"
  BY DEF Removes, Here, PatchPlaces
<1>2. /\ PatchTyped("remove", l) /\ (c \notin disturbed => NativeOK("remove", l, files))
      /\ HunkTyped(hk) /\ hk.path \in Paths /\ hk.to \in Paths /\ hk = l.hunks[l.i]
      /\ DeltaOK("remove", l, files, touched[c])
  BY <1>1, PatchHere
<1>3. DeltaTyped(l.delta) /\ DeltaKnown(l.delta, files, touched[c])
  BY <1>2, DeltaHere
\* Of an undisturbed native patch the source is there, and only it is to go.
<1>4. c \notin disturbed /\ Sure(l) =>
        \E W : /\ Foreseen(c, W) /\ files[hk.path].is # "none"
               /\ W[l.i + 1] = [files EXCEPT ![hk.path] = Nowhere]
  <2> SUFFICES ASSUME c \notin disturbed, Sure(l)
               PROVE \E W : /\ Foreseen(c, W) /\ files[hk.path].is # "none"
                            /\ W[l.i + 1] = [files EXCEPT ![hk.path] = Nowhere]
    OBVIOUS
  <2>1. PICK W : Foreseen(c, W) /\ Reached("remove", l, files, W)
    BY <1>2 DEF NativeOK, Sure, Foreseen
  <2>2. DOMAIN W[l.i] = Paths /\ ~Bad(W[l.i], hk) /\ W[l.i + 1] = Effect(W[l.i], hk)
    BY <1>1, <2>1, ForeseenHere
  <2>3. hk.op # "add" => W[l.i][hk.path].is # "none"
    BY <2>2 DEF Bad
  <2>4. CASE hk.op = "delete" /\ files = W[l.i]
    <3>1. hk.to = hk.path /\ AsApplied(W[l.i][hk.path].text, hk) = Nowhere
      BY <1>2, <2>4 DEF HunkTyped, AsApplied, After
    <3>2. Effect(W[l.i], hk) = [W[l.i] EXCEPT ![hk.to] = AsApplied(W[l.i][hk.path].text, hk)]
      <4> DEFINE w0 == W[l.i]
      <4>1. DOMAIN w0 = Paths /\ hk.to = hk.path
        BY <2>2, <3>1
      <4> HIDE DEF w0, hk
      <4>2. Effect(w0, hk) = [w0 EXCEPT ![hk.path] = AsApplied(w0[hk.path].text, hk)]
        BY <1>2, <4>1, EffectInPlace
      <4> QED
        BY <3>1, <4>2 DEF w0
    <3> QED
      BY <2>1, <2>2, <2>3, <2>4, <3>1, <3>2
  <2>5. CASE Moves(hk) /\ files = With(W[l.i], hk.to, AsApplied(W[l.i][hk.path].text, hk))
    <3>1. hk.to # hk.path /\ hk.op = "update"
      BY <2>5 DEF Moves
    <3>2. Effect(W[l.i], hk) = [With(W[l.i], hk.to, AsApplied(W[l.i][hk.path].text, hk)) EXCEPT ![hk.path] = Nowhere]
      <4> DEFINE w0 == W[l.i]
      <4>1. DOMAIN w0 = Paths
        BY <2>2
      <4> HIDE DEF w0, hk
      <4>2. Effect(w0, hk) = [With(w0, hk.to, AsApplied(w0[hk.path].text, hk)) EXCEPT ![hk.path] = Nowhere]
        BY <1>2, <3>1, <4>1, EffectIs
      <4> QED
        BY <4>2 DEF w0
    <3>3. files[hk.path] = W[l.i][hk.path]
      <4> DEFINE v == AsApplied(W[l.i][hk.path].text, hk)
      <4> HIDE DEF v, hk
      <4>1. files = With(W[l.i], hk.to, v)
        BY <2>5 DEF v
      <4> QED
        BY <1>2, <2>2, <3>1, <4>1 DEF With
    <3> QED
      BY <2>1, <2>2, <2>3, <2>5, <3>1, <3>2, <3>3
  <2> QED
    BY <1>2, <2>1, <2>4, <2>5 DEF Reached
<1>5. CASE Put(c, hk.path, Nowhere) /\ NextHunk(c, Also(c, hk.path, Nowhere)) /\ Reliably
  <2>1. PICK gone : gone = Nowhere
    OBVIOUS
  <2>2. IsContent(gone)
    BY <2>1 DEF IsContent, Nowhere
  <2> DEFINE d == Also(c, hk.path, gone)
  <2>3. Put(c, hk.path, gone) /\ NextHunk(c, d)
    BY <1>5, <2>1
  <2>4. Sound(c) /\ PutsAt(c, hk.path, gone)
    <3>1. left' \in [faults : Nat, edits : Nat]
      BY <1>5 DEF Reliably, Base, DiskTyped
    <3> QED
      BY <1>2, <2>2, <2>3, <3>1, PutEffect DEF Base
  <2>5. DeltaTyped(d) /\ DeltaKnown(d, files', touched'[c])
    <3>1. files'[hk.path] = gone /\ (\A q \in Paths \ {hk.path} : files'[q] = files[q]) /\ touched'[c] = touched[c] \ {hk.path}
      BY <2>4 DEF PutsAt
    <3> HIDE DEF hk
    <3> QED
      BY <1>2, <1>3, <3>1, DeltaAppend DEF Also
  <2>a. c \notin disturbed' /\ Sure(l) => Clear(l.hunks, files')
    <3> SUFFICES ASSUME c \notin disturbed', Sure(l) PROVE Clear(l.hunks, files')
      OBVIOUS
    <3>1. hk.path \in Named(l.hunks) /\ (\A q \in Paths \ {hk.path} : files'[q] = files[q]) /\ c \notin disturbed
      BY <1>1, <2>4, NamedHere DEF PutsAt
    <3>2. Clear(l.hunks, files)
      BY <1>2, <3>1 DEF NativeOK
    <3> QED
      BY <3>1, <3>2, ClearKept DEF Sure
  <2>6. c \notin disturbed' /\ Sure(l) => \E W : Foreseen(c, W) /\ files' = W[l.i + 1]
    <3>1. files' = [files EXCEPT ![hk.path] = Nowhere] /\ (c \in disturbed' <=> c \in disturbed)
      BY <2>1, <2>4 DEF PutsAt
    <3> QED
      BY <1>4, <3>1
  <2> HIDE DEF d
  <2> QED
    BY <1>1, <2>3, <2>4, <2>5, <2>6, <2>a, NextHunkSteps
<1>6. CASE /\ IF l.kind = "native" /\ Moves(hk) THEN Goto(c, "unmove") /\ UNCHANGED loc ELSE Fails(c, l.delta)
           /\ \/ RemoveFails(c)
              \/ l.kind = "native" /\ ~Exists(hk.path) /\ Looking
  <2>1. Sound(c) /\ (c \notin disturbed' => ~Sure(l))
    <3>1. CASE RemoveFails(c)
      BY <1>2, <3>1, RemoveFailsEffect DEF Base, FailsAt
    <3>2. CASE l.kind = "native" /\ ~Exists(hk.path) /\ Looking
      <4>1. Sound(c) /\ Untouched(c)
        BY <3>2, LookingEffect DEF Base
      <4>2. c \in disturbed \/ ~Sure(l)
        BY <1>4, <3>2 DEF Exists
      <4> QED
        BY <4>1, <4>2 DEF Untouched
    <3> QED
      BY <1>6, <3>1, <3>2
  <2>2. CASE Fails(c, l.delta)
    BY <1>1, <1>3, <2>1, <2>2, FailsSteps
  <2>3. CASE l.kind = "native" /\ Goto(c, "unmove") /\ loc' = loc
    <3>1. PatchTyped("unmove", l)
      BY <1>2, <2>3 DEF PatchTyped
    <3>2. c \in disturbed' \/ ~Sure(l)
      BY <2>1, <2>3
    <3>3. c \notin disturbed' => NativeOK("unmove", l, files')
      BY <3>2 DEF NativeOK
    <3>4. c \in disturbed => c \in disturbed'
      <4>1. RemoveFails(c) \/ Looking
        BY <1>6
      <4> QED
        BY <4>1 DEF RemoveFails, Looking
    <3>5. /\ Own(c) /\ pc'[c] = "unmove" /\ loc'[c] = l
      BY <2>3, GotoFacts DEF Own, Base
    <3>6. CallInv(c)'
      BY <3>1, <3>3, <3>5, EarlyKnows, PatchAt DEF CallInv, PatchPlaces
    <3> QED
      BY <2>1, <3>5, <3>6 DEF StepOK
  <2> QED
    BY <1>6, <2>2, <2>3
<1> QED
  BY <1>5, <1>6 DEF Removes

LEMMA UnmoveSteps ==
  ASSUME Base, NEW c \in Calls, CallInv(c), Unmove(c)
  PROVE  StepOK(c)
<1>1. pc[c] = "unmove" /\ pc[c] \in PatchPlaces
  BY DEF Unmove, Here, PatchPlaces
<1>2. PatchTyped("unmove", loc[c]) /\ (c \notin disturbed => NativeOK("unmove", loc[c], files))
  BY <1>1, PatchHere
<1>3. Sound(c) /\ Untouched(c)
  BY LookingEffect DEF Unmove, Base
<1>4. loc[c].kind = "native" /\ DeltaTyped(loc[c].delta)
  BY <1>2, DeltaHere DEF PatchTyped
<1>5. c \in disturbed' \/ ~Sure(loc[c])
  BY <1>2, <1>3 DEF NativeOK, Untouched
<1>6. CASE Goto(c, "unmoving") /\ loc' = loc
  <2>1. PatchTyped("unmoving", loc[c])
    BY <1>2 DEF PatchTyped
  <2>2. c \notin disturbed' => NativeOK("unmoving", loc[c], files')
    BY <1>5 DEF NativeOK
  <2>3. Own(c) /\ CallInv(c)'
    BY <1>6, <2>1, <2>2, EarlyKnows, PatchGoes DEF PatchPlaces
  <2> QED
    BY <1>3, <2>3 DEF StepOK
<1>7. CASE Fails(c, loc[c].delta)
  BY <1>1, <1>3, <1>4, <1>5, <1>7, FailsSteps
<1> QED
  BY <1>6, <1>7 DEF Unmove

LEMMA UnmovingSteps ==
  ASSUME Base, NEW c \in Calls, CallInv(c), Unmoving(c)
  PROVE  StepOK(c)
<1> DEFINE p == Now(c).to
           over == loc[c].over
<1>1. pc[c] = "unmoving" /\ pc[c] \in PatchPlaces /\ pc[c] # "idle"
  BY DEF Unmoving, Here, PatchPlaces
<1>2. PatchTyped("unmoving", loc[c]) /\ (c \notin disturbed => NativeOK("unmoving", loc[c], files)) /\ p \in Paths
  BY <1>1, PatchHere
<1>3. loc[c].kind = "native" /\ DeltaTyped(loc[c].delta) /\ IsContent(over)
  BY <1>2, DeltaHere DEF PatchTyped
<1>4. c \in disturbed \/ ~Sure(loc[c])
  BY <1>2 DEF NativeOK
<1>5. CASE Puts(c, p, over) /\ Reliably /\ Fails(c, Front(loc[c].delta))
  <2>1. Sound(c) /\ PutsAt(c, p, over)
    <3>1. left' \in [faults : Nat, edits : Nat]
      BY <1>5 DEF Reliably, Base, DiskTyped
    <3> QED
      BY <1>2, <1>3, <1>5, <3>1, PutEffect DEF Base, Puts
  <2>2. DeltaTyped(Front(loc[c].delta))
    BY <1>3, FrontFacts, SeqFacts DEF DeltaTyped
  <2>3. c \in disturbed' \/ ~Sure(loc[c])
    BY <1>4, <2>1 DEF PutsAt
  <2> QED
    BY <1>1, <1>5, <2>1, <2>2, <2>3, FailsSteps
<1>6. CASE CannotPut(c, p, over) /\ Fails(c, loc[c].delta)
  <2>1. Sound(c) /\ (c \in disturbed' \/ ~Sure(loc[c]))
    <3>1. CASE PutFails(c, p, over)
      BY <1>1, <1>2, <3>1, PutFailsEffect DEF Base, FailsAt
    <3>2. CASE Looking
      BY <1>4, <3>2, LookingEffect DEF Base, Untouched
    <3> QED
      BY <1>6, <3>1, <3>2 DEF CannotPut
  <2> QED
    BY <1>1, <1>3, <1>6, <2>1, FailsSteps
<1> QED
  BY <1>5, <1>6 DEF Unmoving

-----------------------------------------------------------------------------
(* The rollback.  A path is dealt with when the file is as it was, or once *)
(* it has been put back; when neither is the case it is a failure.         *)

\* The rollback goes on with less to do.
LEMMA RollsOn ==
  ASSUME Base, NEW c \in Calls, CallInv(c), Sound(c), pc[c] \in {"rollback", "putback"}, loc[c].todo # <<>>,
         Arrives(c, "rollback"), NEW failed, Keeps(c), DOMAIN loc'[c] = PatchFields,
         \A f \in PatchFields \ {"todo", "failed"} : loc'[c][f] = loc[c][f],
         loc'[c].todo = Tail(loc[c].todo), loc'[c].failed = failed,
         ~failed => /\ ~loc[c].failed
                    /\ Head(loc[c].todo) \in DOMAIN loc[c].snap => files'[Head(loc[c].todo)] = loc[c].snap[Head(loc[c].todo)]
                    /\ \A q \in Paths \ {Head(loc[c].todo)} : files'[q] = files[q]
                    /\ touched'[c] = touched[c] \ {Head(loc[c].todo)},
         c \notin disturbed' => c \notin disturbed
  PROVE  StepOK(c)
<1> DEFINE p == Head(loc[c].todo)
<1>1. pc[c] \in PatchPlaces
  BY DEF PatchPlaces
<1>2. /\ PatchTyped(pc[c], loc[c]) /\ RollOK(pc[c], loc[c], files, touched[c])
      /\ c \notin disturbed => NativeOK(pc[c], loc[c], files)
  BY <1>1, PatchHere
<1>3. loc[c].todo \in Seq(DOMAIN loc[c].snap)
  BY <1>2 DEF PatchTyped
<1>4. /\ p \in DOMAIN loc[c].snap /\ Tail(loc[c].todo) \in Seq(DOMAIN loc[c].snap)
      /\ \A x \in ToSet(loc[c].todo) : x = p \/ x \in ToSet(Tail(loc[c].todo))
  BY <1>3, TailFacts
<1>5. /\ loc'[c].text = loc[c].text /\ loc'[c].i = loc[c].i /\ loc'[c].hunks = loc[c].hunks /\ loc'[c].kind = loc[c].kind
      /\ loc'[c].kept = loc[c].kept /\ loc'[c].snap = loc[c].snap
      /\ loc'[c].over = loc[c].over /\ loc'[c].delta = loc[c].delta /\ loc'[c].pending = loc[c].pending
  BY DEF PatchFields
<1>6. PatchTyped("rollback", loc'[c])
  <2>1. loc[c].kind = "git" => PlannedTexts("rollback", loc'[c])
    BY <1>2, <1>5 DEF PatchTyped, PlannedTexts
  <2> QED
    BY <1>2, <1>4, <1>5, <2>1 DEF PatchTyped
<1>7. RollOK("rollback", loc'[c], files', touched'[c])
  <2> SUFFICES ASSUME ~failed, NEW q \in DOMAIN loc[c].snap
               PROVE  q \in ToSet(Tail(loc[c].todo)) \/ files'[q] = loc[c].snap[q] \/ q \in touched'[c]
    BY <1>5 DEF RollOK
  <2>1. CASE q = p
    BY <2>1
  <2>2. CASE q # p
    <3>1. q \in ToSet(loc[c].todo) \/ files[q] = loc[c].snap[q] \/ q \in touched[c]
      BY <1>2 DEF RollOK
    <3>2. q \in Paths
      BY <1>2 DEF PatchTyped
    <3> QED
      BY <1>4, <2>2, <3>1, <3>2
  <2> QED
    BY <2>1, <2>2
<1>8. DeltaOK("rollback", loc'[c], files', touched'[c])
  BY DEF DeltaOK
<1>9. c \notin disturbed' => NativeOK("rollback", loc'[c], files')
  BY <1>2, <1>5 DEF NativeOK, Sure
<1>10. CallInv(c)'
  BY <1>6, <1>7, <1>8, <1>9, PatchAt DEF CallInv, PatchPlaces, Arrives
<1> QED
  BY <1>10 DEF StepOK, Own, Arrives, Keeps

LEMMA RollbackSteps ==
  ASSUME Base, NEW c \in Calls, CallInv(c), Rollback(c)
  PROVE  StepOK(c)
<1> DEFINE p == Head(loc[c].todo)
<1>1. pc[c] = "rollback" /\ pc[c] \in PatchPlaces /\ loc[c].todo # <<>>
  BY DEF Rollback, Here, PatchPlaces
<1>2. /\ PatchTyped("rollback", loc[c]) /\ RollOK("rollback", loc[c], files, touched[c])
      /\ c \notin disturbed => NativeOK("rollback", loc[c], files)
  BY <1>1, PatchHere
<1>3. Sound(c) /\ Untouched(c) /\ touched'[c] = touched[c] \ {p}
  BY LookingAtEffect DEF Rollback, Base
<1>4. loc[c].todo \in Seq(DOMAIN loc[c].snap) /\ p \in DOMAIN loc[c].snap
  BY <1>1, <1>2, TailFacts DEF PatchTyped
<1>5. CASE Goto(c, "putback") /\ loc' = loc
  <2>1. PatchTyped("putback", loc[c])
    <3>1. loc[c].kind = "git" => PlannedTexts("putback", loc[c])
      BY <1>2 DEF PatchTyped, PlannedTexts
    <3> QED
      BY <1>1, <1>2, <3>1 DEF PatchTyped
  <2>2. RollOK("putback", loc[c], files', touched'[c]) /\ DeltaOK("putback", loc[c], files', touched'[c])
    <3>1. p \in ToSet(loc[c].todo)
      <4>1. Len(loc[c].todo) \in Nat \ {0} /\ p = loc[c].todo[1]
        BY <1>1, <1>4, EmptySeq, LenProperties
      <4> QED
        BY <1>4, <4>1, ToSetOfSeq
    <3> QED
      BY <1>2, <1>3, <3>1 DEF RollOK, DeltaOK, Untouched
  <2>3. c \notin disturbed' => NativeOK("putback", loc[c], files')
    BY <1>2, <1>3 DEF NativeOK, Sure, Untouched
  <2>4. Own(c) /\ pc'[c] = "putback" /\ loc'[c] = loc[c]
    BY <1>5, GotoFacts DEF Own, Base
  <2>5. CallInv(c)'
    BY <2>1, <2>2, <2>3, <2>4, PatchAt DEF CallInv, PatchPlaces
  <2> QED
    BY <1>3, <2>4, <2>5 DEF StepOK
<1>6. CASE Set(c, [todo |-> Tail(loc[c].todo), failed |-> loc[c].failed \/ Lost(c, p)]) /\ pc' = pc
  <2> DEFINE rest == Tail(loc[c].todo)
  <2>1. PICK failed : failed = (loc[c].failed \/ Lost(c, p))
    OBVIOUS
  <2> DEFINE values == [todo |-> rest, failed |-> failed]
  <2>2. Set(c, values)
    BY <1>6, <2>1
  <2>3. DOMAIN values = {"todo", "failed"} /\ values["todo"] = rest /\ values["failed"] = failed
    OBVIOUS
  <2>4. rest = Tail(loc[c].todo)
    OBVIOUS
  <2> HIDE DEF values, rest
  <2>5. /\ Keeps(c) /\ DOMAIN loc'[c] = DOMAIN loc[c]
        /\ \A f \in DOMAIN loc[c] : loc'[c][f] = IF f \in DOMAIN values THEN values[f] ELSE loc[c][f]
    BY <2>2, SetKeeps
  <2>6. DOMAIN loc[c] = PatchFields
    BY <1>2 DEF PatchTyped
  <2>7. /\ DOMAIN loc'[c] = PatchFields /\ \A f \in PatchFields \ {"todo", "failed"} : loc'[c][f] = loc[c][f]
        /\ loc'[c].todo = rest /\ loc'[c].failed = failed
    BY <2>3, <2>5, <2>6 DEF PatchFields
  <2>8. Arrives(c, "rollback")
    BY <1>1, <1>6, GoesThere
  <2>9. ~failed => ~loc[c].failed /\ files'[p] = loc[c].snap[p]
    BY <1>3, <2>1 DEF Lost, Untouched
  <2>10. (\A q \in Paths \ {p} : files'[q] = files[q]) /\ (c \notin disturbed' => c \notin disturbed)
    BY <1>3 DEF Untouched
  <2> QED
    BY <1>1, <1>3, <2>4, <2>5, <2>7, <2>8, <2>9, <2>10, RollsOn
<1>7. \/ Goto(c, "putback") /\ loc' = loc
      \/ (Set(c, [todo |-> Tail(loc[c].todo), failed |-> loc[c].failed \/ Lost(c, p)]) /\ pc' = pc)
  BY DEF Rollback
<1> QED
  BY <1>5, <1>6, <1>7

LEMMA PutBackSteps ==
  ASSUME Base, NEW c \in Calls, CallInv(c), PutBack(c)
  PROVE  StepOK(c)
<1> DEFINE p == Head(loc[c].todo)
           rest == Tail(loc[c].todo)
           old == loc[c].snap[p]
<1>1. pc[c] = "putback" /\ pc[c] \in PatchPlaces /\ pc[c] # "idle"
  BY DEF PutBack, Here, PatchPlaces
<1>2. PatchTyped("putback", loc[c])
  BY <1>1, PatchHere
<1>3. loc[c].todo # <<>> /\ DOMAIN loc[c] = PatchFields
  BY <1>2 DEF PatchTyped
<1>4. p \in DOMAIN loc[c].snap /\ p \in Paths /\ IsContent(old)
  <2>1. p \in DOMAIN loc[c].snap
    BY <1>2, <1>3, TailFacts DEF PatchTyped
  <2> QED
    BY <1>2, <2>1 DEF PatchTyped
<1>5. Arrives(c, "rollback")
  BY GoesThere DEF PutBack
<1>6. rest = Tail(loc[c].todo)
  OBVIOUS
<1> HIDE DEF rest
<1>7. CASE Puts(c, p, old) /\ Reliably /\ Set(c, [todo |-> rest])
  <2>1. Sound(c) /\ PutsAt(c, p, old)
    <3>1. left' \in [faults : Nat, edits : Nat]
      BY <1>7 DEF Reliably, Base, DiskTyped
    <3> QED
      BY <1>4, <1>7, <3>1, PutEffect DEF Base, Puts
  <2> DEFINE values == [todo |-> rest]
  <2>2. Set(c, values) /\ DOMAIN values = {"todo"} /\ values["todo"] = rest
    BY <1>7
  <2> HIDE DEF values
  <2>3. /\ Keeps(c) /\ DOMAIN loc'[c] = DOMAIN loc[c]
        /\ \A f \in DOMAIN loc[c] : loc'[c][f] = IF f \in DOMAIN values THEN values[f] ELSE loc[c][f]
    BY <2>2, SetKeeps
  <2>4. /\ DOMAIN loc'[c] = PatchFields /\ \A f \in PatchFields \ {"todo", "failed"} : loc'[c][f] = loc[c][f]
        /\ loc'[c].todo = rest /\ loc'[c].failed = loc[c].failed
    BY <1>3, <2>2, <2>3 DEF PatchFields
  <2>5. /\ files'[p] = old /\ (\A q \in Paths \ {p} : files'[q] = files[q]) /\ touched'[c] = touched[c] \ {p}
        /\ c \notin disturbed' => c \notin disturbed
    BY <2>1 DEF PutsAt
  <2> QED
    BY <1>1, <1>3, <1>5, <1>6, <2>1, <2>3, <2>4, <2>5, RollsOn
<1>8. CASE CannotPut(c, p, old) /\ Set(c, [todo |-> rest, failed |-> TRUE])
  <2>1. Sound(c) /\ (c \notin disturbed' => c \notin disturbed)
    <3>1. CASE PutFails(c, p, old)
      BY <1>1, <1>4, <3>1, PutFailsEffect DEF Base, FailsAt
    <3>2. CASE Looking
      BY <3>2, LookingEffect DEF Base, Untouched
    <3> QED
      BY <1>8, <3>1, <3>2 DEF CannotPut
  <2>2. PICK failed : failed = TRUE
    OBVIOUS
  <2> DEFINE values == [todo |-> rest, failed |-> failed]
  <2>3. Set(c, values) /\ DOMAIN values = {"todo", "failed"} /\ values["todo"] = rest /\ values["failed"] = failed
    BY <1>8, <2>2
  <2> HIDE DEF values
  <2>4. /\ Keeps(c) /\ DOMAIN loc'[c] = DOMAIN loc[c]
        /\ \A f \in DOMAIN loc[c] : loc'[c][f] = IF f \in DOMAIN values THEN values[f] ELSE loc[c][f]
    BY <2>3, SetKeeps
  <2>5. /\ DOMAIN loc'[c] = PatchFields /\ \A f \in PatchFields \ {"todo", "failed"} : loc'[c][f] = loc[c][f]
        /\ loc'[c].todo = rest /\ loc'[c].failed = failed
    BY <1>3, <2>3, <2>4 DEF PatchFields
  <2> QED
    BY <1>1, <1>3, <1>5, <1>6, <2>1, <2>2, <2>4, <2>5, RollsOn
<1> QED
  BY <1>7, <1>8 DEF PutBack, rest

LEMMA RolledBackSteps ==
  ASSUME Base, NEW c \in Calls, CallInv(c), RolledBack(c)
  PROVE  StepOK(c)
<1>1. pc[c] \in PatchPlaces
  BY DEF RolledBack, Here, PatchPlaces
<1>2. Sound(c)
  BY LookingEffect DEF RolledBack, Base
<1> QED
  BY <1>1, <1>2, PatchHere, AnswersKeeps DEF RolledBack, StepOK

\* What a patch expects at a path is what it wrote there last.
LEMMA ExpectedIs ==
  ASSUME NEW c \in Calls, DeltaTyped(loc[c].delta), NEW p \in DOMAIN Expected(c)
  PROVE  \E k \in 1..Len(loc[c].delta) :
           LastOf(loc[c].delta, k) /\ loc[c].delta[k].path = p /\ Expected(c)[p] = loc[c].delta[k].what
<1> DEFINE d == loc[c].delta
           at == {i \in 1..Len(d) : d[i].path = p}
<1>1. Len(d) \in Nat /\ DOMAIN d = 1..Len(d)
  BY SeqFacts DEF DeltaTyped
<1>2. at # {}
  BY <1>1 DEF Expected
<1>3. PICK k \in at : \A j \in at : j <= k
  <2>1. at \in SUBSET (1..Len(d))
    OBVIOUS
  <2> HIDE DEF at, d
  <2> QED
    BY <1>1, <1>2, <2>1, LastIn
<1>4. k \in DOMAIN d /\ d[k].path = p /\ \A j \in (k + 1)..Len(d) : d[j].path # p
  <2> SUFFICES ASSUME NEW j \in (k + 1)..Len(d) PROVE d[j].path # p
    BY <1>1
  <2>1. j \in 1..Len(d) /\ ~(j <= k)
    BY <1>1
  <2> QED
    BY <1>3, <2>1
<1> DEFINE m == CHOOSE i \in DOMAIN d : d[i].path = p /\ \A j \in (i + 1)..Len(d) : d[j].path # p
<1>5. m \in DOMAIN d /\ d[m].path = p /\ \A j \in (m + 1)..Len(d) : d[j].path # p
  BY <1>4
<1>6. Expected(c)[p] = d[m].what
  BY DEF Expected
<1> HIDE DEF m
<1> QED
  BY <1>1, <1>5, <1>6 DEF LastOf

LEMMA RefreshSteps ==
  ASSUME Base, NEW c \in Calls, CallInv(c), Refresh(c)
  PROVE  StepOK(c)
<1> DEFINE texts == [p \in DOMAIN Expected(c) |-> Expected(c)[p].text]
<1>1. pc[c] = "refresh" /\ pc[c] \in PatchPlaces
  BY DEF Refresh, Here, PatchPlaces
<1>2. /\ PatchTyped("refresh", loc[c]) /\ DeltaOK("refresh", loc[c], files, touched[c])
      /\ loc[c].kind \in {"native", "git", "edit", "json", "read", "archive"}
  BY <1>1, PatchHere
<1>3. DeltaTyped(loc[c].delta) /\ DeltaKnown(loc[c].delta, files, touched[c])
  BY <1>2, DeltaHere
<1>4. \A p \in Paths \cap DOMAIN texts : files[p].is = "file" /\ p \notin touched[c] => files[p].text = texts[p]
  <2> SUFFICES ASSUME NEW p \in DOMAIN Expected(c), p \notin touched[c] PROVE files[p] = Expected(c)[p]
    OBVIOUS
  <2>1. PICK k \in 1..Len(loc[c].delta) :
           LastOf(loc[c].delta, k) /\ loc[c].delta[k].path = p /\ Expected(c)[p] = loc[c].delta[k].what
    BY <1>3, ExpectedIs
  <2> QED
    BY <1>3, <2>1 DEF DeltaKnown
<1>5. Record(c, texts) /\ Answers(c, "applied")
  BY DEF Refresh
<1> HIDE DEF texts
<1>6. Sound(c)
  BY <1>4, <1>5, RecordEffect DEF Base
<1> QED
  BY <1>2, <1>5, <1>6, AnswersKeeps DEF StepOK

LEMMA PatchToolSteps ==
  ASSUME Base, NEW c \in Calls, CallInv(c), PatchStep(c)
  PROVE  StepOK(c)
BY ResolveSteps, VerifySteps, PlanSteps, PlannedSteps, SnapshotSteps, ReadSteps, WriteSteps, RemovesSteps, UnmoveSteps,
   UnmovingSteps, RollbackSteps, PutBackSteps, RolledBackSteps, RefreshSteps DEF PatchStep

-----------------------------------------------------------------------------
(* A call begins, or somebody else edits a file.                           *)

\* A record in the place of a call's local values.
LEMMA Starts ==
  ASSUME Base, NEW c \in Calls, NEW l, loc' = [loc EXCEPT ![c] = l], NEW w, Goto(c, w)
  PROVE  Own(c) /\ pc'[c] = w /\ loc'[c] = l
BY GotoFacts DEF Own, Base

LEMMA PatchBeginsSteps ==
  ASSUME Base, NEW c \in Calls, CallInv(c), NEW kind \in {"native", "git"}, NEW hs, HunksTyped(hs), PatchBegins(c, kind, hs)
  PROVE  StepOK(c)
<1> DEFINE l == [kind |-> kind, answer |-> "none", hunks |-> hs, i |-> 1, pending |-> <<>>,
                 snap |-> <<>>, kept |-> <<>>, text |-> <<>>, over |-> Nowhere, delta |-> <<>>, todo |-> <<>>, failed |-> FALSE]
<1>1. Sound(c)
  BY LookingEffect DEF PatchBegins, Base
<1>2. PICK w \in {"resolve", "plan"} : w = IF kind = "native" THEN "resolve" ELSE "plan"
  OBVIOUS
<1>3. Own(c) /\ pc'[c] = w /\ loc'[c] = l
  <2> DEFINE m == l
  <2>1. loc' = [loc EXCEPT ![c] = m] /\ Goto(c, w)
    BY <1>2 DEF PatchBegins
  <2> HIDE DEF m
  <2>2. Own(c) /\ pc'[c] = w /\ loc'[c] = m
    BY <2>1, Starts
  <2> QED
    BY <2>2 DEF m
<1>4. PICK e, gone : e = <<>> /\ gone = Nowhere
  OBVIOUS
<1>5. IsSeq(e) /\ Len(e) = 0 /\ DOMAIN e = {} /\ IsContent(gone)
  BY <1>4, EmptyIsSeq DEF IsContent, Nowhere
<1>6. e \in Seq(DOMAIN e) /\ ToSet(e) = DOMAIN e
  BY <1>4, <1>5, EmptySeq DEF ToSet
<1>7. /\ DOMAIN l = PatchFields /\ l.kind = kind /\ l.hunks = hs /\ l.i = 1 /\ l.pending = e /\ l.snap = e /\ l.kept = e
      /\ l.text = e /\ l.over = gone /\ l.delta = e
  BY <1>4 DEF PatchFields
<1>8. Len(hs) \in Nat \ {0}
  BY SeqFacts, EmptySeq DEF HunksTyped, IsSeq
<1> HIDE DEF l
<1>9. PlannedTexts("plan", l)
  BY <1>5, <1>7 DEF PlannedTexts
<1>10. PatchTyped(w, l)
  BY <1>2, <1>4, <1>5, <1>6, <1>7, <1>8, <1>9 DEF PatchTyped
<1>11. NativeOK(w, l, files')
  BY <1>2, <1>4, <1>7 DEF NativeOK, Sure
<1>12. CallInv(c)'
  BY <1>2, <1>3, <1>10, <1>11, EarlyKnows, PatchAt DEF CallInv, PatchPlaces
<1> QED
  BY <1>1, <1>3, <1>12 DEF StepOK

LEMMA EditBeginsSteps ==
  ASSUME Base, NEW c \in Calls, CallInv(c), NEW ask, ask.path \in Paths, EditBegins(c, ask) \/ JsonBegins(c, ask)
  PROVE  StepOK(c)
<1>1. Sound(c)
  BY LookingEffect DEF EditBegins, JsonBegins, Base
<1>2. PICK w \in {"stat", "parse"}, kind \in {"edit", "json"} :
         loc' = [loc EXCEPT ![c] = [kind |-> kind, answer |-> "none", ask |-> ask, text |-> <<>>]] /\ Goto(c, w)
  BY DEF EditBegins, JsonBegins
<1> DEFINE l == [kind |-> kind, answer |-> "none", ask |-> ask, text |-> <<>>]
<1>3. loc' = [loc EXCEPT ![c] = l]
  BY <1>2
<1>4. EditTyped(l)
  BY DEF EditTyped, EditFields
<1> HIDE DEF l
<1>5. Own(c) /\ pc'[c] = w /\ loc'[c] = l
  BY <1>2, <1>3, Starts
<1>6. EditOK(w, l, files', touched'[c])
  BY DEF EditOK
<1>7. CallInv(c)'
  BY <1>4, <1>5, <1>6, EditAt DEF CallInv, EditPlaces, JsonPlaces
<1> QED
  BY <1>1, <1>5, <1>7 DEF StepOK

LEMMA ReadBeginsSteps ==
  ASSUME Base, NEW c \in Calls, CallInv(c), NEW p \in Paths, ReadBegins(c, p)
  PROVE  StepOK(c)
<1> DEFINE l == [kind |-> "read", answer |-> "none", path |-> p, text |-> <<>>]
<1>1. Sound(c)
  BY LookingEffect DEF ReadBegins, Base
<1>2. loc' = [loc EXCEPT ![c] = l] /\ Goto(c, "look")
  BY DEF ReadBegins
<1>3. ReadTyped(l)
  BY DEF ReadTyped, ReadFields
<1> HIDE DEF l
<1>4. Own(c) /\ pc'[c] = "look" /\ loc'[c] = l
  BY <1>2, Starts
<1>5. CallInv(c)'
  BY <1>3, <1>4, ReadAt DEF CallInv, ReadPlaces
<1> QED
  BY <1>1, <1>4, <1>5 DEF StepOK

LEMMA ExtractBeginsSteps ==
  ASSUME Base, NEW c \in Calls, CallInv(c), NEW ask, IsSeq(ask.members), IsSeq(ask.again),
         \A i \in 1..Len(ask.members) : ask.members[i].name \in Paths, ExtractBegins(c, ask)
  PROVE  StepOK(c)
<1> DEFINE none == [k \in Counted |-> 0]
           l == [kind |-> "extract", answer |-> "none", ask |-> ask, at |-> 1,
                 holds |-> ask.members, before |-> files, count |-> none]
<1>1. Sound(c) /\ Untouched(c)
  BY LookingEffect DEF ExtractBegins, Base
<1>2. loc' = [loc EXCEPT ![c] = l] /\ Goto(c, "list")
  BY DEF ExtractBegins
<1>3. none \in [Counted -> Nat] /\ Accounted(none) = 0
  BY DEF Accounted, Counted
<1> HIDE DEF none
<1>4. /\ DOMAIN l = ExtractFields /\ l.kind = "extract" /\ l.answer = "none" /\ l.ask = ask /\ l.at = 1
      /\ l.holds = ask.members /\ l.before = files /\ l.count = none
  BY DEF ExtractFields
<1> HIDE DEF l
<1>5. Len(ask.members) \in Nat
  BY SeqFacts
<1>6. ExtractTyped("list", l)
  BY <1>3, <1>4, <1>5 DEF ExtractTyped
<1>7. Own(c) /\ pc'[c] = "list" /\ loc'[c] = l
  BY <1>2, Starts
<1>8. UnpackOK("list", l, files', touched'[c]) /\ ExtractOK("list", l, files')
  BY <1>1, <1>4 DEF UnpackOK, ExtractOK, Untouched
<1>9. CallInv(c)'
  BY <1>6, <1>7, <1>8, ExtractAt DEF CallInv, ExtractPlaces
<1> QED
  BY <1>1, <1>7, <1>9 DEF StepOK

LEMMA CreateBeginsSteps ==
  ASSUME Base, NEW c \in Calls, CallInv(c), NEW ask, ask.path \in Paths, ask.from \in Seq(Paths), CreateBegins(c, ask)
  PROVE  StepOK(c)
<1> DEFINE l == [kind |-> "archive", answer |-> "none", ask |-> ask, at |-> 1, text |-> <<>>]
<1>1. Sound(c)
  BY LookingEffect DEF CreateBegins, Base
<1>2. PICK w \in {"refuse", "collect"} : loc' = [loc EXCEPT ![c] = l] /\ Goto(c, w)
  BY DEF CreateBegins
<1>3. CreateTyped(l)
  <2>1. Len(ask.from) \in Nat
    BY LenProperties
  <2> QED
    BY <2>1 DEF CreateTyped, CreateFields
<1> HIDE DEF l
<1>4. Own(c) /\ pc'[c] = w /\ loc'[c] = l
  BY <1>2, Starts
<1>5. CallInv(c)'
  BY <1>3, <1>4, CreateAt DEF CallInv, CreatePlaces
<1> QED
  BY <1>1, <1>4, <1>5 DEF StepOK

LEMMA BeginsSteps ==
  ASSUME Base, NEW c \in Calls, CallInv(c), Begins(c)
  PROVE  StepOK(c)
<1> DEFINE ask == mix.calls[c]
<1>1. AskTyped(ask)
  BY MixAssumption DEF Base
<1> HIDE DEF ask
<1>2. CASE ask.kind = "patch" /\ \E kind \in ask.formats : PatchBegins(c, kind, ask.hunks)
  <2>1. PICK kind \in ask.formats : PatchBegins(c, kind, ask.hunks)
    BY <1>2
  <2>2. /\ ask.formats \subseteq {"native", "git"} /\ ask.hunks \in Seq(ToSet(ask.hunks)) /\ ask.hunks # <<>>
        /\ \A hk \in ToSet(ask.hunks) : HunkTyped(hk)
    BY <1>1, <1>2 DEF AskTyped
  <2>3. HunksTyped(ask.hunks)
    <3>1. DOMAIN ask.hunks = 1..Len(ask.hunks)
      BY <2>2, LenProperties
    <3> QED
      BY <2>2, <3>1 DEF HunksTyped, IsSeq, ToSet
  <2> QED
    BY <2>1, <2>2, <2>3, PatchBeginsSteps
<1>3. CASE (ask.kind = "edit" /\ EditBegins(c, ask)) \/ (ask.kind = "json" /\ JsonBegins(c, ask))
  BY <1>1, <1>3, EditBeginsSteps DEF AskTyped
<1>4. CASE ask.kind = "read" /\ ReadBegins(c, ask.path)
  BY <1>1, <1>4, ReadBeginsSteps DEF AskTyped
<1>5. CASE ask.kind = "extract" /\ ExtractBegins(c, ask)
  <2>1. /\ ask.members \in Seq(ToSet(ask.members)) /\ ask.again \in Seq(ToSet(ask.again))
        /\ \A m \in ToSet(ask.members) : m.name \in Paths
    BY <1>1, <1>5 DEF AskTyped
  <2>2. DOMAIN ask.members = 1..Len(ask.members)
    BY <2>1, LenProperties
  <2>3. \A i \in 1..Len(ask.members) : ask.members[i].name \in Paths
    BY <2>1, <2>2 DEF ToSet
  <2> QED
    BY <1>5, <2>1, <2>3, ExtractBeginsSteps DEF IsSeq
<1>6. CASE ask.kind = "create" /\ CreateBegins(c, ask)
  BY <1>1, <1>6, CreateBeginsSteps DEF AskTyped
<1> QED
  BY <1>2, <1>3, <1>4, <1>5, <1>6 DEF Begins, ask

LEMMA ElsewhereSteps ==
  ASSUME Base, NEW p \in Paths, ElsewhereEdits(p)
  PROVE  StepOK(Elsewhere)
<1>1. PICK what : Put(Elsewhere, p, what) /\ IsContent(what)
  <2>1. PICK what \in {File(Append(files[p].text, Foreign)), Nowhere} : Put(Elsewhere, p, what)
    BY DEF ElsewhereEdits
  <2>2. IsContent(what)
    BY DEF IsContent, File, Nowhere
  <2> QED
    BY <2>1, <2>2
<1>2. left' \in [faults : Nat, edits : Nat]
  BY DEF ElsewhereEdits, Base, DiskTyped
<1>3. Sound(Elsewhere)
  BY <1>1, <1>2, PutEffect DEF Base
<1>4. Elsewhere \notin Calls
  BY DiskAssumption DEF Elsewhere
<1>5. Own(Elsewhere)
  BY DEF ElsewhereEdits, Own, Base
<1> QED
  BY <1>3, <1>4, <1>5 DEF StepOK

-----------------------------------------------------------------------------
(* The invariant.                                                          *)

LEMMA FilesStart == Init => Inv
<1> SUFFICES ASSUME Init PROVE Inv
  OBVIOUS
<1>1. mix \in Mixes /\ DOMAIN mix.files = Paths /\ \A p \in Paths : IsContent(mix.files[p])
  BY MixAssumption DEF Init
<1>2. /\ files = mix.files /\ cache = [p \in Paths |-> "missing"] /\ shown = [p \in Paths |-> Unseen]
      /\ touched = [c \in Calls |-> {}] /\ disturbed = {}
      /\ pc = [c \in Calls |-> "idle"] /\ loc = [c \in Calls |-> NoCall]
      /\ left = [faults |-> MaxFaults, edits |-> MaxEdits]
  BY DEF Init, DiskInit
<1>3. DiskTyped
  BY <1>1, <1>2, DiskAssumption DEF DiskTyped
<1>4. FreshMeansSeen
  BY <1>2 DEF FreshMeansSeen
<1>5. ASSUME NEW c \in Calls PROVE CallInv(c)
  <2>1. PICK l : l = NoCall
    OBVIOUS
  <2>2. pc[c] = "idle" /\ loc[c] = l
    BY <1>2, <2>1
  <2>3. CallTyped("idle", l)
    BY <2>1 DEF CallTyped, Places, PatchPlaces, EditPlaces, JsonPlaces, ReadPlaces, ExtractPlaces, CreatePlaces
  <2>4. Knows("idle", l, files, touched[c])
    BY DEF Knows, RollOK, DeltaOK, EditOK, UnpackOK
  <2>5. Alone("idle", l, files)
    BY <2>1, IdleAlone
  <2> QED
    BY <2>2, <2>3, <2>4, <2>5 DEF CallInv
<1> QED
  BY <1>1, <1>2, <1>3, <1>4, <1>5 DEF Inv

LEMMA FilesStep == Inv /\ [Next]_all => Inv'
<1> SUFFICES ASSUME Inv, [Next]_all PROVE Inv'
  OBVIOUS
<1>1. Base
  BY DEF Base, Inv
<1>2. CASE UNCHANGED all
  <2>1. /\ files' = files /\ cache' = cache /\ shown' = shown /\ touched' = touched /\ disturbed' = disturbed
        /\ pc' = pc /\ loc' = loc /\ left' = left /\ mix' = mix
    BY <1>2 DEF all, vars
  <2>2. DiskTyped' /\ FreshMeansSeen'
    BY <2>1 DEF Inv, DiskTyped, FreshMeansSeen
  <2>3. ASSUME NEW c \in Calls PROVE CallInv(c)'
    BY <2>1 DEF Inv, CallInv
  <2> QED
    BY <2>1, <2>2, <2>3 DEF Inv
<1>3. CASE Next
  <2>1. mix' = mix
    BY <1>3 DEF Next
  <2>2. ASSUME NEW c \in Calls,
               Begins(c) \/ PatchStep(c) \/ EditStep(c) \/ ArchiveStep(c) \/ JsonStep(c) \/ (loc[c].kind = "read" /\ ReadStep(c))
        PROVE  StepOK(c)
    <3>1. CallInv(c)
      BY DEF Inv
    <3> QED
      BY <1>1, <2>2, <3>1, BeginsSteps, PatchToolSteps, EditToolSteps, ArchiveToolSteps, JsonToolSteps, ReadToolSteps
  <2>3. ASSUME NEW p \in mix.edited, ElsewhereEdits(p) PROVE StepOK(Elsewhere)
    <3>1. p \in Paths
      BY <1>1, MixAssumption DEF Base
    <3> QED
      BY <1>1, <2>3, <3>1, ElsewhereSteps
  <2>4. PICK c : StepOK(c)
    BY <1>3, <2>2, <2>3 DEF Next
  <2> QED
    BY <2>1, <2>4, Frame
<1> QED
  BY <1>2, <1>3

(* The invariant holds of every behaviour of the file tools. *)
THEOREM FilesInvariant == Spec => []Inv
  BY FilesStart, FilesStep, PTL DEF Spec

-----------------------------------------------------------------------------
(* What the invariant implies.                                             *)

(* At every place of every tool the local values a call has are those its
   place needs: the hunk, the member or the file it is at exists, what it
   has planned or captured is there for each of them.  (patch.ts, edit.ts,
   json.ts, archive.ts) *)
THEOREM TypeCorrect == Spec => []TypeOK
<1>1. Inv => TypeOK
  BY DEF Inv, TypeOK, CallInv
<1> QED
  BY <1>1, FilesInvariant, PTL

(* A patch that reports its writes as rolled back has left every captured
   file as it was, unless somebody else wrote it after the rollback looked.
   (patch.ts:63-85, 183, 280) *)
THEOREM RollsBackTruthfully == Spec => []RollbackTruthful
<1>1. Inv => RollbackTruthful
  <2> SUFFICES ASSUME Inv, NEW c \in Calls, pc[c] = "rollback", loc[c].todo = <<>>, ~loc[c].failed,
                      NEW p \in DOMAIN loc[c].snap
               PROVE  files[p] = loc[c].snap[p] \/ p \in touched[c]
    BY DEF RollbackTruthful
  <2>1. RollOK("rollback", loc[c], files, touched[c])
    BY DEF Inv, CallInv, Knows
  <2>2. PICK e : e = <<>>
    OBVIOUS
  <2>3. DOMAIN e = {}
    BY <2>2, EmptyIsSeq
  <2>4. p \notin ToSet(loc[c].todo)
    BY <2>2, <2>3 DEF ToSet
  <2> QED
    BY <2>1, <2>4 DEF RollOK
<1> QED
  BY <1>1, FilesInvariant, PTL

(* A native patch that verification accepted applies, and leaves what the
   dry run said up to line endings, when nobody else writes and no write
   fails; excepted are the patches that come back to a file they have made
   too large, or name a path and another inside it.
   (apply-patch/index.ts:575-582) *)
THEOREM AppliesAsVerified == Spec => []VerifiedApplies
<1>1. Inv => VerifiedApplies
  <2> SUFFICES ASSUME Inv, NEW c \in Calls \ disturbed, loc[c].kind = "native", Foretold(loc[c].hunks)
               PROVE  /\ pc[c] \notin {"unmove", "rollback", "putback"}
                      /\ pc[c] = "refresh" => \A p \in DOMAIN loc[c].pending : Alike(files[p], loc[c].pending[p])
    BY DEF VerifiedApplies
  <2>1. NativeOK(pc[c], loc[c], files) /\ Sure(loc[c])
    BY DEF Inv, CallInv, Alone, Sure
  <2>2. CASE pc[c] = "refresh"
    <3>1. PICK W : /\ Reached("refresh", loc[c], files, W)
                   /\ \A p \in DOMAIN loc[c].pending : Alike(W[Len(loc[c].hunks) + 1][p], loc[c].pending[p])
      BY <2>1, <2>2 DEF NativeOK
    <3> QED
      BY <2>2, <3>1 DEF Reached
  <2>3. CASE pc[c] # "refresh"
    BY <2>1, <2>3 DEF NativeOK
  <2> QED
    BY <2>2, <2>3
<1> QED
  BY <1>1, FilesInvariant, PTL

(* An extraction that reports success has counted every member once, and
   each file it extracted undisturbed holds the content of the last member
   of that name.  (archive.ts:211) *)
THEOREM AccountsForMembers == Spec => []ExtractionAccounted
<1>1. Inv => ExtractionAccounted
  <2> SUFFICES ASSUME Inv, NEW c \in Calls, loc[c].kind = "extract", loc[c].answer = "extracted"
               PROVE  /\ Accounted(loc[c].count) = Len(Members(c))
                      /\ c \notin disturbed =>
                           \A i \in DOMAIN Members(c) :
                             ~Members(c)[i].unsafe /\ OnlyFiles(c, Members(c)[i].name) =>
                               \/ /\ files[Members(c)[i].name] = loc[c].before[Members(c)[i].name]
                                  /\ loc[c].before[Members(c)[i].name] # Nowhere
                               \/ files[Members(c)[i].name].is = "dir"
                               \/ LastText(loc[c], files, Members(c)[i].name)
    BY DEF ExtractionAccounted, LastText, Held
  <2> DEFINE ms == loc[c].ask.members
  <2>1. pc[c] = "done" /\ ExtractTyped("done", loc[c])
    <3>1. CallTyped(pc[c], loc[c])
      BY DEF Inv, CallInv
    <3>2. pc[c] # "idle"
      BY <3>1 DEF CallTyped, NoCall
    <3>3. pc[c] \notin PatchPlaces
      BY <3>1 DEF CallTyped, PatchTyped
    <3>4. pc[c] \notin EditPlaces \union JsonPlaces
      BY <3>1 DEF CallTyped, EditTyped
    <3>5. pc[c] \notin ReadPlaces
      BY <3>1 DEF CallTyped, ReadTyped
    <3>6. pc[c] \notin ExtractPlaces
      BY <3>1 DEF CallTyped, ExtractTyped, ExtractPlaces
    <3>7. pc[c] \notin CreatePlaces
      BY <3>1 DEF CallTyped, CreateTyped
    <3> QED
      BY <3>1, <3>2, <3>3, <3>4, <3>5, <3>6, <3>7 DEF CallTyped, Places
  <2>2. loc[c].at = Len(ms) + 1 /\ Len(ms) \in Nat /\ DOMAIN ms = 1..Len(ms) /\ Accounted(loc[c].count) = loc[c].at - 1
    BY <2>1, SeqFacts DEF ExtractTyped
  <2>3. Accounted(loc[c].count) = Len(Members(c))
    BY <2>2 DEF Members
  <2>4. ASSUME c \notin disturbed, NEW i \in 1..Len(ms), ~ms[i].unsafe, OnlyFiles(c, ms[i].name)
        PROVE  \/ files[ms[i].name] = loc[c].before[ms[i].name] /\ loc[c].before[ms[i].name] # Nowhere
               \/ files[ms[i].name].is = "dir"
               \/ LastText(loc[c], files, ms[i].name)
    <3> DEFINE p == ms[i].name
    <3>1. p \in Paths
      BY <2>1 DEF ExtractTyped
    <3>2. OnlyIn(loc[c], p)
      BY <2>4 DEF OnlyFiles, OnlyIn, Held, Members
    <3>3. Extracted(loc[c], files, p)
      BY <2>1, <2>4, <3>1, <3>2 DEF Inv, CallInv, Alone, ExtractOK
    <3>4. CASE loc[c].ask.format # "system"
      <4>1. i \in 1..(loc[c].at - 1)
        BY <2>2
      <4> QED
        BY <2>4, <3>3, <3>4, <4>1 DEF Extracted
    <3>5. CASE loc[c].ask.format = "system"
      <4> DEFINE named == {j \in 1..Len(ms) : ms[j].name = p}
      <4>1. named \in SUBSET (1..Len(ms)) /\ named # {}
        OBVIOUS
      <4>2. loc[c].holds = ms
        BY <3>2, <3>5 DEF OnlyIn
      <4>3. Held(loc[c], p) = named
        BY <2>2, <4>2 DEF Held
      <4>4. PICK k \in named : \A j \in named : j <= k
        <5> HIDE DEF named, ms
        <5> QED
          BY <2>2, <4>1, LastIn
      <4>5. \A j \in (k + 1)..(loc[c].at - 1) : ms[j].name # p
        <5> SUFFICES ASSUME NEW j \in (k + 1)..(loc[c].at - 1), ms[j].name = p PROVE FALSE
          OBVIOUS
        <5>1. j \in 1..Len(ms) /\ ~(j <= k)
          BY <2>2
        <5> QED
          BY <4>4, <5>1
      <4>6. files[p] = File(ms[k].text)
        <5>1. k \in 1..(loc[c].at - 1) /\ ms[k].name = p
          BY <2>2
        <5> QED
          BY <3>3, <3>5, <4>5, <5>1 DEF Extracted
      <4> QED
        BY <4>2, <4>3, <4>4, <4>6 DEF LastText
    <3> QED
      BY <3>4, <3>5
  <2> QED
    BY <2>2, <2>3, <2>4 DEF Members
<1> QED
  BY <1>1, FilesInvariant, PTL

(* What a call replaces it has just looked at, and a file the read cache
   holds as unchanged is as a tool last showed it.  (edit.ts:456,
   json.ts:79-83, archive.ts:266,356) *)
THEOREM ReplacesOnlyWhatItSaw == Spec => SeenBeforeReplaced
<1> DEFINE A == \A c \in Calls :
       /\ pc[c] \in {"put", "replace"} /\ pc'[c] # pc[c] =>
            files[Target(c)] = File(loc[c].text) \/ Target(c) \in touched[c] \/ files'[Target(c)] = files[Target(c)]
       /\ pc[c] = "unpack" /\ pc'[c] # pc[c] /\ ~Overwrites(c) =>
            LET p == Entry(c).name IN ~Exists(p) \/ p \in touched[c] \/ files'[p] = files[p]
<1>1. Inv => A
  <2> SUFFICES ASSUME Inv, NEW c \in Calls
               PROVE  /\ pc[c] \in {"put", "replace"} => files[Target(c)] = File(loc[c].text) \/ Target(c) \in touched[c]
                      /\ pc[c] = "unpack" /\ ~Overwrites(c) => ~Exists(Entry(c).name) \/ Entry(c).name \in touched[c]
    BY Zenon
  <2>1. EditOK(pc[c], loc[c], files, touched[c]) /\ UnpackOK(pc[c], loc[c], files, touched[c])
    BY DEF Inv, CallInv, Knows
  <2> QED
    BY <2>1 DEF EditOK, UnpackOK, Target, Overwrites, Entry, Members, Exists
<1>2. Inv => FreshMeansSeen
  BY DEF Inv
<1>3. Inv /\ [Next]_all => [A]_all
  BY <1>1
<1> HIDE DEF A
<1>4. Spec => []FreshMeansSeen /\ [][A]_all
  BY <1>2, <1>3, FilesInvariant, PTL DEF Spec
<1> QED
  BY <1>4 DEF SeenBeforeReplaced, ReplacesWhatItSaw, A
=============================================================================
