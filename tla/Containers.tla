----------------------------- MODULE Containers -----------------------------
(***************************************************************************)
(* Archives as the archive tool writes and reads them: tar streams block   *)
(* by block (tarfile.ts), ZIP files record by record (zipfile.ts), and     *)
(* which of them a file is taken for (format.ts).                          *)
(*                                                                         *)
(* A name is the sequence of its segments ("a/" is <<"a", "">>).  Sizes    *)
(* are numbers; what a file holds is a value.  What a codec does, dates,   *)
(* modes, checksums and bytes outside ASCII are left out.                  *)
(***************************************************************************)
EXTENDS Integers, Sequences, FiniteSets, SequencesExt, TLC, Asks

CONSTANTS Block,          \* size of a block of a tar
          ShortMax,       \* how many segments the name field of a tar header holds
          PrefixMax,      \* and its prefix field
          Marker,         \* the largest number of a ZIP's 32-bit field
          MaxFile, MaxTotal   \* what may go into an archive

ASSUME ContainersAssumption == {Block, ShortMax, PrefixMax, Marker} \subseteq Nat \ {0} /\ MaxFile \in Nat /\ MaxTotal \in Nat

Normal(name) ==
  [name |-> SelectSeq(name, LAMBDA s : s \notin {"", "."}),
   dir |-> Len(name) > 1 /\ name[Len(name)] = "",
   unsafe |-> (Len(name) > 1 /\ name[1] = "") \/ ".." \in ToSet(name)]
Member(name, dir, size, link, text) == [name |-> name, dir |-> dir, size |-> size, link |-> link, text |-> text]

-----------------------------------------------------------------------------
(* Tar: a sequence of blocks.                                              *)

Nil == "nothing"        \* what an empty file and a directory hold
Blocks(n) == (n + Block - 1) \div Block
TarHeader(flag, prefix, name, link, size) ==
  [is |-> "header", flag |-> flag, prefix |-> prefix, name |-> name, link |-> link, size |-> size]
TarData(of, size) == [i \in 1..Blocks(size) |-> [is |-> "data", of |-> of, part |-> i]]
Zeros == <<[is |-> "zero"], [is |-> "zero"]>>

SplitName(name) ==      \* the first cut that leaves a short enough rest
  LET fits == {i \in 1..(Len(name) - 1) : i <= PrefixMax /\ Len(name) - i <= ShortMax} IN
  IF Len(name) <= ShortMax THEN {<<<<>>, name>>}
  ELSE {<<SubSeq(name, 1, i), SubSeq(name, i + 1, Len(name))>> : i \in {i \in fits : \A j \in fits : i <= j}}
CreateTar(files) ==
  IF \E f \in ToSet(files) : SplitName(f.name) = {} THEN {}
  ELSE {FlattenSeq([i \in DOMAIN files |->
          LET f == files[i]  cut == CHOOSE c \in SplitName(f.name) : TRUE IN
          <<TarHeader(IF f.dir THEN "5" ELSE "0", cut[1], cut[2], <<>>, IF f.dir THEN 0 ELSE f.size)>> \o TarData(f.text, f.size)]) \o Zeros}

\* Long names and PAX records come ahead of the member they are about.
Nothing == [name |-> {}, link |-> {}, pax |-> <<>>]
\* Mutant: a long name stays for the members that follow.
StaysPending(pending) == [pending EXCEPT !.link = {}, !.pax = <<>>]
Spent(pending) == Nothing
Pax(pending, key) == IF key \in DOMAIN pending.pax THEN {pending.pax[key]} ELSE {}
OwnFirst(a, b, c) == IF a # {} THEN CHOOSE x \in a : TRUE ELSE IF b # {} THEN CHOOSE x \in b : TRUE ELSE c
TarEntry(h, pending, at) ==
  LET n == Normal(OwnFirst(pending.name, Pax(pending, "path"), h.prefix \o h.name))
      type == CASE h.flag = "1" -> "hardlink" [] h.flag = "2" -> "symlink" [] h.flag \in {"5", "D"} -> "dir" [] h.flag = "0" -> "file"
                [] OTHER -> "other"
  IN [name |-> n.name, dir |-> n.dir \/ type = "dir", unsafe |-> n.unsafe, type |-> type,
      size |-> OwnFirst({}, Pax(pending, "size"), h.size), link |-> OwnFirst(pending.link, Pax(pending, "linkpath"), h.link), offset |-> at + 1]
RECURSIVE ReadTar(_, _, _)
ReadTar(s, at, pending) ==
  IF at > Len(s) \/ s[at].is # "header" THEN <<>>
  ELSE LET h == s[at]
           next == at + 1 + Blocks(h.size)
           payload == s[at + 1].of
       IN CASE h.flag = "L" -> ReadTar(s, next, [pending EXCEPT !.name = {payload}])
            [] h.flag = "K" -> ReadTar(s, next, [pending EXCEPT !.link = {payload}])
            [] h.flag \in {"x", "g"} -> ReadTar(s, next, [pending EXCEPT !.pax = payload @@ @])
            [] OTHER -> <<TarEntry(h, pending, at)>> \o ReadTar(s, next, Spent(pending))
EntryData(s, e) == SubSeq(s, e.offset, e.offset + Blocks(e.size) - 1)

-----------------------------------------------------------------------------
(* ZIP: a sequence of records, each with its length; an offset is the      *)
(* length of what comes before.                                            *)

W32(n) == n % (Marker + 1)
Length(pieces) == FoldLeft(LAMBDA n, p : n + p.len, 0, pieces)
LocalHeader(name, extra) == [is |-> "local", len |-> 30 + Len(name) + extra, start |-> 30 + Len(name) + extra]
Payload(of, comp) == [is |-> "payload", len |-> comp, of |-> of]
Central(name, method, comp, size, offset, extra) ==
  [is |-> "central", len |-> 46 + Len(name) + 12 * Len(extra), name |-> name, method |-> method,
   comp |-> comp, size |-> size, offset |-> offset, extra |-> extra]
Eocd(size, offset) == [is |-> "eocd", len |-> 22, size |-> size, offset |-> offset]

\* A file that does not get smaller is stored as it is.
Stored(f) == f.dir \/ f.deflated >= f.size
EncodedName(f) == IF f.dir /\ f.name[Len(f.name)] # "" THEN Append(f.name, "") ELSE f.name
Encoded(f) == <<LocalHeader(EncodedName(f), 0), Payload(f.text, IF Stored(f) THEN f.size ELSE f.deflated)>>
CentralFor(f, offset) ==
  Central(EncodedName(f), IF Stored(f) THEN 0 ELSE 8, W32(IF Stored(f) THEN f.size ELSE f.deflated), W32(f.size), W32(offset), <<>>)
WriteZip(files) ==
  LET body(n) == FlattenSeq([i \in 1..n |-> Encoded(files[i])])
      central == [i \in DOMAIN files |-> CentralFor(files[i], Length(body(i - 1)))]
  IN body(Len(files)) \o central \o <<Eocd(W32(Length(central)), W32(Length(body(Len(files)))))>>

\* The record that starts at an offset: its index, if there is one.
StartingAt(pieces, offset) == {i \in DOMAIN pieces : pieces[i].len > 0 /\ Length(SubSeq(pieces, 1, i - 1)) = offset}
\* A 64-bit value takes the place of a marker; they are read by position.
Zip64Fields(c) ==
  LET wanted == Len(SelectSeq(<<c.size, c.comp, c.offset>>, LAMBDA v : v = Marker)) IN
  FlattenSeq([i \in DOMAIN c.extra |-> IF c.extra[i].id = "zip64" THEN SubSeq(c.extra[i].values, 1, wanted) ELSE <<>>])
Widened(v, values, k) == IF v = Marker /\ k \in DOMAIN values THEN values[k] ELSE v
ZipEntry(c, values) ==
  LET n == Normal(c.name) IN
  [name |-> n.name, dir |-> n.dir, unsafe |-> n.unsafe, method |-> c.method,
   size |-> Widened(c.size, values, 1), comp |-> Widened(c.comp, values, 2), offset |-> Widened(c.offset, values, 3)]
\* The last end record counts; where its numbers do not fit, the record its locator names does.
Directory(pieces) ==
  LET ends == {i \in DOMAIN pieces : pieces[i].is = "eocd"}
      last == CHOOSE i \in ends : \A j \in ends : j <= i
      e == pieces[last]
      wide == IF (e.size = Marker \/ e.offset = Marker) /\ last > 1 /\ pieces[last - 1].is = "locator"
              THEN {i \in StartingAt(pieces, pieces[last - 1].offset) : pieces[i].is = "eocd64"} ELSE {}
  IN IF ends = {} THEN {} ELSE IF wide = {} THEN {e} ELSE {pieces[i] : i \in wide}
ReadZip(pieces) ==
  UNION {LET first == CHOOSE i \in StartingAt(pieces, d.offset) : TRUE
             from(i) == Length(SubSeq(pieces, first, i))
             run == {i \in first..Len(pieces) : \A j \in first..i : pieces[j].is = "central" /\ from(j) <= d.size}
         IN IF StartingAt(pieces, d.offset) = {} THEN {<<>>}
            ELSE {[i \in 1..Cardinality(run) |-> ZipEntry(pieces[first + i - 1], Zip64Fields(pieces[first + i - 1]))]} : d \in Directory(pieces)}
ReadZipEntry(pieces, e) ==
  UNION {IF e.comp = 0 THEN {Nil} ELSE {pieces[j].of : j \in {j \in StartingAt(pieces, e.offset + pieces[i].start) : pieces[j].is = "payload" /\ pieces[j].len = e.comp}}
           : i \in {i \in StartingAt(pieces, e.offset) : pieces[i].is = "local"}}

-----------------------------------------------------------------------------
(* Formats.  A format is <<kind, compression, container>>; a name is known *)
(* by its longest suffix, the bytes of a file by their first ones.         *)

TarSuffixes ==
  (".tar" :> "none") @@ (".tar.gz" :> "gzip") @@ (".tgz" :> "gzip") @@ (".tar.bz2" :> "bzip2") @@ (".tbz2" :> "bzip2") @@ (".tar.xz" :> "xz")
  @@ (".txz" :> "xz") @@ (".tar.zst" :> "zstd") @@ (".tzst" :> "zstd") @@ (".tar.lz4" :> "lz4") @@ (".tar.lzma" :> "lzma")
CompressionExt ==
  (".gz" :> "gzip") @@ (".bz2" :> "bzip2") @@ (".xz" :> "xz") @@ (".zst" :> "zstd") @@ (".br" :> "brotli") @@ (".lz4" :> "lz4") @@ (".lzma" :> "lzma")
Pure == {"gzip", "bzip2", "zstd", "brotli"}

Tar == <<"tar", "none", "tar">>
Compressed(c, container) == <<"compressed", c, container>>
Plain(kind) == <<kind, "none", "none">>
ByExtension(suffix) ==
  IF suffix \in DOMAIN TarSuffixes THEN IF TarSuffixes[suffix] = "none" THEN Tar ELSE Compressed(TarSuffixes[suffix], "tar")
  ELSE IF suffix \in DOMAIN CompressionExt THEN Compressed(CompressionExt[suffix], "single")
  ELSE CASE suffix = ".zip" -> Plain("zip") [] suffix = ".7z" -> Plain("7z") [] suffix = ".rar" -> Plain("rar") [] OTHER -> Plain("unknown")
DetectMagic(magic) ==      \* brotli has none
  CASE magic \in {"zip", "7z", "rar"} -> {Plain(magic)}
    [] magic = "tar" -> {Tar}
    [] magic \in {"gzip", "bzip2", "zstd", "xz", "lz4", "lzma"} -> {Compressed(magic, "single")}
    [] OTHER -> {}
Refined(f, suffix) ==
  IF f[1] = "compressed" /\ f[3] = "single" /\ suffix \in DOMAIN TarSuffixes \ {".tar"} THEN Compressed(f[2], "tar") ELSE f
Detect(magic, suffix) == IF DetectMagic(magic) = {} THEN ByExtension(suffix) ELSE Refined(CHOOSE f \in DetectMagic(magic) : TRUE, suffix)
CreateFormatFor(suffix) == IF suffix = ".rar" THEN Plain("unknown") ELSE ByExtension(suffix)

-----------------------------------------------------------------------------
(* Creation and reading.  A source is <<name, node>>; a node is a          *)
(* file [size, deflated, text] or a directory [kids |-> <<sources>>].  An  *)
(* archive is the bytes of a file with a name: [suffix, magic, holds].     *)

IsDir(node) == "kids" \in DOMAIN node
RECURSIVE Collect(_, _)
Collect(prefix, sources) ==
  FlattenSeq([i \in DOMAIN sources |->
    LET name == Append(prefix, sources[i][1])  node == sources[i][2] IN
    IF IsDir(node) THEN <<[name |-> name, dir |-> TRUE, size |-> 0, deflated |-> 0, text |-> Nil]>> \o Collect(name, node.kids)
    ELSE <<[name |-> name, dir |-> FALSE, size |-> node.size, deflated |-> node.deflated, text |-> node.text]>>])
WithinCaps(files) ==
  /\ \A f \in ToSet(files) : f.size <= MaxFile
  /\ FoldLeft(LAMBDA n, f : n + f.size, 0, files) <= MaxTotal
Archive(suffix, magic, holds) == [suffix |-> suffix, magic |-> magic, holds |-> holds]
Magic(compression) == IF compression = "brotli" THEN "none" ELSE compression
CreatePure(suffix, sources) ==
  LET f == CreateFormatFor(suffix)  files == Collect(<<>>, sources) IN
  IF ~WithinCaps(files) THEN {}
  ELSE CASE f[1] = "zip" -> {Archive(suffix, "zip", WriteZip(files))}
         [] f[1] = "tar" -> {Archive(suffix, "tar", s) : s \in CreateTar(files)}
         [] f[1] = "compressed" /\ f[2] \in Pure /\ f[3] = "tar" -> {Archive(suffix, Magic(f[2]), s) : s \in CreateTar(files)}
         [] f[1] = "compressed" /\ f[2] \in Pure /\ f[3] = "single" ->
              IF Len(files) # 1 \/ files[1].dir THEN {} ELSE {Archive(suffix, Magic(f[2]), files)}
         [] OTHER -> {}

IsTarBytes(holds) == holds # <<>> /\ "is" \in DOMAIN holds[1] /\ holds[1].is = "header"
\* Blocks hold a text if they are all of it, in order.
HeldBy(blocks, size) ==
  IF size = 0 THEN {Nil} ELSE {of \in {blocks[i].of : i \in {i \in DOMAIN blocks : blocks[i].is = "data"}} : blocks = TarData(of, size)}
TarListing(s) ==
  {[i \in DOMAIN es |-> Member(es[i].name, es[i].dir, es[i].size, es[i].link, HeldBy(EntryData(s, es[i]), es[i].size))] : es \in {ReadTar(s, 1, Nothing)}}
ZipListing(z) ==
  {[i \in DOMAIN es |-> Member(es[i].name, es[i].dir, es[i].size, <<>>, ReadZipEntry(z, es[i]))] : es \in ReadZip(z)}
Entries(a) ==
  LET f == Detect(a.magic, a.suffix) IN
  CASE f[1] = "zip" -> ZipListing(a.holds)
    [] f[1] = "tar" -> TarListing(a.holds)
    [] f[1] = "compressed" /\ f[2] \in Pure ->
         IF IsTarBytes(a.holds) THEN TarListing(a.holds) ELSE {<<Member(<<"stem">>, FALSE, a.holds[1].size, <<>>, {a.holds[1].text})>>}
    [] OTHER -> {}

-----------------------------------------------------------------------------
(***************************************************************************)
(* Archives at work: one created from sources and read back by its name    *)
(* and its first bytes, and one that another program wrote.                *)
(***************************************************************************)

CONSTANTS Sources,      \* sequences of <<name, node>>
          ArchiveNames,
          TarMembers,   \* sequences of [name, link, flag, size, text, as]
          ZipMembers    \* sequences of [name, size, comp, text]

ContainersInit ==
  /\ result = {}
  /\ \/ ask \in {[is |-> "create", sources |-> s, suffix |-> x] : s \in Sources, x \in ArchiveNames}
     \/ ask \in {[is |-> "tar", members |-> m, comment |-> c] : m \in TarMembers, c \in BOOLEAN}
     \/ ask \in {[is |-> "zip", members |-> m] : m \in ZipMembers}

(* What other programs write.  A name or link that is too long for a tar's *)
(* header is written ahead of it, GNU's way or in PAX records; a number    *)
(* that is too large for a ZIP's field is written after its name.          *)
Ahead(flag, of) == <<TarHeader(flag, <<>>, <<"././@LongLink">>, <<>>, Block), [is |-> "data", of |-> of, part |-> 1]>>
Long(name) == Len(name) > ShortMax
Field(name) == IF Long(name) THEN <<"cut">> ELSE name
WrittenTar(m) ==
  LET header == IF m.as = "ustar" /\ Long(m.name)
                THEN TarHeader(m.flag, SubSeq(m.name, 1, Len(m.name) - 1), <<m.name[Len(m.name)]>>, Field(m.link), m.size)
                ELSE TarHeader(m.flag, <<>>, Field(m.name), Field(m.link), m.size)
      records == (IF Long(m.name) THEN "path" :> m.name ELSE <<>>) @@ (IF Long(m.link) THEN "linkpath" :> m.link ELSE <<>>)
  IN (IF m.as = "gnu" THEN (IF Long(m.link) THEN Ahead("K", m.link) ELSE <<>>) \o (IF Long(m.name) THEN Ahead("L", m.name) ELSE <<>>)
      ELSE IF m.as = "pax" /\ records # <<>> THEN Ahead("x", records) ELSE <<>>)
     \o <<header>> \o TarData(m.text, m.size)
ForeignTar(members, comment) ==
  (IF comment THEN Ahead("g", "comment" :> "c0ffee") ELSE <<>>) \o FlattenSeq([i \in DOMAIN members |-> WrittenTar(members[i])]) \o Zeros

Narrow(n) == IF n < Marker THEN n ELSE Marker
Extra(values) == SelectSeq(values, LAMBDA v : v >= Marker)
WrittenZip(members) ==
  LET body(n) == FlattenSeq([i \in 1..n |-> <<LocalHeader(members[i].name, 20), Payload(members[i].text, members[i].comp)>>])
      central == [i \in DOMAIN members |->
        LET m == members[i]  at == Length(body(i - 1))  big == Extra(<<m.size, m.comp, at>>) IN
        Central(m.name, 8, Narrow(m.comp), Narrow(m.size), Narrow(at),
                <<[id |-> "time", values |-> <<1>>]>> \o (IF big = <<>> THEN <<>> ELSE <<[id |-> "zip64", values |-> big]>>))]
      start == Length(body(Len(members)))
      end == start + Length(central)
  IN body(Len(members)) \o central
     \o <<[is |-> "eocd64", len |-> 56, size |-> Length(central), offset |-> start], [is |-> "locator", len |-> 20, offset |-> end],
          Eocd(Narrow(Length(central)), Narrow(start))>>

Creates == ask.is = "create" /\ Answers(UNION {Entries(a) : a \in CreatePure(ask.suffix, ask.sources)})
ReadsTar == ask.is = "tar" /\ Answers(Entries(Archive(".tar", "tar", ForeignTar(ask.members, ask.comment))))
ReadsZip == ask.is = "zip" /\ Answers(Entries(Archive(".zip", "zip", WrittenZip(ask.members))))
ContainersNext == Creates \/ ReadsTar \/ ReadsZip

-----------------------------------------------------------------------------
(* What is created is found again: under its name an archive is taken for  *)
(* what was written, and it holds each file and directory under the        *)
(* sources once, with its size and content; a file compressed on its own   *)
(* is its only member.  Only what is too large, too long a name for a tar, *)
(* or not the one file of such a compression is refused.  What another     *)
(* program wrote is read as it was meant: a name or link written ahead     *)
(* belongs to its member alone, every member's data is its own, and a      *)
(* number of 64 bits is the one its marker stands for, as long as the ones *)
(* before it have markers too.                                             *)
(* (tarfile.ts:25-98, zipfile.ts:69-138, format.ts:96-158, archive.ts:617) *)
RECURSIVE Under(_, _)
Under(prefix, sources) ==
  UNION {LET name == Append(prefix, s[1]) IN
         IF IsDir(s[2]) THEN {Member(name, TRUE, 0, <<>>, {Nil})} \union Under(name, s[2].kids)
         ELSE {Member(name, FALSE, s[2].size, <<>>, {s[2].text})} : s \in ToSet(sources)}
Total(files) == FoldSet(LAMBDA f, n : f.size + n, 0, files)
TooLong(files) == \E f \in files : Len(f.name) > ShortMax + PrefixMax
Refused(suffix, files) ==
  \/ Total(files) > MaxTotal \/ \E f \in files : f.size > MaxFile
  \/ suffix \in {".7z", ".rar", ".txt"} \union {x \in DOMAIN CompressionExt : CompressionExt[x] \notin Pure}
  \/ suffix \in DOMAIN TarSuffixes /\ (TarSuffixes[suffix] \notin Pure \union {"none"} \/ TooLong(files))
  \/ suffix \in DOMAIN CompressionExt /\ (Cardinality(files) # 1 \/ \E f \in files : f.dir)
CreatedAs(suffix, files, listing) ==
  /\ Len(listing) = Cardinality(files)
  /\ IF suffix \in DOMAIN CompressionExt THEN \A f \in files : listing[1] = [f EXCEPT !.name = <<"stem">>] ELSE ToSet(listing) = files

AsMeant(m, e) ==
  /\ e.name = Normal(m.name).name /\ e.size = m.size /\ e.link = m.link /\ e.text = {m.text}
  /\ e.dir = (m.flag = "5" \/ m.name[Len(m.name)] = "")
Offset64Only(members, i) ==
  LET at == FoldLeft(LAMBDA n, m : n + 50 + Len(m.name) + m.comp, 0, SubSeq(members, 1, i - 1))
      big(n) == n >= Marker
  IN ((big(members[i].comp) \/ big(at)) /\ ~big(members[i].size)) \/ (big(at) /\ ~big(members[i].comp))
ReadsBack ==
  \A r \in result :
    /\ ask.is = "create" =>
         LET files == Under(<<>>, ask.sources) IN
         /\ r = {} <=> Refused(ask.suffix, files)
         /\ \A listing \in r : CreatedAs(ask.suffix, files, listing)
    /\ ask.is \in {"tar", "zip"} =>
         /\ r # {}
         /\ \A listing \in r :
              /\ Len(listing) = Len(ask.members)
              /\ \A i \in DOMAIN listing :
                   (ask.is = "zip" => ~Offset64Only(ask.members, i)) => AsMeant(ask.members[i], listing[i])
=============================================================================
