----------------------------- MODULE Waits_proofs -----------------------------
(***************************************************************************)
(* Proofs about the tool calls that wait (Waits): what a transfer leaves   *)
(* and says, what the answer of a child process says, and what the git     *)
(* tool makes of its answers, for any number of calls, any mix of          *)
(* transfers, any limits, and however often others interfere.              *)
(***************************************************************************)
EXTENDS Waits, TLAPS

-----------------------------------------------------------------------------
(* Transfers: what each call's own state says of the file it makes, of the *)
(* directory it made it in, and of the remote side.                        *)

Over == {"close", "unlink", "done"}
Writing == {"create", "created", "fetch", "stream", "sync", "publish", "link", "linked"}
Downloading == {"metadata", "open"} \union Writing
Uploading == {"source", "same", "send", "sent", "await", "stable"}
Lens == Nat \union {Unknown}
Local == [kind : {"none", "save", "download", "upload"}, n : Nat, total : Lens, expect : Lens, hops : Nat,
          parent : {0, 1, 2}, owned : BOOLEAN, verified : BOOLEAN, read : SUBSET (Nat \X Nat), snap : Nat \X Nat,
          whole : BOOLEAN, reply : {"none", "refused", "server error", "long error", "success"},
          answer : {"none", "failed", "saved", "uploaded", "changed"}, sure : BOOLEAN]

TransferTypes ==
  /\ names \in [{Dest} \union Calls -> Int] /\ away \in [{Dest} \union Calls -> Int]
  /\ parent \in {1, 2} /\ size \in [Calls -> Nat] /\ source \in Seq(Nat) /\ source # <<>>
  /\ remote \subseteq Calls /\ hindered \subseteq Calls
  /\ pc \in [Calls -> {"idle"} \union Downloading \union Uploading \union Over]
  /\ loc \in [Calls -> Local]
  /\ \A c \in DOMAIN asks : asks[c] \in {"save", "download", "upload"}

(* A call is at a step of its own kind, and has an answer when it is over. *)
Kinded(c) ==
  /\ pc[c] = "idle" => loc[c] = NoCall
  /\ pc[c] \in Downloading => loc[c].kind \in {"save", "download"}
  /\ pc[c] \in Uploading => loc[c].kind = "upload"
  /\ pc[c] \in Over <=> loc[c].answer # "none"
  /\ pc[c] \in {"idle", "metadata", "open", "create", "source"} => loc[c].owned = FALSE
(* Only a download has a partial, and only once it has created one; a call *)
(* that has one and is not over has its handle.                            *)
Partial(c) ==
  /\ names[c] \in {Nobody, Other, c} /\ away[c] \in {Nobody, Other, c}
  /\ c \in {names[c], away[c]} => (loc[c].owned = TRUE \/ pc[c] = "done") /\ loc[c].kind # "upload"
(* What was received is what the file holds, until the call is answered. *)
Body(c) ==
  /\ loc[c].kind # "upload" /\ pc[c] \notin Over => size[c] = loc[c].n /\ loc[c].n <= Limit
  /\ pc[c] \in {"sync", "publish", "link", "linked"} => loc[c].total = loc[c].n
  /\ pc[c] \in {"publish", "link", "linked"} => Complete(c)
(* A file at a destination keeps what its call knew when it linked it. *)
Whole(c) ==
  c \in {names[Dest], away[Dest]} =>
    /\ pc[c] \in {"linked"} \union Over /\ loc[c].kind # "upload"
    /\ size[c] = loc[c].total /\ size[c] <= Limit /\ loc[c].expect \in {Unknown, size[c]}
(* Unless somebody moved it, a call's directory is the one it looked at. *)
Home(c) ==
  c \notin hindered =>
    /\ away[c] # c /\ (pc[c] = "done" => names[c] # c)
    /\ loc[c].kind # "upload" /\ pc[c] \in Writing \union {"close", "unlink"} => loc[c].parent = parent
(* There is a remote file only of a whole body that was not refused. *)
Remote(c) ==
  /\ pc[c] \in {"idle", "source", "same"} => loc[c].whole = FALSE
  /\ c \in remote => loc[c].whole = TRUE /\ loc[c].reply # "refused"
  /\ loc[c].kind = "upload" /\ loc[c].answer = "failed" /\ loc[c].sure = TRUE =>
       loc[c].whole = FALSE \/ loc[c].reply \in {"refused", "success", "long error"}
(* What was read of a source are versions of one file, none older than the *)
(* one the call began with and none newer than what it holds now.          *)
SourceRead(c) ==
  /\ pc[c] \in {"idle", "source", "same"} => loc[c].read = {} /\ loc[c].n = 0
  /\ pc[c] \in Uploading /\ loc[c].n > 0 => loc[c].read # {}
  /\ pc[c] \in {"sent", "await", "stable"} => loc[c].n >= SourceSize
  /\ pc[c] \in Uploading \ {"source"} =>
       /\ loc[c].snap[1] \in DOMAIN source /\ loc[c].snap[2] <= source[loc[c].snap[1]]
       /\ \A r \in loc[c].read : r[1] = loc[c].snap[1] /\ r[2] \in loc[c].snap[2]..source[loc[c].snap[1]]
  /\ loc[c].answer = "uploaded" => loc[c].read = {loc[c].snap}

CallInv(c) == Kinded(c) /\ Partial(c) /\ Body(c) /\ Whole(c) /\ Home(c) /\ Remote(c) /\ SourceRead(c)
TransferInv == TransferTypes /\ \A c \in Calls : CallInv(c)
-----------------------------------------------------------------------------
(* Children: what is in the pipes, and what is left of a child and its     *)
(* group.                                                                  *)

Pipes == [out : Nat, err : Nat]
ChildTypes ==
  /\ child \in [is : {"none", "running", "failed", "exited"}, code : {0, 1, -1}]
  /\ heir \in [is : {"none", "running", "exited"}, inside : BOOLEAN, holds : BOOLEAN]
  /\ written \in Pipes /\ unread \in Pipes /\ kept \in Pipes
  /\ timedOut \in BOOLEAN /\ truncated \in BOOLEAN

Unlost(s) == kept[s] + unread[s] = written[s]
(* What was written is kept, still to be read, or cut off; who cuts, says  *)
(* so, and has kept as much as it may.                                     *)
Piped ==
  /\ \A s \in {"out", "err"} :
       IF s \in Streams(kind) THEN kept[s] + unread[s] <= written[s] ELSE kept[s] = 0 /\ unread[s] = 0
  /\ truncated <=> \E s \in Streams(kind) : ~Unlost(s)
  /\ kind = "command" => kept.out <= MaxOutput /\ kept.err <= MaxOutput
  /\ kind \in Capped \ {"command"} => Total(kept) <= MaxOutput
  /\ kind \notin Capped => truncated = FALSE
  /\ kind = "probe" /\ truncated = TRUE => Total(kept) = MaxOutput
(* A child that never ran wrote nothing, and one that was given up on left *)
(* nobody of its group behind.                                             *)
GroupEnded ==
  /\ child.is \in {"none", "failed"} => heir.is = "none" /\ written = Nothing
  /\ timedOut = TRUE /\ platform = "posix" /\ kind \in Detached =>
       child.is # "running" /\ ~(heir.is = "running" /\ heir.inside = TRUE)
Hows == \A a \in answer : a.how \in {"close", "error"}
ChildInv == ChildTypes /\ Piped /\ GroupEnded /\ Hows /\ AnswerTruthful
-----------------------------------------------------------------------------
(* The git tool: where in its plan a call is, and what it knows there.     *)

Steps == PlanOf(asked.mode)
StepName == {"top", "status", "look", "shell", "write", "check", "preview", "head", "run"}
Planned ==
  /\ plan \in Seq(StepName) /\ Len(plan) \in 1..Len(Steps)
  /\ \A j \in 1..Len(plan) : plan[j] = Steps[Len(Steps) - Len(plan) + j]
WriteLeft == IF asked.mode = "commit" THEN 3 ELSE 2      \* how much of the plan is left when it writes
CheckLeft == IF asked.mode = "commit" THEN 5 ELSE 3
Checking == asked.mode \in {"restore", "commit"}
(* It writes only what was confirmed, and goes on only when it has written. *)
Confirmed ==
  /\ asked.mode \in {"stage", "unstage", "restore"} => asked.dry = FALSE /\ (Len(plan) < Len(Steps) => asked.confirm = TRUE)
  /\ asked.mode = "commit" /\ Len(plan) <= WriteLeft => asked.confirm = TRUE /\ asked.dry = FALSE
  /\ mine = TRUE => asked.mode \in Changing /\ Len(plan) <= WriteLeft
  /\ asked.mode \in Changing /\ Len(plan) < WriteLeft => mine = TRUE
  /\ child.is # "none" /\ Head(plan) # "run" => kind = "git"
  /\ child.is = "exited" /\ child.code = 0 /\ Head(plan) \in {"check", "write"} => worked = TRUE
  /\ child.is = "exited" /\ child.code = 0 /\ Head(plan) = "write" => mine = TRUE
(* Since the look began there has been a conflict all the time, or it is   *)
(* known that there was a time without one, unless the look went wrong.    *)
Looked ==
  Checking =>
    /\ Len(plan) < CheckLeft \/ (Len(plan) = CheckLeft /\ child.is # "none") => (repo.conflict = FALSE => clear = TRUE)
    /\ Len(plan) = CheckLeft /\ child.is # "none" /\ worked = TRUE => clear = TRUE \/ written.out > 0
    /\ Len(plan) < CheckLeft => clear = TRUE \/ blind = TRUE
TellsTruth ==
  /\ told = "done" => (asked.mode \in Changing => mine = TRUE)
  /\ told \in {"refused", "would"} => mine = FALSE
  /\ told # "" => child.is \in {"exited", "failed"}
GitInv ==
  /\ mine \in BOOLEAN /\ clear \in BOOLEAN /\ blind \in BOOLEAN /\ worked \in BOOLEAN
  /\ asked.confirm \in BOOLEAN /\ asked.dry \in BOOLEAN
  /\ repo.conflict \in BOOLEAN
  /\ IF told = "nothing" THEN child.is = "none" /\ heir.is = "none" /\ timer = FALSE /\ answer = {} /\ mine = FALSE
     ELSE Planned /\ Confirmed /\ Looked /\ TellsTruth
-----------------------------------------------------------------------------
(* Transfers.                                                              *)

Places == {"idle"} \union Downloading \union Uploading \union Over

(* The fields of a call's local values after each assignment to them. *)
LEMMA Fields ==
  ASSUME NEW l \in Local
  PROVE  /\ l.n \in Nat /\ l.total \in Lens /\ l.expect \in Lens /\ l.hops \in Nat /\ l.parent \in {0, 1, 2}
         /\ l.kind \in {"none", "save", "download", "upload"} /\ l.read \in SUBSET (Nat \X Nat) /\ l.snap \in Nat \X Nat
         /\ l.reply \in {"none", "refused", "server error", "long error", "success"}
         /\ l.answer \in {"none", "failed", "saved", "uploaded", "changed"}
         /\ l.owned \in BOOLEAN /\ l.verified \in BOOLEAN /\ l.whole \in BOOLEAN /\ l.sure \in BOOLEAN
BY DEF Local

(* All of a call's values but those named. *)
Same(l, m, but) == \A f \in {"kind", "n", "total", "expect", "hops", "parent", "owned", "verified", "read", "snap",
                             "whole", "reply", "answer", "sure"} \ but : l[f] = m[f]

LEMMA SetForgot ==
  ASSUME NEW l \in Local
  PROVE  /\ Forgot(l) \in Local /\ Same(l, Forgot(l), {"n", "total", "expect"})
         /\ Forgot(l).n = 0 /\ Forgot(l).total = Unknown /\ Forgot(l).expect = Unknown
BY DEF Local, Same, Forgot, Lens
(* A call that moves on changes its own place and its own values only. *)
LEMMA Moves ==
  ASSUME TransferTypes, NEW c \in Calls, NEW w \in Places, NEW m \in Local,
         pc' = [pc EXCEPT ![c] = w], loc' = [loc EXCEPT ![c] = m]
  PROVE  /\ pc' \in [Calls -> Places] /\ loc' \in [Calls -> Local]
         /\ pc'[c] = w /\ loc'[c] = m
         /\ \A d \in Calls \ {c} : pc'[d] = pc[d] /\ loc'[d] = loc[d]
BY DEF TransferTypes, Places

(* What a call knows stays so as long as nothing it knows of changes. *)
LEMMA Frame ==
  ASSUME TransferTypes, NEW d \in Calls, CallInv(d),
         pc'[d] = pc[d], loc'[d] = loc[d], names'[d] = names[d], away'[d] = away[d], size'[d] = size[d],
         d \in {names'[Dest], away'[Dest]} => d \in {names[Dest], away[Dest]},
         parent' = parent, source' = source, d \in remote' => d \in remote, d \in hindered => d \in hindered'
  PROVE  CallInv(d)'
<1>1. Kinded(d)'
  BY DEF CallInv, Kinded
<1>2. Partial(d)'
  BY DEF CallInv, Partial, Nobody, Other
<1>3. Body(d)'
  BY DEF CallInv, Body, Complete, Unknown
<1>4. Whole(d)'
  BY DEF CallInv, Whole, Unknown
<1>5. Home(d)'
  BY DEF CallInv, Home
<1>6. Remote(d)'
  BY DEF CallInv, Remote
<1>7. SourceRead(d)'
  BY DEF CallInv, SourceRead
<1> QED
  BY <1>1, <1>2, <1>3, <1>4, <1>5, <1>6, <1>7 DEF CallInv

Quiet == UNCHANGED <<names, away, parent, size, source, remote, hindered>>

(* A call may be answered anywhere, with what its answer promises. *)
LEMMA Ending ==
  ASSUME TransferInv, TransferAssumption, NEW c \in Calls, NEW a \in {"failed", "saved", "uploaded", "changed"}, NEW sure \in BOOLEAN,
         Ends(c, a, sure), pc[c] \in Downloading \union Uploading,
         UNCHANGED <<names, away, parent, source, remote, hindered, asks>>,
         size' \in [Calls -> Nat], \A d \in Calls \ {c} : size'[d] = size[d],
         c \in {names[Dest], away[Dest]} => size'[c] = size[c],
         loc[c].kind = "upload" /\ a = "failed" /\ sure = TRUE => loc[c].whole = FALSE \/ loc[c].reply \in {"refused", "success", "long error"},
         a = "uploaded" => loc[c].read = {loc[c].snap}
  PROVE  TransferInv'
<1> DEFINE l == IF c \in {names[Dest], away[Dest]} THEN loc[c] ELSE Forgot(loc[c])
           m == Told(l, a, sure)
           w == IF loc[c].owned THEN "close" ELSE "done"
<1>1. TransferTypes /\ CallInv(c) /\ \A d \in Calls : CallInv(d)
  BY DEF TransferInv
<1>2. loc[c] \in Local
  BY <1>1 DEF TransferTypes
<1>3. /\ l \in Local /\ Same(loc[c], l, {"n", "total", "expect"})
      /\ c \in {names[Dest], away[Dest]} => l = loc[c]
  BY <1>2, SetForgot DEF Same
<1> HIDE DEF l
<1>4. /\ m \in Local /\ m.answer = a /\ m.sure = sure
      /\ Same(l, m, {"answer", "sure", "hops", "verified"})
  BY <1>3 DEF Told, Local, Same
<1>5. pc' = [pc EXCEPT ![c] = w] /\ loc' = [loc EXCEPT ![c] = m] /\ w \in Places
  BY DEF Ends, Goto, Places, Over, l
<1> HIDE DEF m
<1>6. loc[c].owned \in BOOLEAN
  BY <1>2, Fields
<1>7. w \in {"close", "done"} /\ (loc[c].owned = TRUE => w = "close")
  BY <1>6
<1> HIDE DEF w
<1>8. /\ pc' \in [Calls -> Places] /\ loc' \in [Calls -> Local]
      /\ pc'[c] = w /\ loc'[c] = m
      /\ \A d \in Calls \ {c} : pc'[d] = pc[d] /\ loc'[d] = loc[d]
  BY <1>1, <1>4, <1>5, Moves
<1>9. TransferTypes'
  BY <1>1, <1>8 DEF TransferTypes, Places
<1>10. /\ m.kind = loc[c].kind /\ m.parent = loc[c].parent /\ m.owned = loc[c].owned /\ m.read = loc[c].read
       /\ m.snap = loc[c].snap /\ m.whole = loc[c].whole /\ m.reply = loc[c].reply
       /\ c \in {names[Dest], away[Dest]} => m.total = loc[c].total /\ m.expect = loc[c].expect
  BY <1>3, <1>4 DEF Same
<1>11. CallInv(c)'
  <2>1. Kinded(c)'
    BY <1>4, <1>8, <1>7 DEF Kinded, Over, Downloading, Uploading, Writing
  <2>2. Partial(c)'
    BY <1>1, <1>8, <1>10 DEF CallInv, Partial, Nobody, Other, Downloading, Writing, Uploading
  <2>3. Body(c)'
    BY <1>8, <1>7 DEF Body, Over
  <2>4. Whole(c)'
    BY <1>1, <1>8, <1>10, <1>7 DEF CallInv, Whole, Unknown, Over
  <2>5. Home(c)'
    <3>1. c \notin hindered => away[c] # c
      BY <1>1 DEF CallInv, Home
    <3>2. names[c] = c => w = "close"
      BY <1>1, <1>7 DEF CallInv, Partial, Downloading, Writing, Uploading
    <3>3. ASSUME c \notin hindered, loc[c].kind # "upload", w = "close" PROVE loc[c].parent = parent
      <4>1. loc[c].owned = TRUE
        BY <3>3, <1>6 DEF w
      <4>2. pc[c] \in Writing
        BY <4>1, <1>1, <3>3 DEF CallInv, Kinded, Downloading, Uploading
      <4> QED
        BY <4>2, <3>3, <1>1 DEF CallInv, Home
    <3> QED
      BY <3>1, <3>2, <3>3, <1>8, <1>10, <1>7 DEF Home, Writing
  <2>6. Remote(c)'
    BY <1>1, <1>4, <1>8, <1>10, <1>7 DEF CallInv, Remote
  <2>7. SourceRead(c)'
    BY <1>1, <1>4, <1>8, <1>10, <1>7 DEF CallInv, SourceRead, Uploading
  <2> QED
    BY <2>1, <2>2, <2>3, <2>4, <2>5, <2>6, <2>7 DEF CallInv
<1>12. \A d \in Calls \ {c} : CallInv(d)'
  BY <1>1, <1>8, Frame
<1> QED
  BY <1>9, <1>11, <1>12 DEF TransferInv

(* A step that touches nothing but the call itself. *)
LEMMA Going ==
  ASSUME TransferInv, NEW c \in Calls, NEW w \in Places, NEW m \in Local,
         pc' = [pc EXCEPT ![c] = w], loc' = [loc EXCEPT ![c] = m], Quiet, asks' = asks
  PROVE  /\ pc'[c] = w /\ loc'[c] = m
         /\ CallInv(c)' => TransferInv'
<1>1. TransferTypes /\ \A d \in Calls : CallInv(d)
  BY DEF TransferInv
<1>2. /\ pc' \in [Calls -> Places] /\ loc' \in [Calls -> Local]
      /\ pc'[c] = w /\ loc'[c] = m
      /\ \A d \in Calls \ {c} : pc'[d] = pc[d] /\ loc'[d] = loc[d]
  BY <1>1, Moves
<1>3. TransferTypes'
  BY <1>1, <1>2 DEF TransferTypes, Places, Quiet
<1>4. \A d \in Calls \ {c} : CallInv(d)'
  BY <1>1, <1>2, Frame DEF Quiet
<1> QED
  BY <1>2, <1>3, <1>4 DEF TransferInv

(* A failure that needs no excuse. *)
LEMMA Failing ==
  ASSUME TransferInv, TransferAssumption, NEW c \in Calls, Fails(c), pc[c] \in Downloading \union Uploading, Quiet, asks' = asks,
         loc[c].kind = "upload" => loc[c].whole = FALSE \/ loc[c].reply \in {"refused", "success", "long error"}
  PROVE  TransferInv'
<1>1. size' \in [Calls -> Nat]
  BY DEF TransferInv, TransferTypes, Quiet
<1> QED
  BY <1>1, Ending DEF Fails, Quiet
LEMMA DownloadFails ==
  ASSUME TransferInv, TransferAssumption, NEW c \in Calls, Fails(c), pc[c] \in Downloading, Quiet, asks' = asks
  PROVE  TransferInv'
<1>1. loc[c].kind # "upload"
  BY DEF TransferInv, CallInv, Kinded
<1> QED
  BY <1>1, Failing

LEMMA WorldQuiet ==
  ASSUME UNCHANGED world \/ UNCHANGED <<local, source, remote, hindered>>
  PROVE  Quiet
BY DEF world, local, Quiet

LEMMA TBegin ==
  ASSUME TransferInv, TransferAssumption, NEW c \in Calls, Begin(c), asks' = asks
  PROVE  TransferInv'
<1> DEFINE m == [loc[c] EXCEPT !.kind = asks[c]]
           w == CASE asks[c] = "save" -> "open" [] asks[c] = "download" -> "metadata" [] asks[c] = "upload" -> "source"
<1>1. /\ pc[c] = "idle" /\ c \in DOMAIN asks /\ Quiet /\ pc' = [pc EXCEPT ![c] = w] /\ loc' = [loc EXCEPT ![c] = m]
  BY WorldQuiet DEF Begin, Here, Goto
<1>2. TransferTypes /\ CallInv(c) /\ loc[c] = NoCall /\ loc[c] \in Local
  BY <1>1 DEF TransferInv, TransferTypes, CallInv, Kinded
<1>3. asks[c] \in {"save", "download", "upload"}
  BY <1>1, <1>2 DEF TransferTypes
<1>4. m \in Local /\ m.kind = asks[c] /\ Same(loc[c], m, {"kind"})
  BY <1>2, <1>3 DEF Local, Same
<1>5. /\ w \in {"open", "metadata", "source"}
      /\ w \in {"open", "metadata"} => asks[c] \in {"save", "download"}
      /\ w = "source" => asks[c] = "upload"
  BY <1>3
<1> HIDE DEF m, w
<1>6. /\ pc'[c] = w /\ loc'[c] = m
      /\ CallInv(c)' => TransferInv'
  BY <1>1, <1>4, <1>5, Going DEF Places, Downloading, Uploading
<1>7. /\ m.owned = FALSE /\ m.answer = "none" /\ m.whole = FALSE /\ m.reply = "none" /\ m.read = {} /\ m.n = 0 /\ m.parent = 0
      /\ m.total = Unknown /\ m.expect = Unknown
  BY <1>2, <1>4 DEF Same, NoCall
<1>8. loc[c].kind = "none" /\ loc[c].owned = FALSE /\ loc[c].n = 0
  BY <1>2 DEF NoCall
<1>9. CallInv(c)'
  <2>1. Kinded(c)'
    BY <1>3, <1>4, <1>5, <1>6, <1>7 DEF Kinded, Over, Downloading, Uploading, Writing
  <2>2. Partial(c)'
    BY <1>1, <1>2, <1>8, <1>6 DEF CallInv, Partial, Nobody, Other, Quiet
  <2>3. Body(c)'
    BY <1>1, <1>2, <1>5, <1>6, <1>7, <1>8 DEF CallInv, Body, Over, Quiet
  <2>4. Whole(c)'
    BY <1>1, <1>2 DEF CallInv, Whole, Quiet, Over
  <2>5. Home(c)'
    BY <1>1, <1>2, <1>5, <1>6 DEF CallInv, Home, Quiet, Writing
  <2>6. Remote(c)'
    BY <1>1, <1>2, <1>5, <1>6, <1>7, <1>8 DEF CallInv, Remote, Quiet, NoCall
  <2>7. SourceRead(c)'
    BY <1>5, <1>6, <1>7 DEF SourceRead, Uploading
  <2> QED
    BY <2>1, <2>2, <2>3, <2>4, <2>5, <2>6, <2>7 DEF CallInv
<1> QED
  BY <1>6, <1>9

(* What a step of a download leaves to be shown. *)
LEMMA DownloadStep ==
  ASSUME TransferTypes, NEW c \in Calls, CallInv(c), NEW w \in Downloading, NEW m \in Local, pc[c] \in Downloading,
         pc'[c] = w, loc'[c] = m, UNCHANGED <<source, remote>>,
         Same(loc[c], m, {"total", "expect", "hops", "parent", "owned", "verified", "n"}),
         w \in {"metadata", "open", "create"} => m.owned = FALSE,
         Partial(c)', Body(c)', Whole(c)', Home(c)'
  PROVE  CallInv(c)'
<1>1. /\ m.kind = loc[c].kind /\ m.whole = loc[c].whole /\ m.reply = loc[c].reply /\ m.answer = loc[c].answer
      /\ m.sure = loc[c].sure /\ m.read = loc[c].read
  BY DEF Same
<1>2. loc[c].kind \in {"save", "download"} /\ loc[c].answer = "none"
  BY DEF CallInv, Kinded, Downloading, Writing, Over
<1>3. Kinded(c)'
  BY <1>1, <1>2 DEF Kinded, Over, Downloading, Uploading, Writing
<1>4. Remote(c)'
  BY <1>1, <1>2 DEF CallInv, Remote, Downloading, Writing
<1>5. SourceRead(c)'
  BY <1>1, <1>2 DEF SourceRead, Uploading, Downloading, Writing
<1> QED
  BY <1>3, <1>4, <1>5 DEF CallInv

(* What a step of an upload leaves to be shown. *)
LEMMA UploadStep ==
  ASSUME TransferTypes, NEW c \in Calls, CallInv(c), NEW w \in Uploading \ {"source"}, NEW m \in Local, pc[c] \in Uploading,
         pc'[c] = w, loc'[c] = m, Quiet,
         Same(loc[c], m, {"n", "read", "snap", "owned", "whole", "reply"}),
         Remote(c)', SourceRead(c)'
  PROVE  CallInv(c)'
<1>1. m.kind = loc[c].kind /\ m.answer = loc[c].answer
  BY DEF Same
<1>2. loc[c].kind = "upload" /\ loc[c].answer = "none"
  BY DEF CallInv, Kinded, Uploading, Over
<1>3. c \notin {names[c], away[c], names[Dest], away[Dest]}
  BY <1>2 DEF CallInv, Partial, Whole
<1>4. Kinded(c)'
  BY <1>1, <1>2 DEF Kinded, Over, Downloading, Uploading, Writing
<1>5. Partial(c)' /\ Body(c)' /\ Whole(c)' /\ Home(c)'
  BY <1>1, <1>2, <1>3 DEF CallInv, Partial, Body, Whole, Home, Quiet, Uploading, Nobody, Other
<1> QED
  BY <1>4, <1>5 DEF CallInv

LEMMA At ==
  ASSUME TransferInv, NEW c \in Calls
  PROVE  TransferTypes /\ CallInv(c) /\ loc[c] \in Local /\ pc[c] \in Places
BY DEF TransferInv, TransferTypes, Places

LEMMA TMetadata ==
  ASSUME TransferInv, TransferAssumption, NEW c \in Calls, Metadata(c), asks' = asks
  PROVE  TransferInv'
<1>1. TransferTypes /\ CallInv(c) /\ loc[c] \in Local /\ pc[c] = "metadata" /\ Quiet
  BY At, WorldQuiet DEF Metadata, Here
<1>2. CASE Fails(c)
  BY <1>1, <1>2, DownloadFails DEF Downloading
<1>3. ASSUME NEW k \in Lengths, loc' = [loc EXCEPT ![c].expect = k], Goto(c, "open") PROVE TransferInv'
  <2> DEFINE m == [loc[c] EXCEPT !.expect = k]
  <2>1. m \in Local /\ Same(loc[c], m, {"expect"})
    BY <1>1 DEF TransferAssumption, Local, Same, Lens
  <2>2. pc' = [pc EXCEPT ![c] = "open"] /\ loc' = [loc EXCEPT ![c] = m]
    BY <1>3 DEF Goto
  <2> HIDE DEF m
  <2>3. pc'[c] = "open" /\ loc'[c] = m /\ (CallInv(c)' => TransferInv')
    BY <1>1, <2>1, <2>2, Going DEF Places, Downloading
  <2>4. m.owned = loc[c].owned /\ m.kind = loc[c].kind /\ m.n = loc[c].n
    BY <2>1 DEF Same
  <2>5. loc[c].owned = FALSE /\ loc[c].kind \in {"save", "download"} /\ loc[c].owned # TRUE
    BY <1>1 DEF CallInv, Kinded, Downloading
  <2>6. Partial(c)' /\ Body(c)' /\ Whole(c)' /\ Home(c)'
    BY <1>1, <2>3, <2>4, <2>5 DEF CallInv, Partial, Body, Whole, Home, Quiet, Nobody, Other, Writing, Over
  <2>7. Same(loc[c], m, {"total", "expect", "hops", "parent", "owned", "verified", "n"})
    BY <2>1 DEF Same
  <2> QED
    BY <1>1, <2>1, <2>3, <2>4, <2>5, <2>6, <2>7, DownloadStep DEF Quiet, Downloading
<1> QED
  BY <1>2, <1>3 DEF Metadata

LEMMA TOpen ==
  ASSUME TransferInv, TransferAssumption, NEW c \in Calls, Open(c), asks' = asks
  PROVE  TransferInv'
<1>1. TransferTypes /\ CallInv(c) /\ loc[c] \in Local /\ pc[c] = "open" /\ Quiet
  BY At, WorldQuiet DEF Open, Here
<1>2. CASE Fails(c)
  BY <1>1, <1>2, DownloadFails DEF Downloading
<1>3. CASE loc' = [loc EXCEPT ![c].parent = parent] /\ Goto(c, "create")
  <2> DEFINE m == [loc[c] EXCEPT !.parent = parent]
  <2>1. m \in Local /\ Same(loc[c], m, {"parent"}) /\ m.parent = parent
    BY <1>1 DEF TransferTypes, Local, Same
  <2>2. pc' = [pc EXCEPT ![c] = "create"] /\ loc' = [loc EXCEPT ![c] = m]
    BY <1>3 DEF Goto
  <2> HIDE DEF m
  <2>3. pc'[c] = "create" /\ loc'[c] = m /\ (CallInv(c)' => TransferInv')
    BY <1>1, <2>1, <2>2, Going DEF Places, Downloading, Writing
  <2>4. m.owned = loc[c].owned /\ m.kind = loc[c].kind /\ m.n = loc[c].n
    BY <2>1 DEF Same
  <2>5. loc[c].owned = FALSE /\ loc[c].kind \in {"save", "download"} /\ loc[c].owned # TRUE
    BY <1>1 DEF CallInv, Kinded, Downloading
  <2>6. Partial(c)' /\ Body(c)' /\ Whole(c)' /\ Home(c)'
    BY <1>1, <2>1, <2>3, <2>4, <2>5 DEF CallInv, Partial, Body, Whole, Home, Quiet, Nobody, Other, Writing, Over
  <2>7. Same(loc[c], m, {"total", "expect", "hops", "parent", "owned", "verified", "n"})
    BY <2>1 DEF Same
  <2> QED
    BY <1>1, <2>1, <2>3, <2>4, <2>5, <2>6, <2>7, DownloadStep DEF Quiet, Downloading, Writing
<1> QED
  BY <1>2, <1>3 DEF Open

(* The partial is new: until now the call's name was not its own. *)
LEMMA TCreate ==
  ASSUME TransferInv, TransferAssumption, NEW c \in Calls, Create(c), asks' = asks
  PROVE  TransferInv'
<1>1. TransferTypes /\ CallInv(c) /\ loc[c] \in Local /\ pc[c] = "create" /\ \A d \in Calls : CallInv(d)
  BY At DEF Create, Here, TransferInv
<1>2. CASE Fails(c) /\ UNCHANGED <<local, source, remote, hindered>>
  BY <1>1, <1>2, DownloadFails, WorldQuiet DEF Downloading, Writing
<1>4. CASE /\ names' = [names EXCEPT ![c] = c] /\ hindered' = hindered \union {c} /\ Fails(c)
           /\ UNCHANGED <<away, parent, size, source, remote>>
  <2> DEFINE l == IF c \in {names[Dest], away[Dest]} THEN loc[c] ELSE Forgot(loc[c])
             m == Told(l, "failed", TRUE)
  <2>1. loc[c].owned = FALSE /\ loc[c].kind \in {"save", "download"} /\ c \notin {names[Dest], away[Dest]}
    BY <1>1 DEF CallInv, Kinded, Whole, Downloading, Writing, Over
  <2>2. /\ l \in Local /\ Same(loc[c], l, {"n", "total", "expect"})
    BY <1>1, <2>1, SetForgot
  <2> HIDE DEF l
  <2>3. /\ m \in Local /\ m.answer = "failed"
        /\ Same(l, m, {"answer", "sure", "hops", "verified"})
    BY <2>2 DEF Told, Local, Same
  <2>4. pc' = [pc EXCEPT ![c] = "done"] /\ loc' = [loc EXCEPT ![c] = m] /\ "done" \in Places
    BY <1>4, <2>1 DEF Fails, Ends, Goto, Places, Over, l
  <2> HIDE DEF m
  <2>5. /\ pc' \in [Calls -> Places] /\ loc' \in [Calls -> Local] /\ pc'[c] = "done" /\ loc'[c] = m
        /\ \A d \in Calls \ {c} : pc'[d] = pc[d] /\ loc'[d] = loc[d]
    BY <1>1, <2>3, <2>4, Moves
  <2>6. /\ names' \in [{Dest} \union Calls -> Int] /\ names'[c] = c /\ names'[Dest] = names[Dest]
        /\ \A d \in Calls \ {c} : names'[d] = names[d]
    BY <1>1, <1>4 DEF TransferTypes, TransferAssumption, Dest
  <2>7. hindered' \subseteq Calls /\ UNCHANGED <<away, parent, size, source, remote, asks>>
    BY <1>1, <1>4 DEF TransferTypes
  <2>8. TransferTypes'
    BY <1>1, <2>5, <2>6, <2>7 DEF TransferTypes, Places
  <2>9. \A d \in Calls \ {c} : CallInv(d)'
    BY <1>1, <1>4, <2>5, <2>6, <2>7, Frame
  <2>10. m.kind = loc[c].kind /\ m.whole = loc[c].whole /\ m.reply = loc[c].reply /\ m.read = loc[c].read
    BY <2>2, <2>3 DEF Same
  <2>11. Kinded(c)' /\ Partial(c)' /\ Body(c)' /\ Whole(c)' /\ Home(c)'
    BY <1>1, <1>4, <2>1, <2>3, <2>5, <2>6, <2>7, <2>10 DEF CallInv, Kinded, Partial, Body, Whole, Home, Over,
       Downloading, Uploading, Writing, Nobody, Other
  <2>12. Remote(c)' /\ SourceRead(c)'
    BY <1>1, <2>1, <2>3, <2>5, <2>7, <2>10 DEF CallInv, Remote, SourceRead, Uploading
  <2> QED
    BY <2>8, <2>9, <2>11, <2>12 DEF TransferInv, CallInv
<1>3. CASE /\ names' = [names EXCEPT ![c] = c] /\ loc' = [loc EXCEPT ![c].owned = TRUE] /\ Goto(c, "created")
           /\ UNCHANGED <<away, parent, size, source, remote, hindered, left>>
  <2> DEFINE m == [loc[c] EXCEPT !.owned = TRUE]
  <2>1. m \in Local /\ Same(loc[c], m, {"owned"}) /\ m.owned = TRUE
    BY <1>1 DEF Local, Same
  <2>2. pc' = [pc EXCEPT ![c] = "created"] /\ loc' = [loc EXCEPT ![c] = m] /\ "created" \in Places
    BY <1>3 DEF Goto, Places, Downloading, Writing
  <2> HIDE DEF m
  <2>3. /\ pc' \in [Calls -> Places] /\ loc' \in [Calls -> Local] /\ pc'[c] = "created" /\ loc'[c] = m
        /\ \A d \in Calls \ {c} : pc'[d] = pc[d] /\ loc'[d] = loc[d]
    BY <1>1, <2>1, <2>2, Moves
  <2>4. /\ names' \in [{Dest} \union Calls -> Int] /\ names'[c] = c /\ names'[Dest] = names[Dest]
        /\ \A d \in Calls \ {c} : names'[d] = names[d]
    BY <1>1, <1>3 DEF TransferTypes, TransferAssumption, Dest
  <2>5. TransferTypes'
    BY <1>1, <1>3, <2>3, <2>4 DEF TransferTypes, Places
  <2>6. \A d \in Calls \ {c} : CallInv(d)'
    BY <1>1, <1>3, <2>3, <2>4, Frame
  <2>7. m.kind = loc[c].kind /\ m.n = loc[c].n /\ m.parent = loc[c].parent
    BY <2>1 DEF Same
  <2>8. loc[c].kind \in {"save", "download"}
    BY <1>1 DEF CallInv, Kinded, Downloading, Writing
  <2>9. Partial(c)' /\ Body(c)' /\ Whole(c)' /\ Home(c)'
    BY <1>1, <1>3, <2>1, <2>3, <2>4, <2>7, <2>8 DEF CallInv, Partial, Body, Whole, Home, Nobody, Other, Writing, Over
  <2>10. Same(loc[c], m, {"total", "expect", "hops", "parent", "owned", "verified", "n"})
    BY <2>1 DEF Same
  <2>11. CallInv(c)'
    BY <1>1, <1>3, <2>1, <2>3, <2>9, <2>10, DownloadStep DEF Downloading, Writing
  <2> QED
    BY <2>5, <2>6, <2>11 DEF TransferInv
<1> QED
  BY <1>2, <1>3, <1>4 DEF Create

LEMMA Stays ==
  ASSUME TransferTypes, NEW c \in Calls
  PROVE  loc = [loc EXCEPT ![c] = loc[c]] /\ pc = [pc EXCEPT ![c] = pc[c]] /\ \A but : Same(loc[c], loc[c], but)
BY DEF TransferTypes, Same

(* Only the place of a download changes. *)
LEMMA DownloadGoes ==
  ASSUME TransferInv, TransferAssumption, NEW c \in Calls, NEW w \in Downloading, asks' = asks, Quiet, Goto(c, w), UNCHANGED loc,
         pc[c] \in Writing \ {"create"}, w \in Writing \ {"create"},
         w \in {"sync", "publish", "link", "linked"} => pc[c] \in {"sync", "publish", "link", "linked"},
         w \in {"publish", "link", "linked"} => pc[c] \in {"publish", "link", "linked"},
         pc[c] = "linked" => w = "linked"
  PROVE  TransferInv'
<1>1. TransferTypes /\ CallInv(c) /\ loc[c] \in Local /\ w \in Places
  BY At DEF Places
<1>2. pc' = [pc EXCEPT ![c] = w] /\ loc' = [loc EXCEPT ![c] = loc[c]]
  BY <1>1, Stays DEF Goto
<1>3. pc'[c] = w /\ loc'[c] = loc[c] /\ (CallInv(c)' => TransferInv')
  BY <1>1, <1>2, Going
<1>4. Partial(c)' /\ Body(c)' /\ Whole(c)' /\ Home(c)'
  BY <1>1, <1>3 DEF CallInv, Partial, Body, Whole, Home, Quiet, Writing, Over, Complete, Nobody, Other, Unknown
<1>5. w \notin {"metadata", "open", "create"} /\ pc[c] \in Downloading
  BY DEF Writing, Downloading
<1>6. Same(loc[c], loc[c], {"total", "expect", "hops", "parent", "owned", "verified", "n"})
  BY DEF Same
<1> QED
  BY <1>1, <1>3, <1>4, <1>5, <1>6, DownloadStep DEF Quiet

LEMMA TCreated ==
  ASSUME TransferInv, TransferAssumption, NEW c \in Calls, Created(c), asks' = asks
  PROVE  TransferInv'
<1>1. pc[c] = "created" /\ Quiet
  BY WorldQuiet DEF Created, Here
<1>2. CASE Fails(c)
  BY <1>1, <1>2, DownloadFails DEF Downloading, Writing
<1>3. CASE Goto(c, "fetch") /\ UNCHANGED loc
  BY <1>1, <1>3, DownloadGoes DEF Downloading, Writing
<1> QED
  BY <1>2, <1>3 DEF Created

LEMMA TFetch ==
  ASSUME TransferInv, TransferAssumption, NEW c \in Calls, Fetch(c), asks' = asks
  PROVE  TransferInv'
<1>1. TransferTypes /\ CallInv(c) /\ loc[c] \in Local /\ pc[c] = "fetch" /\ Quiet
  BY At, WorldQuiet DEF Fetch, Here
<1>2. loc[c].kind \in {"save", "download"} /\ loc[c].hops \in Nat /\ loc[c].expect \in Lens
  BY <1>1, Fields DEF CallInv, Kinded, Downloading, Writing
<1>3. CASE Fails(c)
  BY <1>1, <1>3, DownloadFails DEF Downloading, Writing
<1>4. ASSUME NEW m \in Local, NEW w \in {"fetch", "stream"}, Same(loc[c], m, {"hops", "expect"}), loc' = [loc EXCEPT ![c] = m],
             pc' = [pc EXCEPT ![c] = w]
      PROVE  TransferInv'
  <2>1. pc'[c] = w /\ loc'[c] = m /\ (CallInv(c)' => TransferInv')
    BY <1>1, <1>4, Going DEF Places, Downloading, Writing
  <2>2. m.owned = loc[c].owned /\ m.kind = loc[c].kind /\ m.n = loc[c].n /\ m.parent = loc[c].parent
    BY <1>4 DEF Same
  <2>3. Partial(c)' /\ Body(c)' /\ Whole(c)' /\ Home(c)'
    BY <1>1, <1>2, <2>1, <2>2 DEF CallInv, Partial, Body, Whole, Home, Quiet, Nobody, Other, Writing, Over
  <2>4. Same(loc[c], m, {"total", "expect", "hops", "parent", "owned", "verified", "n"})
    BY <1>4 DEF Same
  <2> QED
    BY <1>1, <2>1, <2>2, <2>3, <2>4, DownloadStep DEF Quiet, Downloading, Writing
<1>5. CASE loc' = [loc EXCEPT ![c].hops = @ + 1] /\ UNCHANGED pc
  <2> DEFINE v == loc[c].hops + 1
             m == [loc[c] EXCEPT !.hops = v]
  <2>a. v \in Nat /\ loc' = [loc EXCEPT ![c] = m]
    BY <1>2, <1>5
  <2> HIDE DEF v
  <2>1. m \in Local /\ Same(loc[c], m, {"hops", "expect"})
    BY <1>1, <2>a DEF Local, Same
  <2>2. loc' = [loc EXCEPT ![c] = m] /\ pc' = [pc EXCEPT ![c] = "fetch"]
    BY <1>1, <1>5, <2>a, Stays
  <2> HIDE DEF m
  <2> QED
    BY <2>1, <2>2, <1>4
<1>6. ASSUME NEW length \in {Unknown} \union Lengths, loc' = [loc EXCEPT ![c].expect = Expected(c, length)], Goto(c, "stream")
      PROVE  TransferInv'
  <2> DEFINE m == [loc[c] EXCEPT !.expect = Expected(c, length)]
  <2>1. Expected(c, length) \in Lens
    BY <1>2, <1>6 DEF Expected, Lens, TransferAssumption
  <2>2. m \in Local /\ Same(loc[c], m, {"hops", "expect"})
    BY <1>1, <2>1 DEF Local, Same
  <2>3. loc' = [loc EXCEPT ![c] = m] /\ pc' = [pc EXCEPT ![c] = "stream"]
    BY <1>6 DEF Goto
  <2> HIDE DEF m
  <2> QED
    BY <2>2, <2>3, <1>4
<1> QED
  BY <1>3, <1>5, <1>6 DEF Fetch

(* A chunk is in the file before it is counted; in between the call fails. *)
LEMMA TReceive ==
  ASSUME TransferInv, TransferAssumption, NEW c \in Calls, Receive(c), asks' = asks
  PROVE  TransferInv'
<1>1. TransferTypes /\ CallInv(c) /\ loc[c] \in Local /\ pc[c] = "stream" /\ \A d \in Calls : CallInv(d)
  BY At DEF Receive, Here, TransferInv
<1>2. /\ loc[c].kind \in {"save", "download"} /\ c \notin {names[Dest], away[Dest]} /\ loc[c].n \in Nat /\ size[c] = loc[c].n
      /\ size \in [Calls -> Nat]
  BY <1>1, Fields DEF CallInv, Kinded, Downloading, Writing, Whole, Body, Over, TransferTypes
<1>3. CASE Fails(c) /\ UNCHANGED world
  BY <1>1, <1>3, DownloadFails, WorldQuiet DEF Downloading, Writing
<1>4. CASE /\ loc[c].n + 1 <= Limit /\ size' = [size EXCEPT ![c] = @ + 1]
           /\ UNCHANGED <<names, away, parent, source, remote, hindered>>
  <2>1. size' \in [Calls -> Nat] /\ size'[c] = size[c] + 1 /\ \A d \in Calls \ {c} : size'[d] = size[d]
    BY <1>2, <1>4
  <2>2. CASE Fails(c)
    BY <1>1, <1>2, <1>4, <2>1, <2>2, Ending DEF Fails, Downloading, Writing
  <2>3. CASE loc' = [loc EXCEPT ![c].n = @ + 1] /\ UNCHANGED <<pc, left>>
    <3> DEFINE v == loc[c].n + 1
               m == [loc[c] EXCEPT !.n = v]
    <3>a. v \in Nat /\ v = loc[c].n + 1 /\ loc' = [loc EXCEPT ![c] = m]
      BY <1>2, <2>3
    <3> HIDE DEF v
    <3>1. m \in Local /\ Same(loc[c], m, {"n"}) /\ m.n = loc[c].n + 1
      BY <1>1, <3>a DEF Local, Same
    <3>2. loc' = [loc EXCEPT ![c] = m] /\ pc' = [pc EXCEPT ![c] = "stream"] /\ "stream" \in Places
      BY <1>1, <2>3, <3>a, Stays DEF Places, Downloading, Writing
    <3> HIDE DEF m
    <3>3. /\ pc' \in [Calls -> Places] /\ loc' \in [Calls -> Local] /\ pc'[c] = "stream" /\ loc'[c] = m
          /\ \A d \in Calls \ {c} : pc'[d] = pc[d] /\ loc'[d] = loc[d]
      BY <1>1, <3>1, <3>2, Moves
    <3>4. TransferTypes'
      BY <1>1, <1>4, <2>1, <3>3 DEF TransferTypes, Places
    <3>5. \A d \in Calls \ {c} : CallInv(d)'
      BY <1>1, <1>4, <2>1, <3>3, Frame
    <3>6. m.owned = loc[c].owned /\ m.kind = loc[c].kind /\ m.parent = loc[c].parent
      BY <3>1 DEF Same
    <3>7. Partial(c)' /\ Body(c)' /\ Whole(c)' /\ Home(c)'
      BY <1>1, <1>2, <1>4, <2>1, <3>1, <3>3, <3>6 DEF CallInv, Partial, Body, Whole, Home, Nobody, Other, Writing, Over
    <3>8. Same(loc[c], m, {"total", "expect", "hops", "parent", "owned", "verified", "n"})
      BY <3>1 DEF Same
    <3>9. CallInv(c)'
      BY <1>1, <1>4, <3>1, <3>3, <3>6, <3>7, <3>8, DownloadStep DEF Downloading, Writing
    <3> QED
      BY <3>4, <3>5, <3>9 DEF TransferInv
  <2> QED
    BY <1>4, <2>2, <2>3, <1>2 DEF Receive
<1> QED
  BY <1>2, <1>3, <1>4 DEF Receive, TransferAssumption

LEMMA TEnded ==
  ASSUME TransferInv, TransferAssumption, NEW c \in Calls, Ended(c), asks' = asks
  PROVE  TransferInv'
<1> DEFINE m == [loc[c] EXCEPT !.total = loc[c].n]
<1>1. TransferTypes /\ CallInv(c) /\ loc[c] \in Local /\ pc[c] = "stream" /\ Quiet
  BY At, WorldQuiet DEF Ended, Here
<1>2. loc[c].kind \in {"save", "download"} /\ loc[c].n \in Nat
  BY <1>1, Fields DEF CallInv, Kinded, Downloading, Writing
<1>3. m \in Local /\ Same(loc[c], m, {"total"}) /\ m.total = loc[c].n
  BY <1>1, <1>2 DEF Local, Same, Lens
<1>4. loc' = [loc EXCEPT ![c] = m] /\ pc' = [pc EXCEPT ![c] = "sync"]
  BY DEF Ended, Goto
<1> HIDE DEF m
<1>5. pc'[c] = "sync" /\ loc'[c] = m /\ (CallInv(c)' => TransferInv')
  BY <1>1, <1>3, <1>4, Going DEF Places, Downloading, Writing
<1>6. m.owned = loc[c].owned /\ m.kind = loc[c].kind /\ m.n = loc[c].n /\ m.parent = loc[c].parent
  BY <1>3 DEF Same
<1>7. Partial(c)' /\ Body(c)' /\ Whole(c)' /\ Home(c)'
  BY <1>1, <1>2, <1>3, <1>5, <1>6 DEF CallInv, Partial, Body, Whole, Home, Quiet, Nobody, Other, Writing, Over
<1>8. Same(loc[c], m, {"total", "expect", "hops", "parent", "owned", "verified", "n"})
  BY <1>3 DEF Same
<1> QED
  BY <1>1, <1>3, <1>5, <1>7, <1>8, DownloadStep DEF Quiet, Downloading, Writing

LEMMA TSync ==
  ASSUME TransferInv, TransferAssumption, NEW c \in Calls, Sync(c), asks' = asks
  PROVE  TransferInv'
<1>1. TransferTypes /\ CallInv(c) /\ loc[c] \in Local /\ pc[c] = "sync" /\ Quiet
  BY At, WorldQuiet DEF Sync, Here
<1>2. CASE Fails(c)
  BY <1>1, <1>2, DownloadFails DEF Downloading, Writing
<1>3. CASE Complete(c) /\ loc' = [loc EXCEPT ![c].verified = TRUE] /\ Goto(c, "publish")
  <2> DEFINE m == [loc[c] EXCEPT !.verified = TRUE]
  <2>1. m \in Local /\ Same(loc[c], m, {"verified"})
    BY <1>1 DEF Local, Same
  <2>2. loc' = [loc EXCEPT ![c] = m] /\ pc' = [pc EXCEPT ![c] = "publish"]
    BY <1>3 DEF Goto
  <2> HIDE DEF m
  <2>3. pc'[c] = "publish" /\ loc'[c] = m /\ (CallInv(c)' => TransferInv')
    BY <1>1, <2>1, <2>2, Going DEF Places, Downloading, Writing
  <2>4. /\ m.owned = loc[c].owned /\ m.kind = loc[c].kind /\ m.n = loc[c].n /\ m.parent = loc[c].parent
        /\ m.total = loc[c].total /\ m.expect = loc[c].expect
    BY <2>1 DEF Same
  <2>5. Partial(c)' /\ Body(c)' /\ Whole(c)' /\ Home(c)'
    BY <1>1, <1>3, <2>3, <2>4 DEF CallInv, Partial, Body, Whole, Home, Quiet, Nobody, Other, Writing, Over, Complete
  <2>6. Same(loc[c], m, {"total", "expect", "hops", "parent", "owned", "verified", "n"})
    BY <2>1 DEF Same
  <2> QED
    BY <1>1, <2>1, <2>3, <2>5, <2>6, DownloadStep DEF Quiet, Downloading, Writing
<1> QED
  BY <1>2, <1>3 DEF Sync

LEMMA TPublish ==
  ASSUME TransferInv, TransferAssumption, NEW c \in Calls, Publish(c), asks' = asks
  PROVE  TransferInv'
<1>1. pc[c] = "publish" /\ Quiet
  BY WorldQuiet DEF Publish, Here
<1>2. CASE Fails(c)
  BY <1>1, <1>2, DownloadFails DEF Downloading, Writing
<1>3. CASE Goto(c, "link") /\ UNCHANGED loc
  BY <1>1, <1>3, DownloadGoes DEF Downloading, Writing
<1> QED
  BY <1>2, <1>3 DEF Publish

(* What is linked is the call's own file, which is whole, or another's. *)
LEMMA TLink ==
  ASSUME TransferInv, TransferAssumption, NEW c \in Calls, Link(c), asks' = asks
  PROVE  TransferInv'
<1>1. TransferTypes /\ CallInv(c) /\ loc[c] \in Local /\ pc[c] = "link" /\ \A d \in Calls : CallInv(d)
  BY At DEF Link, Here, TransferInv
<1>2. CASE Fails(c) /\ (UNCHANGED world \/ UNCHANGED <<local, source, remote, hindered>>)
  BY <1>1, <1>2, DownloadFails, WorldQuiet DEF Downloading, Writing
<1>3. CASE /\ names[Dest] = Nobody /\ names[c] # Nobody
           /\ names' = [names EXCEPT ![Dest] = names[c]] /\ Goto(c, "linked")
           /\ UNCHANGED <<away, parent, size, source, remote, loc, hindered, left>>
  <2>1. pc' = [pc EXCEPT ![c] = "linked"] /\ loc' = [loc EXCEPT ![c] = loc[c]] /\ "linked" \in Places
    BY <1>1, <1>3, Stays DEF Goto, Places, Downloading, Writing
  <2>2. /\ pc' \in [Calls -> Places] /\ loc' \in [Calls -> Local] /\ pc'[c] = "linked" /\ loc'[c] = loc[c]
        /\ \A d \in Calls \ {c} : pc'[d] = pc[d] /\ loc'[d] = loc[d]
    BY <1>1, <2>1, Moves
  <2>3. names[c] \in {Other, c} /\ names[c] \in Int
    BY <1>1, <1>3 DEF CallInv, Partial, Nobody, Other
  <2>4. /\ names' \in [{Dest} \union Calls -> Int] /\ names'[Dest] = names[c]
        /\ \A d \in Calls : names'[d] = names[d]
    BY <1>1, <1>3, <2>3 DEF TransferTypes, TransferAssumption, Dest
  <2>5. TransferTypes'
    BY <1>1, <1>3, <2>2, <2>4 DEF TransferTypes, Places
  <2>6. \A d \in Calls \ {c} : d \in {names'[Dest], away'[Dest]} => d \in {names[Dest], away[Dest]}
    BY <1>3, <2>3, <2>4 DEF Other, TransferAssumption
  <2>7. \A d \in Calls \ {c} : CallInv(d)'
    BY <1>1, <1>3, <2>2, <2>4, <2>6, Frame
  <2>8. loc[c].kind \in {"save", "download"} /\ loc[c].answer = "none" /\ size[c] = loc[c].n /\ loc[c].total = loc[c].n
        /\ loc[c].n <= Limit /\ Complete(c)
    BY <1>1 DEF CallInv, Kinded, Body, Downloading, Writing, Over
  <2>9. Partial(c)' /\ Body(c)' /\ Whole(c)' /\ Home(c)'
    BY <1>1, <1>3, <2>2, <2>4, <2>8 DEF CallInv, Partial, Body, Whole, Home, Nobody, Other, Writing, Over, Complete
  <2>10. Same(loc[c], loc[c], {"total", "expect", "hops", "parent", "owned", "verified", "n"})
    BY DEF Same
  <2>11. CallInv(c)'
    BY <1>1, <1>3, <2>2, <2>9, <2>10, DownloadStep DEF Downloading, Writing
  <2> QED
    BY <2>5, <2>7, <2>11 DEF TransferInv
<1> QED
  BY <1>2, <1>3 DEF Link

LEMMA TLinked ==
  ASSUME TransferInv, TransferAssumption, NEW c \in Calls, Linked(c), asks' = asks
  PROVE  TransferInv'
<1>1. pc[c] = "linked" /\ Quiet
  BY WorldQuiet DEF Linked, Here
<1>2. CASE Fails(c)
  BY <1>1, <1>2, DownloadFails DEF Downloading, Writing
<1>3. CASE Ends(c, "saved", TRUE)
  <2>1. size' \in [Calls -> Nat]
    BY <1>1 DEF TransferInv, TransferTypes, Quiet
  <2> QED
    BY <1>1, <1>3, <2>1, Ending DEF Quiet, Downloading, Writing
<1> QED
  BY <1>2, <1>3 DEF Linked

LEMMA TBroken ==
  ASSUME TransferInv, TransferAssumption, NEW c \in Calls, Broken(c), asks' = asks
  PROVE  TransferInv'
BY DownloadFails, WorldQuiet DEF Broken, Here, Downloading, Writing

(* The end of a call: its place, and at the last its partial, change. *)
LEMMA OverStep ==
  ASSUME TransferTypes, TransferAssumption, NEW c \in Calls, CallInv(c), NEW w \in {"unlink", "done"}, pc[c] \in {"close", "unlink"},
         pc'[c] = w, loc'[c] = loc[c], UNCHANGED <<away, parent, size, source, remote>>, hindered \subseteq hindered',
         names'[Dest] = names[Dest], names'[c] \in {names[c], Nobody},
         w = "done" /\ c \notin hindered' => names'[c] # c
  PROVE  CallInv(c)'
<1>1. loc[c].answer # "none" /\ loc[c].answer # "none" /\ c # Nobody
  BY DEF CallInv, Kinded, Over, TransferAssumption, Nobody
<1>2. Kinded(c)' /\ Partial(c)'
  BY <1>1 DEF CallInv, Kinded, Partial, Over, Downloading, Uploading, Writing
<1>3. Body(c)' /\ Whole(c)' /\ Home(c)'
  BY <1>1 DEF CallInv, Body, Whole, Home, Over, Writing
<1>4. Remote(c)' /\ SourceRead(c)'
  BY DEF CallInv, Remote, SourceRead, Uploading
<1> QED
  BY <1>2, <1>3, <1>4 DEF CallInv

LEMMA TClose ==
  ASSUME TransferInv, TransferAssumption, NEW c \in Calls, Close(c), asks' = asks
  PROVE  TransferInv'
<1> DEFINE w == IF loc[c].kind # "upload" /\ SameParent(c) /\ names[c] = c THEN "unlink" ELSE "done"
<1>1. TransferTypes /\ CallInv(c) /\ loc[c] \in Local /\ pc[c] = "close" /\ Quiet /\ UNCHANGED loc
  BY At, WorldQuiet DEF Close, Here
<1>2. pc' = [pc EXCEPT ![c] = w] /\ loc' = [loc EXCEPT ![c] = loc[c]] /\ w \in Places /\ w \in {"unlink", "done"}
  BY <1>1, Stays DEF Close, Goto, Places, Over
<1>3. w = "done" /\ c \notin hindered => names[c] # c
  BY <1>1 DEF CallInv, Home, Partial, SameParent
<1> HIDE DEF w
<1>4. pc'[c] = w /\ loc'[c] = loc[c] /\ (CallInv(c)' => TransferInv')
  BY <1>1, <1>2, Going
<1> QED
  BY <1>1, <1>2, <1>3, <1>4, OverStep DEF Quiet

LEMMA TUnlink ==
  ASSUME TransferInv, TransferAssumption, NEW c \in Calls, Unlink(c), asks' = asks
  PROVE  TransferInv'
<1>1. TransferTypes /\ CallInv(c) /\ loc[c] \in Local /\ pc[c] = "unlink" /\ \A d \in Calls : CallInv(d)
  BY At DEF Unlink, Here, TransferInv
<1>2. pc' = [pc EXCEPT ![c] = "done"] /\ loc' = [loc EXCEPT ![c] = loc[c]] /\ "done" \in Places
  BY <1>1, Stays DEF Unlink, Goto, Places, Over
<1>3. /\ pc' \in [Calls -> Places] /\ loc' \in [Calls -> Local] /\ pc'[c] = "done" /\ loc'[c] = loc[c]
      /\ \A d \in Calls \ {c} : pc'[d] = pc[d] /\ loc'[d] = loc[d]
  BY <1>1, <1>2, Moves
<1>4. /\ names' \in [{Dest} \union Calls -> Int] /\ \A d \in {Dest} \union Calls : d # c => names'[d] = names[d]
      /\ names'[c] \in {names[c], Nobody} /\ hindered \subseteq hindered' /\ hindered' \subseteq Calls
      /\ c \notin hindered' => names'[c] = Nobody
      /\ UNCHANGED <<away, parent, source, remote>> /\ size' = size
  <2>1. CASE names' = [names EXCEPT ![c] = Nobody] /\ UNCHANGED <<away, parent, size, source, remote, hindered, left>>
    BY <1>1, <2>1 DEF TransferTypes, Nobody, Dest
  <2>2. CASE hindered' = hindered \union {c} /\ UNCHANGED <<local, source, remote>>
    BY <1>1, <2>2 DEF TransferTypes, local
  <2> QED
    BY <2>1, <2>2 DEF Unlink
<1>5. TransferTypes'
  BY <1>1, <1>3, <1>4 DEF TransferTypes, Places
<1>6. c # Nobody /\ c # Dest
  BY DEF TransferAssumption, Nobody, Dest
<1>7. \A d \in Calls \ {c} : CallInv(d)'
  BY <1>1, <1>3, <1>4, <1>6, Frame
<1>8. CallInv(c)'
  BY <1>1, <1>3, <1>4, <1>6, OverStep
<1> QED
  BY <1>5, <1>7, <1>8 DEF TransferInv

LEMMA Sources ==
  ASSUME TransferTypes
  PROVE  /\ Len(source) \in Nat \ {0} /\ Len(source) \in DOMAIN source /\ DOMAIN source = 1..Len(source)
         /\ \A i \in DOMAIN source : source[i] \in Nat
         /\ Now \in Nat \X Nat /\ Now[1] = Len(source) /\ Now[2] = source[Len(source)]
BY DEF TransferTypes, Now

LEMMA TOpenSource ==
  ASSUME TransferInv, TransferAssumption, NEW c \in Calls, OpenSource(c), asks' = asks
  PROVE  TransferInv'
<1> DEFINE m == [loc[c] EXCEPT !.snap = Now, !.owned = TRUE]
<1>1. TransferTypes /\ CallInv(c) /\ loc[c] \in Local /\ pc[c] = "source" /\ Quiet
  BY At, WorldQuiet DEF OpenSource, Here
<1>2. m \in Local /\ Same(loc[c], m, {"snap", "owned"}) /\ m.snap = Now
  BY <1>1, Sources DEF Local, Same
<1>3. loc' = [loc EXCEPT ![c] = m] /\ pc' = [pc EXCEPT ![c] = "same"]
  BY DEF OpenSource, Goto
<1> HIDE DEF m
<1>4. pc'[c] = "same" /\ loc'[c] = m /\ (CallInv(c)' => TransferInv')
  BY <1>1, <1>2, <1>3, Going DEF Places, Uploading
<1>5. m.n = loc[c].n /\ m.read = loc[c].read /\ m.whole = loc[c].whole /\ m.reply = loc[c].reply /\ m.answer = loc[c].answer
  BY <1>2 DEF Same
<1>6. loc[c].read = {} /\ loc[c].n = 0 /\ loc[c].answer = "none" /\ loc[c].whole = FALSE
  BY <1>1 DEF CallInv, SourceRead, Kinded, Over, Remote
<1>7. Remote(c)'
  BY <1>1, <1>4, <1>5, <1>6 DEF CallInv, Remote, Quiet
<1>8. SourceRead(c)'
  BY <1>1, <1>2, <1>4, <1>5, <1>6, Sources DEF SourceRead, Quiet
<1>9. Same(loc[c], m, {"n", "read", "snap", "owned", "whole", "reply"})
  BY <1>2 DEF Same
<1> QED
  BY <1>1, <1>2, <1>4, <1>7, <1>8, <1>9, UploadStep DEF Uploading

(* Only the place of an upload changes. *)
LEMMA UploadGoes ==
  ASSUME TransferInv, TransferAssumption, NEW c \in Calls, NEW w \in {"send", "await", "stable"}, asks' = asks, Quiet, Goto(c, w), UNCHANGED loc,
         pc[c] \in {"same", "sent", "await"}, w \in {"await", "stable"} => pc[c] \in {"sent", "await"}
  PROVE  TransferInv'
<1>1. TransferTypes /\ CallInv(c) /\ loc[c] \in Local /\ w \in Places
  BY At DEF Places, Uploading
<1>2. pc' = [pc EXCEPT ![c] = w] /\ loc' = [loc EXCEPT ![c] = loc[c]]
  BY <1>1, Stays DEF Goto
<1>3. pc'[c] = w /\ loc'[c] = loc[c] /\ (CallInv(c)' => TransferInv')
  BY <1>1, <1>2, Going
<1>4. Remote(c)'
  BY <1>1, <1>3 DEF CallInv, Remote, Quiet
<1>5. SourceRead(c)'
  BY <1>1, <1>3 DEF CallInv, SourceRead, Quiet, Uploading
<1>6. Same(loc[c], loc[c], {"n", "read", "snap", "owned", "whole", "reply"}) /\ pc[c] \in Uploading /\ w \in Uploading \ {"source"}
  BY DEF Same, Uploading
<1> QED
  BY <1>1, <1>3, <1>4, <1>5, <1>6, UploadStep

LEMMA TSameSource ==
  ASSUME TransferInv, TransferAssumption, NEW c \in Calls, SameSource(c), asks' = asks
  PROVE  TransferInv'
<1>1. pc[c] = "same" /\ Quiet /\ CallInv(c)
  BY WorldQuiet, At DEF SameSource, Here
<1>2. CASE Fails(c)
  BY <1>1, <1>2, Failing DEF CallInv, Remote, Uploading
<1>3. CASE Goto(c, "send") /\ UNCHANGED loc
  BY <1>1, <1>3, UploadGoes
<1> QED
  BY <1>2, <1>3 DEF SameSource

(* Each chunk is one of a version no older than any that was read before. *)
LEMMA TSend ==
  ASSUME TransferInv, TransferAssumption, NEW c \in Calls, Send(c), asks' = asks
  PROVE  TransferInv'
<1>1. TransferTypes /\ CallInv(c) /\ loc[c] \in Local /\ pc[c] = "send" /\ Quiet
  BY At, WorldQuiet DEF Send, Here
<1>2. loc[c].kind = "upload" /\ loc[c].n \in Nat /\ loc[c].answer = "none" /\ loc[c].read \in SUBSET (Nat \X Nat) /\ loc[c].snap \in Nat \X Nat
  BY <1>1, Fields DEF CallInv, Kinded, Uploading, Over
<1>3. CASE loc' = [loc EXCEPT ![c].n = @ + 1, ![c].read = @ \union {Version(c)}] /\ UNCHANGED pc
  <2> DEFINE v == loc[c].n + 1
             r == loc[c].read \union {Version(c)}
             m == [loc[c] EXCEPT !.n = v, !.read = r]
  <2>1. loc' = [loc EXCEPT ![c] = m]
    BY <1>1, <1>3 DEF TransferTypes
  <2>2. Version(c) \in Nat \X Nat /\ Version(c)[1] = loc[c].snap[1] /\ Version(c)[2] = source[loc[c].snap[1]]
        /\ loc[c].snap[2] <= source[loc[c].snap[1]]
    BY <1>1, <1>2, Sources DEF CallInv, SourceRead, Uploading, Version
  <2>3. v \in Nat /\ v > 0 /\ r \in SUBSET (Nat \X Nat) /\ r # {} /\ \A x \in r : x \in loc[c].read \/ x = Version(c)
    BY <1>2, <2>2
  <2> HIDE DEF v, r
  <2>4. m \in Local /\ m.n = v /\ m.read = r /\ Same(loc[c], m, {"n", "read"})
    BY <1>1, <2>3 DEF Local, Same
  <2>5. pc' = [pc EXCEPT ![c] = "send"] /\ "send" \in Places
    BY <1>1, <1>3, Stays DEF Places, Uploading
  <2> HIDE DEF m
  <2>6. pc'[c] = "send" /\ loc'[c] = m /\ (CallInv(c)' => TransferInv')
    BY <1>1, <2>1, <2>4, <2>5, Going
  <2>7. m.whole = loc[c].whole /\ m.reply = loc[c].reply /\ m.answer = loc[c].answer /\ m.snap = loc[c].snap
    BY <2>4 DEF Same
  <2>8. Remote(c)'
    BY <1>1, <1>2, <2>6, <2>7 DEF CallInv, Remote, Quiet
  <2>9. \A x \in r : x[1] = loc[c].snap[1] /\ x[2] \in loc[c].snap[2]..source[loc[c].snap[1]]
    BY <1>1, <1>2, <2>2, <2>3, Sources DEF CallInv, SourceRead, Uploading
  <2>10. SourceRead(c)'
    BY <1>1, <1>2, <2>3, <2>4, <2>6, <2>7, <2>9 DEF CallInv, SourceRead, Quiet, Uploading
  <2>11. Same(loc[c], m, {"n", "read", "snap", "owned", "whole", "reply"})
    BY <2>4 DEF Same
  <2> QED
    BY <1>1, <2>4, <2>6, <2>8, <2>10, <2>11, UploadStep DEF Uploading
<1>4. CASE loc[c].n >= SourceSize /\ loc' = [loc EXCEPT ![c].whole = TRUE] /\ Goto(c, "sent")
  <2> DEFINE m == [loc[c] EXCEPT !.whole = TRUE]
  <2>1. m \in Local /\ Same(loc[c], m, {"whole"}) /\ m.whole = TRUE
    BY <1>1 DEF Local, Same
  <2>2. loc' = [loc EXCEPT ![c] = m] /\ pc' = [pc EXCEPT ![c] = "sent"]
    BY <1>4 DEF Goto
  <2> HIDE DEF m
  <2>3. pc'[c] = "sent" /\ loc'[c] = m /\ (CallInv(c)' => TransferInv')
    BY <1>1, <2>1, <2>2, Going DEF Places, Uploading
  <2>4. /\ m.reply = loc[c].reply /\ m.answer = loc[c].answer /\ m.snap = loc[c].snap /\ m.n = loc[c].n
        /\ m.read = loc[c].read
    BY <2>1 DEF Same
  <2>5. Remote(c)'
    BY <1>1, <1>2, <2>1, <2>3, <2>4 DEF CallInv, Remote, Quiet
  <2>6. SourceRead(c)'
    BY <1>1, <1>2, <1>4, <2>3, <2>4 DEF CallInv, SourceRead, Quiet, Uploading
  <2>7. Same(loc[c], m, {"n", "read", "snap", "owned", "whole", "reply"})
    BY <2>1 DEF Same
  <2> QED
    BY <1>1, <2>1, <2>3, <2>5, <2>6, <2>7, UploadStep DEF Uploading
<1> QED
  BY <1>2, <1>3, <1>4 DEF Send, TransferAssumption

LEMMA TSent ==
  ASSUME TransferInv, TransferAssumption, NEW c \in Calls, Sent(c), asks' = asks
  PROVE  TransferInv'
BY WorldQuiet, UploadGoes DEF Sent, Here

(* An answer that says no more than it knows may be given at once. *)
LEMMA Unsure ==
  ASSUME TransferInv, TransferAssumption, NEW c \in Calls, NEW a \in {"failed", "changed"}, Ends(c, a, FALSE), pc[c] \in Uploading, Quiet, asks' = asks
  PROVE  TransferInv'
<1>1. size' \in [Calls -> Nat]
  BY DEF TransferInv, TransferTypes, Quiet
<1> QED
  BY <1>1, Ending DEF Quiet

LEMMA TRejects ==
  ASSUME TransferInv, TransferAssumption, NEW c \in Calls, Rejects(c), Early(c), pc[c] \in Uploading, asks' = asks
  PROVE  TransferInv'
<1>1. loc[c].reply \in {"refused", "server error", "long error", "success"} /\ Quiet
  BY At, Fields, WorldQuiet DEF Rejects, Early
<1>2. CASE loc[c].reply \in {"refused", "success"}
  <2>1. Fails(c)
    BY <1>2 DEF Rejects
  <2> QED
    BY <1>1, <1>2, <2>1, Failing
<1>3. CASE loc[c].reply \in {"server error", "long error"}
  <2>1. Ends(c, "failed", FALSE)
    BY <1>3 DEF Rejects
  <2> QED
    BY <1>1, <2>1, Unsure
<1> QED
  BY <1>1, <1>2, <1>3

LEMMA TRejectEarly ==
  ASSUME TransferInv, TransferAssumption, NEW c \in Calls, RejectEarly(c), asks' = asks
  PROVE  TransferInv'
BY TRejects DEF RejectEarly, Uploading

LEMMA TConnectionLost ==
  ASSUME TransferInv, TransferAssumption, NEW c \in Calls, ConnectionLost(c), asks' = asks
  PROVE  TransferInv'
BY Unsure, WorldQuiet DEF ConnectionLost, Uploading

LEMMA TAnswered ==
  ASSUME TransferInv, TransferAssumption, NEW c \in Calls, Answered(c), asks' = asks
  PROVE  TransferInv'
<1>1. pc[c] = "await" /\ Early(c)
  BY DEF Answered, Here
<1>2. CASE Rejects(c)
  BY <1>1, <1>2, TRejects DEF Uploading
<1>3. CASE Goto(c, "stable") /\ UNCHANGED loc /\ UNCHANGED world
  BY <1>1, <1>3, UploadGoes, WorldQuiet
<1>4. CASE loc[c].reply \in {"success", "long error"} /\ Fails(c) /\ UNCHANGED world
  BY <1>1, <1>4, Failing, WorldQuiet DEF Uploading
<1> QED
  BY <1>2, <1>3, <1>4 DEF Answered

(* A version that has not changed since the beginning is all that was read. *)
LEMMA TVerifyStable ==
  ASSUME TransferInv, TransferAssumption, NEW c \in Calls, VerifyStable(c), asks' = asks
  PROVE  TransferInv'
<1>1. TransferTypes /\ CallInv(c) /\ loc[c] \in Local /\ pc[c] = "stable" /\ Quiet
  BY At, WorldQuiet DEF VerifyStable, Here
<1>2. CASE StableSource(c) /\ Ends(c, "uploaded", TRUE)
  <2>1. loc[c].snap \in Nat \X Nat /\ loc[c].read \in SUBSET (Nat \X Nat) /\ loc[c].n \in Nat
    BY <1>1, Fields
  <2>2. source[loc[c].snap[1]] = loc[c].snap[2]
    BY <1>2, <2>1 DEF StableSource, Version
  <2>3. \A r \in loc[c].read : r[1] = loc[c].snap[1] /\ r[2] = loc[c].snap[2]
    BY <1>1, <2>1, <2>2 DEF CallInv, SourceRead, Uploading
  <2>4. loc[c].read # {}
    BY <1>1, <2>1 DEF CallInv, SourceRead, Uploading, TransferAssumption
  <2>5. \A r \in loc[c].read : r = loc[c].snap
    BY <2>1, <2>3
  <2>6. loc[c].read = {loc[c].snap}
    BY <2>4, <2>5
  <2>7. size' \in [Calls -> Nat]
    BY <1>1 DEF TransferTypes, Quiet
  <2> QED
    BY <1>1, <1>2, <2>6, <2>7, Ending DEF Quiet, Uploading
<1>3. CASE Ends(c, "changed", FALSE)
  BY <1>1, <1>3, Unsure DEF Uploading
<1> QED
  BY <1>2, <1>3 DEF VerifyStable

(* The Files API creates a file of a whole body only, and never of one it  *)
(* has refused.                                                            *)
LEMMA TCreates ==
  ASSUME TransferInv, TransferAssumption, NEW c \in Calls, Creates(c), asks' = asks
  PROVE  TransferInv'
<1>1. TransferTypes /\ \A d \in Calls : CallInv(d)
  BY DEF TransferInv
<1>2. UNCHANGED <<names, away, parent, size, source, pc, loc, hindered>> /\ remote' = remote \union {c} /\ loc[c].whole /\ loc[c].reply # "refused"
  BY DEF Creates, local
<1>3. TransferTypes'
  BY <1>1, <1>2 DEF TransferTypes
<1>4. \A d \in Calls \ {c} : CallInv(d)'
  BY <1>1, <1>2, Frame
<1>5. loc[c].whole = TRUE
  BY <1>1, <1>2, Fields DEF TransferTypes
<1>6. Kinded(c)' /\ Partial(c)' /\ Body(c)' /\ Whole(c)' /\ Home(c)' /\ SourceRead(c)'
  BY <1>1, <1>2 DEF CallInv, Kinded, Partial, Body, Whole, Home, SourceRead, Complete
<1>7. Remote(c)'
  BY <1>1, <1>2, <1>5 DEF CallInv, Remote
<1> QED
  BY <1>3, <1>4, <1>6, <1>7 DEF TransferInv, CallInv

LEMMA TReplies ==
  ASSUME TransferInv, TransferAssumption, NEW c \in Calls, Replies(c), asks' = asks
  PROVE  TransferInv'
<1>1. TransferTypes /\ CallInv(c) /\ loc[c] \in Local /\ pc[c] \in {"send", "sent", "await"} /\ Quiet /\ UNCHANGED pc
  BY At, WorldQuiet DEF Replies
<1>2. PICK reply \in {"refused", "server error", "long error", "success"} :
        (reply = "refused" => c \notin remote) /\ loc' = [loc EXCEPT ![c].reply = reply]
  BY DEF Replies
<1> DEFINE m == [loc[c] EXCEPT !.reply = reply]
<1>3. m \in Local /\ Same(loc[c], m, {"reply"}) /\ m.reply = reply
  BY <1>1 DEF Local, Same
<1>4. loc' = [loc EXCEPT ![c] = m] /\ pc' = [pc EXCEPT ![c] = pc[c]] /\ pc[c] \in Places
  BY <1>1, <1>2, Stays, At
<1> HIDE DEF m
<1>5. pc'[c] = pc[c] /\ loc'[c] = m /\ (CallInv(c)' => TransferInv')
  BY <1>1, <1>3, <1>4, Going
<1>6. /\ m.whole = loc[c].whole /\ m.answer = loc[c].answer /\ m.snap = loc[c].snap /\ m.n = loc[c].n
      /\ m.read = loc[c].read
  BY <1>3 DEF Same
<1>7. loc[c].answer = "none"
  BY <1>1 DEF CallInv, Kinded, Over
<1>8. Remote(c)'
  BY <1>1, <1>2, <1>3, <1>5, <1>6, <1>7 DEF CallInv, Remote, Quiet
<1>9. SourceRead(c)'
  <2>1. /\ loc[c].n > 0 => loc[c].read # {}
        /\ pc[c] \in {"sent", "await", "stable"} => loc[c].n >= SourceSize
        /\ loc[c].snap[1] \in DOMAIN source /\ loc[c].snap[2] <= source[loc[c].snap[1]]
        /\ \A r \in loc[c].read : r[1] = loc[c].snap[1] /\ r[2] \in loc[c].snap[2]..source[loc[c].snap[1]]
    BY <1>1 DEF CallInv, SourceRead, Uploading
  <2> QED
    BY <1>1, <1>5, <1>6, <1>7, <2>1 DEF SourceRead, Quiet
<1>10. Same(loc[c], m, {"n", "read", "snap", "owned", "whole", "reply"})
  BY <1>3 DEF Same
<1> QED
  BY <1>1, <1>3, <1>5, <1>8, <1>9, <1>10, UploadStep DEF Uploading

-----------------------------------------------------------------------------
(* Other programs, and the invariant.                                      *)

(* They may put anything in a name that is not a call's own file there. *)
LEMMA TTakesDest ==
  ASSUME TransferInv, TransferAssumption, NEW who \in {Nobody, Other}, TakesDest(who)
  PROVE  TransferInv'
<1>1. TransferTypes /\ \A d \in Calls : CallInv(d)
  BY DEF TransferInv
<1>2. UNCHANGED <<away, parent, size, source, remote, asks, pc, loc, hindered>> /\ names' = [names EXCEPT ![Dest] = who]
  BY DEF TakesDest, others
<1>3. /\ names' \in [{Dest} \union Calls -> Int] /\ names'[Dest] = who
      /\ \A d \in Calls : names'[d] = names[d] /\ d # who
  BY <1>1, <1>2 DEF TransferTypes, TransferAssumption, Dest, Nobody, Other
<1>4. TransferTypes'
  BY <1>1, <1>2, <1>3 DEF TransferTypes
<1>5. \A d \in Calls : CallInv(d)'
  BY <1>1, <1>2, <1>3, Frame
<1> QED
  BY <1>4, <1>5 DEF TransferInv

LEMMA TTakesPartial ==
  ASSUME TransferInv, TransferAssumption, NEW c \in Calls, NEW who \in {Nobody, Other}, TakesPartial(c, who)
  PROVE  TransferInv'
<1>1. TransferTypes /\ \A d \in Calls : CallInv(d)
  BY DEF TransferInv
<1>2. UNCHANGED <<away, parent, size, source, remote, asks, pc, loc, hindered>> /\ names' = [names EXCEPT ![c] = who]
  BY DEF TakesPartial, others
<1>3. /\ names' \in [{Dest} \union Calls -> Int] /\ names'[c] = who /\ who # c /\ names'[Dest] = names[Dest]
      /\ \A d \in Calls \ {c} : names'[d] = names[d]
  BY <1>1, <1>2 DEF TransferTypes, TransferAssumption, Dest, Nobody, Other
<1>4. TransferTypes'
  BY <1>1, <1>2, <1>3 DEF TransferTypes
<1>5. \A d \in Calls \ {c} : CallInv(d)'
  BY <1>1, <1>2, <1>3, Frame
<1>6. Kinded(c)' /\ Body(c)' /\ Remote(c)' /\ SourceRead(c)'
  BY <1>1, <1>2 DEF CallInv, Kinded, Body, Remote, SourceRead, Complete
<1>7. Partial(c)' /\ Whole(c)' /\ Home(c)'
  BY <1>1, <1>2, <1>3 DEF CallInv, Partial, Whole, Home
<1> QED
  BY <1>4, <1>5, <1>6, <1>7 DEF TransferInv, CallInv

LEMMA TMovesParent ==
  ASSUME TransferInv, TransferAssumption, MovesParent
  PROVE  TransferInv'
<1>1. TransferTypes /\ \A d \in Calls : CallInv(d)
  BY DEF TransferInv
<1>2. /\ UNCHANGED <<size, source, remote, asks, pc, loc>> /\ names' = away /\ away' = names /\ parent' = 3 - parent
      /\ hindered' = hindered \union {c \in Calls : pc[c] \notin {"idle", "done"}}
  BY DEF MovesParent, others
<1>3. TransferTypes'
  <2>1. parent' \in {1, 2}
    BY <1>1, <1>2 DEF TransferTypes
  <2>2. hindered' \subseteq Calls
    BY <1>1, <1>2 DEF TransferTypes
  <2> QED
    BY <1>1, <1>2, <2>1, <2>2 DEF TransferTypes
<1>4. ASSUME NEW c \in Calls PROVE CallInv(c)'
  <2>1. Kinded(c)' /\ Body(c)' /\ Remote(c)' /\ SourceRead(c)'
    BY <1>1, <1>2 DEF CallInv, Kinded, Body, Remote, SourceRead, Complete
  <2>2. Partial(c)' /\ Whole(c)'
    BY <1>1, <1>2 DEF CallInv, Partial, Whole
  <2>3. pc[c] = "idle" => names[c] # c
    <3>1. pc[c] = "idle" => loc[c].owned = FALSE
      BY <1>1 DEF CallInv, Kinded
    <3> QED
      BY <1>1, <3>1 DEF CallInv, Partial
  <2>4. Home(c)'
    BY <1>1, <1>2, <2>3 DEF CallInv, Home, Writing
  <2> QED
    BY <2>1, <2>2, <2>4 DEF CallInv
<1> QED
  BY <1>3, <1>4 DEF TransferInv

(* A source is only ever written, or left behind, never restored. *)
LEMMA TChangesSource ==
  ASSUME TransferInv, TransferAssumption, ChangesSource
  PROVE  TransferInv'
<1>1. TransferTypes /\ \A d \in Calls : CallInv(d)
  BY DEF TransferInv
<1>2. UNCHANGED <<names, away, parent, size, remote, asks, pc, loc, hindered>>
  BY DEF ChangesSource, local, others
<1>3. /\ source' \in Seq(Nat) /\ source' # <<>>
      /\ \A i \in DOMAIN source : i \in DOMAIN source' /\ source[i] <= source'[i] /\ source[i] \in Nat /\ source'[i] \in Nat
  <2> DEFINE k == Len(source)
  <2>1. source \in Seq(Nat) /\ k \in Nat \ {0} /\ DOMAIN source = 1..k /\ source[k] \in Nat
    BY <1>1, Sources DEF TransferTypes
  <2>2. CASE source' = [source EXCEPT ![Len(source)] = @ + 1]
    BY <2>1, <2>2
  <2>3. CASE source' = Append(source, 0)
    BY <2>1, <2>3
  <2> QED
    BY <2>2, <2>3 DEF ChangesSource
<1>4. TransferTypes'
  BY <1>1, <1>2, <1>3 DEF TransferTypes
<1>5. ASSUME NEW c \in Calls PROVE CallInv(c)'
  <2>1. Kinded(c)' /\ Partial(c)' /\ Body(c)' /\ Whole(c)' /\ Home(c)' /\ Remote(c)'
    BY <1>1, <1>2 DEF CallInv, Kinded, Partial, Body, Whole, Home, Remote, Complete
  <2>2. loc[c].snap \in Nat \X Nat /\ loc[c].read \in SUBSET (Nat \X Nat)
    BY <1>1, Fields DEF TransferTypes
  <2>3. CASE pc[c] \in Uploading \ {"source"}
    <3> DEFINE i == loc[c].snap[1]
    <3>1. /\ i \in DOMAIN source /\ loc[c].snap[2] <= source[i]
          /\ \A r \in loc[c].read : r[1] = i /\ r[2] \in loc[c].snap[2]..source[i]
      BY <1>1, <2>3 DEF CallInv, SourceRead
    <3>2. i \in DOMAIN source' /\ source[i] <= source'[i] /\ source[i] \in Nat /\ source'[i] \in Nat /\ loc[c].snap[2] \in Nat
      BY <1>3, <2>2, <3>1
    <3>3. loc[c].snap[2] <= source'[i] /\ \A r \in loc[c].read : r[1] = i /\ r[2] \in loc[c].snap[2]..source'[i]
      BY <2>2, <3>1, <3>2
    <3> QED
      BY <1>1, <1>2, <2>1, <3>2, <3>3 DEF CallInv, SourceRead
  <2>4. CASE pc[c] \notin Uploading \ {"source"}
    BY <1>1, <1>2, <2>1, <2>4 DEF CallInv, SourceRead, Uploading
  <2> QED
    BY <2>3, <2>4
<1> QED
  BY <1>4, <1>5 DEF TransferInv

LEMMA TransferStutters ==
  ASSUME TransferInv, UNCHANGED vars
  PROVE  TransferInv'
<1>1. TransferTypes /\ \A d \in Calls : CallInv(d)
  BY DEF TransferInv
<1>2. TransferTypes'
  BY <1>1 DEF TransferTypes, vars
<1>3. \A d \in Calls : CallInv(d)'
  BY <1>1, Frame DEF vars
<1> QED
  BY <1>2, <1>3 DEF TransferInv

LEMMA TransferStep ==
  ASSUME TransferInv, TransferAssumption, Next
  PROVE  TransferInv'
<1>1. ASSUME NEW c \in Calls, Begin(c) \/ Client(c) \/ Receive(c) \/ Ended(c) \/ Creates(c) \/ Replies(c), asks' = asks
      PROVE  TransferInv'
  <2>1. CASE Download(c)
    BY <1>1, <2>1, TMetadata, TOpen, TCreate, TCreated, TFetch, TBroken, TSync, TPublish, TLink, TLinked DEF Download
  <2>2. CASE Upload(c)
    BY <1>1, <2>2, TOpenSource, TSameSource, TSend, TSent, TRejectEarly, TConnectionLost, TAnswered, TVerifyStable DEF Upload
  <2> QED
    BY <1>1, <2>1, <2>2, TBegin, TClose, TUnlink, TReceive, TEnded, TCreates, TReplies DEF Client
<1> QED
  BY <1>1, TTakesPartial, TTakesDest, TMovesParent, TChangesSource DEF Next

LEMMA TransferBegins ==
  ASSUME TransferAssumption, WaitsInit
  PROVE  TransferInv
<1>1. /\ names = [x \in {Dest} \union Calls |-> Nobody] /\ away = names /\ parent = 1
      /\ size = [c \in Calls |-> 0] /\ source = <<0>> /\ remote = {}
      /\ pc = [c \in Calls |-> "idle"] /\ loc = [c \in Calls |-> NoCall] /\ hindered = {}
      /\ asks \in Mixes \/ asks = <<>>
  BY DEF WaitsInit, Init, NoTransfer
<1>2. NoCall \in Local
  BY DEF NoCall, Local, Lens, Unknown
<1>3. \A c \in DOMAIN asks : asks[c] \in {"save", "download", "upload"}
  BY <1>1 DEF TransferAssumption
<1>4. source \in Seq(Nat) /\ source # <<>>
  BY <1>1
<1>5. TransferTypes
  BY <1>1, <1>2, <1>3, <1>4 DEF TransferTypes, Nobody, Dest
<1>6. ASSUME NEW c \in Calls PROVE CallInv(c)
  <2>1. pc[c] = "idle" /\ loc[c] = NoCall /\ names[c] = 0 /\ names[Dest] = 0 /\ away[c] = 0 /\ away[Dest] = 0 /\ c # 0 /\ size[c] = 0 /\ remote = {}
    BY <1>1 DEF Nobody, Dest, TransferAssumption
  <2>2. /\ NoCall.owned = FALSE /\ NoCall.answer = "none" /\ NoCall.n = 0 /\ NoCall.whole = FALSE /\ NoCall.read = {} /\ NoCall.kind = "none"
    BY DEF NoCall
  <2>3. Kinded(c) /\ Partial(c) /\ Body(c) /\ Whole(c) /\ Home(c)
    BY <2>1, <2>2 DEF Kinded, Partial, Body, Whole, Home, Over, Downloading, Uploading, Writing, Nobody, TransferAssumption
  <2>4. Remote(c) /\ SourceRead(c)
    BY <2>1, <2>2 DEF Remote, SourceRead, Uploading
  <2> QED
    BY <2>3, <2>4 DEF CallInv
<1> QED
  BY <1>5, <1>6 DEF TransferInv

(* Every transfer keeps its invariant, whatever others do to its directory, *)
(* its source and its file.                                                *)
THEOREM TransfersInvariant == Spec => []TransferInv
<1>1. WaitsInit => TransferInv
  BY TransferBegins, TransferAssumption
<1>2. TransferInv /\ [WaitsNext]_<<vars, gitVars>> => TransferInv'
  BY TransferStep, TransferStutters, TransferAssumption DEF WaitsNext
<1> QED
  BY <1>1, <1>2, PTL DEF Spec

(* What a download leaves is the whole file at its destination, or nothing *)
(* (local-file-target.ts:107-162).                                         *)
THEOREM DownloadsAreWhole == Spec => []DownloadsWhole
<1>1. TransferInv => DownloadsWhole
  <2>1. ASSUME TransferInv, NEW c \in Calls, names[Dest] = c
        PROVE  size[c] = loc[c].total /\ size[c] <= Limit /\ loc[c].expect \in {Unknown, size[c]}
    BY <2>1 DEF TransferInv, CallInv, Whole
  <2>2. ASSUME TransferInv, NEW c \in Calls \ hindered, pc[c] = "done" PROVE names[c] # c
    BY <2>2 DEF TransferInv, CallInv, Home
  <2> QED
    BY <2>1, <2>2 DEF DownloadsWhole, PublishedIsWhole, NothingLeft
<1> QED
  BY <1>1, TransfersInvariant, PTL

(* A failed upload that is not said to be ambiguous has left no remote     *)
(* file, and one that is reported done holds one version of its source     *)
(* (openai-files-client.ts:286-338, local-file-source.ts:82-96).           *)
THEOREM UploadsAreTruthful == Spec => []UploadsTruthful
<1>1. TransferInv => UploadsTruthful
  <2>1. ASSUME TransferInv, NEW c \in Calls, loc[c].kind = "upload", loc[c].answer = "failed", loc[c].sure,
               loc[c].reply \notin {"success", "long error"}
        PROVE  c \notin remote
    <3>1. loc[c].sure = TRUE /\ CallInv(c)
      BY <2>1, Fields DEF TransferInv, TransferTypes
    <3> QED
      BY <2>1, <3>1 DEF CallInv, Remote
  <2>2. ASSUME TransferInv, NEW c \in Calls, loc[c].answer = "uploaded" PROVE loc[c].read = {loc[c].snap}
    BY <2>2 DEF TransferInv, CallInv, SourceRead
  <2> QED
    BY <2>1, <2>2 DEF UploadsTruthful, SureMeansAbsent, UploadedIsSnapshot
<1> QED
  BY <1>1, TransfersInvariant, PTL

(* A step of a transfer never takes the destination from another file      *)
(* (local-file-target.ts:152).                                             *)
THEOREM DestinationIsKept == Spec => NeverOverwrites
<1> DEFINE Keeps == names[Dest] # Nobody /\ (\E c \in Calls : pc'[c] # pc[c]) => names'[Dest] = names[Dest]
<1>1. ASSUME TransferInv, Next PROVE Keeps
  <2>1. ASSUME NEW c \in Calls, Begin(c) \/ Client(c) \/ Receive(c) \/ Ended(c) \/ Creates(c) \/ Replies(c), names[Dest] # Nobody
        PROVE  names'[Dest] = names[Dest]
    <3>1. c # Dest
      BY TransferAssumption DEF TransferAssumption, Dest
    <3>2. CASE Create(c) \/ Unlink(c) \/ Link(c)
      BY <1>1, <2>1, <3>1, <3>2 DEF Create, Unlink, Link, TransferInv, TransferTypes, local, world
    <3>3. CASE Begin(c) \/ Metadata(c) \/ Open(c) \/ Created(c) \/ Fetch(c) \/ Broken(c) \/ Sync(c) \/ Publish(c) \/ Linked(c)
               \/ Receive(c) \/ Ended(c) \/ Close(c)
      BY <3>3 DEF Begin, Metadata, Open, Created, Fetch, Broken, Sync, Publish, Linked, Receive, Ended, Close, local, world
    <3>4. CASE Upload(c) \/ Creates(c) \/ Replies(c)
      BY <3>4 DEF Upload, OpenSource, SameSource, Send, Sent, RejectEarly, Rejects, ConnectionLost, Answered, VerifyStable,
                  Creates, Replies, local, world
    <3> QED
      BY <2>1, <3>2, <3>3, <3>4 DEF Client, Download
  <2>2. (\E who \in {Nobody, Other} : TakesDest(who) \/ \E c \in Calls : TakesPartial(c, who)) \/ MovesParent \/ ChangesSource => pc' = pc
    BY DEF TakesDest, TakesPartial, MovesParent, ChangesSource, others
  <2> QED
    BY <1>1, <2>1, <2>2 DEF Next
<1>2. TransferInv /\ [WaitsNext]_<<vars, gitVars>> => [Keeps]_vars
  BY <1>1 DEF WaitsNext, vars
<1> QED
  BY <1>2, TransfersInvariant, PTL DEF Spec, NeverOverwrites
-----------------------------------------------------------------------------
(* Child processes.                                                        *)

LEMMA LeastOf ==
  ASSUME NEW n \in Nat, NEW k \in Nat
  PROVE  Min({n, k}) \in Nat /\ Min({n, k}) <= n /\ Min({n, k}) <= k /\ Min({n, k}) \in {n, k}
<1>1. \E x \in {n, k} : \A y \in {n, k} : x <= y
  OBVIOUS
<1>2. Min({n, k}) \in {n, k} /\ \A y \in {n, k} : Min({n, k}) <= y
  BY <1>1 DEF Min
<1> QED
  BY <1>2

(* A stream is one of two. *)
LEMMA Counts ==
  ASSUME NEW p \in Pipes
  PROVE  /\ p.out \in Nat /\ p.err \in Nat /\ Total(p) = p.out + p.err
         /\ \A s \in {"out", "err"} : p[s] \in Nat
         /\ \A q \in Pipes : p.out = q.out /\ p.err = q.err => p = q
BY DEF Pipes, Total
Even(n) == (n \div 2) * 2
LEMMA EvenPart ==
  ASSUME NEW n \in Nat
  PROVE  Even(n) \in Nat /\ Even(n) <= n
BY DEF Even

(* There is room for no more than the limit leaves. *)
LEMMA Rooms ==
  ASSUME LimitAssumption, ChildTypes, Piped, NEW s \in {"out", "err"}, s \in Streams(kind) \/ unread[s] = 0
  PROVE  /\ Room(s) \in Nat
         /\ kind = "command" => Room(s) = MaxOutput - kept[s]
         /\ kind \in Capped \ {"command"} => Room(s) <= MaxOutput - Total(kept)
         /\ kind = "probe" => Room(s) = MaxOutput - Total(kept)
         /\ kind \notin Capped => Room(s) = unread[s]
<1>1. kept \in Pipes /\ unread \in Pipes /\ MaxOutput \in Nat /\ kept[s] \in Nat /\ unread[s] \in Nat /\ Total(kept) \in Nat
  BY Counts DEF ChildTypes, LimitAssumption
<1>2. CASE kind = "command"
  <2>1. kept[s] <= MaxOutput
    BY <1>2 DEF Piped
  <2> QED
    BY <1>1, <1>2, <2>1 DEF Room, Capped
<1>3. CASE kind \in {"test", "probe"}
  <2>1. Total(kept) <= MaxOutput
    BY <1>3 DEF Piped, Capped
  <2> QED
    BY <1>1, <1>3, <2>1 DEF Room, Capped
<1>4. CASE kind = "git"
  <2>1. Total(kept) <= MaxOutput
    BY <1>4 DEF Piped, Capped
  <2>2. Room(s) = Even(MaxOutput - Total(kept))
    BY <1>4 DEF Room, Even
  <2>3. MaxOutput - Total(kept) \in Nat
    BY <1>1, <2>1
  <2> QED
    BY <1>4, <2>2, <2>3, EvenPart DEF Capped
<1>5. CASE kind \notin Capped
  BY <1>1, <1>5 DEF Room, Capped
<1> QED
  BY <1>2, <1>3, <1>4, <1>5 DEF Capped

There == [s \in {"out", "err"} |-> IF s \in Streams(kind) THEN written[s] ELSE 0]

LEMMA StreamsAre ==
  Streams(kind) \subseteq {"out", "err"} /\ "out" \in Streams(kind) /\ (kind \in {"command", "test", "git"} => "err" \in Streams(kind))
BY DEF Streams

LEMMA ChildFields ==
  ASSUME ChildTypes
  PROVE  /\ child.is \in {"none", "running", "failed", "exited"} /\ child.code \in {0, 1, -1}
         /\ heir.is \in {"none", "running", "exited"} /\ heir.inside \in BOOLEAN /\ heir.holds \in BOOLEAN
         /\ \A s \in {"out", "err"} : written[s] \in Nat /\ unread[s] \in Nat /\ kept[s] \in Nat
BY Counts DEF ChildTypes

(* A call that has been answered has no child that runs, or none at all. *)
LEMMA AnsweredLast ==
  ASSUME Hows, AnswerTruthful, child.is \in {"none", "running"}
  PROVE  answer = {}
BY DEF Hows, AnswerTruthful

LEMMA Unanswered ==
  ASSUME answer' = {}
  PROVE  Hows' /\ AnswerTruthful'
BY DEF Hows, AnswerTruthful

(* What was answered stays so while those that are left behind end. *)
LEMMA AnswerKept ==
  ASSUME ChildTypes, Hows, AnswerTruthful, UNCHANGED <<kind, platform, written, answer, timedOut>>,
         child.is # "running" => child' = child,
         heir'.is = "running" => heir.is = "running", heir'.inside = heir.inside, heir'.holds = heir.holds
  PROVE  Hows' /\ AnswerTruthful'
<1>1. CASE answer = {}
  BY <1>1, Unanswered
<1>2. CASE answer # {}
  <2>1. child' = child /\ child.is # "running"
    BY <1>2, AnsweredLast, ChildFields
  <2>2. Holding' => Holding
    BY <2>1 DEF Holding
  <2>3. Hows'
    BY DEF Hows
  <2> QED
    BY <2>1, <2>2, <2>3 DEF AnswerTruthful, Streams, Total
<1> QED
  BY <1>1, <1>2

LEMMA PipedKept ==
  ASSUME Piped, UNCHANGED <<kind, written, unread, kept, truncated>>
  PROVE  Piped'
BY DEF Piped, Streams, Total, Unlost

(* Steps that change neither what is in the pipes nor who is there, or end *)
(* some who are.                                                           *)
LEMMA PeopleStep ==
  ASSUME ChildInv, UNCHANGED <<kind, platform, written, unread, kept, truncated, answer>>,
         child' = child \/ (child.is = "running" /\ child' \in [is : {"exited"}, code : {0, 1, -1}]),
         heir' = heir \/ (heir.is = "running" /\ heir' = [heir EXCEPT !.is = "exited"]),
         timedOut' = timedOut
  PROVE  ChildInv'
<1>1. ChildTypes /\ Piped /\ GroupEnded /\ Hows /\ AnswerTruthful
  BY DEF ChildInv
<1>2. /\ heir' \in [is : {"none", "running", "exited"}, inside : BOOLEAN, holds : BOOLEAN]
      /\ heir'.is = "running" => heir.is = "running"
      /\ heir.is = "none" => heir'.is = "none"
      /\ heir'.inside = heir.inside /\ heir'.holds = heir.holds
  BY <1>1 DEF ChildTypes
<1>3. ChildTypes'
  <2>1. child' \in [is : {"none", "running", "failed", "exited"}, code : {0, 1, -1}]
    BY <1>1 DEF ChildTypes
  <2> QED
    BY <1>1, <1>2, <2>1 DEF ChildTypes
<1>4. (child'.is = "running" => child.is = "running") /\ (child'.is \in {"none", "failed"} => child.is \in {"none", "failed"})
  OBVIOUS
<1>5. GroupEnded'
  BY <1>1, <1>2, <1>4 DEF GroupEnded
<1>6. Hows' /\ AnswerTruthful'
  BY <1>1, <1>2, AnswerKept
<1> QED
  BY <1>1, <1>3, <1>5, <1>6, PipedKept DEF ChildInv

LEMMA FreshChild ==
  ASSUME LimitAssumption, child'.is # "exited", child' \in [is : {"none", "running", "failed"}, code : {0}],
         heir' = [is |-> "none", inside |-> TRUE, holds |-> TRUE], timedOut' = FALSE,
         written' = Nothing, unread' = Nothing, kept' = Nothing, truncated' = FALSE, answer' = {}
  PROVE  ChildInv'
<1>1. Nothing \in Pipes /\ Nothing.out = 0 /\ Nothing.err = 0 /\ Nothing["out"] = 0 /\ Nothing["err"] = 0 /\ Total(Nothing) = 0
  BY DEF Nothing, Pipes, Total
<1>2. ChildTypes'
  BY <1>1 DEF ChildTypes
<1>3. Piped'
  BY <1>1 DEF Piped, Streams, Unlost, LimitAssumption
<1>4. GroupEnded'
  BY DEF GroupEnded
<1> QED
  BY <1>2, <1>3, <1>4, Unanswered DEF ChildInv

LEMMA CSpawn ==
  ASSUME LimitAssumption, NEW k, Spawn(k)
  PROVE  ChildInv'
<1>1. child' \in [is : {"none", "running", "failed"}, code : {0}] /\ child'.is # "exited"
  BY DEF Spawn
<1> QED
  BY <1>1, FreshChild DEF Spawn, Forgotten

(* What is written waits in the pipe, if it is one. *)
LEMMA Wrote ==
  ASSUME ChildInv, NEW s \in {"out", "err"}, answer = {}, Holding,
         written' = [written EXCEPT ![s] = @ + 2],
         unread' = IF s \in Streams(kind) THEN [unread EXCEPT ![s] = @ + 2] ELSE unread,
         UNCHANGED <<platform, kind, child, heir, timedOut, kept, truncated, answer>>
  PROVE  ChildInv'
<1>1. ChildTypes /\ Piped /\ GroupEnded
  BY DEF ChildInv
<1>2. /\ written' \in Pipes /\ written'[s] = written[s] + 2
      /\ \A t \in {"out", "err"} \ {s} : written'[t] = written[t]
  <2> DEFINE v == written[s] + 2
  <2>1. v \in Nat /\ written' = [written EXCEPT ![s] = v]
    BY <1>1, ChildFields
  <2> HIDE DEF v
  <2>2. written' \in Pipes /\ written'[s] = v /\ \A t \in {"out", "err"} \ {s} : written'[t] = written[t]
    BY <1>1, <2>1 DEF ChildTypes, Pipes
  <2> QED
    BY <2>2 DEF v
<1>3. /\ unread' \in Pipes /\ unread'[s] = IF s \in Streams(kind) THEN unread[s] + 2 ELSE unread[s]
      /\ \A t \in {"out", "err"} \ {s} : unread'[t] = unread[t]
  <2> DEFINE v == unread[s] + 2
  <2>1. v \in Nat /\ unread' = IF s \in Streams(kind) THEN [unread EXCEPT ![s] = v] ELSE unread
    BY <1>1, ChildFields
  <2> HIDE DEF v
  <2>2. CASE s \in Streams(kind)
    <3>1. unread' \in Pipes /\ unread'[s] = v /\ \A t \in {"out", "err"} \ {s} : unread'[t] = unread[t]
      BY <1>1, <2>1, <2>2 DEF ChildTypes, Pipes
    <3> QED
      BY <2>2, <3>1 DEF v
  <2>3. CASE s \notin Streams(kind)
    BY <1>1, <2>1, <2>3 DEF ChildTypes
  <2> QED
    BY <2>2, <2>3
<1>4. ChildTypes'
  BY <1>1, <1>2, <1>3 DEF ChildTypes
<1>5. Piped'
  <2>1. \A t \in {"out", "err"} : IF t \in Streams(kind) THEN kept[t] + unread'[t] <= written'[t] ELSE kept[t] = 0 /\ unread'[t] = 0
    BY <1>1, <1>2, <1>3, ChildFields DEF Piped
  <2>2. \A t \in Streams(kind) : (kept[t] + unread'[t] = written'[t]) <=> (kept[t] + unread[t] = written[t])
    BY <1>1, <1>2, <1>3, ChildFields, StreamsAre
  <2> QED
    BY <1>1, <2>1, <2>2 DEF Piped, Streams, Unlost, Total
<1>6. GroupEnded'
  <2>1. child.is \notin {"none", "failed"}
    BY <1>1 DEF GroupEnded, Holding
  <2> QED
    BY <1>1, <2>1 DEF GroupEnded
<1> QED
  BY <1>4, <1>5, <1>6, Unanswered DEF ChildInv

(* What is read is kept as far as there is room, and counted as lost       *)
(* beyond it.                                                              *)
LEMMA CData ==
  ASSUME LimitAssumption, ChildInv, NEW s \in {"out", "err"}, Data(s)
  PROVE  ChildInv'
<1>1. ChildTypes /\ Piped /\ GroupEnded
  BY DEF ChildInv
<1>2. PICK n \in 1..unread[s] :
        /\ unread' = [unread EXCEPT ![s] = @ - n]
        /\ kept' = [kept EXCEPT ![s] = @ + Min({n, Room(s)})]
        /\ truncated' = (truncated \/ Min({n, Room(s)}) < n)
  BY DEF Data
<1>3. n \in Nat \ {0} /\ n <= unread[s] /\ unread[s] \in Nat /\ kept[s] \in Nat /\ written[s] \in Nat /\ s \in Streams(kind)
  BY <1>1, <1>2, ChildFields DEF Piped
<1> DEFINE got == Min({n, Room(s)})
<1>4. /\ got \in Nat /\ got <= n /\ got <= Room(s) /\ got \in {n, Room(s)} /\ Room(s) \in Nat
      /\ kind = "command" => Room(s) = MaxOutput - kept[s]
      /\ kind \in Capped \ {"command"} => Room(s) <= MaxOutput - Total(kept)
      /\ kind = "probe" => Room(s) = MaxOutput - Total(kept)
      /\ kind \notin Capped => Room(s) = unread[s]
  BY <1>1, <1>3, LeastOf, Rooms
<1> DEFINE lost == got < n
<1>5. kept' = [kept EXCEPT ![s] = @ + got] /\ truncated' = (truncated \/ lost)
  BY <1>2
<1>5a. (lost => truncated' = TRUE) /\ (~lost => truncated' = truncated)
  <2>1. truncated \in BOOLEAN /\ lost \in BOOLEAN
    BY <1>1 DEF ChildTypes
  <2> HIDE DEF lost
  <2> QED
    BY <1>5, <2>1
<1>5b. (got < n => truncated' = TRUE) /\ (got = n => truncated' = truncated) /\ truncated' \in BOOLEAN
  <2>1. (got < n <=> lost) /\ (got = n => ~lost)
    BY <1>3
  <2>2. truncated \in BOOLEAN
    BY <1>1 DEF ChildTypes
  <2>3. truncated' = TRUE \/ truncated' = truncated
    BY <1>5a
  <2> HIDE DEF got, lost
  <2> QED
    BY <1>5a, <2>1, <2>2, <2>3
<1> HIDE DEF got, lost
<1>6. /\ unread' \in Pipes /\ unread'[s] = unread[s] - n
      /\ \A t \in {"out", "err"} \ {s} : unread'[t] = unread[t]
  <2> DEFINE v == unread[s] - n
  <2>1. v \in Nat /\ unread' = [unread EXCEPT ![s] = v]
    BY <1>1, <1>2, <1>3
  <2> HIDE DEF v
  <2>2. unread' \in Pipes /\ unread'[s] = v /\ \A t \in {"out", "err"} \ {s} : unread'[t] = unread[t]
    BY <1>1, <2>1 DEF ChildTypes, Pipes
  <2> QED
    BY <2>2 DEF v
<1>7. /\ kept' \in Pipes /\ kept'[s] = kept[s] + got
      /\ \A t \in {"out", "err"} \ {s} : kept'[t] = kept[t]
  <2> DEFINE v == kept[s] + got
  <2>1. v \in Nat /\ kept' = [kept EXCEPT ![s] = v]
    BY <1>1, <1>3, <1>4, <1>5
  <2> HIDE DEF v
  <2>2. kept' \in Pipes /\ kept'[s] = v /\ \A t \in {"out", "err"} \ {s} : kept'[t] = kept[t]
    BY <1>1, <2>1 DEF ChildTypes, Pipes
  <2> QED
    BY <2>2 DEF v
<1>8. Total(kept') = Total(kept) + got /\ Total(kept) \in Nat
  BY <1>1, <1>3, <1>4, <1>7, Counts DEF ChildTypes
<1>9. UNCHANGED <<platform, kind, child, heir, timedOut, written, answer>> /\ answer = {}
  BY DEF Data
<1>10. ChildTypes'
  BY <1>1, <1>5b, <1>6, <1>7, <1>9 DEF ChildTypes
<1>11. Piped'
  <2>1. \A t \in {"out", "err"} : IF t \in Streams(kind) THEN kept'[t] + unread'[t] <= written[t] ELSE kept'[t] = 0 /\ unread'[t] = 0
    BY <1>1, <1>3, <1>4, <1>6, <1>7, ChildFields DEF Piped
  <2>2. truncated' <=> \E t \in Streams(kind) : kept'[t] + unread'[t] # written[t]
    <3>1. \A t \in Streams(kind) \ {s} : kept'[t] + unread'[t] = kept[t] + unread[t]
      BY <1>6, <1>7, StreamsAre
    <3>2. kept'[s] + unread'[s] = (kept[s] + unread[s]) - (n - got) /\ kept[s] + unread[s] <= written[s]
      BY <1>1, <1>3, <1>4, <1>6, <1>7 DEF Piped
    <3>3. truncated <=> \E t \in Streams(kind) : kept[t] + unread[t] # written[t]
      BY <1>1 DEF Piped, Unlost
    <3>4. CASE got < n
      BY <1>3, <1>4, <1>5b, <3>2, <3>4
    <3>5. CASE got = n
      <4>1. truncated' = truncated
        BY <1>5b, <3>5
      <4>2. kept'[s] + unread'[s] = kept[s] + unread[s]
        BY <1>3, <3>2, <3>5
      <4> QED
        BY <3>1, <3>3, <4>1, <4>2
    <3> QED
      BY <1>3, <1>4, <3>4, <3>5
  <2>3. kind = "command" => kept'.out <= MaxOutput /\ kept'.err <= MaxOutput
    <3>1. kind = "command" => kept'[s] <= MaxOutput
      BY <1>3, <1>4, <1>7 DEF LimitAssumption
    <3> QED
      BY <1>1, <1>7, <3>1 DEF Piped
  <2>4. kind \in Capped \ {"command"} => Total(kept') <= MaxOutput
    BY <1>4, <1>8 DEF LimitAssumption
  <2>5. kind \notin Capped => truncated' = FALSE
    <3>1. kind \notin Capped => got = n
      BY <1>3, <1>4
    <3> QED
      BY <1>1, <1>3, <1>5b, <3>1 DEF Piped
  <2>6. kind = "probe" /\ truncated' = TRUE => Total(kept') = MaxOutput
    <3>1. CASE kind = "probe" /\ got < n
      BY <1>3, <1>4, <1>8, <3>1 DEF LimitAssumption
    <3>2. CASE kind = "probe" /\ got = n
      <4>1. truncated' = truncated
        BY <1>5b, <3>2
      <4>2. truncated = TRUE => Total(kept) = MaxOutput
        BY <1>1, <3>2 DEF Piped
      <4> QED
        BY <1>3, <1>4, <1>8, <3>2, <4>1, <4>2 DEF LimitAssumption
    <3> QED
      BY <1>3, <1>4, <3>1, <3>2
  <2>7. Streams(kind') = Streams(kind) /\ kind' = kind /\ written' = written
    BY <1>9
  <2> QED
    BY <1>9, <2>1, <2>2, <2>3, <2>4, <2>5, <2>6 DEF Piped, Streams, Unlost
<1>12. GroupEnded'
  BY <1>1, <1>9 DEF GroupEnded
<1> QED
  BY <1>9, <1>10, <1>11, <1>12, Unanswered DEF ChildInv

LEMMA Killing ==
  ASSUME ChildTypes
  PROVE  /\ ChildKilled = child \/ (child.is = "running" /\ ChildKilled \in [is : {"exited"}, code : {0, 1, -1}])
         /\ ChildKilled.is # "running"
         /\ Killed(heir) = heir \/ (heir.is = "running" /\ Killed(heir) = [heir EXCEPT !.is = "exited"])
         /\ Killed(heir).is # "running"
<1>1. child.is = "running" => ChildKilled = [is |-> "exited", code |-> -1]
  BY DEF ChildKilled, Exits
<1>2. child.is # "running" => ChildKilled = child
  BY DEF ChildKilled
<1>3. heir.is = "running" => Killed(heir) = [heir EXCEPT !.is = "exited"] /\ Killed(heir).is = "exited"
  BY DEF Killed, ChildTypes
<1>4. heir.is # "running" => Killed(heir) = heir
  BY DEF Killed
<1> QED
  BY <1>1, <1>2, <1>3, <1>4

(* A time-out ends the group where there is one, and the child alone       *)
(* otherwise, now or when taskkill has looked for it.                      *)
LEMMA CTimeout ==
  ASSUME ChildInv, Timeout
  PROVE  ChildInv'
<1>1. ChildTypes /\ Piped /\ GroupEnded /\ Hows /\ AnswerTruthful
  BY DEF ChildInv
<1>2. /\ answer = {} /\ child.is # "failed" /\ timedOut' = TRUE
      /\ UNCHANGED <<platform, kind, written, unread, kept, truncated, answer>>
  BY DEF Timeout
<1>3. /\ child' = child \/ (child.is = "running" /\ child' \in [is : {"exited"}, code : {0, 1, -1}])
      /\ heir' = heir \/ (heir.is = "running" /\ heir' = [heir EXCEPT !.is = "exited"])
  BY <1>1, Killing DEF Timeout, KillGroup
<1>4. platform = "posix" /\ kind \in Detached => child'.is # "running" /\ ~(heir'.is = "running" /\ heir'.inside = TRUE)
  <2>1. ASSUME platform = "posix", kind \in Detached PROVE KillGroup
    BY <2>1 DEF Timeout, Detached
  <2>2. ASSUME KillGroup, kind \in Detached, heir'.is = "running", heir'.inside = TRUE PROVE FALSE
    <3>1. CASE heir' = heir
      <4>1. heir.is = "running" /\ heir.inside
        BY <2>2, <3>1
      <4>2. InGroup
        BY <2>2, <4>1 DEF InGroup
      <4> QED
        BY <1>1, <2>2, <4>1, <4>2, Killing DEF KillGroup
    <3>2. CASE heir' = [heir EXCEPT !.is = "exited"]
      BY <1>1, <2>2, <3>2 DEF ChildTypes
    <3> QED
      BY <1>3, <3>1, <3>2
  <2>3. ASSUME KillGroup PROVE child'.is # "running"
    BY <1>1, <2>3, Killing DEF KillGroup
  <2> QED
    BY <2>1, <2>2, <2>3
<1>5. /\ heir' \in [is : {"none", "running", "exited"}, inside : BOOLEAN, holds : BOOLEAN]
      /\ heir.is = "none" => heir'.is = "none"
  BY <1>1, <1>3 DEF ChildTypes
<1>6. ChildTypes'
  <2>1. child' \in [is : {"none", "running", "failed", "exited"}, code : {0, 1, -1}]
    BY <1>1, <1>3 DEF ChildTypes
  <2> QED
    BY <1>1, <1>2, <1>5, <2>1 DEF ChildTypes
<1>7. GroupEnded'
  <2>1. child'.is \in {"none", "failed"} => child.is \in {"none", "failed"}
    BY <1>3
  <2> QED
    BY <1>1, <1>2, <1>4, <1>5, <2>1 DEF GroupEnded
<1> QED
  BY <1>1, <1>2, <1>6, <1>7, PipedKept, Unanswered DEF ChildInv

LEMMA CTaskkill ==
  ASSUME ChildInv, TaskkillEnds \/ TaskkillFails
  PROVE  ChildInv'
<1>1. ChildTypes
  BY DEF ChildInv
<1>2. /\ child' = ChildKilled /\ heir' \in {heir, Killed(heir)}
      /\ UNCHANGED <<platform, kind, timedOut, written, unread, kept, truncated, answer>>
  BY DEF TaskkillEnds, TaskkillFails
<1> QED
  BY <1>1, <1>2, Killing, PeopleStep

LEMMA CStartHeir ==
  ASSUME ChildInv, StartHeir
  PROVE  ChildInv'
<1>1. ChildTypes /\ Piped /\ GroupEnded /\ Hows /\ AnswerTruthful
  BY DEF ChildInv
<1>2. /\ child.is = "running" /\ heir' \in [is : {"running"}, inside : BOOLEAN, holds : BOOLEAN]
      /\ UNCHANGED <<platform, kind, child, timedOut, written, unread, kept, truncated, answer>>
  BY DEF StartHeir
<1>3. answer = {}
  BY <1>1, <1>2, AnsweredLast
<1>4. ChildTypes'
  <2>1. heir' \in [is : {"none", "running", "exited"}, inside : BOOLEAN, holds : BOOLEAN]
    BY <1>2
  <2> QED
    BY <1>1, <1>2, <2>1 DEF ChildTypes
<1>5. GroupEnded'
  BY <1>1, <1>2 DEF GroupEnded
<1> QED
  BY <1>1, <1>2, <1>3, <1>4, <1>5, PipedKept, Unanswered DEF ChildInv

LEMMA CEnd ==
  ASSUME ChildInv, HeirExits \/ \E code \in {0, 1, -1} : ChildExits(code)
  PROVE  ChildInv'
<1>1. CASE HeirExits
  BY <1>1, PeopleStep DEF HeirExits
<1>2. ASSUME NEW code \in {0, 1, -1}, ChildExits(code) PROVE ChildInv'
  <2>1. child.is = "running" /\ child' \in [is : {"exited"}, code : {0, 1, -1}]
    BY <1>2 DEF ChildExits, Exits
  <2> QED
    BY <1>2, <2>1, PeopleStep DEF ChildExits
<1> QED
  BY <1>1, <1>2

LEMMA CError ==
  ASSUME ChildInv, Error
  PROVE  ChildInv'
<1>1. ChildTypes /\ Piped /\ GroupEnded
  BY DEF ChildInv
<1> DEFINE a == Answer("error", IF kind = "command" THEN -1 ELSE 1, Nothing, FALSE, FALSE)
<1>2. /\ answer' = {a} /\ child.is = "failed"
      /\ UNCHANGED <<platform, kind, child, heir, timedOut, written, unread, kept, truncated>>
  BY DEF Error
<1>3. a.how = "error" /\ a.code # 0
  BY DEF Answer
<1> HIDE DEF a
<1>4. Hows' /\ AnswerTruthful'
  BY <1>1, <1>2, <1>3 DEF Hows, AnswerTruthful, GroupEnded
<1>5. ChildTypes' /\ GroupEnded'
  BY <1>1, <1>2 DEF ChildTypes, GroupEnded
<1> QED
  BY <1>1, <1>2, <1>4, <1>5, PipedKept DEF ChildInv

(* The end of the child, of everyone who holds the pipes, and of what was  *)
(* in them, makes an answer that has all of it.                            *)
LEMMA CClosed ==
  ASSUME ChildInv, Closed
  PROVE  ChildInv'
<1> DEFINE got == IF kind = "names" /\ child.code # 0 THEN Nothing ELSE kept
           late == timedOut /\ kind \in {"command", "test", "git"}
           a == Answer("close", Code(child.code), got, truncated, late)
<1>1. ChildTypes /\ Piped /\ GroupEnded
  BY DEF ChildInv
<1>2. /\ answer' = {a} /\ child.is = "exited" /\ ~Holding /\ unread = Nothing
      /\ UNCHANGED <<platform, kind, child, heir, timedOut, written, unread, kept, truncated>>
  BY DEF Closed
<1>3. a.how = "close" /\ a.code = Code(child.code) /\ a.got = got /\ a.truncated = truncated /\ a.timedOut = late
  BY DEF Answer
<1> HIDE DEF a
<1>4. /\ got \in Pipes /\ \A s \in {"out", "err"} : got[s] <= kept[s]
      /\ kind # "names" \/ child.code = 0 => got = kept
      /\ Total(got) <= Total(kept) /\ got.out <= kept.out /\ got.err <= kept.err
  <2>1. Nothing \in Pipes /\ Nothing.out = 0 /\ Nothing.err = 0
    BY DEF Nothing, Pipes
  <2> QED
    BY <1>1, <2>1, Counts DEF ChildTypes
<1> HIDE DEF got
<1>5. There \in Pipes /\ \A s \in {"out", "err"} : There[s] = IF s \in Streams(kind) THEN written[s] ELSE 0
  BY <1>1, ChildFields DEF There, Pipes
<1>6. \A s \in {"out", "err"} : unread[s] = 0 /\ kept[s] <= There[s] /\ (kept[s] = There[s] <=> (s \in Streams(kind) => Unlost(s)))
  BY <1>1, <1>2, <1>5, ChildFields DEF Nothing, Piped, Unlost
<1>7. kept = There <=> ~truncated
  <2>1. kept = There <=> \A s \in {"out", "err"} : kept[s] = There[s]
    BY <1>1, <1>5, Counts DEF ChildTypes
  <2>2. ~truncated <=> \A s \in Streams(kind) : Unlost(s)
    BY <1>1 DEF Piped
  <2> QED
    BY <1>6, <2>1, <2>2, StreamsAre
<1>8. \A s \in {"out", "err"} : got[s] <= There[s]
  BY <1>1, <1>4, <1>5, <1>6, ChildFields, Counts
<1>9. /\ Code(child.code) = child.code \/ (child.code = -1 /\ Code(child.code) = 1 /\ kind \notin {"test", "command"})
      /\ Code(child.code) = 0 => child.code = 0
  BY DEF Code
<1>10. late => timedOut = TRUE /\ kind \in Detached
  BY <1>1 DEF ChildTypes, Detached
<1> HIDE DEF late
<1>11. /\ kind = "command" => got.out <= MaxOutput /\ got.err <= MaxOutput
       /\ kind \in Capped \ {"command"} => Total(got) <= MaxOutput
  <2>1. LimitAssumption
    BY LimitAssumption
  <2>2. got.out \in Nat /\ got.err \in Nat /\ kept.out \in Nat /\ kept.err \in Nat /\ Total(got) \in Nat /\ Total(kept) \in Nat
    BY <1>1, <1>4, Counts DEF ChildTypes
  <2> QED
    BY <1>1, <1>4, <2>1, <2>2 DEF Piped, LimitAssumption
<1>12. /\ kind \in Flagged => (a.truncated <=> got # There)
       /\ kind \in {"files", "archive"} \/ (kind = "names" /\ a.code = 0) => got = There
       /\ kind = "probe" /\ got # There => Total(got) = MaxOutput
  <2>1. truncated \in BOOLEAN
    BY <1>1 DEF ChildTypes
  <2>2. ASSUME kind \in Flagged PROVE a.truncated <=> got # There
    BY <1>3, <1>4, <1>7, <2>1, <2>2 DEF Flagged
  <2>3. ASSUME kind \in {"files", "archive"} \/ (kind = "names" /\ a.code = 0) PROVE got = There
    BY <1>1, <1>3, <1>4, <1>7, <1>9, <2>3 DEF Piped, Capped
  <2>4. ASSUME kind = "probe", got # There PROVE Total(got) = MaxOutput
    BY <1>1, <1>4, <1>7, <2>1, <2>4 DEF Piped
  <2> QED
    BY <2>2, <2>3, <2>4
<1>13. a.timedOut => timedOut /\ (platform = "posix" => ~(heir.is = "running" /\ heir.inside))
  <2>1. heir.inside \in BOOLEAN
    BY <1>1, ChildFields
  <2> QED
    BY <1>1, <1>3, <1>10, <2>1 DEF GroupEnded
<1>14. AnswerTruthful'
  <2>1. There = [s \in {"out", "err"} |-> IF s \in Streams(kind) THEN written[s] ELSE 0]
    BY DEF There
  <2>2. child' = child /\ kind' = kind /\ written' = written /\ heir' = heir /\ timedOut' = timedOut /\ platform' = platform
    BY <1>2
  <2>3. ~Holding' /\ Streams(kind)' = Streams(kind)
    BY <1>2, <2>2 DEF Holding, Streams
  <2>4. a.how # "error"
    BY <1>3
  <2>5. a.code = child.code \/ (child.code = -1 /\ a.code = 1 /\ kind \notin {"test", "command"})
    BY <1>3, <1>9
  <2>6. a.code = 0 => child.code = 0
    BY <1>3, <1>9
  <2> QED
    BY <1>2, <1>3, <1>8, <1>11, <1>12, <1>13, <2>1, <2>2, <2>3, <2>4, <2>5, <2>6 DEF AnswerTruthful
<1>15. Hows'
  BY <1>2, <1>3 DEF Hows
<1>16. ChildTypes' /\ GroupEnded'
  BY <1>1, <1>2 DEF ChildTypes, GroupEnded
<1> QED
  BY <1>1, <1>2, <1>14, <1>15, <1>16, PipedKept DEF ChildInv

LEMMA CHandlers ==
  ASSUME LimitAssumption, ChildInv, Handlers
  PROVE  ChildInv'
BY CData, CTaskkill, CError, CClosed DEF Handlers

LEMMA CStutters ==
  ASSUME ChildInv, UNCHANGED <<platform, kind, child, heir, timedOut, written, unread, kept, truncated, answer>>
  PROVE  ChildInv'
<1>1. ChildTypes /\ Piped /\ GroupEnded /\ Hows /\ AnswerTruthful
  BY DEF ChildInv
<1>2. ChildTypes' /\ GroupEnded'
  BY <1>1 DEF ChildTypes, GroupEnded
<1>3. Hows' /\ AnswerTruthful'
  BY <1>1, AnswerKept
<1> QED
  BY <1>1, <1>2, <1>3, PipedKept DEF ChildInv

(* Whatever tool runs the child, its steps keep what is said of children. *)
LEMMA GitChild ==
  ASSUME LimitAssumption, ChildInv, GitNext
  PROVE  ChildInv'
<1>1. CASE Launch
  <2>1. PICK k : Spawn(k)
    BY <1>1 DEF Launch
  <2> QED
    BY <2>1, CSpawn
<1>2. CASE Decide
  <2>1. CASE told' = ""
    <3>1. child' = [is |-> "none", code |-> 0] /\ Forgotten
      BY <1>2, <2>1 DEF Decide
    <3> QED
      BY <3>1, FreshChild DEF Forgotten
  <2>2. CASE told' # ""
    BY <1>2, <2>2, CStutters DEF Decide
  <2> QED
    BY <2>1, <2>2
<1>3. CASE Works
  <2>1. ChildTypes /\ Hows /\ AnswerTruthful /\ child.is = "running" /\ kind = "git"
    BY <1>3 DEF ChildInv, Works
  <2>2. answer = {} /\ Holding
    BY <2>1, AnsweredLast DEF Holding
  <2>3. CASE Says
    <3>1. /\ written' = [written EXCEPT !["out"] = @ + 2] /\ unread' = [unread EXCEPT !["out"] = @ + 2]
          /\ UNCHANGED <<platform, kind, child, heir, timedOut, kept, truncated, answer>>
      BY <1>3, <2>3 DEF Works
    <3>2. "out" \in Streams(kind)
      BY StreamsAre
    <3> QED
      BY <2>2, <3>1, <3>2, Wrote
  <2>4. CASE ~Says
    BY <1>3, <2>4, CStutters DEF Works
  <2> QED
    BY <2>3, <2>4
<1>4. CASE ChildEnds
  BY <1>4, CEnd DEF ChildEnds
<1>5. CASE Writes
  <2>1. PICK s \in {"out", "err"} : Write(s)
    BY <1>5 DEF Writes
  <2> QED
    BY <2>1, Wrote DEF Write
<1>6. CASE Others
  BY <1>6, CStutters DEF Others, childVars
<1> QED
  BY <1>1, <1>2, <1>3, <1>4, <1>5, <1>6, CHandlers, CTimeout, CStartHeir, CEnd DEF GitNext

(* What is said of children holds of every child of every tool.            *)
THEOREM ChildrenInvariant == Spec => []ChildInv
<1>1. WaitsInit => ChildInv
  <2>1. ChildInit => ChildInv
    <3> SUFFICES ASSUME ChildInit PROVE ChildInv
      OBVIOUS
    <3>1. child.is = "none" /\ kind = "git" /\ child.code = 0 /\ heir.is = "none" /\ heir.inside = TRUE /\ heir.holds = TRUE
      BY DEF ChildInit
    <3>2. \A s \in {"out", "err"} : written[s] = 0 /\ unread[s] = 0 /\ kept[s] = 0
      BY DEF ChildInit, Nothing
    <3>3. ChildTypes
      BY DEF ChildInit, ChildTypes, Pipes, Nothing
    <3>4. GroupEnded /\ Hows /\ AnswerTruthful
      BY <3>1 DEF ChildInit, GroupEnded, Hows, AnswerTruthful
    <3>5. Piped
      <4>1. Total(kept) = 0 /\ kept.out = 0 /\ kept.err = 0
        BY <3>2 DEF Total
      <4>2. \A s \in {"out", "err"} : Unlost(s)
        BY <3>2 DEF Unlost
      <4>3. truncated = FALSE /\ 0 <= MaxOutput
        BY LimitAssumption DEF ChildInit, LimitAssumption
      <4> QED
        BY <3>1, <3>2, <4>1, <4>2, <4>3, StreamsAre DEF Piped
    <3> QED
      BY <3>3, <3>4, <3>5 DEF ChildInv
  <2> QED
    BY <2>1 DEF WaitsInit, NoChild, GitInit
<1>2. ChildInv /\ [WaitsNext]_<<vars, gitVars>> => ChildInv'
  <2> SUFFICES ASSUME ChildInv, [WaitsNext]_<<vars, gitVars>> PROVE ChildInv'
    OBVIOUS
  <2>1. CASE GitNext
    BY <2>1, GitChild, LimitAssumption
  <2>2. CASE UNCHANGED gitVars
    BY <2>2, CStutters DEF gitVars, childVars
  <2> QED
    BY <2>1, <2>2 DEF WaitsNext
<1> QED
  BY <1>1, <1>2, PTL DEF Spec

(* An answer says what happened to the child, what it wrote, what is       *)
(* missing of that, and whether it took too long (exec.ts:207-374,         *)
(* test.ts:57-96, git.ts:51-94, archive/system.ts:75-96).                  *)
THEOREM AnswersAreTruthful == Spec => []AnswerTruthful
<1>1. ChildInv => AnswerTruthful
  BY DEF ChildInv
<1> QED
  BY <1>1, ChildrenInvariant, PTL
-----------------------------------------------------------------------------
(* The git tool.                                                           *)

LEMMA StepsFinite ==
  Len(Steps) \in Nat
<1>1. asked.mode \in {"status", "look", "shell", "stage", "unstage", "restore", "commit"} \/ Steps = <<"run">>
  BY DEF Steps, PlanOf
<1> QED
  BY <1>1 DEF Steps, PlanOf

(* The step a call is at, by how much of its plan is left. *)
LEMMA StepNames ==
  ASSUME Planned
  PROVE  /\ asked.mode = "commit" =>
              /\ Len(plan) \in 1..6
              /\ Len(plan) = 6 => Head(plan) = "top"
              /\ Len(plan) = 5 => Head(plan) = "check"
              /\ Len(plan) = 4 => Head(plan) = "preview"
              /\ Len(plan) = 3 => Head(plan) = "write"
              /\ Len(plan) = 2 => Head(plan) = "head"
              /\ Len(plan) = 1 => Head(plan) = "status"
         /\ asked.mode = "restore" =>
              /\ Len(plan) \in 1..4
              /\ Len(plan) = 4 => Head(plan) = "top"
              /\ Len(plan) = 3 => Head(plan) = "check"
              /\ Len(plan) = 2 => Head(plan) = "write"
              /\ Len(plan) = 1 => Head(plan) = "status"
         /\ asked.mode \in {"stage", "unstage"} =>
              /\ Len(plan) \in 1..3
              /\ Len(plan) = 3 => Head(plan) = "top"
              /\ Len(plan) = 2 => Head(plan) = "write"
              /\ Len(plan) = 1 => Head(plan) = "status"
         /\ asked.mode \notin Changing =>
              /\ Len(plan) \in 1..2
              /\ Head(plan) \in {"top", "run", "status", "look", "shell"}
         /\ plan # <<>> /\ Len(plan) \in Nat
<1>1. /\ plan \in Seq(StepName) /\ Len(plan) \in 1..Len(Steps) /\ Head(plan) = plan[1] /\ 1 \in 1..Len(plan)
      /\ Len(plan) \in Nat /\ plan # <<>>
  BY DEF Planned
<1>2. Head(plan) = Steps[Len(Steps) - Len(plan) + 1]
  BY <1>1 DEF Planned
<1>3. CASE asked.mode = "commit"
  <2>1. Steps = <<"top", "check", "preview", "write", "head", "status">>
    BY <1>3 DEF Steps, PlanOf
  <2>0. Len(Steps) = 6
    BY <2>1
  <2>2. Len(plan) \in 1..6 /\ Head(plan) = Steps[7 - Len(plan)]
    BY <1>1, <1>2, <2>0
  <2>3. \A n \in 1..6 : Len(plan) = n => Head(plan) = Steps[7 - n]
    BY <2>2
  <2> QED
    BY <1>1, <1>3, <2>1, <2>2, <2>3 DEF Changing
<1>4. CASE asked.mode = "restore"
  <2>1. Steps = <<"top", "check", "write", "status">>
    BY <1>4 DEF Steps, PlanOf
  <2>0. Len(Steps) = 4
    BY <2>1
  <2>2. Len(plan) \in 1..4 /\ Head(plan) = Steps[5 - Len(plan)]
    BY <1>1, <1>2, <2>0
  <2>3. \A n \in 1..4 : Len(plan) = n => Head(plan) = Steps[5 - n]
    BY <2>2
  <2> QED
    BY <1>1, <1>4, <2>1, <2>2, <2>3 DEF Changing
<1>5. CASE asked.mode \in {"stage", "unstage"}
  <2>1. Steps = <<"top", "write", "status">>
    BY <1>5 DEF Steps, PlanOf
  <2>0. Len(Steps) = 3
    BY <2>1
  <2>2. Len(plan) \in 1..3 /\ Head(plan) = Steps[4 - Len(plan)]
    BY <1>1, <1>2, <2>0
  <2>3. \A n \in 1..3 : Len(plan) = n => Head(plan) = Steps[4 - n]
    BY <2>2
  <2> QED
    BY <1>1, <1>5, <2>1, <2>2, <2>3 DEF Changing
<1>6. CASE asked.mode \notin Changing
  <2>1. CASE asked.mode = "status"
    <3>1. Steps = <<"top", "status">>
      BY <2>1 DEF Steps, PlanOf
    <3>0. Len(Steps) = 2
      BY <3>1
    <3>2. Len(plan) \in 1..2 /\ Head(plan) = Steps[3 - Len(plan)]
      BY <1>1, <1>2, <3>0
    <3> QED
      BY <1>1, <1>6, <3>1, <3>2 DEF Changing
  <2>2. CASE asked.mode \in {"look", "shell"}
    <3>1. Steps = <<"top", asked.mode>>
      BY <2>2 DEF Steps, PlanOf
    <3>0. Len(Steps) = 2
      BY <3>1
    <3>2. Len(plan) \in 1..2 /\ Head(plan) = Steps[3 - Len(plan)]
      BY <1>1, <1>2, <3>0
    <3> QED
      BY <1>1, <1>6, <2>2, <3>1, <3>2 DEF Changing
  <2>3. CASE asked.mode \notin {"status", "look", "shell"}
    <3>1. Steps = <<"run">>
      BY <1>6, <2>3 DEF Steps, PlanOf, Changing
    <3>0. Len(Steps) = 1
      BY <3>1
    <3>2. Len(plan) \in 1..1 /\ Head(plan) = Steps[2 - Len(plan)]
      BY <1>1, <1>2, <3>0
    <3> QED
      BY <1>1, <1>6, <3>1, <3>2 DEF Changing
  <2> QED
    BY <2>1, <2>2, <2>3
<1> QED
  BY <1>1, <1>3, <1>4, <1>5, <1>6 DEF Changing

LEMMA PlanShortens ==
  ASSUME Planned, Len(plan) > 1, plan' = Tail(plan), asked' = asked
  PROVE  Planned' /\ Len(plan') = Len(plan) - 1
<1>1. plan \in Seq(StepName) /\ Len(plan) \in 1..Len(Steps) /\ Len(plan) \in Nat /\ Len(plan) > 1
  <2>1. plan \in Seq(StepName) /\ Len(plan) \in 1..Len(Steps)
    BY DEF Planned
  <2>2. Len(plan) \in Nat
    BY <2>1
  <2> QED
    BY <2>1, <2>2
<1>2. Steps' = Steps
  BY DEF Steps
<1>3. /\ Tail(plan) \in Seq(StepName) /\ Len(Tail(plan)) = Len(plan) - 1
      /\ \A j \in 1..Len(plan) - 1 : Tail(plan)[j] = plan[j + 1]
  BY <1>1
<1>4. Len(Steps) \in Nat
  BY StepsFinite
<1>5. \A j \in 1..Len(plan) - 1 : Tail(plan)[j] = Steps[Len(Steps) - (Len(plan) - 1) + j]
  BY <1>1, <1>3, <1>4 DEF Planned
<1> QED
  BY <1>1, <1>2, <1>3, <1>4, <1>5 DEF Planned

(* The step that writes, and the look for conflicts, are where they should *)
(* be in a plan.                                                           *)
LEMMA WritesLast ==
  ASSUME Planned
  PROVE  /\ WriteLeft \in Nat
         /\ asked.mode \in Changing => (Head(plan) = "write" <=> Len(plan) = WriteLeft)
         /\ Head(plan) = "write" => asked.mode \in Changing /\ Len(plan) <= WriteLeft
<1>1. CASE asked.mode = "commit"
  <2>1. WriteLeft = 3 /\ asked.mode \in Changing
    BY <1>1 DEF WriteLeft, Changing
  <2>2. Len(plan) \in 1..6
    BY <1>1, StepNames
  <2>3. (Len(plan) = 6 => Head(plan) = "top") /\ (Len(plan) = 5 => Head(plan) = "check") /\ (Len(plan) = 4 => Head(plan) = "preview") /\ (Len(plan) = 3 => Head(plan) = "write") /\ (Len(plan) = 2 => Head(plan) = "head") /\ (Len(plan) = 1 => Head(plan) = "status")
    BY <1>1, StepNames
  <2>4. CASE Len(plan) = 1
    BY <1>1, <2>1, <2>2, <2>3, <2>4
  <2>5. CASE Len(plan) = 2
    BY <1>1, <2>1, <2>2, <2>3, <2>5
  <2>6. CASE Len(plan) = 3
    BY <1>1, <2>1, <2>2, <2>3, <2>6
  <2>7. CASE Len(plan) = 4
    BY <1>1, <2>1, <2>2, <2>3, <2>7
  <2>8. CASE Len(plan) = 5
    BY <1>1, <2>1, <2>2, <2>3, <2>8
  <2>9. CASE Len(plan) = 6
    BY <1>1, <2>1, <2>2, <2>3, <2>9
  <2> QED
    BY <2>2, <2>4, <2>5, <2>6, <2>7, <2>8, <2>9
<1>2. CASE asked.mode = "restore"
  <2>1. WriteLeft = 2 /\ asked.mode \in Changing
    BY <1>2 DEF WriteLeft, Changing
  <2>2. Len(plan) \in 1..4
    BY <1>2, StepNames
  <2>3. (Len(plan) = 4 => Head(plan) = "top") /\ (Len(plan) = 3 => Head(plan) = "check") /\ (Len(plan) = 2 => Head(plan) = "write") /\ (Len(plan) = 1 => Head(plan) = "status")
    BY <1>2, StepNames
  <2>4. CASE Len(plan) = 1
    BY <1>2, <2>1, <2>2, <2>3, <2>4
  <2>5. CASE Len(plan) = 2
    BY <1>2, <2>1, <2>2, <2>3, <2>5
  <2>6. CASE Len(plan) = 3
    BY <1>2, <2>1, <2>2, <2>3, <2>6
  <2>7. CASE Len(plan) = 4
    BY <1>2, <2>1, <2>2, <2>3, <2>7
  <2> QED
    BY <2>2, <2>4, <2>5, <2>6, <2>7
<1>3. CASE asked.mode \in {"stage", "unstage"}
  <2>1. WriteLeft = 2 /\ asked.mode \in Changing
    BY <1>3 DEF WriteLeft, Changing
  <2>2. Len(plan) \in 1..3
    BY <1>3, StepNames
  <2>3. (Len(plan) = 3 => Head(plan) = "top") /\ (Len(plan) = 2 => Head(plan) = "write") /\ (Len(plan) = 1 => Head(plan) = "status")
    BY <1>3, StepNames
  <2>4. CASE Len(plan) = 1
    BY <1>3, <2>1, <2>2, <2>3, <2>4
  <2>5. CASE Len(plan) = 2
    BY <1>3, <2>1, <2>2, <2>3, <2>5
  <2>6. CASE Len(plan) = 3
    BY <1>3, <2>1, <2>2, <2>3, <2>6
  <2> QED
    BY <2>2, <2>4, <2>5, <2>6
<1>4. CASE asked.mode \notin Changing
  BY <1>4, StepNames DEF WriteLeft, Changing
<1> QED
  BY <1>1, <1>2, <1>3, <1>4 DEF Changing

LEMMA ChecksWhen ==
  ASSUME Planned
  PROVE  /\ CheckLeft \in Nat /\ WriteLeft < CheckLeft
         /\ Head(plan) = "check" <=> Checking /\ Len(plan) = CheckLeft
<1>1. CASE asked.mode = "commit"
  BY <1>1, StepNames DEF CheckLeft, WriteLeft, Checking
<1>2. CASE asked.mode = "restore"
  BY <1>2, StepNames DEF CheckLeft, WriteLeft, Checking
<1>3. CASE asked.mode \in {"stage", "unstage"}
  BY <1>3, StepNames DEF CheckLeft, WriteLeft, Checking
<1>4. CASE asked.mode \notin Changing
  BY <1>4, StepNames DEF CheckLeft, WriteLeft, Checking, Changing
<1> QED
  BY <1>1, <1>2, <1>3, <1>4 DEF Changing

LEMMA PlanStays ==
  ASSUME Planned, plan' = plan, asked' = asked
  PROVE  Planned'
BY DEF Planned, Steps

(* A step of the processes, or of what waits for them, which the tool does *)
(* not see: no child begins, and one that ends well has done its work.     *)
LEMMA ToolKept ==
  ASSUME ChildTypes, GitInv, UNCHANGED <<toolVars, kind>>,
         child' = child \/ (child.is = "running" /\ child'.is = "exited"),
         child' # child /\ child'.code = 0 /\ Head(plan) # "run" =>
           worked = TRUE /\ (Head(plan) = "write" => mine = TRUE),
         written.out > 0 => written'.out > 0,
         told = "nothing" => UNCHANGED <<heir, timer, answer>>
  PROVE  GitInv'
<1>1. UNCHANGED <<asked, plan, told, repo, worked, mine, clear, blind>>
  BY DEF toolVars
<1>2. child'.is = "none" <=> child.is = "none"
  BY DEF ChildTypes
<1>3. CASE told = "nothing"
  BY <1>1, <1>3 DEF GitInv
<1>4. CASE told # "nothing"
  <2>1. Planned /\ Confirmed /\ Looked /\ TellsTruth
    BY <1>4 DEF GitInv
  <2>2. Planned'
    BY <1>1, <2>1, PlanStays
  <2>3. Confirmed'
    BY <1>1, <1>2, <2>1 DEF Confirmed, Steps, WriteLeft
  <2>4. Looked'
    BY <1>1, <1>2, <2>1 DEF Looked, Checking, CheckLeft
  <2>5. TellsTruth'
    BY <1>1, <2>1 DEF TellsTruth
  <2> QED
    BY <1>1, <1>4, <2>2, <2>3, <2>4, <2>5 DEF GitInv
<1> QED
  BY <1>3, <1>4

LEMMA GLaunch ==
  ASSUME ChildInv, GitInv, Launch
  PROVE  GitInv'
<1>1. /\ told = "" /\ child.is = "none" /\ worked' = FALSE /\ child'.is \in {"running", "failed"} /\ child'.code = 0
      /\ kind' = IF Head(plan) = "run" THEN asked.mode ELSE "git"
      /\ clear' = IF Head(plan) = "check" THEN ~repo.conflict ELSE clear
      /\ UNCHANGED <<asked, plan, told, repo, mine, blind>>
  <2>1. PICK c \in {"running", "failed"} : child' = [is |-> c, code |-> 0]
    BY DEF Launch, Spawn
  <2>2. child'.is \in {"running", "failed"} /\ child'.code = 0
    BY <2>1
  <2>3. kind' = IF Head(plan) = "run" THEN asked.mode ELSE "git"
    BY DEF Launch, Spawn
  <2> QED
    BY <2>2, <2>3 DEF Launch
<1>2. Planned /\ Confirmed /\ Looked /\ TellsTruth
  BY <1>1 DEF GitInv
<1>3. Planned'
  BY <1>1, <1>2, PlanStays
<1>4. Confirmed'
  BY <1>1, <1>2 DEF Confirmed, Steps, WriteLeft
<1>5. TellsTruth'
  BY <1>1 DEF TellsTruth
<1>6. repo.conflict \in BOOLEAN /\ clear \in BOOLEAN /\ blind \in BOOLEAN
  BY DEF GitInv
<1>7. Looked'
  <2>1. CASE Head(plan) = "check"
    <3>1. repo.conflict = FALSE => clear' = TRUE
      BY <1>1, <1>6, <2>1
    <3>2. Checking => Len(plan) = CheckLeft
      BY <1>2, <2>1, ChecksWhen
    <3>3. Checking => ~(Len(plan) < CheckLeft)
      BY <1>2, <3>2, ChecksWhen
    <3>4. Checking' = Checking /\ CheckLeft' = CheckLeft /\ plan' = plan /\ repo' = repo /\ worked' = FALSE
      BY <1>1 DEF Checking, CheckLeft
    <3> QED
      BY <3>1, <3>3, <3>4 DEF Looked
  <2>2. CASE Head(plan) # "check"
    <3>1. Checking => Len(plan) # CheckLeft
      BY <1>2, <2>2, ChecksWhen
    <3>2. clear' = clear
      BY <1>1, <2>2
    <3> QED
      BY <1>1, <1>2, <3>1, <3>2 DEF Looked, Checking, CheckLeft
  <2> QED
    BY <2>1, <2>2
<1>8. clear' \in BOOLEAN
  BY <1>1, <1>6
<1> QED
  BY <1>1, <1>3, <1>4, <1>5, <1>7, <1>8 DEF GitInv

LEMMA GWorks ==
  ASSUME ChildInv, GitInv, Works
  PROVE  GitInv'
<1>1. /\ kind = "git" /\ child.is = "running" /\ worked' = TRUE
      /\ UNCHANGED <<kind, child, heir, timer, answer, asked, plan, told, repo, clear, blind>>
  BY DEF Works
<1>2. told = ""
  BY <1>1 DEF GitInv, TellsTruth
<1>3. Planned /\ Confirmed /\ Looked
  BY <1>2 DEF GitInv
<1>4. mine' \in BOOLEAN /\ (mine = TRUE => mine' = TRUE) /\ (mine' = TRUE => mine = TRUE \/ Head(plan) = "write")
  BY DEF Works, GitInv
<1>5. Planned'
  BY <1>1, <1>3, PlanStays
<1>6. Head(plan) = "write" => asked.mode \in Changing /\ Len(plan) <= WriteLeft
  BY <1>3, WritesLast
<1>7. Confirmed'
  BY <1>1, <1>3, <1>4, <1>6 DEF Confirmed, Steps, WriteLeft
<1>8. written.out \in Nat /\ written'.out \in Nat /\ written'.out >= written.out
  <2>1. written \in Pipes
    BY DEF ChildInv, ChildTypes
  <2> QED
    BY <2>1 DEF Works, Pipes
<1>9. Looked'
  <2>1. ASSUME Checking, Len(plan) = CheckLeft PROVE clear = TRUE \/ written'.out > 0
    <3>1. Head(plan) = "check"
      BY <1>3, <2>1, ChecksWhen
    <3>2. CASE repo.conflict = TRUE
      <4>1. written' = [written EXCEPT !.out = @ + 2]
        BY <3>1, <3>2 DEF Works, Says
      <4>2. written \in Pipes
        BY DEF ChildInv, ChildTypes
      <4> QED
        BY <4>1, <4>2 DEF Pipes
    <3>3. CASE repo.conflict = FALSE
      BY <1>1, <1>3, <2>1, <3>3 DEF Looked
    <3> QED
      BY <3>2, <3>3 DEF GitInv
  <2> QED
    BY <1>1, <1>3, <2>1 DEF Looked, Checking, CheckLeft
<1>10. TellsTruth'
  BY <1>1, <1>2 DEF TellsTruth
<1> QED
  BY <1>1, <1>2, <1>4, <1>5, <1>7, <1>9, <1>10 DEF GitInv

LEMMA GEnds ==
  ASSUME ChildInv, GitInv, ChildEnds
  PROVE  GitInv'
<1>1. /\ child.is = "running" /\ child'.is = "exited" /\ UNCHANGED <<toolVars, kind, heir, timer, answer, written>>
  BY DEF ChildEnds, ChildExits, Exits
<1>2. told = ""
  BY <1>1 DEF GitInv, TellsTruth
<1>3. Confirmed
  BY <1>2 DEF GitInv
<1>4. child'.code = 0 /\ Head(plan) # "run" => worked = TRUE /\ (Head(plan) = "write" => mine = TRUE)
  <2> SUFFICES ASSUME child'.code = 0, Head(plan) # "run" PROVE worked = TRUE /\ (Head(plan) = "write" => mine = TRUE)
    OBVIOUS
  <2>1. kind = "git"
    BY <1>1, <1>3 DEF Confirmed
  <2>2. worked /\ (Head(plan) = "write" => mine)
    BY <2>1 DEF ChildEnds, ChildExits, Exits
  <2> QED
    BY <2>2 DEF GitInv
<1> QED
  BY <1>1, <1>4, ToolKept DEF ChildInv

LEMMA GOthers ==
  ASSUME ChildInv, GitInv, Others
  PROVE  GitInv'
<1>1. /\ told = "" /\ clear' = (clear \/ repo.conflict) /\ repo' = [conflict |-> ~repo.conflict, turns |-> repo.turns + 1]
      /\ UNCHANGED <<asked, plan, told, worked, mine, blind, child, kind, heir, timer, answer, written>>
  BY DEF Others, childVars
<1>2. Planned /\ Confirmed /\ Looked /\ TellsTruth
  BY <1>1 DEF GitInv
<1>3. repo.conflict \in BOOLEAN /\ clear \in BOOLEAN /\ blind \in BOOLEAN
  BY DEF GitInv
<1>4. Planned'
  BY <1>1, <1>2, PlanStays
<1>5. Confirmed' /\ TellsTruth'
  BY <1>1, <1>2 DEF Confirmed, Steps, WriteLeft, TellsTruth
<1>6. clear' \in BOOLEAN /\ (clear = TRUE => clear' = TRUE) /\ (repo'.conflict = FALSE => clear' = TRUE)
  BY <1>1, <1>3
<1>7. Looked'
  BY <1>1, <1>2, <1>6 DEF Looked, Checking, CheckLeft
<1>8. repo'.conflict \in BOOLEAN
  <2>1. (~repo.conflict) \in BOOLEAN
    BY <1>3
  <2> QED
    BY <1>1, <2>1
<1> QED
  BY <1>1, <1>4, <1>5, <1>6, <1>7, <1>8 DEF GitInv

(* What an answer tells the tool.  A look that ended well, whose output is *)
(* all there and empty, saw a time without a conflict.                     *)
LEMMA AnswerMeans ==
  ASSUME ChildInv, NEW a \in answer
  PROVE  /\ child.is \in {"exited", "failed"}
         /\ a.code = 0 => child.is = "exited" /\ child.code = 0
         /\ a.code = 0 /\ ~a.truncated /\ kind = "git" => written.out = a.got.out
<1>1. a.how \in {"close", "error"} /\ AnswerTruthful
  BY DEF ChildInv, Hows
<1>2. CASE a.how = "close"
  <2>1. /\ child.is = "exited" /\ (a.code = 0 => child.code = 0)
        /\ kind \in Flagged => (a.truncated <=> a.got # [s \in {"out", "err"} |-> IF s \in Streams(kind) THEN written[s] ELSE 0])
    BY <1>1, <1>2 DEF AnswerTruthful
  <2>2. ASSUME ~a.truncated, kind = "git" PROVE written.out = a.got.out
    <3>1. a.got = [s \in {"out", "err"} |-> IF s \in Streams(kind) THEN written[s] ELSE 0]
      BY <2>1, <2>2 DEF Flagged
    <3> QED
      BY <3>1, StreamsAre
  <2> QED
    BY <2>1, <2>2
<1>3. CASE a.how = "error"
  BY <1>1, <1>3 DEF AnswerTruthful
<1> QED
  BY <1>1, <1>2, <1>3

(* What it takes to go on from a step. *)
LEMMA GoesOnWhen ==
  ASSUME NEW step, NEW a, Verdict(step, a) = ""
  PROVE  /\ step = "top" /\ asked.mode \in {"stage", "unstage", "restore"} => asked.confirm
         /\ step = "check" => ~(a.got.out > 0)
         /\ step = "preview" => ~asked.dry /\ asked.confirm
         /\ step = "write" => a.code = 0
BY DEF Verdict

LEMMA VerdictIs ==
  ASSUME NEW step, NEW a
  PROVE  /\ Verdict(step, a) \in {"", "error", "refused", "would"}
         /\ Verdict(step, a) = "refused" => step = "check"
         /\ Verdict(step, a) = "would" => step = "preview"
BY DEF Verdict

LEMMA TopFirst ==
  ASSUME Planned, asked.mode \in {"stage", "unstage", "restore"}
  PROVE  Len(plan) < Len(Steps) \/ Head(plan) = "top"
<1>1. CASE asked.mode = "restore"
  <2>1. Len(Steps) = 4
    <3>1. Steps = <<"top", "check", "write", "status">>
      BY <1>1 DEF Steps, PlanOf
    <3> QED
      BY <3>1
  <2>2. Len(plan) \in 1..4 /\ (Len(plan) = 4 => Head(plan) = "top")
    BY <1>1, StepNames
  <2>3. \A n \in 1..4 : n < 4 \/ n = 4
    OBVIOUS
  <2> QED
    BY <2>1, <2>2, <2>3
<1>2. CASE asked.mode \in {"stage", "unstage"}
  <2>1. Len(Steps) = 3
    <3>1. Steps = <<"top", "write", "status">>
      BY <1>2 DEF Steps, PlanOf
    <3> QED
      BY <3>1
  <2>2. Len(plan) \in 1..3 /\ (Len(plan) = 3 => Head(plan) = "top")
    BY <1>2, StepNames
  <2>3. \A n \in 1..3 : n < 3 \/ n = 3
    OBVIOUS
  <2> QED
    BY <2>1, <2>2, <2>3
<1> QED
  BY <1>1, <1>2

LEMMA PreviewFirst ==
  ASSUME Planned
  PROVE  /\ asked.mode = "commit" /\ Len(plan) = WriteLeft + 1 => Head(plan) = "preview"
         /\ Head(plan) = "preview" => ~(Len(plan) <= WriteLeft)
<1>1. CASE asked.mode = "commit"
  <2>1. WriteLeft = 3
    BY <1>1 DEF WriteLeft
  <2>2. Len(plan) \in 1..6
    BY <1>1, StepNames
  <2>3. CASE Len(plan) \in {1, 2, 3}
    <3>1. Head(plan) # "preview" /\ Len(plan) # 4
      BY <1>1, <2>3, StepNames
    <3> QED
      BY <2>1, <3>1
  <2>4. CASE Len(plan) = 4
    <3>1. Head(plan) = "preview"
      BY <1>1, <2>4, StepNames
    <3> QED
      BY <2>1, <2>4, <3>1
  <2>5. CASE Len(plan) \in {5, 6}
    <3>1. \A n \in {5, 6} : ~(n <= 3) /\ n # 3 + 1
      OBVIOUS
    <3> QED
      BY <2>1, <2>5, <3>1
  <2>6. Len(plan) \in {1, 2, 3, 4, 5, 6}
    BY <2>2
  <2> QED
    BY <2>3, <2>4, <2>5, <2>6
<1>2. CASE asked.mode = "restore"
  BY <1>2, StepNames
<1>3. CASE asked.mode \in {"stage", "unstage"}
  BY <1>3, StepNames
<1>4. CASE asked.mode \notin Changing
  BY <1>4, StepNames DEF Changing
<1> QED
  BY <1>1, <1>2, <1>3, <1>4 DEF Changing

LEMMA GDecide ==
  ASSUME ChildInv, GitInv, Decide
  PROVE  GitInv'
<1>1. told = "" /\ UNCHANGED <<asked, repo, mine, clear>>
  BY DEF Decide
<1>2. Planned /\ Confirmed /\ Looked /\ TellsTruth
  BY <1>1 DEF GitInv
<1>3. /\ mine \in BOOLEAN /\ clear \in BOOLEAN /\ blind \in BOOLEAN /\ worked \in BOOLEAN
      /\ asked.confirm \in BOOLEAN /\ asked.dry \in BOOLEAN
  BY DEF GitInv
<1>4. PICK a \in answer :
        /\ told' = IF Verdict(Head(plan), a) = "" /\ Len(plan) = 1 THEN "done" ELSE Verdict(Head(plan), a)
        /\ blind' = IF Head(plan) = "check" THEN a.code # 0 \/ a.truncated ELSE blind
  BY DEF Decide
<1>5. Head(plan) \in StepName /\ Len(plan) \in Nat /\ Len(plan) > 0 /\ plan \in Seq(StepName)
  <2>1. plan # <<>> /\ plan \in Seq(StepName)
    BY <1>2, StepNames DEF Planned
  <2> QED
    BY <2>1
<1> DEFINE v == Verdict(Head(plan), a)
<1>6. v \in {"", "error", "refused", "would"} /\ (v = "refused" => Head(plan) = "check") /\ (v = "would" => Head(plan) = "preview")
  BY <1>5, VerdictIs
<1>7. v = "" => /\ Head(plan) = "top" /\ asked.mode \in {"stage", "unstage", "restore"} => asked.confirm = TRUE
                /\ Head(plan) = "check" => ~(a.got.out > 0)
                /\ Head(plan) = "preview" => asked.dry = FALSE /\ asked.confirm = TRUE
                /\ Head(plan) = "write" => a.code = 0
  BY <1>3, <1>5, GoesOnWhen
<1> HIDE DEF v
<1>8. /\ child.is \in {"exited", "failed"}
      /\ a.code = 0 => child.is = "exited" /\ child.code = 0
      /\ a.code = 0 /\ ~a.truncated /\ kind = "git" => written.out = a.got.out
  BY AnswerMeans
<1>9. /\ blind' \in BOOLEAN /\ (Head(plan) # "check" => blind' = blind)
      /\ Head(plan) = "check" /\ blind' = FALSE => a.code = 0 /\ ~a.truncated
  <2>1. CASE Head(plan) = "check"
    <3>1. blind' = (a.code # 0 \/ a.truncated)
      BY <1>4, <2>1
    <3> QED
      BY <2>1, <3>1
  <2>2. CASE Head(plan) # "check"
    BY <1>3, <1>4, <2>2
  <2> QED
    BY <2>1, <2>2
<1>10. /\ WriteLeft \in Nat /\ CheckLeft \in Nat /\ WriteLeft < CheckLeft /\ WriteLeft >= 2
       /\ asked.mode \in Changing => (Head(plan) = "write" <=> Len(plan) = WriteLeft)
       /\ Head(plan) = "check" <=> Checking /\ Len(plan) = CheckLeft
  BY <1>2, WritesLast, ChecksWhen DEF WriteLeft
<1>11. Checking' = Checking /\ CheckLeft' = CheckLeft /\ WriteLeft' = WriteLeft /\ Steps' = Steps
  BY <1>1 DEF Checking, CheckLeft, WriteLeft, Steps
<1>12. CASE told' = ""
  <2>1. /\ plan' = Tail(plan) /\ worked' = FALSE /\ child'.is = "none" /\ kind' = kind
    <3>1. plan' = Tail(plan) /\ worked' = FALSE /\ child' = [is |-> "none", code |-> 0] /\ kind' = kind
      BY <1>12 DEF Decide
    <3> QED
      BY <3>1
  <2>2. v = "" /\ Len(plan) > 1
    <3>1. v = "" /\ Len(plan) # 1
      BY <1>4, <1>6, <1>12 DEF v
    <3> QED
      <4>1. \A n \in Nat : n > 0 /\ n # 1 => n > 1
        OBVIOUS
      <4> QED
        BY <1>5, <3>1, <4>1
  <2>3. Planned' /\ Len(plan') = Len(plan) - 1
    BY <1>1, <1>2, <2>1, <2>2, PlanShortens
  <2>4. Confirmed'
    <3>1. ASSUME asked.mode \in {"stage", "unstage", "restore"} PROVE asked.dry = FALSE /\ asked.confirm = TRUE
      <4>1. Len(plan) < Len(Steps) \/ Head(plan) = "top"
        BY <1>2, <1>5, <3>1, TopFirst
      <4> QED
        BY <1>2, <1>7, <2>2, <3>1, <4>1 DEF Confirmed
    <3>2. ASSUME asked.mode = "commit", Len(plan') <= WriteLeft PROVE asked.confirm = TRUE /\ asked.dry = FALSE
      <4>1. Len(plan) <= WriteLeft \/ Head(plan) = "preview"
        BY <1>2, <1>5, <1>10, <2>3, <3>2, PreviewFirst
      <4> QED
        BY <1>2, <1>7, <2>2, <3>2, <4>1 DEF Confirmed
    <3>3. ASSUME mine = TRUE PROVE asked.mode \in Changing /\ Len(plan') <= WriteLeft
      BY <1>2, <1>5, <1>10, <2>3, <3>3 DEF Confirmed
    <3>4. ASSUME asked.mode \in Changing, Len(plan') < WriteLeft PROVE mine = TRUE
      <4>1. CASE Len(plan) < WriteLeft
        BY <1>2, <3>4, <4>1 DEF Confirmed
      <4>2. CASE Len(plan) = WriteLeft
        <5>1. Head(plan) = "write" /\ child.is = "exited" /\ child.code = 0
          BY <1>7, <1>8, <1>10, <2>2, <3>4, <4>2
        <5> QED
          BY <1>2, <5>1 DEF Confirmed
      <4>3. Len(plan) < WriteLeft \/ Len(plan) = WriteLeft
        BY <1>5, <1>10, <2>3, <3>4
      <4> QED
        BY <4>1, <4>2, <4>3
    <3> QED
      BY <1>1, <1>11, <2>1, <3>1, <3>2, <3>3, <3>4 DEF Confirmed
  <2>5. Looked'
    <3>1. ASSUME Checking, Len(plan') < CheckLeft
          PROVE  (repo.conflict = FALSE => clear = TRUE) /\ (clear = TRUE \/ blind' = TRUE)
      <4>1. CASE Len(plan) < CheckLeft
        BY <1>2, <1>5, <1>9, <1>10, <3>1, <4>1 DEF Looked
      <4>2. CASE Len(plan) = CheckLeft
        <5>1. repo.conflict = FALSE => clear = TRUE
          BY <1>2, <1>8, <3>1, <4>2 DEF Looked
        <5>2. Head(plan) = "check"
          BY <1>10, <3>1, <4>2
        <5>3. ASSUME blind' = FALSE PROVE clear = TRUE
          <6>1. a.code = 0 /\ ~a.truncated /\ child.is = "exited" /\ child.code = 0
            BY <1>8, <1>9, <5>2, <5>3
          <6>2. kind = "git" /\ worked = TRUE
            BY <1>2, <5>2, <6>1 DEF Confirmed
          <6>3. ~(written.out > 0)
            BY <1>7, <1>8, <2>2, <5>2, <6>1, <6>2
          <6> QED
            BY <1>2, <3>1, <4>2, <6>1, <6>2, <6>3 DEF Looked
        <5> QED
          BY <1>9, <5>1, <5>3
      <4>3. Len(plan) < CheckLeft \/ Len(plan) = CheckLeft
        BY <1>5, <1>10, <2>3, <3>1
      <4> QED
        BY <4>1, <4>2, <4>3
    <3> QED
      BY <1>1, <1>11, <2>1, <3>1 DEF Looked
  <2>6. TellsTruth'
    BY <1>12 DEF TellsTruth
  <2> QED
    BY <1>1, <1>3, <1>9, <1>12, <2>1, <2>3, <2>4, <2>5, <2>6 DEF GitInv
<1>13. CASE told' # ""
  <2>1. UNCHANGED <<plan, worked, kind, child, written>>
    BY <1>13 DEF Decide
  <2>2. told' \in {"done", "error", "refused", "would"} /\ (told' = "done" => Len(plan) = 1)
        /\ (told' \in {"refused", "would"} => told' = v)
    BY <1>4, <1>6, <1>13 DEF v
  <2>3. Planned'
    BY <1>1, <1>2, <2>1, PlanStays
  <2>4. Confirmed'
    BY <1>1, <1>2, <1>11, <2>1 DEF Confirmed
  <2>5. Looked'
    <3>1. ASSUME Checking, Len(plan) < CheckLeft PROVE blind' = blind
      BY <1>5, <1>9, <1>10, <3>1
    <3> QED
      BY <1>1, <1>2, <1>11, <2>1, <3>1 DEF Looked
  <2>6. TellsTruth'
    <3>1. ASSUME told' = "done", asked.mode \in Changing PROVE mine = TRUE
      BY <1>2, <1>10, <2>2, <3>1 DEF Confirmed
    <3>2. ASSUME told' = "refused" PROVE mine = FALSE
      <4>1. Head(plan) = "check"
        BY <1>6, <2>2, <3>2
      <4>2. ~(Len(plan) <= WriteLeft)
        BY <1>5, <1>10, <4>1
      <4> QED
        BY <1>2, <1>3, <4>2 DEF Confirmed
    <3>3. ASSUME told' = "would" PROVE mine = FALSE
      <4>1. Head(plan) = "preview"
        BY <1>6, <2>2, <3>3
      <4> QED
        BY <1>2, <1>3, <4>1, PreviewFirst DEF Confirmed
    <3> QED
      BY <1>1, <1>8, <2>1, <3>1, <3>2, <3>3 DEF TellsTruth
  <2> QED
    BY <1>1, <1>3, <1>9, <2>1, <2>2, <2>3, <2>4, <2>5, <2>6 DEF GitInv
<1> QED
  BY <1>12, <1>13

LEMMA GStutters ==
  ASSUME GitInv, UNCHANGED gitVars
  PROVE  GitInv'
<1>1. UNCHANGED <<asked, plan, told, repo, worked, mine, clear, blind, kind, child, heir, timer, answer, written>>
  BY DEF gitVars, childVars, toolVars
<1>2. CASE told = "nothing"
  BY <1>1, <1>2 DEF GitInv
<1>3. CASE told # "nothing"
  <2>1. Planned' /\ Confirmed' /\ Looked' /\ TellsTruth'
    BY <1>1, <1>3, PlanStays DEF GitInv, Confirmed, Steps, WriteLeft, Looked, Checking, CheckLeft, TellsTruth
  <2> QED
    BY <1>1, <1>3, <2>1 DEF GitInv
<1> QED
  BY <1>2, <1>3

LEMMA GWrites ==
  ASSUME ChildInv, GitInv, Writes
  PROVE  GitInv'
<1>1. PICK s \in {"out", "err"} : Write(s)
  BY DEF Writes
<1>2. /\ written' = [written EXCEPT ![s] = @ + 2] /\ UNCHANGED <<toolVars, kind, child, heir, timer, answer>>
  BY <1>1 DEF Write, Writes
<1>3. written \in Pipes /\ ChildTypes
  BY DEF ChildInv, ChildTypes
<1>4. written.out > 0 => written'.out > 0
  BY <1>2, <1>3 DEF Pipes
<1> QED
  BY <1>2, <1>3, <1>4, ToolKept

LEMMA GHandlers ==
  ASSUME ChildInv, GitInv, UNCHANGED toolVars, Handlers \/ Timeout \/ StartHeir \/ HeirExits
  PROVE  GitInv'
<1>1. /\ ChildTypes
      /\ told = "nothing" => child.is = "none" /\ heir.is = "none" /\ timer = FALSE
  BY DEF ChildInv, GitInv
<1>2. ChildKilled = child \/ (child.is = "running" /\ ChildKilled.is = "exited" /\ ChildKilled.code = -1)
  BY DEF ChildKilled, Exits
<1>3. UNCHANGED <<kind, written>>
  BY DEF Handlers, Data, TaskkillEnds, TaskkillFails, Error, Closed, Timeout, StartHeir, HeirExits
<1>4. child' = child \/ child' = ChildKilled
  <2>1. CASE Handlers
    BY <2>1 DEF Handlers, Data, TaskkillEnds, TaskkillFails, Error, Closed
  <2>2. CASE Timeout
    BY <2>2 DEF Timeout, KillGroup
  <2>3. CASE StartHeir \/ HeirExits
    BY <2>3 DEF StartHeir, HeirExits
  <2> QED
    BY <2>1, <2>2, <2>3
<1>5. ASSUME told = "nothing" PROVE UNCHANGED <<heir, timer, answer>>
  <2>1. child.is = "none" /\ heir.is = "none" /\ timer = FALSE
    BY <1>1, <1>5
  <2>2. CASE \E s \in {"out", "err"} : Data(s)
    BY <2>2 DEF Data
  <2>3. CASE TaskkillEnds \/ TaskkillFails
    BY <2>1, <2>3 DEF TaskkillEnds, TaskkillFails
  <2> QED
    BY <2>1, <2>2, <2>3 DEF Handlers, Error, Closed, Timeout, StartHeir, HeirExits
<1>6. child' = child \/ (child.is = "running" /\ child'.is = "exited" /\ child'.code = -1)
  BY <1>2, <1>4
<1>7. child' # child => child'.code # 0
  BY <1>6
<1> QED
  BY <1>1, <1>3, <1>5, <1>6, <1>7, ToolKept

(* A call begins before its look for conflicts, and before it writes. *)
LEMMA StartsBefore ==
  /\ WriteLeft \in Nat /\ CheckLeft \in Nat /\ Len(Steps) \in Nat
  /\ asked.mode \in Changing => Len(Steps) > WriteLeft
  /\ Checking => Len(Steps) > CheckLeft
<1>1. CASE asked.mode = "commit"
  <2>1. Steps = <<"top", "check", "preview", "write", "head", "status">>
    BY <1>1 DEF Steps, PlanOf
  <2>2. Len(Steps) = 6
    BY <2>1
  <2>3. WriteLeft = 3 /\ CheckLeft = 5
    BY <1>1 DEF WriteLeft, CheckLeft
  <2> QED
    BY <2>2, <2>3
<1>2. CASE asked.mode = "restore"
  <2>1. Steps = <<"top", "check", "write", "status">>
    BY <1>2 DEF Steps, PlanOf
  <2>2. Len(Steps) = 4
    BY <2>1
  <2>3. WriteLeft = 2 /\ CheckLeft = 3
    BY <1>2 DEF WriteLeft, CheckLeft
  <2> QED
    BY <2>2, <2>3
<1>3. CASE asked.mode \in {"stage", "unstage"}
  <2>1. Steps = <<"top", "write", "status">>
    BY <1>3 DEF Steps, PlanOf
  <2>2. Len(Steps) = 3
    BY <2>1
  <2>3. WriteLeft = 2 /\ CheckLeft = 3 /\ ~Checking
    BY <1>3 DEF WriteLeft, CheckLeft, Checking
  <2> QED
    BY <2>2, <2>3
<1>4. CASE asked.mode \notin Changing
  <2>1. WriteLeft = 2 /\ CheckLeft = 3 /\ ~Checking
    BY <1>4 DEF WriteLeft, CheckLeft, Checking, Changing
  <2> QED
    BY <1>4, <2>1, StepsFinite
<1> QED
  BY <1>1, <1>2, <1>3, <1>4 DEF Changing

LEMMA StepsAreSteps ==
  Steps \in Seq(StepName) /\ Len(Steps) \in Nat /\ Len(Steps) >= 1
<1>1. CASE asked.mode = "status"
  <2>1. Steps = <<"top", "status">>
    BY <1>1 DEF Steps, PlanOf
  <2>2. Len(Steps) = 2
    BY <2>1
  <2>3. Steps \in Seq(StepName)
    BY <2>1 DEF StepName
  <2> QED
    BY <2>2, <2>3
<1>2. CASE asked.mode = "look"
  <2>1. Steps = <<"top", "look">>
    BY <1>2 DEF Steps, PlanOf
  <2>2. Len(Steps) = 2
    BY <2>1
  <2>3. Steps \in Seq(StepName)
    BY <2>1 DEF StepName
  <2> QED
    BY <2>2, <2>3
<1>3. CASE asked.mode = "shell"
  <2>1. Steps = <<"top", "shell">>
    BY <1>3 DEF Steps, PlanOf
  <2>2. Len(Steps) = 2
    BY <2>1
  <2>3. Steps \in Seq(StepName)
    BY <2>1 DEF StepName
  <2> QED
    BY <2>2, <2>3
<1>4. CASE asked.mode \in {"stage", "unstage"}
  <2>1. Steps = <<"top", "write", "status">>
    BY <1>4 DEF Steps, PlanOf
  <2>2. Len(Steps) = 3
    BY <2>1
  <2>3. Steps \in Seq(StepName)
    BY <2>1 DEF StepName
  <2> QED
    BY <2>2, <2>3
<1>5. CASE asked.mode = "restore"
  <2>1. Steps = <<"top", "check", "write", "status">>
    BY <1>5 DEF Steps, PlanOf
  <2>2. Len(Steps) = 4
    BY <2>1
  <2>3. Steps \in Seq(StepName)
    BY <2>1 DEF StepName
  <2> QED
    BY <2>2, <2>3
<1>6. CASE asked.mode = "commit"
  <2>1. Steps = <<"top", "check", "preview", "write", "head", "status">>
    BY <1>6 DEF Steps, PlanOf
  <2>2. Len(Steps) = 6
    BY <2>1
  <2>3. Steps \in Seq(StepName)
    BY <2>1 DEF StepName
  <2> QED
    BY <2>2, <2>3
<1>7. CASE asked.mode \notin {"status", "look", "shell", "stage", "unstage", "restore", "commit"}
  <2>1. Steps = <<"run">>
    BY <1>7 DEF Steps, PlanOf
  <2>2. Len(Steps) = 1
    BY <2>1
  <2>3. Steps \in Seq(StepName)
    BY <2>1 DEF StepName
  <2> QED
    BY <2>2, <2>3
<1> QED
  BY <1>1, <1>2, <1>3, <1>4, <1>5, <1>6, <1>7

(* What the tool knows of the repository and of its own call, at every     *)
(* step of its plan, whatever its children and the others do.              *)
THEOREM GitInvariant == Spec => []GitInv
<1>1. WaitsInit => GitInv
  <2> SUFFICES ASSUME WaitsInit PROVE GitInv
    OBVIOUS
  <2>1. CASE NoChild
    BY <2>1 DEF NoChild, ChildInit, GitInv
  <2>2. CASE GitInit
    <3>1. /\ child.is = "none" /\ heir.is = "none" /\ told = "" /\ plan = Steps
          /\ mine = FALSE /\ clear = FALSE /\ blind = FALSE /\ worked = FALSE
          /\ repo.conflict \in BOOLEAN
      BY <2>2 DEF GitInit, ChildInit, Steps
    <3>2. /\ asked.confirm \in BOOLEAN /\ asked.dry \in BOOLEAN
          /\ asked.mode \in {"stage", "unstage", "restore"} => asked.dry = FALSE
      BY <2>2 DEF GitInit, Requests
    <3>3. Planned /\ Len(plan) = Len(Steps)
      <4>1. Steps \in Seq(StepName) /\ Len(Steps) \in Nat /\ Len(Steps) >= 1
        BY StepsAreSteps
      <4>2. Len(Steps) \in 1..Len(Steps)
        BY <4>1
      <4>3. \A j \in 1..Len(Steps) : Len(Steps) - Len(Steps) + j = j
        BY <4>1
      <4>4. \A j \in 1..Len(Steps) : Steps[j] = Steps[Len(Steps) - Len(Steps) + j]
        BY <4>3
      <4> QED
        BY <3>1, <4>1, <4>2, <4>4 DEF Planned
    <3>4. Len(Steps) \in Nat /\ ~(Len(Steps) < Len(Steps))
      BY StepsFinite
    <3>5. /\ WriteLeft \in Nat /\ CheckLeft \in Nat
          /\ asked.mode = "commit" => ~(Len(plan) <= WriteLeft)
          /\ asked.mode \in Changing => ~(Len(plan) < WriteLeft)
          /\ Checking => ~(Len(plan) < CheckLeft)
      <4>1. \A m, n \in Nat : m > n => ~(m <= n) /\ ~(m < n)
        OBVIOUS
      <4> QED
        BY <3>1, <4>1, StartsBefore DEF Changing
    <3>6. Confirmed
      BY <3>1, <3>2, <3>3, <3>4, <3>5 DEF Confirmed
    <3>7. Looked /\ TellsTruth
      BY <3>1, <3>5 DEF Looked, TellsTruth
    <3> QED
      BY <3>1, <3>2, <3>3, <3>6, <3>7 DEF GitInv
  <2> QED
    BY <2>1, <2>2 DEF WaitsInit
<1>2. ChildInv /\ GitInv /\ [WaitsNext]_<<vars, gitVars>> => GitInv'
  <2> SUFFICES ASSUME ChildInv, GitInv, GitNext \/ UNCHANGED gitVars PROVE GitInv'
    BY DEF WaitsNext
  <2>1. CASE GitNext
    BY <2>1, GLaunch, GDecide, GWorks, GEnds, GWrites, GOthers, GHandlers DEF GitNext
  <2>2. CASE UNCHANGED gitVars
    BY <2>2, GStutters
  <2> QED
    BY <2>1, <2>2
<1> QED
  BY <1>1, <1>2, ChildrenInvariant, PTL DEF Spec

(* What the tool says it did, it did, and it did only what was confirmed;  *)
(* nothing was changed in the middle of a conflict unless the look for one *)
(* went wrong (git.ts:112-130, 175-215).                                   *)
THEOREM ChangesAreAsConfirmed == Spec => []ChangesAsConfirmed
<1>1. GitInv => ChangesAsConfirmed
  <2> SUFFICES ASSUME GitInv PROVE ChangesAsConfirmed
    OBVIOUS
  <2>1. mine \in BOOLEAN /\ clear \in BOOLEAN /\ blind \in BOOLEAN /\ asked.confirm \in BOOLEAN /\ asked.dry \in BOOLEAN
    BY DEF GitInv
  <2>2. CASE told = "nothing"
    BY <2>2 DEF GitInv, ChangesAsConfirmed
  <2>3. CASE told # "nothing"
    <3>1. Planned /\ Confirmed /\ Looked /\ TellsTruth
      BY <2>3 DEF GitInv
    <3>2. WriteLeft \in Nat /\ CheckLeft \in Nat /\ WriteLeft < CheckLeft /\ Len(plan) \in Nat
      BY <3>1, WritesLast, ChecksWhen, StepNames
    <3>3. ASSUME mine = TRUE PROVE asked.mode \in Changing /\ asked.confirm = TRUE /\ asked.dry = FALSE
      <4>1. asked.mode \in Changing /\ Len(plan) <= WriteLeft
        BY <3>1, <3>3 DEF Confirmed
      <4>2. asked.mode = "commit" => asked.confirm = TRUE /\ asked.dry = FALSE
        BY <3>1, <4>1 DEF Confirmed
      <4>3. asked.mode \in {"stage", "unstage", "restore"} => Len(plan) < Len(Steps)
        BY <3>1, <4>1, StartsBefore
      <4> QED
        BY <3>1, <4>1, <4>2, <4>3 DEF Confirmed, Changing
    <3>4. ASSUME mine = TRUE, Checking PROVE clear = TRUE \/ blind = TRUE
      <4>1. Len(plan) <= WriteLeft
        BY <3>1, <3>4 DEF Confirmed
      <4>2. Len(plan) < CheckLeft
        BY <3>2, <4>1
      <4> QED
        BY <3>1, <3>4, <4>2 DEF Looked
    <3> QED
      BY <2>1, <3>1, <3>3, <3>4 DEF ChangesAsConfirmed, TellsTruth, Checking
  <2> QED
    BY <2>2, <2>3
<1> QED
  BY <1>1, GitInvariant, PTL
=============================================================================
