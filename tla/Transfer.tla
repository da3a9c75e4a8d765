------------------------------ MODULE Transfer ------------------------------
(***************************************************************************)
(* file_transfer: a download into an exclusive partial file that is        *)
(* published by linking it to the destination, and an upload streamed from *)
(* an open handle.  Other programs use the same directory and the same     *)
(* source meanwhile, and the remote side may answer early, late, wrongly   *)
(* or not at all.  A body is a number of chunks.                           *)
(***************************************************************************)
EXTENDS Integers, Sequences, FiniteSets

CONSTANTS Calls,          \* transfers, at most one per call
          Mixes,          \* what each call asks: "save" from ChatGPT, "download" from OpenAI, "upload"
          Limit,          \* OPENAI_FILE_UPLOAD_LIMIT_BYTES, in chunks
          Lengths,        \* lengths the remote side announces
          MaxRedirects,   \* REDIRECT_LIMIT
          SourceSize,     \* chunks of the file that is uploaded
          MaxOthers,      \* steps of other programs
          MaxFaults       \* operations on local files that fail

ASSUME TransferAssumption ==
  /\ Limit \in Nat \ {0} /\ MaxRedirects \in Nat /\ SourceSize \in 1..Limit /\ Lengths \subseteq Nat
  /\ MaxOthers \in Nat /\ MaxFaults \in Nat /\ Calls \subseteq Nat \ {0}
  /\ \A mix \in Mixes : \A c \in DOMAIN mix : mix[c] \in {"save", "download", "upload"}

VARIABLES
  names,     \* whose file is at the destination and at each call's partial, in the directory
  away,      \* the same for the directory that is not there at the moment
  parent,    \* which of the two directories is there
  size,      \* chunks in the file each call created
  source,    \* the files the source path has named, each by its version
  remote,    \* calls whose upload has become a file
  asks,      \* the calls of this behaviour
  pc, loc,   \* where each call is, and its local values
  hindered,  \* history: calls that could not clean up
  left       \* what the bounds still allow

vars == <<names, away, parent, size, source, remote, asks, pc, loc, hindered, left>>
local == <<names, away, parent, size>>
world == <<local, source, remote, hindered, left>>
others == <<asks, pc, loc>>

Nobody == 0
Dest == 0                            \* the destination, beside the partial of each call
Other == -1
Unknown == -1                        \* a length that is not known
Here(c, where) == pc[c] = where
Goto(c, where) == pc' = [pc EXCEPT ![c] = where]
Breaks == left.faults > 0 /\ left' = [left EXCEPT !.faults = @ - 1]

NoCall == [kind |-> "none", n |-> 0, total |-> Unknown, expect |-> Unknown, hops |-> 0, parent |-> 0, owned |-> FALSE,
           verified |-> FALSE, read |-> {}, snap |-> <<0, 0>>, whole |-> FALSE, reply |-> "none", answer |-> "none", sure |-> TRUE]

Init ==
  /\ asks \in Mixes
  /\ names = [x \in {Dest} \union Calls |-> Nobody] /\ away = names /\ parent = 1
  /\ size = [c \in Calls |-> 0] /\ source = <<0>> /\ remote = {}
  /\ pc = [c \in Calls |-> "idle"] /\ loc = [c \in Calls |-> NoCall]
  /\ hindered = {} /\ left = [others |-> MaxOthers, faults |-> MaxFaults]

-----------------------------------------------------------------------------
(* What has been opened is closed before the answer is given.  "sure" is   *)
(* what the caller is told of the remote side: whether nothing can be      *)
(* there after a failure (the field ambiguous of the answer).              *)

Forgot(l) == [l EXCEPT !.n = 0, !.total = Unknown, !.expect = Unknown]
Told(l, answer, sure) == [l EXCEPT !.answer = answer, !.sure = sure, !.hops = 0, !.verified = FALSE]
Ends(c, answer, sure) ==
  /\ loc' = [loc EXCEPT ![c] = Told(IF c \in {names[Dest], away[Dest]} THEN loc[c] ELSE Forgot(loc[c]), answer, sure)]
  /\ Goto(c, IF loc[c].owned THEN "close" ELSE "done")
Fails(c) == Ends(c, "failed", TRUE)

SameParent(c) == parent = loc[c].parent                                  \* verifyParent
SamePartial(c) == SameParent(c) /\ names[c] = c /\ size[c] = loc[c].n    \* verifyPartial

Begin(c) ==
  /\ Here(c, "idle") /\ c \in DOMAIN asks /\ UNCHANGED world
  /\ loc' = [loc EXCEPT ![c].kind = asks[c]]
  /\ Goto(c, CASE asks[c] = "save" -> "open" [] asks[c] = "download" -> "metadata" [] asks[c] = "upload" -> "source")

(* getOpenAiFile: the size the metadata gives. *)
Metadata(c) ==
  /\ Here(c, "metadata") /\ UNCHANGED world
  /\ \/ Fails(c)
     \/ \E k \in Lengths :
          IF k > Limit THEN Fails(c) ELSE loc' = [loc EXCEPT ![c].expect = k] /\ Goto(c, "open")

(* openLocalFileTarget: the destination must be free, the partial is       *)
(* created exclusively.  Where the first stat of the new handle fails,     *)
(* nobody is left to close it or to remove the file.                       *)
Open(c) ==
  /\ Here(c, "open") /\ UNCHANGED world
  /\ IF names[Dest] # Nobody THEN Fails(c) ELSE loc' = [loc EXCEPT ![c].parent = parent] /\ Goto(c, "create")
Create(c) ==
  /\ Here(c, "create")
  /\ \/ /\ names' = [names EXCEPT ![c] = c] /\ loc' = [loc EXCEPT ![c].owned = TRUE] /\ Goto(c, "created")
        /\ UNCHANGED <<away, parent, size, source, remote, hindered, left>>
     \/ /\ Breaks /\ names' = [names EXCEPT ![c] = c] /\ hindered' = hindered \union {c} /\ Fails(c)
        /\ UNCHANGED <<away, parent, size, source, remote>>
     \/ Breaks /\ Fails(c) /\ UNCHANGED <<local, source, remote, hindered>>
Created(c) ==
  /\ Here(c, "created") /\ UNCHANGED world
  /\ IF SamePartial(c) THEN Goto(c, "fetch") /\ UNCHANGED loc ELSE Fails(c)

(* openChatGptFile and openOpenAiFileContent: redirects are followed by    *)
(* hand for the former; the length the headers give must agree with the    *)
(* metadata for the latter.                                                *)
Agrees(c, length) == loc[c].kind = "download" => length \in {Unknown, loc[c].expect}
Expected(c, length) == IF loc[c].kind = "download" THEN loc[c].expect ELSE length
Fetch(c) ==
  /\ Here(c, "fetch") /\ UNCHANGED world
  /\ \/ Fails(c)
     \/ /\ loc[c].kind = "save" /\ loc[c].hops < MaxRedirects
        /\ loc' = [loc EXCEPT ![c].hops = @ + 1] /\ UNCHANGED pc
     \/ \E length \in {Unknown} \union Lengths :
          IF Agrees(c, length) /\ Expected(c, length) <= Limit
          THEN loc' = [loc EXCEPT ![c].expect = Expected(c, length)] /\ Goto(c, "stream")
          ELSE Fails(c)

(* streamIntoTarget with writeAll, under withStreamDeadline: chunks come   *)
(* until the body ends, fails or takes too long.                           *)
Receive(c) ==
  /\ Here(c, "stream")
  /\ IF loc[c].n + 1 > Limit \/ ~SameParent(c) THEN Fails(c) /\ UNCHANGED world
     ELSE /\ size' = [size EXCEPT ![c] = @ + 1]
          /\ \/ loc' = [loc EXCEPT ![c].n = @ + 1] /\ UNCHANGED <<pc, left>>
             \/ Breaks /\ Fails(c)
          /\ UNCHANGED <<names, away, parent, source, remote, hindered>>
\* Mutant: the deadlines run from the first chunk on.
BrokenLater(c) == Here(c, "stream") /\ loc[c].n > 0 /\ Fails(c) /\ UNCHANGED world
Broken(c) == Here(c, "stream") /\ Fails(c) /\ UNCHANGED world
Complete(c) == loc[c].expect = Unknown \/ loc[c].expect = loc[c].n
Ended(c) == Here(c, "stream") /\ loc' = [loc EXCEPT ![c].total = loc[c].n] /\ Goto(c, "sync") /\ UNCHANGED world
Sync(c) ==
  /\ Here(c, "sync")
  /\ \/ /\ IF Complete(c) /\ SamePartial(c) THEN loc' = [loc EXCEPT ![c].verified = TRUE] /\ Goto(c, "publish") ELSE Fails(c)
        /\ UNCHANGED world
     \/ Breaks /\ Fails(c) /\ UNCHANGED <<local, source, remote, hindered>>

(* publish: link(2) names whatever is at the partial's path a second time, *)
(* and only where nothing is.                                              *)
Publish(c) ==
  /\ Here(c, "publish") /\ UNCHANGED world
  /\ IF loc[c].verified /\ SamePartial(c) THEN Goto(c, "link") /\ UNCHANGED loc ELSE Fails(c)
\* Mutant: the partial is moved over what is there.
Rename(c) ==
  /\ Here(c, "link") /\ names[c] # Nobody /\ Goto(c, "linked")
  /\ names' = [names EXCEPT ![Dest] = names[c], ![c] = Nobody]
  /\ UNCHANGED <<away, parent, size, source, remote, loc, hindered, left>>
Link(c) ==
  /\ Here(c, "link")
  /\ \/ /\ names[Dest] = Nobody /\ names[c] # Nobody
        /\ names' = [names EXCEPT ![Dest] = names[c]] /\ Goto(c, "linked")
        /\ UNCHANGED <<away, parent, size, source, remote, loc, hindered, left>>
     \/ (names[Dest] # Nobody \/ names[c] = Nobody) /\ Fails(c) /\ UNCHANGED world
     \/ Breaks /\ Fails(c) /\ UNCHANGED <<local, source, remote, hindered>>
Linked(c) ==
  /\ Here(c, "linked") /\ UNCHANGED world
  /\ IF SameParent(c) /\ names[Dest] = c THEN Ends(c, "saved", TRUE) ELSE Fails(c)

(* close: the partial is removed as long as it provably is the call's. *)
\* Mutant: the partial of a file that was saved is left alone.
CloseFailed(c) ==
  /\ Here(c, "close") /\ UNCHANGED <<world, loc>>
  /\ Goto(c, IF loc[c].answer = "failed" /\ SameParent(c) /\ names[c] = c THEN "unlink" ELSE "done")
Close(c) ==
  /\ Here(c, "close") /\ UNCHANGED <<world, loc>>
  /\ Goto(c, IF loc[c].kind # "upload" /\ SameParent(c) /\ names[c] = c THEN "unlink" ELSE "done")
Unlink(c) ==
  /\ Here(c, "unlink") /\ Goto(c, "done") /\ UNCHANGED loc
  /\ \/ names' = [names EXCEPT ![c] = Nobody] /\ UNCHANGED <<away, parent, size, source, remote, hindered, left>>
     \/ Breaks /\ hindered' = hindered \union {c} /\ UNCHANGED <<local, source, remote>>

-----------------------------------------------------------------------------
(* openLocalFileSource: the open file, then the path, must be one file. *)

Now == <<Len(source), source[Len(source)]>>               \* the file at the path, and its version
Version(c) == <<loc[c].snap[1], source[loc[c].snap[1]]>>  \* of the open file
OpenSource(c) ==
  /\ Here(c, "source") /\ UNCHANGED world
  /\ loc' = [loc EXCEPT ![c].snap = Now, ![c].owned = TRUE] /\ Goto(c, "same")
SameSource(c) ==
  /\ Here(c, "same") /\ UNCHANGED world
  /\ IF Now[1] = loc[c].snap[1] THEN Goto(c, "send") /\ UNCHANGED loc ELSE Fails(c)

(* uploadOpenAiFile: the body is written chunk by chunk, and an answer     *)
(* that is there before its end stops it.                                  *)
Early(c) == loc[c].reply # "none"
Send(c) ==
  /\ Here(c, "send") /\ ~Early(c) /\ UNCHANGED world
  /\ IF loc[c].n < SourceSize
     THEN loc' = [loc EXCEPT ![c].n = @ + 1, ![c].read = @ \union {Version(c)}] /\ UNCHANGED pc
     ELSE loc' = [loc EXCEPT ![c].whole = TRUE] /\ Goto(c, "sent")
Sent(c) == Here(c, "sent") /\ ~Early(c) /\ Goto(c, "await") /\ UNCHANGED <<world, loc>>
\* mapUploadStatus, and an early success
Rejects(c) ==
  /\ UNCHANGED world
  /\ CASE loc[c].reply = "refused" -> Fails(c)
       [] loc[c].reply \in {"server error", "long error"} -> Ends(c, "failed", FALSE)
       [] loc[c].reply = "success" -> Fails(c)
RejectEarly(c) == pc[c] \in {"send", "sent"} /\ Early(c) /\ Rejects(c)
(* A lost connection and the socket and total timeouts. *)
\* Mutant: once the body is on its way, a lost connection still is a clean failure.
ConnectionLostClean(c) == pc[c] \in {"send", "sent", "await"} /\ Fails(c) /\ UNCHANGED world
ConnectionLost(c) == pc[c] \in {"send", "sent", "await"} /\ Ends(c, "failed", FALSE) /\ UNCHANGED world
(* boundedIncomingJson reads the body before it looks at the status: a     *)
(* success whose body cannot be read fails as any other answer would, and  *)
(* so does a server error whose body is above JSON_RESPONSE_LIMIT (a "long *)
(* error").                                                                *)
Answered(c) ==
  /\ Here(c, "await") /\ Early(c)
  /\ \/ loc[c].reply = "success" /\ Goto(c, "stable") /\ UNCHANGED <<world, loc>>
     \/ loc[c].reply \in {"success", "long error"} /\ Fails(c) /\ UNCHANGED world
     \/ loc[c].reply \in {"refused", "server error"} /\ Rejects(c)
StableSource(c) == Version(c) = loc[c].snap /\ Now[1] = loc[c].snap[1]
VerifyStable(c) ==
  /\ Here(c, "stable") /\ UNCHANGED world
  /\ IF StableSource(c) THEN Ends(c, "uploaded", TRUE) ELSE Ends(c, "changed", FALSE)

(* The Files API: a file is created from a whole body, perhaps when the    *)
(* client has already given up; an error says nothing was created unless   *)
(* it is a server error.                                                   *)
Creates(c) ==
  /\ loc[c].whole /\ c \notin remote /\ loc[c].reply # "refused"
  /\ remote' = remote \union {c}
  /\ UNCHANGED <<local, source, pc, loc, hindered, left>>
Replies(c) ==
  /\ pc[c] \in {"send", "sent", "await"} /\ ~Early(c) /\ UNCHANGED <<world, pc>>
  /\ \E reply \in {"server error", "long error"} \union (IF c \in remote THEN {"success"} ELSE {"refused"})
                                   \union (IF pc[c] = "send" THEN {"success"} ELSE {}) : loc' = [loc EXCEPT ![c].reply = reply]

-----------------------------------------------------------------------------
(* Other programs. *)

Interferes == left.others > 0 /\ left' = [left EXCEPT !.others = @ - 1]
TakesDest(who) ==        \* they create, replace or remove the destination
  /\ Interferes /\ who # names[Dest] /\ names' = [names EXCEPT ![Dest] = who]
  /\ UNCHANGED <<away, parent, size, source, remote, others, hindered>>
TakesPartial(c, who) ==
  /\ Interferes /\ names[c] # Nobody /\ names[c] # who /\ names' = [names EXCEPT ![c] = who]
  /\ UNCHANGED <<away, parent, size, source, remote, others, hindered>>
MovesParent ==           \* they put another directory in its place, or put it back
  /\ Interferes /\ parent' = 3 - parent /\ names' = away /\ away' = names
  /\ hindered' = hindered \union {c \in Calls : pc[c] \notin {"idle", "done"}}
  /\ UNCHANGED <<size, source, remote, others>>
ChangesSource ==         \* they write the source in place, or put another file there
  /\ "upload" \in {asks[c] : c \in DOMAIN asks} /\ Interferes
  /\ source' \in {[source EXCEPT ![Len(source)] = @ + 1], Append(source, 0)}
  /\ UNCHANGED <<local, remote, others, hindered>>

Download(c) ==
  \/ Metadata(c) \/ Open(c) \/ Create(c) \/ Created(c) \/ Fetch(c) \/ Broken(c)
  \/ Sync(c) \/ Publish(c) \/ Link(c) \/ Linked(c)
Upload(c) ==
  \/ OpenSource(c) \/ SameSource(c) \/ Send(c) \/ Sent(c) \/ RejectEarly(c) \/ ConnectionLost(c) \/ Answered(c) \/ VerifyStable(c)
Client(c) == Download(c) \/ Upload(c) \/ Close(c) \/ Unlink(c)
Next ==
  \/ \E c \in Calls :
       \/ (Begin(c) \/ Client(c) \/ Receive(c) \/ Ended(c) \/ Creates(c) \/ Replies(c)) /\ UNCHANGED asks
       \/ \E who \in {Nobody, Other} : TakesPartial(c, who)
  \/ \E who \in {Nobody, Other} : TakesDest(who)
  \/ MovesParent \/ ChangesSource

\* Every client step is a continuation of the event loop, or a timer that ends
\* a wait; nothing makes a chunk or an answer come.
Fairness == \A c \in Calls : WF_<<pc, loc>>(Client(c))

-----------------------------------------------------------------------------
(* A call's file at the destination is all that was sent, no more than the *)
(* limit, and as long as announced.  (local-file-target.ts:138-152,        *)
(* docs/file-transfer-architecture.md:1166)                                *)
PublishedIsWhole ==
  \A c \in Calls : names[Dest] = c =>
    /\ size[c] = loc[c].total /\ size[c] <= Limit
    /\ loc[c].expect \in {Unknown, size[c]}

(* A transfer never takes the destination from another file.               *)
(* (local-file-target.ts:152 "it was preserved")                           *)
NeverOverwrites ==
  [][names[Dest] # Nobody /\ (\E c \in Calls : pc'[c] # pc[c]) => names'[Dest] = names[Dest]]_vars

(* A call that is over has left no partial file, unless its removal failed *)
(* or somebody moved the directory while it ran.  Excepted is also a call  *)
(* that could not stat the file it had just created: the code does that    *)
(* outside any try and leaves the file and its handle as they are.         *)
(* (local-file-target.ts:88,107-113)                                       *)
NothingLeft ==
  \A c \in Calls \ hindered : pc[c] = "done" => names[c] # c

(* A failed upload whose failure is not said to be ambiguous has created   *)
(* no file, then or later.  Excepted is an upload the server answered with *)
(* success: where the body of that answer cannot be read, or it came       *)
(* before the client looked for it, the code fails it as if nothing were   *)
(* there.  Excepted is also a server error with a body above two megabytes *)
(* (a "long error"): its size is found wrong before its status is seen.    *)
(* (openai-files-client.ts:244-251,253,300)                                *)
SureMeansAbsent ==
  \A c \in Calls :
    loc[c].kind = "upload" /\ loc[c].answer = "failed" /\ loc[c].sure /\ loc[c].reply \notin {"success", "long error"}
      => c \notin remote

(* What an upload reports as done holds one version of the source, even    *)
(* though it is read chunk by chunk.  (local-file-source.ts:82-95)         *)
UploadedIsSnapshot ==
  \A c \in Calls : loc[c].answer = "uploaded" => loc[c].read = {loc[c].snap}

(* Every transfer that has begun is answered.  (stream-deadline.ts:10-38)  *)
EveryTransferEnds == \A c \in Calls : (pc[c] # "idle") ~> (pc[c] = "done")
=============================================================================
