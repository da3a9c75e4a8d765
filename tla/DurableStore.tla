----------------------------- MODULE DurableStore -----------------------------
(***************************************************************************)
(* src/main/durable.ts: one named state file of the durable store, as the  *)
(* plugin manager uses it (writeDurableNow).  A write is handed over by    *)
(* reference and serialized only when its turn in the queue comes, so a    *)
(* slot names WHICH array it holds: the caller's live one, or one that the *)
(* caller has since replaced.                                              *)
(*                                                                         *)
(* A slot is `latest` while no newer generation has been queued; the       *)
(* numbers themselves are not kept.                                        *)
(***************************************************************************)
EXTENDS Naturals, Sequences

CONSTANT MaxFaults   \* how many writes of the file may fail

VARIABLES
  disk,     \* what the file holds
  pend,     \* pending.get(name): the newest value not yet known to be on disk
  wq,       \* the slots behind inFlight, oldest first
  flush,    \* the slot being written: its content is in the temporary file
  retry,    \* timers.has(name): a retry is scheduled
  faults

storeVars == <<disk, pend, wq, flush, retry, faults>>

(* The value of a slot: the live array, or a replaced one, which nothing changes any more. *)
Live == [live |-> TRUE, ids |-> {}]
Replaced(S) == [live |-> FALSE, ids |-> S]
None == [live |-> FALSE, ids |-> {"none"}]

Nobody == 0
Idle == [who |-> Nobody, latest |-> FALSE, content |-> <<>>, busy |-> FALSE]

Outdated(q) == [i \in DOMAIN q |-> [q[i] EXCEPT !.latest = FALSE]]

(* writeDurableNow up to its await: a new generation, flushed in its turn. *)
WriteNow(who) ==
  /\ pend' = Live
  /\ retry' = FALSE
  /\ wq' = Append(Outdated(wq), [who |-> who, latest |-> TRUE, val |-> Live])
  /\ flush' = [flush EXCEPT !.latest = FALSE]
  /\ UNCHANGED <<disk, faults>>

(* The caller gives its variable another array: the queued slots keep the old one. *)
Kept(v, S) == IF v.live THEN Replaced(S) ELSE v
Detach(S) ==
  /\ pend' = Kept(pend, S)
  /\ wq' = [i \in DOMAIN wq |-> [wq[i] EXCEPT !.val = Kept(@, S)]]
  /\ UNCHANGED <<disk, flush, retry, faults>>

(* flushOne: JSON.stringify and the write of the temporary file. *)
FlushBegin(content) ==
  /\ ~flush.busy
  /\ wq # <<>>
  /\ flush' = [who |-> Head(wq).who, latest |-> Head(wq).latest,
               content |-> content, busy |-> TRUE]
  /\ wq' = Tail(wq)
  /\ UNCHANGED <<disk, pend, retry, faults>>

Settled(latest) == IF latest THEN None ELSE pend

(* flushOne: the rename; only its own generation is no longer pending. *)
FlushEnd ==
  /\ flush.busy
  /\ disk' = flush.content
  /\ pend' = Settled(flush.latest)
  /\ flush' = Idle
  /\ UNCHANGED <<wq, retry, faults>>

(* flushOne fails; scheduleRetry keeps the newest generation recoverable. *)
FlushFail ==
  /\ flush.busy
  /\ faults < MaxFaults
  /\ faults' = faults + 1
  /\ retry' = (retry \/ pend # None)
  /\ flush' = Idle
  /\ UNCHANGED <<disk, pend, wq>>

(* The retry timer: the newest value once more, under the same generation. *)
RetryFires ==
  /\ retry
  /\ retry' = FALSE
  /\ wq' = IF pend = None THEN wq
           ELSE Append(wq, [who |-> Nobody, latest |-> TRUE, val |-> pend])
  /\ UNCHANGED <<disk, pend, flush, faults>>
===============================================================================
