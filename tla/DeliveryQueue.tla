---------------------------- MODULE DeliveryQueue ----------------------------
(***************************************************************************)
(* One outbound delivery intent in the write-ahead queue: the live send    *)
(* that enqueued it, the drains and startup recoveries that replay it, the *)
(* row in SQLite and the process that may die between any two steps        *)
(* (src/src/infra/outbound/deliver.ts, delivery-queue-storage.ts,          *)
(* delivery-queue-recovery.ts, src/src/infra/delivery-queue-sqlite.ts).    *)
(*                                                                         *)
(* A SQLite call is synchronous; it takes effect or throws.  A step makes  *)
(* at most one call that takes effect, so a crash can fall between any two *)
(* writes.  The platform and the adapter are external: a send may be       *)
(* accepted and its answer lost, and an adapter that reconciles an unknown *)
(* send answers truthfully or not at all.                                  *)
(***************************************************************************)
EXTENDS Naturals, FiniteSets

CONSTANTS
    Worker,         \* drain keys and startup recovery: one call at a time each
    Live,           \* the send that created the intent
    MaxPayloads,    \* bound: payloads of an intent
    MaxRetries,     \* MAX_RETRIES
    MaxCrashes,     \* bound: process deaths
    MaxFaults,      \* bound: SQLite calls that throw
    IdentitylessSends   \* the adapter may return a result without identity

ASSUME DeliveryBounds ==
    /\ MaxPayloads \in Nat \ {0} /\ MaxRetries \in Nat \ {0}
    /\ MaxCrashes \in Nat /\ MaxFaults \in Nat
    /\ IdentitylessSends \in BOOLEAN
    /\ Live \notin Worker

VARIABLES
    row,        \* the row of delivery_queue_entries
    intent,     \* what was enqueued
    claimed,    \* entriesInProgress holds the entry's id
    run,        \* run[o]: progress of owner o
    live,       \* progress of the live caller
    accepted,   \* accepted[p]: times the platform accepted payload p
    waived,     \* payloads given up on purpose, or not in the intent
    aborted,    \* the caller's abort signal stopped the live send
    crashes, faults

vars == <<row, intent, claimed, run, live, accepted, waived, aborted,
          crashes, faults>>

Owner == Worker \cup {Live}
Payload == 1..MaxPayloads
ErrorKind == {"none", "plain", "proven", "permanent", "abort"}

(* exact: requireUnknownSendReconciliation, refused for several payloads *)
Intent == {i \in [payloads : Payload, policy : {"required", "best_effort"},
                  bestEffort : BOOLEAN, exact : BOOLEAN] :
             i.exact => i.payloads = 1}

Row == [status : {"absent", "pending", "failed", "acked"},
        recoveryState : {"none", "started", "unknown"},
        retryCount : 0..MaxRetries]

(* loaded: in a drain's list; claimed: being checked; replay: admitted; then *)
(* the steps of one payload and the two of the cleanup                       *)
Pc == {"idle", "loaded", "claimed", "replay", "payload", "start", "dispatch",
       "platform", "result", "after", "finish", "final"}

Run == [pc : Pc, p : Payload, queued : BOOLEAN, entry : Row,
        pre : {"none", "marked", "acked"},
        post : {"none", "marked", "acked", "failed"},
        got : BOOLEAN,          \* deliveredResults is not empty
        failed : BOOLEAN,       \* a best-effort payload failed
        allProven : BOOLEAN,    \* and each failure proves nothing was sent
        err : ErrorKind]

absentRow == [status |-> "absent", recoveryState |-> "none", retryCount |-> 0]

idleRun == [pc |-> "idle", p |-> 1, queued |-> TRUE, entry |-> absentRow,
            pre |-> "none", post |-> "none", got |-> FALSE, failed |-> FALSE,
            allProven |-> TRUE, err |-> "none"]

Wanted == 1..intent.payloads

-----------------------------------------------------------------------------
(* SQLite calls.  An outcome is what the call leaves behind and how many   *)
(* of its statements threw.                                                *)

Outcome(answer, r, thrown) ==
    IF faults + thrown > MaxFaults THEN {}
    ELSE {[answer |-> answer, row |-> r, faults |-> faults + thrown]}

Pending == row.status = "pending"

(* updateDeliveryQueueEntry: ENOENT unless the row is pending *)
Update(r) ==
    IF Pending THEN Outcome("ok", r, 0) \cup Outcome("threw", row, 1)
    ELSE Outcome("threw", row, 0)

(* ackDelivery: deletes the row while it is pending, silent otherwise *)
Deleted == IF Pending THEN [row EXCEPT !.status = "acked"] ELSE row
AckDelivery == Outcome("ok", Deleted, 0) \cup Outcome("threw", row, 1)

(* moveToFailed, and failPendingDelivery under the claim *)
MoveToFailed == Update([row EXCEPT !.status = "failed"])

FailedUncounted == row

Failed == [row EXCEPT !.retryCount = @ + 1]
FailedBeforePlatformSend == [Failed EXCEPT !.recoveryState = "none"]
FailedAfterPlatformSend == [Failed EXCEPT !.recoveryState = "unknown"]

FailDelivery == Update(Failed)
FailDeliveryBeforePlatformSend == Update(FailedBeforePlatformSend)
FailDeliveryAfterPlatformSend == Update(FailedAfterPlatformSend)

MarkAttemptStarted == Update([row EXCEPT !.recoveryState = "started"])
MarkDispatched == Update([row EXCEPT !.recoveryState = "started"])

(* persistQueuedPreSendState *)
PersistPreSendState ==
    IF intent.policy = "required" THEN
      {[x EXCEPT !.answer = IF @ = "ok" THEN "marked" ELSE "threw"] :
         x \in MarkAttemptStarted}
    ELSE IF Pending THEN
      Outcome("marked", [row EXCEPT !.recoveryState = "started"], 0)
        \cup Outcome("acked", Deleted, 1) \cup Outcome("threw", row, 2)
    ELSE Outcome("acked", row, 0) \cup Outcome("threw", row, 1)

(* persistQueuedPostSendState and persistRecoveredPostSendState: the       *)
(* marker, else the deletion, else the failure that keeps the evidence     *)
PersistPostSendState ==
    IF Pending THEN
      Outcome("marked", [row EXCEPT !.recoveryState = "unknown"], 0)
        \cup Outcome("acked", Deleted, 1)
        \cup Outcome("failed", FailedAfterPlatformSend, 2)
        \cup Outcome("threw", row, 3)
    ELSE Outcome("acked", row, 0) \cup Outcome("threw", row, 1)

Apply(x) == row' = x.row /\ faults' = x.faults

-----------------------------------------------------------------------------
Init ==
    /\ row = absentRow
    /\ intent \in Intent
    /\ claimed = FALSE
    /\ run = [o \in Owner |-> idleRun]
    /\ live = "new"
    /\ accepted = [p \in Payload |-> 0]
    /\ waived = Payload \ Wanted /\ aborted = FALSE
    /\ crashes = 0 /\ faults = 0

(* The owner leaves the entry: the finally that deletes the claim. *)
Release(o) ==
    /\ run' = [run EXCEPT ![o] = idleRun]
    /\ claimed' = FALSE
    /\ live' = IF o = Live THEN "done" ELSE live

Keep(o, r) == run' = [run EXCEPT ![o] = r] /\ UNCHANGED <<claimed, live>>

WaiveIf(cond) == waived' = IF cond THEN Payload ELSE waived

-----------------------------------------------------------------------------
(* The live send: deliverOutboundPayloadsInternal *)

EnqueueDelivery ==
    /\ live = "new"
    /\ row' = [absentRow EXCEPT !.status = "pending"]
    /\ live' = "enqueued"
    /\ UNCHANGED <<intent, claimed, run, accepted, waived, aborted, crashes,
                   faults>>

(* The queue write throws: refused when required, else sent unrecorded. *)
EnqueueThrows ==
    /\ live = "new" /\ faults < MaxFaults
    /\ faults' = faults + 1
    /\ IF intent.policy = "required"
       THEN live' = "done" /\ UNCHANGED <<run, waived>>
       ELSE /\ live' = "own"
            /\ run' = [run EXCEPT ![Live] =
                         [idleRun EXCEPT !.pc = "payload", !.queued = FALSE]]
            /\ waived' = Payload
    /\ UNCHANGED <<row, intent, claimed, accepted, aborted, crashes>>

(* withActiveDeliveryClaim: a drain that was faster keeps the entry. *)
LiveClaims ==
    /\ live = "enqueued"
    /\ IF claimed THEN live' = "done" /\ UNCHANGED <<claimed, run>>
       ELSE /\ live' = "own" /\ claimed' = TRUE
            /\ run' = [run EXCEPT ![Live] = [idleRun EXCEPT !.pc = "payload"]]
    /\ UNCHANGED <<row, intent, accepted, waived, aborted, crashes, faults>>

-----------------------------------------------------------------------------
(* Drain and recovery: drainPendingDeliveries, recoverPendingDeliveries *)

LoadPendingDeliveries(w) ==
    /\ run[w].pc = "idle" /\ Pending
    /\ Keep(w, [idleRun EXCEPT !.pc = "loaded", !.entry = row])
    /\ UNCHANGED <<row, intent, accepted, waived, aborted, crashes, faults>>

ClaimWithoutReload(w) ==
    /\ run[w].pc = "loaded"
    /\ IF claimed THEN Keep(w, idleRun)
       ELSE /\ claimed' = TRUE /\ UNCHANGED live
            /\ run' = [run EXCEPT ![w].pc = "claimed"]
    /\ UNCHANGED <<row, intent, accepted, waived, aborted, crashes, faults>>

ReloadWithoutClaim(w) ==
    /\ run[w].pc = "loaded"
    /\ IF ~Pending THEN Keep(w, idleRun)
       ELSE /\ claimed' = TRUE /\ UNCHANGED live
            /\ run' = [run EXCEPT ![w].pc = "claimed", ![w].entry = row]
    /\ UNCHANGED <<row, intent, accepted, waived, aborted, crashes, faults>>

(* Claim, then read the entry again; it may be gone. *)
ClaimAndReload(w) ==
    /\ run[w].pc = "loaded"
    /\ IF claimed \/ ~Pending
       THEN Keep(w, idleRun)
       ELSE /\ claimed' = TRUE /\ UNCHANGED live
            /\ run' = [run EXCEPT ![w].pc = "claimed", ![w].entry = row]
    /\ UNCHANGED <<row, intent, accepted, waived, aborted, crashes, faults>>

(* The live send asks for the claim two microtasks after its insert.  In   *)
(* between a drain can load and claim the entry; its own next step comes   *)
(* after that.                                                             *)
PastEnqueue == live # "enqueued"

(* The channel refuses the intent for good, or its retries are used up. *)
DeadLetterEntry(w) ==
    /\ run[w].pc = "claimed" /\ PastEnqueue
    /\ \E x \in MoveToFailed : Apply(x)
    /\ Release(w)
    /\ UNCHANGED <<intent, accepted, waived, aborted, crashes>>

(* Not selected any more, backoff not over, or the time budget is spent. *)
DeferEntry(w) ==
    /\ run[w].pc = "claimed" /\ PastEnqueue
    /\ run[w].entry.retryCount < MaxRetries
    /\ Release(w)
    /\ UNCHANGED <<row, intent, accepted, waived, aborted, crashes, faults>>

AdmitEntry(w) ==
    /\ run[w].pc = "claimed" /\ PastEnqueue
    /\ run[w].entry.retryCount < MaxRetries
    /\ Keep(w, [run[w] EXCEPT !.pc = "replay"])
    /\ UNCHANGED <<row, intent, accepted, waived, aborted, crashes, faults>>

(* reconcileUnknownQueuedDelivery: the adapter's truthful answers, null    *)
(* and a non-retryable failure being one                                   *)
Reconciliations ==
    {"null", "retryable"}
      \cup (IF \A p \in Wanted : accepted[p] > 0 THEN {"sent"} ELSE {})
      \cup (IF \A p \in Wanted : accepted[p] = 0 THEN {"not_sent"} ELSE {})

(* drainQueuedEntry, up to the call of deliver *)
ReplayStarts(w) ==
    /\ run[w].pc = "replay"
    /\ run[w].entry.recoveryState = "none"
    /\ Keep(w, [run[w] EXCEPT !.pc = "payload"])
    /\ UNCHANGED <<row, intent, accepted, waived, aborted, crashes, faults>>

ReconciledSent ==
    {x \in AckDelivery : x.answer = "ok"}
      \cup (IF Pending THEN Outcome("failed", Failed, 1) ELSE {})
      \cup Outcome("threw", row, 2)

ReconcileEntry(w) ==
    /\ run[w].pc = "replay"
    /\ run[w].entry.recoveryState # "none"
    /\ \E answer \in Reconciliations :
         IF answer = "not_sent" /\ run[w].entry.recoveryState = "started"
         THEN Keep(w, [run[w] EXCEPT !.pc = "payload"])
              /\ UNCHANGED <<row, faults>>
         ELSE /\ \E x \in CASE answer = "sent" -> ReconciledSent
                            [] answer = "retryable" -> FailDelivery
                            [] OTHER -> MoveToFailed : Apply(x)
              /\ Release(w)
    /\ UNCHANGED <<intent, accepted, waived, aborted, crashes>>

-----------------------------------------------------------------------------
(* One payload: deliverOutboundPayloadsCore and its callbacks *)

NextPayload(r) ==
    IF r.p < intent.payloads THEN [r EXCEPT !.pc = "payload", !.p = @ + 1]
    ELSE [r EXCEPT !.pc = "finish"]

PayloadErrorLastDecides(r, kind) ==
    IF intent.bestEffort
    THEN NextPayload([r EXCEPT !.failed = TRUE, !.allProven = kind = "proven"])
    ELSE [r EXCEPT !.err = kind, !.pc = "finish"]

(* The catch of the payload loop: best effort goes on, otherwise it throws. *)
PayloadError(r, kind) ==
    IF intent.bestEffort
    THEN NextPayload([r EXCEPT !.failed = TRUE,
                               !.allProven = @ /\ kind = "proven"])
    ELSE [r EXCEPT !.err = kind, !.pc = "finish"]

(* throwIfAborted, the first thing done for a payload of the live send *)
Aborting(o) == o = Live /\ aborted

SuppressPayload(o) ==
    /\ run[o].pc = "payload" /\ ~Aborting(o)
    /\ waived' = waived \cup {run[o].p}
    /\ Keep(o, NextPayload(run[o]))
    /\ UNCHANGED <<row, intent, accepted, aborted, crashes, faults>>

(* A hook or the renderer throws; or the caller's abort signal is set. *)
PayloadThrows(o) ==
    /\ run[o].pc = "payload"
    /\ \/ /\ ~Aborting(o)
          /\ Keep(o, PayloadError(run[o], "plain"))
          /\ UNCHANGED aborted
       \/ /\ o = Live
          /\ aborted' = TRUE
          /\ Keep(o, PayloadError(run[o], "abort"))
    /\ UNCHANGED <<row, intent, accepted, waived, crashes, faults>>

PreparePayload(o) ==
    /\ run[o].pc = "payload" /\ ~Aborting(o)
    /\ Keep(o, [run[o] EXCEPT !.pc = "start"])
    /\ UNCHANGED <<row, intent, accepted, waived, aborted, crashes, faults>>

(* onPlatformSendStart: the first send of a run records its attempt. *)
PlatformSendStart(o) ==
    LET r == run[o] IN
    /\ r.pc = "start"
    /\ IF r.queued /\ ~intent.exact /\ r.pre = "none"
       THEN \E x \in PersistPreSendState :
              /\ Apply(x)
              /\ WaiveIf(x.answer = "acked")
              /\ Keep(o, CASE x.answer = "threw" -> PayloadError(r, "plain")
                          [] x.answer = "marked" ->
                               [r EXCEPT !.pre = "marked", !.pc = "dispatch"]
                          [] OTHER ->
                               [r EXCEPT !.pre = "acked", !.pc = "dispatch",
                                         !.post = IF o = Live THEN "acked"
                                                  ELSE @])
       ELSE /\ Keep(o, [r EXCEPT !.pc = "dispatch"])
            /\ UNCHANGED <<row, waived, faults>>
    /\ UNCHANGED <<intent, accepted, aborted, crashes>>

(* onPlatformSendDispatch: an adapter may call it before each send, and    *)
(* must when the intent is exact; only then does its failure stop the send *)
PlatformSendDispatch(o) ==
    LET r == run[o] IN
    /\ r.pc = "dispatch"
    /\ \/ /\ r.queued /\ r.pre # "acked"
          /\ \E x \in MarkDispatched :
               /\ Apply(x)
               /\ Keep(o, IF x.answer = "ok"
                          THEN [r EXCEPT !.pre = "marked", !.pc = "platform"]
                          ELSE IF intent.exact THEN PayloadError(r, "plain")
                          ELSE [r EXCEPT !.pc = "platform"])
       \/ /\ ~(r.queued /\ intent.exact)
          /\ Keep(o, [r EXCEPT !.pc = "platform"])
          /\ UNCHANGED <<row, faults>>
    /\ UNCHANGED <<intent, accepted, waived, aborted, crashes>>

(* The platform takes the message; its answer may be lost or carry no      *)
(* identity, which deliver.ts records as a payload without results.        *)
PlatformAccepts(o) ==
    /\ run[o].pc = "platform"
    /\ accepted' = [accepted EXCEPT ![run[o].p] = @ + 1]
    /\ \/ Keep(o, [run[o] EXCEPT !.pc = "result"])
       \/ Keep(o, PayloadError(run[o], "plain"))
       \/ IdentitylessSends /\ Keep(o, [run[o] EXCEPT !.pc = "after"])
    /\ UNCHANGED <<row, intent, waived, aborted, crashes, faults>>

(* The platform refuses, or the connection fails before anything is sent. *)
PlatformRejects(o) ==
    /\ run[o].pc = "platform"
    /\ \E kind \in {"plain", "proven", "permanent"} :
         Keep(o, PayloadError(run[o], kind))
    /\ UNCHANGED <<row, intent, accepted, waived, aborted, crashes, faults>>

(* onDeliveryResult: the first result of a run is recorded in the row. *)
DeliveryResult(o) ==
    LET r == [run[o] EXCEPT !.got = TRUE] IN
    /\ run[o].pc = "result"
    /\ IF r.queued /\ r.post = "none"
       THEN \E x \in PersistPostSendState :
              /\ Apply(x)
              /\ WaiveIf(x.answer = "acked")
              /\ Keep(o, IF x.answer = "threw" THEN PayloadError(r, "plain")
                         ELSE [r EXCEPT !.post = x.answer, !.pc = "after"])
       ELSE Keep(o, [r EXCEPT !.pc = "after"]) /\ UNCHANGED <<row, waived, faults>>
    /\ UNCHANGED <<intent, accepted, aborted, crashes>>

(* Pinning and notifying may still throw. *)
AfterDeliveredPayload(o) ==
    /\ run[o].pc = "after"
    /\ \/ Keep(o, NextPayload(run[o]))
       \/ Keep(o, PayloadError(run[o], "plain"))
    /\ UNCHANGED <<row, intent, accepted, waived, aborted, crashes, faults>>

-----------------------------------------------------------------------------
(* Cleanup after the live send: deliverOutboundPayloadsWithQueueCleanup *)

Clean(r) == r.err = "none" /\ ~r.failed

(* First the evidence: results that no earlier step could record. *)
LiveRecordsEvidence ==
    LET r == run[Live] IN
    /\ r.pc = "finish"
    /\ IF r.queued /\ r.err # "abort" /\ r.post = "none"
            /\ (r.got \/ (Clean(r) /\ r.pre = "marked"))
       THEN \E x \in PersistPostSendState :
              /\ Apply(x)
              /\ WaiveIf(x.answer = "acked")
              /\ IF x.answer = "threw" THEN Release(Live)
                 ELSE Keep(Live, [r EXCEPT !.post = x.answer, !.pc = "final"])
       ELSE Keep(Live, [r EXCEPT !.pc = "final"]) /\ UNCHANGED <<row, waived, faults>>
    /\ UNCHANGED <<intent, accepted, aborted, crashes>>

(* The acknowledgement of a clean run, and what replaces it if it throws *)
LiveAck(r) ==
    {x \in AckDelivery : x.answer = "ok"}
      \cup (IF ~Pending THEN Outcome("threw", row, 1)
            ELSE Outcome("failed", IF r.got \/ r.pre # "none"
                                   THEN FailedAfterPlatformSend ELSE Failed, 1))
      \cup Outcome("threw", row, 2)

(* The last write of the live send; Nothing where it leaves the row alone. *)
Nothing == Outcome("ok", row, 0)

LiveFinalWrite(r) ==
    CASE ~r.queued -> Nothing
      [] r.queued /\ r.err = "abort" -> AckDelivery
      [] r.queued /\ Clean(r) ->
           IF r.post \in {"acked", "failed"} \/ r.pre = "acked" THEN Nothing
           ELSE LiveAck(r)
      [] r.queued /\ r.err = "none" /\ r.failed ->
           IF r.post \in {"acked", "failed"} THEN Nothing
           ELSE IF ~r.got /\ r.allProven THEN FailDeliveryBeforePlatformSend
           ELSE FailDelivery
      [] r.queued /\ r.err \in {"plain", "proven", "permanent"} ->
           IF r.got
           THEN IF r.post = "marked" THEN FailDeliveryAfterPlatformSend
                ELSE Nothing
           ELSE IF r.pre = "acked" THEN Nothing
           ELSE IF r.err = "proven" THEN FailDeliveryBeforePlatformSend
           ELSE FailDelivery

LiveFinishes ==
    /\ run[Live].pc = "final"
    /\ \E x \in LiveFinalWrite(run[Live]) : Apply(x)
    /\ WaiveIf(run[Live].err = "abort")
    /\ Release(Live)
    /\ UNCHANGED <<intent, accepted, aborted, crashes>>

-----------------------------------------------------------------------------
(* Cleanup after a replay: drainQueuedEntry after the call of deliver.  A  *)
(* write that throws inside its try block is handled as a delivery error.  *)

Rethrown(r) == [r EXCEPT !.err = "plain", !.pc = "finish"]

ReplayRecordsEvidence(w) ==
    LET r == run[w] IN
    /\ r.pc = "finish"
    /\ IF r.got /\ r.post = "none"
       THEN \E x \in PersistPostSendState :
              /\ Apply(x)
              /\ WaiveIf(x.answer = "acked")
              /\ IF x.answer # "threw"
                 THEN Keep(w, [r EXCEPT !.post = x.answer, !.pc = "final"])
                 ELSE IF r.err = "none" THEN Keep(w, Rethrown(r))
                 ELSE Release(w)
       ELSE Keep(w, [r EXCEPT !.pc = "final"]) /\ UNCHANGED <<row, waived, faults>>
    /\ UNCHANGED <<intent, accepted, aborted, crashes>>

(* Acknowledge, or record the failure to; "rethrow": that threw as well. *)
ReplayAck(r) ==
    {x \in AckDelivery : x.answer = "ok"}
      \cup (IF ~Pending THEN Outcome("rethrow", row, 1)
            ELSE Outcome("failed", IF r.got THEN FailedAfterPlatformSend
                                   ELSE Failed, 1)
                   \cup Outcome("rethrow", row, 2))

ReplayFinalWrite(r) ==
    CASE Clean(r) ->
           IF r.post \in {"acked", "failed"} THEN Nothing ELSE ReplayAck(r)
      [] r.err = "none" /\ r.failed ->
           IF r.got THEN Nothing
           ELSE {[x EXCEPT !.answer = IF @ = "ok" THEN @ ELSE "rethrow"] :
                   x \in IF r.allProven THEN FailDeliveryBeforePlatformSend
                         ELSE FailDelivery}
      [] r.err # "none" ->
           IF r.got \/ ~Pending THEN Nothing
           ELSE IF r.err = "permanent" THEN MoveToFailed
           ELSE IF r.err = "proven" THEN FailDeliveryBeforePlatformSend
           ELSE FailDelivery

ReplayFinishes(w) ==
    /\ run[w].pc = "final"
    /\ \E x \in ReplayFinalWrite(run[w]) :
         /\ Apply(x)
         /\ IF x.answer = "rethrow" THEN Keep(w, Rethrown(run[w]))
            ELSE Release(w)
    /\ UNCHANGED <<intent, accepted, waived, aborted, crashes>>

-----------------------------------------------------------------------------
(* The process dies: claims and runs are gone, the row stays. *)
Crash ==
    /\ crashes < MaxCrashes /\ live # "new"
    /\ crashes' = crashes + 1
    /\ run' = [o \in Owner |-> idleRun]
    /\ claimed' = FALSE
    /\ live' = "done"
    /\ UNCHANGED <<row, intent, accepted, waived, aborted, faults>>

PayloadStep(o) ==
    \/ SuppressPayload(o) \/ PayloadThrows(o) \/ PreparePayload(o)
    \/ PlatformSendStart(o) \/ PlatformSendDispatch(o)
    \/ PlatformAccepts(o) \/ PlatformRejects(o)
    \/ DeliveryResult(o) \/ AfterDeliveredPayload(o)

LiveStep ==
    \/ EnqueueDelivery \/ EnqueueThrows \/ LiveClaims
    \/ PayloadStep(Live) \/ LiveRecordsEvidence \/ LiveFinishes

(* What a drain does once it is called, the check's outcome apart *)
WorkerStep(w) ==
    \/ ClaimAndReload(w) \/ DeadLetterEntry(w) \/ DeferEntry(w)
    \/ ReplayStarts(w) \/ ReconcileEntry(w)
    \/ PayloadStep(w) \/ ReplayRecordsEvidence(w) \/ ReplayFinishes(w)

Next ==
    \/ LiveStep
    \/ \E w \in Worker : LoadPendingDeliveries(w) \/ AdmitEntry(w)
                           \/ WorkerStep(w)
    \/ Crash

Spec == Init /\ [][Next]_vars

(* Calls run to their end; drains keep coming (a channel that reconnects   *)
(* or polls); an entry that is claimed again and again is past its backoff *)
(* some time.                                                              *)
Fairness ==
    /\ WF_vars(LiveStep)
    /\ \A w \in Worker : /\ WF_vars(LoadPendingDeliveries(w))
                          /\ WF_vars(WorkerStep(w))
                          /\ SF_vars(AdmitEntry(w))

LiveSpec == Spec /\ Fairness

-----------------------------------------------------------------------------
TypeOK ==
    /\ row \in Row /\ intent \in Intent /\ claimed \in BOOLEAN
    /\ run \in [Owner -> Run]
    /\ live \in {"new", "enqueued", "own", "done"}
    /\ accepted \in [Payload -> Nat] /\ waived \subseteq Payload
    /\ aborted \in BOOLEAN
    /\ crashes \in 0..MaxCrashes /\ faults \in 0..MaxFaults

(* The promise of the queue for one intent, for any interleaving of the    *)
(* live send with drains, any SQLite call throwing and any crash.          *)
Fate == CASE row.status \in {"absent", "pending"} -> "open"
          [] row.status = "acked" -> "settled"
          [] row.status = "failed" -> "dead"

Abstract == INSTANCE DeliveryIntent WITH
              Payload <- Payload, fate <- Fate,
              copies <- accepted, excused <- waived

KeepsPromise == Abstract!Spec

(* Only the claim keeps a live send and the drains off each other's entry: *)
(* at most one owner is at work on the row, and the claim is held exactly  *)
(* then.  An unrecorded send works on no row.                              *)
AtWork(o) == run[o].pc \notin {"idle", "loaded"} /\ run[o].queued

SoleOwner ==
    /\ \A o1, o2 \in Owner : AtWork(o1) /\ AtWork(o2) => o1 = o2
    /\ claimed <=> \E o \in Owner : AtWork(o)

(* A drain decides on the entry it read under the claim, and that is still *)
(* the row: neither its list nor a wait for its turn left it stale.        *)
FreshEntry ==
    \A w \in Worker : run[w].pc \in {"claimed", "replay"} =>
      Pending /\ run[w].entry = row

(* The process may die at any point: whenever the platform has accepted a  *)
(* payload and the row would still be replayed, the row says so.           *)
AcceptanceLeavesTrace ==
    Pending /\ (\E p \in Payload : accepted[p] > 0) =>
      row.recoveryState # "none"

(* The retry limit is only tested at the start of a replay: a replay that  *)
(* leaves the entry pending has used up a retry, or has sent something and *)
(* so cannot be repeated blindly, or could not write to the database.      *)
ReplayIsPaidFor ==
    [][\A w \in Worker :
         run[w].pc = "final" /\ ~AtWork(w)' /\ crashes' = crashes
           /\ row'.status = "pending"
           => \/ row'.retryCount > run[w].entry.retryCount
              \/ \E p \in Payload : accepted[p] > 0
              \/ faults' > faults]_vars

(* Every intent leaves the queue, acknowledged or as a dead letter. *)
Settles == Pending ~> ~Pending

(* Evidence that a send completed is never turned back into the weaker     *)
(* state of an attempt, which recovery may replay ("Never overwrite        *)
(* concrete send evidence with a generic retry state").                    *)
EvidenceSurvives ==
    [][Pending /\ row.recoveryState = "unknown" /\ row'.status = "pending"
         => row'.recoveryState = "unknown"]_vars

(* "Record a failed attempt whose retry provably cannot duplicate a        *)
(* recipient-visible send": no payload is accepted twice.                  *)
AtMostOnce == \A p \in Payload : accepted[p] <= 1

(* "acks the queue entry when delivery is aborted": an aborted delivery    *)
(* that the live send has finished with is not pending any more.           *)
AbortAcks ==
    [][aborted /\ run[Live].pc = "final" /\ run'[Live].pc = "idle"
         /\ crashes' = crashes /\ faults' = 0 => row'.status # "pending"]_vars

(* The in-process claim, on which everything else rests: one owner at a    *)
(* time, and a drain that looked at the row after it got the claim         *)
(* (delivery-queue-recovery.ts:164).                                       *)
ClaimInv == TypeOK /\ SoleOwner /\ FreshEntry

(* No entry is replayed for ever (delivery-queue-recovery.ts:949): each    *)
(* replay is counted, so every intent leaves the queue.                    *)
ReplaysEnd == ReplayIsPaidFor /\ Settles
=============================================================================
