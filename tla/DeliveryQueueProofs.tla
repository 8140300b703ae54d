------------------------- MODULE DeliveryQueueProofs -------------------------
(***************************************************************************)
(* Theorems about DeliveryQueue for any drains, payloads, retries, crashes *)
(* and failing database calls.  The first inductive invariant (ClaimParts) *)
(* is about the claim and the row: who may be at work in which state of    *)
(* the row, and what a run knows about the row it works on (RunMatchesRow).*)
(* The second (PromiseParts) adds what the platform has accepted by then;  *)
(* it rests on adapters that return an identity with every result.         *)
(***************************************************************************)
EXTENDS DeliveryQueue, TLAPS

USE DeliveryBounds

SendPc == {"payload", "start", "dispatch", "platform", "result", "after",
           "finish", "final"}

Busy(o) == run[o].pc \notin {"idle", "loaded"}

(* A drain has done nothing but read the entry. *)
Untouched(r) ==
    /\ r.queued = TRUE /\ r.p = 1 /\ r.pre = "none" /\ r.post = "none"
    /\ r.got = FALSE /\ r.failed = FALSE /\ r.allProven = TRUE /\ r.err = "none"

WorkerRuns ==
    \A w \in Worker : /\ run[w].queued = TRUE
                      /\ run[w].pc \notin SendPc => Untouched(run[w])
                      /\ run[w].pc = "replay" => run[w].entry.retryCount < MaxRetries

LiveRuns ==
    /\ run[Live].pc \in {"idle"} \cup SendPc
    /\ live = "own" <=> run[Live].pc # "idle"

freshRow == [absentRow EXCEPT !.status = "pending"]

(* Until the live send has asked for its claim nobody has touched the row. *)
RowIsFresh ==
    /\ live = "new" => row = absentRow
    /\ live = "enqueued" => row = freshRow
    /\ live \in {"new", "enqueued"} =>
         \A w \in Worker : run[w].pc \in {"idle", "loaded", "claimed"}
    /\ row.status = "absent" => \A w \in Worker : run[w].pc = "idle"

(* What a run under way knows about the row: the retry it may still count, *)
(* whether the row is gone, and that a failure is counted once.            *)
RunMatchesRow(r, theRow) ==
    /\ r.queued => theRow.status \in {"pending", "acked"}
    /\ ~r.queued => theRow.status = "absent" /\ r.pre = "none" /\ r.post = "none"
    /\ r.pre = "acked" \/ r.post = "acked" => theRow.status = "acked"
    /\ r.p <= intent.payloads
    /\ r.entry.retryCount < MaxRetries
    /\ theRow.status = "pending" /\ r.post = "failed" =>
         theRow.retryCount = r.entry.retryCount + 1
    /\ theRow.status = "pending" /\ r.post # "failed" =>
         theRow.retryCount = r.entry.retryCount
    /\ r.post = "failed" => r.got \/ (r.pc = "final" /\ Clean(r))

RunsMatchRow ==
    \A o \in Owner : run[o].pc \in SendPc => RunMatchesRow(run[o], row)

ClaimParts ==
    /\ TypeOK /\ SoleOwner /\ FreshEntry /\ WorkerRuns /\ LiveRuns
    /\ RowIsFresh /\ RunsMatchRow

-----------------------------------------------------------------------------
(* Types of the records a step builds. *)

LEMMA OwnerFacts == Live \in Owner /\ Worker \subseteq Owner
                    /\ \A o \in Owner : o = Live \/ o \in Worker
    BY DEF Owner

LEMMA PayloadFacts == 1 \in Payload /\ Payload \subseteq Nat
    BY DEF Payload

LEMMA IdleRunType == idleRun \in Run /\ absentRow \in Row /\ freshRow \in Row
<1>1. absentRow \in Row /\ freshRow \in Row
    BY DEF absentRow, Row, freshRow
<1> QED BY <1>1, PayloadFacts DEF idleRun, Run, Pc, ErrorKind

(* The fields of a run, one by one. *)
LEMMA RunFields ==
    ASSUME NEW r \in Run
    PROVE  /\ r.pc \in Pc /\ r.p \in Payload /\ r.p \in Nat /\ r.queued \in BOOLEAN
           /\ r.entry \in Row /\ r.pre \in {"none", "marked", "acked"}
           /\ r.post \in {"none", "marked", "acked", "failed"}
           /\ r.got \in BOOLEAN /\ r.failed \in BOOLEAN
           /\ r.allProven \in BOOLEAN /\ r.err \in ErrorKind
    BY PayloadFacts DEF Run

LEMMA RowFields ==
    ASSUME NEW x \in Row
    PROVE  /\ x.status \in {"absent", "pending", "failed", "acked"}
           /\ x.recoveryState \in {"none", "started", "unknown"}
           /\ x.retryCount \in Nat /\ x.retryCount <= MaxRetries
    BY DEF Row

(* Going on to the next payload, or to the cleanup after the last one *)
LEMMA NextPayloadFacts ==
    ASSUME NEW r \in Run, intent \in Intent, r.p <= intent.payloads
    PROVE  /\ NextPayload(r) \in Run
           /\ NextPayload(r).queued = r.queued /\ NextPayload(r).entry = r.entry
           /\ NextPayload(r).pre = r.pre /\ NextPayload(r).post = r.post
           /\ NextPayload(r).got = r.got /\ NextPayload(r).failed = r.failed
           /\ NextPayload(r).allProven = r.allProven /\ NextPayload(r).err = r.err
           /\ \/ /\ NextPayload(r).pc = "payload" /\ NextPayload(r).p = r.p + 1
                 /\ r.p + 1 <= intent.payloads
              \/ /\ NextPayload(r).pc = "finish" /\ NextPayload(r).p = r.p
                 /\ r.p = intent.payloads
<1>1. intent.payloads \in Payload /\ r.p \in Payload
    BY RunFields DEF Intent
<1>2. CASE r.p < intent.payloads
    <2>1. NextPayload(r) = [r EXCEPT !.pc = "payload", !.p = r.p + 1]
        BY <1>2 DEF NextPayload
    <2>2. r.p + 1 \in Payload /\ r.p + 1 <= intent.payloads
        BY <1>1, <1>2 DEF Payload
    <2>3. "payload" \in Pc
        BY DEF Pc
    <2> QED BY <2>1, <2>2, <2>3 DEF Run
<1>3. CASE r.p = intent.payloads
    <2>1. NextPayload(r) = [r EXCEPT !.pc = "finish"]
        BY <1>1, <1>3, PayloadFacts DEF NextPayload
    <2>2. "finish" \in Pc
        BY DEF Pc
    <2> QED BY <1>3, <2>1, <2>2 DEF Run
<1>4. r.p < intent.payloads \/ r.p = intent.payloads
    BY <1>1 DEF Payload
<1> QED BY <1>2, <1>3, <1>4

(* What the catch of the payload loop makes of a run *)
LEMMA PayloadErrorFacts ==
    ASSUME NEW r \in Run, intent \in Intent, r.p <= intent.payloads,
           NEW kind \in ErrorKind
    PROVE  /\ PayloadError(r, kind) \in Run
           /\ PayloadError(r, kind).queued = r.queued
           /\ PayloadError(r, kind).entry = r.entry
           /\ PayloadError(r, kind).pre = r.pre
           /\ PayloadError(r, kind).post = r.post
           /\ PayloadError(r, kind).got = r.got
           /\ intent.bestEffort =>
                /\ PayloadError(r, kind).failed = TRUE
                /\ PayloadError(r, kind).allProven = (r.allProven /\ kind = "proven")
                /\ PayloadError(r, kind).err = r.err
           /\ ~intent.bestEffort =>
                /\ PayloadError(r, kind).failed = r.failed
                /\ PayloadError(r, kind).allProven = r.allProven
                /\ PayloadError(r, kind).err = kind
                /\ PayloadError(r, kind).pc = "finish"
           /\ \/ /\ PayloadError(r, kind).pc = "payload"
                 /\ PayloadError(r, kind).p = r.p + 1
                 /\ r.p + 1 <= intent.payloads
              \/ /\ PayloadError(r, kind).pc = "finish"
                 /\ PayloadError(r, kind).p = r.p
<1>1. CASE intent.bestEffort
    <2> DEFINE s == [r EXCEPT !.failed = TRUE,
                              !.allProven = r.allProven /\ kind = "proven"]
    <2>1. (r.allProven /\ kind = "proven") \in BOOLEAN
        OBVIOUS
    <2>2. /\ s \in Run /\ s.p = r.p /\ s.queued = r.queued /\ s.entry = r.entry
          /\ s.pre = r.pre /\ s.post = r.post /\ s.got = r.got /\ s.failed = TRUE
          /\ s.allProven = (r.allProven /\ kind = "proven") /\ s.err = r.err
        BY <2>1 DEF Run
    <2>3. PayloadError(r, kind) = NextPayload(s)
        BY <1>1 DEF PayloadError
    <2> HIDE DEF s
    <2> QED BY <1>1, <2>2, <2>3, NextPayloadFacts
<1>2. CASE ~intent.bestEffort
    <2>1. PayloadError(r, kind) = [r EXCEPT !.err = kind, !.pc = "finish"]
        BY <1>2 DEF PayloadError
    <2>2. "finish" \in Pc
        BY DEF Pc
    <2> QED BY <1>2, <2>1, <2>2 DEF Run
<1> QED BY <1>1, <1>2

-----------------------------------------------------------------------------
(* What the database calls leave behind. *)

LEMMA OutcomeFacts ==
    ASSUME faults \in 0..MaxFaults, NEW answer, NEW theRow, NEW thrown \in Nat,
           NEW x \in Outcome(answer, theRow, thrown)
    PROVE  /\ x.answer = answer /\ x.row = theRow /\ x.faults = faults + thrown
           /\ x.faults \in 0..MaxFaults
<1>1. faults \in Nat /\ ~(faults + thrown > MaxFaults)
    BY DEF Outcome
<1>2. x = [answer |-> answer, row |-> theRow, faults |-> faults + thrown]
    BY <1>1 DEF Outcome
<1>3. faults + thrown \in 0..MaxFaults
    BY <1>1
<1> QED BY <1>2, <1>3

LEMMA UpdateFacts ==
    ASSUME faults \in 0..MaxFaults, NEW theRow, NEW x \in Update(theRow)
    PROVE  /\ x.faults \in 0..MaxFaults
           /\ \/ x.answer = "ok" /\ Pending /\ x.row = theRow /\ x.faults = faults
              \/ x.answer = "threw" /\ x.row = row /\ x.faults = faults /\ ~Pending
              \/ x.answer = "threw" /\ x.row = row /\ x.faults = faults + 1 /\ Pending
<1>1. CASE x \in Outcome("ok", theRow, 0) /\ Pending
    <2>1. x.answer = "ok" /\ x.row = theRow /\ x.faults = faults + 0
          /\ x.faults \in 0..MaxFaults
        BY <1>1, OutcomeFacts
    <2> QED BY <1>1, <2>1
<1>2. CASE x \in Outcome("threw", row, 1) /\ Pending
    BY <1>2, OutcomeFacts
<1>3. CASE x \in Outcome("threw", row, 0) /\ ~Pending
    <2>1. x.answer = "threw" /\ x.row = row /\ x.faults = faults + 0
          /\ x.faults \in 0..MaxFaults
        BY <1>3, OutcomeFacts
    <2> QED BY <1>3, <2>1
<1> QED BY <1>1, <1>2, <1>3 DEF Update

LEMMA AckFacts ==
    ASSUME faults \in 0..MaxFaults, NEW x \in AckDelivery
    PROVE  /\ x.faults \in 0..MaxFaults
           /\ \/ x.answer = "ok" /\ x.row = Deleted
              \/ x.answer = "threw" /\ x.row = row /\ x.faults = faults + 1
    BY OutcomeFacts DEF AckDelivery

LEMMA DeletedFacts ==
    ASSUME row \in Row
    PROVE  /\ Deleted \in Row /\ Deleted.status # "pending"
           /\ Pending => Deleted.status = "acked"
           /\ ~Pending => Deleted = row
<1>1. CASE Pending
    <2>1. Deleted = [row EXCEPT !.status = "acked"]
        BY <1>1 DEF Deleted
    <2> QED BY <1>1, <2>1 DEF Row
<1>2. CASE ~Pending
    BY <1>2 DEF Deleted, Pending
<1> QED BY <1>1, <1>2

LEMMA PreSendFacts ==
    ASSUME faults \in 0..MaxFaults, NEW x \in PersistPreSendState
    PROVE  /\ x.faults \in 0..MaxFaults
           /\ \/ /\ x.answer = "marked" /\ Pending
                 /\ x.row = [row EXCEPT !.recoveryState = "started"]
              \/ x.answer = "acked" /\ x.row = Deleted
              \/ x.answer = "threw" /\ x.row = row
<1>1. CASE intent.policy = "required"
    <2>1. PICK y \in MarkAttemptStarted :
            x = [y EXCEPT !.answer = IF y.answer = "ok" THEN "marked" ELSE "threw"]
        BY <1>1 DEF PersistPreSendState
    <2>2. y \in Update([row EXCEPT !.recoveryState = "started"])
        BY <2>1 DEF MarkAttemptStarted
    <2> DEFINE started == [row EXCEPT !.recoveryState = "started"]
    <2> HIDE DEF started
    <2>3. /\ y.faults \in 0..MaxFaults
          /\ \/ y.answer = "ok" /\ Pending /\ y.row = started
             \/ y.answer = "threw" /\ y.row = row
        BY <2>2, UpdateFacts DEF started
    <2>4. \E a, b, c : y = [answer |-> a, row |-> b, faults |-> c]
        BY <2>2 DEF Update, Outcome
    <2>5. x.faults = y.faults /\ x.row = y.row
          /\ x.answer = IF y.answer = "ok" THEN "marked" ELSE "threw"
        BY <2>1, <2>4
    <2> QED BY <2>3, <2>5 DEF started
<1>2. CASE intent.policy # "required" /\ Pending
    <2>1. \/ x \in Outcome("marked", [row EXCEPT !.recoveryState = "started"], 0)
          \/ x \in Outcome("acked", Deleted, 1) \/ x \in Outcome("threw", row, 2)
        BY <1>2 DEF PersistPreSendState
    <2> QED BY <1>2, <2>1, OutcomeFacts
<1>3. CASE intent.policy # "required" /\ ~Pending
    <2>1. x \in Outcome("acked", row, 0) \/ x \in Outcome("threw", row, 1)
        BY <1>3 DEF PersistPreSendState
    <2> QED BY <1>3, <2>1, OutcomeFacts DEF Deleted
<1> QED BY <1>1, <1>2, <1>3

LEMMA PostSendFacts ==
    ASSUME faults \in 0..MaxFaults, NEW x \in PersistPostSendState
    PROVE  /\ x.faults \in 0..MaxFaults
           /\ \/ /\ x.answer = "marked" /\ Pending
                 /\ x.row = [row EXCEPT !.recoveryState = "unknown"]
              \/ x.answer = "acked" /\ x.row = Deleted
              \/ x.answer = "failed" /\ Pending /\ x.row = FailedAfterPlatformSend
              \/ x.answer = "threw" /\ x.row = row
<1>1. CASE Pending
    <2>1. \/ x \in Outcome("marked", [row EXCEPT !.recoveryState = "unknown"], 0)
          \/ x \in Outcome("acked", Deleted, 1)
          \/ x \in Outcome("failed", FailedAfterPlatformSend, 2)
          \/ x \in Outcome("threw", row, 3)
        BY <1>1 DEF PersistPostSendState
    <2> QED BY <1>1, <2>1, OutcomeFacts
<1>2. CASE ~Pending
    <2>1. x \in Outcome("acked", row, 0) \/ x \in Outcome("threw", row, 1)
        BY <1>2 DEF PersistPostSendState
    <2> QED BY <1>2, <2>1, OutcomeFacts DEF Deleted
<1> QED BY <1>1, <1>2

(* A failure is counted as long as the limit is not reached. *)
LEMMA FailedFacts ==
    ASSUME row \in Row, row.retryCount < MaxRetries
    PROVE  /\ Failed \in Row /\ Failed.status = row.status
           /\ Failed.retryCount = row.retryCount + 1
           /\ Failed.recoveryState = row.recoveryState
           /\ FailedBeforePlatformSend \in Row
           /\ FailedBeforePlatformSend.status = row.status
           /\ FailedBeforePlatformSend.retryCount = row.retryCount + 1
           /\ FailedAfterPlatformSend \in Row
           /\ FailedAfterPlatformSend.status = row.status
           /\ FailedAfterPlatformSend.retryCount = row.retryCount + 1
           /\ FailedAfterPlatformSend.recoveryState = "unknown"
<1>1. row.retryCount + 1 \in 0..MaxRetries
    BY RowFields
<1>2. /\ Failed \in Row /\ Failed.status = row.status
      /\ Failed.retryCount = row.retryCount + 1
      /\ Failed.recoveryState = row.recoveryState
    BY <1>1 DEF Failed, Row
<1> QED BY <1>2 DEF FailedBeforePlatformSend, FailedAfterPlatformSend, Row

-----------------------------------------------------------------------------
(* Shapes of a step.  In all of them one owner moves and the others stay.  *)

(* No two owners are past the list, recorded or not. *)
LEMMA BusyAlone ==
    ASSUME ClaimParts, NEW o1 \in Owner, NEW o2 \in Owner, Busy(o1), Busy(o2)
    PROVE  o1 = o2
<1>1. CASE run[o1].queued /\ run[o2].queued
    BY <1>1 DEF ClaimParts, SoleOwner, AtWork, Busy
<1>2. ASSUME NEW o \in Owner, NEW q \in Owner, ~run[o].queued, Busy(o), Busy(q)
      PROVE  o = q
    <2>1. o = Live /\ run[o].pc \in SendPc
        BY <1>2, OwnerFacts DEF ClaimParts, WorkerRuns, LiveRuns, Busy
    <2>2. row.status = "absent"
        BY <1>2, <2>1 DEF ClaimParts, RunsMatchRow, RunMatchesRow
    <2> QED BY <1>2, <2>1, <2>2, OwnerFacts DEF ClaimParts, RowIsFresh, Busy
<1> QED BY <1>1, <1>2

LEMMA SendingFacts ==
    ASSUME ClaimParts, NEW o \in Owner, run[o].pc \in SendPc
    PROVE  /\ run[o] \in Run /\ Busy(o) /\ RunMatchesRow(run[o], row)
           /\ row \in Row /\ intent \in Intent /\ faults \in 0..MaxFaults
           /\ live \notin {"new", "enqueued"} /\ (o = Live => live = "own")
           /\ run[o].p <= intent.payloads
<1>1. /\ run[o] \in Run /\ Busy(o) /\ RunMatchesRow(run[o], row)
      /\ row \in Row /\ intent \in Intent /\ faults \in 0..MaxFaults
    BY DEF ClaimParts, TypeOK, RunsMatchRow, Busy, SendPc
<1>2. live \notin {"new", "enqueued"} /\ (o = Live => live = "own")
    BY OwnerFacts DEF ClaimParts, LiveRuns, RowIsFresh, SendPc
<1> QED BY <1>1, <1>2 DEF RunMatchesRow

(* The owner that sends goes on with its run. *)
LEMMA KeepStep ==
    ASSUME ClaimParts, NEW o \in Owner, run[o].pc \in SendPc,
           NEW r \in Run, r.pc \in SendPc, r.queued = run[o].queued, Keep(o, r),
           row' \in Row, RunMatchesRow(r, row'), UNCHANGED <<intent, crashes>>,
           faults' \in 0..MaxFaults, accepted' \in [Payload -> Nat],
           waived' \subseteq Payload, aborted' \in BOOLEAN
    PROVE  ClaimParts'
<1>1. /\ run \in [Owner -> Run] /\ run' = [run EXCEPT ![o] = r]
      /\ claimed' = claimed /\ live' = live
    BY DEF Keep, ClaimParts, TypeOK
<1>2. run'[o] = r /\ \A q \in Owner : q # o => run'[q] = run[q]
    BY <1>1
<1>3. TypeOK'
    BY <1>1 DEF ClaimParts, TypeOK
<1>4. \A q \in Owner : AtWork(q)' <=> AtWork(q)
    BY <1>2 DEF AtWork, SendPc
<1>5. SoleOwner'
    <2>1. SoleOwner
        BY DEF ClaimParts
    <2> QED BY <1>1, <1>4, <2>1 DEF SoleOwner
<1>6. \A q \in Owner : q # o => run[q].pc \in {"idle", "loaded"}
    BY BusyAlone, SendingFacts DEF Busy
<1>7. FreshEntry'
    BY <1>2, <1>6, OwnerFacts DEF FreshEntry, SendPc
<1>8. WorkerRuns'
    BY <1>2, OwnerFacts DEF ClaimParts, WorkerRuns, SendPc
<1>9. LiveRuns'
    BY <1>1, <1>2, OwnerFacts DEF ClaimParts, LiveRuns, SendPc
<1>10. RowIsFresh'
    <2>1. live' \notin {"new", "enqueued"}
        BY <1>1, SendingFacts
    <2>2. ASSUME row'.status = "absent", NEW w \in Worker
          PROVE  run'[w].pc = "idle"
        <3>1. ~run[o].queued
            BY <2>2 DEF RunMatchesRow
        <3>2. o = Live
            BY <3>1, OwnerFacts DEF ClaimParts, WorkerRuns
        <3>3. row.status = "absent"
            BY <3>1, SendingFacts DEF RunMatchesRow
        <3> QED BY <1>2, <3>2, <3>3, OwnerFacts DEF ClaimParts, RowIsFresh
    <2> QED BY <2>1, <2>2 DEF RowIsFresh
<1>11. RunsMatchRow'
    BY <1>2, <1>6 DEF RunsMatchRow, RunMatchesRow, SendPc
<1> QED BY <1>3, <1>5, <1>7, <1>8, <1>9, <1>10, <1>11 DEF ClaimParts

(* The owner at work leaves the entry. *)
LEMMA ReleaseStep ==
    ASSUME ClaimParts, NEW o \in Owner, Busy(o), PastEnqueue, Release(o),
           row' \in Row, row'.status = "absent" <=> row.status = "absent",
           UNCHANGED <<intent, crashes>>,
           faults' \in 0..MaxFaults, accepted' \in [Payload -> Nat],
           waived' \subseteq Payload, aborted' \in BOOLEAN
    PROVE  ClaimParts'
<1>1. /\ run \in [Owner -> Run] /\ run' = [run EXCEPT ![o] = idleRun]
      /\ claimed' = FALSE /\ live' = IF o = Live THEN "done" ELSE live
    BY DEF Release, ClaimParts, TypeOK
<1>2. run'[o] = idleRun /\ \A q \in Owner : q # o => run'[q] = run[q]
    BY <1>1
<1>3. TypeOK'
    <2>1. run' \in [Owner -> Run]
        BY <1>1, IdleRunType
    <2>2. live' \in {"new", "enqueued", "own", "done"}
        BY <1>1 DEF ClaimParts, TypeOK
    <2>3. claimed' \in BOOLEAN
        BY <1>1
    <2> QED BY <2>1, <2>2, <2>3 DEF ClaimParts, TypeOK
<1>4. \A q \in Owner : run'[q].pc \in {"idle", "loaded"}
    BY <1>2, BusyAlone DEF Busy, idleRun
<1>5. SoleOwner'
    BY <1>1, <1>4 DEF SoleOwner, AtWork
<1>6. FreshEntry'
    BY <1>4, OwnerFacts DEF FreshEntry
<1>7. WorkerRuns'
    BY <1>2, <1>4, OwnerFacts DEF ClaimParts, WorkerRuns, SendPc, Untouched, idleRun
<1>8. LiveRuns'
    <2>1. CASE o = Live
        BY <1>1, <1>2, <2>1 DEF LiveRuns, idleRun
    <2>2. CASE o # Live
        BY <1>1, <1>2, <2>2, OwnerFacts DEF ClaimParts, LiveRuns
    <2> QED BY <2>1, <2>2
<1>9. RowIsFresh'
    <2>1. live' \notin {"new", "enqueued"}
        <3>1. CASE o = Live
            BY <1>1, <3>1
        <3>2. CASE o # Live
            <4>1. o \in Worker
                BY <3>2, OwnerFacts
            <4>2. live # "new"
                BY <4>1 DEF ClaimParts, RowIsFresh, Busy, absentRow
            <4> QED BY <1>1, <3>2, <4>2 DEF PastEnqueue
        <3> QED BY <3>1, <3>2
    <2>2. row'.status = "absent" => \A w \in Worker : run'[w].pc = "idle"
        BY <1>2, OwnerFacts DEF ClaimParts, RowIsFresh, idleRun
    <2> QED BY <2>1, <2>2 DEF RowIsFresh
<1>10. RunsMatchRow'
    BY <1>4 DEF RunsMatchRow, SendPc
<1> QED BY <1>3, <1>5, <1>6, <1>7, <1>8, <1>9, <1>10 DEF ClaimParts

-----------------------------------------------------------------------------
(* The steps of a payload. *)

(* A run that only moves on knows as much about the row as before. *)
LEMMA SameRun ==
    ASSUME NEW s, NEW r, NEW theRow, RunMatchesRow(s, theRow), s.pc # "final",
           r.queued = s.queued, r.entry = s.entry, r.pre = s.pre,
           r.post = s.post, s.got => r.got, r.p <= intent.payloads
    PROVE  RunMatchesRow(r, theRow)
    BY DEF RunMatchesRow

(* A run that may count a failure finds the counter below its limit. *)
LEMMA RetryIsLeft ==
    ASSUME NEW r, row \in Row, RunMatchesRow(r, row), Pending, r.post # "failed"
    PROVE  row.retryCount < MaxRetries
    BY DEF RunMatchesRow, Pending

LEMMA QuietStep ==
    ASSUME ClaimParts, NEW o \in Owner, run[o].pc \in SendPc, run[o].pc # "final",
           NEW r \in Run, r.pc \in SendPc, Keep(o, r),
           r.queued = run[o].queued, r.entry = run[o].entry, r.pre = run[o].pre,
           r.post = run[o].post, run[o].got => r.got, r.p <= intent.payloads,
           UNCHANGED <<row, intent, crashes, faults>>,
           accepted' \in [Payload -> Nat], waived' \subseteq Payload,
           aborted' \in BOOLEAN
    PROVE  ClaimParts'
<1>1. RunMatchesRow(r, row') /\ row' \in Row /\ faults' \in 0..MaxFaults
    BY SameRun, SendingFacts
<1> QED BY <1>1, KeepStep

LEMMA NextPayloadStep ==
    ASSUME ClaimParts, NEW o \in Owner, run[o].pc \in SendPc, run[o].pc # "final",
           Keep(o, NextPayload(run[o])), UNCHANGED <<row, intent, crashes, faults>>,
           accepted' \in [Payload -> Nat], waived' \subseteq Payload,
           aborted' \in BOOLEAN
    PROVE  ClaimParts'
<1> DEFINE r == NextPayload(run[o])
<1>1. run[o] \in Run /\ intent \in Intent /\ run[o].p <= intent.payloads
      /\ run[o].p \in Nat
    BY SendingFacts, RunFields
<1>2. /\ r \in Run /\ r.queued = run[o].queued /\ r.entry = run[o].entry
      /\ r.pre = run[o].pre /\ r.post = run[o].post /\ r.got = run[o].got
      /\ r.pc \in SendPc /\ r.p <= intent.payloads
    BY <1>1, NextPayloadFacts DEF SendPc
<1> HIDE DEF r
<1> QED BY <1>2, QuietStep DEF r

LEMMA PayloadErrorStep ==
    ASSUME ClaimParts, NEW o \in Owner, run[o].pc \in SendPc, run[o].pc # "final",
           NEW kind \in ErrorKind, NEW s \in Run,
           s.queued = run[o].queued, s.entry = run[o].entry, s.pre = run[o].pre,
           s.post = run[o].post, run[o].got => s.got, s.p = run[o].p,
           Keep(o, PayloadError(s, kind)), UNCHANGED <<row, intent, crashes>>,
           faults' \in 0..MaxFaults,
           accepted' \in [Payload -> Nat], waived' \subseteq Payload,
           aborted' \in BOOLEAN
    PROVE  ClaimParts'
<1> DEFINE r == PayloadError(s, kind)
<1>1. intent \in Intent /\ s.p <= intent.payloads /\ s.p \in Nat
    BY SendingFacts, RunFields
<1>2. /\ r \in Run /\ r.queued = s.queued /\ r.entry = s.entry
      /\ r.pre = s.pre /\ r.post = s.post /\ r.got = s.got
      /\ \/ r.pc = "payload" /\ r.p = s.p + 1 /\ s.p + 1 <= intent.payloads
         \/ r.pc = "finish" /\ r.p = s.p
    BY <1>1, PayloadErrorFacts
<1> HIDE DEF r
<1>3. /\ RunMatchesRow(r, row') /\ row' \in Row
      /\ r.pc \in SendPc /\ r.p <= intent.payloads
    BY <1>1, <1>2, SameRun, SendingFacts DEF SendPc
<1> QED BY <1>2, <1>3, KeepStep DEF r

(* The parts of the state no step of a run writes keep their types. *)
LEMMA OtherTypes ==
    ASSUME ClaimParts
    PROVE  /\ accepted \in [Payload -> Nat] /\ waived \subseteq Payload
           /\ aborted \in BOOLEAN /\ faults \in 0..MaxFaults /\ row \in Row
           /\ run \in [Owner -> Run] /\ intent \in Intent
    BY DEF ClaimParts, TypeOK

LEMMA SuppressPayloadKeeps ==
    ASSUME ClaimParts, NEW o \in Owner, SuppressPayload(o)
    PROVE  ClaimParts'
<1>1. run[o].p \in Payload /\ run[o].pc = "payload"
    BY OtherTypes, RunFields DEF SuppressPayload
<1>2. waived' \subseteq Payload
    BY <1>1, OtherTypes DEF SuppressPayload
<1> QED BY <1>1, <1>2, NextPayloadStep, OtherTypes DEF SuppressPayload, SendPc

LEMMA PayloadThrowsKeeps ==
    ASSUME ClaimParts, NEW o \in Owner, PayloadThrows(o)
    PROVE  ClaimParts'
<1>1. run[o] \in Run /\ run[o].pc = "payload" /\ run[o].pc \in SendPc
    BY OtherTypes DEF PayloadThrows, SendPc
<1>2. {"plain", "abort"} \subseteq ErrorKind
    BY DEF ErrorKind
<1>3. aborted' \in BOOLEAN
    BY OtherTypes DEF PayloadThrows
<1>4. PICK kind \in {"plain", "abort"} : Keep(o, PayloadError(run[o], kind))
    BY DEF PayloadThrows
<1> QED BY <1>1, <1>2, <1>3, <1>4, PayloadErrorStep, OtherTypes DEF PayloadThrows

LEMMA PreparePayloadKeeps ==
    ASSUME ClaimParts, NEW o \in Owner, PreparePayload(o)
    PROVE  ClaimParts'
<1> DEFINE r == [run[o] EXCEPT !.pc = "start"]
<1>1. run[o] \in Run /\ run[o].pc = "payload" /\ run[o].pc \in SendPc
    BY OtherTypes DEF PreparePayload, SendPc
<1>2. /\ r \in Run /\ r.pc \in SendPc /\ r.p = run[o].p /\ r.queued = run[o].queued
      /\ r.entry = run[o].entry /\ r.pre = run[o].pre /\ r.post = run[o].post
      /\ r.got = run[o].got
    BY <1>1 DEF Run, Pc, SendPc
<1>3. r.p <= intent.payloads
    BY <1>1, <1>2, SendingFacts
<1> HIDE DEF r
<1> QED BY <1>1, <1>2, <1>3, QuietStep, OtherTypes DEF PreparePayload, r

(* A run that marks the row, deletes it, or counts a failure in it *)
LEMMA MarkedRun ==
    ASSUME NEW s, NEW r, row \in Row, RunMatchesRow(s, row), Pending,
           s.queued, s.pc # "final", r.queued = s.queued, r.entry = s.entry,
           r.p <= intent.payloads, r.pre # "acked", r.post # "acked",
           r.post = "failed" <=> s.post = "failed", s.got => r.got,
           NEW state \in {"started", "unknown"},
           NEW theRow, theRow = [row EXCEPT !.recoveryState = state]
    PROVE  RunMatchesRow(r, theRow) /\ theRow \in Row
<1>1. /\ theRow \in Row /\ theRow.status = row.status
      /\ theRow.retryCount = row.retryCount
    BY DEF Row
<1> QED BY <1>1 DEF RunMatchesRow, Pending

LEMMA DeletedRun ==
    ASSUME NEW s, NEW r, row \in Row, RunMatchesRow(s, row), s.queued,
           r.queued = s.queued, r.entry = s.entry, r.p <= intent.payloads,
           r.post # "failed"
    PROVE  RunMatchesRow(r, Deleted) /\ Deleted \in Row /\ Deleted.status = "acked"
<1>1. Deleted \in Row /\ Deleted.status = "acked"
    BY DeletedFacts DEF RunMatchesRow, Pending
<1> QED BY <1>1 DEF RunMatchesRow

LEMMA CountedRun ==
    ASSUME NEW s, NEW r, row \in Row, RunMatchesRow(s, row), Pending, s.queued,
           s.post = "none", r.queued = s.queued, r.entry = s.entry,
           r.p <= intent.payloads, r.pre = s.pre, r.post = "failed",
           r.got \/ (r.pc = "final" /\ Clean(r))
    PROVE  RunMatchesRow(r, FailedAfterPlatformSend) /\ FailedAfterPlatformSend \in Row
<1>1. row.retryCount < MaxRetries
    BY RetryIsLeft
<1>2. /\ FailedAfterPlatformSend \in Row
      /\ FailedAfterPlatformSend.status = row.status
      /\ FailedAfterPlatformSend.retryCount = row.retryCount + 1
    BY <1>1, FailedFacts
<1> QED BY <1>2 DEF RunMatchesRow, Pending

LEMMA PlatformSendStartKeeps ==
    ASSUME ClaimParts, NEW o \in Owner, PlatformSendStart(o)
    PROVE  ClaimParts'
<1> DEFINE s == run[o]
<1>1. /\ s \in Run /\ s.pc = "start" /\ s.pc \in SendPc /\ s.p <= intent.payloads
      /\ RunMatchesRow(s, row) /\ row \in Row /\ faults \in 0..MaxFaults
      /\ intent' = intent /\ accepted' = accepted /\ aborted' = aborted
      /\ crashes' = crashes
    BY SendingFacts DEF PlatformSendStart, SendPc
<1>2. waived' \subseteq Payload
    BY OtherTypes DEF PlatformSendStart, WaiveIf
<1>3. CASE s.queued /\ ~intent.exact /\ s.pre = "none"
    <2>1. PICK x \in PersistPreSendState :
            /\ Apply(x)
            /\ Keep(o, CASE x.answer = "threw" -> PayloadError(s, "plain")
                         [] x.answer = "marked" ->
                              [s EXCEPT !.pre = "marked", !.pc = "dispatch"]
                         [] OTHER ->
                              [s EXCEPT !.pre = "acked", !.pc = "dispatch",
                                        !.post = IF o = Live THEN "acked" ELSE @])
        BY <1>3 DEF PlatformSendStart
    <2>2. faults' \in 0..MaxFaults /\ row' = x.row
        BY <1>1, <2>1, PreSendFacts DEF Apply
    <2>3. CASE x.answer = "threw" /\ x.row = row
        <3>1. Keep(o, PayloadError(s, "plain")) /\ "plain" \in ErrorKind
            BY <2>1, <2>3 DEF ErrorKind
        <3> QED BY <1>1, <1>2, <2>2, <2>3, <3>1, PayloadErrorStep, OtherTypes
    <2>4. CASE /\ x.answer = "marked" /\ Pending
               /\ x.row = [row EXCEPT !.recoveryState = "started"]
        <3> DEFINE r == [s EXCEPT !.pre = "marked", !.pc = "dispatch"]
        <3>1. Keep(o, r)
            BY <2>1, <2>4
        <3>2. /\ r \in Run /\ r.pc \in SendPc /\ r.queued = s.queued
              /\ r.entry = s.entry /\ r.p = s.p /\ r.pre = "marked"
              /\ r.post = s.post /\ r.got = s.got
            BY <1>1 DEF Run, Pc, SendPc
        <3> HIDE DEF r
        <3>3. s.post # "acked"
            BY <1>1, <2>4 DEF RunMatchesRow, Pending
        <3>4. RunMatchesRow(r, row') /\ row' \in Row
            BY <1>1, <1>3, <2>2, <2>4, <3>2, <3>3, MarkedRun
        <3> QED BY <1>1, <1>2, <2>2, <3>1, <3>2, <3>4, KeepStep, OtherTypes
    <2>5. CASE x.answer = "acked" /\ x.row = Deleted
        <3> DEFINE r == [s EXCEPT !.pre = "acked", !.pc = "dispatch",
                                  !.post = IF o = Live THEN "acked" ELSE s.post]
        <3>1. Keep(o, r)
            BY <2>1, <2>5
        <3>2. /\ r \in Run /\ r.pc \in SendPc /\ r.queued = s.queued
              /\ r.entry = s.entry /\ r.p = s.p /\ r.got = s.got
              /\ r.post = IF o = Live THEN "acked" ELSE s.post
            BY <1>1 DEF Run, Pc, SendPc
        <3> HIDE DEF r
        <3>3. CASE s.post # "failed"
            <4>1. RunMatchesRow(r, row') /\ row' \in Row
                BY <1>1, <1>3, <2>2, <2>5, <3>2, <3>3, DeletedRun
            <4> QED BY <1>1, <1>2, <2>2, <3>1, <3>2, <4>1, KeepStep, OtherTypes
        <3>4. CASE s.post = "failed"
            <4>1. s.got /\ Deleted \in Row /\ Deleted.status = "acked"
                BY <1>1, <1>3, <3>4, DeletedFacts DEF RunMatchesRow, Pending
            <4>2. RunMatchesRow(r, row') /\ row' \in Row
                BY <1>1, <1>3, <2>2, <2>5, <3>2, <3>4, <4>1 DEF RunMatchesRow
            <4> QED BY <1>1, <1>2, <2>2, <3>1, <3>2, <4>2, KeepStep, OtherTypes
        <3> QED BY <3>3, <3>4
    <2> QED BY <1>1, <2>3, <2>4, <2>5, PreSendFacts
<1>4. CASE ~(s.queued /\ ~intent.exact /\ s.pre = "none")
    <2> DEFINE r == [s EXCEPT !.pc = "dispatch"]
    <2>1. Keep(o, r) /\ row' = row /\ faults' = faults
        BY <1>4 DEF PlatformSendStart
    <2>2. /\ r \in Run /\ r.pc \in SendPc /\ r.queued = s.queued /\ r.entry = s.entry
          /\ r.p = s.p /\ r.pre = s.pre /\ r.post = s.post /\ r.got = s.got
        BY <1>1 DEF Run, Pc, SendPc
    <2> HIDE DEF r
    <2> QED BY <1>1, <1>2, <2>1, <2>2, QuietStep, OtherTypes
<1> QED BY <1>3, <1>4

LEMMA PlatformSendDispatchKeeps ==
    ASSUME ClaimParts, NEW o \in Owner, PlatformSendDispatch(o)
    PROVE  ClaimParts'
<1> DEFINE s == run[o]
           stay == [s EXCEPT !.pc = "platform"]
<1>1. /\ s \in Run /\ s.pc = "dispatch" /\ s.pc \in SendPc /\ s.p <= intent.payloads
      /\ RunMatchesRow(s, row) /\ row \in Row /\ faults \in 0..MaxFaults
      /\ intent' = intent /\ accepted' = accepted /\ aborted' = aborted
      /\ crashes' = crashes /\ waived' = waived
    BY SendingFacts DEF PlatformSendDispatch, SendPc
<1>2. /\ stay \in Run /\ stay.pc \in SendPc /\ stay.queued = s.queued
      /\ stay.entry = s.entry /\ stay.p = s.p /\ stay.pre = s.pre
      /\ stay.post = s.post /\ stay.got = s.got
    BY <1>1 DEF Run, Pc, SendPc
<1> HIDE DEF stay
<1>3. CASE Keep(o, stay) /\ row' = row /\ faults' \in 0..MaxFaults
    <2>1. RunMatchesRow(stay, row')
        BY <1>1, <1>2, <1>3, SameRun
    <2> QED BY <1>1, <1>2, <1>3, <2>1, KeepStep, OtherTypes
<1>4. ASSUME s.queued, s.pre # "acked", NEW x \in MarkDispatched, Apply(x),
             Keep(o, IF x.answer = "ok"
                     THEN [s EXCEPT !.pre = "marked", !.pc = "platform"]
                     ELSE IF intent.exact THEN PayloadError(s, "plain")
                     ELSE stay)
      PROVE  ClaimParts'
    <2>1. /\ faults' \in 0..MaxFaults /\ row' = x.row
          /\ \/ /\ x.answer = "ok" /\ Pending
                /\ x.row = [row EXCEPT !.recoveryState = "started"]
             \/ x.answer = "threw" /\ x.row = row
        BY <1>1, <1>4, UpdateFacts DEF Apply, MarkDispatched
    <2>2. CASE x.answer = "ok"
        <3> DEFINE r == [s EXCEPT !.pre = "marked", !.pc = "platform"]
        <3>1. Keep(o, r)
            BY <1>4, <2>2
        <3>2. /\ r \in Run /\ r.pc \in SendPc /\ r.queued = s.queued
              /\ r.entry = s.entry /\ r.p = s.p /\ r.pre = "marked"
              /\ r.post = s.post /\ r.got = s.got
            BY <1>1 DEF Run, Pc, SendPc
        <3> HIDE DEF r
        <3>3. s.post # "acked"
            BY <1>1, <2>1, <2>2 DEF RunMatchesRow, Pending
        <3>4. RunMatchesRow(r, row') /\ row' \in Row
            BY <1>1, <1>4, <2>1, <2>2, <3>2, <3>3, MarkedRun
        <3> QED BY <1>1, <2>1, <3>1, <3>2, <3>4, KeepStep, OtherTypes
    <2>3. CASE x.answer # "ok" /\ intent.exact
        <3>1. Keep(o, PayloadError(s, "plain")) /\ "plain" \in ErrorKind /\ row' = row
            BY <1>4, <2>1, <2>3 DEF ErrorKind
        <3> QED BY <1>1, <2>1, <3>1, PayloadErrorStep, OtherTypes
    <2>4. CASE x.answer # "ok" /\ ~intent.exact
        BY <1>3, <1>4, <2>1, <2>4
    <2> QED BY <2>2, <2>3, <2>4
<1> QED BY <1>1, <1>3, <1>4 DEF PlatformSendDispatch, stay

LEMMA PlatformAnswersKeep ==
    ASSUME ClaimParts, NEW o \in Owner, PlatformAccepts(o) \/ PlatformRejects(o)
    PROVE  ClaimParts'
<1> DEFINE s == run[o]
<1>1. /\ s \in Run /\ s.pc = "platform" /\ s.pc \in SendPc /\ s.p <= intent.payloads
      /\ s.p \in Payload /\ UNCHANGED <<row, intent, crashes, faults, waived, aborted>>
    BY SendingFacts, RunFields DEF PlatformAccepts, PlatformRejects, SendPc
<1>2. accepted' \in [Payload -> Nat]
    <2>1. accepted \in [Payload -> Nat] /\ accepted[s.p] + 1 \in Nat
        BY <1>1, OtherTypes
    <2> QED BY <1>1, <2>1 DEF PlatformAccepts, PlatformRejects
<1>3. ASSUME NEW pc \in {"result", "after"}, Keep(o, [s EXCEPT !.pc = pc])
      PROVE  ClaimParts'
    <2> DEFINE r == [s EXCEPT !.pc = pc]
    <2>1. /\ r \in Run /\ r.pc \in SendPc /\ r.queued = s.queued /\ r.entry = s.entry
          /\ r.p = s.p /\ r.pre = s.pre /\ r.post = s.post /\ r.got = s.got
        BY <1>1 DEF Run, Pc, SendPc
    <2> HIDE DEF r
    <2> QED BY <1>1, <1>2, <1>3, <2>1, QuietStep, OtherTypes DEF r
<1>4. ASSUME NEW kind \in {"plain", "proven", "permanent"},
             Keep(o, PayloadError(s, kind))
      PROVE  ClaimParts'
    <2>1. kind \in ErrorKind
        BY DEF ErrorKind
    <2> QED BY <1>1, <1>2, <1>4, <2>1, PayloadErrorStep, OtherTypes
<1> QED BY <1>3, <1>4 DEF PlatformAccepts, PlatformRejects

(* A run records what the platform has answered. *)
LEMMA EvidenceStep ==
    ASSUME ClaimParts, NEW o \in Owner, run[o].pc \in SendPc, run[o].pc # "final",
           run[o].queued, run[o].post = "none",
           NEW x \in PersistPostSendState, Apply(x), x.answer # "threw",
           NEW r \in Run, r.pc \in SendPc, Keep(o, r), r.queued = run[o].queued,
           r.entry = run[o].entry, r.p = run[o].p, r.pre = run[o].pre,
           r.post = x.answer, run[o].got => r.got,
           r.got \/ (r.pc = "final" /\ Clean(r)),
           UNCHANGED <<intent, crashes, accepted, aborted>>, waived' \subseteq Payload
    PROVE  ClaimParts'
<1> DEFINE s == run[o]
<1>1. /\ s \in Run /\ s.p <= intent.payloads /\ RunMatchesRow(s, row)
      /\ row \in Row /\ faults \in 0..MaxFaults
    BY SendingFacts
<1>2. faults' \in 0..MaxFaults /\ row' = x.row
    BY <1>1, PostSendFacts DEF Apply
<1>3. CASE /\ x.answer = "marked" /\ Pending
           /\ x.row = [row EXCEPT !.recoveryState = "unknown"]
    <2>1. s.pre # "acked"
        BY <1>1, <1>3 DEF RunMatchesRow, Pending
    <2>2. RunMatchesRow(r, row') /\ row' \in Row
        BY <1>1, <1>2, <1>3, <2>1, MarkedRun
    <2> QED BY <1>1, <1>2, <2>2, KeepStep, OtherTypes
<1>4. CASE x.answer = "acked" /\ x.row = Deleted
    <2>1. RunMatchesRow(r, row') /\ row' \in Row
        BY <1>1, <1>2, <1>4, DeletedRun
    <2> QED BY <1>1, <1>2, <2>1, KeepStep, OtherTypes
<1>5. CASE x.answer = "failed" /\ Pending /\ x.row = FailedAfterPlatformSend
    <2>1. RunMatchesRow(r, row') /\ row' \in Row
        BY <1>1, <1>2, <1>5, CountedRun
    <2> QED BY <1>1, <1>2, <2>1, KeepStep, OtherTypes
<1> QED BY <1>1, <1>3, <1>4, <1>5, PostSendFacts

LEMMA DeliveryResultKeeps ==
    ASSUME ClaimParts, NEW o \in Owner, DeliveryResult(o)
    PROVE  ClaimParts'
<1> DEFINE s == run[o]
           g == [s EXCEPT !.got = TRUE]
<1>1. /\ s \in Run /\ s.pc = "result" /\ s.pc \in SendPc /\ s.p <= intent.payloads
      /\ RunMatchesRow(s, row) /\ row \in Row /\ faults \in 0..MaxFaults
      /\ intent' = intent /\ accepted' = accepted /\ aborted' = aborted
      /\ crashes' = crashes
    BY SendingFacts DEF DeliveryResult, SendPc
<1>2. waived' \subseteq Payload
    BY OtherTypes DEF DeliveryResult, WaiveIf
<1>3. /\ g \in Run /\ g.pc = s.pc /\ g.queued = s.queued /\ g.entry = s.entry
      /\ g.p = s.p /\ g.pre = s.pre /\ g.post = s.post /\ g.got = TRUE
      /\ g.err = s.err /\ g.failed = s.failed
    BY <1>1 DEF Run
<1> HIDE DEF g
<1>4. CASE g.queued /\ g.post = "none"
    <2>1. PICK x \in PersistPostSendState :
            /\ Apply(x)
            /\ Keep(o, IF x.answer = "threw" THEN PayloadError(g, "plain")
                       ELSE [g EXCEPT !.post = x.answer, !.pc = "after"])
        BY <1>4 DEF DeliveryResult, g
    <2>2. CASE x.answer = "threw"
        <3>1. Keep(o, PayloadError(g, "plain")) /\ "plain" \in ErrorKind
            BY <2>1, <2>2 DEF ErrorKind
        <3>2. row' = row /\ faults' \in 0..MaxFaults
            BY <1>1, <2>1, <2>2, PostSendFacts DEF Apply
        <3> QED BY <1>1, <1>2, <1>3, <3>1, <3>2, PayloadErrorStep, OtherTypes
    <2>3. CASE x.answer # "threw"
        <3> DEFINE r == [g EXCEPT !.post = x.answer, !.pc = "after"]
        <3>1. x.answer \in {"marked", "acked", "failed"}
            BY <1>1, <2>3, PostSendFacts
        <3>2. /\ r \in Run /\ r.pc \in SendPc /\ r.queued = g.queued
              /\ r.entry = g.entry /\ r.p = g.p /\ r.pre = g.pre
              /\ r.post = x.answer /\ r.got = g.got
            BY <1>3, <3>1 DEF Run, Pc, SendPc
        <3>3. Keep(o, r)
            BY <2>1, <2>3
        <3> HIDE DEF r
        <3> QED BY <1>1, <1>2, <1>3, <1>4, <2>1, <2>3, <3>2, <3>3, EvidenceStep
    <2> QED BY <2>2, <2>3
<1>5. CASE ~(g.queued /\ g.post = "none")
    <2> DEFINE r == [g EXCEPT !.pc = "after"]
    <2>1. Keep(o, r) /\ row' = row /\ faults' = faults
        BY <1>5 DEF DeliveryResult, g
    <2>2. /\ r \in Run /\ r.pc \in SendPc /\ r.queued = g.queued
          /\ r.entry = g.entry /\ r.p = g.p /\ r.pre = g.pre
          /\ r.post = g.post /\ r.got = g.got
        BY <1>3 DEF Run, Pc, SendPc
    <2> HIDE DEF r
    <2> QED BY <1>1, <1>2, <1>3, <2>1, <2>2, QuietStep, OtherTypes
<1> QED BY <1>4, <1>5

LEMMA AfterDeliveredPayloadKeeps ==
    ASSUME ClaimParts, NEW o \in Owner, AfterDeliveredPayload(o)
    PROVE  ClaimParts'
<1>1. /\ run[o] \in Run /\ run[o].pc \in SendPc /\ run[o].pc # "final"
      /\ "plain" \in ErrorKind
      /\ UNCHANGED <<row, intent, accepted, waived, aborted, crashes, faults>>
    BY OtherTypes DEF AfterDeliveredPayload, SendPc, ErrorKind
<1>2. CASE Keep(o, NextPayload(run[o]))
    BY <1>1, <1>2, NextPayloadStep, OtherTypes
<1>3. CASE Keep(o, PayloadError(run[o], "plain"))
    BY <1>1, <1>3, PayloadErrorStep, OtherTypes
<1> QED BY <1>2, <1>3 DEF AfterDeliveredPayload

LEMMA PayloadStepKeeps ==
    ASSUME ClaimParts, NEW o \in Owner, PayloadStep(o)
    PROVE  ClaimParts'
    BY SuppressPayloadKeeps, PayloadThrowsKeeps, PreparePayloadKeeps,
       PlatformSendStartKeeps, PlatformSendDispatchKeeps, PlatformAnswersKeep,
       DeliveryResultKeeps, AfterDeliveredPayloadKeeps DEF PayloadStep

-----------------------------------------------------------------------------
(* The cleanup of a run. *)

failedRow == [row EXCEPT !.status = "failed"]

LEMMA FailedRowFacts ==
    ASSUME row \in Row
    PROVE  failedRow \in Row /\ failedRow.status = "failed"
    BY DEF Row, failedRow

LEMMA AckOkFacts ==
    ASSUME faults \in 0..MaxFaults,
           NEW x \in {y \in AckDelivery : y.answer = "ok"}
    PROVE  x.answer = "ok" /\ x.row = Deleted /\ x.faults \in 0..MaxFaults
    BY AckFacts

(* What the last write of the live send can be *)
LEMMA LiveFinalFacts ==
    ASSUME NEW r \in Run, r.pc = "final", row \in Row, faults \in 0..MaxFaults,
           RunMatchesRow(r, row), NEW x \in LiveFinalWrite(r)
    PROVE  /\ x.faults \in 0..MaxFaults
           /\ \/ x.row = row
              \/ r.queued /\ x.row = Deleted /\ (r.err = "abort" \/ Clean(r))
              \/ /\ Pending /\ r.post # "failed"
                 /\ x.row \in {Failed, FailedAfterPlatformSend}
              \/ /\ Pending /\ r.post # "failed" /\ x.row = FailedBeforePlatformSend
                 /\ ~r.got
                 /\ r.err = "proven" \/ (r.err = "none" /\ r.failed /\ r.allProven)
<1> DEFINE Same == x.faults \in 0..MaxFaults /\ x.row = row
           Counted == /\ x.faults \in 0..MaxFaults
                      /\ x.row = row \/ (Pending /\ x.row = Failed)
           CountedBefore == /\ x.faults \in 0..MaxFaults
                            /\ \/ x.row = row
                               \/ Pending /\ x.row = FailedBeforePlatformSend
           CountedAfter == /\ x.faults \in 0..MaxFaults
                           /\ \/ x.row = row
                              \/ Pending /\ x.row = FailedAfterPlatformSend
<1>1. x \in Nothing => Same
    BY OutcomeFacts DEF Nothing
<1>2. x \in FailDelivery => Counted
    BY UpdateFacts DEF FailDelivery
<1>3. x \in FailDeliveryBeforePlatformSend => CountedBefore
    BY UpdateFacts DEF FailDeliveryBeforePlatformSend
<1>4. x \in FailDeliveryAfterPlatformSend => CountedAfter
    BY UpdateFacts DEF FailDeliveryAfterPlatformSend
<1> HIDE DEF Same, Counted, CountedBefore, CountedAfter
<1>5. CASE ~r.queued
    BY <1>1, <1>5 DEF LiveFinalWrite, Same
<1>6. CASE r.queued /\ r.err = "abort"
    <2>1. x \in AckDelivery
        BY <1>6 DEF LiveFinalWrite, Clean
    <2> QED BY <1>6, <2>1, AckFacts
<1>7. CASE r.queued /\ Clean(r)
    <2>1. CASE x \in LiveAck(r) /\ r.post \notin {"acked", "failed"}
        <3>1. CASE x \in {y \in AckDelivery : y.answer = "ok"}
            BY <1>7, <3>1, AckOkFacts
        <3>2. CASE x \in Outcome("threw", row, 1) \/ x \in Outcome("threw", row, 2)
            BY <3>2, OutcomeFacts
        <3>3. CASE Pending /\ \/ x \in Outcome("failed", Failed, 1)
                              \/ x \in Outcome("failed", FailedAfterPlatformSend, 1)
            BY <2>1, <3>3, OutcomeFacts
        <3> QED BY <2>1, <3>1, <3>2, <3>3 DEF LiveAck
    <2>2. x \in Nothing \/ (x \in LiveAck(r) /\ r.post \notin {"acked", "failed"})
        BY <1>7 DEF LiveFinalWrite, Clean
    <2> QED BY <1>1, <2>1, <2>2 DEF Same
<1>8. CASE r.queued /\ r.err = "none" /\ r.failed
    <2>1. \/ x \in Nothing
          \/ r.post # "failed" /\ x \in FailDelivery
          \/ /\ r.post # "failed" /\ ~r.got /\ r.allProven
             /\ x \in FailDeliveryBeforePlatformSend
        BY <1>8 DEF LiveFinalWrite, Clean
    <2> QED BY <1>1, <1>2, <1>3, <1>8, <2>1 DEF Same, Counted, CountedBefore
<1>9. CASE r.queued /\ r.err \in {"plain", "proven", "permanent"}
    <2>1. \/ x \in Nothing
          \/ r.post = "marked" /\ x \in FailDeliveryAfterPlatformSend
          \/ ~r.got /\ x \in FailDelivery
          \/ ~r.got /\ r.err = "proven" /\ x \in FailDeliveryBeforePlatformSend
        BY <1>9 DEF LiveFinalWrite, Clean
    <2>2. ~r.got => r.post # "failed"
        BY <1>9 DEF RunMatchesRow, Clean
    <2> QED BY <1>1, <1>2, <1>3, <1>4, <2>1, <2>2
            DEF Same, Counted, CountedBefore, CountedAfter
<1>10. r.err \in {"none", "plain", "proven", "permanent", "abort"}
       /\ r.queued \in BOOLEAN /\ r.failed \in BOOLEAN
    BY RunFields DEF ErrorKind
<1> QED BY <1>5, <1>6, <1>7, <1>8, <1>9, <1>10 DEF Clean

(* What the last write of a replay can be.  "rethrow" goes back to the     *)
(* cleanup; where the replay ends with the row unchanged, the row is gone, *)
(* something was sent, the failure is counted or a database call threw.    *)
LEMMA ReplayFinalFacts ==
    ASSUME NEW r \in Run, r.pc = "final", row \in Row, faults \in 0..MaxFaults,
           RunMatchesRow(r, row), r.queued, NEW x \in ReplayFinalWrite(r)
    PROVE  /\ x.faults \in 0..MaxFaults
           /\ x.answer = "rethrow" => x.row = row /\ r.post # "failed"
           /\ \/ x.row = row /\ \/ x.answer = "rethrow" \/ ~Pending \/ r.got
                                \/ r.post = "failed" \/ x.faults = faults + 1
              \/ x.row = Deleted /\ Clean(r)
              \/ Pending /\ x.row = failedRow
              \/ /\ Pending /\ r.post # "failed"
                 /\ x.row \in {Failed, FailedAfterPlatformSend}
              \/ /\ Pending /\ r.post # "failed" /\ x.row = FailedBeforePlatformSend
                 /\ ~r.got
                 /\ r.err = "proven" \/ (r.err = "none" /\ r.failed /\ r.allProven)
<1> DEFINE Wrote(theRow) ==
               /\ x.faults \in 0..MaxFaults /\ x.answer # "rethrow"
               /\ \/ x.row = row /\ (~Pending \/ x.faults = faults + 1)
                  \/ Pending /\ x.row = theRow
           Rewrote(theRow) ==
               /\ x.faults \in 0..MaxFaults
               /\ \/ x.row = row /\ x.answer = "rethrow"
                  \/ Pending /\ x.row = theRow /\ x.answer # "rethrow"
<1>1. x \in Nothing => /\ x.faults \in 0..MaxFaults /\ x.row = row
                       /\ x.answer # "rethrow"
    BY OutcomeFacts DEF Nothing
<1>2. /\ x \in FailDelivery => Wrote(Failed)
      /\ x \in FailDeliveryBeforePlatformSend => Wrote(FailedBeforePlatformSend)
      /\ x \in MoveToFailed => Wrote(failedRow)
    <2>1. \A theRow : x \in Update(theRow) => Wrote(theRow)
        BY UpdateFacts
    <2> QED BY <2>1 DEF FailDelivery, FailDeliveryBeforePlatformSend, MoveToFailed,
                        failedRow
<1>3. ASSUME NEW theRow, NEW y \in Update(theRow),
             x = [y EXCEPT !.answer = IF y.answer = "ok" THEN y.answer ELSE "rethrow"]
      PROVE  Rewrote(theRow)
    <2>1. \E a, b, c : y = [answer |-> a, row |-> b, faults |-> c]
        BY <1>3 DEF Update, Outcome
    <2>2. x.faults = y.faults /\ x.row = y.row
          /\ x.answer = IF y.answer = "ok" THEN y.answer ELSE "rethrow"
        BY <1>3, <2>1
    <2> QED BY <1>3, <2>2, UpdateFacts
<1> HIDE DEF Wrote, Rewrote
<1>4. CASE Clean(r)
    <2>1. CASE x \in Nothing /\ r.post \in {"acked", "failed"}
        BY <1>1, <2>1 DEF RunMatchesRow, Pending
    <2>2. CASE x \in ReplayAck(r) /\ r.post \notin {"acked", "failed"}
        <3>1. CASE x \in {y \in AckDelivery : y.answer = "ok"}
            BY <1>4, <3>1, AckOkFacts
        <3>2. CASE x \in Outcome("rethrow", row, 1) \/ x \in Outcome("rethrow", row, 2)
            BY <2>2, <3>2, OutcomeFacts
        <3>3. CASE Pending /\ \/ x \in Outcome("failed", Failed, 1)
                              \/ x \in Outcome("failed", FailedAfterPlatformSend, 1)
            BY <2>2, <3>3, OutcomeFacts
        <3> QED BY <2>2, <3>1, <3>2, <3>3 DEF ReplayAck
    <2>3. \/ x \in Nothing /\ r.post \in {"acked", "failed"}
          \/ x \in ReplayAck(r) /\ r.post \notin {"acked", "failed"}
        BY <1>4 DEF ReplayFinalWrite, Clean
    <2> QED BY <2>1, <2>2, <2>3
<1>5. CASE r.err = "none" /\ r.failed
    <2>1. ~Clean(r)
        BY <1>5 DEF Clean
    <2>2. CASE x \in Nothing /\ r.got
        BY <1>1, <2>2
    <2>3. CASE ~r.got /\ r.allProven
        <3>1. PICK y \in FailDeliveryBeforePlatformSend :
                x = [y EXCEPT !.answer = IF y.answer = "ok" THEN y.answer ELSE "rethrow"]
            BY <1>5, <2>1, <2>3 DEF ReplayFinalWrite
        <3>2. Rewrote(FailedBeforePlatformSend)
            BY <1>3, <3>1 DEF FailDeliveryBeforePlatformSend
        <3>3. r.post # "failed"
            BY <2>1, <2>3 DEF RunMatchesRow
        <3> QED BY <1>5, <2>3, <3>2, <3>3 DEF Rewrote
    <2>4. CASE ~r.got /\ ~r.allProven
        <3>1. PICK y \in FailDelivery :
                x = [y EXCEPT !.answer = IF y.answer = "ok" THEN y.answer ELSE "rethrow"]
            BY <1>5, <2>1, <2>4 DEF ReplayFinalWrite
        <3>2. Rewrote(Failed)
            BY <1>3, <3>1 DEF FailDelivery
        <3>3. r.post # "failed"
            BY <2>1, <2>4 DEF RunMatchesRow
        <3> QED BY <3>2, <3>3 DEF Rewrote
    <2>5. r.got => x \in Nothing
        BY <1>5, <2>1 DEF ReplayFinalWrite
    <2> QED BY <2>2, <2>3, <2>4, <2>5
<1>6. CASE r.err # "none"
    <2>1. ~Clean(r)
        BY <1>6 DEF Clean
    <2>2. \/ x \in Nothing /\ (r.got \/ ~Pending)
          \/ ~r.got /\ x \in MoveToFailed
          \/ ~r.got /\ r.err = "proven" /\ x \in FailDeliveryBeforePlatformSend
          \/ ~r.got /\ x \in FailDelivery
        BY <1>6, <2>1 DEF ReplayFinalWrite
    <2>3. ~r.got => r.post # "failed"
        BY <2>1 DEF RunMatchesRow
    <2> QED BY <1>1, <1>2, <1>6, <2>2, <2>3 DEF Wrote
<1>7. r.failed \in BOOLEAN
    BY RunFields
<1> QED BY <1>4, <1>5, <1>6, <1>7 DEF Clean

(* The evidence step of a cleanup, as far as it moves on to the last write *)
LEMMA ToFinal ==
    ASSUME ClaimParts, NEW o \in Owner, run[o].pc = "finish",
           Keep(o, [run[o] EXCEPT !.pc = "final"]),
           UNCHANGED <<row, waived, faults, intent, accepted, aborted, crashes>>
    PROVE  ClaimParts'
<1> DEFINE s == run[o]
           r == [s EXCEPT !.pc = "final"]
<1>1. s \in Run /\ s.pc \in SendPc /\ s.pc # "final" /\ s.p <= intent.payloads
    BY SendingFacts DEF SendPc
<1>2. /\ r \in Run /\ r.pc \in SendPc /\ r.queued = s.queued /\ r.entry = s.entry
      /\ r.p = s.p /\ r.pre = s.pre /\ r.post = s.post /\ r.got = s.got
    BY <1>1 DEF Run, Pc, SendPc
<1> HIDE DEF r
<1> QED BY <1>1, <1>2, QuietStep, OtherTypes DEF r

LEMMA EvidenceToFinal ==
    ASSUME ClaimParts, NEW o \in Owner, run[o].pc = "finish", run[o].queued,
           run[o].post = "none", run[o].got \/ Clean(run[o]),
           NEW x \in PersistPostSendState, Apply(x), x.answer # "threw",
           Keep(o, [run[o] EXCEPT !.post = x.answer, !.pc = "final"]),
           UNCHANGED <<intent, crashes, accepted, aborted>>, waived' \subseteq Payload
    PROVE  ClaimParts'
<1> DEFINE s == run[o]
           r == [s EXCEPT !.post = x.answer, !.pc = "final"]
<1>1. /\ s \in Run /\ s.pc \in SendPc /\ s.pc # "final" /\ s.p <= intent.payloads
      /\ faults \in 0..MaxFaults
    BY SendingFacts DEF SendPc
<1>2. x.answer \in {"marked", "acked", "failed"}
    BY <1>1, PostSendFacts
<1>3. /\ r \in Run /\ r.pc \in SendPc /\ r.pc = "final" /\ r.queued = s.queued
      /\ r.entry = s.entry /\ r.p = s.p /\ r.pre = s.pre /\ r.post = x.answer
      /\ r.got = s.got /\ r.err = s.err /\ r.failed = s.failed
    BY <1>1, <1>2 DEF Run, Pc, SendPc
<1> HIDE DEF r
<1>4. r.got \/ (r.pc = "final" /\ Clean(r))
    BY <1>3 DEF Clean
<1> QED BY <1>1, <1>3, <1>4, EvidenceStep DEF r

(* An owner that sends may leave the entry at any time. *)
LEMMA SenderLeaves ==
    ASSUME ClaimParts, NEW o \in Owner, run[o].pc \in SendPc, Release(o),
           row' \in Row, row'.status = "absent" <=> row.status = "absent",
           faults' \in 0..MaxFaults, waived' \subseteq Payload,
           UNCHANGED <<intent, accepted, aborted, crashes>>
    PROVE  ClaimParts'
<1>1. Busy(o) /\ PastEnqueue
    BY SendingFacts DEF PastEnqueue
<1> QED BY <1>1, ReleaseStep, OtherTypes

LEMMA LiveRecordsEvidenceKeeps ==
    ASSUME ClaimParts, LiveRecordsEvidence
    PROVE  ClaimParts'
<1> DEFINE s == run[Live]
           Records == /\ s.queued /\ s.err # "abort" /\ s.post = "none"
                      /\ s.got \/ (Clean(s) /\ s.pre = "marked")
<1>1. /\ Live \in Owner /\ s.pc = "finish" /\ s.pc \in SendPc
      /\ UNCHANGED <<intent, accepted, aborted, crashes>>
    BY OwnerFacts DEF LiveRecordsEvidence, SendPc
<1>2. waived' \subseteq Payload
    BY OtherTypes DEF LiveRecordsEvidence, WaiveIf
<1>3. CASE Records
    <2>1. PICK x \in PersistPostSendState :
            /\ Apply(x)
            /\ IF x.answer = "threw" THEN Release(Live)
               ELSE Keep(Live, [s EXCEPT !.post = x.answer, !.pc = "final"])
        BY <1>3 DEF LiveRecordsEvidence
    <2>2. CASE x.answer = "threw"
        <3>1. row' = row /\ faults' \in 0..MaxFaults
            BY <2>1, <2>2, PostSendFacts, OtherTypes DEF Apply
        <3> QED BY <1>1, <1>2, <2>1, <2>2, <3>1, SenderLeaves, OtherTypes
    <2>3. CASE x.answer # "threw"
        BY <1>1, <1>2, <1>3, <2>1, <2>3, EvidenceToFinal
    <2> QED BY <2>2, <2>3
<1>4. CASE ~Records
    BY <1>1, <1>4, ToFinal DEF LiveRecordsEvidence
<1> QED BY <1>3, <1>4

LEMMA LiveFinishesKeeps ==
    ASSUME ClaimParts, LiveFinishes
    PROVE  ClaimParts'
<1> DEFINE s == run[Live]
<1>1. /\ Live \in Owner /\ s.pc = "final" /\ s.pc \in SendPc /\ Release(Live)
      /\ UNCHANGED <<intent, accepted, aborted, crashes>>
    BY OwnerFacts DEF LiveFinishes, SendPc
<1>2. waived' \subseteq Payload
    BY OtherTypes DEF LiveFinishes, WaiveIf
<1>3. PICK x \in LiveFinalWrite(s) : Apply(x)
    BY DEF LiveFinishes
<1>4. /\ s \in Run /\ RunMatchesRow(s, row) /\ row \in Row /\ faults \in 0..MaxFaults
    BY <1>1, SendingFacts
<1>5. faults' \in 0..MaxFaults /\ row' = x.row
    BY <1>1, <1>3, <1>4, LiveFinalFacts DEF Apply
<1>6. row' \in Row /\ (row'.status = "absent" <=> row.status = "absent")
    <2>1. CASE x.row = row
        BY <1>4, <1>5, <2>1
    <2>2. CASE s.queued /\ x.row = Deleted
        BY <1>4, <1>5, <2>2, DeletedFacts DEF Pending
    <2>3. CASE /\ Pending /\ s.post # "failed"
               /\ x.row \in {Failed, FailedAfterPlatformSend, FailedBeforePlatformSend}
        <3>1. row.retryCount < MaxRetries
            BY <1>4, <2>3, RetryIsLeft
        <3> QED BY <1>4, <1>5, <2>3, <3>1, FailedFacts
    <2> QED BY <1>1, <1>3, <1>4, <2>1, <2>2, <2>3, LiveFinalFacts
<1> QED BY <1>1, <1>2, <1>5, <1>6, SenderLeaves

LEMMA RethrownStep ==
    ASSUME ClaimParts, NEW o \in Owner, run[o].pc \in SendPc,
           run[o].post = "failed" => run[o].got, Keep(o, Rethrown(run[o])),
           row' = row, faults' \in 0..MaxFaults, waived' \subseteq Payload,
           UNCHANGED <<intent, accepted, aborted, crashes>>
    PROVE  ClaimParts'
<1> DEFINE s == run[o]
           r == Rethrown(s)
<1>1. /\ s \in Run /\ s.p <= intent.payloads /\ RunMatchesRow(s, row) /\ row \in Row
    BY SendingFacts
<1>2. /\ r \in Run /\ r.pc \in SendPc /\ r.queued = s.queued /\ r.entry = s.entry
      /\ r.p = s.p /\ r.pre = s.pre /\ r.post = s.post /\ r.got = s.got
    BY <1>1 DEF Run, Pc, SendPc, Rethrown, ErrorKind
<1> HIDE DEF r
<1>3. RunMatchesRow(r, row') /\ row' \in Row
    BY <1>1, <1>2 DEF RunMatchesRow
<1> QED BY <1>1, <1>2, <1>3, KeepStep, OtherTypes DEF r

LEMMA ReplayRecordsEvidenceKeeps ==
    ASSUME ClaimParts, NEW w \in Worker, ReplayRecordsEvidence(w)
    PROVE  ClaimParts'
<1> DEFINE s == run[w]
<1>1. /\ w \in Owner /\ s.pc = "finish" /\ s.pc \in SendPc /\ s.queued
      /\ UNCHANGED <<intent, accepted, aborted, crashes>>
    BY OwnerFacts DEF ReplayRecordsEvidence, SendPc, ClaimParts, WorkerRuns
<1>2. waived' \subseteq Payload
    BY OtherTypes DEF ReplayRecordsEvidence, WaiveIf
<1>3. CASE s.got /\ s.post = "none"
    <2>1. PICK x \in PersistPostSendState :
            /\ Apply(x)
            /\ IF x.answer # "threw"
               THEN Keep(w, [s EXCEPT !.post = x.answer, !.pc = "final"])
               ELSE IF s.err = "none" THEN Keep(w, Rethrown(s)) ELSE Release(w)
        BY <1>3 DEF ReplayRecordsEvidence
    <2>2. CASE x.answer = "threw"
        <3>1. row' = row /\ faults' \in 0..MaxFaults
            BY <2>1, <2>2, PostSendFacts, OtherTypes DEF Apply
        <3>2. CASE s.err = "none"
            BY <1>1, <1>2, <1>3, <2>1, <2>2, <3>1, <3>2, RethrownStep
        <3>3. CASE s.err # "none"
            BY <1>1, <1>2, <2>1, <2>2, <3>1, <3>3, SenderLeaves, OtherTypes
        <3> QED BY <3>2, <3>3
    <2>3. CASE x.answer # "threw"
        BY <1>1, <1>2, <1>3, <2>1, <2>3, EvidenceToFinal
    <2> QED BY <2>2, <2>3
<1>4. CASE ~(s.got /\ s.post = "none")
    BY <1>1, <1>4, ToFinal DEF ReplayRecordsEvidence
<1> QED BY <1>3, <1>4

LEMMA ReplayFinishesKeeps ==
    ASSUME ClaimParts, NEW w \in Worker, ReplayFinishes(w)
    PROVE  ClaimParts'
<1> DEFINE s == run[w]
<1>1. /\ w \in Owner /\ s.pc = "final" /\ s.pc \in SendPc /\ s.queued
      /\ UNCHANGED <<intent, accepted, waived, aborted, crashes>>
    BY OwnerFacts DEF ReplayFinishes, SendPc, ClaimParts, WorkerRuns
<1>2. PICK x \in ReplayFinalWrite(s) :
        Apply(x) /\ IF x.answer = "rethrow" THEN Keep(w, Rethrown(s)) ELSE Release(w)
    BY DEF ReplayFinishes
<1>3. /\ s \in Run /\ RunMatchesRow(s, row) /\ row \in Row /\ faults \in 0..MaxFaults
    BY <1>1, SendingFacts
<1>4. faults' \in 0..MaxFaults /\ row' = x.row
    BY <1>1, <1>2, <1>3, ReplayFinalFacts DEF Apply
<1>5. CASE x.answer = "rethrow"
    <2>1. x.row = row /\ s.post # "failed"
        BY <1>1, <1>2, <1>3, <1>5, ReplayFinalFacts
    <2> QED BY <1>1, <1>2, <1>4, <1>5, <2>1, RethrownStep, OtherTypes
<1>6. CASE x.answer # "rethrow"
    <2>1. row' \in Row /\ (row'.status = "absent" <=> row.status = "absent")
        <3>1. CASE x.row = row
            BY <1>3, <1>4, <3>1
        <3>2. CASE x.row = Deleted
            BY <1>1, <1>3, <1>4, <3>2, DeletedFacts DEF RunMatchesRow, Pending
        <3>3. CASE Pending /\ x.row = failedRow
            BY <1>3, <1>4, <3>3, FailedRowFacts DEF Pending
        <3>4. CASE /\ Pending /\ s.post # "failed"
                   /\ x.row \in {Failed, FailedAfterPlatformSend, FailedBeforePlatformSend}
            <4>1. row.retryCount < MaxRetries
                BY <1>3, <3>4, RetryIsLeft
            <4> QED BY <1>3, <1>4, <3>4, <4>1, FailedFacts
        <3> QED BY <1>1, <1>2, <1>3, <3>1, <3>2, <3>3, <3>4, ReplayFinalFacts
    <2> QED BY <1>1, <1>2, <1>4, <1>6, <2>1, SenderLeaves, OtherTypes
<1> QED BY <1>5, <1>6

-----------------------------------------------------------------------------
(* The start of the live send, and a drain up to its first send. *)

LEMMA EnqueueDeliveryKeeps ==
    ASSUME ClaimParts, EnqueueDelivery
    PROVE  ClaimParts'
<1>1. /\ row = absentRow /\ row' = freshRow /\ live' = "enqueued" /\ live = "new"
      /\ UNCHANGED <<intent, claimed, run, accepted, waived, aborted, crashes, faults>>
    BY DEF EnqueueDelivery, ClaimParts, RowIsFresh, freshRow
<1>2. run[Live].pc = "idle" /\ \A w \in Worker : run[w].pc = "idle"
    BY <1>1 DEF ClaimParts, LiveRuns, RowIsFresh, absentRow
<1>3. TypeOK'
    BY <1>1, IdleRunType DEF ClaimParts, TypeOK
<1>4. SoleOwner' /\ WorkerRuns'
    BY <1>1 DEF ClaimParts, SoleOwner, AtWork, WorkerRuns, Untouched
<1>5. FreshEntry' /\ LiveRuns'
    BY <1>1, <1>2 DEF FreshEntry, LiveRuns
<1>6. RowIsFresh' /\ RunsMatchRow'
    BY <1>1, <1>2, OwnerFacts
    DEF RowIsFresh, RunsMatchRow, freshRow, absentRow, SendPc
<1> QED BY <1>3, <1>4, <1>5, <1>6 DEF ClaimParts

(* The live send starts its run, recorded or not. *)
LEMMA LiveStarts ==
    ASSUME ClaimParts, live \in {"new", "enqueued"}, NEW r \in Run, r.pc = "payload",
           r.queued => claimed = FALSE /\ claimed' = TRUE,
           ~r.queued => claimed' = claimed /\ live = "new",
           live' = "own", run' = [run EXCEPT ![Live] = r],
           RunMatchesRow(r, row), UNCHANGED <<row, intent, crashes>>,
           faults' \in 0..MaxFaults, accepted' \in [Payload -> Nat],
           waived' \subseteq Payload, aborted' \in BOOLEAN
    PROVE  ClaimParts'
<1>1. run'[Live] = r /\ \A q \in Owner : q # Live => run'[q] = run[q]
    BY OtherTypes, OwnerFacts
<1>2. TypeOK'
    <2>1. claimed' \in BOOLEAN
        BY DEF ClaimParts, TypeOK
    <2>2. run' \in [Owner -> Run]
        BY OtherTypes, OwnerFacts
    <2> QED BY <2>1, <2>2 DEF ClaimParts, TypeOK
<1>3. \A w \in Worker : ~AtWork(w)
    <2>1. CASE r.queued
        BY <2>1, OwnerFacts DEF ClaimParts, SoleOwner
    <2>2. CASE ~r.queued
        BY <2>2 DEF ClaimParts, RowIsFresh, AtWork, absentRow
    <2> QED BY <2>1, <2>2
<1>4. \A w \in Worker : run[w].pc \in {"idle", "loaded"}
    BY <1>3 DEF AtWork, ClaimParts, WorkerRuns
<1>5. SoleOwner'
    <2>1. \A w \in Worker : ~AtWork(w)'
        BY <1>1, <1>3, OwnerFacts DEF AtWork
    <2>2. AtWork(Live)' <=> r.queued
        BY <1>1 DEF AtWork
    <2>3. ~r.queued => claimed' = FALSE
        <3>1. run[Live].pc = "idle" /\ claimed \in BOOLEAN
            BY DEF ClaimParts, LiveRuns, TypeOK
        <3>2. \A o \in Owner : ~AtWork(o)
            BY <1>3, <3>1, OwnerFacts DEF AtWork
        <3> QED BY <3>1, <3>2 DEF ClaimParts, SoleOwner
    <2> QED BY <2>1, <2>2, <2>3, OwnerFacts DEF SoleOwner
<1>6. FreshEntry' /\ WorkerRuns'
    BY <1>1, <1>4, OwnerFacts DEF FreshEntry, ClaimParts, WorkerRuns, Untouched
<1>7. LiveRuns'
    BY <1>1 DEF LiveRuns, SendPc
<1>8. RowIsFresh'
    BY <1>1, OwnerFacts DEF ClaimParts, RowIsFresh
<1>9. RunsMatchRow'
    BY <1>1, <1>4, OwnerFacts DEF RunsMatchRow, RunMatchesRow, SendPc
<1> QED BY <1>2, <1>5, <1>6, <1>7, <1>8, <1>9 DEF ClaimParts

LEMMA EnqueueThrowsKeeps ==
    ASSUME ClaimParts, EnqueueThrows
    PROVE  ClaimParts'
<1>1. /\ live = "new" /\ row = absentRow /\ faults' \in 0..MaxFaults
      /\ UNCHANGED <<row, intent, claimed, accepted, aborted, crashes>>
    BY OtherTypes DEF EnqueueThrows, ClaimParts, RowIsFresh
<1>2. CASE intent.policy = "required"
    <2>1. live' = "done" /\ run' = run /\ waived' = waived
        BY <1>2 DEF EnqueueThrows
    <2>2. TypeOK'
        BY <1>1, <2>1 DEF ClaimParts, TypeOK
    <2> QED BY <1>1, <2>1, <2>2
            DEF ClaimParts, SoleOwner, AtWork, FreshEntry, Pending, WorkerRuns,
                Untouched, LiveRuns, RowIsFresh, RunsMatchRow, RunMatchesRow
<1>3. CASE intent.policy # "required"
    <2> DEFINE r == [idleRun EXCEPT !.pc = "payload", !.queued = FALSE]
    <2>1. live' = "own" /\ run' = [run EXCEPT ![Live] = r] /\ waived' = Payload
        BY <1>3 DEF EnqueueThrows
    <2>2. /\ r \in Run /\ r.pc = "payload" /\ r.queued = FALSE /\ r.p = 1
          /\ r.pre = "none" /\ r.post = "none" /\ r.entry = absentRow
        BY IdleRunType DEF Run, Pc, idleRun
    <2> HIDE DEF r
    <2>3. 1 <= intent.payloads
        BY OtherTypes, PayloadFacts DEF Intent, Payload
    <2>4. RunMatchesRow(r, row)
        BY <1>1, <2>2, <2>3 DEF RunMatchesRow, absentRow
    <2> QED BY <1>1, <2>1, <2>2, <2>4, LiveStarts, OtherTypes
<1> QED BY <1>2, <1>3

LEMMA LiveClaimsKeeps ==
    ASSUME ClaimParts, LiveClaims
    PROVE  ClaimParts'
<1>1. /\ live = "enqueued" /\ row = freshRow
      /\ UNCHANGED <<row, intent, accepted, waived, aborted, crashes, faults>>
    BY DEF LiveClaims, ClaimParts, RowIsFresh
<1>2. CASE claimed
    <2>1. live' = "done" /\ run' = run /\ claimed' = claimed
        BY <1>2 DEF LiveClaims
    <2>2. TypeOK'
        BY <1>1, <2>1 DEF ClaimParts, TypeOK
    <2> QED BY <1>1, <2>1, <2>2
            DEF ClaimParts, SoleOwner, AtWork, FreshEntry, Pending, WorkerRuns,
                Untouched, LiveRuns, RowIsFresh, RunsMatchRow, RunMatchesRow
<1>3. CASE ~claimed
    <2> DEFINE r == [idleRun EXCEPT !.pc = "payload"]
    <2>1. live' = "own" /\ claimed' = TRUE /\ run' = [run EXCEPT ![Live] = r]
        BY <1>3 DEF LiveClaims
    <2>2. /\ r \in Run /\ r.pc = "payload" /\ r.queued = TRUE /\ r.p = 1
          /\ r.pre = "none" /\ r.post = "none" /\ r.entry = absentRow
        BY IdleRunType DEF Run, Pc, idleRun
    <2> HIDE DEF r
    <2>3. 1 <= intent.payloads
        BY OtherTypes, PayloadFacts DEF Intent, Payload
    <2>4. RunMatchesRow(r, row)
        BY <1>1, <2>2, <2>3 DEF RunMatchesRow, absentRow, freshRow
    <2>5. claimed = FALSE
        BY <1>3 DEF ClaimParts, TypeOK
    <2> QED BY <1>1, <2>1, <2>2, <2>4, <2>5, LiveStarts, OtherTypes
<1> QED BY <1>2, <1>3

(* A drain moves between the list and its first send. *)
LEMMA DrainStep ==
    ASSUME ClaimParts, NEW w \in Worker, run[w].pc \notin SendPc,
           NEW r \in Run, run' = [run EXCEPT ![w] = r], live' = live,
           r.pc \notin SendPc => Untouched(r), r.queued = TRUE,
           r.pc # "idle" => row.status # "absent",
           r.pc \notin {"idle", "loaded", "claimed"} =>
             /\ run[w].pc \in {"claimed", "replay"} /\ PastEnqueue
             /\ r.entry.retryCount < MaxRetries,
           r.pc \in {"claimed", "replay"} => Pending /\ r.entry = row,
           r.pc \in SendPc => RunMatchesRow(r, row),
           claimed' = (claimed \/ r.pc \notin {"idle", "loaded"}),
           r.pc \notin {"idle", "loaded"} => ~claimed \/ Busy(w),
           r.pc \in {"idle", "loaded"} => ~Busy(w),
           UNCHANGED <<row, intent, accepted, waived, aborted, crashes, faults>>
    PROVE  ClaimParts'
<1>1. run'[w] = r /\ w \in Owner /\ w # Live
      /\ \A q \in Owner : q # w => run'[q] = run[q]
    BY OtherTypes, OwnerFacts
<1>2. TypeOK'
    <2>1. claimed' \in BOOLEAN
        OBVIOUS
    <2>2. run' \in [Owner -> Run]
        BY OtherTypes, OwnerFacts
    <2> QED BY <2>1, <2>2 DEF ClaimParts, TypeOK
<1>3. AtWork(w) <=> Busy(w)
    BY <1>1 DEF AtWork, Busy, ClaimParts, WorkerRuns
<1>4. AtWork(w)' <=> r.pc \notin {"idle", "loaded"}
    BY <1>1 DEF AtWork
<1>5. \A q \in Owner : q # w => (AtWork(q)' <=> AtWork(q))
    BY <1>1 DEF AtWork
<1>6. SoleOwner'
    <2>1. claimed \in BOOLEAN /\ (claimed <=> \E o \in Owner : AtWork(o))
          /\ \A o1, o2 \in Owner : AtWork(o1) /\ AtWork(o2) => o1 = o2
        BY DEF ClaimParts, SoleOwner, TypeOK
    <2>2. CASE r.pc \in {"idle", "loaded"}
        <3>1. \A q \in Owner : AtWork(q)' <=> AtWork(q)
            BY <1>3, <1>4, <1>5, <2>2
        <3> QED BY <2>1, <2>2, <3>1 DEF SoleOwner
    <2>3. CASE r.pc \notin {"idle", "loaded"}
        <3>1. \A q \in Owner : q # w => ~AtWork(q)
            BY <1>1, <1>3, <2>1, <2>3
        <3>2. claimed' = TRUE
            BY <2>3
        <3> QED BY <1>1, <1>4, <1>5, <2>3, <3>1, <3>2 DEF SoleOwner
    <2> QED BY <2>2, <2>3
<1>7. FreshEntry'
    BY <1>1, OwnerFacts DEF ClaimParts, FreshEntry, Pending
<1>8. WorkerRuns'
    <2>1. r.pc = "replay" => r.entry.retryCount < MaxRetries
        OBVIOUS
    <2> QED BY <1>1, <2>1, OwnerFacts DEF ClaimParts, WorkerRuns
<1>9. LiveRuns'
    BY <1>1, OwnerFacts DEF ClaimParts, LiveRuns
<1>10. RowIsFresh'
    <2>1. r.pc \in {"idle", "loaded", "claimed"} \/ live \notin {"new", "enqueued"}
        BY DEF PastEnqueue, ClaimParts, RowIsFresh, absentRow
    <2>2. row.status = "absent" => r.pc = "idle"
        OBVIOUS
    <2> QED BY <1>1, <2>1, <2>2, OwnerFacts DEF ClaimParts, RowIsFresh
<1>11. RunsMatchRow'
    <2>1. \A q \in Owner : run'[q].pc \in SendPc => RunMatchesRow(run'[q], row)
        BY <1>1 DEF ClaimParts, RunsMatchRow
    <2> QED BY <2>1 DEF RunsMatchRow, RunMatchesRow
<1> QED BY <1>2, <1>6, <1>7, <1>8, <1>9, <1>10, <1>11 DEF ClaimParts

LEMMA WorkerFacts ==
    ASSUME ClaimParts, NEW w \in Worker
    PROVE  /\ w \in Owner /\ run[w] \in Run /\ run[w].queued = TRUE
           /\ run[w].pc \notin SendPc => Untouched(run[w])
           /\ row \in Row /\ claimed \in BOOLEAN
           /\ run[w].pc # "idle" => row.status # "absent"
           /\ run[w].pc \in {"claimed", "replay"} =>
                Pending /\ run[w].entry = row /\ claimed
    BY OwnerFacts
    DEF ClaimParts, TypeOK, WorkerRuns, FreshEntry, RowIsFresh, SoleOwner, AtWork

LEMMA LoadPendingDeliveriesKeeps ==
    ASSUME ClaimParts, NEW w \in Worker, LoadPendingDeliveries(w)
    PROVE  ClaimParts'
<1> DEFINE r == [idleRun EXCEPT !.pc = "loaded", !.entry = row]
<1>1. /\ run[w].pc = "idle" /\ Pending /\ run' = [run EXCEPT ![w] = r]
      /\ UNCHANGED <<claimed, live, row, intent, accepted, waived, aborted, crashes,
                     faults>>
    BY DEF LoadPendingDeliveries, Keep
<1>2. r \in Run /\ r.pc = "loaded" /\ Untouched(r)
    BY IdleRunType, OtherTypes DEF Run, Pc, idleRun, Untouched
<1> HIDE DEF r
<1>3. r.queued = TRUE /\ claimed' = claimed /\ claimed \in BOOLEAN
    BY <1>1, <1>2, WorkerFacts DEF Untouched
<1> QED BY <1>1, <1>2, <1>3, DrainStep DEF SendPc, Pending, Busy

LEMMA ClaimAndReloadKeeps ==
    ASSUME ClaimParts, NEW w \in Worker, ClaimAndReload(w)
    PROVE  ClaimParts'
<1>1. /\ run[w].pc = "loaded"
      /\ UNCHANGED <<row, intent, accepted, waived, aborted, crashes, faults>>
    BY DEF ClaimAndReload
<1>2. CASE claimed \/ ~Pending
    <2>1. run' = [run EXCEPT ![w] = idleRun] /\ claimed' = claimed /\ live' = live
        BY <1>2 DEF ClaimAndReload, Keep
    <2>2. idleRun \in Run /\ idleRun.pc = "idle" /\ Untouched(idleRun)
          /\ idleRun.queued = TRUE
        BY IdleRunType DEF idleRun, Untouched
    <2> QED BY <1>1, <2>1, <2>2, DrainStep, WorkerFacts DEF SendPc, Busy
<1>3. CASE ~claimed /\ Pending
    <2> DEFINE r == [run[w] EXCEPT !.pc = "claimed", !.entry = row]
    <2>1. claimed' = TRUE /\ live' = live
          /\ run' = [run EXCEPT ![w].pc = "claimed", ![w].entry = row]
        BY <1>3 DEF ClaimAndReload
    <2>2. run' = [run EXCEPT ![w] = r]
        BY <2>1, OtherTypes, WorkerFacts
    <2>3. Untouched(run[w])
        BY <1>1, WorkerFacts DEF SendPc
    <2>4. /\ r \in Run /\ r.pc = "claimed" /\ Untouched(r) /\ r.queued = TRUE
          /\ r.entry = row
        BY <2>3, WorkerFacts DEF Run, Pc, Untouched
    <2> HIDE DEF r
    <2> QED BY <1>1, <1>3, <2>1, <2>2, <2>4, DrainStep DEF SendPc, Busy, Pending
<1> QED BY <1>2, <1>3

LEMMA DeadLetterEntryKeeps ==
    ASSUME ClaimParts, NEW w \in Worker, DeadLetterEntry(w) \/ DeferEntry(w)
    PROVE  ClaimParts'
<1>1. /\ w \in Owner /\ Busy(w) /\ PastEnqueue /\ Release(w) /\ row \in Row
      /\ row.status # "absent" /\ UNCHANGED <<intent, accepted, waived, aborted, crashes>>
    BY WorkerFacts DEF DeadLetterEntry, DeferEntry, Busy
<1>2. /\ faults' \in 0..MaxFaults /\ row' \in Row /\ row'.status # "absent"
    <2>1. CASE DeadLetterEntry(w)
        <3>1. PICK x \in MoveToFailed : Apply(x)
            BY <2>1 DEF DeadLetterEntry
        <3>2. x.faults \in 0..MaxFaults /\ x.row \in {row, failedRow}
            BY <3>1, UpdateFacts, OtherTypes DEF MoveToFailed, failedRow
        <3> QED BY <1>1, <3>1, <3>2, FailedRowFacts DEF Apply
    <2>2. CASE DeferEntry(w)
        BY <1>1, <2>2, OtherTypes DEF DeferEntry
    <2> QED BY <2>1, <2>2
<1> QED BY <1>1, <1>2, ReleaseStep, OtherTypes

LEMMA AdmitEntryKeeps ==
    ASSUME ClaimParts, NEW w \in Worker, AdmitEntry(w)
    PROVE  ClaimParts'
<1> DEFINE r == [run[w] EXCEPT !.pc = "replay"]
<1>1. /\ run[w].pc = "claimed" /\ PastEnqueue /\ run' = [run EXCEPT ![w] = r]
      /\ run[w].entry.retryCount < MaxRetries
      /\ UNCHANGED <<claimed, live, row, intent, accepted, waived, aborted, crashes,
                     faults>>
    BY DEF AdmitEntry, Keep
<1>2. Untouched(run[w])
    BY <1>1, WorkerFacts DEF SendPc
<1>3. /\ r \in Run /\ r.pc = "replay" /\ Untouched(r) /\ r.queued = TRUE
      /\ r.entry = run[w].entry
    BY <1>2, WorkerFacts DEF Run, Pc, Untouched
<1> HIDE DEF r
<1>4. claimed' = TRUE /\ claimed = TRUE /\ Pending /\ r.entry = row
    BY <1>1, <1>3, WorkerFacts
<1> QED BY <1>1, <1>3, <1>4, DrainStep DEF SendPc, Busy, Pending

(* The replay sends the entry it has checked. *)
LEMMA ReplaySends ==
    ASSUME ClaimParts, NEW w \in Worker, run[w].pc = "replay",
           Keep(w, [run[w] EXCEPT !.pc = "payload"]),
           UNCHANGED <<row, intent, accepted, waived, aborted, crashes, faults>>
    PROVE  ClaimParts'
<1> DEFINE r == [run[w] EXCEPT !.pc = "payload"]
<1>1. run' = [run EXCEPT ![w] = r] /\ UNCHANGED <<claimed, live>>
    BY DEF Keep
<1>2. Untouched(run[w]) /\ run[w].entry.retryCount < MaxRetries
    BY WorkerFacts DEF SendPc, ClaimParts, WorkerRuns
<1>3. /\ r \in Run /\ r.pc = "payload" /\ Untouched(r) /\ r.queued = TRUE
      /\ r.entry = run[w].entry
    BY <1>2, WorkerFacts DEF Run, Pc, Untouched
<1> HIDE DEF r
<1>4. claimed' = TRUE /\ claimed = TRUE /\ Pending /\ r.entry = row
    BY <1>1, <1>3, WorkerFacts
<1>5. 1 <= intent.payloads
    BY OtherTypes, PayloadFacts DEF Intent, Payload
<1>6. RunMatchesRow(r, row)
    BY <1>2, <1>3, <1>4, <1>5 DEF RunMatchesRow, Untouched, Pending
<1>7. PastEnqueue
    BY DEF PastEnqueue, ClaimParts, RowIsFresh
<1> QED BY <1>1, <1>2, <1>3, <1>4, <1>6, <1>7, DrainStep DEF SendPc, Busy, Pending

(* What reconciliation can make of the row *)
LEMMA ReconcileFacts ==
    ASSUME row \in Row, faults \in 0..MaxFaults,
           NEW answer \in {"null", "retryable", "sent", "not_sent"},
           NEW x \in CASE answer = "sent" -> ReconciledSent
                       [] answer = "retryable" -> FailDelivery
                       [] OTHER -> MoveToFailed
    PROVE  /\ x.faults \in 0..MaxFaults
           /\ \/ x.row = row
              \/ x.row = Deleted /\ answer = "sent"
              \/ Pending /\ x.row = Failed
              \/ Pending /\ x.row = failedRow
<1>1. CASE answer = "sent"
    <2>1. \/ x \in {y \in AckDelivery : y.answer = "ok"}
          \/ Pending /\ x \in Outcome("failed", Failed, 1)
          \/ x \in Outcome("threw", row, 2)
        BY <1>1 DEF ReconciledSent
    <2> QED BY <1>1, <2>1, AckOkFacts, OutcomeFacts
<1>2. CASE answer = "retryable"
    BY <1>2, UpdateFacts DEF FailDelivery
<1>3. CASE answer \notin {"sent", "retryable"}
    BY <1>3, UpdateFacts DEF MoveToFailed, failedRow
<1> QED BY <1>1, <1>2, <1>3

LEMMA ReconcileEntryKeeps ==
    ASSUME ClaimParts, NEW w \in Worker, ReconcileEntry(w)
    PROVE  ClaimParts'
<1>1. /\ w \in Owner /\ Busy(w) /\ row \in Row /\ Pending /\ run[w].pc = "replay"
      /\ run[w].entry = row /\ UNCHANGED <<intent, accepted, waived, aborted, crashes>>
    BY WorkerFacts DEF ReconcileEntry, Busy
<1>2. PICK answer \in Reconciliations :
         IF answer = "not_sent" /\ run[w].entry.recoveryState = "started"
         THEN Keep(w, [run[w] EXCEPT !.pc = "payload"])
              /\ UNCHANGED <<row, faults>>
         ELSE /\ \E x \in CASE answer = "sent" -> ReconciledSent
                            [] answer = "retryable" -> FailDelivery
                            [] OTHER -> MoveToFailed : Apply(x)
              /\ Release(w)
    BY DEF ReconcileEntry
<1>3. CASE answer = "not_sent" /\ run[w].entry.recoveryState = "started"
    BY <1>1, <1>2, <1>3, ReplaySends
<1>4. CASE ~(answer = "not_sent" /\ run[w].entry.recoveryState = "started")
    <2>1. answer \in {"null", "retryable", "sent", "not_sent"}
        BY DEF Reconciliations
    <2>2. PICK x \in CASE answer = "sent" -> ReconciledSent
                       [] answer = "retryable" -> FailDelivery
                       [] OTHER -> MoveToFailed : Apply(x)
        BY <1>2, <1>4
    <2>3. row.retryCount < MaxRetries
        BY <1>1 DEF ClaimParts, WorkerRuns
    <2>4. faults' \in 0..MaxFaults /\ row' = x.row
        BY <2>1, <2>2, ReconcileFacts, OtherTypes DEF Apply
    <2>5. row' \in Row /\ row'.status # "absent" /\ row.status # "absent"
        BY <1>1, <2>1, <2>2, <2>3, <2>4, ReconcileFacts, OtherTypes, DeletedFacts,
           FailedFacts, FailedRowFacts DEF Pending
    <2>6. Release(w) /\ PastEnqueue
        BY <1>1, <1>2, <1>4 DEF PastEnqueue, ClaimParts, RowIsFresh
    <2> QED BY <1>1, <2>4, <2>5, <2>6, ReleaseStep, OtherTypes
<1> QED BY <1>3, <1>4

LEMMA CrashKeeps ==
    ASSUME ClaimParts, Crash
    PROVE  ClaimParts'
<1>1. /\ run' = [o \in Owner |-> idleRun] /\ claimed' = FALSE /\ live' = "done"
      /\ crashes' \in 0..MaxCrashes
      /\ UNCHANGED <<row, intent, accepted, waived, aborted, faults>>
    BY DEF Crash, ClaimParts, TypeOK
<1>2. \A o \in Owner : run'[o] = idleRun /\ run'[o].pc = "idle" /\ run'[o].queued = TRUE
    BY <1>1 DEF idleRun
<1>3. TypeOK'
    BY <1>1, IdleRunType DEF ClaimParts, TypeOK
<1>4. SoleOwner' /\ FreshEntry'
    BY <1>1, <1>2, OwnerFacts DEF SoleOwner, AtWork, FreshEntry
<1>5. WorkerRuns' /\ LiveRuns'
    BY <1>1, <1>2, OwnerFacts DEF WorkerRuns, LiveRuns, Untouched, idleRun, SendPc
<1>6. RowIsFresh' /\ RunsMatchRow'
    BY <1>1, <1>2, OwnerFacts DEF RowIsFresh, RunsMatchRow, SendPc
<1> QED BY <1>3, <1>4, <1>5, <1>6 DEF ClaimParts

-----------------------------------------------------------------------------
LEMMA ClaimInit ==
    ASSUME Init
    PROVE  ClaimParts
<1>1. \A o \in Owner : run[o] = idleRun /\ run[o].pc = "idle" /\ run[o].queued = TRUE
    BY DEF Init, idleRun
<1>2. TypeOK
    <2>1. row \in Row /\ run \in [Owner -> Run] /\ accepted \in [Payload -> Nat]
        BY IdleRunType DEF Init
    <2>2. claimed \in BOOLEAN /\ aborted \in BOOLEAN
        BY DEF Init
    <2>3. crashes \in 0..MaxCrashes /\ faults \in 0..MaxFaults
        BY DEF Init
    <2> QED BY <2>1, <2>2, <2>3 DEF Init, TypeOK
<1>3. SoleOwner /\ FreshEntry
    BY <1>1, OwnerFacts DEF Init, SoleOwner, AtWork, FreshEntry
<1>4. WorkerRuns /\ LiveRuns
    BY <1>1, OwnerFacts DEF Init, WorkerRuns, LiveRuns, Untouched, idleRun, SendPc
<1>5. RowIsFresh /\ RunsMatchRow
    BY <1>1, OwnerFacts DEF Init, RowIsFresh, RunsMatchRow, SendPc
<1> QED BY <1>2, <1>3, <1>4, <1>5 DEF ClaimParts

LEMMA ClaimNext ==
    ASSUME ClaimParts, [Next]_vars
    PROVE  ClaimParts'
<1>1. CASE LiveStep
    BY <1>1, OwnerFacts, EnqueueDeliveryKeeps, EnqueueThrowsKeeps, LiveClaimsKeeps,
       PayloadStepKeeps, LiveRecordsEvidenceKeeps, LiveFinishesKeeps DEF LiveStep
<1>2. ASSUME NEW w \in Worker, WorkerStep(w)
      PROVE  ClaimParts'
    <2>1. CASE ReplayStarts(w)
        BY <2>1, ReplaySends DEF ReplayStarts
    <2> QED BY <1>2, <2>1, OwnerFacts, ClaimAndReloadKeeps, DeadLetterEntryKeeps,
               ReconcileEntryKeeps, PayloadStepKeeps, ReplayRecordsEvidenceKeeps,
               ReplayFinishesKeeps DEF WorkerStep
<1>3. CASE Crash
    BY <1>3, CrashKeeps
<1>4. CASE UNCHANGED vars
    BY <1>4
    DEF vars, ClaimParts, TypeOK, SoleOwner, AtWork, FreshEntry, Pending, WorkerRuns,
        Untouched, LiveRuns, RowIsFresh, RunsMatchRow, RunMatchesRow
<1> QED BY <1>1, <1>2, <1>3, <1>4, LoadPendingDeliveriesKeeps, AdmitEntryKeeps
        DEF Next

(* The inductive invariant of the claim: in every reachable state the      *)
(* claim, the runs and the row agree.                                      *)
THEOREM ClaimInvariant == Spec => []ClaimParts
<1>1. Init => ClaimParts
    BY ClaimInit
<1>2. ClaimParts /\ [Next]_vars => ClaimParts'
    BY ClaimNext
<1> QED BY <1>1, <1>2, PTL DEF Spec

(* For any number of drains, payloads, crashes and failing database calls, *)
(* one owner at a time is at work on the entry, it holds the claim, and a  *)
(* drain decides on the row as it is (withActiveDeliveryClaim,             *)
(* claimRecoveryEntry and the reload after it); the retry count never      *)
(* passes MAX_RETRIES.                                                     *)
THEOREM OneOwnerAlways == Spec => []ClaimInv
<1>1. ClaimParts => ClaimInv
    BY DEF ClaimParts, ClaimInv
<1> QED BY <1>1, ClaimInvariant, PTL

-----------------------------------------------------------------------------
(* What the platform has accepted.                                         *)

NoneSent(acc) == \A q \in Payload : acc[q] = 0

(* No send starts on a row that is pending and does not say so. *)
AttemptIsMarked(r, theRow, given) ==
    /\ theRow.status # "pending" => given = Payload
    /\ r.pre = "marked" /\ theRow.status = "pending" => theRow.recoveryState # "none"
    /\ r.pc = "platform" /\ r.queued => r.pre # "none"
    /\ r.pc = "dispatch" /\ r.queued /\ ~intent.exact => r.pre # "none"

NoneAhead(r, acc) == \A q \in Payload : q > r.p => acc[q] = 0

AcceptedInOrder(r, acc) ==
    /\ NoneAhead(r, acc)
    /\ r.pc \in {"payload", "start", "dispatch", "platform"} => acc[r.p] = 0
    /\ r.pc \in {"result", "after"} => acc[r.p] = 1

(* A run that has no result, and of which every failure proves that        *)
(* nothing was sent, has sent nothing.                                     *)
FailuresAreKnown(r, acc) ==
    /\ ~r.got /\ r.allProven /\ r.err # "plain" /\ r.pc # "result" => NoneSent(acc)
    /\ r.pc = "after" => r.got

FlagsAgree(r) ==
    /\ intent.bestEffort => r.err \in {"none", "plain"}
    /\ ~intent.bestEffort => ~r.failed
    /\ ~r.failed => r.allProven
    /\ r.err # "none" => r.pc \in {"finish", "final"}

CleanMeansDone(r, acc, given) ==
    Clean(r) => \A q \in Payload :
                  q < r.p \/ r.pc \in {"finish", "final"} => acc[q] = 1 \/ q \in given

RunKeepsPromise(r, theRow, acc, given) ==
    /\ AttemptIsMarked(r, theRow, given) /\ AcceptedInOrder(r, acc)
    /\ FailuresAreKnown(r, acc) /\ FlagsAgree(r) /\ CleanMeansDone(r, acc, given)

AcceptedTypes ==
    /\ accepted \in [Payload -> {0, 1}] /\ waived \subseteq Payload
    /\ \A q \in Payload : q > intent.payloads => accepted[q] = 0 /\ q \in waived

PromiseParts ==
    /\ AcceptedTypes /\ AcceptanceLeavesTrace
    /\ live \in {"new", "enqueued"} => NoneSent(accepted)
    /\ \A o \in Owner : run[o].pc \in SendPc =>
         RunKeepsPromise(run[o], row, accepted, waived)

PromiseStep == Abstract!Next \/ UNCHANGED <<Fate, accepted, waived>>

-----------------------------------------------------------------------------
(* Steps of the abstract specification. *)

LEMMA FateFacts ==
    ASSUME row \in Row
    PROVE  /\ row.status \in {"absent", "pending"} <=> Fate = "open"
           /\ row.status = "acked" <=> Fate = "settled"
           /\ row.status = "failed" <=> Fate = "dead"
<1>1. row.status \in {"absent", "pending", "failed", "acked"}
    BY RowFields
<1> QED BY <1>1 DEF Fate

LEMMA ExcuseStep ==
    ASSUME row \in Row, row' \in Row, accepted' = accepted,
           \/ row'.status = row.status
           \/ row.status = "absent" /\ row'.status = "pending",
           waived \subseteq waived', waived' \subseteq Payload,
           \/ waived' = waived \/ waived = Payload
           \/ row.status \in {"absent", "pending"}
    PROVE  PromiseStep
<1>1. Fate' = Fate
    BY DEF Fate
<1>2. CASE waived' = waived \/ waived = Payload
    <2>1. waived' = waived
        BY <1>2
    <2> QED BY <1>1, <2>1 DEF PromiseStep
<1>3. CASE row.status \in {"absent", "pending"}
    <2>1. Fate = "open" /\ waived' = waived \cup waived' /\ waived' \in SUBSET Payload
        BY <1>3, FateFacts
    <2>2. Abstract!Excuse(waived')
        BY <1>1, <2>1 DEF Abstract!Excuse
    <2> QED BY <2>1, <2>2 DEF PromiseStep, Abstract!Next
<1> QED BY <1>2, <1>3

LEMMA SettleStep ==
    ASSUME row \in Row, row' \in Row, accepted' = accepted,
           row.status \in {"absent", "pending"}, row'.status = "acked",
           waived \subseteq waived', waived' \subseteq Payload,
           \A q \in Payload : accepted[q] = 1 \/ q \in waived'
    PROVE  PromiseStep
<1>1. Fate = "open" /\ Fate' = "settled"
    BY DEF Fate
<1> QED BY <1>1 DEF PromiseStep, Abstract!Next, Abstract!Settle

LEMMA DeadLetterStep ==
    ASSUME row \in Row, row' \in Row, accepted' = accepted, waived' = waived,
           row.status = "pending", row'.status = "failed"
    PROVE  PromiseStep
<1>1. Fate = "open" /\ Fate' = "dead"
    BY DEF Fate
<1> QED BY <1>1 DEF PromiseStep, Abstract!Next, Abstract!DeadLetter

LEMMA AcceptStep ==
    ASSUME row \in Row, row' = row, waived' = waived, NEW q \in Payload,
           accepted \in [Payload -> {0, 1}], accepted[q] = 0,
           accepted' = [accepted EXCEPT ![q] = @ + 1],
           row.status # "failed", row.status = "acked" => q \in waived
    PROVE  PromiseStep
<1>1. accepted' = [accepted EXCEPT ![q] = 1]
    OBVIOUS
<1>2. Fate' = Fate /\ Fate # "dead" /\ (Fate = "settled" => q \in waived)
    BY FateFacts DEF Fate
<1> QED BY <1>1, <1>2 DEF PromiseStep, Abstract!Next, Abstract!Accept

-----------------------------------------------------------------------------
(* Shapes of a step, now with the promise. *)

LEMMA PromiseFacts ==
    ASSUME ClaimParts, PromiseParts, NEW o \in Owner, run[o].pc \in SendPc
    PROVE  /\ RunKeepsPromise(run[o], row, accepted, waived)
           /\ accepted \in [Payload -> {0, 1}] /\ waived \subseteq Payload
           /\ accepted \in [Payload -> Nat]
           /\ \A q \in Payload : q > intent.payloads => accepted[q] = 0 /\ q \in waived
    BY DEF PromiseParts, AcceptedTypes

(* The owner that sends goes on, and its run keeps the promise. *)
LEMMA PromiseKept ==
    ASSUME ClaimParts, PromiseParts, NEW o \in Owner, run[o].pc \in SendPc,
           NEW r, Keep(o, r), intent' = intent,
           RunKeepsPromise(r, row', accepted', waived'), r.pc \in SendPc,
           accepted' \in [Payload -> {0, 1}], waived \subseteq waived',
           waived' \subseteq Payload,
           \A q \in Payload : q > intent.payloads => accepted'[q] = 0,
           NoneSent(accepted') \/ row'.status # "pending" \/ row'.recoveryState # "none"
    PROVE  PromiseParts'
<1>1. run'[o] = r /\ live' = live /\ \A q \in Owner : q # o => run'[q] = run[q]
    BY OtherTypes DEF Keep
<1>2. \A q \in Owner : q # o => run[q].pc \in {"idle", "loaded"}
    BY BusyAlone, SendingFacts DEF Busy
<1>3. AcceptedTypes'
    BY DEF PromiseParts, AcceptedTypes
<1>4. AcceptanceLeavesTrace'
    BY DEF AcceptanceLeavesTrace, NoneSent, Pending
<1>5. live' \notin {"new", "enqueued"}
    BY <1>1, SendingFacts
<1>6. ASSUME NEW q \in Owner, run'[q].pc \in SendPc
      PROVE  RunKeepsPromise(run[q], row, accepted, waived)'
    <2>1. q = o
        BY <1>1, <1>2, <1>6 DEF SendPc
    <2> QED BY <1>1, <2>1 DEF RunKeepsPromise, AttemptIsMarked, AcceptedInOrder,
                              NoneAhead,
                              FailuresAreKnown, FlagsAgree, CleanMeansDone,
                              NoneSent, Clean
<1> QED BY <1>3, <1>4, <1>5, <1>6 DEF PromiseParts

(* A failed payload: only a failure that proves it leaves nothing sent. *)
LEMMA ErrorRun ==
    ASSUME NEW s \in Run, intent \in Intent, s.p <= intent.payloads,
           NEW kind \in ErrorKind, kind # "none", s.pc \notin {"finish", "final"},
           s.pc = "result" => kind = "plain",
           NEW theRow, NEW acc, NEW given,
           AttemptIsMarked(s, theRow, given), FailuresAreKnown(s, acc) \/ kind = "plain",
           NoneAhead(s, acc), FlagsAgree(s)
    PROVE  RunKeepsPromise(PayloadError(s, kind), theRow, acc, given)
<1> DEFINE r == PayloadError(s, kind)
<1>1. s.p \in Nat
    BY RunFields
<1>2. r = PayloadError(s, kind)
    OBVIOUS
<1> HIDE DEF r
<1>3. /\ r \in Run /\ r.queued = s.queued /\ r.pre = s.pre /\ r.got = s.got
      /\ intent.bestEffort => r.failed = TRUE /\ r.err = s.err
      /\ ~intent.bestEffort => /\ r.failed = s.failed /\ r.allProven = s.allProven
                               /\ r.err = kind /\ r.pc = "finish"
      /\ \/ r.pc = "payload" /\ r.p = s.p + 1 /\ s.p + 1 <= intent.payloads
         \/ r.pc = "finish" /\ r.p = s.p
    <2>1. /\ r \in Run /\ r.queued = s.queued /\ r.pre = s.pre /\ r.got = s.got
        BY <1>1, <1>2, PayloadErrorFacts
    <2>2. intent.bestEffort => r.failed = TRUE /\ r.err = s.err
        BY <1>1, <1>2, PayloadErrorFacts
    <2>3. ~intent.bestEffort => /\ r.failed = s.failed /\ r.allProven = s.allProven
                                /\ r.err = kind /\ r.pc = "finish"
        BY <1>1, <1>2, PayloadErrorFacts
    <2>4. \/ r.pc = "payload" /\ r.p = s.p + 1 /\ s.p + 1 <= intent.payloads
          \/ r.pc = "finish" /\ r.p = s.p
        BY <1>1, <1>2, PayloadErrorFacts
    <2> QED BY <2>1, <2>2, <2>3, <2>4
<1>4. intent.bestEffort /\ r.allProven => s.allProven /\ kind = "proven"
    BY <1>1, <1>2, PayloadErrorFacts
<1>5. AttemptIsMarked(r, theRow, given)
    BY <1>3 DEF AttemptIsMarked
<1>6. AcceptedInOrder(r, acc)
    <2>1. r.p \in Payload /\ r.p >= s.p
        BY <1>1, <1>3, RunFields
    <2>2. \A q \in Payload : q > r.p => q > s.p
        BY <1>1, <2>1 DEF Payload
    <2>3. r.pc = "payload" => r.p > s.p
        BY <1>1, <1>3
    <2> QED BY <1>3, <2>1, <2>2, <2>3 DEF AcceptedInOrder, NoneAhead
<1>7. s.err = "none"
    BY DEF FlagsAgree
<1>8. FailuresAreKnown(r, acc)
    <2>1. ~r.got /\ r.allProven /\ r.err # "plain" => NoneSent(acc)
        <3>1. CASE intent.bestEffort
            BY <1>3, <1>4, <1>7, <3>1 DEF FailuresAreKnown
        <3>2. CASE ~intent.bestEffort
            BY <1>3, <1>7, <3>2 DEF FailuresAreKnown
        <3> QED BY <3>1, <3>2
    <2> QED BY <1>3, <2>1 DEF FailuresAreKnown
<1>9. FlagsAgree(r)
    <2>1. CASE intent.bestEffort
        BY <1>3, <2>1 DEF FlagsAgree
    <2>2. CASE ~intent.bestEffort
        BY <1>3, <2>2 DEF FlagsAgree
    <2> QED BY <2>1, <2>2
<1>10. ~Clean(r)
    BY <1>1, <1>3 DEF Clean
<1> QED BY <1>5, <1>6, <1>8, <1>9, <1>10 DEF RunKeepsPromise, CleanMeansDone, r

(* A payload that is done, or suppressed *)
LEMMA NextRun ==
    ASSUME NEW s \in Run, intent \in Intent, s.p <= intent.payloads,
           NEW theRow, NEW acc, NEW given, NEW more, given \subseteq more,
           more \subseteq Payload,
           RunKeepsPromise(s, theRow, acc, given), s.pc \in {"payload", "after"},
           acc[s.p] = 1 \/ s.p \in more,
           \A q \in Payload : q > intent.payloads => q \in more
    PROVE  RunKeepsPromise(NextPayload(s), theRow, acc, more)
<1> DEFINE r == NextPayload(s)
<1>1. s.p \in Nat /\ s.p \in Payload
    BY RunFields
<1>2. /\ r \in Run /\ r.queued = s.queued /\ r.pre = s.pre /\ r.got = s.got
      /\ r.failed = s.failed /\ r.allProven = s.allProven /\ r.err = s.err
      /\ \/ r.pc = "payload" /\ r.p = s.p + 1
         \/ r.pc = "finish" /\ r.p = s.p /\ s.p = intent.payloads
    BY <1>1, NextPayloadFacts
<1> HIDE DEF r
<1>3. AttemptIsMarked(r, theRow, more)
    BY <1>2 DEF RunKeepsPromise, AttemptIsMarked
<1>4. AcceptedInOrder(r, acc)
    <2>1. r.p \in Payload /\ r.p >= s.p
        BY <1>1, <1>2, RunFields
    <2>2. \A q \in Payload : q > r.p => q > s.p
        BY <1>1, <2>1 DEF Payload
    <2>3. r.pc = "payload" => r.p > s.p
        BY <1>1, <1>2
    <2> QED BY <1>2, <2>1, <2>2, <2>3 DEF RunKeepsPromise, AcceptedInOrder, NoneAhead
<1>5. FailuresAreKnown(r, acc)
    BY <1>2 DEF RunKeepsPromise, FailuresAreKnown
<1>7. FlagsAgree(r)
    BY <1>2 DEF RunKeepsPromise, FlagsAgree
<1>6. CleanMeansDone(r, acc, more)
    <2>1. SUFFICES ASSUME Clean(r), NEW q \in Payload,
                          q < r.p \/ r.pc \in {"finish", "final"}
                   PROVE  acc[q] = 1 \/ q \in more
        BY DEF CleanMeansDone
    <2>2. Clean(s)
        BY <1>2, <2>1 DEF Clean
    <2>3. q < s.p \/ q = s.p \/ q > intent.payloads
        BY <1>1, <1>2, <2>1, PayloadFacts
    <2> QED BY <2>2, <2>3 DEF RunKeepsPromise, CleanMeansDone
<1> QED BY <1>3, <1>4, <1>5, <1>6, <1>7 DEF RunKeepsPromise, r

(* A run that moves on within a payload or its cleanup, or marks the row *)
LEMMA MovedRun ==
    ASSUME NEW s \in Run, NEW r \in Run, NEW theRow, NEW newRow, NEW acc,
           NEW given, NEW more, given \subseteq more, more \subseteq Payload,
           RunKeepsPromise(s, theRow, acc, given),
           r.p = s.p, r.failed = s.failed, r.allProven = s.allProven,
           r.err = s.err, s.got => r.got,
           AttemptIsMarked(r, newRow, more),
           \/ /\ s.pc \in {"payload", "start", "dispatch"} /\ r.got = s.got
              /\ r.pc \in {"payload", "start", "dispatch", "platform"}
           \/ s.pc = "result" /\ r.pc = "after" /\ r.got
           \/ s.pc \in {"finish", "final"} /\ r.pc \in {"finish", "final"}
    PROVE  RunKeepsPromise(r, newRow, acc, more)
<1>1. AcceptedInOrder(r, acc)
    BY DEF RunKeepsPromise, AcceptedInOrder, NoneAhead
<1>2. FailuresAreKnown(r, acc)
    BY DEF RunKeepsPromise, FailuresAreKnown
<1>4. FlagsAgree(r)
    BY DEF RunKeepsPromise, FlagsAgree
<1>3. CleanMeansDone(r, acc, more)
    <2>1. Clean(r) = Clean(s)
        BY DEF Clean
    <2>2. r.pc \in {"finish", "final"} => s.pc \in {"finish", "final"}
        OBVIOUS
    <2> QED BY <2>1, <2>2 DEF RunKeepsPromise, CleanMeansDone
<1> QED BY <1>1, <1>2, <1>3, <1>4 DEF RunKeepsPromise

(* A step of the sending owner that leaves the platform alone *)
LEMMA PromiseMoves ==
    ASSUME ClaimParts, PromiseParts, NEW o \in Owner, run[o].pc \in SendPc,
           NEW r, Keep(o, r), UNCHANGED <<intent, accepted>>,
           RunKeepsPromise(r, row', accepted, waived'), r.pc \in SendPc,
           waived \subseteq waived', waived' \subseteq Payload,
           row'.status = "pending" => /\ row.status = "pending"
                                      /\ \/ row'.recoveryState = row.recoveryState
                                         \/ row'.recoveryState # "none"
    PROVE  PromiseParts'
<1>1. accepted' = accepted /\ accepted \in [Payload -> {0, 1}]
      /\ \A q \in Payload : q > intent.payloads => accepted[q] = 0
    BY DEF PromiseParts, AcceptedTypes
<1>2. NoneSent(accepted) \/ row.status # "pending" \/ row.recoveryState # "none"
    <2>1. ASSUME NEW q \in Payload, accepted[q] # 0
          PROVE  accepted[q] > 0
        BY <1>1, <2>1
    <2> QED BY <2>1 DEF PromiseParts, AcceptanceLeavesTrace, Pending, NoneSent
<1>3. NoneSent(accepted') \/ row'.status # "pending" \/ row'.recoveryState # "none"
    BY <1>1, <1>2
<1>4. RunKeepsPromise(r, row', accepted', waived')
    BY <1>1
<1> QED BY <1>1, <1>3, <1>4, PromiseKept

(* A payload fails: what the catch of the loop does keeps the promise. *)
LEMMA PromiseError ==
    ASSUME ClaimParts, PromiseParts, NEW o \in Owner,
           run[o].pc \in SendPc \ {"finish", "final"},
           NEW s \in Run, s.p = run[o].p, s.pc = run[o].pc, s.err = run[o].err,
           s.failed = run[o].failed, s.allProven = run[o].allProven,
           s.queued = run[o].queued, s.pre = run[o].pre, run[o].got => s.got,
           NEW kind \in ErrorKind, kind # "none", s.pc = "result" => kind = "plain",
           Keep(o, PayloadError(s, kind)), UNCHANGED <<row, intent, accepted, waived>>
    PROVE  PromiseParts' /\ PromiseStep
<1> DEFINE r == PayloadError(s, kind)
<1>1. /\ intent \in Intent /\ row \in Row /\ s.p <= intent.payloads
      /\ run[o].pc \in SendPc /\ s.p \in Nat
    BY SendingFacts, RunFields
<1>2. RunKeepsPromise(run[o], row, accepted, waived) /\ waived \subseteq Payload
    BY <1>1, PromiseFacts
<1>3. /\ AttemptIsMarked(s, row, waived) /\ NoneAhead(s, accepted) /\ FlagsAgree(s)
      /\ FailuresAreKnown(s, accepted) \/ kind = "plain"
    BY <1>2 DEF RunKeepsPromise, AttemptIsMarked, AcceptedInOrder, NoneAhead, FlagsAgree,
                FailuresAreKnown
<1>4. RunKeepsPromise(r, row, accepted, waived)
    BY <1>1, <1>3, ErrorRun
<1>5. r.pc \in SendPc
    <2>1. r.pc = "payload" \/ r.pc = "finish"
        BY <1>1, PayloadErrorFacts
    <2> QED BY <2>1 DEF SendPc
<1> HIDE DEF r
<1>6. PromiseParts'
    BY <1>1, <1>2, <1>4, <1>5, PromiseMoves DEF r
<1>7. PromiseStep
    BY <1>1, <1>2, ExcuseStep
<1> QED BY <1>6, <1>7

LEMMA SuppressPayloadPromise ==
    ASSUME ClaimParts, PromiseParts, NEW o \in Owner, SuppressPayload(o)
    PROVE  PromiseParts' /\ PromiseStep
<1> DEFINE s == run[o]
           r == NextPayload(s)
           more == waived \cup {s.p}
<1>1. /\ s.pc = "payload" /\ s.pc \in SendPc /\ Keep(o, r) /\ waived' = more
      /\ UNCHANGED <<row, intent, accepted>>
    BY DEF SuppressPayload, SendPc
<1>2. /\ s \in Run /\ intent \in Intent /\ row \in Row /\ s.p <= intent.payloads
      /\ s.p \in Payload
    BY <1>1, SendingFacts, RunFields
<1>3. /\ RunKeepsPromise(s, row, accepted, waived) /\ waived \subseteq Payload
      /\ \A q \in Payload : q > intent.payloads => q \in waived
    BY <1>1, PromiseFacts
<1>4. /\ waived \subseteq more /\ more \subseteq Payload /\ s.p \in more
      /\ \A q \in Payload : q > intent.payloads => q \in more
    BY <1>2, <1>3
<1> HIDE DEF more
<1>5. RunKeepsPromise(r, row, accepted, more)
    BY <1>1, <1>2, <1>3, <1>4, NextRun
<1>6. r.pc \in SendPc
    <2>1. r.pc = "payload" \/ r.pc = "finish"
        BY <1>2, NextPayloadFacts
    <2> QED BY <2>1 DEF SendPc
<1> HIDE DEF r
<1>7. PromiseParts'
    BY <1>1, <1>2, <1>4, <1>5, <1>6, PromiseMoves
<1>8. waived = Payload \/ row.status = "pending"
    BY <1>3 DEF RunKeepsPromise, AttemptIsMarked
<1>9. PromiseStep
    BY <1>1, <1>2, <1>4, <1>8, ExcuseStep
<1> QED BY <1>7, <1>9

LEMMA PayloadThrowsPromise ==
    ASSUME ClaimParts, PromiseParts, NEW o \in Owner, PayloadThrows(o)
    PROVE  PromiseParts' /\ PromiseStep
<1>1. /\ run[o] \in Run /\ run[o].pc = "payload" /\ run[o].pc \in SendPc \ {"finish", "final"}
      /\ UNCHANGED <<row, intent, accepted, waived>>
    BY OtherTypes DEF PayloadThrows, SendPc
<1>2. PICK kind \in {"plain", "abort"} : Keep(o, PayloadError(run[o], kind))
    BY DEF PayloadThrows
<1>3. kind \in ErrorKind /\ kind # "none"
    BY DEF ErrorKind
<1> QED BY <1>1, <1>2, <1>3, PromiseError

(* The row is deleted because a database call failed: everything is waived.*)
LEMMA GoneStep ==
    ASSUME row \in Row, row' = Deleted, waived' = Payload, waived \subseteq Payload,
           accepted' = accepted, row.status # "pending" => waived = Payload
    PROVE  PromiseStep
<1>1. CASE Pending
    <2>1. row' \in Row /\ row'.status = "acked" /\ row.status = "pending"
        BY <1>1, DeletedFacts DEF Pending
    <2> QED BY <2>1, SettleStep
<1>2. CASE ~Pending
    <2>1. row' = row /\ waived = Payload
        BY <1>2, DeletedFacts DEF Pending
    <2> QED BY <2>1, ExcuseStep
<1> QED BY <1>1, <1>2

LEMMA PreparePayloadPromise ==
    ASSUME ClaimParts, PromiseParts, NEW o \in Owner, PreparePayload(o)
    PROVE  PromiseParts' /\ PromiseStep
<1> DEFINE s == run[o]
           r == [s EXCEPT !.pc = "start"]
<1>1. /\ s.pc = "payload" /\ s.pc \in SendPc /\ Keep(o, r)
      /\ UNCHANGED <<row, intent, accepted, waived>>
    BY DEF PreparePayload, SendPc
<1>2. s \in Run /\ row \in Row
    BY <1>1, SendingFacts
<1>3. RunKeepsPromise(s, row, accepted, waived) /\ waived \subseteq Payload
    BY <1>1, PromiseFacts
<1>4. /\ r \in Run /\ r.pc = "start" /\ r.p = s.p /\ r.failed = s.failed
      /\ r.allProven = s.allProven /\ r.err = s.err /\ r.got = s.got
      /\ r.pre = s.pre /\ r.queued = s.queued
    BY <1>2 DEF Run, Pc
<1> HIDE DEF r
<1>5. AttemptIsMarked(r, row, waived)
    BY <1>3, <1>4 DEF RunKeepsPromise, AttemptIsMarked
<1>6. RunKeepsPromise(r, row, accepted, waived)
    BY <1>1, <1>2, <1>3, <1>4, <1>5, MovedRun
<1>7. PromiseParts'
    BY <1>1, <1>3, <1>4, <1>6, PromiseMoves DEF SendPc
<1> QED BY <1>1, <1>2, <1>3, <1>7, ExcuseStep

LEMMA PlatformSendStartPromise ==
    ASSUME ClaimParts, PromiseParts, NEW o \in Owner, PlatformSendStart(o)
    PROVE  PromiseParts' /\ PromiseStep
<1> DEFINE s == run[o]
<1>1. /\ s.pc = "start" /\ s.pc \in SendPc \ {"finish", "final"} /\ s.pc \in SendPc
      /\ UNCHANGED <<intent, accepted>>
    BY DEF PlatformSendStart, SendPc
<1>2. s \in Run /\ row \in Row /\ faults \in 0..MaxFaults /\ RunMatchesRow(s, row)
    BY <1>1, SendingFacts
<1>3. RunKeepsPromise(s, row, accepted, waived) /\ waived \subseteq Payload
    BY <1>1, PromiseFacts
<1>4. row.status # "pending" => waived = Payload
    BY <1>3 DEF RunKeepsPromise, AttemptIsMarked
<1>5. CASE s.queued /\ ~intent.exact /\ s.pre = "none"
    <2>1. PICK x \in PersistPreSendState :
            /\ Apply(x) /\ WaiveIf(x.answer = "acked")
            /\ Keep(o, CASE x.answer = "threw" -> PayloadError(s, "plain")
                         [] x.answer = "marked" ->
                              [s EXCEPT !.pre = "marked", !.pc = "dispatch"]
                         [] OTHER ->
                              [s EXCEPT !.pre = "acked", !.pc = "dispatch",
                                        !.post = IF o = Live THEN "acked" ELSE @])
        BY <1>5 DEF PlatformSendStart
    <2>2. CASE x.answer = "threw" /\ x.row = row
        <3>1. Keep(o, PayloadError(s, "plain")) /\ "plain" \in ErrorKind
              /\ row' = row /\ waived' = waived
            BY <2>1, <2>2 DEF ErrorKind, Apply, WaiveIf
        <3> QED BY <1>1, <1>2, <3>1, PromiseError
    <2>3. CASE /\ x.answer = "marked" /\ Pending
               /\ x.row = [row EXCEPT !.recoveryState = "started"]
        <3> DEFINE r == [s EXCEPT !.pre = "marked", !.pc = "dispatch"]
        <3>1. Keep(o, r) /\ row' = [row EXCEPT !.recoveryState = "started"]
              /\ waived' = waived
            BY <2>1, <2>3 DEF Apply, WaiveIf
        <3>2. /\ r \in Run /\ r.pc = "dispatch" /\ r.p = s.p /\ r.failed = s.failed
              /\ r.allProven = s.allProven /\ r.err = s.err /\ r.got = s.got
              /\ r.pre = "marked" /\ r.queued = s.queued
            BY <1>2 DEF Run, Pc
        <3> HIDE DEF r
        <3>3. /\ row' \in Row /\ row'.status = "pending" /\ row.status = "pending"
              /\ row'.recoveryState = "started"
            BY <1>2, <2>3, <3>1 DEF Row, Pending
        <3>4. AttemptIsMarked(r, row', waived)
            BY <3>2, <3>3 DEF AttemptIsMarked
        <3>5. RunKeepsPromise(r, row', accepted, waived)
            BY <1>1, <1>2, <1>3, <3>2, <3>4, MovedRun
        <3>6. PromiseParts'
            BY <1>1, <1>3, <3>1, <3>2, <3>3, <3>5, PromiseMoves DEF SendPc
        <3> QED BY <1>1, <1>2, <1>3, <3>1, <3>3, <3>6, ExcuseStep
    <2>4. CASE x.answer = "acked" /\ x.row = Deleted
        <3> DEFINE r == [s EXCEPT !.pre = "acked", !.pc = "dispatch",
                                  !.post = IF o = Live THEN "acked" ELSE s.post]
        <3>1. Keep(o, r) /\ row' = Deleted /\ waived' = Payload
            BY <2>1, <2>4 DEF Apply, WaiveIf
        <3>2. /\ r \in Run /\ r.pc = "dispatch" /\ r.p = s.p /\ r.failed = s.failed
              /\ r.allProven = s.allProven /\ r.err = s.err /\ r.got = s.got
              /\ r.pre = "acked" /\ r.queued = s.queued
            BY <1>2 DEF Run, Pc
        <3> HIDE DEF r
        <3>3. row' \in Row /\ row'.status # "pending"
            BY <1>2, <3>1, DeletedFacts
        <3>4. AttemptIsMarked(r, row', waived')
            BY <3>1, <3>2, <3>3 DEF AttemptIsMarked
        <3>5. RunKeepsPromise(r, row', accepted, waived')
            BY <1>1, <1>2, <1>3, <3>1, <3>2, <3>4, MovedRun
        <3>6. PromiseParts'
            BY <1>1, <1>3, <3>1, <3>2, <3>3, <3>5, PromiseMoves DEF SendPc
        <3> QED BY <1>1, <1>2, <1>3, <1>4, <3>1, <3>6, GoneStep
    <2> QED BY <1>2, <2>2, <2>3, <2>4, PreSendFacts
<1>6. CASE ~(s.queued /\ ~intent.exact /\ s.pre = "none")
    <2> DEFINE r == [s EXCEPT !.pc = "dispatch"]
    <2>1. Keep(o, r) /\ UNCHANGED <<row, waived>>
        BY <1>6 DEF PlatformSendStart
    <2>2. /\ r \in Run /\ r.pc = "dispatch" /\ r.p = s.p /\ r.failed = s.failed
          /\ r.allProven = s.allProven /\ r.err = s.err /\ r.got = s.got
          /\ r.pre = s.pre /\ r.queued = s.queued
        BY <1>2 DEF Run, Pc
    <2> HIDE DEF r
    <2>3. AttemptIsMarked(r, row, waived)
        BY <1>3, <1>6, <2>2 DEF RunKeepsPromise, AttemptIsMarked
    <2>4. RunKeepsPromise(r, row, accepted, waived)
        BY <1>1, <1>2, <1>3, <2>2, <2>3, MovedRun
    <2>5. PromiseParts'
        BY <1>1, <1>3, <2>1, <2>2, <2>4, PromiseMoves DEF SendPc
    <2> QED BY <1>1, <1>2, <1>3, <2>1, <2>5, ExcuseStep
<1> QED BY <1>5, <1>6

LEMMA PlatformSendDispatchPromise ==
    ASSUME ClaimParts, PromiseParts, NEW o \in Owner, PlatformSendDispatch(o)
    PROVE  PromiseParts' /\ PromiseStep
<1> DEFINE s == run[o]
           stay == [s EXCEPT !.pc = "platform"]
<1>1. /\ s.pc = "dispatch" /\ s.pc \in SendPc \ {"finish", "final"} /\ s.pc \in SendPc
      /\ UNCHANGED <<intent, accepted, waived>>
    BY DEF PlatformSendDispatch, SendPc
<1>2. s \in Run /\ row \in Row /\ faults \in 0..MaxFaults
    BY <1>1, SendingFacts
<1>3. RunKeepsPromise(s, row, accepted, waived) /\ waived \subseteq Payload
    BY <1>1, PromiseFacts
<1>4. /\ stay \in Run /\ stay.pc = "platform" /\ stay.p = s.p
      /\ stay.failed = s.failed /\ stay.allProven = s.allProven /\ stay.err = s.err
      /\ stay.got = s.got /\ stay.pre = s.pre /\ stay.queued = s.queued
    BY <1>2 DEF Run, Pc
<1> HIDE DEF stay
<1>5. CASE Keep(o, stay) /\ row' = row /\ (s.queued => ~intent.exact)
    <2>1. AttemptIsMarked(stay, row, waived)
        BY <1>1, <1>3, <1>4, <1>5 DEF RunKeepsPromise, AttemptIsMarked
    <2>2. RunKeepsPromise(stay, row, accepted, waived)
        BY <1>1, <1>2, <1>3, <1>4, <2>1, MovedRun
    <2>3. PromiseParts'
        BY <1>1, <1>3, <1>4, <1>5, <2>2, PromiseMoves DEF SendPc
    <2> QED BY <1>1, <1>2, <1>3, <1>5, <2>3, ExcuseStep
<1>6. ASSUME s.queued, NEW x \in MarkDispatched, Apply(x),
             Keep(o, IF x.answer = "ok"
                     THEN [s EXCEPT !.pre = "marked", !.pc = "platform"]
                     ELSE IF intent.exact THEN PayloadError(s, "plain")
                     ELSE stay)
      PROVE  PromiseParts' /\ PromiseStep
    <2>1. /\ row' = x.row
          /\ \/ /\ x.answer = "ok" /\ Pending
                /\ x.row = [row EXCEPT !.recoveryState = "started"]
             \/ x.answer = "threw" /\ x.row = row
        BY <1>2, <1>6, UpdateFacts DEF Apply, MarkDispatched
    <2>2. CASE x.answer = "ok"
        <3> DEFINE r == [s EXCEPT !.pre = "marked", !.pc = "platform"]
        <3>1. Keep(o, r) /\ row' = [row EXCEPT !.recoveryState = "started"]
            BY <1>6, <2>1, <2>2
        <3>2. /\ r \in Run /\ r.pc = "platform" /\ r.p = s.p /\ r.failed = s.failed
              /\ r.allProven = s.allProven /\ r.err = s.err /\ r.got = s.got
              /\ r.pre = "marked" /\ r.queued = s.queued
            BY <1>2 DEF Run, Pc
        <3> HIDE DEF r
        <3>3. /\ row' \in Row /\ row'.status = "pending" /\ row.status = "pending"
              /\ row'.recoveryState = "started"
            BY <1>2, <2>1, <2>2, <3>1 DEF Row, Pending
        <3>4. AttemptIsMarked(r, row', waived)
            BY <3>2, <3>3 DEF AttemptIsMarked
        <3>5. RunKeepsPromise(r, row', accepted, waived)
            BY <1>1, <1>2, <1>3, <3>2, <3>4, MovedRun
        <3>6. PromiseParts'
            BY <1>1, <1>3, <3>1, <3>2, <3>3, <3>5, PromiseMoves DEF SendPc
        <3> QED BY <1>1, <1>2, <1>3, <3>1, <3>3, <3>6, ExcuseStep
    <2>3. CASE x.answer # "ok" /\ intent.exact
        <3>1. Keep(o, PayloadError(s, "plain")) /\ "plain" \in ErrorKind /\ row' = row
            BY <1>6, <2>1, <2>3 DEF ErrorKind
        <3> QED BY <1>1, <1>2, <3>1, PromiseError
    <2>4. CASE x.answer # "ok" /\ ~intent.exact
        BY <1>5, <1>6, <2>1, <2>4
    <2> QED BY <2>2, <2>3, <2>4
<1> QED BY <1>5, <1>6 DEF PlatformSendDispatch, stay

(* The platform takes a payload: it had not taken it before, and the row   *)
(* says that an attempt was made.                                          *)
LEMMA PlatformAcceptsPromise ==
    ASSUME ClaimParts, PromiseParts, ~IdentitylessSends,
           NEW o \in Owner, PlatformAccepts(o)
    PROVE  PromiseParts' /\ PromiseStep
<1> DEFINE s == run[o]
           acc == [accepted EXCEPT ![s.p] = @ + 1]
<1>1. /\ s.pc = "platform" /\ s.pc \in SendPc /\ accepted' = acc
      /\ UNCHANGED <<row, intent, waived>>
    BY DEF PlatformAccepts, SendPc
<1>2. /\ s \in Run /\ row \in Row /\ intent \in Intent /\ s.p \in Payload
      /\ s.p <= intent.payloads /\ s.p \in Nat /\ RunMatchesRow(s, row)
    BY <1>1, SendingFacts, RunFields
<1>3. /\ RunKeepsPromise(s, row, accepted, waived) /\ waived \subseteq Payload
      /\ accepted \in [Payload -> {0, 1}]
      /\ \A q \in Payload : q > intent.payloads => accepted[q] = 0
    BY <1>1, PromiseFacts
<1>4. accepted[s.p] = 0
    BY <1>1, <1>3 DEF RunKeepsPromise, AcceptedInOrder
<1>5. /\ acc \in [Payload -> {0, 1}] /\ acc[s.p] = 1
      /\ \A q \in Payload : q # s.p => acc[q] = accepted[q]
    BY <1>2, <1>3, <1>4
<1> HIDE DEF acc
<1>6. \A q \in Payload : q > intent.payloads => acc[q] = 0
    <2>1. \A q \in Payload : q > intent.payloads => q # s.p
        BY <1>2 DEF Payload, Intent
    <2> QED BY <1>3, <1>5, <2>1
<1>7. NoneAhead(s, acc)
    <2>1. \A q \in Payload : q > s.p => q # s.p
        BY <1>2 DEF Payload
    <2> QED BY <1>3, <1>5, <2>1 DEF RunKeepsPromise, AcceptedInOrder, NoneAhead
<1>8. row.status # "pending" \/ row.recoveryState # "none"
    <2>1. CASE s.queued
        <3>1. s.pre \in {"marked", "acked"}
            BY <1>1, <1>2, <1>3, <2>1, RunFields DEF RunKeepsPromise, AttemptIsMarked
        <3> QED BY <1>2, <1>3, <3>1 DEF RunKeepsPromise, AttemptIsMarked, RunMatchesRow
    <2>2. CASE ~s.queued
        BY <1>2, <2>2 DEF RunMatchesRow
    <2> QED BY <2>1, <2>2
<1>9. PromiseStep
    <2>1. row.status # "failed" /\ (row.status = "acked" => s.p \in waived)
        BY <1>2, <1>3 DEF RunMatchesRow, RunKeepsPromise, AttemptIsMarked
    <2> QED BY <1>1, <1>2, <1>3, <1>4, <2>1, AcceptStep DEF acc
<1>10. ASSUME NEW r, Keep(o, r), r.pc \in SendPc, RunKeepsPromise(r, row, acc, waived)
       PROVE  PromiseParts'
    BY <1>1, <1>3, <1>5, <1>6, <1>8, <1>10, PromiseKept
<1>11. CASE Keep(o, [s EXCEPT !.pc = "result"])
    <2> DEFINE r == [s EXCEPT !.pc = "result"]
    <2>1. /\ r \in Run /\ r.pc = "result" /\ r.p = s.p /\ r.failed = s.failed
          /\ r.allProven = s.allProven /\ r.err = s.err /\ r.got = s.got
          /\ r.pre = s.pre /\ r.queued = s.queued
        BY <1>2 DEF Run, Pc
    <2> HIDE DEF r
    <2>2. AttemptIsMarked(r, row, waived) /\ FlagsAgree(r)
        BY <1>1, <1>3, <2>1 DEF RunKeepsPromise, AttemptIsMarked, FlagsAgree
    <2>3. AcceptedInOrder(r, acc) /\ FailuresAreKnown(r, acc)
        BY <1>5, <1>7, <2>1 DEF AcceptedInOrder, NoneAhead, FailuresAreKnown
    <2>4. CleanMeansDone(r, acc, waived)
        <3>1. SUFFICES ASSUME Clean(r), NEW q \in Payload, q < r.p
                       PROVE  acc[q] = 1 \/ q \in waived
            BY <2>1 DEF CleanMeansDone
        <3>2. Clean(s) /\ q < s.p /\ q # s.p
            BY <1>2, <2>1, <3>1 DEF Clean, Payload
        <3> QED BY <1>3, <1>5, <3>2 DEF RunKeepsPromise, CleanMeansDone
    <2>5. RunKeepsPromise(r, row, acc, waived)
        BY <2>2, <2>3, <2>4 DEF RunKeepsPromise
    <2> QED BY <1>9, <1>10, <1>11, <2>1, <2>5 DEF r, SendPc
<1>12. CASE Keep(o, PayloadError(s, "plain"))
    <2> DEFINE r == PayloadError(s, "plain")
    <2>1. "plain" \in ErrorKind
        BY DEF ErrorKind
    <2>2. AttemptIsMarked(s, row, waived) /\ FlagsAgree(s)
        BY <1>3 DEF RunKeepsPromise
    <2>3. RunKeepsPromise(r, row, acc, waived)
        BY <1>1, <1>2, <1>7, <2>1, <2>2, ErrorRun
    <2>4. r.pc \in SendPc
        <3>1. r.pc = "payload" \/ r.pc = "finish"
            BY <1>2, <2>1, PayloadErrorFacts
        <3> QED BY <3>1 DEF SendPc
    <2> HIDE DEF r
    <2> QED BY <1>9, <1>10, <1>12, <2>3, <2>4 DEF r
<1> QED BY <1>11, <1>12 DEF PlatformAccepts

LEMMA PlatformRejectsPromise ==
    ASSUME ClaimParts, PromiseParts, NEW o \in Owner, PlatformRejects(o)
    PROVE  PromiseParts' /\ PromiseStep
<1>1. /\ run[o] \in Run /\ run[o].pc = "platform"
      /\ run[o].pc \in SendPc \ {"finish", "final"}
      /\ UNCHANGED <<row, intent, accepted, waived>>
    BY OtherTypes DEF PlatformRejects, SendPc
<1>2. PICK kind \in {"plain", "proven", "permanent"} :
         Keep(o, PayloadError(run[o], kind))
    BY DEF PlatformRejects
<1>3. kind \in ErrorKind /\ kind # "none"
    BY DEF ErrorKind
<1> QED BY <1>1, <1>2, <1>3, PromiseError

(* The evidence of a send is recorded, or the row is gone. *)
LEMMA EvidencePromise ==
    ASSUME ClaimParts, PromiseParts, NEW o \in Owner,
           NEW s, s = run[o], s.pc \in {"result", "finish"}, s.post = "none",
           NEW x \in PersistPostSendState, Apply(x), WaiveIf(x.answer = "acked"),
           x.answer # "threw", NEW r \in Run, Keep(o, r), UNCHANGED <<intent, accepted>>,
           r.pc = IF s.pc = "result" THEN "after" ELSE "final",
           r.p = s.p, r.failed = s.failed, r.allProven = s.allProven, r.err = s.err,
           r.pre = s.pre, s.got => r.got, s.pc = "result" => r.got
    PROVE  PromiseParts' /\ PromiseStep
<1>1. s \in Run /\ s.pc \in SendPc /\ row \in Row /\ faults \in 0..MaxFaults
    BY OtherTypes DEF SendPc
<1>2. RunKeepsPromise(s, row, accepted, waived) /\ waived \subseteq Payload
    BY <1>1, PromiseFacts
<1>3. row.status # "pending" => waived = Payload
    BY <1>2 DEF RunKeepsPromise, AttemptIsMarked
<1>4. CASE Pending /\ x.answer # "acked" /\ row'.status = "pending" /\ row' \in Row
           /\ row'.recoveryState = "unknown" /\ waived' = waived
    <2>1. AttemptIsMarked(r, row', waived')
        BY <1>4 DEF AttemptIsMarked
    <2>2. RunKeepsPromise(r, row', accepted, waived')
        BY <1>1, <1>2, <1>4, <2>1, MovedRun
    <2>3. row.status = "pending"
        BY <1>4 DEF Pending
    <2>4. PromiseParts'
        BY <1>1, <1>2, <1>4, <2>2, <2>3, PromiseMoves DEF SendPc
    <2> QED BY <1>1, <1>2, <1>4, <2>3, <2>4, ExcuseStep
<1>5. CASE row' = Deleted /\ waived' = Payload
    <2>1. row'.status # "pending"
        BY <1>1, <1>5, DeletedFacts
    <2>2. AttemptIsMarked(r, row', waived')
        BY <1>5, <2>1 DEF AttemptIsMarked
    <2>3. RunKeepsPromise(r, row', accepted, waived')
        BY <1>1, <1>2, <1>5, <2>2, MovedRun
    <2>4. PromiseParts'
        BY <1>1, <1>2, <1>5, <2>1, <2>3, PromiseMoves DEF SendPc
    <2> QED BY <1>1, <1>2, <1>3, <1>5, <2>4, GoneStep
<1>6. row' = x.row /\ waived' = IF x.answer = "acked" THEN Payload ELSE waived
    BY DEF Apply, WaiveIf
<1>7. ASSUME Pending, x.answer = "marked",
             x.row = [row EXCEPT !.recoveryState = "unknown"]
      PROVE  PromiseParts' /\ PromiseStep
    <2>1. row' \in Row /\ row'.status = "pending" /\ row'.recoveryState = "unknown"
        BY <1>1, <1>6, <1>7 DEF Row, Pending
    <2> QED BY <1>4, <1>6, <1>7, <2>1
<1>8. ASSUME Pending, x.answer = "failed", x.row = FailedAfterPlatformSend
      PROVE  PromiseParts' /\ PromiseStep
    <2>1. row'.status = "pending" /\ row'.recoveryState = "unknown"
        BY <1>1, <1>6, <1>8 DEF Row, Pending, FailedAfterPlatformSend, Failed
    <2>2. row' \in Row
        <3>1. RunMatchesRow(s, row)
            BY <1>1, SendingFacts
        <3>2. row.retryCount < MaxRetries
            BY <1>1, <1>8, <3>1, RetryIsLeft
        <3> QED BY <1>1, <1>6, <1>8, <3>2, FailedFacts
    <2> QED BY <1>4, <1>6, <1>8, <2>1, <2>2
<1> QED BY <1>1, <1>5, <1>6, <1>7, <1>8, PostSendFacts

LEMMA DeliveryResultPromise ==
    ASSUME ClaimParts, PromiseParts, NEW o \in Owner, DeliveryResult(o)
    PROVE  PromiseParts' /\ PromiseStep
<1> DEFINE s == run[o]
           g == [s EXCEPT !.got = TRUE]
<1>1. /\ s \in Run /\ s.pc = "result" /\ s.pc \in SendPc \ {"finish", "final"}
      /\ s.pc \in SendPc /\ row \in Row /\ faults \in 0..MaxFaults
      /\ UNCHANGED <<intent, accepted>>
    BY OtherTypes DEF DeliveryResult, SendPc
<1>2. /\ g \in Run /\ g.pc = s.pc /\ g.queued = s.queued /\ g.entry = s.entry
      /\ g.p = s.p /\ g.pre = s.pre /\ g.post = s.post /\ g.got = TRUE
      /\ g.err = s.err /\ g.failed = s.failed /\ g.allProven = s.allProven
    BY <1>1 DEF Run
<1> HIDE DEF g
<1>3. CASE g.queued /\ g.post = "none"
    <2>1. PICK x \in PersistPostSendState :
            /\ Apply(x) /\ WaiveIf(x.answer = "acked")
            /\ Keep(o, IF x.answer = "threw" THEN PayloadError(g, "plain")
                       ELSE [g EXCEPT !.post = x.answer, !.pc = "after"])
        BY <1>3 DEF DeliveryResult, g
    <2>2. CASE x.answer = "threw"
        <3>1. Keep(o, PayloadError(g, "plain")) /\ "plain" \in ErrorKind
            BY <2>1, <2>2 DEF ErrorKind
        <3>2. row' = row /\ waived' = waived
            BY <1>1, <2>1, <2>2, PostSendFacts DEF Apply, WaiveIf
        <3> QED BY <1>1, <1>2, <3>1, <3>2, PromiseError
    <2>3. CASE x.answer # "threw"
        <3> DEFINE r == [g EXCEPT !.post = x.answer, !.pc = "after"]
        <3>1. x.answer \in {"marked", "acked", "failed"}
            BY <1>1, <2>3, PostSendFacts
        <3>2. /\ r \in Run /\ r.pc = "after" /\ r.p = g.p /\ r.pre = g.pre
              /\ r.got = g.got /\ r.failed = g.failed /\ r.allProven = g.allProven
              /\ r.err = g.err
            BY <1>2, <3>1 DEF Run, Pc
        <3>3. Keep(o, r)
            BY <2>1, <2>3
        <3> HIDE DEF r
        <3> QED BY <1>1, <1>2, <1>3, <2>1, <2>3, <3>2, <3>3, EvidencePromise
    <2> QED BY <2>2, <2>3
<1>4. CASE ~(g.queued /\ g.post = "none")
    <2> DEFINE r == [g EXCEPT !.pc = "after"]
    <2>1. Keep(o, r) /\ UNCHANGED <<row, waived>>
        BY <1>4 DEF DeliveryResult, g
    <2>2. /\ r \in Run /\ r.pc = "after" /\ r.p = g.p /\ r.pre = g.pre
          /\ r.got = g.got /\ r.failed = g.failed /\ r.allProven = g.allProven
          /\ r.err = g.err
        BY <1>2 DEF Run, Pc
    <2> HIDE DEF r
    <2>3. RunKeepsPromise(s, row, accepted, waived) /\ waived \subseteq Payload
        BY <1>1, PromiseFacts
    <2>4. AttemptIsMarked(r, row, waived)
        BY <1>2, <2>2, <2>3 DEF RunKeepsPromise, AttemptIsMarked
    <2>5. RunKeepsPromise(r, row, accepted, waived)
        BY <1>1, <1>2, <2>2, <2>3, <2>4, MovedRun
    <2>6. PromiseParts'
        BY <1>1, <2>1, <2>2, <2>3, <2>5, PromiseMoves DEF SendPc
    <2> QED BY <1>1, <2>1, <2>3, <2>6, ExcuseStep
<1> QED BY <1>3, <1>4

LEMMA AfterDeliveredPayloadPromise ==
    ASSUME ClaimParts, PromiseParts, NEW o \in Owner, AfterDeliveredPayload(o)
    PROVE  PromiseParts' /\ PromiseStep
<1> DEFINE s == run[o]
<1>1. /\ s \in Run /\ s.pc = "after" /\ s.pc \in SendPc \ {"finish", "final"}
      /\ s.pc \in SendPc /\ "plain" \in ErrorKind /\ row \in Row /\ intent \in Intent
      /\ UNCHANGED <<row, intent, accepted, waived>>
    BY OtherTypes DEF AfterDeliveredPayload, SendPc, ErrorKind
<1>2. CASE Keep(o, PayloadError(s, "plain"))
    BY <1>1, <1>2, PromiseError
<1>3. CASE Keep(o, NextPayload(s))
    <2> DEFINE r == NextPayload(s)
    <2>1. s.p <= intent.payloads /\ s.p \in Payload
        BY <1>1, SendingFacts, RunFields
    <2>2. /\ RunKeepsPromise(s, row, accepted, waived) /\ waived \subseteq Payload
          /\ \A q \in Payload : q > intent.payloads => q \in waived
        BY <1>1, PromiseFacts
    <2>3. accepted[s.p] = 1
        BY <1>1, <2>2 DEF RunKeepsPromise, AcceptedInOrder
    <2>4. RunKeepsPromise(r, row, accepted, waived)
        BY <1>1, <2>1, <2>2, <2>3, NextRun
    <2>5. r.pc \in SendPc
        <3>1. r.pc = "payload" \/ r.pc = "finish"
            BY <1>1, <2>1, NextPayloadFacts
        <3> QED BY <3>1 DEF SendPc
    <2> HIDE DEF r
    <2>6. PromiseParts'
        BY <1>1, <1>3, <2>2, <2>4, <2>5, PromiseMoves DEF r
    <2> QED BY <1>1, <2>2, <2>6, ExcuseStep
<1> QED BY <1>2, <1>3 DEF AfterDeliveredPayload

LEMMA PayloadStepPromise ==
    ASSUME ClaimParts, PromiseParts, ~IdentitylessSends, NEW o \in Owner, PayloadStep(o)
    PROVE  PromiseParts' /\ PromiseStep
    BY SuppressPayloadPromise, PayloadThrowsPromise, PreparePayloadPromise,
       PlatformSendStartPromise, PlatformSendDispatchPromise, PlatformAcceptsPromise,
       PlatformRejectsPromise, DeliveryResultPromise, AfterDeliveredPayloadPromise
    DEF PayloadStep

(* An owner leaves the entry. *)
LEMMA PromiseLeft ==
    ASSUME ClaimParts, PromiseParts, NEW o \in Owner, Busy(o), PastEnqueue, Release(o),
           UNCHANGED <<intent, accepted>>, waived \subseteq waived',
           waived' \subseteq Payload,
           row'.status = "pending" =>
             /\ row.status = "pending"
             /\ \/ row'.recoveryState = row.recoveryState
                \/ row'.recoveryState # "none" \/ NoneSent(accepted)
    PROVE  PromiseParts'
<1>1. run'[o] = idleRun /\ \A q \in Owner : q # o => run'[q] = run[q]
    BY OtherTypes DEF Release
<1>2. \A q \in Owner : run'[q].pc \in {"idle", "loaded"}
    BY <1>1, BusyAlone DEF Busy, idleRun
<1>3. AcceptedTypes'
    BY DEF PromiseParts, AcceptedTypes
<1>4. AcceptanceLeavesTrace'
    <2>1. AcceptanceLeavesTrace /\ accepted' = accepted
        BY DEF PromiseParts
    <2> QED BY <2>1 DEF AcceptanceLeavesTrace, Pending, NoneSent
<1>5. live' \in {"new", "enqueued"} => live \in {"new", "enqueued"}
    BY DEF Release
<1>6. live' \in {"new", "enqueued"} => NoneSent(accepted)'
    BY <1>5 DEF PromiseParts, NoneSent
<1> QED BY <1>2, <1>3, <1>4, <1>6 DEF PromiseParts, SendPc

LEMMA ToFinalPromise ==
    ASSUME ClaimParts, PromiseParts, NEW o \in Owner, run[o].pc = "finish",
           Keep(o, [run[o] EXCEPT !.pc = "final"]),
           UNCHANGED <<row, waived, intent, accepted>>
    PROVE  PromiseParts' /\ PromiseStep
<1> DEFINE s == run[o]
           r == [s EXCEPT !.pc = "final"]
<1>1. s \in Run /\ row \in Row /\ s.pc \in SendPc
    BY OtherTypes DEF SendPc
<1>2. /\ r \in Run /\ r.pc = "final" /\ r.p = s.p /\ r.pre = s.pre
      /\ r.got = s.got /\ r.failed = s.failed /\ r.allProven = s.allProven
      /\ r.err = s.err
    BY <1>1 DEF Run, Pc
<1> HIDE DEF r
<1>3. RunKeepsPromise(s, row, accepted, waived) /\ waived \subseteq Payload
    BY <1>1, PromiseFacts
<1>4. AttemptIsMarked(r, row, waived)
    BY <1>2, <1>3 DEF RunKeepsPromise, AttemptIsMarked
<1>5. RunKeepsPromise(r, row, accepted, waived)
    BY <1>1, <1>2, <1>3, <1>4, MovedRun
<1>6. PromiseParts'
    BY <1>1, <1>2, <1>3, <1>5, PromiseMoves DEF SendPc, r
<1> QED BY <1>1, <1>3, <1>6, ExcuseStep

LEMMA EvidenceToFinalPromise ==
    ASSUME ClaimParts, PromiseParts, NEW o \in Owner, run[o].pc = "finish",
           run[o].post = "none",
           NEW x \in PersistPostSendState, Apply(x), WaiveIf(x.answer = "acked"),
           x.answer # "threw",
           Keep(o, [run[o] EXCEPT !.post = x.answer, !.pc = "final"]),
           UNCHANGED <<intent, accepted>>
    PROVE  PromiseParts' /\ PromiseStep
<1> DEFINE s == run[o]
           r == [s EXCEPT !.post = x.answer, !.pc = "final"]
<1>1. s \in Run /\ faults \in 0..MaxFaults
    BY OtherTypes
<1>2. x.answer \in {"marked", "acked", "failed"}
    BY <1>1, PostSendFacts
<1>3. /\ r \in Run /\ r.pc = "final" /\ r.p = s.p /\ r.pre = s.pre
      /\ r.got = s.got /\ r.failed = s.failed /\ r.allProven = s.allProven
      /\ r.err = s.err
    BY <1>1, <1>2 DEF Run, Pc
<1> HIDE DEF r
<1> QED BY <1>1, <1>3, EvidencePromise DEF r

(* The run ends with nothing but the row's mark to remember it. *)
LEMMA EvidenceLostPromise ==
    ASSUME ClaimParts, PromiseParts, NEW o \in Owner, run[o].pc \in SendPc,
           Release(o), UNCHANGED <<row, intent, accepted, waived>>
    PROVE  PromiseParts' /\ PromiseStep
<1>1. Busy(o) /\ PastEnqueue /\ row \in Row /\ waived \subseteq Payload
    BY SendingFacts, OtherTypes DEF PastEnqueue
<1>2. PromiseParts'
    BY <1>1, PromiseLeft
<1> QED BY <1>1, <1>2, ExcuseStep

LEMMA LiveRecordsEvidencePromise ==
    ASSUME ClaimParts, PromiseParts, LiveRecordsEvidence
    PROVE  PromiseParts' /\ PromiseStep
<1> DEFINE s == run[Live]
           Records == /\ s.queued /\ s.err # "abort" /\ s.post = "none"
                      /\ s.got \/ (Clean(s) /\ s.pre = "marked")
<1>1. /\ Live \in Owner /\ s.pc = "finish" /\ s.pc \in SendPc
      /\ UNCHANGED <<intent, accepted>> /\ faults \in 0..MaxFaults
    BY OwnerFacts, OtherTypes DEF LiveRecordsEvidence, SendPc
<1>2. CASE Records
    <2>1. PICK x \in PersistPostSendState :
            /\ Apply(x) /\ WaiveIf(x.answer = "acked")
            /\ IF x.answer = "threw" THEN Release(Live)
               ELSE Keep(Live, [s EXCEPT !.post = x.answer, !.pc = "final"])
        BY <1>2 DEF LiveRecordsEvidence
    <2>2. CASE x.answer = "threw"
        <3>1. row' = row /\ waived' = waived
            BY <1>1, <2>1, <2>2, PostSendFacts DEF Apply, WaiveIf
        <3> QED BY <1>1, <2>1, <2>2, <3>1, EvidenceLostPromise
    <2>3. CASE x.answer # "threw"
        BY <1>1, <1>2, <2>1, <2>3, EvidenceToFinalPromise
    <2> QED BY <2>2, <2>3
<1>3. CASE ~Records
    BY <1>1, <1>3, ToFinalPromise DEF LiveRecordsEvidence
<1> QED BY <1>2, <1>3

(* The last write of a run, whichever it is, keeps the promise: a row is   *)
(* only deleted once all payloads are done or waived, and only loses its   *)
(* mark if nothing was sent.                                               *)
LEMMA LastWritePromise ==
    ASSUME ClaimParts, PromiseParts, NEW o \in Owner, NEW s, s = run[o],
           s.pc = "final", Release(o), UNCHANGED <<intent, accepted>>,
           waived \subseteq waived', waived' \subseteq Payload,
           \/ row' = row
           \/ s.queued /\ row' = Deleted /\ (waived' = Payload \/ Clean(s))
           \/ /\ Pending /\ s.post # "failed"
              /\ row' \in {Failed, FailedAfterPlatformSend}
           \/ /\ Pending /\ s.post # "failed" /\ row' = FailedBeforePlatformSend
              /\ ~s.got
              /\ s.err = "proven" \/ (s.err = "none" /\ s.failed /\ s.allProven)
           \/ Pending /\ row' = failedRow /\ waived' = waived
    PROVE  PromiseParts' /\ PromiseStep
<1>1. /\ s \in Run /\ s.pc \in SendPc /\ row \in Row /\ Busy(o) /\ PastEnqueue
      /\ RunMatchesRow(s, row)
    BY SendingFacts DEF PastEnqueue, SendPc
<1>2. RunKeepsPromise(s, row, accepted, waived) /\ waived \subseteq Payload
    BY <1>1, PromiseFacts
<1>3. row.status # "pending" => waived = Payload
    BY <1>2 DEF RunKeepsPromise, AttemptIsMarked
<1>4. CASE row' = row
    <2>1. PromiseParts'
        BY <1>1, <1>4, PromiseLeft
    <2> QED BY <1>1, <1>3, <1>4, <2>1, ExcuseStep
<1>5. CASE s.queued /\ row' = Deleted /\ (waived' = Payload \/ Clean(s))
    <2>1. row' \in Row /\ row'.status # "pending"
        BY <1>1, <1>5, DeletedFacts
    <2>2. PromiseParts'
        BY <1>1, <2>1, PromiseLeft
    <2>3. \A q \in Payload : accepted[q] = 1 \/ q \in waived'
        BY <1>2, <1>5 DEF RunKeepsPromise, CleanMeansDone
    <2>4. CASE Pending
        <3>1. row'.status = "acked" /\ row.status = "pending"
            BY <1>1, <1>5, <2>4, DeletedFacts DEF Pending
        <3> QED BY <1>1, <2>1, <2>2, <2>3, <3>1, SettleStep
    <2>5. CASE ~Pending
        <3>1. row' = row /\ waived' = waived
            BY <1>1, <1>3, <1>5, <2>5, DeletedFacts DEF Pending
        <3> QED BY <1>1, <2>2, <3>1, ExcuseStep
    <2> QED BY <2>4, <2>5
<1>6. CASE Pending /\ s.post # "failed" /\ row' \in {Failed, FailedAfterPlatformSend}
    <2>1. row.retryCount < MaxRetries
        BY <1>1, <1>6, RetryIsLeft
    <2>2. /\ row' \in Row /\ row'.status = row.status /\ row.status = "pending"
          /\ row'.recoveryState = row.recoveryState \/ row'.recoveryState = "unknown"
        BY <1>1, <1>6, <2>1, FailedFacts DEF Pending
    <2>3. PromiseParts'
        BY <1>1, <2>2, PromiseLeft
    <2> QED BY <1>1, <2>2, <2>3, ExcuseStep
<1>7. CASE /\ Pending /\ s.post # "failed" /\ row' = FailedBeforePlatformSend
           /\ ~s.got
           /\ s.err = "proven" \/ (s.err = "none" /\ s.failed /\ s.allProven)
    <2>1. row.retryCount < MaxRetries
        BY <1>1, <1>7, RetryIsLeft
    <2>2. row' \in Row /\ row'.status = row.status /\ row.status = "pending"
        BY <1>1, <1>7, <2>1, FailedFacts DEF Pending
    <2>3. s.allProven /\ s.err # "plain"
        BY <1>2, <1>7 DEF RunKeepsPromise, FlagsAgree
    <2>4. NoneSent(accepted)
        BY <1>2, <1>7, <2>3 DEF RunKeepsPromise, FailuresAreKnown
    <2>5. PromiseParts'
        BY <1>1, <2>2, <2>4, PromiseLeft
    <2> QED BY <1>1, <2>2, <2>5, ExcuseStep
<1>8. CASE Pending /\ row' = failedRow /\ waived' = waived
    <2>1. row' \in Row /\ row'.status = "failed" /\ row.status = "pending"
        BY <1>1, <1>8, FailedRowFacts DEF Pending
    <2>2. PromiseParts'
        BY <1>1, <2>1, PromiseLeft
    <2> QED BY <1>1, <1>8, <2>1, <2>2, DeadLetterStep
<1> QED BY <1>4, <1>5, <1>6, <1>7, <1>8

LEMMA LiveFinishesPromise ==
    ASSUME ClaimParts, PromiseParts, LiveFinishes
    PROVE  PromiseParts' /\ PromiseStep
<1> DEFINE s == run[Live]
<1>1. /\ Live \in Owner /\ s.pc = "final" /\ s.pc \in SendPc /\ Release(Live)
      /\ UNCHANGED <<intent, accepted>> /\ WaiveIf(s.err = "abort")
    BY OwnerFacts DEF LiveFinishes, SendPc
<1>2. PICK x \in LiveFinalWrite(s) : Apply(x)
    BY DEF LiveFinishes
<1>3. /\ s \in Run /\ RunMatchesRow(s, row) /\ row \in Row /\ faults \in 0..MaxFaults
      /\ waived \subseteq Payload
    BY <1>1, SendingFacts, OtherTypes
<1>4. row' = x.row /\ waived' = IF s.err = "abort" THEN Payload ELSE waived
    BY <1>1, <1>2 DEF Apply, WaiveIf
<1>5. waived \subseteq waived' /\ waived' \subseteq Payload
    BY <1>3, <1>4
<1>6. \/ x.row = row
      \/ s.queued /\ x.row = Deleted /\ (s.err = "abort" \/ Clean(s))
      \/ /\ Pending /\ s.post # "failed"
         /\ x.row \in {Failed, FailedAfterPlatformSend}
      \/ /\ Pending /\ s.post # "failed" /\ x.row = FailedBeforePlatformSend
         /\ ~s.got
         /\ s.err = "proven" \/ (s.err = "none" /\ s.failed /\ s.allProven)
    BY <1>1, <1>2, <1>3, LiveFinalFacts
<1> QED BY <1>1, <1>4, <1>5, <1>6, LastWritePromise

LEMMA RethrownPromise ==
    ASSUME ClaimParts, PromiseParts, NEW o \in Owner,
           run[o].pc \in {"finish", "final"}, Keep(o, Rethrown(run[o])),
           UNCHANGED <<row, waived, intent, accepted>>
    PROVE  PromiseParts' /\ PromiseStep
<1> DEFINE s == run[o]
           r == Rethrown(s)
<1>1. s \in Run /\ row \in Row /\ s.pc \in SendPc
    BY OtherTypes DEF SendPc
<1>2. /\ r \in Run /\ r.pc = "finish" /\ r.p = s.p /\ r.pre = s.pre
      /\ r.got = s.got /\ r.failed = s.failed /\ r.allProven = s.allProven
      /\ r.err = "plain"
    BY <1>1 DEF Run, Pc, ErrorKind, Rethrown
<1> HIDE DEF r
<1>3. RunKeepsPromise(s, row, accepted, waived) /\ waived \subseteq Payload
    BY <1>1, PromiseFacts
<1>4. AttemptIsMarked(r, row, waived) /\ ~Clean(r) /\ FlagsAgree(r)
    BY <1>2, <1>3 DEF RunKeepsPromise, AttemptIsMarked, Clean, FlagsAgree
<1>5. AcceptedInOrder(r, accepted) /\ FailuresAreKnown(r, accepted)
    BY <1>2, <1>3 DEF RunKeepsPromise, AcceptedInOrder, NoneAhead, FailuresAreKnown
<1>6. RunKeepsPromise(r, row, accepted, waived)
    BY <1>4, <1>5 DEF RunKeepsPromise, CleanMeansDone
<1>7. PromiseParts'
    BY <1>1, <1>2, <1>3, <1>6, PromiseMoves DEF SendPc, r
<1> QED BY <1>1, <1>3, <1>7, ExcuseStep

LEMMA ReplayRecordsEvidencePromise ==
    ASSUME ClaimParts, PromiseParts, NEW w \in Worker, ReplayRecordsEvidence(w)
    PROVE  PromiseParts' /\ PromiseStep
<1> DEFINE s == run[w]
<1>1. /\ w \in Owner /\ s.pc = "finish" /\ s.pc \in SendPc
      /\ UNCHANGED <<intent, accepted>> /\ faults \in 0..MaxFaults
    BY OwnerFacts, OtherTypes DEF ReplayRecordsEvidence, SendPc
<1>2. CASE s.got /\ s.post = "none"
    <2>1. PICK x \in PersistPostSendState :
            /\ Apply(x) /\ WaiveIf(x.answer = "acked")
            /\ IF x.answer # "threw"
               THEN Keep(w, [s EXCEPT !.post = x.answer, !.pc = "final"])
               ELSE IF s.err = "none" THEN Keep(w, Rethrown(s)) ELSE Release(w)
        BY <1>2 DEF ReplayRecordsEvidence
    <2>2. CASE x.answer = "threw"
        <3>1. row' = row /\ waived' = waived
            BY <1>1, <2>1, <2>2, PostSendFacts DEF Apply, WaiveIf
        <3>2. CASE s.err = "none"
            BY <1>1, <2>1, <2>2, <3>1, <3>2, RethrownPromise
        <3>3. CASE s.err # "none"
            BY <1>1, <2>1, <2>2, <3>1, <3>3, EvidenceLostPromise
        <3> QED BY <3>2, <3>3
    <2>3. CASE x.answer # "threw"
        BY <1>1, <1>2, <2>1, <2>3, EvidenceToFinalPromise
    <2> QED BY <2>2, <2>3
<1>3. CASE ~(s.got /\ s.post = "none")
    BY <1>1, <1>3, ToFinalPromise DEF ReplayRecordsEvidence
<1> QED BY <1>2, <1>3

LEMMA ReplayFinishesPromise ==
    ASSUME ClaimParts, PromiseParts, NEW w \in Worker, ReplayFinishes(w)
    PROVE  PromiseParts' /\ PromiseStep
<1> DEFINE s == run[w]
<1>1. /\ w \in Owner /\ s.pc = "final" /\ s.pc \in SendPc /\ s.queued
      /\ UNCHANGED <<intent, accepted, waived>>
    BY OwnerFacts DEF ReplayFinishes, SendPc, ClaimParts, WorkerRuns
<1>2. PICK x \in ReplayFinalWrite(s) :
        Apply(x) /\ IF x.answer = "rethrow" THEN Keep(w, Rethrown(s)) ELSE Release(w)
    BY DEF ReplayFinishes
<1>3. /\ s \in Run /\ RunMatchesRow(s, row) /\ row \in Row /\ faults \in 0..MaxFaults
      /\ waived \subseteq Payload
    BY <1>1, SendingFacts, OtherTypes
<1>4. row' = x.row
    BY <1>2 DEF Apply
<1>5. CASE x.answer = "rethrow"
    <2>1. row' = row
        BY <1>1, <1>2, <1>3, <1>4, <1>5, ReplayFinalFacts
    <2> QED BY <1>1, <1>2, <1>5, <2>1, RethrownPromise
<1>6. CASE x.answer # "rethrow"
    <2>1. \/ x.row = row
          \/ x.row = Deleted /\ Clean(s)
          \/ Pending /\ x.row = failedRow
          \/ /\ Pending /\ s.post # "failed"
             /\ x.row \in {Failed, FailedAfterPlatformSend}
          \/ /\ Pending /\ s.post # "failed" /\ x.row = FailedBeforePlatformSend
             /\ ~s.got
             /\ s.err = "proven" \/ (s.err = "none" /\ s.failed /\ s.allProven)
        BY <1>1, <1>2, <1>3, ReplayFinalFacts
    <2> QED BY <1>1, <1>2, <1>3, <1>4, <1>6, <2>1, LastWritePromise
<1> QED BY <1>5, <1>6

-----------------------------------------------------------------------------
(* The promise up to the first send of a run. *)

(* A run may start while nothing is sent. *)
LEMMA FreshRun ==
    ASSUME NEW r, r.pc = "payload", Untouched([r EXCEPT !.queued = TRUE]), r \in Run,
           NoneSent(accepted), NEW given, row.status # "pending" => given = Payload
    PROVE  RunKeepsPromise(r, row, accepted, given)
<1>1. /\ r.p = 1 /\ r.pre = "none" /\ r.post = "none" /\ r.got = FALSE
      /\ r.failed = FALSE /\ r.allProven = TRUE /\ r.err = "none"
    BY DEF Untouched, Run
<1>2. AttemptIsMarked(r, row, given) /\ FlagsAgree(r)
    BY <1>1 DEF AttemptIsMarked, FlagsAgree
<1>3. AcceptedInOrder(r, accepted) /\ FailuresAreKnown(r, accepted)
    BY <1>1, PayloadFacts DEF AcceptedInOrder, NoneAhead, FailuresAreKnown, NoneSent
<1>4. CleanMeansDone(r, accepted, given)
    BY <1>1 DEF CleanMeansDone, Payload
<1> QED BY <1>2, <1>3, <1>4 DEF RunKeepsPromise

(* Steps before any send: of the live send ... *)
LEMMA LiveStartPromise ==
    ASSUME ClaimParts, PromiseParts, EnqueueDelivery \/ EnqueueThrows \/ LiveClaims
    PROVE  PromiseParts' /\ PromiseStep
<1>1. /\ live \in {"new", "enqueued"} /\ NoneSent(accepted) /\ row \in Row
      /\ UNCHANGED <<intent, accepted>> /\ waived \subseteq Payload
      /\ run \in [Owner -> Run] /\ Live \in Owner
    BY OtherTypes, OwnerFacts
    DEF EnqueueDelivery, EnqueueThrows, LiveClaims, PromiseParts
<1>2. run[Live].pc = "idle" /\ \A w \in Worker : run[w].pc \notin SendPc
    BY <1>1 DEF ClaimParts, LiveRuns, RowIsFresh, SendPc
<1>3. waived \subseteq waived' /\ waived' \subseteq Payload
    BY <1>1 DEF EnqueueDelivery, EnqueueThrows, LiveClaims
<1>4. AcceptedTypes'
    BY <1>1, <1>3 DEF PromiseParts, AcceptedTypes
<1>5. AcceptanceLeavesTrace' /\ NoneSent(accepted)'
    BY <1>1 DEF AcceptanceLeavesTrace, NoneSent
<1>6. ASSUME NEW r \in Run, r.pc = "payload", Untouched([r EXCEPT !.queued = TRUE]),
             run' = [run EXCEPT ![Live] = r], row' = row,
             row.status # "pending" => waived' = Payload
      PROVE  PromiseParts'
    <2>1. RunKeepsPromise(r, row', accepted', waived')
        BY <1>1, <1>6, FreshRun
    <2>2. run'[Live] = r /\ \A w \in Worker : run'[w] = run[w]
        BY <1>1, <1>6, OwnerFacts
    <2>3. ASSUME NEW o \in Owner, run'[o].pc \in SendPc
          PROVE  RunKeepsPromise(run[o], row, accepted, waived)'
        <3>1. o = Live
            BY <1>2, <2>2, <2>3, OwnerFacts
        <3> QED BY <1>1, <2>1, <2>2, <3>1
                DEF RunKeepsPromise, AttemptIsMarked, AcceptedInOrder, NoneAhead,
                    FailuresAreKnown, FlagsAgree, CleanMeansDone, NoneSent, Clean
    <2> QED BY <1>4, <1>5, <2>3 DEF PromiseParts
<1>7. ASSUME run' = run
      PROVE  PromiseParts'
    BY <1>2, <1>4, <1>5, <1>7, OwnerFacts DEF PromiseParts, SendPc
<1>8. CASE EnqueueDelivery
    <2>1. /\ run' = run /\ row = absentRow /\ row' = freshRow /\ waived' = waived
        BY <1>8 DEF EnqueueDelivery, ClaimParts, RowIsFresh, freshRow
    <2>2. row' \in Row /\ row.status = "absent" /\ row'.status = "pending"
        BY <2>1, IdleRunType DEF absentRow, freshRow
    <2> QED BY <1>1, <1>3, <1>7, <2>1, <2>2, ExcuseStep
<1>9. CASE EnqueueThrows
    <2>1. row' = row /\ row = absentRow /\ row.status = "absent"
        BY <1>9 DEF EnqueueThrows, ClaimParts, RowIsFresh, absentRow
    <2>2. PromiseStep
        BY <1>1, <1>3, <2>1, ExcuseStep
    <2>3. CASE intent.policy = "required"
        BY <1>7, <1>9, <2>2, <2>3 DEF EnqueueThrows
    <2>4. CASE intent.policy # "required"
        <3> DEFINE r == [idleRun EXCEPT !.pc = "payload", !.queued = FALSE]
        <3>1. run' = [run EXCEPT ![Live] = r] /\ waived' = Payload
            BY <1>9, <2>4 DEF EnqueueThrows
        <3>2. r \in Run /\ r.pc = "payload" /\ Untouched([r EXCEPT !.queued = TRUE])
            BY IdleRunType DEF Run, Pc, idleRun, Untouched
        <3> HIDE DEF r
        <3> QED BY <1>6, <2>1, <2>2, <3>1, <3>2
    <2> QED BY <2>3, <2>4
<1>10. CASE LiveClaims
    <2>1. row' = row /\ row.status = "pending" /\ waived' = waived
        BY <1>10 DEF LiveClaims, ClaimParts, RowIsFresh, freshRow, absentRow
    <2>2. PromiseStep
        BY <1>1, <1>3, <2>1, ExcuseStep
    <2>3. CASE claimed
        BY <1>7, <1>10, <2>2, <2>3 DEF LiveClaims
    <2>4. CASE ~claimed
        <3> DEFINE r == [idleRun EXCEPT !.pc = "payload"]
        <3>1. run' = [run EXCEPT ![Live] = r]
            BY <1>10, <2>4 DEF LiveClaims
        <3>2. r \in Run /\ r.pc = "payload" /\ Untouched([r EXCEPT !.queued = TRUE])
            BY IdleRunType DEF Run, Pc, idleRun, Untouched
        <3> HIDE DEF r
        <3> QED BY <1>6, <2>1, <2>2, <3>1, <3>2
    <2> QED BY <2>3, <2>4
<1> QED BY <1>8, <1>9, <1>10

(* ... of a drain that has not begun to send, and of a crash ... *)
LEMMA IdlePromise ==
    ASSUME ClaimParts, PromiseParts, UNCHANGED <<row, intent, accepted, waived>>,
           live' \in {"new", "enqueued"} => live \in {"new", "enqueued"},
           \A o \in Owner : run'[o].pc \in SendPc => run'[o] = run[o]
    PROVE  PromiseParts' /\ PromiseStep
<1>1. row \in Row /\ waived \subseteq Payload
    BY OtherTypes
<1>2. AcceptedTypes' /\ AcceptanceLeavesTrace'
    BY DEF PromiseParts, AcceptedTypes, AcceptanceLeavesTrace, Pending
<1>3. live' \in {"new", "enqueued"} => NoneSent(accepted)'
    BY DEF PromiseParts, NoneSent
<1>4. ASSUME NEW o \in Owner, run'[o].pc \in SendPc
      PROVE  RunKeepsPromise(run[o], row, accepted, waived)'
    <2>1. run'[o] = run[o] /\ RunKeepsPromise(run[o], row, accepted, waived)
        BY <1>4 DEF PromiseParts
    <2> QED BY <2>1
            DEF RunKeepsPromise, AttemptIsMarked, AcceptedInOrder, NoneAhead,
                FailuresAreKnown, FlagsAgree, CleanMeansDone, NoneSent, Clean
<1>5. PromiseParts'
    BY <1>2, <1>3, <1>4 DEF PromiseParts
<1> QED BY <1>1, <1>5, ExcuseStep

LEMMA DrainPromise ==
    ASSUME ClaimParts, PromiseParts, NEW w \in Worker,
           \/ LoadPendingDeliveries(w) \/ ClaimAndReload(w) \/ AdmitEntry(w)
           \/ DeferEntry(w)
    PROVE  PromiseParts' /\ PromiseStep
<1>1. /\ w \in Owner /\ run \in [Owner -> Run] /\ w # Live
      /\ UNCHANGED <<row, intent, accepted, waived, live>>
    BY OwnerFacts, OtherTypes
    DEF LoadPendingDeliveries, ClaimAndReload, AdmitEntry, DeferEntry, Keep, Release
<1>2. PICK r : run' = [run EXCEPT ![w] = r] /\ r.pc \notin SendPc
    <2>1. CASE LoadPendingDeliveries(w)
        <3> DEFINE r == [idleRun EXCEPT !.pc = "loaded", !.entry = row]
        <3>1. run' = [run EXCEPT ![w] = r] /\ r.pc \notin SendPc
            BY <2>1 DEF LoadPendingDeliveries, Keep, idleRun, SendPc
        <3> QED BY <3>1
    <2>2. idleRun.pc \notin SendPc
        BY DEF idleRun, SendPc
    <2>3. CASE ClaimAndReload(w) /\ (claimed \/ ~Pending)
        BY <2>2, <2>3 DEF ClaimAndReload, Keep
    <2>4. CASE ClaimAndReload(w) /\ ~(claimed \/ ~Pending)
        <3> DEFINE r == [run[w] EXCEPT !.pc = "claimed", !.entry = row]
        <3>1. run' = [run EXCEPT ![w].pc = "claimed", ![w].entry = row]
            BY <2>4 DEF ClaimAndReload
        <3>2. run' = [run EXCEPT ![w] = r]
            BY <1>1, <3>1
        <3>3. r.pc \notin SendPc
            BY <1>1 DEF Run, SendPc
        <3> QED BY <3>2, <3>3
    <2>5. CASE AdmitEntry(w)
        <3> DEFINE r == [run[w] EXCEPT !.pc = "replay"]
        <3>1. run' = [run EXCEPT ![w] = r] /\ r.pc \notin SendPc
            BY <1>1, <2>5 DEF AdmitEntry, Keep, Run, SendPc
        <3> QED BY <3>1
    <2>6. CASE DeferEntry(w)
        BY <2>2, <2>6 DEF DeferEntry, Release
    <2> QED BY <2>1, <2>3, <2>4, <2>5, <2>6
<1>3. \A o \in Owner : run'[o].pc \in SendPc => run'[o] = run[o]
    BY <1>1, <1>2
<1> QED BY <1>1, <1>3, IdlePromise

LEMMA DeadLetterEntryPromise ==
    ASSUME ClaimParts, PromiseParts, NEW w \in Worker, DeadLetterEntry(w)
    PROVE  PromiseParts' /\ PromiseStep
<1>1. /\ w \in Owner /\ Busy(w) /\ PastEnqueue /\ Release(w) /\ row \in Row
      /\ Pending /\ faults \in 0..MaxFaults /\ waived \subseteq Payload
      /\ UNCHANGED <<intent, accepted, waived>>
    BY WorkerFacts, OtherTypes DEF DeadLetterEntry, Busy
<1>2. PICK x \in MoveToFailed : Apply(x)
    BY DEF DeadLetterEntry
<1>3. row' = row \/ row' = failedRow
    BY <1>1, <1>2, UpdateFacts DEF MoveToFailed, failedRow, Apply
<1>4. CASE row' = row
    BY <1>1, <1>4, PromiseLeft, ExcuseStep
<1>5. CASE row' = failedRow
    <2>1. row' \in Row /\ row'.status = "failed" /\ row.status = "pending"
        BY <1>1, <1>5, FailedRowFacts DEF Pending
    <2> QED BY <1>1, <2>1, PromiseLeft, DeadLetterStep
<1> QED BY <1>3, <1>4, <1>5

(* ... and of a replay: it sends only what no earlier run has sent.        *)
LEMMA ReplaySendsPromise ==
    ASSUME ClaimParts, PromiseParts, NEW w \in Worker, run[w].pc = "replay",
           Keep(w, [run[w] EXCEPT !.pc = "payload"]), NoneSent(accepted),
           UNCHANGED <<row, intent, accepted, waived>>
    PROVE  PromiseParts' /\ PromiseStep
<1> DEFINE s == run[w]
           r == [s EXCEPT !.pc = "payload"]
<1>1. /\ w \in Owner /\ s \in Run /\ Untouched(s) /\ row \in Row /\ Pending
      /\ waived \subseteq Payload /\ Busy(w)
    BY WorkerFacts, OtherTypes DEF SendPc, Busy
<1>2. /\ r \in Run /\ r.pc = "payload" /\ Untouched([r EXCEPT !.queued = TRUE])
    BY <1>1 DEF Run, Pc, Untouched
<1>3. run'[w] = r /\ live' = live /\ \A o \in Owner : o # w => run'[o] = run[o]
    BY <1>1, OtherTypes DEF Keep
<1> HIDE DEF r
<1>4. RunKeepsPromise(r, row, accepted, waived)
    BY <1>1, <1>2, FreshRun DEF Pending
<1>5. \A o \in Owner : o # w => run[o].pc \in {"idle", "loaded"}
    BY <1>1, BusyAlone DEF Busy
<1>6. AcceptedTypes' /\ AcceptanceLeavesTrace'
    BY DEF PromiseParts, AcceptedTypes, AcceptanceLeavesTrace, Pending
<1>7. NoneSent(accepted)'
    BY DEF NoneSent
<1>8. ASSUME NEW o \in Owner, run'[o].pc \in SendPc
      PROVE  RunKeepsPromise(run[o], row, accepted, waived)'
    <2>1. o = w
        BY <1>3, <1>5, <1>8 DEF SendPc
    <2> QED BY <1>3, <1>4, <2>1
            DEF RunKeepsPromise, AttemptIsMarked, AcceptedInOrder, NoneAhead,
                FailuresAreKnown, FlagsAgree, CleanMeansDone, NoneSent, Clean
<1>9. PromiseParts'
    BY <1>6, <1>7, <1>8 DEF PromiseParts
<1> QED BY <1>1, <1>9, ExcuseStep

LEMMA ReplayStartsPromise ==
    ASSUME ClaimParts, PromiseParts, NEW w \in Worker, ReplayStarts(w)
    PROVE  PromiseParts' /\ PromiseStep
<1>1. Pending /\ row.recoveryState = "none" /\ run[w].pc = "replay"
    BY WorkerFacts DEF ReplayStarts
<1>2. NoneSent(accepted)
    <2>1. \A q \in Payload : accepted[q] # 0 => accepted[q] > 0
        BY DEF PromiseParts, AcceptedTypes
    <2> QED BY <1>1, <2>1 DEF PromiseParts, AcceptanceLeavesTrace, NoneSent
<1> QED BY <1>1, <1>2, ReplaySendsPromise DEF ReplayStarts

LEMMA ReconcileEntryPromise ==
    ASSUME ClaimParts, PromiseParts, NEW w \in Worker, ReconcileEntry(w)
    PROVE  PromiseParts' /\ PromiseStep
<1>1. /\ w \in Owner /\ Busy(w) /\ row \in Row /\ Pending /\ run[w].pc = "replay"
      /\ run[w].entry = row /\ faults \in 0..MaxFaults /\ waived \subseteq Payload
      /\ UNCHANGED <<intent, accepted, waived>>
    BY WorkerFacts, OtherTypes DEF ReconcileEntry, Busy
<1>2. /\ \A q \in Payload : q > intent.payloads => accepted[q] = 0 /\ q \in waived
      /\ accepted \in [Payload -> {0, 1}] /\ intent.payloads \in Nat
      /\ \A q \in Payload : q \in Wanted \/ q > intent.payloads
    <2>1. intent.payloads \in Nat
        BY OtherTypes, PayloadFacts DEF Intent
    <2> QED BY <2>1 DEF PromiseParts, AcceptedTypes, Wanted, Payload
<1>3. PICK answer \in Reconciliations :
         IF answer = "not_sent" /\ run[w].entry.recoveryState = "started"
         THEN Keep(w, [run[w] EXCEPT !.pc = "payload"])
              /\ UNCHANGED <<row, faults>>
         ELSE /\ \E x \in CASE answer = "sent" -> ReconciledSent
                            [] answer = "retryable" -> FailDelivery
                            [] OTHER -> MoveToFailed : Apply(x)
              /\ Release(w)
    BY DEF ReconcileEntry
<1>4. CASE answer = "not_sent" /\ run[w].entry.recoveryState = "started"
    <2>1. \A q \in Wanted : accepted[q] = 0
        BY <1>4 DEF Reconciliations
    <2>2. NoneSent(accepted)
        BY <1>2, <2>1 DEF NoneSent
    <2> QED BY <1>1, <1>3, <1>4, <2>2, ReplaySendsPromise
<1>5. CASE ~(answer = "not_sent" /\ run[w].entry.recoveryState = "started")
    <2>1. answer \in {"null", "retryable", "sent", "not_sent"}
        BY DEF Reconciliations
    <2>2. PICK x \in CASE answer = "sent" -> ReconciledSent
                       [] answer = "retryable" -> FailDelivery
                       [] OTHER -> MoveToFailed : Apply(x)
        BY <1>3, <1>5
    <2>3. row' = x.row /\ Release(w) /\ PastEnqueue /\ row.status = "pending"
        BY <1>1, <1>3, <1>5, <2>2 DEF Apply, PastEnqueue, ClaimParts, RowIsFresh, Pending
    <2>4. CASE x.row = row
        BY <1>1, <2>3, <2>4, PromiseLeft, ExcuseStep
    <2>5. CASE x.row = Deleted /\ answer = "sent"
        <3>1. row' \in Row /\ row'.status = "acked"
            BY <1>1, <2>3, <2>5, DeletedFacts
        <3>2. \A q \in Wanted : accepted[q] > 0
            BY <2>5 DEF Reconciliations
        <3>3. \A q \in Payload : accepted[q] = 1 \/ q \in waived
            BY <1>2, <3>2
        <3> QED BY <1>1, <2>3, <3>1, <3>3, PromiseLeft, SettleStep
    <2>6. CASE x.row = Failed
        <3>1. row.retryCount < MaxRetries
            BY <1>1 DEF ClaimParts, WorkerRuns
        <3>2. row' \in Row /\ row'.status = row.status
              /\ row'.recoveryState = row.recoveryState
            BY <1>1, <2>3, <2>6, <3>1, FailedFacts
        <3> QED BY <1>1, <2>3, <3>2, PromiseLeft, ExcuseStep
    <2>7. CASE x.row = failedRow
        <3>1. row' \in Row /\ row'.status = "failed"
            BY <1>1, <2>3, <2>7, FailedRowFacts
        <3> QED BY <1>1, <2>3, <3>1, PromiseLeft, DeadLetterStep
    <2> QED BY <1>1, <2>1, <2>2, <2>4, <2>5, <2>6, <2>7, ReconcileFacts
<1> QED BY <1>4, <1>5

LEMMA CrashPromise ==
    ASSUME ClaimParts, PromiseParts, Crash
    PROVE  PromiseParts' /\ PromiseStep
<1>1. UNCHANGED <<row, intent, accepted, waived>> /\ live' = "done"
      /\ \A o \in Owner : run'[o].pc \notin SendPc
    BY DEF Crash, idleRun, SendPc
<1> QED BY <1>1, IdlePromise

-----------------------------------------------------------------------------
LEMMA PromiseInit ==
    ASSUME Init
    PROVE  PromiseParts
<1>1. /\ intent.payloads \in Nat /\ accepted \in [Payload -> {0, 1}]
      /\ waived \subseteq Payload /\ NoneSent(accepted)
    BY PayloadFacts DEF Init, Intent, NoneSent
<1>2. \A q \in Payload : q > intent.payloads => q \in waived
    BY <1>1 DEF Init, Wanted, Payload
<1>3. AcceptedTypes /\ AcceptanceLeavesTrace
    BY <1>1, <1>2 DEF AcceptedTypes, AcceptanceLeavesTrace, NoneSent
<1>4. \A o \in Owner : run[o].pc \notin SendPc
    BY DEF Init, idleRun, SendPc
<1> QED BY <1>1, <1>3, <1>4 DEF PromiseParts

LEMMA PromiseNext ==
    ASSUME ClaimParts, PromiseParts, ~IdentitylessSends, [Next]_vars
    PROVE  PromiseParts' /\ PromiseStep
<1>1. CASE LiveStep
    BY <1>1, OwnerFacts, LiveStartPromise, PayloadStepPromise,
       LiveRecordsEvidencePromise, LiveFinishesPromise DEF LiveStep
<1>2. ASSUME NEW w \in Worker, WorkerStep(w)
      PROVE  PromiseParts' /\ PromiseStep
    BY <1>2, OwnerFacts, DrainPromise, DeadLetterEntryPromise, ReplayStartsPromise,
       ReconcileEntryPromise, PayloadStepPromise, ReplayRecordsEvidencePromise,
       ReplayFinishesPromise DEF WorkerStep
<1>3. CASE UNCHANGED vars
    BY <1>3, IdlePromise DEF vars
<1> QED BY <1>1, <1>2, <1>3, DrainPromise, CrashPromise DEF Next

(* What the platform has accepted agrees with the row and the run: the     *)
(* inductive invariant of the promise, for adapters that return an         *)
(* identity with each result.                                              *)
THEOREM PromiseInvariant ==
    ASSUME ~IdentitylessSends
    PROVE  Spec => []PromiseParts
<1>1. Init => PromiseParts
    BY PromiseInit
<1>2. ClaimParts /\ PromiseParts /\ [Next]_vars => PromiseParts'
    BY PromiseNext
<1> QED BY <1>1, <1>2, ClaimInvariant, PTL DEF Spec

(* Whenever the platform has accepted a payload of a row that would still  *)
(* be replayed, the row says that an attempt was made, at every point at   *)
(* which the process may die (onPlatformSendStart, onDeliveryResult,       *)
(* failDelivery).                                                          *)
THEOREM AcceptanceAlwaysLeavesTrace ==
    ASSUME ~IdentitylessSends
    PROVE  Spec => []AcceptanceLeavesTrace
<1>1. PromiseParts => AcceptanceLeavesTrace
    BY DEF PromiseParts
<1> QED BY <1>1, PromiseInvariant, PTL

(* The queue implements its promise: no payload is accepted twice, a       *)
(* settled intent has every payload accepted or waived, and nothing is     *)
(* sent after the dead letter, however many drains, crashes and failing    *)
(* database calls there are.                                               *)
THEOREM QueueKeepsPromise ==
    ASSUME ~IdentitylessSends
    PROVE  Spec => KeepsPromise
<1>1. Init => Abstract!Init
    <2>1. SUFFICES ASSUME Init PROVE Abstract!Init
        OBVIOUS
    <2>2. row.status = "absent" /\ waived \in SUBSET Payload
        BY <2>1 DEF Init, absentRow
    <2>3. Fate = "open"
        BY <2>2 DEF Fate
    <2> QED BY <2>1, <2>2, <2>3 DEF Init, Abstract!Init
<1>2. ClaimParts /\ PromiseParts /\ [Next]_vars
        => [Abstract!Next]_(Abstract!intentVars)
    <2>1. SUFFICES ASSUME ClaimParts, PromiseParts, [Next]_vars
                   PROVE  [Abstract!Next]_(Abstract!intentVars)
        OBVIOUS
    <2>2. PromiseStep
        BY <2>1, PromiseNext
    <2> QED BY <2>2 DEF PromiseStep, Abstract!intentVars
<1> QED BY <1>1, <1>2, ClaimInvariant, PromiseInvariant, PTL
        DEF Spec, KeepsPromise, Abstract!Spec

-----------------------------------------------------------------------------
(* Replays are paid for, whatever the adapters return.                     *)

Accepted(acc) == \E q \in Payload : acc[q] > 0

(* A result is the answer to a message the platform has taken. *)
ResultsAreReal ==
    \A o \in Owner : /\ run[o].got => Accepted(accepted)
                     /\ run[o].pc = "result" => accepted[run[o].p] > 0

(* One owner moves: it has a result only if it had one or was given one. *)
ResultKept(o, r) ==
    /\ run' = [run EXCEPT ![o] = r]
    /\ r.got => run[o].got \/ run[o].pc = "result"
    /\ r.pc # "result"

LEMMA ResultKeptStep ==
    ASSUME ClaimParts, ResultsAreReal, NEW o \in Owner, NEW r, ResultKept(o, r),
           accepted' = accepted
    PROVE  ResultsAreReal'
<1>1. /\ run'[o] = r /\ run[o].p \in Payload
      /\ \A q \in Owner : q # o => run'[q] = run[q]
    BY OtherTypes, RunFields DEF ResultKept
<1>2. run[o].got \/ run[o].pc = "result" => Accepted(accepted)
    BY <1>1 DEF ResultsAreReal, Accepted
<1> QED BY <1>1, <1>2 DEF ResultsAreReal, ResultKept, Accepted

LEMMA ErrorKeepsResult ==
    ASSUME ClaimParts, NEW o \in Owner, run[o].pc \in SendPc,
           NEW s \in Run, s.p = run[o].p,
           s.got => run[o].got \/ run[o].pc = "result",
           NEW kind \in ErrorKind, run' = [run EXCEPT ![o] = PayloadError(s, kind)]
    PROVE  ResultKept(o, PayloadError(s, kind))
<1>1. intent \in Intent /\ s.p <= intent.payloads
    BY SendingFacts
<1>2. /\ PayloadError(s, kind).got = s.got
      /\ PayloadError(s, kind).pc \in {"payload", "finish"}
    BY <1>1, PayloadErrorFacts
<1> QED BY <1>2 DEF ResultKept

LEMMA NextKeepsResult ==
    ASSUME ClaimParts, NEW o \in Owner, run[o].pc \in SendPc,
           run' = [run EXCEPT ![o] = NextPayload(run[o])]
    PROVE  ResultKept(o, NextPayload(run[o]))
<1>1. run[o] \in Run /\ intent \in Intent /\ run[o].p <= intent.payloads
    BY SendingFacts
<1>2. /\ NextPayload(run[o]).got = run[o].got
      /\ NextPayload(run[o]).pc \in {"payload", "finish"}
    BY <1>1, NextPayloadFacts
<1> QED BY <1>2 DEF ResultKept

LEMMA MoveKeepsResult ==
    ASSUME NEW o \in Owner, NEW r, run' = [run EXCEPT ![o] = r],
           r.got = run[o].got, r.pc # "result"
    PROVE  \E q : ResultKept(o, q)
<1>1. ResultKept(o, r)
    BY DEF ResultKept
<1> QED BY <1>1

LEMMA PayloadKeepsResult ==
    ASSUME ClaimParts, ResultsAreReal, NEW o \in Owner, PayloadStep(o),
           ~PlatformAccepts(o)
    PROVE  \E r : ResultKept(o, r)
<1>1. run[o] \in Run /\ ErrorKind = {"none", "plain", "proven", "permanent", "abort"}
    BY OtherTypes DEF ErrorKind
<1>2. CASE SuppressPayload(o)
    BY <1>2, NextKeepsResult DEF SuppressPayload, Keep, SendPc
<1>3. CASE PayloadThrows(o)
    <2>1. PICK kind \in ErrorKind : run' = [run EXCEPT ![o] = PayloadError(run[o], kind)]
        BY <1>1, <1>3 DEF PayloadThrows, Keep
    <2> QED BY <1>1, <1>3, <2>1, ErrorKeepsResult DEF PayloadThrows, SendPc
<1>4. CASE PreparePayload(o)
    <2> DEFINE r == [run[o] EXCEPT !.pc = "start"]
    <2>1. r.got = run[o].got /\ r.pc = "start" /\ run' = [run EXCEPT ![o] = r]
        BY <1>1, <1>4 DEF Run, PreparePayload, Keep
    <2> HIDE DEF r
    <2> QED BY <2>1, MoveKeepsResult
<1>5. CASE PlatformSendStart(o)
    <2> DEFINE s == run[o]
    <2>1. \/ run' = [run EXCEPT ![o] = PayloadError(s, "plain")]
          \/ run' = [run EXCEPT ![o] = [s EXCEPT !.pre = "marked", !.pc = "dispatch"]]
          \/ run' = [run EXCEPT ![o] =
                       [s EXCEPT !.pre = "acked", !.pc = "dispatch",
                                 !.post = IF o = Live THEN "acked" ELSE @]]
          \/ run' = [run EXCEPT ![o] = [s EXCEPT !.pc = "dispatch"]]
        <3>1. CASE s.queued /\ ~intent.exact /\ s.pre = "none"
            <4>1. PICK x \in PersistPreSendState :
                Keep(o, CASE x.answer = "threw" -> PayloadError(s, "plain")
                         [] x.answer = "marked" ->
                              [s EXCEPT !.pre = "marked", !.pc = "dispatch"]
                         [] OTHER ->
                              [s EXCEPT !.pre = "acked", !.pc = "dispatch",
                                        !.post = IF o = Live THEN "acked" ELSE @])
                BY <1>5, <3>1 DEF PlatformSendStart
            <4>2. CASE x.answer = "threw"
                BY <4>1, <4>2 DEF Keep
            <4>3. CASE x.answer = "marked"
                BY <4>1, <4>3 DEF Keep
            <4>4. CASE x.answer \notin {"threw", "marked"}
                BY <4>1, <4>4 DEF Keep
            <4> QED BY <4>2, <4>3, <4>4
        <3>2. CASE ~(s.queued /\ ~intent.exact /\ s.pre = "none")
            BY <1>5, <3>2 DEF PlatformSendStart, Keep
        <3> QED BY <3>1, <3>2
    <2>2. CASE run' = [run EXCEPT ![o] = PayloadError(s, "plain")]
        BY <1>1, <1>5, <2>2, ErrorKeepsResult DEF PlatformSendStart, SendPc
    <2>3. CASE run' = [run EXCEPT ![o] = [s EXCEPT !.pre = "marked", !.pc = "dispatch"]]
        <3> DEFINE r == [s EXCEPT !.pre = "marked", !.pc = "dispatch"]
        <3>1. r.got = s.got /\ r.pc = "dispatch" /\ run' = [run EXCEPT ![o] = r]
            BY <1>1, <2>3 DEF Run
        <3> HIDE DEF r
        <3> QED BY <3>1, MoveKeepsResult
    <2>4. CASE run' = [run EXCEPT ![o] =
                         [s EXCEPT !.pre = "acked", !.pc = "dispatch",
                                   !.post = IF o = Live THEN "acked" ELSE @]]
        <3> DEFINE r == [s EXCEPT !.pre = "acked", !.pc = "dispatch",
                                  !.post = IF o = Live THEN "acked" ELSE @]
        <3>1. r.got = s.got /\ r.pc = "dispatch" /\ run' = [run EXCEPT ![o] = r]
            BY <1>1, <2>4 DEF Run
        <3> HIDE DEF r
        <3> QED BY <3>1, MoveKeepsResult
    <2>5. CASE run' = [run EXCEPT ![o] = [s EXCEPT !.pc = "dispatch"]]
        <3> DEFINE r == [s EXCEPT !.pc = "dispatch"]
        <3>1. r.got = s.got /\ r.pc = "dispatch" /\ run' = [run EXCEPT ![o] = r]
            BY <1>1, <2>5 DEF Run
        <3> HIDE DEF r
        <3> QED BY <3>1, MoveKeepsResult
    <2> QED BY <2>1, <2>2, <2>3, <2>4, <2>5
<1>6. CASE PlatformSendDispatch(o)
    <2> DEFINE s == run[o]
    <2>1. \/ run' = [run EXCEPT ![o] = PayloadError(s, "plain")]
          \/ run' = [run EXCEPT ![o] = [s EXCEPT !.pre = "marked", !.pc = "platform"]]
          \/ run' = [run EXCEPT ![o] = [s EXCEPT !.pc = "platform"]]
        BY <1>6 DEF PlatformSendDispatch, Keep
    <2>2. CASE run' = [run EXCEPT ![o] = PayloadError(s, "plain")]
        BY <1>1, <1>6, <2>2, ErrorKeepsResult DEF PlatformSendDispatch, SendPc
    <2>3. CASE run' = [run EXCEPT ![o] = [s EXCEPT !.pre = "marked", !.pc = "platform"]]
        <3> DEFINE r == [s EXCEPT !.pre = "marked", !.pc = "platform"]
        <3>1. r.got = s.got /\ r.pc = "platform" /\ run' = [run EXCEPT ![o] = r]
            BY <1>1, <2>3 DEF Run
        <3> HIDE DEF r
        <3> QED BY <3>1, MoveKeepsResult
    <2>4. CASE run' = [run EXCEPT ![o] = [s EXCEPT !.pc = "platform"]]
        <3> DEFINE r == [s EXCEPT !.pc = "platform"]
        <3>1. r.got = s.got /\ r.pc = "platform" /\ run' = [run EXCEPT ![o] = r]
            BY <1>1, <2>4 DEF Run
        <3> HIDE DEF r
        <3> QED BY <3>1, MoveKeepsResult
    <2> QED BY <2>1, <2>2, <2>3, <2>4
<1>7. CASE PlatformRejects(o)
    <2>1. PICK kind \in ErrorKind : run' = [run EXCEPT ![o] = PayloadError(run[o], kind)]
        BY <1>1, <1>7 DEF PlatformRejects, Keep
    <2> QED BY <1>1, <1>7, <2>1, ErrorKeepsResult DEF PlatformRejects, SendPc
<1>8. CASE DeliveryResult(o)
    <2> DEFINE s == run[o]
               g == [s EXCEPT !.got = TRUE]
    <2>1. g \in Run /\ g.p = s.p /\ s.pc = "result" /\ s.pc \in SendPc
        BY <1>1, <1>8 DEF Run, DeliveryResult, SendPc
    <2>2. \/ run' = [run EXCEPT ![o] = PayloadError(g, "plain")]
          \/ \E a : run' = [run EXCEPT ![o] = [g EXCEPT !.post = a, !.pc = "after"]]
          \/ run' = [run EXCEPT ![o] = [g EXCEPT !.pc = "after"]]
        BY <1>8 DEF DeliveryResult, Keep
    <2>3. CASE run' = [run EXCEPT ![o] = PayloadError(g, "plain")]
        BY <1>1, <2>1, <2>3, ErrorKeepsResult
    <2>4. \A a : [g EXCEPT !.post = a, !.pc = "after"].pc = "after"
          /\ [g EXCEPT !.pc = "after"].pc = "after"
        BY <2>1 DEF Run
    <2> QED BY <2>1, <2>2, <2>3, <2>4 DEF ResultKept
<1>9. CASE AfterDeliveredPayload(o)
    <2>1. \/ run' = [run EXCEPT ![o] = NextPayload(run[o])]
          \/ run' = [run EXCEPT ![o] = PayloadError(run[o], "plain")]
        BY <1>9 DEF AfterDeliveredPayload, Keep
    <2> QED BY <1>1, <1>9, <2>1, ErrorKeepsResult, NextKeepsResult
            DEF AfterDeliveredPayload, SendPc
<1> QED BY <1>2, <1>3, <1>4, <1>5, <1>6, <1>7, <1>8, <1>9 DEF PayloadStep

LEMMA ResultsInit ==
    ASSUME Init
    PROVE  ResultsAreReal
<1>1. \A o \in Owner : run[o].got = FALSE /\ run[o].pc = "idle"
    BY DEF Init, idleRun
<1> QED BY <1>1 DEF ResultsAreReal

LEMMA PlatformAcceptsResult ==
    ASSUME ClaimParts, ResultsAreReal, NEW o \in Owner, PlatformAccepts(o)
    PROVE  ResultsAreReal'
<1> DEFINE s == run[o]
<1>1. /\ s \in Run /\ s.p \in Payload /\ s.pc \in SendPc /\ accepted \in [Payload -> Nat]
      /\ accepted' = [accepted EXCEPT ![s.p] = @ + 1] /\ "plain" \in ErrorKind
      /\ intent \in Intent /\ s.p <= intent.payloads
    BY SendingFacts, OtherTypes, RunFields DEF PlatformAccepts, SendPc, ErrorKind
<1>2. /\ accepted'[s.p] > 0 /\ Accepted(accepted')
      /\ \A q \in Payload : accepted[q] > 0 => accepted'[q] > 0
    BY <1>1 DEF Accepted
<1>3. \A q \in Owner : q # o => run'[q] = run[q]
    BY OtherTypes DEF PlatformAccepts, Keep
<1>4. run'[o].pc = "result" => run'[o].p = s.p
    <2>1. \/ run'[o] = [s EXCEPT !.pc = "result"]
          \/ run'[o] = PayloadError(s, "plain")
          \/ run'[o] = [s EXCEPT !.pc = "after"]
        BY OtherTypes DEF PlatformAccepts, Keep
    <2>2. PayloadError(s, "plain").pc \in {"payload", "finish"}
        BY <1>1, PayloadErrorFacts
    <2> QED BY <1>1, <2>1, <2>2 DEF Run
<1>5. \A q \in Owner : run[q].p \in Payload
    BY OtherTypes, RunFields
<1> QED BY <1>2, <1>3, <1>4, <1>5 DEF ResultsAreReal, Accepted

(* A drain that has not begun to send, and a cleanup, have no new result. *)
LEMMA WorkerKeepsResult ==
    ASSUME ClaimParts, ResultsAreReal, NEW w \in Worker,
           \/ LoadPendingDeliveries(w) \/ AdmitEntry(w) \/ ClaimAndReload(w)
           \/ DeadLetterEntry(w) \/ DeferEntry(w) \/ ReplayStarts(w)
           \/ ReconcileEntry(w) \/ ReplayRecordsEvidence(w) \/ ReplayFinishes(w)
    PROVE  /\ \E r : ResultKept(w, r)
           /\ accepted' = accepted
<1> DEFINE s == run[w]
<1>1. /\ s \in Run /\ w \in Owner
      /\ accepted' = accepted
    BY WorkerFacts
    DEF LoadPendingDeliveries, AdmitEntry, ClaimAndReload, DeadLetterEntry, DeferEntry,
        ReplayStarts, ReconcileEntry, ReplayRecordsEvidence, ReplayFinishes
<1>2. idleRun.got = FALSE /\ idleRun.pc = "idle"
    BY DEF idleRun
<1>3. CASE run' = [run EXCEPT ![w] = idleRun]
    BY <1>1, <1>2, <1>3 DEF ResultKept
<1>4. ASSUME NEW pc, pc # "result", run' = [run EXCEPT ![w] = [s EXCEPT !.pc = pc]]
      PROVE  \E r : ResultKept(w, r)
    <2> DEFINE r == [s EXCEPT !.pc = pc]
    <2>1. r.got = s.got /\ r.pc = pc /\ run' = [run EXCEPT ![w] = r]
        BY <1>1, <1>4 DEF Run
    <2> HIDE DEF r
    <2> QED BY <1>1, <1>4, <2>1, MoveKeepsResult
<1>5. CASE LoadPendingDeliveries(w)
    <2> DEFINE r == [idleRun EXCEPT !.pc = "loaded", !.entry = row]
    <2>1. r.got = FALSE /\ r.pc = "loaded" /\ run' = [run EXCEPT ![w] = r]
        BY <1>5 DEF LoadPendingDeliveries, Keep, idleRun
    <2> HIDE DEF r
    <2> QED BY <1>1, <2>1 DEF ResultKept
<1>6. CASE ClaimAndReload(w) /\ ~(claimed \/ ~Pending)
    <2> DEFINE r == [s EXCEPT !.pc = "claimed", !.entry = row]
    <2>1. run' = [run EXCEPT ![w].pc = "claimed", ![w].entry = row]
        BY <1>6 DEF ClaimAndReload
    <2>2. r.got = s.got /\ r.pc = "claimed" /\ run' = [run EXCEPT ![w] = r]
        BY <1>1, <2>1, OtherTypes DEF Run
    <2> HIDE DEF r
    <2> QED BY <1>1, <2>2, MoveKeepsResult
<1>7. CASE AdmitEntry(w) \/ ReplayStarts(w)
    BY <1>1, <1>4, <1>7 DEF AdmitEntry, ReplayStarts, Keep
<1>8. CASE \/ ClaimAndReload(w) /\ (claimed \/ ~Pending)
           \/ DeadLetterEntry(w) \/ DeferEntry(w)
    BY <1>1, <1>3, <1>8 DEF ClaimAndReload, DeadLetterEntry, DeferEntry, Keep, Release
<1>9. CASE ReconcileEntry(w)
    BY <1>1, <1>3, <1>4, <1>9 DEF ReconcileEntry, Keep, Release
<1>10. CASE run' = [run EXCEPT ![w] = Rethrown(s)]
    <2>1. Rethrown(s).got = s.got /\ Rethrown(s).pc = "finish"
        BY <1>1 DEF Rethrown, Run
    <2> QED BY <1>1, <1>10, <2>1, MoveKeepsResult
<1>11. CASE ReplayFinishes(w)
    BY <1>1, <1>3, <1>10, <1>11 DEF ReplayFinishes, Keep, Release
<1>12. CASE ReplayRecordsEvidence(w)
    <2>1. \/ \E a : run' = [run EXCEPT ![w] = [s EXCEPT !.post = a, !.pc = "final"]]
          \/ run' = [run EXCEPT ![w] = Rethrown(s)]
          \/ run' = [run EXCEPT ![w] = idleRun]
          \/ run' = [run EXCEPT ![w] = [s EXCEPT !.pc = "final"]]
        BY <1>12 DEF ReplayRecordsEvidence, Keep, Release
    <2>2. ASSUME NEW a, run' = [run EXCEPT ![w] = [s EXCEPT !.post = a, !.pc = "final"]]
          PROVE  \E r : ResultKept(w, r)
        <3> DEFINE r == [s EXCEPT !.post = a, !.pc = "final"]
        <3>1. r.got = s.got /\ r.pc = "final" /\ run' = [run EXCEPT ![w] = r]
            BY <1>1, <2>2 DEF Run
        <3> HIDE DEF r
        <3> QED BY <1>1, <3>1, MoveKeepsResult
    <2> QED BY <1>1, <1>3, <1>4, <1>10, <2>1, <2>2
<1> QED BY <1>1, <1>5, <1>6, <1>7, <1>8, <1>9, <1>11, <1>12

LEMMA LiveKeepsResult ==
    ASSUME ClaimParts, ResultsAreReal,
           \/ EnqueueDelivery \/ EnqueueThrows \/ LiveClaims
           \/ LiveRecordsEvidence \/ LiveFinishes
    PROVE  /\ accepted' = accepted
           /\ run' = run \/ \E r : ResultKept(Live, r)
<1> DEFINE s == run[Live]
<1>1. /\ s \in Run /\ Live \in Owner /\ accepted' = accepted
    BY OwnerFacts, OtherTypes
    DEF EnqueueDelivery, EnqueueThrows, LiveClaims, LiveRecordsEvidence, LiveFinishes
<1>2. CASE run' = [run EXCEPT ![Live] = idleRun]
    <2>1. idleRun.got = FALSE /\ idleRun.pc = "idle"
        BY DEF idleRun
    <2> QED BY <1>1, <1>2, <2>1 DEF ResultKept
<1>3. CASE run' = [run EXCEPT ![Live] = [idleRun EXCEPT !.pc = "payload", !.queued = FALSE]]
    <2> DEFINE r == [idleRun EXCEPT !.pc = "payload", !.queued = FALSE]
    <2>1. r.got = FALSE /\ r.pc = "payload" /\ run' = [run EXCEPT ![Live] = r]
        BY <1>3 DEF idleRun
    <2> HIDE DEF r
    <2> QED BY <1>1, <2>1 DEF ResultKept
<1>4. CASE run' = [run EXCEPT ![Live] = [idleRun EXCEPT !.pc = "payload"]]
    <2> DEFINE r == [idleRun EXCEPT !.pc = "payload"]
    <2>1. r.got = FALSE /\ r.pc = "payload" /\ run' = [run EXCEPT ![Live] = r]
        BY <1>4 DEF idleRun
    <2> HIDE DEF r
    <2> QED BY <1>1, <2>1 DEF ResultKept
<1>5. CASE EnqueueDelivery \/ EnqueueThrows \/ LiveClaims \/ LiveFinishes
    BY <1>1, <1>2, <1>3, <1>4, <1>5
    DEF EnqueueDelivery, EnqueueThrows, LiveClaims, LiveFinishes, Release
<1>6. CASE LiveRecordsEvidence
    <2>1. \/ \E a : run' = [run EXCEPT ![Live] = [s EXCEPT !.post = a, !.pc = "final"]]
          \/ run' = [run EXCEPT ![Live] = idleRun]
          \/ run' = [run EXCEPT ![Live] = [s EXCEPT !.pc = "final"]]
        BY <1>6 DEF LiveRecordsEvidence, Keep, Release
    <2>2. ASSUME NEW a, run' = [run EXCEPT ![Live] = [s EXCEPT !.post = a, !.pc = "final"]]
          PROVE  \E r : ResultKept(Live, r)
        <3> DEFINE r == [s EXCEPT !.post = a, !.pc = "final"]
        <3>1. r.got = s.got /\ r.pc = "final" /\ run' = [run EXCEPT ![Live] = r]
            BY <1>1, <2>2 DEF Run
        <3> HIDE DEF r
        <3> QED BY <1>1, <3>1, MoveKeepsResult
    <2>3. CASE run' = [run EXCEPT ![Live] = [s EXCEPT !.pc = "final"]]
        <3> DEFINE r == [s EXCEPT !.pc = "final"]
        <3>1. r.got = s.got /\ r.pc = "final" /\ run' = [run EXCEPT ![Live] = r]
            BY <1>1, <2>3 DEF Run
        <3> HIDE DEF r
        <3> QED BY <1>1, <3>1, MoveKeepsResult
    <2> QED BY <1>1, <1>2, <2>1, <2>2, <2>3
<1> QED BY <1>1, <1>5, <1>6

(* A step writes the run of one owner, and of an owner who is where that   *)
(* step begins.                                                            *)
LEMMA PayloadStepMovesOne ==
    ASSUME NEW o \in Owner, PayloadStep(o)
    PROVE  /\ run[o].pc # "final"
           /\ \E r : run' = [run EXCEPT ![o] = r]
    BY DEF PayloadStep, SuppressPayload, PayloadThrows, PreparePayload, PlatformSendStart,
           PlatformSendDispatch, PlatformAccepts, PlatformRejects, DeliveryResult,
           AfterDeliveredPayload, Keep

LEMMA PayloadStepResult ==
    ASSUME ClaimParts, ResultsAreReal, NEW o \in Owner, PayloadStep(o)
    PROVE  ResultsAreReal'
<1>1. CASE PlatformAccepts(o)
    BY <1>1, PlatformAcceptsResult
<1>2. CASE ~PlatformAccepts(o)
    <2>1. PICK r : ResultKept(o, r)
        BY <1>2, PayloadKeepsResult
    <2>2. accepted' = accepted
        BY <1>2 DEF PayloadStep, SuppressPayload, PayloadThrows, PreparePayload,
              PlatformSendStart, PlatformSendDispatch, PlatformRejects, DeliveryResult,
              AfterDeliveredPayload
    <2> QED BY <2>1, <2>2, ResultKeptStep
<1> QED BY <1>1, <1>2

LEMMA ResultsNext ==
    ASSUME ClaimParts, ResultsAreReal, [Next]_vars
    PROVE  ResultsAreReal'
<1>1. CASE run' = run /\ accepted' = accepted
    BY <1>1 DEF ResultsAreReal, Accepted
<1>2. CASE LiveStep
    <2>1. CASE PayloadStep(Live)
        BY <2>1, PayloadStepResult, OwnerFacts
    <2>2. CASE ~PayloadStep(Live)
        <3>1. accepted' = accepted /\ (run' = run \/ \E r : ResultKept(Live, r))
            BY <1>2, <2>2, LiveKeepsResult DEF LiveStep
        <3> QED BY <1>1, <3>1, ResultKeptStep, OwnerFacts
    <2> QED BY <2>1, <2>2
<1>3. ASSUME NEW w \in Worker,
             LoadPendingDeliveries(w) \/ AdmitEntry(w) \/ WorkerStep(w)
      PROVE  ResultsAreReal'
    <2>1. CASE PayloadStep(w)
        BY <2>1, PayloadStepResult, OwnerFacts
    <2>2. CASE ~PayloadStep(w)
        <3>1. accepted' = accepted /\ \E r : ResultKept(w, r)
            BY <1>3, <2>2, WorkerKeepsResult DEF WorkerStep
        <3> QED BY <3>1, ResultKeptStep, OwnerFacts
    <2> QED BY <2>1, <2>2
<1>4. CASE Crash
    <2>1. \A o \in Owner : run'[o].got = FALSE /\ run'[o].pc = "idle"
        BY <1>4 DEF Crash, idleRun
    <2> QED BY <2>1 DEF ResultsAreReal
<1>5. CASE UNCHANGED vars
    BY <1>1, <1>5 DEF vars
<1> QED BY <1>2, <1>3, <1>4, <1>5 DEF Next

(* A replay about to make its last write is moved by that write alone. *)
LEMMA FinalRunStays ==
    ASSUME ClaimParts, ResultsAreReal, [Next]_vars, crashes' = crashes,
           NEW w \in Worker, run[w].pc = "final", ~ReplayFinishes(w)
    PROVE  run'[w] = run[w]
<1>1. w \in Owner /\ w # Live /\ run \in [Owner -> Run] /\ crashes \in Nat
    BY OwnerFacts, OtherTypes DEF ClaimParts, TypeOK
<1>2. CASE LiveStep
    <2>1. run' = run \/ \E r : run' = [run EXCEPT ![Live] = r]
        BY <1>2, LiveKeepsResult, PayloadStepMovesOne, OwnerFacts DEF LiveStep, ResultKept
    <2> QED BY <1>1, <2>1
<1>3. ASSUME NEW v \in Worker,
             LoadPendingDeliveries(v) \/ AdmitEntry(v) \/ WorkerStep(v)
      PROVE  run'[w] = run[w]
    <2>1. v # w
        BY <1>1, <1>3, PayloadStepMovesOne
        DEF WorkerStep, LoadPendingDeliveries, AdmitEntry, ClaimAndReload, DeadLetterEntry,
            DeferEntry, ReplayStarts, ReconcileEntry, ReplayRecordsEvidence
    <2>2. \E r : run' = [run EXCEPT ![v] = r]
        BY <1>3, WorkerKeepsResult, PayloadStepMovesOne, OwnerFacts
        DEF WorkerStep, ResultKept
    <2> QED BY <1>1, <2>1, <2>2
<1>4. ~Crash
    BY <1>1 DEF Crash
<1>5. CASE UNCHANGED vars
    BY <1>5 DEF vars
<1> QED BY <1>2, <1>3, <1>4, <1>5 DEF Next

LEMMA LastWriteIsPaid ==
    ASSUME ClaimParts, ResultsAreReal, NEW w \in Worker, ReplayFinishes(w),
           ~AtWork(w)', row'.status = "pending"
    PROVE  \/ row'.retryCount > run[w].entry.retryCount
           \/ \E p \in Payload : accepted[p] > 0
           \/ faults' > faults
<1> DEFINE s == run[w]
<1>1. /\ w \in Owner /\ s \in Run /\ s.pc = "final" /\ s.queued
      /\ RunMatchesRow(s, row) /\ row \in Row /\ faults \in 0..MaxFaults
      /\ run \in [Owner -> Run] /\ s.entry \in Row
    BY WorkerFacts, SendingFacts, OtherTypes, RunFields DEF ReplayFinishes, SendPc
<1>2. PICK x \in ReplayFinalWrite(s) :
        Apply(x) /\ IF x.answer = "rethrow" THEN Keep(w, Rethrown(s)) ELSE Release(w)
    BY DEF ReplayFinishes
<1>3. row' = x.row /\ faults' = x.faults
    BY <1>2 DEF Apply
<1>4. x.answer # "rethrow"
    <2>1. SUFFICES ASSUME x.answer = "rethrow" PROVE FALSE
        OBVIOUS
    <2>2. run'[w] = Rethrown(s)
        BY <1>1, <1>2, <2>1 DEF Keep
    <2>3. Rethrown(s).pc = "finish" /\ Rethrown(s).queued = s.queued
        BY <1>1 DEF Rethrown, Run
    <2> QED BY <1>1, <2>2, <2>3 DEF AtWork
<1>5. s.entry.retryCount \in Nat /\ row.retryCount \in Nat /\ faults \in Nat
    BY <1>1, RowFields
<1>6. CASE x.row = row /\ (~Pending \/ s.got \/ s.post = "failed" \/ x.faults = faults + 1)
    <2>1. CASE ~Pending
        BY <1>3, <1>6, <2>1 DEF Pending
    <2>2. CASE s.got
        BY <1>1, <2>2 DEF ResultsAreReal, Accepted
    <2>3. CASE Pending /\ s.post = "failed"
        BY <1>1, <1>3, <1>5, <1>6, <2>3 DEF RunMatchesRow, Pending
    <2>4. CASE x.faults = faults + 1
        BY <1>3, <1>5, <2>4
    <2> QED BY <1>6, <2>1, <2>2, <2>3, <2>4
<1>7. CASE x.row = Deleted
    <2>1. row'.status # "pending"
        BY <1>1, <1>3, <1>7 DEF Deleted, Pending, Row
    <2> QED BY <2>1
<1>8. CASE x.row = failedRow
    <2>1. row'.status # "pending"
        BY <1>1, <1>3, <1>8 DEF failedRow, Row
    <2> QED BY <2>1
<1>9. CASE /\ Pending /\ s.post # "failed"
           /\ x.row \in {Failed, FailedAfterPlatformSend, FailedBeforePlatformSend}
    <2>1. row'.retryCount = row.retryCount + 1
        BY <1>1, <1>3, <1>9
        DEF Failed, FailedAfterPlatformSend, FailedBeforePlatformSend, Row
    <2>2. row.retryCount = s.entry.retryCount
        BY <1>1, <1>9 DEF RunMatchesRow, Pending
    <2> QED BY <1>5, <2>1, <2>2
<1> QED BY <1>1, <1>2, <1>4, <1>6, <1>7, <1>8, <1>9, ReplayFinalFacts

(* A replay that leaves the entry pending has used up a retry, or the      *)
(* platform has a message of the intent and so a blind repeat is ruled     *)
(* out, or the database refused a write (drainQueuedEntry and              *)
(* failDelivery): the retry limit ends the replays of an entry that never  *)
(* gets through.                                                           *)
THEOREM ReplayAlwaysPaidFor == Spec => ReplayIsPaidFor
<1> DEFINE Paid(w) ==
        run[w].pc = "final" /\ ~AtWork(w)' /\ crashes' = crashes
          /\ row'.status = "pending"
          => \/ row'.retryCount > run[w].entry.retryCount
             \/ \E p \in Payload : accepted[p] > 0
             \/ faults' > faults
<1>1. Init => ResultsAreReal
    BY ResultsInit
<1>2. ClaimParts /\ ResultsAreReal /\ [Next]_vars => ResultsAreReal'
    BY ResultsNext
<1>3. ClaimParts /\ ResultsAreReal /\ [Next]_vars => \A w \in Worker : Paid(w)
    <2>1. SUFFICES ASSUME ClaimParts, ResultsAreReal, [Next]_vars, NEW w \in Worker,
                          run[w].pc = "final", ~AtWork(w)', crashes' = crashes,
                          row'.status = "pending"
                   PROVE  \/ row'.retryCount > run[w].entry.retryCount
                          \/ \E p \in Payload : accepted[p] > 0
                          \/ faults' > faults
        OBVIOUS
    <2>2. CASE ReplayFinishes(w)
        BY <2>1, <2>2, LastWriteIsPaid
    <2>3. CASE ~ReplayFinishes(w)
        <3>1. run'[w] = run[w] /\ run[w].queued
            BY <2>1, <2>3, FinalRunStays, WorkerFacts
        <3> QED BY <2>1, <3>1 DEF AtWork
    <2> QED BY <2>2, <2>3
<1>4. Spec => []ClaimParts
    BY ClaimInvariant
<1> QED BY <1>1, <1>2, <1>3, <1>4, PTL DEF Spec, ReplayIsPaidFor

=============================================================================
