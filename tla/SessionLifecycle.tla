--------------------------- MODULE SessionLifecycle ---------------------------
(***************************************************************************)
(* Session work and session lifecycle mutations, kept apart by identity:   *)
(* work is admitted under the identity locks and registered before it      *)
(* crosses the store writer's queue; a mutation (reset, delete, rollover)  *)
(* first becomes active, then interrupts and drains the registered work,   *)
(* and only then runs (src/src/sessions/session-lifecycle-admission.ts,    *)
(* session-work-admission-handoff.ts, src/src/shared/store-writer-queue.ts).*)
(*                                                                         *)
(* One store scope.  A lock is a queue whose head holds it, as in          *)
(* runQueuedStoreWrite.  A process takes its locks one by one and gives    *)
(* them back together: the releases that unwind the nested calls wait for  *)
(* nothing.  version[i] stands for what the store records of identity i.   *)
(***************************************************************************)
EXTENDS Naturals, Sequences, FiniteSets, SequencesExt

CONSTANTS
    Identity,       \* session keys and ids, in the order of toSorted
    Work,           \* turns that ask for an admission, once each
    Mutation,       \* lifecycle mutations, once each
    Ids,            \* Ids[p]: the identities process p names
    InBand,         \* InBand[m]: the work whose own turn started m
    WriterOwned,    \* work begun by a callback of the store writer
    Abortable,      \* processes whose caller passes an abort signal
    MaxMaintenance  \* bound: runs of store maintenance

Proc == Work \cup Mutation
Sweep == "maintenance"

ASSUME LifecycleConstants ==
    /\ Identity \subseteq Nat /\ IsFiniteSet(Identity) /\ IsFiniteSet(Mutation)
    /\ Work \cap Mutation = {} /\ WriterOwned \subseteq Work
    /\ Abortable \subseteq Proc
    /\ Sweep \notin Proc
    /\ Ids \in [Proc -> (SUBSET Identity) \ {{}}]
    /\ InBand \in [Mutation -> SUBSET Work]
    /\ MaxMaintenance \in Nat

VARIABLES
    phase,              \* where each process is
    lifecycleQueue,     \* SESSION_LIFECYCLE_QUEUES, by identity
    mutationQueue,      \* SESSION_LIFECYCLE_MUTATION_QUEUES, by identity
    writerQueue,        \* the store's WRITER_QUEUES entry
    activeMutations,    \* ACTIVE_SESSION_LIFECYCLE_MUTATIONS
    waitsFor,           \* waitsFor[w]: identities whose idle promise is pending
    registered,         \* work in ACTIVE_SESSION_WORK_ADMISSIONS
    interrupted, told,  \* told[w]: owners whose interrupt callback ran
    handoff,            \* "none", "out" or "adopted"
    targets, drained,   \* what a mutation waits for; mutations that saw it end
    aborted,            \* processes whose abort signal fired
    closed,             \* isGatewaySubordinateWorkAdmissionClosed
    version, expected,  \* the store, and what each work was admitted for
    plan, sweeps        \* the running sweep: {} or {identities it keeps}

lockVars == <<lifecycleQueue, mutationQueue, writerQueue>>
leaseVars == <<registered, interrupted, told, handoff>>
drainVars == <<targets, drained>>
storeVars == <<version, expected, plan, sweeps>>
vars == <<phase, lockVars, activeMutations, waitsFor, leaseVars, drainVars,
          aborted, closed, storeVars>>

Owner == {"creator", "adopter"}
Over == {"failed", "released", "done"}

-----------------------------------------------------------------------------
(* Locks *)

AtHead(p, queue) == queue # <<>> /\ Head(queue) = p
Holds(p, q) == \A i \in Ids[p] : AtHead(p, q[i])
AtTurn(p, q) == \A i \in Ids[p] : p \in ToSet(q[i]) => Head(q[i]) = p
Wanted(p, q) == {i \in Ids[p] : p \notin ToSet(q[i])}

MutationsDescend(p, q) ==
    CHOOSE i \in Wanted(p, q) : \A j \in Wanted(p, q) :
        IF p \in Mutation THEN j <= i ELSE i <= j

(* normalizeSessionIdentities sorts, so every process locks in one order. *)
NextLock(p, q) == CHOOSE i \in Wanted(p, q) : \A j \in Wanted(p, q) : i <= j

Join(q, p) == [q EXCEPT ![NextLock(p, q)] = Append(@, p)]
Leave(q, p) ==
    [i \in Identity |-> IF AtHead(p, q[i]) THEN Tail(q[i]) ELSE q[i]]

AtWriter(p) == AtHead(p, writerQueue)

(* The next lock of runWithSessionIdentityLocks. *)
TakeLifecycleLock(p) ==
    /\ phase[p] \in {"locking", "activating", "starting", "finishing"}
    /\ AtTurn(p, lifecycleQueue) /\ ~Holds(p, lifecycleQueue)
    /\ lifecycleQueue' = Join(lifecycleQueue, p)
    /\ UNCHANGED <<phase, mutationQueue, writerQueue, activeMutations,
                   waitsFor, leaseVars, drainVars, aborted, closed, storeVars>>

Busy(ids) == {i \in ids : activeMutations[i] > 0}

-----------------------------------------------------------------------------
(* beginSessionWorkAdmission *)

Init ==
    /\ phase = [p \in Proc |-> "idle"]
    /\ lifecycleQueue = [i \in Identity |-> <<>>]
    /\ mutationQueue = [i \in Identity |-> <<>>]
    /\ writerQueue = <<>>
    /\ activeMutations = [i \in Identity |-> 0]
    /\ waitsFor = [w \in Work |-> {}]
    /\ registered = {} /\ interrupted = {}
    /\ told = [w \in Work |-> {}] /\ handoff = [w \in Work |-> "none"]
    /\ targets = [m \in Mutation |-> {}] /\ drained = {}
    /\ aborted = {} /\ closed = FALSE
    /\ version = [i \in Identity |-> 0]
    /\ expected = [w \in Work |-> version]
    /\ plan = {} /\ sweeps = 0

(* A callback of the store writer is about to begin w. *)
EnterWriter(w) ==
    /\ w \in WriterOwned /\ phase[w] = "idle" /\ w \notin ToSet(writerQueue)
    /\ writerQueue' = Append(writerQueue, w)
    /\ UNCHANGED <<phase, lifecycleQueue, mutationQueue, activeMutations,
                   waitsFor, leaseVars, drainVars, aborted, closed, storeVars>>

(* Work w gives up: whatever it holds is released.  A barrier task that has *)
(* not started stays queued.                                                *)
FailsAt(w, queue) ==
    /\ phase' = [phase EXCEPT ![w] = "failed"]
    /\ lifecycleQueue' = Leave(lifecycleQueue, w)
    /\ writerQueue' = queue
    /\ waitsFor' = [waitsFor EXCEPT ![w] = {}]
    /\ registered' = registered \ {w}

WriterLeft(w) == IF AtWriter(w) THEN Tail(writerQueue) ELSE writerQueue
Fails(w) == FailsAt(w, WriterLeft(w))

(* The top of runExclusiveSessionLifecycle's loop: wait for the mutations   *)
(* of w's identities, or queue for the first lock.                          *)
Attempts(w) ==
    IF w \in aborted THEN Fails(w)
    ELSE /\ UNCHANGED <<writerQueue, registered>>
         /\ IF Busy(Ids[w]) # {}
            THEN /\ phase' = [phase EXCEPT ![w] = "waiting"]
                 /\ waitsFor' = [waitsFor EXCEPT ![w] = Busy(Ids[w])]
                 /\ UNCHANGED lifecycleQueue
            ELSE /\ phase' = [phase EXCEPT ![w] = "locking"]
                 /\ lifecycleQueue' = Join(lifecycleQueue, w)
                 /\ UNCHANGED waitsFor

(* The caller has read the session it means to work on. *)
Begin(w) ==
    /\ phase[w] = "idle" /\ (w \in WriterOwned => AtWriter(w))
    /\ IF closed THEN Fails(w) ELSE Attempts(w)
    /\ expected' = [expected EXCEPT ![w] = version]
    /\ UNCHANGED <<mutationQueue, activeMutations, interrupted, told, handoff,
                   drainVars, aborted, closed, version, plan, sweeps>>

(* The idle promises have resolved, or the signal won the race. *)
StopsWaiting(w) ==
    /\ phase[w] = "waiting" /\ (waitsFor[w] = {} \/ w \in aborted)
    /\ Attempts(w)
    /\ UNCHANGED <<mutationQueue, activeMutations, interrupted, told, handoff,
                   drainVars, aborted, closed, storeVars>>

BlockedIgnored(w) == FALSE

(* A mutation became active while w queued for the locks. *)
Blocked(w) == Busy(Ids[w]) # {}

(* All identity locks are held: the check is made again under them. *)
EnterLocked(w) ==
    /\ w \in Work /\ phase[w] = "locking" /\ Holds(w, lifecycleQueue)
    /\ IF w \in aborted THEN Fails(w)
       ELSE /\ IF Blocked(w)
               THEN /\ phase' = [phase EXCEPT ![w] = "waiting"]
                    /\ waitsFor' = [waitsFor EXCEPT ![w] = Busy(Ids[w])]
                    /\ lifecycleQueue' = Leave(lifecycleQueue, w)
               ELSE /\ phase' = [phase EXCEPT ![w] = "asserting"]
                    /\ UNCHANGED <<waitsFor, lifecycleQueue>>
            /\ UNCHANGED <<writerQueue, registered>>
    /\ UNCHANGED <<mutationQueue, activeMutations, interrupted, told, handoff,
                   drainVars, aborted, closed, storeVars>>

(* What the callers' assertAllowed looks for. *)
Allowed(w) == \A i \in Ids[w] : version[i] = expected[w][i]

ClosedBeforeWait == FALSE
ClosedNow == closed

(* assertAllowed returns; the gateway may have closed meanwhile.  The work *)
(* is registered before it queues at the store writer, unless the writer   *)
(* is its own caller.                                                      *)
Register(w) ==
    /\ phase[w] = "asserting"
    /\ IF ~Allowed(w) \/ ClosedNow THEN Fails(w)
       ELSE /\ phase' = [phase EXCEPT ![w] = "barrier"]
            /\ registered' = registered \cup {w}
            /\ writerQueue' = IF AtWriter(w) THEN writerQueue
                              ELSE Append(writerQueue, w)
            /\ UNCHANGED <<waitsFor, lifecycleQueue>>
    /\ UNCHANGED <<mutationQueue, activeMutations, interrupted, told, handoff,
                   drainVars, aborted, closed, storeVars>>

(* The barrier task starts; from here an abort no longer interrupts it. *)
BarrierStarts(w) ==
    /\ phase[w] = "barrier" /\ AtWriter(w)
    /\ IF w \in aborted THEN Fails(w)
       ELSE /\ phase' = [phase EXCEPT ![w] = "revalidating"]
            /\ UNCHANGED <<lifecycleQueue, writerQueue, waitsFor, registered>>
    /\ UNCHANGED <<mutationQueue, activeMutations, interrupted, told, handoff,
                   drainVars, aborted, closed, storeVars>>

AbortedAtBarrier(w) ==
    /\ phase[w] = "barrier" /\ w \in aborted /\ ~AtWriter(w)
    /\ FailsAt(w, writerQueue)
    /\ UNCHANGED <<mutationQueue, activeMutations, interrupted, told, handoff,
                   drainVars, aborted, closed, storeVars>>

(* The task of an admission that gave up at the barrier throws at once. *)
AbandonedBarrier(w) ==
    /\ phase[w] = "failed" /\ AtWriter(w)
    /\ writerQueue' = Tail(writerQueue)
    /\ UNCHANGED <<phase, lifecycleQueue, mutationQueue, activeMutations,
                   waitsFor, leaseVars, drainVars, aborted, closed, storeVars>>

RevalidatedAlways(w) == TRUE
Revalidated(w) == Allowed(w)

Revalidate(w) ==
    /\ phase[w] = "revalidating"
    /\ IF ~Revalidated(w) THEN Fails(w)
       ELSE /\ phase' = [phase EXCEPT ![w] = "leased"]
            /\ lifecycleQueue' = Leave(lifecycleQueue, w)
            /\ writerQueue' = Tail(writerQueue)
            /\ UNCHANGED <<waitsFor, registered>>
    /\ UNCHANGED <<mutationQueue, activeMutations, interrupted, told, handoff,
                   drainVars, aborted, closed, storeVars>>

-----------------------------------------------------------------------------
(* The lease and its handoff *)

Running(w) == phase[w] = "leased"
OwnerOf(w) == IF handoff[w] = "adopted" THEN "adopter" ELSE "creator"

(* The turn awaits the mutation it started; an abort before activation     *)
(* returns to it while the mutation is still queued.                       *)
Suspended(w) ==
    \E m \in Mutation : /\ w \in InBand[m]
                        /\ phase[m] \notin {"idle", "done"}
                        /\ ~(m \in aborted /\ phase[m] \in {"queued", "activating"})

Release(w) ==
    /\ Running(w) /\ ~Suspended(w)
    /\ phase' = [phase EXCEPT ![w] = "released"]
    /\ registered' = registered \ {w}
    /\ UNCHANGED <<lockVars, activeMutations, waitsFor, interrupted, told,
                   handoff, drainVars, aborted, closed, storeVars>>

(* release by whoever owns the lease; the creator of a handoff that nobody *)
(* has adopted cancels it, which releases too.                             *)
CreateHandoff(w) ==
    /\ Running(w) /\ handoff[w] = "none"
    /\ handoff' = [handoff EXCEPT ![w] = "out"]
    /\ UNCHANGED <<phase, lockVars, activeMutations, waitsFor, registered,
                   interrupted, told, drainVars, aborted, closed, storeVars>>

ToldAtAdoption(w) ==
    told[w] \cup (IF w \in interrupted THEN {"adopter"} ELSE {})

(* consumeSessionWorkAdmissionHandoff by an RPC that names w's identities. *)
ConsumeHandoff(w) ==
    /\ Running(w) /\ handoff[w] = "out"
    /\ handoff' = [handoff EXCEPT ![w] = "adopted"]
    /\ told' = [told EXCEPT ![w] = ToldAtAdoption(w)]
    /\ UNCHANGED <<phase, lockVars, activeMutations, waitsFor, registered,
                   interrupted, drainVars, aborted, closed, storeVars>>

-----------------------------------------------------------------------------
(* runExclusiveSessionLifecycleMutation *)

unchangedByMutation == <<waitsFor, registered, handoff, aborted, closed>>

Start(m) ==
    /\ phase[m] = "idle" /\ \A w \in InBand[m] : Running(w)
    /\ IF m \in aborted
       THEN /\ phase' = [phase EXCEPT ![m] = "done"]
            /\ UNCHANGED mutationQueue
       ELSE /\ phase' = [phase EXCEPT ![m] = "queued"]
            /\ mutationQueue' = Join(mutationQueue, m)
    /\ UNCHANGED <<lifecycleQueue, writerQueue, activeMutations, interrupted,
                   told, drainVars, storeVars, unchangedByMutation>>

TakeMutationLock(m) ==
    /\ phase[m] = "queued" /\ AtTurn(m, mutationQueue)
    /\ IF Holds(m, mutationQueue)
       THEN /\ phase' = [phase EXCEPT ![m] = "activating"]
            /\ lifecycleQueue' = Join(lifecycleQueue, m)
            /\ UNCHANGED mutationQueue
       ELSE /\ mutationQueue' = Join(mutationQueue, m)
            /\ UNCHANGED <<phase, lifecycleQueue>>
    /\ UNCHANGED <<writerQueue, activeMutations, interrupted, told,
                   drainVars, storeVars, unchangedByMutation>>

(* Under all identity locks: the last moment an abort is heard. *)
Activate(m) ==
    /\ phase[m] = "activating" /\ Holds(m, lifecycleQueue)
    /\ lifecycleQueue' = Leave(lifecycleQueue, m)
    /\ IF m \in aborted
       THEN /\ phase' = [phase EXCEPT ![m] = "done"]
            /\ mutationQueue' = Leave(mutationQueue, m)
            /\ UNCHANGED activeMutations
       ELSE /\ phase' = [phase EXCEPT ![m] = "preparing"]
            /\ activeMutations' = [i \in Identity |->
                 activeMutations[i] + (IF i \in Ids[m] THEN 1 ELSE 0)]
            /\ UNCHANGED mutationQueue
    /\ UNCHANGED <<writerQueue, interrupted, told, drainVars, storeVars,
                   unchangedByMutation>>

Foreign(m) == {w \in registered \ InBand[m] : Ids[w] \cap Ids[m] # {}}

(* interruptSessionWorkAdmissions, up to the wait. *)
Interrupt(m) ==
    /\ phase[m] = "preparing"
    /\ phase' = [phase EXCEPT ![m] = "draining"]
    /\ targets' = [targets EXCEPT ![m] = Foreign(m)]
    /\ interrupted' = interrupted \cup Foreign(m)
    /\ told' = [w \in Work |-> IF w \in Foreign(m) THEN told[w] \cup {OwnerOf(w)}
                               ELSE told[w]]
    /\ UNCHANGED <<lockVars, activeMutations, drained, storeVars,
                   unchangedByMutation>>

ToRun(m) ==
    /\ phase' = [phase EXCEPT ![m] = "starting"]
    /\ lifecycleQueue' = Join(lifecycleQueue, m)

(* The finally: the locks are given back and taken again. *)
ToFinish(m) ==
    /\ phase' = [phase EXCEPT ![m] = "finishing"]
    /\ lifecycleQueue' = Join(Leave(lifecycleQueue, m), m)

(* prepare finds nothing to do, or throws, before it interrupts anyone:    *)
(* the session is locked, has changed or is no longer the caller's.        *)
PrepareEnds(m) ==
    /\ phase[m] = "preparing"
    /\ ToRun(m) \/ ToFinish(m)
    /\ UNCHANGED <<mutationQueue, writerQueue, activeMutations, interrupted,
                   told, drainVars, storeVars, unchangedByMutation>>

AllReleased(m) == targets[m] \cap registered = {}

Drained(m) ==
    /\ phase[m] = "draining" /\ AllReleased(m)
    /\ drained' = drained \cup {m}
    /\ ToRun(m)
    /\ UNCHANGED <<mutationQueue, writerQueue, activeMutations, interrupted,
                   told, targets, storeVars, unchangedByMutation>>

DrainWaits(m) == FALSE
DrainMayTimeOut(m) == ~AllReleased(m)

(* Reset and delete go on and find the work still active, a rollover       *)
(* throws.                                                                 *)
DrainTimesOut(m) ==
    /\ phase[m] = "draining" /\ DrainMayTimeOut(m)
    /\ ToRun(m) \/ ToFinish(m)
    /\ UNCHANGED <<mutationQueue, writerQueue, activeMutations, interrupted,
                   told, drainVars, storeVars, unchangedByMutation>>

(* The caller's run, under the identity locks. *)
Run(m) ==
    /\ phase[m] = "starting" /\ Holds(m, lifecycleQueue)
    /\ IF m \in drained
       THEN /\ phase' = [phase EXCEPT ![m] = "writing"]
            /\ writerQueue' = Append(writerQueue, m)
            /\ UNCHANGED lifecycleQueue
       ELSE /\ ToFinish(m)
            /\ UNCHANGED writerQueue
    /\ UNCHANGED <<mutationQueue, activeMutations, interrupted, told,
                   drainVars, storeVars, unchangedByMutation>>

(* It replaces the sessions, or fails; the turn that asked for it goes on  *)
(* with the new ones.                                                      *)
Commit(m) ==
    /\ phase[m] = "writing" /\ AtWriter(m)
    /\ writerQueue' = Tail(writerQueue)
    /\ ToFinish(m)
    /\ \/ /\ version' = [i \in Identity |->
                version[i] + (IF i \in Ids[m] THEN 1 ELSE 0)]
          /\ expected' = [w \in Work |-> IF w \in InBand[m] THEN version'
                                         ELSE expected[w]]
       \/ UNCHANGED <<version, expected>>
    /\ UNCHANGED <<mutationQueue, activeMutations, interrupted, told,
                   drainVars, plan, sweeps, unchangedByMutation>>

ResolvedWaits(m, w) == waitsFor[w] \ {i \in Ids[m] : activeMutations[i] = 1}

Finish(m) ==
    /\ phase[m] = "finishing" /\ Holds(m, lifecycleQueue)
    /\ phase' = [phase EXCEPT ![m] = "done"]
    /\ lifecycleQueue' = Leave(lifecycleQueue, m)
    /\ mutationQueue' = Leave(mutationQueue, m)
    /\ activeMutations' = [i \in Identity |->
         activeMutations[i] - (IF i \in Ids[m] THEN 1 ELSE 0)]
    /\ waitsFor' = [w \in Work |-> ResolvedWaits(m, w)]
    /\ UNCHANGED <<writerQueue, leaseVars, drainVars, aborted, closed, storeVars>>

-----------------------------------------------------------------------------
(* The store's own maintenance, the signals and the gateway *)

QueueMaintenance ==
    /\ sweeps < MaxMaintenance /\ Sweep \notin ToSet(writerQueue)
    /\ sweeps' = sweeps + 1
    /\ writerQueue' = Append(writerQueue, Sweep)
    /\ UNCHANGED <<phase, lifecycleQueue, mutationQueue, activeMutations,
                   waitsFor, leaseVars, drainVars, aborted, closed, version,
                   expected, plan>>

PreservesNothing == {}
ActiveIdentities == UNION {Ids[w] : w \in registered}

(* It notes which sessions are in use, prunes another, and awaits the      *)
(* clean-up of files before it commits and leaves the writer.              *)
PlanMaintenance ==
    /\ AtWriter(Sweep) /\ plan = {}
    /\ plan' = {ActiveIdentities}
    /\ UNCHANGED <<phase, lockVars, activeMutations, waitsFor, leaseVars,
                   drainVars, aborted, closed, version, expected, sweeps>>

CommitMaintenance ==
    /\ \E kept \in plan :
         \/ version' = version
         \/ \E i \in Identity \ kept : version' = [version EXCEPT ![i] = @ + 1]
    /\ plan' = {}
    /\ writerQueue' = Tail(writerQueue)
    /\ UNCHANGED <<phase, lifecycleQueue, mutationQueue, activeMutations,
                   waitsFor, leaseVars, drainVars, aborted, closed, expected,
                   sweeps>>

Abort(p) ==
    /\ p \in Abortable \ aborted /\ phase[p] \notin Over
    /\ aborted' = aborted \cup {p}
    /\ UNCHANGED <<phase, lockVars, activeMutations, waitsFor, leaseVars,
                   drainVars, closed, storeVars>>

GatewayTurns ==
    /\ closed' = ~closed
    /\ UNCHANGED <<phase, lockVars, activeMutations, waitsFor, leaseVars,
                   drainVars, aborted, storeVars>>

WorkStep(w) ==
    \/ Begin(w) \/ StopsWaiting(w) \/ EnterLocked(w) \/ Register(w)
    \/ BarrierStarts(w) \/ AbortedAtBarrier(w) \/ AbandonedBarrier(w)
    \/ Revalidate(w) \/ TakeLifecycleLock(w)
MutationStep(m) ==
    \/ TakeMutationLock(m) \/ TakeLifecycleLock(m) \/ Activate(m)
    \/ PrepareEnds(m) \/ Interrupt(m) \/ Drained(m) \/ DrainTimesOut(m)
    \/ Run(m) \/ Commit(m) \/ Finish(m)

Next ==
    \/ \E w \in Work : \/ EnterWriter(w) \/ WorkStep(w) \/ Release(w)
                       \/ CreateHandoff(w) \/ ConsumeHandoff(w)
    \/ \E m \in Mutation : Start(m) \/ MutationStep(m)
    \/ QueueMaintenance \/ PlanMaintenance \/ CommitMaintenance
    \/ \E p \in Proc : Abort(p)
    \/ GatewayTurns

(* Promises settle, timers fire and callbacks return.  Nothing makes work  *)
(* release its lease: a turn may run for ever.                             *)
Fairness ==
    /\ \A w \in Work : WF_vars(WorkStep(w))
    /\ \A m \in Mutation : WF_vars(MutationStep(m))
    /\ WF_vars(PlanMaintenance) /\ WF_vars(CommitMaintenance)

Spec == Init /\ [][Next]_vars
FairSpec == Spec /\ Fairness

-----------------------------------------------------------------------------
Queued(q) == \A i \in Identity : q[i] \in Seq(Proc) /\ IsInjective(q[i])

(* Each process is where it can be, the queues hold nobody twice, and the  *)
(* counters stay within the mutations there are.                           *)
TypeOK ==
    /\ phase \in [Proc -> {"idle", "waiting", "locking", "asserting",
                           "barrier", "revalidating", "leased", "queued",
                           "activating", "preparing", "draining", "starting",
                           "writing", "finishing"} \cup Over]
    /\ Queued(lifecycleQueue) /\ Queued(mutationQueue)
    /\ writerQueue \in Seq(Proc \cup {Sweep}) /\ IsInjective(writerQueue)
    /\ activeMutations \in [Identity -> 0..Cardinality(Mutation)]
    /\ waitsFor \in [Work -> SUBSET Identity]
    /\ registered \subseteq Work /\ interrupted \subseteq Work
    /\ told \in [Work -> SUBSET Owner]
    /\ handoff \in [Work -> {"none", "out", "adopted"}]
    /\ targets \in [Mutation -> SUBSET Work] /\ drained \subseteq Mutation
    /\ aborted \subseteq Proc /\ closed \in BOOLEAN
    /\ version \in [Identity -> Nat] /\ expected \in [Work -> [Identity -> Nat]]
    /\ plan \in SUBSET (SUBSET Identity) /\ Cardinality(plan) <= 1
    /\ sweeps \in 0..MaxMaintenance

(* While work holds its lease, nobody changes its session behind its back: *)
(* no reset, delete or rollover but the one its own turn started, and no   *)
(* store maintenance (session-lifecycle-admission.ts:460).                 *)
LeaseIsCurrent == \A w \in Work : Running(w) => Allowed(w)

(* Past a successful drain a mutation is alone: no other mutation of its   *)
(* identities is active, and no work but its own caller's is registered,   *)
(* however late that work came (session-lifecycle-admission.ts:178).       *)
RunsAlone ==
    \A m \in drained : phase[m] \in {"starting", "writing"} =>
        /\ Foreign(m) = {}
        /\ \A i \in Ids[m] : activeMutations[i] = 1

(* Work that waits for identities to become idle waits for a mutation that *)
(* is still active: no wake-up was missed (:256).                          *)
NoMissedIdle == \A w \in Work : \A i \in waitsFor[w] : activeMutations[i] > 0

(* The interrupt of an admission reaches whoever runs the work, also when  *)
(* the lease changes hands after it (session-work-admission-handoff.ts:71).*)
InterruptReachesOwner ==
    \A w \in interrupted : Running(w) => OwnerOf(w) \in told[w]

(* No work is registered while the gateway is closed, although it was open *)
(* when the work began (:386).                                             *)
ClosedAdmitsNothing == [][closed => registered' \subseteq registered]_vars

(* The writer does not wait for work queued behind itself: work that a     *)
(* writer callback begins finds its locks free, or held by somebody who    *)
(* does not need the writer (:469).                                        *)
WriterNotBehindItself ==
    \A w \in WriterOwned : AtWriter(w) =>
        \A p \in Proc \ {w} :
            p \in ToSet(writerQueue) => \A i \in Ids[w] :
                ~(w \in ToSet(lifecycleQueue[i]) /\ Head(lifecycleQueue[i]) = p)

(* Nobody is on the way: no mutation has started and not ended, and every  *)
(* beginSessionWorkAdmission that was called has returned or thrown.       *)
EverybodySettled == \A p \in Proc : phase[p] \in {"idle", "leased"} \cup Over

(* A mutation ends also when the work it drains never releases its lease   *)
(* or waits for the mutation itself (:280), and no begin waits for ever.   *)
EverybodySettles == ~EverybodySettled ~> EverybodySettled

(* A lease is good while it is held: the session below it is the one that  *)
(* was checked, and an interrupt finds the holder                          *)
(* (session-lifecycle-admission.ts:460).                                   *)
LeaseInv == TypeOK /\ LeaseIsCurrent /\ InterruptReachesOwner

(* A mutation is alone, and its end is seen by all who wait for it         *)
(* (session-lifecycle-admission.ts:178, :256).                             *)
MutationInv == RunsAlone /\ NoMissedIdle
=============================================================================
