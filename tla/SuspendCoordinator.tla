------------------------- MODULE SuspendCoordinator -------------------------
(***************************************************************************)
(* The host suspension coordinator                                         *)
(* (src/src/infra/gateway-suspend-coordinator.ts) on top of root work      *)
(* admission: it closes the suspension fence, pauses the cron scheduler,   *)
(* inspects the process and either rolls back or holds the idle fence until*)
(* it is resumed, expires, or a restart supersedes it.                     *)
(*                                                                         *)
(* All of its calls are synchronous.  Time is abstract: a lease may be past*)
(* its expiry in any call, and an armed timer may fire at any moment.  The *)
(* scheduler's resume may throw.                                           *)
(***************************************************************************)
EXTENDS WorkAdmission

CONSTANT Request   \* requestId values

VARIABLES
    current,    \* COORDINATOR_STATE.current
    scheduler   \* external: the cron scheduler, "running" or "paused"

suspendVars == <<vars, current, scheduler>>

(* owner: the suspension generation of the admission lease; reopen: the   *)
(* lease operation reopenAdmission is bound to; suspensionId: a fresh     *)
(* UUID, here the generation; root: history, the root prepare ran in.     *)
NoEntry == [kind |-> "none", owner |-> 0, reopen |-> "none",
            requestId |-> "none", root |-> 0, timer |-> FALSE]

Held(g, req, r) ==
    [kind |-> "held", owner |-> g, reopen |-> "release", requestId |-> req,
     root |-> r, timer |-> TRUE]

RecoveringWithoutRetry(g, reopen) ==
    [NoEntry EXCEPT !.kind = "recovering", !.owner = g, !.reopen = reopen]

(* enterSchedulerRecovery and armSchedulerRecovery: with its retry timer  *)
(* (scheduleRecoveryRetry).                                               *)
Recovering(g, reopen) ==
    [NoEntry EXCEPT !.kind = "recovering", !.owner = g, !.reopen = reopen,
                    !.timer = TRUE]

(* The phase from which the lease operation bound to an entry applies. *)
PhaseOf(reopen) == IF reopen = "release" THEN "prepared" ELSE "preparing"

SuspendInit ==
    /\ Init
    /\ current = NoEntry
    /\ scheduler = "running"

-----------------------------------------------------------------------------
(* resumeAndReopen on the current entry.  resumed tells whether           *)
(* resumeScheduling returned; only then is the fence opened, and only if  *)
(* the entry's lease still applies is the entry dropped.                  *)
ResumeAndReopenOutOfOrder(resumed) ==
    /\ TransitionSuspend(current.owner, PhaseOf(current.reopen), "accepting")
    /\ current' = IF resumed THEN NoEntry
                  ELSE Recovering(current.owner, current.reopen)
    /\ scheduler' = IF resumed THEN "running" ELSE scheduler

ResumeAndReopen(resumed) ==
    /\ scheduler' = IF resumed THEN "running" ELSE scheduler
    /\ IF resumed /\ TransitionApplies(current.owner, PhaseOf(current.reopen))
       THEN /\ TransitionSuspend(current.owner, PhaseOf(current.reopen),
                                 "accepting")
            /\ current' = NoEntry
       ELSE /\ current' = Recovering(current.owner, current.reopen)
            /\ UNCHANGED vars

(* The expiry timer of a held lease, or the retry timer of a recovery. *)
TimerFires(resumed) ==
    /\ current.timer
    /\ ResumeAndReopen(resumed)

(* resumeGatewaySuspend with the held suspension's id, or any call that   *)
(* finds the held lease expired (normalizeExpiredHeldSuspension in        *)
(* resume and status).  Every other call of the two changes nothing.      *)
ResumeGatewaySuspend(resumed) ==
    /\ current.kind = "held"
    /\ ResumeAndReopen(resumed)

(* A gateway.suspend.prepare request arrives: it owns a root if admission *)
(* is open, and is let through without one if it is closed.               *)
PrepareRequestArrives(c) ==
    /\ chain[c] = "free"
    /\ chain' = [chain EXCEPT ![c] = "suspending"]
    /\ IF IsGatewayWorkAdmissionClosed
       THEN UNCHANGED <<rootVars, currentRootWork>>
       ELSE CreateRootFor(c)
    /\ UNCHANGED <<fenceVars, suspendOpenWaiters, leaseVars, drainVars,
                   current, scheduler>>

(* What prepareGatewaySuspend leaves behind once it has begun a new lease.*)
(* refused: active work or an error, the scheduler is resumed and the     *)
(* fence rolled back; stuck: refused, but resuming the scheduler threw, so*)
(* the fence stays closed for the retry; stuckCommitted: the same, after  *)
(* an error that came once the lease was committed; ready: the idle fence *)
(* is held.                                                               *)
LeaseOutcome(c, req, outcome) ==
    LET g == suspendGeneration + 1
    IN  /\ suspendGeneration' = g
        /\ suspendLeases' = suspendLeases \cup {g}
        /\ suspendPhase' = CASE outcome = "refused" -> "accepting"
                             [] outcome = "stuck" -> "preparing"
                             [] OTHER -> "prepared"
        /\ suspendInvalidated' = IF outcome = "refused" THEN 0 ELSE g
        /\ scheduler' = IF outcome = "refused" THEN "running" ELSE "paused"
        /\ current' = CASE outcome = "refused" -> NoEntry
                        [] outcome = "stuck" -> Recovering(g, "rollback")
                        [] outcome = "stuckCommitted" ->
                               Recovering(g, "release")
                        [] outcome = "ready" ->
                               Held(g, req, currentRootWork[c])

(* createGatewayActiveWorkSnapshot(...).idle: otherWork stands for the    *)
(* counts that come from outside root admission.                          *)
IdleIgnoringRoots(c, otherWork) == ~otherWork

Idle(c, otherWork) == ActiveRootsExcept(c) = {} /\ ~otherWork

(* prepareGatewaySuspend in chain c.  An expired held lease is released   *)
(* first (if the scheduler resumes) and a new one begun in the same call. *)
(* A recovery in progress, a live lease (renewed or in conflict) and a    *)
(* fence closed by a restart leave everything as it is.                   *)
PrepareGatewaySuspend(c, req, expired, otherWork, outcome) ==
    /\ chain[c] = "suspending"
    /\ suspendGeneration < MaxGeneration
    /\ \/ current.kind = "none"
       \/ current.kind = "held" /\ expired
             /\ TransitionApplies(current.owner, PhaseOf(current.reopen))
    /\ ~IsGatewayRestartDraining
    /\ outcome \in {"ready", "stuckCommitted"} => Idle(c, otherWork)
    /\ chain' = [chain EXCEPT ![c] = "responding"]
    /\ LeaseOutcome(c, req, outcome)
    /\ IF current.kind = "held" \/ outcome = "refused"
       THEN ResolveSuspendOpenWaiters ELSE UNCHANGED suspendOpenWaiters
    /\ UNCHANGED <<restartDraining, restartSignalPending,
                   restartSignalGeneration, rootVars, currentRootWork,
                   signalLeases, drainVars>>

(* prepareGatewaySuspend finds the held lease expired, and the scheduler  *)
(* does not resume, or a restart signal keeps the new lease from being    *)
(* begun.                                                                 *)
PrepareFindsExpired(c, resumed) ==
    /\ chain[c] = "suspending"
    /\ current.kind = "held"
    /\ resumed => IsGatewayRestartDraining
    /\ ResumeAndReopen(resumed)

(* The request is answered; its root is released by its lease. *)
PrepareRequestEnds(c) ==
    /\ chain[c] \in {"suspending", "responding"}
    /\ chain' = [chain EXCEPT ![c] = "free"]
    /\ currentRootWork' = [currentRootWork EXCEPT ![c] = 0]
    /\ UNCHANGED <<fenceVars, rootVars, suspendOpenWaiters, leaseVars,
                   drainVars, current, scheduler>>

(* The callback given to tryBeginGatewaySuspendAdmission: a restart drops *)
(* the entry and its timer without touching the scheduler.                *)
OnInvalidatedIgnored == UNCHANGED current

OnInvalidated ==
    current' = IF suspendPhase # "accepting" /\ current.kind # "none"
                  /\ current.owner = suspendInvalidated
               THEN NoEntry ELSE current

RestartDrains ==
    /\ MarkGatewayRestartDraining
    /\ OnInvalidated
    /\ UNCHANGED scheduler

(* The in-process restart: admission is reset, and the next server starts *)
(* with a scheduler of its own.                                           *)
InProcessRestart ==
    /\ restartDraining
    /\ ResetGatewayWorkAdmission
    /\ OnInvalidated
    /\ scheduler' = "running"

SuspendNext ==
    \/ (WorkNext \/ BeginGatewayRestartSignalAdmission
          \/ \E g \in signalLeases : RollbackRestartSignal(g))
         /\ UNCHANGED <<current, scheduler>>
    \/ RestartDrains
    \/ InProcessRestart
    \/ \E resumed \in BOOLEAN :
         \/ TimerFires(resumed)
         \/ ResumeGatewaySuspend(resumed)
         \/ \E c \in Chain : PrepareFindsExpired(c, resumed)
    \/ \E c \in Chain :
         \/ PrepareRequestArrives(c)
         \/ PrepareRequestEnds(c)
         \/ \E req \in Request, expired, otherWork \in BOOLEAN,
               outcome \in {"refused", "stuck", "stuckCommitted", "ready"} :
                  PrepareGatewaySuspend(c, req, expired, otherWork, outcome)

SuspendSpec == SuspendInit /\ [][SuspendNext]_suspendVars

(* An armed timer fires in the end, and the scheduler does not fail to    *)
(* resume for ever; the host does not renew its lease for ever.  A         *)
(* resolved promise is followed by its microtask.                          *)
SuspendFairSpec ==
    /\ SuspendSpec
    /\ WF_suspendVars(TimerFires(TRUE))
    /\ \A c \in Chain :
          WF_suspendVars(AdmissionRetries(c) /\ UNCHANGED <<current, scheduler>>)

-----------------------------------------------------------------------------
(* Properties *)

(* The coordinator's state has its shape, and an entry always has a timer. *)
SuspendTypeOK ==
    /\ current.kind \in {"none", "held", "recovering"}
    /\ current.owner \in Nat
    /\ current.reopen \in {"none", "release", "rollback"}
    /\ current.timer = (current.kind # "none")
    /\ scheduler \in {"running", "paused"}

(* Between two calls the suspension fence is closed exactly while the     *)
(* coordinator has an entry for it, with the lease of the present         *)
(* generation, in the phase its reopenAdmission expects: the gateway is   *)
(* never left closed with nobody to reopen it, and reopening never fails. *)
NoOrphanFence ==
    IF current.kind = "none" THEN suspendPhase = "accepting"
    ELSE /\ suspendPhase = PhaseOf(current.reopen)
         /\ suspendGeneration = current.owner
         /\ current.owner \in suspendLeases

(* Fail closed: the gateway never accepts work while its scheduler is     *)
(* still paused, however often resuming it throws                         *)
(* (resumeSchedulingBeforeReopen, resumeAndReopen).                       *)
FailClosed == scheduler = "paused" => IsGatewayWorkAdmissionClosed

(* No retry of an earlier suspension resumes the scheduler under a newer  *)
(* lease: while an entry exists the scheduler is paused.                  *)
NoResumeUnderLease == current.kind # "none" => scheduler = "paused"

(* The scheduler, the coordinator's entry with its timer and the fence go *)
(* together: paused from the first to the last of them, and never paused  *)
(* with work admitted (gateway-suspend-coordinator.ts:100-195).           *)
SchedulerInv == SuspendTypeOK /\ FailClosed /\ NoResumeUnderLease

(* "ready" stays true: while the lease is held, no root is active but the *)
(* one that prepare itself ran in, although work that was already admitted*)
(* may cross the fence.                                                   *)
QuietWhileHeld ==
    current.kind = "held" => activeRootWork \subseteq {current.root}

(* A suspended gateway reopens, or a restart takes over. *)
SuspensionEnds == current.kind # "none" ~> current.kind = "none"

(* A suspension ends and what waited for the fence goes on: a gateway that *)
(* a host suspended, and then forgot, takes work again                     *)
(* (gateway-suspend-coordinator.ts:121-205).                               *)
GatewayComesBack == SuspensionEnds /\ OpenWaitersProceed
=============================================================================
