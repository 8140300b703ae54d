----------------------------- MODULE GatewayWork -----------------------------
(***************************************************************************)
(* Command lanes and root work admission together: who may enqueue behind  *)
(* which fence, and in which root a lane task runs.                        *)
(*                                                                         *)
(* enqueueCommandInLane asks isGatewaySubordinateWorkAdmissionClosed in the*)
(* caller's chain; a lane task is itself a chain, so it may enqueue too.   *)
(* AsyncLocalStorage hands a promise reaction the store of the code that   *)
(* registered it: pump starts a task with Promise.resolve().then(task), so *)
(* the task runs in the root of whoever pumps the lane - the enqueuing     *)
(* caller if the lane is free, otherwise the continuation of the task that *)
(* freed the slot - and not in the root of whoever enqueued it.            *)
(***************************************************************************)
EXTENDS Integers, Sequences, FiniteSets

CONSTANTS
    Lane, ProbeLane, MaxEntries, MaxConcurrency, MaxLaneGeneration,
    TimeoutChoice,
    Caller,   \* chains that are not lane tasks
    MaxRoots, MaxRetains, MaxAdmissionGeneration

(* The bounds are numbers. *)
ASSUME GatewayWorkConstants == MaxEntries \in Nat /\ MaxRoots \in Nat

VARIABLES
    lanes, queue, activeTaskIds, maxConcurrent, generation, nextQueueSequence,
    entry, startGeneration, body, promise, waiter,
    restartDraining, restartSignalPending, restartSignalGeneration,
    suspendPhase, suspendGeneration, suspendInvalidated,
    activeRootWork, references, released, lease, nextRoot, nextLease,
    currentRootWork, chain, suspendOpenWaiters, signalLeases, suspendLeases,
    rootDrainWaiters, drainCall,
    pumpRoot,      \* pumpRoot[e]: the store task e's lane continuation runs in
    enqueueRoot    \* history: the live root that enqueued e, 0: none

queueVars == <<lanes, queue, activeTaskIds, maxConcurrent, generation,
               nextQueueSequence, entry, startGeneration, body, promise, waiter>>
admissionRest == <<restartDraining, restartSignalPending,
                   restartSignalGeneration, suspendPhase, suspendGeneration,
                   suspendInvalidated, activeRootWork, references, released,
                   lease, nextRoot, nextLease, suspendOpenWaiters,
                   signalLeases, suspendLeases, rootDrainWaiters, drainCall>>
workVars == <<queueVars, admissionRest, currentRootWork, chain, pumpRoot,
          enqueueRoot>>

Task == 1..MaxEntries

Queue == INSTANCE CommandQueue WITH
            Waiter <- {}, MaxGeneration <- MaxLaneGeneration
Admission == INSTANCE WorkAdmission WITH
            Chain <- Caller \cup Task, DrainWaiter <- {},
            MaxGeneration <- MaxAdmissionGeneration

-----------------------------------------------------------------------------
WorkInit ==
    /\ Queue!Init
    /\ Admission!Init
    /\ pumpRoot = [e \in Task |-> 0]
    /\ enqueueRoot = [e \in Task |-> 0]

(* The tasks this step starts begin as chains in root r, the store of the *)
(* pump's caller; the tasks in ended are over.                            *)
TasksRunIn(r, ended) ==
    LET started == {e \in Task : body[e] = "unstarted" /\ body'[e] = "running"}
    IN  /\ pumpRoot' = [e \in Task |-> IF e \in started THEN r
                                       ELSE pumpRoot[e]]
        /\ currentRootWork' = [c \in Caller \cup Task |->
                CASE c \in started -> r
                  [] c \in ended -> 0
                  [] OTHER -> currentRootWork[c]]
        /\ chain' = [c \in Caller \cup Task |->
                CASE c \in started -> "running"
                  [] c \in ended -> "free"
                  [] OTHER -> chain[c]]

(* Chain c, a request or a lane task, enqueues a command of normal        *)
(* priority: priorities play no part here.                                *)
Enqueue(c, l, timed) ==
    /\ chain[c] = "running"
    /\ Queue!EnqueueCommandInLane(l, 0, timed,
            Admission!IsGatewaySubordinateWorkAdmissionClosed(c))
    /\ TasksRunIn(currentRootWork[c], {})
    /\ enqueueRoot' = [enqueueRoot EXCEPT ![nextQueueSequence] =
            IF Admission!HasLiveRoot(c) THEN currentRootWork[c] ELSE 0]
    /\ UNCHANGED admissionRest

(* A lane task settles or times out; its continuation pumps the lane. *)
TaskSettles(e) ==
    /\ chain[e] = "running"
    /\ Queue!TaskSettles(e)
    /\ TasksRunIn(pumpRoot[e], {e})
    /\ UNCHANGED <<admissionRest, enqueueRoot>>

TaskTimesOut(e) ==
    /\ Queue!TaskTimesOut(e)
    /\ TasksRunIn(pumpRoot[e], {})
    /\ UNCHANGED <<admissionRest, enqueueRoot>>

LateSettle(e) ==
    /\ chain[e] = "running"
    /\ Queue!LateSettle(e)
    /\ TasksRunIn(0, {e})
    /\ UNCHANGED <<admissionRest, enqueueRoot>>

(* Stuck-session recovery resets a lane, outside any root.  (Limits and   *)
(* clears do not matter here and stay with CommandQueue.)                 *)
StuckLaneReset(l) ==
    /\ Queue!ResetCommandLane(l)
    /\ TasksRunIn(0, {})
    /\ UNCHANGED <<admissionRest, enqueueRoot>>

(* resetAllLanes of the in-process restart resets admission first. *)
InProcessRestart ==
    /\ restartDraining
    /\ Admission!ResetAdmissionState
    /\ Queue!ResetAllLanes
    /\ TasksRunIn(0, {})
    /\ UNCHANGED enqueueRoot

(* Requests are admitted and released; a request or a lane task detaches  *)
(* follow-up work.                                                        *)
AdmissionStep ==
    /\ \/ \E c \in Caller : \/ Admission!ChainArrives(c)
                             \/ Admission!ChainEnds(c)
                             \/ Admission!TryBeginGatewayRootWorkAdmission(c)
                             \/ Admission!AdmissionRetries(c)
       \/ \E c \in Caller \cup Task, d \in Caller :
             Admission!RunWithGatewayIndependentRootWorkContinuation(c, d)
       \/ \E i \in Admission!Lease : Admission!ReleaseRootWork(i)
    /\ UNCHANGED <<queueVars, pumpRoot, enqueueRoot>>

(* The fences open and close. *)
FenceStep ==
    /\ \/ Admission!MarkGatewayRestartDraining
       \/ Admission!TryBeginGatewaySuspendAdmission
       \/ \E g \in suspendLeases : \/ Admission!CommitSuspend(g)
                                   \/ Admission!RollbackSuspend(g)
                                   \/ Admission!ReleaseSuspend(g)
    /\ UNCHANGED <<queueVars, pumpRoot, enqueueRoot>>

WorkNext ==
    \/ \E c \in Caller \cup Task, l \in Lane, timed \in TimeoutChoice :
          Enqueue(c, l, timed)
    \/ \E e \in Task : TaskSettles(e) \/ TaskTimesOut(e) \/ LateSettle(e)
    \/ \E l \in Lane : StuckLaneReset(l)
    \/ InProcessRestart
    \/ AdmissionStep
    \/ FenceStep

WorkSpec == WorkInit /\ [][WorkNext]_workVars

-----------------------------------------------------------------------------
(* Properties *)

(* A drained gateway takes no lane work: behind a closed fence of any kind*)
(* and with no root active, no chain can enqueue, be it one that outlived *)
(* its root or a lane task still unwinding after its timeout.             *)
DrainedTakesNoLaneWork ==
    [][Admission!IsGatewayWorkAdmissionClosed /\ activeRootWork = {}
       => nextQueueSequence' = nextQueueSequence]_workVars

(* "Existing admitted roots may finish spawning subordinate               *)
(* command/session work" (isGatewaySubordinateWorkAdmissionClosed): a lane*)
(* task whose enqueuer is still an admitted root is not refused, at least *)
(* while every fence is open.                                             *)
AdmittedTaskMaySpawn ==
    \A e \in Task :
        /\ body[e] = "running"
        /\ enqueueRoot[e] # 0 /\ ~released[enqueueRoot[e]]
        /\ ~Admission!IsGatewayWorkAdmissionClosed
        => ~Admission!IsGatewaySubordinateWorkAdmissionClosed(e)
=============================================================================
