---------------------------- MODULE WorkAdmission ----------------------------
(***************************************************************************)
(* Process-wide root work admission and its three fences: restart drain,   *)
(* pending restart signal and reversible host suspension                   *)
(* (src/src/process/gateway-work-admission.ts).                            *)
(*                                                                         *)
(* A chain is an asynchronous call chain, the unit AsyncLocalStorage hands *)
(* its store to; currentRootWork[c] is what getStore() returns in it.  An  *)
(* action is one synchronous stretch of code.  Leases outlive the calls    *)
(* that made them: any lease handed out may be used at any later time.     *)
(***************************************************************************)
EXTENDS Naturals, FiniteSets

CONSTANTS
    Chain,          \* asynchronous call chains
    DrainWaiter,    \* one element per call of waitForActiveGatewayRootWork
    MaxRoots,       \* bound: root admissions ever created
    MaxRetains,     \* bound: retained continuations ever created
    MaxGeneration   \* bound: restart signals, drains and suspensions begun

ASSUME AdmissionBounds ==
    /\ MaxRoots \in Nat /\ MaxRetains \in Nat /\ MaxGeneration \in Nat
    /\ IsFiniteSet(Chain)

VARIABLES
    restartDraining, restartSignalPending, restartSignalGeneration,
    suspendPhase, suspendGeneration,
    suspendInvalidated,  \* generation whose callback is registered, 0: none
    activeRootWork,      \* roots admitted and not released
    references,          \* references[r]
    released,            \* released[r]
    lease,               \* lease[i]: a release closure
    nextRoot, nextLease,
    currentRootWork,     \* currentRootWork[c]: root of chain c, 0: none
    chain,               \* chain[c]: what chain c is doing
    suspendOpenWaiters,  \* chains whose promise waits for an open fence
    signalLeases,        \* generations of the restart signal leases made
    suspendLeases,       \* generations of the suspension leases made
    rootDrainWaiters,    \* registered calls of waitForActiveGatewayRootWork
    drainCall            \* drainCall[w]: progress of that call

fenceVars == <<restartDraining, restartSignalPending, restartSignalGeneration,
               suspendPhase, suspendGeneration, suspendInvalidated>>
rootVars == <<activeRootWork, references, released, lease, nextRoot, nextLease>>
chainVars == <<currentRootWork, chain>>
leaseVars == <<signalLeases, suspendLeases>>
drainVars == <<rootDrainWaiters, drainCall>>
vars == <<fenceVars, rootVars, chainVars, suspendOpenWaiters, leaseVars,
          drainVars>>

Root == 1..MaxRoots
Lease == 1..(MaxRoots + MaxRetains)
Phase == {"accepting", "preparing", "prepared"}

(* free: not executing; running; in the loop of                           *)
(* beginGatewayRootWorkAdmissionWhenOpen, or of                           *)
(* runWithGatewayIndependentRootWorkAdmission; before and after           *)
(* prepareGatewaySuspend in a gateway.suspend.prepare request, which      *)
(* SuspendCoordinator models                                              *)
ChainState == {"free", "running", "openingRoot", "openingIndependent",
               "suspending", "responding"}

-----------------------------------------------------------------------------
(* Queries *)

IsGatewayRestartDraining == restartDraining \/ restartSignalPending

(* isGatewayWorkAdmissionClosed *)
IsGatewayWorkAdmissionClosed ==
    IsGatewayRestartDraining \/ suspendPhase # "accepting"

(* isGatewaySubordinateWorkAdmissionClosed, called in chain c: a live root*)
(* crosses the suspension fence, a released one is shut out.              *)
SubordinateClosedIgnoringRelease(c) ==
    \/ IsGatewayRestartDraining
    \/ currentRootWork[c] = 0 /\ suspendPhase # "accepting"

IsGatewaySubordinateWorkAdmissionClosed(c) ==
    \/ IsGatewayRestartDraining
    \/ IF currentRootWork[c] # 0 THEN released[currentRootWork[c]]
       ELSE suspendPhase # "accepting"

(* Chain c runs inside a root that is not released. *)
HasAnyRoot(c) == currentRootWork[c] # 0

HasLiveRoot(c) == currentRootWork[c] # 0 /\ ~released[currentRootWork[c]]

(* getActiveGatewayRootWorkCount({excludeCurrent: true}) in chain c *)
ActiveRootsExcept(c) ==
    activeRootWork \ (IF HasLiveRoot(c) THEN {currentRootWork[c]} ELSE {})

-----------------------------------------------------------------------------
(* Steps of the calls below *)

(* createGatewayRootWorkAdmission, whose run() then executes in chain c *)
CreateRootFor(c) ==
    /\ nextRoot <= MaxRoots
    /\ nextRoot' = nextRoot + 1
    /\ nextLease' = nextLease + 1
    /\ references' = [references EXCEPT ![nextRoot] = 1]
    /\ activeRootWork' = activeRootWork \cup {nextRoot}
    /\ lease' = [lease EXCEPT ![nextLease] =
                    [root |-> nextRoot, released |-> FALSE]]
    /\ currentRootWork' = [currentRootWork EXCEPT ![c] = nextRoot]
    /\ UNCHANGED released

(* resolveSuspendOpenWaiters: the promises resolve, the loops go round in *)
(* a later microtask.                                                     *)
ResolveSuspendOpenWaitersNot == UNCHANGED suspendOpenWaiters

ResolveSuspendOpenWaiters == suspendOpenWaiters' = {}

(* resolveRootDrainWaiters *)
ResolveRootDrainWaitersKeep == UNCHANGED <<rootDrainWaiters, drainCall>>

ResolveRootDrainWaiters ==
    /\ rootDrainWaiters' = {}
    /\ drainCall' = [w \in DrainWaiter |->
                        IF w \in rootDrainWaiters /\ drainCall[w] = "awaiting"
                        THEN "resolved" ELSE drainCall[w]]

(* One round of the admission loop in chain c; independent admissions     *)
(* ignore the root c already runs in.  A restart drain throws out of it.  *)
AdmissionRound(c, opening) ==
    \/ /\ restartDraining
       /\ chain' = [chain EXCEPT ![c] = "running"]
       /\ UNCHANGED <<rootVars, currentRootWork, suspendOpenWaiters>>
    \/ /\ ~restartDraining
       /\ opening = "openingRoot" /\ HasLiveRoot(c)
       /\ chain' = [chain EXCEPT ![c] = "running"]
       /\ UNCHANGED <<rootVars, currentRootWork, suspendOpenWaiters>>
    \/ /\ ~IsGatewayWorkAdmissionClosed
       /\ opening = "openingRoot" => ~HasLiveRoot(c)
       /\ CreateRootFor(c)
       /\ chain' = [chain EXCEPT ![c] = "running"]
       /\ UNCHANGED suspendOpenWaiters
    \/ /\ IsGatewayWorkAdmissionClosed /\ ~restartDraining
       /\ opening = "openingRoot" => ~HasLiveRoot(c)
       /\ suspendOpenWaiters' = suspendOpenWaiters \cup {c}
       /\ chain' = [chain EXCEPT ![c] = opening]
       /\ UNCHANGED <<rootVars, currentRootWork>>

-----------------------------------------------------------------------------
Init ==
    /\ restartDraining = FALSE /\ restartSignalPending = FALSE
    /\ restartSignalGeneration = 0
    /\ suspendPhase = "accepting" /\ suspendGeneration = 0
    /\ suspendInvalidated = 0
    /\ activeRootWork = {}
    /\ references = [r \in Root |-> 0]
    /\ released = [r \in Root |-> FALSE]
    /\ lease = [i \in Lease |-> [root |-> 0, released |-> FALSE]]
    /\ nextRoot = 1 /\ nextLease = 1
    /\ currentRootWork = [c \in Chain |-> 0]
    /\ chain = [c \in Chain |-> "free"]
    /\ suspendOpenWaiters = {}
    /\ signalLeases = {} /\ suspendLeases = {}
    /\ rootDrainWaiters = {}
    /\ drainCall = [w \in DrainWaiter |-> "idle"]

(* External: a request or a timer enters the process, outside any root. *)
ChainArrives(c) ==
    /\ chain[c] = "free"
    /\ chain' = [chain EXCEPT ![c] = "running"]
    /\ UNCHANGED <<fenceVars, rootVars, currentRootWork, suspendOpenWaiters,
                   leaseVars, drainVars>>

(* External: chain c starts chain d without awaiting it; the store is     *)
(* inherited.                                                             *)
ChainSpawns(c, d) ==
    /\ chain[c] = "running" /\ chain[d] = "free"
    /\ chain' = [chain EXCEPT ![d] = "running"]
    /\ currentRootWork' = [currentRootWork EXCEPT ![d] = currentRootWork[c]]
    /\ UNCHANGED <<fenceVars, rootVars, suspendOpenWaiters, leaseVars,
                   drainVars>>

(* External: a chain runs to its end. *)
ChainEnds(c) ==
    /\ chain[c] = "running"
    /\ chain' = [chain EXCEPT ![c] = "free"]
    /\ currentRootWork' = [currentRootWork EXCEPT ![c] = 0]
    /\ UNCHANGED <<fenceVars, rootVars, suspendOpenWaiters, leaseVars,
                   drainVars>>

(* tryBeginGatewayRootWorkAdmission that admits a new root: a nested call *)
(* and a refused one change nothing.                                      *)
TryBeginGatewayRootWorkAdmission(c) ==
    /\ chain[c] = "running"
    /\ ~HasLiveRoot(c)
    /\ ~IsGatewayWorkAdmissionClosed
    /\ CreateRootFor(c)
    /\ UNCHANGED <<fenceVars, chain, suspendOpenWaiters, leaseVars, drainVars>>

(* beginGatewayRootWorkAdmissionWhenOpen: the first round is synchronous. *)
BeginGatewayRootWorkAdmissionWhenOpen(c) ==
    /\ chain[c] = "running"
    /\ AdmissionRound(c, "openingRoot")
    /\ UNCHANGED <<fenceVars, leaseVars, drainVars>>

(* runWithGatewayIndependentRootWorkAdmission *)
RunWithGatewayIndependentRootWorkAdmission(c) ==
    /\ chain[c] = "running"
    /\ AdmissionRound(c, "openingIndependent")
    /\ UNCHANGED <<fenceVars, leaseVars, drainVars>>

(* The promise of a waiting chain has been resolved: the loop goes round. *)
AdmissionRetries(c) ==
    /\ chain[c] \in {"openingRoot", "openingIndependent"}
    /\ c \notin suspendOpenWaiters
    /\ AdmissionRound(c, chain[c])
    /\ UNCHANGED <<fenceVars, leaseVars, drainVars>>

(* runWithGatewayIndependentRootWorkContinuation in chain c, executing in *)
(* the new chain d: a live parent reserves a root through a closed fence. *)
RunWithGatewayIndependentRootWorkContinuation(c, d) ==
    /\ chain[c] = "running" /\ chain[d] = "free"
    /\ \/ /\ HasLiveRoot(c)
          /\ CreateRootFor(d)
          /\ chain' = [chain EXCEPT ![d] = "running"]
          /\ UNCHANGED suspendOpenWaiters
       \/ /\ ~HasLiveRoot(c)
          /\ AdmissionRound(d, "openingIndependent")
    /\ UNCHANGED <<fenceVars, leaseVars, drainVars>>

(* retainGatewayRootWorkAdmissionContinuation *)
RetainWithoutCount(c) ==
    /\ chain[c] = "running"
    /\ HasLiveRoot(c)
    /\ nextLease - nextRoot < MaxRetains
    /\ lease' = [lease EXCEPT ![nextLease] =
                    [root |-> currentRootWork[c], released |-> FALSE]]
    /\ nextLease' = nextLease + 1
    /\ UNCHANGED <<fenceVars, references, activeRootWork, released, nextRoot,
                   chainVars, suspendOpenWaiters, leaseVars, drainVars>>

RetainGatewayRootWorkAdmissionContinuation(c) ==
    /\ chain[c] = "running"
    /\ HasLiveRoot(c)
    /\ nextLease - nextRoot < MaxRetains
    /\ references' = [references EXCEPT ![currentRootWork[c]] = @ + 1]
    /\ lease' = [lease EXCEPT ![nextLease] =
                    [root |-> currentRootWork[c], released |-> FALSE]]
    /\ nextLease' = nextLease + 1
    /\ UNCHANGED <<fenceVars, activeRootWork, released, nextRoot, chainVars,
                   suspendOpenWaiters, leaseVars, drainVars>>

(* The closure of createGatewayRootWorkRelease: its guards make a repeated*)
(* call, or one after a reset retired the root, do nothing.               *)
ReleaseIsNoOp(i) == lease[i].released \/ released[lease[i].root]

ReleaseRootWork(i) ==
    LET r == lease[i].root
    IN  /\ i < nextLease
        /\ ~ReleaseIsNoOp(i)
        /\ lease' = [lease EXCEPT ![i].released = TRUE]
        /\ references' = [references EXCEPT ![r] = @ - 1]
        /\ IF references[r] - 1 > 0
           THEN UNCHANGED <<activeRootWork, released, drainVars>>
           ELSE /\ released' = [released EXCEPT ![r] = TRUE]
                /\ activeRootWork' = activeRootWork \ {r}
                /\ IF activeRootWork \ {r} = {} THEN ResolveRootDrainWaiters
                   ELSE UNCHANGED drainVars
        /\ UNCHANGED <<fenceVars, nextRoot, nextLease, chainVars,
                       suspendOpenWaiters, leaseVars>>

(* invalidateSuspendAdmission; the callback belongs to the coordinator. *)
InvalidateSuspendAdmission ==
    /\ suspendPhase' = "accepting"
    /\ suspendInvalidated' = 0
    /\ suspendGeneration' = suspendGeneration + 1

(* markGatewayRestartDraining *)
MarkSupersedesSuspension ==
    IF suspendPhase # "accepting" THEN InvalidateSuspendAdmission
    ELSE UNCHANGED <<suspendPhase, suspendInvalidated, suspendGeneration>>

MarkGatewayRestartDraining ==
    /\ restartSignalGeneration < MaxGeneration
    /\ restartSignalPending' = FALSE
    /\ restartSignalGeneration' = restartSignalGeneration + 1
    /\ restartDraining' = TRUE
    /\ MarkSupersedesSuspension
    /\ ResolveSuspendOpenWaiters
    /\ UNCHANGED <<rootVars, chainVars, leaseVars, drainVars>>

(* beginGatewayRestartSignalAdmission, no signal being pending *)
BeginGatewayRestartSignalAdmission ==
    /\ restartSignalGeneration < MaxGeneration
    /\ ~restartSignalPending
    /\ restartSignalPending' = TRUE
    /\ restartSignalGeneration' = restartSignalGeneration + 1
    /\ signalLeases' = signalLeases \cup {restartSignalGeneration + 1}
    /\ UNCHANGED <<restartDraining, suspendPhase, suspendGeneration,
                   suspendInvalidated, rootVars, chainVars,
                   suspendOpenWaiters, suspendLeases, drainVars>>

(* rollback of the signal lease of generation g *)
RollbackRestartSignal(g) ==
    /\ g \in signalLeases
    /\ restartSignalPending /\ restartSignalGeneration = g
    /\ restartSignalPending' = FALSE
    /\ restartSignalGeneration' = restartSignalGeneration + 1
    /\ ResolveSuspendOpenWaiters
    /\ UNCHANGED <<restartDraining, suspendPhase, suspendGeneration,
                   suspendInvalidated, rootVars, chainVars, leaseVars,
                   drainVars>>

(* tryBeginGatewaySuspendAdmission that obtains a lease *)
TryBeginGatewaySuspendAdmission ==
    /\ suspendGeneration < MaxGeneration
    /\ ~IsGatewayWorkAdmissionClosed
    /\ suspendPhase' = "preparing"
    /\ suspendGeneration' = suspendGeneration + 1
    /\ suspendInvalidated' = suspendGeneration + 1
    /\ suspendLeases' = suspendLeases \cup {suspendGeneration + 1}
    /\ UNCHANGED <<restartDraining, restartSignalPending,
                   restartSignalGeneration, rootVars, chainVars,
                   suspendOpenWaiters, signalLeases, drainVars>>

(* The lease's transition(expected, next): commit, rollback and release.  *)
TransitionApplies(g, expected) ==
    suspendGeneration = g /\ suspendPhase = expected

TransitionSuspend(g, expected, next) ==
    /\ g \in suspendLeases
    /\ TransitionApplies(g, expected)
    /\ suspendPhase' = next
    /\ IF next = "accepting"
       THEN suspendInvalidated' = 0 /\ ResolveSuspendOpenWaiters
       ELSE UNCHANGED <<suspendInvalidated, suspendOpenWaiters>>
    /\ UNCHANGED <<restartDraining, restartSignalPending, suspendGeneration,
                   restartSignalGeneration, rootVars, chainVars, leaseVars,
                   drainVars>>

CommitSuspend(g) == TransitionSuspend(g, "preparing", "prepared")
RollbackSuspend(g) == TransitionSuspend(g, "preparing", "accepting")
ReleaseSuspend(g) == TransitionSuspend(g, "prepared", "accepting")

(* resetGatewayWorkAdmission: the in-process restart retires every root.  *)
(* Both branches on suspendPhase end in the same admission state.         *)
ResetAdmissionState ==
    /\ restartSignalGeneration < MaxGeneration
    /\ references' = [r \in Root |-> IF r \in activeRootWork THEN 0
                                     ELSE references[r]]
    /\ released' = [r \in Root |-> released[r] \/ r \in activeRootWork]
    /\ activeRootWork' = {}
    /\ ResolveRootDrainWaiters
    /\ restartDraining' = FALSE
    /\ restartSignalPending' = FALSE
    /\ restartSignalGeneration' = restartSignalGeneration + 1
    /\ InvalidateSuspendAdmission
    /\ ResolveSuspendOpenWaiters
    /\ UNCHANGED <<lease, nextRoot, nextLease, leaseVars>>

ResetGatewayWorkAdmission == ResetAdmissionState /\ UNCHANGED chainVars

(* waitForActiveGatewayRootWork: idle and zero-timeout calls return at    *)
(* once; otherwise the call registers itself.                             *)
WaitForActiveGatewayRootWork(w, zero) ==
    /\ drainCall[w] = "idle"
    /\ IF activeRootWork = {} \/ zero
       THEN /\ drainCall' = [drainCall EXCEPT ![w] =
                    IF activeRootWork = {} THEN "drained" ELSE "notDrained"]
            /\ UNCHANGED rootDrainWaiters
       ELSE /\ drainCall' = [drainCall EXCEPT ![w] = "awaiting"]
            /\ rootDrainWaiters' = rootDrainWaiters \cup {w}
    /\ UNCHANGED <<fenceVars, rootVars, chainVars, suspendOpenWaiters,
                   leaseVars>>

(* Its timer fires; the registration stays until the call goes on. *)
RootDrainTimesOut(w) ==
    /\ drainCall[w] = "awaiting"
    /\ drainCall' = [drainCall EXCEPT ![w] = "resolved"]
    /\ UNCHANGED <<fenceVars, rootVars, chainVars, suspendOpenWaiters,
                   leaseVars, rootDrainWaiters>>

(* The awaited promise is resolved: count again and answer. *)
RootDrainReturns(w) ==
    /\ drainCall[w] = "resolved"
    /\ rootDrainWaiters' = rootDrainWaiters \ {w}
    /\ drainCall' = [drainCall EXCEPT ![w] =
                        IF activeRootWork = {} THEN "drained"
                        ELSE "notDrained"]
    /\ UNCHANGED <<fenceVars, rootVars, chainVars, suspendOpenWaiters,
                   leaseVars>>

(* The steps of requests, timers and detached work. *)
WorkNext ==
    \/ \E c \in Chain :
         \/ ChainArrives(c) \/ ChainEnds(c)
         \/ TryBeginGatewayRootWorkAdmission(c)
         \/ BeginGatewayRootWorkAdmissionWhenOpen(c)
         \/ RunWithGatewayIndependentRootWorkAdmission(c)
         \/ AdmissionRetries(c)
         \/ RetainGatewayRootWorkAdmissionContinuation(c)
    \/ \E c, d \in Chain : \/ ChainSpawns(c, d)
                           \/ RunWithGatewayIndependentRootWorkContinuation(c, d)
    \/ \E i \in Lease : ReleaseRootWork(i)
    \/ \E w \in DrainWaiter : \/ \E zero \in BOOLEAN :
                                    WaitForActiveGatewayRootWork(w, zero)
                              \/ RootDrainTimesOut(w) \/ RootDrainReturns(w)

Next ==
    \/ WorkNext
    \/ BeginGatewayRestartSignalAdmission
    \/ \E g \in signalLeases : RollbackRestartSignal(g)
    \/ MarkGatewayRestartDraining
    \/ ResetGatewayWorkAdmission
    \/ TryBeginGatewaySuspendAdmission
    \/ \E g \in suspendLeases :
          CommitSuspend(g) \/ RollbackSuspend(g) \/ ReleaseSuspend(g)

Spec == Init /\ [][Next]_vars
-----------------------------------------------------------------------------
(* Properties *)

TypeOK ==
    /\ restartDraining \in BOOLEAN /\ restartSignalPending \in BOOLEAN
    /\ restartSignalGeneration \in Nat
    /\ suspendPhase \in Phase
    /\ suspendGeneration \in Nat /\ suspendInvalidated \in Nat
    /\ activeRootWork \in SUBSET Root
    /\ references \in [Root -> Nat]
    /\ released \in [Root -> BOOLEAN]
    /\ lease \in [Lease -> [root : Root \cup {0}, released : BOOLEAN]]
    /\ nextRoot \in 1..(MaxRoots + 1)
    /\ nextLease \in nextRoot..(nextRoot + MaxRetains)
    /\ currentRootWork \in [Chain -> Root \cup {0}]
    /\ chain \in [Chain -> ChainState]
    /\ suspendOpenWaiters \in SUBSET Chain
    /\ signalLeases \in SUBSET Nat /\ suspendLeases \in SUBSET Nat
    /\ rootDrainWaiters \in SUBSET DrainWaiter
    /\ drainCall \in [DrainWaiter -> {"idle", "awaiting", "resolved",
                                      "drained", "notDrained"}]

OpenLeases(r) == {i \in Lease : lease[i].root = r /\ ~lease[i].released}

(* Reference counting: an active root counts exactly the leases on it that*)
(* were not released, and has at least one, whatever the order of retains,*)
(* repeated releases and resets (createGatewayRootWorkRelease,            *)
(* retainGatewayRootWorkAdmissionContinuation, resetGatewayWorkAdmission).*)
RootsAreCounted ==
    \A r \in Root :
        /\ r \in activeRootWork <=> r < nextRoot /\ ~released[r]
        /\ r \in activeRootWork =>
              /\ OpenLeases(r) # {}
              /\ references[r] = Cardinality(OpenLeases(r))

(* A root leaves the active set with its last lease only, a reset apart:  *)
(* releasing one lease twice does not retire a root that another lease    *)
(* still holds, so a drain or a suspend inspection overlooks no work      *)
(* (createGatewayRootWorkRelease).                                        *)
RootsEndWithTheirLeases ==
    [][\A r \in activeRootWork \ activeRootWork' :
          \/ OpenLeases(r)' = {}
          \/ restartSignalGeneration' # restartSignalGeneration]_vars

(* No chain waits for an open fence that is already open, or for one that *)
(* will throw: every path that opens a fence or starts a restart drain    *)
(* resolves the waiters.                                                  *)
NoLostOpenWaiter ==
    \A c \in suspendOpenWaiters :
        /\ chain[c] \in {"openingRoot", "openingIndependent"}
        /\ IsGatewayWorkAdmissionClosed
        /\ ~restartDraining

(* A restart supersedes a reversible suspension: they are never in force  *)
(* together, so no suspension lease can reopen a draining gateway         *)
(* (markGatewayRestartDraining, tryBeginGatewaySuspendAdmission).         *)
RestartSupersedesSuspension == restartDraining => suspendPhase = "accepting"

(* A closed suspension fence belongs to the generation whose callback is  *)
(* registered, and an open one to nobody: the callback that a restart runs*)
(* is the present holder's, never a stale one.                            *)
FenceHasItsCallback ==
    suspendInvalidated = IF suspendPhase = "accepting" THEN 0
                         ELSE suspendGeneration

(* The fence agrees with those who wait at it and with those who closed   *)
(* it, whatever restarts, rollbacks and stale leases come between         *)
(* (gateway-work-admission.ts:94-195, :344-382).                          *)
FenceInv == NoLostOpenWaiter /\ RestartSupersedesSuspension /\ FenceHasItsCallback

(* A call of waitForActiveGatewayRootWork that still waits is registered  *)
(* and has something to wait for.                                         *)
NoLostDrainCall ==
    \A w \in DrainWaiter : drainCall[w] = "awaiting" =>
        w \in rootDrainWaiters /\ activeRootWork # {}

(* Drained stays drained: behind a closed fence, once no root is active   *)
(* none appears until the fence opens, although continuations may cross   *)
(* it and chains of released roots live on.                               *)
DrainedStaysDrained ==
    [][IsGatewayWorkAdmissionClosed /\ activeRootWork = {}
          => activeRootWork' = {}]_vars

(* A chain that waits for admission gets on when the fences stay open, or *)
(* a drain begins for good.                                               *)
OpenWaitersProceed ==
    <>[](~IsGatewayWorkAdmissionClosed \/ restartDraining) =>
        []<>(\/ nextRoot > MaxRoots
             \/ \A c \in Chain :
                   chain[c] \notin {"openingRoot", "openingIndependent"})
=============================================================================
