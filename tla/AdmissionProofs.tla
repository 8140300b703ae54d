--------------------------- MODULE AdmissionProofs ---------------------------
(***************************************************************************)
(* Theorems about WorkAdmission and, on top of it, SuspendCoordinator, for *)
(* any number of chains, roots, continuations, drain calls, requests,      *)
(* suspensions and restarts.                                               *)
(*                                                                         *)
(* The invariants that matter are not inductive by themselves: that a      *)
(* drained gateway stays drained needs that a live root is an active one   *)
(* (RootsLive, ChainsLive), that a drain call is never lost needs that     *)
(* every release that empties the active set is seen.  AdmissionInv joins  *)
(* them; CountInv adds the reference counts on top of it.                  *)
(*                                                                         *)
(* FailClosed is not inductive: that the scheduler is paused says nothing  *)
(* of the fence by itself.  It is closed because an entry exists, whose    *)
(* lease closed it, or because a restart dropped the entry and drains.     *)
(* That a restart drops exactly the present entry needs in turn that the   *)
(* registered callback is the one of the closed fence.                     *)
(*                                                                         *)
(* The invariant of admission is carried over to the composed system, and  *)
(* with it that a held fence has no work behind it.                        *)
(***************************************************************************)
EXTENDS SuspendCoordinator, FiniteSetTheorems, TLAPS

USE AdmissionBounds

(* The inductive invariant, by groups of variables. *)
FlagsTyped == restartDraining \in BOOLEAN /\ restartSignalPending \in BOOLEAN

GenerationsTyped ==
    /\ restartSignalGeneration \in Nat
    /\ suspendPhase \in Phase
    /\ suspendGeneration \in Nat /\ suspendInvalidated \in Nat
    /\ signalLeases \in SUBSET Nat /\ suspendLeases \in SUBSET Nat

FencesTyped == FlagsTyped /\ GenerationsTyped

RootsTyped ==
    /\ activeRootWork \in SUBSET Root
    /\ references \in [Root -> Nat]
    /\ released \in [Root -> BOOLEAN]
    /\ lease \in [Lease -> [root : Root \cup {0}, released : BOOLEAN]]
    /\ nextRoot \in 1..(MaxRoots + 1)
    /\ nextLease \in nextRoot..(nextRoot + MaxRetains)

ChainsTyped ==
    /\ currentRootWork \in [Chain -> Root \cup {0}]
    /\ chain \in [Chain -> ChainState]
    /\ suspendOpenWaiters \in SUBSET Chain

DrainsTyped ==
    /\ rootDrainWaiters \in SUBSET DrainWaiter
    /\ drainCall \in [DrainWaiter -> {"idle", "awaiting", "resolved",
                                      "drained", "notDrained"}]

(* The active set is the roots created and not released, each counting at *)
(* least one reference; leases and chains name created roots only.        *)
RootsLive ==
    /\ \A r \in Root : r \in activeRootWork <=> r < nextRoot /\ ~released[r]
    /\ \A r \in Root : released[r] => r < nextRoot
    /\ \A r \in activeRootWork : references[r] > 0
    /\ \A i \in Lease : i < nextLease =>
          lease[i].root # 0 /\ lease[i].root < nextRoot

ChainsLive == \A c \in Chain : currentRootWork[c] < nextRoot

AdmissionInv ==
    /\ FencesTyped /\ RootsTyped /\ ChainsTyped /\ DrainsTyped
    /\ RootsLive /\ ChainsLive
    /\ RestartSupersedesSuspension /\ FenceHasItsCallback
    /\ NoLostOpenWaiter /\ NoLostDrainCall

-----------------------------------------------------------------------------
(* createGatewayRootWorkAdmission adds one active root and its lease. *)
LEMMA CreateRootStep ==
    ASSUME RootsTyped, RootsLive, ChainsTyped, ChainsLive, NEW c \in Chain,
           CreateRootFor(c)
    PROVE  /\ RootsTyped' /\ RootsLive'
           /\ currentRootWork' \in [Chain -> Root \cup {0}]
           /\ ChainsLive'
           /\ activeRootWork' # {}
<1> USE DEF CreateRootFor, RootsTyped, RootsLive, ChainsTyped, ChainsLive,
            Root, Lease
<1>1. nextRoot \in Root /\ nextLease \in Lease
    OBVIOUS
<1>2. RootsTyped'
    <2>1. lease' \in [Lease -> [root : Root \cup {0}, released : BOOLEAN]]
        BY <1>1
    <2>2. references' \in [Root -> Nat]
        BY <1>1
    <2>3. released' \in [Root -> BOOLEAN]
        OBVIOUS
    <2> QED BY <1>1, <2>1, <2>2, <2>3
<1>3. /\ \A r \in Root :
            r \in activeRootWork' <=> r < nextRoot' /\ ~released'[r]
      /\ \A r \in Root : released'[r] => r < nextRoot'
    OBVIOUS
<1>4. \A r \in activeRootWork' : references'[r] > 0
    BY <1>1
<1>5. \A i \in Lease : i < nextLease' =>
          lease'[i].root # 0 /\ lease'[i].root < nextRoot'
    BY <1>1
<1>6. currentRootWork' \in [Chain -> Root \cup {0}]
    BY <1>1
<1>7. ChainsLive'
    <2> SUFFICES ASSUME NEW d \in Chain PROVE currentRootWork'[d] < nextRoot'
        OBVIOUS
    <2>1. currentRootWork[d] \in Nat /\ currentRootWork[d] < nextRoot
        OBVIOUS
    <2>2. currentRootWork'[d] = IF d = c THEN nextRoot ELSE currentRootWork[d]
        OBVIOUS
    <2> QED BY <2>1, <2>2
<1>8. activeRootWork' # {}
    OBVIOUS
<1> QED BY <1>2, <1>3, <1>4, <1>5, <1>6, <1>7, <1>8

(* A step that leaves the fences alone keeps what is said of them. *)
LEMMA FencesFrame ==
    ASSUME FencesTyped, RestartSupersedesSuspension, FenceHasItsCallback,
           UNCHANGED <<fenceVars, leaseVars>>
    PROVE  /\ FencesTyped' /\ RestartSupersedesSuspension'
           /\ FenceHasItsCallback'
           /\ IsGatewayWorkAdmissionClosed' = IsGatewayWorkAdmissionClosed
           /\ restartDraining' = restartDraining
BY DEF FencesTyped, FlagsTyped, GenerationsTyped,
       RestartSupersedesSuspension, FenceHasItsCallback,
       fenceVars, leaseVars, IsGatewayWorkAdmissionClosed,
       IsGatewayRestartDraining

(* A step that leaves the roots alone keeps what is said of them. *)
LEMMA RootsFrame ==
    ASSUME RootsTyped, RootsLive, UNCHANGED rootVars
    PROVE  RootsTyped' /\ RootsLive'
BY DEF RootsTyped, RootsLive, rootVars

(* A step that leaves the drain calls alone and does not empty the active *)
(* set keeps what is said of them.                                        *)
LEMMA DrainsFrame ==
    ASSUME DrainsTyped, NoLostDrainCall, UNCHANGED drainVars,
           activeRootWork # {} => activeRootWork' # {}
    PROVE  DrainsTyped' /\ NoLostDrainCall'
BY DEF DrainsTyped, NoLostDrainCall, drainVars

(* One round of the admission loop keeps the invariant, for a chain that  *)
(* is not registered as waiting.                                          *)
LEMMA AdmissionRoundStep ==
    ASSUME AdmissionInv, NEW c \in Chain,
           NEW opening \in {"openingRoot", "openingIndependent"},
           c \notin suspendOpenWaiters,
           AdmissionRound(c, opening),
           UNCHANGED <<fenceVars, leaseVars, drainVars>>
    PROVE  AdmissionInv'
<1> USE DEF AdmissionInv
<1>1. /\ FencesTyped' /\ RestartSupersedesSuspension' /\ FenceHasItsCallback'
      /\ IsGatewayWorkAdmissionClosed' = IsGatewayWorkAdmissionClosed
      /\ restartDraining' = restartDraining
    BY FencesFrame
<1>2. CASE UNCHANGED <<rootVars, currentRootWork>>
    <2>1. RootsTyped' /\ RootsLive'
        BY <1>2, RootsFrame
    <2>2. DrainsTyped' /\ NoLostDrainCall'
        BY <1>2, DrainsFrame DEF rootVars
    <2>3. ChainsTyped' /\ ChainsLive'
        BY <1>2 DEF ChainsTyped, ChainsLive, AdmissionRound, ChainState,
                    rootVars, CreateRootFor
    <2>4. NoLostOpenWaiter'
        BY <1>1 DEF ChainsTyped, NoLostOpenWaiter, AdmissionRound, ChainState
    <2> QED BY <1>1, <2>1, <2>2, <2>3, <2>4
<1>3. CASE CreateRootFor(c) /\ chain' = [chain EXCEPT ![c] = "running"]
              /\ UNCHANGED suspendOpenWaiters
    <2>1. /\ RootsTyped' /\ RootsLive' /\ ChainsLive'
          /\ currentRootWork' \in [Chain -> Root \cup {0}]
          /\ activeRootWork' # {}
        BY <1>3, CreateRootStep
    <2>2. DrainsTyped' /\ NoLostDrainCall'
        BY <2>1, DrainsFrame
    <2>3. ChainsTyped'
        BY <1>3, <2>1 DEF ChainsTyped, ChainState
    <2>4. NoLostOpenWaiter'
        BY <1>1, <1>3 DEF ChainsTyped, NoLostOpenWaiter
    <2> QED BY <1>1, <2>1, <2>2, <2>3, <2>4
<1> QED BY <1>2, <1>3 DEF AdmissionRound

(* resolveRootDrainWaiters leaves no call awaiting. *)
LEMMA ResolveDrainsStep ==
    ASSUME DrainsTyped, NoLostDrainCall, ResolveRootDrainWaiters
    PROVE  DrainsTyped' /\ NoLostDrainCall'
BY DEF DrainsTyped, NoLostDrainCall, ResolveRootDrainWaiters

(* The invariant holds in a fresh process. *)
LEMMA AdmissionInit == Init => AdmissionInv
<1> SUFFICES ASSUME Init PROVE AdmissionInv
    OBVIOUS
<1> USE DEF Init
<1>1. FencesTyped /\ RestartSupersedesSuspension /\ FenceHasItsCallback
    BY DEF FencesTyped, FlagsTyped, GenerationsTyped, Phase,
           RestartSupersedesSuspension, FenceHasItsCallback
<1>2. RootsTyped
    BY DEF RootsTyped, Root, Lease
<1>3. RootsLive
    BY DEF RootsLive, Root, Lease
<1>4. ChainsTyped /\ ChainsLive /\ NoLostOpenWaiter
    BY DEF ChainsTyped, ChainsLive, ChainState, NoLostOpenWaiter
<1>5. DrainsTyped /\ NoLostDrainCall
    BY DEF DrainsTyped, NoLostDrainCall
<1> QED BY <1>1, <1>2, <1>3, <1>4, <1>5 DEF AdmissionInv

(* Arriving, ending and spawning chains keep the invariant. *)
LEMMA ChainStep ==
    ASSUME AdmissionInv, NEW c \in Chain, NEW d \in Chain,
           ChainArrives(c) \/ ChainEnds(c) \/ ChainSpawns(c, d)
    PROVE  AdmissionInv'
<1> USE DEF AdmissionInv, ChainArrives, ChainEnds, ChainSpawns
<1>1. UNCHANGED <<fenceVars, rootVars, leaseVars, drainVars,
                  suspendOpenWaiters>>
    OBVIOUS
<1>2. /\ FencesTyped' /\ RestartSupersedesSuspension' /\ FenceHasItsCallback'
      /\ IsGatewayWorkAdmissionClosed' = IsGatewayWorkAdmissionClosed
      /\ restartDraining' = restartDraining
    BY <1>1, FencesFrame
<1>3. RootsTyped' /\ RootsLive'
    BY <1>1, RootsFrame
<1>4. DrainsTyped' /\ NoLostDrainCall'
    BY <1>1, DrainsFrame DEF rootVars
<1>5. ChainsTyped'
    BY <1>1 DEF ChainsTyped, ChainState
<1>6. ChainsLive'
    <2>1. nextRoot' = nextRoot /\ nextRoot \in Nat /\ 0 < nextRoot
        BY <1>1 DEF rootVars, RootsTyped
    <2> QED BY <2>1 DEF ChainsTyped, ChainsLive
<1>7. NoLostOpenWaiter'
    BY <1>1, <1>2 DEF NoLostOpenWaiter, ChainsTyped
<1> QED BY <1>2, <1>3, <1>4, <1>5, <1>6, <1>7

(* Every way to be admitted as a root keeps the invariant. *)
LEMMA AdmitStep ==
    ASSUME AdmissionInv, NEW c \in Chain, NEW d \in Chain,
           \/ TryBeginGatewayRootWorkAdmission(c)
           \/ BeginGatewayRootWorkAdmissionWhenOpen(c)
           \/ RunWithGatewayIndependentRootWorkAdmission(c)
           \/ AdmissionRetries(c)
           \/ RunWithGatewayIndependentRootWorkContinuation(c, d)
    PROVE  AdmissionInv'
<1> USE DEF AdmissionInv
<1>1. \A e \in Chain : chain[e] \in {"free", "running"} =>
          e \notin suspendOpenWaiters
    BY DEF NoLostOpenWaiter
<1>2. CASE \E e \in Chain :
            /\ CreateRootFor(e)
            /\ e \notin suspendOpenWaiters
            /\ chain' = [chain EXCEPT ![e] = "running"]
            /\ UNCHANGED <<suspendOpenWaiters, fenceVars, leaseVars, drainVars>>
    <2> PICK e \in Chain :
            /\ CreateRootFor(e)
            /\ e \notin suspendOpenWaiters
            /\ chain' = [chain EXCEPT ![e] = "running"]
            /\ UNCHANGED <<suspendOpenWaiters, fenceVars, leaseVars, drainVars>>
        BY <1>2
    <2>1. /\ FencesTyped'
          /\ RestartSupersedesSuspension' /\ FenceHasItsCallback'
          /\ IsGatewayWorkAdmissionClosed' = IsGatewayWorkAdmissionClosed
          /\ restartDraining' = restartDraining
        BY FencesFrame
    <2>2. /\ RootsTyped' /\ RootsLive' /\ ChainsLive'
          /\ currentRootWork' \in [Chain -> Root \cup {0}]
          /\ activeRootWork' # {}
        BY CreateRootStep
    <2>3. DrainsTyped' /\ NoLostDrainCall'
        BY <2>2, DrainsFrame
    <2>4. ChainsTyped' /\ NoLostOpenWaiter'
        BY <2>1, <2>2 DEF ChainsTyped, ChainState, NoLostOpenWaiter
    <2> QED BY <2>1, <2>2, <2>3, <2>4
<1>3. CASE TryBeginGatewayRootWorkAdmission(c)
    <2>1. chain' = [chain EXCEPT ![c] = "running"]
        BY <1>3 DEF TryBeginGatewayRootWorkAdmission, ChainsTyped
    <2> QED BY <1>1, <1>2, <1>3, <2>1 DEF TryBeginGatewayRootWorkAdmission
<1>4. CASE BeginGatewayRootWorkAdmissionWhenOpen(c)
    BY <1>1, <1>4, AdmissionRoundStep DEF BeginGatewayRootWorkAdmissionWhenOpen
<1>5. CASE RunWithGatewayIndependentRootWorkAdmission(c)
    BY <1>1, <1>5, AdmissionRoundStep
    DEF RunWithGatewayIndependentRootWorkAdmission
<1>6. CASE AdmissionRetries(c)
    BY <1>6, AdmissionRoundStep DEF AdmissionRetries
<1>7. CASE RunWithGatewayIndependentRootWorkContinuation(c, d)
    <2>1. CASE HasLiveRoot(c)
        BY <1>1, <1>2, <1>7, <2>1
        DEF RunWithGatewayIndependentRootWorkContinuation
    <2>2. CASE ~HasLiveRoot(c)
        BY <1>1, <1>7, <2>2, AdmissionRoundStep
        DEF RunWithGatewayIndependentRootWorkContinuation
    <2> QED BY <2>1, <2>2
<1> QED BY <1>3, <1>4, <1>5, <1>6, <1>7

(* Retaining a continuation keeps the invariant. *)
LEMMA RetainStep ==
    ASSUME AdmissionInv, NEW c \in Chain,
           RetainGatewayRootWorkAdmissionContinuation(c)
    PROVE  AdmissionInv'
<1> USE DEF AdmissionInv, RetainGatewayRootWorkAdmissionContinuation
<1>1. /\ FencesTyped' /\ RestartSupersedesSuspension' /\ FenceHasItsCallback'
      /\ IsGatewayWorkAdmissionClosed' = IsGatewayWorkAdmissionClosed
      /\ restartDraining' = restartDraining
    BY FencesFrame
<1>2. DrainsTyped' /\ NoLostDrainCall'
    BY DrainsFrame
<1>3. ChainsTyped' /\ ChainsLive' /\ NoLostOpenWaiter'
    BY <1>1 DEF ChainsTyped, ChainsLive, NoLostOpenWaiter, chainVars
<1>4. /\ nextLease \in Lease
      /\ currentRootWork[c] \in Root /\ currentRootWork[c] < nextRoot
    BY DEF RootsTyped, ChainsTyped, ChainsLive, HasLiveRoot, Root, Lease
<1>5. RootsTyped'
    <2>1. references' \in [Root -> Nat]
        BY <1>4 DEF RootsTyped
    <2>2. lease' \in [Lease -> [root : Root \cup {0}, released : BOOLEAN]]
        BY <1>4 DEF RootsTyped
    <2>3. nextLease' \in nextRoot'..(nextRoot' + MaxRetains)
        BY DEF RootsTyped
    <2> QED BY <2>1, <2>2, <2>3 DEF RootsTyped
<1>6. RootsLive'
    <2>1. \A r \in activeRootWork' : references'[r] > 0
        BY <1>4 DEF RootsTyped, RootsLive
    <2>2. \A i \in Lease : i < nextLease' =>
              lease'[i].root # 0 /\ lease'[i].root < nextRoot'
        BY <1>4 DEF RootsTyped, RootsLive, Root, Lease
    <2> QED BY <2>1, <2>2 DEF RootsLive
<1> QED BY <1>1, <1>2, <1>3, <1>5, <1>6

(* Releasing a lease keeps the invariant: the last one retires the root   *)
(* and, with the last root, resolves the drain calls.                     *)
LEMMA ReleaseStep ==
    ASSUME AdmissionInv, NEW i \in Lease, ReleaseRootWork(i)
    PROVE  AdmissionInv'
<1> USE DEF AdmissionInv
<1> DEFINE r == lease[i].root
<1>1. /\ FencesTyped' /\ RestartSupersedesSuspension' /\ FenceHasItsCallback'
      /\ IsGatewayWorkAdmissionClosed' = IsGatewayWorkAdmissionClosed
      /\ restartDraining' = restartDraining
    BY FencesFrame DEF ReleaseRootWork
<1>2. ChainsTyped' /\ ChainsLive' /\ NoLostOpenWaiter'
    BY <1>1 DEF ChainsTyped, ChainsLive, NoLostOpenWaiter, chainVars,
                ReleaseRootWork
<1>3. /\ r \in Root /\ r < nextRoot /\ ~released[r]
      /\ r \in activeRootWork /\ references[r] \in Nat /\ references[r] > 0
    BY DEF ReleaseRootWork, ReleaseIsNoOp, RootsTyped, RootsLive
<1>4. /\ lease' = [lease EXCEPT ![i].released = TRUE]
      /\ references' = [references EXCEPT ![r] = @ - 1]
      /\ nextRoot' = nextRoot /\ nextLease' = nextLease
    BY DEF ReleaseRootWork
<1>5. /\ lease' \in [Lease -> [root : Root \cup {0}, released : BOOLEAN]]
      /\ \A j \in Lease : lease'[j].root = lease[j].root
    BY <1>4 DEF RootsTyped
<1>6. references' \in [Root -> Nat]
    BY <1>3, <1>4 DEF RootsTyped
<1>7. CASE references[r] - 1 > 0
    <2>1. UNCHANGED <<activeRootWork, released, drainVars>>
        BY <1>7 DEF ReleaseRootWork
    <2>2. RootsTyped'
        BY <1>4, <1>5, <1>6, <2>1 DEF RootsTyped
    <2>3. \A s \in activeRootWork' : references'[s] > 0
        BY <1>3, <1>4, <1>7, <2>1 DEF RootsTyped, RootsLive
    <2>4. RootsLive'
        BY <1>4, <1>5, <2>1, <2>3 DEF RootsLive
    <2>5. DrainsTyped' /\ NoLostDrainCall'
        BY <2>1, DrainsFrame
    <2> QED BY <1>1, <1>2, <2>2, <2>4, <2>5
<1>8. CASE ~(references[r] - 1 > 0)
    <2>1. /\ released' = [released EXCEPT ![r] = TRUE]
          /\ activeRootWork' = activeRootWork \ {r}
          /\ IF activeRootWork \ {r} = {} THEN ResolveRootDrainWaiters
             ELSE UNCHANGED drainVars
        BY <1>8 DEF ReleaseRootWork
    <2>2. released' \in [Root -> BOOLEAN]
        BY <2>1 DEF RootsTyped
    <2>3. RootsTyped'
        BY <1>4, <1>5, <1>6, <2>1, <2>2 DEF RootsTyped
    <2>4. \A s \in activeRootWork' : references'[s] > 0
        BY <1>3, <1>4, <2>1 DEF RootsTyped, RootsLive
    <2>5. \A s \in Root : released'[s] = (released[s] \/ s = r)
        BY <1>3, <2>1 DEF RootsTyped
    <2>6. \A s \in Root :
              /\ s \in activeRootWork' <=> s < nextRoot' /\ ~released'[s]
              /\ released'[s] => s < nextRoot'
        BY <1>3, <1>4, <2>1, <2>5 DEF RootsLive
    <2>7. RootsLive'
        BY <1>4, <1>5, <2>4, <2>6 DEF RootsLive
    <2>8. DrainsTyped' /\ NoLostDrainCall'
        BY <2>1, DrainsFrame, ResolveDrainsStep
    <2> QED BY <1>1, <1>2, <2>3, <2>7, <2>8
<1> QED BY <1>7, <1>8

(* The calls of waitForActiveGatewayRootWork keep the invariant. *)
LEMMA DrainCallStep ==
    ASSUME AdmissionInv, NEW w \in DrainWaiter, NEW zero \in BOOLEAN,
           \/ WaitForActiveGatewayRootWork(w, zero)
           \/ RootDrainTimesOut(w) \/ RootDrainReturns(w)
    PROVE  AdmissionInv'
<1> USE DEF AdmissionInv, WaitForActiveGatewayRootWork, RootDrainTimesOut,
            RootDrainReturns
<1>1. UNCHANGED <<fenceVars, rootVars, chainVars, suspendOpenWaiters,
                  leaseVars>>
    OBVIOUS
<1>2. /\ FencesTyped' /\ RestartSupersedesSuspension' /\ FenceHasItsCallback'
      /\ IsGatewayWorkAdmissionClosed' = IsGatewayWorkAdmissionClosed
      /\ restartDraining' = restartDraining
    BY <1>1, FencesFrame
<1>3. RootsTyped' /\ RootsLive'
    BY <1>1, RootsFrame
<1>4. ChainsTyped' /\ ChainsLive' /\ NoLostOpenWaiter'
    BY <1>1, <1>2 DEF ChainsTyped, ChainsLive, NoLostOpenWaiter, chainVars,
                      rootVars
<1>5. DrainsTyped' /\ NoLostDrainCall'
    BY <1>1 DEF DrainsTyped, NoLostDrainCall, rootVars
<1> QED BY <1>2, <1>3, <1>4, <1>5

(* Every change of a fence, the reset apart, keeps the invariant. *)
LEMMA FenceStep ==
    ASSUME AdmissionInv,
           \/ BeginGatewayRestartSignalAdmission
           \/ \E g \in signalLeases : RollbackRestartSignal(g)
           \/ MarkGatewayRestartDraining
           \/ TryBeginGatewaySuspendAdmission
           \/ \E g \in suspendLeases :
                  CommitSuspend(g) \/ RollbackSuspend(g) \/ ReleaseSuspend(g)
    PROVE  AdmissionInv'
<1> USE DEF AdmissionInv
<1>1. UNCHANGED <<rootVars, chainVars, drainVars>>
    BY DEF BeginGatewayRestartSignalAdmission, RollbackRestartSignal,
           MarkGatewayRestartDraining, TryBeginGatewaySuspendAdmission,
           CommitSuspend, RollbackSuspend, ReleaseSuspend, TransitionSuspend
<1>2. RootsTyped' /\ RootsLive'
    BY <1>1, RootsFrame
<1>3. DrainsTyped' /\ NoLostDrainCall'
    BY <1>1, DrainsFrame DEF rootVars
<1>4. ChainsLive'
    BY <1>1 DEF ChainsLive, chainVars, rootVars
<1> USE DEF BeginGatewayRestartSignalAdmission, RollbackRestartSignal,
            MarkGatewayRestartDraining, MarkSupersedesSuspension,
            InvalidateSuspendAdmission, TryBeginGatewaySuspendAdmission,
            CommitSuspend, RollbackSuspend, ReleaseSuspend, TransitionSuspend,
            TransitionApplies, ResolveSuspendOpenWaiters, leaseVars
<1>5. ChainsTyped'
    BY <1>1 DEF ChainsTyped, chainVars
<1>6. FlagsTyped'
    BY DEF FencesTyped, FlagsTyped
<1>7. GenerationsTyped'
    <2> USE DEF FencesTyped, GenerationsTyped
    <2>1. /\ restartSignalGeneration' \in Nat /\ suspendGeneration' \in Nat
          /\ suspendInvalidated' \in Nat
        OBVIOUS
    <2>2. /\ signalLeases' \subseteq
                signalLeases \cup {restartSignalGeneration + 1}
          /\ suspendLeases' \subseteq suspendLeases \cup {suspendGeneration + 1}
        OBVIOUS
    <2>3. suspendPhase' \in Phase
        BY DEF Phase
    <2>4. signalLeases' \subseteq Nat /\ suspendLeases' \subseteq Nat
        <3>1. /\ restartSignalGeneration + 1 \in Nat
              /\ suspendGeneration + 1 \in Nat
            OBVIOUS
        <3> QED BY <2>2, <3>1
    <2> QED BY <2>1, <2>3, <2>4
<1>8. RestartSupersedesSuspension'
    BY DEF RestartSupersedesSuspension, IsGatewayWorkAdmissionClosed,
           IsGatewayRestartDraining
<1>9. FenceHasItsCallback'
    BY DEF FenceHasItsCallback
<1>10. NoLostOpenWaiter'
    BY <1>1 DEF NoLostOpenWaiter, IsGatewayWorkAdmissionClosed,
                IsGatewayRestartDraining, chainVars
<1> QED BY <1>2, <1>3, <1>4, <1>5, <1>6, <1>7, <1>8, <1>9, <1>10
        DEF FencesTyped

(* The in-process restart retires every root and opens every fence. *)
LEMMA ResetStep ==
    ASSUME AdmissionInv, ResetGatewayWorkAdmission
    PROVE  AdmissionInv'
<1> USE DEF AdmissionInv, ResetGatewayWorkAdmission, ResetAdmissionState
<1>1. DrainsTyped' /\ NoLostDrainCall'
    BY ResolveDrainsStep
<1>2. FlagsTyped'
    BY DEF FlagsTyped
<1>7. GenerationsTyped'
    BY DEF FencesTyped, GenerationsTyped, Phase, leaseVars,
           InvalidateSuspendAdmission
<1>6. RestartSupersedesSuspension' /\ FenceHasItsCallback'
    BY DEF RestartSupersedesSuspension, FenceHasItsCallback,
           InvalidateSuspendAdmission
<1>3. ChainsTyped' /\ ChainsLive' /\ NoLostOpenWaiter'
    BY DEF ChainsTyped, ChainsLive, NoLostOpenWaiter, chainVars,
           ResolveSuspendOpenWaiters
<1>4. RootsTyped'
    <2>1. references' \in [Root -> Nat]
        BY DEF RootsTyped
    <2>2. released' \in [Root -> BOOLEAN]
        BY DEF RootsTyped
    <2> QED BY <2>1, <2>2 DEF RootsTyped
<1>5. RootsLive'
    BY DEF RootsLive, RootsTyped
<1> QED BY <1>1, <1>2, <1>3, <1>4, <1>5, <1>6, <1>7 DEF FencesTyped

(* Every step of the specification keeps the invariant. *)
LEMMA AdmissionStep == AdmissionInv /\ [Next]_vars => AdmissionInv'
<1> SUFFICES ASSUME AdmissionInv, [Next]_vars PROVE AdmissionInv'
    OBVIOUS
<1>1. CASE WorkNext
    BY <1>1, ChainStep, AdmitStep, RetainStep, ReleaseStep, DrainCallStep
    DEF WorkNext
<1>2. CASE ResetGatewayWorkAdmission
    BY <1>2, ResetStep
<1>3. CASE Next /\ ~WorkNext /\ ~ResetGatewayWorkAdmission
    BY <1>3, FenceStep DEF Next
<1>4. CASE UNCHANGED vars
    BY <1>4 DEF vars, fenceVars, rootVars, chainVars, leaseVars, drainVars,
        AdmissionInv, FencesTyped, FlagsTyped, GenerationsTyped, RootsTyped,
        ChainsTyped, DrainsTyped,
        RootsLive, ChainsLive, RestartSupersedesSuspension,
        FenceHasItsCallback, NoLostOpenWaiter, NoLostDrainCall,
        IsGatewayWorkAdmissionClosed, IsGatewayRestartDraining
<1> QED BY <1>1, <1>2, <1>3, <1>4

(* The inductive invariant holds in every reachable state. *)
THEOREM AdmissionInvariant == Spec => []AdmissionInv
BY AdmissionInit, AdmissionStep, PTL DEF Spec

(* Every variable of root work admission has its type; in particular no   *)
(* reference count is released below zero.                                *)
THEOREM AdmissionTypes == Spec => []TypeOK
<1>1. AdmissionInv => TypeOK
    BY DEF AdmissionInv, TypeOK, FencesTyped, FlagsTyped, GenerationsTyped,
           RootsTyped, ChainsTyped, DrainsTyped
<1> QED BY AdmissionInvariant, <1>1, PTL

(* A chain that waits for an open fence waits for a closed one, and not   *)
(* for a restart drain.                                                   *)
THEOREM NoOpenWaiterIsLost == Spec => []NoLostOpenWaiter
BY AdmissionInvariant, PTL DEF AdmissionInv

(* A restart drain and a reversible suspension are never in force at once.*)
THEOREM RestartAlwaysSupersedes == Spec => []RestartSupersedesSuspension
BY AdmissionInvariant, PTL DEF AdmissionInv

(* The callback a restart runs is the present suspension's. *)
THEOREM FenceAlwaysHasItsCallback == Spec => []FenceHasItsCallback
BY AdmissionInvariant, PTL DEF AdmissionInv

(* The three together: the fence has its waiters, its owner and nobody    *)
(* else's.                                                                *)
THEOREM FenceAlwaysAgrees == Spec => []FenceInv
BY NoOpenWaiterIsLost, RestartAlwaysSupersedes, FenceAlwaysHasItsCallback, PTL
   DEF FenceInv

(* A drain call that waits is registered and has a root to wait for. *)
THEOREM NoDrainCallIsLost == Spec => []NoLostDrainCall
BY AdmissionInvariant, PTL DEF AdmissionInv

(* Behind a closed fence an empty active set stays empty: only a live root*)
(* reserves another one, and a live root is active.                       *)
LEMMA DrainedStep ==
    AdmissionInv /\ [Next]_vars =>
        [IsGatewayWorkAdmissionClosed /\ activeRootWork = {}
            => activeRootWork' = {}]_vars
<1> SUFFICES ASSUME AdmissionInv, Next, IsGatewayWorkAdmissionClosed,
                    activeRootWork = {}
             PROVE  activeRootWork' = {}
    OBVIOUS
<1>1. \A c \in Chain : ~HasLiveRoot(c)
    BY DEF AdmissionInv, RootsLive, ChainsLive, ChainsTyped, HasLiveRoot
<1>2. ASSUME NEW c \in Chain, NEW opening, AdmissionRound(c, opening)
      PROVE  activeRootWork' = {}
    BY <1>1, <1>2 DEF AdmissionRound, rootVars
<1>3. CASE WorkNext
    BY <1>1, <1>2, <1>3
    DEF WorkNext, rootVars, ChainArrives, ChainEnds, ChainSpawns,
        TryBeginGatewayRootWorkAdmission,
        BeginGatewayRootWorkAdmissionWhenOpen,
        RunWithGatewayIndependentRootWorkAdmission, AdmissionRetries,
        RunWithGatewayIndependentRootWorkContinuation,
        RetainGatewayRootWorkAdmissionContinuation, ReleaseRootWork,
        WaitForActiveGatewayRootWork, RootDrainTimesOut, RootDrainReturns
<1>4. CASE ResetGatewayWorkAdmission
    BY <1>4 DEF ResetGatewayWorkAdmission, ResetAdmissionState
<1>5. CASE Next /\ ~WorkNext /\ ~ResetGatewayWorkAdmission
    BY <1>5 DEF Next, rootVars, BeginGatewayRestartSignalAdmission,
        RollbackRestartSignal, MarkGatewayRestartDraining,
        TryBeginGatewaySuspendAdmission, CommitSuspend, RollbackSuspend,
        ReleaseSuspend, TransitionSuspend
<1> QED BY <1>3, <1>4, <1>5

(* Drained stays drained: nothing but an open fence or a live root lets a *)
(* root in (tryBeginGatewayRootWorkAdmission and its kin).                *)
THEOREM DrainedAlwaysStaysDrained == Spec => DrainedStaysDrained
BY AdmissionInvariant, DrainedStep, PTL DEF Spec, DrainedStaysDrained

-----------------------------------------------------------------------------
(* Reference counting.  Leases not yet handed out name no root, and an    *)
(* active root's count is the number of its open leases.                  *)
CountInv ==
    /\ \A i \in Lease : nextLease <= i => lease[i].root = 0
    /\ \A r \in activeRootWork : references[r] = Cardinality(OpenLeases(r))

(* The leases of a root are finitely many. *)
LEMMA OpenLeasesFinite == \A r : IsFiniteSet(OpenLeases(r))
<1>1. IsFiniteSet(Lease)
    BY FS_Interval DEF Lease
<1> QED BY <1>1, FS_Subset DEF OpenLeases

(* A new root counts its one lease; no other count is touched. *)
LEMMA CreateRootCounts ==
    ASSUME AdmissionInv, CountInv, NEW c \in Chain, CreateRootFor(c)
    PROVE  CountInv'
<1> USE DEF AdmissionInv, CountInv, CreateRootFor, RootsTyped, RootsLive,
            Root, Lease
<1>1. nextRoot \in Root /\ nextLease \in Lease
    OBVIOUS
<1>2. \A i \in Lease : nextLease' <= i => lease'[i].root = 0
    BY <1>1
<1>3. ASSUME NEW n, n = nextRoot
      PROVE  references'[n] = Cardinality(OpenLeases(n)')
    <2>1. \A i \in Lease : lease[i].root # n
        <3> TAKE i \in Lease
        <3>1. CASE i < nextLease
            BY <1>3, <3>1
        <3>2. CASE nextLease <= i
            BY <1>3, <3>2
        <3> QED BY <3>1, <3>2
    <2>2. OpenLeases(n)' = {nextLease}
        BY <1>1, <1>3, <2>1 DEF OpenLeases
    <2> QED BY <1>1, <1>3, <2>2, FS_Singleton
<1>4. ASSUME NEW r \in activeRootWork
      PROVE  references'[r] = Cardinality(OpenLeases(r)')
    <2>1. r # nextRoot /\ r # 0 /\ references'[r] = references[r]
        OBVIOUS
    <2>2. OpenLeases(r)' = OpenLeases(r)
        BY <1>1, <2>1 DEF OpenLeases
    <2>3. references[r] = Cardinality(OpenLeases(r))
        OBVIOUS
    <2> QED BY <2>1, <2>2, <2>3
<1>5. activeRootWork' = activeRootWork \cup {nextRoot}
    OBVIOUS
<1> QED BY <1>2, <1>3, <1>4, <1>5

(* Retaining a continuation adds one open lease and one to the count. *)
LEMMA RetainCounts ==
    ASSUME AdmissionInv, CountInv, NEW c \in Chain,
           RetainGatewayRootWorkAdmissionContinuation(c)
    PROVE  CountInv'
<1> USE DEF RetainGatewayRootWorkAdmissionContinuation
<1> SUFFICES ASSUME NEW k, k = currentRootWork[c] PROVE CountInv'
    OBVIOUS
<1>1. /\ nextLease \in Lease /\ nextLease \in Nat
      /\ k \in Root /\ k < nextRoot /\ k \in activeRootWork
    BY DEF AdmissionInv, RootsTyped, RootsLive, ChainsTyped, ChainsLive,
           HasLiveRoot, Root, Lease
<1>2. /\ lease' = [lease EXCEPT ![nextLease] = [root |-> k, released |-> FALSE]]
      /\ references' = [references EXCEPT ![k] = @ + 1]
      /\ activeRootWork' = activeRootWork
    OBVIOUS
<1>3. lease[nextLease].root = 0
    BY <1>1 DEF CountInv
<1>4. \A i \in Lease : nextLease' <= i => lease'[i].root = 0
    BY <1>1 DEF AdmissionInv, RootsTyped, CountInv, Lease
<1>5. OpenLeases(k)' = OpenLeases(k) \cup {nextLease}
    BY <1>1, <1>2 DEF OpenLeases, AdmissionInv, RootsTyped
<1>6. nextLease \notin OpenLeases(k)
    BY <1>1, <1>3 DEF OpenLeases, Root
<1>7. Cardinality(OpenLeases(k)') = Cardinality(OpenLeases(k)) + 1
    BY <1>5, <1>6, OpenLeasesFinite, FS_AddElement
<1>8. references'[k] = Cardinality(OpenLeases(k)')
    BY <1>1, <1>2, <1>7 DEF CountInv, AdmissionInv, RootsTyped
<1>9. ASSUME NEW r \in activeRootWork, r # k
      PROVE  references'[r] = Cardinality(OpenLeases(r)')
    <2>1. r \in Root /\ r # 0
        BY DEF AdmissionInv, RootsTyped, Root
    <2>2. OpenLeases(r)' = OpenLeases(r)
        BY <1>1, <1>2, <1>3, <1>9, <2>1 DEF OpenLeases, AdmissionInv, RootsTyped
    <2>3. references'[r] = references[r]
        BY <1>1, <1>2, <1>9, <2>1 DEF AdmissionInv, RootsTyped
    <2> QED BY <2>2, <2>3 DEF CountInv
<1> QED BY <1>2, <1>4, <1>8, <1>9 DEF CountInv

(* Releasing a lease takes exactly that one from its root's open leases. *)
LEMMA ReleaseOpenLeases ==
    ASSUME AdmissionInv, CountInv, NEW i \in Lease, ReleaseRootWork(i),
           NEW r, r = lease[i].root
    PROVE  /\ r \in activeRootWork
           /\ i \in OpenLeases(r)
           /\ OpenLeases(r)' = OpenLeases(r) \ {i}
           /\ \A s \in Root \ {r} : OpenLeases(s)' = OpenLeases(s)
           /\ Cardinality(OpenLeases(r)') = references[r] - 1
<1>1. r \in Root /\ r \in activeRootWork /\ ~lease[i].released
    BY DEF AdmissionInv, ReleaseRootWork, ReleaseIsNoOp, RootsTyped, RootsLive
<1>2. lease' = [lease EXCEPT ![i].released = TRUE]
    BY DEF ReleaseRootWork
<1>3. i \in OpenLeases(r)
    BY <1>1 DEF OpenLeases
<1>4. OpenLeases(r)' = OpenLeases(r) \ {i}
    BY <1>2 DEF OpenLeases, AdmissionInv, RootsTyped
<1>5. \A s \in Root \ {r} : OpenLeases(s)' = OpenLeases(s)
    BY <1>2 DEF OpenLeases, AdmissionInv, RootsTyped
<1>6. Cardinality(OpenLeases(r)') = Cardinality(OpenLeases(r)) - 1
    BY <1>3, <1>4, OpenLeasesFinite, FS_RemoveElement
<1> QED BY <1>1, <1>3, <1>4, <1>5, <1>6 DEF CountInv

(* Releasing a lease keeps every count right. *)
LEMMA ReleaseCounts ==
    ASSUME AdmissionInv, CountInv, NEW i \in Lease, ReleaseRootWork(i)
    PROVE  CountInv'
<1> SUFFICES ASSUME NEW r, r = lease[i].root PROVE CountInv'
    OBVIOUS
<1>1. /\ lease' = [lease EXCEPT ![i].released = TRUE]
      /\ references' = [references EXCEPT ![r] = @ - 1]
      /\ activeRootWork' \subseteq activeRootWork
      /\ nextLease' = nextLease
    BY DEF ReleaseRootWork
<1>2. \A j \in Lease : nextLease' <= j => lease'[j].root = 0
    BY <1>1 DEF CountInv, AdmissionInv, RootsTyped
<1>3. ASSUME NEW s \in activeRootWork
      PROVE  references'[s] = Cardinality(OpenLeases(s)')
    <2>1. s \in Root
        BY DEF AdmissionInv, RootsTyped
    <2> QED BY <1>1, <2>1, ReleaseOpenLeases
            DEF CountInv, AdmissionInv, RootsTyped
<1> QED BY <1>1, <1>2, <1>3 DEF CountInv

(* Every step keeps the counts. *)
LEMMA CountStep == AdmissionInv /\ CountInv /\ [Next]_vars => CountInv'
<1> SUFFICES ASSUME AdmissionInv, CountInv, [Next]_vars PROVE CountInv'
    OBVIOUS
<1>1. CASE UNCHANGED rootVars
    BY <1>1 DEF CountInv, OpenLeases, rootVars
<1>2. ASSUME NEW c \in Chain, NEW opening, AdmissionRound(c, opening)
      PROVE  CountInv'
    BY <1>1, <1>2, CreateRootCounts DEF AdmissionRound
<1>3. CASE WorkNext
    BY <1>1, <1>2, <1>3, CreateRootCounts, RetainCounts, ReleaseCounts
    DEF WorkNext, ChainArrives, ChainEnds, ChainSpawns,
        TryBeginGatewayRootWorkAdmission, BeginGatewayRootWorkAdmissionWhenOpen,
        RunWithGatewayIndependentRootWorkAdmission, AdmissionRetries,
        RunWithGatewayIndependentRootWorkContinuation,
        WaitForActiveGatewayRootWork, RootDrainTimesOut, RootDrainReturns
<1>4. CASE ResetGatewayWorkAdmission
    BY <1>4 DEF ResetGatewayWorkAdmission, ResetAdmissionState, CountInv
<1>5. CASE Next /\ ~WorkNext /\ ~ResetGatewayWorkAdmission
    BY <1>1, <1>5 DEF Next, BeginGatewayRestartSignalAdmission,
        RollbackRestartSignal, MarkGatewayRestartDraining,
        TryBeginGatewaySuspendAdmission, CommitSuspend, RollbackSuspend,
        ReleaseSuspend, TransitionSuspend
<1>6. CASE UNCHANGED vars
    BY <1>1, <1>6 DEF vars
<1> QED BY <1>3, <1>4, <1>5, <1>6

(* The counts are right in every reachable state. *)
LEMMA CountInvariant == Spec => []CountInv
<1>1. Init => CountInv
    BY DEF Init, CountInv
<1> QED BY <1>1, CountStep, AdmissionInvariant, PTL DEF Spec

(* The two invariants together say what the counts mean. *)
LEMMA CountsAreRight == AdmissionInv /\ CountInv => RootsAreCounted
<1> SUFFICES ASSUME AdmissionInv, CountInv, NEW r \in Root
             PROVE  /\ r \in activeRootWork <=> r < nextRoot /\ ~released[r]
                    /\ r \in activeRootWork =>
                          /\ OpenLeases(r) # {}
                          /\ references[r] = Cardinality(OpenLeases(r))
    BY DEF RootsAreCounted
<1>1. r \in activeRootWork <=> r < nextRoot /\ ~released[r]
    BY DEF AdmissionInv, RootsLive
<1>2. ASSUME r \in activeRootWork
      PROVE  /\ OpenLeases(r) # {}
             /\ references[r] = Cardinality(OpenLeases(r))
    <2>1. references[r] = Cardinality(OpenLeases(r)) /\ references[r] > 0
        BY <1>2 DEF AdmissionInv, RootsLive, CountInv
    <2> QED BY <2>1, FS_EmptySet
<1> QED BY <1>1, <1>2

(* An active root counts exactly its open leases and has at least one.    *)
THEOREM RootsAlwaysCounted == Spec => []RootsAreCounted
BY CountsAreRight, AdmissionInvariant, CountInvariant, PTL

(* A root that retires outside a reset has no open lease left: releasing  *)
(* a lease twice retires nothing.                                         *)
THEOREM RootsAlwaysEndWithTheirLeases == Spec => RootsEndWithTheirLeases
<1> DEFINE Ends == \A r \in activeRootWork \ activeRootWork' :
                \/ OpenLeases(r)' = {}
                \/ restartSignalGeneration' # restartSignalGeneration
<1>1. AdmissionInv /\ CountInv /\ [Next]_vars => [Ends]_vars
    <2> SUFFICES ASSUME AdmissionInv, CountInv, Next,
                        NEW r \in activeRootWork \ activeRootWork',
                        restartSignalGeneration' = restartSignalGeneration
                 PROVE  OpenLeases(r)' = {}
        OBVIOUS
    <2>1. ASSUME NEW i \in Lease, ReleaseRootWork(i) PROVE OpenLeases(r)' = {}
        <3>1. r = lease[i].root /\ ~(references[r] - 1 > 0)
            BY <2>1 DEF ReleaseRootWork
        <3>2. /\ Cardinality(OpenLeases(r)') = references[r] - 1
              /\ OpenLeases(r)' = OpenLeases(r) \ {i}
            BY <2>1, <3>1, ReleaseOpenLeases
        <3>3. references[r] \in Nat /\ references[r] > 0
            BY DEF AdmissionInv, RootsTyped, RootsLive
        <3>4. IsFiniteSet(OpenLeases(r)')
            BY <3>2, OpenLeasesFinite, FS_Subset
        <3> QED BY <3>1, <3>2, <3>3, <3>4, FS_EmptySet
    <2>2. ASSUME activeRootWork \subseteq activeRootWork' PROVE FALSE
        BY <2>2
    <2>3. CASE WorkNext
        BY <2>1, <2>2, <2>3
        DEF WorkNext, rootVars, ChainArrives, ChainEnds, ChainSpawns,
            TryBeginGatewayRootWorkAdmission, CreateRootFor, AdmissionRound,
            BeginGatewayRootWorkAdmissionWhenOpen,
            RunWithGatewayIndependentRootWorkAdmission, AdmissionRetries,
            RunWithGatewayIndependentRootWorkContinuation,
            RetainGatewayRootWorkAdmissionContinuation,
            WaitForActiveGatewayRootWork, RootDrainTimesOut, RootDrainReturns
    <2>4. CASE ResetGatewayWorkAdmission
        BY <2>4 DEF ResetGatewayWorkAdmission, ResetAdmissionState,
                    AdmissionInv, FencesTyped, GenerationsTyped
    <2>5. CASE Next /\ ~WorkNext /\ ~ResetGatewayWorkAdmission
        BY <2>2, <2>5 DEF Next, rootVars, BeginGatewayRestartSignalAdmission,
            RollbackRestartSignal, MarkGatewayRestartDraining,
            TryBeginGatewaySuspendAdmission, CommitSuspend, RollbackSuspend,
            ReleaseSuspend, TransitionSuspend
    <2> QED BY <2>3, <2>4, <2>5
<1> QED BY <1>1, AdmissionInvariant, CountInvariant, PTL
        DEF Spec, RootsEndWithTheirLeases

-----------------------------------------------------------------------------
(* The coordinator, on top of admission. *)

(* A paused scheduler is somebody's responsibility: the entry's, until it *)
(* is resumed, or the restart's, until the next server starts.            *)
PausedHasOwner ==
    scheduler = "paused" => current.kind # "none" \/ restartDraining

(* An entry is bound to one of the two lease operations that reopen. *)
EntryReopens ==
    current.kind # "none" => current.reopen \in {"release", "rollback"}

(* SuspendTypeOK without the timer, and what an absent entry is. *)
EntryTyped ==
    /\ current.kind \in {"none", "held", "recovering"}
    /\ current.owner \in Nat
    /\ current.reopen \in {"none", "release", "rollback"}
    /\ scheduler \in {"running", "paused"}
    /\ current.kind = "none" => current = NoEntry

TimerArmed == current.timer = (current.kind # "none")

CoordinatorInv ==
    /\ EntryTyped /\ TimerArmed /\ suspendGeneration \in Nat
    /\ EntryReopens /\ NoOrphanFence /\ FenceHasItsCallback
    /\ NoResumeUnderLease /\ PausedHasOwner

-----------------------------------------------------------------------------
(* Requests, timers, detached work and drain calls touch no fence. *)
LEMMA WorkKeepsFences == WorkNext => UNCHANGED <<fenceVars, leaseVars>>
  <1> USE DEF fenceVars, leaseVars
  <1>1. ASSUME NEW c \in Chain,
               \/ ChainArrives(c) \/ ChainEnds(c)
               \/ TryBeginGatewayRootWorkAdmission(c)
               \/ BeginGatewayRootWorkAdmissionWhenOpen(c)
               \/ RunWithGatewayIndependentRootWorkAdmission(c)
               \/ AdmissionRetries(c)
               \/ RetainGatewayRootWorkAdmissionContinuation(c)
        PROVE  UNCHANGED <<fenceVars, leaseVars>>
    BY <1>1 DEF ChainArrives, ChainEnds, TryBeginGatewayRootWorkAdmission,
                BeginGatewayRootWorkAdmissionWhenOpen,
                RunWithGatewayIndependentRootWorkAdmission, AdmissionRetries,
                RetainGatewayRootWorkAdmissionContinuation
  <1>2. ASSUME NEW c \in Chain, NEW d \in Chain,
               \/ ChainSpawns(c, d)
               \/ RunWithGatewayIndependentRootWorkContinuation(c, d)
        PROVE  UNCHANGED <<fenceVars, leaseVars>>
    BY <1>2 DEF ChainSpawns, RunWithGatewayIndependentRootWorkContinuation
  <1>3. ASSUME NEW i \in Lease, ReleaseRootWork(i)
        PROVE  UNCHANGED <<fenceVars, leaseVars>>
    BY <1>3 DEF ReleaseRootWork
  <1>4. ASSUME NEW w \in DrainWaiter,
               \/ \E zero \in BOOLEAN : WaitForActiveGatewayRootWork(w, zero)
               \/ RootDrainTimesOut(w) \/ RootDrainReturns(w)
        PROVE  UNCHANGED <<fenceVars, leaseVars>>
    BY <1>4 DEF WaitForActiveGatewayRootWork, RootDrainTimesOut,
                RootDrainReturns
  <1> QED BY <1>1, <1>2, <1>3, <1>4 DEF WorkNext

(* Whoever leaves the suspension fence, its leases, the entry, the        *)
(* scheduler and the drain alone keeps the invariant.                     *)
LEMMA CoordinatorFrame ==
  ASSUME CoordinatorInv,
         UNCHANGED <<suspendPhase, suspendGeneration, suspendInvalidated,
                     suspendLeases, restartDraining, current, scheduler>>
  PROVE  CoordinatorInv'
  BY DEF CoordinatorInv, EntryTyped, TimerArmed, EntryReopens,
         NoOrphanFence, PhaseOf,
         FenceHasItsCallback, NoResumeUnderLease, PausedHasOwner

(* An open fence, no entry and a running or forgotten scheduler. *)
LEMMA NoEntryIsSound ==
  ASSUME current = NoEntry, suspendPhase = "accepting",
         suspendInvalidated = 0, suspendGeneration \in Nat,
         scheduler \in {"running", "paused"},
         scheduler = "paused" => restartDraining
  PROVE  CoordinatorInv
  <1>1. EntryTyped
    BY DEF EntryTyped, NoEntry
  <1>2. TimerArmed
    <2>1. current.timer = FALSE /\ current.kind = "none"
      BY DEF NoEntry
    <2> QED BY <2>1 DEF TimerArmed
  <1>3. /\ EntryReopens /\ NoOrphanFence /\ FenceHasItsCallback
        /\ NoResumeUnderLease /\ PausedHasOwner
    BY DEF EntryReopens, NoOrphanFence, FenceHasItsCallback,
           NoResumeUnderLease, PausedHasOwner, NoEntry
  <1> QED BY <1>1, <1>2, <1>3 DEF CoordinatorInv

(* The same of the next state. *)
LEMMA NoEntryNext ==
  ASSUME current' = NoEntry, suspendPhase' = "accepting",
         suspendInvalidated' = 0, suspendGeneration' \in Nat,
         scheduler' \in {"running", "paused"},
         scheduler' = "paused" => restartDraining'
  PROVE  CoordinatorInv'
  <1>1. EntryTyped'
    BY DEF EntryTyped, NoEntry
  <1>2. TimerArmed'
    <2>1. current'.timer = FALSE /\ current'.kind = "none"
      BY DEF NoEntry
    <2> QED BY <2>1 DEF TimerArmed
  <1>3. /\ EntryReopens' /\ NoOrphanFence' /\ FenceHasItsCallback'
        /\ NoResumeUnderLease' /\ PausedHasOwner'
    BY DEF EntryReopens, NoOrphanFence, FenceHasItsCallback,
           NoResumeUnderLease, PausedHasOwner, NoEntry
  <1> QED BY <1>1, <1>2, <1>3 DEF CoordinatorInv

LEMMA CoordinatorInit == SuspendInit => CoordinatorInv
  BY NoEntryIsSound DEF SuspendInit, Init

(* resumeAndReopen: with an entry the lease applies, so a resumed         *)
(* scheduler and an open fence come together, or neither does.            *)
LEMMA ReopenStep ==
  ASSUME CoordinatorInv, current.kind # "none",
         NEW resumed \in BOOLEAN, ResumeAndReopen(resumed)
  PROVE  CoordinatorInv'
  <1>1. TransitionApplies(current.owner, PhaseOf(current.reopen))
    BY DEF CoordinatorInv, NoOrphanFence, TransitionApplies
  <1>2. CASE resumed
    <2>1. /\ current' = NoEntry /\ scheduler' = "running"
          /\ suspendPhase' = "accepting" /\ suspendInvalidated' = 0
          /\ suspendGeneration' = suspendGeneration
      BY <1>1, <1>2 DEF ResumeAndReopen, TransitionSuspend
    <2> QED BY <2>1, NoEntryNext DEF CoordinatorInv
  <1>3. CASE ~resumed
    <2>1. /\ current' = Recovering(current.owner, current.reopen)
          /\ UNCHANGED <<vars, scheduler>>
      BY <1>3 DEF ResumeAndReopen
    <2>2. /\ current'.kind = "recovering" /\ current'.timer = TRUE
          /\ current'.owner = current.owner
          /\ current'.reopen = current.reopen
      BY <2>1 DEF Recovering, NoEntry
    <2> QED BY <2>1, <2>2 DEF vars, fenceVars, leaseVars, CoordinatorInv,
               EntryTyped, TimerArmed, EntryReopens, NoOrphanFence, PhaseOf,
               FenceHasItsCallback, NoResumeUnderLease, PausedHasOwner
  <1> QED BY <1>2, <1>3

(* prepareGatewaySuspend: each outcome leaves fence, entry and scheduler  *)
(* in agreement.                                                          *)
LEMMA PrepareStep ==
  ASSUME CoordinatorInv, NEW c \in Chain, NEW req \in Request,
         NEW expired \in BOOLEAN, NEW otherWork \in BOOLEAN,
         NEW outcome \in {"refused", "stuck", "stuckCommitted", "ready"},
         PrepareGatewaySuspend(c, req, expired, otherWork, outcome)
  PROVE  CoordinatorInv'
  <1>1. suspendGeneration + 1 \in Nat
    BY DEF CoordinatorInv
  <1>2. LeaseOutcome(c, req, outcome)
    BY DEF PrepareGatewaySuspend
  <1> USE DEF CoordinatorInv, EntryTyped, TimerArmed, EntryReopens,
              NoOrphanFence,
              PhaseOf, FenceHasItsCallback, NoResumeUnderLease,
              PausedHasOwner
  <1>3. CASE outcome = "refused"
    BY <1>1, <1>2, <1>3 DEF LeaseOutcome, NoEntry
  <1>4. CASE outcome = "stuck"
    BY <1>1, <1>2, <1>4 DEF LeaseOutcome, Recovering, NoEntry
  <1>5. CASE outcome = "stuckCommitted"
    BY <1>1, <1>2, <1>5 DEF LeaseOutcome, Recovering, NoEntry
  <1>6. CASE outcome = "ready"
    BY <1>1, <1>2, <1>6 DEF LeaseOutcome, Held
  <1> QED BY <1>3, <1>4, <1>5, <1>6

(* A restart: the entry that goes is the one of the fence that opens. *)
LEMMA RestartStep ==
  ASSUME CoordinatorInv, RestartDrains \/ InProcessRestart
  PROVE  CoordinatorInv'
  <1>1. OnInvalidated
    BY DEF RestartDrains, InProcessRestart
  <1>2. current' = NoEntry
    <2>1. CASE current.kind = "none"
      BY <1>1, <2>1 DEF OnInvalidated, CoordinatorInv, EntryTyped
    <2>2. CASE current.kind # "none"
      BY <1>1, <2>2 DEF OnInvalidated, CoordinatorInv, EntryReopens,
         NoOrphanFence, PhaseOf, FenceHasItsCallback
    <2> QED BY <2>1, <2>2
  <1>3. CASE RestartDrains
    <2>1. /\ suspendPhase' = "accepting" /\ suspendInvalidated' = 0
          /\ suspendGeneration' \in Nat
      BY <1>3 DEF RestartDrains, MarkGatewayRestartDraining,
         MarkSupersedesSuspension, InvalidateSuspendAdmission,
         CoordinatorInv, FenceHasItsCallback
    <2>2. restartDraining' /\ scheduler' \in {"running", "paused"}
      BY <1>3 DEF RestartDrains, MarkGatewayRestartDraining, CoordinatorInv,
         EntryTyped
    <2> QED BY <1>2, <2>1, <2>2, NoEntryNext
  <1>4. CASE InProcessRestart
    <2>1. /\ suspendPhase' = "accepting" /\ suspendInvalidated' = 0
          /\ suspendGeneration' \in Nat /\ scheduler' = "running"
      BY <1>4 DEF InProcessRestart, ResetGatewayWorkAdmission,
         ResetAdmissionState, InvalidateSuspendAdmission, CoordinatorInv
    <2> QED BY <1>2, <2>1, NoEntryNext
  <1> QED BY <1>3, <1>4

-----------------------------------------------------------------------------
LEMMA CoordinatorStep ==
  CoordinatorInv /\ [SuspendNext]_suspendVars => CoordinatorInv'
  <1> SUFFICES ASSUME CoordinatorInv, [SuspendNext]_suspendVars
               PROVE  CoordinatorInv'
    OBVIOUS
  <1>1. ASSUME \/ WorkNext \/ BeginGatewayRestartSignalAdmission
               \/ \E g \in signalLeases : RollbackRestartSignal(g),
               UNCHANGED <<current, scheduler>>
        PROVE  CoordinatorInv'
    <2>1. UNCHANGED <<suspendPhase, suspendGeneration, suspendInvalidated,
                      suspendLeases, restartDraining>>
      BY <1>1, WorkKeepsFences DEF fenceVars, leaseVars,
         BeginGatewayRestartSignalAdmission, RollbackRestartSignal
    <2> QED BY <1>1, <2>1, CoordinatorFrame
  <1>2. CASE RestartDrains \/ InProcessRestart
    BY <1>2, RestartStep
  <1>3. ASSUME NEW resumed \in BOOLEAN,
               \/ TimerFires(resumed) \/ ResumeGatewaySuspend(resumed)
               \/ \E c \in Chain : PrepareFindsExpired(c, resumed)
        PROVE  CoordinatorInv'
    <2>1. current.kind # "none" /\ ResumeAndReopen(resumed)
      BY <1>3 DEF TimerFires, ResumeGatewaySuspend, PrepareFindsExpired,
         CoordinatorInv, TimerArmed
    <2> QED BY <2>1, ReopenStep
  <1>4. ASSUME NEW c \in Chain,
               PrepareRequestArrives(c) \/ PrepareRequestEnds(c)
        PROVE  CoordinatorInv'
    BY <1>4, CoordinatorFrame DEF PrepareRequestArrives, PrepareRequestEnds,
       fenceVars, leaseVars
  <1>5. CASE UNCHANGED suspendVars
    BY <1>5, CoordinatorFrame DEF suspendVars, vars, fenceVars, leaseVars
  <1> QED BY <1>1, <1>2, <1>3, <1>4, <1>5, PrepareStep DEF SuspendNext

(* The invariant of the coordinator: entry, timer, fence, lease, callback *)
(* and scheduler agree between any two calls, restarts included.          *)
THEOREM CoordinatorInvariant == SuspendSpec => []CoordinatorInv
  BY CoordinatorInit, CoordinatorStep, PTL DEF SuspendSpec

(* The coordinator's state has its shape and no entry is without its      *)
(* timer (enterSchedulerRecovery, armSchedulerRecovery,                   *)
(* armExpiry).                                                            *)
THEOREM CoordinatorTypes == SuspendSpec => []SuspendTypeOK
  <1>1. CoordinatorInv => SuspendTypeOK
    BY DEF CoordinatorInv, EntryTyped, TimerArmed, SuspendTypeOK
  <1> QED BY <1>1, CoordinatorInvariant, PTL

(* A closed suspension fence always has an entry that can reopen it, and  *)
(* an entry always has the fence it would reopen.                         *)
THEOREM NoFenceIsOrphaned == SuspendSpec => []NoOrphanFence
  <1>1. CoordinatorInv => NoOrphanFence
    BY DEF CoordinatorInv
  <1> QED BY <1>1, CoordinatorInvariant, PTL

(* Work is never admitted while the scheduler is paused, whatever resuming*)
(* it does and whenever a restart interferes.                             *)
THEOREM AlwaysFailClosed == SuspendSpec => []FailClosed
  <1>1. CoordinatorInv => FailClosed
    BY DEF CoordinatorInv, EntryReopens, NoOrphanFence, PhaseOf,
           PausedHasOwner, FailClosed, IsGatewayWorkAdmissionClosed,
           IsGatewayRestartDraining
  <1> QED BY <1>1, CoordinatorInvariant, PTL

(* The scheduler stays paused as long as an entry exists. *)
THEOREM NeverResumedUnderLease == SuspendSpec => []NoResumeUnderLease
  <1>1. CoordinatorInv => NoResumeUnderLease
    BY DEF CoordinatorInv
  <1> QED BY <1>1, CoordinatorInvariant, PTL

(* The three together: scheduler, entry and fence never disagree. *)
THEOREM SchedulerAlwaysAgrees == SuspendSpec => []SchedulerInv
  BY CoordinatorTypes, AlwaysFailClosed, NeverResumedUnderLease, PTL
     DEF SchedulerInv

-----------------------------------------------------------------------------
(* Quiet while held.  That no second root becomes active behind the held  *)
(* fence is not inductive: a chain inside prepare's own root could reserve*)
(* another one through the fence.  None is, because that root belongs to  *)
(* the chain of the request alone, which starts nothing and takes it along*)
(* when it ends.                                                          *)

(* A chain that does not execute has no store. *)
FreeHasNoRoot == \A c \in Chain : chain[c] = "free" => currentRootWork[c] = 0

InPrepare(c) == chain[c] \in {"suspending", "responding"}

(* The root of a prepare request is in no other chain. *)
PrepareRootIsPrivate ==
    \A c, d \in Chain :
        InPrepare(c) /\ currentRootWork[c] # 0
          /\ currentRootWork[d] = currentRootWork[c] => d = c

(* Nobody but the request itself works in the root of a held lease. *)
HeldRootIsInert ==
    current.kind = "held" /\ current.root # 0 =>
        \A d \in Chain : currentRootWork[d] = current.root => InPrepare(d)

QuietParts ==
    /\ FreeHasNoRoot /\ PrepareRootIsPrivate /\ HeldRootIsInert
    /\ QuietWhileHeld


-----------------------------------------------------------------------------
(* Admission under the coordinator.  Every step of the composed system is *)
(* a step of admission alone, or one of the three of a prepare request.   *)
RequestStep(c) ==
    \/ PrepareRequestArrives(c)
    \/ PrepareRequestEnds(c)
    \/ \E req \in Request, expired, otherWork \in BOOLEAN,
          outcome \in {"refused", "stuck", "stuckCommitted", "ready"} :
             PrepareGatewaySuspend(c, req, expired, otherWork, outcome)

(* An entry's lease operation is one that admission knows. *)
LEMMA ReopenIsAdmissions ==
  ASSUME CoordinatorInv, current.kind # "none",
         NEW resumed \in BOOLEAN, ResumeAndReopen(resumed)
  PROVE  [Next]_vars
  <1>1. CASE UNCHANGED vars
    BY <1>1
  <1>2. CASE TransitionSuspend(current.owner, PhaseOf(current.reopen),
                               "accepting")
    <2>1. current.owner \in suspendLeases
      BY <1>2 DEF TransitionSuspend
    <2>2. \/ RollbackSuspend(current.owner) \/ ReleaseSuspend(current.owner)
      BY <1>2 DEF RollbackSuspend, ReleaseSuspend, PhaseOf
    <2> QED BY <2>1, <2>2 DEF Next
  <1> QED BY <1>1, <1>2 DEF ResumeAndReopen

LEMMA StepIsAdmissionsOrRequests ==
  ASSUME CoordinatorInv, [SuspendNext]_suspendVars
  PROVE  [Next]_vars \/ \E c \in Chain : RequestStep(c)
  <1>1. CASE WorkNext \/ BeginGatewayRestartSignalAdmission
               \/ \E g \in signalLeases : RollbackRestartSignal(g)
    BY <1>1 DEF Next
  <1>2. CASE RestartDrains \/ InProcessRestart
    BY <1>2 DEF RestartDrains, InProcessRestart, Next
  <1>3. ASSUME NEW resumed \in BOOLEAN,
               \/ TimerFires(resumed) \/ ResumeGatewaySuspend(resumed)
               \/ \E c \in Chain : PrepareFindsExpired(c, resumed)
        PROVE  [Next]_vars
    <2>1. current.kind # "none" /\ ResumeAndReopen(resumed)
      BY <1>3 DEF TimerFires, ResumeGatewaySuspend, PrepareFindsExpired,
         CoordinatorInv, TimerArmed
    <2> QED BY <2>1, ReopenIsAdmissions
  <1>4. CASE UNCHANGED suspendVars
    BY <1>4 DEF suspendVars
  <1> QED BY <1>1, <1>2, <1>3, <1>4 DEF SuspendNext, RequestStep

(* A request that arrives gets a root through an open fence only. *)
LEMMA ArrivalKeepsAdmission ==
  ASSUME AdmissionInv, NEW c \in Chain, PrepareRequestArrives(c)
  PROVE  AdmissionInv'
  <1> USE DEF AdmissionInv
  <1>1. /\ chain' = [chain EXCEPT ![c] = "suspending"] /\ chain[c] = "free"
        /\ UNCHANGED <<fenceVars, suspendOpenWaiters, leaseVars, drainVars>>
    BY DEF PrepareRequestArrives
  <1>2. /\ FencesTyped' /\ RestartSupersedesSuspension' /\ FenceHasItsCallback'
        /\ IsGatewayWorkAdmissionClosed' = IsGatewayWorkAdmissionClosed
        /\ restartDraining' = restartDraining
    BY <1>1, FencesFrame
  <1>3. /\ RootsTyped' /\ RootsLive' /\ ChainsLive'
        /\ currentRootWork' \in [Chain -> Root \cup {0}]
        /\ activeRootWork # {} => activeRootWork' # {}
    <2>1. CASE UNCHANGED <<rootVars, currentRootWork>>
      <3>1. RootsTyped' /\ RootsLive'
        BY <2>1, RootsFrame
      <3> QED BY <2>1, <3>1 DEF rootVars, ChainsLive, ChainsTyped
    <2>2. CASE CreateRootFor(c)
      BY <2>2, CreateRootStep
    <2> QED BY <2>1, <2>2 DEF PrepareRequestArrives
  <1>4. ChainsTyped'
    BY <1>1, <1>3 DEF ChainsTyped, ChainState
  <1>5. NoLostOpenWaiter'
    BY <1>1, <1>2 DEF NoLostOpenWaiter, ChainsTyped
  <1>6. DrainsTyped' /\ NoLostDrainCall'
    BY <1>1, <1>3, DrainsFrame
  <1> QED BY <1>2, <1>3, <1>4, <1>5, <1>6

(* A request that is answered leaves its root behind. *)
LEMMA AnswerKeepsAdmission ==
  ASSUME AdmissionInv, NEW c \in Chain, PrepareRequestEnds(c)
  PROVE  AdmissionInv'
  <1> USE DEF AdmissionInv
  <1>1. /\ chain' = [chain EXCEPT ![c] = "free"]
        /\ currentRootWork' = [currentRootWork EXCEPT ![c] = 0]
        /\ chain[c] \in {"suspending", "responding"}
        /\ UNCHANGED <<fenceVars, rootVars, suspendOpenWaiters, leaseVars,
                       drainVars>>
    BY DEF PrepareRequestEnds
  <1>2. /\ FencesTyped' /\ RestartSupersedesSuspension' /\ FenceHasItsCallback'
        /\ IsGatewayWorkAdmissionClosed' = IsGatewayWorkAdmissionClosed
        /\ restartDraining' = restartDraining
    BY <1>1, FencesFrame
  <1>3. RootsTyped' /\ RootsLive'
    BY <1>1, RootsFrame
  <1>4. ChainsTyped'
    BY <1>1 DEF ChainsTyped, ChainState
  <1>5. ChainsLive'
    <2>1. nextRoot' = nextRoot /\ nextRoot \in Nat /\ 0 < nextRoot
      BY <1>1 DEF rootVars, RootsTyped
    <2> QED BY <1>1, <2>1 DEF ChainsTyped, ChainsLive
  <1>6. NoLostOpenWaiter'
    BY <1>1, <1>2 DEF NoLostOpenWaiter, ChainsTyped
  <1>7. DrainsTyped' /\ NoLostDrainCall'
    BY <1>1, DrainsFrame DEF rootVars
  <1> QED BY <1>2, <1>3, <1>4, <1>5, <1>6, <1>7

(* prepareGatewaySuspend: whoever still waits at the fence afterwards     *)
(* waits at a closed one.                                                 *)
LEMMA PrepareKeepsAdmission ==
  ASSUME AdmissionInv, NEW c \in Chain, NEW req \in Request,
         NEW expired \in BOOLEAN, NEW otherWork \in BOOLEAN,
         NEW outcome \in {"refused", "stuck", "stuckCommitted", "ready"},
         PrepareGatewaySuspend(c, req, expired, otherWork, outcome)
  PROVE  AdmissionInv'
  <1> USE DEF AdmissionInv
  <1>1. /\ chain[c] = "suspending"
        /\ chain' = [chain EXCEPT ![c] = "responding"]
        /\ UNCHANGED <<restartDraining, restartSignalPending,
                       restartSignalGeneration, rootVars, currentRootWork,
                       signalLeases, drainVars>>
        /\ ~restartDraining /\ ~restartSignalPending
        /\ \/ suspendOpenWaiters' = {}
           \/ suspendOpenWaiters' = suspendOpenWaiters /\ outcome # "refused"
    BY DEF PrepareGatewaySuspend, ResolveSuspendOpenWaiters,
           IsGatewayRestartDraining
  <1>2. LeaseOutcome(c, req, outcome)
    BY DEF PrepareGatewaySuspend
  <1>3. /\ suspendGeneration' = suspendGeneration + 1
        /\ suspendLeases' = suspendLeases \cup {suspendGeneration + 1}
        /\ suspendPhase' \in Phase
        /\ suspendPhase' = "accepting" <=> outcome = "refused"
        /\ suspendInvalidated' = IF outcome = "refused" THEN 0
                                 ELSE suspendGeneration + 1
    BY <1>2 DEF LeaseOutcome, Phase
  <1>4. FlagsTyped'
    BY <1>1 DEF FencesTyped, FlagsTyped
  <1>5. GenerationsTyped'
    <2>1. suspendGeneration + 1 \in Nat
      BY DEF FencesTyped, GenerationsTyped
    <2>2. suspendLeases' \in SUBSET Nat
      BY <1>3, <2>1 DEF FencesTyped, GenerationsTyped
    <2> QED BY <1>1, <1>3, <2>1, <2>2 DEF FencesTyped, GenerationsTyped
  <1>6. RestartSupersedesSuspension' /\ FenceHasItsCallback'
    BY <1>1, <1>3 DEF RestartSupersedesSuspension, FenceHasItsCallback
  <1>7. RootsTyped' /\ RootsLive'
    BY <1>1, RootsFrame
  <1>8. DrainsTyped' /\ NoLostDrainCall'
    BY <1>1, DrainsFrame DEF rootVars
  <1>9. ChainsTyped' /\ ChainsLive'
    BY <1>1 DEF ChainsTyped, ChainState, ChainsLive, rootVars
  <1>10. NoLostOpenWaiter'
    BY <1>1, <1>3 DEF NoLostOpenWaiter, ChainsTyped,
       IsGatewayWorkAdmissionClosed
  <1> QED BY <1>4, <1>5, <1>6, <1>7, <1>8, <1>9, <1>10 DEF FencesTyped

LEMMA AdmissionUnderCoordinator ==
  AdmissionInv /\ CoordinatorInv /\ [SuspendNext]_suspendVars => AdmissionInv'
  BY StepIsAdmissionsOrRequests, AdmissionStep, ArrivalKeepsAdmission,
     AnswerKeepsAdmission, PrepareKeepsAdmission DEF RequestStep

LEMMA CountsUnderCoordinator ==
  AdmissionInv /\ CountInv /\ CoordinatorInv /\ [SuspendNext]_suspendVars
    => CountInv'
  <1> SUFFICES ASSUME AdmissionInv, CountInv, CoordinatorInv,
                      [SuspendNext]_suspendVars
               PROVE  CountInv'
    OBVIOUS
  <1>1. CASE UNCHANGED rootVars
    BY <1>1 DEF CountInv, OpenLeases, rootVars
  <1>2. ASSUME NEW c \in Chain, RequestStep(c) PROVE CountInv'
    BY <1>1, <1>2, CreateRootCounts DEF RequestStep, PrepareRequestArrives,
       PrepareRequestEnds, PrepareGatewaySuspend
  <1> QED BY <1>2, StepIsAdmissionsOrRequests, CountStep


LEMMA QuietInit == SuspendInit => QuietParts
  BY DEF SuspendInit, Init, NoEntry, QuietParts, FreeHasNoRoot,
         PrepareRootIsPrivate, InPrepare, HeldRootIsInert, QuietWhileHeld

(* Behind the fence of a held lease no running chain has a live root. *)
LEMMA NobodyCrossesHeldFence ==
  ASSUME AdmissionInv, CoordinatorInv, QuietParts, current.kind = "held"
  PROVE  /\ IsGatewayWorkAdmissionClosed
         /\ \A c \in Chain : ~InPrepare(c) => ~HasLiveRoot(c)
  <1>1. IsGatewayWorkAdmissionClosed
    BY DEF CoordinatorInv, NoOrphanFence, PhaseOf,
           IsGatewayWorkAdmissionClosed
  <1>2. ASSUME NEW c \in Chain, HasLiveRoot(c) PROVE InPrepare(c)
    <2>1. currentRootWork[c] \in activeRootWork
      BY <1>2 DEF AdmissionInv, RootsLive, ChainsLive, ChainsTyped,
         HasLiveRoot
    <2>2. currentRootWork[c] = current.root /\ current.root # 0
      BY <1>2, <2>1 DEF QuietParts, QuietWhileHeld, HasLiveRoot
    <2> QED BY <2>2 DEF QuietParts, HeldRootIsInert
  <1> QED BY <1>1, <1>2

(* A round of the admission loop moves one chain that is in no prepare,   *)
(* and gives it at most a fresh root.                                     *)
WorkMoves(c) ==
    /\ ~InPrepare(c)
    /\ \E s \in {"running", "openingRoot", "openingIndependent"} :
          chain' = [chain EXCEPT ![c] = s]
    /\ \/ currentRootWork' = currentRootWork /\ activeRootWork' = activeRootWork
       \/ /\ currentRootWork' = [currentRootWork EXCEPT ![c] = nextRoot]
          /\ activeRootWork' = activeRootWork \cup {nextRoot}
          /\ ~IsGatewayWorkAdmissionClosed
             \/ \E d \in Chain : ~InPrepare(d) /\ HasLiveRoot(d)

LEMMA RoundMoves ==
  ASSUME NEW c \in Chain, ~InPrepare(c),
         NEW opening \in {"openingRoot", "openingIndependent"},
         AdmissionRound(c, opening)
  PROVE  WorkMoves(c)
  BY DEF AdmissionRound, WorkMoves, CreateRootFor, rootVars

(* What work does to chains and roots. *)
LEMMA WorkKinds ==
  ASSUME AdmissionInv, WorkNext
  PROVE  \/ \E c \in Chain : WorkMoves(c)
         \/ UNCHANGED chainVars /\ activeRootWork' \subseteq activeRootWork
         \/ \E c \in Chain : ChainEnds(c)
         \/ \E c, d \in Chain : ChainSpawns(c, d)
  <1>1. ASSUME NEW c \in Chain, ChainArrives(c) PROVE WorkMoves(c)
    BY <1>1 DEF ChainArrives, WorkMoves, InPrepare, rootVars
  <1>2. ASSUME NEW c \in Chain, TryBeginGatewayRootWorkAdmission(c)
        PROVE  WorkMoves(c)
    <2>1. chain' = [chain EXCEPT ![c] = "running"]
      BY <1>2 DEF TryBeginGatewayRootWorkAdmission, AdmissionInv, ChainsTyped
    <2> QED BY <1>2, <2>1 DEF TryBeginGatewayRootWorkAdmission, WorkMoves,
            CreateRootFor, InPrepare
  <1>3. ASSUME NEW c \in Chain,
               \/ BeginGatewayRootWorkAdmissionWhenOpen(c)
               \/ RunWithGatewayIndependentRootWorkAdmission(c)
               \/ AdmissionRetries(c)
        PROVE  WorkMoves(c)
    <2>1. ~InPrepare(c)
      BY <1>3 DEF BeginGatewayRootWorkAdmissionWhenOpen,
         RunWithGatewayIndependentRootWorkAdmission, AdmissionRetries,
         InPrepare
    <2>2. \E opening \in {"openingRoot", "openingIndependent"} :
              AdmissionRound(c, opening)
      BY <1>3 DEF BeginGatewayRootWorkAdmissionWhenOpen,
         RunWithGatewayIndependentRootWorkAdmission, AdmissionRetries
    <2> QED BY <2>1, <2>2, RoundMoves
  <1>4. ASSUME NEW c \in Chain, NEW d \in Chain,
               RunWithGatewayIndependentRootWorkContinuation(c, d)
        PROVE  WorkMoves(d)
    <2>1. ~InPrepare(c) /\ ~InPrepare(d)
      BY <1>4 DEF RunWithGatewayIndependentRootWorkContinuation, InPrepare
    <2>2. CASE AdmissionRound(d, "openingIndependent")
      BY <2>1, <2>2, RoundMoves
    <2>3. CASE HasLiveRoot(c) /\ CreateRootFor(d)
                 /\ chain' = [chain EXCEPT ![d] = "running"]
      BY <2>1, <2>3 DEF WorkMoves, CreateRootFor
    <2> QED BY <1>4, <2>2, <2>3
            DEF RunWithGatewayIndependentRootWorkContinuation
  <1>5. ASSUME NEW c \in Chain, RetainGatewayRootWorkAdmissionContinuation(c)
        PROVE  UNCHANGED chainVars /\ activeRootWork' \subseteq activeRootWork
    BY <1>5 DEF RetainGatewayRootWorkAdmissionContinuation
  <1>6. ASSUME NEW i \in Lease, ReleaseRootWork(i)
        PROVE  UNCHANGED chainVars /\ activeRootWork' \subseteq activeRootWork
    BY <1>6 DEF ReleaseRootWork
  <1>7. ASSUME NEW w \in DrainWaiter,
               \/ \E zero \in BOOLEAN : WaitForActiveGatewayRootWork(w, zero)
               \/ RootDrainTimesOut(w) \/ RootDrainReturns(w)
        PROVE  UNCHANGED chainVars /\ activeRootWork' \subseteq activeRootWork
    BY <1>7 DEF WaitForActiveGatewayRootWork, RootDrainTimesOut,
       RootDrainReturns, rootVars
  <1> QED BY <1>1, <1>2, <1>3, <1>4, <1>5, <1>6, <1>7 DEF WorkNext

(* Chains that are admitted. *)
LEMMA MovesKeepQuiet ==
  ASSUME AdmissionInv, CoordinatorInv, QuietParts, NEW c \in Chain,
         WorkMoves(c), UNCHANGED current
  PROVE  QuietParts'
  <1>1. \A d \in Chain :
            /\ chain[d] \in ChainState /\ currentRootWork[d] \in Nat
            /\ currentRootWork[d] < nextRoot
    BY DEF AdmissionInv, ChainsTyped, ChainsLive, Root
  <1>2. nextRoot \in Nat /\ nextRoot # 0
    BY DEF AdmissionInv, RootsTyped
  <1>3. /\ chain \in [Chain -> ChainState]
        /\ currentRootWork \in [Chain -> Root \cup {0}]
    BY DEF AdmissionInv, ChainsTyped
  <1>4. \A d \in Chain : InPrepare(d)' = InPrepare(d)
    BY <1>3 DEF WorkMoves, InPrepare
  <1>5. /\ chain'[c] # "free"
        /\ \A d \in Chain \ {c} : /\ chain'[d] = chain[d]
                                  /\ currentRootWork'[d] = currentRootWork[d]
    BY <1>3 DEF WorkMoves
  <1>6. currentRootWork'[c] \in {currentRootWork[c], nextRoot}
    BY <1>3 DEF WorkMoves
  <1>7. FreeHasNoRoot'
    BY <1>5 DEF QuietParts, FreeHasNoRoot
  <1>8. PrepareRootIsPrivate'
    BY <1>1, <1>2, <1>4, <1>5, <1>6 DEF QuietParts, PrepareRootIsPrivate,
       WorkMoves
  <1>9. CASE current.kind # "held"
    BY <1>7, <1>8, <1>9 DEF QuietParts, HeldRootIsInert, QuietWhileHeld
  <1>10. CASE current.kind = "held"
    <2>1. currentRootWork' = currentRootWork /\ activeRootWork' = activeRootWork
      BY <1>10, NobodyCrossesHeldFence DEF WorkMoves
    <2>2. HeldRootIsInert' /\ QuietWhileHeld'
      BY <1>4, <2>1 DEF QuietParts, HeldRootIsInert, QuietWhileHeld
    <2> QED BY <1>7, <1>8, <2>2 DEF QuietParts
  <1> QED BY <1>9, <1>10

(* Chains that end, also those of answered requests, and steps that leave *)
(* the chains alone.                                                      *)
LEMMA FewerKeepsQuiet ==
  ASSUME AdmissionInv, QuietParts, UNCHANGED current,
         activeRootWork' \subseteq activeRootWork,
         \/ UNCHANGED chainVars
         \/ \E c \in Chain :
              /\ chain' = [chain EXCEPT ![c] = "free"]
              /\ currentRootWork' = [currentRootWork EXCEPT ![c] = 0]
  PROVE  QuietParts'
  <1>1. QuietWhileHeld'
    BY DEF QuietParts, QuietWhileHeld
  <1>2. CASE UNCHANGED chainVars
    BY <1>1, <1>2 DEF QuietParts, FreeHasNoRoot, PrepareRootIsPrivate,
       HeldRootIsInert, InPrepare, chainVars
  <1>3. ASSUME NEW c \in Chain, chain' = [chain EXCEPT ![c] = "free"],
               currentRootWork' = [currentRootWork EXCEPT ![c] = 0]
        PROVE  QuietParts'
    <2>1. /\ chain'[c] = "free" /\ currentRootWork'[c] = 0
          /\ \A d \in Chain \ {c} : /\ chain'[d] = chain[d]
                                    /\ currentRootWork'[d] = currentRootWork[d]
      BY <1>3 DEF AdmissionInv, ChainsTyped
    <2>2. FreeHasNoRoot'
      BY <2>1 DEF QuietParts, FreeHasNoRoot
    <2>3. PrepareRootIsPrivate'
      BY <2>1 DEF QuietParts, PrepareRootIsPrivate, InPrepare
    <2>4. HeldRootIsInert'
      BY <2>1 DEF QuietParts, HeldRootIsInert, InPrepare
    <2> QED BY <1>1, <2>2, <2>3, <2>4 DEF QuietParts
  <1> QED BY <1>2, <1>3

(* Detached work inherits no prepare's root. *)
LEMMA SpawnKeepsQuiet ==
  ASSUME AdmissionInv, QuietParts, UNCHANGED current,
         NEW c \in Chain, NEW d \in Chain, ChainSpawns(c, d)
  PROVE  QuietParts'
  <1>1. /\ chain[c] = "running" /\ chain[d] = "free"
        /\ chain'[d] = "running" /\ currentRootWork'[d] = currentRootWork[c]
        /\ activeRootWork' = activeRootWork
        /\ \A e \in Chain \ {d} : /\ chain'[e] = chain[e]
                                  /\ currentRootWork'[e] = currentRootWork[e]
    BY DEF ChainSpawns, AdmissionInv, ChainsTyped, rootVars
  <1>2. ~InPrepare(c) /\ ~InPrepare(d)
        /\ \A e \in Chain : InPrepare(e)' = InPrepare(e)
    BY <1>1 DEF InPrepare
  <1>3. FreeHasNoRoot'
    BY <1>1 DEF QuietParts, FreeHasNoRoot
  <1>4. PrepareRootIsPrivate'
    BY <1>1, <1>2 DEF QuietParts, PrepareRootIsPrivate
  <1>5. HeldRootIsInert'
    BY <1>1, <1>2 DEF QuietParts, HeldRootIsInert
  <1>6. QuietWhileHeld'
    BY <1>1 DEF QuietParts, QuietWhileHeld
  <1> QED BY <1>3, <1>4, <1>5, <1>6 DEF QuietParts

(* An entry that is not held says nothing of the roots. *)
LEMMA UnheldIsQuiet ==
  ASSUME QuietParts, UNCHANGED chainVars, current'.kind # "held"
  PROVE  QuietParts'
  BY DEF QuietParts, FreeHasNoRoot, PrepareRootIsPrivate, HeldRootIsInert,
         QuietWhileHeld, InPrepare, chainVars

(* A request arrives with a fresh root, or with none through a fence.     *)
LEMMA ArrivalKeepsQuiet ==
  ASSUME AdmissionInv, CoordinatorInv, QuietParts, NEW c \in Chain,
         PrepareRequestArrives(c)
  PROVE  QuietParts'
  <1>1. /\ chain[c] = "free" /\ chain'[c] = "suspending"
        /\ \A d \in Chain \ {c} : chain'[d] = chain[d]
        /\ current' = current
        /\ currentRootWork[c] = 0
    BY DEF PrepareRequestArrives, AdmissionInv, ChainsTyped, QuietParts,
           FreeHasNoRoot
  <1>2. /\ InPrepare(c)' /\ ~InPrepare(c)
        /\ \A d \in Chain \ {c} : InPrepare(d)' = InPrepare(d)
    BY <1>1 DEF InPrepare
  <1>3. CASE IsGatewayWorkAdmissionClosed
    <2>1. UNCHANGED <<currentRootWork, activeRootWork>>
      BY <1>3 DEF PrepareRequestArrives, rootVars
    <2>2. FreeHasNoRoot'
      BY <1>1, <2>1 DEF QuietParts, FreeHasNoRoot
    <2>3. PrepareRootIsPrivate'
      BY <1>1, <1>2, <2>1 DEF QuietParts, PrepareRootIsPrivate
    <2>4. HeldRootIsInert' /\ QuietWhileHeld'
      BY <1>1, <1>2, <2>1 DEF QuietParts, HeldRootIsInert, QuietWhileHeld
    <2> QED BY <2>2, <2>3, <2>4 DEF QuietParts
  <1>4. CASE ~IsGatewayWorkAdmissionClosed
    <2>1. current'.kind # "held"
      BY <1>1, <1>4, NobodyCrossesHeldFence
    <2>2. /\ currentRootWork'[c] = nextRoot
          /\ \A d \in Chain \ {c} : currentRootWork'[d] = currentRootWork[d]
      BY <1>4 DEF PrepareRequestArrives, CreateRootFor, AdmissionInv,
         ChainsTyped
    <2>3. \A d \in Chain : currentRootWork[d] # nextRoot
      <3>1. nextRoot \in Nat
        BY DEF AdmissionInv, RootsTyped
      <3> QED BY <3>1 DEF AdmissionInv, ChainsLive
    <2>4. FreeHasNoRoot'
      BY <1>1, <2>2 DEF QuietParts, FreeHasNoRoot
    <2>5. PrepareRootIsPrivate'
      BY <1>2, <2>2, <2>3 DEF QuietParts, PrepareRootIsPrivate
    <2> QED BY <2>1, <2>4, <2>5 DEF QuietParts, HeldRootIsInert,
            QuietWhileHeld
  <1> QED BY <1>3, <1>4

(* prepareGatewaySuspend answers "ready" only when its own root is the    *)
(* last one.                                                              *)
LEMMA PrepareKeepsQuiet ==
  ASSUME AdmissionInv, QuietParts, NEW c \in Chain, NEW req \in Request,
         NEW expired \in BOOLEAN, NEW otherWork \in BOOLEAN,
         NEW outcome \in {"refused", "stuck", "stuckCommitted", "ready"},
         PrepareGatewaySuspend(c, req, expired, otherWork, outcome)
  PROVE  QuietParts'
  <1>1. /\ chain[c] = "suspending" /\ chain'[c] = "responding"
        /\ \A d \in Chain \ {c} : chain'[d] = chain[d]
        /\ UNCHANGED <<currentRootWork, activeRootWork>>
    BY DEF PrepareGatewaySuspend, AdmissionInv, ChainsTyped, rootVars
  <1>2. /\ InPrepare(c) /\ \A d \in Chain : InPrepare(d)' = InPrepare(d)
    BY <1>1 DEF InPrepare
  <1>3. FreeHasNoRoot' /\ PrepareRootIsPrivate'
    BY <1>1, <1>2 DEF QuietParts, FreeHasNoRoot, PrepareRootIsPrivate
  <1>4. CASE outcome = "ready"
    <2>1. current'.root = currentRootWork[c]
      BY <1>4 DEF PrepareGatewaySuspend, LeaseOutcome, Held
    <2>2. activeRootWork \subseteq {currentRootWork[c]}
      BY <1>4 DEF PrepareGatewaySuspend, Idle, ActiveRootsExcept
    <2>3. HeldRootIsInert'
      BY <1>1, <1>2, <2>1 DEF QuietParts, PrepareRootIsPrivate,
         HeldRootIsInert
    <2>4. QuietWhileHeld'
      BY <1>1, <2>1, <2>2 DEF QuietWhileHeld
    <2> QED BY <1>3, <2>3, <2>4 DEF QuietParts
  <1>5. CASE outcome # "ready"
    <2>1. current'.kind # "held"
      BY <1>5 DEF PrepareGatewaySuspend, LeaseOutcome, Recovering, NoEntry
    <2> QED BY <1>3, <2>1 DEF QuietParts, HeldRootIsInert, QuietWhileHeld
  <1> QED BY <1>4, <1>5

LEMMA QuietStep ==
  AdmissionInv /\ CoordinatorInv /\ QuietParts /\ [SuspendNext]_suspendVars
    => QuietParts'
  <1> SUFFICES ASSUME AdmissionInv, CoordinatorInv, QuietParts,
                      [SuspendNext]_suspendVars
               PROVE  QuietParts'
    OBVIOUS
  <1>1. ASSUME WorkNext, UNCHANGED current PROVE QuietParts'
    <2>1. ASSUME NEW c \in Chain, ChainEnds(c) PROVE QuietParts'
      BY <1>1, <2>1, FewerKeepsQuiet DEF ChainEnds, rootVars
    <2>2. ASSUME NEW c \in Chain, WorkMoves(c) PROVE QuietParts'
      BY <1>1, <2>2, MovesKeepQuiet
    <2>3. ASSUME NEW c \in Chain, NEW d \in Chain, ChainSpawns(c, d)
          PROVE  QuietParts'
      BY <1>1, <2>3, SpawnKeepsQuiet
    <2>4. CASE UNCHANGED chainVars /\ activeRootWork' \subseteq activeRootWork
      BY <1>1, <2>4, FewerKeepsQuiet
    <2> QED BY <1>1, <2>1, <2>2, <2>3, <2>4, WorkKinds
  <1>2. ASSUME \/ BeginGatewayRestartSignalAdmission
               \/ \E g \in signalLeases : RollbackRestartSignal(g),
               UNCHANGED current
        PROVE  QuietParts'
    BY <1>2, FewerKeepsQuiet DEF BeginGatewayRestartSignalAdmission,
       RollbackRestartSignal, rootVars
  <1>3. CASE RestartDrains \/ InProcessRestart
    <2>1. CoordinatorInv' /\ UNCHANGED chainVars
      BY <1>3, RestartStep DEF RestartDrains, InProcessRestart,
         MarkGatewayRestartDraining, ResetGatewayWorkAdmission
    <2>2. suspendPhase' = "accepting"
      BY <1>3 DEF RestartDrains, InProcessRestart,
         MarkGatewayRestartDraining, MarkSupersedesSuspension,
         ResetGatewayWorkAdmission, ResetAdmissionState,
         InvalidateSuspendAdmission
    <2>3. current'.kind # "held"
      BY <2>1, <2>2 DEF CoordinatorInv, NoOrphanFence, PhaseOf
    <2> QED BY <2>1, <2>3, UnheldIsQuiet
  <1>4. ASSUME NEW resumed \in BOOLEAN,
               \/ TimerFires(resumed) \/ ResumeGatewaySuspend(resumed)
               \/ \E c \in Chain : PrepareFindsExpired(c, resumed)
        PROVE  QuietParts'
    <2>1. ResumeAndReopen(resumed)
      BY <1>4 DEF TimerFires, ResumeGatewaySuspend, PrepareFindsExpired
    <2>2. UNCHANGED chainVars
      BY <2>1 DEF ResumeAndReopen, TransitionSuspend, vars
    <2>3. current'.kind # "held"
      <3>1. CASE current' = NoEntry
        BY <3>1 DEF NoEntry
      <3>2. CASE current' = Recovering(current.owner, current.reopen)
        BY <3>2 DEF Recovering, NoEntry
      <3> QED BY <2>1, <3>1, <3>2 DEF ResumeAndReopen
    <2> QED BY <2>2, <2>3, UnheldIsQuiet
  <1>5. ASSUME NEW c \in Chain, PrepareRequestEnds(c) PROVE QuietParts'
    BY <1>5, FewerKeepsQuiet DEF PrepareRequestEnds, rootVars
  <1>6. CASE UNCHANGED suspendVars
    BY <1>6, FewerKeepsQuiet DEF suspendVars, vars, rootVars
  <1> QED BY <1>1, <1>2, <1>3, <1>4, <1>5, <1>6, ArrivalKeepsQuiet,
          PrepareKeepsQuiet DEF SuspendNext


-----------------------------------------------------------------------------
(* The whole invariant of the composed system: admission, the reference   *)
(* counts, the coordinator and the roots behind a held fence.             *)
SuspendInv == AdmissionInv /\ CountInv /\ CoordinatorInv /\ QuietParts

(* It holds of every state of the composed system: the coordinator's steps*)
(* and admission's do not disturb each other (prepareGatewaySuspend,      *)
(* resumeAndReopen, createGatewayRootWorkAdmission).                      *)
THEOREM SuspendInvariant == SuspendSpec => []SuspendInv
  <1>1. SuspendInit => SuspendInv
    <2>1. Init => CountInv
      BY DEF Init, CountInv
    <2> QED BY <2>1, AdmissionInit, CoordinatorInit, QuietInit
            DEF SuspendInit, SuspendInv
  <1>2. SuspendInv /\ [SuspendNext]_suspendVars => SuspendInv'
    BY AdmissionUnderCoordinator, CountsUnderCoordinator, CoordinatorStep,
       QuietStep DEF SuspendInv
  <1> QED BY <1>1, <1>2, PTL DEF SuspendSpec

(* "ready" stays true: while the lease is held nothing but the prepare    *)
(* request's own root is active (createGatewayActiveWorkSnapshot, and the *)
(* continuations that may cross the fence).                               *)
THEOREM AlwaysQuietWhileHeld == SuspendSpec => []QuietWhileHeld
  <1>1. SuspendInv => QuietWhileHeld
    BY DEF SuspendInv, QuietParts
  <1> QED BY <1>1, SuspendInvariant, PTL

(* Under the coordinator, too, the fence agrees with those who wait at it *)
(* and with those who closed it, no drain call is lost and every root     *)
(* counts its open leases.                                                *)
THEOREM AdmissionHoldsUnderCoordinator ==
    SuspendSpec => [](TypeOK /\ FenceInv /\ NoLostDrainCall /\ RootsAreCounted)
  <1>1. SuspendInv => TypeOK
    BY DEF SuspendInv, AdmissionInv, TypeOK, FencesTyped, FlagsTyped,
           GenerationsTyped, RootsTyped, ChainsTyped, DrainsTyped
  <1>2. SuspendInv => FenceInv /\ NoLostDrainCall
    BY DEF SuspendInv, AdmissionInv, FenceInv
  <1>3. SuspendInv => RootsAreCounted
    BY CountsAreRight DEF SuspendInv
  <1> QED BY <1>1, <1>2, <1>3, SuspendInvariant, PTL

(* Under the coordinator, too, an empty active set stays empty behind a   *)
(* closed fence.                                                          *)
THEOREM DrainedUnderCoordinator == SuspendSpec => DrainedStaysDrained
  <1> DEFINE Quiet == IsGatewayWorkAdmissionClosed /\ activeRootWork = {}
                         => activeRootWork' = {}
  <1>1. SuspendInv /\ [SuspendNext]_suspendVars => [Quiet]_vars
    <2> SUFFICES ASSUME SuspendInv, [SuspendNext]_suspendVars
                 PROVE  [Quiet]_vars
      OBVIOUS
    <2>1. AdmissionInv /\ CoordinatorInv
      BY DEF SuspendInv
    <2>2. CASE [Next]_vars
      BY <2>1, <2>2, DrainedStep
    <2>3. ASSUME NEW c \in Chain, RequestStep(c) PROVE Quiet
      BY <2>3 DEF RequestStep, PrepareRequestArrives, PrepareRequestEnds,
         PrepareGatewaySuspend, rootVars
    <2> QED BY <2>1, <2>2, <2>3, StepIsAdmissionsOrRequests
  <1> QED BY <1>1, SuspendInvariant, PTL DEF SuspendSpec, DrainedStaysDrained

=============================================================================
