---------------------------- MODULE LaneSuspension ----------------------------
(***************************************************************************)
(* A quota or circuit failure suspends a lane: the session's entry records *)
(* it, the lane's concurrency drops to zero and a timer brings it back.    *)
(* Closing the gateway keeps the timers aside, the next start in the same  *)
(* process takes them up again, and a reload of the configuration applies  *)
(* the limits to the live lanes (src/src/agents/session-suspension.ts,     *)
(* src/src/gateway/server-lanes.ts).                                       *)
(*                                                                         *)
(* One session.  A deadline is the number of ticks it has left; a timer    *)
(* may fire late.                                                          *)
(***************************************************************************)
EXTENDS Naturals, Sequences, FiniteSets, SequencesExt

CONSTANTS
    Lane,
    Hot,            \* lanes whose limit the configuration sets, reload included
    Managed,        \* isGatewayManagedLane: Hot and the nested lane
    Request,        \* suspensions, once each
    LaneOf,         \* LaneOf[r]
    Limit,          \* limits a configuration may set
    Ttl,            \* ticks a suspension lasts
    MaxGeneration,  \* bound: the last cleanup
    MaxReloads      \* bound: configurations published

ASSUME SuspensionConstants ==
    /\ Hot \subseteq Managed /\ Managed \subseteq Lane
    /\ LaneOf \in [Request -> Lane]
    /\ Limit \subseteq Nat \ {0} /\ 1 \in Limit /\ Ttl \in Nat \ {0}
    /\ MaxGeneration \in Nat /\ MaxReloads \in Nat

VARIABLES
    concurrency,        \* maxConcurrent of each lane
    limit,              \* the configuration's limit for the hot lanes
    timers,             \* laneResumeTimers: {} or {[left, resume]}
    cleared,            \* clearedLaneResumes, likewise
    generation, cleanupActive,
    chain,              \* suspensionWriteChain: requests in order
    step,               \* how far each request is
    asked,              \* asked[r]: generation and limit its caller saw
    record, previous,   \* the entry's quotaSuspension: {} or {request}
    throttled, kept,    \* history: requests that throttled, failed rollbacks
    reloads

laneVars == <<concurrency, timers>>
cleanupVars == <<cleared, generation, cleanupActive>>
requestVars == <<chain, step, asked, record, previous, throttled, kept>>
vars == <<laneVars, limit, cleanupVars, requestVars, reloads>>

None == [l \in Lane |-> {}]
LimitOf(l, configured) == IF l \in Hot THEN configured ELSE 1
Current(r) == r = Head(chain)

-----------------------------------------------------------------------------
Init ==
    /\ limit \in Limit
    /\ concurrency = [l \in Lane |-> LimitOf(l, limit)]
    /\ timers = None /\ cleared = None
    /\ generation = 0 /\ cleanupActive = FALSE
    /\ chain = <<>> /\ step = [r \in Request |-> "none"]
    /\ asked = [r \in Request |-> [generation |-> 0, limit |-> limit]]
    /\ record = {} /\ previous = {} /\ throttled = {} /\ kept = {}
    /\ reloads = 0

(* suspendSession: serialized behind the suspensions before it. *)
SuspendSession(r) ==
    /\ step[r] = "none"
    /\ step' = [step EXCEPT ![r] = "queued"]
    /\ chain' = Append(chain, r)
    /\ asked' = [asked EXCEPT ![r] = [generation |-> generation, limit |-> limit]]
    /\ UNCHANGED <<laneVars, limit, cleanupVars, record, previous, throttled,
                   kept, reloads>>

Ends(r) ==
    /\ step' = [step EXCEPT ![r] = "done"]
    /\ chain' = Tail(chain)

(* The gateway closed, or closed and started again, since r was asked for. *)
Outdated(r) == cleanupActive \/ generation # asked[r].generation

StartQueued(r) ==
    /\ step[r] = "queued" /\ Current(r)
    /\ IF Outdated(r) THEN Ends(r)
       ELSE /\ step' = [step EXCEPT ![r] = "patching"]
            /\ UNCHANGED chain
    /\ UNCHANGED <<laneVars, limit, cleanupVars, asked, record, previous,
                   throttled, kept, reloads>>

(* The update callback of patchSessionEntry, under the store's writer: it   *)
(* declines if a cleanup came first.                                        *)
PatchEntry(r) ==
    /\ step[r] = "patching"
    /\ IF generation # asked[r].generation
       THEN /\ Ends(r)
            /\ UNCHANGED <<record, previous>>
       ELSE /\ step' = [step EXCEPT ![r] = "patched"]
            /\ previous' = record /\ record' = {r}
            /\ UNCHANGED chain
    /\ UNCHANGED <<laneVars, limit, cleanupVars, asked, throttled, kept, reloads>>

ThrottleUntimed(r) ==
    /\ concurrency' = [concurrency EXCEPT ![LaneOf[r]] = 0]
    /\ timers' = timers
    /\ throttled' = throttled \cup {r}

(* throttleLane: the timer carries the limit of the caller's configuration *)
(* and replaces an older one.                                              *)
Throttle(r) ==
    /\ concurrency' = [concurrency EXCEPT ![LaneOf[r]] = 0]
    /\ timers' = [timers EXCEPT ![LaneOf[r]] =
         {[left |-> Ttl, resume |-> LimitOf(LaneOf[r], asked[r].limit)]}]
    /\ throttled' = throttled \cup {r}

(* The write throws: the lane is throttled without a record. *)
PatchFails(r) ==
    /\ step[r] = "patching"
    /\ Ends(r)
    /\ IF Outdated(r) THEN UNCHANGED <<laneVars, throttled>> ELSE Throttle(r)
    /\ UNCHANGED <<limit, cleanupVars, asked, record, previous, kept, reloads>>

(* The write has returned.  If a cleanup overtook it, it is undone. *)
AfterPatch(r) ==
    /\ step[r] = "patched"
    /\ IF Outdated(r)
       THEN /\ step' = [step EXCEPT ![r] = "rolling back"]
            /\ UNCHANGED <<chain, laneVars, throttled>>
       ELSE Ends(r) /\ Throttle(r)
    /\ UNCHANGED <<limit, cleanupVars, asked, record, previous, kept, reloads>>

RollBack(r) ==
    /\ step[r] = "rolling back"
    /\ Ends(r)
    /\ \/ /\ record' = IF record = {r} THEN previous ELSE record
          /\ UNCHANGED kept
       \/ /\ kept' = kept \cup {r}      \* the second write throws
          /\ UNCHANGED record
    /\ UNCHANGED <<laneVars, limit, cleanupVars, asked, previous, throttled,
                   reloads>>

-----------------------------------------------------------------------------
(* Timers, the gateway's close and start, and its configuration *)

AutoResume(l) ==
    /\ \E tm \in timers[l] : /\ tm.left = 0
                             /\ concurrency' = [concurrency EXCEPT ![l] = tm.resume]
    /\ timers' = [timers EXCEPT ![l] = {}]
    /\ UNCHANGED <<limit, cleanupVars, requestVars, reloads>>

KeptAsideForgotten == None

(* Deadlines set aside before and not taken up stay. *)
KeptAside == [l \in Lane |-> IF timers[l] # {} THEN timers[l] ELSE cleared[l]]

ClearSessionSuspensionTimers ==
    /\ generation < MaxGeneration
    /\ generation' = generation + 1 /\ cleanupActive' = TRUE
    /\ cleared' = KeptAside
    /\ timers' = None
    /\ UNCHANGED <<concurrency, limit, requestVars, reloads>>

(* enableSessionSuspensionTimersForGatewayStart, then the limits for the   *)
(* managed lanes that are not still suspended.                             *)
GatewayStart ==
    LET held == {l \in Lane : \E c \in cleared[l] : c.left > 0}
        resume(l) == IF l \in Managed THEN LimitOf(l, limit)
                     ELSE (CHOOSE c \in cleared[l] : TRUE).resume
    IN
    /\ cleanupActive
    /\ generation' = generation + 1 /\ cleanupActive' = FALSE
    /\ cleared' = None
    /\ timers' = [l \in Lane |->
         IF l \in held
         THEN {[left |-> c.left, resume |-> resume(l)] : c \in cleared[l]}
         ELSE timers[l]]
    /\ concurrency' = [l \in Lane |->
         CASE l \in held -> 0
           [] l \notin held /\ (l \in Managed \/ cleared[l] # {}) -> resume(l)
           [] OTHER -> concurrency[l]]
    /\ UNCHANGED <<limit, requestVars, reloads>>

ReachedByEveryReload == Managed

(* applyGatewayLaneConcurrency on a reload: the nested lane is left alone, *)
(* and so is what a cleanup holds.                                         *)
ReachedByReload ==
    {l \in Hot : ~(cleanupActive /\ cleared[l] # {})}

Publish(configured) ==
    /\ reloads < MaxReloads
    /\ reloads' = reloads + 1
    /\ limit' = configured
    /\ concurrency' = [l \in Lane |-> IF l \in ReachedByReload
                                      THEN LimitOf(l, configured) ELSE concurrency[l]]
    /\ UNCHANGED <<timers, cleanupVars, requestVars>>

Aged(deadlines) ==
    {[left |-> IF d.left = 0 THEN 0 ELSE d.left - 1, resume |-> d.resume] : d \in deadlines}

Tick ==
    /\ \E l \in Lane : \E d \in timers[l] \cup cleared[l] : d.left > 0
    /\ timers' = [l \in Lane |-> Aged(timers[l])]
    /\ cleared' = [l \in Lane |-> Aged(cleared[l])]
    /\ UNCHANGED <<concurrency, limit, generation, cleanupActive, requestVars,
                   reloads>>

RequestStep(r) ==
    \/ StartQueued(r) \/ PatchEntry(r) \/ PatchFails(r) \/ AfterPatch(r)
    \/ RollBack(r)

Next ==
    \/ \E r \in Request : SuspendSession(r) \/ RequestStep(r)
    \/ \E l \in Lane : AutoResume(l)
    \/ ClearSessionSuspensionTimers \/ GatewayStart
    \/ \E configured \in Limit : Publish(configured)
    \/ Tick

(* Time passes, timers fire, and a gateway that closed in this process     *)
(* starts again.                                                           *)
Fairness ==
    /\ WF_vars(Tick) /\ WF_vars(GatewayStart)
    /\ \A l \in Lane : WF_vars(AutoResume(l))

Spec == Init /\ [][Next]_vars
FairSpec == Spec /\ Fairness

-----------------------------------------------------------------------------
Deadline == [left : 0..Ttl, resume : Limit]

(* Every lane has at most one deadline, armed or set aside. *)
TypeOK ==
    /\ concurrency \in [Lane -> Limit \cup {0}] /\ limit \in Limit
    /\ \A l \in Lane : /\ timers[l] \subseteq Deadline /\ cleared[l] \subseteq Deadline
                       /\ Cardinality(timers[l]) <= 1 /\ Cardinality(cleared[l]) <= 1
    /\ generation \in 0..MaxGeneration + 1 /\ cleanupActive \in BOOLEAN
    /\ chain \in Seq(Request)
    /\ step \in [Request -> {"none", "queued", "patching", "patched",
                             "rolling back", "done"}]
    /\ asked \in [Request -> [generation : 0..MaxGeneration + 1, limit : Limit]]
    /\ record \subseteq Request /\ previous \subseteq Request
    /\ Cardinality(record) <= 1 /\ Cardinality(previous) <= 1
    /\ throttled \subseteq Request /\ kept \subseteq Request
    /\ reloads \in 0..MaxReloads

(* A lane at zero will come back: a timer is armed for it, or its deadline *)
(* was set aside for the next start (session-suspension.ts:212).           *)
NoLaneStuck ==
    \A l \in Lane : concurrency[l] = 0 =>
        timers[l] # {} \/ (cleanupActive /\ cleared[l] # {})

(* After the cleanup of a closing gateway no timer is armed until the next *)
(* start, whatever writes were under way (session-suspension.ts:57).       *)
NoTimerAfterCleanup == cleanupActive => timers = None

(* A suspension that stays in the session's entry did throttle its lane:   *)
(* one that a cleanup overtook is not left behind, nor restored by a later *)
(* rollback (session-suspension.ts:280).                                   *)
RecordWasEnforced ==
    \A r \in record : step[r] = "done" => r \in throttled \cup kept

(* The nested lane stays suspended until its own deadline: no reload       *)
(* resumes it (server-lanes.ts:63).                                        *)
NestedStaysSuspended ==
    [][\A l \in Managed \ Hot : concurrency[l] = 0 /\ concurrency'[l] # 0 =>
          \E d \in timers[l] \cup cleared[l] : d.left = 0]_vars

(* A lane that comes back has the limit of the configuration in force.     *)
ResumesToConfigured ==
    [][\A l \in Hot : concurrency'[l] = concurrency[l] \/ concurrency'[l] \in {0, limit'}]_vars

(* Every suspended lane is resumed: suspensions are bounded in number, so  *)
(* a time comes when no lane is at zero.                                   *)
LaneResumes ==
    (\E l \in Lane : concurrency[l] = 0) ~> (\A l \in Lane : concurrency[l] # 0)

(* Lanes, timers and the session's record agree through closes, starts and *)
(* overlapping suspensions (session-suspension.ts:57, :212, :280).         *)
SuspensionInv == TypeOK /\ NoLaneStuck /\ NoTimerAfterCleanup /\ RecordWasEnforced
=============================================================================
