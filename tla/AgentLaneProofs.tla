--------------------------- MODULE AgentLaneProofs ---------------------------
(***************************************************************************)
(* Theorems about the lanes that agents run in.                            *)
(*                                                                         *)
(* LaneSuspension, for any lanes, suspensions, limits and number of closes *)
(* and reloads.  The inductive invariant adds how the write chain          *)
(* serializes the suspensions: the one that is being written is at its     *)
(* head, so there is one at a time, and what it may restore was finished   *)
(* before it.                                                              *)
(*                                                                         *)
(* NestedLanes, for any runs, sessions and numbers of slots.  The lanes    *)
(* can be ranked so that every run enters lanes of rising rank: the cron   *)
(* lane, then the session's, then an inner one.  A circle of runs that     *)
(* wait for slots only would climb the ranks for ever.                     *)
(***************************************************************************)
EXTENDS LaneSuspension, NestedLanes, FiniteSetTheorems, SequenceTheorems, TLAPS

-----------------------------------------------------------------------------
(* Suspended lanes.                                                        *)

USE SuspensionConstants

(* TypeOK in two parts, at most one deadline per lane and one record       *)
(* without cardinality.                                                    *)
AtMostOne(S) == \A x, y \in S : x = y

LaneTypes ==
    /\ concurrency \in [Lane -> Limit \cup {0}] /\ limit \in Limit
    /\ timers \in [Lane -> SUBSET Deadline]
    /\ cleared \in [Lane -> SUBSET Deadline]
    /\ \A l \in Lane : AtMostOne(timers[l]) /\ AtMostOne(cleared[l])
    /\ reloads \in 0..MaxReloads
CleanupTypes ==
    /\ generation \in 0..MaxGeneration + 1 /\ cleanupActive \in BOOLEAN
    /\ cleanupActive => generation <= MaxGeneration
RequestTypes ==
    /\ chain \in Seq(Request)
    /\ step \in [Request -> {"none", "queued", "patching", "patched",
                             "rolling back", "done"}]
    /\ asked \in [Request -> [generation : 0..MaxGeneration + 1, limit : Limit]]
    /\ record \subseteq Request /\ previous \subseteq Request
    /\ AtMostOne(record) /\ AtMostOne(previous)
    /\ throttled \subseteq Request /\ kept \subseteq Request

Writing(r) == step[r] \in {"patching", "patched", "rolling back"}

(* A suspension waits in the chain until it ends, at its head while it     *)
(* writes.                                                                 *)
ChainSerializes ==
    /\ \A r \in Request : step[r] = "queued" => \E i \in 1..Len(chain) : chain[i] = r
    /\ \A r \in Request : Writing(r) => chain # <<>> /\ r = Head(chain)

(* The record is of a suspension that wrote it, and what a rollback would  *)
(* restore is of one that is over.                                         *)
RecordsInOrder ==
    /\ \A r \in record : step[r] \in {"patched", "rolling back", "done"}
    /\ \A r \in previous : step[r] = "done" /\ r \in throttled \cup kept

LaneInv == LaneTypes /\ CleanupTypes /\ NoLaneStuck /\ NoTimerAfterCleanup
RequestInv ==
    RequestTypes /\ ChainSerializes /\ RecordsInOrder /\ RecordWasEnforced

-----------------------------------------------------------------------------
(* Limits and deadlines. *)

(* A limit the configuration sets or a lane falls back to is not zero. *)
LEMMA LimitsArePositive ==
    /\ 0 \notin Limit
    /\ \A l \in Lane, n \in Limit : LimitOf(l, n) \in Limit
BY DEF LimitOf

(* A set of at most one element is finite. *)
LEMMA AtMostOneIsFinite ==
    ASSUME NEW S, AtMostOne(S)
    PROVE  Cardinality(S) <= 1
<1>1. CASE S = {}
    BY <1>1, FS_EmptySet
<1>2. CASE S # {}
    <2> PICK x \in S : TRUE
        BY <1>2
    <2>1. S = {x}
        BY DEF AtMostOne
    <2>2. Cardinality({x}) = 1
        BY FS_Singleton
    <2> QED BY <2>1, <2>2
<1> QED BY <1>1, <1>2

(* Time passing keeps a deadline a deadline and drops none. *)
LEMMA AgedKeeps ==
    ASSUME NEW S \in SUBSET Deadline, AtMostOne(S)
    PROVE  /\ Aged(S) \subseteq Deadline /\ AtMostOne(Aged(S))
           /\ S # {} => Aged(S) # {}
           /\ S = {} => Aged(S) = {}
<1>1. Aged(S) \subseteq Deadline
    <2> SUFFICES ASSUME NEW d \in S
                 PROVE  [left |-> IF d.left = 0 THEN 0 ELSE d.left - 1,
                         resume |-> d.resume] \in Deadline
        BY DEF Aged
    <2>1. d.left \in 0..Ttl /\ d.resume \in Limit
        BY DEF Deadline
    <2>2. (IF d.left = 0 THEN 0 ELSE d.left - 1) \in 0..Ttl
        BY <2>1
    <2> QED BY <2>1, <2>2 DEF Deadline
<1>2. AtMostOne(Aged(S))
    BY DEF AtMostOne, Aged
<1>3. (S # {} => Aged(S) # {}) /\ (S = {} => Aged(S) = {})
    BY DEF Aged
<1> QED BY <1>1, <1>2, <1>3

-----------------------------------------------------------------------------
(* The steps of the lanes. *)

(* A request that leaves the lanes alone keeps their invariant. *)
LEMMA LanesUntouched ==
    ASSUME LaneInv, UNCHANGED <<laneVars, limit, cleanupVars, reloads>>
    PROVE  LaneInv'
<1> USE DEF LaneInv, laneVars, cleanupVars
<1>1. LaneTypes' /\ CleanupTypes'
    BY DEF LaneTypes, CleanupTypes
<1>2. NoLaneStuck' /\ NoTimerAfterCleanup'
    BY DEF NoLaneStuck, NoTimerAfterCleanup
<1> QED BY <1>1, <1>2

(* throttleLane arms the timer with the zero it sets. *)
LEMMA ThrottleStep ==
    ASSUME LaneInv, RequestTypes, NEW r \in Request, ~cleanupActive, Throttle(r),
           UNCHANGED <<limit, cleanupVars, reloads>>
    PROVE  LaneInv'
<1> USE DEF LaneInv, Throttle, cleanupVars
<1> DEFINE d == [left |-> Ttl, resume |-> LimitOf(LaneOf[r], asked[r].limit)]
<1>1. LaneOf[r] \in Lane
    OBVIOUS
<1>2. d \in Deadline
    <2>1. asked[r].limit \in Limit
        BY DEF RequestTypes
    <2>2. LimitOf(LaneOf[r], asked[r].limit) \in Limit
        BY <1>1, <2>1, LimitsArePositive
    <2> QED BY <2>2 DEF Deadline
<1>3. timers' = [timers EXCEPT ![LaneOf[r]] = {d}]
    OBVIOUS
<1> HIDE DEF d
<1>4. LaneTypes'
    BY <1>1, <1>2, <1>3 DEF LaneTypes, AtMostOne
<1>5. CleanupTypes' /\ NoTimerAfterCleanup'
    BY DEF CleanupTypes, NoTimerAfterCleanup
<1>6. NoLaneStuck'
    BY <1>1, <1>3 DEF NoLaneStuck, LaneTypes
<1> QED BY <1>4, <1>5, <1>6

(* The timer brings its lane back to a limit. *)
LEMMA AutoResumeStep ==
    ASSUME LaneInv, NEW l \in Lane, AutoResume(l)
    PROVE  LaneInv'
<1> USE DEF LaneInv, AutoResume, cleanupVars
<1>1. PICK tm \in timers[l] : concurrency' = [concurrency EXCEPT ![l] = tm.resume]
    OBVIOUS
<1>2. tm.resume \in Limit /\ tm.resume # 0
    <2>1. tm \in Deadline
        BY DEF LaneTypes
    <2> QED BY <2>1, LimitsArePositive DEF Deadline
<1>3. LaneTypes'
    BY <1>1, <1>2 DEF LaneTypes, AtMostOne
<1>4. CleanupTypes' /\ NoTimerAfterCleanup'
    BY DEF CleanupTypes, NoTimerAfterCleanup, None
<1>5. NoLaneStuck'
    BY <1>1, <1>2 DEF NoLaneStuck, LaneTypes
<1> QED BY <1>3, <1>4, <1>5

(* Closing the gateway sets every armed deadline aside. *)
LEMMA CleanupStep ==
    ASSUME LaneInv, ClearSessionSuspensionTimers
    PROVE  LaneInv'
<1> USE DEF LaneInv, ClearSessionSuspensionTimers
<1>1. LaneTypes'
    BY DEF LaneTypes, KeptAside, None, AtMostOne
<1>2. CleanupTypes' /\ NoTimerAfterCleanup'
    BY DEF CleanupTypes, NoTimerAfterCleanup
<1>3. NoLaneStuck'
    BY DEF NoLaneStuck, KeptAside
<1> QED BY <1>1, <1>2, <1>3

(* A start in the same process takes the deadlines up again, or gives the  *)
(* lane its limit.                                                         *)
LEMMA GatewayStartStep ==
    ASSUME LaneInv, GatewayStart
    PROVE  LaneInv'
<1> USE DEF LaneInv
<1> DEFINE suspended == {l \in Lane : \E c \in cleared[l] : c.left > 0}
           resume(l) == IF l \in Managed THEN LimitOf(l, limit)
                        ELSE (CHOOSE c \in cleared[l] : TRUE).resume
           retimed(l) == {[left |-> c.left, resume |-> resume(l)] : c \in cleared[l]}
<1>1. /\ cleanupActive /\ generation' = generation + 1
      /\ cleanupActive' = FALSE
      /\ cleared' = None /\ limit' = limit /\ reloads' = reloads
      /\ timers' = [l \in Lane |-> IF l \in suspended THEN retimed(l) ELSE timers[l]]
      /\ concurrency' = [l \in Lane |->
           CASE l \in suspended -> 0
             [] l \notin suspended /\ (l \in Managed \/ cleared[l] # {}) -> resume(l)
             [] OTHER -> concurrency[l]]
    BY DEF GatewayStart
<1>2. ASSUME NEW l \in Lane, l \in Managed \/ cleared[l] # {}
      PROVE  resume(l) \in Limit /\ resume(l) # 0
    <2>1. CASE l \in Managed
        BY <2>1, LimitsArePositive DEF LaneTypes
    <2>2. CASE l \notin Managed
        <3>1. (CHOOSE c \in cleared[l] : TRUE) \in cleared[l]
            BY <1>2, <2>2
        <3>2. (CHOOSE c \in cleared[l] : TRUE) \in Deadline
            BY <3>1 DEF LaneTypes
        <3> QED BY <2>2, <3>2, LimitsArePositive DEF Deadline
    <2> QED BY <2>1, <2>2
<1>3. ASSUME NEW l \in suspended
      PROVE  /\ retimed(l) \in SUBSET Deadline /\ AtMostOne(retimed(l))
             /\ retimed(l) # {}
    <2>1. l \in Lane /\ cleared[l] # {} /\ cleared[l] \subseteq Deadline
        BY DEF LaneTypes
    <2>2. resume(l) \in Limit
        BY <1>2, <2>1
    <2> HIDE DEF resume
    <2>3. retimed(l) \subseteq Deadline
        <3> SUFFICES ASSUME NEW c \in cleared[l]
                     PROVE  [left |-> c.left, resume |-> resume(l)] \in Deadline
            OBVIOUS
        <3>1. c.left \in 0..Ttl
            BY <2>1 DEF Deadline
        <3> QED BY <3>1, <2>2 DEF Deadline
    <2>4. AtMostOne(retimed(l)) /\ retimed(l) # {}
        <3>1. PICK c \in cleared[l] : cleared[l] = {c}
            BY <2>1 DEF AtMostOne, LaneTypes
        <3>2. retimed(l) = {[left |-> c.left, resume |-> resume(l)]}
            BY <3>1
        <3> QED BY <3>2 DEF AtMostOne
    <2> QED BY <2>3, <2>4
<1>4. ASSUME NEW l \in Lane
      PROVE  /\ timers'[l] \in SUBSET Deadline /\ AtMostOne(timers'[l])
             /\ concurrency'[l] \in Limit \cup {0}
             /\ concurrency'[l] = 0 => timers'[l] # {}
    <2> HIDE DEF resume, retimed
    <2>1. CASE l \in suspended
        <3>1. timers'[l] = retimed(l) /\ concurrency'[l] = 0
            BY <1>1, <2>1
        <3> QED BY <2>1, <3>1, <1>3
    <2>2. CASE l \notin suspended /\ (l \in Managed \/ cleared[l] # {})
        <3>1. timers'[l] = timers[l] /\ concurrency'[l] = resume(l)
            BY <1>1, <2>2
        <3> QED BY <2>2, <3>1, <1>2 DEF LaneTypes
    <2>3. CASE l \notin suspended /\ l \notin Managed /\ cleared[l] = {}
        <3>1. timers'[l] = timers[l] /\ concurrency'[l] = concurrency[l]
            BY <1>1, <2>3
        <3> QED BY <2>3, <3>1 DEF LaneTypes, NoLaneStuck
    <2> QED BY <2>1, <2>2, <2>3
<1> HIDE DEF suspended, resume, retimed
<1>5. LaneTypes'
    <2>1. timers' \in [Lane -> SUBSET Deadline]
        BY <1>1, <1>4
    <2>2. concurrency' \in [Lane -> Limit \cup {0}]
        BY <1>1, <1>4
    <2>3. /\ cleared' \in [Lane -> SUBSET Deadline]
          /\ \A l \in Lane : AtMostOne(cleared'[l])
        BY <1>1 DEF None, AtMostOne
    <2> QED BY <1>1, <1>4, <2>1, <2>2, <2>3 DEF LaneTypes
<1>6. CleanupTypes' /\ NoTimerAfterCleanup'
    <2>1. generation' \in 0..MaxGeneration + 1
        BY <1>1 DEF CleanupTypes
    <2> QED BY <1>1, <2>1 DEF CleanupTypes, NoTimerAfterCleanup
<1>7. NoLaneStuck'
    BY <1>4 DEF NoLaneStuck
<1> QED BY <1>5, <1>6, <1>7

(* A reload gives limits, never zero. *)
LEMMA PublishStep ==
    ASSUME LaneInv, NEW configured \in Limit, Publish(configured)
    PROVE  LaneInv'
<1> USE DEF LaneInv, Publish, cleanupVars
<1>1. ASSUME NEW l \in Lane
      PROVE  /\ concurrency'[l] \in Limit \cup {0}
             /\ concurrency'[l] = 0 => concurrency[l] = 0
    BY LimitsArePositive DEF LaneTypes
<1>2. LaneTypes'
    <2>1. concurrency' \in [Lane -> Limit \cup {0}]
        BY <1>1
    <2> QED BY <2>1 DEF LaneTypes
<1>3. CleanupTypes' /\ NoTimerAfterCleanup'
    BY DEF CleanupTypes, NoTimerAfterCleanup
<1>4. NoLaneStuck'
    BY <1>1 DEF NoLaneStuck
<1> QED BY <1>2, <1>3, <1>4

(* Deadlines run down and none is lost. *)
LEMMA TickStep ==
    ASSUME LaneInv, Tick
    PROVE  LaneInv'
<1> USE DEF LaneInv, Tick
<1>1. ASSUME NEW l \in Lane
      PROVE  /\ timers'[l] \in SUBSET Deadline /\ AtMostOne(timers'[l])
             /\ cleared'[l] \in SUBSET Deadline /\ AtMostOne(cleared'[l])
             /\ timers[l] # {} => timers'[l] # {}
             /\ cleared[l] # {} => cleared'[l] # {}
             /\ timers[l] = {} => timers'[l] = {}
    BY AgedKeeps DEF LaneTypes
<1>2. LaneTypes'
    BY <1>1 DEF LaneTypes
<1>3. CleanupTypes'
    BY DEF CleanupTypes
<1>4. NoTimerAfterCleanup'
    BY <1>1 DEF NoTimerAfterCleanup, None
<1>5. NoLaneStuck'
    BY <1>1 DEF NoLaneStuck
<1> QED BY <1>2, <1>3, <1>4, <1>5

-----------------------------------------------------------------------------
(* The steps of the suspensions. *)

(* One suspension writes at a time. *)
LEMMA OneWriter ==
    ASSUME ChainSerializes, NEW q \in Request, NEW r \in Request,
           Writing(q), Writing(r)
    PROVE  q = r
BY DEF ChainSerializes

(* The lanes' and the gateway's steps leave the suspensions alone. *)
LEMMA RequestsUntouched ==
    ASSUME RequestInv, UNCHANGED requestVars
    PROVE  RequestInv'
<1> USE DEF RequestInv, requestVars
<1>1. RequestTypes' /\ ChainSerializes'
    BY DEF RequestTypes, ChainSerializes, Writing
<1>2. RecordsInOrder' /\ RecordWasEnforced'
    BY DEF RecordsInOrder, RecordWasEnforced
<1> QED BY <1>1, <1>2

(* A new suspension goes to the end of the chain. *)
LEMMA SuspendStep ==
    ASSUME RequestInv, LaneInv, NEW r \in Request, SuspendSession(r)
    PROVE  RequestInv'
<1> USE DEF RequestInv, SuspendSession
<1>1. RequestTypes'
    <2>1. [generation |-> generation, limit |-> limit]
            \in [generation : 0..MaxGeneration + 1, limit : Limit]
        BY DEF LaneInv, CleanupTypes, LaneTypes
    <2>2. asked' \in [Request -> [generation : 0..MaxGeneration + 1, limit : Limit]]
        BY <2>1 DEF RequestTypes
    <2>3. chain' \in Seq(Request)
        BY AppendProperties DEF RequestTypes
    <2> QED BY <2>2, <2>3 DEF RequestTypes
<1>2. ChainSerializes'
    <2>0. /\ chain \in Seq(Request) /\ chain' = Append(chain, r)
          /\ Len(chain') = Len(chain) + 1 /\ Len(chain) \in Nat
          /\ chain'[Len(chain) + 1] = r
          /\ \A i \in 1..Len(chain) : chain'[i] = chain[i]
        <3>1. chain \in Seq(Request) /\ chain' = Append(chain, r)
            BY DEF RequestTypes
        <3>2. Len(chain) \in Nat
            BY <3>1, LenProperties
        <3>3. /\ Len(Append(chain, r)) = Len(chain) + 1
              /\ Append(chain, r)[Len(chain) + 1] = r
              /\ \A i \in 1..Len(chain) : Append(chain, r)[i] = chain[i]
            BY <3>1, AppendProperties
        <3> QED BY <3>1, <3>2, <3>3
    <2>1. ASSUME NEW q \in Request, step'[q] = "queued"
          PROVE  \E i \in 1..Len(chain') : chain'[i] = q
        <3>1. CASE q = r
            BY <2>0, <3>1
        <3>2. CASE q # r
            <4>1. PICK i \in 1..Len(chain) : chain[i] = q
                BY <2>1, <3>2 DEF ChainSerializes, RequestTypes
            <4> QED BY <2>0, <4>1
        <3> QED BY <3>1, <3>2
    <2>2. ASSUME NEW q \in Request, Writing(q)'
          PROVE  chain' # <<>> /\ q = Head(chain')
        <3>1. q # r /\ Writing(q)
            BY <2>2 DEF Writing, RequestTypes
        <3>2. chain # <<>> /\ q = Head(chain)
            BY <3>1 DEF ChainSerializes
        <3> QED BY <2>0, <3>2
    <2> QED BY <2>1, <2>2 DEF ChainSerializes
<1>3. RecordsInOrder' /\ RecordWasEnforced'
    BY DEF RecordsInOrder, RecordWasEnforced, RequestTypes
<1> QED BY <1>1, <1>2, <1>3

(* A suspension that writes or is about to is at the head of the chain. *)
LEMMA ActsAtHead ==
    ASSUME ChainSerializes, NEW r \in Request,
           Writing(r) \/ (step[r] = "queued" /\ Current(r))
    PROVE  chain # <<>> /\ r = Head(chain)
<1>1. CASE Writing(r)
    BY <1>1 DEF ChainSerializes
<1>2. CASE step[r] = "queued" /\ Current(r)
    <2>1. \E i \in 1..Len(chain) : chain[i] = r
        BY <1>2 DEF ChainSerializes
    <2>2. chain # <<>>
        BY <2>1, EmptySeq
    <2> QED BY <1>2, <2>2 DEF Current
<1> QED BY <1>1, <1>2

(* The suspension at the head of the chain ends and leaves it. *)
LEMMA EndsStep ==
    ASSUME RequestTypes, ChainSerializes, NEW r \in Request, Ends(r),
           Writing(r) \/ (step[r] = "queued" /\ Current(r))
    PROVE  /\ ChainSerializes' /\ chain' \in Seq(Request)
           /\ step' \in [Request -> {"none", "queued", "patching", "patched",
                                     "rolling back", "done"}]
           /\ step'[r] = "done"
           /\ \A q \in Request \ {r} : step'[q] = step[q]
<1> USE DEF Ends
<1>1. chain # <<>> /\ r = Head(chain)
    BY ActsAtHead
<1>2. /\ chain' \in Seq(Request) /\ Len(chain') = Len(chain) - 1
      /\ \A i \in 1..Len(chain') : chain'[i] = chain[i + 1]
      /\ chain[1] = r /\ Len(chain) \in Nat \ {0}
    <2>1. chain \in Seq(Request) /\ chain' = Tail(chain)
        BY DEF RequestTypes
    <2>2. Len(chain) \in Nat \ {0} /\ chain[1] = r
        BY <1>1, <2>1, EmptySeq
    <2> QED BY <1>1, <2>1, <2>2, HeadTailProperties
<1>3. /\ step' \in [Request -> {"none", "queued", "patching", "patched",
                                "rolling back", "done"}]
      /\ step'[r] = "done"
      /\ \A q \in Request \ {r} : step'[q] = step[q]
    BY DEF RequestTypes
<1>4. ASSUME NEW q \in Request, step'[q] = "queued"
      PROVE  \E i \in 1..Len(chain') : chain'[i] = q
    <2>1. q # r /\ step[q] = "queued"
        BY <1>3, <1>4
    <2>2. PICK i \in 1..Len(chain) : chain[i] = q
        BY <2>1 DEF ChainSerializes
    <2>3. i # 1
        BY <1>2, <2>1, <2>2
    <2>4. i - 1 \in 1..Len(chain') /\ chain'[i - 1] = q
        BY <1>2, <2>2, <2>3
    <2> QED BY <2>4
<1>5. ASSUME NEW q \in Request, Writing(q)' PROVE FALSE
    <2>1. q # r /\ Writing(q)
        BY <1>3, <1>5 DEF Writing
    <2>2. q = Head(chain)
        BY <2>1 DEF ChainSerializes
    <2> QED BY <1>1, <2>1, <2>2
<1>6. ChainSerializes'
    BY <1>4, <1>5 DEF ChainSerializes
<1> QED BY <1>2, <1>3, <1>6

(* The suspension at the head goes on from one step of its write to the    *)
(* next.                                                                   *)
LEMMA AdvanceStep ==
    ASSUME RequestTypes, ChainSerializes, NEW r \in Request, UNCHANGED chain,
           NEW st \in {"patching", "patched", "rolling back"},
           step' = [step EXCEPT ![r] = st],
           Writing(r) \/ (step[r] = "queued" /\ Current(r))
    PROVE  /\ ChainSerializes' /\ chain' \in Seq(Request)
           /\ step' \in [Request -> {"none", "queued", "patching", "patched",
                                     "rolling back", "done"}]
           /\ step'[r] = st
           /\ \A q \in Request \ {r} : step'[q] = step[q]
<1>1. chain # <<>> /\ r = Head(chain)
    BY ActsAtHead
<1>2. /\ step' \in [Request -> {"none", "queued", "patching", "patched",
                                "rolling back", "done"}]
      /\ step'[r] = st
      /\ \A q \in Request \ {r} : step'[q] = step[q]
    BY DEF RequestTypes
<1>3. ChainSerializes'
    BY <1>1, <1>2 DEF ChainSerializes, Writing
<1> QED BY <1>2, <1>3 DEF RequestTypes

(* The steps of the suspension at the head: its write, the throttling and  *)
(* the rollback.                                                           *)
LEMMA RequestStepKeeps ==
    ASSUME RequestInv, NEW r \in Request, RequestStep(r)
    PROVE  RequestInv'
<1> USE DEF RequestInv
<1>1. CASE StartQueued(r)
    <2> USE <1>1 DEF StartQueued
    <2>1. CASE Outdated(r)
        <3>1. /\ ChainSerializes' /\ chain' \in Seq(Request)
              /\ step' \in [Request -> {"none", "queued", "patching", "patched",
                                        "rolling back", "done"}]
              /\ step'[r] = "done"
              /\ \A q \in Request \ {r} : step'[q] = step[q]
            BY <2>1, EndsStep
        <3>2. r \notin record \cup previous
            BY DEF RecordsInOrder
        <3> QED BY <3>1, <3>2 DEF RequestTypes, RecordsInOrder, RecordWasEnforced
    <2>2. CASE ~Outdated(r)
        <3>1. /\ ChainSerializes' /\ chain' \in Seq(Request)
              /\ step' \in [Request -> {"none", "queued", "patching", "patched",
                                        "rolling back", "done"}]
              /\ step'[r] = "patching"
              /\ \A q \in Request \ {r} : step'[q] = step[q]
            BY <2>2, AdvanceStep
        <3>2. r \notin record \cup previous
            BY DEF RecordsInOrder
        <3> QED BY <3>1, <3>2 DEF RequestTypes, RecordsInOrder, RecordWasEnforced
    <2> QED BY <2>1, <2>2
<1>2. CASE PatchEntry(r)
    <2> USE <1>2 DEF PatchEntry
    <2>0. Writing(r) /\ r \notin record \cup previous
        BY DEF Writing, RecordsInOrder
    <2>1. CASE generation # asked[r].generation
        <3>1. /\ ChainSerializes' /\ chain' \in Seq(Request)
              /\ step' \in [Request -> {"none", "queued", "patching", "patched",
                                        "rolling back", "done"}]
              /\ step'[r] = "done"
              /\ \A q \in Request \ {r} : step'[q] = step[q]
            BY <2>0, <2>1, EndsStep
        <3> QED BY <2>0, <2>1, <3>1
                DEF RequestTypes, RecordsInOrder, RecordWasEnforced
    <2>2. CASE generation = asked[r].generation
        <3>1. /\ ChainSerializes' /\ chain' \in Seq(Request)
              /\ step' \in [Request -> {"none", "queued", "patching", "patched",
                                        "rolling back", "done"}]
              /\ step'[r] = "patched"
              /\ \A q \in Request \ {r} : step'[q] = step[q]
            BY <2>0, <2>2, AdvanceStep
        <3>2. ASSUME NEW q \in record
              PROVE  q # r /\ step[q] = "done" /\ q \in throttled \cup kept
            <4>1. q # r /\ q \in Request
                BY <2>0 DEF RequestTypes
            <4>2. ~Writing(q)
                BY <2>0, <4>1, OneWriter
            <4> QED BY <4>1, <4>2 DEF Writing, RecordsInOrder, RecordWasEnforced
        <3>3. RequestTypes'
            BY <3>1, <2>2 DEF RequestTypes, AtMostOne
        <3>4. RecordsInOrder' /\ RecordWasEnforced'
            BY <3>1, <3>2, <2>2 DEF RecordsInOrder, RecordWasEnforced, RequestTypes
        <3> QED BY <3>1, <3>3, <3>4
    <2> QED BY <2>1, <2>2
<1>3. CASE PatchFails(r)
    <2> USE <1>3 DEF PatchFails
    <2>0. Writing(r) /\ r \notin record \cup previous
        BY DEF Writing, RecordsInOrder
    <2>1. /\ ChainSerializes' /\ chain' \in Seq(Request)
          /\ step' \in [Request -> {"none", "queued", "patching", "patched",
                                    "rolling back", "done"}]
          /\ step'[r] = "done"
          /\ \A q \in Request \ {r} : step'[q] = step[q]
        BY <2>0, EndsStep
    <2>2. throttled' = throttled \/ throttled' = throttled \cup {r}
        BY DEF Throttle
    <2> QED BY <2>0, <2>1, <2>2 DEF RequestTypes, RecordsInOrder, RecordWasEnforced
<1>4. CASE AfterPatch(r)
    <2> USE <1>4 DEF AfterPatch
    <2>0. Writing(r) /\ r \notin previous
        BY DEF Writing, RecordsInOrder
    <2>1. CASE Outdated(r)
        <3>1. /\ ChainSerializes' /\ chain' \in Seq(Request)
              /\ step' \in [Request -> {"none", "queued", "patching", "patched",
                                        "rolling back", "done"}]
              /\ step'[r] = "rolling back"
              /\ \A q \in Request \ {r} : step'[q] = step[q]
            BY <2>0, <2>1, AdvanceStep
        <3> QED BY <2>0, <2>1, <3>1
                DEF RequestTypes, RecordsInOrder, RecordWasEnforced
    <2>2. CASE ~Outdated(r)
        <3>1. /\ ChainSerializes' /\ chain' \in Seq(Request)
              /\ step' \in [Request -> {"none", "queued", "patching", "patched",
                                        "rolling back", "done"}]
              /\ step'[r] = "done"
              /\ \A q \in Request \ {r} : step'[q] = step[q]
            BY <2>0, <2>2, EndsStep
        <3>2. throttled' = throttled \cup {r}
            BY <2>2 DEF Throttle
        <3> QED BY <2>0, <2>2, <3>1, <3>2
                DEF RequestTypes, RecordsInOrder, RecordWasEnforced
    <2> QED BY <2>1, <2>2
<1>5. CASE RollBack(r)
    <2> USE <1>5 DEF RollBack
    <2>0. Writing(r) /\ r \notin previous
        BY DEF Writing, RecordsInOrder
    <2>1. /\ ChainSerializes' /\ chain' \in Seq(Request)
          /\ step' \in [Request -> {"none", "queued", "patching", "patched",
                                    "rolling back", "done"}]
          /\ step'[r] = "done"
          /\ \A q \in Request \ {r} : step'[q] = step[q]
        BY <2>0, EndsStep
    <2>2. r \in record => record = {r}
        BY DEF RequestTypes, AtMostOne
    <2>3. CASE record' = (IF record = {r} THEN previous ELSE record) /\ kept' = kept
        <3>1. r \notin record'
            BY <2>0, <2>2, <2>3
        <3>2. record' = record \/ record' = previous
            BY <2>3
        <3>3. RequestTypes'
            BY <2>1, <2>3, <3>2 DEF RequestTypes
        <3>4. RecordsInOrder' /\ RecordWasEnforced'
            BY <2>0, <2>1, <2>3, <3>1, <3>2
               DEF RecordsInOrder, RecordWasEnforced, RequestTypes
        <3> QED BY <2>1, <3>3, <3>4
    <2>4. CASE kept' = kept \cup {r} /\ record' = record
        BY <2>0, <2>1, <2>4 DEF RequestTypes, RecordsInOrder, RecordWasEnforced
    <2> QED BY <2>3, <2>4
<1> QED BY <1>1, <1>2, <1>3, <1>4, <1>5 DEF RequestStep

(* What a suspension's step does to the lanes: nothing, or a throttling    *)
(* while no cleanup holds the timers.                                      *)
LEMMA RequestStepLanes ==
    ASSUME RequestInv, LaneInv, NEW r \in Request, RequestStep(r)
    PROVE  LaneInv'
<1>1. UNCHANGED <<limit, cleanupVars, reloads>>
    BY DEF RequestStep, StartQueued, PatchEntry, PatchFails, AfterPatch, RollBack
<1>2. UNCHANGED laneVars \/ (~cleanupActive /\ Throttle(r))
    BY DEF RequestStep, StartQueued, PatchEntry, PatchFails, AfterPatch,
           RollBack, Outdated
<1>3. CASE UNCHANGED laneVars
    BY <1>1, <1>3, LanesUntouched
<1>4. CASE ~cleanupActive /\ Throttle(r)
    BY <1>1, <1>4, ThrottleStep DEF RequestInv
<1> QED BY <1>2, <1>3, <1>4

(* A process starts with all lanes at their limits and no suspension. *)
LEMMA SuspensionInit == Init => LaneInv /\ RequestInv
<1> SUFFICES ASSUME Init PROVE LaneInv /\ RequestInv
    OBVIOUS
<1> USE DEF Init
<1>1. LaneTypes
    <2>1. concurrency \in [Lane -> Limit \cup {0}]
        BY LimitsArePositive
    <2>2. None \in [Lane -> SUBSET Deadline] /\ \A l \in Lane : AtMostOne(None[l])
        BY DEF None, AtMostOne
    <2> QED BY <2>1, <2>2 DEF LaneTypes
<1>2. CleanupTypes /\ NoTimerAfterCleanup
    <2>1. generation \in 0..MaxGeneration + 1
        OBVIOUS
    <2> QED BY <2>1 DEF CleanupTypes, NoTimerAfterCleanup
<1>3. NoLaneStuck
    BY LimitsArePositive DEF NoLaneStuck
<1>4. RequestTypes
    <2>1. [generation |-> 0, limit |-> limit]
            \in [generation : 0..MaxGeneration + 1, limit : Limit]
        OBVIOUS
    <2>2. asked \in [Request -> [generation : 0..MaxGeneration + 1, limit : Limit]]
        BY <2>1
    <2> QED BY <2>2 DEF RequestTypes, AtMostOne
<1>5. ChainSerializes /\ RecordsInOrder /\ RecordWasEnforced
    BY DEF ChainSerializes, RecordsInOrder, RecordWasEnforced, Writing
<1> QED BY <1>1, <1>2, <1>3, <1>4, <1>5 DEF LaneInv, RequestInv

(* The inductive invariant holds through every interleaving of             *)
(* suspensions, timers, closes, starts and reloads.                        *)
THEOREM LaneSuspensionInvariant == Spec => [](LaneInv /\ RequestInv)
<1>1. LaneInv /\ RequestInv /\ [Next]_vars => LaneInv' /\ RequestInv'
    <2> SUFFICES ASSUME LaneInv, RequestInv, [Next]_vars
                 PROVE  LaneInv' /\ RequestInv'
        OBVIOUS
    <2>1. ASSUME NEW r \in Request, SuspendSession(r) \/ RequestStep(r)
          PROVE  LaneInv' /\ RequestInv'
        <3>1. CASE SuspendSession(r)
            BY <3>1, SuspendStep, LanesUntouched DEF SuspendSession
        <3>2. CASE RequestStep(r)
            BY <3>2, RequestStepKeeps, RequestStepLanes
        <3> QED BY <2>1, <3>1, <3>2
    <2>2. ASSUME NEW l \in Lane, AutoResume(l) PROVE LaneInv' /\ RequestInv'
        BY <2>2, AutoResumeStep, RequestsUntouched DEF AutoResume
    <2>3. CASE ClearSessionSuspensionTimers
        BY <2>3, CleanupStep, RequestsUntouched DEF ClearSessionSuspensionTimers
    <2>4. CASE GatewayStart
        BY <2>4, GatewayStartStep, RequestsUntouched DEF GatewayStart
    <2>5. ASSUME NEW configured \in Limit, Publish(configured)
          PROVE  LaneInv' /\ RequestInv'
        BY <2>5, PublishStep, RequestsUntouched DEF Publish
    <2>6. CASE Tick
        BY <2>6, TickStep, RequestsUntouched DEF Tick
    <2>7. CASE UNCHANGED vars
        BY <2>7, LanesUntouched, RequestsUntouched DEF vars
    <2> QED BY <2>1, <2>2, <2>3, <2>4, <2>5, <2>6, <2>7 DEF Next
<1> QED BY SuspensionInit, <1>1, PTL DEF Spec

(* No lane is left at zero without a deadline, no timer outlives a         *)
(* cleanup, and the session's record names a suspension that was enforced  *)
(* (session-suspension.ts).                                                *)
THEOREM SuspensionAlwaysConsistent == Spec => []SuspensionInv
<1>1. LaneInv /\ RequestInv => SuspensionInv
    <2> SUFFICES ASSUME LaneInv, RequestInv PROVE SuspensionInv
        OBVIOUS
    <2>1. \A l \in Lane : /\ timers[l] \subseteq Deadline
                          /\ cleared[l] \subseteq Deadline
                          /\ Cardinality(timers[l]) <= 1
                          /\ Cardinality(cleared[l]) <= 1
        BY AtMostOneIsFinite DEF LaneInv, LaneTypes
    <2>2. Cardinality(record) <= 1 /\ Cardinality(previous) <= 1
        BY AtMostOneIsFinite DEF RequestInv, RequestTypes
    <2>3. TypeOK
        BY <2>1, <2>2 DEF TypeOK, LaneInv, LaneTypes, CleanupTypes, RequestInv,
                          RequestTypes
    <2> QED BY <2>3 DEF SuspensionInv, LaneInv, RequestInv
<1> QED BY LaneSuspensionInvariant, <1>1, PTL

(* Only its own deadline, run down, brings the nested lane back: neither a *)
(* reload nor a close and start of the gateway does                        *)
(* (server-lanes.ts:63).                                                   *)
THEOREM NestedAlwaysStaysSuspended == Spec => NestedStaysSuspended
<1> DEFINE Early(l) == concurrency[l] = 0 /\ concurrency'[l] # 0
           Due(l) == \E d \in timers[l] \cup cleared[l] : d.left = 0
<1>1. LaneInv /\ RequestInv /\ [Next]_vars =>
        [\A l \in Managed \ Hot : Early(l) => Due(l)]_vars
    <2> SUFFICES ASSUME LaneInv, Next, NEW l \in Managed \ Hot, Early(l)
                 PROVE  Due(l)
        OBVIOUS
    <2> USE DEF LaneInv, LaneTypes
    <2>0. l \in Lane
        OBVIOUS
    <2>1. ASSUME NEW r \in Request, SuspendSession(r) \/ RequestStep(r)
          PROVE  FALSE
        <3>1. concurrency' = concurrency
              \/ concurrency' = [concurrency EXCEPT ![LaneOf[r]] = 0]
            BY <2>1 DEF SuspendSession, RequestStep, StartQueued, PatchEntry,
               PatchFails, AfterPatch, RollBack, Throttle, laneVars
        <3> QED BY <2>0, <3>1
    <2>2. ASSUME NEW m \in Lane, AutoResume(m) PROVE Due(l)
        <3>1. m = l
            BY <2>0, <2>2 DEF AutoResume
        <3> QED BY <2>2, <3>1 DEF AutoResume
    <2>3. CASE GatewayStart
        <3>1. l \notin {k \in Lane : \E c \in cleared[k] : c.left > 0}
            BY <2>0, <2>3 DEF GatewayStart
        <3>2. cleanupActive /\ timers[l] = {}
            BY <2>0, <2>3 DEF GatewayStart, NoTimerAfterCleanup, None
        <3>3. PICK c \in cleared[l] : TRUE
            BY <2>0, <3>2 DEF NoLaneStuck
        <3>4. c.left \in 0..Ttl /\ ~(c.left > 0)
            BY <2>0, <3>1, <3>3 DEF Deadline
        <3>5. c.left = 0
            BY <3>4
        <3> QED BY <3>3, <3>5
    <2>4. ASSUME NEW configured \in Limit, Publish(configured) PROVE FALSE
        BY <2>0, <2>4 DEF Publish, ReachedByReload
    <2>5. ClearSessionSuspensionTimers \/ Tick => concurrency' = concurrency
        BY DEF ClearSessionSuspensionTimers, Tick
    <2> QED BY <2>1, <2>2, <2>3, <2>4, <2>5 DEF Next
<1> QED BY LaneSuspensionInvariant, <1>1, PTL DEF Spec, NestedStaysSuspended

-----------------------------------------------------------------------------
(* Nested lanes.                                                           *)

HIDE SuspensionConstants
USE NestedConstants

States == {"idle", "waiting", "running", "sending", "done"}

Rank(l) == IF l = Global("cron") THEN 1 ELSE IF l[1] = "session" THEN 2 ELSE 3

In(q, x) == \E i \in 1..Len(q) : q[i] = x

NestTypes ==
    /\ queue \in [LaneName -> Seq(Run)] /\ active \in [LaneName -> SUBSET Run]
    /\ held \in [Run -> Nat] /\ state \in [Run -> States]
    /\ awaits \in [Run -> SUBSET Run]

(* How far a run is on its path. *)
HeldFits ==
    \A r \in Run : /\ held[r] <= Len(Path(r))
                   /\ state[r] = "idle" => held[r] = 0
                   /\ state[r] = "waiting" => held[r] < Len(Path(r))

(* A run has slots in lanes it has entered only. *)
ActiveFits ==
    \A l \in LaneName : \A r \in active[l] : \E n \in 1..held[r] : Path(r)[n] = l

(* The runs that wait are queued where they go next, once each. *)
QueueFits(q) ==
    \A l \in LaneName : IsInjective(q[l])
QueuesFit ==
    /\ QueueFits(queue)
    /\ \A l \in LaneName : \A r \in Run :
         In(queue[l], r) <=> state[r] = "waiting" /\ NextLane(r) = l

RoomKept == \A l \in LaneName : Cardinality(active[l]) <= Slots(l)

(* Answers are awaited from sent runs. *)
AwaitsSent == \A r \in Run : \A c \in awaits[r] : Kind[c] = "sent"

NestInv ==
    /\ NestTypes /\ HeldFits /\ ActiveFits /\ QueuesFit /\ RoomKept
    /\ AwaitsSent

-----------------------------------------------------------------------------
LEMMA LanesDiffer ==
    /\ Global("main") # Global("cron") /\ Global("cron-nested") # Global("cron")
    /\ \A s, t : /\ SessionLane(s) # NestedLane(t)
                 /\ SessionLane(s) = SessionLane(t) => s = t
                 /\ NestedLane(s) = NestedLane(t) => s = t
    /\ \A s, name : /\ SessionLane(s) # Global(name)
                    /\ NestedLane(s) # Global(name)
BY DEF Global, SessionLane, NestedLane

LEMMA Ranks ==
    /\ Rank(Global("cron")) = 1
    /\ Rank(Global("main")) = 3 /\ Rank(Global("cron-nested")) = 3
    /\ \A s : Rank(SessionLane(s)) = 2 /\ Rank(NestedLane(s)) = 3
    /\ \A l : Rank(l) \in 1..3
<1>1. Global("main")[1] = "global" /\ Global("cron-nested")[1] = "global"
    BY DEF Global
<1>2. \A s : SessionLane(s)[1] = "session" /\ NestedLane(s)[1] = "nested"
    BY DEF SessionLane, NestedLane
<1> QED BY <1>1, <1>2, LanesDiffer DEF Rank

(* A path has two or three lanes, of rising rank. *)
LEMMA PathFacts ==
    ASSUME NEW r \in Run
    PROVE  /\ Path(r) \in Seq(LaneName)
           /\ Len(Path(r)) \in {2, 3}
           /\ \A n, m \in 1..Len(Path(r)) :
                 n < m => Rank(Path(r)[n]) < Rank(Path(r)[m])
<1> DEFINE s == SessionOf[r]
<1>1. s \in Session /\ Kind[r] \in {"channel", "cron", "timer", "sent"}
    OBVIOUS
<1>2. /\ Global("main") \in LaneName /\ Global("cron") \in LaneName
      /\ Global("cron-nested") \in LaneName
      /\ SessionLane(s) \in LaneName /\ NestedLane(s) \in LaneName
    BY <1>1 DEF LaneName
<1> HIDE DEF s
<1>3. CASE Kind[r] = "channel"
    <2>1. Path(r) = <<SessionLane(s), Global("main")>>
        BY <1>3 DEF Path, s
    <2> QED BY <1>2, <2>1, Ranks
<1>4. CASE Kind[r] = "cron"
    <2>1. Path(r) = <<Global("cron"), SessionLane(s), Global("cron-nested")>>
        BY <1>4 DEF Path, CronAgentLane, s
    <2> QED BY <1>2, <2>1, Ranks
<1>5. CASE Kind[r] = "timer"
    <2>1. Path(r) = <<SessionLane(s), Global("cron-nested")>>
        BY <1>5 DEF Path, CronAgentLane, s
    <2> QED BY <1>2, <2>1, Ranks
<1>6. CASE Kind[r] = "sent"
    <2>1. Path(r) = <<SessionLane(s), NestedLane(s)>>
        BY <1>6 DEF Path, NestedAgentLane, s
    <2> QED BY <1>2, <2>1, Ranks
<1> QED BY <1>1, <1>3, <1>4, <1>5, <1>6

(* The lanes of a path belong to its run's session or to nobody. *)
LEMMA PathOfSession ==
    ASSUME NEW r \in Run, NEW n \in 1..Len(Path(r)), NEW s,
           Path(r)[n] = SessionLane(s) \/ Path(r)[n] = NestedLane(s)
    PROVE  SessionOf[r] = s
<1> DEFINE t == SessionOf[r]
<1>1. Kind[r] \in {"channel", "cron", "timer", "sent"}
    OBVIOUS
<1> HIDE DEF t
<1>3. CASE Kind[r] = "channel"
    <2>1. Path(r) = <<SessionLane(t), Global("main")>>
        BY <1>3 DEF Path, t
    <2> QED BY <2>1, LanesDiffer DEF t
<1>4. CASE Kind[r] = "cron"
    <2>1. Path(r) = <<Global("cron"), SessionLane(t), Global("cron-nested")>>
        BY <1>4 DEF Path, CronAgentLane, t
    <2> QED BY <2>1, LanesDiffer DEF t
<1>5. CASE Kind[r] = "timer"
    <2>1. Path(r) = <<SessionLane(t), Global("cron-nested")>>
        BY <1>5 DEF Path, CronAgentLane, t
    <2> QED BY <2>1, LanesDiffer DEF t
<1>6. CASE Kind[r] = "sent"
    <2>1. Path(r) = <<SessionLane(t), NestedLane(t)>>
        BY <1>6 DEF Path, NestedAgentLane, t
    <2> QED BY <2>1, LanesDiffer DEF t
<1> QED BY <1>1, <1>3, <1>4, <1>5, <1>6

(* Every lane has a slot. *)
LEMMA SlotsPositive == \A l : Slots(l) \in Nat /\ Slots(l) > 0
BY DEF Slots

-----------------------------------------------------------------------------
(* Queues *)

LEMMA AppendOnce ==
    ASSUME NEW q \in Seq(Run), IsInjective(q), NEW r \in Run, ~In(q, r)
    PROVE  /\ Append(q, r) \in Seq(Run) /\ IsInjective(Append(q, r))
           /\ \A x : In(Append(q, r), x) <=> In(q, x) \/ x = r
<1>1. /\ Append(q, r) \in Seq(Run) /\ Len(Append(q, r)) = Len(q) + 1
      /\ Len(q) \in Nat /\ DOMAIN q = 1..Len(q)
      /\ \A i \in 1..Len(q) : Append(q, r)[i] = q[i]
      /\ Append(q, r)[Len(q) + 1] = r
      /\ DOMAIN Append(q, r) = 1..(Len(q) + 1)
    OBVIOUS
<1> DEFINE p == Append(q, r)
<1> HIDE DEF p
<1>2. IsInjective(p)
    BY <1>1 DEF IsInjective, In, p
<1>3. \A x : In(p, x) <=> In(q, x) \/ x = r
    BY <1>1 DEF In, p
<1> QED BY <1>1, <1>2, <1>3 DEF p

LEMMA TailOnce ==
    ASSUME NEW q \in Seq(Run), IsInjective(q), q # <<>>
    PROVE  /\ Tail(q) \in Seq(Run) /\ IsInjective(Tail(q))
           /\ \A x : In(Tail(q), x) <=> In(q, x) /\ x # Head(q)
<1>1. /\ Tail(q) \in Seq(Run) /\ Len(Tail(q)) = Len(q) - 1
      /\ Len(q) \in Nat /\ Len(q) > 0
      /\ DOMAIN q = 1..Len(q) /\ DOMAIN Tail(q) = 1..(Len(q) - 1)
      /\ \A i \in 1..(Len(q) - 1) : Tail(q)[i] = q[i + 1]
      /\ Head(q) = q[1]
    OBVIOUS
<1> DEFINE p == Tail(q)
<1> HIDE DEF p
<1>2. IsInjective(p)
    <2> SUFFICES ASSUME NEW i \in 1..(Len(q) - 1), NEW j \in 1..(Len(q) - 1),
                        p[i] = p[j]
                 PROVE  i = j
        BY <1>1 DEF IsInjective, p
    <2>1. i + 1 \in 1..Len(q) /\ j + 1 \in 1..Len(q) /\ q[i + 1] = q[j + 1]
        BY <1>1 DEF p
    <2>2. i + 1 = j + 1
        BY <1>1, <2>1 DEF IsInjective
    <2> QED BY <2>2
<1>3. ASSUME NEW x, In(p, x) PROVE In(q, x) /\ x # Head(q)
    <2>1. PICK i \in 1..(Len(q) - 1) : p[i] = x
        BY <1>1, <1>3 DEF In, p
    <2>2. i + 1 \in 1..Len(q) /\ q[i + 1] = x /\ 1 \in 1..Len(q) /\ i + 1 # 1
        BY <1>1, <2>1 DEF p
    <2> QED BY <1>1, <2>2 DEF In, IsInjective
<1>4. ASSUME NEW x, In(q, x), x # Head(q) PROVE In(p, x)
    <2>1. PICK i \in 1..Len(q) : q[i] = x
        BY <1>4 DEF In
    <2>2. i - 1 \in 1..(Len(q) - 1) /\ (i - 1) + 1 = i
        BY <1>1, <1>4, <2>1
    <2>3. p[i - 1] = x
        BY <1>1, <2>1, <2>2 DEF p
    <2> QED BY <1>1, <2>2, <2>3 DEF In, p
<1> QED BY <1>1, <1>2, <1>3, <1>4 DEF p

LEMMA InIsNotEmpty ==
    ASSUME NEW q \in Seq(Run), NEW r, In(q, r) PROVE q # <<>>
BY DEF In

(* The prefix up to and with the next lane is the whole path at its end. *)
LEMMA EnteredWhole ==
    ASSUME NEW r \in Run, NEW h \in Nat, h < Len(Path(r))
    PROVE  Append(SubSeq(Path(r), 1, h), Path(r)[h + 1]) = Path(r)
             <=> h + 1 = Len(Path(r))
<1> DEFINE p == Path(r)
           e == Append(SubSeq(p, 1, h), p[h + 1])
<1>1. p \in Seq(LaneName) /\ Len(p) \in Nat
    BY PathFacts
<1>2. p[h + 1] \in LaneName
    BY <1>1
<1> HIDE DEF p
<1>3. /\ SubSeq(p, 1, h) \in Seq(LaneName) /\ Len(SubSeq(p, 1, h)) = h
      /\ \A i \in 1..h : SubSeq(p, 1, h)[i] = p[i]
    <2>1. \A i \in 1..h : p[i] \in LaneName
        BY <1>1 DEF p
    <2> QED BY <1>1, <2>1, SubSeqProperties DEF p
<1>4. /\ e \in Seq(LaneName) /\ Len(e) = h + 1
      /\ \A i \in 1..(h + 1) : e[i] = p[i]
    BY <1>2, <1>3
<1> HIDE DEF e
<1>5. h + 1 = Len(p) => e = p
    BY <1>1, <1>4, SeqEqual
<1> QED BY <1>4, <1>5 DEF p, e

-----------------------------------------------------------------------------
LEMMA PathLength == \A r \in Run : Len(Path(r)) \in Nat /\ 0 < Len(Path(r))
<1>1. \A r \in Run : Len(Path(r)) \in {2, 3}
    BY PathFacts
<1> QED BY <1>1

LEMMA NextLaneFacts ==
    ASSUME NestInv, NEW r \in Run, held[r] < Len(Path(r))
    PROVE  /\ NextLane(r) \in LaneName
           /\ NextLane(r) = Path(r)[held[r] + 1]
           /\ held[r] + 1 \in 1..Len(Path(r))
BY PathFacts DEF NestInv, NestTypes, NextLane

LEMMA NestInit == NestedInit => NestInv
<1> SUFFICES ASSUME NestedInit PROVE NestInv
    OBVIOUS
<1> USE DEF NestedInit
<1>1. NestTypes
    BY DEF NestTypes, States
<1>2. HeldFits
    <2>1. \A r \in Run : Len(Path(r)) \in Nat
        BY PathFacts
    <2> QED BY <2>1 DEF HeldFits
<1>3. ActiveFits /\ AwaitsSent
    BY DEF ActiveFits, AwaitsSent
<1>4. QueuesFit
    <2>1. \A l \in LaneName : IsInjective(queue[l]) /\ \A r : ~In(queue[l], r)
        BY DEF IsInjective, In
    <2> QED BY <2>1 DEF QueuesFit, QueueFits
<1>5. RoomKept
    BY SlotsPositive, FS_EmptySet DEF RoomKept
<1> QED BY <1>1, <1>2, <1>3, <1>4, <1>5 DEF NestInv

(* A run that was idle queues for the first lane of its path. *)
LEMMA QueueUp ==
    ASSUME NestInv, NEW r \in Run, state[r] = "idle",
           queue' = Enqueued(r, NextLane(r)), held' = held,
           state' \in [Run -> States], state'[r] = "waiting",
           \A x \in Run \ {r} : state'[x] = "waiting" <=> state[x] = "waiting"
    PROVE  queue' \in [LaneName -> Seq(Run)] /\ QueuesFit'
<1>1. /\ held[r] < Len(Path(r)) /\ NextLane(r) \in LaneName
    <2>1. held[r] = 0
        BY DEF NestInv, HeldFits
    <2>2. held[r] < Len(Path(r))
        BY <2>1, PathLength
    <2> QED BY <2>2, NextLaneFacts
<1> DEFINE k == NextLane(r)
<1> HIDE DEF k
<1>2. /\ queue[k] \in Seq(Run) /\ IsInjective(queue[k]) /\ ~In(queue[k], r)
    BY <1>1 DEF NestInv, NestTypes, QueuesFit, QueueFits, k
<1>3. /\ queue'[k] = Append(queue[k], r)
      /\ \A l \in LaneName \ {k} : queue'[l] = queue[l]
      /\ queue' = [queue EXCEPT ![k] = Append(queue[k], r)]
    BY <1>1 DEF Enqueued, NestInv, NestTypes, k
<1>4. /\ queue'[k] \in Seq(Run) /\ IsInjective(queue'[k])
      /\ \A x : In(queue'[k], x) <=> In(queue[k], x) \/ x = r
    BY <1>2, <1>3, AppendOnce
<1>5. queue' \in [LaneName -> Seq(Run)]
    BY <1>1, <1>3, <1>4 DEF NestInv, NestTypes, k
<1>6. QueueFits(queue')
    BY <1>3, <1>4 DEF NestInv, QueuesFit, QueueFits
<1>7. \A x : NextLane(x)' = NextLane(x)
    BY DEF NextLane
<1>8. ASSUME NEW l \in LaneName, NEW x \in Run
      PROVE  In(queue'[l], x) <=> state'[x] = "waiting" /\ NextLane(x)' = l
    <2>1. In(queue[l], x) <=> state[x] = "waiting" /\ NextLane(x) = l
        BY DEF NestInv, QueuesFit
    <2>2. CASE l = k
        BY <1>4, <1>7, <2>1, <2>2 DEF k
    <2>3. CASE l # k
        BY <1>3, <1>7, <2>1, <2>3 DEF k
    <2> QED BY <2>2, <2>3
<1> QED BY <1>5, <1>6, <1>8 DEF QueuesFit

LEMMA ArrivesKeeps ==
    ASSUME NestInv, NEW r \in Run, Arrives(r) PROVE NestInv'
<1> USE DEF Arrives
<1>1. /\ state' \in [Run -> States] /\ state'[r] = "waiting"
      /\ \A x \in Run \ {r} : state'[x] = state[x]
    BY DEF NestInv, NestTypes, States
<1>2. queue' \in [LaneName -> Seq(Run)] /\ QueuesFit'
    BY <1>1, QueueUp
<1>3. NestTypes'
    BY <1>1, <1>2 DEF NestInv, NestTypes
<1>4. HeldFits'
    <2>1. held[r] = 0
        BY DEF NestInv, HeldFits
    <2>2. held[r] < Len(Path(r)) /\ held[r] <= Len(Path(r))
        BY <2>1, PathLength
    <2>3. held' = held
        OBVIOUS
    <2>4. ASSUME NEW x \in Run
          PROVE  /\ held[x] <= Len(Path(x))
                 /\ state'[x] = "idle" => held[x] = 0
                 /\ state'[x] = "waiting" => held[x] < Len(Path(x))
        BY <1>1, <2>2 DEF NestInv, HeldFits
    <2> QED BY <2>3, <2>4 DEF HeldFits
<1>5. ActiveFits' /\ RoomKept' /\ AwaitsSent'
    BY DEF NestInv, ActiveFits, RoomKept, AwaitsSent
<1> QED BY <1>2, <1>3, <1>4, <1>5 DEF NestInv

LEMMA SendsKeeps ==
    ASSUME NestInv, NEW r \in Run, NEW c \in Run, SendsAndWaits(r, c)
    PROVE  NestInv'
<1> USE DEF SendsAndWaits
<1>1. /\ state' \in [Run -> States] /\ state'[c] = "waiting"
      /\ r # c /\ state'[r] = "sending"
      /\ \A x \in Run \ {r, c} : state'[x] = state[x]
    BY DEF NestInv, NestTypes, States
<1>2. queue' \in [LaneName -> Seq(Run)] /\ QueuesFit'
    BY <1>1, QueueUp
<1>3. NestTypes'
    BY <1>1, <1>2 DEF NestInv, NestTypes
<1>4. HeldFits'
    <2>1. held[c] = 0
        BY DEF NestInv, HeldFits
    <2>2. held[c] < Len(Path(c)) /\ held[c] <= Len(Path(c))
        BY <2>1, PathLength
    <2>3. held' = held
        OBVIOUS
    <2>4. ASSUME NEW x \in Run
          PROVE  /\ held[x] <= Len(Path(x))
                 /\ state'[x] = "idle" => held[x] = 0
                 /\ state'[x] = "waiting" => held[x] < Len(Path(x))
        BY <1>1, <2>2 DEF NestInv, HeldFits
    <2> QED BY <2>3, <2>4 DEF HeldFits
<1>5. ActiveFits' /\ RoomKept'
    BY DEF NestInv, ActiveFits, RoomKept
<1>6. AwaitsSent'
    BY DEF NestInv, NestTypes, AwaitsSent
<1> QED BY <1>2, <1>3, <1>4, <1>5, <1>6 DEF NestInv

LEMMA ResumesKeeps ==
    ASSUME NestInv, NEW r \in Run, state[r] = "sending", Resumes(r)
    PROVE  NestInv'
<1> USE DEF Resumes
<1>1. /\ state' \in [Run -> States] /\ state'[r] = "running"
      /\ \A x \in Run \ {r} : state'[x] = state[x]
    BY DEF NestInv, NestTypes, States
<1>2. \A x : NextLane(x)' = NextLane(x)
    BY DEF NextLane
<1>3. NestTypes'
    BY <1>1 DEF NestInv, NestTypes
<1>4. HeldFits'
    BY <1>1 DEF NestInv, HeldFits
<1>5. ActiveFits' /\ RoomKept'
    BY DEF NestInv, ActiveFits, RoomKept
<1>6. AwaitsSent'
    BY DEF NestInv, NestTypes, AwaitsSent
<1>7. QueuesFit'
    BY <1>1, <1>2 DEF NestInv, QueuesFit
<1> QED BY <1>3, <1>4, <1>5, <1>6, <1>7 DEF NestInv

LEMMA FinishesKeeps ==
    ASSUME NestInv, NEW r \in Run, Finishes(r) PROVE NestInv'
<1> USE DEF Finishes
<1>1. /\ state' \in [Run -> States] /\ state'[r] = "done"
      /\ \A x \in Run \ {r} : state'[x] = state[x]
    BY DEF NestInv, NestTypes, States
<1>2. \A x : NextLane(x)' = NextLane(x)
    BY DEF NextLane
<1>3. NestTypes'
    BY <1>1 DEF NestInv, NestTypes
<1>4. HeldFits'
    BY <1>1 DEF NestInv, HeldFits
<1>5. \A l \in LaneName : active'[l] \subseteq active[l]
    OBVIOUS
<1>6. ActiveFits' /\ AwaitsSent'
    BY <1>5 DEF NestInv, ActiveFits, AwaitsSent
<1>7. RoomKept'
    <2> SUFFICES ASSUME NEW l \in LaneName
                 PROVE  Cardinality(active'[l]) <= Slots(l)
        BY DEF RoomKept
    <2>1. IsFiniteSet(active[l])
        BY FS_Subset DEF NestInv, NestTypes
    <2>2. /\ Cardinality(active'[l]) <= Cardinality(active[l])
          /\ Cardinality(active'[l]) \in Nat /\ Cardinality(active[l]) \in Nat
        BY <1>5, <2>1, FS_Subset, FS_CardinalityType
    <2>3. Cardinality(active[l]) <= Slots(l)
        BY DEF NestInv, RoomKept
    <2> QED BY <2>2, <2>3, SlotsPositive
<1>8. QueuesFit'
    BY <1>1, <1>2 DEF NestInv, QueuesFit
<1> QED BY <1>3, <1>4, <1>6, <1>7, <1>8 DEF NestInv

(* A run takes a slot of the lane at whose head it waits. *)
LEMMA EntersKeeps ==
    ASSUME NestInv, NEW r \in Run, Enters(r) PROVE NestInv'
<1> DEFINE l == NextLane(r)
           h == held[r]
<1>1. /\ h \in Nat /\ h < Len(Path(r)) /\ l \in LaneName /\ l = Path(r)[h + 1]
      /\ Len(Path(r)) \in {2, 3}
    BY NextLaneFacts, PathFacts DEF Enters, NestInv, NestTypes, HeldFits
<1>2. /\ state[r] = "waiting" /\ Head(queue[l]) = r /\ HasRoom(l)
      /\ active' = [active EXCEPT ![l] = @ \cup {r}]
      /\ held' = [held EXCEPT ![r] = @ + 1]
      /\ awaits' = awaits
    BY DEF Enters
<1>3. \/ /\ h + 1 = Len(Path(r))
         /\ state' = [state EXCEPT ![r] = "running"]
         /\ queue' = [queue EXCEPT ![l] = Tail(@)]
      \/ /\ h + 1 < Len(Path(r))
         /\ state' = state
         /\ queue' = [queue EXCEPT ![l] = Tail(@),
                                   ![Path(r)[h + 2]] = Append(@, r)]
    BY <1>1, EnteredWhole DEF Enters
<1> HIDE DEF l, h
<1>4. /\ queue[l] \in Seq(Run) /\ IsInjective(queue[l]) /\ In(queue[l], r)
      /\ queue[l] # <<>>
    BY <1>1, <1>2, InIsNotEmpty DEF NestInv, NestTypes, QueuesFit, QueueFits, l
<1>5. /\ Tail(queue[l]) \in Seq(Run) /\ IsInjective(Tail(queue[l]))
      /\ \A x : In(Tail(queue[l]), x) <=> In(queue[l], x) /\ x # r
    BY <1>2, <1>4, TailOnce
<1>6. /\ held'[r] = h + 1 /\ \A x \in Run \ {r} : held'[x] = held[x]
      /\ held' \in [Run -> Nat]
    BY <1>1, <1>2 DEF NestInv, NestTypes, h
<1>7. \A x \in Run \ {r} : NextLane(x)' = NextLane(x)
    BY <1>6 DEF NextLane
<1>8. /\ active'[l] = active[l] \cup {r}
      /\ \A k \in LaneName \ {l} : active'[k] = active[k]
      /\ active' \in [LaneName -> SUBSET Run]
    BY <1>1, <1>2 DEF NestInv, NestTypes
<1>9. ActiveFits'
    <2> SUFFICES ASSUME NEW k \in LaneName, NEW x \in active'[k]
                 PROVE  \E n \in 1..held'[x] : Path(x)[n] = k
        BY DEF ActiveFits
    <2>1. CASE x = r /\ k = l
        BY <1>1, <1>6, <2>1
    <2>2. CASE ~(x = r /\ k = l)
        <3>1. x \in active[k] /\ x \in Run
            BY <1>8, <2>2 DEF NestInv, NestTypes
        <3>2. PICK n \in 1..held[x] : Path(x)[n] = k
            BY <3>1 DEF NestInv, ActiveFits
        <3>3. held[x] \in Nat /\ held'[x] \in Nat /\ held[x] <= held'[x]
            <4>1. held[x] \in Nat /\ held'[x] \in Nat
                BY <1>6, <3>1 DEF NestInv, NestTypes
            <4>2. CASE x = r
                <5>1. held'[x] = held[x] + 1
                    BY <1>6, <4>2 DEF h
                <5> QED BY <4>1, <5>1
            <4>3. CASE x # r
                <5>1. held'[x] = held[x]
                    BY <1>6, <3>1, <4>3
                <5> QED BY <4>1, <5>1
            <4> QED BY <4>2, <4>3
        <3> QED BY <3>2, <3>3
    <2> QED BY <2>1, <2>2
<1>10. RoomKept'
    <2> SUFFICES ASSUME NEW k \in LaneName
                 PROVE  Cardinality(active'[k]) <= Slots(k)
        BY DEF RoomKept
    <2>1. CASE k # l
        BY <1>8, <2>1 DEF NestInv, RoomKept
    <2>2. CASE k = l
        <3>1. IsFiniteSet(active[l])
            BY <1>1, FS_Subset DEF NestInv, NestTypes
        <3>2. Cardinality(active[l]) \in Nat /\ Cardinality(active[l]) < Slots(l)
            BY <1>2, <3>1, FS_CardinalityType DEF HasRoom
        <3>3. Slots(l) \in Nat
            BY SlotsPositive
        <3>4. CASE r \in active[l]
            <4>1. active'[k] = active[l]
                BY <1>8, <2>2, <3>4
            <4>2. Cardinality(active[l]) <= Slots(l)
                BY <3>2, <3>3
            <4> QED BY <2>2, <4>1, <4>2
        <3>5. CASE r \notin active[l]
            <4>1. Cardinality(active[l] \cup {r}) = Cardinality(active[l]) + 1
                BY <3>1, <3>5, FS_AddElement
            <4>2. Cardinality(active[l]) + 1 <= Slots(l)
                BY <3>2, <3>3
            <4>3. Cardinality(active[l] \cup {r}) <= Slots(l)
                BY <4>1, <4>2
            <4> QED BY <1>8, <2>2, <4>3
        <3> QED BY <3>4, <3>5
    <2> QED BY <2>1, <2>2
<1>11. AwaitsSent' /\ awaits' \in [Run -> SUBSET Run]
    BY <1>2 DEF NestInv, NestTypes, AwaitsSent
<1>12. CASE h + 1 = Len(Path(r))
    <2>1. /\ state' = [state EXCEPT ![r] = "running"]
          /\ queue' = [queue EXCEPT ![l] = Tail(queue[l])]
        BY <1>1, <1>3, <1>12
    <2>2. /\ state' \in [Run -> States] /\ state'[r] = "running"
          /\ \A x \in Run \ {r} : state'[x] = state[x]
        BY <2>1 DEF NestInv, NestTypes, States
    <2>3. /\ queue' \in [LaneName -> Seq(Run)] /\ queue'[l] = Tail(queue[l])
          /\ \A k \in LaneName \ {l} : queue'[k] = queue[k]
        BY <1>1, <1>5, <2>1 DEF NestInv, NestTypes
    <2>4. NestTypes'
        BY <1>6, <1>8, <1>11, <2>2, <2>3 DEF NestTypes
    <2>5. HeldFits'
        BY <1>1, <1>6, <1>12, <2>2 DEF NestInv, HeldFits
    <2>6. QueuesFit'
        <3>1. QueueFits(queue')
            BY <1>5, <2>3 DEF NestInv, QueuesFit, QueueFits
        <3>2. ASSUME NEW k \in LaneName, NEW x \in Run
              PROVE  In(queue'[k], x) <=> state'[x] = "waiting" /\ NextLane(x)' = k
            <4>1. In(queue[k], x) <=> state[x] = "waiting" /\ NextLane(x) = k
                BY DEF NestInv, QueuesFit
            <4>2. CASE x = r
                <5>1. ~In(queue'[k], r)
                    BY <1>5, <2>3, <4>1, <4>2 DEF l
                <5> QED BY <2>2, <4>2, <5>1
            <4>3. CASE x # r
                BY <1>5, <1>7, <2>2, <2>3, <4>1, <4>3
            <4> QED BY <4>2, <4>3
        <3> QED BY <3>1, <3>2 DEF QueuesFit
    <2> QED BY <1>9, <1>10, <1>11, <2>4, <2>5, <2>6 DEF NestInv
<1>13. CASE h + 1 < Len(Path(r))
    <2> DEFINE k == Path(r)[h + 2]
    <2>1. h + 2 \in 1..Len(Path(r)) /\ h + 1 \in 1..Len(Path(r)) /\ h + 1 < h + 2
        BY <1>1, <1>13
    <2>2. k \in LaneName /\ k # l
        <3>1. Rank(Path(r)[h + 1]) < Rank(Path(r)[h + 2])
            BY <2>1, PathFacts
        <3>2. Rank(k) \in Nat /\ Rank(l) \in Nat
            BY Ranks
        <3>3. k \in LaneName
            BY <2>1, PathFacts
        <3> QED BY <1>1, <3>1, <3>2, <3>3
    <2> HIDE DEF k
    <2>3. /\ state' = state
          /\ queue' = [queue EXCEPT ![l] = Tail(@), ![k] = Append(@, r)]
        BY <1>1, <1>3, <1>13 DEF k
    <2>4. /\ queue'[l] = Tail(queue[l]) /\ queue'[k] = Append(queue[k], r)
          /\ \A j \in LaneName \ {l, k} : queue'[j] = queue[j]
          /\ DOMAIN queue' = LaneName
        BY <1>1, <2>2, <2>3 DEF NestInv, NestTypes
    <2>5. /\ queue[k] \in Seq(Run) /\ IsInjective(queue[k]) /\ ~In(queue[k], r)
        BY <2>2 DEF NestInv, NestTypes, QueuesFit, QueueFits, l
    <2>6. /\ queue'[k] \in Seq(Run) /\ IsInjective(queue'[k])
          /\ \A x : In(queue'[k], x) <=> In(queue[k], x) \/ x = r
        BY <2>4, <2>5, AppendOnce
    <2>7. queue' \in [LaneName -> Seq(Run)]
        <3>1. \A j \in LaneName : queue'[j] \in Seq(Run)
            BY <1>5, <2>4, <2>6 DEF NestInv, NestTypes
        <3>2. queue' = [j \in LaneName |-> queue'[j]]
            BY <2>3 DEF NestInv, NestTypes
        <3> QED BY <3>1, <3>2
    <2>8. NestTypes'
        BY <1>6, <1>8, <1>11, <2>3, <2>7 DEF NestInv, NestTypes
    <2>9. HeldFits'
        BY <1>1, <1>2, <1>6, <1>13, <2>3 DEF NestInv, HeldFits
    <2>10. NextLane(r)' = k
        BY <1>1, <1>6 DEF NextLane, k
    <2>11. QueuesFit'
        <3>1. QueueFits(queue')
            BY <1>5, <2>4, <2>6 DEF NestInv, QueuesFit, QueueFits
        <3>2. ASSUME NEW j \in LaneName, NEW x \in Run
              PROVE  In(queue'[j], x) <=> state'[x] = "waiting" /\ NextLane(x)' = j
            <4>1. In(queue[j], x) <=> state[x] = "waiting" /\ NextLane(x) = j
                BY DEF NestInv, QueuesFit
            <4>2. CASE x = r
                <5>1. In(queue'[j], r) <=> j = k
                    BY <1>5, <2>2, <2>4, <2>6, <4>1, <4>2 DEF l
                <5> QED BY <1>2, <2>3, <2>10, <4>2, <5>1
            <4>3. CASE x # r
                BY <1>5, <1>7, <2>2, <2>3, <2>4, <2>6, <4>1, <4>3
            <4> QED BY <4>2, <4>3
        <3> QED BY <3>1, <3>2 DEF QueuesFit
    <2> QED BY <1>9, <1>10, <1>11, <2>8, <2>9, <2>11 DEF NestInv
<1> QED BY <1>1, <1>12, <1>13

LEMMA NestStep == NestInv /\ [NestedNext]_nestedVars => NestInv'
<1> SUFFICES ASSUME NestInv, [NestedNext]_nestedVars PROVE NestInv'
    OBVIOUS
<1>1. CASE UNCHANGED nestedVars
    BY <1>1 DEF nestedVars, NestInv, NestTypes, HeldFits, ActiveFits, QueuesFit,
                QueueFits, RoomKept, AwaitsSent, NextLane
<1>2. ASSUME NEW r \in Run, GetsAnswer(r) \/ WaitTimesOut(r) PROVE NestInv'
    BY <1>2, ResumesKeeps DEF GetsAnswer, WaitTimesOut
<1> QED BY <1>1, <1>2, ArrivesKeeps, EntersKeeps, FinishesKeeps, SendsKeeps
        DEF NestedNext, AllDone

(* Lanes, paths and queues agree, for any runs in any order (run.ts,       *)
(* sessions-send-tool.ts).                                                 *)
THEOREM NestInvariant == NestedSpec => []NestInv
BY NestInit, NestStep, PTL DEF NestedSpec

-----------------------------------------------------------------------------
(* Whoever has a slot in the lane that b waits for, and waits itself,      *)
(* waits for a lane of higher rank.                                        *)
LEMMA WaitsClimb ==
    ASSUME NestInv, NEW b \in Run, state[b] = "waiting",
           NEW d \in active[NextLane(b)], state[d] = "waiting"
    PROVE  d \in Run /\ Rank(NextLane(b)) < Rank(NextLane(d))
<1>1. NextLane(b) \in LaneName
    BY NextLaneFacts DEF NestInv, HeldFits
<1>2. d \in Run
    BY <1>1 DEF NestInv, NestTypes
<1>3. PICK n \in 1..held[d] : Path(d)[n] = NextLane(b)
    BY <1>1 DEF NestInv, ActiveFits
<1>4. /\ held[d] \in Nat /\ held[d] < Len(Path(d)) /\ Len(Path(d)) \in {2, 3}
      /\ NextLane(d) = Path(d)[held[d] + 1]
    BY <1>2, PathFacts DEF NestInv, NestTypes, HeldFits, NextLane
<1>5. /\ n \in 1..Len(Path(d)) /\ held[d] + 1 \in 1..Len(Path(d))
      /\ n < held[d] + 1
    BY <1>4
<1>6. Rank(Path(d)[n]) < Rank(Path(d)[held[d] + 1])
    BY <1>2, <1>5, PathFacts
<1> QED BY <1>2, <1>3, <1>4, <1>6

(* Somebody has a slot in the lane that b of a circle waits for. *)
LEMMA CircleGoesOn ==
    ASSUME NestInv, NEW B \in SUBSET Run, CircularWait(B),
           \A x \in B : state[x] # "sending", NEW b \in B
    PROVE  \E d \in B : Rank(NextLane(b)) < Rank(NextLane(d))
<1>1. /\ state[b] = "waiting" /\ active[NextLane(b)] \subseteq B
      /\ Cardinality(active[NextLane(b)]) = Slots(NextLane(b))
    BY DEF CircularWait
<1>2. active[NextLane(b)] # {}
    BY <1>1, SlotsPositive, FS_EmptySet
<1>3. PICK d \in active[NextLane(b)] : TRUE
    BY <1>2
<1>4. d \in B /\ state[d] = "waiting"
    BY <1>1 DEF CircularWait
<1> QED BY <1>1, <1>4, WaitsClimb

LEMMA NestIsSafe == NestInv => NestingInv
<1> SUFFICES ASSUME NestInv PROVE NestingInv
    OBVIOUS
<1>1. NestedTypeOK
    <2>1. \A r \in Run : held[r] \in 0..Len(Path(r))
        <3>1. \A r \in Run : Len(Path(r)) \in {2, 3}
            BY PathFacts
        <3> QED BY <3>1 DEF NestInv, NestTypes, HeldFits
    <2> QED BY <2>1 DEF NestInv, NestTypes, States, RoomKept, QueuesFit,
            QueueFits, NestedTypeOK
<1>2. CirclesNeedASend
    <2> SUFFICES ASSUME NEW B \in SUBSET Run, B # {}, CircularWait(B),
                        \A x \in B : state[x] # "sending"
                 PROVE  FALSE
        BY DEF CirclesNeedASend
    <2>1. PICK b0 \in B : TRUE
        OBVIOUS
    <2>2. PICK b1 \in B : Rank(NextLane(b0)) < Rank(NextLane(b1))
        BY CircleGoesOn
    <2>3. PICK b2 \in B : Rank(NextLane(b1)) < Rank(NextLane(b2))
        BY CircleGoesOn
    <2>4. PICK b3 \in B : Rank(NextLane(b2)) < Rank(NextLane(b3))
        BY CircleGoesOn
    <2>5. /\ Rank(NextLane(b0)) \in 1..3 /\ Rank(NextLane(b1)) \in 1..3
          /\ Rank(NextLane(b2)) \in 1..3 /\ Rank(NextLane(b3)) \in 1..3
        BY Ranks
    <2> QED BY <2>2, <2>3, <2>4, <2>5
<1>3. AnswerNotBehindSender
    <2> SUFFICES ASSUME NEW r \in Run, NEW c \in Run, c \in awaits[r],
                        state[c] = "waiting", r \in active[NextLane(c)]
                 PROVE  SessionOf[r] = SessionOf[c]
        BY DEF AnswerNotBehindSender
    <2>1. Kind[c] = "sent"
        BY DEF NestInv, AwaitsSent
    <2>2. /\ NextLane(c) \in LaneName /\ NextLane(c) = Path(c)[held[c] + 1]
          /\ held[c] + 1 \in 1..Len(Path(c))
        BY NextLaneFacts DEF NestInv, HeldFits
    <2>3. Path(c) = <<SessionLane(SessionOf[c]), NestedLane(SessionOf[c])>>
        BY <2>1 DEF Path, NestedAgentLane
    <2>4. NextLane(c) \in {SessionLane(SessionOf[c]), NestedLane(SessionOf[c])}
        BY <2>2, <2>3
    <2>5. PICK n \in 1..held[r] : Path(r)[n] = NextLane(c)
        BY <2>2 DEF NestInv, ActiveFits
    <2>6. n \in 1..Len(Path(r))
        <3>1. held[r] \in Nat /\ held[r] <= Len(Path(r)) /\ Len(Path(r)) \in {2, 3}
            BY PathFacts DEF NestInv, NestTypes, HeldFits
        <3> QED BY <3>1
    <2> QED BY <2>4, <2>5, <2>6, PathOfSession
<1> QED BY <1>1, <1>2, <1>3 DEF NestingInv

(* For any runs and any number of slots nesting lanes is safe: no circle   *)
(* of runs waits for slots alone, and no answer waits behind its question  *)
(* (resolveCronAgentLane, resolveNestedAgentLaneForSession).               *)
THEOREM NestingAlwaysSafe == NestedSpec => []NestingInv
BY NestInvariant, NestIsSafe, PTL

=============================================================================
