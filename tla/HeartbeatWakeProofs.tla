------------------------- MODULE HeartbeatWakeProofs -------------------------
(***************************************************************************)
(* Theorems about HeartbeatWake for any targets, priorities, delays and    *)
(* number of handlers.  The inductive invariant counts permissions.  A     *)
(* registered handler with the running flag down is the permission for one *)
(* more batch (BatchesAreLicensed); a pending or unhandled wake is the     *)
(* permission for one more run of its target (RunsArePaid).                *)
(***************************************************************************)
EXTENDS HeartbeatWake, FiniteSetTheorems, TLAPS

USE WakeBounds

Timer == [left : Nat, delay : Nat, kind : {"normal", "retry"}]

(* TypeOK with the bound on the timers in a form without cardinality. *)
WakeTypes ==
    /\ handler \in BOOLEAN /\ handlerGeneration \in 0..MaxGeneration
    /\ registrations \in 0..handlerGeneration
    /\ pendingWakes \in [Target -> Priority \cup {0}]
    /\ scheduled \in BOOLEAN /\ running \in BOOLEAN
BatchTypes ==
    /\ batch \in [Slot -> [Target -> Priority \cup {0}]]
    /\ todo \in [Slot -> SUBSET Target]
    /\ rearm \in [Slot -> Nat]
HistoryTypes ==
    /\ requests \in [Target -> 0..MaxRequests] /\ runs \in [Target -> Nat]
    /\ throws \in 0..MaxThrows
OneTimer ==
    /\ timer \subseteq Timer
    /\ \A x, y \in timer : x = y

(* A batch has still to handle only wakes it took. *)
TodoWasTaken == \A s \in Slot : \A t \in todo[s] : batch[s][t] # 0

(* The batches alive, and one more when a handler may start one at once,   *)
(* do not outnumber the handlers that were registered.                     *)
Licensed == IF handler /\ ~running THEN 1 ELSE 0
BatchesAreLicensed == Cardinality(Alive) + Licensed <= registrations

(* The batches that have still to handle target t. *)
Handling(t) == {s \in Slot : t \in todo[s]}
Pending(t) == IF pendingWakes[t] = 0 THEN 0 ELSE 1

(* Runs done and runs to come are covered by requests and thrown batches. *)
RunsArePaid ==
    \A t \in Target :
        runs[t] + Pending(t) + Cardinality(Handling(t)) <= requests[t] + throws

HeartbeatInv ==
    /\ WakeTypes /\ BatchTypes /\ HistoryTypes /\ OneTimer
    /\ NoStrandedWake /\ TodoWasTaken /\ BatchesAreLicensed /\ RunsArePaid

-----------------------------------------------------------------------------
(* What the queue and the timer operators return. *)

(* schedule leaves exactly one timer armed. *)
LEMMA ScheduleArmsOne ==
    ASSUME NEW armed \in SUBSET Timer, \A x, y \in armed : x = y,
           NEW delay \in Nat, NEW kind \in {"normal", "retry"}
    PROVE  /\ Schedule(armed, delay, kind) \subseteq Timer
           /\ \A x, y \in Schedule(armed, delay, kind) : x = y
           /\ Schedule(armed, delay, kind) # {}
<1> DEFINE Kept == \E tm \in armed : tm.kind = "retry" \/ tm.left <= delay
           New == [left |-> delay, delay |-> delay, kind |-> kind]
<1>1. CASE Kept
    BY <1>1 DEF Schedule
<1>2. CASE ~Kept
    <2>1. Schedule(armed, delay, kind) = {New}
        BY <1>2 DEF Schedule
    <2>2. New \in Timer
        BY DEF Timer
    <2> QED BY <2>1, <2>2
<1> QED BY <1>1, <1>2

(* A pending wake's priority can be compared with that of a request. *)
LEMMA PrioritiesAreNumbers == Priority \cup {0} \subseteq Nat
OBVIOUS

(* queuePendingWakeReason never lowers a priority and changes one target. *)
LEMMA QueuedRaises ==
    ASSUME NEW p \in [Target -> Priority \cup {0}], NEW t \in Target,
           NEW priority \in Priority
    PROVE  /\ Queued(p, t, priority) \in [Target -> Priority \cup {0}]
           /\ \A u \in Target : Queued(p, t, priority)[u] >= p[u]
           /\ \A u \in Target \ {t} : Queued(p, t, priority)[u] = p[u]
<1>1. p[t] \in Nat /\ priority \in Nat
    BY PrioritiesAreNumbers
<1>2. \A u \in Target : Queued(p, t, priority)[u] =
          IF u = t THEN IF priority >= p[t] THEN priority ELSE p[t] ELSE p[u]
    BY DEF Queued
<1>3. \A u \in Target : p[u] \in Nat
    BY PrioritiesAreNumbers
<1>4. Queued(p, t, priority) \in [Target -> Priority \cup {0}]
    BY DEF Queued
<1> QED BY <1>1, <1>2, <1>3, <1>4

(* Sets of at most one element are finite. *)
LEMMA AtMostOne ==
    ASSUME NEW S, \A x, y \in S : x = y
    PROVE  IsFiniteSet(S) /\ Cardinality(S) <= 1
<1>1. CASE S = {}
    BY <1>1, FS_EmptySet
<1>2. CASE S # {}
    <2> PICK x \in S : TRUE
        BY <1>2
    <2>1. S = {x}
        OBVIOUS
    <2>2. IsFiniteSet({x}) /\ Cardinality({x}) = 1
        BY FS_Singleton
    <2> QED BY <2>1, <2>2
<1> QED BY <1>1, <1>2

(* A set of slots that loses, gains or keeps slots. *)
LEMMA SlotSets ==
    ASSUME NEW A \in SUBSET Slot, NEW s \in Slot
    PROVE  /\ IsFiniteSet(A) /\ Cardinality(A) \in Nat
           /\ s \notin A => Cardinality(A \cup {s}) = Cardinality(A) + 1
           /\ s \in A => Cardinality(A \ {s}) = Cardinality(A) - 1
<1>1. IsFiniteSet(A) /\ Cardinality(A) \in Nat
    BY FS_Subset, FS_CardinalityType
<1>2. s \notin A => Cardinality(A \cup {s}) = Cardinality(A) + 1
    BY <1>1, FS_AddElement
<1>3. s \in A => Cardinality(A \ {s}) = Cardinality(A) - 1
    BY <1>1, FS_RemoveElement
<1> QED BY <1>1, <1>2, <1>3

-----------------------------------------------------------------------------
(* The steps of a batch come in two shapes: it goes on with wakes and      *)
(* timers p and armed, or it ends with them.                               *)
GoesOn(s, t, p, armed) ==
    /\ t \in todo[s] /\ todo' = [todo EXCEPT ![s] = @ \ {t}]
    /\ pendingWakes' = p /\ timer' = armed
    /\ UNCHANGED <<batch, rearm, running, scheduled>>

(* No wake is lost or lowered on the way, and none is left without a timer.*)
KeepsWakes(p, armed) ==
    /\ p \in [Target -> Priority \cup {0}]
    /\ \A u \in Target : p[u] >= pendingWakes[u]
    /\ armed \subseteq Timer /\ \A x, y \in armed : x = y
    /\ handler /\ Waiting(p) # {} => armed # {}

(* Every step of a batch has one of the two shapes. *)
LEMMA BatchShapes ==
    ASSUME HeartbeatInv, NEW s \in Slot, BatchStep(s)
    PROVE  /\ todo[s] # {}
           /\ \E p, armed : /\ KeepsWakes(p, armed)
                            /\ \/ Finally(s, p, armed)
                               \/ \E t \in Target : GoesOn(s, t, p, armed)
<1> USE DEF HeartbeatInv, WakeTypes, BatchTypes, OneTimer
<1>0. \A u \in Target : pendingWakes[u] \in Nat
    BY PrioritiesAreNumbers
<1> DEFINE Again == Schedule(timer, RetryDelay, "retry")
<1>1. Again \subseteq Timer /\ (\A x, y \in Again : x = y) /\ Again # {}
    BY ScheduleArmsOne
<1>2. ASSUME NEW t \in Target, WakeRuns(s, t)
      PROVE  /\ todo[s] # {}
             /\ \E p, armed : /\ KeepsWakes(p, armed)
                              /\ \/ Finally(s, p, armed)
                                 \/ \E u \in Target : GoesOn(s, u, p, armed)
    <2>1. KeepsWakes(pendingWakes, timer)
        <3>1. \A u \in Target : pendingWakes[u] >= pendingWakes[u]
            BY <1>0
        <3> QED BY <3>1 DEF KeepsWakes, NoStrandedWake
    <2>2. Finally(s, pendingWakes, timer) \/ GoesOn(s, t, pendingWakes, timer)
        BY <1>2 DEF WakeRuns, Proceed, GoesOn
    <2> QED BY <1>2, <2>1, <2>2 DEF WakeRuns
<1>3. ASSUME NEW t \in Target, WakeSkippedBusy(s, t)
      PROVE  /\ todo[s] # {}
             /\ \E p, armed : /\ KeepsWakes(p, armed)
                              /\ \/ Finally(s, p, armed)
                                 \/ \E u \in Target : GoesOn(s, u, p, armed)
    <2> DEFINE q == Queued(pendingWakes, t, batch[s][t])
    <2>1. batch[s][t] \in Priority
        BY <1>3 DEF WakeSkippedBusy, TodoWasTaken
    <2>2. q \in [Target -> Priority \cup {0}]
          /\ \A u \in Target : q[u] >= pendingWakes[u]
        BY <2>1, QueuedRaises
    <2>3. KeepsWakes(q, Again)
        BY <2>2, <1>1 DEF KeepsWakes
    <2>4. Finally(s, q, Again) \/ GoesOn(s, t, q, Again)
        BY <1>3 DEF WakeSkippedBusy, Proceed, GoesOn
    <2> QED BY <1>3, <2>3, <2>4 DEF WakeSkippedBusy
<1>4. ASSUME BatchThrows(s)
      PROVE  /\ todo[s] # {}
             /\ \E p, armed : KeepsWakes(p, armed) /\ Finally(s, p, armed)
    <2> DEFINE q == [t \in Target |->
                       IF batch[s][t] = 0 THEN pendingWakes[t]
                       ELSE Queued(pendingWakes, t, batch[s][t])[t]]
    <2>1. ASSUME NEW t \in Target
          PROVE  q[t] \in Priority \cup {0} /\ q[t] >= pendingWakes[t]
        <3>1. CASE batch[s][t] = 0
            <4>1. q[t] = pendingWakes[t]
                BY <3>1
            <4> QED BY <4>1, <1>0
        <3>2. CASE batch[s][t] # 0
            <4>1. batch[s][t] \in Priority
                BY <3>2
            <4>2. q[t] = Queued(pendingWakes, t, batch[s][t])[t]
                BY <3>2
            <4>3. Queued(pendingWakes, t, batch[s][t])[t] >= pendingWakes[t]
                BY <4>1, QueuedRaises
            <4>4. Queued(pendingWakes, t, batch[s][t])
                    \in [Target -> Priority \cup {0}]
                BY <4>1, QueuedRaises
            <4> HIDE DEF q
            <4> QED BY <4>2, <4>3, <4>4
        <3> QED BY <3>1, <3>2
    <2>2. KeepsWakes(q, Again)
        BY <2>1, <1>1 DEF KeepsWakes
    <2>3. Finally(s, q, Again)
        BY <1>4 DEF BatchThrows
    <2> QED BY <1>4, <2>2, <2>3 DEF BatchThrows
<1> QED BY <1>2, <1>3, <1>4 DEF BatchStep

(* A batch that goes on or ends keeps everything but the run counts, which *)
(* depend on why it does.                                                  *)
LEMMA BatchKeepsShape ==
    ASSUME HeartbeatInv, NEW s \in Slot, BatchStep(s)
    PROVE  /\ WakeTypes' /\ BatchTypes' /\ OneTimer' /\ NoStrandedWake'
           /\ TodoWasTaken' /\ BatchesAreLicensed'
<1> USE DEF HeartbeatInv
<1>1. UNCHANGED handlerVars
    BY DEF BatchStep, WakeRuns, WakeSkippedBusy, BatchThrows
<1>2. s \in Alive
    <2>1. PICK t \in todo[s] : TRUE
        BY BatchShapes
    <2>2. t \in Target /\ batch[s][t] # 0
        BY DEF BatchTypes, TodoWasTaken
    <2> QED BY <2>2 DEF Alive, NoWakes
<1>3. Cardinality(Alive) \in Nat /\ registrations \in Nat
    <2>1. Alive \in SUBSET Slot
        BY DEF Alive
    <2>2. Cardinality(Alive) \in Nat
        BY <2>1, SlotSets
    <2>3. registrations \in Nat
        BY DEF WakeTypes
    <2> QED BY <2>2, <2>3
<1>4. PICK p, armed : /\ KeepsWakes(p, armed)
                      /\ \/ Finally(s, p, armed)
                         \/ \E t \in Target : GoesOn(s, t, p, armed)
    BY BatchShapes
<1>5. CASE \E t \in Target : GoesOn(s, t, p, armed)
    <2> USE <1>1, <1>4, <1>5 DEF GoesOn, KeepsWakes, handlerVars
    <2>1. WakeTypes' /\ BatchTypes'
        BY DEF WakeTypes, BatchTypes
    <2>2. OneTimer' /\ NoStrandedWake'
        BY DEF OneTimer, NoStrandedWake, Waiting
    <2>3. TodoWasTaken'
        BY DEF TodoWasTaken, BatchTypes
    <2>4. BatchesAreLicensed'
        BY DEF BatchesAreLicensed, Licensed, Alive
    <2> QED BY <2>1, <2>2, <2>3, <2>4
<1>6. CASE Finally(s, p, armed)
    <2> USE <1>1, <1>4, <1>6 DEF Finally, KeepsWakes, handlerVars
    <2>1. WakeTypes'
        BY DEF WakeTypes
    <2>2. BatchTypes'
        <3>1. NoWakes \in [Target -> Priority \cup {0}]
            BY DEF NoWakes
        <3> QED BY <3>1 DEF BatchTypes
    <2>3. /\ Schedule(armed, rearm[s], "normal") \subseteq Timer
          /\ \A x, y \in Schedule(armed, rearm[s], "normal") : x = y
          /\ Schedule(armed, rearm[s], "normal") # {}
        BY ScheduleArmsOne DEF BatchTypes
    <2>4. OneTimer' /\ NoStrandedWake'
        BY <2>3 DEF OneTimer, NoStrandedWake, Waiting
    <2>5. TodoWasTaken'
        BY DEF TodoWasTaken, BatchTypes
    <2>6. Alive' = Alive \ {s}
        BY DEF Alive, BatchTypes
    <2>7. Cardinality(Alive \ {s}) = Cardinality(Alive) - 1
        BY <1>2, SlotSets DEF Alive
    <2>8. BatchesAreLicensed'
        <3>1. Cardinality(Alive) <= registrations
            BY <1>3 DEF BatchesAreLicensed, Licensed
        <3>2. Cardinality(Alive') + 1 <= registrations'
            BY <3>1, <2>6, <2>7, <1>3
        <3> QED BY <3>2, <1>3, <2>6, <2>7 DEF BatchesAreLicensed, Licensed
    <2> QED BY <2>1, <2>2, <2>4, <2>5, <2>8
<1> QED BY <1>4, <1>5, <1>6

-----------------------------------------------------------------------------
(* The terms of the balance in RunsArePaid are numbers. *)
LEMMA BalanceTypes ==
    ASSUME HeartbeatInv, NEW t \in Target
    PROVE  /\ runs[t] \in Nat /\ requests[t] \in Nat /\ throws \in Nat
           /\ Cardinality(Handling(t)) \in Nat /\ Pending(t) \in {0, 1}
           /\ runs[t] + Pending(t) + Cardinality(Handling(t))
                <= requests[t] + throws
<1>1. Handling(t) \in SUBSET Slot
    BY DEF Handling
<1>2. CASE Slot = {}
    <2>1. Handling(t) = {}
        BY <1>1, <1>2
    <2>2. Cardinality(Handling(t)) \in Nat
        BY <2>1, FS_EmptySet
    <2> QED BY <2>2 DEF HeartbeatInv, HistoryTypes, RunsArePaid, Pending
<1>3. CASE Slot # {}
    <2> PICK s \in Slot : TRUE
        BY <1>3
    <2>1. Cardinality(Handling(t)) \in Nat
        BY <1>1, SlotSets
    <2> QED BY <2>1 DEF HeartbeatInv, HistoryTypes, RunsArePaid, Pending
<1> QED BY <1>2, <1>3

(* Handling target t of the batch in slot s removes s from those that have *)
(* it to do and no other.                                                  *)
LEMMA ProceedHandlesOne ==
    ASSUME HeartbeatInv, NEW s \in Slot, NEW t \in todo[s], NEW p, NEW armed,
           Proceed(s, t, p, armed)
    PROVE  /\ pendingWakes' = p
           /\ Cardinality(Handling(t)') = Cardinality(Handling(t)) - 1
           /\ \A u \in Target \ {t} : Handling(u)' = Handling(u)
<1> USE DEF HeartbeatInv
<1>1. todo' = [todo EXCEPT ![s] = @ \ {t}] /\ pendingWakes' = p
    BY DEF Proceed, Finally, BatchTypes
<1>2. Handling(t)' = Handling(t) \ {s}
    BY <1>1 DEF Handling, BatchTypes
<1>3. \A u \in Target \ {t} : Handling(u)' = Handling(u)
    BY <1>1 DEF Handling, BatchTypes
<1>4. Handling(t) \in SUBSET Slot /\ s \in Handling(t)
    BY DEF Handling
<1>5. Cardinality(Handling(t) \ {s}) = Cardinality(Handling(t)) - 1
    BY <1>4, SlotSets
<1> QED BY <1>1, <1>2, <1>3, <1>5

(* A step of a batch keeps the balance of runs against requests. *)
LEMMA BatchStepPays ==
    ASSUME HeartbeatInv, NEW s \in Slot, BatchStep(s)
    PROVE  HistoryTypes' /\ RunsArePaid'
<1>1. ASSUME NEW t \in Target, WakeRuns(s, t)
      PROVE  HistoryTypes' /\ RunsArePaid'
    <2> USE <1>1 DEF WakeRuns
    <2>1. HistoryTypes'
        BY DEF HeartbeatInv, HistoryTypes
    <2>2. /\ pendingWakes' = pendingWakes
          /\ Cardinality(Handling(t)') = Cardinality(Handling(t)) - 1
          /\ \A u \in Target \ {t} : Handling(u)' = Handling(u)
        BY ProceedHandlesOne
    <2>3. \A u \in Target : Pending(u)' = Pending(u)
        BY <2>2 DEF Pending
    <2>4. runs'[t] = runs[t] + 1 /\ \A u \in Target \ {t} : runs'[u] = runs[u]
        BY DEF HeartbeatInv, HistoryTypes
    <2>5. ASSUME NEW u \in Target
          PROVE  runs'[u] + Pending(u)' + Cardinality(Handling(u)')
                   <= requests'[u] + throws'
        <3>1. CASE u = t
            BY <3>1, <2>2, <2>3, <2>4, BalanceTypes
        <3>2. CASE u # t
            BY <3>2, <2>2, <2>3, <2>4, BalanceTypes
        <3> QED BY <3>1, <3>2
    <2> QED BY <2>1, <2>5 DEF RunsArePaid
<1>2. ASSUME NEW t \in Target, WakeSkippedBusy(s, t)
      PROVE  HistoryTypes' /\ RunsArePaid'
    <2> USE <1>2 DEF WakeSkippedBusy
    <2>1. HistoryTypes'
        BY DEF HeartbeatInv, HistoryTypes
    <2>2. /\ pendingWakes' = Queued(pendingWakes, t, batch[s][t])
          /\ Cardinality(Handling(t)') = Cardinality(Handling(t)) - 1
          /\ \A u \in Target \ {t} : Handling(u)' = Handling(u)
        BY ProceedHandlesOne
    <2>3. \A u \in Target \ {t} : Pending(u)' = Pending(u)
        BY <2>2 DEF Pending, Queued, HeartbeatInv, WakeTypes
    <2>4. ASSUME NEW u \in Target
          PROVE  runs'[u] + Pending(u)' + Cardinality(Handling(u)')
                   <= requests'[u] + throws'
        <3>1. CASE u = t
            <4>1. Pending(t)' \in {0, 1}
                BY DEF Pending
            <4> QED BY <3>1, <4>1, <2>2, BalanceTypes
        <3>2. CASE u # t
            BY <3>2, <2>2, <2>3, BalanceTypes
        <3> QED BY <3>1, <3>2
    <2> QED BY <2>1, <2>4 DEF RunsArePaid
<1>3. ASSUME BatchThrows(s)
      PROVE  HistoryTypes' /\ RunsArePaid'
    <2> USE <1>3 DEF BatchThrows
    <2>1. HistoryTypes'
        BY DEF HeartbeatInv, HistoryTypes
    <2>2. todo' = [todo EXCEPT ![s] = {}]
        BY DEF Finally
    <2>3. pendingWakes' = [t \in Target |->
                             IF batch[s][t] = 0 THEN pendingWakes[t]
                             ELSE Queued(pendingWakes, t, batch[s][t])[t]]
        BY DEF Finally
    <2>4. ASSUME NEW u \in Target
          PROVE  runs'[u] + Pending(u)' + Cardinality(Handling(u)')
                   <= requests'[u] + throws'
        <3>1. CASE u \in todo[s]
            <4>1. Handling(u)' = Handling(u) \ {s}
                BY <2>2, <3>1 DEF Handling, HeartbeatInv, BatchTypes
            <4>2. s \in Handling(u) /\ Handling(u) \in SUBSET Slot
                BY <3>1 DEF Handling
            <4>3. Cardinality(Handling(u)') = Cardinality(Handling(u)) - 1
                BY <4>1, <4>2, SlotSets
            <4>4. Pending(u)' \in {0, 1}
                BY DEF Pending
            <4> QED BY <4>3, <4>4, BalanceTypes
        <3>2. CASE u \notin todo[s]
            <4>1. Handling(u)' = Handling(u)
                BY <2>2, <3>2 DEF Handling, HeartbeatInv, BatchTypes
            <4>2. Pending(u)' \in {0, 1}
                BY DEF Pending
            <4> QED BY <4>1, <4>2, BalanceTypes
        <3> QED BY <3>1, <3>2
    <2> QED BY <2>1, <2>4 DEF RunsArePaid
<1> QED BY <1>1, <1>2, <1>3 DEF BatchStep

-----------------------------------------------------------------------------
(* A request queues its wake, arms a timer and pays for one run. *)
LEMMA RequestStep ==
    ASSUME HeartbeatInv, NEW t \in Target, NEW pr \in Priority,
           NEW d \in Coalesce, RequestHeartbeat(t, pr, d)
    PROVE  HeartbeatInv'
<1> USE DEF HeartbeatInv, RequestHeartbeat, handlerVars, batchVars
<1>1. WakeTypes'
    BY QueuedRaises DEF WakeTypes
<1>2. BatchTypes' /\ TodoWasTaken'
    BY DEF BatchTypes, TodoWasTaken
<1>3. HistoryTypes'
    BY DEF HistoryTypes
<1>4. OneTimer' /\ NoStrandedWake'
    BY ScheduleArmsOne DEF OneTimer, NoStrandedWake
<1>5. BatchesAreLicensed'
    BY DEF BatchesAreLicensed, Licensed, Alive
<1>6. RunsArePaid'
    <2>1. \A u \in Target : Handling(u)' = Handling(u)
        BY DEF Handling
    <2>2. \A u \in Target \ {t} : Pending(u)' = Pending(u)
        BY DEF Pending, Queued, WakeTypes
    <2>3. Pending(t)' \in {0, 1}
        BY DEF Pending
    <2>4. /\ requests'[t] = requests[t] + 1
          /\ \A u \in Target \ {t} : requests'[u] = requests[u]
        BY DEF HistoryTypes
    <2>5. ASSUME NEW u \in Target
          PROVE  runs'[u] + Pending(u)' + Cardinality(Handling(u)')
                   <= requests'[u] + throws'
        <3>1. CASE u = t
            BY <3>1, <2>1, <2>3, <2>4, BalanceTypes
        <3>2. CASE u # t
            BY <3>2, <2>1, <2>2, <2>4, BalanceTypes
        <3> QED BY <3>1, <3>2
    <2> QED BY <2>5 DEF RunsArePaid
<1> QED BY <1>1, <1>2, <1>3, <1>4, <1>5, <1>6

(* The batch the timer starts in slot s takes all pending wakes. *)
StartsBatch(s, tm) ==
    /\ handler /\ ~running /\ s \in Slot \ Alive /\ tm \in timer
    /\ scheduled' = FALSE /\ timer' = {}
    /\ batch' = [batch EXCEPT ![s] = pendingWakes]
    /\ todo' = [todo EXCEPT ![s] = Waiting(pendingWakes)]
    /\ rearm' = [rearm EXCEPT ![s] = tm.delay]
    /\ pendingWakes' = NoWakes
    /\ running' = TRUE
    /\ UNCHANGED <<handlerVars, history>>

(* Starting a batch uses the handler's licence up and moves the wakes.     *)
LEMMA StartsBatchStep ==
    ASSUME HeartbeatInv, NEW s, NEW tm, StartsBatch(s, tm)
    PROVE  HeartbeatInv'
<1> USE DEF HeartbeatInv, StartsBatch, handlerVars, history
<1>0. NoWakes \in [Target -> Priority \cup {0}]
    BY DEF NoWakes
<1>1. WakeTypes'
    BY <1>0 DEF WakeTypes
<1>2. BatchTypes'
    <2>1. tm.delay \in Nat
        BY DEF OneTimer, Timer
    <2> QED BY <2>1 DEF BatchTypes, WakeTypes, Waiting
<1>3. HistoryTypes' /\ OneTimer'
    BY DEF HistoryTypes, OneTimer
<1>4. NoStrandedWake'
    BY DEF NoStrandedWake, Waiting, NoWakes
<1>5. TodoWasTaken'
    BY DEF TodoWasTaken, Waiting, BatchTypes
<1>6. BatchesAreLicensed'
    <2>1. Alive' \subseteq Alive \cup {s}
        BY DEF Alive, BatchTypes
    <2>2. Alive \in SUBSET Slot /\ s \notin Alive
        BY DEF Alive
    <2>3. /\ Cardinality(Alive) \in Nat
          /\ Cardinality(Alive \cup {s}) = Cardinality(Alive) + 1
        BY <2>2, SlotSets
    <2>4. /\ IsFiniteSet(Alive \cup {s})
          /\ Cardinality(Alive') \in Nat
        BY <2>1, <2>2, FS_Subset, FS_CardinalityType
    <2>5. Cardinality(Alive') <= Cardinality(Alive \cup {s})
        BY <2>1, <2>4, FS_Subset
    <2>6. Licensed = 1 /\ Licensed' = 0
        BY DEF Licensed
    <2>7. registrations \in Nat /\ registrations' = registrations
        BY DEF WakeTypes
    <2> QED BY <2>3, <2>4, <2>5, <2>6, <2>7 DEF BatchesAreLicensed
<1>7. RunsArePaid'
    <2>1. ASSUME NEW u \in Target
          PROVE  runs'[u] + Pending(u)' + Cardinality(Handling(u)')
                   <= requests'[u] + throws'
        <3>1. Pending(u)' = 0
            BY DEF Pending, NoWakes
        <3>2. s \notin Handling(u) /\ Handling(u) \in SUBSET Slot
            BY DEF Handling, TodoWasTaken, Alive, NoWakes, BatchTypes
        <3>3. CASE pendingWakes[u] = 0
            <4>1. Handling(u)' = Handling(u)
                BY <3>2, <3>3 DEF Handling, BatchTypes, Waiting
            <4> QED BY <3>1, <4>1, BalanceTypes
        <3>4. CASE pendingWakes[u] # 0
            <4>1. Handling(u)' = Handling(u) \cup {s}
                BY <3>2, <3>4 DEF Handling, BatchTypes, Waiting
            <4>2. Cardinality(Handling(u)') = Cardinality(Handling(u)) + 1
                BY <3>2, <4>1, SlotSets
            <4>3. Pending(u) = 1
                BY <3>4 DEF Pending
            <4> QED BY <3>1, <4>2, <4>3, BalanceTypes
        <3> QED BY <3>3, <3>4
    <2> QED BY <2>1 DEF RunsArePaid
<1> QED BY <1>1, <1>2, <1>3, <1>4, <1>5, <1>6, <1>7

(* A step that touches neither wakes, batches nor the running flag keeps   *)
(* the two balances.                                                       *)
LEMMA BalancesKept ==
    ASSUME HeartbeatInv, UNCHANGED <<pendingWakes, batchVars, history>>
    PROVE  /\ BatchTypes' /\ HistoryTypes' /\ TodoWasTaken' /\ RunsArePaid'
           /\ Alive' = Alive
<1> USE DEF HeartbeatInv, batchVars, history
<1>1. BatchTypes' /\ HistoryTypes' /\ TodoWasTaken' /\ Alive' = Alive
    BY DEF BatchTypes, HistoryTypes, TodoWasTaken, Alive
<1>2. RunsArePaid'
    BY DEF RunsArePaid, Pending, Handling
<1> QED BY <1>1, <1>2

(* The timer's callback: no handler, a batch in progress, nothing to do or *)
(* a new batch.                                                            *)
LEMMA TimerStep == ASSUME HeartbeatInv, TimerFires PROVE HeartbeatInv'
<1> USE DEF HeartbeatInv
<1>1. PICK tm \in timer :
        /\ scheduled' = (handler /\ BatchInProgress)
        /\ timer' = IF handler /\ BatchInProgress THEN Rearm(tm) ELSE {}
        /\ IF ~handler \/ BatchInProgress \/ Waiting(pendingWakes) = {}
           THEN UNCHANGED <<pendingWakes, running, batchVars>>
           ELSE \E s \in Slot \ Alive :
                  /\ batch' = [batch EXCEPT ![s] = pendingWakes]
                  /\ todo' = [todo EXCEPT ![s] = Waiting(pendingWakes)]
                  /\ rearm' = [rearm EXCEPT ![s] = tm.delay]
                  /\ pendingWakes' = PendingCleared
                  /\ running' = TRUE
        /\ UNCHANGED <<handlerVars, history>>
    BY DEF TimerFires
<1>2. CASE ~handler \/ running \/ Waiting(pendingWakes) = {}
    <2>1. UNCHANGED <<pendingWakes, running, batchVars, handlerVars, history>>
        BY <1>1, <1>2 DEF BatchInProgress
    <2>2. /\ BatchTypes' /\ HistoryTypes' /\ TodoWasTaken' /\ RunsArePaid'
          /\ Alive' = Alive
        BY <2>1, BalancesKept
    <2>3. WakeTypes' /\ BatchesAreLicensed'
        BY <1>1, <2>1, <2>2 DEF WakeTypes, BatchesAreLicensed, Licensed,
                               BatchInProgress, handlerVars
    <2>4. OneTimer' /\ NoStrandedWake'
        <3>1. tm.delay \in Nat /\ tm.kind \in {"normal", "retry"}
            BY DEF OneTimer, Timer
        <3>2. /\ Rearm(tm) \subseteq Timer /\ \A x, y \in Rearm(tm) : x = y
              /\ Rearm(tm) # {}
            BY <3>1, ScheduleArmsOne DEF Rearm
        <3> QED BY <1>1, <1>2, <2>1, <3>2
                DEF OneTimer, NoStrandedWake, BatchInProgress, handlerVars
    <2> QED BY <2>2, <2>3, <2>4
<1>3. CASE handler /\ ~running /\ Waiting(pendingWakes) # {}
    <2>1. PICK s \in Slot \ Alive : StartsBatch(s, tm)
        BY <1>1, <1>3 DEF StartsBatch, BatchInProgress, PendingCleared,
                         WakeTypes
    <2> QED BY <2>1, StartsBatchStep
<1> QED BY <1>2, <1>3 DEF WakeTypes

(* Replacing and disposing of the handler: only a registration adds a      *)
(* licence.                                                                *)
LEMMA HandlerStep ==
    ASSUME HeartbeatInv, SetHeartbeatWakeHandler \/ DisposeHandler
    PROVE  HeartbeatInv'
<1> USE DEF HeartbeatInv, wakeVars
<1>1. /\ BatchTypes' /\ HistoryTypes' /\ TodoWasTaken' /\ RunsArePaid'
      /\ Alive' = Alive
    BY BalancesKept DEF SetHeartbeatWakeHandler, DisposeHandler
<1>2. WakeTypes'
    <2> USE DEF SetHeartbeatWakeHandler, DisposeHandler, WakeTypes
    <2>1. handler' \in BOOLEAN /\ scheduled' \in BOOLEAN /\ running' \in BOOLEAN
        BY Zenon
    <2>2. handlerGeneration' \in 0..MaxGeneration
        OBVIOUS
    <2>3. registrations' \in 0..handlerGeneration'
        OBVIOUS
    <2>4. pendingWakes' = pendingWakes
        OBVIOUS
    <2> QED BY <2>1, <2>2, <2>3, <2>4
<1>3. OneTimer' /\ NoStrandedWake'
    <2>1. CASE DisposeHandler
        BY <2>1 DEF DisposeHandler, OneTimer, NoStrandedWake
    <2>2. CASE SetHeartbeatWakeHandler
        <3> DEFINE armed == Schedule({}, DefaultCoalesce, "normal")
        <3>1. armed \subseteq Timer /\ (\A x, y \in armed : x = y) /\ armed # {}
            <4>1. DefaultCoalesce \in Nat /\ {} \in SUBSET Timer
                OBVIOUS
            <4> QED BY <4>1, ScheduleArmsOne
        <3> HIDE DEF armed
        <3>2. timer' = IF Waiting(pendingWakes) = {} THEN {} ELSE armed
            BY <2>2 DEF SetHeartbeatWakeHandler, ArmedForNewHandler, armed
        <3>3. pendingWakes' = pendingWakes
            BY <2>2 DEF SetHeartbeatWakeHandler
        <3> QED BY <3>1, <3>2, <3>3 DEF OneTimer, NoStrandedWake, Waiting
    <2> QED BY <2>1, <2>2
<1>4. BatchesAreLicensed'
    <2>1. Cardinality(Alive) + Licensed <= registrations /\ registrations \in Nat
        BY DEF BatchesAreLicensed, WakeTypes
    <2>2. Cardinality(Alive) \in Nat
        <3>1. Alive \subseteq Slot
            BY DEF Alive
        <3> QED BY <3>1, FS_Subset, FS_CardinalityType
    <2>3. Licensed \in {0, 1} /\ Licensed' \in {0, 1}
        BY DEF Licensed
    <2>4. CASE DisposeHandler
        <3>1. Licensed' = 0 /\ registrations' = registrations
            BY <2>4 DEF DisposeHandler, Licensed
        <3> QED BY <1>1, <2>1, <2>2, <2>3, <3>1 DEF BatchesAreLicensed
    <2>5. CASE SetHeartbeatWakeHandler
        <3>1. registrations' = registrations + 1
            BY <2>5 DEF SetHeartbeatWakeHandler
        <3> QED BY <1>1, <2>1, <2>2, <2>3, <3>1 DEF BatchesAreLicensed
    <2> QED BY <2>4, <2>5
<1> QED BY <1>1, <1>2, <1>3, <1>4

(* Time passing counts the timer down. *)
LEMMA TickStep == ASSUME HeartbeatInv, Tick PROVE HeartbeatInv'
<1> USE DEF HeartbeatInv, Tick, handlerVars
<1>1. /\ BatchTypes' /\ HistoryTypes' /\ TodoWasTaken' /\ RunsArePaid'
      /\ Alive' = Alive
    BY BalancesKept
<1>2. WakeTypes' /\ BatchesAreLicensed'
    BY <1>1 DEF WakeTypes, BatchesAreLicensed, Licensed
<1>3. PICK tm \in timer : tm.left > 0
    OBVIOUS
<1>4. timer = {tm} /\ tm \in Timer
    BY DEF OneTimer
<1>5. timer' = {[tm EXCEPT !.left = @ - 1]}
    BY <1>4
<1>6. [tm EXCEPT !.left = @ - 1] \in Timer
    BY <1>3, <1>4 DEF Timer
<1>7. OneTimer' /\ NoStrandedWake'
    BY <1>5, <1>6 DEF OneTimer, NoStrandedWake
<1> QED BY <1>1, <1>2, <1>7

(* Before the first registration there is no licence and no wake. *)
LEMMA HeartbeatInit == Init => HeartbeatInv
<1> SUFFICES ASSUME Init PROVE HeartbeatInv
    OBVIOUS
<1> USE DEF Init
<1>1. NoWakes \in [Target -> Priority \cup {0}]
    BY DEF NoWakes
<1>2. WakeTypes /\ BatchTypes
    <2>1. /\ handlerGeneration \in 0..MaxGeneration
          /\ registrations \in 0..handlerGeneration
        OBVIOUS
    <2>2. pendingWakes \in [Target -> Priority \cup {0}]
        BY <1>1
    <2>3. WakeTypes
        BY <2>1, <2>2 DEF WakeTypes
    <2>4. BatchTypes
        BY <1>1 DEF BatchTypes
    <2> QED BY <2>3, <2>4
<1>3. OneTimer /\ NoStrandedWake /\ TodoWasTaken
    <2>1. OneTimer
        BY DEF OneTimer
    <2>2. NoStrandedWake
        BY DEF NoStrandedWake
    <2>3. TodoWasTaken
        BY DEF TodoWasTaken
    <2> QED BY <2>1, <2>2, <2>3
<1>4. HistoryTypes
    BY DEF HistoryTypes, NoWakes
<1>5. BatchesAreLicensed
    <2>1. Alive = {}
        BY DEF Alive
    <2> QED BY <2>1, FS_EmptySet DEF BatchesAreLicensed, Licensed
<1>6. RunsArePaid
    <2>1. ASSUME NEW t \in Target
          PROVE  runs[t] + Pending(t) + Cardinality(Handling(t))
                   <= requests[t] + throws
        <3>1. Handling(t) = {} /\ Pending(t) = 0 /\ runs[t] = 0
              /\ requests[t] = 0 /\ throws = 0
            BY DEF Handling, Pending, NoWakes
        <3> QED BY <3>1, FS_EmptySet
    <2> QED BY <2>1 DEF RunsArePaid
<1> QED BY <1>2, <1>3, <1>4, <1>5, <1>6 DEF HeartbeatInv

(* The inductive invariant holds in every reachable state of the wake      *)
(* scheduler.                                                              *)
THEOREM HeartbeatInvariant == Spec => []HeartbeatInv
<1>1. HeartbeatInv /\ [Next]_vars => HeartbeatInv'
    <2> SUFFICES ASSUME HeartbeatInv, [Next]_vars PROVE HeartbeatInv'
        OBVIOUS
    <2>1. ASSUME NEW s \in Slot, BatchStep(s) PROVE HeartbeatInv'
        BY <2>1, BatchKeepsShape, BatchStepPays DEF HeartbeatInv
    <2>2. CASE UNCHANGED vars
        <3>1. UNCHANGED <<handlerVars, wakeVars, batchVars, history>>
            BY <2>2 DEF vars
        <3>2. /\ BatchTypes' /\ HistoryTypes' /\ TodoWasTaken' /\ RunsArePaid'
              /\ Alive' = Alive
            BY <3>1, BalancesKept DEF wakeVars
        <3>3. WakeTypes' /\ OneTimer' /\ NoStrandedWake' /\ BatchesAreLicensed'
            BY <3>1, <3>2 DEF HeartbeatInv, WakeTypes, OneTimer, wakeVars,
               handlerVars, NoStrandedWake, BatchesAreLicensed, Licensed, Waiting
        <3> QED BY <3>2, <3>3 DEF HeartbeatInv
    <2> QED BY <2>1, <2>2, RequestStep, TimerStep, HandlerStep, TickStep
            DEF Next
<1> QED BY HeartbeatInit, <1>1, PTL DEF Spec

(* A pending wake with a handler registered always has the one timer armed *)
(* that will start its batch: schedule, the finally of run and             *)
(* setHeartbeatWakeHandler between them never strand it.                   *)
THEOREM WakesAlwaysHaveTimer == Spec => []WakeInv
<1>1. HeartbeatInv => WakeInv
    <2> SUFFICES ASSUME HeartbeatInv PROVE WakeInv
        OBVIOUS
    <2> USE DEF HeartbeatInv
    <2>1. Cardinality(timer) <= 1
        BY AtMostOne DEF OneTimer
    <2>2. TypeOK
        BY <2>1 DEF TypeOK, WakeTypes, BatchTypes, HistoryTypes, OneTimer, Timer
    <2> QED BY <2>2 DEF WakeInv
<1> QED BY HeartbeatInvariant, <1>1, PTL

(* However handlers are replaced and batches throw, batches in progress    *)
(* never outnumber registrations and runs of a target never outnumber its  *)
(* requests and the thrown batches.                                        *)
THEOREM RunsAlwaysBounded == Spec => []RunsAreBounded
<1>1. HeartbeatInv => RunsAreBounded
    <2> SUFFICES ASSUME HeartbeatInv PROVE RunsAreBounded
        OBVIOUS
    <2>1. OverlapIsBounded
        <3>1. Alive \subseteq Slot
            BY DEF Alive
        <3>2. Cardinality(Alive) \in Nat
            BY <3>1, FS_Subset, FS_CardinalityType
        <3>3. registrations \in Nat /\ Licensed \in {0, 1}
            BY DEF HeartbeatInv, WakeTypes, Licensed
        <3> QED BY <3>2, <3>3
                DEF HeartbeatInv, BatchesAreLicensed, OverlapIsBounded
    <2>2. RunsAreAccounted
        BY BalanceTypes DEF RunsAreAccounted
    <2> QED BY <2>1, <2>2 DEF RunsAreBounded
<1> QED BY HeartbeatInvariant, <1>1, PTL

(* queuePendingWakeReason never downgrades a wake that stays pending, also *)
(* when a busy target or a thrown batch queues an older one behind it.     *)
THEOREM PriorityAlwaysKept == Spec => PriorityKept
<1> DEFINE Raised == \A t \in Target : pendingWakes[t] # 0 /\ pendingWakes'[t] # 0
                        => pendingWakes'[t] >= pendingWakes[t]
<1>1. HeartbeatInv /\ [Next]_vars => [Raised]_vars
    <2> SUFFICES ASSUME HeartbeatInv, Next PROVE Raised
        OBVIOUS
    <2>0. \A t \in Target : pendingWakes[t] \in Nat
        BY PrioritiesAreNumbers DEF HeartbeatInv, WakeTypes
    <2>1. CASE UNCHANGED pendingWakes
        BY <2>0, <2>1
    <2>2. ASSUME NEW t \in Target, NEW pr \in Priority, NEW d \in Coalesce,
                 RequestHeartbeat(t, pr, d)
          PROVE  Raised
        BY <2>2, QueuedRaises DEF RequestHeartbeat, HeartbeatInv, WakeTypes
    <2>3. ASSUME NEW s \in Slot, BatchStep(s) PROVE Raised
        BY <2>3, BatchShapes DEF KeepsWakes, Finally, GoesOn
    <2>4. CASE TimerFires
        <3>1. UNCHANGED pendingWakes \/ pendingWakes' = NoWakes
            BY <2>4 DEF TimerFires, PendingCleared
        <3>2. CASE pendingWakes' = NoWakes
            BY <3>2 DEF NoWakes
        <3> QED BY <3>1, <3>2, <2>1
    <2>5. SetHeartbeatWakeHandler \/ DisposeHandler \/ Tick
            => UNCHANGED pendingWakes
        BY DEF SetHeartbeatWakeHandler, DisposeHandler, Tick, wakeVars
    <2> QED BY <2>1, <2>2, <2>3, <2>4, <2>5 DEF Next
<1> QED BY HeartbeatInvariant, <1>1, PTL DEF Spec, PriorityKept
=============================================================================
