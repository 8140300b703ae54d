---------------------------- MODULE HeartbeatWake ----------------------------
(***************************************************************************)
(* Heartbeat wakes: requests coalesce per target behind one timer, a batch *)
(* runs the registered handler for each of them, busy targets and failed   *)
(* batches are queued again (src/src/infra/heartbeat-wake.ts).             *)
(*                                                                         *)
(* The handler can be replaced while a batch of the previous one awaits,   *)
(* so several batches may be alive.  Time is the number of ticks a timer   *)
(* has left; a timer may fire late.  The order of the wakes in a batch is  *)
(* left open.                                                              *)
(***************************************************************************)
EXTENDS Naturals, FiniteSets

CONSTANTS
    Target,         \* agent and session a wake is for
    Priority,       \* REASON_PRIORITY of the requests made, all positive
    Coalesce,       \* delays a request may ask for, in ticks
    DefaultCoalesce,\* DEFAULT_COALESCE_MS
    RetryDelay,     \* DEFAULT_RETRY_MS
    Slot,           \* batches that may be alive at once
    MaxGeneration,  \* bound: handler registrations and disposals
    MaxRequests,    \* bound: requests per target
    MaxThrows       \* bound: batches that throw

ASSUME WakeBounds ==
    /\ Priority \subseteq Nat \ {0} /\ Coalesce \subseteq Nat
    /\ DefaultCoalesce \in Coalesce /\ RetryDelay \in Nat \ {0}
    /\ MaxGeneration \in Nat /\ MaxRequests \in Nat /\ MaxThrows \in Nat
    /\ IsFiniteSet(Slot)

VARIABLES
    handler,            \* is a handler registered
    handlerGeneration,
    pendingWakes,       \* pendingWakes[t]: priority of the pending wake, 0: none
    scheduled, running,
    timer,              \* set of at most one armed timer
    batch,              \* batch[s]: what the batch in slot s took, 0: nothing
    todo,               \* todo[s]: its wakes whose handler has not returned
    rearm,              \* rearm[s]: the delay of the timer that started it
    requests, runs, throws, \* history: requests and handler runs per target
    registrations       \* history: handlers registered

wakeVars == <<pendingWakes, scheduled, running, timer>>
handlerVars == <<handler, handlerGeneration, registrations>>
batchVars == <<batch, todo, rearm>>
history == <<requests, runs, throws>>
vars == <<wakeVars, handlerVars, batchVars, history>>

NoWakes == [t \in Target |-> 0]
Waiting(p) == {t \in Target : p[t] # 0}
Alive == {s \in Slot : batch[s] # NoWakes}

-----------------------------------------------------------------------------
(* queuePendingWakeReason: the later request wins among equals, a lower   *)
(* priority never replaces a higher one.  The clock does not run backwards.*)
Queued(p, t, priority) ==
    [p EXCEPT ![t] = IF priority >= @ THEN priority ELSE @]

(* schedule: a retry timer stays, and so does one that fires no later. *)
Schedule(armed, delay, kind) ==
    IF \E tm \in armed : tm.kind = "retry" \/ tm.left <= delay THEN armed
    ELSE {[left |-> delay, delay |-> delay, kind |-> kind]}

Init ==
    /\ handler = FALSE /\ handlerGeneration = 0
    /\ pendingWakes = NoWakes
    /\ scheduled = FALSE /\ running = FALSE /\ timer = {}
    /\ batch = [s \in Slot |-> NoWakes] /\ todo = [s \in Slot |-> {}]
    /\ rearm = [s \in Slot |-> 0]
    /\ requests = NoWakes /\ runs = NoWakes /\ throws = 0
    /\ registrations = 0

RequestHeartbeat(t, priority, delay) ==
    /\ requests[t] < MaxRequests
    /\ requests' = [requests EXCEPT ![t] = @ + 1]
    /\ pendingWakes' = Queued(pendingWakes, t, priority)
    /\ timer' = Schedule(timer, delay, "normal")
    /\ UNCHANGED <<scheduled, running, handlerVars, batchVars, runs, throws>>

BatchInProgressIgnored == FALSE
BatchInProgress == running

RearmNothing(tm) == {}
Rearm(tm) == Schedule({}, tm.delay, tm.kind)

PendingCleared == NoWakes

(* The timer's callback up to its first await: without a handler the wakes *)
(* stay, while a batch runs the timer is armed again, otherwise a batch    *)
(* takes all wakes.  An empty batch is over at once.                       *)
TimerFires ==
    \E tm \in timer :
      /\ tm.left = 0
      /\ scheduled' = (handler /\ BatchInProgress)
      /\ timer' = IF handler /\ BatchInProgress THEN Rearm(tm) ELSE {}
      /\ IF ~handler \/ BatchInProgress \/ Waiting(pendingWakes) = {}
         THEN UNCHANGED <<pendingWakes, running, batchVars>>
         ELSE \E s \in Slot \ Alive :
                /\ batch' = [batch EXCEPT ![s] = pendingWakes]
                /\ todo' = [todo EXCEPT ![s] = Waiting(pendingWakes)]
                /\ rearm' = [rearm EXCEPT ![s] = tm.delay]
                /\ pendingWakes' = PendingCleared
                /\ running' = TRUE
      /\ UNCHANGED <<handlerVars, history>>

(* The finally of the batch in slot s, entered with wakes p and timers    *)
(* armed.                                                                  *)
Finally(s, p, armed) ==
    /\ running' = FALSE
    /\ pendingWakes' = p
    /\ timer' = IF Waiting(p) # {} \/ scheduled
                THEN Schedule(armed, rearm[s], "normal") ELSE armed
    /\ batch' = [batch EXCEPT ![s] = NoWakes]
    /\ todo' = [todo EXCEPT ![s] = {}]
    /\ rearm' = [rearm EXCEPT ![s] = 0]
    /\ UNCHANGED scheduled

(* The batch goes on with its next wake, or ends. *)
Proceed(s, t, p, armed) ==
    IF todo[s] = {t} THEN Finally(s, p, armed)
    ELSE /\ todo' = [todo EXCEPT ![s] = @ \ {t}]
         /\ pendingWakes' = p /\ timer' = armed
         /\ UNCHANGED <<batch, rearm, running, scheduled>>

WakeRuns(s, t) ==
    /\ t \in todo[s]
    /\ runs' = [runs EXCEPT ![t] = @ + 1]
    /\ Proceed(s, t, pendingWakes, timer)
    /\ UNCHANGED <<handlerVars, requests, throws>>

(* Skipped for a reason that passes: this target is retried soon. *)
WakeSkippedBusy(s, t) ==
    /\ t \in todo[s]
    /\ Proceed(s, t, Queued(pendingWakes, t, batch[s][t]),
               Schedule(timer, RetryDelay, "retry"))
    /\ UNCHANGED <<handlerVars, requests, runs, throws>>

(* The handler throws, or admission does because the gateway drains: the   *)
(* whole batch is queued again, the wakes it has handled included.         *)
BatchThrows(s) ==
    /\ throws < MaxThrows /\ todo[s] # {}
    /\ throws' = throws + 1
    /\ Finally(s, [t \in Target |->
                     IF batch[s][t] = 0 THEN pendingWakes[t]
                     ELSE Queued(pendingWakes, t, batch[s][t])[t]],
               Schedule(timer, RetryDelay, "retry"))
    /\ UNCHANGED <<handlerVars, requests, runs>>

NothingArmed == {}

(* The timer a new handler starts with: wakes may have come before it. *)
ArmedForNewHandler ==
    IF Waiting(pendingWakes) = {} THEN {}
    ELSE Schedule({}, DefaultCoalesce, "normal")

(* setHeartbeatWakeHandler with a handler: a fresh lifecycle, although     *)
(* batches of the previous handler may still be alive                      *)
SetHeartbeatWakeHandler ==
    /\ handlerGeneration < MaxGeneration
    /\ handlerGeneration' = handlerGeneration + 1
    /\ handler' = TRUE /\ registrations' = registrations + 1
    /\ running' = FALSE /\ scheduled' = FALSE
    /\ timer' = ArmedForNewHandler
    /\ UNCHANGED <<pendingWakes, batchVars, history>>

(* A disposer, or the registration of null.  The disposer compares          *)
(* generations, so a stale one does nothing.                                *)
DisposeHandler ==
    /\ handler /\ handlerGeneration < MaxGeneration
    /\ handlerGeneration' = handlerGeneration + 1
    /\ handler' = FALSE
    /\ UNCHANGED <<wakeVars, registrations, batchVars, history>>

Tick ==
    /\ \E tm \in timer : tm.left > 0
    /\ timer' = {[tm EXCEPT !.left = @ - 1] : tm \in timer}
    /\ UNCHANGED <<pendingWakes, scheduled, running, handlerVars, batchVars,
                   history>>

BatchStep(s) ==
    \/ \E t \in Target : WakeRuns(s, t) \/ WakeSkippedBusy(s, t)
    \/ BatchThrows(s)

Next ==
    \/ \E t \in Target, p \in Priority, d \in Coalesce : RequestHeartbeat(t, p, d)
    \/ TimerFires
    \/ \E s \in Slot : BatchStep(s)
    \/ SetHeartbeatWakeHandler
    \/ DisposeHandler
    \/ Tick

Spec == Init /\ [][Next]_vars

(* Timers fire, handlers return, and no target is busy for ever. *)
Fairness ==
    /\ WF_vars(Tick) /\ WF_vars(TimerFires)
    /\ \A s \in Slot : /\ WF_vars(BatchStep(s))
                       /\ \A t \in Target : SF_vars(WakeRuns(s, t))

LiveSpec == Spec /\ Fairness

-----------------------------------------------------------------------------
TypeOK ==
    /\ handler \in BOOLEAN /\ handlerGeneration \in 0..MaxGeneration
    /\ pendingWakes \in [Target -> Priority \cup {0}]
    /\ scheduled \in BOOLEAN /\ running \in BOOLEAN
    /\ timer \subseteq [left : Nat, delay : Nat, kind : {"normal", "retry"}]
    /\ Cardinality(timer) <= 1
    /\ batch \in [Slot -> [Target -> Priority \cup {0}]]
    /\ todo \in [Slot -> SUBSET Target]
    /\ rearm \in [Slot -> Nat]
    /\ registrations \in 0..handlerGeneration
    /\ requests \in [Target -> 0..MaxRequests] /\ runs \in [Target -> Nat]
    /\ throws \in 0..MaxThrows

(* A pending wake with a handler to run it has a timer: no path that       *)
(* queues a wake, replaces the handler, or finds a batch still running     *)
(* leaves it behind.                                                       *)
NoStrandedWake ==
    handler /\ Waiting(pendingWakes) # {} => timer # {}

(* The running flag keeps batches apart, except that each registration of  *)
(* a new handler resets it under a batch that is still awaited: there are  *)
(* never more batches alive than handlers were registered.                 *)
OverlapIsBounded ==
    Cardinality(Alive) <= registrations

(* Coalescing loses requests but never adds runs: a target is handled once *)
(* per request at most, and once more for each batch that threw and was    *)
(* queued again as a whole.                                                *)
RunsAreAccounted ==
    \A t \in Target : runs[t] <= requests[t] + throws

(* "does not downgrade a higher-priority pending reason": while a wake is  *)
(* pending its priority only rises, also when an older wake is queued      *)
(* again behind it.                                                        *)
PriorityKept ==
    [][\A t \in Target : pendingWakes[t] # 0 /\ pendingWakes'[t] # 0
         => pendingWakes'[t] >= pendingWakes[t]]_vars

(* A wake is queued or in a batch. *)
Owed == \E t \in Target : pendingWakes[t] # 0 \/ \E s \in Slot : t \in todo[s]

(* Every wake is handled, if there is a handler to do it: requests end, so *)
(* a time comes when none is owed.                                         *)
EveryWakeIsServed == Owed ~> (~Owed \/ ~handler)

(* "Keep retry cooldown as a hard minimum delay": once a target was        *)
(* skipped as busy the next batch starts after the retry delay at the      *)
(* earliest.                                                               *)
CooldownKept ==
    [][\A s \in Slot : \A t \in todo[s] :
         t \notin todo'[s] /\ runs' = runs
           => \A tm \in timer' : tm.left >= RetryDelay]_vars

(* The timer and the wakes agree, and there is only one timer              *)
(* (heartbeat-wake.ts:190-282).                                            *)
WakeInv == TypeOK /\ NoStrandedWake

(* Neither batches nor runs multiply when handlers are replaced or batches *)
(* throw (heartbeat-wake.ts:260, :306).                                    *)
RunsAreBounded == OverlapIsBounded /\ RunsAreAccounted

(* A wake keeps its rank while it waits and does not wait for ever         *)
(* (heartbeat-wake.ts:141, :260).                                          *)
WakesAreKept == PriorityKept /\ EveryWakeIsServed
=============================================================================
