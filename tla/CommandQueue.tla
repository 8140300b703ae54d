---------------------------- MODULE CommandQueue ----------------------------
(***************************************************************************)
(* The in-process command queue: lanes that serialize and limit command    *)
(* executions (src/src/process/command-queue.ts).                          *)
(*                                                                         *)
(* JavaScript runs one callback at a time, so an action is one synchronous *)
(* stretch of the code: a public call, or the continuation that runs when  *)
(* a lane task settles or its timer fires, with every pump, notification   *)
(* and promise settlement it performs.                                     *)
(*                                                                         *)
(* An entry is named by its queue sequence number.  The code draws a second*)
(* number, the task id, when it starts an entry; an entry starts at most   *)
(* once and ids are only compared for equality, so the sequence number     *)
(* stands for both.                                                        *)
(***************************************************************************)
EXTENDS Integers, Sequences, FiniteSets

CONSTANTS
    Lane,            \* lane names
    ProbeLane,       \* the lanes isQuietProbeLane recognises
    MaxEntries,      \* bound: entries ever accepted (nextQueueSequence)
    MaxConcurrency,  \* bound: the largest concurrency a caller configures
    MaxGeneration,   \* bound: resets of one lane
    Waiter,          \* one element per call of waitForActiveTasks
    TimeoutChoice    \* do callers pass taskTimeoutMs?  a set of Booleans

ASSUME LaneAssumption == Lane # {} /\ ProbeLane \subseteq Lane
ASSUME BoundAssumption ==
    /\ MaxEntries \in Nat
    /\ MaxConcurrency \in Nat \ {0}
    /\ MaxGeneration \in Nat
    /\ TimeoutChoice \subseteq BOOLEAN

VARIABLES
    lanes,              \* the keys of queueState.lanes: lanes created so far
    queue,              \* queue[l]: entries waiting in lane l, in order
    activeTaskIds,      \* activeTaskIds[l]: started entries that hold a slot
    maxConcurrent,      \* maxConcurrent[l]
    generation,         \* generation[l], bumped by a reset
    nextQueueSequence,  \* the next entry
    entry,              \* entry[e]: the options entry e was enqueued with
    startGeneration,    \* startGeneration[e]: taskGeneration of the started e
    body,               \* body[e]: the caller's task function
    promise,            \* promise[e]: what the caller of enqueue was told
    waiter              \* waiter[w]: a call of waitForActiveTasks

vars == <<lanes, queue, activeTaskIds, maxConcurrent, generation,
          nextQueueSequence, entry, startGeneration, body, promise, waiter>>

Entry == 1..MaxEntries

(* resolveQueuePriority: foreground, normal, background *)
Priority == {1, 0, -1}

EntryOptions == [lane : Lane, priority : Priority, timed : BOOLEAN]

(* unstarted; running; unwinding: still running after its lane timeout     *)
(* released the slot; done                                                 *)
Body == {"unstarted", "running", "unwinding", "done"}

(* "settled": resolved or rejected by the task function itself *)
Promise == {"none", "pending", "settled", "timedOut", "cleared"}

WaiterState == [status : {"idle", "waiting", "drained", "notDrained"},
                taskIds : SUBSET Entry,
                timed : BOOLEAN]

-----------------------------------------------------------------------------
(* Helpers *)

(* The set of entries of a sequence, and its first n of them. *)
Members(q) == {q[i] : i \in 1..Len(q)}
FirstOf(q, n) == {q[i] : i \in 1..n}

(* An entry is dispatched before another: higher priority first, and in   *)
(* arrival order within one priority.                                     *)
Outranks(opts, e, f) ==
    \/ opts[e].priority > opts[f].priority
    \/ opts[e].priority = opts[f].priority /\ e < f

(* enqueueLaneEntry: findIndex of the first queued entry with a lower     *)
(* priority, or with the same priority and a later sequence; the end of   *)
(* the queue if there is none.                                            *)
InsertPositionsAlwaysPush(q, e, p) == {}

InsertPositions(q, e, p) ==
    {i \in 1..Len(q) : \/ entry[q[i]].priority < p
                       \/ entry[q[i]].priority = p /\ q[i] > e}

InsertAt(q, e, p) ==
    IF InsertPositions(q, e, p) = {} THEN Len(q) + 1
    ELSE CHOOSE i \in InsertPositions(q, e, p) :
             \A j \in InsertPositions(q, e, p) : i <= j

Inserted(q, e, p) ==
    [i \in 1..(Len(q) + 1) |->
        IF i < InsertAt(q, e, p) THEN q[i]
        ELSE IF i = InsertAt(q, e, p) THEN e
        ELSE q[i - 1]]

(* pump's loop: how many queued entries start when a slots of m are taken *)
(* and n entries wait.                                                    *)
PumpCountOnce(a, m, n) == IF a >= m \/ n = 0 THEN 0 ELSE 1

PumpCount(a, m, n) ==
    IF a >= m THEN 0 ELSE IF m - a <= n THEN m - a ELSE n

(* drainLane on every lane of S, from the given queues, active sets,      *)
(* limits and generations: the queue heads move into the active sets and  *)
(* their bodies start under the lane's generation.  The draining flag is  *)
(* FALSE whenever the event loop gets control back (pump's finally), so it*)
(* is not part of the state between actions.                              *)
DrainLanes(S, q, a, m, g, b) ==
    LET n == [l \in Lane |->
                IF l \in S THEN PumpCount(Cardinality(a[l]), m[l], Len(q[l]))
                ELSE 0]
        started == [l \in Lane |-> FirstOf(q[l], n[l])]
    IN  /\ queue' = [l \in Lane |-> SubSeq(q[l], n[l] + 1, Len(q[l]))]
        /\ activeTaskIds' = [l \in Lane |-> a[l] \cup started[l]]
        /\ body' = [e \in Entry |->
                        IF e \in started[entry'[e].lane]
                        THEN "running" ELSE b[e]]
        /\ startGeneration' =
              [e \in Entry |-> IF e \in started[entry'[e].lane]
                              THEN g[entry'[e].lane]
                              ELSE startGeneration[e]]

(* hasPendingActiveTasks, against the active sets a *)
HasPendingActiveTasks(taskIds, a) == \E l \in Lane : a[l] \cap taskIds # {}

(* notifyActiveTaskWaiters, against the active sets a *)
NotifyActiveTaskWaitersNever(a) == UNCHANGED waiter

NotifyActiveTaskWaiters(a) ==
    waiter' = [w \in Waiter |->
                 IF /\ waiter[w].status = "waiting"
                    /\ ~HasPendingActiveTasks(waiter[w].taskIds, a)
                 THEN [waiter[w] EXCEPT !.status = "drained"]
                 ELSE waiter[w]]

-----------------------------------------------------------------------------
Init ==
    /\ lanes = {}
    /\ queue = [l \in Lane |-> <<>>]
    /\ activeTaskIds = [l \in Lane |-> {}]
    /\ maxConcurrent = [l \in Lane |-> 1]
    /\ generation = [l \in Lane |-> 0]
    /\ nextQueueSequence = 1
    /\ entry = [e \in Entry |-> [lane |-> CHOOSE l \in Lane : TRUE,
                                 priority |-> 0, timed |-> FALSE]]
    /\ startGeneration = [e \in Entry |-> 0]
    /\ body = [e \in Entry |-> "unstarted"]
    /\ promise = [e \in Entry |-> "none"]
    /\ waiter = [w \in Waiter |->
                    [status |-> "idle", taskIds |-> {}, timed |-> FALSE]]

(* enqueueCommandInLane.  closed is what                                  *)
(* isGatewaySubordinateWorkAdmissionClosed answers the caller: a closed   *)
(* fence rejects the call before any state changes, so only an open one   *)
(* is a step.                                                             *)
EnqueueCommandInLane(l, p, timed, closed) ==
    /\ ~closed
    /\ nextQueueSequence <= MaxEntries
    /\ nextQueueSequence' = nextQueueSequence + 1
    /\ lanes' = lanes \cup {l}
    /\ entry' = [entry EXCEPT ![nextQueueSequence] =
                    [lane |-> l, priority |-> p, timed |-> timed]]
    /\ promise' = [promise EXCEPT ![nextQueueSequence] = "pending"]
    /\ DrainLanes({l},
                  [queue EXCEPT ![l] = Inserted(@, nextQueueSequence, p)],
                  activeTaskIds, maxConcurrent, generation, body)
    /\ UNCHANGED <<maxConcurrent, generation, waiter>>

(* completeTask: the active sets after e frees its slot; its test whether *)
(* e was started in its lane's current generation.                        *)
CurrentGeneration(e) == startGeneration[e] = generation[entry[e].lane]

CompleteTaskSlotLeak(e) == activeTaskIds

CompleteTask(e) ==
    IF CurrentGeneration(e)
    THEN [activeTaskIds EXCEPT ![entry[e].lane] = @ \ {e}]
    ELSE activeTaskIds

(* The continuation of a lane task that settled with the given outcome:   *)
(* in the task's own generation the slot is freed, waiters are notified   *)
(* and the lane is pumped; a stale completion leaves the lane alone.  The *)
(* caller's promise settles last.                                         *)
FinishTask(e, outcome, b) ==
    /\ UNCHANGED <<lanes, maxConcurrent, generation, nextQueueSequence, entry>>
    /\ DrainLanes(IF CurrentGeneration(e) THEN {entry[e].lane} ELSE {},
                  queue, CompleteTask(e), maxConcurrent, generation, b)
    /\ IF CurrentGeneration(e)
       THEN NotifyActiveTaskWaiters(CompleteTask(e)) ELSE UNCHANGED waiter
    /\ promise' = [promise EXCEPT ![e] = outcome]

(* The task function returns or throws while the lane still awaits it. *)
TaskSettles(e) ==
    /\ body[e] = "running"
    /\ FinishTask(e, "settled", [body EXCEPT ![e] = "done"])

(* runQueueEntryTask's timer, abort grace or release signal wins the race:*)
(* the lane goes on although the task function is still running.          *)
TaskTimesOut(e) ==
    /\ body[e] = "running"
    /\ entry[e].timed
    /\ FinishTask(e, "timedOut", [body EXCEPT ![e] = "unwinding"])

(* A timed-out task function ends at last; a late error is only logged. *)
LateSettle(e) ==
    /\ body[e] = "unwinding"
    /\ body' = [body EXCEPT ![e] = "done"]
    /\ UNCHANGED <<lanes, queue, activeTaskIds, maxConcurrent, generation,
                   nextQueueSequence, entry, startGeneration, promise, waiter>>

(* setCommandLaneConcurrency: a probe lane cannot be paused. *)
ClampedConcurrency(l, n) == IF l \in ProbeLane /\ n < 1 THEN 1 ELSE n

SetCommandLaneConcurrency(l, n) ==
    LET m == [maxConcurrent EXCEPT ![l] = ClampedConcurrency(l, n)]
    IN  /\ UNCHANGED <<generation, nextQueueSequence, entry, promise, waiter>>
        /\ lanes' = lanes \cup {l}
        /\ maxConcurrent' = m
        /\ DrainLanes(IF m[l] > 0 THEN {l} ELSE {},
                      queue, activeTaskIds, m, generation, body)

(* clearCommandLane: queued entries are rejected, active ones go on. *)
ClearCommandLaneSilently(l) ==
    /\ l \in lanes
    /\ queue' = [queue EXCEPT ![l] = <<>>]
    /\ UNCHANGED <<lanes, activeTaskIds, maxConcurrent, generation, promise,
                   nextQueueSequence, entry, startGeneration, body, waiter>>

ClearCommandLane(l) ==
    /\ l \in lanes
    /\ queue' = [queue EXCEPT ![l] = <<>>]
    /\ promise' = [e \in Entry |-> IF e \in Members(queue[l])
                                   THEN "cleared" ELSE promise[e]]
    /\ UNCHANGED <<lanes, activeTaskIds, maxConcurrent, generation,
                   nextQueueSequence, entry, startGeneration, body, waiter>>

(* resetCommandLane: used by stuck-session recovery. *)
ResetCommandLane(l) ==
    /\ l \in lanes
    /\ generation[l] < MaxGeneration
    /\ UNCHANGED <<lanes, maxConcurrent, nextQueueSequence, entry, promise>>
    /\ generation' = [generation EXCEPT ![l] = @ + 1]
    /\ DrainLanes({l}, queue, [activeTaskIds EXCEPT ![l] = {}],
                  maxConcurrent, generation', body)
    /\ NotifyActiveTaskWaiters(activeTaskIds')

(* resetAllLanes: the in-process restart.  Every lane is reset before any *)
(* lane is drained; queued entries are kept.                              *)
ResetAllLanes ==
    /\ \A l \in lanes : generation[l] < MaxGeneration
    /\ UNCHANGED <<lanes, maxConcurrent, nextQueueSequence, entry, promise>>
    /\ generation' = [l \in Lane |-> IF l \in lanes THEN generation[l] + 1
                                     ELSE generation[l]]
    /\ DrainLanes(lanes, queue,
                  [l \in Lane |-> IF l \in lanes THEN {}
                                  ELSE activeTaskIds[l]],
                  maxConcurrent, generation', body)
    /\ NotifyActiveTaskWaiters(activeTaskIds')

(* waitForActiveTasks(timeoutMs): nothing active answers drained at once, *)
(* a timeout of zero (or less) answers not drained at once, otherwise the *)
(* caller waits for the ids that are active now.                          *)
WaitForActiveTasks(w, timed, zero) ==
    LET activeAtStart == UNION {activeTaskIds[l] : l \in Lane}
    IN  /\ waiter[w].status = "idle"
        /\ waiter' = [waiter EXCEPT ![w] =
                        [status |-> IF activeAtStart = {} THEN "drained"
                                    ELSE IF timed /\ zero THEN "notDrained"
                                    ELSE "waiting",
                         taskIds |-> activeAtStart,
                         timed |-> timed]]
        /\ UNCHANGED <<lanes, queue, activeTaskIds, maxConcurrent, generation,
                       nextQueueSequence, entry, startGeneration, body,
                       promise>>

(* The waiter's setTimeout fires. *)
WaiterTimesOut(w) ==
    /\ waiter[w].status = "waiting"
    /\ waiter[w].timed
    /\ waiter' = [waiter EXCEPT ![w].status = "notDrained"]
    /\ UNCHANGED <<lanes, queue, activeTaskIds, maxConcurrent, generation,
                   nextQueueSequence, entry, startGeneration, body, promise>>

Next ==
    \/ \E l \in Lane, p \in Priority, timed \in TimeoutChoice,
          closed \in BOOLEAN :
              EnqueueCommandInLane(l, p, timed, closed)
    \/ \E e \in Entry : TaskSettles(e)
    \/ \E e \in Entry : TaskTimesOut(e)
    \/ \E e \in Entry : LateSettle(e)
    \/ \E l \in Lane, n \in 0..MaxConcurrency : SetCommandLaneConcurrency(l, n)
    \/ \E l \in Lane : ClearCommandLane(l)
    \/ \E l \in Lane : ResetCommandLane(l)
    \/ ResetAllLanes
    \/ \E w \in Waiter, timed, zero \in BOOLEAN :
              WaitForActiveTasks(w, timed, zero)
    \/ \E w \in Waiter : WaiterTimesOut(w)

Spec == Init /\ [][Next]_vars

(* A timer that is armed fires: the lane timeout of a task and the timeout*)
(* of a waiter.  Nothing is assumed of the tasks themselves: a task       *)
(* function may hang for ever.                                            *)
FairSpec ==
    /\ Spec
    /\ \A e \in Entry : WF_vars(TaskTimesOut(e))
    /\ \A w \in Waiter : WF_vars(WaiterTimesOut(w))
-----------------------------------------------------------------------------
(* Properties *)

(* Every variable has its type, and a probe lane always has a slot        *)
(* (setCommandLaneConcurrency clamps it).                                 *)
TypeOK ==
    /\ lanes \in SUBSET Lane
    /\ queue \in [Lane -> Seq(Entry)]
    /\ activeTaskIds \in [Lane -> SUBSET Entry]
    /\ maxConcurrent \in [Lane -> 0..MaxConcurrency]
    /\ \A l \in ProbeLane : maxConcurrent[l] > 0
    /\ generation \in [Lane -> 0..MaxGeneration]
    /\ nextQueueSequence \in 1..(MaxEntries + 1)
    /\ entry \in [Entry -> EntryOptions]
    /\ startGeneration \in [Entry -> 0..MaxGeneration]
    /\ body \in [Entry -> Body]
    /\ promise \in [Entry -> Promise]
    /\ waiter \in [Waiter -> WaiterState]

QueuedIn(e, l) == e \in Members(queue[l])

(* No accepted command is lost, duplicated or answered early: its promise *)
(* is open exactly while it waits, once, in its own lane's queue or while *)
(* the lane awaits its task function.  Clears, timeouts and resets keep   *)
(* it so (enqueueCommandInLane, clearCommandLane, the pump and the        *)
(* continuation that settles the entry).                                  *)
NoLostEntry ==
    /\ \A e \in Entry :
         /\ promise[e] = "pending" <=>
                (\E l \in Lane : QueuedIn(e, l)) \/ body[e] = "running"
         /\ \A l \in Lane : QueuedIn(e, l) =>
                body[e] = "unstarted" /\ entry[e].lane = l
    /\ \A l \in Lane : \A i, j \in 1..Len(queue[l]) :
         queue[l][i] = queue[l][j] => i = j

(* A lane's slots are held by exactly the tasks it started in its current *)
(* generation and still awaits: no slot leaks through a timeout, and none *)
(* is still held for a task a reset abandoned (completeTask,              *)
(* resetCommandLane, resetAllLanes).                                      *)
SlotsMatchTasks ==
    \A l \in Lane : activeTaskIds[l] =
        {e \in Entry : /\ body[e] = "running"
                       /\ entry[e].lane = l
                       /\ CurrentGeneration(e)}

(* A lane never sits on a backlog with a free slot: nothing but the next  *)
(* enqueue would ever pump it ("which may never come", resetAllLanes).    *)
NoIdleBacklog ==
    \A l \in Lane :
        queue[l] # <<>> => Cardinality(activeTaskIds[l]) >= maxConcurrent[l]

(* A queue is in dispatch order at all times, whatever the order in which *)
(* priorities arrive (enqueueLaneEntry).                                  *)
QueueInOrder ==
    \A l \in Lane : \A i, j \in 1..Len(queue[l]) :
        i < j => Outranks(entry, queue[l][i], queue[l][j])

(* A call of waitForActiveTasks that still waits, waits for something: one*)
(* of its tasks holds a slot, so a later completion or reset wakes it     *)
(* (notifyActiveTaskWaiters is called on every path that frees a slot).   *)
NoLostWaiter ==
    \A w \in Waiter : waiter[w].status = "waiting" =>
        HasPendingActiveTasks(waiter[w].taskIds, activeTaskIds)

(* drained = true is never answered while the lane awaits one of the      *)
(* captured tasks, except for a task a reset has abandoned.               *)
DrainedIsTrue ==
    \A w \in Waiter : waiter[w].status = "drained" =>
        \A e \in waiter[w].taskIds : body[e] = "running" =>
            startGeneration[e] < generation[entry[e].lane]

(* A lane that starts work stays within its limit, although a lowered     *)
(* limit may leave it above for a while, and starts nothing while an entry*)
(* that outranks it stays queued, be it after a reset, a timeout or a     *)
(* change of the limit (pump's loop condition, enqueueLaneEntry).         *)
StartsAsAllowed ==
    [][\A l \in Lane : LET started == activeTaskIds'[l] \ activeTaskIds[l]
         IN  started # {} =>
               /\ Cardinality(activeTaskIds'[l]) <= maxConcurrent'[l]
               /\ \A e \in started : \A i \in 1..Len(queue'[l]) :
                     Outranks(entry', e, queue'[l][i])]_vars

(* An accepted command without an answer in a lane that is not paused at a*)
(* limit of 0, or a call of waitForActiveTasks that has not returned.     *)
CallIsOpen ==
    \/ \E e \in Entry : promise[e] = "pending" /\ maxConcurrent[entry[e].lane] # 0
    \/ \E w \in Waiter : waiter[w].status = "waiting"

(* With lane timeouts every accepted command is answered, and every       *)
(* waitForActiveTasks returns, although task functions may hang for ever. *)
(* Both are bounded in number, so a time comes when none is open.         *)
EveryCallReturns == CallIsOpen ~> ~CallIsOpen

(* The lane state holds together whatever clears, resets, timeouts and     *)
(* changed limits come between (command-queue.ts:385-456): no command is   *)
(* lost, no slot leaks and no queue is out of order.                       *)
LaneInv == TypeOK /\ NoLostEntry /\ SlotsMatchTasks /\ QueueInOrder

(* waitForActiveTasks is told the truth, and told at all                   *)
(* (command-queue.ts:218-248).                                             *)
WaitersInformed == NoLostWaiter /\ DrainedIsTrue
=============================================================================
