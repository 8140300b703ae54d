----------------------------- MODULE FollowupQueue -----------------------------
(***************************************************************************)
(* Messages that arrive while a session's agent is busy wait in its        *)
(* follow-up queue.  A drain takes them out, one turn each or collected in *)
(* one turn; beyond the cap the oldest are folded into a summary, which    *)
(* gets a turn of its own (src/src/auto-reply/reply/queue/, with           *)
(* src/src/utils/queue-helpers.ts).                                        *)
(*                                                                         *)
(* One session key; all messages have one delivery context, so that a      *)
(* collect batch is one group and summaryElisions has at most one entry.   *)
(* A queue object is a number, used again when nothing refers to it.       *)
(***************************************************************************)
EXTENDS Naturals, Sequences, FiniteSets, SequencesExt

CONSTANTS
    Msg,            \* followup runs
    Retry,          \* those that are stranded-reply retries: front, protected
    Cancelable,     \* those with an abort signal of their own
    Settings,       \* [mode, policy] that enqueuers may bring
    Cap,
    MaxQueues,      \* bound: queue objects alive at a time
    MaxTurns,       \* bound: turns of other messages that take the reply lane
    MaxFails,       \* bound: turns that throw
    MaxClears       \* bound: clearSessionQueues

ASSUME FollowupConstants ==
    /\ Retry \subseteq Msg /\ Cancelable \subseteq Msg \ Retry
    /\ Settings \subseteq [mode : {"followup", "collect"},
                           policy : {"summarize", "old", "new"}]
    /\ Cap \in Nat \ {0} /\ MaxQueues \in Nat \ {0}
    /\ MaxTurns \in Nat /\ MaxFails \in Nat /\ MaxClears \in Nat

VARIABLES
    live,           \* FOLLOWUP_QUEUES.get(key), 0 if there is none
    queue,          \* FollowupQueueState of each queue object
    drain,          \* the coroutine of scheduleFollowupDrain on each of them
    lane,           \* who holds the session's reply run: free, turn, drain
    owed,           \* an after-clear callback will schedule a drain
    out,            \* how each message was settled
    turns,          \* history: turns that presented it, in full or summarized
    canceled,       \* messages whose own signal is aborted
    begun, fails, clears

Queues == 1..MaxQueues
vars == <<live, queue, drain, lane, owed, out, turns, canceled, begun, fails, clears>>

NewQueue ==
    [items |-> <<>>, inFlight |-> {}, sources |-> <<>>, elided |-> <<>>,
     evicted |-> 0, dropped |-> 0, active |-> {}, aborted |-> FALSE,
     mode |-> "followup", policy |-> "summarize"]

Off == [pc |-> "off", kind |-> "none", batch |-> <<>>, elided |-> 0,
        entry |-> FALSE, inherited |-> {}, admitted |-> FALSE]
Loop == [Off EXCEPT !.pc = "top"]

(* The entries of s that are not in S, in their order. *)
Without(s, S) ==
    LET keep[n \in 0..Len(s)] ==
          IF n = 0 THEN <<>>
          ELSE IF s[n] \in S THEN keep[n - 1] ELSE Append(keep[n - 1], s[n])
    IN  keep[Len(s)]
HasWork(r) == r.items # <<>> \/ r.dropped > 0

(* completeFollowupRunLifecycle: the first way of settling counts. *)
Settled(S, how) ==
    [m \in Msg |-> IF m \in S /\ out[m] = "queued" THEN how ELSE out[m]]

Presented(S) == [m \in Msg |-> IF m \in S THEN turns[m] + 1 ELSE turns[m]]

-----------------------------------------------------------------------------
(* Overflow *)

(* countPendingQueueItems: what a running turn presents does not count. *)
Pending(r) == Without(r.items, r.inFlight)

(* trimSummaryElisionsToCap: the oldest elided sources that no running     *)
(* summary uses are given up.                                              *)
Evicted(r) ==
    LET idle == Without(r.elided, r.active)
    IN  ToSet(SubSeq(idle, 1, Len(idle) - Cap))

Trimmed(r) ==
    LET gone == Evicted(r)
    IN  [r EXCEPT !.elided = Without(@, gone), !.evicted = @ + Cardinality(gone)]

Excess(r) == Len(Pending(r)) + 1 - Cap

VictimsAnywhere(r) == SubSeq(Without(r.items, Retry), 1, Excess(r))

(* The oldest entries that may be dropped for a new one. *)
Victims(r) == SubSeq(Without(Pending(r), Retry), 1, Excess(r))

(* applyQueueDropPolicy: whether there is room for one more. *)
HasRoom(r) ==
    \/ Excess(r) <= 0
    \/ r.policy # "new" /\ Len(Without(Pending(r), Retry)) >= Excess(r)

(* Dropped entries keep a summary line each, up to the cap; older ones are *)
(* elided and only counted.                                                *)
Summarized(r) ==
    LET victims == Victims(r)
        sources == r.sources \o victims
        over == IF Len(sources) > Cap THEN Len(sources) - Cap ELSE 0
    IN  [r EXCEPT !.items = Without(@, ToSet(victims)),
                  !.sources = SubSeq(sources, over + 1, Len(sources)),
                  !.elided = @ \o SubSeq(sources, 1, over),
                  !.dropped = @ + Len(victims)]

MadeRoom(r) ==
    IF r.policy = "summarize" THEN Trimmed(Summarized(r))
    ELSE [r EXCEPT !.items = Without(@, ToSet(Victims(r)))]

DroppedFor(r) ==
    IF r.policy = "summarize" THEN Settled(Evicted(Summarized(r)), "omitted")
    ELSE Settled(ToSet(Victims(r)), "dropped")

-----------------------------------------------------------------------------
(* Enqueuing *)

Init ==
    /\ live = 0
    /\ queue = [i \in Queues |-> NewQueue]
    /\ drain = [i \in Queues |-> Off]
    /\ lane = "turn" /\ owed = FALSE
    /\ out = [m \in Msg |-> "new"] /\ turns = [m \in Msg |-> 0]
    /\ canceled = {}
    /\ begun = 0 /\ fails = 0 /\ clears = 0

(* getFollowupQueue: the registered queue, or a new one. *)
Registered(i) ==
    IF live # 0 THEN i = live ELSE i = CHOOSE j \in Queues : drain[j].pc = "off"

FreeQueue == live # 0 \/ \E j \in Queues : drain[j].pc = "off"

(* scheduleFollowupDrain: start one unless the queue is being drained. *)
Schedule(d, i) ==
    IF i # 0 /\ d[i].pc = "off" THEN [d EXCEPT ![i] = Loop] ELSE d

Applied(i, s) == [queue[i] EXCEPT !.mode = s.mode, !.policy = s.policy]

(* enqueueFollowupRun behind a busy agent.  The drain is scheduled when    *)
(* the active reply is over, or now if there is none any more.             *)
Enqueue(m, s) ==
    /\ m \notin Retry /\ out[m] = "new" /\ FreeQueue
    /\ \E i \in Queues :
        LET r == Applied(i, s)
            made == [MadeRoom(r) EXCEPT !.items = Append(@, m)]
        IN  /\ Registered(i) /\ HasRoom(r)
            /\ live' = i
            /\ queue' = [queue EXCEPT ![i] = made]
            /\ out' = [DroppedFor(r) EXCEPT ![m] = "queued"]
            /\ drain' = IF lane = "free" THEN Schedule(drain, i) ELSE drain
            /\ owed' = (owed \/ lane # "free")
    /\ UNCHANGED <<lane, turns, canceled, begun, fails, clears>>

(* No room: the message is settled at once and nothing is scheduled. *)
Reject(m, s) ==
    /\ out[m] = "new" /\ FreeQueue
    /\ m \in Retry => lane = "turn"
    /\ \E i \in Queues :
        /\ Registered(i) /\ ~HasRoom(Applied(i, s))
        /\ live' = i
        /\ queue' = [queue EXCEPT ![i] = Applied(i, s)]
    /\ out' = [out EXCEPT ![m] = "rejected"]
    /\ UNCHANGED <<drain, lane, owed, turns, canceled, begun, fails, clears>>

(* A redelivery is recognized, but only after getFollowupQueue. *)
EnqueueDuplicate(s) ==
    /\ {m \in Msg \ Retry : out[m] \notin {"new", "rejected"}} # {}
    /\ FreeQueue
    /\ \E i \in Queues :
        /\ Registered(i)
        /\ live' = i
        /\ queue' = [queue EXCEPT ![i] = Applied(i, s)]
    /\ UNCHANGED <<drain, lane, owed, out, turns, canceled, begun, fails, clears>>

MayRetryAlways(i) == drain[i].pc = "turn"

(* The turn that ends without a visible reply; its retry inherits the      *)
(* signal of the queue it came from.                                       *)
MayRetry(i) == drain[i].pc = "turn" /\ ~queue[i].aborted

EnqueueRetry(m, s) ==
    /\ m \in Retry /\ out[m] = "new" /\ FreeQueue
    /\ lane = "turn" \/ \E i \in Queues : MayRetry(i)
    /\ \E i \in Queues :
        LET r == Applied(i, s)
            made == [MadeRoom(r) EXCEPT !.items = <<m>> \o @]
        IN  /\ Registered(i) /\ HasRoom(r)
            /\ live' = i
            /\ queue' = [queue EXCEPT ![i] = made]
            /\ out' = [DroppedFor(r) EXCEPT ![m] = "queued"]
    /\ UNCHANGED <<drain, lane, owed, turns, canceled, begun, fails, clears>>

-----------------------------------------------------------------------------
(* The drain *)

UnregistersAny(i) == 0

(* Only the queue that is still registered leaves the map. *)
Unregisters(i) == IF live = i THEN 0 ELSE live

EndsForGood(i, r, d) ==
    /\ queue' = [queue EXCEPT ![i] = IF HasWork(r) THEN r ELSE NewQueue]
    /\ drain' = [d EXCEPT ![i] = Off]
    /\ live' = IF HasWork(r) THEN live ELSE Unregisters(i)

(* The finally block: what is left is drained again, under the key. *)
Ends(i, r, d) ==
    IF HasWork(r)
    THEN /\ queue' = [queue EXCEPT ![i] = r]
         /\ drain' = Schedule([d EXCEPT ![i] = Off], live)
         /\ UNCHANGED live
    ELSE /\ queue' = [queue EXCEPT ![i] = NewQueue]
         /\ drain' = [d EXCEPT ![i] = Off]
         /\ live' = Unregisters(i)

Continues(i, r, d) ==
    /\ queue' = [queue EXCEPT ![i] = r]
    /\ drain' = [d EXCEPT ![i] = Loop]
    /\ UNCHANGED live

(* dropAbortedFollowups removes by index after an await, which only ends   *)
(* the turn of an aborted message (followup-runner.ts:596): one step.      *)
Kept(i) == [queue[i] EXCEPT !.items = Without(@, canceled)]

(* The loop head: wait for a quiet moment if there is anything to do. *)
Wake(i) ==
    /\ drain[i].pc = "top"
    /\ IF HasWork(Kept(i))
       THEN /\ queue' = [queue EXCEPT ![i] = Kept(i)]
            /\ drain' = [drain EXCEPT ![i].pc = "debounce"]
            /\ UNCHANGED live
       ELSE Ends(i, Kept(i), drain)
    /\ out' = Settled(ToSet(queue[i].items) \cap canceled, "canceled")
    /\ UNCHANGED <<lane, owed, turns, canceled, begun, fails, clears>>

(* Canceled entries leave the summary; those elided past the cap leave the *)
(* count.                                                                  *)
KeptSources(i) ==
    LET gone == ToSet(queue[i].sources) \cap canceled
    IN  [Kept(i) EXCEPT !.sources = Without(@, gone),
                        !.dropped = @ - Cardinality(gone)]

KeptSummary(i) ==
    LET gone == ToSet(queue[i].elided) \cap canceled
    IN  [KeptSources(i) EXCEPT !.elided = Without(@, gone),
                               !.dropped = @ - Cardinality(gone)]

Priority(r) == Without(r.items, Msg \ Retry)
SummaryDue(r) == r.policy = "summarize" /\ r.elided \o r.sources # <<>>

(* The steps of drainOverflowSummaryGroup that send nothing. *)
Omits(i) == queue[i].evicted > 0
SourcesWentAway(i) == KeptSources(i) # Kept(i) /\ KeptSources(i).dropped = 0
ElidedWentAway(i) == queue[i].elided # <<>> /\ KeptSummary(i).elided = <<>>
Quietly(i) ==
    Kept(i).dropped > 0 /\ (SourcesWentAway(i) \/ Omits(i) \/ ElidedWentAway(i))

Awaits(i, r, kind, batch, elided) ==
    /\ queue' = [queue EXCEPT ![i] =
                    IF kind = "summary"
                    THEN [r EXCEPT !.active = @ \cup ToSet(batch)]
                    ELSE IF kind = "priority" THEN r
                    ELSE [r EXCEPT !.inFlight = ToSet(batch)]]
    /\ drain' = [drain EXCEPT ![i] =
                    [pc |-> "wait", kind |-> kind, batch |-> batch,
                     elided |-> elided, entry |-> elided > 0,
                     inherited |-> ToSet(batch) \cap r.active,
                     admitted |-> FALSE]]
    /\ UNCHANGED live

Gone(i, r) == (ToSet(queue[i].items) \ ToSet(r.items))
    \cup (ToSet(queue[i].sources) \ ToSet(r.sources))
    \cup (ToSet(queue[i].elided) \ ToSet(r.elided))

(* After the quiet window: a retry first, then the summary, then messages. *)
Choose(i) ==
    LET idle == ~HasWork(Kept(i))
        priority == Priority(Kept(i))
        due == Kept(i).dropped > 0
        r == IF idle \/ priority # <<>> \/ ~due THEN Kept(i)
             ELSE IF SourcesWentAway(i) THEN KeptSources(i)
             ELSE IF Omits(i) THEN [KeptSources(i) EXCEPT !.dropped = @ - queue[i].evicted,
                                                         !.evicted = 0]
             ELSE KeptSummary(i)
    IN  /\ drain[i].pc = "debounce"
        /\ CASE idle -> Ends(i, r, drain)
             [] ~idle /\ priority # <<>> ->
                    Awaits(i, r, "priority", <<Head(priority)>>, 0)
             [] ~idle /\ priority = <<>> /\ Quietly(i) -> Continues(i, r, drain)
             [] ~idle /\ priority = <<>> /\ ~Quietly(i) /\ due /\ SummaryDue(r) ->
                    Awaits(i, r, "summary", r.elided \o r.sources, Len(r.elided))
             [] OTHER ->
                    IF r.items = <<>> THEN Ends(i, r, drain)
                    ELSE IF r.mode = "collect" THEN Awaits(i, r, "group", r.items, 0)
                    ELSE Awaits(i, r, "item", <<Head(r.items)>>, 0)
        /\ out' = Settled(Gone(i, r), "canceled")
        /\ UNCHANGED <<lane, owed, turns, canceled, begun, fails, clears>>

(* consumeQueueSummaryDelivery *)
Consumed(r, S) ==
    LET here == S \cap ToSet(r.sources \o r.elided)
    IN  [r EXCEPT !.sources = Without(@, S), !.elided = Without(@, S),
                  !.dropped = @ - Cardinality(here)]

Batch(i) == ToSet(drain[i].batch)

(* Before admission every source can cancel the turn. *)
Canceled(i) == IF queue[i].aborted THEN Batch(i) ELSE Batch(i) \cap canceled

(* The turn gets the reply lane.  A turn for several messages takes them   *)
(* out of the queue here, for good.                                        *)
Admit(i) ==
    LET many == Len(drain[i].batch) > 1
        r == IF ~many THEN queue[i]
             ELSE IF drain[i].kind = "summary" THEN Consumed(queue[i], Batch(i))
             ELSE [queue[i] EXCEPT !.items = Without(@, Batch(i))]
    IN  /\ drain[i].pc = "wait" /\ Canceled(i) = {} /\ lane = "free"
        /\ lane' = "drain"
        /\ queue' = [queue EXCEPT ![i] = r]
        /\ drain' = [drain EXCEPT ![i].pc = "turn", ![i].admitted = many,
                                  ![i].entry = @ /\ r.elided # <<>>]
        /\ turns' = IF many THEN Presented(Batch(i)) ELSE turns
        /\ UNCHANGED <<live, owed, out, canceled, begun, fails, clears>>

(* The locks of a finished turn: inFlight, activeSummarySources. *)
Freed(i, r, carried) ==
    IF drain[i].kind = "summary"
    THEN [r EXCEPT !.active = @ \ (Batch(i) \ carried)]
    ELSE IF drain[i].kind = "priority" THEN r
    ELSE [r EXCEPT !.inFlight = {}]

(* drainElidedOverflowSummary after a delivery: as many elided sources as  *)
(* the summary counted leave the entry, from the front.                    *)
Spliced(i, r) ==
    IF drain[i].kind = "summary" /\ drain[i].entry
    THEN LET n == IF drain[i].elided < Len(r.elided) THEN drain[i].elided
                  ELSE Len(r.elided)
         IN  [r EXCEPT !.elided = SubSeq(@, n + 1, Len(@)), !.dropped = @ - n]
    ELSE r

(* A turn that returns: what it presented is done.  When sources were      *)
(* canceled before admission, they go and the others wait for the next.    *)
Returns(i, how, d) ==
    LET gone == IF drain[i].admitted \/ drain[i].kind \in {"item", "priority"}
                THEN {} ELSE Canceled(i)
        done == IF gone # {} THEN gone ELSE Batch(i)
        retained == done \ ToSet(SubSeq(drain[i].batch, 1, drain[i].elided))
        r == IF drain[i].kind = "summary"
             THEN Consumed(queue[i], IF gone # {} THEN gone ELSE retained)
             ELSE [queue[i] EXCEPT !.items = Without(@, done)]
        freed == Freed(i, r, {})
        omitted == Evicted(freed)
        t == Trimmed(freed)
        last == IF gone # {} THEN t ELSE Spliced(i, t)
        code == IF gone # {} THEN "canceled"
                ELSE IF how = "run" /\ drain[i].kind = "summary" THEN "summary"
                ELSE how
    IN  /\ Continues(i, last, d)
        /\ out' = [m \in Msg |->
                     IF out[m] # "queued" THEN out[m]
                     ELSE IF m \in omitted THEN "omitted"
                     ELSE IF m \in done \/ m \in ToSet(t.elided) \ ToSet(last.elided)
                          THEN code
                     ELSE "queued"]

(* The reply operation is over: its callbacks schedule the drain. *)
AfterClear == IF owed THEN Schedule(drain, live) ELSE drain

Succeed(i) ==
    /\ drain[i].pc = "turn"
    /\ Returns(i, "run", AfterClear)
    /\ turns' = IF drain[i].admitted THEN turns ELSE Presented(Batch(i))
    /\ lane' = "free" /\ owed' = FALSE
    /\ UNCHANGED <<canceled, begun, fails, clears>>

(* Canceled while it waits for the lane, or the session was replaced. *)
Withdraw(i) ==
    /\ drain[i].pc = "wait"
    /\ \/ Canceled(i) # {} /\ Returns(i, "canceled", drain)
       \/ Canceled(i) = {} /\ Returns(i, "replaced", drain)
    /\ UNCHANGED <<lane, owed, turns, canceled, begun, fails, clears>>

(* A turn that throws ends the drain.  What it did not take out stays;     *)
(* after admission it is lost with the attempt.                            *)
Throws(i, deferred, d) ==
    LET carried == IF ~deferred THEN {}
                   ELSE IF drain[i].inherited = {} THEN Batch(i)
                   ELSE drain[i].inherited
        r == Freed(i, queue[i], carried)
        omitted == Evicted(r)
    IN  /\ Ends(i, Trimmed(r), d)
        /\ out' = [m \in Msg |->
                     IF out[m] # "queued" THEN out[m]
                     ELSE IF m \in omitted THEN "omitted"
                     ELSE IF drain[i].admitted /\ m \in Batch(i) THEN "failed"
                     ELSE "queued"]

(* The lane did not come free in time. *)
Defer(i) ==
    /\ drain[i].pc = "wait" /\ Canceled(i) = {} /\ lane # "free"
    /\ Throws(i, TRUE, drain)
    /\ UNCHANGED <<lane, owed, turns, canceled, begun, fails, clears>>

Fail(i) ==
    /\ drain[i].pc \in {"wait", "turn"} /\ fails < MaxFails
    /\ fails' = fails + 1
    /\ IF drain[i].pc = "turn"
       THEN /\ Throws(i, FALSE, AfterClear)
            /\ lane' = "free" /\ owed' = FALSE
       ELSE /\ Throws(i, FALSE, drain)
            /\ UNCHANGED <<lane, owed>>
    /\ UNCHANGED <<turns, canceled, begun, clears>>

-----------------------------------------------------------------------------
(* Around the queue *)

(* Another message gets the reply lane for a turn of its own. *)
TurnStarts ==
    /\ lane = "free" /\ begun < MaxTurns
    /\ lane' = "turn" /\ begun' = begun + 1
    /\ UNCHANGED <<live, queue, drain, owed, out, turns, canceled, fails, clears>>

(* The end of such a turn always schedules the drain. *)
TurnEnds ==
    /\ lane = "turn"
    /\ lane' = "free" /\ owed' = FALSE
    /\ drain' = Schedule(drain, live)
    /\ UNCHANGED <<live, queue, out, turns, canceled, begun, fails, clears>>

(* clearFollowupQueue: a stop or a reset of the session. *)
Clear ==
    /\ live # 0 /\ clears < MaxClears
    /\ clears' = clears + 1
    /\ LET r == queue[live]
       IN  /\ out' = Settled(ToSet(r.items \o r.sources \o r.elided), "cleared")
           /\ queue' = [queue EXCEPT ![live] =
                  IF drain[live].pc = "off" THEN NewQueue
                  ELSE [NewQueue EXCEPT !.aborted = TRUE, !.active = r.active,
                                        !.mode = r.mode, !.policy = r.policy]]
    /\ drain' = [drain EXCEPT ![live].entry = FALSE]
    /\ live' = 0
    /\ UNCHANGED <<lane, owed, turns, canceled, begun, fails>>

(* chat.abort of a queued turn, before its turn owns the reply lane. *)
Cancel(m) ==
    /\ m \in Cancelable \ canceled /\ out[m] = "queued"
    /\ \A i \in Queues : ~(drain[i].pc = "turn" /\ m \in Batch(i))
    /\ canceled' = canceled \cup {m}
    /\ UNCHANGED <<live, queue, drain, lane, owed, out, turns, begun, fails, clears>>

Next ==
    \/ \E m \in Msg, s \in Settings :
          Enqueue(m, s) \/ Reject(m, s) \/ EnqueueRetry(m, s)
    \/ \E s \in Settings : EnqueueDuplicate(s)
    \/ \E i \in Queues :
          \/ Wake(i) \/ Choose(i) \/ Admit(i) \/ Succeed(i) \/ Withdraw(i)
          \/ Defer(i) \/ Fail(i)
    \/ TurnStarts \/ TurnEnds \/ Clear
    \/ \E m \in Msg : Cancel(m)

Spec == Init /\ [][Next]_vars

(* The coroutine of a drain goes on: its debounce timer fires, it gets the *)
(* lane when the lane is free, its turn ends.                              *)
Proceeds(i) ==
    \/ Wake(i) \/ Choose(i) \/ Admit(i) \/ Succeed(i)
    \/ Withdraw(i) /\ Canceled(i) # {}

Fairness == WF_vars(TurnEnds) /\ \A i \in Queues : WF_vars(Proceeds(i))

FairSpec == Spec /\ Fairness

-----------------------------------------------------------------------------
(* Properties *)

Queued == {m \in Msg : out[m] = "queued"}
Everywhere(i) == queue[i].items \o queue[i].sources \o queue[i].elided
Taken == UNION {Batch(i) : i \in {j \in Queues : drain[j].admitted}}

(* The state has the shape the code gives it: a queue is drained by one    *)
(* coroutine, what is in flight belongs to it, only one turn owns the      *)
(* reply lane, and a retained summary line has its source.                 *)
TypeOK ==
    /\ live \in 0..MaxQueues /\ lane \in {"free", "turn", "drain"}
    /\ out \in [Msg -> {"new", "queued", "run", "summary", "dropped", "omitted",
                        "rejected", "canceled", "cleared", "replaced", "failed"}]
    /\ canceled \subseteq Cancelable
    /\ (lane = "drain") = (\E i \in Queues : drain[i].pc = "turn")
    /\ \A i, j \in Queues :
          drain[i].pc = "turn" /\ drain[j].pc = "turn" => i = j
    /\ \A i \in Queues :
        /\ queue[i].inFlight \subseteq Batch(i)
        /\ Len(queue[i].sources) <= Cap
        /\ i # live => Everywhere(i) = <<>> /\ queue[i].dropped = 0

(* Nothing accepted is lost or kept twice: the messages without an outcome *)
(* are exactly those in the registered queue, each in one of its lists,    *)
(* and those an admitted turn took out of it (drain.ts consumes and        *)
(* restores them by identity, and drops aborted ones by index, while       *)
(* enqueuers change the same lists).                                       *)
NothingLost ==
    LET held == IF live = 0 THEN <<>> ELSE Everywhere(live)
    IN  /\ Queued = ToSet(held) \cup {m \in Taken : out[m] = "queued"}
        /\ Len(held) = Cardinality(ToSet(held))
        /\ ToSet(held) \cap Taken = {}

(* droppedCount, which alone decides whether summary work is left, counts  *)
(* the retained, the elided and the given-up sources.                      *)
CountsAgree ==
    \A i \in Queues :
        queue[i].dropped =
            Len(queue[i].sources) + Len(queue[i].elided) + queue[i].evicted

(* A queue with work has a drain, or the end of the current turn starts    *)
(* one: also when a drain of a cleared queue ends after its successor was  *)
(* registered.                                                             *)
NoIdleBacklog ==
    live # 0 /\ HasWork(queue[live]) /\ drain[live].pc = "off" =>
        lane = "turn" \/ (lane = "drain" /\ owed)

(* A message is presented to the agent at most once, in a turn of its own, *)
(* collected or in a summary, also when a turn is deferred or the overflow *)
(* drops messages while one runs; and never after it was canceled.         *)
PresentsRightly ==
    [][\A m \in Msg : turns'[m] # turns[m] =>
          turns[m] = 0 /\ m \notin canceled]_vars

(* A summary is due in a queue that a later message has switched to        *)
(* another policy: previewQueueSummaryPrompt returns nothing, the loop     *)
(* breaks and its end schedules the drain again (drain.ts:1361).           *)
SummaryStranded ==
    live # 0 /\ queue[live].policy # "summarize" /\ queue[live].dropped > 0

(* Everything accepted is settled, through failures, deferrals and stops,  *)
(* unless its summary is stranded.  There are finitely many messages, so a *)
(* time comes when none is left.                                           *)
EverythingSettles == Queued # {} ~> Queued = {} \/ SummaryStranded

(* docs/concepts/queue.md: the summary of dropped messages is injected.    *)
SummaryIsSent == SummaryStranded ~> ~SummaryStranded

(* docs/concepts/queue.md: cap is the most messages queued per session. *)
CapKept == live # 0 => Len(Pending(queue[live])) <= Cap

(* docs/concepts/queue.md: dropped messages are injected as a summary.  No *)
(* message is settled as summarized unless a summary counted it.           *)
SummaryCountsAll == \A m \in Msg : out[m] = "summary" => turns[m] = 1

(* The queue's lists and counters account for every message, while the     *)
(* drain awaits and enqueuers change them (drain.ts:1102-1368).            *)
QueueInv == TypeOK /\ NothingLost /\ CountsAgree
=============================================================================
