------------------------------ MODULE NestedLanes ------------------------------
(***************************************************************************)
(* Agent runs hold one lane while they wait for the next: the session's    *)
(* lane, then a global one (src/src/agents/embedded-agent-runner/run.ts),  *)
(* behind the cron lane if it is a manual cron run (src/src/cron/service/  *)
(* ops.ts).  A running turn can send to another session and wait for the   *)
(* answer (src/src/agents/tools/sessions-send-tool.ts).  Who could wait    *)
(* for whom depends on the names resolved for the lanes (src/src/agents/   *)
(* lanes.ts, embedded-agent-runner/lanes.ts).                              *)
(*                                                                         *)
(* A lane is what CommandQueue models, without its failures: the oldest    *)
(* waiting run starts when a slot is free.                                 *)
(***************************************************************************)
EXTENDS Naturals, Sequences, FiniteSets, SequencesExt

CONSTANTS
    Run,
    Kind,           \* Kind[r]: "channel", "cron", "timer" or "sent"
    Session,
    SessionOf,      \* SessionOf[r]
    MainSlots,      \* concurrency of the main lane
    CronSlots       \* concurrency of the cron lanes

ASSUME NestedConstants ==
    /\ Kind \in [Run -> {"channel", "cron", "timer", "sent"}]
    /\ SessionOf \in [Run -> Session]
    /\ MainSlots \in Nat \ {0} /\ CronSlots \in Nat \ {0}
    /\ IsFiniteSet(Run)

VARIABLES
    queue, active,  \* of each lane
    held,           \* held[r]: how many lanes of its path r has entered
    state,          \* "idle", "waiting", "running", "sending" or "done"
    awaits          \* awaits[r]: {} or {the run whose answer r waits for}

nestedVars == <<queue, active, held, state, awaits>>

Global(name) == <<"global", name>>
SessionLane(s) == <<"session", s>>
NestedLane(s) == <<"nested", s>>
LaneName == {Global("main"), Global("cron"), Global("cron-nested")}
               \cup {SessionLane(s) : s \in Session} \cup {NestedLane(s) : s \in Session}

Slots(l) == CASE l = Global("main") -> MainSlots
              [] l \in {Global("cron"), Global("cron-nested")} -> CronSlots
              [] OTHER -> 1

-----------------------------------------------------------------------------
CronLaneShared == Global("cron")

(* resolveCronAgentLane, resolveGlobalLane: a cron job's turn must not     *)
(* queue behind the job itself.                                            *)
CronAgentLane == Global("cron-nested")

(* resolveNestedAgentLaneForSession: nor a sent turn behind its sender. *)
NestedAgentLane(s) == NestedLane(s)

(* The lanes a run enters, outermost first. *)
Path(r) ==
    LET session == SessionLane(SessionOf[r])
    IN CASE Kind[r] = "channel" -> <<session, Global("main")>>
         [] Kind[r] = "cron" -> <<Global("cron"), session, CronAgentLane>>
         [] Kind[r] = "timer" -> <<session, CronAgentLane>>
         [] Kind[r] = "sent" -> <<session, NestedAgentLane(SessionOf[r])>>

NextLane(r) == Path(r)[held[r] + 1]

NestedInit ==
    /\ queue = [l \in LaneName |-> <<>>] /\ active = [l \in LaneName |-> {}]
    /\ held = [r \in Run |-> 0]
    /\ state = [r \in Run |-> "idle"] /\ awaits = [r \in Run |-> {}]

Enqueued(r, l) == [queue EXCEPT ![l] = Append(@, r)]

(* A message arrives, or a cron job is due. *)
Arrives(r) ==
    /\ state[r] = "idle" /\ Kind[r] # "sent"
    /\ state' = [state EXCEPT ![r] = "waiting"]
    /\ queue' = Enqueued(r, NextLane(r))
    /\ UNCHANGED <<active, held, awaits>>

HasRoom(l) == Cardinality(active[l]) < Slots(l)

(* A slot is free: the task starts, and queues for the next lane. *)
Enters(r) ==
    LET l == NextLane(r)
        entered == Append(SubSeq(Path(r), 1, held[r]), l)
    IN
    /\ state[r] = "waiting" /\ Head(queue[l]) = r
    /\ HasRoom(l)
    /\ active' = [active EXCEPT ![l] = @ \cup {r}]
    /\ held' = [held EXCEPT ![r] = @ + 1]
    /\ IF entered = Path(r)
       THEN /\ state' = [state EXCEPT ![r] = "running"]
            /\ queue' = [queue EXCEPT ![l] = Tail(@)]
       ELSE /\ queue' = [queue EXCEPT ![l] = Tail(@),
                                      ![Path(r)[held[r] + 2]] = Append(@, r)]
            /\ UNCHANGED state
    /\ UNCHANGED awaits

(* sessions_send: the turn starts a run of another session and waits.      *)
SendsAndWaits(r, c) ==
    /\ state[r] = "running" /\ state[c] = "idle" /\ Kind[c] = "sent"
    /\ state' = [state EXCEPT ![r] = "sending", ![c] = "waiting"]
    /\ awaits' = [awaits EXCEPT ![r] = {c}]
    /\ queue' = Enqueued(c, NextLane(c))
    /\ UNCHANGED <<active, held>>

Resumes(r) ==
    /\ state' = [state EXCEPT ![r] = "running"]
    /\ awaits' = [awaits EXCEPT ![r] = {}]
    /\ UNCHANGED <<queue, active, held>>

GetsAnswer(r) ==
    /\ state[r] = "sending" /\ \A c \in awaits[r] : state[c] = "done"
    /\ Resumes(r)

NeverTimesOut(r) == FALSE
WaitMayTimeOut(r) == \E c \in awaits[r] : state[c] # "done"

(* The wait of sessions_send is bounded; the run it started goes on.       *)
WaitTimesOut(r) ==
    /\ state[r] = "sending" /\ WaitMayTimeOut(r)
    /\ Resumes(r)

(* The turn ends and its tasks settle from the inside out. *)
Finishes(r) ==
    /\ state[r] = "running"
    /\ state' = [state EXCEPT ![r] = "done"]
    /\ active' = [l \in LaneName |-> active[l] \ {r}]
    /\ UNCHANGED <<queue, held, awaits>>

AllEnded == \A r \in Run : state[r] \in {"idle", "done"}
AllDone == AllEnded /\ UNCHANGED nestedVars

NestedNext ==
    \/ \E r \in Run : \/ Arrives(r) \/ Enters(r) \/ GetsAnswer(r)
                      \/ WaitTimesOut(r) \/ Finishes(r)
                      \/ \E c \in Run : SendsAndWaits(r, c)
    \/ AllDone

(* Lanes are pumped, waits are bounded and turns end. *)
NestedFairness ==
    \A r \in Run : /\ WF_nestedVars(Enters(r))
                   /\ WF_nestedVars(GetsAnswer(r) \/ WaitTimesOut(r))
                   /\ WF_nestedVars(Finishes(r))

NestedSpec == NestedInit /\ [][NestedNext]_nestedVars
NestedFairSpec == NestedSpec /\ NestedFairness

-----------------------------------------------------------------------------
(* Lanes hold no more runs than they have slots, each in the lanes of its  *)
(* own path.                                                               *)
NestedTypeOK ==
    /\ \A l \in LaneName : /\ queue[l] \in Seq(Run) /\ IsInjective(queue[l])
                           /\ active[l] \subseteq Run
                           /\ Cardinality(active[l]) <= Slots(l)
    /\ \A r \in Run : held[r] \in 0..Len(Path(r))
    /\ state \in [Run -> {"idle", "waiting", "running", "sending", "done"}]
    /\ awaits \in [Run -> SUBSET Run]

(* Every run of B waits for runs of B only: they can never go on, unless a *)
(* wait times out.                                                         *)
CircularWait(B) ==
    \A b \in B :
        \/ state[b] = "sending" /\ awaits[b] \subseteq B
        \/ /\ state[b] = "waiting"
           /\ active[NextLane(b)] \subseteq B
           /\ Cardinality(active[NextLane(b)]) = Slots(NextLane(b))

(* Lanes alone never deadlock: in every circle somebody waits for the      *)
(* answer to a message, and that wait is bounded (src/src/agents/lanes.ts:17).*)
CirclesNeedASend ==
    \A B \in (SUBSET Run) \ {{}} : CircularWait(B) =>
        \E b \in B : state[b] = "sending"

(* A turn that answers a message does not wait for a slot its own sender   *)
(* holds, unless it was sent to the sender's session.                      *)
AnswerNotBehindSender ==
    \A r, c \in Run : c \in awaits[r] /\ state[c] = "waiting"
                         /\ r \in active[NextLane(c)] => SessionOf[r] = SessionOf[c]

(* Every run that was started ends: cron jobs behind their own lane, turns *)
(* that send back and forth, and turns of a full main lane.                *)
EveryRunEnds == ~AllEnded ~> AllEnded

(* Nesting lanes is safe (src/src/agents/lanes.ts:17): no circle of slots, *)
(* and no answer behind its question.                                      *)
NestingInv == NestedTypeOK /\ CirclesNeedASend /\ AnswerNotBehindSender
=============================================================================
