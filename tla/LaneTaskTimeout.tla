--------------------------- MODULE LaneTaskTimeout ---------------------------
(***************************************************************************)
(* runQueueEntryTask of src/src/process/command-queue.ts: the race between *)
(* a lane task and its caller-owned timeout.  The timeout is renewed from  *)
(* progress timestamps, shortened to a grace period by an abort signal and *)
(* cut off by a release signal.  One entry, from its enqueue on; CommandQueue *)
(* has the same race as the choice between TaskSettles and TaskTimesOut.   *)
(*                                                                         *)
(* Time is counted in timer ticks.  The event loop serves a due timer      *)
(* before the clock moves on.                                              *)
(***************************************************************************)
EXTENDS Naturals

CONSTANTS
    TaskTimeout,   \* taskTimeoutMs, normalised: positive
    AbortGrace,    \* taskTimeoutAbortGraceMs, normalised: positive
    MaxTime        \* bound: the clock stops here

ASSUME TimeoutAssumption ==
    /\ TaskTimeout \in Nat \ {0}
    /\ AbortGrace \in Nat \ {0}
    /\ MaxTime \in Nat

VARIABLES
    now,           \* Date.now()
    startedAt,     \* startedAtMs
    progressAt,    \* what taskTimeoutProgressAtMs returns; 0 for none
    aborted,       \* taskTimeoutAbortSignal.aborted
    released,      \* taskTimeoutReleaseSignal.aborted
    onAbort,       \* the abort listener is registered
    onRelease,     \* the release listener is registered
    timer,         \* timeoutHandle: when it fires and what it calls
    taskBody,          \* the task function
    outcome,       \* what the race was won by
    abortedAt      \* history: when the running task saw the abort

timeoutVars == <<now, startedAt, progressAt, aborted, released, onAbort, onRelease,
          timer, taskBody, outcome, abortedAt>>

Callback == {"none", "armProgressTimeout", "rejectForTimeout"}
Timer == [at : Nat, call : Callback]
NoTimer == [at |-> 0, call |-> "none"]

(* readLastProgressAtMs *)
LastProgress == IF progressAt > startedAt THEN progressAt ELSE startedAt

-----------------------------------------------------------------------------
TimeoutInit ==
    /\ now = 0 /\ startedAt = 0 /\ progressAt = 0 /\ abortedAt = 0
    /\ aborted = FALSE /\ released = FALSE
    /\ onAbort = FALSE /\ onRelease = FALSE
    /\ timer = NoTimer
    /\ taskBody = "queued"
    /\ outcome = "pending"

(* The finally block of runQueueEntryTask. *)
CleanupKeepsTimer == UNCHANGED timer /\ onAbort' = FALSE /\ onRelease' = FALSE

Cleanup == timer' = NoTimer /\ onAbort' = FALSE /\ onRelease' = FALSE

(* rejectForTimeout wins the race and the finally block cleans up. *)
RejectForTimeout == outcome' = "timeout" /\ Cleanup

(* armProgressTimeout: the timer is set to the rest of the timeout since  *)
(* the last progress, or there is nothing left of it.                     *)
ArmProgressTimeoutIgnoringProgress == RejectForTimeout
ArmProgressTimeout ==
    LET elapsed == now - LastProgress
    IN  IF elapsed >= TaskTimeout
        THEN RejectForTimeout
        ELSE /\ timer' = [at |-> now + (TaskTimeout - elapsed),
                          call |-> "armProgressTimeout"]
             /\ UNCHANGED <<outcome, onAbort, onRelease>>

(* armAbortTimeout replaces the progress timer. *)
ArmAbortTimeoutKeepsProgressTimer == UNCHANGED timer /\ abortedAt' = now

ArmAbortTimeout ==
    /\ timer' = [at |-> now + AbortGrace, call |-> "rejectForTimeout"]
    /\ abortedAt' = now

(* The lane starts the entry: the executor of timeoutPromise looks at the *)
(* signals first.  An abort that came before the start arms the grace     *)
(* period and returns without registering a listener.  No progress is     *)
(* newer than the start yet, so armProgressTimeout sets the whole timeout.*)
Start ==
    /\ taskBody = "queued"
    /\ taskBody' = "running"
    /\ startedAt' = now
    /\ \/ released /\ RejectForTimeout /\ UNCHANGED abortedAt
       \/ /\ ~released /\ aborted
          /\ ArmAbortTimeout
          /\ UNCHANGED <<outcome, onAbort, onRelease>>
       \/ /\ ~released /\ ~aborted
          /\ timer' = [at |-> now + TaskTimeout, call |-> "armProgressTimeout"]
          /\ onAbort' = TRUE /\ onRelease' = TRUE
          /\ UNCHANGED <<outcome, abortedAt>>
    /\ UNCHANGED <<now, progressAt, aborted, released>>

(* setTimeout's callback *)
TimerFires ==
    /\ timer.call # "none" /\ now >= timer.at
    /\ IF timer.call = "armProgressTimeout"
       THEN ArmProgressTimeout ELSE RejectForTimeout
    /\ UNCHANGED <<now, startedAt, progressAt, aborted, released, taskBody,
                   abortedAt>>

(* The caller aborts, before or after the start. *)
AbortSignal ==
    /\ ~aborted
    /\ aborted' = TRUE
    /\ IF onAbort THEN ArmAbortTimeout /\ onAbort' = FALSE
                  ELSE UNCHANGED <<timer, abortedAt, onAbort>>
    /\ UNCHANGED <<now, startedAt, progressAt, released, onRelease, taskBody,
                   outcome>>

(* The caller's own cleanup grace is over. *)
ReleaseSignal ==
    /\ ~released
    /\ released' = TRUE
    /\ IF onRelease THEN RejectForTimeout
                    ELSE UNCHANGED <<timer, onAbort, onRelease, outcome>>
    /\ UNCHANGED <<now, startedAt, progressAt, aborted, taskBody, abortedAt>>

(* The task function notes progress, running or still unwinding. *)
NoteProgress ==
    /\ taskBody = "running"
    /\ progressAt' = now
    /\ UNCHANGED <<now, startedAt, aborted, released, onAbort, onRelease,
                   timer, taskBody, outcome, abortedAt>>

(* The task function settles, in time or after its timeout. *)
TaskFunctionSettles ==
    /\ taskBody = "running"
    /\ taskBody' = "done"
    /\ IF outcome = "pending" THEN outcome' = "task" /\ Cleanup
       ELSE UNCHANGED <<timer, onAbort, onRelease, outcome>>
    /\ UNCHANGED <<now, startedAt, progressAt, aborted, released, abortedAt>>

Tick ==
    /\ now < MaxTime
    /\ timer.call = "none" \/ now < timer.at
    /\ now' = now + 1
    /\ UNCHANGED <<startedAt, progressAt, aborted, released, onAbort,
                   onRelease, timer, taskBody, outcome, abortedAt>>

TimeoutNext == \/ Start \/ TimerFires \/ AbortSignal \/ ReleaseSignal
        \/ NoteProgress \/ TaskFunctionSettles \/ Tick

TimeoutSpec == TimeoutInit /\ [][TimeoutNext]_timeoutVars

-----------------------------------------------------------------------------
(* Properties *)

(* Every variable has its type, and no timestamp lies in the future. *)
TimeoutTypeOK ==
    /\ now \in 0..MaxTime
    /\ startedAt \in 0..now /\ progressAt \in 0..now /\ abortedAt \in 0..now
    /\ aborted \in BOOLEAN /\ released \in BOOLEAN
    /\ onAbort \in BOOLEAN /\ onRelease \in BOOLEAN
    /\ timer \in Timer
    /\ taskBody \in {"queued", "running", "done"}
    /\ outcome \in {"pending", "task", "timeout"}

Awaited == taskBody = "running" /\ outcome = "pending"

(* The lane is held no longer than it promises: a task it awaits has been *)
(* silent for at most its timeout, and once it saw an abort, for at most  *)
(* the grace period, whatever progress it still reports.                  *)
HeldWithinDeadline ==
    Awaited => now <= IF aborted THEN abortedAt + AbortGrace
                      ELSE LastProgress + TaskTimeout

(* A task the lane awaits always has a timer ahead that ends the wait: at *)
(* the end of the grace period once it saw an abort; before that, at the  *)
(* latest when its timeout since the last progress is over, with both     *)
(* listeners registered (armProgressTimeout, armAbortTimeout, armTimer).  *)
DeadlineArmed ==
    Awaited =>
      /\ now <= timer.at
      /\ IF aborted
         THEN timer = [at |-> abortedAt + AbortGrace,
                       call |-> "rejectForTimeout"]
         ELSE /\ timer.call = "armProgressTimeout"
              /\ timer.at <= LastProgress + TaskTimeout
              /\ onAbort /\ onRelease

(* A task is given up for a reason only: the release signal, a whole grace*)
(* period after the abort, or a whole timeout without progress.           *)
TimeoutHasReason ==
    [][outcome = "pending" /\ outcome' = "timeout" =>
          \/ released'
          \/ aborted /\ now >= abortedAt + AbortGrace
          \/ ~aborted /\ now >= LastProgress + TaskTimeout]_timeoutVars

(* When the race is over no timer and no listener of the entry is left    *)
(* behind on the signals, which outlive it.                               *)
NothingLeftArmed ==
    ~Awaited => timer = NoTimer /\ ~onAbort /\ ~onRelease

(* "Ends the task after a caller-owned timeout cleanup grace has already  *)
(* elapsed" (command-queue.types.ts): a released task is awaited no more. *)
ReleaseEndsTask == released => ~Awaited
=============================================================================
