---------------------------- MODULE GatewayProofs ----------------------------
(***************************************************************************)
(* Theorems about GatewayLock and GatewayWork: one process owns a gateway, *)
(* and what may be enqueued in it behind which fence.                      *)
(*                                                                         *)
(* GatewayLock, for any processes, directories, process ids and number of  *)
(* starts.  The inductive invariant says that a transaction                *)
(* on a coordinator is open exactly while its process has the lock or      *)
(* works on its file (CoordinatorsAgree), that a file which carries a      *)
(* living process's start time is that of a lock it owns or one it could   *)
(* not remove (FilesNameOwners), and that start times are not handed out   *)
(* twice (StartsInOrder).                                                  *)
(***************************************************************************)
EXTENDS GatewayLock, GatewayWork, FiniteSetTheorems, TLAPS

USE GatewayLockConstants

AtMostOne(S) == \A x, y \in S : x = y

Contents == [pid : Pid \cup {LegacyPid, NoPid}, start : Nat,
             role : {"gateway", "maintenance"}, old : BOOLEAN, left : BOOLEAN]

ProcTypes ==
    /\ step \in [Proc -> Steps] /\ held \in [Proc -> Nat]
    /\ pid \in [Proc -> Pid \cup {NoPid}] /\ start \in [Proc -> Nat]
    /\ starts \in Nat /\ legacyUp \in BOOLEAN
    /\ foreign \subseteq Pid \cup {LegacyPid}
StepMatchesHeld ==
    \A p \in Proc : /\ held[p] <= Len(Path(p))
                    /\ step[p] \in {"try", "sleep", "open", "write"}
                         => held[p] < Len(Path(p))
                    /\ step[p] \in {"held", "rm", "unlock"} => held[p] > 0
                    /\ step[p] \in {"down", "idle"} => held[p] = 0
LockTypes ==
    /\ file \in [Lock -> SUBSET Contents] /\ \A l \in Lock : AtMostOne(file[l])
    /\ coordinator \in [Lock -> SUBSET Proc]
    /\ \A l \in Lock : AtMostOne(coordinator[l])

WorksOn(p, l) == step[p] \in {"open", "write"} /\ l = Target(p)

CoordinatorsAgree ==
    \A p \in Proc, l \in Lock : p \in coordinator[l] <=> Owns(p, l) \/ WorksOn(p, l)

(* Start times identify processes, past ones included. *)
StartsInOrder ==
    /\ \A p \in Proc : start[p] <= starts /\ (start[p] = NoStart <=> ~Up(p))
    /\ \A p, q \in Proc : start[p] = start[q] /\ start[p] # NoStart => p = q
    /\ \A l \in Lock : \A owner \in file[l] : owner.start <= starts

(* Process ids are not shared with the older gateway while it runs. *)
LegacyPidIsTaken == legacyUp => \A p \in Proc : pid[p] # LegacyPid

Released(p, l) == step[p] = "unlock" /\ Top(p) = l

FilesNameOwners ==
    \A p \in Proc, l \in Lock : \A owner \in file[l] :
        owner.start = start[p] /\ owner.start # NoStart /\ ~owner.left
            => Owns(p, l) /\ ~Released(p, l)

LockInv ==
    /\ ProcTypes /\ StepMatchesHeld /\ LockTypes /\ CoordinatorsAgree
    /\ StartsInOrder /\ LegacyPidIsTaken /\ OwnerHasFile /\ FilesNameOwners

(* The older gateway knows no coordinator: its file alone keeps others out.*)
LegacyLock == ConfigLock(LegacyConfig)
LegacyGuarded ==
    legacyUp =>
        /\ \E owner \in file[LegacyLock] :
              owner.pid = LegacyPid /\ owner.start = NoStart /\ owner.role = "gateway"
        /\ \A p \in Proc : /\ ~Owns(p, LegacyLock)
                           /\ ~(step[p] = "write" /\ Target(p) = LegacyLock)

-----------------------------------------------------------------------------
(* The locks of a process. *)

(* A process takes one or two locks, and never the same one twice. *)
LEMMA PathFacts ==
    ASSUME NEW p \in Proc
    PROVE  /\ Len(Path(p)) \in {1, 2}
           /\ \A n \in 1..Len(Path(p)) : Path(p)[n] \in Lock
           /\ \A n, m \in 1..Len(Path(p)) : Path(p)[n] = Path(p)[m] => n = m
<1> DEFINE s == StateLock(StateDir[p])
           c == ConfigLock(Config[p])
<1>1. s \in Lock /\ c \in Lock
    BY DEF Lock
<1>2. s # c
    BY DEF StateLock, ConfigLock
<1> HIDE DEF s, c
<1>3. CASE ShouldAcquireConfigLock(p)
    <2>1. Path(p) = <<s, c>>
        BY <1>3 DEF Path, s, c
    <2> QED BY <1>1, <1>2, <2>1
<1>4. CASE ~ShouldAcquireConfigLock(p)
    <2>1. Path(p) = <<s>>
        BY <1>4 DEF Path, s
    <2> QED BY <1>1, <2>1
<1> QED BY <1>3, <1>4

(* In particular it takes at least one. *)
LEMMA PathIsNotEmpty ==
    ASSUME NEW p \in Proc
    PROVE  0 < Len(Path(p)) /\ 0 <= Len(Path(p))
<1> DEFINE locks == Len(Path(p))
<1>1. locks \in {1, 2}
    BY PathFacts
<1> HIDE DEF locks
<1>2. 0 < locks /\ 0 <= locks
    BY <1>1
<1> QED BY <1>2 DEF locks

(* The lock a process acquires next is none it has, the lock it releases   *)
(* is the last it has.                                                     *)
LEMMA TargetFacts ==
    ASSUME ProcTypes, StepMatchesHeld, NEW p \in Proc
    PROVE  /\ held[p] \in Nat /\ held[p] <= Len(Path(p)) /\ Len(Path(p)) \in {1, 2}
           /\ held[p] < Len(Path(p)) => Target(p) \in Lock /\ ~Owns(p, Target(p))
           /\ held[p] > 0 => Top(p) \in Lock /\ Owns(p, Top(p))
           /\ \A l \in Lock : Owns(p, l) => held[p] > 0
<1>1. /\ held[p] \in Nat /\ held[p] <= Len(Path(p)) /\ Len(Path(p)) \in {1, 2}
      /\ \A n \in 1..Len(Path(p)) : Path(p)[n] \in Lock
      /\ \A n, m \in 1..Len(Path(p)) : Path(p)[n] = Path(p)[m] => n = m
    BY PathFacts DEF ProcTypes, StepMatchesHeld
<1>2. ASSUME held[p] < Len(Path(p))
      PROVE  Target(p) \in Lock /\ ~Owns(p, Target(p))
    <2>1. held[p] + 1 \in 1..Len(Path(p))
        BY <1>1, <1>2
    <2>2. \A n \in 1..held[p] : n \in 1..Len(Path(p)) /\ n # held[p] + 1
        BY <1>1
    <2> QED BY <1>1, <2>1, <2>2 DEF Target, Owns
<1>3. ASSUME held[p] > 0
      PROVE  Top(p) \in Lock /\ Owns(p, Top(p))
    <2>1. held[p] \in 1..Len(Path(p)) /\ held[p] \in 1..held[p]
        BY <1>1, <1>3
    <2> QED BY <1>1, <2>1 DEF Top, Owns
<1>4. \A l \in Lock : Owns(p, l) => held[p] > 0
    BY <1>1 DEF Owns
<1> QED BY <1>1, <1>2, <1>3, <1>4

(* What a process has when it has one lock more ... *)
LEMMA OwnsOneMore ==
    ASSUME ProcTypes, StepMatchesHeld, NEW p \in Proc, held[p] < Len(Path(p)),
           held' = [held EXCEPT ![p] = @ + 1], NEW l \in Lock
    PROVE  Owns(p, l)' <=> Owns(p, l) \/ l = Target(p)
<1>1. held'[p] = held[p] + 1 /\ held[p] \in Nat
    BY DEF ProcTypes
<1>2. 1..held'[p] = 1..held[p] \cup {held[p] + 1}
    BY <1>1
<1> QED BY <1>1, <1>2 DEF Owns, Target

(* ... and one less. *)
LEMMA OwnsOneLess ==
    ASSUME ProcTypes, StepMatchesHeld, NEW p \in Proc, held[p] > 0,
           held' = [held EXCEPT ![p] = @ - 1], NEW l \in Lock
    PROVE  Owns(p, l)' <=> Owns(p, l) /\ l # Top(p)
<1>1. held'[p] = held[p] - 1 /\ held[p] \in Nat /\ held[p] <= Len(Path(p))
      /\ Len(Path(p)) \in {1, 2}
    BY PathFacts DEF ProcTypes, StepMatchesHeld
<1>2. 1..held[p] = 1..held'[p] \cup {held[p]}
    BY <1>1
<1>3. \A n \in 1..held'[p] : n \in 1..Len(Path(p)) /\ n # held[p]
                             /\ held[p] \in 1..Len(Path(p))
    BY <1>1
<1>4. \A n \in 1..held'[p] : Path(p)[n] # Top(p)
    BY <1>3, PathFacts DEF Top
<1> QED BY <1>1, <1>2, <1>4 DEF Owns, Top

(* The holder of a lock's coordinator is alone with it. *)
LEMMA HolderIsAlone ==
    ASSUME LockInv, NEW p \in Proc, NEW l \in Lock, Owns(p, l) \/ WorksOn(p, l),
           NEW q \in Proc, q # p
    PROVE  ~Owns(q, l) /\ ~WorksOn(q, l)
BY DEF LockInv, CoordinatorsAgree, LockTypes, AtMostOne

-----------------------------------------------------------------------------
(* The invariant's parts by what a step leaves alone. *)

FileVars == <<held, pid, start, file, foreign, legacyUp, starts>>

(* What a process owns and where it is depends on step and held only. *)
LEMMA SameHeld ==
    ASSUME NEW q, held'[q] = held[q]
    PROVE  /\ \A l : Owns(q, l)' <=> Owns(q, l)
           /\ Target(q)' = Target(q) /\ Top(q)' = Top(q)
BY DEF Owns, Target, Top

(* A process that has no file under work goes on without touching locks. *)
LEMMA MovesOn ==
    ASSUME LockInv, NEW p \in Proc, NEW to \in {"idle", "try", "sleep", "rm"},
           step[p] \in {"idle", "try", "sleep", "held"}, Goes(p, to),
           to = "try" => held[p] < Len(Path(p)),
           to = "sleep" => held[p] < Len(Path(p)),
           to = "rm" => held[p] > 0, to = "idle" => held[p] = 0,
           UNCHANGED <<FileVars, coordinator>>
    PROVE  LockInv'
<1> USE DEF LockInv, FileVars, Goes
<1>0. /\ step'[p] = to /\ \A q \in Proc \ {p} : step'[q] = step[q]
      /\ \A q \in Proc : /\ \A l : Owns(q, l)' <=> Owns(q, l)
                         /\ Target(q)' = Target(q) /\ Top(q)' = Top(q)
    BY SameHeld DEF ProcTypes
<1>1. ProcTypes'
    BY DEF ProcTypes, Steps
<1>2. StepMatchesHeld'
    BY <1>0 DEF StepMatchesHeld
<1>3. LockTypes' /\ LegacyPidIsTaken'
    BY DEF LockTypes, LegacyPidIsTaken
<1>4. CoordinatorsAgree'
    BY <1>0 DEF CoordinatorsAgree, WorksOn
<1>5. StartsInOrder'
    BY <1>0 DEF StartsInOrder, Up
<1>6. OwnerHasFile'
    BY <1>0 DEF OwnerHasFile, Describes
<1>7. FilesNameOwners'
    BY <1>0 DEF FilesNameOwners, Released
<1> QED BY <1>1, <1>2, <1>3, <1>4, <1>5, <1>6, <1>7

(* Starting again, waiting, giving up and beginning a release move on. *)
LEMMA WaitingSteps ==
    ASSUME LockInv, NEW p \in Proc,
           \/ StartsAgain(p) \/ WakesUp(p) \/ LockTimesOut(p) \/ Releases(p)
    PROVE  LockInv'
<1>0. held[p] \in Nat /\ Len(Path(p)) \in {1, 2}
    BY TargetFacts DEF LockInv
<1>1. CASE StartsAgain(p)
    <2>1. step[p] = "idle" /\ held[p] = 0
        BY <1>1 DEF StartsAgain, LockInv, StepMatchesHeld
    <2>2. Goes(p, "try") /\ UNCHANGED <<FileVars, coordinator>>
        BY <1>1 DEF StartsAgain, FileVars
    <2>3. held[p] < Len(Path(p))
        BY <2>1, PathIsNotEmpty
    <2> QED BY <2>1, <2>2, <2>3, MovesOn
<1>2. CASE WakesUp(p)
    BY <1>2, MovesOn DEF WakesUp, FileVars, LockInv, StepMatchesHeld
<1>3. CASE LockTimesOut(p)
    BY <1>0, <1>3, MovesOn DEF LockTimesOut, Unwind, FileVars, LockInv, StepMatchesHeld
<1>4. CASE Releases(p)
    BY <1>0, <1>4, MovesOn DEF Releases, FileVars, LockInv, StepMatchesHeld
<1> QED BY <1>1, <1>2, <1>3, <1>4

(* A free coordinator is taken, a busy one waited for. *)
LEMMA TryStep ==
    ASSUME LockInv, NEW p \in Proc, TryAcquireCoordinator(p)
    PROVE  LockInv'
<1> USE DEF LockInv, TryAcquireCoordinator
<1>1. Target(p) \in Lock /\ held[p] < Len(Path(p)) /\ ~Owns(p, Target(p))
    BY TargetFacts DEF StepMatchesHeld
<1>2. CASE ~CoordinatorFree(p)
    BY <1>1, <1>2, MovesOn DEF FileVars
<1>3. CASE CoordinatorFree(p)
    <2> USE <1>3 DEF Goes, CoordinatorFree
    <2>0. /\ step'[p] = "open" /\ \A q \in Proc \ {p} : step'[q] = step[q]
          /\ \A q \in Proc : /\ \A l : Owns(q, l)' <=> Owns(q, l)
                             /\ Target(q)' = Target(q) /\ Top(q)' = Top(q)
        BY SameHeld DEF ProcTypes
    <2>1. ProcTypes'
        BY DEF ProcTypes, Steps
    <2>2. StepMatchesHeld'
        BY <2>0, <1>1 DEF StepMatchesHeld
    <2>3. /\ coordinator'[Target(p)] = {p}
          /\ \A l \in Lock \ {Target(p)} : coordinator'[l] = coordinator[l]
        BY <1>1 DEF LockTypes
    <2>4. LockTypes'
        BY <1>1, <2>3 DEF LockTypes, AtMostOne
    <2>5. CoordinatorsAgree'
        <3> SUFFICES ASSUME NEW q \in Proc, NEW l \in Lock
                     PROVE  q \in coordinator'[l]
                              <=> (Owns(q, l) \/ WorksOn(q, l))'
            BY DEF CoordinatorsAgree
        <3>1. q \in coordinator[l] <=> Owns(q, l) \/ WorksOn(q, l)
            BY DEF CoordinatorsAgree
        <3>2. CASE q = p
            BY <3>1, <3>2, <2>0, <2>3 DEF WorksOn
        <3>3. CASE q # p
            BY <3>1, <3>3, <2>0, <2>3 DEF WorksOn
        <3> QED BY <3>2, <3>3
    <2>6. StartsInOrder' /\ LegacyPidIsTaken'
        BY <2>0 DEF StartsInOrder, Up, LegacyPidIsTaken
    <2>7. OwnerHasFile'
        BY <2>0 DEF OwnerHasFile, Describes
    <2>8. FilesNameOwners'
        BY <2>0 DEF FilesNameOwners, Released
    <2> QED BY <2>1, <2>2, <2>4, <2>5, <2>6, <2>7, <2>8
<1> QED BY <1>2, <1>3

-----------------------------------------------------------------------------
(* What is in a file, written, removed or left. *)

(* A payload names its process and has its start time or none. *)
LEMMA PayloadFacts ==
    ASSUME ProcTypes, NEW p \in Proc, NEW payload \in Payloads(p)
    PROVE  /\ payload \in Contents /\ Describes(payload, p)
           /\ payload.start \in {NoStart, start[p]}
<1>1. PICK s \in {NoStart, start[p]} : payload = Content(pid[p], s, Role[p])
    BY DEF Payloads
<1>2. s \in Nat
    BY DEF ProcTypes, NoStart
<1> QED BY <1>1, <1>2 DEF Content, Contents, ProcTypes, Describes

(* A file that was to be removed and is still there has a content it could *)
(* have had before; if this names a process, the file is marked.           *)
LEMMA RemovedFacts ==
    ASSUME NEW contents \in SUBSET Contents, NEW rest \in Removed(contents)
    PROVE  /\ rest \in SUBSET Contents /\ AtMostOne(rest)
           /\ \A owner \in rest :
                 /\ \E c \in contents : owner.start = c.start
                 /\ owner.start # NoStart => owner.left
<1>1. CASE rest = {}
    BY <1>1 DEF AtMostOne
<1>2. CASE rest # {}
    <2>1. PICK c \in contents : rest = {[c EXCEPT !.left = c.start # NoStart]}
        BY <1>2 DEF Removed
    <2> DEFINE marked == [c EXCEPT !.left = c.start # NoStart]
    <2>2. marked \in Contents /\ marked.start = c.start
          /\ marked.left = (c.start # NoStart)
        BY DEF Contents
    <2> HIDE DEF marked
    <2>3. rest = {marked}
        BY <2>1 DEF marked
    <2> QED BY <2>2, <2>3 DEF AtMostOne
<1> QED BY <1>1, <1>2

-----------------------------------------------------------------------------
(* The holder of a coordinator at work on the lock's file. *)

(* A file without a start time says nothing about living processes; the    *)
(* holder may put it, or nothing, in place of the file it works on.        *)
LEMMA ReplacesFile ==
    ASSUME LockInv, NEW p \in Proc, WorksOn(p, Target(p)),
           NEW content \in SUBSET Contents, AtMostOne(content),
           \A owner \in content : owner.start = NoStart,
           file' = [file EXCEPT ![Target(p)] = content],
           NEW to \in {"open", "write"}, Goes(p, to),
           UNCHANGED <<held, pid, start, coordinator, foreign, legacyUp, starts>>
    PROVE  LockInv'
<1> USE DEF LockInv, Goes
<1>1. /\ Target(p) \in Lock /\ ~Owns(p, Target(p))
      /\ step[p] \in {"open", "write"}
    BY TargetFacts DEF StepMatchesHeld, WorksOn
<1>2. /\ step'[p] = to /\ \A q \in Proc \ {p} : step'[q] = step[q]
      /\ \A q \in Proc : /\ \A l : Owns(q, l)' <=> Owns(q, l)
                         /\ Target(q)' = Target(q) /\ Top(q)' = Top(q)
    BY SameHeld DEF ProcTypes
<1>3. /\ file'[Target(p)] = content
      /\ \A l \in Lock \ {Target(p)} : file'[l] = file[l]
    BY <1>1 DEF LockTypes
<1>4. ProcTypes'
    BY DEF ProcTypes, Steps
<1>5. StepMatchesHeld'
    BY <1>1, <1>2 DEF StepMatchesHeld
<1>6. LockTypes'
    BY <1>1, <1>3 DEF LockTypes
<1>7. CoordinatorsAgree'
    BY <1>1, <1>2 DEF CoordinatorsAgree, WorksOn
<1>8. StartsInOrder' /\ LegacyPidIsTaken'
    <2>1. \A l \in Lock : \A owner \in file'[l] : owner.start <= starts'
        BY <1>3 DEF StartsInOrder, NoStart, ProcTypes
    <2>2. \A q \in Proc : Up(q)' <=> Up(q)
        BY <1>1, <1>2 DEF Up
    <2> QED BY <2>1, <2>2 DEF StartsInOrder, LegacyPidIsTaken
<1>9. OwnerHasFile'
    <2> SUFFICES ASSUME NEW q \in Proc, NEW l \in Lock, Owns(q, l),
                        ~(step'[q] = "unlock" /\ Top(q) = l)
                 PROVE  \E owner \in file'[l] : Describes(owner, q)
        BY <1>2 DEF OwnerHasFile, Describes
    <2>1. l # Target(p)
        BY <1>1, HolderIsAlone
    <2>2. ~(step[q] = "unlock" /\ Top(q) = l)
        BY <1>1, <1>2
    <2> QED BY <1>3, <2>1, <2>2 DEF OwnerHasFile
<1>10. FilesNameOwners'
    <2> SUFFICES ASSUME NEW q \in Proc, NEW l \in Lock, NEW owner \in file'[l],
                        owner.start = start[q], owner.start # NoStart,
                        ~owner.left
                 PROVE  Owns(q, l) /\ ~Released(q, l)'
        BY <1>2 DEF FilesNameOwners
    <2>1. l # Target(p)
        BY <1>3
    <2>2. Owns(q, l) /\ ~Released(q, l)
        BY <1>3, <2>1 DEF FilesNameOwners
    <2> QED BY <1>1, <1>2, <2>2 DEF Released
<1> QED BY <1>4, <1>5, <1>6, <1>7, <1>8, <1>9, <1>10

(* The holder creates the file, still empty, where there is none. *)
LEMMA CreateStep ==
    ASSUME LockInv, NEW p \in Proc, CreatesFile(p)
    PROVE  LockInv'
<1>1. {Unwritten} \in SUBSET Contents /\ AtMostOne({Unwritten})
      /\ \A owner \in {Unwritten} : owner.start = NoStart
    BY DEF Contents, Content, Unwritten, AtMostOne, NoStart
<1> QED BY <1>1, ReplacesFile DEF CreatesFile, WorksOn

(* The lock a process works on leaves its hands, with the file as it was,  *)
(* or with one that names nobody or is marked.                             *)
LEMMA GivesUpTarget ==
    ASSUME LockInv, NEW p \in Proc, WorksOn(p, Target(p)),
           NEW to \in {"sleep", "rm", "idle"}, Goes(p, to),
           to = "rm" => held[p] > 0, to = "idle" => held[p] = 0,
           coordinator' = [coordinator EXCEPT ![Target(p)] = @ \ {p}],
           NEW rest \in SUBSET Contents, AtMostOne(rest),
           file' = [file EXCEPT ![Target(p)] = rest],
           \A owner \in rest : /\ owner.start <= starts
                               /\ \/ owner \in file[Target(p)]
                                  \/ owner.start # NoStart => owner.left,
           UNCHANGED <<held, pid, start, foreign, legacyUp, starts>>
    PROVE  LockInv'
<1> USE DEF LockInv, Goes
<1>1. /\ Target(p) \in Lock /\ ~Owns(p, Target(p)) /\ held[p] < Len(Path(p))
      /\ step[p] \in {"open", "write"}
    BY TargetFacts DEF StepMatchesHeld, WorksOn
<1>2. /\ step'[p] = to /\ \A q \in Proc \ {p} : step'[q] = step[q]
      /\ \A q \in Proc : /\ \A l : Owns(q, l)' <=> Owns(q, l)
                         /\ Target(q)' = Target(q) /\ Top(q)' = Top(q)
    BY SameHeld DEF ProcTypes
<1>3. /\ \A l \in Lock \ {Target(p)} : file'[l] = file[l]
      /\ file'[Target(p)] = rest
    BY <1>1 DEF LockTypes
<1>4. \A l \in Lock : \A owner \in file'[l] :
          /\ owner.start <= starts
          /\ owner \in file[l] \/ (owner.start # NoStart => owner.left)
    BY <1>1, <1>3 DEF StartsInOrder
<1>5. ProcTypes'
    BY DEF ProcTypes, Steps
<1>6. StepMatchesHeld'
    BY <1>1, <1>2 DEF StepMatchesHeld
<1>7. LockTypes'
    <2>1. file' \in [Lock -> SUBSET Contents] /\ \A l \in Lock : AtMostOne(file'[l])
        BY <1>1, <1>3 DEF LockTypes
    <2> QED BY <1>1, <2>1 DEF LockTypes, AtMostOne
<1>8. CoordinatorsAgree'
    <2> SUFFICES ASSUME NEW q \in Proc, NEW l \in Lock
                 PROVE  q \in coordinator'[l] <=> Owns(q, l) \/ WorksOn(q, l)'
        BY <1>2 DEF CoordinatorsAgree
    <2>1. q \in coordinator[l] <=> Owns(q, l) \/ WorksOn(q, l)
        BY DEF CoordinatorsAgree
    <2>2. q \in coordinator'[l]
            <=> q \in coordinator[l] /\ ~(q = p /\ l = Target(p))
        BY <1>1 DEF LockTypes
    <2>3. CASE q = p
        BY <2>1, <2>2, <2>3, <1>1, <1>2 DEF WorksOn
    <2>4. CASE q # p
        BY <2>1, <2>2, <2>4, <1>2 DEF WorksOn
    <2> QED BY <2>3, <2>4
<1>9. StartsInOrder' /\ LegacyPidIsTaken'
    <2>1. \A q \in Proc : Up(q)' <=> Up(q)
        BY <1>1, <1>2 DEF Up
    <2> QED BY <1>4, <2>1 DEF StartsInOrder, LegacyPidIsTaken
<1>10. OwnerHasFile'
    <2> SUFFICES ASSUME NEW q \in Proc, NEW l \in Lock, Owns(q, l),
                        ~(step'[q] = "unlock" /\ Top(q) = l)
                 PROVE  \E owner \in file'[l] : Describes(owner, q)
        BY <1>2 DEF OwnerHasFile, Describes
    <2>1. l # Target(p)
        BY <1>1, HolderIsAlone
    <2>2. ~(step[q] = "unlock" /\ Top(q) = l)
        BY <1>1, <1>2
    <2> QED BY <1>3, <2>1, <2>2 DEF OwnerHasFile
<1>11. FilesNameOwners'
    <2> SUFFICES ASSUME NEW q \in Proc, NEW l \in Lock, NEW owner \in file'[l],
                        owner.start = start[q], owner.start # NoStart,
                        ~owner.left
                 PROVE  Owns(q, l) /\ ~Released(q, l)'
        BY <1>2 DEF FilesNameOwners
    <2>1. Owns(q, l) /\ ~Released(q, l)
        BY <1>4 DEF FilesNameOwners
    <2> QED BY <1>1, <1>2, <2>1 DEF Released
<1> QED BY <1>5, <1>6, <1>7, <1>8, <1>9, <1>10, <1>11

(* The file of another process is removed or respected. *)
LEMMA JudgeStep ==
    ASSUME LockInv, NEW p \in Proc, NEW reads, JudgesFile(p, reads)
    PROVE  LockInv'
<1>0. WorksOn(p, Target(p)) /\ step[p] = "open"
    BY DEF JudgesFile, WorksOn
<1>1. CASE /\ file' = [file EXCEPT ![Target(p)] = {}]
           /\ UNCHANGED <<step, coordinator>>
    <2>1. Goes(p, "open")
        BY <1>0, <1>1 DEF Goes, LockInv, ProcTypes
    <2>2. {} \in SUBSET Contents /\ AtMostOne({})
        BY DEF AtMostOne
    <2>3. UNCHANGED <<held, pid, start, coordinator, foreign, legacyUp, starts>>
        BY <1>1 DEF JudgesFile
    <2> QED BY <1>0, <1>1, <2>1, <2>2, <2>3, ReplacesFile
<1>2. CASE /\ coordinator' = [coordinator EXCEPT ![Target(p)] = @ \ {p}]
           /\ Goes(p, "sleep") /\ UNCHANGED file
    <2>1. file' = [file EXCEPT ![Target(p)] = file[Target(p)]]
        BY <1>2 DEF LockInv, LockTypes
    <2>2. Target(p) \in Lock
        BY <1>0, TargetFacts DEF LockInv, StepMatchesHeld
    <2>3. /\ file[Target(p)] \in SUBSET Contents /\ AtMostOne(file[Target(p)])
          /\ \A owner \in file[Target(p)] : owner.start <= starts
        BY <2>2 DEF LockInv, LockTypes, StartsInOrder
    <2>4. UNCHANGED <<held, pid, start, foreign, legacyUp, starts>>
        BY DEF JudgesFile
    <2> QED BY <1>0, <1>2, <2>1, <2>3, <2>4, GivesUpTarget
<1> QED BY <1>1, <1>2 DEF JudgesFile

(* A failed acquisition gives the lock up and unwinds. *)
LEMMA FailStep ==
    ASSUME LockInv, NEW p \in Proc, AcquisitionFails(p)
    PROVE  LockInv'
<1>0. held[p] \in Nat
    BY DEF LockInv, ProcTypes
<1>1. /\ WorksOn(p, Target(p)) /\ Goes(p, Unwind(p))
      /\ coordinator' = [coordinator EXCEPT ![Target(p)] = @ \ {p}]
      /\ UNCHANGED <<held, pid, start, foreign, legacyUp, starts>>
    BY DEF AcquisitionFails, WorksOn
<1>2. Target(p) \in Lock
    BY <1>1, TargetFacts DEF WorksOn, LockInv, StepMatchesHeld
<1>3. PICK rest \in SUBSET Contents :
          /\ AtMostOne(rest) /\ file' = [file EXCEPT ![Target(p)] = rest]
          /\ \A owner \in rest : /\ owner.start <= starts
                                 /\ \/ owner \in file[Target(p)]
                                    \/ owner.start # NoStart => owner.left
    <2>1. CASE UNCHANGED file
        <3>1. file' = [file EXCEPT ![Target(p)] = file[Target(p)]]
            BY <2>1 DEF LockInv, LockTypes
        <3>2. /\ file[Target(p)] \in SUBSET Contents /\ AtMostOne(file[Target(p)])
              /\ \A owner \in file[Target(p)] : owner.start <= starts
            BY <1>2 DEF LockInv, LockTypes, StartsInOrder
        <3> QED BY <3>1, <3>2
    <2>2. CASE \E rest \in Removed({Unwritten} \cup Payloads(p)) :
                  file' = [file EXCEPT ![Target(p)] = rest]
        <3> DEFINE contents == {Unwritten} \cup Payloads(p)
        <3>1. PICK rest \in Removed(contents) :
                  file' = [file EXCEPT ![Target(p)] = rest]
            BY <2>2
        <3>2. Unwritten \in Contents /\ Unwritten.start = NoStart
            BY DEF Unwritten, Content, Contents, NoStart
        <3>3. \A c \in contents : c \in Contents /\ c.start \in {NoStart, start[p]}
            BY <3>2, PayloadFacts DEF LockInv
        <3>4. \A c \in contents : c.start <= starts
            BY <3>3 DEF LockInv, StartsInOrder, NoStart, ProcTypes
        <3> HIDE DEF contents
        <3>5. contents \in SUBSET Contents
            BY <3>3
        <3>6. /\ rest \in SUBSET Contents /\ AtMostOne(rest)
              /\ \A owner \in rest : /\ \E c \in contents : owner.start = c.start
                                     /\ owner.start # NoStart => owner.left
            BY <3>1, <3>5, RemovedFacts
        <3>7. \A owner \in rest : owner.start <= starts
            BY <3>4, <3>6
        <3> QED BY <3>1, <3>6, <3>7
    <2> QED BY <2>1, <2>2 DEF AcquisitionFails
<1>4. CASE held[p] = 0
    <2>1. Goes(p, "idle")
        BY <1>1, <1>4 DEF Unwind
    <2> QED BY <1>1, <1>3, <1>4, <2>1, GivesUpTarget
<1>5. CASE held[p] > 0
    <2>1. Goes(p, "rm")
        BY <1>0, <1>1, <1>5 DEF Unwind
    <2> QED BY <1>1, <1>3, <1>5, <2>1, GivesUpTarget
<1> QED BY <1>0, <1>4, <1>5

(* The payload makes the process the owner of the lock. *)
LEMMA WriteStep ==
    ASSUME LockInv, NEW p \in Proc, WritesPayload(p)
    PROVE  LockInv'
<1> USE DEF LockInv, Goes
<1>1. /\ Target(p) \in Lock /\ ~Owns(p, Target(p)) /\ held[p] < Len(Path(p))
      /\ step[p] = "write" /\ WorksOn(p, Target(p))
      /\ Len(Path(p)) \in {1, 2} /\ held[p] \in Nat
    BY TargetFacts DEF StepMatchesHeld, WritesPayload, WorksOn
<1>2. PICK content \in Payloads(p) : file' = [file EXCEPT ![Target(p)] = {content}]
    BY DEF WritesPayload
<1>3. /\ content \in Contents /\ Describes(content, p)
      /\ content.start \in {NoStart, start[p]}
    BY PayloadFacts
<1>4. /\ file'[Target(p)] = {content}
      /\ \A l \in Lock \ {Target(p)} : file'[l] = file[l]
    BY <1>1, <1>2 DEF LockTypes
<1>5. /\ held' = [held EXCEPT ![p] = @ + 1] /\ held'[p] = held[p] + 1
      /\ step'[p] \in {"held", "try"}
      /\ step'[p] = "try" => held'[p] < Len(Path(p))
      /\ \A q \in Proc \ {p} : step'[q] = step[q] /\ held'[q] = held[q]
      /\ UNCHANGED <<pid, start, coordinator, foreign, legacyUp, starts>>
    BY <1>1 DEF WritesPayload, ProcTypes
<1>6. \A l \in Lock : Owns(p, l)' <=> Owns(p, l) \/ l = Target(p)
    BY <1>1, <1>5, OwnsOneMore
<1>7. \A q \in Proc \ {p} : /\ \A l : Owns(q, l)' <=> Owns(q, l)
                            /\ Target(q)' = Target(q) /\ Top(q)' = Top(q)
    BY <1>5, SameHeld
<1>8. ProcTypes'
    BY <1>5 DEF ProcTypes, Steps, WritesPayload
<1>9. StepMatchesHeld'
    BY <1>1, <1>5 DEF StepMatchesHeld
<1>10. LockTypes'
    BY <1>1, <1>2, <1>3, <1>4, <1>5 DEF LockTypes, AtMostOne
<1>11. CoordinatorsAgree'
    <2> SUFFICES ASSUME NEW q \in Proc, NEW l \in Lock
                 PROVE  q \in coordinator[l] <=> Owns(q, l)' \/ WorksOn(q, l)'
        BY <1>5 DEF CoordinatorsAgree
    <2>1. q \in coordinator[l] <=> Owns(q, l) \/ WorksOn(q, l)
        BY DEF CoordinatorsAgree
    <2>2. CASE q = p
        BY <2>1, <2>2, <1>1, <1>5, <1>6 DEF WorksOn
    <2>3. CASE q # p
        BY <2>1, <2>3, <1>5, <1>7 DEF WorksOn
    <2> QED BY <2>2, <2>3
<1>12. StartsInOrder' /\ LegacyPidIsTaken'
    <2>1. \A q \in Proc : Up(q)' <=> Up(q)
        BY <1>1, <1>5 DEF Up
    <2>2. content.start <= starts
        BY <1>3 DEF StartsInOrder, NoStart, ProcTypes
    <2>3. \A l \in Lock : \A owner \in file'[l] : owner.start <= starts'
        BY <1>4, <1>5, <2>2 DEF StartsInOrder
    <2> QED BY <1>5, <2>1, <2>3 DEF StartsInOrder, LegacyPidIsTaken
<1>13. OwnerHasFile'
    <2> SUFFICES ASSUME NEW q \in Proc, NEW l \in Lock, Owns(q, l)',
                        ~(step'[q] = "unlock" /\ Top(q)' = l)
                 PROVE  \E owner \in file'[l] : Describes(owner, q)
        BY <1>5 DEF OwnerHasFile, Describes
    <2>1. CASE l = Target(p)
        <3>1. q = p
            BY <1>1, <1>7, <2>1, HolderIsAlone
        <3> QED BY <1>3, <1>4, <2>1, <3>1
    <2>2. CASE l # Target(p)
        <3>1. Owns(q, l) /\ ~(step[q] = "unlock" /\ Top(q) = l)
            BY <1>1, <1>5, <1>6, <1>7, <2>2
        <3> QED BY <1>4, <2>2, <3>1 DEF OwnerHasFile
    <2> QED BY <2>1, <2>2
<1>14. FilesNameOwners'
    <2> SUFFICES ASSUME NEW q \in Proc, NEW l \in Lock, NEW owner \in file'[l],
                        owner.start = start[q], owner.start # NoStart,
                        ~owner.left
                 PROVE  Owns(q, l)' /\ ~Released(q, l)'
        BY <1>5 DEF FilesNameOwners
    <2>1. CASE l = Target(p)
        <3>1. q = p
            BY <1>3, <1>4, <2>1 DEF StartsInOrder
        <3> QED BY <1>5, <1>6, <2>1, <3>1 DEF Released
    <2>2. CASE l # Target(p)
        <3>1. Owns(q, l) /\ ~Released(q, l)
            BY <1>4, <2>2 DEF FilesNameOwners
        <3> QED BY <1>5, <1>6, <1>7, <3>1 DEF Released
    <2> QED BY <2>1, <2>2
<1> QED BY <1>8, <1>9, <1>10, <1>11, <1>12, <1>13, <1>14

-----------------------------------------------------------------------------
(* Release, death and start of a process. *)

(* The file of the last lock is removed by its owner, if it can be. *)
LEMMA ReleaseFileStep ==
    ASSUME LockInv, NEW p \in Proc, ReleasesFirst(p)
    PROVE  LockInv'
<1> USE DEF LockInv, Goes
<1>0. PICK rest \in Removed(file[Top(p)]) : file' = [file EXCEPT ![Top(p)] = rest]
    BY DEF ReleasesFirst, GivesBack, ReleaseOrder
<1>1. Top(p) \in Lock /\ Owns(p, Top(p)) /\ held[p] > 0 /\ step[p] = "rm"
    BY TargetFacts DEF StepMatchesHeld, ReleasesFirst
<1>2. /\ coordinator' = coordinator
      /\ UNCHANGED <<held, pid, start, foreign, legacyUp, starts>>
    BY DEF ReleasesFirst, GivesBack, ReleaseOrder
<1>3. /\ step'[p] = "unlock" /\ \A q \in Proc \ {p} : step'[q] = step[q]
      /\ \A q \in Proc : /\ \A l : Owns(q, l)' <=> Owns(q, l)
                         /\ Target(q)' = Target(q) /\ Top(q)' = Top(q)
    BY <1>2, SameHeld DEF ProcTypes, ReleasesFirst
<1>4. /\ rest \in SUBSET Contents /\ AtMostOne(rest)
      /\ \A owner \in rest : /\ \E c \in file[Top(p)] : owner.start = c.start
                             /\ owner.start # NoStart => owner.left
      /\ file'[Top(p)] = rest
      /\ \A l \in Lock \ {Top(p)} : file'[l] = file[l]
    <2>1. file[Top(p)] \in SUBSET Contents
        BY <1>1 DEF LockTypes
    <2> QED BY <1>1, <1>0, <2>1, RemovedFacts DEF LockTypes
<1>5. ProcTypes'
    BY <1>2 DEF ProcTypes, Steps, ReleasesFirst
<1>6. StepMatchesHeld'
    BY <1>1, <1>2, <1>3 DEF StepMatchesHeld
<1>7. LockTypes'
    <2>1. file' \in [Lock -> SUBSET Contents] /\ \A l \in Lock : AtMostOne(file'[l])
        BY <1>0, <1>1, <1>4 DEF LockTypes
    <2> QED BY <1>2, <2>1 DEF LockTypes, AtMostOne
<1>8. CoordinatorsAgree'
    BY <1>1, <1>2, <1>3 DEF CoordinatorsAgree, WorksOn
<1>9. StartsInOrder' /\ LegacyPidIsTaken'
    <2>1. \A q \in Proc : Up(q)' <=> Up(q)
        BY <1>1, <1>3 DEF Up
    <2>2. \A l \in Lock : \A owner \in file'[l] : owner.start <= starts'
        BY <1>1, <1>2, <1>4 DEF StartsInOrder
    <2> QED BY <1>2, <2>1, <2>2 DEF StartsInOrder, LegacyPidIsTaken
<1>10. OwnerHasFile'
    <2> SUFFICES ASSUME NEW q \in Proc, NEW l \in Lock, Owns(q, l),
                        ~(step'[q] = "unlock" /\ Top(q) = l)
                 PROVE  \E owner \in file'[l] : Describes(owner, q)
        BY <1>2, <1>3 DEF OwnerHasFile, Describes
    <2>1. l # Top(p)
        BY <1>1, <1>3, HolderIsAlone
    <2>2. ~(step[q] = "unlock" /\ Top(q) = l)
        BY <1>1, <1>3
    <2> QED BY <1>4, <2>1, <2>2 DEF OwnerHasFile
<1>11. FilesNameOwners'
    <2> SUFFICES ASSUME NEW q \in Proc, NEW l \in Lock, NEW owner \in file'[l],
                        owner.start = start[q], owner.start # NoStart,
                        ~owner.left
                 PROVE  Owns(q, l) /\ ~Released(q, l)'
        BY <1>2, <1>3 DEF FilesNameOwners
    <2>1. l # Top(p)
        BY <1>4
    <2>2. Owns(q, l) /\ ~Released(q, l)
        BY <1>4, <2>1 DEF FilesNameOwners
    <2> QED BY <1>3, <2>1, <2>2 DEF Released
<1> QED BY <1>5, <1>6, <1>7, <1>8, <1>9, <1>10, <1>11

(* Its coordinator follows, and the process has one lock less. *)
LEMMA ReleaseCoordinatorStep ==
    ASSUME LockInv, NEW p \in Proc, ReleasesSecond(p)
    PROVE  LockInv'
<1> USE DEF LockInv, Goes
<1>1. /\ Top(p) \in Lock /\ Owns(p, Top(p)) /\ held[p] > 0 /\ step[p] = "unlock"
      /\ held[p] \in Nat /\ held[p] <= Len(Path(p)) /\ Len(Path(p)) \in {1, 2}
    BY TargetFacts DEF StepMatchesHeld, ReleasesSecond
<1>2. /\ coordinator' = [coordinator EXCEPT ![Top(p)] = @ \ {p}] /\ file' = file
      /\ held' = [held EXCEPT ![p] = @ - 1] /\ held'[p] = held[p] - 1
      /\ UNCHANGED <<pid, start, foreign, legacyUp, starts>>
    BY <1>1 DEF ReleasesSecond, GivesBack, ReleaseOrder, ProcTypes
<1>3. /\ step'[p] = (IF held[p] = 1 THEN "idle" ELSE "rm")
      /\ \A q \in Proc \ {p} : step'[q] = step[q] /\ held'[q] = held[q]
    BY <1>2 DEF ReleasesSecond, ProcTypes
<1>4. \A l \in Lock : Owns(p, l)' <=> Owns(p, l) /\ l # Top(p)
    BY <1>1, <1>2, OwnsOneLess
<1>5. \A q \in Proc \ {p} : /\ \A l : Owns(q, l)' <=> Owns(q, l)
                            /\ Target(q)' = Target(q) /\ Top(q)' = Top(q)
    BY <1>3, SameHeld
<1>6. ProcTypes'
    BY <1>1, <1>2, <1>3 DEF ProcTypes, Steps, ReleasesSecond
<1>7. StepMatchesHeld'
    BY <1>1, <1>2, <1>3 DEF StepMatchesHeld
<1>8. LockTypes'
    BY <1>1, <1>2 DEF LockTypes, AtMostOne
<1>9. CoordinatorsAgree'
    <2> SUFFICES ASSUME NEW q \in Proc, NEW l \in Lock
                 PROVE  q \in coordinator'[l] <=> Owns(q, l)' \/ WorksOn(q, l)'
        BY DEF CoordinatorsAgree
    <2>1. q \in coordinator[l] <=> Owns(q, l) \/ WorksOn(q, l)
        BY DEF CoordinatorsAgree
    <2>2. q \in coordinator'[l]
            <=> q \in coordinator[l] /\ ~(q = p /\ l = Top(p))
        BY <1>1, <1>2 DEF LockTypes
    <2>3. CASE q = p
        BY <2>1, <2>2, <2>3, <1>1, <1>3, <1>4 DEF WorksOn
    <2>4. CASE q # p
        BY <2>1, <2>2, <2>4, <1>3, <1>5 DEF WorksOn
    <2> QED BY <2>3, <2>4
<1>10. StartsInOrder' /\ LegacyPidIsTaken'
    <2>1. \A q \in Proc : Up(q)' <=> Up(q)
        BY <1>1, <1>3 DEF Up
    <2> QED BY <1>2, <2>1 DEF StartsInOrder, LegacyPidIsTaken
<1>11. OwnerHasFile'
    <2> SUFFICES ASSUME NEW q \in Proc, NEW l \in Lock, Owns(q, l)',
                        ~(step'[q] = "unlock" /\ Top(q)' = l)
                 PROVE  \E owner \in file[l] : Describes(owner, q)
        BY <1>2 DEF OwnerHasFile, Describes
    <2>1. Owns(q, l) /\ ~(step[q] = "unlock" /\ Top(q) = l)
        BY <1>3, <1>4, <1>5
    <2> QED BY <2>1 DEF OwnerHasFile
<1>12. FilesNameOwners'
    <2> SUFFICES ASSUME NEW q \in Proc, NEW l \in Lock, NEW owner \in file[l],
                        owner.start = start[q], owner.start # NoStart,
                        ~owner.left
                 PROVE  Owns(q, l)' /\ ~Released(q, l)'
        BY <1>2 DEF FilesNameOwners
    <2>1. Owns(q, l) /\ ~Released(q, l)
        BY DEF FilesNameOwners
    <2> QED BY <1>1, <1>3, <1>4, <1>5, <2>1 DEF Released
<1> QED BY <1>6, <1>7, <1>8, <1>9, <1>10, <1>11, <1>12

(* A process that dies leaves its files behind and nothing else. *)
LEMMA DieStep ==
    ASSUME LockInv, NEW p \in Proc, Dies(p)
    PROVE  LockInv'
<1> USE DEF LockInv, Goes, Dies
<1>0. \A l \in Lock : \A c \in file[l] :
          /\ WithoutHistory(p, c) \in Contents
          /\ WithoutHistory(p, c).pid = c.pid /\ WithoutHistory(p, c).start = c.start
          /\ c.start # start[p] => WithoutHistory(p, c).left = c.left
    <2> SUFFICES ASSUME NEW l \in Lock, NEW c \in file[l]
                 PROVE  /\ WithoutHistory(p, c) \in Contents
                        /\ WithoutHistory(p, c).pid = c.pid
                        /\ WithoutHistory(p, c).start = c.start
                        /\ c.start # start[p] => WithoutHistory(p, c).left = c.left
        OBVIOUS
    <2>1. c \in Contents
        BY DEF LockTypes
    <2> QED BY <2>1 DEF WithoutHistory, Contents
<1>1. /\ step'[p] = "down" /\ held'[p] = 0 /\ pid'[p] = NoPid /\ start'[p] = NoStart
      /\ \A q \in Proc \ {p} : /\ step'[q] = step[q] /\ held'[q] = held[q]
                               /\ pid'[q] = pid[q] /\ start'[q] = start[q]
    BY DEF ProcTypes
<1>2. \A q \in Proc \ {p} : /\ \A l : Owns(q, l)' <=> Owns(q, l)
                            /\ Target(q)' = Target(q) /\ Top(q)' = Top(q)
    BY <1>1, SameHeld
<1>3. \A l : ~Owns(p, l)'
    BY <1>1 DEF Owns
<1>4. ProcTypes'
    BY DEF ProcTypes, Steps, NoStart
<1>5. StepMatchesHeld'
    <2>1. Len(Path(p)) \in {1, 2}
        BY PathFacts
    <2> QED BY <1>1, <2>1 DEF StepMatchesHeld
<1>6. LockTypes'
    <2>1. file' \in [Lock -> SUBSET Contents]
        BY <1>0
    <2>2. \A l \in Lock : AtMostOne(file'[l])
        BY DEF LockTypes, AtMostOne
    <2> QED BY <2>1, <2>2 DEF LockTypes, AtMostOne
<1>7. CoordinatorsAgree'
    <2> SUFFICES ASSUME NEW q \in Proc, NEW l \in Lock
                 PROVE  q \in coordinator'[l] <=> Owns(q, l)' \/ WorksOn(q, l)'
        BY DEF CoordinatorsAgree
    <2>1. q \in coordinator[l] <=> Owns(q, l) \/ WorksOn(q, l)
        BY DEF CoordinatorsAgree
    <2>2. q \in coordinator'[l] <=> q \in coordinator[l] /\ q # p
        BY DEF LockTypes
    <2>3. CASE q = p
        BY <2>2, <2>3, <1>1, <1>3 DEF WorksOn
    <2>4. CASE q # p
        BY <2>1, <2>2, <2>4, <1>1, <1>2 DEF WorksOn
    <2> QED BY <2>3, <2>4
<1>8. StartsInOrder'
    <2>1. \A q \in Proc : start'[q] <= starts' /\ (start'[q] = NoStart <=> ~Up(q)')
        BY <1>1 DEF StartsInOrder, Up, NoStart, ProcTypes
    <2>2. \A q, r \in Proc : start'[q] = start'[r] /\ start'[q] # NoStart => q = r
        BY <1>1 DEF StartsInOrder
    <2>3. \A l \in Lock : \A owner \in file'[l] : owner.start <= starts'
        BY <1>0 DEF StartsInOrder
    <2> QED BY <2>1, <2>2, <2>3 DEF StartsInOrder
<1>9. LegacyPidIsTaken'
    BY <1>1 DEF LegacyPidIsTaken
<1>10. OwnerHasFile'
    <2> SUFFICES ASSUME NEW q \in Proc, NEW l \in Lock, Owns(q, l)',
                        ~(step'[q] = "unlock" /\ Top(q)' = l)
                 PROVE  \E owner \in file'[l] : Describes(owner, q)'
        BY DEF OwnerHasFile
    <2>1. q # p /\ Owns(q, l) /\ ~(step[q] = "unlock" /\ Top(q) = l)
        BY <1>1, <1>2, <1>3
    <2>2. PICK c \in file[l] : Describes(c, q)
        BY <2>1 DEF OwnerHasFile
    <2>3. WithoutHistory(p, c) \in file'[l]
        OBVIOUS
    <2> QED BY <1>0, <1>1, <2>1, <2>2, <2>3 DEF Describes
<1>11. FilesNameOwners'
    <2> SUFFICES ASSUME NEW q \in Proc, NEW l \in Lock, NEW owner \in file'[l],
                        owner.start = start'[q], owner.start # NoStart, ~owner.left
                 PROVE  Owns(q, l)' /\ ~Released(q, l)'
        BY DEF FilesNameOwners
    <2>1. q # p /\ start'[q] = start[q]
        BY <1>1
    <2>2. PICK c \in file[l] : owner = WithoutHistory(p, c)
        OBVIOUS
    <2>3. c.start = start[q] /\ c.start # start[p] /\ ~c.left
        BY <1>0, <2>1, <2>2 DEF StartsInOrder
    <2>4. Owns(q, l) /\ ~Released(q, l)
        BY <2>2, <2>3 DEF FilesNameOwners
    <2> QED BY <1>1, <1>2, <2>1, <2>4 DEF Released
<1> QED BY <1>4, <1>5, <1>6, <1>7, <1>8, <1>9, <1>10, <1>11

(* A new process has a new start time and an id that is not in use. *)
LEMMA StartStep ==
    ASSUME LockInv, NEW p \in Proc, NEW i \in Pid, Starts(p, i)
    PROVE  LockInv'
<1> USE DEF LockInv, Goes, Starts
<1>1. /\ step'[p] = "try" /\ held[p] = 0 /\ pid'[p] = i /\ start'[p] = starts + 1
      /\ \A q \in Proc \ {p} : /\ step'[q] = step[q]
                               /\ pid'[q] = pid[q] /\ start'[q] = start[q]
    BY DEF ProcTypes, StepMatchesHeld
<1>2. \A q \in Proc : /\ \A l : Owns(q, l)' <=> Owns(q, l)
                      /\ Target(q)' = Target(q) /\ Top(q)' = Top(q)
    BY SameHeld
<1>3. \A l \in Lock : ~Owns(p, l)
    BY <1>1, TargetFacts
<1>4. ProcTypes'
    BY DEF ProcTypes, Steps
<1>5. StepMatchesHeld'
    <2> SUFFICES ASSUME NEW q \in Proc
                 PROVE  /\ held[q] <= Len(Path(q))
                        /\ step'[q] \in {"try", "sleep", "open", "write"}
                             => held[q] < Len(Path(q))
                        /\ step'[q] \in {"held", "rm", "unlock"} => held[q] > 0
                        /\ step'[q] \in {"down", "idle"} => held[q] = 0
        BY DEF StepMatchesHeld
    <2>1. CASE q = p
        <3>1. held[q] = 0 /\ step'[q] = "try"
            BY <1>1, <2>1
        <3> HIDE DEF LockInv, Starts, Goes
        <3> QED BY <3>1, PathIsNotEmpty
    <2>2. CASE q # p
        <3>1. step'[q] = step[q] /\ StepMatchesHeld
            BY <1>1, <2>2
        <3> HIDE DEF LockInv, Starts
        <3> QED BY <3>1 DEF StepMatchesHeld
    <2> QED BY <2>1, <2>2
<1>6. LockTypes'
    BY DEF LockTypes
<1>7. CoordinatorsAgree'
    BY <1>1, <1>2 DEF CoordinatorsAgree, WorksOn
<1>8. StartsInOrder'
    <2>1. \A q \in Proc : start[q] \in Nat /\ start[q] <= starts /\ starts \in Nat
        BY DEF StartsInOrder, ProcTypes
    <2>2. \A q \in Proc : start'[q] <= starts' /\ (start'[q] = NoStart <=> ~Up(q)')
        BY <1>1, <2>1 DEF StartsInOrder, Up, NoStart
    <2>3. \A q, r \in Proc : start'[q] = start'[r] /\ start'[q] # NoStart => q = r
        BY <1>1, <2>1 DEF StartsInOrder
    <2>4. \A l \in Lock : \A owner \in file[l] :
              owner.start \in Nat /\ owner.start <= starts + 1
        BY <2>1 DEF StartsInOrder, LockTypes, Contents, ProcTypes
    <2>5. file' = file /\ starts' = starts + 1
        OBVIOUS
    <2> QED BY <2>2, <2>3, <2>4, <2>5 DEF StartsInOrder
<1>9. LegacyPidIsTaken'
    BY <1>1 DEF LegacyPidIsTaken, IsPidAlive
<1>10. OwnerHasFile'
    <2> SUFFICES ASSUME NEW q \in Proc, NEW l \in Lock, Owns(q, l),
                        ~(step'[q] = "unlock" /\ Top(q) = l)
                 PROVE  \E owner \in file[l] : Describes(owner, q)'
        BY <1>2 DEF OwnerHasFile
    <2>1. q # p /\ ~(step[q] = "unlock" /\ Top(q) = l)
        BY <1>1, <1>3
    <2>2. \E owner \in file[l] : Describes(owner, q)
        BY <2>1 DEF OwnerHasFile
    <2> QED BY <1>1, <2>1, <2>2 DEF Describes
<1>11. FilesNameOwners'
    <2> SUFFICES ASSUME NEW q \in Proc, NEW l \in Lock, NEW owner \in file[l],
                        owner.start = start'[q], owner.start # NoStart,
                        ~owner.left
                 PROVE  Owns(q, l) /\ ~Released(q, l)'
        BY <1>2 DEF FilesNameOwners
    <2>1. q # p
        BY <1>1 DEF StartsInOrder, ProcTypes, LockTypes, Contents
    <2> QED BY <1>1, <1>2, <2>1 DEF FilesNameOwners, Released
<1> QED BY <1>4, <1>5, <1>6, <1>7, <1>8, <1>9, <1>10, <1>11

-----------------------------------------------------------------------------
(* The system around. *)

(* A step that leaves the processes alone keeps what concerns them. *)
LEMMA Surroundings ==
    ASSUME LockInv, UNCHANGED <<step, held, pid, start, coordinator, starts>>,
           legacyUp' \in BOOLEAN, foreign' \subseteq Pid \cup {LegacyPid},
           legacyUp' => legacyUp
    PROVE  /\ ProcTypes' /\ StepMatchesHeld' /\ CoordinatorsAgree'
           /\ LegacyPidIsTaken'
           /\ \A p \in Proc : Up(p)' <=> Up(p)
           /\ \A p \in Proc : /\ \A l : Owns(p, l)' <=> Owns(p, l)
                              /\ Target(p)' = Target(p) /\ Top(p)' = Top(p)
<1> USE DEF LockInv
<1>1. \A p \in Proc : /\ \A l : Owns(p, l)' <=> Owns(p, l)
                      /\ Target(p)' = Target(p) /\ Top(p)' = Top(p)
    BY SameHeld
<1>2. ProcTypes' /\ StepMatchesHeld' /\ LegacyPidIsTaken'
    BY DEF ProcTypes, StepMatchesHeld, LegacyPidIsTaken
<1>3. CoordinatorsAgree'
    BY <1>1 DEF CoordinatorsAgree, WorksOn
<1> QED BY <1>1, <1>2, <1>3 DEF Up

(* Another program gets or loses a process id. *)
LEMMA ForeignStep ==
    ASSUME LockInv, NEW i \in Pid \cup {LegacyPid}, ForeignPid(i)
    PROVE  LockInv'
<1>1. /\ UNCHANGED <<step, held, pid, start, coordinator, file, legacyUp, starts>>
      /\ foreign' \subseteq Pid \cup {LegacyPid} /\ legacyUp' \in BOOLEAN
    BY DEF ForeignPid, LockInv, ProcTypes
<1>2. /\ ProcTypes' /\ StepMatchesHeld' /\ CoordinatorsAgree' /\ LegacyPidIsTaken'
      /\ \A p \in Proc : Up(p)' <=> Up(p)
      /\ \A p \in Proc : /\ \A l : Owns(p, l)' <=> Owns(p, l)
                         /\ Target(p)' = Target(p) /\ Top(p)' = Top(p)
    BY <1>1, Surroundings
<1>3. LockTypes' /\ StartsInOrder'
    BY <1>1, <1>2 DEF LockInv, LockTypes, StartsInOrder
<1>4. OwnerHasFile' /\ FilesNameOwners'
    BY <1>1, <1>2 DEF LockInv, OwnerHasFile, Describes, FilesNameOwners, Released
<1> QED BY <1>2, <1>3, <1>4 DEF LockInv

(* The older gateway's exit removes no file but its own. *)
LEMMA LegacyStep ==
    ASSUME LockInv, LegacyDies
    PROVE  LockInv'
<1>1. /\ UNCHANGED <<step, held, pid, start, coordinator, foreign, starts>>
      /\ foreign' \subseteq Pid \cup {LegacyPid} /\ legacyUp /\ legacyUp' = FALSE
    BY DEF LegacyDies, LockInv, ProcTypes
<1>2. /\ ProcTypes' /\ StepMatchesHeld' /\ CoordinatorsAgree' /\ LegacyPidIsTaken'
      /\ \A p \in Proc : Up(p)' <=> Up(p)
      /\ \A p \in Proc : /\ \A l : Owns(p, l)' <=> Owns(p, l)
                         /\ Target(p)' = Target(p) /\ Top(p)' = Top(p)
    BY <1>1, Surroundings
<1>3. LegacyLock \in Lock
    BY DEF LegacyLock, Lock
<1>4. ASSUME NEW l \in Lock
      PROVE  file'[l] = file[l] \/ (file'[l] = {} /\ file[l] = {LegacyPayload})
    BY <1>3 DEF LegacyDies, LegacyLock, LockInv, LockTypes
<1>5. LockTypes'
    <2>1. file' \in [Lock -> SUBSET Contents]
        BY <1>3 DEF LegacyDies, LegacyLock, LockInv, LockTypes
    <2> QED BY <1>1, <1>4, <2>1 DEF LockInv, LockTypes, AtMostOne
<1>6. StartsInOrder'
    BY <1>1, <1>2, <1>4 DEF LockInv, StartsInOrder
<1>7. OwnerHasFile'
    <2> SUFFICES ASSUME NEW q \in Proc, NEW l \in Lock, Owns(q, l),
                        ~(step[q] = "unlock" /\ Top(q) = l)
                 PROVE  \E owner \in file'[l] : Describes(owner, q)
        BY <1>1, <1>2 DEF OwnerHasFile, Describes
    <2>1. PICK owner \in file[l] : Describes(owner, q)
        BY DEF LockInv, OwnerHasFile
    <2>2. owner # LegacyPayload
        BY <1>1, <2>1 DEF LockInv, LegacyPidIsTaken, Describes, LegacyPayload,
                          Content
    <2> QED BY <1>4, <2>1, <2>2
<1>8. FilesNameOwners'
    BY <1>1, <1>2, <1>4 DEF LockInv, FilesNameOwners, Released
<1> QED BY <1>2, <1>5, <1>6, <1>7, <1>8 DEF LockInv

(* A file gets old. *)
LEMMA AgeStep ==
    ASSUME LockInv, NEW k \in Lock, FileAges(k)
    PROVE  LockInv'
<1>1. /\ UNCHANGED <<step, held, pid, start, coordinator, foreign, legacyUp, starts>>
      /\ foreign' \subseteq Pid \cup {LegacyPid} /\ legacyUp' \in BOOLEAN
    BY DEF FileAges, LockInv, ProcTypes
<1>2. /\ ProcTypes' /\ StepMatchesHeld' /\ CoordinatorsAgree' /\ LegacyPidIsTaken'
      /\ \A p \in Proc : Up(p)' <=> Up(p)
      /\ \A p \in Proc : /\ \A l : Owns(p, l)' <=> Owns(p, l)
                         /\ Target(p)' = Target(p) /\ Top(p)' = Top(p)
    BY <1>1, Surroundings
<1>3. PICK owner \in file[k] :
          file' = [file EXCEPT ![k] = {[owner EXCEPT !.old = TRUE]}]
    BY DEF FileAges
<1> DEFINE aged == [owner EXCEPT !.old = TRUE]
<1>4. /\ aged \in Contents /\ aged.pid = owner.pid /\ aged.start = owner.start
      /\ aged.role = owner.role /\ aged.left = owner.left
    <2>1. owner \in Contents
        BY DEF LockInv, LockTypes
    <2> QED BY <2>1 DEF Contents
<1> HIDE DEF aged
<1>5. /\ file'[k] = {aged} /\ file[k] = {owner}
      /\ \A l \in Lock \ {k} : file'[l] = file[l]
    BY <1>3 DEF LockInv, LockTypes, AtMostOne, aged
<1>6. LockTypes'
    <2>1. file' \in [Lock -> SUBSET Contents]
        BY <1>3, <1>4 DEF LockInv, LockTypes, aged
    <2> QED BY <1>1, <1>5, <2>1 DEF LockInv, LockTypes, AtMostOne
<1>7. StartsInOrder'
    BY <1>1, <1>2, <1>4, <1>5 DEF LockInv, StartsInOrder
<1>8. OwnerHasFile'
    BY <1>1, <1>2, <1>4, <1>5 DEF LockInv, OwnerHasFile, Describes
<1>9. FilesNameOwners'
    BY <1>1, <1>2, <1>4, <1>5 DEF LockInv, FilesNameOwners, Released
<1> QED BY <1>2, <1>6, <1>7, <1>8, <1>9 DEF LockInv

-----------------------------------------------------------------------------
(* No process runs at first. *)
LEMMA LockInit == Init => LockInv
<1> SUFFICES ASSUME Init PROVE LockInv
    OBVIOUS
<1> USE DEF Init
<1>1. ProcTypes
    BY DEF ProcTypes, Steps, NoStart
<1>2. StepMatchesHeld
    <2>1. \A p \in Proc : Len(Path(p)) \in {1, 2}
        BY PathFacts
    <2> QED BY <2>1 DEF StepMatchesHeld
<1>3. \A p \in Proc : \A l : ~Owns(p, l)
    BY DEF Owns
<1>4. LegacyPayload \in Contents /\ LegacyPayload.start = NoStart
    BY DEF Contents, Content, LegacyPayload, NoStart
<1>5. \A l \in Lock : file[l] \in SUBSET Contents /\ AtMostOne(file[l])
                      /\ \A owner \in file[l] : owner.start = NoStart
    BY <1>4 DEF AtMostOne
<1>6. LockTypes
    <2>1. file \in [Lock -> SUBSET Contents]
        BY <1>5
    <2> QED BY <1>5, <2>1 DEF LockTypes, AtMostOne
<1>7. CoordinatorsAgree
    BY <1>3 DEF CoordinatorsAgree, WorksOn
<1>8. StartsInOrder
    BY <1>5 DEF StartsInOrder, Up, NoStart
<1>9. LegacyPidIsTaken
    BY DEF LegacyPidIsTaken
<1>10. OwnerHasFile /\ FilesNameOwners
    BY <1>3, <1>5 DEF OwnerHasFile, FilesNameOwners
<1> QED BY <1>1, <1>2, <1>6, <1>7, <1>8, <1>9, <1>10 DEF LockInv

(* Every step keeps the invariant. *)
LEMMA LockStep == LockInv /\ [Next]_vars => LockInv'
<1> SUFFICES ASSUME LockInv, [Next]_vars PROVE LockInv'
    OBVIOUS
<1>1. ASSUME NEW p \in Proc, Runs(p) PROVE LockInv'
    BY <1>1, WaitingSteps, TryStep, CreateStep, JudgeStep, WriteStep,
       ReleaseFileStep, ReleaseCoordinatorStep DEF Runs
<1>2. ASSUME NEW p \in Proc,
             WakesUp(p) \/ LockTimesOut(p) \/ AcquisitionFails(p) \/ Releases(p)
      PROVE  LockInv'
    BY <1>2, WaitingSteps, FailStep
<1>3. CASE UNCHANGED vars
    <2>1. /\ UNCHANGED <<step, held, pid, start, coordinator, starts>>
          /\ UNCHANGED <<file, foreign, legacyUp>>
        BY <1>3 DEF vars
    <2>2. legacyUp' \in BOOLEAN /\ foreign' \subseteq Pid \cup {LegacyPid}
        BY <2>1 DEF LockInv, ProcTypes
    <2>3. /\ ProcTypes' /\ StepMatchesHeld' /\ CoordinatorsAgree'
          /\ LegacyPidIsTaken' /\ \A p \in Proc : Up(p)' <=> Up(p)
          /\ \A p \in Proc : /\ \A l : Owns(p, l)' <=> Owns(p, l)
                             /\ Target(p)' = Target(p) /\ Top(p)' = Top(p)
        BY <2>1, <2>2, Surroundings
    <2>4. LockTypes' /\ StartsInOrder'
        BY <2>1, <2>3 DEF LockInv, LockTypes, StartsInOrder
    <2>5. OwnerHasFile' /\ FilesNameOwners'
        BY <2>1, <2>3 DEF LockInv, OwnerHasFile, Describes, FilesNameOwners,
                          Released
    <2> QED BY <2>3, <2>4, <2>5 DEF LockInv
<1> QED BY <1>1, <1>2, <1>3, DieStep, StartStep, LegacyStep, ForeignStep, AgeStep
        DEF Next

(* The inductive invariant holds whatever starts, dies and reuses ids. *)
THEOREM LockInvariant == Spec => []LockInv
BY LockInit, LockStep, PTL DEF Spec

-----------------------------------------------------------------------------
(* No two processes work on the same state directory, nor without the      *)
(* override on the same configuration: the coordinator's transaction       *)
(* outlives every judgement of the lock file.                              *)
NobodyShares ==
    \A p, q \in Proc : p # q => \A l \in Lock : ~(Owns(p, l) /\ Owns(q, l))

(* Two processes never own the same lock, whatever is unreadable and       *)
(* however process ids are reused (tryAcquireGatewayLockCoordinator).      *)
THEOREM NobodyEverShares == Spec => []NobodyShares
<1>1. LockInv => NobodyShares
    BY HolderIsAlone DEF NobodyShares
<1> QED BY LockInvariant, <1>1, PTL

(* A set of at most one element is finite. *)
LEMMA AtMostOneIsFinite ==
    ASSUME NEW S, AtMostOne(S)
    PROVE  Cardinality(S) <= 1
<1>1. CASE S = {}
    BY <1>1, FS_EmptySet
<1>2. CASE S # {}
    <2> PICK x \in S : TRUE
        BY <1>2
    <2>1. S = {x}
        BY DEF AtMostOne
    <2>2. Cardinality({x}) = 1
        BY FS_Singleton
    <2> QED BY <2>1, <2>2
<1> QED BY <1>1, <1>2

(* An owner's file is there until the owner removes it; a process whose    *)
(* start failed or that released has no transaction left, and no file      *)
(* names it but one it could not remove; and the port a reader is given is *)
(* served by the lock's owner, or is that of such a process                *)
(* (gateway-lock.ts:189-311, :375, :498-548).                              *)
THEOREM FilesAlwaysMatchOwners == Spec => []FilesMatchOwners
<1>1. LockInv => FilesMatchOwners
    <2> SUFFICES ASSUME LockInv PROVE FilesMatchOwners
        OBVIOUS
    <2> USE DEF LockInv
    <2>1. TypeOK
        <3>1. \A l \in Lock : /\ Cardinality(coordinator[l]) <= 1
                              /\ Cardinality(file[l]) <= 1
            BY AtMostOneIsFinite DEF LockTypes
        <3>2. ASSUME NEW p \in Proc
              PROVE  /\ held[p] \in 0..Len(Path(p))
                     /\ step[p] \in {"try", "sleep", "open", "write"}
                          => held[p] < Len(Path(p))
                     /\ step[p] \in {"rm", "unlock"} => held[p] > 0
                     /\ (held[p] > 0) => Up(p)
            <4>1. held[p] \in Nat /\ Len(Path(p)) \in {1, 2}
                BY TargetFacts
            <4> QED BY <4>1 DEF StepMatchesHeld, Up
        <3> QED BY <3>1, <3>2 DEF TypeOK, ProcTypes
    <2>2. FailureLeavesNothing
        <3> SUFFICES ASSUME NEW p \in Proc, step[p] = "idle", NEW l \in Lock
                     PROVE  /\ p \notin coordinator[l]
                            /\ \A owner \in file[l] :
                                  owner.start = start[p] => owner.left
            BY DEF FailureLeavesNothing
        <3>1. held[p] = 0
            BY DEF StepMatchesHeld
        <3>2. ~Owns(p, l) /\ ~WorksOn(p, l)
            BY <3>1, TargetFacts DEF WorksOn
        <3>3. start[p] # NoStart
            BY DEF StartsInOrder, Up
        <3> QED BY <3>2, <3>3 DEF CoordinatorsAgree, FilesNameOwners
    <2>3. ReportedPortIsServed
        <3> SUFFICES ASSUME NEW l \in Lock, NEW owner \in file[l],
                            owner.start # NoStart,
                            ResolveGatewayOwnerStatus(owner, AllRead, FALSE) = "alive"
                     PROVE  \E p \in Proc : /\ Describes(owner, p)
                                             /\ (Owns(p, l) \/ owner.left)
            BY DEF ReportedPortIsServed
        <3>0. AllRead.start
            BY DEF AllRead
        <3>1. owner.pid # NoPid /\ IsPidAlive(owner.pid)
            BY DEF ResolveGatewayOwnerStatus
        <3>2. \E p \in WithPid(owner.pid) : start[p] = owner.start
            BY <3>0, <3>1 DEF ResolveGatewayOwnerStatus
        <3>3. PICK p \in Proc : pid[p] = owner.pid /\ start[p] = owner.start
            BY <3>2 DEF WithPid
        <3> QED BY <3>3 DEF FilesNameOwners, Describes
    <2> QED BY <2>1, <2>2, <2>3 DEF FilesMatchOwners
<1> QED BY LockInvariant, <1>1, PTL

-----------------------------------------------------------------------------
(* The older gateway: where a command line that cannot be read counts as   *)
(* alive, or can always be read, its file is never judged stale.           *)
Inspectable == Platform # "linux" \/ ~ReadsMayFail

(* The file of a running older gateway is never one to remove. *)
LEMMA LegacyFileStays ==
    ASSUME Inspectable, legacyUp, NEW owner, owner.pid = LegacyPid,
           owner.start = NoStart, owner.role = "gateway",
           NEW reads \in PossibleReads
    PROVE  ~MayRemove(ResolveGatewayOwnerStatus(owner, reads, TRUE), owner)
<1>1. owner.pid # NoPid /\ IsPidAlive(owner.pid)
    BY DEF IsPidAlive
<1>2. CmdlineRole(owner.pid, owner.role)
    BY DEF CmdlineRole
<1>3. reads.cmdline \in BOOLEAN /\ (~reads.cmdline => Platform # "linux")
    <2>1. CASE ReadsMayFail
        BY <2>1 DEF PossibleReads, Reads, Inspectable
    <2>2. CASE ~ReadsMayFail
        <3>1. reads = AllRead
            BY <2>2 DEF PossibleReads
        <3>2. AllRead.cmdline = TRUE
            BY DEF AllRead
        <3> QED BY <3>1, <3>2
    <2> QED BY <2>1, <2>2
<1>4. ResolveGatewayOwnerStatus(owner, reads, TRUE) = "alive"
    BY <1>1, <1>2, <1>3 DEF ResolveGatewayOwnerStatus
<1> QED BY <1>4 DEF MayRemove

(* Every step respects a running older gateway. *)
LEMMA LegacyGuardedStep ==
    ASSUME Inspectable, LockInv, LegacyGuarded, [Next]_vars
    PROVE  LegacyGuarded'
<1> DEFINE Names(owner) == owner.pid = LegacyPid /\ owner.start = NoStart
                           /\ owner.role = "gateway"
<1> SUFFICES ASSUME legacyUp'
             PROVE  /\ \E owner \in file'[LegacyLock] : Names(owner)
                    /\ \A p \in Proc : /\ ~Owns(p, LegacyLock)'
                                       /\ ~(step'[p] = "write" /\ Target(p)' = LegacyLock)
    BY DEF LegacyGuarded
<1>1. legacyUp /\ LegacyLock \in Lock
    <2>1. legacyUp' = legacyUp \/ legacyUp' = FALSE
        BY DEF Next, vars, Starts, Runs, StartsAgain, TryAcquireCoordinator,
           CreatesFile, JudgesFile, WritesPayload, ReleasesFirst, ReleasesSecond,
           WakesUp, LockTimesOut, AcquisitionFails, Releases, Dies, LegacyDies,
           ForeignPid, FileAges
    <2> QED BY <2>1 DEF LegacyLock, Lock
<1>2. PICK owner \in file[LegacyLock] : Names(owner)
    BY <1>1 DEF LegacyGuarded
<1>3. \A p \in Proc : /\ ~Owns(p, LegacyLock)
                      /\ ~(step[p] = "write" /\ Target(p) = LegacyLock)
    BY <1>1 DEF LegacyGuarded
<1> HIDE DEF Names
<1>4. ASSUME UNCHANGED <<held, file>>,
             \A q \in Proc : step'[q] = "write" => step[q] = "write"
      PROVE  /\ \E o \in file'[LegacyLock] : Names(o)
             /\ \A q \in Proc : /\ ~Owns(q, LegacyLock)'
                                /\ ~(step'[q] = "write" /\ Target(q)' = LegacyLock)
    <2>1. \A q \in Proc : (Owns(q, LegacyLock)' <=> Owns(q, LegacyLock))
                          /\ Target(q)' = Target(q)
        BY <1>4, SameHeld
    <2> QED BY <1>2, <1>3, <1>4, <2>1
<1>5. ASSUME NEW p \in Proc, \/ StartsAgain(p) \/ TryAcquireCoordinator(p)
             \/ WakesUp(p) \/ LockTimesOut(p) \/ Releases(p) \/ \E i \in Pid : Starts(p, i)
      PROVE  /\ \E o \in file'[LegacyLock] : Names(o)
             /\ \A q \in Proc : /\ ~Owns(q, LegacyLock)'
                                /\ ~(step'[q] = "write" /\ Target(q)' = LegacyLock)
    <2>1. UNCHANGED <<held, file>>
        BY <1>5 DEF StartsAgain, TryAcquireCoordinator, WakesUp, LockTimesOut,
                    Releases, Starts
    <2>2. \A q \in Proc : step'[q] = "write" => step[q] = "write"
        BY <1>5 DEF StartsAgain, TryAcquireCoordinator, WakesUp, LockTimesOut,
               Releases, Starts, Goes, Unwind, LockInv, ProcTypes
    <2> QED BY <1>4, <2>1, <2>2
<1>6. ASSUME NEW p \in Proc, CreatesFile(p)
      PROVE  /\ \E o \in file'[LegacyLock] : Names(o)
             /\ \A q \in Proc : /\ ~Owns(q, LegacyLock)'
                                /\ ~(step'[q] = "write" /\ Target(q)' = LegacyLock)
    <2>1. Target(p) # LegacyLock
        BY <1>2, <1>6 DEF CreatesFile
    <2>2. file'[LegacyLock] = file[LegacyLock]
        BY <1>1, <1>6, <2>1 DEF CreatesFile, LockInv, LockTypes
    <2>3. \A q \in Proc : (Owns(q, LegacyLock)' <=> Owns(q, LegacyLock))
                          /\ Target(q)' = Target(q)
        BY <1>6, SameHeld DEF CreatesFile
    <2>4. \A q \in Proc \ {p} : step'[q] = step[q]
        BY <1>6 DEF CreatesFile, Goes, LockInv, ProcTypes
    <2> QED BY <1>2, <1>3, <2>1, <2>2, <2>3, <2>4
<1>7. ASSUME NEW p \in Proc, NEW reads \in PossibleReads, JudgesFile(p, reads)
      PROVE  /\ \E o \in file'[LegacyLock] : Names(o)
             /\ \A q \in Proc : /\ ~Owns(q, LegacyLock)'
                                /\ ~(step'[q] = "write" /\ Target(q)' = LegacyLock)
    <2>1. file'[LegacyLock] = file[LegacyLock]
        <3>1. CASE Target(p) = LegacyLock
            <4>1. file[LegacyLock] = {owner}
                BY <1>1 DEF LockInv, LockTypes, AtMostOne
            <4>2. ~MayRemove(ResolveGatewayOwnerStatus(owner, reads, TRUE), owner)
                BY <1>1, <1>2, LegacyFileStays DEF Names
            <4> QED BY <1>7, <3>1, <4>1, <4>2 DEF JudgesFile
        <3>2. CASE Target(p) # LegacyLock
            BY <1>1, <1>7, <3>2 DEF JudgesFile, LockInv, LockTypes
        <3> QED BY <3>1, <3>2
    <2>2. \A q \in Proc : (Owns(q, LegacyLock)' <=> Owns(q, LegacyLock))
                          /\ Target(q)' = Target(q)
        BY <1>7, SameHeld DEF JudgesFile
    <2>3. \A q \in Proc : step'[q] = "write" => step[q] = "write"
        BY <1>7 DEF JudgesFile, Goes, LockInv, ProcTypes
    <2> QED BY <1>2, <1>3, <2>1, <2>2, <2>3
<1>8. ASSUME NEW p \in Proc, WritesPayload(p)
      PROVE  /\ \E o \in file'[LegacyLock] : Names(o)
             /\ \A q \in Proc : /\ ~Owns(q, LegacyLock)'
                                /\ ~(step'[q] = "write" /\ Target(q)' = LegacyLock)
    <2>1. Target(p) # LegacyLock /\ held[p] < Len(Path(p))
        BY <1>3, <1>8 DEF WritesPayload, LockInv, StepMatchesHeld
    <2>2. file'[LegacyLock] = file[LegacyLock]
        BY <1>1, <1>8, <2>1 DEF WritesPayload, LockInv, LockTypes
    <2>3. Owns(p, LegacyLock)' <=> Owns(p, LegacyLock) \/ LegacyLock = Target(p)
        BY <1>1, <1>8, <2>1, OwnsOneMore DEF WritesPayload, LockInv
    <2>4. \A q \in Proc \ {p} : step'[q] = step[q] /\ held'[q] = held[q]
        BY <1>8 DEF WritesPayload, Goes, LockInv, ProcTypes
    <2>5. \A q \in Proc \ {p} : (Owns(q, LegacyLock)' <=> Owns(q, LegacyLock))
                                /\ Target(q)' = Target(q)
        BY <2>4, SameHeld
    <2>6. step'[p] # "write"
        BY <1>8 DEF WritesPayload, Goes, LockInv, ProcTypes
    <2> QED BY <1>2, <1>3, <2>1, <2>2, <2>3, <2>4, <2>5, <2>6
<1>9. ASSUME NEW p \in Proc, AcquisitionFails(p)
      PROVE  /\ \E o \in file'[LegacyLock] : Names(o)
             /\ \A q \in Proc : /\ ~Owns(q, LegacyLock)'
                                /\ ~(step'[q] = "write" /\ Target(q)' = LegacyLock)
    <2>1. file'[LegacyLock] = file[LegacyLock]
        <3>1. CASE UNCHANGED file
            BY <3>1
        <3>2. CASE step[p] = "write"
            <4>1. Target(p) # LegacyLock
                BY <1>3, <3>2
            <4> QED BY <1>1, <1>9, <4>1 DEF AcquisitionFails, LockInv, LockTypes
        <3> QED BY <1>9, <3>1, <3>2 DEF AcquisitionFails
    <2>2. \A q \in Proc : (Owns(q, LegacyLock)' <=> Owns(q, LegacyLock))
                          /\ Target(q)' = Target(q)
        BY <1>9, SameHeld DEF AcquisitionFails
    <2>3. \A q \in Proc : step'[q] = "write" => step[q] = "write"
        BY <1>9 DEF AcquisitionFails, Goes, Unwind, LockInv, ProcTypes
    <2> QED BY <1>2, <1>3, <2>1, <2>2, <2>3
<1>10. ASSUME NEW p \in Proc, ReleasesFirst(p)
      PROVE  /\ \E o \in file'[LegacyLock] : Names(o)
             /\ \A q \in Proc : /\ ~Owns(q, LegacyLock)'
                                /\ ~(step'[q] = "write" /\ Target(q)' = LegacyLock)
    <2>1. Top(p) # LegacyLock
        BY <1>3, <1>10, TargetFacts DEF ReleasesFirst, LockInv, StepMatchesHeld
    <2>2. file'[LegacyLock] = file[LegacyLock]
        BY <1>1, <1>10, <2>1
           DEF ReleasesFirst, GivesBack, ReleaseOrder, LockInv, LockTypes
    <2>3. \A q \in Proc : (Owns(q, LegacyLock)' <=> Owns(q, LegacyLock))
                          /\ Target(q)' = Target(q)
        BY <1>10, SameHeld DEF ReleasesFirst
    <2>4. \A q \in Proc : step'[q] = "write" => step[q] = "write"
        BY <1>10 DEF ReleasesFirst, Goes, LockInv, ProcTypes
    <2> QED BY <1>2, <1>3, <2>2, <2>3, <2>4
<1>11. ASSUME NEW p \in Proc, ReleasesSecond(p) \/ Dies(p)
      PROVE  /\ \E o \in file'[LegacyLock] : Names(o)
             /\ \A q \in Proc : /\ ~Owns(q, LegacyLock)'
                                /\ ~(step'[q] = "write" /\ Target(q)' = LegacyLock)
    <2>1. \E o \in file'[LegacyLock] : Names(o)
        <3>1. CASE ReleasesSecond(p)
            <4>1. file' = file
                BY <3>1 DEF ReleasesSecond, GivesBack, ReleaseOrder
            <4> QED BY <1>2, <4>1
        <3>2. CASE Dies(p)
            <4>1. WithoutHistory(p, owner) \in file'[LegacyLock]
                BY <1>1, <1>2, <3>2 DEF Dies
            <4>2. owner \in Contents
                BY <1>1, <1>2 DEF LockInv, LockTypes
            <4>3. Names(WithoutHistory(p, owner))
                BY <1>2, <4>2 DEF Names, WithoutHistory, Contents
            <4> QED BY <4>1, <4>3
        <3> QED BY <1>11, <3>1, <3>2
    <2>2. ~Owns(p, LegacyLock)'
        <3>1. CASE ReleasesSecond(p)
            BY <1>1, <1>3, <3>1, OwnsOneLess
               DEF ReleasesSecond, LockInv, StepMatchesHeld
        <3>2. CASE Dies(p)
            <4>1. held'[p] = 0
                BY <3>2 DEF Dies, LockInv, ProcTypes
            <4> QED BY <4>1 DEF Owns
        <3> QED BY <1>11, <3>1, <3>2
    <2>3. \A q \in Proc \ {p} : step'[q] = step[q] /\ held'[q] = held[q]
        BY <1>11 DEF ReleasesSecond, Dies, Goes, LockInv, ProcTypes
    <2>4. \A q \in Proc \ {p} : (Owns(q, LegacyLock)' <=> Owns(q, LegacyLock))
                                /\ Target(q)' = Target(q)
        BY <2>3, SameHeld
    <2>5. step'[p] # "write"
        BY <1>11 DEF ReleasesSecond, Dies, Goes, LockInv, ProcTypes
    <2> QED BY <1>2, <1>3, <2>1, <2>2, <2>3, <2>4, <2>5
<1>12. ASSUME NEW k \in Lock, FileAges(k)
      PROVE  /\ \E o \in file'[LegacyLock] : Names(o)
             /\ \A q \in Proc : /\ ~Owns(q, LegacyLock)'
                                /\ ~(step'[q] = "write" /\ Target(q)' = LegacyLock)
    <2>1. \E o \in file'[LegacyLock] : Names(o)
        <3>1. CASE k # LegacyLock
            <4>1. file'[LegacyLock] = file[LegacyLock]
                BY <1>1, <1>12, <3>1 DEF FileAges, LockInv, LockTypes
            <4> QED BY <1>2, <4>1
        <3>2. CASE k = LegacyLock
            <4>1. PICK o \in file[k] :
                      file' = [file EXCEPT ![k] = {[o EXCEPT !.old = TRUE]}]
                BY <1>12 DEF FileAges
            <4>2. o = owner /\ o \in Contents
                BY <1>1, <3>2 DEF LockInv, LockTypes, AtMostOne
            <4>3. Names([o EXCEPT !.old = TRUE])
                BY <1>2, <4>2 DEF Names, Contents
            <4>4. file'[k] = {[o EXCEPT !.old = TRUE]}
                BY <4>1 DEF LockInv, LockTypes
            <4> QED BY <3>2, <4>3, <4>4
        <3> QED BY <3>1, <3>2
    <2>2. \A q \in Proc : (Owns(q, LegacyLock)' <=> Owns(q, LegacyLock))
                          /\ Target(q)' = Target(q) /\ step'[q] = step[q]
        BY <1>12, SameHeld DEF FileAges
    <2> QED BY <1>3, <2>1, <2>2
<1>13. CASE UNCHANGED vars \/ \E i \in Pid \cup {LegacyPid} : ForeignPid(i)
    BY <1>4, <1>13 DEF vars, ForeignPid
<1>14. ~LegacyDies
    BY DEF LegacyDies
<1> QED BY <1>5, <1>6, <1>7, <1>8, <1>9, <1>10, <1>11, <1>12, <1>13, <1>14
        DEF Next, Runs

(* At most one owner per state directory and configuration, and none       *)
(* beside a running gateway of an older version, where process inspection  *)
(* works or its failure counts as alive (gateway-lock.ts:225-228).         *)
THEOREM SingleOwnerAlways ==
    ASSUME Inspectable
    PROVE  Spec => []SingleOwner
<1>1. Init => LegacyGuarded
    <2> SUFFICES ASSUME Init, legacyUp PROVE LegacyGuarded
        BY DEF LegacyGuarded
    <2>1. LegacyLock \in Lock
        BY DEF LegacyLock, Lock
    <2>2. file[LegacyLock] = {LegacyPayload}
        BY <2>1 DEF Init, LegacyLock
    <2>3. \A p \in Proc : ~Owns(p, LegacyLock) /\ step[p] # "write"
        BY DEF Init, Owns
    <2> QED BY <2>2, <2>3 DEF LegacyGuarded, LegacyPayload, Content
<1>2. LockInv /\ LegacyGuarded /\ [Next]_vars => LegacyGuarded'
    BY LegacyGuardedStep
<1>3. LockInv /\ LegacyGuarded => SingleOwner
    BY HolderIsAlone DEF SingleOwner, LegacyGuarded, LegacyLock
<1> QED BY <1>1, <1>2, <1>3, LockInvariant, PTL DEF Spec
-----------------------------------------------------------------------------
(* Lanes and admission together, for any lanes, callers, entries and roots.*)
(* That no one enqueues in a drained gateway needs that a root which is    *)
(* live is an active one, also for lane tasks, whose root is that of       *)
(* whoever pumped the lane.                                                *)

HIDE GatewayLockConstants

(* Which root a chain or a lane continuation may run in: one created       *)
(* before.  An active root is a created one that is not released.          *)
WorkRoot == 1..MaxRoots

RootsFit ==
    /\ nextRoot \in 1..(MaxRoots + 1) /\ released \in [WorkRoot -> BOOLEAN]
    /\ \A r \in WorkRoot : r < nextRoot /\ ~released[r] => r \in activeRootWork

ChainsFit ==
    /\ currentRootWork \in [Caller \cup Task -> 0..MaxRoots]
    /\ \A c \in Caller \cup Task : currentRootWork[c] < nextRoot
    /\ pumpRoot \in [Task -> 0..MaxRoots]
    /\ \A e \in Task : pumpRoot[e] < nextRoot

WorkInv == RootsFit /\ ChainsFit

LEMMA WorkInitially == WorkInit => WorkInv
BY GatewayWorkConstants
   DEF WorkInit, WorkInv, RootsFit, ChainsFit, WorkRoot, Task,
       Admission!Init, Admission!Root

(* A step that leaves the roots alone and starts tasks in a created root. *)
LEMMA TasksKeepInv ==
    ASSUME WorkInv, NEW r \in 0..MaxRoots, r < nextRoot, NEW ended,
           TasksRunIn(r, ended),
           UNCHANGED <<nextRoot, released, activeRootWork>>
    PROVE  WorkInv'
BY GatewayWorkConstants
   DEF TasksRunIn, WorkInv, RootsFit, ChainsFit, WorkRoot

(* A live root is an active one. *)
LEMMA LiveIsActive ==
    ASSUME WorkInv, NEW c \in Caller \cup Task, Admission!HasLiveRoot(c)
    PROVE  activeRootWork # {}
BY GatewayWorkConstants
   DEF Admission!HasLiveRoot, WorkInv, RootsFit, ChainsFit, WorkRoot

LEMMA CreateKeepsInv ==
    ASSUME WorkInv, NEW c \in Caller \cup Task, Admission!CreateRootFor(c),
           UNCHANGED pumpRoot
    PROVE  WorkInv'
BY GatewayWorkConstants
   DEF Admission!CreateRootFor, WorkInv, RootsFit, ChainsFit, WorkRoot, Task

LEMMA AdmissionKeepsInv == WorkInv /\ AdmissionStep => WorkInv'
<1> SUFFICES ASSUME WorkInv, AdmissionStep PROVE WorkInv'
    OBVIOUS
<1> UNCHANGED pumpRoot
    BY DEF AdmissionStep
<1>1. ASSUME UNCHANGED <<nextRoot, released, activeRootWork, currentRootWork>>
      PROVE  WorkInv'
    BY <1>1 DEF WorkInv, RootsFit, ChainsFit
<1>2. ASSUME NEW d \in Caller, NEW opening,
             Admission!AdmissionRound(d, opening)
      PROVE  WorkInv'
    BY <1>1, <1>2, CreateKeepsInv DEF Admission!AdmissionRound, Admission!rootVars
<1>3. ASSUME NEW c \in Caller, Admission!ChainArrives(c)
      PROVE  WorkInv'
    BY <1>1, <1>3 DEF Admission!ChainArrives, Admission!rootVars
<1>4. ASSUME NEW c \in Caller, Admission!ChainEnds(c)
      PROVE  WorkInv'
    BY <1>4, GatewayWorkConstants
       DEF Admission!ChainEnds, Admission!rootVars, WorkInv, RootsFit, ChainsFit
<1>5. ASSUME NEW c \in Caller, Admission!TryBeginGatewayRootWorkAdmission(c)
      PROVE  WorkInv'
    BY <1>5, CreateKeepsInv DEF Admission!TryBeginGatewayRootWorkAdmission
<1>6. ASSUME NEW c \in Caller, Admission!AdmissionRetries(c)
      PROVE  WorkInv'
    BY <1>2, <1>6 DEF Admission!AdmissionRetries
<1>7. ASSUME NEW c \in Caller \cup Task, NEW d \in Caller,
             Admission!RunWithGatewayIndependentRootWorkContinuation(c, d)
      PROVE  WorkInv'
    BY <1>2, <1>7, CreateKeepsInv
       DEF Admission!RunWithGatewayIndependentRootWorkContinuation
<1>8. ASSUME NEW i \in Admission!Lease, Admission!ReleaseRootWork(i)
      PROVE  WorkInv'
    BY <1>8, GatewayWorkConstants
       DEF Admission!ReleaseRootWork, Admission!chainVars,
           WorkInv, RootsFit, ChainsFit, WorkRoot
<1> QED BY <1>3, <1>4, <1>5, <1>6, <1>7, <1>8 DEF AdmissionStep

LEMMA FencesKeepInv == WorkInv /\ FenceStep => WorkInv'
BY DEF FenceStep, WorkInv, RootsFit, ChainsFit,
       Admission!MarkGatewayRestartDraining,
       Admission!TryBeginGatewaySuspendAdmission, Admission!CommitSuspend,
       Admission!RollbackSuspend, Admission!ReleaseSuspend,
       Admission!TransitionSuspend, Admission!rootVars, Admission!chainVars

LEMMA WorkKeepsInv == WorkInv /\ [WorkNext]_workVars => WorkInv'
<1> SUFFICES ASSUME WorkInv, [WorkNext]_workVars PROVE WorkInv'
    OBVIOUS
<1> USE GatewayWorkConstants
<1>1. 0 < nextRoot /\ 0 \in 0..MaxRoots
    BY DEF WorkInv, RootsFit
<1>2. ASSUME NEW c \in Caller \cup Task, NEW l \in Lane,
             NEW timed \in TimeoutChoice, Enqueue(c, l, timed)
      PROVE  WorkInv'
    <2>1. currentRootWork[c] \in 0..MaxRoots /\ currentRootWork[c] < nextRoot
        BY DEF WorkInv, ChainsFit
    <2> QED BY <1>2, <2>1, TasksKeepInv DEF Enqueue, admissionRest
<1>3. ASSUME NEW e \in Task, TaskSettles(e) \/ TaskTimesOut(e)
      PROVE  WorkInv'
    <2>1. pumpRoot[e] \in 0..MaxRoots /\ pumpRoot[e] < nextRoot
        BY DEF WorkInv, ChainsFit
    <2> QED BY <1>3, <2>1, TasksKeepInv
            DEF TaskSettles, TaskTimesOut, admissionRest
<1>4. ASSUME NEW e \in Task, LateSettle(e)
      PROVE  WorkInv'
    BY <1>1, <1>4, TasksKeepInv DEF LateSettle, admissionRest
<1>5. ASSUME NEW l \in Lane, StuckLaneReset(l)
      PROVE  WorkInv'
    BY <1>1, <1>5, TasksKeepInv DEF StuckLaneReset, admissionRest
<1>6. ASSUME InProcessRestart
      PROVE  WorkInv'
    <2>1. RootsFit'
        BY <1>6 DEF InProcessRestart, Admission!ResetAdmissionState,
                    WorkInv, RootsFit, WorkRoot, Admission!Root
    <2>2. ChainsFit'
        BY <1>1, <1>6 DEF InProcessRestart, Admission!ResetAdmissionState,
                    WorkInv, ChainsFit, TasksRunIn
    <2> QED BY <2>1, <2>2 DEF WorkInv
<1>7. CASE UNCHANGED workVars
    BY <1>7 DEF workVars, admissionRest, WorkInv, RootsFit, ChainsFit
<1> QED BY <1>2, <1>3, <1>4, <1>5, <1>6, <1>7, AdmissionKeepsInv, FencesKeepInv
        DEF WorkNext

(* Chains and lane continuations run in roots that were created before,    *)
(* and a created root that is not released is active                       *)
(* (src/src/process/command-queue.ts:284, gateway-work-admission.ts:63).   *)
THEOREM WorkInvariant == WorkSpec => []WorkInv
BY WorkInitially, WorkKeepsInv, PTL DEF WorkSpec

(* Every step that is not an enqueue leaves the sequence number alone. *)
LEMMA OnlyEnqueueDraws ==
    ASSUME [WorkNext]_workVars
    PROVE  \/ nextQueueSequence' = nextQueueSequence
           \/ \E c \in Caller \cup Task, l \in Lane, timed \in TimeoutChoice :
                 Enqueue(c, l, timed)
BY DEF WorkNext, workVars, queueVars, TaskSettles, TaskTimesOut, LateSettle,
       StuckLaneReset, InProcessRestart, AdmissionStep, FenceStep,
       Queue!TaskSettles, Queue!TaskTimesOut, Queue!FinishTask,
       Queue!LateSettle, Queue!ResetCommandLane, Queue!ResetAllLanes

(* Behind a closed fence of any kind and with no root active, no request   *)
(* and no lane task enqueues, whatever outlived its root                   *)
(* (src/src/process/gateway-work-admission.ts:132).                        *)
THEOREM DrainedNeverTakesLaneWork == WorkSpec => DrainedTakesNoLaneWork
<1>1. ASSUME WorkInv, [WorkNext]_workVars,
             Admission!IsGatewayWorkAdmissionClosed, activeRootWork = {}
      PROVE  nextQueueSequence' = nextQueueSequence
    <2>1. ASSUME NEW c \in Caller \cup Task, NEW l \in Lane,
                 NEW timed \in TimeoutChoice, Enqueue(c, l, timed)
          PROVE  FALSE
        <3>1. ~Admission!IsGatewaySubordinateWorkAdmissionClosed(c)
            BY <2>1 DEF Enqueue, Queue!EnqueueCommandInLane
        <3>2. Admission!HasLiveRoot(c)
            BY <1>1, <3>1
               DEF Admission!IsGatewaySubordinateWorkAdmissionClosed,
                   Admission!IsGatewayWorkAdmissionClosed,
                   Admission!HasLiveRoot
        <3> QED BY <1>1, <3>2, LiveIsActive
    <2> QED BY <1>1, <2>1, OnlyEnqueueDraws
<1>2. WorkInv /\ [WorkNext]_workVars =>
          [Admission!IsGatewayWorkAdmissionClosed /\ activeRootWork = {}
           => nextQueueSequence' = nextQueueSequence]_workVars
    BY <1>1
<1> QED BY <1>2, WorkInvariant, PTL DEF WorkSpec, DrainedTakesNoLaneWork

(* What requests, tasks and fences do to the lanes together is what the    *)
(* command queue by itself allows: the restart resets admission before the *)
(* lanes and the fences only refuse calls                                  *)
(* (src/src/process/command-queue.ts:481-514, :616-647).                   *)
THEOREM LanesAsInCommandQueue == WorkSpec => Queue!Spec
<1>1. WorkInit => Queue!Init
    BY DEF WorkInit
<1>2. ASSUME [WorkNext]_workVars
      PROVE  [Queue!Next]_(Queue!vars)
    <2>1. ASSUME NEW c \in Caller \cup Task, NEW l \in Lane,
                 NEW timed \in TimeoutChoice, Enqueue(c, l, timed)
          PROVE  Queue!Next
        <3>1. Queue!EnqueueCommandInLane(l, 0, timed, FALSE)
            BY <2>1 DEF Enqueue, Queue!EnqueueCommandInLane
        <3>2. 0 \in Queue!Priority /\ FALSE \in BOOLEAN
            BY DEF Queue!Priority
        <3> QED BY <3>1, <3>2 DEF Queue!Next
    <2>2. ASSUME NEW e \in Task, TaskSettles(e) \/ TaskTimesOut(e) \/ LateSettle(e)
          PROVE  Queue!Next
        BY <2>2 DEF TaskSettles, TaskTimesOut, LateSettle, Queue!Next,
                    Queue!Entry, Task
    <2>3. ASSUME NEW l \in Lane, StuckLaneReset(l)
          PROVE  Queue!Next
        BY <2>3 DEF StuckLaneReset, Queue!Next
    <2>4. CASE InProcessRestart
        BY <2>4 DEF InProcessRestart, Queue!Next
    <2>5. CASE AdmissionStep \/ FenceStep \/ UNCHANGED workVars
        BY <2>5 DEF AdmissionStep, FenceStep, workVars, queueVars, Queue!vars
    <2> QED BY <1>2, <2>1, <2>2, <2>3, <2>4, <2>5 DEF WorkNext
<1> QED BY <1>1, <1>2, PTL DEF WorkSpec, Queue!Spec
=============================================================================
