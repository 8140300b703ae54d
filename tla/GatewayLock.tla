------------------------------ MODULE GatewayLock ------------------------------
(***************************************************************************)
(* The locks that keep one gateway, or one offline maintenance command,    *)
(* per state directory and configuration (src/src/infra/gateway-lock.ts).  *)
(* A lock is a file that names its owner, created while an exclusive       *)
(* SQLite transaction on a file beside it (the coordinator) is held.  The  *)
(* operating system ends the transaction of a process that dies; the lock  *)
(* file stays, and whoever gets the coordinator next has to judge it.      *)
(* Every removal of a file may fail; the coordinator is given back anyway. *)
(***************************************************************************)
EXTENDS Naturals, Sequences, FiniteSets

CONSTANTS
    Proc,               \* commands that are started, possibly several times
    Role,               \* Role[p]: "gateway" or "maintenance"
    Multi,              \* processes started with OPENCLAW_ALLOW_MULTI_GATEWAY
    StateDir, Config,   \* StateDir[p], Config[p]
    Pid,                \* process ids the system hands out to Proc
    LegacyPid,          \* id of a gateway of an older version
    LegacyConfig,       \* whose file has no start time and no coordinator
    NoPid,
    Platform,           \* "linux" or "other"
    ReadsMayFail,       \* whether /proc, ps or wmic may be unreadable
    MaxStarts,          \* bound on the processes that are started
    MaxForeign          \* bound on the other programs at one time

ASSUME GatewayLockConstants ==
    /\ Role \in [Proc -> {"gateway", "maintenance"}] /\ Multi \subseteq Proc
    /\ DOMAIN StateDir = Proc /\ DOMAIN Config = Proc
    /\ NoPid \notin Pid \cup {LegacyPid}
    /\ Platform \in {"linux", "other"} /\ ReadsMayFail \in BOOLEAN
    /\ MaxStarts \in Nat /\ MaxForeign \in Nat

VARIABLES
    step,           \* of each process, see Steps
    held,           \* how many locks of its path it has
    pid, start,     \* its process id and start time
    coordinator,    \* of each lock: the processes with an open transaction
    file,           \* of each lock: {} or {its content}
    foreign,        \* ids that belong to programs of another kind
    legacyUp,       \* the older gateway still runs
    starts

vars == <<step, held, pid, start, coordinator, file, foreign, legacyUp, starts>>

Steps == {"down", "idle", "try", "sleep", "open", "write", "held", "rm", "unlock"}
NoStart == 0

StateLock(d) == <<"state", d>>
ConfigLock(c) == <<"config", c>>
Lock == {StateLock(StateDir[p]) : p \in Proc} \cup {ConfigLock(Config[p]) : p \in Proc}
           \cup {ConfigLock(LegacyConfig)}

ShouldAcquireConfigLock(p) == Role[p] = "maintenance" \/ p \notin Multi

(* acquireGatewayLock takes the state lock first. *)
Path(p) == IF ShouldAcquireConfigLock(p)
           THEN <<StateLock(StateDir[p]), ConfigLock(Config[p])>>
           ELSE <<StateLock(StateDir[p])>>
Target(p) == Path(p)[held[p] + 1]
Top(p) == Path(p)[held[p]]

(* The content of a file.  Beside what is written in it: whether it is     *)
(* older than staleMs, and, for the properties only, whether a process     *)
(* that still runs and has this start time tried in vain to remove it.     *)
Content(i, s, role) ==
    [pid |-> i, start |-> s, role |-> role, old |-> FALSE, left |-> FALSE]
LegacyPayload == Content(LegacyPid, NoStart, "gateway")
Unwritten == Content(NoPid, NoStart, "gateway")

Up(p) == step[p] # "down"
WithPid(i) == {p \in Proc : Up(p) /\ pid[p] = i}
IsPidAlive(i) == WithPid(i) # {} \/ i \in foreign \/ (i = LegacyPid /\ legacyUp)
CmdlineRole(i, role) == \/ \E p \in WithPid(i) : Role[p] = role
                        \/ role = "gateway" /\ i = LegacyPid /\ legacyUp

(* What the reads of a process's start time and command line return. *)
Reads == [start : BOOLEAN, cmdline : BOOLEAN]
AllRead == [start |-> TRUE, cmdline |-> TRUE]
PossibleReads == IF ReadsMayFail THEN Reads ELSE {AllRead}

(* The payload has the start time if it could be read. *)
Payloads(p) == {Content(pid[p], IF r.start THEN start[p] ELSE NoStart, Role[p]) :
                    r \in PossibleReads}

(* What fs.rm makes of a file with one of these contents: it goes, or it   *)
(* stays and the error is swallowed, or thrown after all else is done.     *)
Removed(contents) == {{}} \cup {{[c EXCEPT !.left = c.start # NoStart]} : c \in contents}

(* resolveGatewayOwnerStatus, "unknown" for a file without a process id. *)
ResolveGatewayOwnerStatus(owner, reads, trustUnknown) ==
    CASE owner.pid = NoPid -> "unknown"
      [] owner.pid # NoPid /\ ~IsPidAlive(owner.pid) -> "dead"
      [] /\ owner.pid # NoPid /\ IsPidAlive(owner.pid)
         /\ owner.start # NoStart /\ reads.start ->
            IF \E p \in WithPid(owner.pid) : start[p] = owner.start
            THEN "alive" ELSE "dead"
      [] OTHER ->
            CASE reads.cmdline ->
                    IF CmdlineRole(owner.pid, owner.role) THEN "alive" ELSE "dead"
              [] ~reads.cmdline /\ (\/ owner.role = "maintenance"
                                    \/ Platform = "linux" \/ ~trustUnknown) -> "unknown"
              [] OTHER -> "alive"

(* A file may be left over from an older gateway, which may still run. *)
Init ==
    /\ step = [p \in Proc |-> "down"] /\ held = [p \in Proc |-> 0]
    /\ pid = [p \in Proc |-> NoPid] /\ start = [p \in Proc |-> NoStart]
    /\ coordinator = [l \in Lock |-> {}]
    /\ legacyUp \in BOOLEAN
    /\ \E left \in BOOLEAN :
          file = [l \in Lock |-> IF (legacyUp \/ left) /\ l = ConfigLock(LegacyConfig)
                                 THEN {LegacyPayload} ELSE {}]
    /\ foreign = {} /\ starts = 0

Goes(p, to) == step' = [step EXCEPT ![p] = to]

-----------------------------------------------------------------------------
(* acquireGatewayLock and acquireLockFile *)

(* The command is started as a new process. *)
Starts(p, i) ==
    /\ step[p] = "down" /\ starts < MaxStarts /\ ~IsPidAlive(i)
    /\ Goes(p, "try")
    /\ pid' = [pid EXCEPT ![p] = i] /\ start' = [start EXCEPT ![p] = starts + 1]
    /\ starts' = starts + 1
    /\ UNCHANGED <<held, coordinator, file, foreign, legacyUp>>

(* A restart in the process, or the supervised retry after a failure. *)
StartsAgain(p) ==
    /\ step[p] = "idle" /\ Role[p] = "gateway"
    /\ Goes(p, "try")
    /\ UNCHANGED <<held, pid, start, coordinator, file, foreign, legacyUp, starts>>

IgnoresBusy(p) == TRUE
CoordinatorFree(p) == coordinator[Target(p)] = {}

TryAcquireCoordinator(p) ==
    /\ step[p] = "try"
    /\ IF CoordinatorFree(p)
       THEN /\ coordinator' = [coordinator EXCEPT ![Target(p)] = @ \cup {p}]
            /\ Goes(p, "open")
       ELSE Goes(p, "sleep") /\ UNCHANGED coordinator
    /\ UNCHANGED <<held, pid, start, file, foreign, legacyUp, starts>>

CreatesFile(p) ==
    /\ step[p] = "open" /\ file[Target(p)] = {}
    /\ file' = [file EXCEPT ![Target(p)] = {Unwritten}]
    /\ Goes(p, "write")
    /\ UNCHANGED <<held, pid, start, coordinator, foreign, legacyUp, starts>>

NeverStale(status, owner) == status = "dead"
MayRemove(status, owner) == status = "dead" \/ (status = "unknown" /\ owner.old)

(* The file exists: it is removed, or the coordinator is given back.  Only *)
(* the coordinator's holder changes the file, so its reads are one step.   *)
JudgesFile(p, reads) ==
    /\ step[p] = "open"
    /\ \E owner \in file[Target(p)] :
          IF MayRemove(ResolveGatewayOwnerStatus(owner, reads, TRUE), owner)
          THEN /\ file' = [file EXCEPT ![Target(p)] = {}]
               /\ UNCHANGED <<step, coordinator>>
          ELSE /\ coordinator' = [coordinator EXCEPT ![Target(p)] = @ \ {p}]
               /\ Goes(p, "sleep") /\ UNCHANGED file
    /\ UNCHANGED <<held, pid, start, foreign, legacyUp, starts>>

(* The payload is written and the lock acquired. *)
WritesPayload(p) ==
    /\ step[p] = "write"
    /\ \E payload \in Payloads(p) : file' = [file EXCEPT ![Target(p)] = {payload}]
    /\ held' = [held EXCEPT ![p] = @ + 1]
    /\ Goes(p, IF held[p] + 1 = Len(Path(p)) THEN "held" ELSE "try")
    /\ UNCHANGED <<pid, start, coordinator, foreign, legacyUp, starts>>

WakesUp(p) ==
    /\ step[p] = "sleep" /\ Goes(p, "try")
    /\ UNCHANGED <<held, pid, start, coordinator, file, foreign, legacyUp, starts>>

(* After a failure the locks taken so far are released. *)
Unwind(p) == IF held[p] = 0 THEN "idle" ELSE "rm"

LockTimesOut(p) ==
    /\ step[p] = "sleep" /\ Goes(p, Unwind(p))
    /\ UNCHANGED <<held, pid, start, coordinator, file, foreign, legacyUp, starts>>

(* A file cannot be opened, or the old one not removed, or the new one not *)
(* written: it is removed again, whatever has got into it, or stays.       *)
AcquisitionFails(p) ==
    /\ step[p] \in {"open", "write"} /\ Goes(p, Unwind(p))
    /\ \/ step[p] = "open" /\ UNCHANGED file
       \/ /\ step[p] = "write"
          /\ \E rest \in Removed({Unwritten} \cup Payloads(p)) :
                file' = [file EXCEPT ![Target(p)] = rest]
    /\ coordinator' = [coordinator EXCEPT ![Target(p)] = @ \ {p}]
    /\ UNCHANGED <<held, pid, start, foreign, legacyUp, starts>>

-----------------------------------------------------------------------------
(* release: the locks in reverse order, of each the file and then the      *)
(* coordinator, also when the file cannot be removed                       *)

Releases(p) ==
    /\ step[p] = "held" /\ Goes(p, "rm")
    /\ UNCHANGED <<held, pid, start, coordinator, file, foreign, legacyUp, starts>>

CoordinatorThenFile == <<"coordinator", "file">>
ReleaseOrder == <<"file", "coordinator">>

GivesBack(p, what) ==
    /\ \E rest \in Removed(file[Top(p)]) :
          file' = IF what = "file" THEN [file EXCEPT ![Top(p)] = rest] ELSE file
    /\ coordinator' = IF what = "coordinator"
                      THEN [coordinator EXCEPT ![Top(p)] = @ \ {p}] ELSE coordinator

ReleasesFirst(p) ==
    /\ step[p] = "rm" /\ Goes(p, "unlock")
    /\ GivesBack(p, ReleaseOrder[1])
    /\ UNCHANGED <<held, pid, start, foreign, legacyUp, starts>>

ReleasesSecond(p) ==
    /\ step[p] = "unlock" /\ Goes(p, IF held[p] = 1 THEN "idle" ELSE "rm")
    /\ GivesBack(p, ReleaseOrder[2])
    /\ held' = [held EXCEPT ![p] = @ - 1]
    /\ UNCHANGED <<pid, start, foreign, legacyUp, starts>>

-----------------------------------------------------------------------------
(* The system around: processes die, ids are reused, files age *)

(* What a process could not remove is forgotten with it. *)
WithoutHistory(p, owner) == [owner EXCEPT !.left = @ /\ owner.start # start[p]]

(* The process exits or is killed, its files stay. *)
Dies(p) ==
    /\ Up(p) /\ Goes(p, "down")
    /\ held' = [held EXCEPT ![p] = 0]
    /\ pid' = [pid EXCEPT ![p] = NoPid] /\ start' = [start EXCEPT ![p] = NoStart]
    /\ coordinator' = [l \in Lock |-> coordinator[l] \ {p}]
    /\ file' = [l \in Lock |-> {WithoutHistory(p, owner) : owner \in file[l]}]
    /\ UNCHANGED <<foreign, legacyUp, starts>>

(* The older gateway exits, with or without its file. *)
LegacyDies ==
    /\ legacyUp /\ legacyUp' = FALSE
    /\ \E gone \in BOOLEAN :
          file' = IF gone /\ file[ConfigLock(LegacyConfig)] = {LegacyPayload}
                  THEN [file EXCEPT ![ConfigLock(LegacyConfig)] = {}] ELSE file
    /\ UNCHANGED <<step, held, pid, start, coordinator, foreign, starts>>

(* Another program gets a free id, or ends. *)
ForeignPid(i) ==
    /\ \/ i \in foreign /\ foreign' = foreign \ {i}
       \/ /\ ~IsPidAlive(i) /\ Cardinality(foreign) < MaxForeign
          /\ foreign' = foreign \cup {i}
    /\ UNCHANGED <<step, held, pid, start, coordinator, file, legacyUp, starts>>

(* The file gets older than staleMs. *)
FileAges(l) ==
    /\ \E owner \in file[l] : /\ ~owner.old
                              /\ file' = [file EXCEPT ![l] = {[owner EXCEPT !.old = TRUE]}]
    /\ UNCHANGED <<step, held, pid, start, coordinator, foreign, legacyUp, starts>>

Runs(p) ==
    \/ StartsAgain(p) \/ TryAcquireCoordinator(p) \/ CreatesFile(p)
    \/ \E reads \in PossibleReads : JudgesFile(p, reads)
    \/ WritesPayload(p) \/ ReleasesFirst(p) \/ ReleasesSecond(p)

Next ==
    \/ \E p \in Proc : \/ \E i \in Pid : Starts(p, i)
                       \/ Runs(p) \/ WakesUp(p) \/ LockTimesOut(p) \/ AcquisitionFails(p)
                       \/ Releases(p) \/ Dies(p)
    \/ LegacyDies
    \/ \E i \in Pid \cup {LegacyPid} : ForeignPid(i)
    \/ \E l \in Lock : FileAges(l)

Gateway == {p \in Proc : Role[p] = "gateway"}

(* Processes go on, sleeps end, files age, and neither the disk nor the    *)
(* inspection of processes fails a gateway for ever; a maintenance command *)
(* waits a bounded time.  Nothing is assumed of holders.                   *)
Fairness ==
    /\ \A p \in Proc : WF_vars(Runs(p)) /\ WF_vars(WakesUp(p) \/ LockTimesOut(p))
    /\ \A p \in Gateway, n \in {0, 1} :
          /\ SF_vars(held[p] = n /\ (JudgesFile(p, AllRead) \/ CreatesFile(p)))
          /\ SF_vars(held[p] = n /\ WritesPayload(p))
    /\ \A p \in Proc \ Gateway : SF_vars(LockTimesOut(p))
    /\ \A l \in Lock : WF_vars(FileAges(l))

Spec == Init /\ [][Next]_vars
FairSpec == Spec /\ Fairness

-----------------------------------------------------------------------------
(* The coordinator has one holder, and a process has as many locks as its  *)
(* step allows.                                                            *)
TypeOK ==
    /\ step \in [Proc -> Steps] /\ foreign \subseteq Pid \cup {LegacyPid}
    /\ \A l \in Lock : Cardinality(coordinator[l]) <= 1 /\ Cardinality(file[l]) <= 1
    /\ \A p \in Proc : /\ held[p] \in 0..Len(Path(p))
                       /\ step[p] \in {"try", "sleep", "open", "write"}
                             => held[p] < Len(Path(p))
                       /\ step[p] \in {"rm", "unlock"} => held[p] > 0
                       /\ (held[p] > 0) => Up(p)

Owns(p, l) == \E n \in 1..held[p] : Path(p)[n] = l

(* At most one command works on a state directory, and at most one without *)
(* the multi-gateway override on a configuration; none beside a gateway of *)
(* an older version, whatever is unreadable (gateway-lock.ts:225-228).     *)
SingleOwner ==
    /\ \A p, q \in Proc : p # q => \A l \in Lock : ~(Owns(p, l) /\ Owns(q, l))
    /\ \A p \in Proc : Owns(p, ConfigLock(LegacyConfig)) => ~legacyUp

Describes(owner, p) == owner.pid = pid[p] /\ owner.start \in {NoStart, start[p]}

(* The lock file of an owner is there and names it until the owner itself  *)
(* removes it: a release never removes the file of the next owner.         *)
OwnerHasFile ==
    \A p \in Proc, l \in Lock :
        Owns(p, l) /\ ~(step[p] = "unlock" /\ Top(p) = l)
            => \E owner \in file[l] : Describes(owner, p)

(* A live process whose start failed, or that released, has given back     *)
(* every transaction, whichever of the calls failed, and the only files    *)
(* that name it are those it could not remove (gateway-lock.ts:376,        *)
(* :503, :522).                                                            *)
FailureLeavesNothing ==
    \A p \in Proc : step[p] = "idle" =>
        \A l \in Lock :
            /\ p \notin coordinator[l]
            /\ \A owner \in file[l] : owner.start = start[p] => owner.left

(* The port a reader is given is that of the lock's present owner, also    *)
(* when the file is left over and its process id has been reused, or else  *)
(* of a process that still runs and could not remove its file.             *)
ReportedPortIsServed ==
    \A l \in Lock : \A owner \in file[l] :
        (/\ owner.role = "gateway" /\ owner.start # NoStart
         /\ ResolveGatewayOwnerStatus(owner, AllRead, FALSE) = "alive")
            => \E p \in Proc : Describes(owner, p) /\ (Owns(p, l) \/ owner.left)

(* The file of a process that is gone. *)
Orphan(l) ==
    \E owner \in file[l] :
        /\ ~(legacyUp /\ owner.pid = LegacyPid)
        /\ \A q \in Proc : Up(q) => /\ ~Describes(owner, q)
                                   /\ ~(step[q] = "write" /\ Target(q) = l)

(* Only files of processes that are gone are in the way of p. *)
BehindOrphans(p) ==
    \E n \in 1..Len(Path(p)) :
        /\ Orphan(Path(p)[n])
        /\ \A m \in 1..(n - 1) : \/ file[Path(p)[m]] = {} \/ Orphan(Path(p)[m])
                                 \/ p \in coordinator[Path(p)[m]]

(* A file that a dead process left behind, written or not, does not keep a *)
(* living gateway out for ever: it waits only for a file that names a      *)
(* living process, be it the right one or one that got the id.             *)
OrphanIsReclaimed ==
    []<>(\A p \in Gateway : Up(p) => ~BehindOrphans(p))

(* The files say who owns the locks, to owners and to readers, and a       *)
(* failure leaves no transaction and no file but one that cannot be        *)
(* removed (gateway-lock.ts:189-311, :375, :498-548).                      *)
FilesMatchOwners ==
    TypeOK /\ OwnerHasFile /\ FailureLeavesNothing /\ ReportedPortIsServed
=============================================================================
