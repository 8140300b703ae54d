------------------------ MODULE SessionLifecycleProofs ------------------------
(***************************************************************************)
(* Theorems about SessionLifecycle for any work, mutations and identities. *)
(*                                                                         *)
(* The invariant joins the three kinds of queue with the phases of the     *)
(* processes.  The mutation locks make active mutations of an identity one *)
(* at most (CountsFit); the identity locks keep work that is being         *)
(* admitted and active mutations apart (Apart), so that nothing is         *)
(* registered behind a drain (DrainFits); the store writer's queue keeps   *)
(* admissions and maintenance apart (PlanFits), so that a lease stays      *)
(* current (StoreFits).                                                    *)
(***************************************************************************)
EXTENDS SessionLifecycle, FiniteSetTheorems, SequenceTheorems,
        WellFoundedInduction, TLAPS

USE LifecycleConstants

WorkPhase == {"idle", "waiting", "locking", "asserting", "barrier",
              "revalidating", "leased", "failed", "released"}
MutationPhase == {"idle", "queued", "activating", "preparing", "draining",
                  "starting", "writing", "finishing", "done"}

(* Work under its identity locks, from the second check to the lease. *)
Admitting == {"asserting", "barrier", "revalidating"}
Registered == {"barrier", "revalidating", "leased"}

(* Mutations that hold their mutation locks; those that are counted. *)
Entitled == {"activating", "preparing", "draining", "starting", "writing",
             "finishing"}
Active == {"preparing", "draining", "starting", "writing", "finishing"}

(* Who may be in the queues, and who is at the head of all of them. *)
Queueing == {"queued"} \cup Entitled
Locking == {"locking", "activating", "starting", "writing", "finishing"}
           \cup Admitting
Locked == {"writing"} \cup Admitting

Phases ==
    /\ phase \in [Proc -> WorkPhase \cup MutationPhase]
    /\ \A w \in Work : phase[w] \in WorkPhase
    /\ \A m \in Mutation : phase[m] \in MutationPhase

(* A lock's queues under phases f: those in it are where they may be, and  *)
(* those that say they have the locks have them.                           *)
LockTyped(q) ==
    q \in [Identity -> Seq(Proc)] /\ \A i \in Identity : IsInjective(q[i])
LockFits(q, f, in, hold) ==
    /\ LockTyped(q)
    /\ \A p \in Proc : \A i \in Identity :
         p \in ToSet(q[i]) => i \in Ids[p] /\ f[p] \in in
    /\ \A p \in Proc : f[p] \in hold => Holds(p, q)

(* The writer's queue: work that a writer's callback began is at its head  *)
(* until it gives up or has its lease.                                     *)
Early == {"idle", "waiting", "locking", "asserting"}
AtBarrier == {"barrier", "revalidating", "writing", "failed"}
WriterFits(q, f) ==
    /\ q \in Seq(Proc \cup {Sweep}) /\ IsInjective(q)
    /\ \A p \in Proc : p \in ToSet(q) =>
         f[p] \in AtBarrier \/ (p \in WriterOwned /\ f[p] \in Early)
    /\ \A w \in WriterOwned :
         f[w] \in {"waiting", "locking", "asserting", "barrier"} => AtHead(w, q)
    /\ \A p \in Proc : f[p] = "revalidating" => AtHead(p, q)

QueuesFit ==
    /\ Phases
    /\ LockFits(lifecycleQueue, phase, Locking, Locked)
    /\ LockFits(mutationQueue, phase, Queueing, Entitled)
    /\ WriterFits(writerQueue, phase)

(* A sweep that has planned is still in the writer, and its plan keeps the *)
(* sessions of all leases.                                                 *)
PlanFits ==
    /\ plan = {} \/ \E kept \in SUBSET Identity : plan = {kept}
    /\ plan # {} => AtWriter(Sweep)
    /\ \A kept \in plan : \A w \in Work : Running(w) => Ids[w] \subseteq kept

(* An identity counts the mutation that is active for it. *)
CountsFit ==
    /\ activeMutations \in [Identity -> {0, 1}]
    /\ \A i \in Identity : activeMutations[i] = 1 <=>
         \E m \in Mutation : i \in Ids[m] /\ phase[m] \in Active

(* Work that is being admitted has no identity in common with a mutation   *)
(* that is active.                                                         *)
Apart ==
    \A w \in Work, m \in Mutation :
        phase[w] \in Admitting /\ phase[m] \in Active => Ids[w] \cap Ids[m] = {}

RegisteredFits ==
    /\ registered \subseteq Work
    /\ \A w \in Work : w \in registered <=> phase[w] \in Registered

(* A draining mutation waits for all foreign work; past its drain there is *)
(* none.                                                                   *)
DrainFits ==
    /\ targets \in [Mutation -> SUBSET Work] /\ drained \subseteq Mutation
    /\ \A m \in Mutation :
         /\ phase[m] = "draining" => Foreign(m) \subseteq targets[m]
         /\ phase[m] \in {"idle", "queued", "activating", "preparing", "draining"}
              => m \notin drained
         /\ phase[m] = "writing" => m \in drained
         /\ m \in drained /\ phase[m] \in {"starting", "writing"}
              => Foreign(m) = {}

StoreFits ==
    /\ version \in [Identity -> Nat] /\ expected \in [Work -> [Identity -> Nat]]
    /\ sweeps \in 0..MaxMaintenance
    /\ LeaseIsCurrent

(* Whoever owns an interrupted lease has been told. *)
ToldFits ==
    /\ interrupted \subseteq Work /\ told \in [Work -> SUBSET Owner]
    /\ handoff \in [Work -> {"none", "out", "adopted"}]
    /\ \A w \in interrupted : OwnerOf(w) \in told[w]

WaitsFit == waitsFor \in [Work -> SUBSET Identity] /\ NoMissedIdle
SignalsFit == aborted \subseteq Proc /\ closed \in BOOLEAN

SessionInv ==
    /\ QueuesFit /\ PlanFits /\ CountsFit /\ Apart /\ RegisteredFits
    /\ DrainFits /\ StoreFits /\ ToldFits /\ WaitsFit /\ SignalsFit

-----------------------------------------------------------------------------
(* Sequences without repetitions.                                          *)

LEMMA AppendOnce ==
    ASSUME NEW S, NEW q \in Seq(S), IsInjective(q), NEW x \in S, x \notin ToSet(q)
    PROVE  /\ Append(q, x) \in Seq(S) /\ IsInjective(Append(q, x))
           /\ ToSet(Append(q, x)) = ToSet(q) \cup {x}
           /\ \A y : AtHead(y, q) => AtHead(y, Append(q, x))
<1>1. /\ Append(q, x) \in Seq(S) /\ Len(Append(q, x)) = Len(q) + 1
      /\ Len(q) \in Nat /\ DOMAIN q = 1..Len(q)
      /\ \A i \in 1..Len(q) : Append(q, x)[i] = q[i]
      /\ Append(q, x)[Len(q) + 1] = x
      /\ DOMAIN Append(q, x) = 1..(Len(q) + 1)
    OBVIOUS
<1>2. \A i \in 1..Len(q) : q[i] # x
    BY <1>1 DEF ToSet
<1>3. \A y : AtHead(y, q) => AtHead(y, Append(q, x))
    <2> SUFFICES ASSUME NEW y, AtHead(y, q) PROVE AtHead(y, Append(q, x))
        OBVIOUS
    <2>1. q # <<>> /\ Head(q) = y
        BY DEF AtHead
    <2>2. Append(q, x) # <<>> /\ Head(Append(q, x)) = y
        BY <2>1
    <2> QED BY <2>2 DEF AtHead
<1> DEFINE p == Append(q, x)
<1>4. /\ Len(q) \in Nat /\ DOMAIN q = 1..Len(q)
      /\ \A i \in 1..Len(q) : p[i] = q[i]
      /\ p[Len(q) + 1] = x /\ DOMAIN p = 1..(Len(q) + 1)
    BY <1>1
<1> HIDE DEF p
<1>5. IsInjective(p)
    BY <1>2, <1>4 DEF IsInjective
<1>6. ToSet(p) = ToSet(q) \cup {x}
    <2>1. ASSUME NEW y \in ToSet(p) PROVE y \in ToSet(q) \cup {x}
        BY <1>4 DEF ToSet
    <2>2. ASSUME NEW y \in ToSet(q) PROVE y \in ToSet(p)
        <3>1. PICK i \in 1..Len(q) : q[i] = y
            BY <1>4 DEF ToSet
        <3>2. i \in DOMAIN p /\ p[i] = y
            BY <1>4, <3>1
        <3> QED BY <3>2 DEF ToSet
    <2>3. x \in ToSet(p)
        <3>1. Len(q) + 1 \in DOMAIN p /\ p[Len(q) + 1] = x
            BY <1>4
        <3> QED BY <3>1 DEF ToSet
    <2> QED BY <2>1, <2>2, <2>3
<1> QED BY <1>1, <1>3, <1>5, <1>6 DEF p

LEMMA TailOnce ==
    ASSUME NEW S, NEW q \in Seq(S), IsInjective(q), NEW x, AtHead(x, q)
    PROVE  /\ Tail(q) \in Seq(S) /\ IsInjective(Tail(q))
           /\ ToSet(Tail(q)) = ToSet(q) \ {x}
<1>1. /\ q # <<>> /\ Head(q) = x
    BY DEF AtHead
<1>2. /\ Tail(q) \in Seq(S)
      /\ Len(q) \in Nat /\ Len(q) > 0
      /\ DOMAIN q = 1..Len(q) /\ DOMAIN Tail(q) = 1..(Len(q) - 1)
      /\ \A i \in 1..(Len(q) - 1) : Tail(q)[i] = q[i + 1]
      /\ q[1] = x
    BY <1>1
<1> DEFINE p == Tail(q)
<1> HIDE DEF p
<1>3. IsInjective(p)
    <2> SUFFICES ASSUME NEW i \in 1..(Len(q) - 1), NEW j \in 1..(Len(q) - 1),
                        p[i] = p[j]
                 PROVE  i = j
        BY <1>2 DEF IsInjective, p
    <2>1. i + 1 \in 1..Len(q) /\ j + 1 \in 1..Len(q) /\ q[i + 1] = q[j + 1]
        BY <1>2 DEF p
    <2>2. i + 1 = j + 1
        BY <1>2, <2>1 DEF IsInjective
    <2> QED BY <2>2
<1>4. ASSUME NEW y \in ToSet(p) PROVE y \in ToSet(q) \ {x}
    <2>1. PICK i \in 1..(Len(q) - 1) : p[i] = y
        BY <1>2, <1>4 DEF ToSet, p
    <2>2. i + 1 \in 1..Len(q) /\ q[i + 1] = y /\ 1 \in 1..Len(q) /\ i + 1 # 1
        BY <1>2, <2>1 DEF p
    <2>3. y # x
        BY <1>2, <2>2 DEF IsInjective
    <2>4. y \in ToSet(q)
        BY <1>2, <2>2 DEF ToSet
    <2> QED BY <2>3, <2>4
<1>5. ASSUME NEW y \in ToSet(q) \ {x} PROVE y \in ToSet(p)
    <2>1. PICK i \in 1..Len(q) : q[i] = y
        BY <1>2, <1>5 DEF ToSet
    <2>2. i - 1 \in 1..(Len(q) - 1) /\ (i - 1) + 1 = i
        BY <1>2, <1>5, <2>1
    <2>3. p[i - 1] = y /\ i - 1 \in DOMAIN p
        BY <1>2, <2>1, <2>2 DEF p
    <2> QED BY <2>3 DEF ToSet
<1> QED BY <1>2, <1>3, <1>4, <1>5 DEF p

LEMMA HeadIsIn ==
    ASSUME NEW S, NEW q \in Seq(S), NEW x, AtHead(x, q) PROVE x \in ToSet(q)
<1>1. 1 \in DOMAIN q /\ q[1] = x
    BY DEF AtHead
<1> QED BY <1>1 DEF ToSet

LEMMA InHasHead ==
    ASSUME NEW S, NEW q \in Seq(S), NEW x \in ToSet(q) PROVE q # <<>>
BY DEF ToSet

LEMMA OneHead ==
    ASSUME NEW q, NEW x, NEW y, AtHead(x, q), AtHead(y, q) PROVE x = y
BY DEF AtHead

-----------------------------------------------------------------------------
(* Locks.                                                                  *)

LEMMA LeastIdentity ==
    ASSUME NEW S \in SUBSET Nat, S # {}
    PROVE  \E i \in S : \A j \in S : i <= j
<1>1. PICK i \in S : \A j \in S : ~(<<j, i>> \in OpToRel(<, Nat))
    BY NatLessThanWellFounded, WFMin
<1>2. \A j \in S : ~(j < i)
    BY <1>1 DEF OpToRel
<1> QED BY <1>2

LEMMA NextLockIsWanted ==
    ASSUME NEW p \in Proc, NEW q, Wanted(p, q) # {}
    PROVE  /\ NextLock(p, q) \in Identity /\ NextLock(p, q) \in Ids[p]
           /\ p \notin ToSet(q[NextLock(p, q)])
<1>1. Ids[p] \subseteq Identity
    OBVIOUS
<1>2. Wanted(p, q) \in SUBSET Nat
    BY <1>1 DEF Wanted
<1>3. \E i \in Wanted(p, q) : \A j \in Wanted(p, q) : i <= j
    BY <1>2, LeastIdentity
<1>4. NextLock(p, q) \in Wanted(p, q)
    BY <1>3 DEF NextLock
<1> QED BY <1>1, <1>4 DEF Wanted

LEMMA IdsFacts ==
    \A p \in Proc : Ids[p] \subseteq Identity /\ Ids[p] # {}
OBVIOUS

LEMMA ProcFacts ==
    /\ Work \subseteq Proc /\ Mutation \subseteq Proc /\ WriterOwned \subseteq Work
    /\ \A w \in Work : w \notin Mutation
    /\ Sweep \notin Proc
BY DEF Proc

NotIn(p, q) == \A i \in Identity : p \notin ToSet(q[i])
MayLeave(p, q) == \A i \in Identity : p \in ToSet(q[i]) => AtHead(p, q[i])

LEMMA JoinFacts ==
    ASSUME NEW q, LockTyped(q), NEW p \in Proc, Wanted(p, q) # {}
    PROVE  /\ LockTyped(Join(q, p))
           /\ \A x \in Proc : Holds(x, q) => Holds(x, Join(q, p))
           /\ \A x \in Proc, i \in Identity : x \in ToSet(Join(q, p)[i]) =>
                x \in ToSet(q[i]) \/ (x = p /\ i \in Ids[p])
<1> DEFINE k == NextLock(p, q)
           r == Join(q, p)
<1>1. k \in Identity /\ k \in Ids[p] /\ p \notin ToSet(q[k])
    BY NextLockIsWanted
<1>2. r = [q EXCEPT ![k] = Append(q[k], p)]
    BY DEF Join
<1> HIDE DEF k, r
<1>3. q[k] \in Seq(Proc) /\ IsInjective(q[k])
    BY <1>1 DEF LockTyped
<1>4. /\ Append(q[k], p) \in Seq(Proc) /\ IsInjective(Append(q[k], p))
      /\ ToSet(Append(q[k], p)) = ToSet(q[k]) \cup {p}
      /\ \A y : AtHead(y, q[k]) => AtHead(y, Append(q[k], p))
    BY <1>1, <1>3, AppendOnce
<1>5. /\ r \in [Identity -> Seq(Proc)] /\ r[k] = Append(q[k], p)
      /\ \A i \in Identity : i # k => r[i] = q[i]
    BY <1>1, <1>2, <1>4 DEF LockTyped
<1>6. LockTyped(r)
    BY <1>4, <1>5 DEF LockTyped
<1>7. ASSUME NEW x \in Proc, Holds(x, q) PROVE Holds(x, r)
    BY <1>4, <1>5, <1>7, IdsFacts DEF Holds
<1>8. ASSUME NEW x \in Proc, NEW i \in Identity, x \in ToSet(r[i])
      PROVE  x \in ToSet(q[i]) \/ (x = p /\ i \in Ids[p])
    BY <1>1, <1>4, <1>5, <1>8
<1> QED BY <1>6, <1>7, <1>8 DEF r

LEMMA LeaveFacts ==
    ASSUME NEW q, LockTyped(q), NEW p \in Proc, MayLeave(p, q)
    PROVE  /\ LockTyped(Leave(q, p)) /\ NotIn(p, Leave(q, p))
           /\ \A x \in Proc : x # p /\ Holds(x, q) => Holds(x, Leave(q, p))
           /\ \A x \in Proc, i \in Identity :
                x \in ToSet(Leave(q, p)[i]) => x \in ToSet(q[i])
<1> DEFINE r == Leave(q, p)
<1>1. /\ \A i \in Identity : AtHead(p, q[i]) => r[i] = Tail(q[i])
      /\ \A i \in Identity : ~AtHead(p, q[i]) => r[i] = q[i]
      /\ r = [i \in Identity |-> r[i]]
    BY DEF Leave
<1> HIDE DEF r
<1>2. ASSUME NEW i \in Identity
      PROVE  /\ r[i] \in Seq(Proc) /\ IsInjective(r[i])
             /\ ToSet(r[i]) \subseteq ToSet(q[i]) /\ p \notin ToSet(r[i])
             /\ \A x : x # p /\ AtHead(x, q[i]) => AtHead(x, r[i])
    <2>1. q[i] \in Seq(Proc) /\ IsInjective(q[i])
        BY DEF LockTyped
    <2>2. CASE AtHead(p, q[i])
        <3>1. /\ Tail(q[i]) \in Seq(Proc) /\ IsInjective(Tail(q[i]))
              /\ ToSet(Tail(q[i])) = ToSet(q[i]) \ {p}
            BY <2>1, <2>2, TailOnce
        <3>2. \A x : AtHead(x, q[i]) => x = p
            BY <2>2, OneHead
        <3> QED BY <1>1, <2>2, <3>1, <3>2
    <2>3. CASE ~AtHead(p, q[i])
        BY <1>1, <2>1, <2>3 DEF MayLeave
    <2> QED BY <2>2, <2>3
<1>3. LockTyped(r)
    BY <1>1, <1>2 DEF LockTyped
<1>4. ASSUME NEW x \in Proc, x # p, Holds(x, q) PROVE Holds(x, r)
    BY <1>2, <1>4, IdsFacts DEF Holds
<1> QED BY <1>2, <1>3, <1>4 DEF r, NotIn

(* Phases f and g differ in p at most. *)
Moved(f, g, p) == \A x \in Proc : x # p => g[x] = f[x]

LEMMA LockSame ==
    ASSUME NEW q, NEW f, NEW g, NEW in, NEW hold, LockFits(q, f, in, hold),
           NEW p \in Proc, Moved(f, g, p),
           g[p] \in in \/ NotIn(p, q), g[p] \in hold => Holds(p, q)
    PROVE  LockFits(q, g, in, hold)
BY DEF LockFits, Moved, NotIn

LEMMA LockJoin ==
    ASSUME NEW q, NEW f, NEW g, NEW in, NEW hold, LockFits(q, f, in, hold),
           NEW p \in Proc, Moved(f, g, p), Wanted(p, q) # {},
           g[p] \in in, g[p] \notin hold
    PROVE  LockFits(Join(q, p), g, in, hold)
<1> DEFINE r == Join(q, p)
<1>1. /\ LockTyped(r)
      /\ \A x \in Proc : Holds(x, q) => Holds(x, r)
      /\ \A x \in Proc, i \in Identity : x \in ToSet(r[i]) =>
           x \in ToSet(q[i]) \/ (x = p /\ i \in Ids[p])
    BY JoinFacts DEF LockFits
<1> HIDE DEF r
<1>2. ASSUME NEW x \in Proc, NEW i \in Identity, x \in ToSet(r[i])
      PROVE  i \in Ids[x] /\ g[x] \in in
    BY <1>1, <1>2 DEF LockFits, Moved
<1>3. ASSUME NEW x \in Proc, g[x] \in hold PROVE Holds(x, r)
    BY <1>1, <1>3 DEF LockFits, Moved
<1> QED BY <1>1, <1>2, <1>3 DEF LockFits, r

LEMMA LockLeave ==
    ASSUME NEW q, NEW f, NEW g, NEW in, NEW hold, LockFits(q, f, in, hold),
           NEW p \in Proc, Moved(f, g, p), MayLeave(p, q), g[p] \notin hold
    PROVE  LockFits(Leave(q, p), g, in, hold) /\ NotIn(p, Leave(q, p))
<1> DEFINE r == Leave(q, p)
<1>1. /\ LockTyped(r) /\ NotIn(p, r)
      /\ \A x \in Proc : x # p /\ Holds(x, q) => Holds(x, r)
      /\ \A x \in Proc, i \in Identity : x \in ToSet(r[i]) => x \in ToSet(q[i])
    BY LeaveFacts DEF LockFits
<1> HIDE DEF r
<1>2. ASSUME NEW x \in Proc, NEW i \in Identity, x \in ToSet(r[i])
      PROVE  i \in Ids[x] /\ g[x] \in in
    <2>1. x # p /\ x \in ToSet(q[i])
        BY <1>1, <1>2 DEF NotIn
    <2> QED BY <2>1 DEF LockFits, Moved
<1>3. ASSUME NEW x \in Proc, g[x] \in hold PROVE Holds(x, r)
    BY <1>1, <1>3 DEF LockFits, Moved
<1> QED BY <1>1, <1>2, <1>3 DEF LockFits, r

(* The finally of a mutation leaves the locks and queues for them again. *)
LEMMA LockAgain ==
    ASSUME NEW q, NEW f, NEW g, NEW in, NEW hold, LockFits(q, f, in, hold),
           NEW p \in Proc, Moved(f, g, p), MayLeave(p, q),
           g[p] \in in, g[p] \notin hold
    PROVE  LockFits(Join(Leave(q, p), p), g, in, hold)
<1> DEFINE r == Leave(q, p)
<1>1. LockFits(r, g, in, hold) /\ NotIn(p, r)
    BY LockLeave
<1> HIDE DEF r
<1>2. Wanted(p, r) # {}
    BY <1>1, IdsFacts DEF Wanted, NotIn
<1>3. Moved(g, g, p)
    BY DEF Moved
<1>4. LockFits(Join(r, p), g, in, hold)
    BY <1>1, <1>2, <1>3, LockJoin
<1> QED BY <1>4 DEF r

LEMMA NotQueued ==
    ASSUME NEW q, NEW f, NEW in, NEW hold, LockFits(q, f, in, hold),
           NEW p \in Proc, f[p] \notin in
    PROVE  NotIn(p, q) /\ Wanted(p, q) # {} /\ MayLeave(p, q)
<1>1. NotIn(p, q)
    BY DEF LockFits, NotIn
<1> QED BY <1>1, IdsFacts DEF NotIn, Wanted, MayLeave

LEMMA HolderMayLeave ==
    ASSUME NEW q, NEW f, NEW in, NEW hold, LockFits(q, f, in, hold),
           NEW p \in Proc, Holds(p, q)
    PROVE  MayLeave(p, q)
BY DEF LockFits, MayLeave, Holds

(* Who is at the head where it queues and does not have all its locks,     *)
(* wants another one.                                                      *)
LEMMA AtTurnWants ==
    ASSUME NEW q, LockTyped(q), NEW p \in Proc, AtTurn(p, q), ~Holds(p, q)
    PROVE  Wanted(p, q) # {}
<1>1. PICK i \in Ids[p] : ~AtHead(p, q[i])
    BY DEF Holds
<1>2. q[i] \in Seq(Proc)
    BY <1>1, IdsFacts DEF LockTyped
<1>3. ASSUME p \in ToSet(q[i]) PROVE FALSE
    <2>1. q[i] # <<>>
        BY <1>2, <1>3, InHasHead
    <2>2. Head(q[i]) = p
        BY <1>1, <1>3 DEF AtTurn
    <2> QED BY <1>1, <2>1, <2>2 DEF AtHead
<1> QED BY <1>1, <1>3 DEF Wanted

(* Two processes that have their locks have no identity in common. *)
LEMMA HoldersAreApart ==
    ASSUME NEW q, NEW p \in Proc, NEW x \in Proc, p # x, Holds(p, q), Holds(x, q)
    PROVE  Ids[p] \cap Ids[x] = {}
BY OneHead DEF Holds

-----------------------------------------------------------------------------
(* The writer.                                                             *)

LEMMA WriterSame ==
    ASSUME NEW q, NEW f, NEW g, WriterFits(q, f), NEW p \in Proc, Moved(f, g, p),
           p \in ToSet(q) =>
             g[p] \in AtBarrier \/ (p \in WriterOwned /\ g[p] \in Early),
           p \in WriterOwned /\ g[p] \in {"waiting", "locking", "asserting", "barrier"}
             => AtHead(p, q),
           g[p] = "revalidating" => AtHead(p, q)
    PROVE  WriterFits(q, g)
<1>1. \A w \in WriterOwned : w \in Proc
    BY ProcFacts
<1> QED BY <1>1 DEF WriterFits, Moved

LEMMA WriterAppend ==
    ASSUME NEW q, NEW f, NEW g, WriterFits(q, f), NEW p \in Proc, Moved(f, g, p),
           p \notin ToSet(q), g[p] # "revalidating",
           g[p] \in AtBarrier \/ (p \in WriterOwned /\ g[p] \in Early),
           p \in WriterOwned =>
             g[p] \notin {"waiting", "locking", "asserting", "barrier"}
    PROVE  WriterFits(Append(q, p), g)
<1>1. \A w \in WriterOwned : w \in Proc
    BY ProcFacts
<1>2. /\ Append(q, p) \in Seq(Proc \cup {Sweep}) /\ IsInjective(Append(q, p))
      /\ ToSet(Append(q, p)) = ToSet(q) \cup {p}
      /\ \A y : AtHead(y, q) => AtHead(y, Append(q, p))
    BY AppendOnce DEF WriterFits
<1> DEFINE r == Append(q, p)
<1> HIDE DEF r
<1>3. /\ r \in Seq(Proc \cup {Sweep}) /\ IsInjective(r)
      /\ ToSet(r) = ToSet(q) \cup {p}
      /\ \A y : AtHead(y, q) => AtHead(y, r)
    BY <1>2 DEF r
<1>4. ASSUME NEW x \in Proc, x \in ToSet(r)
      PROVE  g[x] \in AtBarrier \/ (x \in WriterOwned /\ g[x] \in Early)
    BY <1>3, <1>4 DEF WriterFits, Moved
<1>5. ASSUME NEW w \in WriterOwned,
             g[w] \in {"waiting", "locking", "asserting", "barrier"}
      PROVE  AtHead(w, r)
    BY <1>1, <1>3, <1>5 DEF WriterFits, Moved
<1>6. ASSUME NEW x \in Proc, g[x] = "revalidating" PROVE AtHead(x, r)
    BY <1>3, <1>6 DEF WriterFits, Moved
<1>7. WriterFits(r, g)
    BY <1>3, <1>4, <1>5, <1>6 DEF WriterFits
<1> QED BY <1>7 DEF r

(* The head of the queue leaves it; x is the head, p is who has moved.     *)
LEMMA WriterTail ==
    ASSUME NEW q, NEW f, NEW g, WriterFits(q, f), NEW p \in Proc, Moved(f, g, p),
           AtHead(p, q), g[p] # "revalidating",
           p \in WriterOwned =>
             g[p] \notin {"waiting", "locking", "asserting", "barrier"}
    PROVE  WriterFits(Tail(q), g)
<1>1. \A w \in WriterOwned : w \in Proc
    BY ProcFacts
<1>2. /\ Tail(q) \in Seq(Proc \cup {Sweep}) /\ IsInjective(Tail(q))
      /\ ToSet(Tail(q)) = ToSet(q) \ {p}
    BY TailOnce DEF WriterFits
<1>3. \A x : AtHead(x, q) => x = p
    BY OneHead
<1> DEFINE r == Tail(q)
<1> HIDE DEF r
<1>4. /\ r \in Seq(Proc \cup {Sweep}) /\ IsInjective(r) /\ ToSet(r) = ToSet(q) \ {p}
    BY <1>2 DEF r
<1>5. ASSUME NEW x \in Proc, x \in ToSet(r)
      PROVE  g[x] \in AtBarrier \/ (x \in WriterOwned /\ g[x] \in Early)
    BY <1>4, <1>5 DEF WriterFits, Moved
<1>6. ASSUME NEW w \in WriterOwned,
             g[w] \in {"waiting", "locking", "asserting", "barrier"}
      PROVE  AtHead(w, r)
    BY <1>1, <1>3, <1>6 DEF WriterFits, Moved
<1>7. ASSUME NEW x \in Proc, g[x] = "revalidating" PROVE AtHead(x, r)
    BY <1>3, <1>7 DEF WriterFits, Moved
<1>8. WriterFits(r, g)
    BY <1>4, <1>5, <1>6, <1>7 DEF WriterFits
<1> QED BY <1>8 DEF r

-----------------------------------------------------------------------------
LEMMA SessionInit == Init => SessionInv
<1> SUFFICES ASSUME Init PROVE SessionInv
    OBVIOUS
<1>1. /\ phase = [p \in Proc |-> "idle"]
      /\ lifecycleQueue = [i \in Identity |-> <<>>]
      /\ mutationQueue = [i \in Identity |-> <<>>]
      /\ writerQueue = <<>> /\ plan = {} /\ registered = {}
      /\ activeMutations = [i \in Identity |-> 0]
      /\ targets = [m \in Mutation |-> {}] /\ drained = {}
    BY DEF Init
<1>2. \A x : x \notin ToSet(<<>>)
    BY DEF ToSet
<1>3. IsInjective(<<>>)
    BY DEF IsInjective
<1>4. Phases
    BY <1>1, ProcFacts DEF Phases, WorkPhase, MutationPhase
<1>5. \A p \in Proc : phase[p] = "idle"
    BY <1>1
<1>6. /\ LockFits(lifecycleQueue, phase, Locking, Locked)
      /\ LockFits(mutationQueue, phase, Queueing, Entitled)
    <2>1. LockTyped(lifecycleQueue) /\ LockTyped(mutationQueue)
        BY <1>1, <1>3 DEF LockTyped
    <2>2. "idle" \notin Locked /\ "idle" \notin Entitled
        BY DEF Locked, Entitled, Admitting
    <2> QED BY <1>1, <1>2, <1>5, <2>1, <2>2 DEF LockFits
<1>7. WriterFits(writerQueue, phase)
    BY <1>1, <1>2, <1>3, <1>5, ProcFacts DEF WriterFits
<1>8. PlanFits
    BY <1>1 DEF PlanFits
<1>9. CountsFit /\ Apart /\ RegisteredFits
    BY <1>1, <1>5, ProcFacts
       DEF CountsFit, Apart, RegisteredFits, Active, Admitting, Registered
<1>10. DrainFits
    BY <1>1, <1>5, ProcFacts DEF DrainFits
<1>11. StoreFits
    <2>1. version \in [Identity -> Nat] /\ expected \in [Work -> [Identity -> Nat]]
          /\ sweeps \in 0..MaxMaintenance
        BY DEF Init
    <2> QED BY <1>5, <2>1, ProcFacts DEF StoreFits, LeaseIsCurrent, Running
<1>12. ToldFits /\ WaitsFit /\ SignalsFit
    BY DEF Init, ToldFits, WaitsFit, NoMissedIdle, SignalsFit, Owner
<1> QED BY <1>4, <1>6, <1>7, <1>8, <1>9, <1>10, <1>11, <1>12
        DEF SessionInv, QueuesFit

-----------------------------------------------------------------------------
(* What a step of one process leaves to be shown of it.                    *)

MovesTo(p, v) == phase' = [phase EXCEPT ![p] = v]

LEMMA Move ==
    ASSUME Phases, NEW p \in Proc, NEW v, MovesTo(p, v)
    PROVE  phase'[p] = v /\ Moved(phase, phase', p)
BY DEF Phases, Moved, MovesTo

LEMMA WorkPhases ==
    ASSUME Phases, NEW w \in Work, NEW v \in WorkPhase, MovesTo(w, v)
    PROVE  /\ Phases' /\ w \in Proc /\ phase'[w] = v
           /\ \A x \in Work : x # w => phase'[x] = phase[x]
           /\ \A m \in Mutation : phase'[m] = phase[m]
           /\ Moved(phase, phase', w)
<1>1. phase'[w] = v /\ Moved(phase, phase', w)
    BY Move, ProcFacts
<1>2. /\ \A x \in Work : x # w => phase'[x] = phase[x]
      /\ \A m \in Mutation : phase'[m] = phase[m]
    BY <1>1, ProcFacts DEF Moved
<1>3. phase' \in [Proc -> WorkPhase \cup MutationPhase]
    BY ProcFacts DEF Phases, MovesTo
<1> QED BY <1>1, <1>2, <1>3, ProcFacts DEF Phases

LEMMA MutationPhases ==
    ASSUME Phases, NEW m \in Mutation, NEW v \in MutationPhase, MovesTo(m, v)
    PROVE  /\ Phases' /\ m \in Proc /\ phase'[m] = v
           /\ \A x \in Mutation : x # m => phase'[x] = phase[x]
           /\ \A w \in Work : phase'[w] = phase[w]
           /\ Moved(phase, phase', m)
<1>1. phase'[m] = v /\ Moved(phase, phase', m)
    BY Move, ProcFacts
<1>2. /\ \A x \in Mutation : x # m => phase'[x] = phase[x]
      /\ \A w \in Work : phase'[w] = phase[w]
    BY <1>1, ProcFacts DEF Moved
<1>3. phase' \in [Proc -> WorkPhase \cup MutationPhase]
    BY ProcFacts DEF Phases, MovesTo
<1> QED BY <1>1, <1>2, <1>3, ProcFacts DEF Phases

(* w has no identity in common with a mutation that is active. *)
Clear(w) ==
    \A m \in Mutation : phase[m] \in Active => Ids[w] \cap Ids[m] = {}

ExpectedKept(w) ==
    /\ expected' \in [Work -> [Identity -> Nat]]
    /\ \A x \in Work : x # w => expected'[x] = expected[x]

(* A step of work w: its queues, its registration and its lease. *)
WorkDoes(w, v) ==
    /\ MovesTo(w, v)
    /\ mutationQueue' = mutationQueue /\ activeMutations' = activeMutations
    /\ targets' = targets /\ drained' = drained
    /\ version' = version /\ sweeps' = sweeps /\ plan' = plan /\ ExpectedKept(w)
    /\ registered' = IF v \in Registered THEN registered \cup {w}
                     ELSE registered \ {w}

LEMMA WorkKeeps ==
    ASSUME SessionInv, NEW w \in Work, NEW v \in WorkPhase, WorkDoes(w, v),
           LockFits(lifecycleQueue', phase', Locking, Locked),
           WriterFits(writerQueue', phase'),
           plan # {} => AtHead(Sweep, writerQueue'),
           v \in Admitting => Clear(w),
           v = "leased" => Allowed(w)' /\ plan = {} /\ w \in registered,
           ToldFits', WaitsFit', SignalsFit'
    PROVE  SessionInv'
<1>1. /\ Phases' /\ w \in Proc /\ phase'[w] = v
      /\ \A x \in Work : x # w => phase'[x] = phase[x]
      /\ \A m \in Mutation : phase'[m] = phase[m]
      /\ Moved(phase, phase', w)
    BY WorkPhases DEF SessionInv, QueuesFit, WorkDoes
<1>2. LockFits(mutationQueue', phase', Queueing, Entitled)
    <2>1. phase[w] \notin Queueing /\ v \notin Entitled
        BY DEF SessionInv, QueuesFit, Phases, WorkPhase, Queueing, Entitled
    <2>2. NotIn(w, mutationQueue)
        BY <1>1, <2>1, NotQueued DEF SessionInv, QueuesFit
    <2>3. LockFits(mutationQueue, phase', Queueing, Entitled)
        BY <1>1, <2>1, <2>2, LockSame DEF SessionInv, QueuesFit
    <2> QED BY <2>3 DEF WorkDoes
<1>3. QueuesFit'
    BY <1>1, <1>2 DEF QueuesFit
<1>4. PlanFits'
    <2>1. ASSUME NEW kept \in plan, NEW x \in Work, phase'[x] = "leased"
          PROVE  Ids[x] \subseteq kept
        BY <1>1, <2>1 DEF SessionInv, PlanFits, Running
    <2> QED BY <2>1 DEF SessionInv, PlanFits, Running, AtWriter, WorkDoes
<1>5. CountsFit'
    BY <1>1 DEF SessionInv, CountsFit, WorkDoes
<1>6. Apart'
    BY <1>1 DEF SessionInv, Apart, Clear
<1>7. RegisteredFits'
    <2>1. registered' \subseteq Work
        BY DEF SessionInv, RegisteredFits, WorkDoes
    <2>2. ASSUME NEW x \in Work PROVE x \in registered' <=> phase'[x] \in Registered
        BY <1>1 DEF SessionInv, RegisteredFits, WorkDoes
    <2> QED BY <2>1, <2>2 DEF RegisteredFits
<1>8. DrainFits'
    <2>1. ASSUME NEW m \in Mutation, phase[m] \in Active
          PROVE  Foreign(m)' \subseteq Foreign(m)
        <3>1. CASE registered' \subseteq registered
            BY <3>1 DEF Foreign
        <3>2. CASE v \in Registered /\ v # "leased"
            <4>1. v \in Admitting
                BY <3>2 DEF Registered, Admitting
            <4>2. Ids[w] \cap Ids[m] = {}
                BY <2>1, <4>1 DEF Clear
            <4> QED BY <3>2, <4>2 DEF Foreign, WorkDoes
        <3>3. CASE v = "leased" \/ v \notin Registered
            <4>1. registered' \subseteq registered
                BY <3>3 DEF WorkDoes
            <4> QED BY <3>1, <4>1
        <3> QED BY <3>2, <3>3
    <2>2. targets' = targets /\ drained' = drained
        BY DEF WorkDoes
    <2>3. ASSUME NEW m \in Mutation
          PROVE  /\ phase'[m] = "draining" => Foreign(m)' \subseteq targets[m]
                 /\ phase'[m] \in {"idle", "queued", "activating", "preparing",
                                   "draining"} => m \notin drained
                 /\ phase'[m] = "writing" => m \in drained
                 /\ m \in drained /\ phase'[m] \in {"starting", "writing"}
                      => Foreign(m)' = {}
        BY <1>1, <2>1 DEF SessionInv, DrainFits, Active
    <2> QED BY <2>2, <2>3 DEF SessionInv, DrainFits
<1>9. StoreFits'
    <2>1. ASSUME NEW x \in Work, phase'[x] = "leased" PROVE Allowed(x)'
        <3>1. CASE x = w
            BY <1>1, <2>1, <3>1
        <3>2. CASE x # w
            <4>1. Allowed(x) /\ expected'[x] = expected[x] /\ version' = version
                BY <1>1, <2>1, <3>2
                   DEF SessionInv, StoreFits, LeaseIsCurrent, Running, WorkDoes,
                       ExpectedKept
            <4> QED BY <4>1 DEF Allowed
        <3> QED BY <3>1, <3>2
    <2> QED BY <2>1 DEF SessionInv, StoreFits, LeaseIsCurrent, Running, WorkDoes,
            ExpectedKept
<1> QED BY <1>3, <1>4, <1>5, <1>6, <1>7, <1>8, <1>9 DEF SessionInv

(* A step of mutation m: its queues, its count, its drain and the store. *)
MutationDoes(m, v) ==
    /\ MovesTo(m, v) /\ registered' = registered /\ plan' = plan
    /\ targets' \in [Mutation -> SUBSET Work] /\ drained' \subseteq Mutation
    /\ \A x \in Mutation : x # m => /\ targets'[x] = targets[x]
                                    /\ x \in drained' <=> x \in drained

LEMMA MutationKeeps ==
    ASSUME SessionInv, NEW m \in Mutation, NEW v \in MutationPhase,
           MutationDoes(m, v),
           LockFits(lifecycleQueue', phase', Locking, Locked),
           LockFits(mutationQueue', phase', Queueing, Entitled),
           WriterFits(writerQueue', phase'),
           plan # {} => AtHead(Sweep, writerQueue'),
           CountsFit',
           phase[m] \in Active \/ v \notin Active \/
             \A w \in Work : phase[w] \in Admitting => Ids[w] \cap Ids[m] = {},
           v = "draining" => Foreign(m) \subseteq targets'[m],
           v \in {"idle", "queued", "activating", "preparing", "draining"}
             => m \notin drained',
           v = "writing" => m \in drained',
           m \in drained' /\ v \in {"starting", "writing"} => Foreign(m) = {},
           StoreFits', ToldFits', WaitsFit', SignalsFit'
    PROVE  SessionInv'
<1>1. /\ Phases' /\ m \in Proc /\ phase'[m] = v
      /\ \A x \in Mutation : x # m => phase'[x] = phase[x]
      /\ \A w \in Work : phase'[w] = phase[w]
      /\ Moved(phase, phase', m)
    BY MutationPhases DEF SessionInv, QueuesFit, MutationDoes
<1>2. QueuesFit'
    BY <1>1 DEF QueuesFit
<1>3. PlanFits'
    BY <1>1 DEF SessionInv, PlanFits, Running, AtWriter, MutationDoes
<1>4. Apart'
    <2> SUFFICES ASSUME NEW w \in Work, NEW x \in Mutation,
                        phase'[w] \in Admitting, phase'[x] \in Active
                 PROVE  Ids[w] \cap Ids[x] = {}
        BY DEF Apart
    <2>1. CASE phase[x] \in Active
        BY <1>1, <2>1 DEF SessionInv, Apart
    <2>2. CASE phase[x] \notin Active
        BY <1>1, <2>2
    <2> QED BY <2>1, <2>2
<1>5. RegisteredFits'
    BY <1>1 DEF SessionInv, RegisteredFits, MutationDoes
<1>6. DrainFits'
    <2>1. \A x : Foreign(x)' = Foreign(x)
        BY DEF Foreign, MutationDoes
    <2>2. ASSUME NEW x \in Mutation
          PROVE  /\ phase'[x] = "draining" => Foreign(x) \subseteq targets'[x]
                 /\ phase'[x] \in {"idle", "queued", "activating", "preparing",
                                   "draining"} => x \notin drained'
                 /\ phase'[x] = "writing" => x \in drained'
                 /\ x \in drained' /\ phase'[x] \in {"starting", "writing"}
                      => Foreign(x) = {}
        <3>1. CASE x = m
            BY <1>1, <3>1
        <3>2. CASE x # m
            BY <1>1, <3>2 DEF SessionInv, DrainFits, MutationDoes
        <3> QED BY <3>1, <3>2
    <2> QED BY <2>1, <2>2 DEF DrainFits, MutationDoes
<1> QED BY <1>2, <1>3, <1>4, <1>5, <1>6 DEF SessionInv

-----------------------------------------------------------------------------
(* The steps of work.                                                      *)

LEMMA SweepAppend ==
    ASSUME SessionInv, plan # {}, NEW p \in Proc, p \notin ToSet(writerQueue)
    PROVE  AtHead(Sweep, Append(writerQueue, p))
<1>1. AtHead(Sweep, writerQueue)
    BY DEF SessionInv, PlanFits, AtWriter
<1>2. /\ writerQueue \in Seq(Proc \cup {Sweep}) /\ IsInjective(writerQueue)
      /\ p \in Proc \cup {Sweep}
    BY DEF SessionInv, QueuesFit, WriterFits
<1> QED BY <1>1, <1>2, AppendOnce

LEMMA SweepExcludes ==
    ASSUME SessionInv, NEW p \in Proc, AtWriter(p) PROVE plan = {}
BY ProcFacts, OneHead DEF SessionInv, PlanFits, AtWriter

(* Giving up is safe wherever w is, if it may leave its locks. *)
LEMMA FailKeeps ==
    ASSUME SessionInv, NEW w \in Work, Fails(w), MayLeave(w, lifecycleQueue),
           ExpectedKept(w),
           UNCHANGED <<mutationQueue, activeMutations, interrupted, told, handoff,
                       drainVars, aborted, closed, version, plan, sweeps>>
    PROVE  SessionInv'
<1> USE DEF Fails, FailsAt
<1>1. w \in Proc /\ Phases
    BY ProcFacts DEF SessionInv, QueuesFit
<1>2. MovesTo(w, "failed") /\ "failed" \in WorkPhase /\ "failed" \notin Registered
    BY DEF MovesTo, WorkPhase, Registered
<1>3. phase'[w] = "failed" /\ Moved(phase, phase', w)
    BY <1>1, <1>2, Move
<1>4. WorkDoes(w, "failed")
    BY <1>2 DEF WorkDoes, drainVars
<1>5. LockFits(lifecycleQueue', phase', Locking, Locked)
    <2>1. "failed" \notin Locked
        BY DEF Locked, Admitting
    <2> QED BY <1>1, <1>3, <2>1, LockLeave DEF SessionInv, QueuesFit
<1>6. WriterFits(writerQueue', phase')
    <2>1. "failed" \in AtBarrier /\ "failed" # "revalidating"
          /\ "failed" \notin {"waiting", "locking", "asserting", "barrier"}
        BY DEF AtBarrier
    <2>2. CASE AtWriter(w)
        <3>1. WriterFits(Tail(writerQueue), phase')
            BY <1>1, <1>3, <2>1, <2>2, WriterTail DEF SessionInv, QueuesFit, AtWriter
        <3> QED BY <2>2, <3>1 DEF WriterLeft
    <2>3. CASE ~AtWriter(w)
        <3>1. WriterFits(writerQueue, phase')
            BY <1>1, <1>3, <2>1, WriterSame DEF SessionInv, QueuesFit
        <3> QED BY <2>3, <3>1 DEF WriterLeft
    <2> QED BY <2>2, <2>3
<1>7. plan # {} => AtHead(Sweep, writerQueue')
    BY <1>1, SweepExcludes DEF SessionInv, PlanFits, AtWriter, WriterLeft
<1>8. ToldFits' /\ SignalsFit'
    BY DEF SessionInv, ToldFits, SignalsFit, OwnerOf
<1>9. WaitsFit'
    BY DEF SessionInv, WaitsFit, NoMissedIdle
<1>10. "failed" \notin Admitting /\ "failed" # "leased"
    BY DEF Admitting
<1> QED BY <1>2, <1>4, <1>5, <1>6, <1>7, <1>8, <1>9, <1>10, WorkKeeps

(* The first check, from idle or after a wait. *)
LEMMA AttemptKeeps ==
    ASSUME SessionInv, NEW w \in Work, phase[w] \in {"idle", "waiting"},
           Attempts(w), w \in WriterOwned => AtWriter(w), ExpectedKept(w),
           UNCHANGED <<mutationQueue, activeMutations, interrupted, told, handoff,
                       drainVars, aborted, closed, version, plan, sweeps>>
    PROVE  SessionInv'
<1>1. w \in Proc /\ Phases /\ phase[w] \notin Locking /\ phase[w] \notin Registered
    BY ProcFacts DEF SessionInv, QueuesFit, Locking, Admitting, Registered
<1>2. /\ NotIn(w, lifecycleQueue) /\ Wanted(w, lifecycleQueue) # {}
      /\ MayLeave(w, lifecycleQueue)
    BY <1>1, NotQueued DEF SessionInv, QueuesFit
<1>3. w \notin registered
    BY <1>1 DEF SessionInv, RegisteredFits
<1>4. /\ "waiting" \in WorkPhase \ (Registered \cup Admitting)
      /\ "locking" \in WorkPhase \ (Registered \cup Admitting)
      /\ "waiting" \notin Locked /\ "locking" \notin Locked /\ "locking" \in Locking
    BY DEF WorkPhase, Registered, Admitting, Locked, Locking
<1>5. ToldFits' /\ SignalsFit'
    BY DEF SessionInv, ToldFits, SignalsFit, OwnerOf
<1>6. plan # {} => AtHead(Sweep, writerQueue)
    BY DEF SessionInv, PlanFits, AtWriter
<1>7. ASSUME NEW v \in {"waiting", "locking"}, MovesTo(w, v),
             writerQueue' = writerQueue, registered' = registered
      PROVE  /\ phase'[w] = v /\ Moved(phase, phase', w) /\ WorkDoes(w, v)
             /\ WriterFits(writerQueue', phase')
    <2>1. phase'[w] = v /\ Moved(phase, phase', w)
        BY <1>1, <1>7, Move
    <2>2. WorkDoes(w, v)
        BY <1>3, <1>4, <1>7 DEF WorkDoes, drainVars
    <2>3. v \in Early /\ v # "revalidating"
        BY DEF Early
    <2>4. w \in ToSet(writerQueue) => w \in WriterOwned
        BY <1>1 DEF SessionInv, QueuesFit, WriterFits, AtBarrier
    <2>5. WriterFits(writerQueue, phase')
        BY <1>1, <2>1, <2>3, <2>4, WriterSame DEF SessionInv, QueuesFit, AtWriter
    <2> QED BY <1>7, <2>1, <2>2, <2>5
<1>8. CASE w \in aborted
    BY <1>2, <1>8, FailKeeps DEF Attempts
<1>9. CASE w \notin aborted /\ Busy(Ids[w]) # {}
    <2>1. /\ MovesTo(w, "waiting") /\ writerQueue' = writerQueue
          /\ registered' = registered /\ lifecycleQueue' = lifecycleQueue
          /\ waitsFor' = [waitsFor EXCEPT ![w] = Busy(Ids[w])]
        BY <1>9 DEF Attempts, MovesTo
    <2>2. /\ phase'[w] = "waiting" /\ Moved(phase, phase', w)
          /\ WorkDoes(w, "waiting") /\ WriterFits(writerQueue', phase')
        BY <1>7, <2>1
    <2>3. LockFits(lifecycleQueue', phase', Locking, Locked)
        BY <1>1, <1>2, <1>4, <2>1, <2>2, LockSame DEF SessionInv, QueuesFit
    <2>4. WaitsFit'
        <3>1. Busy(Ids[w]) \in SUBSET Identity
            BY <1>1, IdsFacts DEF Busy
        <3> QED BY <2>1, <3>1 DEF SessionInv, WaitsFit, NoMissedIdle, Busy
    <2> QED BY <1>4, <1>5, <1>6, <2>1, <2>2, <2>3, <2>4, WorkKeeps
<1>10. CASE w \notin aborted /\ Busy(Ids[w]) = {}
    <2>1. /\ MovesTo(w, "locking") /\ writerQueue' = writerQueue
          /\ registered' = registered /\ lifecycleQueue' = Join(lifecycleQueue, w)
          /\ waitsFor' = waitsFor
        BY <1>10 DEF Attempts, MovesTo
    <2>2. /\ phase'[w] = "locking" /\ Moved(phase, phase', w)
          /\ WorkDoes(w, "locking") /\ WriterFits(writerQueue', phase')
        BY <1>7, <2>1
    <2>3. LockFits(lifecycleQueue', phase', Locking, Locked)
        BY <1>1, <1>2, <1>4, <2>1, <2>2, LockJoin DEF SessionInv, QueuesFit
    <2>4. WaitsFit'
        BY <2>1 DEF SessionInv, WaitsFit, NoMissedIdle
    <2> QED BY <1>4, <1>5, <1>6, <2>1, <2>2, <2>3, <2>4, WorkKeeps
<1> QED BY <1>8, <1>9, <1>10

LEMMA BeginKeeps ==
    ASSUME SessionInv, NEW w \in Work, Begin(w) PROVE SessionInv'
<1>1. ExpectedKept(w)
    BY DEF Begin, ExpectedKept, SessionInv, StoreFits
<1>2. UNCHANGED <<mutationQueue, activeMutations, interrupted, told, handoff,
                  drainVars, aborted, closed, version, plan, sweeps>>
    BY DEF Begin
<1>3. w \in Proc /\ phase[w] = "idle" /\ (w \in WriterOwned => AtWriter(w))
    BY ProcFacts DEF Begin
<1>4. CASE closed
    <2>1. "idle" \notin Locking
        BY DEF Locking, Admitting
    <2>2. MayLeave(w, lifecycleQueue)
        BY <1>3, <2>1, NotQueued DEF SessionInv, QueuesFit
    <2>3. Fails(w)
        BY <1>4 DEF Begin
    <2> QED BY <1>1, <1>2, <2>2, <2>3, FailKeeps
<1>5. CASE ~closed
    <2>1. Attempts(w)
        BY <1>5 DEF Begin
    <2> QED BY <1>1, <1>2, <1>3, <2>1, AttemptKeeps
<1> QED BY <1>4, <1>5

LEMMA StopsWaitingKeeps ==
    ASSUME SessionInv, NEW w \in Work, StopsWaiting(w) PROVE SessionInv'
<1>1. ExpectedKept(w)
    BY DEF StopsWaiting, storeVars, ExpectedKept, SessionInv, StoreFits
<1>2. UNCHANGED <<mutationQueue, activeMutations, interrupted, told, handoff,
                  drainVars, aborted, closed, version, plan, sweeps>>
    BY DEF StopsWaiting, storeVars
<1>3. phase[w] = "waiting" /\ Attempts(w)
    BY DEF StopsWaiting
<1>4. w \in WriterOwned => AtWriter(w)
    BY <1>3 DEF SessionInv, QueuesFit, WriterFits, AtWriter
<1> QED BY <1>1, <1>2, <1>3, <1>4, AttemptKeeps

LEMMA EnterLockedKeeps ==
    ASSUME SessionInv, NEW w \in Work, EnterLocked(w) PROVE SessionInv'
<1>1. /\ w \in Proc /\ Phases /\ phase[w] = "locking" /\ Holds(w, lifecycleQueue)
    BY ProcFacts DEF EnterLocked, SessionInv, QueuesFit
<1>2. UNCHANGED <<mutationQueue, activeMutations, interrupted, told, handoff,
                  drainVars, aborted, closed, version, plan, sweeps>>
    BY DEF EnterLocked, storeVars
<1>3. ExpectedKept(w)
    BY DEF EnterLocked, storeVars, ExpectedKept, SessionInv, StoreFits
<1>4. MayLeave(w, lifecycleQueue)
    BY <1>1, HolderMayLeave DEF SessionInv, QueuesFit
<1>5. w \notin registered
    BY <1>1 DEF SessionInv, RegisteredFits, Registered
<1>6. /\ "waiting" \in WorkPhase \ (Registered \cup Admitting)
      /\ "asserting" \in WorkPhase \ Registered
      /\ "waiting" \notin Locked /\ "asserting" \in Locking
    BY DEF WorkPhase, Registered, Admitting, Locked, Locking
<1>7. ToldFits' /\ SignalsFit'
    BY <1>2 DEF SessionInv, ToldFits, SignalsFit, OwnerOf
<1>8. plan # {} => AtHead(Sweep, writerQueue)
    BY DEF SessionInv, PlanFits, AtWriter
<1>9. ASSUME NEW v \in {"waiting", "asserting"}, MovesTo(w, v),
             writerQueue' = writerQueue, registered' = registered
      PROVE  /\ phase'[w] = v /\ Moved(phase, phase', w) /\ WorkDoes(w, v)
             /\ WriterFits(writerQueue', phase')
    <2>1. phase'[w] = v /\ Moved(phase, phase', w)
        BY <1>1, <1>9, Move
    <2>2. WorkDoes(w, v)
        BY <1>2, <1>3, <1>5, <1>6, <1>9 DEF WorkDoes, drainVars
    <2>3. v \in Early /\ v # "revalidating"
        BY DEF Early
    <2>4. /\ w \in ToSet(writerQueue) => w \in WriterOwned
          /\ w \in WriterOwned => AtHead(w, writerQueue)
        BY <1>1 DEF SessionInv, QueuesFit, WriterFits, AtBarrier
    <2>5. WriterFits(writerQueue, phase')
        BY <1>1, <2>1, <2>3, <2>4, WriterSame DEF SessionInv, QueuesFit
    <2> QED BY <1>9, <2>1, <2>2, <2>5
<1>10. CASE w \in aborted
    <2>1. Fails(w)
        BY <1>10 DEF EnterLocked
    <2> QED BY <1>2, <1>3, <1>4, <2>1, FailKeeps
<1>11. CASE w \notin aborted /\ Blocked(w)
    <2>1. /\ MovesTo(w, "waiting") /\ writerQueue' = writerQueue
          /\ registered' = registered
          /\ lifecycleQueue' = Leave(lifecycleQueue, w)
          /\ waitsFor' = [waitsFor EXCEPT ![w] = Busy(Ids[w])]
        BY <1>11 DEF EnterLocked, MovesTo
    <2>2. /\ phase'[w] = "waiting" /\ Moved(phase, phase', w)
          /\ WorkDoes(w, "waiting") /\ WriterFits(writerQueue', phase')
        BY <1>9, <2>1
    <2>3. LockFits(lifecycleQueue', phase', Locking, Locked)
        BY <1>1, <1>4, <1>6, <2>1, <2>2, LockLeave DEF SessionInv, QueuesFit
    <2>4. WaitsFit'
        <3>1. Busy(Ids[w]) \in SUBSET Identity
            BY <1>1, IdsFacts DEF Busy
        <3> QED BY <1>2, <2>1, <3>1 DEF SessionInv, WaitsFit, NoMissedIdle, Busy
    <2> QED BY <1>6, <1>7, <1>8, <2>1, <2>2, <2>3, <2>4, WorkKeeps
<1>12. CASE w \notin aborted /\ ~Blocked(w)
    <2>1. /\ MovesTo(w, "asserting") /\ writerQueue' = writerQueue
          /\ registered' = registered /\ lifecycleQueue' = lifecycleQueue
          /\ waitsFor' = waitsFor
        BY <1>12 DEF EnterLocked, MovesTo
    <2>2. /\ phase'[w] = "asserting" /\ Moved(phase, phase', w)
          /\ WorkDoes(w, "asserting") /\ WriterFits(writerQueue', phase')
        BY <1>9, <2>1
    <2>3. LockFits(lifecycleQueue', phase', Locking, Locked)
        BY <1>1, <1>6, <2>1, <2>2, LockSame DEF SessionInv, QueuesFit
    <2>4. WaitsFit'
        BY <1>2, <2>1 DEF SessionInv, WaitsFit, NoMissedIdle
    <2>5. Clear(w)
        <3> SUFFICES ASSUME NEW m \in Mutation, phase[m] \in Active,
                            NEW i \in Ids[w] \cap Ids[m]
                     PROVE  FALSE
            BY DEF Clear
        <3>1. i \in Identity /\ activeMutations[i] = 1
            BY <1>1, IdsFacts DEF SessionInv, CountsFit
        <3>2. i \in Busy(Ids[w])
            BY <3>1 DEF Busy
        <3> QED BY <1>12, <3>2 DEF Blocked
    <2> QED BY <1>6, <1>7, <1>8, <2>1, <2>2, <2>3, <2>4, <2>5, WorkKeeps
<1> QED BY <1>10, <1>11, <1>12

LEMMA RegisterKeeps ==
    ASSUME SessionInv, NEW w \in Work, Register(w) PROVE SessionInv'
<1>1. /\ w \in Proc /\ Phases /\ phase[w] = "asserting"
    BY ProcFacts DEF Register, SessionInv, QueuesFit
<1>2. UNCHANGED <<mutationQueue, activeMutations, interrupted, told, handoff,
                  drainVars, aborted, closed, version, plan, sweeps>>
    BY DEF Register, storeVars
<1>3. ExpectedKept(w)
    BY DEF Register, storeVars, ExpectedKept, SessionInv, StoreFits
<1>4. Holds(w, lifecycleQueue) /\ Clear(w)
    BY <1>1 DEF SessionInv, QueuesFit, LockFits, Locked, Admitting, Apart, Clear
<1>5. CASE ~Allowed(w) \/ ClosedNow
    <2>1. MayLeave(w, lifecycleQueue)
        BY <1>1, <1>4, HolderMayLeave DEF SessionInv, QueuesFit
    <2>2. Fails(w)
        BY <1>5 DEF Register
    <2> QED BY <1>2, <1>3, <2>1, <2>2, FailKeeps
<1>6. CASE Allowed(w) /\ ~ClosedNow
    <2>1. /\ MovesTo(w, "barrier") /\ registered' = registered \cup {w}
          /\ writerQueue' = IF AtWriter(w) THEN writerQueue
                            ELSE Append(writerQueue, w)
          /\ waitsFor' = waitsFor /\ lifecycleQueue' = lifecycleQueue
        BY <1>6 DEF Register, MovesTo
    <2>2. phase'[w] = "barrier" /\ Moved(phase, phase', w)
        BY <1>1, <2>1, Move
    <2>3. /\ "barrier" \in WorkPhase /\ "barrier" \in Registered
          /\ "barrier" \in Locking /\ "barrier" \in AtBarrier
        BY DEF WorkPhase, Registered, Locking, Admitting, AtBarrier
    <2>4. WorkDoes(w, "barrier")
        BY <1>2, <1>3, <2>1, <2>3 DEF WorkDoes, drainVars
    <2>5. LockFits(lifecycleQueue', phase', Locking, Locked)
        BY <1>1, <1>4, <2>1, <2>2, <2>3, LockSame DEF SessionInv, QueuesFit
    <2>6. WriterFits(writerQueue', phase') /\ (plan # {} => AtHead(Sweep, writerQueue'))
        <3>1. CASE AtWriter(w)
            <4>1. WriterFits(writerQueue, phase')
                BY <1>1, <2>2, <2>3, <3>1, WriterSame DEF SessionInv, QueuesFit, AtWriter
            <4>2. plan = {}
                BY <1>1, <3>1, SweepExcludes
            <4> QED BY <2>1, <3>1, <4>1, <4>2
        <3>2. CASE ~AtWriter(w)
            <4>1. w \notin WriterOwned /\ w \notin ToSet(writerQueue)
                BY <1>1, <3>2 DEF SessionInv, QueuesFit, WriterFits, AtWriter, AtBarrier
            <4>2. WriterFits(Append(writerQueue, w), phase')
                BY <1>1, <2>2, <2>3, <4>1, WriterAppend DEF SessionInv, QueuesFit
            <4>3. plan # {} => AtHead(Sweep, Append(writerQueue, w))
                BY <1>1, <4>1, SweepAppend
            <4> QED BY <2>1, <3>2, <4>2, <4>3
        <3> QED BY <3>1, <3>2
    <2>7. ToldFits' /\ SignalsFit' /\ WaitsFit'
        BY <1>2, <2>1 DEF SessionInv, ToldFits, SignalsFit, OwnerOf, WaitsFit, NoMissedIdle
    <2> QED BY <1>4, <2>3, <2>4, <2>5, <2>6, <2>7, WorkKeeps
<1> QED BY <1>5, <1>6

LEMMA BarrierKeeps ==
    ASSUME SessionInv, NEW w \in Work, BarrierStarts(w) PROVE SessionInv'
<1>1. /\ w \in Proc /\ Phases /\ phase[w] = "barrier" /\ AtWriter(w)
    BY ProcFacts DEF BarrierStarts, SessionInv, QueuesFit
<1>2. UNCHANGED <<mutationQueue, activeMutations, interrupted, told, handoff,
                  drainVars, aborted, closed, version, plan, sweeps>>
    BY DEF BarrierStarts, storeVars
<1>3. ExpectedKept(w)
    BY DEF BarrierStarts, storeVars, ExpectedKept, SessionInv, StoreFits
<1>4. Holds(w, lifecycleQueue) /\ Clear(w)
    BY <1>1 DEF SessionInv, QueuesFit, LockFits, Locked, Admitting, Apart, Clear
<1>5. CASE w \in aborted
    <2>1. MayLeave(w, lifecycleQueue)
        BY <1>1, <1>4, HolderMayLeave DEF SessionInv, QueuesFit
    <2>2. Fails(w)
        BY <1>5 DEF BarrierStarts
    <2> QED BY <1>2, <1>3, <2>1, <2>2, FailKeeps
<1>6. CASE w \notin aborted
    <2>1. /\ MovesTo(w, "revalidating") /\ registered' = registered
          /\ writerQueue' = writerQueue
          /\ waitsFor' = waitsFor /\ lifecycleQueue' = lifecycleQueue
        BY <1>6 DEF BarrierStarts, MovesTo
    <2>2. phase'[w] = "revalidating" /\ Moved(phase, phase', w)
        BY <1>1, <2>1, Move
    <2>3. /\ "revalidating" \in WorkPhase /\ "revalidating" \in Registered
          /\ "revalidating" \in Locking /\ "revalidating" \in AtBarrier
        BY DEF WorkPhase, Registered, Locking, Admitting, AtBarrier
    <2>4. w \in registered
        BY <1>1 DEF SessionInv, RegisteredFits, Registered
    <2>5. WorkDoes(w, "revalidating")
        BY <1>2, <1>3, <2>1, <2>3, <2>4 DEF WorkDoes, drainVars
    <2>6. LockFits(lifecycleQueue', phase', Locking, Locked)
        BY <1>1, <1>4, <2>1, <2>2, <2>3, LockSame DEF SessionInv, QueuesFit
    <2>7. WriterFits(writerQueue', phase')
        BY <1>1, <2>1, <2>2, <2>3, WriterSame DEF SessionInv, QueuesFit, AtWriter
    <2>8. plan # {} => AtHead(Sweep, writerQueue')
        BY <2>1 DEF SessionInv, PlanFits, AtWriter
    <2>9. ToldFits' /\ SignalsFit' /\ WaitsFit'
        BY <1>2, <2>1 DEF SessionInv, ToldFits, SignalsFit, OwnerOf, WaitsFit, NoMissedIdle
    <2> QED BY <1>4, <2>3, <2>5, <2>6, <2>7, <2>8, <2>9, WorkKeeps
<1> QED BY <1>5, <1>6

LEMMA AbortedAtBarrierKeeps ==
    ASSUME SessionInv, NEW w \in Work, AbortedAtBarrier(w) PROVE SessionInv'
<1>1. /\ w \in Proc /\ phase[w] = "barrier" /\ ~AtWriter(w)
    BY ProcFacts DEF AbortedAtBarrier
<1>2. UNCHANGED <<mutationQueue, activeMutations, interrupted, told, handoff,
                  drainVars, aborted, closed, version, plan, sweeps>>
    BY DEF AbortedAtBarrier, storeVars
<1>3. ExpectedKept(w)
    BY DEF AbortedAtBarrier, storeVars, ExpectedKept, SessionInv, StoreFits
<1>4. Holds(w, lifecycleQueue)
    BY <1>1 DEF SessionInv, QueuesFit, LockFits, Locked, Admitting
<1>5. MayLeave(w, lifecycleQueue)
    BY <1>1, <1>4, HolderMayLeave DEF SessionInv, QueuesFit
<1>6. Fails(w)
    BY <1>1 DEF AbortedAtBarrier, Fails, WriterLeft
<1> QED BY <1>2, <1>3, <1>5, <1>6, FailKeeps

LEMMA RevalidateKeeps ==
    ASSUME SessionInv, NEW w \in Work, Revalidate(w) PROVE SessionInv'
<1>1. /\ w \in Proc /\ Phases /\ phase[w] = "revalidating" /\ AtWriter(w)
    BY ProcFacts DEF Revalidate, SessionInv, QueuesFit, WriterFits, AtWriter
<1>2. UNCHANGED <<mutationQueue, activeMutations, interrupted, told, handoff,
                  drainVars, aborted, closed, version, plan, sweeps>>
    BY DEF Revalidate, storeVars
<1>3. ExpectedKept(w) /\ expected' = expected
    BY DEF Revalidate, storeVars, ExpectedKept, SessionInv, StoreFits
<1>4. Holds(w, lifecycleQueue)
    BY <1>1 DEF SessionInv, QueuesFit, LockFits, Locked, Admitting
<1>5. MayLeave(w, lifecycleQueue)
    BY <1>1, <1>4, HolderMayLeave DEF SessionInv, QueuesFit
<1>6. CASE ~Revalidated(w)
    <2>1. Fails(w)
        BY <1>6 DEF Revalidate
    <2> QED BY <1>2, <1>3, <1>5, <2>1, FailKeeps
<1>7. CASE Revalidated(w)
    <2>1. /\ MovesTo(w, "leased") /\ registered' = registered
          /\ writerQueue' = Tail(writerQueue)
          /\ waitsFor' = waitsFor /\ lifecycleQueue' = Leave(lifecycleQueue, w)
        BY <1>7 DEF Revalidate, MovesTo
    <2>2. phase'[w] = "leased" /\ Moved(phase, phase', w)
        BY <1>1, <2>1, Move
    <2>3. /\ "leased" \in WorkPhase /\ "leased" \in Registered
          /\ "leased" \notin Locked /\ "leased" \notin Admitting
          /\ "leased" \notin {"waiting", "locking", "asserting", "barrier"}
        BY DEF WorkPhase, Registered, Locked, Admitting
    <2>4. w \in registered /\ plan = {}
        BY <1>1, SweepExcludes DEF SessionInv, RegisteredFits, Registered
    <2>5. WorkDoes(w, "leased")
        BY <1>2, <1>3, <2>1, <2>3, <2>4 DEF WorkDoes, drainVars
    <2>6. LockFits(lifecycleQueue', phase', Locking, Locked)
        BY <1>1, <1>5, <2>1, <2>2, <2>3, LockLeave DEF SessionInv, QueuesFit
    <2>7. WriterFits(writerQueue', phase')
        BY <1>1, <2>1, <2>2, <2>3, WriterTail DEF SessionInv, QueuesFit, AtWriter
    <2>8. Allowed(w)'
        BY <1>2, <1>3, <1>7 DEF Revalidated, Allowed
    <2>9. ToldFits' /\ SignalsFit' /\ WaitsFit'
        BY <1>2, <2>1 DEF SessionInv, ToldFits, SignalsFit, OwnerOf, WaitsFit, NoMissedIdle
    <2> QED BY <2>3, <2>4, <2>5, <2>6, <2>7, <2>8, <2>9, WorkKeeps
<1> QED BY <1>6, <1>7

LEMMA ReleaseKeeps ==
    ASSUME SessionInv, NEW w \in Work, Release(w) PROVE SessionInv'
<1> USE DEF Release, lockVars, drainVars, storeVars
<1>1. /\ w \in Proc /\ Phases /\ phase[w] = "leased"
    BY ProcFacts DEF Running, SessionInv, QueuesFit
<1>2. MovesTo(w, "released") /\ phase'[w] = "released" /\ Moved(phase, phase', w)
    BY <1>1, Move DEF MovesTo
<1>3. /\ "released" \in WorkPhase \ (Registered \cup Admitting)
      /\ "released" \notin Locked /\ "leased" \notin Locking
    BY DEF WorkPhase, Registered, Locked, Admitting, Locking
<1>4. ExpectedKept(w)
    BY DEF ExpectedKept, SessionInv, StoreFits
<1>5. WorkDoes(w, "released")
    BY <1>2, <1>3, <1>4 DEF WorkDoes
<1>6. NotIn(w, lifecycleQueue)
    BY <1>1, <1>3, NotQueued DEF SessionInv, QueuesFit
<1>7. LockFits(lifecycleQueue, phase', Locking, Locked)
    BY <1>1, <1>2, <1>3, <1>6, LockSame DEF SessionInv, QueuesFit
<1>8. w \notin ToSet(writerQueue)
    BY <1>1 DEF SessionInv, QueuesFit, WriterFits, AtBarrier, Early
<1>9. WriterFits(writerQueue, phase')
    BY <1>1, <1>2, <1>8, WriterSame DEF SessionInv, QueuesFit
<1>10. plan # {} => AtHead(Sweep, writerQueue')
    BY DEF SessionInv, PlanFits, AtWriter
<1>11. ToldFits' /\ SignalsFit' /\ WaitsFit'
    BY DEF SessionInv, ToldFits, SignalsFit, OwnerOf, WaitsFit, NoMissedIdle
<1> QED BY <1>3, <1>5, <1>7, <1>9, <1>10, <1>11, WorkKeeps

(* Steps that move no process. *)
LEMMA QueuesSame ==
    ASSUME QueuesFit, UNCHANGED <<phase, lifecycleQueue, mutationQueue, writerQueue>>
    PROVE  QueuesFit'
BY DEF QueuesFit, Phases

LEMMA EnterWriterKeeps ==
    ASSUME SessionInv, NEW w \in Work, EnterWriter(w) PROVE SessionInv'
<1> USE DEF EnterWriter, leaseVars, drainVars, storeVars
<1>1. w \in Proc /\ phase[w] = "idle" /\ w \in WriterOwned
    BY ProcFacts
<1>2. "idle" \in Early /\ Moved(phase, phase, w)
    BY DEF Early, Moved
<1>3. WriterFits(Append(writerQueue, w), phase)
    BY <1>1, <1>2, WriterAppend DEF SessionInv, QueuesFit
<1>4. QueuesFit'
    BY <1>3 DEF SessionInv, QueuesFit, Phases
<1>5. plan # {} => AtHead(Sweep, writerQueue')
    BY <1>1, SweepAppend
<1>6. PlanFits'
    BY <1>5 DEF SessionInv, PlanFits, AtWriter, Running
<1>7. CountsFit' /\ Apart' /\ RegisteredFits' /\ DrainFits'
    BY DEF SessionInv, CountsFit, Apart, RegisteredFits, DrainFits, Foreign
<1>8. StoreFits' /\ ToldFits' /\ WaitsFit' /\ SignalsFit'
    BY DEF SessionInv, StoreFits, LeaseIsCurrent, Running, Allowed, ToldFits,
           OwnerOf, WaitsFit, NoMissedIdle, SignalsFit
<1> QED BY <1>4, <1>6, <1>7, <1>8 DEF SessionInv

LEMMA AbandonedKeeps ==
    ASSUME SessionInv, NEW w \in Work, AbandonedBarrier(w) PROVE SessionInv'
<1> USE DEF AbandonedBarrier, leaseVars, drainVars, storeVars
<1>1. w \in Proc /\ phase[w] = "failed" /\ AtHead(w, writerQueue)
    BY ProcFacts DEF AtWriter
<1>2. Moved(phase, phase, w)
    BY DEF Moved
<1>3. WriterFits(Tail(writerQueue), phase)
    BY <1>1, <1>2, WriterTail DEF SessionInv, QueuesFit
<1>4. QueuesFit'
    BY <1>3 DEF SessionInv, QueuesFit, Phases
<1>5. plan = {}
    BY <1>1, SweepExcludes DEF AtWriter
<1>6. PlanFits'
    BY <1>5 DEF PlanFits
<1>7. CountsFit' /\ Apart' /\ RegisteredFits' /\ DrainFits'
    BY DEF SessionInv, CountsFit, Apart, RegisteredFits, DrainFits, Foreign
<1>8. StoreFits' /\ ToldFits' /\ WaitsFit' /\ SignalsFit'
    BY DEF SessionInv, StoreFits, LeaseIsCurrent, Running, Allowed, ToldFits,
           OwnerOf, WaitsFit, NoMissedIdle, SignalsFit
<1> QED BY <1>4, <1>6, <1>7, <1>8 DEF SessionInv

LEMMA TakeLifecycleKeeps ==
    ASSUME SessionInv, NEW p \in Proc, TakeLifecycleLock(p) PROVE SessionInv'
<1> USE DEF TakeLifecycleLock, leaseVars, drainVars, storeVars
<1>1. /\ phase[p] \in Locking /\ phase[p] \notin Locked
    BY DEF Locking, Locked, Admitting
<1>2. Wanted(p, lifecycleQueue) # {}
    BY AtTurnWants DEF SessionInv, QueuesFit, LockFits
<1>3. Moved(phase, phase, p)
    BY DEF Moved
<1>4. LockFits(Join(lifecycleQueue, p), phase, Locking, Locked)
    BY <1>1, <1>2, <1>3, LockJoin DEF SessionInv, QueuesFit
<1>5. QueuesFit'
    BY <1>4 DEF SessionInv, QueuesFit, Phases
<1>6. PlanFits'
    BY DEF SessionInv, PlanFits, AtWriter, Running
<1>7. CountsFit' /\ Apart' /\ RegisteredFits' /\ DrainFits'
    BY DEF SessionInv, CountsFit, Apart, RegisteredFits, DrainFits, Foreign
<1>8. StoreFits' /\ ToldFits' /\ WaitsFit' /\ SignalsFit'
    BY DEF SessionInv, StoreFits, LeaseIsCurrent, Running, Allowed, ToldFits,
           OwnerOf, WaitsFit, NoMissedIdle, SignalsFit
<1> QED BY <1>5, <1>6, <1>7, <1>8 DEF SessionInv

LEMMA HandoffKeeps ==
    ASSUME SessionInv, NEW w \in Work, CreateHandoff(w) \/ ConsumeHandoff(w)
    PROVE  SessionInv'
<1>1. UNCHANGED <<phase, lockVars, activeMutations, waitsFor, registered,
                  interrupted, drainVars, aborted, closed, storeVars>>
    BY DEF CreateHandoff, ConsumeHandoff
<1> USE DEF lockVars, drainVars, storeVars
<1>2. QueuesFit'
    BY <1>1, QueuesSame DEF SessionInv
<1>3. PlanFits'
    BY <1>1 DEF SessionInv, PlanFits, AtWriter, Running
<1>4. CountsFit' /\ Apart' /\ RegisteredFits' /\ DrainFits'
    BY <1>1 DEF SessionInv, CountsFit, Apart, RegisteredFits, DrainFits, Foreign
<1>5. StoreFits' /\ WaitsFit' /\ SignalsFit'
    BY <1>1 DEF SessionInv, StoreFits, LeaseIsCurrent, Running, Allowed,
           WaitsFit, NoMissedIdle, SignalsFit
<1>6. ToldFits'
    <2>1. CASE CreateHandoff(w)
        <3>1. /\ handoff[w] = "none" /\ told' = told
              /\ handoff' = [handoff EXCEPT ![w] = "out"]
            BY <2>1 DEF CreateHandoff
        <3>2. \A x \in Work : OwnerOf(x)' = OwnerOf(x)
            BY <3>1 DEF SessionInv, ToldFits, OwnerOf
        <3> QED BY <1>1, <3>1, <3>2 DEF SessionInv, ToldFits
    <2>2. CASE ConsumeHandoff(w)
        <3>1. /\ told' = [told EXCEPT ![w] = ToldAtAdoption(w)]
              /\ handoff' = [handoff EXCEPT ![w] = "adopted"]
            BY <2>2 DEF ConsumeHandoff
        <3>2. ToldAtAdoption(w) \in SUBSET Owner
            BY DEF ToldAtAdoption, SessionInv, ToldFits, Owner
        <3>3. ASSUME NEW x \in interrupted PROVE OwnerOf(x)' \in told'[x]
            <4>1. x \in Work
                BY DEF SessionInv, ToldFits
            <4>2. CASE x = w
                BY <3>1, <4>1, <4>2 DEF SessionInv, ToldFits, OwnerOf, ToldAtAdoption
            <4>3. CASE x # w
                BY <3>1, <4>1, <4>3 DEF SessionInv, ToldFits, OwnerOf
            <4> QED BY <4>2, <4>3
        <3> QED BY <1>1, <3>1, <3>2, <3>3 DEF SessionInv, ToldFits
    <2> QED BY <2>1, <2>2
<1> QED BY <1>2, <1>3, <1>4, <1>5, <1>6 DEF SessionInv

-----------------------------------------------------------------------------
(* The steps of mutations.                                                 *)

LEMMA MutationMove ==
    ASSUME SessionInv, NEW m \in Mutation, NEW v \in MutationPhase, MovesTo(m, v)
    PROVE  /\ Phases /\ m \in Proc /\ m \notin WriterOwned
           /\ phase'[m] = v /\ Moved(phase, phase', m)
           /\ \A w \in Work : phase'[w] = phase[w]
           /\ \A x \in Mutation : x # m => phase'[x] = phase[x]
           /\ phase[m] \in AtBarrier <=> phase[m] = "writing"
           /\ plan # {} => AtHead(Sweep, writerQueue)
<1>1. Phases /\ m \notin WriterOwned /\ (plan # {} => AtHead(Sweep, writerQueue))
    BY ProcFacts DEF SessionInv, QueuesFit, PlanFits, AtWriter
<1>2. phase[m] \in AtBarrier <=> phase[m] = "writing"
    BY <1>1 DEF Phases, MutationPhase, AtBarrier
<1> QED BY <1>1, <1>2, MutationPhases

(* What a mutation does not touch stays right. *)
LEMMA MutationLeaves ==
    ASSUME SessionInv, NEW m \in Mutation, NEW v \in MutationPhase, MovesTo(m, v)
    PROVE  /\ UNCHANGED storeVars => StoreFits'
           /\ UNCHANGED <<interrupted, told, handoff>> => ToldFits'
           /\ UNCHANGED <<waitsFor, activeMutations>> => WaitsFit'
           /\ UNCHANGED <<aborted, closed>> => SignalsFit'
<1>1. \A w \in Work : phase'[w] = phase[w]
    BY MutationMove
<1>2. UNCHANGED storeVars => StoreFits'
    BY <1>1 DEF SessionInv, StoreFits, storeVars, LeaseIsCurrent, Running, Allowed
<1>3. UNCHANGED <<interrupted, told, handoff>> => ToldFits'
    BY DEF SessionInv, ToldFits, OwnerOf
<1>4. UNCHANGED <<waitsFor, activeMutations>> => WaitsFit'
    BY DEF SessionInv, WaitsFit, NoMissedIdle
<1>5. UNCHANGED <<aborted, closed>> => SignalsFit'
    BY DEF SessionInv, SignalsFit
<1> QED BY <1>2, <1>3, <1>4, <1>5

(* Neither does the count of a mutation that stays active, or inactive. *)
LEMMA CountSame ==
    ASSUME SessionInv, NEW m \in Mutation, NEW v \in MutationPhase, MovesTo(m, v),
           v \in Active <=> phase[m] \in Active, activeMutations' = activeMutations
    PROVE  CountsFit'
<1>1. \A x \in Mutation : phase'[x] \in Active <=> phase[x] \in Active
    BY MutationMove
<1> QED BY <1>1 DEF SessionInv, CountsFit

(* A mutation that does not write is not in the writer's queue. *)
LEMMA WriterUntouched ==
    ASSUME SessionInv, NEW m \in Mutation, NEW v \in MutationPhase, MovesTo(m, v),
           phase[m] # "writing"
    PROVE  WriterFits(writerQueue, phase') /\ m \notin ToSet(writerQueue)
<1>1. /\ m \in Proc /\ m \notin WriterOwned /\ phase'[m] = v
      /\ Moved(phase, phase', m) /\ phase[m] \notin AtBarrier
    BY MutationMove
<1>2. m \notin ToSet(writerQueue)
    BY <1>1 DEF SessionInv, QueuesFit, WriterFits
<1>3. v # "revalidating"
    BY DEF MutationPhase
<1> QED BY <1>1, <1>2, <1>3, WriterSame DEF SessionInv, QueuesFit

(* An entitled mutation keeps its mutation locks. *)
LEMMA EntitledKept ==
    ASSUME SessionInv, NEW m \in Mutation, NEW v \in Entitled, MovesTo(m, v),
           Holds(m, mutationQueue)
    PROVE  LockFits(mutationQueue, phase', Queueing, Entitled)
<1>1. v \in MutationPhase /\ v \in Queueing
    BY DEF Entitled, MutationPhase, Queueing
<1>2. m \in Proc /\ phase'[m] = v /\ Moved(phase, phase', m)
    BY <1>1, MutationMove
<1> QED BY <1>1, <1>2, LockSame DEF SessionInv, QueuesFit

LEMMA StartKeeps ==
    ASSUME SessionInv, NEW m \in Mutation, Start(m) PROVE SessionInv'
<1> USE DEF Start, unchangedByMutation, drainVars
<1>1. /\ phase[m] = "idle" /\ "idle" \notin Locking /\ "idle" \notin Queueing
      /\ "idle" \notin Active
    BY DEF Locking, Admitting, Queueing, Entitled, Active
<1>2. PICK v \in {"done", "queued"} :
        /\ MovesTo(m, v)
        /\ v = "done" => mutationQueue' = mutationQueue
        /\ v = "queued" => mutationQueue' = Join(mutationQueue, m)
    BY DEF MovesTo
<1>3. /\ v \in MutationPhase /\ v \notin Active /\ v \notin Locked
      /\ v \notin Entitled /\ "queued" \in Queueing
    BY DEF MutationPhase, Active, Locked, Admitting, Entitled, Queueing
<1>4. /\ m \in Proc /\ phase'[m] = v /\ Moved(phase, phase', m)
      /\ plan # {} => AtHead(Sweep, writerQueue)
    BY <1>2, <1>3, MutationMove
<1>5. /\ NotIn(m, lifecycleQueue) /\ NotIn(m, mutationQueue)
      /\ Wanted(m, mutationQueue) # {}
    BY <1>1, <1>4, NotQueued DEF SessionInv, QueuesFit
<1>6. LockFits(lifecycleQueue', phase', Locking, Locked)
    BY <1>3, <1>4, <1>5, LockSame DEF SessionInv, QueuesFit
<1>7. LockFits(mutationQueue', phase', Queueing, Entitled)
    <2>1. CASE v = "done"
        BY <1>2, <1>3, <1>4, <1>5, <2>1, LockSame DEF SessionInv, QueuesFit
    <2>2. CASE v = "queued"
        BY <1>2, <1>3, <1>4, <1>5, <2>2, LockJoin DEF SessionInv, QueuesFit
    <2> QED BY <2>1, <2>2
<1>8. WriterFits(writerQueue', phase') /\ CountsFit'
    BY <1>1, <1>2, <1>3, WriterUntouched, CountSame
<1>9. StoreFits' /\ ToldFits' /\ WaitsFit' /\ SignalsFit'
    BY <1>2, <1>3, MutationLeaves
<1>10. MutationDoes(m, v) /\ m \notin drained'
    BY <1>1, <1>2 DEF MutationDoes, SessionInv, DrainFits, storeVars
<1> QED BY <1>2, <1>3, <1>4, <1>6, <1>7, <1>8, <1>9, <1>10, MutationKeeps

LEMMA TakeMutationKeeps ==
    ASSUME SessionInv, NEW m \in Mutation, TakeMutationLock(m) PROVE SessionInv'
<1> USE DEF TakeMutationLock, unchangedByMutation, drainVars
<1>1. /\ phase[m] = "queued" /\ "queued" \notin Locking /\ "queued" \notin Active
      /\ phase \in [Proc -> WorkPhase \cup MutationPhase] /\ m \in Proc
    BY ProcFacts DEF Locking, Admitting, Active, SessionInv, QueuesFit, Phases
<1>2. PICK v \in {"activating", "queued"} :
        /\ MovesTo(m, v)
        /\ v = "activating" => /\ Holds(m, mutationQueue)
                               /\ mutationQueue' = mutationQueue
                               /\ lifecycleQueue' = Join(lifecycleQueue, m)
        /\ v = "queued" => /\ ~Holds(m, mutationQueue)
                           /\ mutationQueue' = Join(mutationQueue, m)
                           /\ lifecycleQueue' = lifecycleQueue
    BY <1>1 DEF MovesTo
<1>3. /\ v \in MutationPhase /\ v \notin Active /\ v \notin Locked
      /\ "queued" \notin Entitled /\ "queued" \in Queueing
      /\ "activating" \in Entitled /\ "activating" \in Locking
    BY DEF MutationPhase, Active, Locked, Admitting, Entitled, Queueing, Locking
<1>4. /\ phase'[m] = v /\ Moved(phase, phase', m)
      /\ plan # {} => AtHead(Sweep, writerQueue)
    BY <1>2, <1>3, MutationMove
<1>5. /\ NotIn(m, lifecycleQueue) /\ Wanted(m, lifecycleQueue) # {}
    BY <1>1, NotQueued DEF SessionInv, QueuesFit
<1>6. LockFits(lifecycleQueue', phase', Locking, Locked)
    <2>1. CASE v = "activating"
        <3>1. phase'[m] \in Locking /\ phase'[m] \notin Locked
            BY <1>3, <1>4, <2>1
        <3>2. LockFits(Join(lifecycleQueue, m), phase', Locking, Locked)
            BY <1>1, <1>4, <1>5, <3>1, LockJoin DEF SessionInv, QueuesFit
        <3> QED BY <1>2, <2>1, <3>2
    <2>2. CASE v = "queued"
        BY <1>1, <1>2, <1>3, <1>4, <1>5, <2>2, LockSame DEF SessionInv, QueuesFit
    <2> QED BY <2>1, <2>2
<1>7. LockFits(mutationQueue', phase', Queueing, Entitled)
    <2>1. CASE v = "activating"
        BY <1>2, <1>3, <2>1, EntitledKept
    <2>2. CASE v = "queued"
        <3>1. Wanted(m, mutationQueue) # {}
            BY <1>1, <1>2, <2>2, AtTurnWants DEF SessionInv, QueuesFit, LockFits
        <3> QED BY <1>1, <1>2, <1>3, <1>4, <2>2, <3>1, LockJoin DEF SessionInv, QueuesFit
    <2> QED BY <2>1, <2>2
<1>8. WriterFits(writerQueue', phase') /\ CountsFit'
    BY <1>1, <1>2, <1>3, WriterUntouched, CountSame
<1>9. StoreFits' /\ ToldFits' /\ WaitsFit' /\ SignalsFit'
    BY <1>2, <1>3, MutationLeaves
<1>10. MutationDoes(m, v) /\ m \notin drained'
    BY <1>1, <1>2 DEF MutationDoes, SessionInv, DrainFits, storeVars
<1> QED BY <1>2, <1>3, <1>4, <1>6, <1>7, <1>8, <1>9, <1>10, MutationKeeps

LEMMA ActivateKeeps ==
    ASSUME SessionInv, NEW m \in Mutation, Activate(m) PROVE SessionInv'
<1> USE DEF Activate, unchangedByMutation, drainVars
<1>1. /\ phase[m] = "activating" /\ Holds(m, lifecycleQueue) /\ m \in Proc
      /\ "activating" \in Entitled /\ "activating" \notin Active
    BY ProcFacts DEF Entitled, Active
<1>2. Holds(m, mutationQueue)
    BY <1>1 DEF SessionInv, QueuesFit, LockFits
<1>3. MayLeave(m, lifecycleQueue) /\ MayLeave(m, mutationQueue)
    BY <1>1, <1>2, HolderMayLeave DEF SessionInv, QueuesFit
<1>4. PICK v \in {"done", "preparing"} :
        /\ MovesTo(m, v)
        /\ v = "done" => /\ mutationQueue' = Leave(mutationQueue, m)
                         /\ activeMutations' = activeMutations
        /\ v = "preparing" =>
             /\ mutationQueue' = mutationQueue
             /\ activeMutations' = [i \in Identity |->
                  activeMutations[i] + (IF i \in Ids[m] THEN 1 ELSE 0)]
    BY DEF MovesTo
<1>5. /\ v \in MutationPhase /\ v \notin Locked /\ "done" \notin Entitled
      /\ "done" \notin Active /\ "preparing" \in Entitled /\ "preparing" \in Active
    BY DEF MutationPhase, Active, Locked, Admitting, Entitled
<1>6. /\ phase'[m] = v /\ Moved(phase, phase', m)
      /\ \A x \in Mutation : x # m => phase'[x] = phase[x]
      /\ plan # {} => AtHead(Sweep, writerQueue)
    BY <1>4, <1>5, MutationMove
<1>7. LockFits(lifecycleQueue', phase', Locking, Locked)
    BY <1>1, <1>3, <1>5, <1>6, LockLeave DEF SessionInv, QueuesFit
<1>8. LockFits(mutationQueue', phase', Queueing, Entitled)
    <2>1. CASE v = "done"
        BY <1>1, <1>3, <1>4, <1>5, <1>6, <2>1, LockLeave DEF SessionInv, QueuesFit
    <2>2. CASE v = "preparing"
        BY <1>2, <1>4, <1>5, <2>2, EntitledKept
    <2> QED BY <2>1, <2>2
<1>9. WriterFits(writerQueue', phase')
    BY <1>1, <1>4, <1>5, WriterUntouched
<1>10. CountsFit'
    <2>1. CASE v = "done"
        BY <1>1, <1>4, <1>5, <2>1, CountSame
    <2>2. CASE v = "preparing"
        <3>1. ASSUME NEW i \in Ids[m], NEW x \in Mutation, i \in Ids[x],
                     phase[x] \in Active
              PROVE  FALSE
            <4>1. x # m /\ x \in Proc
                BY <1>1, <3>1, ProcFacts
            <4>2. Holds(x, mutationQueue)
                BY <3>1, <4>1 DEF SessionInv, QueuesFit, LockFits, Active, Entitled
            <4> QED BY <1>1, <1>2, <3>1, <4>1, <4>2, HoldersAreApart
        <3>2. \A i \in Ids[m] : i \in Identity /\ activeMutations[i] = 0
            BY <1>1, <3>1, IdsFacts DEF SessionInv, CountsFit
        <3>3. ASSUME NEW i \in Identity
              PROVE  /\ activeMutations'[i] \in {0, 1}
                     /\ activeMutations'[i] = 1 <=>
                          \E x \in Mutation : i \in Ids[x] /\ phase'[x] \in Active
            <4>1. CASE i \in Ids[m]
                <5>1. activeMutations'[i] = 1
                    BY <1>4, <2>2, <3>2, <4>1
                <5> QED BY <1>5, <1>6, <2>2, <4>1, <5>1
            <4>2. CASE i \notin Ids[m]
                <5>1. activeMutations[i] \in {0, 1}
                    BY DEF SessionInv, CountsFit
                <5>2. activeMutations'[i] = activeMutations[i]
                    BY <1>4, <2>2, <4>2, <5>1
                <5>3. ASSUME NEW x \in Mutation, i \in Ids[x]
                      PROVE  phase'[x] = phase[x]
                    BY <1>6, <4>2, <5>3
                <5> QED BY <5>1, <5>2, <5>3 DEF SessionInv, CountsFit
            <4> QED BY <4>1, <4>2
        <3>4. activeMutations' \in [Identity -> {0, 1}]
            BY <1>4, <2>2, <3>3
        <3> QED BY <3>3, <3>4 DEF CountsFit
    <2> QED BY <2>1, <2>2
<1>11. ASSUME NEW w \in Work, phase[w] \in Admitting
       PROVE  Ids[w] \cap Ids[m] = {}
    <2>1. w \in Proc /\ w # m
        BY ProcFacts
    <2>2. Holds(w, lifecycleQueue)
        BY <1>11, <2>1 DEF SessionInv, QueuesFit, LockFits, Locked
    <2> QED BY <1>1, <2>1, <2>2, HoldersAreApart
<1>12. StoreFits' /\ ToldFits' /\ SignalsFit'
    BY <1>4, <1>5, MutationLeaves
<1>13. WaitsFit'
    <2>1. ASSUME NEW i \in Identity, activeMutations[i] > 0
          PROVE  activeMutations'[i] > 0
        <3>1. activeMutations[i] \in {0, 1}
            BY DEF SessionInv, CountsFit
        <3>2. CASE v = "done"
            BY <1>4, <2>1, <3>2
        <3>3. CASE v = "preparing"
            BY <1>4, <2>1, <3>1, <3>3
        <3> QED BY <3>2, <3>3
    <2>2. waitsFor' = waitsFor /\ waitsFor \in [Work -> SUBSET Identity]
        BY DEF SessionInv, WaitsFit
    <2> QED BY <2>1, <2>2 DEF SessionInv, WaitsFit, NoMissedIdle
<1>14. MutationDoes(m, v) /\ m \notin drained'
    BY <1>1, <1>4 DEF MutationDoes, SessionInv, DrainFits, storeVars
<1> QED BY <1>4, <1>5, <1>6, <1>7, <1>8, <1>9, <1>10, <1>11, <1>12, <1>13,
           <1>14, MutationKeeps

LEMMA InterruptKeeps ==
    ASSUME SessionInv, NEW m \in Mutation, Interrupt(m) PROVE SessionInv'
<1> USE DEF Interrupt, unchangedByMutation, lockVars
<1>1. /\ phase[m] = "preparing" /\ "preparing" \notin Locking /\ m \in Proc
      /\ "preparing" \in Entitled /\ "preparing" \in Active
    BY ProcFacts DEF Locking, Admitting, Entitled, Active
<1>2. /\ "draining" \in MutationPhase /\ "draining" \in Active
      /\ "draining" \in Entitled /\ "draining" \notin Locked
    BY DEF MutationPhase, Active, Entitled, Locked, Admitting
<1>3. MovesTo(m, "draining")
    BY DEF MovesTo
<1>4. /\ phase'[m] = "draining" /\ Moved(phase, phase', m)
      /\ plan # {} => AtHead(Sweep, writerQueue)
    BY <1>2, <1>3, MutationMove
<1>5. Holds(m, mutationQueue) /\ NotIn(m, lifecycleQueue)
    BY <1>1, NotQueued DEF SessionInv, QueuesFit, LockFits
<1>6. LockFits(lifecycleQueue', phase', Locking, Locked)
    BY <1>1, <1>2, <1>4, <1>5, LockSame DEF SessionInv, QueuesFit
<1>7. LockFits(mutationQueue', phase', Queueing, Entitled)
    BY <1>2, <1>3, <1>5, EntitledKept
<1>8. WriterFits(writerQueue', phase') /\ CountsFit'
    BY <1>1, <1>2, <1>3, WriterUntouched, CountSame
<1>9. StoreFits' /\ WaitsFit' /\ SignalsFit'
    BY <1>2, <1>3, MutationLeaves
<1>10. Foreign(m) \in SUBSET Work
    BY DEF Foreign, SessionInv, RegisteredFits
<1>11. ToldFits'
    <2>1. \A w \in Work : OwnerOf(w)' = OwnerOf(w) /\ OwnerOf(w) \in Owner
        BY DEF OwnerOf, Owner
    <2>2. told' \in [Work -> SUBSET Owner] /\ interrupted' \subseteq Work
        BY <1>10, <2>1 DEF SessionInv, ToldFits
    <2>3. ASSUME NEW w \in interrupted' PROVE OwnerOf(w)' \in told'[w]
        <3>1. w \in Work
            BY <2>2
        <3>2. CASE w \in Foreign(m)
            <4>1. told'[w] = told[w] \cup {OwnerOf(w)}
                BY <3>1, <3>2
            <4> QED BY <2>1, <3>1, <4>1
        <3>3. CASE w \notin Foreign(m)
            <4>1. told'[w] = told[w] /\ w \in interrupted
                BY <3>1, <3>3
            <4> QED BY <2>1, <3>1, <4>1 DEF SessionInv, ToldFits
        <3> QED BY <3>2, <3>3
    <2> QED BY <2>2, <2>3 DEF SessionInv, ToldFits
<1>12. /\ targets' \in [Mutation -> SUBSET Work] /\ targets'[m] = Foreign(m)
       /\ \A x \in Mutation : x # m => targets'[x] = targets[x]
    BY <1>10 DEF SessionInv, DrainFits
<1>13. MutationDoes(m, "draining") /\ m \notin drained'
    BY <1>1, <1>3, <1>12 DEF MutationDoes, SessionInv, DrainFits, storeVars
<1> QED BY <1>1, <1>2, <1>4, <1>6, <1>7, <1>8, <1>9, <1>11, <1>12, <1>13,
           MutationKeeps

(* A mutation goes on to run, after a drain or without one. *)
LEMMA ToRunKeeps ==
    ASSUME SessionInv, NEW m \in Mutation, phase[m] \in {"preparing", "draining"},
           ToRun(m), targets' = targets,
           \/ drained' = drained
           \/ drained' = drained \cup {m} /\ Foreign(m) = {},
           UNCHANGED <<mutationQueue, writerQueue, activeMutations, interrupted,
                       told, storeVars, unchangedByMutation>>
    PROVE  SessionInv'
<1> USE DEF unchangedByMutation
<1>1. /\ phase[m] \notin Locking /\ m \in Proc /\ phase[m] \in Entitled
      /\ phase[m] \in Active
    BY ProcFacts DEF Locking, Admitting, Entitled, Active
<1>2. /\ "starting" \in MutationPhase /\ "starting" \in Active
      /\ "starting" \in Entitled /\ "starting" \notin Locked /\ "starting" \in Locking
    BY DEF MutationPhase, Active, Entitled, Locked, Admitting, Locking
<1>3. MovesTo(m, "starting")
    BY DEF MovesTo, ToRun
<1>4. /\ phase'[m] = "starting" /\ Moved(phase, phase', m)
      /\ plan # {} => AtHead(Sweep, writerQueue)
    BY <1>2, <1>3, MutationMove
<1>5. Holds(m, mutationQueue) /\ Wanted(m, lifecycleQueue) # {}
    BY <1>1, NotQueued DEF SessionInv, QueuesFit, LockFits
<1>6. LockFits(Join(lifecycleQueue, m), phase', Locking, Locked)
    BY <1>1, <1>2, <1>4, <1>5, LockJoin DEF SessionInv, QueuesFit
<1>7. LockFits(lifecycleQueue', phase', Locking, Locked)
    BY <1>6 DEF ToRun
<1>8. LockFits(mutationQueue', phase', Queueing, Entitled)
    BY <1>2, <1>3, <1>5, EntitledKept
<1>9. WriterFits(writerQueue', phase') /\ CountsFit'
    BY <1>1, <1>2, <1>3, WriterUntouched, CountSame
<1>10. StoreFits' /\ ToldFits' /\ WaitsFit' /\ SignalsFit'
    BY <1>2, <1>3, MutationLeaves
<1>11. m \notin drained /\ drained \subseteq Mutation
       /\ targets \in [Mutation -> SUBSET Work]
    BY DEF SessionInv, DrainFits
<1>12. MutationDoes(m, "starting")
    BY <1>3, <1>11 DEF MutationDoes, storeVars
<1>13. m \in drained' => Foreign(m) = {}
    BY <1>11
<1> QED BY <1>1, <1>2, <1>4, <1>7, <1>8, <1>9, <1>10, <1>12, <1>13,
           MutationKeeps

(* A mutation gives its locks back and queues for them to finish. *)
LEMMA ToFinishKeeps ==
    ASSUME SessionInv, NEW m \in Mutation, phase[m] \in Active, ToFinish(m),
           MayLeave(m, lifecycleQueue), WriterFits(writerQueue', phase'),
           plan # {} => AtHead(Sweep, writerQueue'), StoreFits', plan' = plan,
           UNCHANGED <<mutationQueue, activeMutations, interrupted, told,
                       drainVars, unchangedByMutation>>
    PROVE  SessionInv'
<1> USE DEF unchangedByMutation, drainVars
<1>1. m \in Proc /\ phase[m] \in Entitled
    BY ProcFacts DEF Entitled, Active
<1>2. /\ "finishing" \in MutationPhase /\ "finishing" \in Active
      /\ "finishing" \in Entitled /\ "finishing" \notin Locked
      /\ "finishing" \in Locking
    BY DEF MutationPhase, Active, Entitled, Locked, Admitting, Locking
<1>3. MovesTo(m, "finishing")
    BY DEF MovesTo, ToFinish
<1>4. phase'[m] = "finishing" /\ Moved(phase, phase', m)
    BY <1>2, <1>3, MutationMove
<1>5. Holds(m, mutationQueue)
    BY <1>1 DEF SessionInv, QueuesFit, LockFits
<1>6. LockFits(Join(Leave(lifecycleQueue, m), m), phase', Locking, Locked)
    BY <1>1, <1>2, <1>4, LockAgain DEF SessionInv, QueuesFit
<1>7. LockFits(lifecycleQueue', phase', Locking, Locked)
    BY <1>6 DEF ToFinish
<1>8. LockFits(mutationQueue', phase', Queueing, Entitled)
    BY <1>2, <1>3, <1>5, EntitledKept
<1>9. CountsFit'
    BY <1>2, <1>3, CountSame
<1>10. ToldFits' /\ WaitsFit' /\ SignalsFit'
    BY <1>2, <1>3, MutationLeaves
<1>11. MutationDoes(m, "finishing")
    BY <1>3 DEF MutationDoes, SessionInv, DrainFits
<1> QED BY <1>2, <1>7, <1>8, <1>9, <1>10, <1>11, MutationKeeps

LEMMA NoDrainKeeps ==
    ASSUME SessionInv, NEW m \in Mutation, PrepareEnds(m) \/ DrainTimesOut(m)
    PROVE  SessionInv'
<1>1. phase[m] \in {"preparing", "draining"} /\ (ToRun(m) \/ ToFinish(m))
    BY DEF PrepareEnds, DrainTimesOut
<1>2. UNCHANGED <<mutationQueue, writerQueue, activeMutations, interrupted,
                  told, drainVars, storeVars, unchangedByMutation>>
    BY DEF PrepareEnds, DrainTimesOut
<1>3. CASE ToRun(m)
    BY <1>1, <1>2, <1>3, ToRunKeeps DEF drainVars
<1>4. CASE ToFinish(m)
    <2>1. /\ phase[m] \notin Locking /\ m \in Proc /\ phase[m] \in Active
          /\ phase[m] # "writing" /\ "finishing" \in MutationPhase
        BY <1>1, ProcFacts DEF Locking, Admitting, Active, MutationPhase
    <2>2. MayLeave(m, lifecycleQueue)
        BY <2>1, NotQueued DEF SessionInv, QueuesFit
    <2>3. MovesTo(m, "finishing")
        BY <1>4 DEF MovesTo, ToFinish
    <2>4. WriterFits(writerQueue, phase') /\ StoreFits'
        BY <1>2, <2>1, <2>3, WriterUntouched, MutationLeaves
    <2>5. plan # {} => AtHead(Sweep, writerQueue)
        BY <2>1, <2>3, MutationMove
    <2> QED BY <1>2, <1>4, <2>1, <2>2, <2>4, <2>5, ToFinishKeeps DEF storeVars
<1> QED BY <1>1, <1>3, <1>4

LEMMA DrainedKeeps ==
    ASSUME SessionInv, NEW m \in Mutation, Drained(m) PROVE SessionInv'
<1>1. phase[m] = "draining" /\ targets[m] \cap registered = {} /\ ToRun(m)
    BY DEF Drained, AllReleased
<1>2. Foreign(m) \subseteq targets[m]
    BY <1>1 DEF SessionInv, DrainFits
<1>3. Foreign(m) = {}
    BY <1>1, <1>2 DEF Foreign
<1>4. /\ targets' = targets /\ drained' = drained \cup {m}
      /\ UNCHANGED <<mutationQueue, writerQueue, activeMutations, interrupted,
                     told, storeVars, unchangedByMutation>>
    BY DEF Drained
<1> QED BY <1>1, <1>3, <1>4, ToRunKeeps

LEMMA RunKeeps ==
    ASSUME SessionInv, NEW m \in Mutation, Run(m) PROVE SessionInv'
<1>1. /\ phase[m] = "starting" /\ Holds(m, lifecycleQueue) /\ m \in Proc
      /\ "starting" \in Active /\ "starting" \in Entitled
    BY ProcFacts DEF Run, Active, Entitled
<1>2. UNCHANGED <<mutationQueue, activeMutations, interrupted, told,
                  drainVars, storeVars, unchangedByMutation>>
    BY DEF Run
<1>3. CASE m \in drained
    <2>1. /\ MovesTo(m, "writing") /\ writerQueue' = Append(writerQueue, m)
          /\ lifecycleQueue' = lifecycleQueue
        BY <1>3 DEF Run, MovesTo
    <2>2. /\ "writing" \in MutationPhase /\ "writing" \in Active
          /\ "writing" \in Entitled /\ "writing" \in Locking
          /\ "writing" \in AtBarrier
        BY DEF MutationPhase, Active, Entitled, Locking, AtBarrier
    <2>3. /\ phase'[m] = "writing" /\ Moved(phase, phase', m) /\ m \notin WriterOwned
        BY <2>1, <2>2, MutationMove
    <2>4. LockFits(lifecycleQueue', phase', Locking, Locked)
        BY <1>1, <2>1, <2>2, <2>3, LockSame DEF SessionInv, QueuesFit
    <2>5. Holds(m, mutationQueue)
        BY <1>1 DEF SessionInv, QueuesFit, LockFits
    <2>6. LockFits(mutationQueue', phase', Queueing, Entitled)
        BY <1>2, <2>1, <2>2, <2>5, EntitledKept
    <2>7. m \notin ToSet(writerQueue)
        BY <1>1, <2>1, <2>2, WriterUntouched
    <2>8. WriterFits(Append(writerQueue, m), phase')
        BY <1>1, <2>2, <2>3, <2>7, WriterAppend DEF SessionInv, QueuesFit
    <2>9. plan # {} => AtHead(Sweep, Append(writerQueue, m))
        BY <1>1, <2>7, SweepAppend
    <2>10. CountsFit'
        BY <1>1, <1>2, <2>1, <2>2, CountSame
    <2>11. StoreFits' /\ ToldFits' /\ WaitsFit' /\ SignalsFit'
        BY <1>2, <2>1, <2>2, MutationLeaves DEF unchangedByMutation
    <2>12. MutationDoes(m, "writing") /\ m \in drained' /\ Foreign(m) = {}
        BY <1>1, <1>2, <1>3, <2>1 DEF MutationDoes, SessionInv, DrainFits,
           drainVars, storeVars, unchangedByMutation
    <2> QED BY <1>1, <2>1, <2>2, <2>4, <2>6, <2>8, <2>9, <2>10, <2>11, <2>12,
               MutationKeeps
<1>4. CASE m \notin drained
    <2>1. ToFinish(m) /\ writerQueue' = writerQueue
        BY <1>4 DEF Run
    <2>2. MayLeave(m, lifecycleQueue)
        BY <1>1, HolderMayLeave DEF SessionInv, QueuesFit
    <2>3. MovesTo(m, "finishing") /\ "finishing" \in MutationPhase
        BY <2>1 DEF MovesTo, ToFinish, MutationPhase
    <2>4. WriterFits(writerQueue, phase') /\ StoreFits'
        BY <1>1, <1>2, <2>3, WriterUntouched, MutationLeaves
    <2>5. plan # {} => AtHead(Sweep, writerQueue)
        BY <2>3, MutationMove
    <2> QED BY <1>1, <1>2, <2>1, <2>2, <2>4, <2>5, ToFinishKeeps DEF storeVars
<1> QED BY <1>3, <1>4

LEMMA CommitKeeps ==
    ASSUME SessionInv, NEW m \in Mutation, Commit(m) PROVE SessionInv'
<1>1. /\ phase[m] = "writing" /\ AtWriter(m) /\ m \in Proc
      /\ "writing" \in Active /\ "writing" \in Locked
    BY ProcFacts DEF Commit, Active, Locked
<1>2. /\ writerQueue' = Tail(writerQueue) /\ ToFinish(m) /\ plan' = plan
      /\ sweeps' = sweeps
      /\ UNCHANGED <<mutationQueue, activeMutations, interrupted, told,
                     drainVars, unchangedByMutation>>
    BY DEF Commit
<1>3. MayLeave(m, lifecycleQueue)
    BY <1>1, HolderMayLeave DEF SessionInv, QueuesFit, LockFits
<1>4. MovesTo(m, "finishing") /\ "finishing" \in MutationPhase
    BY <1>2 DEF MovesTo, ToFinish, MutationPhase
<1>5. /\ phase'[m] = "finishing" /\ Moved(phase, phase', m) /\ m \notin WriterOwned
      /\ \A w \in Work : phase'[w] = phase[w]
    BY <1>4, MutationMove
<1>6. WriterFits(writerQueue', phase')
    BY <1>1, <1>2, <1>5, WriterTail DEF SessionInv, QueuesFit, AtWriter
<1>7. plan = {}
    BY <1>1, SweepExcludes
<1>8. Foreign(m) = {}
    BY <1>1 DEF SessionInv, DrainFits
<1>9. StoreFits'
    <2>1. CASE UNCHANGED <<version, expected>>
        BY <1>2, <1>5, <2>1 DEF SessionInv, StoreFits, LeaseIsCurrent, Running, Allowed
    <2>2. CASE /\ version' = [i \in Identity |->
                     version[i] + (IF i \in Ids[m] THEN 1 ELSE 0)]
               /\ expected' = [w \in Work |-> IF w \in InBand[m] THEN version'
                                              ELSE expected[w]]
        <3>1. version' \in [Identity -> Nat]
            BY <2>2 DEF SessionInv, StoreFits
        <3>2. expected' \in [Work -> [Identity -> Nat]]
            BY <2>2, <3>1 DEF SessionInv, StoreFits
        <3>3. ASSUME NEW w \in Work, phase'[w] = "leased", NEW i \in Ids[w]
              PROVE  version'[i] = expected'[w][i]
            <4>1. CASE w \in InBand[m]
                BY <2>2, <3>3, <4>1
            <4>2. CASE w \notin InBand[m]
                <5>1. w \in registered
                    BY <1>5, <3>3 DEF SessionInv, RegisteredFits, Registered
                <5>2. i \notin Ids[m] /\ i \in Identity
                    BY <1>8, <4>2, <5>1, ProcFacts, IdsFacts DEF Foreign
                <5>3. version[i] \in Nat /\ version[i] = expected[w][i]
                    BY <1>5, <3>3, <5>2 DEF SessionInv, StoreFits, LeaseIsCurrent,
                       Running, Allowed
                <5>4. version'[i] = version[i]
                    BY <2>2, <5>2, <5>3
                <5>5. expected'[w] = expected[w]
                    BY <2>2, <4>2
                <5> QED BY <5>3, <5>4, <5>5
            <4> QED BY <4>1, <4>2
        <3> QED BY <1>2, <3>1, <3>2, <3>3
                DEF SessionInv, StoreFits, LeaseIsCurrent, Running, Allowed
    <2> QED BY <2>1, <2>2 DEF Commit
<1> QED BY <1>1, <1>2, <1>3, <1>6, <1>7, <1>9, ToFinishKeeps

LEMMA FinishKeeps ==
    ASSUME SessionInv, NEW m \in Mutation, Finish(m) PROVE SessionInv'
<1> USE DEF Finish, leaseVars, drainVars, storeVars
<1>1. /\ phase[m] = "finishing" /\ Holds(m, lifecycleQueue) /\ m \in Proc
      /\ "finishing" \in Entitled /\ "finishing" \in Active
    BY ProcFacts DEF Entitled, Active
<1>2. Holds(m, mutationQueue)
    BY <1>1 DEF SessionInv, QueuesFit, LockFits
<1>3. MayLeave(m, lifecycleQueue) /\ MayLeave(m, mutationQueue)
    BY <1>1, <1>2, HolderMayLeave DEF SessionInv, QueuesFit
<1>4. /\ "done" \in MutationPhase /\ "done" \notin Locked /\ "done" \notin Entitled
      /\ "done" \notin Active
    BY DEF MutationPhase, Active, Locked, Admitting, Entitled
<1>5. MovesTo(m, "done")
    BY DEF MovesTo
<1>6. /\ phase'[m] = "done" /\ Moved(phase, phase', m)
      /\ \A x \in Mutation : x # m => phase'[x] = phase[x]
      /\ plan # {} => AtHead(Sweep, writerQueue)
    BY <1>4, <1>5, MutationMove
<1>7. LockFits(lifecycleQueue', phase', Locking, Locked)
    BY <1>1, <1>3, <1>4, <1>6, LockLeave DEF SessionInv, QueuesFit
<1>8. LockFits(mutationQueue', phase', Queueing, Entitled)
    BY <1>1, <1>3, <1>4, <1>6, LockLeave DEF SessionInv, QueuesFit
<1>9. WriterFits(writerQueue', phase')
    BY <1>1, <1>4, <1>5, WriterUntouched
<1>10. \A i \in Identity :
         /\ activeMutations[i] \in {0, 1}
         /\ i \in Ids[m] => activeMutations[i] = 1
         /\ activeMutations'[i] = activeMutations[i] - (IF i \in Ids[m] THEN 1 ELSE 0)
    BY <1>1 DEF SessionInv, CountsFit
<1>11. CountsFit'
    <2>1. ASSUME NEW i \in Identity
          PROVE  /\ activeMutations'[i] \in {0, 1}
                 /\ activeMutations'[i] = 1 <=>
                      \E x \in Mutation : i \in Ids[x] /\ phase'[x] \in Active
        <3>1. CASE i \in Ids[m]
            <4>1. activeMutations'[i] = 0
                BY <1>10, <3>1
            <4>2. ASSUME NEW x \in Mutation, i \in Ids[x], phase'[x] \in Active
                  PROVE  FALSE
                <5>1. x # m /\ x \in Proc /\ phase[x] \in Active
                    BY <1>4, <1>6, <4>2, ProcFacts
                <5>2. Holds(x, mutationQueue)
                    BY <5>1 DEF SessionInv, QueuesFit, LockFits, Active, Entitled
                <5> QED BY <1>1, <1>2, <3>1, <4>2, <5>1, <5>2, HoldersAreApart
            <4> QED BY <4>1, <4>2
        <3>2. CASE i \notin Ids[m]
            <4>1. activeMutations'[i] = activeMutations[i]
                BY <1>10, <3>2
            <4>2. ASSUME NEW x \in Mutation, i \in Ids[x] PROVE phase'[x] = phase[x]
                BY <1>6, <3>2, <4>2
            <4> QED BY <1>10, <4>1, <4>2 DEF SessionInv, CountsFit
        <3> QED BY <3>1, <3>2
    <2>2. activeMutations' \in [Identity -> {0, 1}]
        BY <2>1
    <2> QED BY <2>1, <2>2 DEF CountsFit
<1>12. StoreFits' /\ ToldFits' /\ SignalsFit'
    BY <1>4, <1>5, MutationLeaves
<1>13. WaitsFit'
    <2>1. waitsFor' \in [Work -> SUBSET Identity]
        BY DEF SessionInv, WaitsFit, ResolvedWaits
    <2>2. ASSUME NEW w \in Work, NEW i \in waitsFor'[w] PROVE activeMutations'[i] > 0
        <3>1. /\ i \in waitsFor[w] /\ ~(i \in Ids[m] /\ activeMutations[i] = 1)
              /\ waitsFor \in [Work -> SUBSET Identity]
            BY DEF SessionInv, WaitsFit, ResolvedWaits
        <3>2. i \in Identity
            BY <3>1
        <3>3. i \notin Ids[m] /\ activeMutations[i] > 0
            BY <1>10, <3>1, <3>2 DEF SessionInv, WaitsFit, NoMissedIdle
        <3>4. activeMutations'[i] = activeMutations[i]
            BY <1>10, <3>3, <3>2
        <3> QED BY <3>3, <3>4
    <2> QED BY <2>1, <2>2 DEF WaitsFit, NoMissedIdle
<1>14. MutationDoes(m, "done")
    BY <1>5 DEF MutationDoes, SessionInv, DrainFits
<1> QED BY <1>4, <1>6, <1>7, <1>8, <1>9, <1>11, <1>12, <1>13, <1>14, MutationKeeps

-----------------------------------------------------------------------------
(* Maintenance, signals, the gateway.                                      *)

LEMMA QueueMaintenanceKeeps ==
    ASSUME SessionInv, QueueMaintenance PROVE SessionInv'
<1> USE DEF QueueMaintenance, leaseVars, drainVars
<1>1. /\ writerQueue \in Seq(Proc \cup {Sweep}) /\ IsInjective(writerQueue)
    BY DEF SessionInv, QueuesFit, WriterFits
<1>2. /\ writerQueue' \in Seq(Proc \cup {Sweep}) /\ IsInjective(writerQueue')
      /\ ToSet(writerQueue') = ToSet(writerQueue) \cup {Sweep}
      /\ \A y : AtHead(y, writerQueue) => AtHead(y, writerQueue')
    BY <1>1, AppendOnce
<1>3. WriterFits(writerQueue', phase)
    BY <1>2, ProcFacts DEF SessionInv, QueuesFit, WriterFits
<1>4. QueuesFit'
    BY <1>3 DEF SessionInv, QueuesFit, Phases
<1>5. PlanFits'
    BY <1>2 DEF SessionInv, PlanFits, AtWriter, Running
<1>6. CountsFit' /\ Apart' /\ RegisteredFits' /\ DrainFits'
    BY DEF SessionInv, CountsFit, Apart, RegisteredFits, DrainFits, Foreign
<1>7. StoreFits'
    <2>1. sweeps' \in 0..MaxMaintenance
        BY DEF SessionInv, StoreFits
    <2> QED BY <2>1 DEF SessionInv, StoreFits, LeaseIsCurrent, Running, Allowed
<1>8. ToldFits' /\ WaitsFit' /\ SignalsFit'
    BY DEF SessionInv, ToldFits, OwnerOf, WaitsFit, NoMissedIdle, SignalsFit
<1> QED BY <1>4, <1>5, <1>6, <1>7, <1>8 DEF SessionInv

LEMMA PlanMaintenanceKeeps ==
    ASSUME SessionInv, PlanMaintenance PROVE SessionInv'
<1> USE DEF PlanMaintenance, leaseVars, drainVars, lockVars
<1>1. QueuesFit'
    BY QueuesSame DEF SessionInv
<1>2. PlanFits'
    <2>1. ActiveIdentities \in SUBSET Identity
        BY ProcFacts, IdsFacts DEF ActiveIdentities, SessionInv, RegisteredFits
    <2>2. ASSUME NEW w \in Work, phase[w] = "leased"
          PROVE  Ids[w] \subseteq ActiveIdentities
        <3>1. w \in registered
            BY <2>2 DEF SessionInv, RegisteredFits, Registered
        <3> QED BY <3>1 DEF ActiveIdentities
    <2>3. AtWriter(Sweep)'
        BY DEF AtWriter
    <2> QED BY <2>1, <2>2, <2>3 DEF PlanFits, Running
<1>3. CountsFit' /\ Apart' /\ RegisteredFits' /\ DrainFits'
    BY DEF SessionInv, CountsFit, Apart, RegisteredFits, DrainFits, Foreign
<1>4. StoreFits' /\ ToldFits' /\ WaitsFit' /\ SignalsFit'
    BY DEF SessionInv, StoreFits, LeaseIsCurrent, Running, Allowed, ToldFits,
           OwnerOf, WaitsFit, NoMissedIdle, SignalsFit
<1> QED BY <1>1, <1>2, <1>3, <1>4 DEF SessionInv

LEMMA CommitMaintenanceKeeps ==
    ASSUME SessionInv, CommitMaintenance PROVE SessionInv'
<1> USE DEF CommitMaintenance, leaseVars, drainVars
<1>1. PICK kept \in plan :
         \/ version' = version
         \/ \E i \in Identity \ kept : version' = [version EXCEPT ![i] = @ + 1]
    OBVIOUS
<1>2. AtHead(Sweep, writerQueue)
    BY <1>1 DEF SessionInv, PlanFits, AtWriter
<1>3. /\ writerQueue \in Seq(Proc \cup {Sweep}) /\ IsInjective(writerQueue)
    BY DEF SessionInv, QueuesFit, WriterFits
<1>4. /\ writerQueue' \in Seq(Proc \cup {Sweep}) /\ IsInjective(writerQueue')
      /\ ToSet(writerQueue') = ToSet(writerQueue) \ {Sweep}
    BY <1>2, <1>3, TailOnce
<1>5. \A p \in Proc : ~AtHead(p, writerQueue)
    BY <1>2, OneHead, ProcFacts
<1>6. WriterFits(writerQueue', phase)
    BY <1>4, <1>5, ProcFacts DEF SessionInv, QueuesFit, WriterFits
<1>7. QueuesFit'
    BY <1>6 DEF SessionInv, QueuesFit, Phases
<1>8. PlanFits'
    BY DEF PlanFits
<1>9. CountsFit' /\ Apart' /\ RegisteredFits' /\ DrainFits'
    BY DEF SessionInv, CountsFit, Apart, RegisteredFits, DrainFits, Foreign
<1>10. StoreFits'
    <2>1. CASE version' = version
        BY <2>1 DEF SessionInv, StoreFits, LeaseIsCurrent, Running, Allowed
    <2>2. CASE \E i \in Identity \ kept : version' = [version EXCEPT ![i] = @ + 1]
        <3>1. PICK i \in Identity \ kept : version' = [version EXCEPT ![i] = @ + 1]
            BY <2>2
        <3>2. /\ version' \in [Identity -> Nat]
              /\ \A j \in Identity : j # i => version'[j] = version[j]
            BY <3>1 DEF SessionInv, StoreFits
        <3>3. ASSUME NEW w \in Work, phase[w] = "leased", NEW j \in Ids[w]
              PROVE  version'[j] = expected[w][j]
            <4>1. j \in kept /\ j \in Identity
                BY <1>1, <3>3, ProcFacts, IdsFacts DEF SessionInv, PlanFits, Running
            <4>2. version'[j] = version[j]
                BY <3>1, <3>2, <4>1
            <4> QED BY <3>3, <4>2 DEF SessionInv, StoreFits, LeaseIsCurrent, Running,
                    Allowed
        <3> QED BY <3>2, <3>3 DEF SessionInv, StoreFits, LeaseIsCurrent, Running,
                Allowed
    <2> QED BY <1>1, <2>1, <2>2
<1>11. ToldFits' /\ WaitsFit' /\ SignalsFit'
    BY DEF SessionInv, ToldFits, OwnerOf, WaitsFit, NoMissedIdle, SignalsFit
<1> QED BY <1>7, <1>8, <1>9, <1>10, <1>11 DEF SessionInv

(* Signals, the gateway's fence and stuttering. *)
LEMMA OutsideKeeps ==
    ASSUME SessionInv, (\E p \in Proc : Abort(p)) \/ GatewayTurns \/ UNCHANGED vars
    PROVE  SessionInv'
<1>1. UNCHANGED <<phase, lifecycleQueue, mutationQueue, writerQueue,
                  activeMutations, waitsFor, registered, interrupted, told, handoff,
                  targets, drained, version, expected, plan, sweeps>>
    BY DEF Abort, GatewayTurns, vars, lockVars, leaseVars, drainVars, storeVars
<1>2. QueuesFit'
    BY <1>1, QueuesSame DEF SessionInv
<1>3. PlanFits' /\ CountsFit' /\ Apart' /\ RegisteredFits' /\ DrainFits'
    BY <1>1 DEF SessionInv, PlanFits, AtWriter, Running, CountsFit, Apart,
       RegisteredFits, DrainFits, Foreign
<1>4. StoreFits' /\ ToldFits' /\ WaitsFit'
    BY <1>1 DEF SessionInv, StoreFits, LeaseIsCurrent, Running, Allowed, ToldFits,
           OwnerOf, WaitsFit, NoMissedIdle
<1>5. aborted' \subseteq Proc
    BY DEF SessionInv, SignalsFit, Abort, GatewayTurns, vars
<1>6. closed' \in BOOLEAN
    <2>1. closed' = closed \/ closed' = ~closed
        BY DEF Abort, GatewayTurns, vars
    <2> QED BY <2>1 DEF SessionInv, SignalsFit
<1> QED BY <1>2, <1>3, <1>4, <1>5, <1>6 DEF SessionInv, SignalsFit

-----------------------------------------------------------------------------
LEMMA SessionStep == SessionInv /\ [Next]_vars => SessionInv'
<1> SUFFICES ASSUME SessionInv, [Next]_vars PROVE SessionInv'
    OBVIOUS
<1>1. ASSUME NEW w \in Work, WorkStep(w) PROVE SessionInv'
    <2>1. w \in Proc
        BY ProcFacts
    <2> QED BY <1>1, <2>1, BeginKeeps, StopsWaitingKeeps, EnterLockedKeeps,
            RegisterKeeps, BarrierKeeps, AbortedAtBarrierKeeps, AbandonedKeeps,
            RevalidateKeeps, TakeLifecycleKeeps DEF WorkStep
<1>2. ASSUME NEW m \in Mutation, MutationStep(m) PROVE SessionInv'
    <2>1. m \in Proc
        BY ProcFacts
    <2> QED BY <1>2, <2>1, TakeMutationKeeps, TakeLifecycleKeeps, ActivateKeeps,
            NoDrainKeeps, InterruptKeeps, DrainedKeeps, RunKeeps, CommitKeeps,
            FinishKeeps DEF MutationStep
<1>3. ASSUME NEW w \in Work, EnterWriter(w) \/ Release(w) \/ CreateHandoff(w)
                               \/ ConsumeHandoff(w)
      PROVE  SessionInv'
    BY <1>3, EnterWriterKeeps, ReleaseKeeps, HandoffKeeps
<1>4. ASSUME NEW m \in Mutation, Start(m) PROVE SessionInv'
    BY <1>4, StartKeeps
<1> QED BY <1>1, <1>2, <1>3, <1>4, QueueMaintenanceKeeps, PlanMaintenanceKeeps,
        CommitMaintenanceKeeps, OutsideKeeps DEF Next

(* Queues, phases, counters, drains and leases agree in every state, for   *)
(* any work, mutations and identities (session-lifecycle-admission.ts).    *)
THEOREM SessionInvariant == Spec => []SessionInv
BY SessionInit, SessionStep, PTL DEF Spec

LEMMA SessionTypes == SessionInv => TypeOK
<1> SUFFICES ASSUME SessionInv PROVE TypeOK
    OBVIOUS
<1>1. phase \in [Proc -> {"idle", "waiting", "locking", "asserting",
                           "barrier", "revalidating", "leased", "queued",
                           "activating", "preparing", "draining", "starting",
                           "writing", "finishing"} \cup Over]
    BY DEF SessionInv, QueuesFit, Phases, WorkPhase, MutationPhase, Over
<1>2. Queued(lifecycleQueue) /\ Queued(mutationQueue)
    BY DEF SessionInv, QueuesFit, LockFits, LockTyped, Queued
<1>3. writerQueue \in Seq(Proc \cup {Sweep}) /\ IsInjective(writerQueue)
    BY DEF SessionInv, QueuesFit, WriterFits
<1>4. activeMutations \in [Identity -> 0..Cardinality(Mutation)]
    <2>1. Cardinality(Mutation) \in Nat
        BY FS_CardinalityType
    <2>2. Mutation # {} => Cardinality(Mutation) # 0
        BY FS_EmptySet
    <2>3. ASSUME NEW i \in Identity
          PROVE  activeMutations[i] \in 0..Cardinality(Mutation)
        <3>1. activeMutations[i] \in {0, 1}
            BY DEF SessionInv, CountsFit
        <3>2. activeMutations[i] = 1 => Mutation # {}
            BY DEF SessionInv, CountsFit
        <3> QED BY <2>1, <2>2, <3>1, <3>2
    <2> QED BY <2>3 DEF SessionInv, CountsFit
<1>5. plan \in SUBSET (SUBSET Identity) /\ Cardinality(plan) <= 1
    <2>1. CASE plan = {}
        BY <2>1, FS_EmptySet
    <2>2. CASE plan # {}
        <3>1. PICK kept \in SUBSET Identity : plan = {kept}
            BY <2>2 DEF SessionInv, PlanFits
        <3>2. Cardinality({kept}) = 1
            BY FS_Singleton
        <3> QED BY <3>1, <3>2
    <2> QED BY <2>1, <2>2
<1>6. /\ waitsFor \in [Work -> SUBSET Identity]
      /\ registered \subseteq Work /\ interrupted \subseteq Work
      /\ told \in [Work -> SUBSET Owner]
      /\ handoff \in [Work -> {"none", "out", "adopted"}]
      /\ targets \in [Mutation -> SUBSET Work] /\ drained \subseteq Mutation
    BY DEF SessionInv, WaitsFit, RegisteredFits, ToldFits, DrainFits
<1>7. /\ aborted \subseteq Proc /\ closed \in BOOLEAN
      /\ version \in [Identity -> Nat] /\ expected \in [Work -> [Identity -> Nat]]
      /\ sweeps \in 0..MaxMaintenance
    BY DEF SessionInv, SignalsFit, StoreFits
<1> QED BY <1>1, <1>2, <1>3, <1>4, <1>5, <1>6, <1>7 DEF TypeOK

(* A lease is good while it is held: neither another mutation nor the      *)
(* store's maintenance changes the session below it, and an interrupt is   *)
(* told to whoever holds it (session-lifecycle-admission.ts:460).          *)
THEOREM LeasesAlwaysGood == Spec => []LeaseInv
<1>1. SessionInv => LeaseInv
    <2> SUFFICES ASSUME SessionInv PROVE LeaseInv
        OBVIOUS
    <2>1. LeaseIsCurrent /\ InterruptReachesOwner
        BY DEF SessionInv, StoreFits, ToldFits, InterruptReachesOwner
    <2> QED BY <2>1, SessionTypes DEF LeaseInv
<1> QED BY <1>1, SessionInvariant, PTL

(* A mutation that drained is alone, however late other work or mutations  *)
(* of its identities come, and nobody waits for a mutation that has ended  *)
(* (session-lifecycle-admission.ts:178, :256).                             *)
THEOREM MutationsAlwaysAlone == Spec => []MutationInv
<1>1. SessionInv => MutationInv
    <2> SUFFICES ASSUME SessionInv PROVE MutationInv
        OBVIOUS
    <2>1. NoMissedIdle
        BY DEF SessionInv, WaitsFit
    <2>2. ASSUME NEW m \in drained, phase[m] \in {"starting", "writing"}
          PROVE  Foreign(m) = {} /\ \A i \in Ids[m] : activeMutations[i] = 1
        <3>1. m \in Mutation /\ Foreign(m) = {}
            BY <2>2 DEF SessionInv, DrainFits
        <3>2. phase[m] \in Active
            BY <2>2 DEF Active
        <3>3. \A i \in Ids[m] : i \in Identity
            BY <3>1, ProcFacts, IdsFacts
        <3> QED BY <3>1, <3>2, <3>3 DEF SessionInv, CountsFit
    <2> QED BY <2>1, <2>2 DEF MutationInv, RunsAlone
<1> QED BY <1>1, SessionInvariant, PTL

(* While the gateway is closed no work is registered, also when it was     *)
(* open as the work began (session-lifecycle-admission.ts:386).            *)
THEOREM ClosedNeverAdmits == Spec => ClosedAdmitsNothing
<1>1. [Next]_vars => [closed => registered' \subseteq registered]_vars
    <2> SUFFICES ASSUME Next, closed PROVE registered' \subseteq registered
        OBVIOUS
    <2>1. ASSUME NEW w \in Work, WorkStep(w) PROVE registered' \subseteq registered
        <3>1. Fails(w) => registered' \subseteq registered
            BY DEF Fails, FailsAt
        <3>2. Attempts(w) => registered' \subseteq registered
            BY <3>1 DEF Attempts
        <3>3. Register(w) => registered' \subseteq registered
            BY <3>1 DEF Register, ClosedNow
        <3>4. Begin(w) \/ StopsWaiting(w) \/ EnterLocked(w)
                => registered' \subseteq registered
            BY <3>1, <3>2 DEF Begin, StopsWaiting, EnterLocked
        <3>5. BarrierStarts(w) \/ AbortedAtBarrier(w) \/ AbandonedBarrier(w)
                => registered' \subseteq registered
            BY <3>1 DEF BarrierStarts, AbortedAtBarrier, FailsAt, AbandonedBarrier,
               leaseVars
        <3>6. Revalidate(w) \/ TakeLifecycleLock(w) => registered' \subseteq registered
            BY <3>1 DEF Revalidate, TakeLifecycleLock, leaseVars
        <3> QED BY <2>1, <3>3, <3>4, <3>5, <3>6 DEF WorkStep
    <2>2. ASSUME NEW m \in Mutation, Start(m) \/ MutationStep(m)
          PROVE  registered' \subseteq registered
        BY <2>2 DEF Start, MutationStep, TakeMutationLock, TakeLifecycleLock, Activate,
           PrepareEnds, Interrupt, Drained, DrainTimesOut, Run, Commit, Finish,
           unchangedByMutation, leaseVars
    <2>3. ASSUME NEW w \in Work, EnterWriter(w) \/ Release(w) \/ CreateHandoff(w)
                                   \/ ConsumeHandoff(w)
          PROVE  registered' \subseteq registered
        BY <2>3 DEF EnterWriter, Release, CreateHandoff, ConsumeHandoff, leaseVars
    <2>4. QueueMaintenance \/ PlanMaintenance \/ CommitMaintenance \/ GatewayTurns
            => registered' \subseteq registered
        BY DEF QueueMaintenance, PlanMaintenance, CommitMaintenance, GatewayTurns,
           leaseVars
    <2>5. (\E p \in Proc : Abort(p)) => registered' \subseteq registered
        BY DEF Abort, leaseVars
    <2> QED BY <2>1, <2>2, <2>3, <2>4, <2>5 DEF Next
<1> QED BY <1>1, PTL DEF Spec, ClosedAdmitsNothing

=============================================================================
