------------------------- MODULE CommandQueueProofs -------------------------
(***************************************************************************)
(* Theorems about CommandQueue for any lanes, entries, limits, resets and  *)
(* waiters.  The inductive invariant (QueueInv) adds to the properties of  *)
(* the runs what they rest on: entries that are not accepted yet have no   *)
(* trace, a running task was started in its lane's generation or an        *)
(* earlier one, and a waiter captured started tasks only.                  *)
(*                                                                         *)
(* Most actions end in a drain.  Mid is what holds of the lanes between    *)
(* the change an action makes and the drain that follows, and again after  *)
(* it (DrainKeeps); the invariant of a lane is Mid of the variables.       *)
(*                                                                         *)
(* At the end, theorems about LaneTaskTimeout, the race inside one entry,  *)
(* for every timeout, grace period and length of the run.  Its invariant   *)
(* says which timer is armed while the lane awaits the task                *)
(* (DeadlineArmed) and that nothing is armed otherwise (NothingLeftArmed); *)
(* the deadlines follow from the first, the reasons for a timeout need     *)
(* both.                                                                   *)
(***************************************************************************)
EXTENDS CommandQueue, LaneTaskTimeout, TLAPS, FiniteSetTheorems,
        SequenceTheorems, WellFoundedInduction

USE LaneAssumption, BoundAssumption

-----------------------------------------------------------------------------
(* Entries and queues.                                                     *)

LEMMA EntryFacts ==
    /\ Entry \subseteq Nat /\ IsFiniteSet(Entry)
    /\ \A S \in SUBSET Entry : IsFiniteSet(S) /\ Cardinality(S) \in Nat
<1>1. Entry \subseteq Nat
    BY DEF Entry
<1>2. IsFiniteSet(Entry)
    BY FS_Interval DEF Entry
<1> QED BY <1>1, <1>2, FS_Subset, FS_CardinalityType

(* No entry is in a queue twice. *)
Distinct(q) == \A i, j \in 1..Len(q) : q[i] = q[j] => i = j

(* A queue in dispatch order. *)
InOrder(q, opts) ==
    \A i, j \in 1..Len(q) : i < j => Outranks(opts, q[i], q[j])

LEMMA QueueTypes ==
    ASSUME NEW q \in Seq(Entry)
    PROVE  /\ Len(q) \in Nat /\ \A i \in 1..Len(q) : q[i] \in Entry
           /\ Members(q) \subseteq Entry
           /\ \A e : e \in Members(q) <=> \E i \in 1..Len(q) : q[i] = e
           /\ q # <<>> <=> Len(q) > 0
<1>1. Len(q) \in Nat /\ \A i \in 1..Len(q) : q[i] \in Entry
    BY ElementOfSeq, LenProperties
<1>2. q # <<>> <=> Len(q) > 0
    BY <1>1, EmptySeq
<1> QED BY <1>1, <1>2 DEF Members

(* The pump takes the first n entries of a lane's queue. *)
LEMMA PumpCountFacts ==
    ASSUME NEW a \in Nat, NEW m \in Nat, NEW len \in Nat
    PROVE  /\ PumpCount(a, m, len) \in 0..len
           /\ PumpCount(a, m, len) < len => a + PumpCount(a, m, len) >= m
           /\ PumpCount(a, m, len) > 0 => a + PumpCount(a, m, len) <= m
    BY DEF PumpCount

LEMMA RestFacts ==
    ASSUME NEW q \in Seq(Entry), NEW n \in 0..Len(q)
    PROVE  /\ SubSeq(q, n + 1, Len(q)) \in Seq(Entry)
           /\ Len(SubSeq(q, n + 1, Len(q))) = Len(q) - n
           /\ \A i \in 1..(Len(q) - n) : SubSeq(q, n + 1, Len(q))[i] = q[n + i]
<1>1. Len(q) \in Nat /\ n \in Nat /\ n <= Len(q)
    BY QueueTypes
<1>2. \A i \in (n + 1)..Len(q) : q[i] \in Entry
    BY <1>1, QueueTypes
<1>3. n + 1 \in Int /\ Len(q) \in Int
    BY <1>1
<1>4. /\ SubSeq(q, n + 1, Len(q)) \in Seq(Entry)
      /\ Len(SubSeq(q, n + 1, Len(q))) =
            IF n + 1 <= Len(q) THEN Len(q) - (n + 1) + 1 ELSE 0
      /\ \A i \in 1..(Len(q) - (n + 1) + 1) :
            SubSeq(q, n + 1, Len(q))[i] = q[(n + 1) + i - 1]
    BY <1>2, <1>3, SubSeqProperties
<1>5. Len(SubSeq(q, n + 1, Len(q))) = Len(q) - n
    BY <1>1, <1>4
<1>6. Len(q) - (n + 1) + 1 = Len(q) - n
      /\ \A i \in 1..(Len(q) - n) : (n + 1) + i - 1 = n + i
    BY <1>1
<1> QED BY <1>4, <1>5, <1>6

(* The entries that start are as many as the pump counted. *)
LEMMA FirstOfSize ==
    ASSUME NEW q \in Seq(Entry), Distinct(q), NEW n \in 0..Len(q)
    PROVE  Cardinality(FirstOf(q, n)) = n
<1> DEFINE f == [i \in 1..n |-> q[i]]
           T == FirstOf(q, n)
<1>1. n \in Nat /\ Len(q) \in Nat /\ 1..n \subseteq 1..Len(q)
    BY QueueTypes
<1>2. f \in Bijection(1..n, T)
    <2>1. f \in [1..n -> T]
        BY DEF FirstOf
    <2>2. \A i, j \in 1..n : f[i] = f[j] => i = j
        BY <1>1 DEF Distinct
    <2>3. \A t \in T : \E i \in 1..n : f[i] = t
        BY DEF FirstOf
    <2> HIDE DEF f, T
    <2> QED BY <2>1, <2>2, <2>3 DEF Bijection, Injection, IsInjective, Surjection
<1>3. IsFiniteSet(1..n) /\ Cardinality(1..n) = n
    BY <1>1, FS_Interval
<1> QED BY <1>2, <1>3, FS_Bijection DEF ExistsBijection


(* rest is q without its first n entries. *)
IsRest(rest, q, n) ==
    /\ rest \in Seq(Entry) /\ n \in Nat /\ n <= Len(q) /\ Len(rest) = Len(q) - n
    /\ \A i \in 1..Len(rest) : rest[i] = q[n + i]

LEMMA SubSeqIsRest ==
    ASSUME NEW q \in Seq(Entry), NEW n \in 0..Len(q)
    PROVE  IsRest(SubSeq(q, n + 1, Len(q)), q, n)
<1>1. Len(q) \in Nat /\ n \in Nat /\ n <= Len(q)
    BY QueueTypes
<1>2. /\ SubSeq(q, n + 1, Len(q)) \in Seq(Entry)
      /\ Len(SubSeq(q, n + 1, Len(q))) = Len(q) - n
      /\ \A i \in 1..(Len(q) - n) : SubSeq(q, n + 1, Len(q))[i] = q[n + i]
    BY RestFacts
<1> QED BY <1>1, <1>2 DEF IsRest

(* An index into the rest is one into the queue, and the other way round. *)
LEMMA RestIndex ==
    ASSUME NEW q \in Seq(Entry), NEW n, NEW rest, IsRest(rest, q, n),
           NEW i \in 1..Len(rest)
    PROVE  n + i \in 1..Len(q) /\ n + i > n /\ rest[i] = q[n + i]
<1>1. Len(q) \in Nat
    BY QueueTypes
<1> QED BY <1>1 DEF IsRest

LEMMA RestMembers ==
    ASSUME NEW q \in Seq(Entry), Distinct(q), NEW n, NEW rest, IsRest(rest, q, n)
    PROVE  /\ Distinct(rest) /\ FirstOf(q, n) \subseteq Members(q)
           /\ Members(rest) = Members(q) \ FirstOf(q, n)
<1>1. Len(q) \in Nat /\ n \in Nat /\ n <= Len(q) /\ 1..n \subseteq 1..Len(q)
    BY QueueTypes DEF IsRest
<1>2. FirstOf(q, n) \subseteq Members(q)
    BY <1>1 DEF FirstOf, Members
<1>3. Distinct(rest)
    <2>1. SUFFICES ASSUME NEW i \in 1..Len(rest), NEW j \in 1..Len(rest), rest[i] = rest[j]
                   PROVE  i = j
        BY DEF Distinct
    <2>2. n + i \in 1..Len(q) /\ n + j \in 1..Len(q) /\ q[n + i] = q[n + j]
        BY <2>1, RestIndex
    <2>3. n + i = n + j
        BY <2>2 DEF Distinct
    <2>4. i \in Int /\ j \in Int
        OBVIOUS
    <2> QED BY <1>1, <2>3, <2>4
<1>4. ASSUME NEW e \in Members(rest)
      PROVE  e \in Members(q) \ FirstOf(q, n)
    <2>1. PICK i \in 1..Len(rest) : rest[i] = e
        BY <1>4 DEF Members
    <2>2. n + i \in 1..Len(q) /\ n + i > n /\ q[n + i] = e
        BY <2>1, RestIndex
    <2>3. ASSUME NEW j \in 1..n, q[j] = e
          PROVE  FALSE
        <3>1. j = n + i
            BY <1>1, <2>2, <2>3 DEF Distinct
        <3> QED BY <1>1, <2>2, <3>1
    <2> QED BY <2>2, <2>3 DEF Members, FirstOf
<1>5. ASSUME NEW e \in Members(q), e \notin FirstOf(q, n)
      PROVE  e \in Members(rest)
    <2>1. PICK j \in 1..Len(q) : q[j] = e
        BY <1>5 DEF Members
    <2>2. j > n
        BY <1>1, <1>5, <2>1 DEF FirstOf
    <2>3. j - n \in 1..Len(rest) /\ n + (j - n) = j
        BY <1>1, <2>2 DEF IsRest
    <2>4. rest[j - n] = e
        BY <2>1, <2>3, RestIndex
    <2> QED BY <2>3, <2>4 DEF Members
<1> QED BY <1>2, <1>3, <1>4, <1>5

(* One lane's pump: q its queue, a the slots taken, m its limit; n entries *)
(* start and the rest waits on.                                            *)
IsPump(q, a, m, n, rest, first) ==
    /\ q \in Seq(Entry) /\ Distinct(q) /\ a \in SUBSET Entry /\ m \in Nat
    /\ Members(q) \cap a = {} /\ n = PumpCount(Cardinality(a), m, Len(q))
    /\ rest = SubSeq(q, n + 1, Len(q)) /\ first = FirstOf(q, n)

LEMMA PumpFacts ==
    ASSUME NEW q, NEW a, NEW m, NEW n, NEW rest, NEW first,
           IsPump(q, a, m, n, rest, first)
    PROVE  /\ rest \in Seq(Entry) /\ Distinct(rest) /\ first \subseteq Members(q)
           /\ Members(rest) = Members(q) \ first
           /\ rest # <<>> => Cardinality(a \cup first) >= m
           /\ first # {} => Cardinality(a \cup first) <= m
<1>0. /\ q \in Seq(Entry) /\ Distinct(q) /\ a \in SUBSET Entry /\ m \in Nat
      /\ Members(q) \cap a = {} /\ n = PumpCount(Cardinality(a), m, Len(q))
      /\ rest = SubSeq(q, n + 1, Len(q)) /\ first = FirstOf(q, n)
    BY DEF IsPump
<1>1. Cardinality(a) \in Nat /\ Len(q) \in Nat
    BY <1>0, EntryFacts, QueueTypes
<1>2. /\ n \in 0..Len(q) /\ n \in Nat
      /\ n < Len(q) => Cardinality(a) + n >= m
      /\ n > 0 => Cardinality(a) + n <= m
    <2>1. n = PumpCount(Cardinality(a), m, Len(q))
        BY <1>0
    <2>2. /\ PumpCount(Cardinality(a), m, Len(q)) \in 0..Len(q)
          /\ PumpCount(Cardinality(a), m, Len(q)) < Len(q) =>
               Cardinality(a) + PumpCount(Cardinality(a), m, Len(q)) >= m
          /\ PumpCount(Cardinality(a), m, Len(q)) > 0 =>
               Cardinality(a) + PumpCount(Cardinality(a), m, Len(q)) <= m
        BY <1>0, <1>1, PumpCountFacts
    <2> QED BY <1>1, <2>1, <2>2
<1>3. IsRest(rest, q, n)
    BY <1>0, <1>2, SubSeqIsRest
<1>4. /\ Distinct(rest) /\ first \subseteq Members(q)
      /\ Members(rest) = Members(q) \ first
    BY <1>0, <1>3, RestMembers
<1>5. Cardinality(a \cup first) = Cardinality(a) + n
    <2>1. first \subseteq Entry /\ a \cap first = {}
        BY <1>0, <1>4, QueueTypes
    <2>2. Cardinality(first) = n
        BY <1>0, <1>2, FirstOfSize
    <2>3. IsFiniteSet(a) /\ IsFiniteSet(first) /\ Cardinality(a \cap first) = 0
        BY <1>0, <2>1, EntryFacts, FS_EmptySet
    <2>4. Cardinality(a \cup first) = Cardinality(a) + Cardinality(first) - 0
        BY <2>3, FS_Union
    <2> QED BY <1>1, <1>2, <2>2, <2>4
<1>6. rest \in Seq(Entry) /\ (rest # <<>> => n < Len(q))
    BY <1>0, <1>1, <1>2, <1>3, QueueTypes DEF IsRest
<1>7. first # {} => n > 0
    BY <1>0, <1>2 DEF FirstOf
<1> QED BY <1>0, <1>2, <1>4, <1>5, <1>6, <1>7

(* What the pump leaves is in order, and outranked by what it takes. *)
LEMMA PumpInOrder ==
    ASSUME NEW q \in Seq(Entry), NEW opts, InOrder(q, opts), NEW n, NEW rest,
           IsRest(rest, q, n)
    PROVE  /\ InOrder(rest, opts)
           /\ \A e \in FirstOf(q, n) : \A i \in 1..Len(rest) : Outranks(opts, e, rest[i])
<1>1. Len(q) \in Nat /\ n \in Nat /\ n <= Len(q)
    BY QueueTypes DEF IsRest
<1>2. ASSUME NEW i \in 1..Len(rest), NEW j \in 1..Len(rest), i < j
      PROVE  Outranks(opts, rest[i], rest[j])
    <2>1. n + i < n + j
        BY <1>1, <1>2
    <2>2. /\ n + i \in 1..Len(q) /\ n + j \in 1..Len(q)
          /\ rest[i] = q[n + i] /\ rest[j] = q[n + j]
        BY RestIndex
    <2> QED BY <2>1, <2>2 DEF InOrder
<1>3. ASSUME NEW e \in FirstOf(q, n), NEW i \in 1..Len(rest)
      PROVE  Outranks(opts, e, rest[i])
    <2>1. PICK j \in 1..n : q[j] = e
        BY <1>3 DEF FirstOf
    <2>2. n + i \in 1..Len(q) /\ n + i > n /\ rest[i] = q[n + i]
        BY RestIndex
    <2>3. j \in 1..Len(q) /\ j < n + i
        BY <1>1, <2>2
    <2> QED BY <2>1, <2>2, <2>3 DEF InOrder
<1> QED BY <1>2, <1>3 DEF InOrder


-----------------------------------------------------------------------------
(* Insertion.                                                              *)

(* A set of indices has a first one. *)
LEMMA LeastIndex ==
    ASSUME NEW S \in SUBSET Nat, S # {}
    PROVE  \E i \in S : \A j \in S : i <= j
<1>1. PICK i \in S : \A j \in S : ~(<<j, i>> \in OpToRel(<, Nat))
    BY NatLessThanWellFounded, WFMin
<1>2. \A j \in S : ~(j < i)
    BY <1>1 DEF OpToRel
<1> QED BY <1>2

LEMMA OutranksIsTotal ==
    ASSUME NEW opts \in [Entry -> EntryOptions], NEW e \in Entry, NEW f \in Entry, e # f
    PROVE  Outranks(opts, e, f) \/ Outranks(opts, f, e)
<1>1. e \in Nat /\ f \in Nat /\ opts[e].priority \in Int /\ opts[f].priority \in Int
    BY EntryFacts DEF EntryOptions, Priority
<1> QED BY <1>1 DEF Outranks

LEMMA OutranksIsTransitive ==
    ASSUME NEW opts \in [Entry -> EntryOptions],
           NEW e \in Entry, NEW f \in Entry, NEW g \in Entry,
           Outranks(opts, e, f), Outranks(opts, f, g)
    PROVE  Outranks(opts, e, g)
<1>1. /\ e \in Nat /\ f \in Nat /\ g \in Nat
      /\ opts[e].priority \in Int /\ opts[f].priority \in Int /\ opts[g].priority \in Int
    BY EntryFacts DEF EntryOptions, Priority
<1> QED BY <1>1 DEF Outranks

(* s is q with e put at position k. *)
IsInsertion(s, q, e, k) ==
    /\ s \in Seq(Entry) /\ k \in 1..(Len(q) + 1) /\ Len(s) = Len(q) + 1
    /\ s[k] = e
    /\ \A i \in 1..Len(q) : (i < k => s[i] = q[i]) /\ (i >= k => s[i + 1] = q[i])

(* e is not in q, and opts differs from the options in force at most there. *)
NewBeside(q, e, opts) ==
    \A i \in 1..Len(q) : q[i] # e /\ opts[q[i]] = entry[q[i]]

(* e goes behind the entries that outrank it and before the others. *)
LEMMA InsertAtFacts ==
    ASSUME entry \in [Entry -> EntryOptions], NEW q \in Seq(Entry), NEW e \in Entry,
           NEW p \in Priority,
           NEW opts, opts \in [Entry -> EntryOptions], opts[e].priority = p,
           NewBeside(q, e, opts), InOrder(q, opts), NEW k, k = InsertAt(q, e, p)
    PROVE  /\ k \in 1..(Len(q) + 1)
           /\ \A i \in 1..Len(q) : i < k => Outranks(opts, q[i], e)
           /\ \A i \in 1..Len(q) : i >= k => Outranks(opts, e, q[i])
<1> DEFINE P == InsertPositions(q, e, p)
<1>1. Len(q) \in Nat /\ \A i \in 1..Len(q) : q[i] \in Entry
    BY QueueTypes
<1>2. \A i \in 1..Len(q) : i \in P <=> Outranks(opts, e, q[i])
    BY <1>1 DEF InsertPositions, Outranks, NewBeside
<1>3. \A i \in 1..Len(q) : i \notin P => Outranks(opts, q[i], e)
    BY <1>1, <1>2, OutranksIsTotal DEF NewBeside
<1>4. P \subseteq 1..Len(q)
    BY DEF InsertPositions
<1>5. CASE P = {}
    <2>1. k = Len(q) + 1
        BY <1>5 DEF InsertAt
    <2> QED BY <1>1, <1>3, <1>5, <2>1
<1>6. CASE P # {}
    <2>1. \E i \in P : \A j \in P : i <= j
        BY <1>1, <1>4, <1>6, LeastIndex
    <2>2. k = CHOOSE i \in P : \A j \in P : i <= j
        BY <1>6 DEF InsertAt
    <2> HIDE DEF P
    <2>3. k \in P /\ \A j \in P : k <= j
        BY <2>1, <2>2
    <2>4. k \in 1..Len(q)
        BY <1>4, <2>3
    <2>5. \A i \in 1..Len(q) : i < k => Outranks(opts, q[i], e)
        <3>1. SUFFICES ASSUME NEW i \in 1..Len(q), i < k PROVE i \notin P
            BY <1>3
        <3> QED BY <2>3, <2>4, <3>1
    <2>6. \A i \in 1..Len(q) : i >= k => Outranks(opts, e, q[i])
        <3>1. SUFFICES ASSUME NEW i \in 1..Len(q), i >= k PROVE Outranks(opts, e, q[i])
            OBVIOUS
        <3>2. Outranks(opts, e, q[k])
            BY <1>2, <2>3, <2>4
        <3>3. CASE i = k
            BY <3>2, <3>3
        <3>4. CASE i > k
            <4>1. Outranks(opts, q[k], q[i])
                BY <2>4, <3>4 DEF InOrder
            <4> QED BY <1>1, <2>4, <3>2, <4>1, OutranksIsTransitive
        <3> QED BY <1>1, <2>4, <3>1, <3>3, <3>4
    <2> QED BY <1>1, <2>4, <2>5, <2>6
<1> QED BY <1>5, <1>6

LEMMA InsertedIsInsertion ==
    ASSUME NEW q \in Seq(Entry), NEW e \in Entry, NEW p,
           InsertAt(q, e, p) \in 1..(Len(q) + 1)
    PROVE  IsInsertion(Inserted(q, e, p), q, e, InsertAt(q, e, p))
<1> DEFINE k == InsertAt(q, e, p)
           s == Inserted(q, e, p)
<1>1. Len(q) \in Nat /\ \A i \in 1..Len(q) : q[i] \in Entry
    BY QueueTypes
<1> HIDE DEF k
<1>2. s = [i \in 1..(Len(q) + 1) |-> IF i < k THEN q[i] ELSE IF i = k THEN e ELSE q[i - 1]]
    BY DEF Inserted, k
<1>3. k \in 1..(Len(q) + 1)
    BY DEF k
<1> HIDE DEF s
<1>4. \A i \in 1..(Len(q) + 1) : s[i] \in Entry
    <2>1. SUFFICES ASSUME NEW i \in 1..(Len(q) + 1) PROVE s[i] \in Entry
        OBVIOUS
    <2>2. CASE i < k
        BY <1>1, <1>2, <1>3, <2>2
    <2>3. CASE i = k
        BY <1>2, <2>3
    <2>4. CASE i > k
        <3>1. i - 1 \in 1..Len(q)
            BY <1>1, <1>3, <2>4
        <3> QED BY <1>1, <1>2, <1>3, <2>4, <3>1
    <2> QED BY <1>3, <2>2, <2>3, <2>4
<1>5. s \in [1..(Len(q) + 1) -> Entry]
    BY <1>2, <1>4
<1>6. Len(q) + 1 \in Nat
    BY <1>1
<1>7. s \in Seq(Entry) /\ Len(s) = Len(q) + 1
    BY <1>5, <1>6, SeqDef, LenProperties
<1>8. s[k] = e
    BY <1>2, <1>3
<1>9. \A i \in 1..Len(q) : (i < k => s[i] = q[i]) /\ (i >= k => s[i + 1] = q[i])
    <2>1. SUFFICES ASSUME NEW i \in 1..Len(q)
                   PROVE  (i < k => s[i] = q[i]) /\ (i >= k => s[i + 1] = q[i])
        OBVIOUS
    <2>2. i \in 1..(Len(q) + 1) /\ i + 1 \in 1..(Len(q) + 1) /\ (i + 1) - 1 = i
        BY <1>1
    <2>3. CASE i < k
        BY <1>2, <1>3, <2>2, <2>3
    <2>4. CASE i >= k
        <3>1. ~(i + 1 < k) /\ i + 1 # k
            BY <1>3, <2>4
        <3>2. s[i + 1] = q[(i + 1) - 1]
            BY <1>2, <2>2, <3>1
        <3> QED BY <1>3, <2>2, <2>4, <3>2
    <2> QED BY <1>3, <2>3, <2>4
<1> QED BY <1>3, <1>7, <1>8, <1>9 DEF IsInsertion, k, s


(* An index into the result is the new one or comes from one into q. *)
LEMMA InsertionIndex ==
    ASSUME NEW q \in Seq(Entry), NEW e, NEW k, NEW s, IsInsertion(s, q, e, k),
           NEW i \in 1..Len(s)
    PROVE  \/ i = k /\ s[i] = e
           \/ i < k /\ i \in 1..Len(q) /\ s[i] = q[i]
           \/ i > k /\ i - 1 \in 1..Len(q) /\ i - 1 >= k /\ s[i] = q[i - 1]
<1>1. Len(q) \in Nat /\ k \in 1..(Len(q) + 1) /\ Len(s) = Len(q) + 1
    BY QueueTypes DEF IsInsertion
<1>2. CASE i = k
    BY <1>2 DEF IsInsertion
<1>3. CASE i < k
    <2>1. i \in 1..Len(q)
        BY <1>1, <1>3
    <2> QED BY <1>3, <2>1 DEF IsInsertion
<1>4. CASE i > k
    <2>1. i - 1 \in 1..Len(q) /\ i - 1 >= k /\ (i - 1) + 1 = i
        BY <1>1, <1>4
    <2>2. s[(i - 1) + 1] = q[i - 1]
        BY <2>1 DEF IsInsertion
    <2> QED BY <1>4, <2>1, <2>2
<1> QED BY <1>1, <1>2, <1>3, <1>4

LEMMA InsertionMembers ==
    ASSUME NEW q \in Seq(Entry), NEW e \in Entry, NEW k, NEW s, IsInsertion(s, q, e, k),
           Distinct(q), e \notin Members(q)
    PROVE  Members(s) = Members(q) \cup {e} /\ Distinct(s)
<1>1. /\ Len(q) \in Nat /\ k \in 1..(Len(q) + 1) /\ Len(s) = Len(q) + 1
      /\ s \in Seq(Entry) /\ s[k] = e /\ k \in 1..Len(s)
    BY QueueTypes DEF IsInsertion
<1>2. \A i \in 1..Len(q) : q[i] # e
    BY DEF Members
<1>3. Members(s) \subseteq Members(q) \cup {e}
    <2>1. SUFFICES ASSUME NEW i \in 1..Len(s) PROVE s[i] \in Members(q) \cup {e}
        BY DEF Members
    <2> QED BY InsertionIndex DEF Members
<1>4. ASSUME NEW i \in 1..Len(q)
      PROVE  q[i] \in Members(s)
    <2>1. CASE i < k
        <3>1. i \in 1..Len(s) /\ s[i] = q[i]
            BY <1>1, <2>1 DEF IsInsertion
        <3> QED BY <3>1 DEF Members
    <2>2. CASE i >= k
        <3>1. i + 1 \in 1..Len(s) /\ s[i + 1] = q[i]
            BY <1>1, <2>2 DEF IsInsertion
        <3> QED BY <3>1 DEF Members
    <2> QED BY <1>1, <2>1, <2>2
<1>5. e \in Members(s)
    BY <1>1 DEF Members
<1>6. Distinct(s)
    <2>1. SUFFICES ASSUME NEW i \in 1..Len(s), NEW j \in 1..Len(s), s[i] = s[j]
                   PROVE  i = j
        BY DEF Distinct
    <2>2. i \in Int /\ j \in Int /\ k \in Int
        BY <1>1
    <2>3. /\ \/ i = k /\ s[i] = e
             \/ i < k /\ i \in 1..Len(q) /\ s[i] = q[i]
             \/ i > k /\ i - 1 \in 1..Len(q) /\ i - 1 >= k /\ s[i] = q[i - 1]
          /\ \/ j = k /\ s[j] = e
             \/ j < k /\ j \in 1..Len(q) /\ s[j] = q[j]
             \/ j > k /\ j - 1 \in 1..Len(q) /\ j - 1 >= k /\ s[j] = q[j - 1]
        BY InsertionIndex
    <2>4. \A a, b \in 1..Len(q) : q[a] = q[b] => a = b
        BY DEF Distinct
    <2>5. CASE i = k
        BY <1>2, <2>1, <2>2, <2>3, <2>5
    <2>6. CASE i < k /\ s[i] = q[i] /\ i \in 1..Len(q)
        <3>1. j < k => i = j
            BY <2>1, <2>2, <2>3, <2>4, <2>6
        <3>2. j > k => i = j - 1
            BY <2>1, <2>2, <2>3, <2>4, <2>6
        <3> QED BY <1>2, <2>1, <2>2, <2>3, <2>6, <3>1, <3>2
    <2>7. CASE i > k /\ s[i] = q[i - 1] /\ i - 1 \in 1..Len(q) /\ i - 1 >= k
        <3>1. j < k => i - 1 = j
            BY <2>1, <2>2, <2>3, <2>4, <2>7
        <3>2. j > k => i - 1 = j - 1
            BY <2>1, <2>2, <2>3, <2>4, <2>7
        <3> QED BY <1>2, <2>1, <2>2, <2>3, <2>7, <3>1, <3>2
    <2> QED BY <2>3, <2>5, <2>6, <2>7
<1> QED BY <1>3, <1>4, <1>5, <1>6 DEF Members

LEMMA InsertionInOrder ==
    ASSUME NEW q \in Seq(Entry), NEW e \in Entry, NEW k, NEW s, IsInsertion(s, q, e, k),
           NEW opts, InOrder(q, opts),
           \A i \in 1..Len(q) : i < k => Outranks(opts, q[i], e),
           \A i \in 1..Len(q) : i >= k => Outranks(opts, e, q[i])
    PROVE  InOrder(s, opts)
<1>1. SUFFICES ASSUME NEW i \in 1..Len(s), NEW j \in 1..Len(s), i < j
               PROVE  Outranks(opts, s[i], s[j])
    BY DEF InOrder
<1>2. /\ \/ i = k /\ s[i] = e
         \/ i < k /\ i \in 1..Len(q) /\ s[i] = q[i]
         \/ i > k /\ i - 1 \in 1..Len(q) /\ i - 1 >= k /\ s[i] = q[i - 1]
      /\ \/ j = k /\ s[j] = e
         \/ j < k /\ j \in 1..Len(q) /\ s[j] = q[j]
         \/ j > k /\ j - 1 \in 1..Len(q) /\ j - 1 >= k /\ s[j] = q[j - 1]
    BY InsertionIndex
<1>3. i \in Int /\ j \in Int /\ k \in Int /\ Len(q) \in Nat
    BY QueueTypes DEF IsInsertion
<1>4. CASE i = k
    <2>1. j - 1 \in 1..Len(q) /\ j - 1 >= k /\ s[j] = q[j - 1]
        BY <1>1, <1>2, <1>3, <1>4
    <2> QED BY <1>2, <1>3, <1>4, <2>1
<1>5. CASE j = k
    <2>1. i < k /\ i \in 1..Len(q) /\ s[i] = q[i]
        BY <1>1, <1>2, <1>3, <1>5
    <2> QED BY <1>2, <1>3, <1>5, <2>1
<1>6. CASE i # k /\ j # k
    <2>1. \A a, b \in 1..Len(q) : a < b => Outranks(opts, q[a], q[b])
        BY DEF InOrder
    <2>2. CASE i < k /\ j < k
        BY <1>1, <1>2, <1>3, <2>1, <2>2
    <2>3. CASE i < k /\ j > k
        <3>1. i < j - 1
            BY <1>2, <1>3, <2>3
        <3> QED BY <1>2, <1>3, <2>1, <2>3, <3>1
    <2>4. CASE i > k /\ j > k
        <3>1. i - 1 < j - 1
            BY <1>1, <1>3
        <3> QED BY <1>2, <1>3, <2>1, <2>4, <3>1
    <2> QED BY <1>1, <1>3, <1>6, <2>2, <2>3, <2>4
<1> QED BY <1>4, <1>5, <1>6

(* e may be inserted in q with priority p, opts being the options then. *)
CanInsert(q, e, p, opts) ==
    /\ entry \in [Entry -> EntryOptions] /\ opts \in [Entry -> EntryOptions]
    /\ q \in Seq(Entry) /\ e \in Entry /\ p \in Priority /\ opts[e].priority = p
    /\ e \notin Members(q) /\ Distinct(q) /\ NewBeside(q, e, opts) /\ InOrder(q, opts)

(* enqueueLaneEntry: the new entry is in the queue once, at its rank. *)
LEMMA InsertedFacts ==
    ASSUME NEW q, NEW e, NEW p, NEW opts, CanInsert(q, e, p, opts),
           NEW s, s = Inserted(q, e, p)
    PROVE  /\ s \in Seq(Entry) /\ Distinct(s) /\ Members(s) = Members(q) \cup {e}
           /\ InOrder(s, opts)
<1>0. /\ entry \in [Entry -> EntryOptions] /\ opts \in [Entry -> EntryOptions]
      /\ q \in Seq(Entry) /\ e \in Entry /\ p \in Priority /\ opts[e].priority = p
      /\ e \notin Members(q) /\ Distinct(q) /\ NewBeside(q, e, opts) /\ InOrder(q, opts)
    BY DEF CanInsert
<1> DEFINE k == InsertAt(q, e, p)
<1>1. /\ k \in 1..(Len(q) + 1)
      /\ \A i \in 1..Len(q) : i < k => Outranks(opts, q[i], e)
      /\ \A i \in 1..Len(q) : i >= k => Outranks(opts, e, q[i])
    BY <1>0, InsertAtFacts
<1>2. IsInsertion(s, q, e, k)
    BY <1>0, <1>1, InsertedIsInsertion
<1> HIDE DEF k
<1>3. Members(s) = Members(q) \cup {e} /\ Distinct(s)
    BY <1>0, <1>2, InsertionMembers
<1>4. InOrder(s, opts)
    BY <1>0, <1>1, <1>2, InsertionInOrder
<1> QED BY <1>2, <1>3, <1>4 DEF IsInsertion


-----------------------------------------------------------------------------
(* The drain.                                                              *)

(* Queued entries wait unstarted, once, in order, in their own lane. *)
QueuesFit(q, b, opts) ==
    \A l \in Lane :
        /\ Distinct(q[l]) /\ InOrder(q[l], opts)
        /\ \A e \in Members(q[l]) : b[e] = "unstarted" /\ opts[e].lane = l

Queued(e, q) == \E l \in Lane : e \in Members(q[l])

(* The promise of a command is open while it waits or runs. *)
PromisesFit(q, b, prm) ==
    \A e \in Entry : prm[e] = "pending" <=> Queued(e, q) \/ b[e] = "running"

(* A lane's slots are those of its current generation's running tasks. *)
HoldsSlot(e, l, g, b, sg, opts) ==
    b[e] = "running" /\ opts[e].lane = l /\ sg[e] = g[opts[e].lane]

SlotsFit(a, g, b, sg, opts) ==
    \A l \in Lane : \A e \in Entry : e \in a[l] <=> HoldsSlot(e, l, g, b, sg, opts)

PastFit(g, b, sg, opts) ==
    \A e \in Entry : b[e] = "running" => sg[e] <= g[opts[e].lane]

MidTypes(q, a, m, g, b, sg, opts, prm) ==
    /\ q \in [Lane -> Seq(Entry)] /\ a \in [Lane -> SUBSET Entry]
    /\ m \in [Lane -> 0..MaxConcurrency] /\ g \in [Lane -> 0..MaxGeneration]
    /\ b \in [Entry -> Body] /\ sg \in [Entry -> 0..MaxGeneration]
    /\ opts \in [Entry -> EntryOptions] /\ prm \in [Entry -> Promise]

(* Between the change an action makes and the drain that ends it. *)
Mid(q, a, m, g, b, sg, opts, prm) ==
    /\ MidTypes(q, a, m, g, b, sg, opts, prm)
    /\ QueuesFit(q, b, opts) /\ PromisesFit(q, b, prm)
    /\ SlotsFit(a, g, b, sg, opts) /\ PastFit(g, b, sg, opts)

(* The entries of lane l that a drain of the lanes S starts. *)
CountIn(l, S, q, a, m) ==
    IF l \in S THEN PumpCount(Cardinality(a[l]), m[l], Len(q[l])) ELSE 0
StartedIn(l, S, q, a, m) == FirstOf(q[l], CountIn(l, S, q, a, m))

LEMMA DrainEffect ==
    ASSUME NEW S, NEW q, NEW a, NEW m, NEW g, NEW b, DrainLanes(S, q, a, m, g, b),
           entry' \in [Entry -> EntryOptions]
    PROVE  /\ queue' = [l \in Lane |-> SubSeq(q[l], CountIn(l, S, q, a, m) + 1, Len(q[l]))]
           /\ activeTaskIds' = [l \in Lane |-> a[l] \cup StartedIn(l, S, q, a, m)]
           /\ body' = [e \in Entry |->
                         IF e \in StartedIn(entry'[e].lane, S, q, a, m)
                         THEN "running" ELSE b[e]]
           /\ startGeneration' =
                [e \in Entry |-> IF e \in StartedIn(entry'[e].lane, S, q, a, m)
                                 THEN g[entry'[e].lane] ELSE startGeneration[e]]
<1>1. \A e \in Entry : entry'[e].lane \in Lane
    BY DEF EntryOptions
<1> QED BY <1>1 DEF DrainLanes, CountIn, StartedIn

(* What a drain does to one lane. *)
LaneDrained(l, S, q, a, m) ==
    /\ queue'[l] \in Seq(Entry) /\ Distinct(queue'[l]) /\ InOrder(queue'[l], entry')
    /\ StartedIn(l, S, q, a, m) \subseteq Members(q[l])
    /\ Members(queue'[l]) = Members(q[l]) \ StartedIn(l, S, q, a, m)
    /\ activeTaskIds'[l] = a[l] \cup StartedIn(l, S, q, a, m)
    /\ l \in S /\ queue'[l] # <<>> => Cardinality(activeTaskIds'[l]) >= m[l]
    /\ StartedIn(l, S, q, a, m) # {} => Cardinality(activeTaskIds'[l]) <= m[l]
    /\ l \notin S => queue'[l] = q[l] /\ activeTaskIds'[l] = a[l]
    /\ \A e \in StartedIn(l, S, q, a, m) : \A i \in 1..Len(queue'[l]) :
         Outranks(entry', e, queue'[l][i])

LEMMA DrainOfLane ==
    ASSUME NEW S, NEW q, NEW a, NEW m, NEW g, NEW b,
           Mid(q, a, m, g, b, startGeneration, entry', promise'),
           DrainLanes(S, q, a, m, g, b), NEW l \in Lane
    PROVE  LaneDrained(l, S, q, a, m)
<1> DEFINE n == CountIn(l, S, q, a, m)
           first == StartedIn(l, S, q, a, m)
<1>1. /\ q[l] \in Seq(Entry) /\ a[l] \in SUBSET Entry /\ m[l] \in Nat
      /\ entry' \in [Entry -> EntryOptions]
      /\ Distinct(q[l]) /\ InOrder(q[l], entry') /\ Len(q[l]) \in Nat
    BY QueueTypes DEF Mid, MidTypes, QueuesFit
<1>2. Members(q[l]) \cap a[l] = {}
    <2>1. \A e \in a[l] : b[e] = "running"
        BY <1>1 DEF Mid, SlotsFit, HoldsSlot
    <2>2. \A e \in Members(q[l]) : b[e] = "unstarted"
        BY DEF Mid, QueuesFit
    <2> QED BY <2>1, <2>2
<1>3. /\ queue'[l] = SubSeq(q[l], n + 1, Len(q[l])) /\ first = FirstOf(q[l], n)
      /\ activeTaskIds'[l] = a[l] \cup first
    BY <1>1, DrainEffect DEF StartedIn
<1>4. CASE l \in S
    <2>1. n = PumpCount(Cardinality(a[l]), m[l], Len(q[l]))
        BY <1>4 DEF CountIn
    <2> DEFINE rest == queue'[l]
    <2> HIDE DEF n, first, rest
    <2>2. n \in 0..Len(q[l])
        <3>1. Cardinality(a[l]) \in Nat
            BY <1>1, EntryFacts
        <3>2. PumpCount(Cardinality(a[l]), m[l], Len(q[l])) \in 0..Len(q[l])
            BY <1>1, <3>1, PumpCountFacts
        <3> QED BY <2>1, <3>2
    <2>6. rest = SubSeq(q[l], n + 1, Len(q[l]))
        BY <1>3 DEF rest
    <2>3. /\ rest \in Seq(Entry) /\ Distinct(rest) /\ first \subseteq Members(q[l])
          /\ Members(rest) = Members(q[l]) \ first
          /\ rest # <<>> => Cardinality(a[l] \cup first) >= m[l]
          /\ first # {} => Cardinality(a[l] \cup first) <= m[l]
        <3>1. IsPump(q[l], a[l], m[l], n, rest, first)
            BY <1>1, <1>2, <1>3, <2>1, <2>6 DEF IsPump
        <3> QED BY <3>1, PumpFacts
    <2>4. IsRest(rest, q[l], n)
        BY <1>1, <2>2, <2>6, SubSeqIsRest
    <2>5. /\ InOrder(rest, entry')
          /\ \A e \in first : \A i \in 1..Len(rest) : Outranks(entry', e, rest[i])
        BY <1>1, <1>3, <2>4, PumpInOrder
    <2> QED BY <1>3, <1>4, <2>3, <2>5 DEF LaneDrained, first, rest
<1>5. CASE l \notin S
    <2>1. n = 0 /\ n + 1 = 1
        BY <1>5 DEF CountIn
    <2>2. queue'[l] = q[l]
        BY <1>1, <1>3, <2>1, SubSeqFull
    <2>3. first = {}
        BY <1>3, <2>1 DEF FirstOf
    <2> HIDE DEF n, first
    <2> QED BY <1>1, <1>3, <1>5, <2>2, <2>3 DEF LaneDrained, first
<1> QED BY <1>4, <1>5


(* What a drain of the lanes S does to the whole state. *)
Drained(S, q, a, m, b) ==
    /\ \A l \in Lane : LaneDrained(l, S, q, a, m)
    /\ \A e \in Entry : b[e] # "unstarted" =>
         body'[e] = b[e] /\ startGeneration'[e] = startGeneration[e]
    /\ \A e \in Entry : ~Queued(e, q) => body'[e] = b[e]

LEMMA DrainKeeps ==
    ASSUME NEW S, NEW q, NEW a, NEW m, NEW g, NEW b,
           Mid(q, a, m, g, b, startGeneration, entry', promise'),
           DrainLanes(S, q, a, m, g, b)
    PROVE  /\ Mid(queue', activeTaskIds', m, g, body', startGeneration', entry', promise')
           /\ Drained(S, q, a, m, b)
<1> DEFINE St(l) == StartedIn(l, S, q, a, m)
           Starts(e) == e \in St(entry'[e].lane)
<1>1. MidTypes(q, a, m, g, b, startGeneration, entry', promise')
    BY DEF Mid
<1>2. \A l \in Lane : LaneDrained(l, S, q, a, m)
    BY DrainOfLane
<1>3. /\ \A l \in Lane : q[l] \in Seq(Entry) /\ a[l] \in SUBSET Entry
      /\ \A e \in Entry : entry'[e].lane \in Lane /\ g[entry'[e].lane] \in 0..MaxGeneration
      /\ entry' \in [Entry -> EntryOptions]
    BY <1>1 DEF MidTypes, EntryOptions
<1>4. /\ queue' = [l \in Lane |-> queue'[l]]
      /\ activeTaskIds' = [l \in Lane |-> activeTaskIds'[l]]
      /\ body' = [e \in Entry |-> IF Starts(e) THEN "running" ELSE b[e]]
      /\ startGeneration' = [e \in Entry |-> IF Starts(e) THEN g[entry'[e].lane]
                                             ELSE startGeneration[e]]
    BY <1>3, DrainEffect
<1>5. \A l \in Lane : \A e \in St(l) :
        /\ e \in Members(q[l]) /\ e \in Entry /\ b[e] = "unstarted"
        /\ entry'[e].lane = l /\ Starts(e)
    <2>1. \A l \in Lane : St(l) \subseteq Members(q[l]) /\ Members(q[l]) \subseteq Entry
        BY <1>2, <1>3, QueueTypes DEF LaneDrained
    <2>2. \A l \in Lane : \A e \in Members(q[l]) : b[e] = "unstarted" /\ entry'[e].lane = l
        BY DEF Mid, QueuesFit
    <2> QED BY <2>1, <2>2
<1>6. /\ \A l \in Lane : /\ queue'[l] \in Seq(Entry) /\ Distinct(queue'[l])
                         /\ InOrder(queue'[l], entry')
                         /\ Members(queue'[l]) = Members(q[l]) \ St(l)
                         /\ activeTaskIds'[l] = a[l] \cup St(l)
    BY <1>2 DEF LaneDrained
<1>7. /\ \A e \in Entry : Starts(e) => /\ body'[e] = "running" /\ b[e] = "unstarted"
                                       /\ startGeneration'[e] = g[entry'[e].lane]
                                       /\ Queued(e, q)
      /\ \A e \in Entry : ~Starts(e) => /\ body'[e] = b[e]
                                        /\ startGeneration'[e] = startGeneration[e]
    BY <1>3, <1>4, <1>5 DEF Queued
<1> HIDE DEF St, Starts
<1>8. MidTypes(queue', activeTaskIds', m, g, body', startGeneration', entry', promise')
    <2>1. queue' \in [Lane -> Seq(Entry)]
        BY <1>4, <1>6
    <2>2. activeTaskIds' \in [Lane -> SUBSET Entry]
        <3>1. ASSUME NEW l \in Lane PROVE activeTaskIds'[l] \in SUBSET Entry
            <4>1. a[l] \subseteq Entry /\ St(l) \subseteq Entry
                BY <1>3, <1>5
            <4> QED BY <1>6, <4>1
        <3> QED BY <1>4, <3>1
    <2>3. body' \in [Entry -> Body]
        <3>1. "running" \in Body /\ b \in [Entry -> Body]
            BY <1>1 DEF MidTypes, Body
        <3> QED BY <1>4, <3>1
    <2>4. startGeneration' \in [Entry -> 0..MaxGeneration]
        <3>1. startGeneration \in [Entry -> 0..MaxGeneration]
            BY <1>1 DEF MidTypes
        <3> QED BY <1>3, <1>4, <3>1
    <2> QED BY <1>1, <2>1, <2>2, <2>3, <2>4 DEF MidTypes
<1>9. QueuesFit(queue', body', entry')
    <2>1. ASSUME NEW l \in Lane, NEW e \in Members(queue'[l])
          PROVE  body'[e] = "unstarted" /\ entry'[e].lane = l
        <3>1. e \in Members(q[l]) /\ e \notin St(l) /\ e \in Entry
            <4>1. e \in Members(q[l]) /\ e \notin St(l)
                BY <1>6, <2>1
            <4>2. Members(q[l]) \subseteq Entry
                BY <1>3, QueueTypes
            <4> QED BY <4>1, <4>2
        <3>2. b[e] = "unstarted" /\ entry'[e].lane = l
            BY <3>1 DEF Mid, QueuesFit
        <3>3. ~Starts(e)
            BY <3>1, <3>2 DEF Starts
        <3> QED BY <1>7, <3>1, <3>2, <3>3
    <2> QED BY <1>6, <2>1 DEF QueuesFit
<1>10. PromisesFit(queue', body', promise')
    <2>1. SUFFICES ASSUME NEW e \in Entry
                   PROVE  promise'[e] = "pending" <=> Queued(e, queue') \/ body'[e] = "running"
        BY DEF PromisesFit
    <2>2. promise'[e] = "pending" <=> Queued(e, q) \/ b[e] = "running"
        BY DEF Mid, PromisesFit
    <2>3. CASE Starts(e)
        BY <1>7, <2>2, <2>3
    <2>4. CASE ~Starts(e)
        <3>1. \A l \in Lane : e \in Members(queue'[l]) <=> e \in Members(q[l])
            BY <1>5, <1>6, <2>4
        <3> QED BY <1>7, <2>2, <2>4, <3>1 DEF Queued
    <2> QED BY <2>3, <2>4
<1>11. SlotsFit(activeTaskIds', g, body', startGeneration', entry')
    <2>1. SUFFICES ASSUME NEW l \in Lane, NEW e \in Entry
                   PROVE  e \in activeTaskIds'[l] <=>
                            HoldsSlot(e, l, g, body', startGeneration', entry')
        BY DEF SlotsFit
    <2>2. e \in a[l] <=> HoldsSlot(e, l, g, b, startGeneration, entry')
        BY DEF Mid, SlotsFit
    <2>3. CASE Starts(e)
        <3>1. e \in St(l) <=> entry'[e].lane = l
            BY <1>5, <2>3 DEF Starts
        <3>2. e \notin a[l]
            BY <1>7, <2>2, <2>3 DEF HoldsSlot
        <3> QED BY <1>6, <1>7, <2>3, <3>1, <3>2 DEF HoldsSlot
    <2>4. CASE ~Starts(e)
        <3>1. e \notin St(l)
            BY <1>5, <2>4
        <3> QED BY <1>6, <1>7, <2>2, <2>4, <3>1 DEF HoldsSlot
    <2> QED BY <2>3, <2>4
<1>12. PastFit(g, body', startGeneration', entry')
    <2>1. SUFFICES ASSUME NEW e \in Entry, body'[e] = "running"
                   PROVE  startGeneration'[e] <= g[entry'[e].lane]
        BY DEF PastFit
    <2>2. CASE Starts(e)
        BY <1>3, <1>7, <2>2
    <2>3. CASE ~Starts(e)
        BY <1>7, <2>1, <2>3 DEF Mid, PastFit
    <2> QED BY <2>2, <2>3
<1>13. Drained(S, q, a, m, b)
    BY <1>2, <1>7 DEF Drained
<1> QED BY <1>8, <1>9, <1>10, <1>11, <1>12, <1>13 DEF Mid


-----------------------------------------------------------------------------
(* The inductive invariant.                                                *)

(* An entry that is not accepted yet has no promise and no body. *)
FutureEntries ==
    \A e \in Entry : e >= nextQueueSequence =>
        promise[e] = "none" /\ body[e] = "unstarted"

(* A waiter has captured tasks that had been started. *)
CapturedWereStarted ==
    \A w \in Waiter : \A e \in waiter[w].taskIds : body[e] # "unstarted"

LanesFit ==
    Mid(queue, activeTaskIds, maxConcurrent, generation, body, startGeneration, entry,
        promise)

OtherTypes ==
    /\ lanes \in SUBSET Lane
    /\ \A l \in ProbeLane : maxConcurrent[l] > 0
    /\ nextQueueSequence \in 1..(MaxEntries + 1)
    /\ waiter \in [Waiter -> WaiterState]

QueueInv ==
    /\ LanesFit /\ OtherTypes /\ FutureEntries
    /\ NoIdleBacklog /\ NoLostWaiter /\ DrainedIsTrue /\ CapturedWereStarted

(* What the runs check follows. *)
LEMMA LanesFitTypes ==
    ASSUME LanesFit
    PROVE  /\ queue \in [Lane -> Seq(Entry)] /\ activeTaskIds \in [Lane -> SUBSET Entry]
           /\ maxConcurrent \in [Lane -> 0..MaxConcurrency]
           /\ generation \in [Lane -> 0..MaxGeneration]
           /\ body \in [Entry -> Body] /\ startGeneration \in [Entry -> 0..MaxGeneration]
           /\ entry \in [Entry -> EntryOptions] /\ promise \in [Entry -> Promise]
           /\ \A e \in Entry : entry[e].lane \in Lane
    BY DEF LanesFit, Mid, MidTypes, EntryOptions

LEMMA LanesFitMeans ==
    ASSUME QueueInv
    PROVE  LaneInv
<1>1. LanesFit /\ OtherTypes
    BY DEF QueueInv
<1>2. TypeOK
    BY <1>1, LanesFitTypes DEF TypeOK, OtherTypes
<1>3. NoLostEntry
    <2>1. \A e \in Entry :
            promise[e] = "pending" <=> (\E l \in Lane : QueuedIn(e, l)) \/ body[e] = "running"
        BY <1>1 DEF LanesFit, Mid, PromisesFit, Queued, QueuedIn
    <2>2. \A l \in Lane : \A i, j \in 1..Len(queue[l]) : queue[l][i] = queue[l][j] => i = j
        BY <1>1 DEF LanesFit, Mid, QueuesFit, Distinct
    <2>3. \A l \in Lane : \A e \in Members(queue[l]) :
            body[e] = "unstarted" /\ entry[e].lane = l
        BY <1>1 DEF LanesFit, Mid, QueuesFit
    <2> QED BY <2>1, <2>2, <2>3 DEF NoLostEntry, QueuedIn
<1>4. SlotsMatchTasks
    <2>1. SUFFICES ASSUME NEW l \in Lane
                   PROVE  activeTaskIds[l] = {e \in Entry : /\ body[e] = "running"
                                                            /\ entry[e].lane = l
                                                            /\ CurrentGeneration(e)}
        BY DEF SlotsMatchTasks
    <2>2. activeTaskIds[l] \subseteq Entry
        BY <1>1, LanesFitTypes
    <2>3. \A e \in Entry : e \in activeTaskIds[l] <=>
            body[e] = "running" /\ entry[e].lane = l /\ CurrentGeneration(e)
        BY <1>1 DEF LanesFit, Mid, SlotsFit, HoldsSlot, CurrentGeneration
    <2> QED BY <2>2, <2>3
<1>5. QueueInOrder
    BY <1>1 DEF LanesFit, Mid, QueuesFit, InOrder, QueueInOrder
<1> QED BY <1>2, <1>3, <1>4, <1>5 DEF LaneInv

LEMMA QueueInit ==
    ASSUME Init
    PROVE  QueueInv
<1>1. Members(<<>>) = {} /\ Len(<<>>) = 0 /\ <<>> \in Seq(Entry)
    BY EmptySeq DEF Members
<1>2. Distinct(<<>>) /\ InOrder(<<>>, entry)
    BY <1>1 DEF Distinct, InOrder
<1>3. \A l \in Lane : queue[l] = <<>> /\ activeTaskIds[l] = {}
    BY DEF Init
<1>4. \A e \in Entry : body[e] = "unstarted" /\ promise[e] = "none"
    BY DEF Init
<1>5. MidTypes(queue, activeTaskIds, maxConcurrent, generation, body, startGeneration,
               entry, promise)
    <2>1. (CHOOSE l \in Lane : TRUE) \in Lane
        OBVIOUS
    <2>2. 0 \in Priority /\ FALSE \in BOOLEAN
        BY DEF Priority
    <2>3. entry \in [Entry -> EntryOptions]
        BY <2>1, <2>2 DEF Init, EntryOptions
    <2>4. queue \in [Lane -> Seq(Entry)] /\ activeTaskIds \in [Lane -> SUBSET Entry]
        BY <1>1 DEF Init
    <2>5. 1 \in 0..MaxConcurrency /\ 0 \in 0..MaxGeneration
        OBVIOUS
    <2>6. /\ maxConcurrent \in [Lane -> 0..MaxConcurrency]
          /\ generation \in [Lane -> 0..MaxGeneration]
          /\ startGeneration \in [Entry -> 0..MaxGeneration]
        BY <2>5 DEF Init
    <2>7. body \in [Entry -> Body] /\ promise \in [Entry -> Promise]
        BY DEF Init, Body, Promise
    <2> QED BY <2>3, <2>4, <2>6, <2>7 DEF MidTypes
<1>6. LanesFit
    BY <1>1, <1>2, <1>3, <1>4, <1>5
    DEF LanesFit, Mid, QueuesFit, PromisesFit, Queued, SlotsFit, HoldsSlot, PastFit
<1>7. OtherTypes
    BY DEF Init, OtherTypes, WaiterState
<1>8. FutureEntries /\ NoIdleBacklog
    BY <1>3, <1>4 DEF FutureEntries, NoIdleBacklog
<1>9. NoLostWaiter /\ DrainedIsTrue /\ CapturedWereStarted
    BY DEF Init, NoLostWaiter, DrainedIsTrue, CapturedWereStarted
<1> QED BY <1>6, <1>7, <1>8, <1>9 DEF QueueInv


-----------------------------------------------------------------------------
(* A step that ends in a drain.                                            *)

(* The change before the drain of the lanes S: a lane that is not drained  *)
(* is as it was, paused or empty, no slot is taken, generations grow, and  *)
(* no body is put back.                                                    *)
ChangeFits(S, q, a, m, g, b) ==
    /\ \A l \in Lane : \/ l \in S \/ m[l] = 0 \/ q[l] = <<>>
                       \/ /\ q[l] = queue[l] /\ a[l] = activeTaskIds[l]
                          /\ m[l] = maxConcurrent[l]
    /\ \A l \in Lane : a[l] \subseteq activeTaskIds[l]
    /\ \A l \in Lane : generation[l] <= g[l]
    /\ \A e \in Entry : /\ b[e] = "running" => body[e] = "running"
                        /\ body[e] # "unstarted" => /\ b[e] # "unstarted"
                                                    /\ entry'[e] = entry[e]
    /\ \A e \in Entry : e >= nextQueueSequence' =>
         promise'[e] = "none" /\ b[e] = "unstarted"

(* Waiters are left alone where no slot is freed, else told about them. *)
WaitersTold(a) ==
    \/ UNCHANGED waiter /\ \A l \in Lane : activeTaskIds[l] \subseteq a[l]
    \/ NotifyActiveTaskWaiters(a)
    \/ NotifyActiveTaskWaiters(activeTaskIds')

(* The body of StartsAsAllowed: a lane that starts work stays within its   *)
(* limit and keeps to the order.                                           *)
StartsFit ==
    \A l \in Lane : LET started == activeTaskIds'[l] \ activeTaskIds[l]
      IN  started # {} =>
            /\ Cardinality(activeTaskIds'[l]) <= maxConcurrent'[l]
            /\ \A e \in started : \A i \in 1..Len(queue'[l]) :
                  Outranks(entry', e, queue'[l][i])

LEMMA WaiterFacts ==
    ASSUME OtherTypes, NEW w \in Waiter
    PROVE  waiter[w] \in WaiterState /\ waiter[w].taskIds \subseteq Entry
    BY DEF OtherTypes, WaiterState

(* Notified or not, a waiter keeps its tasks; it is answered drained only  *)
(* when none of them is in the sets it is told about.                      *)
LEMMA NotifyFacts ==
    ASSUME OtherTypes, NEW x, NotifyActiveTaskWaiters(x)
    PROVE  /\ waiter' \in [Waiter -> WaiterState]
           /\ \A w \in Waiter :
                /\ waiter'[w].taskIds = waiter[w].taskIds
                /\ waiter'[w].status = "waiting" =>
                     HasPendingActiveTasks(waiter[w].taskIds, x)
                /\ waiter'[w].status = "drained" =>
                     \/ waiter[w].status = "drained"
                     \/ ~HasPendingActiveTasks(waiter[w].taskIds, x)
<1>1. ASSUME NEW w \in Waiter
      PROVE  /\ waiter'[w] \in WaiterState
             /\ waiter'[w].taskIds = waiter[w].taskIds
             /\ waiter'[w].status = "waiting" =>
                  HasPendingActiveTasks(waiter[w].taskIds, x)
             /\ waiter'[w].status = "drained" =>
                  \/ waiter[w].status = "drained"
                  \/ ~HasPendingActiveTasks(waiter[w].taskIds, x)
    <2> DEFINE s == waiter[w]
               t == [s EXCEPT !.status = "drained"]
    <2>1. s \in WaiterState
        BY WaiterFacts
    <2>2. t \in WaiterState /\ t.taskIds = s.taskIds /\ t.status = "drained"
        BY <2>1 DEF WaiterState
    <2>3. waiter'[w] = IF s.status = "waiting" /\ ~HasPendingActiveTasks(s.taskIds, x)
                       THEN t ELSE s
        BY DEF NotifyActiveTaskWaiters
    <2> HIDE DEF t
    <2> QED BY <2>1, <2>2, <2>3
<1>2. waiter' = [w \in Waiter |-> waiter'[w]]
    BY DEF NotifyActiveTaskWaiters
<1> QED BY <1>1, <1>2

LEMMA DrainRestores ==
    ASSUME QueueInv, NEW S, NEW q, NEW a, NEW m, NEW g, NEW b,
           Mid(q, a, m, g, b, startGeneration, entry', promise'),
           DrainLanes(S, q, a, m, g, b), maxConcurrent' = m, generation' = g,
           ChangeFits(S, q, a, m, g, b), WaitersTold(a),
           lanes' \in SUBSET Lane, \A l \in ProbeLane : m[l] > 0,
           nextQueueSequence' \in 1..(MaxEntries + 1)
    PROVE  QueueInv' /\ StartsFit
<1>1. /\ Mid(queue', activeTaskIds', m, g, body', startGeneration', entry', promise')
      /\ Drained(S, q, a, m, b)
    BY DrainKeeps
<1>2. LanesFit'
    BY <1>1 DEF LanesFit
<1>3. LanesFit /\ OtherTypes
    BY DEF QueueInv
<1>4. NoIdleBacklog'
    <2>1. SUFFICES ASSUME NEW l \in Lane, queue'[l] # <<>>
                   PROVE  Cardinality(activeTaskIds'[l]) >= m[l]
        BY DEF NoIdleBacklog
    <2>2. LaneDrained(l, S, q, a, m)
        BY <1>1 DEF Drained
    <2>3. CASE l \in S
        BY <2>1, <2>2, <2>3 DEF LaneDrained
    <2>4. CASE m[l] = 0
        <3>1. activeTaskIds'[l] \in SUBSET Entry
            BY <1>1 DEF Mid, MidTypes
        <3> QED BY <2>4, <3>1, EntryFacts
    <2>6. CASE q[l] = <<>> /\ l \notin S
        BY <2>1, <2>2, <2>6 DEF LaneDrained
    <2>5. CASE /\ l \notin S /\ q[l] = queue[l] /\ a[l] = activeTaskIds[l]
               /\ m[l] = maxConcurrent[l]
        BY <2>1, <2>2, <2>5 DEF LaneDrained, QueueInv, NoIdleBacklog
    <2> QED BY <2>3, <2>4, <2>5, <2>6 DEF ChangeFits
<1>5. FutureEntries'
    <2>1. SUFFICES ASSUME NEW e \in Entry, e >= nextQueueSequence'
                   PROVE  promise'[e] = "none" /\ body'[e] = "unstarted"
        BY DEF FutureEntries
    <2>2. promise'[e] = "none" /\ b[e] = "unstarted"
        BY <2>1 DEF ChangeFits
    <2>3. ~Queued(e, q)
        BY <2>2 DEF Mid, PromisesFit
    <2> QED BY <1>1, <2>2, <2>3 DEF Drained
<1>6. \A e \in Entry : body[e] # "unstarted" =>
        /\ body'[e] = b[e] /\ b[e] # "unstarted" /\ entry'[e] = entry[e]
        /\ startGeneration'[e] = startGeneration[e]
    BY <1>1 DEF ChangeFits, Drained
<1>7. \A w \in Waiter : \A e \in waiter[w].taskIds : e \in Entry /\ body[e] # "unstarted"
    BY <1>3, WaiterFacts DEF QueueInv, CapturedWereStarted
<1>8. \A l \in Lane : a[l] \subseteq activeTaskIds'[l]
    BY <1>1 DEF Drained, LaneDrained
<1>9. PICK x : /\ \A l \in Lane : a[l] \subseteq x[l] /\ x[l] \subseteq activeTaskIds'[l]
               /\ \/ UNCHANGED waiter /\ \A l \in Lane : activeTaskIds[l] \subseteq a[l]
                  \/ NotifyActiveTaskWaiters(x)
    BY <1>8 DEF WaitersTold
<1>10. /\ waiter' \in [Waiter -> WaiterState]
       /\ \A w \in Waiter :
            /\ waiter'[w].taskIds = waiter[w].taskIds
            /\ waiter'[w].status = "waiting" =>
                 HasPendingActiveTasks(waiter[w].taskIds, activeTaskIds')
            /\ waiter'[w].status = "drained" =>
                 \/ waiter[w].status = "drained"
                 \/ ~HasPendingActiveTasks(waiter[w].taskIds, a)
    <2>1. CASE NotifyActiveTaskWaiters(x)
        <3>1. \A w \in Waiter :
                /\ HasPendingActiveTasks(waiter[w].taskIds, x) =>
                     HasPendingActiveTasks(waiter[w].taskIds, activeTaskIds')
                /\ HasPendingActiveTasks(waiter[w].taskIds, a) =>
                     HasPendingActiveTasks(waiter[w].taskIds, x)
            BY <1>9 DEF HasPendingActiveTasks
        <3> QED BY <1>3, <2>1, <3>1, NotifyFacts
    <2>2. CASE UNCHANGED waiter /\ \A l \in Lane : activeTaskIds[l] \subseteq a[l]
        <3>1. \A w \in Waiter : HasPendingActiveTasks(waiter[w].taskIds, activeTaskIds) =>
                HasPendingActiveTasks(waiter[w].taskIds, activeTaskIds')
            BY <1>8, <2>2 DEF HasPendingActiveTasks
        <3> QED BY <2>2, <3>1 DEF QueueInv, OtherTypes, NoLostWaiter
    <2> QED BY <1>9, <2>1, <2>2
<1>11. NoLostWaiter'
    BY <1>10 DEF NoLostWaiter, HasPendingActiveTasks
<1>12. CapturedWereStarted'
    BY <1>6, <1>7, <1>10 DEF CapturedWereStarted
<1>13. DrainedIsTrue'
    <2>1. SUFFICES ASSUME NEW w \in Waiter, waiter'[w].status = "drained",
                          NEW e \in waiter'[w].taskIds, body'[e] = "running"
                   PROVE  startGeneration'[e] < g[entry'[e].lane]
        BY DEF DrainedIsTrue
    <2>2. e \in waiter[w].taskIds /\ e \in Entry /\ body[e] # "unstarted"
        BY <1>7, <1>10, <2>1
    <2>3. /\ b[e] = "running" /\ body[e] = "running" /\ entry'[e] = entry[e]
          /\ startGeneration'[e] = startGeneration[e]
        BY <1>6, <2>1, <2>2 DEF ChangeFits
    <2>4. /\ entry[e].lane \in Lane /\ startGeneration[e] \in Nat
          /\ generation[entry[e].lane] \in Nat /\ g[entry[e].lane] \in Nat
          /\ generation[entry[e].lane] <= g[entry[e].lane]
        BY <1>3, <2>2, LanesFitTypes DEF ChangeFits, Mid, MidTypes
    <2>5. CASE waiter[w].status = "drained"
        <3>1. startGeneration[e] < generation[entry[e].lane]
            BY <2>2, <2>3, <2>5 DEF QueueInv, DrainedIsTrue
        <3> QED BY <2>3, <2>4, <3>1
    <2>6. CASE ~HasPendingActiveTasks(waiter[w].taskIds, a)
        <3>1. e \notin a[entry[e].lane]
            BY <2>2, <2>4, <2>6 DEF HasPendingActiveTasks
        <3>2. ~HoldsSlot(e, entry[e].lane, g, b, startGeneration, entry')
            BY <2>2, <2>4, <3>1 DEF Mid, SlotsFit
        <3>3. startGeneration[e] # g[entry[e].lane]
            BY <2>3, <3>2 DEF HoldsSlot
        <3>4. startGeneration[e] <= g[entry[e].lane]
            BY <2>2, <2>3 DEF Mid, PastFit
        <3> QED BY <2>3, <2>4, <3>3, <3>4
    <2> QED BY <1>10, <2>1, <2>5, <2>6
<1>14. OtherTypes'
    BY <1>10 DEF OtherTypes
<1>15. StartsFit
    <2>1. SUFFICES ASSUME NEW l \in Lane, activeTaskIds'[l] \ activeTaskIds[l] # {}
                   PROVE  /\ Cardinality(activeTaskIds'[l]) <= m[l]
                          /\ \A e \in activeTaskIds'[l] \ activeTaskIds[l] :
                               \A i \in 1..Len(queue'[l]) : Outranks(entry', e, queue'[l][i])
        BY DEF StartsFit
    <2>2. LaneDrained(l, S, q, a, m) /\ a[l] \subseteq activeTaskIds[l]
        BY <1>1 DEF Drained, ChangeFits
    <2>3. activeTaskIds'[l] \ activeTaskIds[l] \subseteq StartedIn(l, S, q, a, m)
        BY <2>2 DEF LaneDrained
    <2> QED BY <2>1, <2>2, <2>3 DEF LaneDrained
<1> QED BY <1>2, <1>4, <1>5, <1>11, <1>12, <1>13, <1>14, <1>15 DEF QueueInv


-----------------------------------------------------------------------------
(* One lemma for each action.                                              *)

(* A step without a drain is one that drains no lane. *)
LEMMA DrainOfNone ==
    ASSUME NEW q \in [Lane -> Seq(Entry)], NEW a \in [Lane -> SUBSET Entry], NEW m, NEW g,
           NEW b \in [Entry -> Body], startGeneration \in [Entry -> 0..MaxGeneration],
           entry' \in [Entry -> EntryOptions],
           queue' = q, activeTaskIds' = a, body' = b, startGeneration' = startGeneration
    PROVE  DrainLanes({}, q, a, m, g, b)
<1>1. \A l \in Lane : SubSeq(q[l], 0 + 1, Len(q[l])) = q[l] /\ FirstOf(q[l], 0) = {}
    BY SubSeqFull DEF FirstOf
<1>2. q = [l \in Lane |-> SubSeq(q[l], 0 + 1, Len(q[l]))]
    BY <1>1
<1>3. a = [l \in Lane |-> a[l] \cup FirstOf(q[l], 0)]
    BY <1>1
<1>4. \A e \in Entry : entry'[e].lane \in Lane
    BY DEF EntryOptions
<1>5. /\ b = [e \in Entry |-> IF e \in FirstOf(q[entry'[e].lane], 0) THEN "running" ELSE b[e]]
      /\ startGeneration =
           [e \in Entry |-> IF e \in FirstOf(q[entry'[e].lane], 0)
                            THEN g[entry'[e].lane] ELSE startGeneration[e]]
    BY <1>1, <1>4
<1> QED BY <1>2, <1>3, <1>4, <1>5 DEF DrainLanes

LEMMA NewEntryFacts ==
    ASSUME QueueInv, nextQueueSequence <= MaxEntries
    PROVE  /\ nextQueueSequence \in Entry
           /\ promise[nextQueueSequence] = "none" /\ body[nextQueueSequence] = "unstarted"
           /\ \A l \in Lane : nextQueueSequence \notin Members(queue[l])
           /\ nextQueueSequence + 1 \in 1..(MaxEntries + 1)
<1>1. nextQueueSequence \in Entry /\ nextQueueSequence + 1 \in 1..(MaxEntries + 1)
    BY DEF QueueInv, OtherTypes, Entry
<1>2. promise[nextQueueSequence] = "none" /\ body[nextQueueSequence] = "unstarted"
    BY <1>1, EntryFacts DEF QueueInv, FutureEntries
<1> QED BY <1>1, <1>2 DEF QueueInv, LanesFit, Mid, PromisesFit, Queued

LEMMA EnqueueMid ==
    ASSUME QueueInv, NEW l \in Lane, NEW p \in Priority, NEW timed \in BOOLEAN,
           nextQueueSequence <= MaxEntries,
           entry' = [entry EXCEPT ![nextQueueSequence] =
                       [lane |-> l, priority |-> p, timed |-> timed]],
           promise' = [promise EXCEPT ![nextQueueSequence] = "pending"]
    PROVE  Mid([queue EXCEPT ![l] = Inserted(@, nextQueueSequence, p)], activeTaskIds,
               maxConcurrent, generation, body, startGeneration, entry', promise')
<1> DEFINE new == nextQueueSequence
           s == Inserted(queue[l], new, p)
           q == [queue EXCEPT ![l] = s]
<1>1. LanesFit
    BY DEF QueueInv
<1>2. /\ new \in Entry /\ promise[new] = "none" /\ body[new] = "unstarted"
      /\ \A k \in Lane : new \notin Members(queue[k])
    BY NewEntryFacts
<1>3. /\ entry' \in [Entry -> EntryOptions] /\ promise' \in [Entry -> Promise]
      /\ entry'[new].priority = p /\ entry'[new].lane = l
      /\ \A e \in Entry : e # new => entry'[e] = entry[e] /\ promise'[e] = promise[e]
      /\ promise'[new] = "pending"
    <2>1. [lane |-> l, priority |-> p, timed |-> timed] \in EntryOptions
        BY DEF EntryOptions
    <2>2. "pending" \in Promise
        BY DEF Promise
    <2> QED BY <1>1, <1>2, <2>1, <2>2, LanesFitTypes
<1>4. ASSUME NEW k \in Lane
      PROVE  /\ queue[k] \in Seq(Entry) /\ Distinct(queue[k]) /\ InOrder(queue[k], entry')
             /\ NewBeside(queue[k], new, entry')
             /\ \A e \in Members(queue[k]) : /\ body[e] = "unstarted" /\ entry'[e].lane = k
                                             /\ e \in Entry /\ e # new
    <2>1. queue[k] \in Seq(Entry)
        BY <1>1, LanesFitTypes
    <2>2. /\ Distinct(queue[k]) /\ InOrder(queue[k], entry)
          /\ \A e \in Members(queue[k]) : body[e] = "unstarted" /\ entry[e].lane = k
        BY <1>1 DEF LanesFit, Mid, QueuesFit
    <2>3. \A e \in Members(queue[k]) : e \in Entry /\ e # new
        BY <1>2, <2>1, QueueTypes
    <2>4. NewBeside(queue[k], new, entry')
        BY <1>3, <2>3 DEF NewBeside, Members
    <2>5. InOrder(queue[k], entry')
        BY <2>2, <2>4 DEF InOrder, Outranks, NewBeside
    <2> QED BY <1>3, <2>1, <2>2, <2>3, <2>4, <2>5
<1>5. /\ s \in Seq(Entry) /\ Distinct(s) /\ Members(s) = Members(queue[l]) \cup {new}
      /\ InOrder(s, entry')
    <2>1. CanInsert(queue[l], new, p, entry')
        BY <1>1, <1>2, <1>3, <1>4, LanesFitTypes DEF CanInsert
    <2> QED BY <2>1, InsertedFacts
<1> HIDE DEF s
<1>6. /\ q \in [Lane -> Seq(Entry)] /\ q[l] = s
      /\ \A k \in Lane : k # l => q[k] = queue[k]
    BY <1>1, <1>5, LanesFitTypes
<1> HIDE DEF q
<1>7. MidTypes(q, activeTaskIds, maxConcurrent, generation, body, startGeneration, entry',
               promise')
    BY <1>1, <1>3, <1>6, LanesFitTypes DEF MidTypes
<1>8. QueuesFit(q, body, entry')
    <2>1. SUFFICES ASSUME NEW k \in Lane
                   PROVE  /\ Distinct(q[k]) /\ InOrder(q[k], entry')
                          /\ \A e \in Members(q[k]) : /\ body[e] = "unstarted"
                                                      /\ entry'[e].lane = k
        BY DEF QueuesFit
    <2>2. CASE k = l
        BY <1>2, <1>3, <1>4, <1>5, <1>6, <2>2
    <2>3. CASE k # l
        BY <1>4, <1>6, <2>3
    <2> QED BY <2>2, <2>3
<1>9. PromisesFit(q, body, promise')
    <2>1. SUFFICES ASSUME NEW e \in Entry
                   PROVE  promise'[e] = "pending" <=> Queued(e, q) \/ body[e] = "running"
        BY DEF PromisesFit
    <2>2. CASE e = new
        BY <1>3, <1>5, <1>6, <2>2 DEF Queued
    <2>3. CASE e # new
        <3>1. \A k \in Lane : e \in Members(q[k]) <=> e \in Members(queue[k])
            BY <1>5, <1>6, <2>3
        <3>2. promise[e] = "pending" <=> Queued(e, queue) \/ body[e] = "running"
            BY <1>1 DEF LanesFit, Mid, PromisesFit
        <3> QED BY <1>3, <2>3, <3>1, <3>2 DEF Queued
    <2> QED BY <2>2, <2>3
<1>10. SlotsFit(activeTaskIds, generation, body, startGeneration, entry')
    <2>1. SUFFICES ASSUME NEW k \in Lane, NEW e \in Entry
                   PROVE  e \in activeTaskIds[k] <=>
                            HoldsSlot(e, k, generation, body, startGeneration, entry')
        BY DEF SlotsFit
    <2>2. e \in activeTaskIds[k] <=>
            HoldsSlot(e, k, generation, body, startGeneration, entry)
        BY <1>1 DEF LanesFit, Mid, SlotsFit
    <2> QED BY <1>2, <1>3, <2>2 DEF HoldsSlot
<1>11. PastFit(generation, body, startGeneration, entry')
    BY <1>1, <1>2, <1>3 DEF LanesFit, Mid, PastFit
<1>12. Mid(q, activeTaskIds, maxConcurrent, generation, body, startGeneration, entry',
           promise')
    BY <1>7, <1>8, <1>9, <1>10, <1>11 DEF Mid
<1> QED BY <1>12 DEF q, s

LEMMA EnqueueKeeps ==
    ASSUME QueueInv, NEW l \in Lane, NEW p \in Priority, NEW timed \in TimeoutChoice,
           NEW closed, EnqueueCommandInLane(l, p, timed, closed)
    PROVE  QueueInv' /\ StartsFit
<1> DEFINE new == nextQueueSequence
           q == [queue EXCEPT ![l] = Inserted(@, new, p)]
<1>1. /\ LanesFit /\ OtherTypes /\ new <= MaxEntries /\ nextQueueSequence' = new + 1
      /\ lanes' = lanes \cup {l} /\ timed \in BOOLEAN
      /\ DrainLanes({l}, q, activeTaskIds, maxConcurrent, generation, body)
      /\ maxConcurrent' = maxConcurrent /\ generation' = generation /\ waiter' = waiter
    BY DEF EnqueueCommandInLane, QueueInv
<1>2. Mid(q, activeTaskIds, maxConcurrent, generation, body, startGeneration, entry',
          promise')
    BY <1>1, EnqueueMid DEF EnqueueCommandInLane
<1>3. /\ new \in Entry /\ body[new] = "unstarted" /\ new + 1 \in 1..(MaxEntries + 1)
    BY <1>1, NewEntryFacts
<1>4. ChangeFits({l}, q, activeTaskIds, maxConcurrent, generation, body)
    <2>1. \A k \in Lane : k # l => q[k] = queue[k]
        BY <1>1, LanesFitTypes
    <2>2. \A k \in Lane : generation[k] <= generation[k]
        BY <1>1, LanesFitTypes
    <2>3. \A e \in Entry : e # new => entry'[e] = entry[e] /\ promise'[e] = promise[e]
        BY <1>1, LanesFitTypes DEF EnqueueCommandInLane
    <2>4. \A e \in Entry : e >= new + 1 => e # new /\ e >= new
        BY <1>3, EntryFacts
    <2> HIDE DEF q
    <2> QED BY <1>1, <1>3, <2>1, <2>2, <2>3, <2>4 DEF ChangeFits, QueueInv, FutureEntries
<1>5. WaitersTold(activeTaskIds)
    BY <1>1 DEF WaitersTold
<1> HIDE DEF q
<1> QED BY <1>1, <1>2, <1>3, <1>4, <1>5, DrainRestores DEF OtherTypes


(* The settled task e leaves its slot: with its body no longer running the *)
(* lanes fit again.                                                        *)
LEMMA FinishMid ==
    ASSUME QueueInv, NEW e \in Entry, body[e] = "running",
           NEW ended \in {"done", "unwinding"}, NEW answer \in {"settled", "timedOut"},
           promise' = [promise EXCEPT ![e] = answer], entry' = entry,
           NEW b, b = [body EXCEPT ![e] = ended]
    PROVE  Mid(queue, CompleteTask(e), maxConcurrent, generation, b, startGeneration,
               entry', promise')
<1> DEFINE a == CompleteTask(e)
<1>1. LanesFit
    BY DEF QueueInv
<1>2. /\ b \in [Entry -> Body] /\ b[e] = ended /\ b[e] # "running" /\ b[e] # "unstarted"
      /\ promise' \in [Entry -> Promise] /\ promise'[e] = answer /\ promise'[e] # "pending"
      /\ \A f \in Entry : f # e => b[f] = body[f] /\ promise'[f] = promise[f]
    <2>1. ended \in Body /\ answer \in Promise
        BY DEF Body, Promise
    <2> QED BY <1>1, <2>1, LanesFitTypes
<1>3. \A l \in Lane : \A f \in Entry :
        f \in a[l] <=> f # e /\ HoldsSlot(f, l, generation, body, startGeneration, entry)
    <2>1. SUFFICES ASSUME NEW l \in Lane, NEW f \in Entry
                   PROVE  f \in a[l] <=>
                     f # e /\ HoldsSlot(f, l, generation, body, startGeneration, entry)
        OBVIOUS
    <2>2. f \in activeTaskIds[l] <=>
            HoldsSlot(f, l, generation, body, startGeneration, entry)
        BY <1>1 DEF LanesFit, Mid, SlotsFit
    <2>3. CASE CurrentGeneration(e)
        <3>1. a = [activeTaskIds EXCEPT ![entry[e].lane] = @ \ {e}]
            BY <2>3 DEF CompleteTask
        <3>2. CASE l = entry[e].lane
            <4>1. a[l] = activeTaskIds[l] \ {e}
                BY <1>1, <3>1, <3>2, LanesFitTypes
            <4> QED BY <2>2, <4>1
        <3>3. CASE l # entry[e].lane
            <4>1. a[l] = activeTaskIds[l]
                BY <1>1, <3>1, <3>3, LanesFitTypes
            <4>2. ~HoldsSlot(e, l, generation, body, startGeneration, entry)
                BY <3>3 DEF HoldsSlot
            <4> QED BY <2>2, <4>1, <4>2
        <3> QED BY <3>2, <3>3
    <2>4. CASE ~CurrentGeneration(e)
        <3>1. a = activeTaskIds
            BY <2>4 DEF CompleteTask
        <3>2. ~HoldsSlot(e, l, generation, body, startGeneration, entry)
            BY <2>4 DEF HoldsSlot, CurrentGeneration
        <3> QED BY <2>2, <3>1, <3>2
    <2> QED BY <2>3, <2>4
<1>4. a \in [Lane -> SUBSET Entry]
    BY <1>1, LanesFitTypes DEF CompleteTask
<1> HIDE DEF a
<1>5. MidTypes(queue, a, maxConcurrent, generation, b, startGeneration, entry, promise')
    BY <1>1, <1>2, <1>4, LanesFitTypes DEF MidTypes
<1>6. \A l \in Lane : e \notin Members(queue[l])
    BY <1>1 DEF LanesFit, Mid, QueuesFit
<1>7. QueuesFit(queue, b, entry)
    <2>1. SUFFICES ASSUME NEW l \in Lane, NEW f \in Members(queue[l])
                   PROVE  b[f] = "unstarted"
        BY <1>1 DEF LanesFit, Mid, QueuesFit
    <2>2. f \in Entry
        BY <1>1, LanesFitTypes, QueueTypes
    <2>3. f # e /\ body[f] = "unstarted"
        BY <1>1, <1>6 DEF LanesFit, Mid, QueuesFit
    <2> QED BY <1>2, <2>2, <2>3
<1>8. PromisesFit(queue, b, promise')
    BY <1>1, <1>2, <1>6 DEF LanesFit, Mid, PromisesFit, Queued
<1>9. SlotsFit(a, generation, b, startGeneration, entry)
    BY <1>2, <1>3 DEF SlotsFit, HoldsSlot
<1>10. PastFit(generation, b, startGeneration, entry)
    BY <1>1, <1>2 DEF LanesFit, Mid, PastFit
<1> QED BY <1>5, <1>7, <1>8, <1>9, <1>10 DEF Mid, a

LEMMA FinishKeeps ==
    ASSUME QueueInv, NEW e \in Entry, body[e] = "running",
           NEW ended \in {"done", "unwinding"}, NEW answer \in {"settled", "timedOut"},
           FinishTask(e, answer, [body EXCEPT ![e] = ended])
    PROVE  QueueInv' /\ StartsFit
<1> DEFINE b == [body EXCEPT ![e] = ended]
           S == IF CurrentGeneration(e) THEN {entry[e].lane} ELSE {}
           a == CompleteTask(e)
<1>1. /\ LanesFit /\ OtherTypes /\ FutureEntries
      /\ lanes' = lanes /\ maxConcurrent' = maxConcurrent /\ generation' = generation
      /\ nextQueueSequence' = nextQueueSequence /\ entry' = entry
      /\ promise' = [promise EXCEPT ![e] = answer]
      /\ DrainLanes(S, queue, a, maxConcurrent, generation, b)
    BY DEF FinishTask, QueueInv
<1>2. Mid(queue, a, maxConcurrent, generation, b, startGeneration, entry', promise')
    BY <1>1, FinishMid
<1>3. WaitersTold(a)
    <2>1. CASE CurrentGeneration(e)
        BY <2>1 DEF WaitersTold, FinishTask
    <2>2. CASE ~CurrentGeneration(e)
        <3>1. waiter' = waiter /\ a = activeTaskIds
            BY <2>2 DEF FinishTask, CompleteTask
        <3> QED BY <3>1 DEF WaitersTold
    <2> QED BY <2>1, <2>2
<1>4. ChangeFits(S, queue, a, maxConcurrent, generation, b)
    <2>1. \A l \in Lane : l \in S \/ a[l] = activeTaskIds[l]
        BY <1>1, LanesFitTypes DEF CompleteTask
    <2>2. \A l \in Lane : a[l] \subseteq activeTaskIds[l]
        BY <1>1, LanesFitTypes DEF CompleteTask
    <2>3. \A l \in Lane : generation[l] <= generation[l]
        BY <1>1, LanesFitTypes
    <2>4. \A f \in Entry : b[f] = IF f = e THEN ended ELSE body[f]
        BY <1>1, LanesFitTypes
    <2>5. \A f \in Entry : f >= nextQueueSequence' =>
            promise'[f] = "none" /\ b[f] = "unstarted"
        <3>1. SUFFICES ASSUME NEW f \in Entry, f >= nextQueueSequence
                       PROVE  promise'[f] = "none" /\ b[f] = "unstarted"
            BY <1>1
        <3>2. promise[f] = "none" /\ body[f] = "unstarted"
            BY <1>1, <3>1 DEF FutureEntries
        <3>3. f # e
            BY <3>2
        <3> QED BY <1>1, <2>4, <3>2, <3>3, LanesFitTypes
    <2>6. \A f \in Entry : /\ b[f] = "running" => body[f] = "running"
                           /\ body[f] # "unstarted" => b[f] # "unstarted"
        BY <2>4
    <2> HIDE DEF a, b, S
    <2> QED BY <1>1, <2>1, <2>2, <2>3, <2>5, <2>6 DEF ChangeFits
<1> HIDE DEF a, b, S
<1> QED BY <1>1, <1>2, <1>3, <1>4, DrainRestores DEF OtherTypes

LEMMA LateSettleKeeps ==
    ASSUME QueueInv, NEW e \in Entry, LateSettle(e)
    PROVE  QueueInv' /\ StartsFit
<1> DEFINE b == [body EXCEPT ![e] = "done"]
<1>1. /\ LanesFit /\ OtherTypes /\ FutureEntries /\ body[e] = "unwinding" /\ body' = b
      /\ UNCHANGED <<lanes, queue, activeTaskIds, maxConcurrent, generation,
                     nextQueueSequence, entry, startGeneration, promise, waiter>>
    BY DEF LateSettle, QueueInv
<1>2. /\ b \in [Entry -> Body] /\ b[e] = "done"
      /\ \A f \in Entry : f # e => b[f] = body[f]
    <2>1. "done" \in Body
        BY DEF Body
    <2> QED BY <1>1, <2>1, LanesFitTypes
<1> HIDE DEF b
<1>3. \A l \in Lane : e \notin Members(queue[l])
    BY <1>1 DEF LanesFit, Mid, QueuesFit
<1>4. Mid(queue, activeTaskIds, maxConcurrent, generation, b, startGeneration, entry',
          promise')
    <2>1. MidTypes(queue, activeTaskIds, maxConcurrent, generation, b, startGeneration,
                   entry, promise)
        BY <1>1, <1>2, LanesFitTypes DEF MidTypes
    <2>2. QueuesFit(queue, b, entry)
        <3>1. SUFFICES ASSUME NEW l \in Lane, NEW f \in Members(queue[l])
                       PROVE  b[f] = "unstarted"
            BY <1>1 DEF LanesFit, Mid, QueuesFit
        <3>2. f \in Entry
            BY <1>1, LanesFitTypes, QueueTypes
        <3>3. f # e /\ body[f] = "unstarted"
            BY <1>1, <1>3 DEF LanesFit, Mid, QueuesFit
        <3> QED BY <1>2, <3>2, <3>3
    <2>3. PromisesFit(queue, b, promise)
        BY <1>1, <1>2 DEF LanesFit, Mid, PromisesFit
    <2>4. SlotsFit(activeTaskIds, generation, b, startGeneration, entry)
        BY <1>1, <1>2 DEF LanesFit, Mid, SlotsFit, HoldsSlot
    <2>5. PastFit(generation, b, startGeneration, entry)
        BY <1>1, <1>2 DEF LanesFit, Mid, PastFit
    <2> QED BY <1>1, <2>1, <2>2, <2>3, <2>4, <2>5 DEF Mid
<1>5. DrainLanes({}, queue, activeTaskIds, maxConcurrent, generation, b)
    BY <1>1, <1>2, DrainOfNone, LanesFitTypes
<1>6. ChangeFits({}, queue, activeTaskIds, maxConcurrent, generation, b)
    <2>1. \A l \in Lane : generation[l] <= generation[l]
        BY <1>1, LanesFitTypes
    <2>2. \A f \in Entry : /\ b[f] = "running" => body[f] = "running"
                           /\ body[f] # "unstarted" => b[f] # "unstarted"
                           /\ body[f] = "unstarted" => b[f] = "unstarted"
        BY <1>1, <1>2
    <2> QED BY <1>1, <2>1, <2>2 DEF ChangeFits, FutureEntries
<1>7. WaitersTold(activeTaskIds)
    BY <1>1 DEF WaitersTold
<1> QED BY <1>1, <1>4, <1>5, <1>6, <1>7, DrainRestores DEF OtherTypes


LEMMA SetConcurrencyKeeps ==
    ASSUME QueueInv, NEW l \in Lane, NEW n \in 0..MaxConcurrency,
           SetCommandLaneConcurrency(l, n)
    PROVE  QueueInv' /\ StartsFit
<1> DEFINE m == [maxConcurrent EXCEPT ![l] = ClampedConcurrency(l, n)]
           S == IF m[l] > 0 THEN {l} ELSE {}
<1>1. /\ LanesFit /\ OtherTypes /\ FutureEntries
      /\ UNCHANGED <<generation, nextQueueSequence, entry, promise, waiter>>
      /\ lanes' = lanes \cup {l} /\ maxConcurrent' = m
      /\ DrainLanes(S, queue, activeTaskIds, m, generation, body)
    BY DEF SetCommandLaneConcurrency, QueueInv
<1>2. /\ m \in [Lane -> 0..MaxConcurrency] /\ \A k \in Lane : k # l => m[k] = maxConcurrent[k]
      /\ \A k \in ProbeLane : m[k] > 0
      /\ \A k \in Lane : k \in S \/ m[k] = 0 \/ m[k] = maxConcurrent[k]
    <2>1. ClampedConcurrency(l, n) \in 0..MaxConcurrency
          /\ (l \in ProbeLane => ClampedConcurrency(l, n) > 0)
        BY DEF ClampedConcurrency
    <2> QED BY <1>1, <2>1, LanesFitTypes DEF OtherTypes
<1> HIDE DEF m, S
<1>3. Mid(queue, activeTaskIds, m, generation, body, startGeneration, entry', promise')
    BY <1>1, <1>2 DEF LanesFit, Mid, MidTypes
<1>4. ChangeFits(S, queue, activeTaskIds, m, generation, body)
    <2>1. \A k \in Lane : generation[k] <= generation[k]
        BY <1>1, LanesFitTypes
    <2> QED BY <1>1, <1>2, <2>1 DEF ChangeFits, FutureEntries
<1>5. WaitersTold(activeTaskIds)
    BY <1>1 DEF WaitersTold
<1> QED BY <1>1, <1>2, <1>3, <1>4, <1>5, DrainRestores DEF OtherTypes

LEMMA ClearKeeps ==
    ASSUME QueueInv, NEW l \in Lane, ClearCommandLane(l)
    PROVE  QueueInv' /\ StartsFit
<1> DEFINE q == [queue EXCEPT ![l] = <<>>]
<1>1. /\ LanesFit /\ OtherTypes /\ FutureEntries /\ queue' = q
      /\ promise' = [e \in Entry |-> IF e \in Members(queue[l]) THEN "cleared" ELSE promise[e]]
      /\ UNCHANGED <<lanes, activeTaskIds, maxConcurrent, generation, nextQueueSequence,
                     entry, startGeneration, body, waiter>>
    BY DEF ClearCommandLane, QueueInv
<1>2. /\ Members(<<>>) = {} /\ <<>> \in Seq(Entry) /\ Distinct(<<>>) /\ InOrder(<<>>, entry)
    BY EmptySeq DEF Members, Distinct, InOrder
<1>3. /\ q \in [Lane -> Seq(Entry)] /\ q[l] = <<>>
      /\ \A k \in Lane : k # l => q[k] = queue[k]
    BY <1>1, <1>2, LanesFitTypes
<1> HIDE DEF q
<1>4. promise' \in [Entry -> Promise]
    <2>1. "cleared" \in Promise
        BY DEF Promise
    <2> QED BY <1>1, <2>1, LanesFitTypes
<1>5. ASSUME NEW e \in Entry
      PROVE  promise'[e] = "pending" <=> Queued(e, q) \/ body[e] = "running"
    <2>1. promise[e] = "pending" <=> Queued(e, queue) \/ body[e] = "running"
        BY <1>1 DEF LanesFit, Mid, PromisesFit
    <2>2. CASE e \in Members(queue[l])
        <3>1. body[e] = "unstarted" /\ entry[e].lane = l
            BY <1>1, <2>2 DEF LanesFit, Mid, QueuesFit
        <3>2. \A k \in Lane : e \notin Members(q[k])
            BY <1>1, <1>2, <1>3, <3>1 DEF LanesFit, Mid, QueuesFit
        <3> QED BY <1>1, <2>2, <3>1, <3>2 DEF Queued
    <2>3. CASE e \notin Members(queue[l])
        <3>1. \A k \in Lane : e \in Members(q[k]) <=> e \in Members(queue[k])
            BY <1>2, <1>3, <2>3
        <3> QED BY <1>1, <2>1, <2>3, <3>1 DEF Queued
    <2> QED BY <2>2, <2>3
<1>6. Mid(q, activeTaskIds, maxConcurrent, generation, body, startGeneration, entry',
          promise')
    <2>1. MidTypes(q, activeTaskIds, maxConcurrent, generation, body, startGeneration, entry,
                   promise')
        BY <1>1, <1>3, <1>4, LanesFitTypes DEF MidTypes
    <2>2. QueuesFit(q, body, entry)
        BY <1>1, <1>2, <1>3 DEF LanesFit, Mid, QueuesFit
    <2>3. PromisesFit(q, body, promise')
        BY <1>5 DEF PromisesFit
    <2> QED BY <1>1, <2>1, <2>2, <2>3 DEF LanesFit, Mid
<1>7. DrainLanes({}, q, activeTaskIds, maxConcurrent, generation, body)
    BY <1>1, <1>3, DrainOfNone, LanesFitTypes
<1>8. ChangeFits({}, q, activeTaskIds, maxConcurrent, generation, body)
    <2>1. \A k \in Lane : generation[k] <= generation[k]
        BY <1>1, LanesFitTypes
    <2>2. ASSUME NEW e \in Entry, e >= nextQueueSequence
          PROVE  promise'[e] = "none" /\ body[e] = "unstarted"
        <3>1. promise[e] = "none" /\ body[e] = "unstarted"
            BY <1>1, <2>2 DEF FutureEntries
        <3>2. e \notin Members(queue[l])
            BY <1>1, <3>1 DEF LanesFit, Mid, PromisesFit, Queued
        <3> QED BY <1>1, <3>1, <3>2
    <2> QED BY <1>1, <1>3, <2>1, <2>2 DEF ChangeFits
<1>9. WaitersTold(activeTaskIds)
    BY <1>1 DEF WaitersTold
<1> QED BY <1>1, <1>6, <1>7, <1>8, <1>9, DrainRestores DEF OtherTypes

(* The lanes R lose their slots and start a new generation. *)
LEMMA ResetKeeps ==
    ASSUME QueueInv, NEW R, R \subseteq Lane,
           NEW g, g = [k \in Lane |-> IF k \in R THEN generation[k] + 1 ELSE generation[k]],
           g \in [Lane -> 0..MaxGeneration],
           NEW a, a = [k \in Lane |-> IF k \in R THEN {} ELSE activeTaskIds[k]],
           UNCHANGED <<lanes, maxConcurrent, nextQueueSequence, entry, promise>>,
           generation' = g,
           DrainLanes(R, queue, a, maxConcurrent, g, body),
           NotifyActiveTaskWaiters(activeTaskIds')
    PROVE  QueueInv' /\ StartsFit
<1>1. /\ LanesFit /\ OtherTypes /\ FutureEntries
    BY DEF QueueInv
<1>2. /\ \A k \in Lane : generation[k] \in Nat
      /\ \A k \in Lane : IF k \in R THEN g[k] = generation[k] + 1 /\ a[k] = {}
                         ELSE g[k] = generation[k] /\ a[k] = activeTaskIds[k]
      /\ a \in [Lane -> SUBSET Entry]
      /\ \A e \in Entry : entry[e].lane \in Lane /\ startGeneration[e] \in Nat
    BY <1>1, LanesFitTypes
<1>3. Mid(queue, a, maxConcurrent, g, body, startGeneration, entry', promise')
    <2>1. MidTypes(queue, a, maxConcurrent, g, body, startGeneration, entry, promise)
        BY <1>1, <1>2, LanesFitTypes DEF MidTypes
    <2>2. \A e \in Entry : body[e] = "running" =>
            startGeneration[e] <= generation[entry[e].lane]
        BY <1>1 DEF LanesFit, Mid, PastFit
    <2>3. PastFit(g, body, startGeneration, entry)
        <3>1. SUFFICES ASSUME NEW e \in Entry, body[e] = "running"
                       PROVE  startGeneration[e] <= g[entry[e].lane]
            BY DEF PastFit
        <3>2. startGeneration[e] <= generation[entry[e].lane]
            BY <2>2, <3>1
        <3> QED BY <1>2, <3>2
    <2>4. SlotsFit(a, g, body, startGeneration, entry)
        <3>1. SUFFICES ASSUME NEW k \in Lane, NEW e \in Entry
                       PROVE  e \in a[k] <=> HoldsSlot(e, k, g, body, startGeneration, entry)
            BY DEF SlotsFit
        <3>2. e \in activeTaskIds[k] <=>
                HoldsSlot(e, k, generation, body, startGeneration, entry)
            BY <1>1 DEF LanesFit, Mid, SlotsFit
        <3>3. CASE k \in R
            <4>1. body[e] = "running" /\ entry[e].lane = k =>
                    startGeneration[e] # g[entry[e].lane]
                BY <1>2, <2>2, <3>3
            <4> QED BY <1>2, <3>3, <4>1 DEF HoldsSlot
        <3>4. CASE k \notin R
            BY <1>2, <3>2, <3>4 DEF HoldsSlot
        <3> QED BY <3>3, <3>4
    <2>5. QueuesFit(queue, body, entry) /\ PromisesFit(queue, body, promise)
        BY <1>1 DEF LanesFit, Mid
    <2> QED BY <2>1, <2>3, <2>4, <2>5 DEF Mid
<1>4. ChangeFits(R, queue, a, maxConcurrent, g, body)
    <2>1. \A k \in Lane : generation[k] <= g[k]
        BY <1>2
    <2> QED BY <1>1, <1>2, <2>1 DEF ChangeFits, FutureEntries
<1>5. WaitersTold(a)
    BY DEF WaitersTold
<1> QED BY <1>1, <1>3, <1>4, <1>5, DrainRestores DEF OtherTypes

LEMMA ResetLaneKeeps ==
    ASSUME QueueInv, NEW l \in Lane, ResetCommandLane(l)
    PROVE  QueueInv' /\ StartsFit
<1> DEFINE g == [k \in Lane |-> IF k \in {l} THEN generation[k] + 1 ELSE generation[k]]
           a == [k \in Lane |-> IF k \in {l} THEN {} ELSE activeTaskIds[k]]
<1>1. LanesFit
    BY DEF QueueInv
<1>2. /\ generation' = g /\ generation[l] + 1 \in 0..MaxGeneration
      /\ a = [activeTaskIds EXCEPT ![l] = {}]
    <2>1. /\ generation \in [Lane -> 0..MaxGeneration]
          /\ activeTaskIds \in [Lane -> SUBSET Entry]
        BY <1>1, LanesFitTypes
    <2>2. generation[l] < MaxGeneration /\ generation' = [generation EXCEPT ![l] = @ + 1]
        BY DEF ResetCommandLane
    <2>3. generation[l] + 1 \in 0..MaxGeneration
        BY <2>1, <2>2
    <2>4. a = [activeTaskIds EXCEPT ![l] = {}]
        BY <2>1
    <2> QED BY <2>1, <2>2, <2>3, <2>4
<1>3. g \in [Lane -> 0..MaxGeneration]
    BY <1>1, <1>2, LanesFitTypes
<1>4. /\ UNCHANGED <<lanes, maxConcurrent, nextQueueSequence, entry, promise>>
      /\ DrainLanes({l}, queue, a, maxConcurrent, g, body)
      /\ NotifyActiveTaskWaiters(activeTaskIds')
    BY <1>2 DEF ResetCommandLane
<1> QED BY <1>2, <1>3, <1>4, ResetKeeps

LEMMA ResetAllKeeps ==
    ASSUME QueueInv, ResetAllLanes
    PROVE  QueueInv' /\ StartsFit
<1> DEFINE g == [k \in Lane |-> IF k \in lanes THEN generation[k] + 1 ELSE generation[k]]
           a == [k \in Lane |-> IF k \in lanes THEN {} ELSE activeTaskIds[k]]
<1>1. LanesFit /\ lanes \subseteq Lane
    BY DEF QueueInv, OtherTypes
<1>2. \A k \in lanes : generation[k] + 1 \in 0..MaxGeneration
    BY <1>1, LanesFitTypes DEF ResetAllLanes
<1>3. g \in [Lane -> 0..MaxGeneration]
    BY <1>1, <1>2, LanesFitTypes
<1>4. /\ UNCHANGED <<lanes, maxConcurrent, nextQueueSequence, entry, promise>>
      /\ generation' = g
      /\ DrainLanes(lanes, queue, a, maxConcurrent, generation', body)
      /\ NotifyActiveTaskWaiters(activeTaskIds')
    BY DEF ResetAllLanes
<1> HIDE DEF a, g
<1>5. DrainLanes(lanes, queue, a, maxConcurrent, g, body)
    BY <1>4
<1>6. a = [k \in Lane |-> IF k \in lanes THEN {} ELSE activeTaskIds[k]]
      /\ g = [k \in Lane |-> IF k \in lanes THEN generation[k] + 1 ELSE generation[k]]
    BY DEF a, g
<1> QED BY <1>1, <1>3, <1>4, <1>5, <1>6, ResetKeeps

(* Waiters come and time out; the lanes do not change. *)
LEMMA WaiterKeeps ==
    ASSUME QueueInv, NEW w \in Waiter, NEW r \in WaiterState,
           waiter' = [waiter EXCEPT ![w] = r],
           UNCHANGED <<lanes, queue, activeTaskIds, maxConcurrent, generation,
                       nextQueueSequence, entry, startGeneration, body, promise>>,
           r.status = "waiting" => HasPendingActiveTasks(r.taskIds, activeTaskIds),
           r.status = "drained" => r.taskIds = {},
           \A e \in r.taskIds : body[e] # "unstarted"
    PROVE  QueueInv' /\ StartsFit
<1>1. /\ LanesFit /\ OtherTypes /\ FutureEntries /\ NoIdleBacklog
      /\ NoLostWaiter /\ DrainedIsTrue /\ CapturedWereStarted
    BY DEF QueueInv
<1>2. /\ waiter' \in [Waiter -> WaiterState] /\ waiter'[w] = r
      /\ \A v \in Waiter : v # w => waiter'[v] = waiter[v]
    BY <1>1 DEF OtherTypes
<1>3. LanesFit' /\ FutureEntries' /\ NoIdleBacklog'
    BY <1>1 DEF LanesFit, FutureEntries, NoIdleBacklog
<1>4. OtherTypes'
    BY <1>1, <1>2 DEF OtherTypes
<1>5. NoLostWaiter' /\ CapturedWereStarted'
    BY <1>1, <1>2 DEF NoLostWaiter, CapturedWereStarted, HasPendingActiveTasks
<1>6. DrainedIsTrue'
    BY <1>1, <1>2 DEF DrainedIsTrue
<1>7. StartsFit
    BY DEF StartsFit
<1> QED BY <1>3, <1>4, <1>5, <1>6, <1>7 DEF QueueInv


LEMMA WaitForActiveTasksKeeps ==
    ASSUME QueueInv, NEW w \in Waiter, NEW timed \in BOOLEAN, NEW zero \in BOOLEAN,
           WaitForActiveTasks(w, timed, zero)
    PROVE  QueueInv' /\ StartsFit
<1> DEFINE active == UNION {activeTaskIds[l] : l \in Lane}
           status == IF active = {} THEN "drained"
                     ELSE IF timed /\ zero THEN "notDrained" ELSE "waiting"
           r == [status |-> status, taskIds |-> active, timed |-> timed]
<1>1. LanesFit
    BY DEF QueueInv
<1>2. active \subseteq Entry
    BY <1>1, LanesFitTypes
<1>3. r \in WaiterState
    BY <1>2 DEF WaiterState
<1>4. /\ waiter' = [waiter EXCEPT ![w] = r]
      /\ UNCHANGED <<lanes, queue, activeTaskIds, maxConcurrent, generation,
                     nextQueueSequence, entry, startGeneration, body, promise>>
    BY DEF WaitForActiveTasks
<1>5. /\ r.taskIds = active /\ r.status = status
      /\ status = "waiting" => active # {}
      /\ status = "drained" => active = {}
    OBVIOUS
<1>6. active # {} => HasPendingActiveTasks(active, activeTaskIds)
    BY DEF HasPendingActiveTasks
<1>7. \A e \in active : body[e] # "unstarted"
    <2>1. SUFFICES ASSUME NEW l \in Lane, NEW e \in activeTaskIds[l]
                   PROVE  body[e] = "running"
        OBVIOUS
    <2>2. e \in Entry
        BY <1>1, LanesFitTypes
    <2> QED BY <1>1, <2>2 DEF LanesFit, Mid, SlotsFit, HoldsSlot
<1> HIDE DEF active, status, r
<1> QED BY <1>3, <1>4, <1>5, <1>6, <1>7, WaiterKeeps

LEMMA WaiterTimesOutKeeps ==
    ASSUME QueueInv, NEW w \in Waiter, WaiterTimesOut(w)
    PROVE  QueueInv' /\ StartsFit
<1> DEFINE r == [waiter[w] EXCEPT !.status = "notDrained"]
<1>1. OtherTypes /\ waiter \in [Waiter -> WaiterState]
    BY DEF QueueInv, OtherTypes
<1>2. /\ r \in WaiterState /\ r.status = "notDrained" /\ r.taskIds = waiter[w].taskIds
    BY <1>1, WaiterFacts DEF WaiterState
<1>3. /\ waiter' = [waiter EXCEPT ![w] = r]
      /\ UNCHANGED <<lanes, queue, activeTaskIds, maxConcurrent, generation,
                     nextQueueSequence, entry, startGeneration, body, promise>>
    BY <1>1 DEF WaiterTimesOut
<1>4. \A e \in waiter[w].taskIds : body[e] # "unstarted"
    BY DEF QueueInv, CapturedWereStarted
<1> HIDE DEF r
<1> QED BY <1>2, <1>3, <1>4, WaiterKeeps

LEMMA QueueNext ==
    ASSUME QueueInv, [Next]_vars
    PROVE  QueueInv' /\ StartsFit
<1>1. ASSUME NEW e \in Entry, TaskSettles(e)
      PROVE  QueueInv' /\ StartsFit
    BY <1>1, FinishKeeps DEF TaskSettles
<1>2. ASSUME NEW e \in Entry, TaskTimesOut(e)
      PROVE  QueueInv' /\ StartsFit
    BY <1>2, FinishKeeps DEF TaskTimesOut
<1>3. CASE UNCHANGED vars
    <2>1. StartsFit
        BY <1>3 DEF vars, StartsFit
    <2>2. LanesFit' /\ FutureEntries' /\ NoIdleBacklog' /\ OtherTypes'
        BY <1>3 DEF vars, QueueInv, LanesFit, FutureEntries, NoIdleBacklog, OtherTypes
    <2>3. NoLostWaiter' /\ DrainedIsTrue' /\ CapturedWereStarted'
        BY <1>3 DEF vars, QueueInv, NoLostWaiter, HasPendingActiveTasks, DrainedIsTrue,
                    CapturedWereStarted
    <2> QED BY <2>1, <2>2, <2>3 DEF QueueInv
<1> QED BY <1>1, <1>2, <1>3, EnqueueKeeps, LateSettleKeeps, SetConcurrencyKeeps,
           ClearKeeps, ResetLaneKeeps, ResetAllKeeps, WaitForActiveTasksKeeps,
           WaiterTimesOutKeeps DEF Next

-----------------------------------------------------------------------------
(* The theorems.                                                           *)

(* The inductive invariant of the command queue. *)
THEOREM QueueInvariant == Spec => []QueueInv
<1>1. Init => QueueInv
    BY QueueInit
<1>2. QueueInv /\ [Next]_vars => QueueInv'
    BY QueueNext
<1> QED BY <1>1, <1>2, PTL DEF Spec

(* For any lanes, limits, clears, timeouts and resets no accepted command  *)
(* is lost, duplicated or answered early, a lane's slots are held by       *)
(* exactly the tasks it awaits in its current generation, and every queue  *)
(* is in dispatch order (enqueueCommandInLane, completeTask,               *)
(* clearCommandLane, resetCommandLane, resetAllLanes).                     *)
THEOREM LanesAlwaysFit == Spec => []LaneInv
<1>1. QueueInv => LaneInv
    BY LanesFitMeans
<1> QED BY <1>1, QueueInvariant, PTL

(* No lane ever sits on a backlog with a free slot: every path that frees  *)
(* a slot, raises a limit or adds an entry pumps the lane (drainLane).     *)
THEOREM BacklogAlwaysPumped == Spec => []NoIdleBacklog
<1>1. QueueInv => NoIdleBacklog
    BY DEF QueueInv
<1> QED BY <1>1, QueueInvariant, PTL

(* waitForActiveTasks is never forgotten and never told drained early:     *)
(* every path that frees a slot notifies (notifyActiveTaskWaiters).        *)
THEOREM WaitersAlwaysInformed == Spec => []WaitersInformed
<1>1. QueueInv => WaitersInformed
    BY DEF QueueInv, WaitersInformed
<1> QED BY <1>1, QueueInvariant, PTL

(* A lane that starts work stays within its limit and never starts an      *)
(* entry before one that outranks it (drainLane, enqueueLaneEntry).        *)
THEOREM StartsAlwaysAllowed == Spec => StartsAsAllowed
<1>1. QueueInv /\ [Next]_vars => StartsFit
    BY QueueNext
<1> QED BY <1>1, QueueInvariant, PTL DEF Spec, StartsAsAllowed, StartsFit

-----------------------------------------------------------------------------
(* The race between a task and its timeout: LaneTaskTimeout. *)

USE TimeoutAssumption

(* The race is open before it begins. *)
QueuedIsPending == taskBody = "queued" => outcome = "pending"

LaneTaskInv == TimeoutTypeOK /\ DeadlineArmed /\ NothingLeftArmed /\ QueuedIsPending

(* The conjuncts of TimeoutTypeOK by the sort of their variables. *)
TimesOK ==
    /\ now \in 0..MaxTime
    /\ startedAt \in 0..now /\ progressAt \in 0..now /\ abortedAt \in 0..now
FlagsOK ==
    /\ aborted \in BOOLEAN /\ released \in BOOLEAN
    /\ onAbort \in BOOLEAN /\ onRelease \in BOOLEAN
ProgressOK ==
    /\ taskBody \in {"queued", "running", "done"}
    /\ outcome \in {"pending", "task", "timeout"}

(* The invariant holds before the entry is started. *)
LEMMA LaneTaskInit == TimeoutInit => LaneTaskInv
<1> SUFFICES ASSUME TimeoutInit PROVE LaneTaskInv
    OBVIOUS
<1>1. TimesOK
    BY DEF TimeoutInit, TimesOK
<1>2. FlagsOK
    BY DEF TimeoutInit, FlagsOK
<1>3. ProgressOK /\ timer \in Timer
    BY DEF TimeoutInit, ProgressOK, Timer, Callback, NoTimer
<1>4. DeadlineArmed /\ NothingLeftArmed /\ QueuedIsPending
    BY DEF TimeoutInit, DeadlineArmed, NothingLeftArmed, Awaited, QueuedIsPending
<1> QED BY <1>1, <1>2, <1>3, <1>4
        DEF LaneTaskInv, TimeoutTypeOK, TimesOK, FlagsOK, ProgressOK

(* Every step keeps the types. *)
LEMMA TypeStep == LaneTaskInv /\ [TimeoutNext]_timeoutVars => TimeoutTypeOK'
<1> SUFFICES ASSUME LaneTaskInv, [TimeoutNext]_timeoutVars PROVE TimeoutTypeOK'
    OBVIOUS
<1> USE DEF LaneTaskInv, TimeoutTypeOK, TimeoutNext, timeoutVars, Start, TimerFires, AbortSignal,
            ReleaseSignal, NoteProgress, TaskFunctionSettles, Tick, ArmAbortTimeout
<1>1. TimesOK'
    BY DEF TimesOK
<1>2. FlagsOK'
    BY DEF FlagsOK, ArmProgressTimeout, RejectForTimeout, Cleanup
<1>3. ProgressOK'
    BY DEF ProgressOK, ArmProgressTimeout, RejectForTimeout, Cleanup
<1>4. (timer \in Timer)'
    BY DEF ArmProgressTimeout, RejectForTimeout, Cleanup, LastProgress, Timer,
           Callback, NoTimer
<1> QED BY <1>1, <1>2, <1>3, <1>4 DEF TimesOK, FlagsOK, ProgressOK

(* Every step leaves the right timer and listeners behind. *)
LEMMA ArmedStep ==
    LaneTaskInv /\ [TimeoutNext]_timeoutVars =>
        DeadlineArmed' /\ NothingLeftArmed' /\ QueuedIsPending'
<1> SUFFICES ASSUME LaneTaskInv, [TimeoutNext]_timeoutVars
             PROVE  DeadlineArmed' /\ NothingLeftArmed' /\ QueuedIsPending'
    OBVIOUS
<1> USE DEF LaneTaskInv, TimeoutTypeOK, Timer, Callback, NoTimer, DeadlineArmed,
            NothingLeftArmed, Awaited, LastProgress, QueuedIsPending
<1>1. CASE Start
    <2>1. CASE released
        BY <1>1, <2>1 DEF Start, RejectForTimeout, Cleanup
    <2>2. CASE ~released /\ aborted
        BY <1>1, <2>2 DEF Start, ArmAbortTimeout
    <2>3. CASE ~released /\ ~aborted
        BY <1>1, <2>3 DEF Start
    <2> QED BY <2>1, <2>2, <2>3
<1>2. CASE TimerFires
    <2>1. CASE timer.call = "armProgressTimeout"
        BY <1>2, <2>1 DEF TimerFires, ArmProgressTimeout, RejectForTimeout,
                         Cleanup
    <2>2. CASE timer.call # "armProgressTimeout"
        BY <1>2, <2>2 DEF TimerFires, RejectForTimeout, Cleanup
    <2> QED BY <2>1, <2>2
<1>3. CASE AbortSignal
    BY <1>3 DEF AbortSignal, ArmAbortTimeout
<1>4. CASE ReleaseSignal
    BY <1>4 DEF ReleaseSignal, RejectForTimeout, Cleanup
<1>5. CASE NoteProgress
    BY <1>5 DEF NoteProgress
<1>6. CASE TaskFunctionSettles
    BY <1>6 DEF TaskFunctionSettles, Cleanup
<1>7. CASE Tick
    BY <1>7 DEF Tick
<1>8. CASE UNCHANGED timeoutVars
    BY <1>8 DEF timeoutVars
<1> QED BY <1>1, <1>2, <1>3, <1>4, <1>5, <1>6, <1>7, <1>8 DEF TimeoutNext

(* The inductive invariant holds in every reachable state of              *)
(* runQueueEntryTask.                                                     *)
THEOREM LaneTaskInvariant == TimeoutSpec => []LaneTaskInv
<1>1. LaneTaskInv /\ [TimeoutNext]_timeoutVars => LaneTaskInv'
    BY TypeStep, ArmedStep DEF LaneTaskInv
<1> QED BY LaneTaskInit, <1>1, PTL DEF TimeoutSpec

(* A held lane has a deadline: the lane awaits a silent task for at most  *)
(* its timeout, and an aborted one for at most the grace period.          *)
THEOREM HeldWithinDeadlineAlways == TimeoutSpec => []HeldWithinDeadline
<1>1. LaneTaskInv => HeldWithinDeadline
    BY DEF LaneTaskInv, TimeoutTypeOK, Timer, DeadlineArmed, HeldWithinDeadline,
           Awaited, LastProgress
<1> QED BY LaneTaskInvariant, <1>1, PTL

(* runQueueEntryTask's finally block leaves nothing armed behind. *)
THEOREM NothingLeftArmedAlways == TimeoutSpec => []NothingLeftArmed
BY LaneTaskInvariant, PTL DEF LaneTaskInv

(* A lane gives a task up only after its release signal, a whole grace    *)
(* period since the abort, or a whole timeout without progress.           *)
THEOREM TimeoutAlwaysHasReason == TimeoutSpec => TimeoutHasReason
<1> DEFINE Reason ==
        outcome = "pending" /\ outcome' = "timeout" =>
            \/ released'
            \/ aborted /\ now >= abortedAt + AbortGrace
            \/ ~aborted /\ now >= LastProgress + TaskTimeout
<1>1. LaneTaskInv /\ [TimeoutNext]_timeoutVars => [Reason]_timeoutVars
    <2> SUFFICES ASSUME LaneTaskInv, TimeoutNext PROVE Reason
        OBVIOUS
    <2> USE DEF LaneTaskInv, TimeoutTypeOK, Timer, Callback, NoTimer, DeadlineArmed,
                NothingLeftArmed, Awaited, LastProgress
    <2>1. CASE Start
        BY <2>1 DEF Start
    <2>2. CASE TimerFires
        BY <2>2 DEF TimerFires, ArmProgressTimeout
    <2>3. CASE ReleaseSignal
        BY <2>3 DEF ReleaseSignal
    <2>4. CASE AbortSignal \/ NoteProgress \/ TaskFunctionSettles \/ Tick
        BY <2>4 DEF AbortSignal, NoteProgress, TaskFunctionSettles, Tick
    <2> QED BY <2>1, <2>2, <2>3, <2>4 DEF TimeoutNext
<1> QED BY LaneTaskInvariant, <1>1, PTL DEF TimeoutSpec, TimeoutHasReason
=============================================================================
