-------------------------- MODULE FollowupQueueProofs --------------------------
(***************************************************************************)
(* The lists and counters of the follow-up queue account for every         *)
(* message, no backlog is left without a drain, and no message is          *)
(* presented twice: proved for any messages, caps, settings and numbers of *)
(* queue objects.                                                          *)
(***************************************************************************)
EXTENDS FollowupQueue, FiniteSetTheorems, SequenceTheorems,
        WellFoundedInduction, TLAPS

-----------------------------------------------------------------------------
(* Sequences without repetition.                                           *)

(* A set of numbers has a least one: what induction rests on here. *)
LEMMA LeastNumber ==
    ASSUME NEW S \in SUBSET Nat, S # {}
    PROVE  \E i \in S : \A j \in S : i <= j
<1>1. PICK i \in S : \A j \in S : ~(<<j, i>> \in OpToRel(<, Nat))
    BY NatLessThanWellFounded, WFMin
<1>2. \A j \in S : ~(j < i)
    BY <1>1 DEF OpToRel
<1> QED BY <1>2

(* The equation that defines Without's keep, up to position k. *)
Keeps(g, s, S, k) ==
    g = [n \in 0..k |-> IF n = 0 THEN <<>>
                        ELSE IF s[n] \in S THEN g[n - 1]
                        ELSE Append(g[n - 1], s[n])]

(* It has a solution. *)
LEMMA KeepExists ==
    ASSUME NEW s, NEW S, NEW k \in Nat
    PROVE  \E g : Keeps(g, s, S, k)
<1> DEFINE Bad == {n \in Nat : ~\E g : Keeps(g, s, S, n)}
<1> SUFFICES ASSUME Bad # {} PROVE FALSE
    OBVIOUS
<1>1. PICK b \in Bad : \A c \in Bad : b <= c
    BY LeastNumber
<1>2. CASE b = 0
    <2> DEFINE g == [n \in 0..0 |-> <<>>]
    <2>1. Keeps(g, s, S, 0)
        BY DEF Keeps
    <2> QED BY <1>1, <1>2, <2>1
<1>3. CASE b # 0
    <2>1. b \in Nat /\ b - 1 \in Nat /\ b - 1 \notin Bad
        BY <1>1, <1>3
    <2>2. PICK g : Keeps(g, s, S, b - 1)
        BY <2>1
    <2> DEFINE h == [n \in 0..b |-> IF n < b THEN g[n]
                                    ELSE IF s[b] \in S THEN g[b - 1]
                                    ELSE Append(g[b - 1], s[b])]
    <2>3. \A n \in 0..(b - 1) :
              g[n] = IF n = 0 THEN <<>> ELSE IF s[n] \in S THEN g[n - 1]
                     ELSE Append(g[n - 1], s[n])
        BY <2>1, <2>2 DEF Keeps
    <2>4. \A n \in 0..b :
              h[n] = IF n = 0 THEN <<>> ELSE IF s[n] \in S THEN h[n - 1]
                     ELSE Append(h[n - 1], s[n])
        BY <1>3, <2>1, <2>3
    <2>5. Keeps(h, s, S, b)
        BY <2>4 DEF Keeps
    <2> QED BY <1>1, <2>5
<1> QED BY <1>2, <1>3

(* So Without is the last value of one. *)
LEMMA WithoutKeeps ==
    ASSUME NEW s \in Seq(Msg), NEW S
    PROVE  \E g :
              /\ Without(s, S) = g[Len(s)] /\ g[0] = <<>>
              /\ \A n \in 1..Len(s) :
                    g[n] = IF s[n] \in S THEN g[n - 1] ELSE Append(g[n - 1], s[n])
<1>1. Len(s) \in Nat
    OBVIOUS
<1>2. \E g : Keeps(g, s, S, Len(s))
    BY <1>1, KeepExists
<1>3. PICK g : Keeps(g, s, S, Len(s)) /\ Without(s, S) = g[Len(s)]
    BY <1>2 DEF Keeps, Without
<1>4. \A n \in 0..Len(s) :
          g[n] = IF n = 0 THEN <<>> ELSE IF s[n] \in S THEN g[n - 1]
                 ELSE Append(g[n - 1], s[n])
    BY <1>3 DEF Keeps
<1> QED BY <1>1, <1>3, <1>4

(* What is kept up to position n. *)
KeptOf(w, s, S, n) ==
    /\ w \in Seq(Msg) /\ Len(w) <= n
    /\ \A x \in 1..Len(w) : \E y \in 1..n : w[x] = s[y] /\ s[y] \notin S
    /\ \A y \in 1..n : s[y] \notin S => \E x \in 1..Len(w) : w[x] = s[y]
    /\ IsInjective(s) => \A x, y \in 1..Len(w) : w[x] = w[y] => x = y

LEMMA KeptOneMore ==
    ASSUME NEW s \in Seq(Msg), NEW S, NEW o, NEW b \in 1..Len(s), s[b] \notin S,
           KeptOf(o, s, S, b - 1)
    PROVE  KeptOf(Append(o, s[b]), s, S, b)
<1> DEFINE p == Append(o, s[b])
<1>0. /\ Len(s) \in Nat /\ DOMAIN s = 1..Len(s) /\ b \in Nat /\ b - 1 \in Nat
      /\ s[b] \in Msg /\ b - 1 < b /\ b <= Len(s)
    OBVIOUS
<1>1. o \in Seq(Msg) /\ Len(o) \in Nat /\ Len(o) <= b - 1
    BY DEF KeptOf
<1>2. /\ p \in Seq(Msg) /\ Len(p) = Len(o) + 1
      /\ \A x \in 1..Len(o) : p[x] = o[x]
      /\ p[Len(o) + 1] = s[b]
    BY <1>0, <1>1
<1> HIDE DEF p
<1>3. \A x \in 1..Len(p) : x \in 1..Len(o) \/ x = Len(o) + 1
    BY <1>1, <1>2
<1>4. Len(p) <= b
    BY <1>0, <1>1, <1>2
<1>5. ASSUME NEW x \in 1..Len(p)
      PROVE  \E y \in 1..b : p[x] = s[y] /\ s[y] \notin S
    <2>1. CASE x = Len(o) + 1
        BY <1>0, <1>2, <2>1
    <2>2. CASE x \in 1..Len(o)
        <3>1. PICK y \in 1..(b - 1) : o[x] = s[y] /\ s[y] \notin S
            BY <2>2 DEF KeptOf
        <3>2. y \in 1..b
            BY <1>0
        <3> QED BY <1>2, <2>2, <3>1, <3>2
    <2> QED BY <1>3, <2>1, <2>2
<1>6. ASSUME NEW y \in 1..b, s[y] \notin S
      PROVE  \E x \in 1..Len(p) : p[x] = s[y]
    <2>1. CASE y = b
        <3>1. Len(o) + 1 \in 1..Len(p)
            BY <1>1, <1>2
        <3> QED BY <1>2, <2>1, <3>1
    <2>2. CASE y # b
        <3>1. y \in 1..(b - 1)
            BY <1>0, <2>2
        <3>2. PICK x \in 1..Len(o) : o[x] = s[y]
            BY <1>6, <3>1 DEF KeptOf
        <3>3. x \in 1..Len(p)
            BY <1>1, <1>2
        <3> QED BY <1>2, <3>2, <3>3
    <2> QED BY <2>1, <2>2
<1>7. ASSUME IsInjective(s), NEW x \in 1..Len(p), NEW y \in 1..Len(p), p[x] = p[y]
      PROVE  x = y
    <2>1. \A u, v \in 1..Len(o) : o[u] = o[v] => u = v
        BY <1>7 DEF KeptOf
    <2>2. ASSUME NEW u \in 1..Len(o) PROVE o[u] # s[b]
        <3>1. PICK v \in 1..(b - 1) : o[u] = s[v]
            BY <2>2 DEF KeptOf
        <3>2. v \in DOMAIN s /\ b \in DOMAIN s /\ v # b
            BY <1>0
        <3> QED BY <1>7, <3>1, <3>2 DEF IsInjective
    <2> QED BY <1>2, <1>3, <1>7, <2>1, <2>2
<1>8. KeptOf(p, s, S, b)
    BY <1>2, <1>4, <1>5, <1>6, <1>7 DEF KeptOf
<1> QED BY <1>8 DEF p

KeepSteps(g, s, S) ==
    /\ g[0] = <<>>
    /\ \A n \in 1..Len(s) :
          g[n] = IF s[n] \in S THEN g[n - 1] ELSE Append(g[n - 1], s[n])

LEMMA KeptSoFar ==
    ASSUME NEW s \in Seq(Msg), NEW S, NEW g, KeepSteps(g, s, S)
    PROVE  \A n \in 0..Len(s) : KeptOf(g[n], s, S, n)
<1> DEFINE Bad == {n \in 0..Len(s) : ~KeptOf(g[n], s, S, n)}
<1> SUFFICES ASSUME Bad # {} PROVE FALSE
    OBVIOUS
<1>0. Len(s) \in Nat
    OBVIOUS
<1>1. PICK b \in Bad : \A c \in Bad : b <= c
    <2>1. Bad \in SUBSET Nat
        BY <1>0
    <2> HIDE DEF Bad
    <2> QED BY <2>1, LeastNumber
<1>2. KeptOf(g[0], s, S, 0)
    BY DEF KeptOf, KeepSteps
<1>3. b \in 1..Len(s) /\ b - 1 \in 0..Len(s) /\ b \in Nat
    BY <1>0, <1>1, <1>2
<1>4. KeptOf(g[b - 1], s, S, b - 1)
    BY <1>1, <1>3
<1>5. CASE s[b] \in S
    <2>1. g[b] = g[b - 1]
        BY <1>3, <1>5 DEF KeepSteps
    <2>2. KeptOf(g[b], s, S, b)
        <3>1. \A y \in 1..b : y = b \/ y \in 1..(b - 1)
            BY <1>3
        <3>2. \A y \in 1..(b - 1) : y \in 1..b
            BY <1>3
        <3> DEFINE w == g[b - 1]
        <3>3. KeptOf(w, s, S, b - 1)
            BY <1>4
        <3> HIDE DEF w
        <3>4. w \in Seq(Msg) /\ Len(w) <= b
            BY <1>3, <3>3 DEF KeptOf
        <3>5. \A x \in 1..Len(w) : \E y \in 1..b : w[x] = s[y] /\ s[y] \notin S
            BY <3>2, <3>3 DEF KeptOf
        <3>6. \A y \in 1..b : s[y] \notin S => \E x \in 1..Len(w) : w[x] = s[y]
            BY <1>5, <3>1, <3>3 DEF KeptOf
        <3>7. KeptOf(w, s, S, b)
            BY <3>3, <3>4, <3>5, <3>6 DEF KeptOf
        <3> QED BY <2>1, <3>7 DEF w
    <2> QED BY <1>1, <2>2
<1>6. CASE s[b] \notin S
    <2>1. g[b] = Append(g[b - 1], s[b])
        BY <1>3, <1>6 DEF KeepSteps
    <2>2. KeptOf(g[b], s, S, b)
        BY <1>3, <1>4, <1>6, <2>1, KeptOneMore
    <2> QED BY <1>1, <2>2
<1> QED BY <1>5, <1>6

(* Without takes out what it is told to and nothing else. *)
LEMMA WithoutFacts ==
    ASSUME NEW s \in Seq(Msg), NEW S
    PROVE  /\ Without(s, S) \in Seq(Msg) /\ Len(Without(s, S)) <= Len(s)
           /\ ToSet(Without(s, S)) = ToSet(s) \ S
           /\ IsInjective(s) => IsInjective(Without(s, S))
<1> DEFINE w == Without(s, S)
<1>1. PICK g : w = g[Len(s)] /\ KeepSteps(g, s, S)
    BY WithoutKeeps DEF KeepSteps
<1> HIDE DEF w
<1>2. KeptOf(w, s, S, Len(s))
    <2>1. Len(s) \in 0..Len(s)
        OBVIOUS
    <2> QED BY <1>1, <2>1, KeptSoFar
<1>3. DOMAIN w = 1..Len(w) /\ DOMAIN s = 1..Len(s)
    BY <1>2 DEF KeptOf
<1>4. ToSet(w) = ToSet(s) \ S
    <2>1. ASSUME NEW m \in ToSet(w)
          PROVE  m \in ToSet(s) /\ m \notin S
        <3>1. PICK x \in 1..Len(w) : m = w[x]
            BY <1>3 DEF ToSet
        <3>2. PICK y \in 1..Len(s) : w[x] = s[y] /\ s[y] \notin S
            BY <1>2, <3>1 DEF KeptOf
        <3> QED BY <1>3, <3>1, <3>2 DEF ToSet
    <2>2. ASSUME NEW m \in ToSet(s), m \notin S
          PROVE  m \in ToSet(w)
        <3>1. PICK y \in 1..Len(s) : m = s[y]
            BY <1>3 DEF ToSet
        <3>2. PICK x \in 1..Len(w) : w[x] = s[y]
            BY <1>2, <2>2, <3>1 DEF KeptOf
        <3> QED BY <1>3, <3>1, <3>2 DEF ToSet
    <2> QED BY <2>1, <2>2
<1>5. IsInjective(s) => IsInjective(w)
    BY <1>2, <1>3 DEF KeptOf, IsInjective
<1> QED BY <1>2, <1>4, <1>5 DEF w, KeptOf

(* Without keeps the order: what it keeps of the first k entries stays in  *)
(* front, and the rest comes from behind them.                             *)
FrontOf(w, s, S, k, n, front) ==
    /\ w \in Seq(Msg) /\ Len(front) <= Len(w)
    /\ \A x \in 1..Len(front) : w[x] = front[x]
    /\ \A x \in 1..Len(w) : x > Len(front) => \E y \in 1..n : y > k /\ w[x] = s[y]

LEMMA FrontOneMore ==
    ASSUME NEW s \in Seq(Msg), NEW S, NEW k \in Nat, NEW front \in Seq(Msg),
           NEW b \in 1..Len(s), b > k, NEW o, FrontOf(o, s, S, k, b - 1, front),
           NEW p, p = IF s[b] \in S THEN o ELSE Append(o, s[b])
    PROVE  FrontOf(p, s, S, k, b, front)
<1>0. /\ b \in Nat /\ s[b] \in Msg /\ Len(front) \in Nat
      /\ \A y \in 1..(b - 1) : y \in 1..b
      /\ b \in 1..b
    OBVIOUS
<1>1. o \in Seq(Msg) /\ Len(o) \in Nat /\ Len(front) <= Len(o)
    BY DEF FrontOf
<1>2. \A x \in 1..Len(o) : x > Len(front) => \E y \in 1..b : y > k /\ o[x] = s[y]
    BY <1>0 DEF FrontOf
<1>3. CASE s[b] \in S
    BY <1>1, <1>2, <1>3 DEF FrontOf
<1>4. CASE s[b] \notin S
    <2>1. /\ p \in Seq(Msg) /\ Len(p) = Len(o) + 1
          /\ \A x \in 1..Len(o) : p[x] = o[x]
          /\ p[Len(o) + 1] = s[b]
        BY <1>0, <1>1, <1>4
    <2>2. \A x \in 1..Len(p) : x \in 1..Len(o) \/ x = Len(o) + 1
        BY <1>1, <2>1
    <2>3. Len(front) <= Len(p) /\ \A x \in 1..Len(front) : p[x] = front[x]
        BY <1>0, <1>1, <2>1 DEF FrontOf
    <2>4. ASSUME NEW x \in 1..Len(p), x > Len(front)
          PROVE  \E y \in 1..b : y > k /\ p[x] = s[y]
        <3>1. CASE x \in 1..Len(o)
            BY <1>2, <2>1, <2>4, <3>1
        <3>2. CASE x = Len(o) + 1
            BY <1>0, <2>1, <3>2
        <3> QED BY <2>2, <3>1, <3>2
    <2> QED BY <2>1, <2>3, <2>4 DEF FrontOf
<1> QED BY <1>3, <1>4

LEMMA FrontStays ==
    ASSUME NEW s \in Seq(Msg), NEW S, NEW g, KeepSteps(g, s, S),
           NEW k \in 0..Len(s)
    PROVE  FrontOf(g[Len(s)], s, S, k, Len(s), g[k])
<1> DEFINE Bad == {n \in 0..Len(s) : k <= n /\ ~FrontOf(g[n], s, S, k, n, g[k])}
<1>0. Len(s) \in Nat /\ k \in Nat /\ k <= Len(s)
    OBVIOUS
<1>1. g[k] \in Seq(Msg) /\ Len(g[k]) \in Nat
    BY KeptSoFar DEF KeptOf
<1>2. FrontOf(g[k], s, S, k, k, g[k])
    BY <1>1 DEF FrontOf
<1>3. SUFFICES ASSUME Bad # {} PROVE FALSE
    BY <1>0
<1>4. PICK b \in Bad : \A c \in Bad : b <= c
    <2>1. Bad \in SUBSET Nat
        BY <1>0
    <2> HIDE DEF Bad
    <2> QED BY <1>3, <2>1, LeastNumber
<1>5. b \in 1..Len(s) /\ b > k /\ b - 1 \in 0..Len(s) /\ k <= b - 1
    BY <1>0, <1>2, <1>4
<1>6. FrontOf(g[b - 1], s, S, k, b - 1, g[k])
    BY <1>4, <1>5
<1>7. g[b] = IF s[b] \in S THEN g[b - 1] ELSE Append(g[b - 1], s[b])
    BY <1>5 DEF KeepSteps
<1>8. FrontOf(g[b], s, S, k, b, g[k])
    BY <1>0, <1>1, <1>5, <1>6, <1>7, FrontOneMore
<1> QED BY <1>4, <1>8

(* Nothing in front of position k is to go: all of it stays. *)
LEMMA FrontWhole ==
    ASSUME NEW s \in Seq(Msg), NEW S, NEW g, KeepSteps(g, s, S),
           NEW k \in 0..Len(s), \A x \in 1..k : s[x] \notin S
    PROVE  Len(g[k]) = k /\ \A x \in 1..k : g[k][x] = s[x]
<1> DEFINE Whole(n) == Len(g[n]) = n /\ \A x \in 1..n : g[n][x] = s[x]
           Bad == {n \in 0..k : ~Whole(n)}
<1>0. Len(s) \in Nat /\ k \in Nat /\ k <= Len(s)
    OBVIOUS
<1>1. Whole(0)
    BY DEF KeepSteps
<1> HIDE DEF Whole
<1>2. SUFFICES ASSUME Bad # {} PROVE FALSE
    BY <1>0 DEF Whole
<1>3. PICK b \in Bad : \A c \in Bad : b <= c
    <2>1. Bad \in SUBSET Nat
        BY <1>0
    <2> HIDE DEF Bad
    <2> QED BY <1>2, <2>1, LeastNumber
<1>4. b \in 1..k /\ b \in 1..Len(s) /\ b - 1 \in 0..k /\ b - 1 \in 0..Len(s) /\ b \in Nat
    BY <1>0, <1>1, <1>3
<1>5. Whole(b - 1)
    BY <1>3, <1>4
<1>6. g[b] = Append(g[b - 1], s[b])
    BY <1>4 DEF KeepSteps
<1>7. g[b - 1] \in Seq(Msg) /\ s[b] \in Msg
    BY <1>4, KeptSoFar DEF KeptOf
<1>8. Whole(b)
    <2>1. /\ Len(g[b]) = Len(g[b - 1]) + 1
          /\ \A x \in 1..Len(g[b - 1]) : g[b][x] = g[b - 1][x]
          /\ g[b][Len(g[b - 1]) + 1] = s[b]
        BY <1>6, <1>7
    <2>2. \A x \in 1..b : x = b \/ x \in 1..(b - 1)
        BY <1>4
    <2> QED BY <1>4, <1>5, <2>1, <2>2 DEF Whole
<1> QED BY <1>3, <1>8

LEMMA WithoutFront ==
    ASSUME NEW s \in Seq(Msg), NEW S, NEW k \in 0..Len(s)
    PROVE  /\ \E j \in 0..k : j <= Len(Without(s, S)) /\
                 \A x \in 1..Len(Without(s, S)) : x > j =>
                     \E y \in 1..Len(s) : y > k /\ Without(s, S)[x] = s[y]
           /\ (\A x \in 1..k : s[x] \notin S) =>
                 k <= Len(Without(s, S)) /\ \A x \in 1..k : Without(s, S)[x] = s[x]
<1> DEFINE w == Without(s, S)
<1>1. PICK g : w = g[Len(s)] /\ KeepSteps(g, s, S)
    BY WithoutKeeps DEF KeepSteps
<1> HIDE DEF w
<1>2. FrontOf(w, s, S, k, Len(s), g[k])
    BY <1>1, FrontStays
<1>3. Len(g[k]) \in 0..k
    BY <1>1, KeptSoFar DEF KeptOf
<1>4. /\ Len(g[k]) <= Len(w)
      /\ \A x \in 1..Len(w) : x > Len(g[k]) => \E y \in 1..Len(s) : y > k /\ w[x] = s[y]
    BY <1>2 DEF FrontOf
<1>5. ASSUME \A x \in 1..k : s[x] \notin S
      PROVE  k <= Len(w) /\ \A x \in 1..k : w[x] = s[x]
    <2>1. Len(g[k]) = k /\ \A x \in 1..k : g[k][x] = s[x]
        BY <1>1, <1>5, FrontWhole
    <2> QED BY <1>2, <2>1 DEF FrontOf
<1> QED BY <1>3, <1>4, <1>5 DEF w

(* Without what is not there. *)
LEMMA WithoutNothing ==
    ASSUME NEW s \in Seq(Msg), NEW S, ToSet(s) \cap S = {}
    PROVE  Without(s, S) = s
<1> DEFINE w == Without(s, S)
<1>1. Len(s) \in 0..Len(s) /\ \A x \in 1..Len(s) : s[x] \notin S
    BY DEF ToSet
<1>2. w \in Seq(Msg) /\ Len(w) <= Len(s)
    BY WithoutFacts
<1>3. Len(s) <= Len(w) /\ \A x \in 1..Len(s) : w[x] = s[x]
    BY <1>1, WithoutFront
<1> HIDE DEF w
<1>4. Len(w) = Len(s)
    BY <1>2, <1>3
<1>5. w = s
    BY <1>2, <1>3, <1>4
<1> QED BY <1>5 DEF w

LEMMA EmptyFacts ==
    /\ <<>> \in Seq(Msg) /\ Len(<<>>) = 0 /\ ToSet(<<>>) = {} /\ IsInjective(<<>>)
    /\ \A s \in Seq(Msg) : (s = <<>>) <=> (ToSet(s) = {})
    /\ \A s \in Seq(Msg) : (s = <<>>) <=> (Len(s) = 0)
    /\ \A s \in Seq(Msg) : Len(s) \in Nat /\ ToSet(s) \subseteq Msg
<1>1. ToSet(<<>>) = {} /\ IsInjective(<<>>)
    BY DEF ToSet, IsInjective
<1>2. ASSUME NEW s \in Seq(Msg), s # <<>> PROVE ToSet(s) # {} /\ Len(s) # 0
    <2>1. 1 \in DOMAIN s
        BY <1>2
    <2> QED BY <2>1 DEF ToSet
<1>3. ASSUME NEW s \in Seq(Msg) PROVE Len(s) \in Nat /\ ToSet(s) \subseteq Msg
    BY DEF ToSet
<1> QED BY <1>1, <1>2, <1>3

(* A sequence cut in two. *)
IsFirst(p, s, n) ==
    p \in Seq(Msg) /\ Len(p) = n /\ \A x \in 1..n : p[x] = s[x]
IsRest(q, s, n) ==
    /\ q \in Seq(Msg) /\ Len(q) = Len(s) - n
    /\ \A x \in 1..(Len(s) - n) : q[x] = s[x + n]

LEMMA FirstIs ==
    ASSUME NEW s \in Seq(Msg), NEW n \in 0..Len(s)
    PROVE  IsFirst(SubSeq(s, 1, n), s, n)
BY DEF IsFirst

LEMMA RestIs ==
    ASSUME NEW s \in Seq(Msg), NEW n \in 0..Len(s)
    PROVE  IsRest(SubSeq(s, n + 1, Len(s)), s, n)
<1> DEFINE k == n + 1
           l == Len(s)
           q == SubSeq(s, k, l)
<1>1. /\ n \in Nat /\ l \in Nat /\ n <= l /\ k \in Int /\ l \in Int
      /\ \A x \in k..l : s[x] \in Msg
    OBVIOUS
<1>2. l - k + 1 = l - n /\ (k <= l \/ l - n = 0) /\ (~(k <= l) => l - n = 0)
    BY <1>1
<1>3. \A x \in 1..(l - n) : k + x - 1 = x + n
    BY <1>1
<1> HIDE DEF k, l
<1>4. /\ q \in Seq(Msg) /\ Len(q) = IF k <= l THEN l - k + 1 ELSE 0
      /\ \A x \in 1 .. l - k + 1 : q[x] = s[k + x - 1]
    BY <1>1, SubSeqProperties
<1> HIDE DEF q
<1>5. Len(q) = l - n
    BY <1>2, <1>4
<1>6. \A x \in 1..(l - n) : q[x] = s[x + n]
    BY <1>2, <1>3, <1>4
<1> QED BY <1>4, <1>5, <1>6 DEF IsRest, q, k, l

LEMMA SplitFacts ==
    ASSUME NEW s \in Seq(Msg), NEW n \in 0..Len(s), NEW p, NEW q,
           IsFirst(p, s, n), IsRest(q, s, n)
    PROVE  /\ ToSet(s) = ToSet(p) \cup ToSet(q)
           /\ IsInjective(s) => /\ IsInjective(p) /\ IsInjective(q)
                                /\ ToSet(p) \cap ToSet(q) = {}
<1>0. Len(s) \in Nat /\ n \in Nat /\ n <= Len(s) /\ DOMAIN s = 1..Len(s)
    OBVIOUS
<1>1. \A x \in 1..n : p[x] = s[x]
    BY DEF IsFirst
<1>3. \A x \in 1..(Len(s) - n) : q[x] = s[x + n]
    BY DEF IsRest
<1>4. DOMAIN p = 1..n /\ DOMAIN q = 1..(Len(s) - n)
    BY <1>0 DEF IsFirst, IsRest
<1>5. \A y \in 1..Len(s) : y \in 1..n \/ (y - n \in 1..(Len(s) - n) /\ y = (y - n) + n)
    BY <1>0
<1>6. \A x \in 1..n : x \in 1..Len(s)
    BY <1>0
<1>7. \A x \in 1..(Len(s) - n) : x + n \in 1..Len(s) /\ x + n \notin 1..n
    BY <1>0
<1>8. ToSet(s) = ToSet(p) \cup ToSet(q)
    <2>1. \A m \in ToSet(s) : m \in ToSet(p) \/ m \in ToSet(q)
        <3> TAKE m \in ToSet(s)
        <3>1. PICK y \in 1..Len(s) : m = s[y]
            BY <1>0 DEF ToSet
        <3>2. CASE y \in 1..n
            BY <1>1, <1>4, <3>1, <3>2 DEF ToSet
        <3>3. CASE y - n \in 1..(Len(s) - n) /\ y = (y - n) + n
            <4>1. q[y - n] = m /\ y - n \in DOMAIN q
                BY <1>3, <1>4, <3>1, <3>3
            <4> QED BY <4>1 DEF ToSet
        <3> QED BY <1>5, <3>2, <3>3
    <2>2. \A m \in ToSet(p) : m \in ToSet(s)
        BY <1>0, <1>1, <1>4, <1>6 DEF ToSet
    <2>3. \A m \in ToSet(q) : m \in ToSet(s)
        BY <1>0, <1>3, <1>4, <1>7 DEF ToSet
    <2> QED BY <2>1, <2>2, <2>3
<1>9. ASSUME IsInjective(s)
      PROVE  IsInjective(p) /\ IsInjective(q) /\ ToSet(p) \cap ToSet(q) = {}
    <2>1. IsInjective(p)
        BY <1>0, <1>1, <1>4, <1>6, <1>9 DEF IsInjective
    <2>2. IsInjective(q)
        <3>1. ASSUME NEW x \in 1..(Len(s) - n), NEW y \in 1..(Len(s) - n), q[x] = q[y]
              PROVE  x = y
            <4>1. s[x + n] = s[y + n]
                BY <1>3, <3>1
            <4>2. x + n = y + n
                BY <1>0, <1>7, <1>9, <4>1 DEF IsInjective
            <4> QED BY <1>0, <4>2
        <3> QED BY <1>4, <3>1 DEF IsInjective
    <2>3. ASSUME NEW x \in 1..n, NEW y \in 1..(Len(s) - n), p[x] = q[y] PROVE FALSE
        <3>1. s[x] = s[y + n]
            BY <1>1, <1>3, <2>3
        <3> QED BY <1>0, <1>6, <1>7, <1>9, <3>1 DEF IsInjective
    <2>4. ToSet(p) \cap ToSet(q) = {}
        BY <1>4, <2>3 DEF ToSet
    <2> QED BY <2>1, <2>2, <2>4
<1> QED BY <1>8, <1>9

LEMMA FirstOnly ==
    ASSUME NEW s \in Seq(Msg), NEW n \in 0..Len(s), NEW p, IsFirst(p, s, n)
    PROVE  ToSet(p) \subseteq ToSet(s) /\ (IsInjective(s) => IsInjective(p))
<1>1. PICK q : IsRest(q, s, n)
    BY RestIs
<1>2. /\ ToSet(s) = ToSet(p) \cup ToSet(q)
      /\ IsInjective(s) => /\ IsInjective(p) /\ IsInjective(q)
                           /\ ToSet(p) \cap ToSet(q) = {}
    BY <1>1, SplitFacts
<1> QED BY <1>2

LEMMA FirstFacts ==
    ASSUME NEW s \in Seq(Msg), NEW n \in Int, n <= Len(s), NEW p, p = SubSeq(s, 1, n)
    PROVE  /\ p \in Seq(Msg) /\ Len(p) = IF n > 0 THEN n ELSE 0
           /\ ToSet(p) \subseteq ToSet(s)
           /\ IsInjective(s) => IsInjective(p)
<1>0. Len(s) \in Nat
    OBVIOUS
<1>1. CASE n <= 0
    <2>1. p = <<>>
        BY <1>1, SubSeqEmpty
    <2>2. /\ <<>> \in Seq(Msg) /\ Len(<<>>) = 0
          /\ ToSet(<<>>) = {} /\ IsInjective(<<>>)
        BY EmptyFacts
    <2>3. Len(p) = IF n > 0 THEN n ELSE 0
        BY <1>1, <2>1, <2>2
    <2> QED BY <2>1, <2>2, <2>3, Zenon
<1>2. CASE n > 0
    <2>1. n \in 0..Len(s)
        BY <1>0, <1>2
    <2>2. IsFirst(p, s, n)
        BY <2>1, FirstIs
    <2>4. ToSet(p) \subseteq ToSet(s) /\ (IsInjective(s) => IsInjective(p))
        BY <2>1, <2>2, FirstOnly
    <2>5. p \in Seq(Msg) /\ Len(p) = IF n > 0 THEN n ELSE 0
        BY <1>2, <2>2 DEF IsFirst
    <2> QED BY <2>4, <2>5
<1> QED BY <1>0, <1>1, <1>2

LEMMA JoinFacts ==
    ASSUME NEW s \in Seq(Msg), NEW t \in Seq(Msg)
    PROVE  /\ s \o t \in Seq(Msg) /\ Len(s \o t) = Len(s) + Len(t)
           /\ \A x \in 1..Len(s) : (s \o t)[x] = s[x]
           /\ ToSet(s \o t) = ToSet(s) \cup ToSet(t)
           /\ IsInjective(s) /\ IsInjective(t) /\ ToSet(s) \cap ToSet(t) = {} =>
                IsInjective(s \o t)
<1> DEFINE c == s \o t
<1>0. Len(s) \in Nat /\ Len(t) \in Nat /\ DOMAIN s = 1..Len(s) /\ DOMAIN t = 1..Len(t)
    OBVIOUS
<1>1. /\ c \in Seq(Msg) /\ Len(c) = Len(s) + Len(t)
      /\ \A x \in 1..Len(s) : c[x] = s[x]
      /\ \A x \in 1..Len(t) : c[x + Len(s)] = t[x]
    BY <1>0
<1> HIDE DEF c
<1>2. DOMAIN c = 1..(Len(s) + Len(t))
    BY <1>1
<1>3. \A x \in 1..(Len(s) + Len(t)) :
         x \in 1..Len(s) \/ (x - Len(s) \in 1..Len(t) /\ x = (x - Len(s)) + Len(s))
    BY <1>0
<1>4. \A x \in 1..Len(s) : x \in 1..(Len(s) + Len(t))
    BY <1>0
<1>5. \A x \in 1..Len(t) : x + Len(s) \in 1..(Len(s) + Len(t))
    BY <1>0
<1>6. ToSet(c) = ToSet(s) \cup ToSet(t)
    <2>1. \A m \in ToSet(c) : m \in ToSet(s) \/ m \in ToSet(t)
        <3> TAKE m \in ToSet(c)
        <3>1. PICK x \in 1..(Len(s) + Len(t)) : m = c[x]
            BY <1>2 DEF ToSet
        <3>2. CASE x \in 1..Len(s)
            BY <1>0, <1>1, <3>1, <3>2 DEF ToSet
        <3>3. CASE x - Len(s) \in 1..Len(t) /\ x = (x - Len(s)) + Len(s)
            <4>1. c[x] = t[x - Len(s)]
                BY <1>1, <3>3
            <4> QED BY <1>0, <3>1, <3>3, <4>1 DEF ToSet
        <3> QED BY <1>3, <3>2, <3>3
    <2>2. \A m \in ToSet(s) : m \in ToSet(c)
        BY <1>0, <1>1, <1>2, <1>4 DEF ToSet
    <2>3. \A m \in ToSet(t) : m \in ToSet(c)
        <3> TAKE m \in ToSet(t)
        <3>1. PICK x \in 1..Len(t) : m = t[x]
            BY <1>0 DEF ToSet
        <3>2. c[x + Len(s)] = m /\ x + Len(s) \in DOMAIN c
            BY <1>1, <1>2, <1>5, <3>1
        <3> QED BY <3>2 DEF ToSet
    <2> QED BY <2>1, <2>2, <2>3
<1>7. ASSUME IsInjective(s), IsInjective(t), ToSet(s) \cap ToSet(t) = {},
             NEW x \in 1..(Len(s) + Len(t)), NEW y \in 1..(Len(s) + Len(t)), c[x] = c[y]
      PROVE  x = y
    <2>0. \A u \in 1..Len(s), v \in 1..Len(t) : s[u] # t[v]
        BY <1>0, <1>7 DEF ToSet
    <2>1. CASE x \in 1..Len(s) /\ y \in 1..Len(s)
        BY <1>0, <1>1, <1>7, <2>1 DEF IsInjective
    <2>2. CASE x \in 1..Len(s) /\ y \notin 1..Len(s)
        <3>1. y - Len(s) \in 1..Len(t) /\ c[y] = t[y - Len(s)]
            BY <1>1, <1>3, <2>2
        <3> QED BY <1>1, <1>7, <2>0, <2>2, <3>1
    <2>3. CASE x \notin 1..Len(s) /\ y \in 1..Len(s)
        <3>1. x - Len(s) \in 1..Len(t) /\ c[x] = t[x - Len(s)]
            BY <1>1, <1>3, <2>3
        <3> QED BY <1>1, <1>7, <2>0, <2>3, <3>1
    <2>4. CASE x \notin 1..Len(s) /\ y \notin 1..Len(s)
        <3>1. x - Len(s) \in 1..Len(t) /\ c[x] = t[x - Len(s)]
            BY <1>1, <1>3, <2>4
        <3>2. y - Len(s) \in 1..Len(t) /\ c[y] = t[y - Len(s)]
            BY <1>1, <1>3, <2>4
        <3>3. x - Len(s) = y - Len(s)
            BY <1>0, <1>7, <3>1, <3>2 DEF IsInjective
        <3> QED BY <1>0, <3>3
    <2> QED BY <2>1, <2>2, <2>3, <2>4
<1>8. IsInjective(s) /\ IsInjective(t) /\ ToSet(s) \cap ToSet(t) = {} => IsInjective(c)
    BY <1>2, <1>7 DEF IsInjective
<1> QED BY <1>1, <1>6, <1>8 DEF c

LEMMA CountFacts ==
    ASSUME NEW s \in Seq(Msg), IsInjective(s)
    PROVE  IsFiniteSet(ToSet(s)) /\ Cardinality(ToSet(s)) = Len(s)
<1> DEFINE T == ToSet(s)
<1>0. Len(s) \in Nat /\ DOMAIN s = 1..Len(s)
    OBVIOUS
<1>1. s \in [1..Len(s) -> T]
    BY <1>0 DEF ToSet
<1>2. \A t \in T : \E i \in 1..Len(s) : s[i] = t
    BY <1>0 DEF ToSet
<1>3. s \in Bijection(1..Len(s), T)
    <2> HIDE DEF T
    <2> QED BY <1>0, <1>1, <1>2 DEF Bijection, Injection, Surjection, IsInjective
<1>4. IsFiniteSet(1..Len(s)) /\ Cardinality(1..Len(s)) = Len(s)
    BY <1>0, FS_Interval
<1> QED BY <1>3, <1>4, FS_Bijection DEF ExistsBijection

LEMMA WithoutCount ==
    ASSUME NEW s \in Seq(Msg), IsInjective(s), NEW S
    PROVE  /\ Cardinality(ToSet(s) \cap S) \in Nat
           /\ Len(Without(s, S)) = Len(s) - Cardinality(ToSet(s) \cap S)
<1>1. IsFiniteSet(ToSet(s)) /\ Cardinality(ToSet(s)) = Len(s)
    BY CountFacts
<1>2. /\ Without(s, S) \in Seq(Msg) /\ IsInjective(Without(s, S))
      /\ ToSet(Without(s, S)) = ToSet(s) \ S
    BY WithoutFacts
<1>3. Cardinality(ToSet(s) \ S) = Len(Without(s, S))
    BY <1>2, CountFacts
<1>4. Cardinality(ToSet(s) \ S) = Len(s) - Cardinality(ToSet(s) \cap S)
    BY <1>1, FS_Difference
<1>5. Cardinality(ToSet(s) \cap S) \in Nat
    <2>1. IsFiniteSet(ToSet(s) \cap S)
        BY <1>1, FS_Intersection
    <2> QED BY <2>1, FS_CardinalityType
<1> QED BY <1>3, <1>4, <1>5

-----------------------------------------------------------------------------
(* The inductive invariant.                                                *)

Outcomes == {"new", "queued", "run", "summary", "dropped", "omitted",
             "rejected", "canceled", "cleared", "replaced", "failed"}
Modes == {"followup", "collect"}
Policies == {"summarize", "old", "new"}
Kinds == {"priority", "summary", "item", "group"}

QueueState ==
    [items : Seq(Msg), inFlight : SUBSET Msg, sources : Seq(Msg),
     elided : Seq(Msg), evicted : Nat, dropped : Nat, active : SUBSET Msg,
     aborted : BOOLEAN, mode : Modes, policy : Policies]

DrainState ==
    [pc : {"off", "top", "debounce", "wait", "turn"}, kind : Kinds \cup {"none"},
     batch : Seq(Msg), elided : Nat, entry : BOOLEAN, inherited : SUBSET Msg,
     admitted : BOOLEAN]

Held(r) == ToSet(r.items) \cup ToSet(r.sources) \cup ToSet(r.elided)

(* The lists of a queue share no message, and its counter counts them. *)
Listed(r) ==
    /\ IsInjective(r.items) /\ IsInjective(r.sources) /\ IsInjective(r.elided)
    /\ ToSet(r.items) \cap ToSet(r.sources) = {}
    /\ ToSet(r.items) \cap ToSet(r.elided) = {}
    /\ ToSet(r.sources) \cap ToSet(r.elided) = {}
    /\ Len(r.sources) <= Cap
    /\ r.dropped = Len(r.sources) + Len(r.elided) + r.evicted

Delivering(d) == d.pc \in {"wait", "turn"}

(* A coroutine has a batch exactly while it delivers one. *)
DrainFits(r, d) ==
    /\ ~Delivering(d) => d.batch = <<>>
    /\ Delivering(d) => d.batch # <<>> /\ d.kind \in Kinds
    /\ d.admitted => d.pc = "turn"
    /\ r.inFlight \subseteq ToSet(d.batch)
    /\ d.kind \notin {"item", "group"} => r.inFlight = {}

(* What a registered queue's coroutine delivers is still in its lists,     *)
(* protected there from overflow, until it is taken out.                   *)
BatchStays(r, d) ==
    /\ d.kind \in {"item", "group"} =>
          ToSet(d.batch) \subseteq ToSet(r.items) /\ r.inFlight = ToSet(d.batch)
    /\ d.kind = "priority" => ToSet(d.batch) \subseteq ToSet(r.items) \cap Retry
    /\ d.kind = "summary" =>
          /\ ToSet(d.batch) \subseteq ToSet(r.sources) \cup ToSet(r.elided)
          /\ ToSet(d.batch) \subseteq r.active
          /\ d.entry <=> d.elided > 0
          /\ d.elided <= Len(d.batch) /\ d.elided <= Len(r.elided)
          /\ \A n \in 1..d.elided : d.batch[n] = r.elided[n]

Fresh(r, d) == ~r.aborted /\ (Delivering(d) /\ ~d.admitted => BatchStays(r, d))

(* A queue that is not registered is unused, or left to its coroutine. *)
Stale(r, d) ==
    /\ d.pc = "off" => r = NewQueue
    /\ d.pc # "off" => r.aborted
    /\ r.items = <<>> /\ r.sources = <<>> /\ r.elided = <<>> /\ r.dropped = 0

FollowTypes ==
    /\ live \in 0..MaxQueues /\ lane \in {"free", "turn", "drain"}
    /\ owed \in BOOLEAN /\ out \in [Msg -> Outcomes] /\ turns \in [Msg -> Nat]
    /\ canceled \subseteq Cancelable
    /\ queue \in [Queues -> QueueState] /\ drain \in [Queues -> DrainState]

QueuesFit ==
    \A i \in Queues :
        /\ Listed(queue[i]) /\ DrainFits(queue[i], drain[i])
        /\ i = live => Fresh(queue[i], drain[i])
        /\ i # live => Stale(queue[i], drain[i])

LaneFits ==
    /\ \A i \in Queues : drain[i].pc = "turn" => lane = "drain"
    /\ lane = "drain" => \E i \in Queues : drain[i].pc = "turn"
    /\ \A i, j \in Queues : drain[i].pc = "turn" /\ drain[j].pc = "turn" => i = j

HeldNow == IF live = 0 THEN {} ELSE Held(queue[live])

Accounted ==
    /\ \A m \in Msg : out[m] = "queued" => m \in HeldNow \cup Taken
    /\ \A m \in HeldNow : out[m] = "queued"
    /\ HeldNow \cap Taken = {}

(* What an unregistered queue's coroutine delivers was settled by the      *)
(* clear, unless the turn had taken it.                                    *)
BatchesKnown ==
    \A i \in Queues : \A m \in Batch(i) :
        /\ drain[i].admitted => out[m] # "new"
        /\ i # live /\ ~drain[i].admitted => out[m] \notin {"new", "queued"}

FollowInv ==
    FollowTypes /\ QueuesFit /\ LaneFits /\ Accounted /\ BatchesKnown

(* Who has had a turn is not waiting for one. *)
TurnsFit ==
    /\ \A m \in Msg : out[m] = "new" \/ m \in HeldNow => turns[m] = 0
    /\ \A i \in Queues : ~drain[i].admitted => \A m \in Batch(i) : turns[m] = 0
    /\ \A i \in Queues : drain[i].pc = "turn" => Batch(i) \cap canceled = {}
    /\ \A i, j \in Queues : i # j => Batch(i) \cap Batch(j) = {}

-----------------------------------------------------------------------------
(* What the operations on a queue's lists do.                              *)

Good(r) == r \in QueueState /\ Listed(r)

(* q is r after something left it; the settings may have changed. *)
Shrinks(r, q) ==
    /\ q.aborted = r.aborted /\ Held(q) \subseteq Held(r) /\ q.dropped <= r.dropped

LEMMA CapFacts == Cap \in Nat /\ Cap > 0 /\ MaxQueues \in Nat /\ Retry \subseteq Msg
BY FollowupConstants

LEMMA ListTypes ==
    ASSUME NEW r, Good(r)
    PROVE  /\ r.items \in Seq(Msg) /\ r.sources \in Seq(Msg) /\ r.elided \in Seq(Msg)
           /\ Len(r.items) \in Nat /\ Len(r.sources) \in Nat /\ Len(r.elided) \in Nat
           /\ r.evicted \in Nat /\ r.dropped \in Nat
           /\ Held(r) \subseteq Msg
<1>1. /\ r.items \in Seq(Msg) /\ r.sources \in Seq(Msg) /\ r.elided \in Seq(Msg)
      /\ r.evicted \in Nat /\ r.dropped \in Nat
    BY DEF Good, QueueState
<1> QED BY <1>1, EmptyFacts DEF Held

LEMMA NewQueueFacts ==
    /\ Good(NewQueue) /\ ~NewQueue.aborted /\ NewQueue.inFlight = {}
    /\ NewQueue.items = <<>> /\ NewQueue.sources = <<>> /\ NewQueue.elided = <<>>
    /\ NewQueue.dropped = 0 /\ Held(NewQueue) = {}
<1>1. NewQueue \in QueueState
    BY DEF NewQueue, QueueState, Modes, Policies
<1>2. /\ NewQueue.items = <<>> /\ NewQueue.sources = <<>> /\ NewQueue.elided = <<>>
      /\ NewQueue.dropped = 0 /\ NewQueue.evicted = 0 /\ ~NewQueue.aborted
      /\ NewQueue.inFlight = {}
    BY DEF NewQueue
<1>3. Held(NewQueue) = {}
    BY <1>2, EmptyFacts DEF Held
<1>4. Listed(NewQueue)
    BY <1>2, EmptyFacts, CapFacts DEF Listed
<1> QED BY <1>1, <1>2, <1>3, <1>4 DEF Good

(* An empty queue stays empty. *)
LEMMA EmptyShrinks ==
    ASSUME NEW r, Good(r), NEW q, Good(q), Shrinks(r, q),
           Held(r) = {}, r.dropped = 0
    PROVE  /\ q.items = <<>> /\ q.sources = <<>> /\ q.elided = <<>>
           /\ q.dropped = 0 /\ Held(q) = {}
<1>1. Held(q) = {} /\ q.dropped = 0
    BY ListTypes DEF Shrinks
<1>2. ToSet(q.items) = {} /\ ToSet(q.sources) = {} /\ ToSet(q.elided) = {}
    BY <1>1 DEF Held
<1> QED BY <1>1, <1>2, ListTypes, EmptyFacts

(* A queue without work has nothing in its lists. *)
LEMMA NoWorkIsEmpty ==
    ASSUME NEW r, Good(r), ~HasWork(r)
    PROVE  Held(r) = {} /\ r.items = <<>> /\ r.dropped = 0
<1>1. r.items = <<>> /\ r.dropped = 0
    BY ListTypes DEF HasWork
<1>2. Len(r.sources) = 0 /\ Len(r.elided) = 0
    <2> DEFINE a == Len(r.sources)
               b == Len(r.elided)
               c == r.evicted
               n == r.dropped
    <2>1. n = a + b + c
        BY DEF Good, Listed
    <2>2. a \in Nat /\ b \in Nat /\ c \in Nat /\ n = 0
        BY <1>1, ListTypes
    <2> HIDE DEF a, b, c, n
    <2>3. a = 0 /\ b = 0
        BY <2>1, <2>2
    <2> QED BY <2>3 DEF a, b
<1>3. r.sources = <<>> /\ r.elided = <<>>
    BY <1>2, ListTypes, EmptyFacts
<1> QED BY <1>1, <1>3, EmptyFacts DEF Held

(* What an operation leaves alone. *)
Kin(r, q) ==
    q.inFlight = r.inFlight /\ q.active = r.active /\ q.aborted = r.aborted

LEMMA EvictedFacts ==
    ASSUME NEW r, Good(r)
    PROVE  /\ Evicted(r) \subseteq ToSet(r.elided) /\ Evicted(r) \cap r.active = {}
           /\ Evicted(r) \subseteq Msg
<1> DEFINE idle == Without(r.elided, r.active)
           n == Len(idle) - Cap
           p == SubSeq(idle, 1, n)
<1>1. idle \in Seq(Msg) /\ ToSet(idle) = ToSet(r.elided) \ r.active
    BY ListTypes, WithoutFacts
<1>2. Evicted(r) = ToSet(p)
    BY DEF Evicted
<1>3. n \in Int /\ n <= Len(idle)
    <2> HIDE DEF idle
    <2> QED BY <1>1, EmptyFacts, CapFacts
<1> HIDE DEF idle, n
<1>4. ToSet(p) \subseteq ToSet(idle)
    BY <1>1, <1>3, FirstFacts
<1> QED BY <1>1, <1>2, <1>4, EmptyFacts, ListTypes

LEMMA TrimmedFacts ==
    ASSUME NEW r, Good(r), NEW t, t = Trimmed(r)
    PROVE  /\ Good(t) /\ Kin(r, t) /\ Shrinks(r, t)
           /\ t.items = r.items /\ t.sources = r.sources
           /\ t.elided = Without(r.elided, Evicted(r))
           /\ Held(t) = Held(r) \ Evicted(r)
<1> DEFINE gone == Evicted(r)
           e == Without(r.elided, gone)
           c == Cardinality(gone)
<1>1. gone \subseteq ToSet(r.elided)
    BY EvictedFacts
<1>2. /\ r.elided \in Seq(Msg) /\ IsInjective(r.elided)
      /\ r.evicted \in Nat /\ r.dropped \in Nat /\ r \in QueueState
      /\ Len(r.elided) \in Nat /\ Len(r.sources) \in Nat
    BY ListTypes DEF Good, Listed
<1> HIDE DEF gone
<1>3. e \in Seq(Msg) /\ ToSet(e) = ToSet(r.elided) \ gone /\ IsInjective(e)
    BY <1>2, WithoutFacts
<1>4. c \in Nat /\ Len(e) = Len(r.elided) - c
    <2>1. ToSet(r.elided) \cap gone = gone
        BY <1>1
    <2> QED BY <1>2, <2>1, WithoutCount
<1>5. t = [r EXCEPT !.elided = e, !.evicted = @ + c]
    BY DEF Trimmed, gone
<1> HIDE DEF e, c
<1>6. t \in QueueState
    <2>1. r.evicted + c \in Nat
        BY <1>2, <1>4
    <2> QED BY <1>2, <1>3, <1>5, <2>1 DEF QueueState
<1>7. /\ t.items = r.items /\ t.sources = r.sources /\ t.elided = e
      /\ t.evicted = r.evicted + c /\ t.dropped = r.dropped
      /\ t.inFlight = r.inFlight /\ t.active = r.active /\ t.aborted = r.aborted
    BY <1>2, <1>5 DEF QueueState
<1>8. Listed(t)
    <2>1. /\ IsInjective(t.items) /\ IsInjective(t.sources) /\ IsInjective(t.elided)
          /\ ToSet(t.items) \cap ToSet(t.sources) = {}
          /\ Len(t.sources) <= Cap
        BY <1>3, <1>7 DEF Good, Listed
    <2>2. ToSet(t.items) \cap ToSet(t.elided) = {} /\ ToSet(t.sources) \cap ToSet(t.elided) = {}
        BY <1>3, <1>7 DEF Good, Listed
    <2>3. t.dropped = Len(t.sources) + Len(t.elided) + t.evicted
        <3> DEFINE a == Len(r.sources)
                   b == Len(r.elided)
                   v == r.evicted
                   l == Len(e)
        <3>1. /\ r.dropped = a + b + v
              /\ a \in Nat /\ b \in Nat /\ v \in Nat /\ c \in Nat /\ l = b - c
            BY <1>2, <1>4 DEF Good, Listed
        <3>2. t.dropped = r.dropped /\ Len(t.sources) = a /\ Len(t.elided) = l
              /\ t.evicted = v + c
            BY <1>7
        <3> HIDE DEF a, b, v, l
        <3> QED BY <3>1, <3>2
    <2> QED BY <2>1, <2>2, <2>3 DEF Listed
<1>9. Held(t) = Held(r) \ gone
    <2>1. ToSet(r.items) \cap gone = {} /\ ToSet(r.sources) \cap gone = {}
        BY <1>1 DEF Good, Listed
    <2> QED BY <1>3, <1>7, <2>1 DEF Held
<1>10. Shrinks(r, t)
    BY <1>2, <1>7, <1>9 DEF Shrinks
<1> QED BY <1>6, <1>7, <1>8, <1>9, <1>10 DEF Good, Kin, e, gone

-----------------------------------------------------------------------------
(* What leaves the lists, and what the overflow does to them.              *)

QueueShape ==
    [items : Seq(Msg), inFlight : SUBSET Msg, sources : Seq(Msg),
     elided : Seq(Msg), evicted : Nat, dropped : Int, active : SUBSET Msg,
     aborted : BOOLEAN, mode : Modes, policy : Policies]

(* q is r without a in its items, b in its sources and c in its elided     *)
(* sources, which the counter follows.                                     *)
Pruned(r, q, a, b, c) ==
    /\ q \in QueueShape /\ Kin(r, q) /\ q.evicted = r.evicted
    /\ q.items = Without(r.items, a)
    /\ q.sources = Without(r.sources, b)
    /\ q.elided = Without(r.elided, c)
    /\ q.dropped = r.dropped - (Cardinality(ToSet(r.sources) \cap b)
                                + Cardinality(ToSet(r.elided) \cap c))

LEMMA ShapeIsState ==
    ASSUME NEW q \in QueueShape, q.dropped \in Nat
    PROVE  q \in QueueState
BY DEF QueueShape, QueueState

LEMMA StateIsShape ==
    ASSUME NEW q \in QueueState
    PROVE  q \in QueueShape
<1>1. q.dropped \in Int
    BY DEF QueueState
<1> QED BY <1>1 DEF QueueShape, QueueState

LEMMA PrunedFacts ==
    ASSUME NEW r, Good(r), NEW q, NEW a, NEW b, NEW c, Pruned(r, q, a, b, c)
    PROVE  /\ Good(q) /\ Kin(r, q) /\ Shrinks(r, q)
           /\ ToSet(q.items) = ToSet(r.items) \ a
           /\ ToSet(q.sources) = ToSet(r.sources) \ b
           /\ ToSet(q.elided) = ToSet(r.elided) \ c
<1> DEFINE u == Cardinality(ToSet(r.sources) \cap b)
           v == Cardinality(ToSet(r.elided) \cap c)
           w == r.evicted
           x == Len(r.sources)
           y == Len(r.elided)
<1>1. /\ r.items \in Seq(Msg) /\ r.sources \in Seq(Msg) /\ r.elided \in Seq(Msg)
      /\ IsInjective(r.items) /\ IsInjective(r.sources) /\ IsInjective(r.elided)
      /\ w \in Nat /\ x \in Nat /\ y \in Nat
    BY ListTypes DEF Good, Listed
<1>2. /\ ToSet(q.items) = ToSet(r.items) \ a /\ IsInjective(q.items)
      /\ ToSet(q.sources) = ToSet(r.sources) \ b /\ IsInjective(q.sources)
      /\ ToSet(q.elided) = ToSet(r.elided) \ c /\ IsInjective(q.elided)
      /\ Len(q.sources) <= x /\ Len(q.sources) \in Nat /\ Len(q.elided) \in Nat
    <2>1. /\ q.items = Without(r.items, a) /\ q.sources = Without(r.sources, b)
          /\ q.elided = Without(r.elided, c)
        BY DEF Pruned
    <2>2. ToSet(q.items) = ToSet(r.items) \ a /\ IsInjective(q.items)
        BY <1>1, <2>1, WithoutFacts
    <2>3. /\ ToSet(q.sources) = ToSet(r.sources) \ b /\ IsInjective(q.sources)
          /\ q.sources \in Seq(Msg) /\ Len(q.sources) <= x
        BY <1>1, <2>1, WithoutFacts
    <2>4. /\ ToSet(q.elided) = ToSet(r.elided) \ c /\ IsInjective(q.elided)
          /\ q.elided \in Seq(Msg)
        BY <1>1, <2>1, WithoutFacts
    <2> QED BY <2>2, <2>3, <2>4, EmptyFacts
<1>3. u \in Nat /\ Len(q.sources) = x - u /\ v \in Nat /\ Len(q.elided) = y - v
    BY <1>1, WithoutCount DEF Pruned
<1>4. r.dropped = x + y + w /\ x <= Cap /\ Cap \in Nat
    BY CapFacts DEF Good, Listed
<1>5. q.dropped = r.dropped - (u + v) /\ q.evicted = w
    BY DEF Pruned
<1> DEFINE k == Len(q.sources)
           l == Len(q.elided)
<1>6. /\ q.dropped \in Nat /\ q.dropped <= r.dropped
      /\ q.dropped = k + l + q.evicted
      /\ k <= Cap
    <2>1. /\ k \in Nat /\ l \in Nat /\ k = x - u /\ l = y - v /\ k <= x
          /\ u \in Nat /\ v \in Nat /\ w \in Nat /\ x \in Nat /\ y \in Nat
        BY <1>1, <1>2, <1>3
    <2> HIDE DEF k, l, u, v, w, x, y
    <2> QED BY <2>1, <1>4, <1>5
<1>7. Listed(q)
    <2>1. /\ ToSet(r.items) \cap ToSet(r.sources) = {}
          /\ ToSet(r.items) \cap ToSet(r.elided) = {}
          /\ ToSet(r.sources) \cap ToSet(r.elided) = {}
        BY DEF Good, Listed
    <2>2. /\ ToSet(q.items) \cap ToSet(q.sources) = {}
          /\ ToSet(q.items) \cap ToSet(q.elided) = {}
          /\ ToSet(q.sources) \cap ToSet(q.elided) = {}
        BY <1>2, <2>1
    <2> QED BY <1>2, <1>6, <2>2 DEF Listed
<1>8. q \in QueueState
    BY <1>6, ShapeIsState DEF Pruned
<1>9. Held(q) \subseteq Held(r)
    BY <1>2 DEF Held
<1>10. Kin(r, q)
    BY DEF Pruned
<1>11. Shrinks(r, q)
    BY <1>6, <1>9, <1>10 DEF Shrinks, Kin
<1> QED BY <1>2, <1>7, <1>8, <1>10, <1>11 DEF Good

(* Nothing but items leaves. *)
LEMMA ItemsPruned ==
    ASSUME NEW r, Good(r), NEW S
    PROVE  Pruned(r, [r EXCEPT !.items = Without(@, S)], S, {}, {})
<1> DEFINE w == Without(r.items, S)
           q == [r EXCEPT !.items = w]
<1>1. /\ r.items \in Seq(Msg) /\ r.sources \in Seq(Msg) /\ r.elided \in Seq(Msg)
      /\ r.dropped \in Nat /\ r \in QueueState
    BY ListTypes DEF Good
<1>2. w \in Seq(Msg)
    BY <1>1, WithoutFacts
<1>3. Without(r.sources, {}) = r.sources /\ Without(r.elided, {}) = r.elided
    BY <1>1, WithoutNothing
<1>4. Cardinality(ToSet(r.sources) \cap {}) = 0 /\ Cardinality(ToSet(r.elided) \cap {}) = 0
    <2>1. \A T : T \cap {} = {}
        OBVIOUS
    <2> QED BY <2>1, FS_EmptySet
<1> HIDE DEF w
<1>5. q \in QueueShape
    <2>1. r \in QueueShape
        BY <1>1, StateIsShape
    <2> QED BY <1>2, <2>1 DEF QueueShape
<1>6. /\ q.items = w /\ q.sources = r.sources /\ q.elided = r.elided
      /\ q.evicted = r.evicted /\ q.dropped = r.dropped
      /\ q.inFlight = r.inFlight /\ q.active = r.active /\ q.aborted = r.aborted
    BY <1>1 DEF QueueState
<1> HIDE DEF q
<1>7. Pruned(r, q, S, {}, {})
    BY <1>1, <1>3, <1>4, <1>5, <1>6 DEF Pruned, Kin, w
<1> QED BY <1>7 DEF q, w

(* Sources leave the summary. *)
LEMMA ConsumedPruned ==
    ASSUME NEW r, Good(r), NEW S
    PROVE  Pruned(r, Consumed(r, S), {}, S, S)
<1> DEFINE s == Without(r.sources, S)
           e == Without(r.elided, S)
           here == S \cap ToSet(r.sources \o r.elided)
           n == Cardinality(here)
           q == [r EXCEPT !.sources = s, !.elided = e, !.dropped = @ - n]
           b == ToSet(r.sources) \cap S
           c == ToSet(r.elided) \cap S
<1>1. /\ r.items \in Seq(Msg) /\ r.sources \in Seq(Msg) /\ r.elided \in Seq(Msg)
      /\ r.dropped \in Nat /\ r \in QueueState
      /\ IsInjective(r.sources) /\ IsInjective(r.elided)
      /\ ToSet(r.sources) \cap ToSet(r.elided) = {}
    BY ListTypes DEF Good, Listed
<1>2. s \in Seq(Msg) /\ e \in Seq(Msg) /\ Without(r.items, {}) = r.items
    BY <1>1, WithoutFacts, WithoutNothing
<1>3. n \in Nat /\ n = Cardinality(b) + Cardinality(c)
    <2>1. IsFiniteSet(ToSet(r.sources)) /\ IsFiniteSet(ToSet(r.elided))
        BY <1>1, CountFacts
    <2>2. IsFiniteSet(b) /\ IsFiniteSet(c)
        <3>1. b \subseteq ToSet(r.sources) /\ c \subseteq ToSet(r.elided)
            OBVIOUS
        <3> QED BY <2>1, <3>1, FS_Subset
    <2>3. here = b \cup c /\ b \cap c = {}
        BY <1>1, JoinFacts
    <2> HIDE DEF b, c, here
    <2>4. /\ Cardinality(b) \in Nat /\ Cardinality(c) \in Nat
          /\ Cardinality(b \cup c) = Cardinality(b) + Cardinality(c) - Cardinality(b \cap c)
        BY <2>2, FS_Union, FS_CardinalityType
    <2>5. Cardinality(here) = Cardinality(b) + Cardinality(c) - 0
        BY <2>3, <2>4, FS_EmptySet
    <2> DEFINE x == Cardinality(b)
               y == Cardinality(c)
               z == Cardinality(here)
    <2> SUFFICES z \in Nat /\ z = x + y
        OBVIOUS
    <2>6. x \in Nat /\ y \in Nat /\ z = x + y - 0
        BY <2>4, <2>5
    <2> HIDE DEF x, y, z
    <2> QED BY <2>6
<1> HIDE DEF s, e, n
<1>5. q \in QueueShape
    <2>1. r \in QueueShape /\ r.dropped - n \in Int
        BY <1>1, <1>3, StateIsShape
    <2> QED BY <1>2, <2>1 DEF QueueShape
<1>6. /\ q.items = r.items /\ q.sources = s /\ q.elided = e
      /\ q.evicted = r.evicted /\ q.dropped = r.dropped - n
      /\ q.inFlight = r.inFlight /\ q.active = r.active /\ q.aborted = r.aborted
    BY <1>1 DEF QueueState
<1>7. q = Consumed(r, S)
    BY DEF Consumed, s, e, n
<1> HIDE DEF q
<1>8. Pruned(r, q, {}, S, S)
    BY <1>2, <1>3, <1>5, <1>6 DEF Pruned, Kin, s, e
<1> QED BY <1>7, <1>8

(* q is r after some messages left its lists, each the list it was in. *)
Within(r, q) ==
    /\ Kin(r, q) /\ q.dropped <= r.dropped
    /\ ToSet(q.items) \subseteq ToSet(r.items)
    /\ ToSet(q.sources) \subseteq ToSet(r.sources)
    /\ ToSet(q.elided) \subseteq ToSet(r.elided)

LEMMA PrunedWithin ==
    ASSUME NEW r, Good(r), NEW q, NEW a, NEW b, NEW c, Pruned(r, q, a, b, c)
    PROVE  Good(q) /\ Within(r, q)
BY PrunedFacts DEF Within, Shrinks

LEMMA WithinTwice ==
    ASSUME NEW r, Good(r), NEW q, Good(q), NEW t, Good(t), Within(r, q), Within(q, t)
    PROVE  Within(r, t)
<1>1. t.dropped <= r.dropped
    <2>1. t.dropped \in Nat /\ q.dropped \in Nat /\ r.dropped \in Nat
        BY ListTypes
    <2> QED BY <2>1 DEF Within
<1> QED BY <1>1 DEF Within, Kin

LEMMA WithinItself ==
    ASSUME NEW r, Good(r)
    PROVE  Within(r, r)
<1>1. r.dropped <= r.dropped
    BY ListTypes
<1> QED BY <1>1 DEF Within, Kin

LEMMA WithinShrinks ==
    ASSUME NEW r, Good(r), NEW q, Good(q), Within(r, q)
    PROVE  Shrinks(r, q)
BY DEF Within, Shrinks, Kin, Held

(* The same with the elided sources, and with the retained ones. *)
LEMMA SourcesPruned ==
    ASSUME NEW r, Good(r), NEW S
    PROVE  LET gone == ToSet(r.sources) \cap S
           IN  Pruned(r, [r EXCEPT !.sources = Without(@, gone),
                                   !.dropped = @ - Cardinality(gone)], {}, gone, {})
<1> DEFINE gone == ToSet(r.sources) \cap S
           w == Without(r.sources, gone)
           n == Cardinality(gone)
           q == [r EXCEPT !.sources = w, !.dropped = @ - n]
<1>1. /\ r.items \in Seq(Msg) /\ r.sources \in Seq(Msg) /\ r.elided \in Seq(Msg)
      /\ r.dropped \in Nat /\ r \in QueueState /\ IsInjective(r.sources)
    BY ListTypes DEF Good, Listed
<1>2. w \in Seq(Msg)
    BY <1>1, WithoutFacts
<1>3. Without(r.items, {}) = r.items /\ Without(r.elided, {}) = r.elided
    BY <1>1, WithoutNothing
<1>4. Cardinality(ToSet(r.elided) \cap {}) = 0
    <2>1. \A T : T \cap {} = {}
        OBVIOUS
    <2> QED BY <2>1, FS_EmptySet
<1>5. n \in Nat /\ ToSet(r.sources) \cap gone = gone
    <2>1. ToSet(r.sources) \cap gone = gone
        OBVIOUS
    <2> QED BY <1>1, <2>1, WithoutCount
<1> HIDE DEF w, gone, n
<1>6. q \in QueueShape
    <2>1. r \in QueueShape /\ r.dropped - n \in Int
        BY <1>1, <1>5, StateIsShape
    <2> QED BY <1>2, <2>1 DEF QueueShape
<1>7. /\ q.items = r.items /\ q.sources = w /\ q.elided = r.elided
      /\ q.evicted = r.evicted /\ q.dropped = r.dropped - n
      /\ q.inFlight = r.inFlight /\ q.active = r.active /\ q.aborted = r.aborted
    BY <1>1 DEF QueueState
<1>8. q.dropped = r.dropped - (Cardinality(gone) + 0)
    <2>1. n = n + 0
        BY <1>5
    <2> QED BY <1>7, <2>1 DEF n
<1> HIDE DEF q
<1>9. Pruned(r, q, {}, gone, {})
    BY <1>3, <1>4, <1>5, <1>6, <1>7, <1>8 DEF Pruned, Kin, w
<1> QED BY <1>9 DEF q, w, gone, n

LEMMA ElidedPruned ==
    ASSUME NEW r, Good(r), NEW S
    PROVE  LET gone == ToSet(r.elided) \cap S
           IN  Pruned(r, [r EXCEPT !.elided = Without(@, gone),
                                   !.dropped = @ - Cardinality(gone)], {}, {}, gone)
<1> DEFINE gone == ToSet(r.elided) \cap S
           w == Without(r.elided, gone)
           n == Cardinality(gone)
           q == [r EXCEPT !.elided = w, !.dropped = @ - n]
<1>1. /\ r.items \in Seq(Msg) /\ r.sources \in Seq(Msg) /\ r.elided \in Seq(Msg)
      /\ r.dropped \in Nat /\ r \in QueueState /\ IsInjective(r.elided)
    BY ListTypes DEF Good, Listed
<1>2. w \in Seq(Msg)
    BY <1>1, WithoutFacts
<1>3. Without(r.items, {}) = r.items /\ Without(r.sources, {}) = r.sources
    BY <1>1, WithoutNothing
<1>4. Cardinality(ToSet(r.sources) \cap {}) = 0
    <2>1. \A T : T \cap {} = {}
        OBVIOUS
    <2> QED BY <2>1, FS_EmptySet
<1>5. n \in Nat /\ ToSet(r.elided) \cap gone = gone
    <2>1. ToSet(r.elided) \cap gone = gone
        OBVIOUS
    <2> QED BY <1>1, <2>1, WithoutCount
<1> HIDE DEF w, gone, n
<1>6. q \in QueueShape
    <2>1. r \in QueueShape /\ r.dropped - n \in Int
        BY <1>1, <1>5, StateIsShape
    <2> QED BY <1>2, <2>1 DEF QueueShape
<1>7. /\ q.items = r.items /\ q.elided = w /\ q.sources = r.sources
      /\ q.evicted = r.evicted /\ q.dropped = r.dropped - n
      /\ q.inFlight = r.inFlight /\ q.active = r.active /\ q.aborted = r.aborted
    BY <1>1 DEF QueueState
<1>8. q.dropped = r.dropped - (0 + Cardinality(gone))
    <2>1. n = 0 + n
        BY <1>5
    <2> QED BY <1>7, <2>1 DEF n
<1> HIDE DEF q
<1>9. Pruned(r, q, {}, {}, gone)
    BY <1>3, <1>4, <1>5, <1>6, <1>7, <1>8 DEF Pruned, Kin, w
<1> QED BY <1>9 DEF q, w, gone, n

(* What the loop head and the choice leave of a queue. *)
LEMMA KeptFacts ==
    ASSUME NEW i, Good(queue[i])
    PROVE  /\ Good(Kept(i)) /\ Within(queue[i], Kept(i))
           /\ Held(Kept(i)) = Held(queue[i]) \ (ToSet(queue[i].items) \cap canceled)
<1>1. Pruned(queue[i], Kept(i), canceled, {}, {})
    BY ItemsPruned DEF Kept
<1>2. Good(Kept(i)) /\ Within(queue[i], Kept(i))
    BY <1>1, PrunedWithin
<1>3. /\ ToSet(Kept(i).items) = ToSet(queue[i].items) \ canceled
      /\ Kept(i).sources = queue[i].sources /\ Kept(i).elided = queue[i].elided
    <2>1. Kept(i).items = Without(queue[i].items, canceled)
        BY <1>1 DEF Pruned
    <2>2. Kept(i).sources = queue[i].sources /\ Kept(i).elided = queue[i].elided
        BY DEF Kept, Good, QueueState
    <2> QED BY <2>1, <2>2, ListTypes, WithoutFacts
<1>4. /\ ToSet(queue[i].items) \cap ToSet(queue[i].sources) = {}
      /\ ToSet(queue[i].items) \cap ToSet(queue[i].elided) = {}
    BY DEF Good, Listed
<1> QED BY <1>2, <1>3, <1>4 DEF Held

LEMMA KeptSourcesFacts ==
    ASSUME NEW i, Good(queue[i])
    PROVE  /\ Good(KeptSources(i)) /\ Within(queue[i], KeptSources(i))
           /\ KeptSources(i).evicted = queue[i].evicted
<1>1. Good(Kept(i)) /\ Within(queue[i], Kept(i))
    BY KeptFacts
<1>2. Kept(i).sources = queue[i].sources /\ Kept(i).evicted = queue[i].evicted
    BY DEF Kept, Good, QueueState
<1>3. Pruned(Kept(i), KeptSources(i), {}, ToSet(Kept(i).sources) \cap canceled, {})
    BY <1>1, <1>2, SourcesPruned DEF KeptSources
<1>4. Good(KeptSources(i)) /\ Within(Kept(i), KeptSources(i))
    BY <1>1, <1>3, PrunedWithin
<1>5. KeptSources(i).evicted = queue[i].evicted
    BY <1>2, <1>3 DEF Pruned
<1> QED BY <1>1, <1>4, <1>5, WithinTwice

LEMMA KeptSummaryFacts ==
    ASSUME NEW i, Good(queue[i])
    PROVE  Good(KeptSummary(i)) /\ Within(queue[i], KeptSummary(i))
<1>1. Good(KeptSources(i)) /\ Within(queue[i], KeptSources(i))
    BY KeptSourcesFacts
<1>2. KeptSources(i).elided = queue[i].elided
    BY DEF KeptSources, Kept, Good, QueueState
<1>3. Pruned(KeptSources(i), KeptSummary(i), {}, {}, ToSet(KeptSources(i).elided) \cap canceled)
    BY <1>1, <1>2, ElidedPruned DEF KeptSummary
<1>4. Good(KeptSummary(i)) /\ Within(KeptSources(i), KeptSummary(i))
    BY <1>1, <1>3, PrunedWithin
<1> QED BY <1>1, <1>4, WithinTwice

(* The given-up sources leave the counter. *)
LEMMA OmitsFacts ==
    ASSUME NEW r, Good(r), NEW n, n = r.evicted
    PROVE  LET q == [r EXCEPT !.dropped = @ - n, !.evicted = 0]
           IN  Good(q) /\ Within(r, q)
<1> DEFINE q == [r EXCEPT !.dropped = @ - n, !.evicted = 0]
           a == Len(r.sources)
           b == Len(r.elided)
           k == r.dropped
<1>1. a \in Nat /\ b \in Nat /\ n \in Nat /\ k = a + b + n /\ r \in QueueState
    <2>1. Good(r) /\ n = r.evicted
        OBVIOUS
    <2> QED BY <2>1, ListTypes DEF Good, Listed
<1>2. k - n \in Nat /\ k - n = a + b + 0 /\ k - n <= k
    <2> HIDE DEF a, b, k
    <2> QED BY <1>1
<1>3. /\ q.items = r.items /\ q.sources = r.sources /\ q.elided = r.elided
      /\ q.evicted = 0 /\ q.dropped = k - n
      /\ q.inFlight = r.inFlight /\ q.active = r.active /\ q.aborted = r.aborted
    BY <1>1 DEF QueueState
<1>4. q \in QueueState
    BY <1>1, <1>2 DEF QueueState
<1> HIDE DEF q
<1>5. Listed(q)
    BY <1>2, <1>3 DEF Good, Listed
<1>6. Within(r, q)
    BY <1>2, <1>3 DEF Within, Kin
<1> QED BY <1>4, <1>5, <1>6 DEF Good, q

-----------------------------------------------------------------------------
(* The overflow and the arrival of a message leave a running turn what it  *)
(* presents: in q is still what was locked in r.                           *)
Protects(r, q) ==
    /\ Kin(r, q)
    /\ ToSet(r.items) \cap (r.inFlight \cup Retry) \subseteq ToSet(q.items)
    /\ (ToSet(r.sources) \cup ToSet(r.elided)) \cap r.active
          \subseteq ToSet(q.sources) \cup ToSet(q.elided)
    /\ \A k \in 0..Len(r.elided) :
          (\A n \in 1..k : r.elided[n] \in r.active) =>
              k <= Len(q.elided) /\ \A n \in 1..k : q.elided[n] = r.elided[n]

LEMMA ProtectsTwice ==
    ASSUME NEW r, Good(r), NEW q, Good(q), NEW t, Good(t), Protects(r, q), Protects(q, t)
    PROVE  Protects(r, t)
<1>1. Kin(r, t)
    BY DEF Protects, Kin
<1>2. r.inFlight = q.inFlight /\ r.active = q.active
    BY DEF Protects, Kin
<1>3. ToSet(r.items) \cap (r.inFlight \cup Retry) \subseteq ToSet(t.items)
    BY <1>2 DEF Protects
<1>4. (ToSet(r.sources) \cup ToSet(r.elided)) \cap r.active
          \subseteq ToSet(t.sources) \cup ToSet(t.elided)
    BY <1>2 DEF Protects
<1>5. ASSUME NEW k \in 0..Len(r.elided), \A n \in 1..k : r.elided[n] \in r.active
      PROVE  k <= Len(t.elided) /\ \A n \in 1..k : t.elided[n] = r.elided[n]
    <2>1. k <= Len(q.elided) /\ \A n \in 1..k : q.elided[n] = r.elided[n]
        BY <1>5 DEF Protects
    <2>2. k \in 0..Len(q.elided)
        BY <2>1, ListTypes
    <2>3. \A n \in 1..k : q.elided[n] \in q.active
        BY <1>2, <1>5, <2>1
    <2>4. k <= Len(t.elided) /\ \A n \in 1..k : t.elided[n] = q.elided[n]
        BY <2>2, <2>3 DEF Protects
    <2> QED BY <2>1, <2>4
<1> QED BY <1>1, <1>3, <1>4, <1>5 DEF Protects

LEMMA ProtectsBatch ==
    ASSUME NEW r, Good(r), NEW q, Good(q), Protects(r, q),
           NEW d \in DrainState, BatchStays(r, d)
    PROVE  BatchStays(q, d)
<1>1. r.inFlight = q.inFlight /\ r.active = q.active
    BY DEF Protects, Kin
<1>2. CASE d.kind \in {"item", "group"}
    <2>1. ToSet(d.batch) \subseteq ToSet(q.items) /\ q.inFlight = ToSet(d.batch)
        BY <1>1, <1>2 DEF Protects, BatchStays
    <2> QED BY <1>2, <2>1 DEF BatchStays
<1>3. CASE d.kind = "priority"
    <2>1. ToSet(d.batch) \subseteq ToSet(q.items) \cap Retry
        BY <1>3 DEF Protects, BatchStays
    <2> QED BY <1>3, <2>1 DEF BatchStays
<1>4. CASE d.kind = "summary"
    <2>1. /\ ToSet(d.batch) \subseteq ToSet(r.sources) \cup ToSet(r.elided)
          /\ ToSet(d.batch) \subseteq r.active
          /\ d.entry <=> d.elided > 0
          /\ d.elided <= Len(d.batch) /\ d.elided <= Len(r.elided)
          /\ \A n \in 1..d.elided : d.batch[n] = r.elided[n]
        BY <1>4 DEF BatchStays
    <2>2. d.elided \in 0..Len(r.elided) /\ d.batch \in Seq(Msg) /\ Len(d.batch) \in Nat
        <3>1. d.elided \in Nat /\ d.batch \in Seq(Msg)
            BY DEF DrainState
        <3> QED BY <2>1, <3>1, EmptyFacts
    <2>3. \A n \in 1..d.elided : d.batch[n] \in ToSet(d.batch)
        <3>1. \A n \in 1..d.elided : n \in 1..Len(d.batch)
            BY <2>1, <2>2
        <3> QED BY <2>2, <3>1 DEF ToSet
    <2>4. \A n \in 1..d.elided : r.elided[n] \in r.active
        BY <2>1, <2>3
    <2>5. d.elided <= Len(q.elided) /\ \A n \in 1..d.elided : q.elided[n] = r.elided[n]
        BY <2>2, <2>4 DEF Protects
    <2>6. ToSet(d.batch) \subseteq ToSet(q.sources) \cup ToSet(q.elided)
        BY <2>1 DEF Protects
    <2>7. ToSet(d.batch) \subseteq q.active
        BY <1>1, <2>1
    <2> QED BY <1>4, <2>1, <2>5, <2>6, <2>7 DEF BatchStays
<1>5. CASE d.kind \notin {"item", "group", "priority", "summary"}
    BY <1>5 DEF BatchStays
<1> QED BY <1>2, <1>3, <1>4, <1>5

LEMMA WithoutKeepsFront ==
    ASSUME NEW s \in Seq(Msg), NEW S, NEW k \in 0..Len(s), \A x \in 1..k : s[x] \notin S
    PROVE  k <= Len(Without(s, S)) /\ \A x \in 1..k : Without(s, S)[x] = s[x]
<1>1. (\A x \in 1..k : s[x] \notin S) =>
                 k <= Len(Without(s, S)) /\ \A x \in 1..k : Without(s, S)[x] = s[x]
    BY WithoutFront, Zenon
<1> QED BY <1>1

LEMMA TrimmedProtects ==
    ASSUME NEW r, Good(r)
    PROVE  Protects(r, Trimmed(r))
<1> DEFINE t == Trimmed(r)
<1>1. /\ Kin(r, t) /\ t.items = r.items /\ t.sources = r.sources
      /\ t.elided = Without(r.elided, Evicted(r))
    BY TrimmedFacts
<1>2. Evicted(r) \cap r.active = {}
    BY EvictedFacts
<1> HIDE DEF t
<1>3. r.elided \in Seq(Msg) /\ ToSet(t.elided) = ToSet(r.elided) \ Evicted(r)
    BY <1>1, ListTypes, WithoutFacts
<1>4. ASSUME NEW k \in 0..Len(r.elided), \A n \in 1..k : r.elided[n] \in r.active
      PROVE  k <= Len(t.elided) /\ \A n \in 1..k : t.elided[n] = r.elided[n]
    <2>1. \A n \in 1..k : r.elided[n] \notin Evicted(r)
        BY <1>2, <1>4
    <2>2. /\ k <= Len(Without(r.elided, Evicted(r)))
          /\ \A n \in 1..k : Without(r.elided, Evicted(r))[n] = r.elided[n]
        BY <1>3, <2>1, WithoutKeepsFront
    <2> QED BY <1>1, <2>2
<1>5. ToSet(r.items) \cap (r.inFlight \cup Retry) \subseteq ToSet(t.items)
    BY <1>1
<1>6. (ToSet(r.sources) \cup ToSet(r.elided)) \cap r.active
          \subseteq ToSet(t.sources) \cup ToSet(t.elided)
    BY <1>1, <1>2, <1>3
<1>7. Protects(r, t)
    BY <1>1, <1>4, <1>5, <1>6 DEF Protects
<1> QED BY <1>7 DEF t

LEMMA VictimsFacts ==
    ASSUME NEW r, Good(r), HasRoom(r)
    PROVE  /\ Victims(r) \in Seq(Msg) /\ IsInjective(Victims(r))
           /\ ToSet(Victims(r)) \subseteq ToSet(r.items) \ (r.inFlight \cup Retry)
<1> DEFINE w == Without(Pending(r), Retry)
           n == Excess(r)
           p == SubSeq(w, 1, n)
<1>1. /\ Pending(r) \in Seq(Msg) /\ IsInjective(Pending(r))
      /\ ToSet(Pending(r)) = ToSet(r.items) \ r.inFlight
    BY ListTypes, WithoutFacts DEF Pending, Good, Listed
<1>2. /\ w \in Seq(Msg) /\ IsInjective(w)
      /\ ToSet(w) = ToSet(Pending(r)) \ Retry
    BY <1>1, WithoutFacts
<1>3. n \in Int /\ Len(w) \in Nat
    <2>1. Len(Pending(r)) \in Nat
        BY <1>1, EmptyFacts
    <2> QED BY <1>2, <2>1, EmptyFacts, CapFacts DEF Excess
<1>4. n <= Len(w)
    <2>1. n <= 0 \/ Len(w) >= n
        BY DEF HasRoom
    <2> HIDE DEF n, w
    <2> QED BY <1>3, <2>1
<1>5. p = Victims(r)
    BY DEF Victims
<1> HIDE DEF w, n
<1>6. p \in Seq(Msg) /\ ToSet(p) \subseteq ToSet(w) /\ IsInjective(p)
    BY <1>2, <1>3, <1>4, FirstFacts
<1> QED BY <1>1, <1>2, <1>5, <1>6

(* Dropped messages move from the items to the sources of the summary. *)
LEMMA SummarizedFacts ==
    ASSUME NEW r, Good(r), HasRoom(r)
    PROVE  /\ Good(Summarized(r)) /\ Protects(r, Summarized(r))
           /\ Held(Summarized(r)) = Held(r)
<1> DEFINE v == Victims(r)
           s == r.sources \o v
           over == IF Len(s) > Cap THEN Len(s) - Cap ELSE 0
           f == SubSeq(s, 1, over)
           g == SubSeq(s, over + 1, Len(s))
           e == r.elided \o f
           w == Without(r.items, ToSet(v))
           q == [r EXCEPT !.items = w, !.sources = g, !.elided = e,
                          !.dropped = @ + Len(v)]
<1>1. q = Summarized(r)
    BY DEF Summarized
<1>2. /\ r.items \in Seq(Msg) /\ r.sources \in Seq(Msg) /\ r.elided \in Seq(Msg)
      /\ IsInjective(r.items) /\ IsInjective(r.sources) /\ IsInjective(r.elided)
      /\ ToSet(r.items) \cap ToSet(r.sources) = {}
      /\ ToSet(r.items) \cap ToSet(r.elided) = {}
      /\ ToSet(r.sources) \cap ToSet(r.elided) = {}
      /\ r.dropped \in Nat /\ r.evicted \in Nat /\ r \in QueueState
      /\ r.dropped = Len(r.sources) + Len(r.elided) + r.evicted
      /\ Len(r.sources) \in Nat /\ Len(r.elided) \in Nat
    BY ListTypes DEF Good, Listed
<1>3. /\ v \in Seq(Msg) /\ IsInjective(v) /\ Len(v) \in Nat
      /\ ToSet(v) \subseteq ToSet(r.items) \ (r.inFlight \cup Retry)
    BY VictimsFacts, EmptyFacts
<1> HIDE DEF v
<1>4. ToSet(r.sources) \cap ToSet(v) = {}
    BY <1>2, <1>3
<1>5. /\ s \in Seq(Msg) /\ Len(s) = Len(r.sources) + Len(v)
      /\ ToSet(s) = ToSet(r.sources) \cup ToSet(v) /\ IsInjective(s)
    BY <1>2, <1>3, <1>4, JoinFacts
<1> HIDE DEF s
<1>6. Len(s) \in Nat /\ over \in 0..Len(s) /\ Len(s) - over <= Cap
    <2>1. Len(s) \in Nat /\ Cap \in Nat
        BY <1>5, EmptyFacts, CapFacts
    <2> DEFINE x == Len(s)
    <2> HIDE DEF x
    <2>2. x \in Nat => /\ x \in Nat /\ (IF x > Cap THEN x - Cap ELSE 0) \in 0..x
                       /\ x - (IF x > Cap THEN x - Cap ELSE 0) <= Cap
        BY <2>1
    <2> QED BY <2>1, <2>2 DEF x
<1> HIDE DEF over
<1>7. IsFirst(f, s, over) /\ IsRest(g, s, over)
    BY <1>5, <1>6, FirstIs, RestIs
<1> HIDE DEF f, g
<1>8. /\ f \in Seq(Msg) /\ Len(f) = over /\ g \in Seq(Msg) /\ Len(g) = Len(s) - over
    BY <1>7 DEF IsFirst, IsRest
<1>9. /\ ToSet(s) = ToSet(f) \cup ToSet(g)
      /\ IsInjective(f) /\ IsInjective(g) /\ ToSet(f) \cap ToSet(g) = {}
    BY <1>5, <1>6, <1>7, SplitFacts
<1>10. ToSet(r.elided) \cap ToSet(f) = {}
    BY <1>2, <1>3, <1>5, <1>9
<1>11. /\ e \in Seq(Msg) /\ Len(e) = Len(r.elided) + over /\ IsInjective(e)
       /\ ToSet(e) = ToSet(r.elided) \cup ToSet(f)
       /\ \A x \in 1..Len(r.elided) : e[x] = r.elided[x]
    BY <1>2, <1>8, <1>9, <1>10, JoinFacts
<1>12. w \in Seq(Msg) /\ ToSet(w) = ToSet(r.items) \ ToSet(v) /\ IsInjective(w)
    BY <1>2, WithoutFacts
<1> HIDE DEF e, w
<1>13. /\ r.dropped + Len(v) \in Nat
       /\ r.dropped + Len(v) = Len(g) + Len(e) + r.evicted
    <2> DEFINE a == Len(r.sources)
               b == Len(r.elided)
               c == Len(v)
               k == r.evicted
               n == r.dropped
               x == Len(s)
               y == Len(g)
               z == Len(e)
    <2>1. /\ a \in Nat /\ b \in Nat /\ c \in Nat /\ k \in Nat /\ n = a + b + k
          /\ x = a + c /\ y = x - over /\ z = b + over /\ over \in Int
        BY <1>2, <1>3, <1>5, <1>6, <1>8, <1>11
    <2> HIDE DEF a, b, c, k, n, x, y, z
    <2>2. n + c \in Nat /\ n + c = y + z + k
        BY <2>1
    <2> QED BY <2>2 DEF n, c, y, z, k
<1>14. q \in QueueState
    BY <1>2, <1>8, <1>11, <1>12, <1>13 DEF QueueState
<1>15. /\ q.items = w /\ q.sources = g /\ q.elided = e
       /\ q.evicted = r.evicted /\ q.dropped = r.dropped + Len(v)
       /\ q.inFlight = r.inFlight /\ q.active = r.active /\ q.aborted = r.aborted
    BY <1>2 DEF QueueState
<1> HIDE DEF q
<1>16. Listed(q)
    <2>1. Len(q.sources) <= Cap
        BY <1>6, <1>8, <1>15
    <2>2. q.dropped = Len(q.sources) + Len(q.elided) + q.evicted
        BY <1>13, <1>15
    <2>3. IsInjective(q.items) /\ IsInjective(q.sources) /\ IsInjective(q.elided)
        BY <1>9, <1>11, <1>12, <1>15
    <2>4. /\ ToSet(q.items) = ToSet(r.items) \ ToSet(v) /\ ToSet(q.sources) = ToSet(g)
          /\ ToSet(q.elided) = ToSet(r.elided) \cup ToSet(f)
        BY <1>11, <1>12, <1>15
    <2>5. ToSet(f) \cup ToSet(g) = ToSet(r.sources) \cup ToSet(v)
        BY <1>5, <1>9
    <2>6. /\ ToSet(q.items) \cap ToSet(q.sources) = {}
          /\ ToSet(q.items) \cap ToSet(q.elided) = {}
          /\ ToSet(q.sources) \cap ToSet(q.elided) = {}
        BY <1>2, <1>3, <1>9, <2>4, <2>5
    <2> QED BY <2>1, <2>2, <2>3, <2>6 DEF Listed
<1>17. Held(q) = Held(r)
    <2>1. /\ ToSet(q.items) = ToSet(r.items) \ ToSet(v) /\ ToSet(q.sources) = ToSet(g)
          /\ ToSet(q.elided) = ToSet(r.elided) \cup ToSet(f)
        BY <1>11, <1>12, <1>15
    <2> QED BY <1>3, <1>5, <1>9, <2>1 DEF Held
<1>18. Protects(r, q)
    <2>1. Kin(r, q)
        BY <1>15 DEF Kin
    <2>2. ToSet(r.items) \cap (r.inFlight \cup Retry) \subseteq ToSet(q.items)
        BY <1>3, <1>12, <1>15
    <2>3. (ToSet(r.sources) \cup ToSet(r.elided)) \cap r.active
             \subseteq ToSet(q.sources) \cup ToSet(q.elided)
        BY <1>5, <1>9, <1>11, <1>15
    <2>4. \A k \in 0..Len(r.elided) :
             k <= Len(q.elided) /\ \A n \in 1..k : q.elided[n] = r.elided[n]
        <3>1. Len(r.elided) \in Nat /\ over \in Nat
            BY <1>2, <1>6
        <3> QED BY <1>11, <1>15, <3>1
    <2> QED BY <2>1, <2>2, <2>3, <2>4 DEF Protects
<1> QED BY <1>1, <1>14, <1>16, <1>17, <1>18 DEF Good

(* What an arrival makes the queue give up. *)
Lost(r) ==
    IF r.policy = "summarize" THEN Evicted(Summarized(r)) ELSE ToSet(Victims(r))

LEMMA MadeRoomFacts ==
    ASSUME NEW r, Good(r), HasRoom(r)
    PROVE  /\ Good(MadeRoom(r)) /\ Protects(r, MadeRoom(r))
           /\ Held(MadeRoom(r)) = Held(r) \ Lost(r) /\ Lost(r) \subseteq Held(r)
<1>1. CASE r.policy = "summarize"
    <2>1. Good(Summarized(r)) /\ Protects(r, Summarized(r)) /\ Held(Summarized(r)) = Held(r)
        BY SummarizedFacts
    <2>2. MadeRoom(r) = Trimmed(Summarized(r)) /\ Lost(r) = Evicted(Summarized(r))
        BY <1>1 DEF MadeRoom, Lost
    <2>3. /\ Good(Trimmed(Summarized(r)))
          /\ Held(Trimmed(Summarized(r))) = Held(Summarized(r)) \ Evicted(Summarized(r))
        BY <2>1, TrimmedFacts
    <2>4. Protects(Summarized(r), Trimmed(Summarized(r)))
        BY <2>1, TrimmedProtects
    <2>5. Evicted(Summarized(r)) \subseteq Held(Summarized(r))
        BY <2>1, EvictedFacts DEF Held
    <2>6. Protects(r, Trimmed(Summarized(r)))
        BY <2>1, <2>3, <2>4, ProtectsTwice
    <2> QED BY <2>1, <2>2, <2>3, <2>5, <2>6
<1>2. CASE r.policy # "summarize"
    <2> DEFINE q == MadeRoom(r)
               v == ToSet(Victims(r))
    <2>1. v \subseteq ToSet(r.items) \ (r.inFlight \cup Retry) /\ Lost(r) = v
        BY <1>2, VictimsFacts DEF Lost
    <2> HIDE DEF v
    <2>2. q = [r EXCEPT !.items = Without(@, v)]
        BY <1>2 DEF MadeRoom, v
    <2>3. Pruned(r, q, v, {}, {})
        BY <2>2, ItemsPruned
    <2>4. /\ q.items = Without(r.items, v)
          /\ q.sources = r.sources /\ q.elided = r.elided
        BY <2>2 DEF Good, QueueState
    <2> HIDE DEF q
    <2>5. Good(q) /\ Kin(r, q)
        BY <2>3, PrunedWithin DEF Pruned
    <2>6. ToSet(q.items) = ToSet(r.items) \ v
        BY <2>4, ListTypes, WithoutFacts
    <2>7. Held(q) = Held(r) \ v
        BY <2>1, <2>4, <2>6 DEF Held, Good, Listed
    <2>8. Protects(r, q)
        <3>1. \A k \in 0..Len(r.elided) :
                 k <= Len(q.elided) /\ \A n \in 1..k : q.elided[n] = r.elided[n]
            BY <2>4, ListTypes
        <3> QED BY <2>1, <2>4, <2>5, <2>6, <3>1 DEF Protects
    <2>9. v \subseteq Held(r)
        BY <2>1 DEF Held
    <2> QED BY <2>1, <2>5, <2>7, <2>8, <2>9 DEF q
<1> QED BY <1>1, <1>2

(* A new message joins the items, at the back or, for a retry, in front. *)
LEMMA AddedFacts ==
    ASSUME NEW r, Good(r), NEW m \in Msg, m \notin Held(r), NEW x \in Seq(Msg),
           ToSet(x) = ToSet(r.items) \cup {m}, IsInjective(x)
    PROVE  LET q == [r EXCEPT !.items = x]
           IN  /\ Good(q) /\ Protects(r, q) /\ Held(q) = Held(r) \cup {m}
               /\ q.items = x
<1> DEFINE q == [r EXCEPT !.items = x]
<1>1. r \in QueueState
    BY DEF Good
<1>2. /\ q.items = x /\ q.sources = r.sources /\ q.elided = r.elided
      /\ q.evicted = r.evicted /\ q.dropped = r.dropped
      /\ q.inFlight = r.inFlight /\ q.active = r.active /\ q.aborted = r.aborted
    BY <1>1 DEF QueueState
<1>3. q \in QueueState
    BY <1>1 DEF QueueState
<1> HIDE DEF q
<1>4. ToSet(q.items) = ToSet(r.items) \cup {m}
    BY <1>2
<1>5. Listed(q)
    <2>1. m \notin ToSet(r.sources) /\ m \notin ToSet(r.elided)
        BY DEF Held
    <2>2. IsInjective(q.items)
        BY <1>2
    <2> QED BY <1>2, <1>4, <2>1, <2>2 DEF Good, Listed
<1>6. Held(q) = Held(r) \cup {m}
    BY <1>2, <1>4 DEF Held
<1>7. Protects(r, q)
    <2>1. \A k \in 0..Len(r.elided) :
             k <= Len(q.elided) /\ \A n \in 1..k : q.elided[n] = r.elided[n]
        BY <1>2, ListTypes
    <2> QED BY <1>2, <1>4, <2>1 DEF Protects, Kin
<1> QED BY <1>2, <1>3, <1>5, <1>6, <1>7 DEF Good, q

LEMMA OneFacts ==
    ASSUME NEW m \in Msg
    PROVE  <<m>> \in Seq(Msg) /\ ToSet(<<m>>) = {m} /\ IsInjective(<<m>>) /\ Len(<<m>>) = 1
<1>1. <<m>> \in Seq(Msg) /\ Len(<<m>>) = 1 /\ <<m>>[1] = m
    OBVIOUS
<1>2. ToSet(<<m>>) = {m}
    BY <1>1 DEF ToSet
<1> QED BY <1>1, <1>2 DEF IsInjective

LEMMA ArrivalFacts ==
    ASSUME NEW s \in Seq(Msg), IsInjective(s), NEW m \in Msg, m \notin ToSet(s)
    PROVE  /\ Append(s, m) \in Seq(Msg) /\ IsInjective(Append(s, m))
           /\ ToSet(Append(s, m)) = ToSet(s) \cup {m}
           /\ <<m>> \o s \in Seq(Msg) /\ IsInjective(<<m>> \o s)
           /\ ToSet(<<m>> \o s) = ToSet(s) \cup {m}
<1>1. <<m>> \in Seq(Msg) /\ ToSet(<<m>>) = {m} /\ IsInjective(<<m>>)
    BY OneFacts
<1>2. Append(s, m) = s \o <<m>>
    OBVIOUS
<1>3. ToSet(s) \cap {m} = {} /\ {m} \cap ToSet(s) = {}
    OBVIOUS
<1>4. /\ s \o <<m>> \in Seq(Msg) /\ IsInjective(s \o <<m>>)
      /\ ToSet(s \o <<m>>) = ToSet(s) \cup {m}
    BY <1>1, <1>3, JoinFacts
<1>5. /\ <<m>> \o s \in Seq(Msg) /\ IsInjective(<<m>> \o s)
      /\ ToSet(<<m>> \o s) = {m} \cup ToSet(s)
    BY <1>1, <1>3, JoinFacts
<1> QED BY <1>2, <1>4, <1>5

-----------------------------------------------------------------------------
(* A step of the coroutine on queue i.                                     *)

LEMMA LoopFacts ==
    /\ Off \in DrainState /\ Loop \in DrainState
    /\ Off.batch = <<>> /\ Loop.batch = <<>> /\ ToSet(Off.batch) = {} /\ ToSet(Loop.batch) = {}
    /\ ~Delivering(Off) /\ ~Delivering(Loop) /\ ~Off.admitted /\ ~Loop.admitted
    /\ Off.pc = "off" /\ Loop.pc = "top" /\ Off.kind = "none" /\ Loop.kind = "none"
<1>1. Off \in DrainState /\ Loop \in DrainState
    BY EmptyFacts DEF Off, Loop, DrainState, Kinds
<1>2. Off.batch = <<>> /\ Loop.batch = <<>>
    BY DEF Off, Loop
<1> QED BY <1>1, <1>2, EmptyFacts DEF Off, Loop, Delivering

LEMMA LoopFits ==
    ASSUME NEW r, r.inFlight = {}
    PROVE  /\ DrainFits(r, Off) /\ DrainFits(r, Loop)
           /\ ~r.aborted => Fresh(r, Off) /\ Fresh(r, Loop)
BY LoopFacts DEF DrainFits, Fresh

(* An idle coroutine has nothing in flight. *)
LEMMA IdleFacts ==
    ASSUME NEW r, NEW d, DrainFits(r, d), ~Delivering(d)
    PROVE  d.batch = <<>> /\ ToSet(d.batch) = {} /\ r.inFlight = {} /\ ~d.admitted
BY EmptyFacts DEF DrainFits, Delivering

(* Only messages of S are settled. *)
SettlesOnly(S) ==
    /\ out' \in [Msg -> Outcomes]
    /\ \A m \in Msg :
          IF out[m] = "queued" /\ m \in S THEN out'[m] \notin {"new", "queued"}
          ELSE out'[m] = out[m]

(* The coroutine leaves r, where rem were settled and taken are now the    *)
(* turn's; a drain of the registered queue may have been started.          *)
DrainMoves(i, r, rem, taken) ==
    /\ queue' = [queue EXCEPT ![i] = r]
    /\ drain' \in [Queues -> DrainState]
    /\ \A j \in Queues \ {i} :
          \/ drain'[j] = drain[j]
          \/ drain[j].pc = "off" /\ j = live /\ drain'[j] = Loop
    /\ live' = live \/ (i = live /\ live' = 0)
    /\ Good(r) /\ DrainFits(r, drain'[i])
    /\ i = live' => Fresh(r, drain'[i]) /\ drain'[i].pc # "off"
    /\ i # live' => Stale(r, drain'[i]) /\ drain'[i].batch = <<>>
    /\ Held(r) = Held(queue[i]) \ (rem \cup taken)
    /\ taken \subseteq Held(queue[i]) /\ rem \cap taken = {}
    /\ drain'[i].admitted => i = live' /\ taken = ToSet(drain'[i].batch)
    /\ ~drain'[i].admitted => taken = {}
    /\ drain[i].admitted => Batch(i) \subseteq rem
    /\ rem \subseteq Held(queue[i]) \cup Batch(i)
    /\ SettlesOnly(rem)
    /\ lane' \in {"free", "turn", "drain"} /\ owed' \in BOOLEAN
    /\ turns' \in [Msg -> Nat] /\ canceled' \subseteq Cancelable

LEMMA StaleIsEmpty ==
    ASSUME NEW r, NEW d, Stale(r, d)
    PROVE  Held(r) = {} /\ ~HasWork(r)
BY EmptyFacts DEF Stale, Held, HasWork

LEMMA QueueNumbers ==
    0 \notin Queues /\ \A i \in Queues : i \in Nat /\ i # 0
BY CapFacts DEF Queues

LEMMA DrainTypes ==
    ASSUME FollowInv, NEW i \in Queues, NEW r, NEW rem, NEW taken,
           DrainMoves(i, r, rem, taken)
    PROVE  FollowTypes' /\ QueuesFit'
<1>1. queue' \in [Queues -> QueueState] /\ queue'[i] = r
      /\ \A j \in Queues \ {i} : queue'[j] = queue[j]
    BY DEF FollowInv, FollowTypes, DrainMoves, Good
<1>2. live' \in 0..MaxQueues
    BY CapFacts DEF FollowInv, FollowTypes, DrainMoves
<1>3. out' \in [Msg -> Outcomes]
    BY DEF DrainMoves, SettlesOnly
<1>4. FollowTypes'
    BY <1>1, <1>2, <1>3 DEF FollowTypes, DrainMoves
<1>5. ASSUME NEW j \in Queues
      PROVE  /\ Listed(queue'[j]) /\ DrainFits(queue'[j], drain'[j])
             /\ j = live' => Fresh(queue'[j], drain'[j])
             /\ j # live' => Stale(queue'[j], drain'[j])
    <2>1. CASE j = i
        BY <1>1, <2>1 DEF DrainMoves, Good
    <2>2. CASE j # i /\ drain'[j] = drain[j]
        <3>1. queue'[j] = queue[j] /\ (j = live <=> j = live')
            BY <1>1, <2>2, QueueNumbers DEF DrainMoves
        <3> QED BY <2>2, <3>1 DEF FollowInv, QueuesFit
    <2>3. CASE j # i /\ drain'[j] # drain[j]
        <3>1. drain[j].pc = "off" /\ j = live /\ drain'[j] = Loop
            BY <2>3 DEF DrainMoves
        <3>2. queue'[j] = queue[j] /\ j = live'
            BY <1>1, <2>3, <3>1 DEF DrainMoves
        <3>3. /\ Listed(queue[j]) /\ DrainFits(queue[j], drain[j])
              /\ Fresh(queue[j], drain[j])
            BY <3>1 DEF FollowInv, QueuesFit
        <3>4. queue[j].inFlight = {} /\ ~queue[j].aborted
            BY <3>1, <3>3, IdleFacts DEF Fresh, Delivering
        <3>5. DrainFits(queue[j], Loop) /\ Fresh(queue[j], Loop)
            BY <3>4, LoopFits
        <3> QED BY <3>1, <3>2, <3>3, <3>5
    <2> QED BY <2>1, <2>2, <2>3
<1>6. QueuesFit'
    BY <1>5 DEF QueuesFit
<1> QED BY <1>4, <1>6

LEMMA TakenIs ==
    ASSUME NEW m
    PROVE  m \in Taken <=> \E j \in Queues : drain[j].admitted /\ m \in Batch(j)
BY DEF Taken

LEMMA HeldIs ==
    ASSUME FollowInv
    PROVE  /\ live \in Queues => HeldNow = Held(queue[live])
           /\ live \notin Queues => HeldNow = {} /\ live = 0
           /\ \A i \in Queues : i # live => Held(queue[i]) = {} /\ ~HasWork(queue[i])
           /\ \A i \in Queues : Held(queue[i]) \subseteq HeldNow
<1>1. live \in Queues <=> live # 0
    BY CapFacts DEF FollowInv, FollowTypes, Queues
<1>2. \A i \in Queues : i # live => Held(queue[i]) = {} /\ ~HasWork(queue[i])
    BY StaleIsEmpty DEF FollowInv, QueuesFit
<1> QED BY <1>1, <1>2 DEF HeldNow

LEMMA DrainAccounts ==
    ASSUME FollowInv, NEW i \in Queues, NEW r, NEW rem, NEW taken,
           DrainMoves(i, r, rem, taken)
    PROVE  Accounted' /\ BatchesKnown'
<1>1. /\ queue'[i] = r
      /\ \A j \in Queues \ {i} : queue'[j] = queue[j]
    BY DEF FollowInv, FollowTypes, DrainMoves
<1>2. \A j \in Queues \ {i} : \/ drain'[j] = drain[j]
                              \/ /\ drain[j].batch = <<>> /\ ~drain[j].admitted
                                 /\ drain'[j].batch = <<>> /\ ~drain'[j].admitted
    BY LoopFacts, IdleFacts DEF DrainMoves, FollowInv, QueuesFit, Delivering
<1>3. \A j \in Queues \ {i} : /\ Batch(j)' = Batch(j)
                              /\ drain'[j].admitted = drain[j].admitted
    BY <1>2 DEF Batch, FollowInv, FollowTypes, DrainState, DrainMoves
<1>4. \A m \in Msg : out'[m] = "queued" => out[m] = "queued" /\ m \notin rem
    BY DEF DrainMoves, SettlesOnly
<1>5. \A m \in Msg : out'[m] = "new" => out[m] = "new"
    BY DEF DrainMoves, SettlesOnly
<1>6. \A m : m \in Taken <=> \E j \in Queues : drain[j].admitted /\ m \in Batch(j)
    BY TakenIs
<1>7. \A m : m \in Taken' <=> \E j \in Queues : drain'[j].admitted /\ m \in Batch(j)'
    BY DEF Taken
<1>8. \A m \in HeldNow : m \in Msg /\ out[m] = "queued" /\ m \notin Taken
    <2>1. \A j \in Queues : Held(queue[j]) \subseteq Msg
        BY ListTypes DEF FollowInv, QueuesFit, FollowTypes, Good
    <2> QED BY <2>1, HeldIs DEF FollowInv, Accounted
<1>9. \A m \in Batch(i) : m \in Msg
    BY EmptyFacts DEF Batch, FollowInv, FollowTypes, DrainState
<1>10. Batch(i)' = ToSet(drain'[i].batch)
    BY DEF Batch
<1>11. CASE i = live
    <2>1. HeldNow = Held(queue[i])
        BY <1>11, HeldIs
    <2>2. HeldNow' = Held(r)
        <3>1. CASE live' = i
            BY <1>1, <3>1, QueueNumbers DEF HeldNow
        <3>2. CASE live' = 0
            BY <1>1, <3>2, QueueNumbers, StaleIsEmpty DEF HeldNow, DrainMoves
        <3> QED BY <1>11, <3>1, <3>2 DEF DrainMoves
    <2>3. HeldNow' = HeldNow \ (rem \cup taken)
        BY <2>1, <2>2 DEF DrainMoves
    <2>4. \A m \in HeldNow' : out'[m] = "queued"
        BY <1>8, <2>3 DEF DrainMoves, SettlesOnly
    <2>5. taken \subseteq HeldNow
        BY <2>1 DEF DrainMoves
    <2>6. \A m \in Taken' : m \in taken \/ m \in Taken
        BY <1>3, <1>6, <1>7, <1>10 DEF DrainMoves
    <2>7. HeldNow' \cap Taken' = {}
        BY <1>8, <2>3, <2>6
    <2>8. ASSUME NEW m \in Msg, out'[m] = "queued"
          PROVE  m \in HeldNow' \cup Taken'
        <3>1. out[m] = "queued" /\ m \notin rem
            BY <1>4, <2>8
        <3>2. m \in HeldNow \/ m \in Taken
            BY <3>1 DEF FollowInv, Accounted
        <3>3. CASE m \in HeldNow
            <4>1. m \in HeldNow' \/ m \in taken
                BY <2>3, <3>1, <3>3
            <4>2. m \in taken => m \in Taken'
                BY <1>7, <1>10 DEF DrainMoves
            <4> QED BY <4>1, <4>2
        <3>4. CASE m \in Taken
            <4>1. PICK j \in Queues : drain[j].admitted /\ m \in Batch(j)
                BY <1>6, <3>4
            <4>2. j # i
                BY <3>1, <4>1 DEF DrainMoves
            <4> QED BY <1>3, <1>7, <4>1, <4>2
        <3> QED BY <3>2, <3>3, <3>4
    <2>9. ASSUME NEW j \in Queues, NEW m \in Batch(j)'
          PROVE  /\ drain'[j].admitted => out'[m] # "new"
                 /\ j # live' /\ ~drain'[j].admitted => out'[m] \notin {"new", "queued"}
        <3>1. CASE j = i
            <4>1. i # live' => Batch(i)' = {}
                BY <1>10, EmptyFacts DEF DrainMoves
            <4>2. drain'[i].admitted => m \in HeldNow
                BY <1>10, <2>5, <2>9, <3>1 DEF DrainMoves
            <4> QED BY <1>5, <1>8, <2>9, <3>1, <4>1, <4>2
        <3>2. CASE j # i
            <4>1. m \in Batch(j) /\ drain'[j].admitted = drain[j].admitted /\ j # live
                BY <1>3, <1>11, <2>9, <3>2
            <4>2. m \in Msg
                BY <4>1, EmptyFacts DEF Batch, FollowInv, FollowTypes, DrainState
            <4>3. /\ drain[j].admitted => out[m] # "new"
                  /\ ~drain[j].admitted => out[m] \notin {"new", "queued"}
                BY <4>1 DEF FollowInv, BatchesKnown
            <4> QED BY <1>4, <1>5, <4>1, <4>2, <4>3
        <3> QED BY <3>1, <3>2
    <2> QED BY <2>4, <2>7, <2>8, <2>9 DEF Accounted, BatchesKnown
<1>12. CASE i # live
    <2>1. Held(queue[i]) = {} /\ taken = {} /\ live' = live /\ i # live'
        BY <1>12, HeldIs DEF DrainMoves
    <2>2. HeldNow' = HeldNow
        <3>1. live # 0 => live \in Queues \ {i}
            BY <1>12, HeldIs
        <3> QED BY <1>1, <2>1, <3>1 DEF HeldNow
    <2>3. ASSUME NEW m \in rem
          PROVE  m \in Batch(i) /\ m \notin HeldNow
        <3>1. m \in Batch(i) /\ m \in Msg
            BY <1>9, <2>1, <2>3 DEF DrainMoves
        <3>2. CASE drain[i].admitted
            BY <1>6, <1>8, <3>1, <3>2
        <3>3. CASE ~drain[i].admitted
            BY <1>8, <1>12, <3>1, <3>3 DEF FollowInv, BatchesKnown
        <3> QED BY <3>1, <3>2, <3>3
    <2>4. \A m \in HeldNow' : out'[m] = "queued"
        BY <1>8, <2>2, <2>3 DEF DrainMoves, SettlesOnly
    <2>5. ~drain'[i].admitted /\ Batch(i)' = {}
        BY <1>10, <2>1, EmptyFacts DEF DrainMoves
    <2>6. \A m \in Taken' : m \in Taken
        BY <1>3, <1>6, <1>7, <2>5
    <2>7. HeldNow' \cap Taken' = {}
        BY <1>8, <2>2, <2>6
    <2>8. ASSUME NEW m \in Msg, out'[m] = "queued"
          PROVE  m \in HeldNow' \cup Taken'
        <3>1. out[m] = "queued" /\ m \notin rem
            BY <1>4, <2>8
        <3>2. m \in HeldNow \/ m \in Taken
            BY <3>1 DEF FollowInv, Accounted
        <3>3. CASE m \in Taken
            <4>1. PICK j \in Queues : drain[j].admitted /\ m \in Batch(j)
                BY <1>6, <3>3
            <4>2. j # i
                BY <3>1, <4>1 DEF DrainMoves
            <4> QED BY <1>3, <1>7, <4>1, <4>2
        <3> QED BY <2>2, <3>2, <3>3
    <2>9. ASSUME NEW j \in Queues, NEW m \in Batch(j)'
          PROVE  /\ drain'[j].admitted => out'[m] # "new"
                 /\ j # live' /\ ~drain'[j].admitted => out'[m] \notin {"new", "queued"}
        <3>1. j # i
            BY <2>5, <2>9
        <3>2. m \in Batch(j) /\ drain'[j].admitted = drain[j].admitted
            BY <1>3, <2>9, <3>1
        <3>3. m \in Msg
            BY <3>2, EmptyFacts DEF Batch, FollowInv, FollowTypes, DrainState
        <3>4. /\ drain[j].admitted => out[m] # "new"
              /\ j # live /\ ~drain[j].admitted => out[m] \notin {"new", "queued"}
            BY <3>2 DEF FollowInv, BatchesKnown
        <3> QED BY <1>4, <1>5, <2>1, <3>2, <3>3, <3>4
    <2> QED BY <2>4, <2>7, <2>8, <2>9 DEF Accounted, BatchesKnown
<1> QED BY <1>11, <1>12

LEMMA DrainKeeps ==
    ASSUME FollowInv, NEW i \in Queues, NEW r, NEW rem, NEW taken,
           DrainMoves(i, r, rem, taken), LaneFits'
    PROVE  FollowInv'
BY DrainTypes, DrainAccounts DEF FollowInv

-----------------------------------------------------------------------------
(* The arrival of a message: the registered queue, or a new one, becomes   *)
(* q, with new in it and without lost.                                     *)
Arrives(i, q, new, lost) ==
    /\ queue' = [queue EXCEPT ![i] = q] /\ live' = i
    /\ i = live \/ (live = 0 /\ drain[i].pc = "off")
    /\ drain' = drain \/ drain' = Schedule(drain, i)
    /\ Good(q) /\ Protects(queue[i], q)
    /\ Held(q) = (Held(queue[i]) \ lost) \cup new
    /\ lost \subseteq Held(queue[i])
    /\ \A m \in new : m \in Msg /\ out[m] = "new"
    /\ out' \in [Msg -> Outcomes]
    /\ \A m \in new : out'[m] = "queued"
    /\ \A m \in Msg \ new :
          \/ out'[m] = out[m] /\ (out[m] = "queued" => m \notin lost)
          \/ /\ out[m] = "new" \/ (out[m] = "queued" /\ m \in lost)
             /\ out'[m] \notin {"new", "queued"}
    /\ UNCHANGED <<lane, turns, canceled>> /\ owed' \in BOOLEAN

LEMMA ScheduleFacts ==
    ASSUME NEW d \in [Queues -> DrainState], NEW i
    PROVE  /\ Schedule(d, i) \in [Queues -> DrainState]
           /\ \A j \in Queues :
                 Schedule(d, i)[j] = IF j = i /\ i # 0 /\ d[j].pc = "off" THEN Loop ELSE d[j]
<1>1. CASE i # 0 /\ d[i].pc = "off"
    <2>1. Schedule(d, i) = [d EXCEPT ![i] = Loop]
        BY <1>1 DEF Schedule
    <2> QED BY <1>1, <2>1, LoopFacts
<1>2. CASE ~(i # 0 /\ d[i].pc = "off")
    BY <1>2 DEF Schedule
<1> QED BY <1>1, <1>2

LEMMA RegisteredFacts ==
    ASSUME NEW i \in Queues, Registered(i), FreeQueue
    PROVE  i = live \/ (live = 0 /\ drain[i].pc = "off")
BY DEF Registered, FreeQueue

LEMMA ArrivalTypes ==
    ASSUME FollowInv, NEW i \in Queues, NEW q, NEW new, NEW lost, Arrives(i, q, new, lost)
    PROVE  FollowTypes' /\ QueuesFit'
<1>1. queue' \in [Queues -> QueueState] /\ queue'[i] = q
      /\ \A j \in Queues \ {i} : queue'[j] = queue[j]
    BY DEF FollowInv, FollowTypes, Arrives, Good
<1>2. drain \in [Queues -> DrainState]
    BY DEF FollowInv, FollowTypes
<1>3. /\ drain' \in [Queues -> DrainState]
      /\ \A j \in Queues \ {i} : drain'[j] = drain[j]
      /\ drain'[i] = drain[i] \/ (drain[i].pc = "off" /\ drain'[i] = Loop)
    BY <1>2, ScheduleFacts DEF Arrives
<1>4. live' \in 0..MaxQueues
    BY CapFacts DEF Arrives, Queues
<1>5. FollowTypes'
    BY <1>1, <1>3, <1>4 DEF FollowTypes, FollowInv, Arrives
<1>6. DrainFits(queue[i], drain[i]) /\ ~queue[i].aborted
      /\ (Delivering(drain[i]) /\ ~drain[i].admitted => BatchStays(queue[i], drain[i]))
      /\ Good(queue[i])
    <2>1. DrainFits(queue[i], drain[i]) /\ Good(queue[i])
        BY DEF FollowInv, QueuesFit, FollowTypes, Good
    <2>2. CASE i = live
        BY <2>1, <2>2 DEF FollowInv, QueuesFit, Fresh
    <2>3. CASE i # live
        <3>1. drain[i].pc = "off" /\ queue[i] = NewQueue
            BY <2>3 DEF Arrives, FollowInv, QueuesFit, Stale
        <3> QED BY <2>1, <3>1, NewQueueFacts DEF Delivering
    <2> QED BY <2>2, <2>3
<1>7. q.inFlight = queue[i].inFlight /\ q.aborted = queue[i].aborted
    BY DEF Arrives, Protects, Kin
<1>8. ASSUME NEW j \in Queues
      PROVE  /\ Listed(queue'[j]) /\ DrainFits(queue'[j], drain'[j])
             /\ j = live' => Fresh(queue'[j], drain'[j])
             /\ j # live' => Stale(queue'[j], drain'[j])
    <2>1. CASE j # i
        <3>1. j # live /\ j # live'
            BY <2>1, QueueNumbers DEF Arrives
        <3> QED BY <1>1, <1>3, <2>1, <3>1 DEF FollowInv, QueuesFit
    <2>2. CASE j = i /\ drain'[i] = drain[i]
        <3>1. DrainFits(q, drain[i])
            BY <1>6, <1>7 DEF DrainFits
        <3>2. Fresh(q, drain[i])
            <4>1. ~q.aborted
                BY <1>6, <1>7
            <4>2. Delivering(drain[i]) /\ ~drain[i].admitted => BatchStays(q, drain[i])
                BY <1>2, <1>6, ProtectsBatch DEF Arrives
            <4> QED BY <4>1, <4>2 DEF Fresh
        <3> QED BY <1>1, <2>2, <3>1, <3>2 DEF Arrives, Good
    <2>3. CASE j = i /\ drain[i].pc = "off" /\ drain'[i] = Loop
        <3>1. q.inFlight = {} /\ ~q.aborted
            BY <1>6, <1>7, <2>3, IdleFacts DEF Delivering
        <3>2. DrainFits(q, Loop) /\ Fresh(q, Loop)
            BY <3>1, LoopFits
        <3> QED BY <1>1, <2>3, <3>2 DEF Arrives, Good
    <2> QED BY <1>3, <2>1, <2>2, <2>3
<1>9. QueuesFit'
    BY <1>8 DEF QueuesFit
<1> QED BY <1>5, <1>9

LEMMA ArrivalAccounts ==
    ASSUME FollowInv, NEW i \in Queues, NEW q, NEW new, NEW lost, Arrives(i, q, new, lost)
    PROVE  Accounted' /\ BatchesKnown' /\ LaneFits'
<1>1. queue'[i] = q
    BY DEF FollowInv, FollowTypes, Arrives
<1>2. drain \in [Queues -> DrainState]
    BY DEF FollowInv, FollowTypes
<1>3. \A j \in Queues : drain'[j] = drain[j]
                        \/ (j = i /\ drain[j].pc = "off" /\ drain'[j] = Loop)
    BY <1>2, ScheduleFacts DEF Arrives
<1>4. \A j \in Queues : Batch(j)' = Batch(j) /\ drain'[j].admitted = drain[j].admitted
    <2>1. \A j \in Queues : drain[j].pc = "off" =>
             ToSet(drain[j].batch) = {} /\ drain[j].admitted = FALSE
        BY <1>2, IdleFacts DEF FollowInv, QueuesFit, Delivering, DrainState
    <2>2. ToSet(Loop.batch) = {} /\ Loop.admitted = FALSE
        BY LoopFacts DEF Loop, Off
    <2> QED BY <1>3, <2>1, <2>2 DEF Batch
<1>5. \A j \in Queues : drain'[j].pc = "turn" <=> drain[j].pc = "turn"
    BY <1>3, LoopFacts
<1>6. Taken' = Taken
    BY <1>4 DEF Taken
<1>7. HeldNow = Held(queue[i])
    <2>1. CASE i = live
        BY <2>1, HeldIs
    <2>2. CASE i # live
        <3>1. live = 0
            BY <2>2 DEF Arrives
        <3> QED BY <2>2, <3>1, HeldIs DEF HeldNow
    <2> QED BY <2>1, <2>2
<1>8. HeldNow' = (HeldNow \ lost) \cup new
    <2>1. HeldNow' = Held(q)
        BY <1>1, QueueNumbers DEF HeldNow, Arrives
    <2> QED BY <1>7, <2>1 DEF Arrives
<1>9. \A m \in HeldNow : m \in Msg /\ out[m] = "queued" /\ m \notin Taken
    <2>1. \A j \in Queues : Held(queue[j]) \subseteq Msg
        BY ListTypes DEF FollowInv, QueuesFit, FollowTypes, Good
    <2> QED BY <1>7, <2>1 DEF FollowInv, Accounted
<1>10. \A m \in Taken : out[m] # "new"
    BY TakenIs DEF FollowInv, BatchesKnown
<1>11. \A m \in new : m \in Msg /\ m \notin Taken /\ m \notin HeldNow
    BY <1>9, <1>10 DEF Arrives
<1>12. ASSUME NEW m \in HeldNow'
       PROVE  out'[m] = "queued"
    <2>1. CASE m \in new
        BY <2>1 DEF Arrives
    <2>2. CASE m \notin new
        <3>1. m \in HeldNow /\ m \notin lost
            BY <1>8, <1>12, <2>2
        <3> QED BY <1>9, <2>2, <3>1 DEF Arrives
    <2> QED BY <2>1, <2>2
<1>13. HeldNow' \cap Taken' = {}
    BY <1>6, <1>8, <1>9, <1>11
<1>14. ASSUME NEW m \in Msg, out'[m] = "queued"
       PROVE  m \in HeldNow' \cup Taken'
    <2>1. CASE m \in new
        BY <1>8, <2>1
    <2>2. CASE m \notin new
        <3>1. out[m] = "queued" /\ m \notin lost
            BY <1>14, <2>2 DEF Arrives
        <3>2. m \in HeldNow \cup Taken
            BY <3>1 DEF FollowInv, Accounted
        <3> QED BY <1>6, <1>8, <3>1, <3>2
    <2> QED BY <2>1, <2>2
<1>15. ASSUME NEW j \in Queues, NEW m \in Batch(j)'
       PROVE  /\ drain'[j].admitted => out'[m] # "new"
              /\ j # live' /\ ~drain'[j].admitted => out'[m] \notin {"new", "queued"}
    <2>1. m \in Batch(j) /\ drain'[j].admitted = drain[j].admitted
        BY <1>4, <1>15
    <2>2. m \in Msg
        BY <1>2, <2>1, EmptyFacts DEF Batch, DrainState
    <2>3. /\ drain[j].admitted => out[m] # "new"
          /\ j # live /\ ~drain[j].admitted => out[m] \notin {"new", "queued"}
        BY <2>1 DEF FollowInv, BatchesKnown
    <2>4. j # live' => j # live
        BY QueueNumbers DEF Arrives
    <2>5. /\ out[m] # "new" => out'[m] # "new"
          /\ out[m] \notin {"new", "queued"} => out'[m] \notin {"new", "queued"}
        BY <2>2 DEF Arrives
    <2> QED BY <2>1, <2>3, <2>4, <2>5
<1>16. LaneFits'
    BY <1>5 DEF LaneFits, FollowInv, Arrives
<1> QED BY <1>12, <1>13, <1>14, <1>15, <1>16 DEF Accounted, BatchesKnown

LEMMA ArrivalKeeps ==
    ASSUME FollowInv, NEW i \in Queues, NEW q, NEW new, NEW lost, Arrives(i, q, new, lost)
    PROVE  FollowInv'
BY ArrivalTypes, ArrivalAccounts DEF FollowInv

LEMMA SettingsFacts ==
    ASSUME NEW s \in Settings
    PROVE  s.mode \in Modes /\ s.policy \in Policies
BY FollowupConstants DEF Modes, Policies

LEMMA AppliedFacts ==
    ASSUME NEW i, Good(queue[i]), NEW s \in Settings
    PROVE  /\ Good(Applied(i, s)) /\ Protects(queue[i], Applied(i, s))
           /\ Held(Applied(i, s)) = Held(queue[i])
           /\ Applied(i, s).items = queue[i].items
           /\ Applied(i, s).dropped = queue[i].dropped
<1> DEFINE r == queue[i]
           q == Applied(i, s)
<1>1. r \in QueueState
    BY DEF Good
<1>2. s.mode \in Modes /\ s.policy \in Policies
    BY SettingsFacts
<1>3. q = [r EXCEPT !.mode = s.mode, !.policy = s.policy]
    BY DEF Applied
<1>4. Good(r)
    OBVIOUS
<1> HIDE DEF r, q
<1>5. /\ q.items = r.items /\ q.sources = r.sources /\ q.elided = r.elided
      /\ q.evicted = r.evicted /\ q.dropped = r.dropped
      /\ q.inFlight = r.inFlight /\ q.active = r.active /\ q.aborted = r.aborted
    BY <1>1, <1>3 DEF QueueState
<1>6. q \in QueueState
    BY <1>1, <1>2, <1>3 DEF QueueState
<1>7. Listed(q)
    BY <1>4, <1>5 DEF Good, Listed
<1>8. Protects(r, q)
    <2>1. \A k \in 0..Len(r.elided) :
             k <= Len(q.elided) /\ \A n \in 1..k : q.elided[n] = r.elided[n]
        BY <1>4, <1>5, ListTypes
    <2> QED BY <1>5, <2>1 DEF Protects, Kin
<1>9. Held(q) = Held(r)
    BY <1>5 DEF Held
<1> QED BY <1>5, <1>6, <1>7, <1>8, <1>9 DEF Good, r, q

LEMMA FollowQueues ==
    ASSUME FollowInv, NEW i \in Queues
    PROVE  /\ Good(queue[i]) /\ queue[i] \in QueueState /\ drain[i] \in DrainState
           /\ DrainFits(queue[i], drain[i])
           /\ i = live => Fresh(queue[i], drain[i])
           /\ i # live => Stale(queue[i], drain[i])
BY DEF FollowInv, FollowTypes, QueuesFit, Good

LEMMA DroppedForFacts ==
    ASSUME FollowInv, NEW r
    PROVE  /\ DroppedFor(r) \in [Msg -> Outcomes]
           /\ \A m \in Msg :
                 IF out[m] = "queued" /\ m \in Lost(r)
                 THEN DroppedFor(r)[m] \notin {"new", "queued"}
                 ELSE DroppedFor(r)[m] = out[m]
<1>1. out \in [Msg -> Outcomes]
    BY DEF FollowInv, FollowTypes
<1>2. CASE r.policy = "summarize"
    <2>1. DroppedFor(r) = [m \in Msg |-> IF m \in Lost(r) /\ out[m] = "queued"
                                         THEN "omitted" ELSE out[m]]
        BY <1>2 DEF DroppedFor, Lost, Settled
    <2> QED BY <1>1, <2>1 DEF Outcomes
<1>3. CASE r.policy # "summarize"
    <2>1. DroppedFor(r) = [m \in Msg |-> IF m \in Lost(r) /\ out[m] = "queued"
                                         THEN "dropped" ELSE out[m]]
        BY <1>3 DEF DroppedFor, Lost, Settled
    <2> QED BY <1>1, <2>1 DEF Outcomes
<1> QED BY <1>2, <1>3

(* What an accepted message's arrival comes to. *)
LEMMA MadeFacts ==
    ASSUME FollowInv, NEW i \in Queues, NEW s \in Settings, NEW m \in Msg,
           i = live \/ (live = 0 /\ drain[i].pc = "off"),
           out[m] = "new", HasRoom(Applied(i, s)),
           NEW q, \/ q = [MadeRoom(Applied(i, s)) EXCEPT !.items = Append(@, m)]
                  \/ q = [MadeRoom(Applied(i, s)) EXCEPT !.items = <<m>> \o @]
    PROVE  /\ Good(q) /\ Protects(queue[i], q) /\ HasWork(q)
           /\ Held(q) = (Held(queue[i]) \ Lost(Applied(i, s))) \cup {m}
           /\ Lost(Applied(i, s)) \subseteq Held(queue[i])
           /\ m \notin Held(queue[i])
<1> DEFINE r == Applied(i, s)
           t == MadeRoom(r)
           a == Append(t.items, m)
           b == <<m>> \o t.items
<1>1. Good(queue[i])
    BY FollowQueues
<1>2. Good(r) /\ Protects(queue[i], r) /\ Held(r) = Held(queue[i])
    BY <1>1, AppliedFacts
<1>3. HasRoom(r)
    OBVIOUS
<1>4. /\ q = [t EXCEPT !.items = a] \/ q = [t EXCEPT !.items = b]
    OBVIOUS
<1>5. m \notin Held(queue[i])
    BY HeldIs DEF FollowInv, Accounted
<1> HIDE DEF r
<1>6. /\ Good(t) /\ Protects(r, t)
      /\ Held(t) = Held(r) \ Lost(r) /\ Lost(r) \subseteq Held(r)
    BY <1>2, <1>3, MadeRoomFacts
<1> HIDE DEF t
<1>7. m \notin Held(t) /\ m \notin ToSet(t.items)
    BY <1>2, <1>5, <1>6 DEF Held
<1>8. t.items \in Seq(Msg) /\ IsInjective(t.items)
    BY <1>6, ListTypes DEF Good, Listed
<1>9. /\ a \in Seq(Msg) /\ IsInjective(a) /\ ToSet(a) = ToSet(t.items) \cup {m}
      /\ b \in Seq(Msg) /\ IsInjective(b) /\ ToSet(b) = ToSet(t.items) \cup {m}
    BY <1>7, <1>8, ArrivalFacts
<1> HIDE DEF a, b
<1>10. PICK x : /\ x \in Seq(Msg) /\ IsInjective(x) /\ ToSet(x) = ToSet(t.items) \cup {m}
                /\ q = [t EXCEPT !.items = x]
    BY <1>4, <1>9
<1>11. Good(q) /\ Protects(t, q) /\ Held(q) = Held(t) \cup {m} /\ q.items = x
    BY <1>6, <1>7, <1>10, AddedFacts
<1>12. Protects(queue[i], q)
    BY <1>1, <1>2, <1>6, <1>11, ProtectsTwice
<1>13. HasWork(q)
    BY <1>10, <1>11, EmptyFacts DEF HasWork
<1>14. /\ Held(q) = (Held(queue[i]) \ Lost(r)) \cup {m}
       /\ Lost(r) \subseteq Held(queue[i])
    BY <1>2, <1>6, <1>11
<1> QED BY <1>5, <1>11, <1>12, <1>13, <1>14 DEF r

LEMMA AcceptedArrives ==
    ASSUME FollowInv, NEW i \in Queues, NEW s \in Settings, NEW m \in Msg,
           Registered(i), FreeQueue, out[m] = "new", HasRoom(Applied(i, s)),
           NEW q, \/ q = [MadeRoom(Applied(i, s)) EXCEPT !.items = Append(@, m)]
                  \/ q = [MadeRoom(Applied(i, s)) EXCEPT !.items = <<m>> \o @],
           live' = i, queue' = [queue EXCEPT ![i] = q],
           out' = [DroppedFor(Applied(i, s)) EXCEPT ![m] = "queued"],
           drain' = drain \/ drain' = Schedule(drain, i),
           UNCHANGED <<lane, turns, canceled>>, owed' \in BOOLEAN
    PROVE  Arrives(i, q, {m}, Lost(Applied(i, s))) /\ HasWork(q)
<1> DEFINE D == DroppedFor(Applied(i, s))
           L == Lost(Applied(i, s))
<1>1. i = live \/ (live = 0 /\ drain[i].pc = "off")
    BY RegisteredFacts
<1>2. /\ Good(q) /\ Protects(queue[i], q) /\ HasWork(q)
      /\ Held(q) = (Held(queue[i]) \ L) \cup {m}
      /\ L \subseteq Held(queue[i]) /\ m \notin Held(queue[i])
    BY <1>1, MadeFacts, Zenon
<1>3. /\ D \in [Msg -> Outcomes]
      /\ \A x \in Msg : IF out[x] = "queued" /\ x \in L
                        THEN D[x] \notin {"new", "queued"} ELSE D[x] = out[x]
    BY DroppedForFacts
<1> HIDE DEF D, L
<1>4. out' = [D EXCEPT ![m] = "queued"]
    BY DEF D
<1>5. /\ out' \in [Msg -> Outcomes] /\ out'[m] = "queued"
      /\ \A x \in Msg \ {m} : out'[x] = D[x]
    BY <1>3, <1>4 DEF Outcomes
<1>6. \A x \in Msg \ {m} :
          \/ out'[x] = out[x] /\ (out[x] = "queued" => x \notin L)
          \/ /\ out[x] = "new" \/ (out[x] = "queued" /\ x \in L)
             /\ out'[x] \notin {"new", "queued"}
    BY <1>3, <1>5
<1>7. Arrives(i, q, {m}, L)
    BY <1>1, <1>2, <1>5, <1>6 DEF Arrives
<1> QED BY <1>2, <1>7 DEF L

-----------------------------------------------------------------------------
(* The steps around the queue keep the invariant.                          *)

LEMMA EnqueueKeeps ==
    ASSUME FollowInv, NEW m \in Msg, NEW s \in Settings, Enqueue(m, s)
    PROVE  \E i \in Queues : \E q, lost : Arrives(i, q, {m}, lost)
<1>1. PICK i \in Queues :
          /\ Registered(i) /\ HasRoom(Applied(i, s)) /\ live' = i
          /\ queue' = [queue EXCEPT ![i] =
                          [MadeRoom(Applied(i, s)) EXCEPT !.items = Append(@, m)]]
          /\ out' = [DroppedFor(Applied(i, s)) EXCEPT ![m] = "queued"]
          /\ drain' = IF lane = "free" THEN Schedule(drain, i) ELSE drain
          /\ owed' = (owed \/ lane # "free")
    BY DEF Enqueue
<1>2. /\ out[m] = "new" /\ FreeQueue /\ UNCHANGED <<lane, turns, canceled>>
      /\ owed' \in BOOLEAN
    BY <1>1 DEF Enqueue
<1>3. drain' = drain \/ drain' = Schedule(drain, i)
    BY <1>1
<1> DEFINE q == [MadeRoom(Applied(i, s)) EXCEPT !.items = Append(@, m)]
<1>4. q = [MadeRoom(Applied(i, s)) EXCEPT !.items = Append(@, m)]
    OBVIOUS
<1>5. queue' = [queue EXCEPT ![i] = q]
    BY <1>1
<1> HIDE DEF q
<1>6. Arrives(i, q, {m}, Lost(Applied(i, s)))
    BY <1>1, <1>2, <1>3, <1>4, <1>5, AcceptedArrives
<1> QED BY <1>6

LEMMA EnqueueRetryKeeps ==
    ASSUME FollowInv, NEW m \in Msg, NEW s \in Settings, EnqueueRetry(m, s)
    PROVE  \E i \in Queues : \E q, lost : Arrives(i, q, {m}, lost)
<1>1. PICK i \in Queues :
          /\ Registered(i) /\ HasRoom(Applied(i, s)) /\ live' = i
          /\ queue' = [queue EXCEPT ![i] =
                          [MadeRoom(Applied(i, s)) EXCEPT !.items = <<m>> \o @]]
          /\ out' = [DroppedFor(Applied(i, s)) EXCEPT ![m] = "queued"]
    BY DEF EnqueueRetry
<1>2. /\ out[m] = "new" /\ FreeQueue /\ UNCHANGED <<lane, turns, canceled>>
      /\ owed' \in BOOLEAN
    BY DEF EnqueueRetry, FollowInv, FollowTypes
<1>3. drain' = drain \/ drain' = Schedule(drain, i)
    BY DEF EnqueueRetry
<1> DEFINE q == [MadeRoom(Applied(i, s)) EXCEPT !.items = <<m>> \o @]
<1>4. q = [MadeRoom(Applied(i, s)) EXCEPT !.items = <<m>> \o @]
    OBVIOUS
<1>5. queue' = [queue EXCEPT ![i] = q]
    BY <1>1
<1> HIDE DEF q
<1>6. Arrives(i, q, {m}, Lost(Applied(i, s)))
    BY <1>1, <1>2, <1>3, <1>4, <1>5, AcceptedArrives
<1> QED BY <1>6

LEMMA RejectKeeps ==
    ASSUME FollowInv, NEW m \in Msg, NEW s \in Settings, Reject(m, s)
    PROVE  \E i \in Queues : Arrives(i, Applied(i, s), {}, {})
<1>1. PICK i \in Queues :
          /\ Registered(i) /\ live' = i
          /\ queue' = [queue EXCEPT ![i] = Applied(i, s)]
    BY DEF Reject
<1>2. /\ out[m] = "new" /\ FreeQueue /\ out' = [out EXCEPT ![m] = "rejected"]
      /\ UNCHANGED <<lane, turns, canceled, drain>> /\ owed' \in BOOLEAN
    BY DEF Reject, FollowInv, FollowTypes
<1>3. i = live \/ (live = 0 /\ drain[i].pc = "off")
    BY <1>1, <1>2, RegisteredFacts
<1>4. /\ Good(Applied(i, s)) /\ Protects(queue[i], Applied(i, s))
      /\ Held(Applied(i, s)) = Held(queue[i])
    BY FollowQueues, AppliedFacts
<1>5. out \in [Msg -> Outcomes]
    BY DEF FollowInv, FollowTypes
<1>6. /\ out' \in [Msg -> Outcomes]
      /\ \A x \in Msg : \/ out'[x] = out[x]
                        \/ out[x] = "new" /\ out'[x] \notin {"new", "queued"}
    BY <1>2, <1>5 DEF Outcomes
<1> QED BY <1>1, <1>2, <1>3, <1>4, <1>6 DEF Arrives

LEMMA DuplicateKeeps ==
    ASSUME FollowInv, NEW s \in Settings, EnqueueDuplicate(s)
    PROVE  \E i \in Queues : Arrives(i, Applied(i, s), {}, {})
<1>1. PICK i \in Queues :
          /\ Registered(i) /\ live' = i
          /\ queue' = [queue EXCEPT ![i] = Applied(i, s)]
    BY DEF EnqueueDuplicate
<1>2. /\ FreeQueue /\ out' = out
      /\ UNCHANGED <<lane, turns, canceled, drain>> /\ owed' \in BOOLEAN
    BY DEF EnqueueDuplicate, FollowInv, FollowTypes
<1>3. i = live \/ (live = 0 /\ drain[i].pc = "off")
    BY <1>1, <1>2, RegisteredFacts
<1>4. /\ Good(Applied(i, s)) /\ Protects(queue[i], Applied(i, s))
      /\ Held(Applied(i, s)) = Held(queue[i])
    BY FollowQueues, AppliedFacts
<1>5. out \in [Msg -> Outcomes]
    BY DEF FollowInv, FollowTypes
<1> QED BY <1>1, <1>2, <1>3, <1>4, <1>5 DEF Arrives

(* A turn of another message starts or ends, or a message is canceled. *)
LEMMA QuietKeeps ==
    ASSUME FollowInv,
           UNCHANGED <<live, queue, out, turns>>,
           canceled' \subseteq Cancelable, owed' \in BOOLEAN,
           drain' = drain \/ drain' = Schedule(drain, live),
           \/ UNCHANGED lane
           \/ lane = "free" /\ lane' = "turn"
           \/ lane = "turn" /\ lane' = "free"
    PROVE  FollowInv'
<1>1. drain \in [Queues -> DrainState]
    BY DEF FollowInv, FollowTypes
<1>2. /\ drain' \in [Queues -> DrainState]
      /\ \A j \in Queues : \/ drain'[j] = drain[j]
                           \/ j = live /\ drain[j].pc = "off" /\ drain'[j] = Loop
    BY <1>1, ScheduleFacts
<1>3. FollowTypes'
    BY <1>2 DEF FollowInv, FollowTypes
<1>4. ASSUME NEW j \in Queues
      PROVE  /\ Listed(queue'[j]) /\ DrainFits(queue'[j], drain'[j])
             /\ j = live' => Fresh(queue'[j], drain'[j])
             /\ j # live' => Stale(queue'[j], drain'[j])
    <2>1. CASE drain'[j] = drain[j]
        BY <2>1 DEF FollowInv, QueuesFit
    <2>2. CASE j = live /\ drain[j].pc = "off" /\ drain'[j] = Loop
        <3>1. /\ Listed(queue[j]) /\ DrainFits(queue[j], drain[j])
              /\ Fresh(queue[j], drain[j])
            BY <2>2 DEF FollowInv, QueuesFit
        <3>2. queue[j].inFlight = {} /\ ~queue[j].aborted
            BY <2>2, <3>1, IdleFacts DEF Fresh, Delivering
        <3>3. DrainFits(queue[j], Loop) /\ Fresh(queue[j], Loop)
            BY <3>2, LoopFits
        <3> QED BY <2>2, <3>1, <3>3
    <2> QED BY <1>2, <2>1, <2>2
<1>5. QueuesFit'
    BY <1>4 DEF QueuesFit
<1>6. \A j \in Queues : Batch(j)' = Batch(j) /\ drain'[j].admitted = drain[j].admitted
    <2>1. \A j \in Queues : drain[j].pc = "off" =>
             ToSet(drain[j].batch) = {} /\ drain[j].admitted = FALSE
        BY <1>1, IdleFacts DEF FollowInv, QueuesFit, Delivering, DrainState
    <2>2. ToSet(Loop.batch) = {} /\ Loop.admitted = FALSE
        BY LoopFacts DEF Loop, Off
    <2> QED BY <1>2, <2>1, <2>2 DEF Batch
<1>7. Taken' = Taken
    BY <1>6 DEF Taken
<1>8. HeldNow' = HeldNow
    BY DEF HeldNow
<1>9. Accounted'
    BY <1>7, <1>8 DEF FollowInv, Accounted
<1>10. BatchesKnown'
    BY <1>6 DEF FollowInv, BatchesKnown
<1>11. \A j \in Queues : drain'[j].pc = "turn" <=> drain[j].pc = "turn"
    BY <1>2, LoopFacts
<1>12. LaneFits'
    BY <1>11 DEF LaneFits, FollowInv
<1> QED BY <1>3, <1>5, <1>9, <1>10, <1>12 DEF FollowInv

LEMMA TurnStartsKeeps ==
    ASSUME FollowInv, TurnStarts
    PROVE  FollowInv'
<1>1. canceled' \subseteq Cancelable /\ owed' \in BOOLEAN
    BY DEF TurnStarts, FollowInv, FollowTypes
<1> QED BY <1>1, QuietKeeps DEF TurnStarts

LEMMA TurnEndsKeeps ==
    ASSUME FollowInv, TurnEnds
    PROVE  FollowInv'
<1>1. canceled' \subseteq Cancelable /\ owed' \in BOOLEAN
    BY DEF TurnEnds, FollowInv, FollowTypes
<1> QED BY <1>1, QuietKeeps DEF TurnEnds

LEMMA CancelKeeps ==
    ASSUME FollowInv, NEW m \in Msg, Cancel(m)
    PROVE  FollowInv'
<1>1. canceled' \subseteq Cancelable /\ owed' \in BOOLEAN
    BY DEF Cancel, FollowInv, FollowTypes
<1> QED BY <1>1, QuietKeeps DEF Cancel

LEMMA SettledFacts ==
    ASSUME FollowInv, NEW S, NEW how \in Outcomes \ {"new", "queued"},
           out' = Settled(S, how)
    PROVE  SettlesOnly(S)
<1>1. out \in [Msg -> Outcomes]
    BY DEF FollowInv, FollowTypes
<1> QED BY <1>1 DEF SettlesOnly, Settled

(* A stop: the queue leaves the map, a running coroutine keeps its object. *)
LEMMA ClearKeeps ==
    ASSUME FollowInv, Clear
    PROVE  FollowInv'
<1> DEFINE r == queue[live]
           d == drain[live]
           e == [d EXCEPT !.entry = FALSE]
           c == [NewQueue EXCEPT !.aborted = TRUE, !.active = r.active,
                                 !.mode = r.mode, !.policy = r.policy]
           q == IF d.pc = "off" THEN NewQueue ELSE c
<1>1. live \in Queues
    BY HeldIs DEF Clear
<1>2. /\ Good(r) /\ r \in QueueState /\ d \in DrainState /\ DrainFits(r, d) /\ Fresh(r, d)
    BY <1>1, FollowQueues
<1>3. /\ queue \in [Queues -> QueueState] /\ drain \in [Queues -> DrainState]
      /\ out \in [Msg -> Outcomes]
    BY DEF FollowInv, FollowTypes
<1>4. /\ live' = 0 /\ queue' = [queue EXCEPT ![live] = q]
      /\ drain' = [drain EXCEPT ![live] = e]
      /\ out' = Settled(ToSet(r.items \o r.sources \o r.elided), "cleared")
      /\ UNCHANGED <<lane, owed, turns, canceled>>
    BY DEF Clear
<1>5. ToSet(r.items \o r.sources \o r.elided) = Held(r)
    <2>1. r.items \in Seq(Msg) /\ r.sources \in Seq(Msg) /\ r.elided \in Seq(Msg)
        BY <1>2, ListTypes
    <2>2. /\ r.items \o r.sources \in Seq(Msg)
          /\ ToSet(r.items \o r.sources) = ToSet(r.items) \cup ToSet(r.sources)
        BY <2>1, JoinFacts
    <2> DEFINE a == r.items \o r.sources
    <2> HIDE DEF a
    <2>3. ToSet(a \o r.elided) = ToSet(a) \cup ToSet(r.elided)
        BY <2>1, <2>2, JoinFacts DEF a
    <2> QED BY <2>2, <2>3 DEF a, Held
<1>6. /\ e \in DrainState /\ e.pc = d.pc /\ e.batch = d.batch /\ e.kind = d.kind
      /\ e.admitted = d.admitted
    BY <1>2 DEF DrainState
<1>7. /\ c \in QueueState /\ c.aborted /\ c.inFlight = {} /\ c.items = <<>>
      /\ c.sources = <<>> /\ c.elided = <<>> /\ c.dropped = 0 /\ c.evicted = 0
    <2>1. NewQueue \in QueueState
        BY NewQueueFacts DEF Good
    <2>2. c \in QueueState
        BY <1>2, <2>1 DEF QueueState
    <2> QED BY <2>2 DEF NewQueue
<1>8. /\ q \in QueueState /\ q.inFlight = {} /\ Listed(q) /\ Stale(q, e)
    <2>1. CASE d.pc = "off"
        <3>1. q = NewQueue /\ e.pc = "off"
            BY <1>6, <2>1
        <3>2. NewQueue \in QueueState /\ Listed(NewQueue)
            BY NewQueueFacts DEF Good
        <3> HIDE DEF q, e
        <3>3. Stale(q, e)
            BY <3>1, NewQueueFacts DEF Stale
        <3> QED BY <3>1, <3>2, <3>3, NewQueueFacts
    <2>2. CASE d.pc # "off"
        <3>1. q = c /\ e.pc # "off"
            BY <1>6, <2>2
        <3> HIDE DEF q, e, c
        <3>2. Listed(c)
            BY <1>7, EmptyFacts, CapFacts DEF Listed
        <3>3. Stale(q, e)
            BY <1>7, <3>1 DEF Stale
        <3> QED BY <1>7, <3>1, <3>2, <3>3
    <2> QED BY <2>1, <2>2
<1> HIDE DEF q, e
<1>9. /\ queue'[live] = q /\ drain'[live] = e
      /\ \A j \in Queues \ {live} : queue'[j] = queue[j] /\ drain'[j] = drain[j]
    BY <1>1, <1>3, <1>4
<1>10. SettlesOnly(Held(r))
    BY <1>4, <1>5, SettledFacts DEF Outcomes
<1>11. FollowTypes'
    <2>1. queue' \in [Queues -> QueueState] /\ drain' \in [Queues -> DrainState]
        BY <1>3, <1>4, <1>6, <1>8
    <2>2. live' \in 0..MaxQueues
        BY <1>4, CapFacts
    <2> QED BY <1>4, <1>10, <2>1, <2>2 DEF FollowInv, FollowTypes, SettlesOnly
<1>12. ASSUME NEW j \in Queues
       PROVE  /\ Listed(queue'[j]) /\ DrainFits(queue'[j], drain'[j])
              /\ j # live' /\ Stale(queue'[j], drain'[j])
    <2>1. j # live'
        BY <1>4, QueueNumbers
    <2>2. CASE j = live
        <3>1. DrainFits(q, e)
            BY <1>2, <1>6, <1>8 DEF DrainFits, Delivering
        <3> QED BY <1>8, <1>9, <2>1, <2>2, <3>1
    <2>3. CASE j # live
        BY <1>9, <2>1, <2>3 DEF FollowInv, QueuesFit
    <2> QED BY <2>2, <2>3
<1>13. QueuesFit'
    BY <1>12 DEF QueuesFit
<1>14. \A j \in Queues : /\ Batch(j)' = Batch(j)
                         /\ drain'[j].admitted = drain[j].admitted
                         /\ drain'[j].pc = drain[j].pc
    BY <1>6, <1>9 DEF Batch
<1>15. Taken' = Taken
    BY <1>14 DEF Taken
<1>16. HeldNow = Held(r) /\ HeldNow' = {}
    BY <1>1, <1>4, HeldIs DEF HeldNow
<1>17. Accounted'
    BY <1>10, <1>15, <1>16 DEF FollowInv, Accounted, SettlesOnly
<1>18. ASSUME NEW j \in Queues, NEW m \in Batch(j)
       PROVE  /\ drain[j].admitted => out'[m] # "new"
              /\ ~drain[j].admitted => out'[m] \notin {"new", "queued"}
    <2>1. m \in Msg
        BY <1>3, <1>18, EmptyFacts DEF Batch, DrainState
    <2>2. CASE drain[j].admitted
        <3>1. out[m] # "new"
            BY <1>18, <2>2 DEF FollowInv, BatchesKnown
        <3> QED BY <1>10, <2>1, <2>2, <3>1 DEF SettlesOnly
    <2>3. CASE ~drain[j].admitted /\ j # live
        <3>1. out[m] \notin {"new", "queued"}
            BY <1>18, <2>3 DEF FollowInv, BatchesKnown
        <3> QED BY <1>10, <2>1, <2>3, <3>1 DEF SettlesOnly
    <2>4. CASE ~drain[j].admitted /\ j = live
        <3>1. Delivering(d) /\ m \in ToSet(d.batch)
            BY <1>2, <1>18, <2>4, IdleFacts DEF Batch
        <3>2. BatchStays(r, d) /\ d.kind \in Kinds
            BY <1>2, <2>4, <3>1 DEF Fresh, DrainFits
        <3>3. m \in Held(r)
            BY <3>1, <3>2 DEF BatchStays, Held, Kinds
        <3>4. out[m] = "queued"
            BY <1>16, <3>3 DEF FollowInv, Accounted
        <3> QED BY <1>10, <2>1, <2>4, <3>3, <3>4 DEF SettlesOnly
    <2> QED BY <2>2, <2>3, <2>4
<1>19. BatchesKnown'
    BY <1>14, <1>18 DEF BatchesKnown
<1>20. LaneFits'
    BY <1>4, <1>14 DEF LaneFits, FollowInv
<1> QED BY <1>11, <1>13, <1>17, <1>19, <1>20 DEF FollowInv

-----------------------------------------------------------------------------
(* A coroutine ends or goes round.                                         *)

(* The coroutines, where the after-clear callback may have started one. *)
Resumed(d) ==
    /\ d \in [Queues -> DrainState]
    /\ \A j \in Queues :
          d[j] = drain[j] \/ (j = live /\ drain[j].pc = "off" /\ d[j] = Loop)

LEMMA ResumedFacts ==
    ASSUME FollowInv
    PROVE  Resumed(drain) /\ Resumed(AfterClear)
<1>1. drain \in [Queues -> DrainState]
    BY DEF FollowInv, FollowTypes
<1>2. /\ Schedule(drain, live) \in [Queues -> DrainState]
      /\ \A j \in Queues :
            Schedule(drain, live)[j] =
                IF j = live /\ live # 0 /\ drain[j].pc = "off" THEN Loop ELSE drain[j]
    BY <1>1, ScheduleFacts
<1>3. Resumed(drain)
    BY <1>1 DEF Resumed
<1>4. Resumed(Schedule(drain, live))
    BY <1>1, <1>2 DEF Resumed
<1> QED BY <1>3, <1>4 DEF AfterClear

(* What remains of queue i when rem was settled and nothing is delivered. *)
Remains(i, r, rem) ==
    /\ Good(r) /\ Shrinks(queue[i], r) /\ r.inFlight = {}
    /\ Held(r) = Held(queue[i]) \ rem
    /\ drain[i].admitted => Batch(i) \subseteq rem
    /\ rem \subseteq Held(queue[i]) \cup Batch(i)
    /\ drain[i].pc # "off"

Around ==
    /\ lane' \in {"free", "turn", "drain"} /\ owed' \in BOOLEAN
    /\ turns' \in [Msg -> Nat] /\ canceled' \subseteq Cancelable

LEMMA RemainsStale ==
    ASSUME FollowInv, NEW i \in Queues, NEW r, NEW rem, Remains(i, r, rem), i # live
    PROVE  /\ r.items = <<>> /\ r.sources = <<>> /\ r.elided = <<>> /\ r.dropped = 0
           /\ r.aborted /\ ~HasWork(r) /\ Held(r) = {}
<1>1. Good(queue[i]) /\ Stale(queue[i], drain[i])
    BY FollowQueues
<1>2. Held(queue[i]) = {} /\ queue[i].dropped = 0 /\ queue[i].aborted
    BY <1>1, StaleIsEmpty DEF Stale, Remains
<1>3. /\ r.items = <<>> /\ r.sources = <<>> /\ r.elided = <<>> /\ r.dropped = 0
      /\ Held(r) = {}
    BY <1>1, <1>2, EmptyShrinks DEF Remains
<1> QED BY <1>2, <1>3 DEF Remains, Shrinks, HasWork

LEMMA RemainsFresh ==
    ASSUME FollowInv, NEW i \in Queues, NEW r, NEW rem, Remains(i, r, rem), i = live
    PROVE  ~r.aborted /\ Fresh(r, Off) /\ Fresh(r, Loop)
<1>1. ~queue[i].aborted
    BY FollowQueues DEF Fresh
<1> QED BY <1>1, LoopFits DEF Remains, Shrinks

LEMMA ContinuesMoves ==
    ASSUME FollowInv, NEW i \in Queues, NEW r, NEW rem, Remains(i, r, rem),
           NEW d, Resumed(d), Continues(i, r, d), SettlesOnly(rem), Around
    PROVE  DrainMoves(i, r, rem, {}) /\ drain'[i] = Loop
<1>1. /\ queue' = [queue EXCEPT ![i] = r] /\ live' = live
      /\ drain' = [d EXCEPT ![i] = Loop]
    BY DEF Continues
<1>2. /\ drain' \in [Queues -> DrainState] /\ drain'[i] = Loop
      /\ \A j \in Queues \ {i} :
            \/ drain'[j] = drain[j]
            \/ drain[j].pc = "off" /\ j = live /\ drain'[j] = Loop
    BY <1>1, LoopFacts DEF Resumed
<1>3. DrainFits(r, Loop)
    BY LoopFits DEF Remains
<1>4. i = live' => Fresh(r, Loop)
    BY <1>1, RemainsFresh
<1>5. i # live' => Stale(r, Loop)
    BY <1>1, RemainsStale, LoopFacts DEF Stale
<1> QED BY <1>1, <1>2, <1>3, <1>4, <1>5, LoopFacts DEF DrainMoves, Remains, Around

LEMMA EndsMoves ==
    ASSUME FollowInv, NEW i \in Queues, NEW r, NEW rem, Remains(i, r, rem),
           NEW d, Resumed(d), Ends(i, r, d), SettlesOnly(rem), Around
    PROVE  (\E q : DrainMoves(i, q, rem, {})) /\ drain'[i] \in {Off, Loop}
<1>1. CASE HasWork(r)
    <2> DEFINE f == [d EXCEPT ![i] = Off]
    <2>1. i = live
        BY <1>1, RemainsStale
    <2>2. /\ queue' = [queue EXCEPT ![i] = r] /\ live' = live
          /\ drain' = Schedule(f, live)
        BY <1>1 DEF Ends
    <2>3. /\ f \in [Queues -> DrainState] /\ f[i] = Off
          /\ \A j \in Queues \ {i} : f[j] = d[j]
        BY LoopFacts DEF Resumed
    <2> HIDE DEF f
    <2>4. /\ drain' \in [Queues -> DrainState] /\ drain'[i] = Loop
          /\ \A j \in Queues \ {i} : drain'[j] = f[j]
        BY <2>1, <2>2, <2>3, ScheduleFacts, LoopFacts, QueueNumbers
    <2>5. \A j \in Queues \ {i} : drain'[j] = drain[j]
        BY <2>1, <2>3, <2>4 DEF Resumed
    <2>6. DrainFits(r, Loop)
        BY LoopFits DEF Remains
    <2>7. Fresh(r, Loop)
        BY <2>1, RemainsFresh
    <2>8. DrainMoves(i, r, rem, {})
        BY <2>1, <2>2, <2>4, <2>5, <2>6, <2>7, LoopFacts DEF DrainMoves, Remains, Around
    <2> QED BY <2>4, <2>8
<1>2. CASE ~HasWork(r)
    <2>1. /\ queue' = [queue EXCEPT ![i] = NewQueue]
          /\ drain' = [d EXCEPT ![i] = Off] /\ live' = Unregisters(i)
        BY <1>2 DEF Ends
    <2>2. /\ drain' \in [Queues -> DrainState] /\ drain'[i] = Off
          /\ \A j \in Queues \ {i} :
                \/ drain'[j] = drain[j]
                \/ drain[j].pc = "off" /\ j = live /\ drain'[j] = Loop
        BY <2>1, LoopFacts DEF Resumed
    <2>3. (live' = live \/ (i = live /\ live' = 0)) /\ i # live'
        BY <2>1, QueueNumbers DEF Unregisters
    <2>4. Held(r) = {}
        BY <1>2, NoWorkIsEmpty DEF Remains
    <2>5. Held(NewQueue) = Held(queue[i]) \ (rem \cup {})
        BY <2>4, NewQueueFacts DEF Remains
    <2>6. DrainFits(NewQueue, Off) /\ Stale(NewQueue, Off) /\ Good(NewQueue)
        BY LoopFits, LoopFacts, NewQueueFacts DEF Stale
    <2>7. DrainMoves(i, NewQueue, rem, {})
        BY <2>1, <2>2, <2>3, <2>5, <2>6, LoopFacts DEF DrainMoves, Remains, Around
    <2> QED BY <2>2, <2>7
<1> QED BY <1>1, <1>2

(* The lane, when the coroutine is not in a turn afterwards. *)
LEMMA LaneStays ==
    ASSUME FollowInv, NEW i \in Queues, NEW r, NEW rem, NEW taken,
           DrainMoves(i, r, rem, taken), drain'[i].pc # "turn",
           \/ drain[i].pc # "turn" /\ lane' = lane
           \/ drain[i].pc = "turn" /\ lane' = "free"
    PROVE  LaneFits'
<1>1. \A j \in Queues \ {i} : drain'[j].pc = "turn" <=> drain[j].pc = "turn"
    BY LoopFacts DEF DrainMoves
<1>2. \A j \in Queues : drain'[j].pc = "turn" => j # i /\ drain[j].pc = "turn"
    BY <1>1
<1>3. /\ \A j \in Queues : drain[j].pc = "turn" => lane = "drain"
      /\ lane = "drain" => \E j \in Queues : drain[j].pc = "turn"
      /\ \A j, k \in Queues : drain[j].pc = "turn" /\ drain[k].pc = "turn" => j = k
    BY DEF FollowInv, LaneFits
<1>4. CASE drain[i].pc # "turn" /\ lane' = lane
    BY <1>1, <1>2, <1>3, <1>4 DEF LaneFits
<1>5. CASE drain[i].pc = "turn" /\ lane' = "free"
    BY <1>1, <1>2, <1>3, <1>5 DEF LaneFits
<1> QED BY <1>4, <1>5

-----------------------------------------------------------------------------
(* The loop head and the choice of what to deliver next.                   *)

(* A message leaves the list it was in, and is in no other. *)
LEMMA WithinHeld ==
    ASSUME NEW i, Good(queue[i]), NEW r, Within(queue[i], r)
    PROVE  Held(r) = Held(queue[i]) \ Gone(i, r) /\ Gone(i, r) \subseteq Held(queue[i])
BY DEF Within, Held, Gone, Good, Listed

LEMMA KeptRemains ==
    ASSUME FollowInv, NEW i \in Queues, drain[i].pc \in {"top", "debounce"},
           NEW r, Good(r), Within(queue[i], r), NEW rem,
           Held(r) = Held(queue[i]) \ rem, rem \subseteq Held(queue[i])
    PROVE  Remains(i, r, rem)
<1>1. Good(queue[i]) /\ queue[i].inFlight = {} /\ ~drain[i].admitted
    BY FollowQueues, IdleFacts DEF Delivering
<1>2. r.inFlight = {}
    BY <1>1 DEF Within, Kin
<1> QED BY <1>1, <1>2, WithinShrinks DEF Remains

LEMMA AroundStays ==
    ASSUME FollowInv, UNCHANGED <<lane, owed, turns, canceled>>
    PROVE  Around
BY DEF Around, FollowInv, FollowTypes

LEMMA WakeMoves ==
    ASSUME FollowInv, NEW i \in Queues, Wake(i)
    PROVE  /\ \E q, rem : DrainMoves(i, q, rem, {})
           /\ drain'[i].batch = <<>> /\ drain'[i].pc # "turn" /\ drain[i].pc # "turn"
<1> DEFINE r == Kept(i)
           rem == ToSet(queue[i].items) \cap canceled
<1>1. drain[i].pc = "top" /\ UNCHANGED <<lane, owed, turns, canceled>>
    BY DEF Wake
<1>2. /\ Good(queue[i]) /\ drain[i] \in DrainState /\ DrainFits(queue[i], drain[i])
      /\ drain \in [Queues -> DrainState]
    BY FollowQueues DEF FollowInv, FollowTypes
<1>3. Good(r) /\ Within(queue[i], r) /\ Held(r) = Held(queue[i]) \ rem
    BY <1>2, KeptFacts
<1>4. rem \subseteq Held(queue[i])
    BY DEF Held
<1>5. SettlesOnly(rem)
    BY SettledFacts DEF Wake, Outcomes
<1>6. Around
    BY <1>1, AroundStays
<1> HIDE DEF r, rem
<1>7. Remains(i, r, rem)
    BY <1>1, <1>3, <1>4, KeptRemains
<1>8. CASE HasWork(r)
    <2> DEFINE e == [drain[i] EXCEPT !.pc = "debounce"]
    <2>1. /\ queue' = [queue EXCEPT ![i] = r] /\ live' = live
          /\ drain' = [drain EXCEPT ![i].pc = "debounce"]
        BY <1>8 DEF Wake, r
    <2>2. /\ e \in DrainState /\ e.pc = "debounce" /\ e.batch = drain[i].batch
          /\ e.admitted = drain[i].admitted
        BY <1>2 DEF DrainState
    <2>3. drain' = [drain EXCEPT ![i] = e]
        BY <2>1
    <2>4. drain[i].batch = <<>> /\ ~drain[i].admitted
        BY <1>1, <1>2, IdleFacts DEF Delivering
    <2> HIDE DEF e
    <2>5. /\ drain' \in [Queues -> DrainState] /\ drain'[i] = e
          /\ \A j \in Queues \ {i} : drain'[j] = drain[j]
        BY <1>2, <2>2, <2>3
    <2>6. i = live
        BY <1>7, <1>8, RemainsStale
    <2>7. DrainFits(r, e)
        BY <1>7, <2>2, <2>4 DEF DrainFits, Delivering, Remains
    <2>8. Fresh(r, e)
        BY <1>7, <2>2, <2>6, RemainsFresh DEF Fresh, Delivering
    <2>9. DrainMoves(i, r, rem, {})
        BY <1>5, <1>6, <1>7, <2>1, <2>2, <2>4, <2>5, <2>6, <2>7, <2>8
        DEF DrainMoves, Remains, Around
    <2> QED BY <1>1, <2>2, <2>4, <2>5, <2>9
<1>9. CASE ~HasWork(r)
    <2>1. Ends(i, r, drain)
        BY <1>9 DEF Wake, r
    <2>2. Resumed(drain)
        BY ResumedFacts
    <2>3. (\E q : DrainMoves(i, q, rem, {})) /\ drain'[i] \in {Off, Loop}
        BY <1>5, <1>6, <1>7, <2>1, <2>2, EndsMoves
    <2> QED BY <1>1, <2>3, LoopFacts
<1> QED BY <1>8, <1>9

(* All sources of a summary, the elided ones first. *)
LEMMA SummaryBatch ==
    ASSUME NEW r, Good(r)
    PROVE  /\ r.elided \o r.sources \in Seq(Msg)
           /\ ToSet(r.elided \o r.sources) = ToSet(r.elided) \cup ToSet(r.sources)
           /\ Len(r.elided) \in Nat /\ Len(r.elided) <= Len(r.elided \o r.sources)
           /\ Len(r.elided) <= Len(r.elided)
           /\ \A n \in 1..Len(r.elided) : (r.elided \o r.sources)[n] = r.elided[n]
<1> DEFINE x == Len(r.elided)
           y == Len(r.sources)
           z == Len(r.elided \o r.sources)
<1>1. r.elided \in Seq(Msg) /\ r.sources \in Seq(Msg) /\ x \in Nat /\ y \in Nat
    BY ListTypes
<1>2. /\ z = x + y /\ r.elided \o r.sources \in Seq(Msg)
      /\ \A k \in 1..x : (r.elided \o r.sources)[k] = r.elided[k]
      /\ ToSet(r.elided \o r.sources) = ToSet(r.elided) \cup ToSet(r.sources)
    BY <1>1, JoinFacts
<1>3. x <= z /\ x <= x
    <2> HIDE DEF x, y, z
    <2> QED BY <1>1, <1>2
<1> QED BY <1>1, <1>2, <1>3, Zenon

(* The coroutine waits for the lane with a batch of what the queue holds. *)
LEMMA AwaitsMoves ==
    ASSUME FollowInv, NEW i \in Queues, NEW r, NEW rem, Remains(i, r, rem),
           NEW kind \in Kinds, NEW batch \in Seq(Msg), NEW elided \in Nat,
           Awaits(i, r, kind, batch, elided), batch # <<>>,
           kind \in {"item", "group"} => ToSet(batch) \subseteq ToSet(r.items),
           kind = "priority" => ToSet(batch) \subseteq ToSet(r.items) \cap Retry,
           kind = "summary" => batch = r.elided \o r.sources /\ elided = Len(r.elided),
           SettlesOnly(rem), Around
    PROVE  /\ \E q : DrainMoves(i, q, rem, {})
           /\ ToSet(drain'[i].batch) \subseteq Held(queue[i])
           /\ drain'[i].pc # "turn" /\ i = live
<1> DEFINE q == IF kind = "summary"
                THEN [r EXCEPT !.active = @ \cup ToSet(batch)]
                ELSE IF kind = "priority" THEN r
                ELSE [r EXCEPT !.inFlight = ToSet(batch)]
           e == [pc |-> "wait", kind |-> kind, batch |-> batch, elided |-> elided,
                 entry |-> elided > 0, inherited |-> ToSet(batch) \cap r.active,
                 admitted |-> FALSE]
<1>1. queue' = [queue EXCEPT ![i] = q] /\ drain' = [drain EXCEPT ![i] = e] /\ live' = live
    BY DEF Awaits
<1>2. /\ Good(r) /\ r \in QueueState /\ r.inFlight = {} /\ Held(r) = Held(queue[i]) \ rem
      /\ r.elided \in Seq(Msg) /\ r.sources \in Seq(Msg)
    BY ListTypes DEF Remains, Good
<1>3. ToSet(batch) \subseteq Msg /\ ToSet(batch) # {}
    BY EmptyFacts
<1>4. kind = "summary" =>
          /\ ToSet(batch) = ToSet(r.elided) \cup ToSet(r.sources)
          /\ elided <= Len(batch) /\ elided <= Len(r.elided)
          /\ \A n \in 1..elided : batch[n] = r.elided[n]
    <2>1. ASSUME kind = "summary"
          PROVE  batch = r.elided \o r.sources /\ elided = Len(r.elided)
        BY <2>1
    <2>2. ASSUME kind = "summary"
          PROVE  /\ ToSet(batch) = ToSet(r.elided) \cup ToSet(r.sources)
                 /\ elided <= Len(batch) /\ elided <= Len(r.elided)
                 /\ \A n \in 1..elided : batch[n] = r.elided[n]
        <3>1. Good(r) /\ batch = r.elided \o r.sources /\ elided = Len(r.elided)
            BY <1>2, <2>1, <2>2
        <3>2. /\ ToSet(r.elided \o r.sources) = ToSet(r.elided) \cup ToSet(r.sources)
              /\ Len(r.elided) <= Len(r.elided \o r.sources)
              /\ Len(r.elided) <= Len(r.elided)
              /\ \A n \in 1..Len(r.elided) : (r.elided \o r.sources)[n] = r.elided[n]
            BY <3>1, SummaryBatch
        <3> QED BY <3>1, <3>2, Zenon
    <2> QED BY <2>2
<1>5. ToSet(batch) \subseteq Held(r)
    BY <1>4 DEF Held, Kinds
<1>6. i = live
    BY <1>3, <1>5, RemainsStale
<1>7. /\ q \in QueueState
      /\ q.items = r.items /\ q.sources = r.sources /\ q.elided = r.elided
      /\ q.evicted = r.evicted /\ q.dropped = r.dropped /\ q.aborted = r.aborted
      /\ kind = "summary" => q.active = r.active \cup ToSet(batch) /\ q.inFlight = {}
      /\ kind = "priority" => q.inFlight = {}
      /\ kind \in {"item", "group"} => q.inFlight = ToSet(batch)
    <2>1. CASE kind = "summary"
        BY <1>2, <1>3, <2>1 DEF QueueState
    <2>2. CASE kind = "priority"
        BY <1>2, <2>2 DEF QueueState
    <2>3. CASE kind \in {"item", "group"}
        BY <1>2, <1>3, <2>3 DEF QueueState
    <2> QED BY <2>1, <2>2, <2>3 DEF Kinds
<1> HIDE DEF q
<1>8. Listed(q) /\ Held(q) = Held(r)
    BY <1>2, <1>7 DEF Good, Listed, Held
<1>9. e \in DrainState
    <2>1. r.active \subseteq Msg
        BY <1>2 DEF QueueState
    <2>2. ToSet(batch) \cap r.active \subseteq Msg
        BY <2>1
    <2> QED BY <2>2 DEF DrainState
<1>10. /\ e.pc = "wait" /\ e.kind = kind /\ e.batch = batch /\ e.elided = elided
       /\ (e.entry <=> elided > 0) /\ ~e.admitted
    OBVIOUS
<1> HIDE DEF e
<1>11. DrainFits(q, e)
    <2>1. q.inFlight \subseteq ToSet(batch)
        BY <1>7 DEF Kinds
    <2>2. kind \notin {"item", "group"} => q.inFlight = {}
        BY <1>7 DEF Kinds
    <2> QED BY <1>10, <2>1, <2>2 DEF DrainFits, Delivering
<1>12. BatchStays(q, e)
    <2>1. kind = "summary" => ToSet(batch) \subseteq q.active
        BY <1>7
    <2> QED BY <1>4, <1>7, <1>10, <2>1 DEF BatchStays
<1>13. Fresh(q, e)
    BY <1>6, <1>7, <1>12, RemainsFresh DEF Fresh
<1>14. /\ drain' \in [Queues -> DrainState] /\ drain'[i] = e
       /\ \A j \in Queues \ {i} : drain'[j] = drain[j]
    BY <1>1, <1>9 DEF FollowInv, FollowTypes
<1>15. DrainMoves(i, q, rem, {})
    BY <1>1, <1>2, <1>6, <1>7, <1>8, <1>10, <1>11, <1>13, <1>14
    DEF DrainMoves, Remains, Around, Good
<1> QED BY <1>2, <1>5, <1>6, <1>10, <1>14, <1>15

(* The queue that Choose decides on. *)
Omitted(i) == [KeptSources(i) EXCEPT !.dropped = @ - queue[i].evicted, !.evicted = 0]

Chosen(i) ==
    IF ~HasWork(Kept(i)) \/ Priority(Kept(i)) # <<>> \/ ~(Kept(i).dropped > 0)
    THEN Kept(i)
    ELSE IF SourcesWentAway(i) THEN KeptSources(i)
    ELSE IF Omits(i) THEN Omitted(i)
    ELSE KeptSummary(i)

LEMMA ChosenFacts ==
    ASSUME NEW i, Good(queue[i])
    PROVE  Good(Chosen(i)) /\ Within(queue[i], Chosen(i))
<1>1. Good(Kept(i)) /\ Within(queue[i], Kept(i))
    BY KeptFacts
<1>2. Good(KeptSources(i)) /\ Within(queue[i], KeptSources(i))
    BY KeptSourcesFacts
<1>3. Good(KeptSummary(i)) /\ Within(queue[i], KeptSummary(i))
    BY KeptSummaryFacts
<1>4. Good(Omitted(i)) /\ Within(KeptSources(i), Omitted(i))
    <2>1. queue[i].evicted = KeptSources(i).evicted
        BY KeptSourcesFacts
    <2> QED BY <1>2, <2>1, OmitsFacts DEF Omitted
<1>5. Within(queue[i], Omitted(i))
    BY <1>2, <1>4, WithinTwice
<1> QED BY <1>1, <1>2, <1>3, <1>4, <1>5 DEF Chosen

LEMMA HeadFacts ==
    ASSUME NEW s \in Seq(Msg), s # <<>>
    PROVE  Head(s) \in ToSet(s) /\ Head(s) \in Msg
<1>1. Len(s) \in Nat /\ Len(s) # 0
    BY EmptyFacts
<1>2. 1 \in 1..Len(s) /\ Head(s) = s[1]
    BY <1>1
<1> QED BY <1>2, EmptyFacts DEF ToSet

LEMMA ChooseMoves ==
    ASSUME FollowInv, NEW i \in Queues, Choose(i)
    PROVE  /\ \E q, rem : DrainMoves(i, q, rem, {})
           /\ drain'[i].pc # "turn" /\ drain[i].pc # "turn" /\ ~drain'[i].admitted
           /\ drain'[i].batch = <<>> \/ (i = live /\ ToSet(drain'[i].batch) \subseteq Held(queue[i]))
<1> DEFINE r == Chosen(i)
           rem == Gone(i, r)
           Done == /\ \E q : DrainMoves(i, q, rem, {})
                   /\ drain'[i].pc # "turn"
                   /\ \/ drain'[i].batch = <<>>
                      \/ i = live /\ ToSet(drain'[i].batch) \subseteq Held(queue[i])
           idle == ~HasWork(Kept(i))
           priority == Priority(Kept(i))
           due == Kept(i).dropped > 0
<1>1. /\ drain[i].pc = "debounce" /\ UNCHANGED <<lane, owed, turns, canceled>>
      /\ out' = Settled(rem, "canceled")
      /\ \/ idle /\ Ends(i, r, drain)
         \/ ~idle /\ priority # <<>> /\ Awaits(i, r, "priority", <<Head(priority)>>, 0)
         \/ Continues(i, r, drain)
         \/ Awaits(i, r, "summary", r.elided \o r.sources, Len(r.elided)) /\ SummaryDue(r)
         \/ Ends(i, r, drain)
         \/ r.items # <<>> /\ Awaits(i, r, "group", r.items, 0)
         \/ r.items # <<>> /\ Awaits(i, r, "item", <<Head(r.items)>>, 0)
    BY Zenon DEF Choose, Chosen, Omitted
<1>2. Good(queue[i])
    BY FollowQueues
<1>3. Good(r) /\ Within(queue[i], r)
    BY <1>2, ChosenFacts
<1>4. Held(r) = Held(queue[i]) \ rem /\ rem \subseteq Held(queue[i])
    BY <1>2, <1>3, WithinHeld
<1>5. SettlesOnly(rem)
    BY <1>1, SettledFacts DEF Outcomes
<1>6. Around
    BY <1>1, AroundStays
<1>7. priority # <<>> => r = Kept(i)
    BY DEF Chosen
<1>8. /\ priority \in Seq(Msg) /\ ToSet(priority) = ToSet(Kept(i).items) \ (Msg \ Retry)
      /\ ToSet(Kept(i).items) \subseteq Msg
    BY <1>2, KeptFacts, ListTypes, WithoutFacts, EmptyFacts DEF Priority
<1>9. r.items \in Seq(Msg) /\ r.elided \in Seq(Msg) /\ r.sources \in Seq(Msg)
    BY <1>3, ListTypes
<1> HIDE DEF r, rem
<1>10. Remains(i, r, rem)
    BY <1>1, <1>3, <1>4, KeptRemains
<1>11. Resumed(drain)
    BY ResumedFacts
<1>12. ASSUME Ends(i, r, drain) PROVE Done
    BY <1>5, <1>6, <1>10, <1>11, <1>12, EndsMoves, LoopFacts
<1>13. ASSUME Continues(i, r, drain) PROVE Done
    BY <1>5, <1>6, <1>10, <1>11, <1>13, ContinuesMoves, LoopFacts
<1>14. ASSUME priority # <<>>, Awaits(i, r, "priority", <<Head(priority)>>, 0) PROVE Done
    <2> DEFINE b == <<Head(priority)>>
               h == Head(priority)
    <2> HIDE DEF priority
    <2>1. h \in ToSet(priority) /\ h \in Msg
        BY <1>8, <1>14, HeadFacts
    <2> HIDE DEF h
    <2>2. b = <<h>>
        BY DEF h
    <2>3. b \in Seq(Msg) /\ ToSet(b) = {h} /\ b # <<>>
        BY <2>1, <2>2, OneFacts, EmptyFacts
    <2> HIDE DEF b
    <2>4. ToSet(b) \subseteq ToSet(r.items) \cap Retry
        BY <1>7, <1>8, <1>14, <2>1, <2>3
    <2>5. Awaits(i, r, "priority", b, 0)
        BY <1>14 DEF b
    <2>6. "priority" \in Kinds /\ 0 \in Nat
        BY DEF Kinds
    <2>7. (\E q : DrainMoves(i, q, rem, {})) /\ drain'[i].pc # "turn" /\ i = live
          /\ ToSet(drain'[i].batch) \subseteq Held(queue[i])
        BY <1>5, <1>6, <1>10, <2>3, <2>4, <2>5, <2>6, AwaitsMoves
    <2> QED BY <2>7
<1>15. ASSUME SummaryDue(r),
              Awaits(i, r, "summary", r.elided \o r.sources, Len(r.elided)) PROVE Done
    <2>1. /\ r.elided \o r.sources \in Seq(Msg) /\ Len(r.elided) \in Nat
          /\ r.elided \o r.sources # <<>>
        BY <1>3, <1>15, SummaryBatch DEF SummaryDue
    <2>2. "summary" \in Kinds
        BY DEF Kinds
    <2>3. (\E q : DrainMoves(i, q, rem, {})) /\ drain'[i].pc # "turn" /\ i = live
          /\ ToSet(drain'[i].batch) \subseteq Held(queue[i])
        BY <1>5, <1>6, <1>10, <1>15, <2>1, <2>2, AwaitsMoves
    <2> QED BY <2>3
<1>16. ASSUME r.items # <<>>, Awaits(i, r, "group", r.items, 0) PROVE Done
    <2>1. "group" \in Kinds /\ 0 \in Nat
        BY DEF Kinds
    <2>2. (\E q : DrainMoves(i, q, rem, {})) /\ drain'[i].pc # "turn" /\ i = live
          /\ ToSet(drain'[i].batch) \subseteq Held(queue[i])
        BY <1>5, <1>6, <1>9, <1>10, <1>16, <2>1, AwaitsMoves
    <2> QED BY <2>2
<1>17. ASSUME r.items # <<>>, Awaits(i, r, "item", <<Head(r.items)>>, 0) PROVE Done
    <2> DEFINE b == <<Head(r.items)>>
               h == Head(r.items)
    <2>1. h \in ToSet(r.items) /\ h \in Msg
        BY <1>9, <1>17, HeadFacts
    <2> HIDE DEF h
    <2>2. b = <<h>>
        BY DEF h
    <2>3. b \in Seq(Msg) /\ ToSet(b) = {h} /\ b # <<>>
        BY <2>1, <2>2, OneFacts, EmptyFacts
    <2> HIDE DEF b
    <2>4. ToSet(b) \subseteq ToSet(r.items)
        BY <2>1, <2>3
    <2>5. Awaits(i, r, "item", b, 0)
        BY <1>17 DEF b
    <2>6. "item" \in Kinds /\ 0 \in Nat
        BY DEF Kinds
    <2>7. (\E q : DrainMoves(i, q, rem, {})) /\ drain'[i].pc # "turn" /\ i = live
          /\ ToSet(drain'[i].batch) \subseteq Held(queue[i])
        BY <1>5, <1>6, <1>10, <2>3, <2>4, <2>5, <2>6, AwaitsMoves
    <2> QED BY <2>7
<1>18. Done
    BY <1>1, <1>12, <1>13, <1>14, <1>15, <1>16, <1>17
<1>19. ~drain'[i].admitted
    BY <1>18, IdleFacts DEF DrainMoves, DrainFits
<1> QED BY <1>1, <1>18, <1>19

-----------------------------------------------------------------------------
(* The turn gets the lane.                                                 *)

LEMMA PresentedFacts ==
    ASSUME FollowInv, NEW S
    PROVE  Presented(S) \in [Msg -> Nat]
<1>1. turns \in [Msg -> Nat]
    BY DEF FollowInv, FollowTypes
<1> QED BY <1>1 DEF Presented

(* A batch that nothing cancels is of the registered queue. *)
LEMMA UncanceledFacts ==
    ASSUME FollowInv, NEW i \in Queues, drain[i].pc = "wait", Canceled(i) = {}
    PROVE  /\ i = live /\ ~drain[i].admitted /\ BatchStays(queue[i], drain[i])
           /\ Batch(i) \cap canceled = {} /\ Batch(i) \subseteq Held(queue[i])
           /\ Batch(i) # {}
<1>1. /\ DrainFits(queue[i], drain[i]) /\ drain[i] \in DrainState
      /\ i = live => Fresh(queue[i], drain[i])
      /\ i # live => Stale(queue[i], drain[i])
    BY FollowQueues
<1>2. drain[i].batch # <<>> /\ drain[i].batch \in Seq(Msg) /\ drain[i].kind \in Kinds
      /\ ~drain[i].admitted /\ Delivering(drain[i])
    BY <1>1 DEF DrainFits, Delivering, DrainState
<1>3. Batch(i) # {}
    BY <1>2, EmptyFacts DEF Batch
<1>4. ~queue[i].aborted /\ Batch(i) \cap canceled = {}
    BY <1>3 DEF Canceled
<1>5. i = live
    BY <1>1, <1>4 DEF Stale
<1>6. BatchStays(queue[i], drain[i])
    BY <1>1, <1>2, <1>5 DEF Fresh
<1>7. Batch(i) \subseteq Held(queue[i])
    BY <1>2, <1>6 DEF BatchStays, Batch, Held, Kinds
<1> QED BY <1>2, <1>3, <1>4, <1>5, <1>6, <1>7

(* What leaves the queue when a turn takes its batch out. *)
AdmittedQueue(i) ==
    IF ~(Len(drain[i].batch) > 1) THEN queue[i]
    ELSE IF drain[i].kind = "summary" THEN Consumed(queue[i], Batch(i))
    ELSE [queue[i] EXCEPT !.items = Without(@, Batch(i))]

LEMMA AdmittedFacts ==
    ASSUME NEW i, Good(queue[i]), BatchStays(queue[i], drain[i]), drain[i].kind \in Kinds
    PROVE  /\ Good(AdmittedQueue(i)) /\ Within(queue[i], AdmittedQueue(i))
           /\ Held(AdmittedQueue(i)) =
                 Held(queue[i]) \ IF Len(drain[i].batch) > 1 THEN Batch(i) ELSE {}
<1> DEFINE r == queue[i]
           q == AdmittedQueue(i)
           many == Len(drain[i].batch) > 1
           B == Batch(i)
<1>1. /\ Good(r) /\ r.items \in Seq(Msg) /\ r.sources \in Seq(Msg) /\ r.elided \in Seq(Msg)
      /\ ToSet(r.items) \cap ToSet(r.sources) = {}
      /\ ToSet(r.items) \cap ToSet(r.elided) = {}
    BY ListTypes DEF Good, Listed
<1>2. CASE ~many
    <2>1. q = r
        BY <1>2 DEF AdmittedQueue
    <2>2. Within(r, r)
        BY <1>1, WithinItself
    <2> QED BY <1>1, <1>2, <2>1, <2>2
<1>3. CASE many /\ drain[i].kind = "summary"
    <2>1. q = Consumed(r, B)
        BY <1>3 DEF AdmittedQueue
    <2>2. B \subseteq ToSet(r.sources) \cup ToSet(r.elided)
        BY <1>3 DEF BatchStays, Batch
    <2>3. Pruned(r, Consumed(r, B), {}, B, B)
        BY <1>1, ConsumedPruned
    <2> DEFINE c == Consumed(r, B)
    <2>4. /\ c.items = r.items /\ c.sources = Without(r.sources, B)
          /\ c.elided = Without(r.elided, B)
        BY <1>1 DEF Consumed, Good, QueueState
    <2> HIDE DEF c, B, r
    <2>5. Good(c) /\ Within(r, c)
        BY <1>1, <2>3, PrunedWithin DEF c
    <2>6. Held(c) = Held(r) \ B
        <3>1. /\ ToSet(c.sources) = ToSet(r.sources) \ B
              /\ ToSet(c.elided) = ToSet(r.elided) \ B
            BY <1>1, <2>4, WithoutFacts
        <3> QED BY <1>1, <2>2, <2>4, <3>1 DEF Held
    <2> QED BY <1>3, <2>1, <2>5, <2>6 DEF c, B, r
<1>4. CASE many /\ drain[i].kind # "summary"
    <2>1. q = [r EXCEPT !.items = Without(@, B)]
        BY <1>4 DEF AdmittedQueue
    <2>2. B \subseteq ToSet(r.items)
        BY <1>4 DEF BatchStays, Batch, Kinds
    <2> DEFINE c == [r EXCEPT !.items = Without(@, B)]
    <2>3. Pruned(r, c, B, {}, {})
        BY <1>1, ItemsPruned
    <2>4. /\ c.items = Without(r.items, B) /\ c.sources = r.sources /\ c.elided = r.elided
        BY <1>1 DEF Good, QueueState
    <2> HIDE DEF c, B, r
    <2>5. Good(c) /\ Within(r, c)
        BY <1>1, <2>3, PrunedWithin
    <2>6. Held(c) = Held(r) \ B
        <3>1. ToSet(c.items) = ToSet(r.items) \ B
            BY <1>1, <2>4, WithoutFacts
        <3> QED BY <1>1, <2>2, <2>4, <3>1 DEF Held
    <2> QED BY <1>4, <2>1, <2>5, <2>6 DEF c, B, r
<1> QED BY <1>2, <1>3, <1>4

LEMMA AdmitMoves ==
    ASSUME FollowInv, NEW i \in Queues, Admit(i)
    PROVE  LET many == Len(drain[i].batch) > 1
           IN  /\ DrainMoves(i, AdmittedQueue(i), {}, IF many THEN Batch(i) ELSE {})
               /\ LaneFits' /\ Batch(i)' = Batch(i) /\ drain'[i].admitted = many
               /\ turns' = IF many THEN Presented(Batch(i)) ELSE turns
<1> DEFINE many == Len(drain[i].batch) > 1
           r == AdmittedQueue(i)
           e == [drain[i] EXCEPT !.pc = "turn", !.admitted = many,
                                 !.entry = @ /\ r.elided # <<>>]
           taken == IF many THEN Batch(i) ELSE {}
<1>1. /\ drain[i].pc = "wait" /\ Canceled(i) = {} /\ lane = "free" /\ lane' = "drain"
      /\ queue' = [queue EXCEPT ![i] = r]
      /\ drain' = [drain EXCEPT ![i] = e]
      /\ turns' = (IF many THEN Presented(Batch(i)) ELSE turns)
      /\ UNCHANGED <<live, owed, out, canceled>>
    BY DEF Admit, AdmittedQueue
<1>2. /\ i = live /\ ~drain[i].admitted /\ BatchStays(queue[i], drain[i])
      /\ Batch(i) \subseteq Held(queue[i])
    BY <1>1, UncanceledFacts
<1>3. /\ Good(queue[i]) /\ drain[i] \in DrainState /\ DrainFits(queue[i], drain[i])
      /\ ~queue[i].aborted /\ drain[i].batch # <<>> /\ drain[i].kind \in Kinds
    BY <1>1, <1>2, FollowQueues DEF DrainFits, Delivering, Fresh
<1>4. Good(r) /\ Within(queue[i], r) /\ Held(r) = Held(queue[i]) \ taken
    BY <1>2, <1>3, AdmittedFacts
<1>5. ~many => r = queue[i]
    BY DEF AdmittedQueue
<1>6. Around
    BY <1>1, PresentedFacts DEF Around, FollowInv, FollowTypes
<1>7. SettlesOnly({})
    BY <1>1 DEF SettlesOnly, FollowInv, FollowTypes
<1> HIDE DEF r
<1>8. many \in BOOLEAN /\ (r.elided # <<>>) \in BOOLEAN
    OBVIOUS
<1>9. /\ e \in DrainState /\ e.pc = "turn" /\ e.admitted = many /\ e.batch = drain[i].batch
      /\ e.kind = drain[i].kind /\ e.elided = drain[i].elided
      /\ (e.entry <=> drain[i].entry /\ r.elided # <<>>)
    BY <1>3, <1>8 DEF DrainState
<1> HIDE DEF e
<1>10. /\ drain' \in [Queues -> DrainState] /\ drain'[i] = e
       /\ \A j \in Queues \ {i} : drain'[j] = drain[j]
    BY <1>1, <1>9 DEF FollowInv, FollowTypes
<1>11. r.inFlight = queue[i].inFlight /\ r.aborted = queue[i].aborted
    BY <1>4 DEF Within, Kin
<1>12. DrainFits(r, e)
    BY <1>3, <1>9, <1>11 DEF DrainFits, Delivering
<1>13. ~many => BatchStays(r, e)
    <2>1. ASSUME ~many PROVE BatchStays(r, e)
        <3>1. BatchStays(r, drain[i]) /\ r = queue[i]
            BY <1>2, <1>5, <2>1
        <3>2. drain[i].kind = "summary" => (e.entry <=> e.elided > 0)
            <4>1. ASSUME drain[i].kind = "summary" PROVE (e.entry <=> e.elided > 0)
                <5>1. /\ (drain[i].entry <=> drain[i].elided > 0)
                      /\ drain[i].elided <= Len(r.elided)
                    BY <3>1, <4>1 DEF BatchStays
                <5>2. r.elided \in Seq(Msg) /\ drain[i].elided \in Nat
                    BY <1>3, <1>4, ListTypes DEF DrainState
                <5>3. drain[i].elided > 0 => r.elided # <<>>
                    BY <5>1, <5>2, EmptyFacts
                <5> QED BY <1>9, <5>1, <5>3
            <4> QED BY <4>1
        <3> QED BY <1>9, <3>1, <3>2 DEF BatchStays
    <2> QED BY <2>1
<1>14. Fresh(r, e)
    BY <1>3, <1>9, <1>11, <1>13 DEF Fresh
<1>15. Batch(i)' = Batch(i)
    BY <1>9, <1>10 DEF Batch
<1>16. DrainMoves(i, r, {}, taken)
    <2>1. taken \subseteq Held(queue[i]) /\ Held(r) = Held(queue[i]) \ ({} \cup taken)
        BY <1>2, <1>4
    <2>2. drain'[i].admitted => i = live' /\ taken = ToSet(drain'[i].batch)
        BY <1>1, <1>2, <1>9, <1>10 DEF Batch
    <2>3. ~drain'[i].admitted => taken = {}
        BY <1>9, <1>10
    <2> HIDE DEF taken
    <2> QED BY <1>1, <1>2, <1>4, <1>6, <1>7, <1>9, <1>10, <1>12, <1>14, <2>1, <2>2, <2>3
        DEF DrainMoves, Around
<1>17. LaneFits'
    <2>1. \A j \in Queues : drain[j].pc # "turn"
        BY <1>1 DEF FollowInv, LaneFits
    <2>2. \A j \in Queues : drain'[j].pc = "turn" <=> j = i
        BY <1>9, <1>10, <2>1
    <2> QED BY <1>1, <2>2 DEF LaneFits
<1> QED BY <1>1, <1>9, <1>10, <1>15, <1>16, <1>17 DEF r

-----------------------------------------------------------------------------
(* The end of a turn.                                                      *)

LEMMA FreedFacts ==
    ASSUME NEW i, DrainFits(queue[i], drain[i]),
           NEW r, Good(r), r.inFlight = queue[i].inFlight, NEW S
    PROVE  LET q == Freed(i, r, S)
           IN  /\ Good(q) /\ q.inFlight = {} /\ q.aborted = r.aborted
               /\ q.items = r.items /\ q.sources = r.sources /\ q.elided = r.elided
               /\ q.dropped = r.dropped /\ Held(q) = Held(r)
<1> DEFINE q == Freed(i, r, S)
           a == r.active \ (Batch(i) \ S)
<1>1. r \in QueueState
    BY DEF Good
<1>2. drain[i].kind \notin {"item", "group"} => r.inFlight = {}
    BY DEF DrainFits
<1>3. a \subseteq Msg
    BY <1>1 DEF QueueState
<1> HIDE DEF a
<1>4. /\ q \in QueueState /\ q.inFlight = {} /\ q.aborted = r.aborted
      /\ q.items = r.items /\ q.sources = r.sources /\ q.elided = r.elided
      /\ q.dropped = r.dropped /\ q.evicted = r.evicted
    <2>1. CASE drain[i].kind = "summary"
        <3>1. q = [r EXCEPT !.active = a]
            BY <2>1 DEF Freed, a
        <3>2. r.inFlight = {}
            BY <1>2, <2>1
        <3> HIDE DEF q
        <3> QED BY <1>1, <1>3, <3>1, <3>2 DEF QueueState
    <2>2. CASE drain[i].kind = "priority"
        <3>1. q = r
            BY <2>2 DEF Freed
        <3>2. r.inFlight = {}
            BY <1>2, <2>2
        <3> QED BY <1>1, <3>1, <3>2
    <2>3. CASE drain[i].kind \notin {"summary", "priority"}
        <3>1. q = [r EXCEPT !.inFlight = {}]
            BY <2>3 DEF Freed
        <3> HIDE DEF q
        <3> QED BY <1>1, <3>1 DEF QueueState
    <2> QED BY <2>1, <2>2, <2>3
<1> HIDE DEF q
<1>5. Listed(q)
    BY <1>4 DEF Good, Listed
<1>6. Held(q) = Held(r)
    BY <1>4 DEF Held
<1> QED BY <1>4, <1>5, <1>6 DEF Good, q

(* A delivered summary cuts the front of the elided sources. *)
LEMMA SplicedFacts ==
    ASSUME NEW i, drain[i] \in DrainState, NEW t, Good(t)
    PROVE  LET q == Spliced(i, t)
           IN  /\ Good(q) /\ Within(t, q)
               /\ q.items = t.items /\ q.sources = t.sources
               /\ Held(q) = Held(t) \ (ToSet(t.elided) \ ToSet(q.elided))
<1> DEFINE q == Spliced(i, t)
           x == Len(t.elided)
           k == drain[i].elided
           n == IF k < x THEN k ELSE x
           e == SubSeq(t.elided, n + 1, x)
<1>1. /\ t.elided \in Seq(Msg) /\ x \in Nat /\ t \in QueueState /\ k \in Nat
      /\ IsInjective(t.elided) /\ t.dropped \in Nat /\ t.evicted \in Nat
      /\ Len(t.sources) \in Nat
    BY ListTypes DEF Good, Listed, DrainState
<1>2. CASE ~(drain[i].kind = "summary" /\ drain[i].entry)
    <2>1. q = t
        BY <1>2 DEF Spliced
    <2>2. Within(t, t)
        BY WithinItself
    <2>3. ToSet(t.elided) \ ToSet(t.elided) = {} /\ \A S : S \ {} = S
        OBVIOUS
    <2> QED BY <2>1, <2>2, <2>3
<1>3. CASE drain[i].kind = "summary" /\ drain[i].entry
    <2>1. q = [t EXCEPT !.elided = e, !.dropped = @ - n]
        BY <1>3 DEF Spliced
    <2>2. n \in 0..x
        <3> HIDE DEF x, k
        <3> QED BY <1>1
    <2> HIDE DEF n
    <2>3. IsRest(e, t.elided, n)
        BY <1>1, <2>2, RestIs
    <2>4. IsFirst(SubSeq(t.elided, 1, n), t.elided, n)
        BY <1>1, <2>2, FirstIs
    <2> DEFINE p == SubSeq(t.elided, 1, n)
    <2> HIDE DEF e, p
    <2>5. IsFirst(p, t.elided, n)
        BY <2>4 DEF p
    <2>6. /\ ToSet(t.elided) = ToSet(p) \cup ToSet(e) /\ IsInjective(e)
          /\ ToSet(p) \cap ToSet(e) = {}
        BY <1>1, <2>2, <2>3, <2>5, SplitFacts
    <2>7. e \in Seq(Msg) /\ Len(e) = x - n
        BY <2>3 DEF IsRest
    <2>8. /\ t.dropped - n \in Nat /\ t.dropped - n <= t.dropped
          /\ t.dropped - n = Len(t.sources) + Len(e) + t.evicted
        <3> DEFINE a == Len(t.sources)
                   b == Len(e)
                   c == t.evicted
                   d == t.dropped
        <3>1. /\ a \in Nat /\ b = x - n /\ c \in Nat /\ d \in Nat /\ d = a + x + c
              /\ x \in Nat /\ n \in 0..x
            BY <1>1, <2>2, <2>7 DEF Good, Listed
        <3> HIDE DEF a, b, c, d, x
        <3>2. d - n \in Nat /\ d - n <= d /\ d - n = a + b + c
            BY <3>1
        <3> QED BY <3>2 DEF a, b, c, d
    <2> HIDE DEF q
    <2>9. q \in QueueState
        BY <1>1, <2>1, <2>7, <2>8 DEF QueueState
    <2>10. /\ q.items = t.items /\ q.sources = t.sources /\ q.elided = e
           /\ q.evicted = t.evicted /\ q.dropped = t.dropped - n
           /\ q.inFlight = t.inFlight /\ q.active = t.active /\ q.aborted = t.aborted
        BY <1>1, <2>1 DEF QueueState
    <2>11. ToSet(e) \subseteq ToSet(t.elided)
        BY <2>6
    <2>12. Listed(q)
        BY <2>6, <2>8, <2>10, <2>11 DEF Good, Listed
    <2>13. Within(t, q)
        BY <2>8, <2>10, <2>11 DEF Within, Kin
    <2>14. Held(q) = Held(t) \ (ToSet(t.elided) \ ToSet(q.elided))
        BY <2>10, <2>11 DEF Held, Good, Listed
    <2> QED BY <2>9, <2>10, <2>12, <2>13, <2>14 DEF Good, q
<1> QED BY <1>2, <1>3

(* After that, none of the sources the summary counted is left: of s, the  *)
(* first k were counted, and X and then E were taken out before.           *)
LEMMA FrontGone ==
    ASSUME NEW s \in Seq(Msg), IsInjective(s), NEW k \in 0..Len(s), NEW X, NEW E,
           \A x \in 1..k : s[x] \notin X,
           NEW n, n = IF k < Len(Without(Without(s, X), E)) THEN k
                      ELSE Len(Without(Without(s, X), E)),
           NEW q, IsRest(q, Without(Without(s, X), E), n)
    PROVE  \A x \in 1..k : s[x] \notin ToSet(q)
<1> DEFINE a == Without(s, X)
           b == Without(a, E)
<1>1. a \in Seq(Msg) /\ IsInjective(a)
    BY WithoutFacts
<1>2. k <= Len(a) /\ \A x \in 1..k : a[x] = s[x]
    BY WithoutKeepsFront
<1>3. k \in 0..Len(a) /\ k \in Nat /\ Len(a) \in Nat
    BY <1>1, <1>2, EmptyFacts
<1> HIDE DEF a
<1>4. b \in Seq(Msg) /\ Len(b) \in Nat
    BY <1>1, WithoutFacts, EmptyFacts
<1>5. PICK j \in 0..k : /\ j <= Len(b)
                        /\ \A x \in 1..Len(b) : x > j =>
                              \E y \in 1..Len(a) : y > k /\ b[x] = a[y]
    BY <1>1, <1>3, WithoutFront
<1>6. n = (IF k < Len(b) THEN k ELSE Len(b)) /\ IsRest(q, b, n)
    BY DEF a
<1> HIDE DEF b
<1>7. n \in Nat /\ j <= n /\ n <= Len(b)
    BY <1>3, <1>4, <1>5, <1>6
<1>8. ASSUME NEW x \in 1..k, s[x] \in ToSet(q)
      PROVE  FALSE
    <2>1. PICK z \in 1..(Len(b) - n) : q[z] = s[x]
        <3>1. q \in Seq(Msg) /\ Len(q) = Len(b) - n
            BY <1>6 DEF IsRest
        <3>2. PICK z \in DOMAIN q : q[z] = s[x]
            BY <1>8 DEF ToSet
        <3>3. DOMAIN q = 1..(Len(b) - n)
            BY <3>1
        <3> QED BY <3>2, <3>3
    <2>2. q[z] = b[z + n] /\ z + n \in 1..Len(b) /\ z + n > j
        BY <1>4, <1>5, <1>6, <1>7, <2>1 DEF IsRest
    <2>3. PICK y \in 1..Len(a) : y > k /\ b[z + n] = a[y]
        BY <1>5, <2>2
    <2>4. a[x] = a[y] /\ x \in 1..Len(a) /\ x # y
        <3>1. x \in 1..Len(a) /\ x # y
            BY <1>2, <1>3, <2>3
        <3>2. a[x] = s[x]
            BY <1>2
        <3> QED BY <2>1, <2>2, <2>3, <3>1, <3>2, Zenon
    <2>5. DOMAIN a = 1..Len(a) /\ y \in 1..Len(a)
        BY <1>1
    <2>6. \A u, v \in DOMAIN a : a[u] = a[v] => u = v
        BY <1>1 DEF IsInjective
    <2> QED BY <2>4, <2>5, <2>6
<1> QED BY <1>8

(* What Returns names: the sources that went away, what is done, what is   *)
(* left of the queue before and after the trim and the cut.                *)
TurnGone(i) ==
    IF drain[i].admitted \/ drain[i].kind \in {"item", "priority"} THEN {}
    ELSE Canceled(i)
TurnDone(i) == IF TurnGone(i) # {} THEN TurnGone(i) ELSE Batch(i)
Counted(i) == ToSet(SubSeq(drain[i].batch, 1, drain[i].elided))
Consumes(i) == IF TurnGone(i) # {} THEN TurnGone(i) ELSE TurnDone(i) \ Counted(i)
TurnLeft(i) ==
    IF drain[i].kind = "summary" THEN Consumed(queue[i], Consumes(i))
    ELSE [queue[i] EXCEPT !.items = Without(@, TurnDone(i))]
TurnFreed(i) == Freed(i, TurnLeft(i), {})
TurnTrimmed(i) == Trimmed(TurnFreed(i))
TurnLast(i) ==
    IF TurnGone(i) # {} THEN TurnTrimmed(i) ELSE Spliced(i, TurnTrimmed(i))
TurnCut(i) == ToSet(TurnTrimmed(i).elided) \ ToSet(TurnLast(i).elided)
TurnSettles(i) == Evicted(TurnFreed(i)) \cup TurnDone(i) \cup TurnCut(i)

(* The batch is in the queue, in the lists of its kind, or not at all. *)
BatchKnown(i) ==
    \/ Batch(i) \cap Held(queue[i]) = {}
    \/ BatchStays(queue[i], drain[i]) /\ drain[i].kind \in Kinds

LEMMA BatchIsKnown ==
    ASSUME FollowInv, NEW i \in Queues, Delivering(drain[i])
    PROVE  BatchKnown(i) /\ (~drain[i].admitted => drain[i].kind \in Kinds)
<1>1. /\ DrainFits(queue[i], drain[i])
      /\ i = live => Fresh(queue[i], drain[i])
      /\ i # live => Stale(queue[i], drain[i])
    BY FollowQueues
<1>2. CASE i # live
    BY <1>1, <1>2, StaleIsEmpty DEF BatchKnown, DrainFits
<1>3. CASE i = live /\ drain[i].admitted
    <2>1. Batch(i) \subseteq Taken
        BY <1>3, TakenIs
    <2>2. Held(queue[i]) \cap Taken = {}
        BY HeldIs DEF FollowInv, Accounted
    <2> QED BY <1>1, <1>3, <2>1, <2>2 DEF BatchKnown
<1>4. CASE i = live /\ ~drain[i].admitted
    BY <1>1, <1>4 DEF BatchKnown, Fresh, DrainFits
<1> QED BY <1>2, <1>3, <1>4

LEMMA ReturnsSettles ==
    ASSUME FollowInv, NEW i \in Queues, NEW how \in Outcomes \ {"new", "queued"}, NEW d,
           Returns(i, how, d)
    PROVE  Continues(i, TurnLast(i), d) /\ SettlesOnly(TurnSettles(i))
<1> DEFINE code == IF TurnGone(i) # {} THEN "canceled"
                   ELSE IF how = "run" /\ drain[i].kind = "summary" THEN "summary"
                   ELSE how
<1>1. /\ Continues(i, TurnLast(i), d)
      /\ out' = [m \in Msg |->
                     IF out[m] # "queued" THEN out[m]
                     ELSE IF m \in Evicted(TurnFreed(i)) THEN "omitted"
                     ELSE IF m \in TurnDone(i) \/ m \in TurnCut(i) THEN code
                     ELSE "queued"]
    BY DEF Returns, TurnGone, TurnDone, Counted, Consumes, TurnLeft, TurnFreed,
           TurnTrimmed, TurnLast, TurnCut
<1>2. code \in Outcomes \ {"new", "queued"}
    BY DEF Outcomes
<1> HIDE DEF code
<1>3. "omitted" \in Outcomes /\ "queued" \in Outcomes /\ out \in [Msg -> Outcomes]
    BY DEF Outcomes, FollowInv, FollowTypes
<1>4. out' \in [Msg -> Outcomes]
    BY <1>1, <1>2, <1>3
<1>5. \A m \in Msg :
          IF out[m] = "queued" /\ m \in TurnSettles(i) THEN out'[m] \notin {"new", "queued"}
          ELSE out'[m] = out[m]
    BY <1>1, <1>2 DEF TurnSettles
<1> QED BY <1>1, <1>4, <1>5 DEF SettlesOnly

LEMMA DoneFacts ==
    ASSUME NEW i
    PROVE  /\ TurnGone(i) \subseteq Batch(i) /\ TurnDone(i) \subseteq Batch(i)
           /\ Consumes(i) \subseteq Batch(i)
           /\ TurnGone(i) = {} => TurnDone(i) = Batch(i)
           /\ drain[i].admitted => TurnGone(i) = {}
BY DEF TurnGone, TurnDone, Consumes, Canceled

(* What a turn that was not for a summary presented leaves the items. *)
LEMMA LeftOfItems ==
    ASSUME NEW i, Good(queue[i]), BatchKnown(i), drain[i].kind # "summary"
    PROVE  /\ Good(TurnLeft(i)) /\ Within(queue[i], TurnLeft(i))
           /\ Held(TurnLeft(i)) = Held(queue[i]) \ TurnDone(i)
<1> DEFINE r == queue[i]
           B == TurnDone(i)
           c == [r EXCEPT !.items = Without(@, B)]
<1>1. /\ Good(r) /\ r.items \in Seq(Msg)
      /\ ToSet(r.items) \cap ToSet(r.sources) = {}
      /\ ToSet(r.items) \cap ToSet(r.elided) = {}
    BY ListTypes DEF Good, Listed
<1>2. TurnLeft(i) = c
    BY DEF TurnLeft
<1>3. B \cap Held(r) \subseteq ToSet(r.items)
    <2>1. Batch(i) \cap Held(r) \subseteq ToSet(r.items)
        BY DEF BatchKnown, BatchStays, Kinds, Batch
    <2> QED BY <2>1, DoneFacts
<1>4. Pruned(r, c, B, {}, {})
    BY <1>1, ItemsPruned
<1>5. /\ c.items = Without(r.items, B) /\ c.sources = r.sources /\ c.elided = r.elided
    BY <1>1 DEF Good, QueueState
<1> HIDE DEF c, B, r
<1>6. Good(c) /\ Within(r, c)
    BY <1>1, <1>4, PrunedWithin
<1>7. Held(c) = Held(r) \ B
    <2>1. ToSet(c.items) = ToSet(r.items) \ B
        BY <1>1, <1>5, WithoutFacts
    <2> QED BY <1>1, <1>3, <1>5, <2>1 DEF Held
<1> QED BY <1>2, <1>6, <1>7 DEF c, B, r

LEMMA LeftOfSummary ==
    ASSUME NEW i, Good(queue[i]), BatchKnown(i), drain[i].kind = "summary"
    PROVE  /\ Good(TurnLeft(i)) /\ Within(queue[i], TurnLeft(i))
           /\ Held(TurnLeft(i)) = Held(queue[i]) \ Consumes(i)
           /\ TurnLeft(i).elided = Without(queue[i].elided, Consumes(i))
<1> DEFINE r == queue[i]
           B == Consumes(i)
           c == Consumed(r, B)
<1>1. /\ Good(r) /\ r.sources \in Seq(Msg) /\ r.elided \in Seq(Msg)
      /\ ToSet(r.items) \cap ToSet(r.sources) = {}
      /\ ToSet(r.items) \cap ToSet(r.elided) = {}
    BY ListTypes DEF Good, Listed
<1>2. TurnLeft(i) = c
    BY DEF TurnLeft
<1>3. B \cap ToSet(r.items) = {}
    <2>1. Batch(i) \cap ToSet(r.items) = {}
        BY <1>1 DEF BatchKnown, BatchStays, Batch, Held
    <2> QED BY <2>1, DoneFacts
<1>4. Pruned(r, Consumed(r, B), {}, B, B)
    BY <1>1, ConsumedPruned
<1>5. /\ c.items = r.items /\ c.sources = Without(r.sources, B)
      /\ c.elided = Without(r.elided, B)
    BY <1>1 DEF Consumed, Good, QueueState
<1> HIDE DEF c, B, r
<1>6. Good(c) /\ Within(r, c)
    BY <1>1, <1>4, PrunedWithin DEF c
<1>7. Held(c) = Held(r) \ B
    <2>1. ToSet(c.sources) = ToSet(r.sources) \ B /\ ToSet(c.elided) = ToSet(r.elided) \ B
        BY <1>1, <1>5, WithoutFacts
    <2> QED BY <1>1, <1>3, <1>5, <2>1 DEF Held
<1> QED BY <1>2, <1>5, <1>6, <1>7 DEF c, B, r

(* The queue after the turn, and what it lost on the way. *)
LEMMA TrimmedTurn ==
    ASSUME NEW i, Good(queue[i]), BatchKnown(i), DrainFits(queue[i], drain[i])
    PROVE  /\ Good(TurnFreed(i)) /\ Good(TurnTrimmed(i))
           /\ Shrinks(queue[i], TurnTrimmed(i)) /\ TurnTrimmed(i).inFlight = {}
           /\ Held(TurnTrimmed(i)) = Held(TurnLeft(i)) \ Evicted(TurnFreed(i))
           /\ TurnFreed(i).elided = TurnLeft(i).elided
           /\ TurnTrimmed(i).items = TurnLeft(i).items
           /\ TurnTrimmed(i).sources = TurnLeft(i).sources
           /\ TurnTrimmed(i).elided = Without(TurnLeft(i).elided, Evicted(TurnFreed(i)))
           /\ Evicted(TurnFreed(i)) \subseteq Held(queue[i])
<1>1. Good(TurnLeft(i)) /\ Within(queue[i], TurnLeft(i))
    BY LeftOfItems, LeftOfSummary
<1>2. TurnLeft(i).inFlight = queue[i].inFlight
    BY <1>1 DEF Within, Kin
<1> DEFINE l == TurnLeft(i)
           f == TurnFreed(i)
           t == TurnTrimmed(i)
<1>3. /\ Good(f) /\ f.inFlight = {} /\ f.aborted = l.aborted
      /\ f.items = l.items /\ f.sources = l.sources /\ f.elided = l.elided
      /\ f.dropped = l.dropped /\ Held(f) = Held(l)
    BY <1>1, <1>2, FreedFacts DEF TurnFreed
<1>4. /\ Good(t) /\ Kin(f, t) /\ Shrinks(f, t) /\ t.items = f.items /\ t.sources = f.sources
      /\ t.elided = Without(f.elided, Evicted(f)) /\ Held(t) = Held(f) \ Evicted(f)
    BY <1>3, TrimmedFacts DEF TurnTrimmed
<1>5. Evicted(f) \subseteq Held(f)
    BY <1>3, EvictedFacts DEF Held
<1>6. Shrinks(queue[i], l)
    BY <1>1, WithinShrinks
<1>7. t.dropped <= queue[i].dropped
    <2>1. t.dropped \in Nat /\ l.dropped \in Nat /\ queue[i].dropped \in Nat
        BY <1>1, <1>4, ListTypes
    <2>2. t.dropped <= l.dropped /\ l.dropped <= queue[i].dropped
        BY <1>3, <1>4, <1>6 DEF Shrinks
    <2> HIDE DEF l, f, t
    <2> QED BY <2>1, <2>2
<1>8. Shrinks(queue[i], t)
    BY <1>3, <1>4, <1>6, <1>7 DEF Shrinks
<1>9. t.inFlight = {} /\ Evicted(f) \subseteq Held(queue[i])
    BY <1>3, <1>4, <1>5, <1>6 DEF Kin, Shrinks
<1> QED BY <1>3, <1>4, <1>8, <1>9

(* No source that a returned summary presented stays in the queue. *)
LEMMA NothingPresentedStays ==
    ASSUME NEW i, Good(queue[i]), BatchKnown(i), DrainFits(queue[i], drain[i]),
           drain[i] \in DrainState, drain[i].kind = "summary", TurnGone(i) = {},
           NEW m \in Batch(i), m \in Held(TurnLast(i))
    PROVE  FALSE
<1> DEFINE s == queue[i].elided
           k == drain[i].elided
           b == drain[i].batch
           X == Consumes(i)
           Ev == Evicted(TurnFreed(i))
           t == TurnTrimmed(i)
           q == TurnLast(i)
<1>1. /\ Good(t) /\ Shrinks(queue[i], t) /\ Held(t) = Held(TurnLeft(i)) \ Ev
      /\ t.items = TurnLeft(i).items /\ t.sources = TurnLeft(i).sources
      /\ t.elided = Without(TurnLeft(i).elided, Ev)
    BY TrimmedTurn
<1>2. /\ Good(TurnLeft(i)) /\ Within(queue[i], TurnLeft(i))
      /\ Held(TurnLeft(i)) = Held(queue[i]) \ X
      /\ TurnLeft(i).elided = Without(s, X)
    BY LeftOfSummary
<1>3. q = Spliced(i, t)
    BY DEF TurnLast
<1>4. /\ Good(q) /\ Within(t, q) /\ q.items = t.items /\ q.sources = t.sources
      /\ Held(q) \subseteq Held(t)
    BY <1>1, <1>3, SplicedFacts
<1>5. m \in Held(queue[i]) /\ m \notin X
    BY <1>1, <1>2, <1>4
<1>6. BatchStays(queue[i], drain[i])
    BY <1>5 DEF BatchKnown
<1>7. /\ drain[i].entry <=> k > 0
      /\ k \in Nat /\ k <= Len(b) /\ k <= Len(s)
      /\ \A x \in 1..k : b[x] = s[x]
      /\ b \in Seq(Msg) /\ Len(b) \in Nat /\ s \in Seq(Msg) /\ Len(s) \in Nat
      /\ IsInjective(s)
    BY <1>6, ListTypes, EmptyFacts DEF BatchStays, DrainState, Good, Listed
<1> HIDE DEF s, b, k
<1>8. /\ Counted(i) = ToSet(SubSeq(b, 1, k)) /\ X = Batch(i) \ Counted(i)
    BY DoneFacts DEF Counted, Consumes, b, k
<1> DEFINE p == SubSeq(b, 1, k)
<1>9. IsFirst(p, b, k)
    BY <1>7, FirstIs
<1> HIDE DEF p, X
<1>10. m \in ToSet(p)
    BY <1>5, <1>8 DEF p
<1>11. PICK x \in 1..k : m = b[x]
    BY <1>9, <1>10 DEF IsFirst, ToSet
<1>12. m = s[x] /\ k > 0
    BY <1>7, <1>11
<1>13. \A y \in 1..k : s[y] \notin X
    <2>1. \A y \in 1..k : p[y] \in ToSet(p)
        BY <1>7, <1>9 DEF IsFirst, ToSet
    <2>2. \A y \in 1..k : p[y] = s[y]
        BY <1>7, <1>9 DEF IsFirst
    <2> QED BY <1>8, <2>1, <2>2 DEF p
<1> DEFINE w == Without(Without(s, X), Ev)
           n == IF k < Len(w) THEN k ELSE Len(w)
<1>14. t.elided = w
    BY <1>1, <1>2
<1>15. w \in Seq(Msg) /\ Len(w) \in Nat
    BY <1>1, <1>14, ListTypes
<1> HIDE DEF t, q, Ev
<1>16. q.elided = SubSeq(w, n + 1, Len(w))
    <2>1. Spliced(i, t) = [t EXCEPT !.elided = SubSeq(w, n + 1, Len(w)), !.dropped = @ - n]
        BY <1>7, <1>12, <1>14 DEF Spliced, k
    <2> DEFINE e == SubSeq(w, n + 1, Len(w))
    <2> HIDE DEF e, w, n
    <2>2. Spliced(i, t) = [t EXCEPT !.elided = e, !.dropped = @ - n]
        BY <2>1 DEF e
    <2>3. Spliced(i, t).elided = e
        BY <1>1, <2>2 DEF Good, QueueState
    <2> QED BY <1>3, <2>3 DEF e
<1>17. k \in 0..Len(s)
    BY <1>7
<1>18. n \in 0..Len(w)
    <2> HIDE DEF w
    <2> QED BY <1>7, <1>15
<1>19. IsRest(q.elided, w, n)
    <2>1. IsRest(SubSeq(w, n + 1, Len(w)), w, n)
        <3> HIDE DEF w, n
        <3> QED BY <1>15, <1>18, RestIs
    <2> QED BY <1>16, <2>1
<1>20. \A y \in 1..k : s[y] \notin ToSet(q.elided)
    BY <1>7, <1>13, <1>17, <1>19, FrontGone
<1>21. m \notin ToSet(q.elided)
    BY <1>11, <1>12, <1>20
<1>22. m \in ToSet(s)
    <2>1. x \in 1..Len(s)
        BY <1>7
    <2> QED BY <1>7, <1>12, <2>1 DEF ToSet
<1>23. m \notin ToSet(q.items) /\ m \notin ToSet(q.sources)
    <2>1. m \notin ToSet(queue[i].items) /\ m \notin ToSet(queue[i].sources)
        BY <1>22 DEF Good, Listed, s
    <2> QED BY <1>1, <1>2, <1>4, <2>1 DEF Within
<1> QED BY <1>21, <1>23 DEF Held, q

LEMMA ReturnsRemains ==
    ASSUME FollowInv, NEW i \in Queues, Delivering(drain[i])
    PROVE  Remains(i, TurnLast(i), TurnSettles(i))
<1> DEFINE t == TurnTrimmed(i)
           q == TurnLast(i)
           Ev == Evicted(TurnFreed(i))
           cut == TurnCut(i)
           B == TurnDone(i)
<1>1. /\ Good(queue[i]) /\ DrainFits(queue[i], drain[i]) /\ drain[i] \in DrainState
      /\ BatchKnown(i)
    BY FollowQueues, BatchIsKnown
<1>2. /\ Good(t) /\ Shrinks(queue[i], t) /\ t.inFlight = {}
      /\ Held(t) = Held(TurnLeft(i)) \ Ev /\ Ev \subseteq Held(queue[i])
    BY <1>1, TrimmedTurn
<1>3. Held(TurnLeft(i)) \subseteq Held(queue[i])
    BY <1>1, LeftOfItems, LeftOfSummary
<1>4. /\ Good(q) /\ Within(t, q) /\ Held(q) = Held(t) \ cut
    <2>1. CASE q = t
        <3>1. cut = {}
            BY <2>1 DEF TurnCut
        <3> QED BY <1>2, <2>1, <3>1, WithinItself
    <2>2. CASE q = Spliced(i, t)
        BY <1>1, <1>2, <2>2, SplicedFacts DEF TurnCut
    <2> QED BY <2>1, <2>2 DEF TurnLast
<1>5. Shrinks(queue[i], q) /\ q.inFlight = {}
    <2>1. Shrinks(t, q) /\ q.inFlight = t.inFlight
        BY <1>2, <1>4, WithinShrinks DEF Within, Kin
    <2>2. q.dropped <= queue[i].dropped
        <3>1. q.dropped \in Nat /\ t.dropped \in Nat /\ queue[i].dropped \in Nat
            BY <1>1, <1>2, <1>4, ListTypes
        <3> HIDE DEF q, t
        <3> QED BY <1>2, <2>1, <3>1 DEF Shrinks
    <2> QED BY <1>2, <2>1, <2>2 DEF Shrinks
<1>6. cut \subseteq Held(queue[i])
    BY <1>2, <1>3 DEF TurnCut, Held
<1>7. Held(q) = Held(queue[i]) \ (Ev \cup B \cup cut)
    <2>1. CASE drain[i].kind # "summary"
        <3>1. Held(TurnLeft(i)) = Held(queue[i]) \ B
            BY <1>1, <2>1, LeftOfItems
        <3> QED BY <1>2, <1>4, <3>1
    <2>2. CASE drain[i].kind = "summary" /\ TurnGone(i) # {}
        <3>1. Held(TurnLeft(i)) = Held(queue[i]) \ Consumes(i) /\ Consumes(i) = B
            BY <1>1, <2>2, LeftOfSummary DEF Consumes, TurnDone
        <3> QED BY <1>2, <1>4, <3>1
    <2>3. CASE drain[i].kind = "summary" /\ TurnGone(i) = {}
        <3>1. Held(TurnLeft(i)) = Held(queue[i]) \ Consumes(i) /\ Consumes(i) \subseteq B
            BY <1>1, <2>3, LeftOfSummary DEF Consumes, TurnDone
        <3>2. B = Batch(i)
            BY <2>3, DoneFacts
        <3>3. B \cap Held(q) = {}
            BY <1>1, <2>3, <3>2, NothingPresentedStays
        <3> QED BY <1>2, <1>4, <3>1, <3>3
    <2> QED BY <2>1, <2>2, <2>3
<1>8. drain[i].admitted => Batch(i) \subseteq TurnSettles(i)
    BY DoneFacts DEF TurnSettles
<1>9. TurnSettles(i) \subseteq Held(queue[i]) \cup Batch(i)
    BY <1>2, <1>6, DoneFacts DEF TurnSettles
<1>10. drain[i].pc # "off"
    BY DEF Delivering
<1> QED BY <1>4, <1>5, <1>7, <1>8, <1>9, <1>10 DEF Remains, TurnSettles

(* A turn that throws. *)
ThrowsLeft(i, S) == Freed(i, queue[i], S)
ThrowsSettles(i, S) ==
    Evicted(ThrowsLeft(i, S)) \cup IF drain[i].admitted THEN Batch(i) ELSE {}

LEMMA ThrowsRemains ==
    ASSUME FollowInv, NEW i \in Queues, Delivering(drain[i]), NEW S
    PROVE  Remains(i, Trimmed(ThrowsLeft(i, S)), ThrowsSettles(i, S))
<1> DEFINE f == ThrowsLeft(i, S)
           t == Trimmed(f)
           Ev == Evicted(f)
<1>1. Good(queue[i]) /\ DrainFits(queue[i], drain[i])
    BY FollowQueues
<1>2. /\ Good(f) /\ f.inFlight = {} /\ f.aborted = queue[i].aborted
      /\ f.elided = queue[i].elided /\ f.dropped = queue[i].dropped
      /\ Held(f) = Held(queue[i])
    BY <1>1, FreedFacts DEF ThrowsLeft
<1>3. /\ Good(t) /\ Kin(f, t) /\ Shrinks(f, t) /\ Held(t) = Held(f) \ Ev
    BY <1>2, TrimmedFacts
<1>4. Ev \subseteq Held(queue[i])
    BY <1>2, EvictedFacts DEF Held
<1>5. Shrinks(queue[i], t) /\ t.inFlight = {}
    BY <1>2, <1>3 DEF Shrinks, Kin
<1>6. drain[i].admitted => Batch(i) \cap Held(queue[i]) = {}
    <2>1. drain[i].admitted => Batch(i) \subseteq Taken
        BY TakenIs
    <2>2. Held(queue[i]) \cap Taken = {}
        BY HeldIs DEF FollowInv, Accounted
    <2> QED BY <2>1, <2>2
<1>7. Held(t) = Held(queue[i]) \ ThrowsSettles(i, S)
    BY <1>2, <1>3, <1>6 DEF ThrowsSettles
<1>8. ThrowsSettles(i, S) \subseteq Held(queue[i]) \cup Batch(i)
    BY <1>4 DEF ThrowsSettles
<1>9. drain[i].admitted => Batch(i) \subseteq ThrowsSettles(i, S)
    BY DEF ThrowsSettles
<1> QED BY <1>3, <1>5, <1>7, <1>8, <1>9 DEF Remains, Delivering

LEMMA ThrowsOut ==
    ASSUME FollowInv, NEW i \in Queues, NEW deferred, NEW d, Throws(i, deferred, d)
    PROVE  \E S : Ends(i, Trimmed(ThrowsLeft(i, S)), d) /\ SettlesOnly(ThrowsSettles(i, S))
<1> DEFINE S == IF ~deferred THEN {}
                ELSE IF drain[i].inherited = {} THEN Batch(i)
                ELSE drain[i].inherited
<1>1. /\ Ends(i, Trimmed(ThrowsLeft(i, S)), d)
      /\ out' = [m \in Msg |->
                     IF out[m] # "queued" THEN out[m]
                     ELSE IF m \in Evicted(ThrowsLeft(i, S)) THEN "omitted"
                     ELSE IF drain[i].admitted /\ m \in Batch(i) THEN "failed"
                     ELSE "queued"]
    BY DEF Throws, ThrowsLeft
<1> HIDE DEF S
<1>2. {"omitted", "failed", "queued"} \subseteq Outcomes /\ out \in [Msg -> Outcomes]
    BY DEF Outcomes, FollowInv, FollowTypes
<1>3. out' \in [Msg -> Outcomes]
    BY <1>1, <1>2
<1>4. \A m \in Msg :
          IF out[m] = "queued" /\ m \in ThrowsSettles(i, S) THEN out'[m] \notin {"new", "queued"}
          ELSE out'[m] = out[m]
    BY <1>1 DEF ThrowsSettles
<1> QED BY <1>1, <1>3, <1>4 DEF SettlesOnly

LEMMA SucceedMoves ==
    ASSUME FollowInv, NEW i \in Queues, Succeed(i)
    PROVE  /\ \E q : DrainMoves(i, q, TurnSettles(i), {})
           /\ drain'[i] = Loop /\ drain[i].pc = "turn" /\ lane' = "free"
<1>1. /\ drain[i].pc = "turn" /\ Returns(i, "run", AfterClear)
      /\ turns' = IF drain[i].admitted THEN turns ELSE Presented(Batch(i))
      /\ lane' = "free" /\ owed' = FALSE /\ UNCHANGED canceled
    BY DEF Succeed
<1>2. Continues(i, TurnLast(i), AfterClear) /\ SettlesOnly(TurnSettles(i))
    BY <1>1, ReturnsSettles DEF Outcomes
<1>3. Around
    BY <1>1, PresentedFacts DEF Around, FollowInv, FollowTypes
<1>4. Remains(i, TurnLast(i), TurnSettles(i))
    BY <1>1, ReturnsRemains DEF Delivering
<1>5. Resumed(AfterClear)
    BY ResumedFacts
<1>6. DrainMoves(i, TurnLast(i), TurnSettles(i), {}) /\ drain'[i] = Loop
    BY <1>2, <1>3, <1>4, <1>5, ContinuesMoves
<1> QED BY <1>1, <1>6

LEMMA WithdrawMoves ==
    ASSUME FollowInv, NEW i \in Queues, Withdraw(i)
    PROVE  /\ \E q, rem : DrainMoves(i, q, rem, {})
           /\ drain'[i] = Loop /\ drain[i].pc = "wait"
<1>1. /\ drain[i].pc = "wait" /\ UNCHANGED <<lane, owed, turns, canceled>>
      /\ Returns(i, "canceled", drain) \/ Returns(i, "replaced", drain)
    BY DEF Withdraw
<1>2. Continues(i, TurnLast(i), drain) /\ SettlesOnly(TurnSettles(i))
    BY <1>1, ReturnsSettles DEF Outcomes
<1>3. Around
    BY <1>1, AroundStays
<1>4. Remains(i, TurnLast(i), TurnSettles(i))
    BY <1>1, ReturnsRemains DEF Delivering
<1>5. Resumed(drain)
    BY ResumedFacts
<1>6. DrainMoves(i, TurnLast(i), TurnSettles(i), {}) /\ drain'[i] = Loop
    BY <1>2, <1>3, <1>4, <1>5, ContinuesMoves
<1> QED BY <1>1, <1>6

LEMMA ThrowsMoves ==
    ASSUME FollowInv, NEW i \in Queues, Delivering(drain[i]), NEW deferred,
           NEW d, Resumed(d), Throws(i, deferred, d), Around
    PROVE  (\E q, rem : DrainMoves(i, q, rem, {})) /\ drain'[i] \in {Off, Loop}
<1>1. PICK S : /\ Ends(i, Trimmed(ThrowsLeft(i, S)), d)
               /\ SettlesOnly(ThrowsSettles(i, S))
    BY ThrowsOut
<1>2. Remains(i, Trimmed(ThrowsLeft(i, S)), ThrowsSettles(i, S))
    BY ThrowsRemains
<1>3. /\ \E q : DrainMoves(i, q, ThrowsSettles(i, S), {})
      /\ drain'[i] \in {Off, Loop}
    BY <1>1, <1>2, EndsMoves
<1> QED BY <1>3

LEMMA DeferMoves ==
    ASSUME FollowInv, NEW i \in Queues, Defer(i)
    PROVE  /\ \E q, rem : DrainMoves(i, q, rem, {})
           /\ drain'[i] \in {Off, Loop} /\ drain[i].pc = "wait"
<1>1. /\ drain[i].pc = "wait" /\ UNCHANGED <<lane, owed, turns, canceled>>
      /\ Throws(i, TRUE, drain)
    BY DEF Defer
<1>2. Around /\ Resumed(drain) /\ Delivering(drain[i])
    BY <1>1, AroundStays, ResumedFacts DEF Delivering
<1> QED BY <1>1, <1>2, ThrowsMoves

LEMMA FailMoves ==
    ASSUME FollowInv, NEW i \in Queues, Fail(i)
    PROVE  /\ \E q, rem : DrainMoves(i, q, rem, {})
           /\ drain'[i] \in {Off, Loop} /\ turns' = turns
           /\ \/ drain[i].pc = "wait" /\ UNCHANGED <<lane, owed>>
              \/ drain[i].pc = "turn" /\ lane' = "free"
<1>1. /\ drain[i].pc \in {"wait", "turn"} /\ UNCHANGED <<turns, canceled>>
      /\ \/ /\ drain[i].pc = "turn" /\ Throws(i, FALSE, AfterClear)
            /\ lane' = "free" /\ owed' = FALSE
         \/ /\ drain[i].pc = "wait" /\ Throws(i, FALSE, drain)
            /\ UNCHANGED <<lane, owed>>
    BY DEF Fail
<1>2. Around
    BY <1>1 DEF Around, FollowInv, FollowTypes
<1>3. Resumed(drain) /\ Resumed(AfterClear) /\ Delivering(drain[i])
    BY <1>1, ResumedFacts DEF Delivering
<1>4. (\E q, rem : DrainMoves(i, q, rem, {})) /\ drain'[i] \in {Off, Loop}
    BY <1>1, <1>2, <1>3, ThrowsMoves
<1> QED BY <1>1, <1>4

-----------------------------------------------------------------------------
(* The invariant.                                                          *)

LEMMA FollowInit ==
    ASSUME Init
    PROVE  FollowInv
<1>1. /\ live = 0 /\ queue = [i \in Queues |-> NewQueue] /\ drain = [i \in Queues |-> Off]
      /\ lane = "turn" /\ owed = FALSE /\ out = [m \in Msg |-> "new"]
      /\ turns = [m \in Msg |-> 0] /\ canceled = {}
    BY DEF Init
<1>2. NewQueue \in QueueState /\ Listed(NewQueue) /\ Off \in DrainState
    BY NewQueueFacts, LoopFacts DEF Good
<1>3. FollowTypes
    <2>1. live \in 0..MaxQueues
        BY <1>1, FollowupConstants
    <2>2. lane \in {"free", "turn", "drain"} /\ owed \in BOOLEAN /\ canceled \subseteq Cancelable
        BY <1>1
    <2>3. out \in [Msg -> Outcomes] /\ turns \in [Msg -> Nat]
        BY <1>1 DEF Outcomes
    <2>4. queue \in [Queues -> QueueState] /\ drain \in [Queues -> DrainState]
        <3> HIDE DEF QueueState, DrainState, NewQueue, Off
        <3> QED BY <1>1, <1>2
    <2> QED BY <2>1, <2>2, <2>3, <2>4 DEF FollowTypes
<1>4. DrainFits(NewQueue, Off) /\ Stale(NewQueue, Off)
    BY LoopFits, LoopFacts, NewQueueFacts DEF Stale
<1>5. QueuesFit
    BY <1>1, <1>2, <1>4, QueueNumbers DEF QueuesFit
<1>6. \A i \in Queues : Batch(i) = {} /\ ~drain[i].admitted /\ drain[i].pc # "turn"
    BY <1>1, LoopFacts DEF Batch
<1>7. LaneFits
    BY <1>1, <1>6 DEF LaneFits
<1>8. HeldNow = {} /\ Taken = {}
    BY <1>1, <1>6 DEF HeldNow, Taken
<1>9. Accounted
    BY <1>1, <1>8 DEF Accounted
<1>10. BatchesKnown
    BY <1>6 DEF BatchesKnown
<1> QED BY <1>3, <1>5, <1>7, <1>9, <1>10 DEF FollowInv

LEMMA StutterKeeps ==
    ASSUME FollowInv, UNCHANGED vars
    PROVE  FollowInv'
BY DEF vars, FollowInv, FollowTypes, QueuesFit, LaneFits, Accounted, BatchesKnown,
       HeldNow, Taken, Batch

LEMMA DrainActionKeeps ==
    ASSUME FollowInv, NEW i \in Queues,
           \/ Wake(i) \/ Choose(i) \/ Admit(i) \/ Succeed(i) \/ Withdraw(i)
           \/ Defer(i) \/ Fail(i)
    PROVE  FollowInv'
<1>1. CASE Wake(i)
    <2>1. lane' = lane
        BY <1>1 DEF Wake
    <2>2. PICK q, rem : DrainMoves(i, q, rem, {})
        BY <1>1, WakeMoves
    <2>3. LaneFits'
        BY <1>1, <2>1, <2>2, WakeMoves, LaneStays
    <2> QED BY <2>2, <2>3, DrainKeeps
<1>2. CASE Choose(i)
    <2>1. lane' = lane
        BY <1>2 DEF Choose
    <2>2. PICK q, rem : DrainMoves(i, q, rem, {})
        BY <1>2, ChooseMoves
    <2>3. LaneFits'
        BY <1>2, <2>1, <2>2, ChooseMoves, LaneStays
    <2> QED BY <2>2, <2>3, DrainKeeps
<1>3. CASE Admit(i)
    BY <1>3, AdmitMoves, DrainKeeps
<1>4. CASE Succeed(i)
    <2>1. PICK q : DrainMoves(i, q, TurnSettles(i), {})
        BY <1>4, SucceedMoves
    <2>2. LaneFits'
        BY <1>4, <2>1, SucceedMoves, LaneStays, LoopFacts
    <2> QED BY <2>1, <2>2, DrainKeeps
<1>5. CASE Withdraw(i)
    <2>1. lane' = lane
        BY <1>5 DEF Withdraw
    <2>2. PICK q, rem : DrainMoves(i, q, rem, {})
        BY <1>5, WithdrawMoves
    <2>3. LaneFits'
        BY <1>5, <2>1, <2>2, WithdrawMoves, LaneStays, LoopFacts
    <2> QED BY <2>2, <2>3, DrainKeeps
<1>6. CASE Defer(i)
    <2>1. lane' = lane
        BY <1>6 DEF Defer
    <2>2. PICK q, rem : DrainMoves(i, q, rem, {})
        BY <1>6, DeferMoves
    <2>3. LaneFits'
        BY <1>6, <2>1, <2>2, DeferMoves, LaneStays, LoopFacts
    <2> QED BY <2>2, <2>3, DrainKeeps
<1>7. CASE Fail(i)
    <2>1. PICK q, rem : DrainMoves(i, q, rem, {})
        BY <1>7, FailMoves
    <2>2. LaneFits'
        BY <1>7, <2>1, FailMoves, LaneStays, LoopFacts
    <2> QED BY <2>1, <2>2, DrainKeeps
<1> QED BY <1>1, <1>2, <1>3, <1>4, <1>5, <1>6, <1>7

LEMMA FollowStep ==
    ASSUME FollowInv, [Next]_vars
    PROVE  FollowInv'
<1>1. ASSUME NEW m \in Msg, NEW s \in Settings,
             Enqueue(m, s) \/ Reject(m, s) \/ EnqueueRetry(m, s)
      PROVE  FollowInv'
    BY <1>1, EnqueueKeeps, RejectKeeps, EnqueueRetryKeeps, ArrivalKeeps
<1>2. ASSUME NEW s \in Settings, EnqueueDuplicate(s)
      PROVE  FollowInv'
    BY <1>2, DuplicateKeeps, ArrivalKeeps
<1>3. ASSUME NEW i \in Queues,
             \/ Wake(i) \/ Choose(i) \/ Admit(i) \/ Succeed(i) \/ Withdraw(i)
             \/ Defer(i) \/ Fail(i)
      PROVE  FollowInv'
    BY <1>3, DrainActionKeeps
<1>4. CASE TurnStarts \/ TurnEnds \/ Clear \/ \E m \in Msg : Cancel(m)
    BY <1>4, TurnStartsKeeps, TurnEndsKeeps, ClearKeeps, CancelKeeps
<1>5. CASE UNCHANGED vars
    BY <1>5, StutterKeeps
<1> QED BY <1>1, <1>2, <1>3, <1>4, <1>5 DEF Next

(* The invariant holds in every state, whatever the number of messages and *)
(* queue objects, the cap and the settings (src/src/auto-reply/reply/queue *)
(* drain.ts:1102-1368, enqueue.ts:244-330).                                *)
THEOREM FollowInvariant == Spec => []FollowInv
<1>1. Init => FollowInv
    BY FollowInit
<1>2. FollowInv /\ [Next]_vars => FollowInv'
    BY FollowStep
<1> QED BY <1>1, <1>2, PTL DEF Spec


-----------------------------------------------------------------------------
(* What the invariant says of the properties.                              *)

(* The lists of a queue in one row. *)
LEMMA RowFacts ==
    ASSUME NEW r, Good(r)
    PROVE  LET row == r.items \o r.sources \o r.elided
           IN  /\ ToSet(row) = Held(r) /\ Len(row) = Cardinality(ToSet(row))
               /\ Held(r) = {} => row = <<>>
<1>1. /\ r.items \in Seq(Msg) /\ r.sources \in Seq(Msg) /\ r.elided \in Seq(Msg)
      /\ IsInjective(r.items) /\ IsInjective(r.sources) /\ IsInjective(r.elided)
      /\ ToSet(r.items) \cap ToSet(r.sources) = {}
      /\ ToSet(r.items) \cap ToSet(r.elided) = {}
      /\ ToSet(r.sources) \cap ToSet(r.elided) = {}
    BY ListTypes DEF Good, Listed
<1>2. PICK front : front = r.items \o r.sources
    OBVIOUS
<1>3. /\ front \in Seq(Msg) /\ IsInjective(front)
      /\ ToSet(front) = ToSet(r.items) \cup ToSet(r.sources)
    BY <1>1, <1>2, JoinFacts
<1>4. PICK row : row = front \o r.elided
    OBVIOUS
<1>5. row \in Seq(Msg) /\ IsInjective(row) /\ ToSet(row) = ToSet(front) \cup ToSet(r.elided)
    BY <1>1, <1>3, <1>4, JoinFacts
<1>6. ToSet(row) = Held(r)
    BY <1>3, <1>5 DEF Held
<1>7. Len(row) = Cardinality(ToSet(row))
    BY <1>5, CountFacts
<1>8. Held(r) = {} => row = <<>>
    BY <1>5, <1>6, EmptyFacts
<1> QED BY <1>2, <1>4, <1>6, <1>7, <1>8

LEMMA TypesHold == ASSUME FollowInv PROVE TypeOK
<1>1. /\ live \in 0..MaxQueues /\ lane \in {"free", "turn", "drain"}
      /\ canceled \subseteq Cancelable /\ out \in [Msg -> Outcomes]
    BY DEF FollowInv, FollowTypes
<1>2. /\ \A i \in Queues : drain[i].pc = "turn" => lane = "drain"
      /\ lane = "drain" => \E i \in Queues : drain[i].pc = "turn"
      /\ \A i, j \in Queues : drain[i].pc = "turn" /\ drain[j].pc = "turn" => i = j
    BY DEF FollowInv, LaneFits
<1>3. ASSUME NEW i \in Queues
      PROVE  /\ queue[i].inFlight \subseteq Batch(i) /\ Len(queue[i].sources) <= Cap
             /\ i # live => Everywhere(i) = <<>> /\ queue[i].dropped = 0
    <2>1. /\ Good(queue[i]) /\ DrainFits(queue[i], drain[i])
          /\ i # live => Stale(queue[i], drain[i])
        BY FollowQueues
    <2>2. queue[i].inFlight \subseteq Batch(i) /\ Len(queue[i].sources) <= Cap
        BY <2>1 DEF DrainFits, Batch, Good, Listed
    <2>3. ASSUME i # live PROVE Everywhere(i) = <<>> /\ queue[i].dropped = 0
        <3>1. Held(queue[i]) = {} /\ queue[i].dropped = 0
            BY <2>1, <2>3, StaleIsEmpty DEF Stale
        <3> QED BY <2>1, <3>1, RowFacts DEF Everywhere
    <2> QED BY <2>2, <2>3
<1>4. (lane = "drain") = (\E i \in Queues : drain[i].pc = "turn")
    BY <1>2
<1> QED BY <1>1, <1>2, <1>3, <1>4 DEF TypeOK, Outcomes

LEMMA AllAccounted == ASSUME FollowInv PROVE NothingLost
<1>1. /\ \A m \in Msg : out[m] = "queued" => m \in HeldNow \cup Taken
      /\ \A m \in HeldNow : out[m] = "queued"
      /\ HeldNow \cap Taken = {} /\ live \in 0..MaxQueues
    BY DEF FollowInv, Accounted, FollowTypes
<1>2. PICK held : held = IF live = 0 THEN <<>> ELSE Everywhere(live)
    OBVIOUS
<1>3. ToSet(held) = HeldNow /\ Len(held) = Cardinality(ToSet(held))
    <2>1. CASE live = 0
        <3>1. held = <<>> /\ HeldNow = {}
            BY <1>2, <2>1 DEF HeldNow
        <3> QED BY <3>1, EmptyFacts, FS_EmptySet
    <2>2. CASE live # 0
        <3>1. live \in Queues
            BY <1>1, <2>2, CapFacts DEF Queues
        <3>2. Good(queue[live]) /\ HeldNow = Held(queue[live])
            BY <3>1, FollowQueues, HeldIs
        <3> QED BY <1>2, <2>2, <3>2, RowFacts DEF Everywhere
    <2> QED BY <2>1, <2>2
<1>4. HeldNow \subseteq Msg /\ Taken \subseteq Msg
    <2>1. HeldNow \subseteq Msg
        BY FollowQueues, HeldIs, ListTypes
    <2>2. \A i \in Queues : drain[i].batch \in Seq(Msg)
        BY FollowQueues DEF DrainState
    <2>3. \A i \in Queues : Batch(i) \subseteq Msg
        BY <2>2, EmptyFacts DEF Batch
    <2> QED BY <2>1, <2>3 DEF Taken
<1>5. Queued = HeldNow \cup {m \in Taken : out[m] = "queued"}
    BY <1>1, <1>4 DEF Queued
<1>6. /\ Queued = ToSet(held) \cup {m \in Taken : out[m] = "queued"}
      /\ Len(held) = Cardinality(ToSet(held)) /\ ToSet(held) \cap Taken = {}
    BY <1>1, <1>3, <1>5
<1> QED BY <1>2, <1>6 DEF NothingLost

LEMMA QueueInvHolds == ASSUME FollowInv PROVE QueueInv
<1>1. CountsAgree
    BY FollowQueues DEF CountsAgree, Good, Listed
<1> QED BY <1>1, TypesHold, AllAccounted DEF QueueInv

(* Nothing accepted is lost or kept twice, and the counters of the queue   *)
(* agree with its lists, through every interleaving of enqueuers, drains,  *)
(* deferrals, failures, cancellations and clears, whatever the number of   *)
(* messages, the cap and the settings (src/src/auto-reply/reply/queue      *)
(* drain.ts:1102-1368).                                                    *)
THEOREM EveryMessageAccounted == Spec => []QueueInv
<1>1. FollowInv => QueueInv
    BY QueueInvHolds
<1> QED BY <1>1, FollowInvariant, PTL

-----------------------------------------------------------------------------
(* No backlog without a drain.                                             *)

(* The registered queue has work, no drain, and nothing to start one. *)
Forgotten ==
    /\ live # 0 /\ HasWork(queue[live]) /\ drain[live].pc = "off"
    /\ lane # "turn" /\ (lane = "drain" => ~owed)

LEMMA ForgottenIs == FollowInv => (NoIdleBacklog <=> ~Forgotten)
BY DEF NoIdleBacklog, Forgotten, FollowInv, FollowTypes

LEMMA LiveFacts ==
    ASSUME FollowInv
    PROVE  live = 0 \/ live \in Queues
BY CapFacts DEF FollowInv, FollowTypes, Queues

LEMMA EnqueueWakes ==
    ASSUME FollowInv, NEW m \in Msg, NEW s \in Settings, Enqueue(m, s)
    PROVE  ~Forgotten'
<1>1. PICK i \in Queues :
          /\ live' = i
          /\ drain' = IF lane = "free" THEN Schedule(drain, i) ELSE drain
          /\ owed' = (owed \/ lane # "free") /\ lane' = lane
    BY DEF Enqueue
<1>2. drain \in [Queues -> DrainState] /\ lane \in {"free", "turn", "drain"}
    BY DEF FollowInv, FollowTypes
<1>3. CASE lane = "free"
    <2>1. drain'[i] = IF i = i /\ i # 0 /\ drain[i].pc = "off" THEN Loop ELSE drain[i]
        BY <1>1, <1>2, <1>3, ScheduleFacts
    <2>2. drain'[i].pc # "off"
        BY <2>1, QueueNumbers, LoopFacts
    <2> QED BY <1>1, <2>2 DEF Forgotten
<1>4. CASE lane # "free"
    <2>1. owed'
        BY <1>1, <1>4
    <2> QED BY <1>1, <1>2, <1>4, <2>1 DEF Forgotten
<1> QED BY <1>3, <1>4

(* A retry comes from a turn: of another message, or of the drain of the   *)
(* registered queue, for that of a cleared one is aborted.                 *)
LEMMA RetryWakes ==
    ASSUME FollowInv, NEW m \in Msg, NEW s \in Settings, EnqueueRetry(m, s)
    PROVE  ~Forgotten'
<1>1. PICK i \in Queues : Registered(i) /\ live' = i
    BY DEF EnqueueRetry
<1>2. FreeQueue /\ lane' = lane /\ drain' = drain
      /\ (lane = "turn" \/ \E j \in Queues : MayRetry(j))
    BY DEF EnqueueRetry
<1>3. CASE lane = "turn"
    BY <1>2, <1>3 DEF Forgotten
<1>4. CASE \E j \in Queues : MayRetry(j)
    <2>1. PICK j \in Queues : drain[j].pc = "turn" /\ ~queue[j].aborted
        BY <1>4 DEF MayRetry
    <2>2. j = live
        BY <2>1, FollowQueues DEF Stale
    <2>3. i = live
        BY <1>1, <1>2, <2>2, RegisteredFacts, QueueNumbers
    <2> QED BY <1>1, <1>2, <2>1, <2>2, <2>3 DEF Forgotten
<1> QED BY <1>2, <1>3, <1>4

(* Settings alone make no work. *)
LEMMA SettingsWake ==
    ASSUME FollowInv, ~Forgotten, NEW i \in Queues, NEW s \in Settings,
           i = live \/ live = 0, live' = i,
           queue' = [queue EXCEPT ![i] = Applied(i, s)],
           UNCHANGED <<drain, lane, owed>>
    PROVE  ~Forgotten'
<1>1. Good(queue[i])
    BY FollowQueues
<1>2. queue'[i] = Applied(i, s)
    BY DEF FollowInv, FollowTypes
<1>3. HasWork(queue'[i]) <=> HasWork(queue[i])
    BY <1>1, <1>2, AppliedFacts DEF HasWork
<1>4. CASE i = live
    BY <1>3, <1>4 DEF Forgotten
<1>5. CASE i # live
    <2>1. ~HasWork(queue'[i])
        BY <1>3, <1>5, HeldIs
    <2> QED BY <2>1 DEF Forgotten
<1> QED BY <1>4, <1>5

(* A drain leaves the queue it does not drain as it is; its own it keeps   *)
(* on draining while it is registered.                                     *)
LEMMA DrainForgets ==
    ASSUME FollowInv, NEW i \in Queues, NEW r, NEW rem, NEW taken,
           DrainMoves(i, r, rem, taken), Forgotten'
    PROVE  /\ i # live /\ live' = live /\ live \in Queues
           /\ HasWork(queue[live]) /\ drain[live].pc = "off" /\ drain'[live].pc = "off"
<1>1. /\ queue' = [queue EXCEPT ![i] = r]
      /\ live' = live \/ (i = live /\ live' = 0)
      /\ i = live' => drain'[i].pc # "off"
      /\ \A j \in Queues \ {i} : drain'[j] = drain[j] \/ drain'[j] = Loop
    BY DEF DrainMoves
<1>2. live' # 0 /\ HasWork(queue'[live']) /\ drain'[live'].pc = "off"
    BY DEF Forgotten
<1>3. live' = live /\ live # i
    BY <1>1, <1>2
<1>4. live \in Queues
    BY <1>2, <1>3, LiveFacts
<1>5. queue'[live] = queue[live]
    BY <1>1, <1>3, <1>4 DEF FollowInv, FollowTypes
<1>6. drain'[live] = drain[live]
    BY <1>1, <1>2, <1>3, <1>4, LoopFacts
<1> QED BY <1>2, <1>3, <1>4, <1>5, <1>6

LEMMA QuietDrainWakes ==
    ASSUME FollowInv, ~Forgotten, NEW i \in Queues, NEW r, NEW rem, NEW taken,
           DrainMoves(i, r, rem, taken), UNCHANGED <<lane, owed>>
    PROVE  ~Forgotten'
BY DrainForgets DEF Forgotten

(* When a turn ends the callbacks have started what waited for it. *)
LEMMA AfterClearWakes ==
    ASSUME FollowInv, ~Forgotten, NEW i \in Queues, drain[i].pc = "turn",
           live \in Queues, HasWork(queue[live]), drain[live].pc = "off"
    PROVE  AfterClear \in [Queues -> DrainState] /\ AfterClear[live] = Loop
<1>1. lane = "drain" /\ drain \in [Queues -> DrainState]
    BY DEF FollowInv, LaneFits, FollowTypes
<1>2. owed
    BY <1>1, QueueNumbers DEF Forgotten
<1>3. AfterClear = Schedule(drain, live)
    BY <1>2 DEF AfterClear
<1> QED BY <1>1, <1>3, ScheduleFacts, QueueNumbers

LEMMA SucceedWakes ==
    ASSUME FollowInv, ~Forgotten, NEW i \in Queues, Succeed(i)
    PROVE  ~Forgotten'
<1> SUFFICES ASSUME Forgotten' PROVE FALSE
    OBVIOUS
<1>1. drain[i].pc = "turn" /\ (\E q : DrainMoves(i, q, TurnSettles(i), {}))
    BY SucceedMoves
<1>2. /\ i # live /\ live \in Queues
      /\ HasWork(queue[live]) /\ drain[live].pc = "off" /\ drain'[live].pc = "off"
    BY <1>1, DrainForgets
<1>3. AfterClear \in [Queues -> DrainState] /\ AfterClear[live] = Loop
    BY <1>1, <1>2, AfterClearWakes
<1>4. drain' = [AfterClear EXCEPT ![i] = Loop]
    <2>1. Returns(i, "run", AfterClear)
        BY DEF Succeed
    <2>2. Continues(i, TurnLast(i), AfterClear)
        BY <2>1, ReturnsSettles DEF Outcomes
    <2> QED BY <2>2 DEF Continues
<1>5. drain'[live] = Loop
    BY <1>2, <1>3, <1>4
<1> QED BY <1>2, <1>5, LoopFacts

LEMMA FailWakes ==
    ASSUME FollowInv, ~Forgotten, NEW i \in Queues, Fail(i)
    PROVE  ~Forgotten'
<1>1. PICK q, rem : DrainMoves(i, q, rem, {})
    BY FailMoves
<1>2. CASE drain[i].pc # "turn"
    <2>1. UNCHANGED <<lane, owed>>
        BY <1>2 DEF Fail
    <2> QED BY <1>1, <2>1, QuietDrainWakes
<1>3. CASE drain[i].pc = "turn"
    <2> SUFFICES ASSUME Forgotten' PROVE FALSE
        OBVIOUS
    <2>1. /\ i # live /\ live \in Queues
          /\ HasWork(queue[live]) /\ drain[live].pc = "off" /\ drain'[live].pc = "off"
        BY <1>1, DrainForgets
    <2>2. AfterClear \in [Queues -> DrainState] /\ AfterClear[live] = Loop
        BY <1>3, <2>1, AfterClearWakes
    <2>3. PICK d : d = [AfterClear EXCEPT ![i] = Off]
        OBVIOUS
    <2>4. d \in [Queues -> DrainState] /\ d[live] = Loop
        BY <2>1, <2>2, <2>3, LoopFacts
    <2>5. drain' = d \/ drain' = Schedule(d, live)
        <3>1. Throws(i, FALSE, AfterClear)
            BY <1>3 DEF Fail
        <3>2. \E r : Ends(i, r, AfterClear)
            BY <3>1 DEF Throws
        <3> QED BY <2>3, <3>2 DEF Ends
    <2>6. drain'[live] = Loop
        BY <2>1, <2>4, <2>5, ScheduleFacts
    <2> QED BY <2>1, <2>6, LoopFacts
<1> QED BY <1>2, <1>3

LEMMA AdmitWakes ==
    ASSUME FollowInv, NEW i \in Queues, Admit(i)
    PROVE  ~Forgotten'
<1>1. drain[i].pc = "wait" /\ Canceled(i) = {}
    BY DEF Admit
<1>2. i = live
    BY <1>1, UncanceledFacts
<1>3. \E r, taken : DrainMoves(i, r, {}, taken)
    BY AdmitMoves
<1> QED BY <1>2, <1>3, DrainForgets

LEMMA WakesStep ==
    ASSUME FollowInv, ~Forgotten, [Next]_vars
    PROVE  ~Forgotten'
<1>1. ASSUME NEW m \in Msg, NEW s \in Settings, Reject(m, s)
      PROVE  ~Forgotten'
    <2>1. PICK i \in Queues : Arrives(i, Applied(i, s), {}, {})
        BY <1>1, RejectKeeps
    <2>2. UNCHANGED <<drain, lane, owed>>
        BY <1>1 DEF Reject
    <2>3. /\ i = live \/ live = 0
          /\ live' = i /\ queue' = [queue EXCEPT ![i] = Applied(i, s)]
        BY <2>1 DEF Arrives
    <2> QED BY <2>2, <2>3, SettingsWake
<1>2. ASSUME NEW s \in Settings, EnqueueDuplicate(s)
      PROVE  ~Forgotten'
    <2>1. PICK i \in Queues : Arrives(i, Applied(i, s), {}, {})
        BY <1>2, DuplicateKeeps
    <2>2. UNCHANGED <<drain, lane, owed>>
        BY <1>2 DEF EnqueueDuplicate
    <2>3. /\ i = live \/ live = 0
          /\ live' = i /\ queue' = [queue EXCEPT ![i] = Applied(i, s)]
        BY <2>1 DEF Arrives
    <2> QED BY <2>2, <2>3, SettingsWake
<1>3. ASSUME NEW i \in Queues, Wake(i) \/ Choose(i) \/ Withdraw(i) \/ Defer(i)
      PROVE  ~Forgotten'
    <2>1. UNCHANGED <<lane, owed>>
        BY <1>3 DEF Wake, Choose, Withdraw, Defer
    <2>2. \E q, rem : DrainMoves(i, q, rem, {})
        BY <1>3, WakeMoves, ChooseMoves, WithdrawMoves, DeferMoves
    <2> QED BY <2>1, <2>2, QuietDrainWakes
<1>4. CASE TurnStarts
    BY <1>4 DEF TurnStarts, Forgotten
<1>5. CASE TurnEnds
    <2>1. drain' = Schedule(drain, live) /\ live' = live
        BY <1>5 DEF TurnEnds
    <2>2. drain \in [Queues -> DrainState]
        BY DEF FollowInv, FollowTypes
    <2>3. ASSUME live \in Queues PROVE drain'[live].pc # "off"
        <3>1. drain'[live] = IF live # 0 /\ drain[live].pc = "off" THEN Loop ELSE drain[live]
            BY <2>1, <2>2, <2>3, ScheduleFacts
        <3> QED BY <2>3, <3>1, LoopFacts, QueueNumbers
    <2> QED BY <2>1, <2>3, LiveFacts DEF Forgotten
<1>6. CASE Clear
    BY <1>6 DEF Clear, Forgotten
<1>7. CASE (\E m \in Msg : Cancel(m)) \/ UNCHANGED vars
    BY <1>7 DEF Cancel, vars, Forgotten
<1> QED BY <1>1, <1>2, <1>3, <1>4, <1>5, <1>6, <1>7, EnqueueWakes, RetryWakes,
           SucceedWakes, FailWakes, AdmitWakes DEF Next

(* A queue with work is never left alone: it is being drained, or the turn *)
(* that holds the reply lane will schedule its drain when it ends.  So it  *)
(* is when the drain of a cleared queue ends after a successor was         *)
(* registered, and when a retry is enqueued without scheduling one         *)
(* (src/src/auto-reply/reply/queue/drain.ts:1361, enqueue.ts:244-330).     *)
THEOREM BacklogAlwaysDrained == Spec => []NoIdleBacklog
<1>1. Init => FollowInv /\ ~Forgotten
    <2>1. Init => live = 0
        BY DEF Init
    <2> QED BY <2>1, FollowInit DEF Forgotten
<1>2. FollowInv /\ ~Forgotten /\ [Next]_vars => (FollowInv /\ ~Forgotten)'
    BY FollowStep, WakesStep
<1>3. FollowInv /\ ~Forgotten => NoIdleBacklog
    BY ForgottenIs
<1> QED BY <1>1, <1>2, <1>3, PTL DEF Spec

-----------------------------------------------------------------------------
(* Each message is presented once.                                         *)

BatchStands(j) ==
    /\ Batch(j)' = Batch(j)
    /\ drain'[j].admitted <=> drain[j].admitted
    /\ drain'[j].pc = "turn" <=> drain[j].pc = "turn"

LEMMA StartedStands ==
    ASSUME FollowInv, NEW j \in Queues,
           drain'[j] = drain[j] \/ (drain[j].pc = "off" /\ drain'[j] = Loop)
    PROVE  BatchStands(j)
<1>1. DrainFits(queue[j], drain[j])
    BY FollowQueues
<1>2. CASE drain'[j] = drain[j]
    BY <1>2 DEF BatchStands, Batch
<1>3. CASE drain[j].pc = "off" /\ drain'[j] = Loop
    <2>1. ToSet(drain[j].batch) = {} /\ ~drain[j].admitted
        BY <1>1, <1>3, IdleFacts DEF Delivering
    <2> QED BY <1>3, <2>1, LoopFacts DEF BatchStands, Batch
<1> QED BY <1>2, <1>3

LEMMA ScheduleStands ==
    ASSUME FollowInv, NEW i, drain' = drain \/ drain' = Schedule(drain, i)
    PROVE  \A j \in Queues : BatchStands(j)
<1>1. drain \in [Queues -> DrainState]
    BY DEF FollowInv, FollowTypes
<1>2. \A j \in Queues : drain'[j] = drain[j] \/ (drain[j].pc = "off" /\ drain'[j] = Loop)
    BY <1>1, ScheduleFacts
<1> QED BY <1>2, StartedStands

LEMMA BatchMsgs ==
    ASSUME FollowInv, NEW j \in Queues
    PROVE  Batch(j) \subseteq Msg
BY FollowQueues, EmptyFacts DEF Batch, DrainState

(* A step that leaves every coroutine with its batch. *)
LEMMA TurnsStand ==
    ASSUME FollowInv, TurnsFit, turns' = turns,
           \A j \in Queues : BatchStands(j),
           \A m \in Msg : out'[m] = "new" => out[m] = "new",
           \A m \in HeldNow' : m \in HeldNow \/ out[m] = "new",
           \A j \in Queues : drain[j].pc = "turn" => Batch(j) \cap canceled' = {}
    PROVE  TurnsFit'
<1>1. \A m \in Msg : out'[m] = "new" \/ m \in HeldNow' => turns'[m] = 0
    BY DEF TurnsFit
<1>2. \A j \in Queues : ~drain'[j].admitted => \A m \in Batch(j)' : turns'[m] = 0
    BY DEF TurnsFit, BatchStands
<1>3. \A j \in Queues : drain'[j].pc = "turn" => Batch(j)' \cap canceled' = {}
    BY DEF BatchStands
<1>4. \A j, k \in Queues : j # k => Batch(j)' \cap Batch(k)' = {}
    BY DEF TurnsFit, BatchStands
<1> QED BY <1>1, <1>2, <1>3, <1>4 DEF TurnsFit

LEMMA ArrivalTurns ==
    ASSUME FollowInv, TurnsFit, NEW i \in Queues, NEW q, NEW new, NEW lost,
           Arrives(i, q, new, lost)
    PROVE  TurnsFit'
<1>1. \A j \in Queues : BatchStands(j)
    BY ScheduleStands DEF Arrives
<1>2. \A m \in Msg : out'[m] = "new" => out[m] = "new"
    <2>1. ASSUME NEW m \in Msg, out'[m] = "new" PROVE out[m] = "new"
        <3>1. CASE m \in new
            BY <2>1, <3>1 DEF Arrives
        <3>2. CASE m \notin new
            BY <2>1, <3>2 DEF Arrives
        <3> QED BY <3>1, <3>2
    <2> QED BY <2>1
<1>3. HeldNow' = Held(q)
    <2>1. queue'[i] = q /\ live' = i /\ i # 0
        BY QueueNumbers DEF Arrives, FollowInv, FollowTypes
    <2> QED BY <2>1 DEF HeldNow
<1>4. \A m \in HeldNow' : m \in HeldNow \/ out[m] = "new"
    <2>1. Held(queue[i]) \subseteq HeldNow
        BY HeldIs
    <2> QED BY <1>3, <2>1 DEF Arrives
<1>5. turns' = turns /\ canceled' = canceled
    BY DEF Arrives
<1>6. \A j \in Queues : drain[j].pc = "turn" => Batch(j) \cap canceled' = {}
    BY <1>5 DEF TurnsFit
<1> QED BY <1>1, <1>2, <1>4, <1>5, <1>6, TurnsStand

(* A step of the coroutine on queue i. *)
LEMMA MovesKeepOthers ==
    ASSUME FollowInv, NEW i \in Queues, NEW r, NEW rem, NEW taken,
           DrainMoves(i, r, rem, taken)
    PROVE  /\ \A m \in Msg : out'[m] = "new" => out[m] = "new"
           /\ \A j \in Queues \ {i} : BatchStands(j)
<1>1. \A m \in Msg : out'[m] = "new" => out[m] = "new"
    BY DEF DrainMoves, SettlesOnly
<1>2. \A j \in Queues \ {i} :
          drain'[j] = drain[j] \/ (drain[j].pc = "off" /\ drain'[j] = Loop)
    BY DEF DrainMoves
<1> QED BY <1>1, <1>2, StartedStands

LEMMA MovesShrink ==
    ASSUME FollowInv, NEW i \in Queues, NEW r, NEW rem, NEW taken,
           DrainMoves(i, r, rem, taken)
    PROVE  /\ HeldNow' \subseteq HeldNow
           /\ i = live => HeldNow' \subseteq HeldNow \ (rem \cup taken)
           /\ \A m \in Msg : out'[m] = "new" => out[m] = "new"
           /\ \A j \in Queues \ {i} : BatchStands(j)
<1>1. /\ queue'[i] = r /\ \A j \in Queues \ {i} : queue'[j] = queue[j]
    BY DEF FollowInv, FollowTypes, DrainMoves
<1>2. live' = live \/ (i = live /\ live' = 0)
    BY DEF DrainMoves
<1>3. Held(r) = Held(queue[i]) \ (rem \cup taken)
    BY DEF DrainMoves
<1>4. CASE i = live
    <2>1. HeldNow = Held(queue[i])
        BY <1>4, HeldIs
    <2>2. HeldNow' \subseteq Held(r)
        BY <1>1, <1>2, <1>4, QueueNumbers DEF HeldNow
    <2>3. HeldNow' \subseteq HeldNow \ (rem \cup taken)
        BY <1>3, <2>1, <2>2
    <2> QED BY <1>4, <2>3, MovesKeepOthers
<1>5. CASE i # live
    <2>1. live' = live
        BY <1>2, <1>5
    <2>2. live # 0 => live \in Queues \ {i}
        BY <1>5, LiveFacts
    <2>3. HeldNow' = HeldNow
        BY <1>1, <2>1, <2>2 DEF HeldNow
    <2> QED BY <1>5, <2>3, MovesKeepOthers
<1> QED BY <1>4, <1>5

(* What a coroutine of another queue, or an admitted turn, delivers is not *)
(* in the registered queue.                                                *)
LEMMA BatchApart ==
    ASSUME FollowInv, NEW j \in Queues, j # live \/ drain[j].admitted
    PROVE  Batch(j) \cap HeldNow = {}
<1>1. \A m \in HeldNow : out[m] = "queued" /\ m \notin Taken
    BY DEF FollowInv, Accounted
<1>2. CASE drain[j].admitted
    BY <1>1, <1>2, TakenIs
<1>3. CASE ~drain[j].admitted /\ j # live
    BY <1>1, <1>3 DEF FollowInv, BatchesKnown
<1> QED BY <1>2, <1>3

(* The coroutine presents nothing in this step, and delivers nothing then, *)
(* or what the registered queue holds.                                     *)
LEMMA MovesTurns ==
    ASSUME FollowInv, TurnsFit, NEW i \in Queues, NEW r, NEW rem, NEW taken,
           DrainMoves(i, r, rem, taken), turns' = turns, canceled' = canceled,
           drain'[i].pc = "turn" => Batch(i)' \cap canceled = {},
           Batch(i)' = {} \/ (i = live /\ Batch(i)' \subseteq HeldNow)
    PROVE  TurnsFit'
<1>1. /\ HeldNow' \subseteq HeldNow
      /\ \A m \in Msg : out'[m] = "new" => out[m] = "new"
      /\ \A j \in Queues \ {i} : BatchStands(j)
    BY MovesShrink
<1>2. \A m \in Msg : out[m] = "new" \/ m \in HeldNow => turns[m] = 0
    BY DEF TurnsFit
<1>3. \A m \in Msg : out'[m] = "new" \/ m \in HeldNow' => turns'[m] = 0
    BY <1>1, <1>2
<1>4. HeldNow \subseteq Msg
    BY FollowQueues, HeldIs, ListTypes
<1>5. ASSUME NEW j \in Queues, ~drain'[j].admitted, NEW m \in Batch(j)'
      PROVE  turns'[m] = 0
    <2>1. CASE j = i
        BY <1>2, <1>4, <1>5, <2>1
    <2>2. CASE j # i
        BY <1>1, <1>5, <2>2 DEF BatchStands, TurnsFit
    <2> QED BY <2>1, <2>2
<1>6. ASSUME NEW j \in Queues, drain'[j].pc = "turn"
      PROVE  Batch(j)' \cap canceled' = {}
    <2>1. CASE j = i
        BY <1>6, <2>1
    <2>2. CASE j # i
        BY <1>1, <1>6, <2>2 DEF BatchStands, TurnsFit
    <2> QED BY <2>1, <2>2
<1>7. \A j \in Queues \ {i} : Batch(i)' \cap Batch(j)' = {}
    <2>1. ASSUME NEW j \in Queues \ {i} PROVE Batch(i)' \cap Batch(j)' = {}
        <3>1. Batch(j)' = Batch(j)
            BY <1>1 DEF BatchStands
        <3>2. CASE i = live
            BY <3>1, <3>2, BatchApart
        <3> QED BY <3>2
    <2> QED BY <2>1
<1>8. \A j, k \in Queues \ {i} : j # k => Batch(j)' \cap Batch(k)' = {}
    BY <1>1 DEF BatchStands, TurnsFit
<1>9. \A j, k \in Queues : j # k => Batch(j)' \cap Batch(k)' = {}
    BY <1>7, <1>8
<1> QED BY <1>3, <1>5, <1>6, <1>9 DEF TurnsFit

(* The coroutine presents its batch, which is settled or taken thereby. *)
LEMMA PresentingTurns ==
    ASSUME FollowInv, TurnsFit, NEW i \in Queues, NEW r, NEW rem, NEW taken,
           DrainMoves(i, r, rem, taken), turns' = Presented(Batch(i)),
           canceled' = canceled,
           drain'[i].pc = "turn" => Batch(i)' \cap canceled = {},
           Batch(i)' = {} \/ (Batch(i)' = Batch(i) /\ drain'[i].admitted),
           \A m \in Batch(i) : out'[m] # "new" /\ m \notin HeldNow'
    PROVE  TurnsFit'
<1>1. /\ HeldNow' \subseteq HeldNow
      /\ \A m \in Msg : out'[m] = "new" => out[m] = "new"
      /\ \A j \in Queues \ {i} : BatchStands(j)
    BY MovesShrink
<1>2. \A m \in Msg : m \notin Batch(i) => turns'[m] = turns[m]
    BY DEF Presented
<1>3. \A m \in Msg : out'[m] = "new" \/ m \in HeldNow' => turns'[m] = 0
    BY <1>1, <1>2 DEF TurnsFit
<1>4. ASSUME NEW j \in Queues, ~drain'[j].admitted, NEW m \in Batch(j)'
      PROVE  turns'[m] = 0
    <2>1. j # i
        BY <1>4
    <2>2. m \in Batch(j) /\ ~drain[j].admitted
        BY <1>1, <1>4, <2>1 DEF BatchStands
    <2>3. m \notin Batch(i) /\ m \in Msg /\ turns[m] = 0
        BY <2>1, <2>2, BatchMsgs DEF TurnsFit
    <2> QED BY <1>2, <2>3
<1>5. ASSUME NEW j \in Queues, drain'[j].pc = "turn"
      PROVE  Batch(j)' \cap canceled' = {}
    <2>1. CASE j = i
        BY <1>5, <2>1
    <2>2. CASE j # i
        BY <1>1, <1>5, <2>2 DEF BatchStands, TurnsFit
    <2> QED BY <2>1, <2>2
<1>6. \A j \in Queues : Batch(j)' \subseteq Batch(j)
    BY <1>1 DEF BatchStands
<1>7. \A j, k \in Queues : j # k => Batch(j)' \cap Batch(k)' = {}
    BY <1>6 DEF TurnsFit
<1> QED BY <1>3, <1>4, <1>5, <1>7 DEF TurnsFit

(* A presentation is the first, and of messages that nothing canceled. *)
FirstPresented(S) == \A m \in S : turns[m] = 0 /\ m \notin canceled

LEMMA ChooseTurns ==
    ASSUME FollowInv, TurnsFit, NEW i \in Queues, Choose(i)
    PROVE  TurnsFit' /\ turns' = turns
<1>1. /\ \E q, rem : DrainMoves(i, q, rem, {})
      /\ drain'[i].pc # "turn"
      /\ drain'[i].batch = <<>> \/ (i = live /\ ToSet(drain'[i].batch) \subseteq Held(queue[i]))
    BY ChooseMoves
<1>2. turns' = turns /\ canceled' = canceled
    BY DEF Choose
<1>3. Batch(i)' = ToSet(drain'[i].batch) /\ Held(queue[i]) \subseteq HeldNow
    BY HeldIs DEF Batch
<1>4. Batch(i)' = {} \/ (i = live /\ Batch(i)' \subseteq HeldNow)
    BY <1>1, <1>3, EmptyFacts
<1> QED BY <1>1, <1>2, <1>4, MovesTurns

LEMMA QuietTurns ==
    ASSUME FollowInv, TurnsFit, NEW i \in Queues,
           Wake(i) \/ Withdraw(i) \/ Defer(i) \/ Fail(i)
    PROVE  TurnsFit' /\ turns' = turns
<1>1. \E q, rem : DrainMoves(i, q, rem, {})
    BY WakeMoves, WithdrawMoves, DeferMoves, FailMoves
<1>2. turns' = turns /\ canceled' = canceled
    BY DEF Wake, Withdraw, Defer, Fail
<1>3. drain'[i].batch = <<>> /\ drain'[i].pc # "turn"
    BY WakeMoves, WithdrawMoves, DeferMoves, FailMoves, LoopFacts
<1>4. Batch(i)' = {}
    BY <1>3, EmptyFacts DEF Batch
<1> QED BY <1>1, <1>2, <1>3, <1>4, MovesTurns

LEMMA AdmitTurns ==
    ASSUME FollowInv, TurnsFit, NEW i \in Queues, Admit(i)
    PROVE  /\ TurnsFit' /\ FirstPresented(Batch(i))
           /\ turns' = turns \/ turns' = Presented(Batch(i))
<1> DEFINE many == Len(drain[i].batch) > 1
<1>1. /\ drain[i].pc = "wait" /\ Canceled(i) = {} /\ canceled' = canceled
      /\ out' = out
    BY DEF Admit
<1>2. /\ i = live /\ ~drain[i].admitted
      /\ Batch(i) \cap canceled = {} /\ Batch(i) \subseteq Held(queue[i])
    BY <1>1, UncanceledFacts
<1>3. Batch(i) \subseteq HeldNow
    BY <1>2, HeldIs
<1>4. /\ DrainMoves(i, AdmittedQueue(i), {}, IF many THEN Batch(i) ELSE {})
      /\ Batch(i)' = Batch(i) /\ (drain'[i].admitted <=> many)
      /\ turns' = IF many THEN Presented(Batch(i)) ELSE turns
    BY AdmitMoves
<1> HIDE DEF many
<1>5. FirstPresented(Batch(i))
    BY <1>2 DEF FirstPresented, TurnsFit
<1>6. CASE many
    <2>1. DrainMoves(i, AdmittedQueue(i), {}, Batch(i))
          /\ turns' = Presented(Batch(i)) /\ drain'[i].admitted
        BY <1>4, <1>6
    <2>2. \A m \in Batch(i) : out[m] = "queued"
        BY <1>3 DEF FollowInv, Accounted
    <2>3. \A m \in Batch(i) : out'[m] # "new" /\ m \notin HeldNow'
        BY <1>1, <1>2, <2>1, <2>2, MovesShrink
    <2>4. TurnsFit'
        BY <1>1, <1>2, <1>4, <2>1, <2>3, PresentingTurns
    <2> QED BY <1>5, <2>1, <2>4
<1>7. CASE ~many
    <2>1. DrainMoves(i, AdmittedQueue(i), {}, {}) /\ turns' = turns
        BY <1>4, <1>7
    <2>2. TurnsFit'
        BY <1>1, <1>2, <1>3, <1>4, <2>1, MovesTurns
    <2> QED BY <1>5, <2>1, <2>2
<1> QED BY <1>6, <1>7

(* A turn for one message presents it when it returns: it was not canceled *)
(* since it was admitted, so it is done with.                              *)
LEMMA SucceedTurns ==
    ASSUME FollowInv, TurnsFit, NEW i \in Queues, Succeed(i)
    PROVE  /\ TurnsFit'
           /\ \/ turns' = turns
              \/ turns' = Presented(Batch(i)) /\ FirstPresented(Batch(i))
<1>1. /\ drain[i].pc = "turn" /\ drain'[i] = Loop
      /\ \E q : DrainMoves(i, q, TurnSettles(i), {})
    BY SucceedMoves
<1>2. canceled' = canceled
      /\ turns' = IF drain[i].admitted THEN turns ELSE Presented(Batch(i))
    BY DEF Succeed
<1>3. Batch(i)' = {} /\ drain'[i].pc # "turn"
    BY <1>1, LoopFacts DEF Batch
<1>4. Batch(i) \cap canceled = {}
    BY <1>1 DEF TurnsFit
<1>5. CASE drain[i].admitted
    BY <1>1, <1>2, <1>3, <1>5, MovesTurns
<1>6. CASE ~drain[i].admitted
    <2>1. turns' = Presented(Batch(i)) /\ FirstPresented(Batch(i))
        BY <1>2, <1>4, <1>6 DEF FirstPresented, TurnsFit
    <2>2. \A m \in HeldNow : out[m] = "queued"
        BY DEF FollowInv, Accounted
    <2>3. /\ HeldNow' \subseteq HeldNow
          /\ i = live => HeldNow' \subseteq HeldNow \ TurnSettles(i)
          /\ \A m \in Msg : out'[m] = "new" => out[m] = "new"
        BY <1>1, MovesShrink
    <2>4. CASE i = live
        <3>1. Fresh(queue[i], drain[i]) /\ Delivering(drain[i])
              /\ DrainFits(queue[i], drain[i])
            BY <1>1, <2>4, FollowQueues DEF Delivering
        <3>2. ~queue[i].aborted /\ BatchStays(queue[i], drain[i])
              /\ drain[i].kind \in Kinds
            BY <1>6, <3>1 DEF Fresh, DrainFits
        <3>3. Batch(i) \subseteq HeldNow
            BY <2>4, <3>2, HeldIs DEF BatchStays, Batch, Held, Kinds
        <3>4. TurnGone(i) = {}
            BY <1>4, <3>2 DEF TurnGone, Canceled
        <3>5. Batch(i) \subseteq TurnSettles(i)
            BY <3>4, DoneFacts DEF TurnSettles
        <3>6. \A m \in Batch(i) : out'[m] # "new" /\ m \notin HeldNow'
            BY <2>2, <2>3, <2>4, <3>3, <3>5, BatchMsgs
        <3> QED BY <1>1, <1>2, <1>3, <2>1, <3>6, PresentingTurns
    <2>5. CASE i # live
        <3>1. \A m \in Batch(i) : out[m] \notin {"new", "queued"}
            BY <1>6, <2>5 DEF FollowInv, BatchesKnown
        <3>2. \A m \in Batch(i) : out'[m] # "new" /\ m \notin HeldNow'
            BY <2>2, <2>3, <3>1, BatchMsgs
        <3> QED BY <1>1, <1>2, <1>3, <2>1, <3>2, PresentingTurns
    <2> QED BY <2>4, <2>5
<1> QED BY <1>5, <1>6

(* Around the drain nothing is presented. *)
LEMMA AroundTurns ==
    ASSUME FollowInv, TurnsFit,
           TurnStarts \/ TurnEnds \/ Clear \/ \E m \in Msg : Cancel(m)
    PROVE  TurnsFit' /\ turns' = turns
<1>1. turns' = turns
    BY DEF TurnStarts, TurnEnds, Clear, Cancel
<1>2. CASE TurnStarts \/ TurnEnds \/ \E m \in Msg : Cancel(m)
    <2>1. /\ UNCHANGED <<live, queue, out>>
          /\ drain' = drain \/ drain' = Schedule(drain, live)
        BY <1>2 DEF TurnStarts, TurnEnds, Cancel
    <2>2. HeldNow' = HeldNow
        BY <2>1 DEF HeldNow
    <2>3. \A j \in Queues : BatchStands(j)
        BY <2>1, ScheduleStands
    <2>4. ASSUME NEW j \in Queues, drain[j].pc = "turn"
          PROVE  Batch(j) \cap canceled' = {}
        <3>1. Batch(j) \cap canceled = {}
            BY <2>4 DEF TurnsFit
        <3>2. CASE TurnStarts \/ TurnEnds
            BY <3>1, <3>2 DEF TurnStarts, TurnEnds
        <3>3. CASE \E m \in Msg : Cancel(m)
            BY <2>4, <3>1, <3>3 DEF Cancel
        <3> QED BY <1>2, <3>2, <3>3
    <2> QED BY <1>1, <2>1, <2>2, <2>3, <2>4, TurnsStand
<1>3. CASE Clear
    <2>1. /\ live' = 0 /\ UNCHANGED canceled
          /\ drain' = [drain EXCEPT ![live].entry = FALSE]
          /\ out' = Settled(ToSet(queue[live].items \o queue[live].sources
                                  \o queue[live].elided), "cleared")
        BY <1>3 DEF Clear
    <2>2. HeldNow' = {}
        BY <2>1 DEF HeldNow
    <2>3. \A m \in Msg : out'[m] = "new" => out[m] = "new"
        BY <2>1, SettledFacts DEF SettlesOnly, Outcomes
    <2>4. \A j \in Queues : /\ drain'[j].batch = drain[j].batch
                            /\ drain'[j].pc = drain[j].pc
                            /\ drain'[j].admitted = drain[j].admitted
        <3>1. \A j \in Queues : drain[j] \in DrainState
            BY FollowQueues
        <3>2. drain \in [Queues -> DrainState]
            BY DEF FollowInv, FollowTypes
        <3> QED BY <2>1, <3>1, <3>2 DEF DrainState
    <2>5. \A j \in Queues : BatchStands(j)
        BY <2>4 DEF BatchStands, Batch
    <2>6. \A j \in Queues : drain[j].pc = "turn" => Batch(j) \cap canceled' = {}
        BY <2>1 DEF TurnsFit
    <2> QED BY <1>1, <2>2, <2>3, <2>5, <2>6, TurnsStand
<1> QED BY <1>1, <1>2, <1>3

LEMMA TurnsInit ==
    ASSUME Init
    PROVE  TurnsFit
<1>1. \A m \in Msg : turns[m] = 0
    BY DEF Init
<1>2. \A i \in Queues : drain[i] = Off
    BY DEF Init
<1>3. \A i \in Queues : Batch(i) = {} /\ drain[i].pc # "turn"
    BY <1>2, LoopFacts DEF Batch
<1> QED BY <1>1, <1>3 DEF TurnsFit

PresentsRightlyNow ==
    \A m \in Msg : turns'[m] # turns[m] => turns[m] = 0 /\ m \notin canceled

LEMMA TurnsStep ==
    ASSUME FollowInv, TurnsFit, [Next]_vars
    PROVE  TurnsFit' /\ PresentsRightlyNow
<1>1. ASSUME NEW m \in Msg, NEW s \in Settings,
             Enqueue(m, s) \/ Reject(m, s) \/ EnqueueRetry(m, s)
      PROVE  TurnsFit' /\ turns' = turns
    <2>1. TurnsFit'
        BY <1>1, EnqueueKeeps, RejectKeeps, EnqueueRetryKeeps, ArrivalTurns
    <2> QED BY <1>1, <2>1 DEF Enqueue, Reject, EnqueueRetry
<1>2. ASSUME NEW s \in Settings, EnqueueDuplicate(s)
      PROVE  TurnsFit' /\ turns' = turns
    <2>1. TurnsFit'
        BY <1>2, DuplicateKeeps, ArrivalTurns
    <2> QED BY <1>2, <2>1 DEF EnqueueDuplicate
<1>3. ASSUME NEW i \in Queues, Admit(i) \/ Succeed(i)
      PROVE  /\ TurnsFit'
             /\ \/ turns' = turns
                \/ turns' = Presented(Batch(i)) /\ FirstPresented(Batch(i))
    BY <1>3, AdmitTurns, SucceedTurns
<1>4. ASSUME NEW i \in Queues, turns' = Presented(Batch(i)), FirstPresented(Batch(i))
      PROVE  PresentsRightlyNow
    BY <1>4 DEF Presented, FirstPresented, PresentsRightlyNow
<1>5. turns' = turns => PresentsRightlyNow
    BY DEF PresentsRightlyNow
<1>6. CASE UNCHANGED vars
    <2>1. TurnsFit'
        BY <1>6 DEF vars, TurnsFit, HeldNow, Batch
    <2> QED BY <1>5, <1>6, <2>1 DEF vars
<1> QED BY <1>1, <1>2, <1>3, <1>4, <1>5, <1>6, ChooseTurns, QuietTurns, AroundTurns
        DEF Next

(* A message gets one turn at most, in a turn of its own, collected or     *)
(* summarized, whatever is deferred, fails or is dropped while the drain   *)
(* awaits; and never after its own signal was aborted, for the drain looks *)
(* again when the turn is admitted                                         *)
(* (src/src/auto-reply/reply/queue/drain.ts:1102-1368).                    *)
THEOREM PresentedRightly == Spec => PresentsRightly
<1>1. Init => FollowInv /\ TurnsFit
    BY FollowInit, TurnsInit
<1>2. FollowInv /\ TurnsFit /\ [Next]_vars => (FollowInv /\ TurnsFit)'
    BY FollowStep, TurnsStep
<1>3. FollowInv /\ TurnsFit /\ [Next]_vars => [PresentsRightlyNow]_vars
    BY TurnsStep
<1>4. Spec => [][PresentsRightlyNow]_vars
    BY <1>1, <1>2, <1>3, PTL DEF Spec
<1> QED BY <1>4 DEF PresentsRightly, PresentsRightlyNow
=============================================================================
