------------------------- MODULE PlayerQueueProofs -------------------------
(* The player, for any set of tracks, any settings and lists a playlist may be *)
(* opened with and any orders a client draws. What it owes to the backgrounds  *)
(* it interrupted comes first: it does not depend on how the groups are        *)
(* sorted. The rest does: that the lists are lists, that what is selected from *)
(* them and sorted is what it should be and in one order, and with that what   *)
(* plays next, what the page announces and what a step in an order moves.      *)
EXTENDS PlayerQueue, FiniteSetTheorems, SequenceTheorems, TLAPS

(* A background that is paused has at least one interruption to its name.      *)
PausedIsOwed == owed \in Nat /\ (pausedBg # None => owed >= 1)

(* Two kinds of step move the balance: the player moves on (and may resume),  *)
(* or takes an interrupt; others leave it and the paused track alone.          *)
Balanced == UNCHANGED <<pausedBg, owed>>

(* Moving on pays for the background it resumes (playNext clears               *)
(* paused_background exactly when pickNext says that it was resumed).          *)
LEMMA AdvancePays == PausedIsOwed /\ Advance => PausedIsOwed'
<1> SUFFICES ASSUME PausedIsOwed, Advance PROVE PausedIsOwed'
  OBVIOUS
<1>1. PICK d \in PickNext :
        /\ pausedBg' = Paused(d)
        /\ owed' = IF d.resumed /\ pausedBg # None THEN owed - 1 ELSE owed
  BY DEF Advance
<1>2. CASE d.resumed
  <2>1. pausedBg' = None
    BY <1>1, <1>2 DEF Paused
  <2>2. owed' \in Nat
    BY <1>1, <1>2 DEF PausedIsOwed
  <2> QED BY <2>1, <2>2 DEF PausedIsOwed
<1>3. CASE ~d.resumed
  <2>1. UNCHANGED <<pausedBg, owed>>
    BY <1>1, <1>3 DEF Paused
  <2> QED BY <2>1 DEF PausedIsOwed
<1> QED BY <1>2, <1>3

(* An interrupt of a background leaves it paused and counts it; one of a       *)
(* regular track leaves both alone.                                            *)
LEMMA InterruptCounts == PausedIsOwed /\ TakeInterrupt => PausedIsOwed'
<1> SUFFICES ASSUME PausedIsOwed, TakeInterrupt PROVE PausedIsOwed'
  OBVIOUS
<1>1. CASE interrupt.from = current /\ interrupt.was = "background"
  BY <1>1 DEF TakeInterrupt, PausedIsOwed
<1>2. CASE ~(interrupt.from = current /\ interrupt.was = "background")
  <2>1. UNCHANGED <<pausedBg, owed>>
    BY <1>2 DEF TakeInterrupt, pauses
  <2> QED BY <2>1 DEF PausedIsOwed
<1> QED BY <1>1, <1>2

(* Everything else the player, the server and the user do is out of it.        *)
LEMMA OthersBalanced ==
  Next => Balanced \/ Advance \/ TakeInterrupt
<1> SUFFICES ASSUME Next PROVE Balanced \/ Advance \/ TakeInterrupt
  OBVIOUS
<1> USE DEF Balanced, pauses
<1>1. CASE End \/ Skip
  BY <1>1 DEF End, Skip
<1>2. CASE EndOnce \/ Prev \/ Stop
  BY <1>2 DEF EndOnce, Prev, Stop
<1>3. CASE TakeInterrupt
  BY <1>3
<1>4. ASSUME NEW t \in Tracks, Start(t) \/ Arrive(t) \/ Removed(t) \/ RemoveFails(t) \/ RemovedElsewhere(t)
      PROVE  Balanced
  BY <1>4 DEF Start, Arrive, Removed, RemoveFails, RemovedElsewhere, Leave
<1>5. ASSUME NEW t \in Tracks, Echo(t) \/ EchoRefused(t) \/ ToggleBackground(t)
      PROVE  Balanced
  BY <1>5 DEF Echo, EchoRefused, ToggleBackground
<1>6. ASSUME NEW t \in Tracks, NEW g \in {"vip", "regular"}, NEW d \in {-1, 1}, ReorderStep(g, t, d)
      PROVE  Balanced
  BY <1>6 DEF ReorderStep
<1>7. ASSUME NEW i \in 1 .. Cardinality(Tracks), ReorderBackground(i)
      PROVE  Balanced
  BY <1>7 DEF ReorderBackground
<1> QED BY <1>1, <1>2, <1>3, <1>4, <1>5, <1>6, <1>7 DEF Next

(* Backgrounds are resumed no more often than they were interrupted, however   *)
(* interrupts nest, announcements come back and tracks leave                   *)
(* (checkVipInterrupt, playNext, local.paused_background).                     *)
THEOREM BackgroundsResumedOnce == Spec => []ResumedOnce
<1>1. Init => PausedIsOwed
  BY DEF Init, PausedIsOwed
<1>2. PausedIsOwed /\ [Next]_vars => PausedIsOwed'
  <2> SUFFICES ASSUME PausedIsOwed, [Next]_vars PROVE PausedIsOwed'
    OBVIOUS
  <2>1. CASE Next
    <3>1. CASE Balanced
      BY <3>1 DEF Balanced, PausedIsOwed
    <3> QED BY <2>1, <3>1, OthersBalanced, AdvancePays, InterruptCounts
  <2>2. CASE UNCHANGED vars
    BY <2>2 DEF vars, pauses, PausedIsOwed
  <2> QED BY <2>1, <2>2
<1>3. PausedIsOwed => ResumedOnce
  BY DEF PausedIsOwed, ResumedOnce
<1> QED BY <1>1, <1>2, <1>3, PTL DEF Spec

-----------------------------------------------------------------------------
(* A set of pairs orders the elements of S in a line; those ahead of one.      *)
Lines(R, S) ==
  /\ \A a \in S : <<a, a>> \notin R
  /\ \A a, b, c \in S : <<a, b>> \in R /\ <<b, c>> \in R => <<a, c>> \in R
  /\ \A a, b \in S : a # b => <<a, b>> \in R \/ <<b, a>> \in R
AheadOf(R, S, t) == {u \in S : <<u, t>> \in R}

(* Then each element has a number of those ahead of it, and each number below  *)
(* the size of S is that of one element.                                       *)
LEMMA Ranks ==
  ASSUME NEW S, IsFiniteSet(S), NEW R, Lines(R, S)
  PROVE  /\ Cardinality(S) \in Nat
         /\ \A t \in S : Cardinality(AheadOf(R, S, t)) \in 0 .. Cardinality(S) - 1
         /\ \A t, u \in S : <<t, u>> \in R =>
              Cardinality(AheadOf(R, S, t)) < Cardinality(AheadOf(R, S, u))
         /\ \A k \in 1 .. Cardinality(S) : \E t \in S : Cardinality(AheadOf(R, S, t)) = k - 1
<1> DEFINE A(t) == AheadOf(R, S, t)
           n == Cardinality(S)
           f == [t \in S |-> Cardinality(A(t))]
<1>1. n \in Nat
  BY FS_CardinalityType
<1>2. ASSUME NEW t \in S PROVE IsFiniteSet(A(t)) /\ Cardinality(A(t)) \in 0 .. n - 1
  <2>1. A(t) \in SUBSET (S \ {t})
    BY DEF AheadOf, Lines
  <2>2. IsFiniteSet(S \ {t}) /\ Cardinality(S \ {t}) = n - 1
    BY FS_RemoveElement
  <2>3. IsFiniteSet(A(t)) /\ Cardinality(A(t)) <= n - 1
    <3> HIDE DEF A
    <3> QED BY <2>1, <2>2, FS_Subset
  <2>4. Cardinality(A(t)) \in Nat
    BY <2>3, FS_CardinalityType
  <2> QED BY <1>1, <2>3, <2>4
<1>3. ASSUME NEW t \in S, NEW u \in S, <<t, u>> \in R
      PROVE  Cardinality(A(t)) < Cardinality(A(u))
  <2>1. A(t) \in SUBSET A(u) /\ t \in A(u) /\ t \notin A(t)
    BY <1>3 DEF AheadOf, Lines
  <2>2. Cardinality(A(t)) <= Cardinality(A(u)) /\ Cardinality(A(t)) # Cardinality(A(u))
    <3>1. IsFiniteSet(A(u))
      BY <1>2
    <3> HIDE DEF A
    <3> QED BY <2>1, <3>1, FS_Subset
  <2> QED BY <1>2, <2>2
<1>4. f \in Surjection(S, 0 .. n - 1)
  <2>1. f \in Injection(S, 0 .. n - 1)
    <3>1. f \in [S -> 0 .. n - 1]
      BY <1>2
    <3>2. ASSUME NEW t \in S, NEW u \in S, t # u PROVE f[t] # f[u]
      <4>1. <<t, u>> \in R \/ <<u, t>> \in R
        BY <3>2 DEF Lines
      <4>2. Cardinality(A(t)) \in Int /\ Cardinality(A(u)) \in Int
        BY <1>2
      <4>3. Cardinality(A(t)) # Cardinality(A(u))
        BY <1>3, <4>1, <4>2
      <4> QED BY <4>3
    <3> QED BY <3>1, <3>2 DEF Injection, IsInjective
  <2>2. IsFiniteSet(0 .. n - 1) /\ Cardinality(0 .. n - 1) = n
    BY <1>1, FS_Interval
  <2> QED BY <2>1, <2>2, FS_Injection
<1>5. ASSUME NEW k \in 1 .. n PROVE \E t \in S : Cardinality(A(t)) = k - 1
  <2>1. k - 1 \in 0 .. n - 1
    BY <1>1
  <2>2. PICK t \in S : f[t] = k - 1
    BY <1>4, <2>1 DEF Surjection
  <2> QED BY <2>2
<1> QED BY <1>1, <1>2, <1>3, <1>5

(* So a sequence with its k-th element behind k - 1 others has all of S, once  *)
(* and in order.                                                               *)
LEMMA Ranked ==
  ASSUME NEW S, IsFiniteSet(S), NEW R, Lines(R, S),
         NEW s \in [1 .. Cardinality(S) -> S],
         \A k \in 1 .. Cardinality(S) : Cardinality(AheadOf(R, S, s[k])) = k - 1
  PROVE  /\ \A i, j \in 1 .. Cardinality(S) : i < j => <<s[i], s[j]>> \in R
         /\ \A i, j \in 1 .. Cardinality(S) : s[i] = s[j] => i = j
         /\ \A t \in S : \E k \in 1 .. Cardinality(S) : s[k] = t
<1> DEFINE n == Cardinality(S)
           r(t) == Cardinality(AheadOf(R, S, t))
<1>1. /\ n \in Nat
      /\ \A t \in S : r(t) \in 0 .. n - 1
      /\ \A t, u \in S : <<t, u>> \in R => r(t) < r(u)
  BY Ranks
<1>2. \A t, u \in S : t # u => <<t, u>> \in R \/ <<u, t>> \in R
  BY DEF Lines
<1>3. \A k \in 1 .. n : s[k] \in S /\ r(s[k]) = k - 1
  OBVIOUS
<1> HIDE DEF n, r
<1>4. \A i, j \in 1 .. n : s[i] = s[j] => i = j
  BY <1>1, <1>3
<1>5. \A i, j \in 1 .. n : i < j => <<s[i], s[j]>> \in R
  <2> SUFFICES ASSUME NEW i \in 1 .. n, NEW j \in 1 .. n, i < j PROVE <<s[i], s[j]>> \in R
    OBVIOUS
  <2>1. s[i] \in S /\ s[j] \in S /\ r(s[i]) = i - 1 /\ r(s[j]) = j - 1
    BY <1>3
  <2>2. ~(r(s[j]) < r(s[i])) /\ s[i] # s[j]
    BY <1>1, <2>1
  <2> QED BY <1>1, <1>2, <2>1, <2>2
<1>6. \A t \in S : \E k \in 1 .. n : s[k] = t
  <2> SUFFICES ASSUME NEW t \in S PROVE \E k \in 1 .. n : s[k] = t
    OBVIOUS
  <2> DEFINE k == r(t) + 1
  <2>1. k \in 1 .. n /\ s[k] \in S /\ r(s[k]) = r(t)
    BY <1>1, <1>3
  <2>2. s[k] = t
    <3>1. r(t) \in Int
      BY <1>1
    <3>2. <<s[k], t>> \notin R /\ <<t, s[k]>> \notin R
      BY <1>1, <2>1, <3>1
    <3> QED BY <1>2, <2>1, <3>2
  <2> QED BY <2>1, <2>2
<1> QED BY <1>4, <1>5, <1>6 DEF n

(* The first n numbers are n.                                                  *)
LEMMA UpTo ==
  ASSUME NEW n \in Nat
  PROVE  IsFiniteSet(1 .. n) /\ Cardinality(1 .. n) = n
<1>1. CASE n = 0
  BY <1>1, FS_EmptySet, 1 .. 0 = {}
<1>2. CASE n > 0
  <2>1. ~(1 > n) /\ n - 1 + 1 = n /\ 1 \in Int /\ n \in Int
    BY <1>2
  <2> QED BY <2>1, FS_Interval
<1> QED BY <1>1, <1>2

(* Two lists of the same elements, both in order, are the same.                *)
LEMMA OneOrder ==
  ASSUME NEW S, NEW R, Lines(R, S), NEW T,
         NEW s \in Seq(T), NEW t \in Seq(T), Elems(s) = S, Elems(t) = S,
         \A i, j \in 1 .. Len(s) : i < j => <<s[i], s[j]>> \in R,
         \A i, j \in 1 .. Len(t) : i < j => <<t[i], t[j]>> \in R
  PROVE  s = t
<1>1. ASSUME NEW q \in Seq(T), Elems(q) = S,
             \A i, j \in 1 .. Len(q) : i < j => <<q[i], q[j]>> \in R
      PROVE  /\ IsFiniteSet(S) /\ Cardinality(S) = Len(q)
             /\ \A i \in 1 .. Len(q) : q[i] \in S /\ Cardinality(AheadOf(R, S, q[i])) = i - 1
  <2>1. Len(q) \in Nat /\ DOMAIN q = 1 .. Len(q) /\ q \in [1 .. Len(q) -> T]
    BY LenProperties
  <2>2. /\ \A i \in 1 .. Len(q) : q[i] \in S
        /\ \A x \in S : \E i \in 1 .. Len(q) : q[i] = x
    BY <1>1, <2>1 DEF Elems
  <2>3. \A i, j \in 1 .. Len(q) : q[i] = q[j] => i = j
    <3> SUFFICES ASSUME NEW i \in 1 .. Len(q), NEW j \in 1 .. Len(q), i # j PROVE q[i] # q[j]
      OBVIOUS
    <3>1. i < j \/ j < i
      BY <2>1
    <3> QED BY <1>1, <2>2, <3>1 DEF Lines
  <2>4. ASSUME NEW i \in 1 .. Len(q) + 1, NEW U, \A x : x \in U <=> \E j \in 1 .. i - 1 : x = q[j]
        PROVE  IsFiniteSet(U) /\ Cardinality(U) = i - 1
    <3> DEFINE f == [j \in 1 .. i - 1 |-> q[j]]
    <3>1. \A j \in 1 .. i - 1 : j \in 1 .. Len(q)
      BY <2>1
    <3>2. f \in Bijection(1 .. i - 1, U)
      <4>1. f \in [1 .. i - 1 -> U] /\ \A x \in U : \E j \in 1 .. i - 1 : f[j] = x
        BY <2>4
      <4>2. IsInjective(f)
        BY <2>3, <3>1 DEF IsInjective
      <4> HIDE DEF f
      <4> QED BY <4>1, <4>2 DEF Bijection, Injection, Surjection
    <3>3. IsFiniteSet(1 .. i - 1) /\ Cardinality(1 .. i - 1) = i - 1
      BY <2>1, UpTo
    <3> HIDE DEF f
    <3>4. ExistsBijection(1 .. i - 1, U)
      BY <3>2 DEF ExistsBijection
    <3> QED BY <3>3, <3>4, FS_Bijection
  <2>5. IsFiniteSet(S) /\ Cardinality(S) = Len(q)
    <3>1. Len(q) + 1 \in 1 .. Len(q) + 1 /\ (Len(q) + 1) - 1 = Len(q)
      BY <2>1
    <3> QED BY <2>2, <2>4, <3>1
  <2>6. ASSUME NEW i \in 1 .. Len(q) PROVE Cardinality(AheadOf(R, S, q[i])) = i - 1
    <3>1. i \in 1 .. Len(q) + 1 /\ \A j \in 1 .. i - 1 : j \in 1 .. Len(q) /\ j < i
      BY <2>1
    <3>2. ASSUME NEW x \in AheadOf(R, S, q[i]) PROVE \E j \in 1 .. i - 1 : x = q[j]
      <4>1. PICK j \in 1 .. Len(q) : q[j] = x
        BY <2>2 DEF AheadOf
      <4>2. <<q[j], q[i]>> \in R /\ q[j] \in S /\ q[i] \in S
        BY <2>2, <4>1 DEF AheadOf
      <4>3. ~(i < j) /\ i # j
        BY <1>1, <4>2 DEF Lines
      <4> QED BY <2>1, <4>1, <4>3
    <3>3. ASSUME NEW j \in 1 .. i - 1 PROVE q[j] \in AheadOf(R, S, q[i])
      BY <1>1, <2>2, <3>1 DEF AheadOf
    <3> QED BY <2>4, <3>1, <3>2, <3>3
  <2> QED BY <2>2, <2>5, <2>6
<1>2. IsFiniteSet(S) /\ Len(s) = Len(t) /\ Len(s) \in Nat
  BY <1>1, LenProperties
<1>3. ASSUME NEW i \in 1 .. Len(s) PROVE s[i] = t[i]
  <2>1. /\ s[i] \in S /\ t[i] \in S
        /\ Cardinality(AheadOf(R, S, s[i])) = i - 1 /\ Cardinality(AheadOf(R, S, t[i])) = i - 1
    BY <1>1, <1>2
  <2>2. <<s[i], t[i]>> \notin R /\ <<t[i], s[i]>> \notin R
    BY <1>2, <2>1, Ranks
  <2> QED BY <2>1, <2>2 DEF Lines
<1> QED BY <1>2, <1>3, SeqEqual

-----------------------------------------------------------------------------
(* Lists: what is in them, where, and what is left of them.                    *)
LEMMA ListIs ==
  ASSUME NEW s \in Seq(Tracks)
  PROVE  /\ Len(s) \in Nat /\ DOMAIN s = 1 .. Len(s) /\ s \in [1 .. Len(s) -> Tracks]
         /\ Elems(s) \subseteq Tracks /\ (s = <<>> <=> Elems(s) = {}) /\ (s = <<>> <=> Len(s) = 0)
         /\ \A t : t \in Elems(s) <=> \E i \in 1 .. Len(s) : s[i] = t
         /\ IsFiniteSet(Elems(s))
<1>1. Len(s) \in Nat /\ DOMAIN s = 1 .. Len(s) /\ s \in [1 .. Len(s) -> Tracks]
  BY LenProperties
<1>2. \A t : t \in Elems(s) <=> \E i \in 1 .. Len(s) : s[i] = t
  BY <1>1 DEF Elems
<1>3. Elems(s) \subseteq Tracks
  BY <1>1, <1>2
<1>4. s = <<>> <=> Len(s) = 0
  BY EmptySeq
<1>5. Len(s) = 0 <=> Elems(s) = {}
  BY <1>1, <1>2
<1>6. IsFiniteSet(Elems(s))
  <2>1. s \in Surjection(1 .. Len(s), Elems(s))
    BY <1>1, <1>2 DEF Surjection
  <2>2. IsFiniteSet(1 .. Len(s))
    BY <1>1, UpTo
  <2> QED BY <2>1, <2>2, FS_Surjection
<1> QED BY <1>1, <1>2, <1>3, <1>4, <1>5, <1>6

(* In a list a track has one place.                                            *)
LEMMA IndexIs ==
  ASSUME NEW s \in Lists
  PROVE  /\ s \in Seq(Tracks)
         /\ \A t \in Elems(s) : Index(s, t) \in 1 .. Len(s) /\ s[Index(s, t)] = t
         /\ \A i \in 1 .. Len(s) : Index(s, s[i]) = i
<1>1. s \in Seq(Tracks) /\ \A i, j \in DOMAIN s : s[i] = s[j] => i = j
  BY DEF Lists
<1>2. DOMAIN s = 1 .. Len(s)
  BY <1>1, ListIs
<1>3. ASSUME NEW t \in Elems(s) PROVE Index(s, t) \in DOMAIN s /\ s[Index(s, t)] = t
  <2>1. \E i \in DOMAIN s : s[i] = t
    BY <1>3 DEF Elems
  <2> QED BY <2>1 DEF Index
<1>4. ASSUME NEW i \in DOMAIN s PROVE Index(s, s[i]) = i
  <2>1. s[i] \in Elems(s)
    BY DEF Elems
  <2> QED BY <1>1, <1>3, <2>1
<1> QED BY <1>1, <1>2, <1>3, <1>4

(* What is selected from a list is there once, in the list's order.            *)
LEMMA OnlyIs ==
  ASSUME NEW s \in Lists, NEW ts \in SUBSET Tracks
  PROVE  /\ Only[s][ts] \in Lists
         /\ Elems(Only[s][ts]) = Elems(s) \cap ts
         /\ \A i, j \in 1 .. Len(Only[s][ts]) : i < j =>
              Index(s, Only[s][ts][i]) < Index(s, Only[s][ts][j])
<1> DEFINE I == {i \in DOMAIN s : s[i] \in ts}
           R == {p \in I \X I : p[1] < p[2]}
           at == [k \in 1 .. Cardinality(I) |->
                    CHOOSE i \in DOMAIN s : s[i] \in ts /\ Cardinality({j \in 1 .. i : s[j] \in ts}) = k]
           r == [k \in 1 .. Cardinality(I) |-> s[at[k]]]
<1>1. /\ s \in Seq(Tracks) /\ Len(s) \in Nat /\ DOMAIN s = 1 .. Len(s)
      /\ s \in [1 .. Len(s) -> Tracks]
      /\ \A i, j \in DOMAIN s : s[i] = s[j] => i = j
  BY ListIs DEF Lists
<1>2. I \subseteq 1 .. Len(s) /\ IsFiniteSet(I) /\ Cardinality(I) \in Nat
  <2>1. I \in SUBSET (1 .. Len(s)) /\ IsFiniteSet(1 .. Len(s))
    BY <1>1, UpTo
  <2> HIDE DEF I
  <2> QED BY <2>1, FS_Subset, FS_CardinalityType
<1>3. Lines(R, I)
  <2>1. \A i, j : <<i, j>> \in R <=> i \in I /\ j \in I /\ i < j
    OBVIOUS
  <2>2. \A i \in I : i \in Int
    BY <1>2
  <2> HIDE DEF R, I
  <2> QED BY <2>1, <2>2 DEF Lines
<1>4. ASSUME NEW i \in I
      PROVE  Cardinality({j \in 1 .. i : s[j] \in ts}) = Cardinality(AheadOf(R, I, i)) + 1
  <2>1. {j \in 1 .. i : s[j] \in ts} = AheadOf(R, I, i) \cup {i}
    <3>1. ASSUME NEW j, j \in 1 .. i, s[j] \in ts PROVE j \in AheadOf(R, I, i) \cup {i}
      <4>1. j \in 1 .. Len(s) /\ i \in 1 .. Len(s)
        BY <1>2, <3>1
      <4>2. j < i \/ j = i
        BY <3>1, <4>1
      <4>3. j \in I
        BY <1>1, <3>1, <4>1
      <4> QED BY <4>2, <4>3 DEF AheadOf
    <3>2. ASSUME NEW j \in AheadOf(R, I, i) PROVE j \in 1 .. i /\ s[j] \in ts
      BY <1>2 DEF AheadOf
    <3>3. i \in 1 .. i /\ s[i] \in ts
      BY <1>2
    <3> QED BY <3>1, <3>2, <3>3
  <2>2. i \notin AheadOf(R, I, i)
    BY <1>2 DEF AheadOf
  <2>3. IsFiniteSet(AheadOf(R, I, i))
    <3>1. AheadOf(R, I, i) \in SUBSET I
      BY DEF AheadOf
    <3> HIDE DEF I
    <3> QED BY <1>2, <3>1, FS_Subset
  <2> QED BY <2>1, <2>2, <2>3, FS_AddElement
<1>5. /\ at \in [1 .. Cardinality(I) -> I]
      /\ \A k \in 1 .. Cardinality(I) : Cardinality(AheadOf(R, I, at[k])) = k - 1
  <2> SUFFICES ASSUME NEW k \in 1 .. Cardinality(I)
               PROVE  at[k] \in I /\ Cardinality(AheadOf(R, I, at[k])) = k - 1
    OBVIOUS
  <2> DEFINE Fit(i) == s[i] \in ts /\ Cardinality({j \in 1 .. i : s[j] \in ts}) = k
  <2>1. PICK i \in I : Cardinality(AheadOf(R, I, i)) = k - 1
    <3> HIDE DEF I, R
    <3> QED BY <1>2, <1>3, Ranks
  <2>2. i \in DOMAIN s /\ Fit(i)
    BY <1>2, <1>4, <2>1
  <2>3. at[k] = CHOOSE x \in DOMAIN s : Fit(x)
    OBVIOUS
  <2>4. at[k] \in DOMAIN s /\ Fit(at[k])
    <3> HIDE DEF Fit, at
    <3> QED BY <2>2, <2>3
  <2>5. at[k] \in I
    BY <2>4
  <2>6. Cardinality(AheadOf(R, I, at[k])) \in Int
    <3> HIDE DEF I, R, at
    <3> QED BY <1>2, <1>3, <2>5, Ranks
  <2>7. Cardinality({j \in 1 .. at[k] : s[j] \in ts}) = Cardinality(AheadOf(R, I, at[k])) + 1
    <3> HIDE DEF at, R
    <3> QED BY <1>4, <2>5
  <2>8. Cardinality({j \in 1 .. at[k] : s[j] \in ts}) = k
    BY <2>4
  <2> HIDE DEF at, R, I, Fit
  <2> QED BY <2>5, <2>6, <2>7, <2>8
<1>6. /\ \A k, l \in 1 .. Cardinality(I) : k < l => at[k] < at[l]
      /\ \A k, l \in 1 .. Cardinality(I) : at[k] = at[l] => k = l
      /\ \A i \in I : \E k \in 1 .. Cardinality(I) : at[k] = i
  <2>1. /\ \A k, l \in 1 .. Cardinality(I) : k < l => <<at[k], at[l]>> \in R
        /\ \A k, l \in 1 .. Cardinality(I) : at[k] = at[l] => k = l
        /\ \A i \in I : \E k \in 1 .. Cardinality(I) : at[k] = i
    <3> HIDE DEF I, R, at
    <3> QED BY <1>2, <1>3, <1>5, Ranked
  <2> QED BY <2>1
<1>7. Only[s][ts] = r \o <<>>
  BY <1>1 DEF Only
<1> HIDE DEF at
<1>8. ASSUME NEW k \in 1 .. Cardinality(I)
      PROVE  at[k] \in 1 .. Len(s) /\ r[k] = s[at[k]] /\ r[k] \in Tracks /\ r[k] \in ts /\ r[k] \in Elems(s)
  BY <1>1, <1>5 DEF Elems
<1>9. r \in Seq(Tracks) /\ Len(r) = Cardinality(I) /\ DOMAIN r = 1 .. Len(r)
  BY <1>2, <1>8
<1>10. Only[s][ts] = r
  <2> HIDE DEF r
  <2> QED BY <1>7, <1>9, ConcatEmptySeq
<1>11. r \in Lists
  <2>1. \A k, l \in 1 .. Cardinality(I) : r[k] = r[l] => k = l
    BY <1>1, <1>6, <1>8
  <2> HIDE DEF r, I
  <2> QED BY <1>9, <2>1 DEF Lists
<1>12. Elems(r) = Elems(s) \cap ts
  <2>1. ASSUME NEW t \in Elems(r) PROVE t \in Elems(s) \cap ts
    BY <1>8, <1>9 DEF Elems
  <2>2. ASSUME NEW t \in Elems(s) \cap ts PROVE t \in Elems(r)
    <3>1. PICK i \in DOMAIN s : s[i] = t
      BY <2>2 DEF Elems
    <3>2. PICK k \in 1 .. Cardinality(I) : at[k] = i
      BY <1>6, <2>2, <3>1
    <3>3. r[k] = t /\ k \in DOMAIN r
      BY <1>8, <1>9, <3>1, <3>2
    <3> QED BY <3>3 DEF Elems
  <2> QED BY <2>1, <2>2
<1>13. ASSUME NEW k \in 1 .. Len(r), NEW l \in 1 .. Len(r), k < l
       PROVE  Index(s, r[k]) < Index(s, r[l])
  <2>1. k \in 1 .. Cardinality(I) /\ l \in 1 .. Cardinality(I)
    BY <1>9
  <2>2. r[k] = s[at[k]] /\ r[l] = s[at[l]] /\ at[k] \in 1 .. Len(s) /\ at[l] \in 1 .. Len(s)
    BY <1>8, <2>1
  <2>3. at[k] < at[l]
    BY <1>6, <1>13, <2>1
  <2>4. Index(s, s[at[k]]) = at[k] /\ Index(s, s[at[l]]) = at[l]
    BY <2>2, IndexIs
  <2> HIDE DEF r
  <2> QED BY <2>2, <2>3, <2>4
<1> QED BY <1>10, <1>11, <1>12, <1>13

-----------------------------------------------------------------------------
Sides == {"vip", "regular"}

(* The rules of a group put the tracks of the list in a line, whatever the     *)
(* rules are and whatever the manual order names.                              *)
LEMMA BeforeLines ==
  ASSUME TypeOK, NEW g \in Sides, NEW S \in SUBSET Elems(queue)
  PROVE  Lines({p \in S \X S : Before(g, p[1], p[2])}, S)
<1> DEFINE m == manual[g]
           x(t) == Index(queue, t)
           y(t) == Index(m, t)
<1>1. queue \in Lists /\ m \in Lists /\ Priority \in [Tracks -> Nat] /\ Elems(queue) \subseteq Tracks
  BY PlayerAssumption, ListIs DEF TypeOK, Lists, Sides
<1>2. /\ \A t \in S : t \in Tracks /\ x(t) \in Int
      /\ \A t, u \in S : x(t) = x(u) => t = u
  <2>1. \A t \in Elems(queue) : x(t) \in 1 .. Len(queue) /\ queue[x(t)] = t
    BY <1>1, IndexIs
  <2>2. Len(queue) \in Nat
    BY <1>1, IndexIs, ListIs
  <2> HIDE DEF x
  <2> QED BY <1>1, <2>1, <2>2
<1>3. /\ \A t \in Elems(m) : y(t) \in Int
      /\ \A t, u \in Elems(m) : y(t) = y(u) => t = u
  <2>1. \A t \in Elems(m) : y(t) \in 1 .. Len(m) /\ m[y(t)] = t
    BY <1>1, IndexIs
  <2>2. Len(m) \in Nat
    BY <1>1, IndexIs, ListIs
  <2> HIDE DEF y, m
  <2> QED BY <2>1, <2>2
<1> DEFINE B(a, b) == Before(g, a, b)
<1>4. /\ \A a \in S : ~B(a, a)
      /\ \A a, b, c \in S : B(a, b) /\ B(b, c) => B(a, c)
      /\ \A a, b \in S : a # b => B(a, b) \/ B(b, a)
  <2>1. CASE st.rules[g].order = "free"
    <3> DEFINE ids == Elems(m)
    <3>1. \A a, b : B(a, b) <=> \/ a \in ids /\ (b \in ids => y(a) < y(b))
                                \/ {a, b} \cap ids = {} /\ x(a) < x(b)
      BY <2>1 DEF Before, Older
    <3> HIDE DEF B, ids, x, y
    <3> QED BY <1>2, <1>3, <3>1 DEF ids
  <2>2. CASE st.rules[g].order # "free"
    <3> DEFINE r == st.rules[g]
               C(a, b) == IF r.priority = "asc" THEN Priority[a] < Priority[b] ELSE Priority[a] > Priority[b]
               D(a, b) == IF r.date = "desc" THEN x(b) < x(a) ELSE x(a) < x(b)
    <3>1. \A a, b : B(a, b) <=> IF r.priority # "none" /\ Priority[a] # Priority[b] THEN C(a, b) ELSE D(a, b)
      BY <2>2 DEF Before, Older
    <3>2. \A t \in S : Priority[t] \in Int
      BY <1>1, <1>2
    <3>3. /\ \A a \in S : ~D(a, a)
          /\ \A a, b, c \in S : D(a, b) /\ D(b, c) => D(a, c)
          /\ \A a, b \in S : a # b => D(a, b) \/ D(b, a)
      <4> HIDE DEF x, r
      <4> QED BY <1>2
    <3> HIDE DEF B, D, x, r
    <3>4. /\ \A a \in S : ~C(a, a)
          /\ \A a, b, c \in S : C(a, b) /\ C(b, c) => C(a, c)
          /\ \A a, b \in S : Priority[a] # Priority[b] => C(a, b) \/ C(b, a)
          /\ \A a, b, c \in S : Priority[a] = Priority[b] => (C(a, c) <=> C(b, c)) /\ (C(c, a) <=> C(c, b))
          /\ \A a, b \in S : C(a, b) => Priority[a] # Priority[b]
      BY <3>2
    <3> HIDE DEF C
    <3> QED BY <3>1, <3>3, <3>4
  <2> QED BY <2>1, <2>2
<1>5. \A a, b : <<a, b>> \in {p \in S \X S : Before(g, p[1], p[2])} <=> a \in S /\ b \in S /\ B(a, b)
  OBVIOUS
<1> HIDE DEF B
<1> QED BY <1>4, <1>5 DEF Lines

(* Sorting a group returns its tracks, each once, in the order of its rules.   *)
LEMMA SortedIs ==
  ASSUME TypeOK, NEW g \in Sides, NEW S \in SUBSET Elems(queue)
  PROVE  /\ Sorted[g][S] \in Lists /\ Elems(Sorted[g][S]) = S
         /\ \A i, j \in 1 .. Len(Sorted[g][S]) : i < j => Before(g, Sorted[g][S][i], Sorted[g][S][j])
<1> DEFINE R == {p \in S \X S : Before(g, p[1], p[2])}
           n == Cardinality(S)
           s == [k \in 1 .. n |-> CHOOSE t \in S : Cardinality({u \in S : Before(g, u, t)}) = k - 1]
<1>1. S \in SUBSET Tracks /\ IsFiniteSet(S) /\ n \in Nat
  <2>1. queue \in Seq(Tracks)
    BY DEF TypeOK, Lists
  <2>2. IsFiniteSet(Elems(queue)) /\ Elems(queue) \subseteq Tracks
    BY <2>1, ListIs
  <2> QED BY <2>2, FS_Subset, FS_CardinalityType
<1>2. Lines(R, S)
  BY BeforeLines
<1>3. \A t \in S : {u \in S : Before(g, u, t)} = AheadOf(R, S, t)
  BY DEF AheadOf
<1>4. /\ s \in [1 .. n -> S]
      /\ \A k \in 1 .. n : Cardinality(AheadOf(R, S, s[k])) = k - 1
  <2> SUFFICES ASSUME NEW k \in 1 .. n
               PROVE  s[k] \in S /\ Cardinality(AheadOf(R, S, s[k])) = k - 1
    OBVIOUS
  <2> DEFINE Fit(t) == Cardinality({u \in S : Before(g, u, t)}) = k - 1
  <2>1. \E t \in S : Cardinality(AheadOf(R, S, t)) = k - 1
    <3> HIDE DEF R
    <3> QED BY <1>1, <1>2, Ranks
  <2>2. \E t \in S : Fit(t)
    BY <1>3, <2>1
  <2>3. s[k] = CHOOSE t \in S : Fit(t)
    OBVIOUS
  <2>4. s[k] \in S /\ Fit(s[k])
    <3> HIDE DEF Fit, s
    <3> QED BY <2>2, <2>3
  <2> QED BY <1>3, <2>4
<1>5. Sorted[g][S] = s \o <<>>
  BY <1>1 DEF Sorted, Sides
<1> HIDE DEF s
<1>6. /\ \A i, j \in 1 .. n : i < j => <<s[i], s[j]>> \in R
      /\ \A i, j \in 1 .. n : s[i] = s[j] => i = j
      /\ \A t \in S : \E k \in 1 .. n : s[k] = t
  <2> HIDE DEF R
  <2> QED BY <1>1, <1>2, <1>4, Ranked
<1>7. s \in Seq(Tracks) /\ Len(s) = n /\ DOMAIN s = 1 .. n
  BY <1>1, <1>4
<1>8. Sorted[g][S] = s
  BY <1>5, <1>7, ConcatEmptySeq
<1>9. s \in Lists
  BY <1>6, <1>7 DEF Lists
<1>10. Elems(s) = S
  BY <1>4, <1>6, <1>7 DEF Elems
<1>11. \A i, j \in 1 .. n : i < j => Before(g, s[i], s[j])
  BY <1>6
<1> QED BY <1>7, <1>8, <1>9, <1>10, <1>11

(* The three groups, and what of the list is in each.                          *)
LEMMA GroupsAre ==
  ASSUME TypeOK
  PROVE  /\ SplitIds \in Lists /\ ResolveIds \in Lists
         /\ Elems(Pool) = IF Stream THEN Elems(queue) \ Elems(SplitIds) ELSE Elems(queue)
         /\ Elems(Pool) \subseteq Elems(queue) /\ Elems(queue) \subseteq Tracks
         /\ Vips \in Lists /\ Elems(Vips) = {t \in Elems(Pool) : IsVip(t)}
         /\ Regulars \in Lists /\ Elems(Regulars) = {t \in Elems(Pool) : ~IsVip(t)}
         /\ Backgrounds \in Lists /\ Elems(Backgrounds) \subseteq Elems(queue) \cap Elems(SplitIds)
         /\ Backgrounds # <<>> => Stream
<1>1. queue \in Lists /\ bgPage \in Lists /\ bgMode \in Lists
  BY DEF TypeOK
<1>2. SplitIds \in Lists /\ ResolveIds \in Lists
  BY <1>1 DEF SplitIds, ResolveIds
<1>3. Elems(queue) \in SUBSET Tracks /\ Elems(SplitIds) \in SUBSET Tracks
  BY <1>1, <1>2, IndexIs, ListIs
<1>4. Elems(Pool) = IF Stream THEN Elems(queue) \ Elems(SplitIds) ELSE Elems(queue)
  <2>1. Elems(Only[queue][Tracks \ Elems(SplitIds)]) = Elems(queue) \cap (Tracks \ Elems(SplitIds))
    BY <1>1, OnlyIs
  <2> QED BY <1>3, <2>1 DEF Pool, Without
<1>5. Elems(Pool) \subseteq Elems(queue)
  BY <1>4
<1>6. /\ Vips \in Lists /\ Elems(Vips) = {t \in Elems(Pool) : IsVip(t)}
      /\ Regulars \in Lists /\ Elems(Regulars) = {t \in Elems(Pool) : ~IsVip(t)}
  <2>1. /\ {t \in Elems(Pool) : IsVip(t)} \in SUBSET Elems(queue)
        /\ {t \in Elems(Pool) : ~IsVip(t)} \in SUBSET Elems(queue)
    BY <1>5
  <2> QED BY <2>1, SortedIs DEF Vips, Regulars, Sides
<1>7. /\ Backgrounds \in Lists /\ (Backgrounds # <<>> => Stream)
      /\ Elems(Backgrounds) \subseteq Elems(queue) \cap Elems(SplitIds)
  <2>1. CASE Stream
    BY <1>2, <1>3, <2>1, OnlyIs DEF Backgrounds
  <2>2. CASE ~Stream
    <3>1. <<>> \in Lists /\ Elems(<<>>) = {}
      BY EmptySeq DEF Lists, Elems
    <3> QED BY <2>2, <3>1 DEF Backgrounds
  <2> QED BY <2>1, <2>2
<1> QED BY <1>2, <1>3, <1>4, <1>5, <1>6, <1>7

-----------------------------------------------------------------------------
(* A list begins with one of its tracks, unless it is empty.                 *)
LEMMA FirstIs ==
  ASSUME NEW s \in Lists
  PROVE  /\ s # <<>> <=> Elems(s) # {}
         /\ s # <<>> => Len(s) >= 1 /\ s[1] \in Elems(s)
         /\ Elems(s) \subseteq Tracks /\ First(s) \in Opt
<1>1. s \in Seq(Tracks)
  BY DEF Lists
<1>2. s # <<>> => Len(s) >= 1 /\ s[1] \in Elems(s)
  BY <1>1, ListIs
<1> QED BY <1>1, <1>2, ListIs DEF First, Opt

(* What a group offers next is one of its tracks, or nothing.                  *)
LEMMA FromGroupIs ==
  ASSUME NEW s \in Lists, NEW t, NEW r, NEW a
  PROVE  FromGroup(s, t, r, a) \subseteq Elems(s) \cup {None}
<1>1. CASE s = <<>>
  BY <1>1 DEF FromGroup
<1>2. CASE s # <<>> /\ r
  BY <1>2 DEF FromGroup
<1>3. CASE s # <<>> /\ ~r
  <2>1. s[1] \in Elems(s)
    BY <1>3, FirstIs
  <2>2. CASE t \notin Elems(s)
    BY <1>3, <2>1, <2>2 DEF FromGroup
  <2>3. CASE t \in Elems(s)
    <3> DEFINE i == Index(s, t)
    <3>1. i \in 1 .. Len(s) /\ Len(s) \in Nat /\ \A k \in 1 .. Len(s) : s[k] \in Elems(s)
      BY <2>3, IndexIs, ListIs
    <3>2. i < Len(s) => s[i + 1] \in Elems(s)
      BY <3>1
    <3>3. FromGroup(s, t, r, a) \subseteq
            IF i < Len(s) THEN {s[i + 1]} ELSE {s[1], None}
      BY <1>3, <2>3 DEF FromGroup
    <3> HIDE DEF i
    <3> QED BY <2>1, <3>2, <3>3
  <2> QED BY <2>2, <2>3
<1> QED BY <1>1, <1>2, <1>3

(* Two lists after one another.                                                *)
LEMMA HeadIs ==
  ASSUME NEW a \in Lists, NEW b \in Lists
  PROVE  Head2(a, b) = IF a # <<>> THEN a[1] ELSE First(b)
<1>1. a \in Seq(Tracks) /\ b \in Seq(Tracks)
  BY DEF Lists
<1>2. CASE a = <<>>
  <2>1. a \o b = b
    BY <1>1, <1>2, ConcatEmptySeq
  <2> QED BY <1>2, <2>1 DEF Head2
<1>3. CASE a # <<>>
  <2>1. Len(a) \in Nat /\ Len(a) >= 1 /\ Len(b) \in Nat
    BY <1>1, <1>3, ListIs
  <2>2. (a \o b)[1] = a[1] /\ Len(a \o b) = Len(a) + Len(b)
    BY <1>1, <2>1, ConcatProperties
  <2>3. a \o b # <<>>
    BY <2>1, <2>2, EmptySeq
  <2> QED BY <1>3, <2>2, <2>3 DEF Head2, First
<1> QED BY <1>2, <1>3

(* Whatever comes next and whatever is to go is a track or nothing.            *)
Decisions == [next : Opt, remove : Opt, resumed : BOOLEAN]

(* A decision made of tracks is such a decision.                             *)
LEMMA DecisionIs ==
  ASSUME NEW t \in Opt, NEW u \in Opt, NEW b \in BOOLEAN
  PROVE  Decision(t, u, b) \in Decisions
BY DEF Decision, Decisions

(* In static mode pickNext decides so.                                       *)
LEMMA StaticTyped == ASSUME TypeOK PROVE StaticNext \subseteq Decisions
<1> DEFINE inQueue == current \in Elems(queue)
           wasVip == inQueue /\ IsVip(current)
           g == IF wasVip THEN "vip" ELSE "regular"
           again == IF st.repeat = "all" THEN Head2(Vips, Regulars) ELSE None
           paused == IF pausedBg # None THEN pausedBg ELSE pausedReg
<1>1. Vips \in Lists /\ Regulars \in Lists
  BY GroupsAre
<1>2. None \in Opt /\ pausedBg \in Opt /\ pausedReg \in Opt
  BY DEF TypeOK, Opt
<1>3. Head2(Vips, Regulars) \in Opt /\ again \in Opt
  <2>1. Vips # <<>> => Vips[1] \in Opt
    BY <1>1, FirstIs DEF Opt
  <2> QED BY <1>1, <1>2, <2>1, HeadIs, FirstIs
<1>4. Group(g) \in Lists
  BY <1>1 DEF Group
<1>5. FromGroup(Group(g), current, Random(g), FALSE) \subseteq Opt
  <2> DEFINE G == Group(g)
  <2>1. G \in Lists
    BY <1>4
  <2> HIDE DEF G
  <2>2. FromGroup(G, current, Random(g), FALSE) \subseteq Elems(G) \cup {None}
    BY <2>1, FromGroupIs
  <2>3. Elems(G) \subseteq Tracks
    BY <2>1, FirstIs
  <2> QED BY <2>2, <2>3 DEF Opt, G
<1>6. paused \in Opt /\ (Regulars # <<>> => Regulars[1] \in Opt)
  BY <1>1, <1>2, FirstIs DEF Opt
<1> DEFINE N == FromGroup(Group(g), current, Random(g), FALSE)
<1>7. StaticNext =
        IF current = None THEN {Decision(Head2(Vips, Regulars), None, FALSE)}
        ELSE IF ~IsLast(Group(g), current) THEN {Decision(t, None, FALSE) : t \in N}
        ELSE IF wasVip /\ paused # None THEN {Decision(paused, None, TRUE)}
        ELSE IF wasVip /\ Regulars # <<>> THEN {Decision(Regulars[1], None, FALSE)}
        ELSE {Decision(again, None, FALSE)}
  BY DEF StaticNext
<1>8. N \subseteq Opt
  BY <1>5
<1> HIDE DEF N, again, paused, wasVip, g
<1> QED BY <1>2, <1>3, <1>6, <1>7, <1>8, DecisionIs

(* Likewise in the other modes. What leaves the list is the track that played. *)
LEMMA QueueTyped == ASSUME TypeOK PROVE QueueNext \subseteq Decisions
<1> DEFINE t == IF current \in Elems(queue) THEN current ELSE None
           wasVip == t # None /\ IsVip(t)
           wasBg == t # None /\ IsBackground(t, ResolveIds)
           wasReg == t # None /\ ~wasVip /\ ~wasBg
           vips == IF wasVip THEN Without(Vips, {t}) ELSE Vips
           regs == IF wasReg THEN Without(Regulars, {t}) ELSE Regulars
           gone == IF Stream /\ (wasVip \/ wasReg) THEN t ELSE None
           From(g, was, rest) ==
             IF was THEN {IF n = None THEN rest[1] ELSE n : n \in FromGroup(Group(g), t, Random(g), FALSE)}
             ELSE IF Random(g) THEN Elems(rest) ELSE {rest[1]}
           bgs == FromGroup(Backgrounds, IF wasBg THEN t ELSE None, st.shuffle, TRUE)
<1>1. Vips \in Lists /\ Regulars \in Lists /\ Backgrounds \in Lists
  BY GroupsAre
<1>2. None \in Opt /\ pausedBg \in Opt /\ current \in Opt
  BY DEF TypeOK, Opt
<1>3. t \in Opt /\ gone \in Opt
  BY <1>2
<1>4. vips \in Lists /\ regs \in Lists
  <2>1. \A s \in Lists : Without(s, {t}) \in Lists
    BY OnlyIs DEF Without
  <2> QED BY <1>1, <2>1
<1> HIDE DEF wasVip, wasBg, wasReg, gone, t
<1>5. ASSUME NEW g \in Sides, NEW was, NEW rest \in Lists, rest # <<>>
      PROVE  From(g, was, rest) \subseteq Tracks
  <2>1. rest[1] \in Tracks /\ Elems(rest) \subseteq Tracks
    BY <1>5, FirstIs
  <2>2. Group(g) \in Lists
    BY <1>1 DEF Group, Sides
  <2> DEFINE G == Group(g)
             N == FromGroup(G, t, Random(g), FALSE)
  <2>3. N \subseteq Tracks \cup {None}
    <3>1. G \in Lists
      BY <2>2
    <3> HIDE DEF G
    <3> QED BY <3>1, FromGroupIs, FirstIs
  <2>4. From(g, was, rest) = IF was THEN {IF n = None THEN rest[1] ELSE n : n \in N}
                             ELSE IF Random(g) THEN Elems(rest) ELSE {rest[1]}
    OBVIOUS
  <2> HIDE DEF From, N
  <2> QED BY <2>1, <2>3, <2>4
<1>6. bgs \subseteq Opt
  BY <1>1, FromGroupIs, FirstIs DEF Opt
<1>7. QueueNext =
        IF vips # <<>> THEN {Decision(n, IF wasVip THEN gone ELSE None, FALSE) : n \in From("vip", wasVip, vips)}
        ELSE IF regs # <<>> THEN {Decision(n, gone, FALSE) : n \in From("regular", wasReg, regs)}
        ELSE IF pausedBg # None THEN {Decision(pausedBg, gone, TRUE)}
        ELSE {Decision(n, gone, FALSE) : n \in bgs}
  BY DEF QueueNext, t, wasVip, wasBg, wasReg, gone
<1>8. (vips # <<>> => From("vip", wasVip, vips) \subseteq Opt) /\ (regs # <<>> => From("regular", wasReg, regs) \subseteq Opt)
  <2> HIDE DEF From, vips, regs
  <2> QED BY <1>4, <1>5 DEF Opt, Sides
<1> HIDE DEF From, vips, regs, bgs
<1>9. (IF wasVip THEN gone ELSE None) \in Opt
  BY <1>2, <1>3
<1> QED BY <1>2, <1>3, <1>6, <1>7, <1>8, <1>9, DecisionIs

(* So whatever pickNext decides.                                               *)
LEMMA PickTyped == ASSUME TypeOK PROVE PickNext \subseteq Decisions
<1>1. Decision(None, None, FALSE) \in Decisions
  BY DecisionIs DEF Opt
<1> QED BY <1>1, StaticTyped, QueueTyped DEF PickNext

-----------------------------------------------------------------------------
(* Lists put together, added to, and with two tracks exchanged stay lists.     *)
LEMMA ConcatIs ==
  ASSUME NEW a \in Lists, NEW b \in Lists, Elems(a) \cap Elems(b) = {}
  PROVE  a \o b \in Lists /\ Elems(a \o b) = Elems(a) \cup Elems(b)
<1> DEFINE c == a \o b
<1>1. /\ a \in Seq(Tracks) /\ Len(a) \in Nat /\ DOMAIN a = 1 .. Len(a)
      /\ b \in Seq(Tracks) /\ Len(b) \in Nat /\ DOMAIN b = 1 .. Len(b)
      /\ \A i, j \in DOMAIN a : a[i] = a[j] => i = j
      /\ \A i, j \in DOMAIN b : b[i] = b[j] => i = j
  BY ListIs DEF Lists
<1>2. /\ c \in Seq(Tracks) /\ Len(c) = Len(a) + Len(b)
      /\ \A i \in 1 .. Len(a) + Len(b) : c[i] = IF i <= Len(a) THEN a[i] ELSE b[i - Len(a)]
  BY <1>1, ConcatProperties
<1> HIDE DEF c
<1>3. DOMAIN c = 1 .. Len(a) + Len(b)
  BY <1>2, ListIs
<1>4. \A i \in 1 .. Len(a) : i \in 1 .. Len(a) + Len(b) /\ c[i] = a[i] /\ a[i] \in Elems(a)
  BY <1>1, <1>2 DEF Elems
<1>5. ASSUME NEW i \in 1 .. Len(a) + Len(b), ~(i <= Len(a))
      PROVE  i - Len(a) \in 1 .. Len(b) /\ c[i] = b[i - Len(a)] /\ c[i] \in Elems(b)
  <2>1. i - Len(a) \in 1 .. Len(b)
    BY <1>1, <1>5
  <2>2. c[i] = b[i - Len(a)]
    BY <1>2, <1>5
  <2>3. b[i - Len(a)] \in Elems(b)
    BY <1>1, <2>1 DEF Elems
  <2> QED BY <2>1, <2>2, <2>3
<1>6. ASSUME NEW i \in DOMAIN c, NEW j \in DOMAIN c, c[i] = c[j] PROVE i = j
  <2>1. CASE i <= Len(a) /\ j <= Len(a)
    <3>1. i \in 1 .. Len(a) /\ j \in 1 .. Len(a)
      BY <1>1, <1>3, <2>1
    <3> QED BY <1>1, <1>4, <1>6, <3>1
  <2>2. CASE ~(i <= Len(a)) /\ ~(j <= Len(a))
    <3>1. i - Len(a) = j - Len(a)
      BY <1>1, <1>3, <1>5, <1>6, <2>2
    <3> QED BY <1>1, <1>3, <3>1
  <2>3. CASE i <= Len(a) /\ ~(j <= Len(a))
    <3>1. i \in 1 .. Len(a)
      BY <1>1, <1>3, <2>3
    <3> QED BY <1>3, <1>4, <1>5, <1>6, <2>3, <3>1
  <2>4. CASE ~(i <= Len(a)) /\ j <= Len(a)
    <3>1. j \in 1 .. Len(a)
      BY <1>1, <1>3, <2>4
    <3> QED BY <1>3, <1>4, <1>5, <1>6, <2>4, <3>1
  <2> QED BY <2>1, <2>2, <2>3, <2>4
<1>7. Elems(c) = Elems(a) \cup Elems(b)
  <2>1. ASSUME NEW t \in Elems(c) PROVE t \in Elems(a) \cup Elems(b)
    <3>1. PICK i \in 1 .. Len(a) + Len(b) : c[i] = t
      BY <1>3 DEF Elems
    <3>2. i <= Len(a) => i \in 1 .. Len(a)
      BY <1>1
    <3> QED BY <1>4, <1>5, <3>1, <3>2
  <2>2. ASSUME NEW t \in Elems(a) PROVE t \in Elems(c)
    <3>1. PICK i \in 1 .. Len(a) : a[i] = t
      BY <1>1 DEF Elems
    <3> QED BY <1>3, <1>4, <3>1 DEF Elems
  <2>3. ASSUME NEW t \in Elems(b) PROVE t \in Elems(c)
    <3>1. PICK i \in 1 .. Len(b) : b[i] = t
      BY <1>1, <2>3 DEF Elems
    <3>2. i + Len(a) \in 1 .. Len(a) + Len(b) /\ ~(i + Len(a) <= Len(a)) /\ (i + Len(a)) - Len(a) = i
      BY <1>1
    <3>3. c[i + Len(a)] = t /\ i + Len(a) \in DOMAIN c
      BY <1>3, <1>5, <3>1, <3>2
    <3> QED BY <3>3 DEF Elems
  <2> QED BY <2>1, <2>2, <2>3
<1>8. c \in Lists
  BY <1>2, <1>6 DEF Lists
<1> QED BY <1>7, <1>8 DEF c

(* A track that is not on the list may be added to it.                         *)
LEMMA AppendIs ==
  ASSUME NEW s \in Lists, NEW t \in Tracks, t \notin Elems(s)
  PROVE  Append(s, t) \in Lists /\ Elems(Append(s, t)) = Elems(s) \cup {t}
<1>1. /\ <<t>> \in Seq(Tracks) /\ DOMAIN <<t>> = {1} /\ <<t>>[1] = t
  OBVIOUS
<1>2. <<t>> \in Lists /\ Elems(<<t>>) = {t}
  BY <1>1 DEF Lists, Elems
<1>3. Append(s, t) = s \o <<t>>
  BY AppendIsConcat DEF Lists
<1> QED BY <1>2, <1>3, ConcatIs

(* Two places exchange their tracks, the others keep theirs.                   *)
LEMMA SwapIs ==
  ASSUME NEW s \in Lists, NEW i \in DOMAIN s, NEW j \in DOMAIN s
  PROVE  /\ Swap(s, i, j) \in Lists /\ Elems(Swap(s, i, j)) = Elems(s)
         /\ Len(Swap(s, i, j)) = Len(s)
         /\ \A k \in 1 .. Len(s) : Swap(s, i, j)[k] = IF k = j THEN s[i] ELSE IF k = i THEN s[j] ELSE s[k]
<1> DEFINE r == Swap(s, i, j)
<1>1. /\ s \in Seq(Tracks) /\ Len(s) \in Nat /\ DOMAIN s = 1 .. Len(s) /\ s \in [1 .. Len(s) -> Tracks]
      /\ \A k, l \in DOMAIN s : s[k] = s[l] => k = l
  BY ListIs DEF Lists
<1>2. /\ r \in [1 .. Len(s) -> Tracks]
      /\ \A k \in 1 .. Len(s) : r[k] = IF k = j THEN s[i] ELSE IF k = i THEN s[j] ELSE s[k]
  BY <1>1 DEF Swap
<1> HIDE DEF r
<1>3. r \in Seq(Tracks) /\ Len(r) = Len(s) /\ DOMAIN r = 1 .. Len(s)
  BY <1>1, <1>2
<1>4. r \in Lists
  BY <1>1, <1>2, <1>3 DEF Lists
<1>5. Elems(r) = Elems(s)
  <2>1. ASSUME NEW k \in 1 .. Len(s) PROVE r[k] \in Elems(s)
    BY <1>1, <1>2 DEF Elems
  <2>2. ASSUME NEW k \in 1 .. Len(s) PROVE \E l \in 1 .. Len(s) : r[l] = s[k]
    <3>1. CASE k = i
      BY <1>1, <1>2, <3>1
    <3>2. CASE k = j
      BY <1>1, <1>2, <3>2
    <3>3. CASE k # i /\ k # j
      BY <1>1, <1>2, <3>3
    <3> QED BY <3>1, <3>2, <3>3
  <2>3. /\ \A t : t \in Elems(r) <=> \E k \in 1 .. Len(s) : r[k] = t
        /\ \A t : t \in Elems(s) <=> \E k \in 1 .. Len(s) : s[k] = t
    BY <1>1, <1>3 DEF Elems
  <2> QED BY <2>1, <2>2, <2>3
<1> QED BY <1>2, <1>3, <1>4, <1>5 DEF r

(* What reorderStep works on names the tracks of the group, each once.         *)
LEMMA VisibleIs ==
  ASSUME TypeOK, NEW g \in Sides
  PROVE  VisibleOrder(g) \in Lists /\ Elems(VisibleOrder(g)) = Elems(Group(g))
<1> DEFINE G == Group(g)
           ids == Only[manual[g]][Elems(G)]
           rest == Without(G, Elems(ids))
<1>1. G \in Lists /\ manual[g] \in Lists
  BY GroupsAre DEF Group, TypeOK, Sides
<1> HIDE DEF G
<1>2. Elems(G) \in SUBSET Tracks
  BY <1>1, FirstIs
<1>3. ids \in Lists /\ Elems(ids) = Elems(manual[g]) \cap Elems(G)
  BY <1>1, <1>2, OnlyIs
<1>4. rest \in Lists /\ Elems(rest) = Elems(G) \ Elems(ids)
  <2>1. Tracks \ Elems(ids) \in SUBSET Tracks
    OBVIOUS
  <2> HIDE DEF ids
  <2>2. rest \in Lists /\ Elems(rest) = Elems(G) \cap (Tracks \ Elems(ids))
    BY <1>1, <2>1, OnlyIs DEF Without
  <2> QED BY <1>2, <2>2
<1>5. VisibleOrder(g) = IF manual[g] = <<>> THEN G ELSE ids \o rest
  BY DEF VisibleOrder, G
<1> HIDE DEF ids, rest
<1>6. ids \o rest \in Lists /\ Elems(ids \o rest) = Elems(G)
  BY <1>3, <1>4, ConcatIs
<1> QED BY <1>1, <1>5, <1>6 DEF G

-----------------------------------------------------------------------------
(* What playing a track, coming into view and moving on do to the types.       *)
ListsTyped ==
  /\ st \in Settings /\ manual \in [{"vip", "regular"} -> Lists]
  /\ bgPage \in Lists /\ bgMode \in Lists
  /\ known \subseteq Tracks /\ queue \in Lists /\ Elems(queue) \subseteq known
HistoryTyped == history \in Seq(Tracks) /\ Len(history) <= MaxHistory
PausedTyped ==
  /\ pausedBg \in Opt /\ pausedReg \in Opt /\ owed \in Int
  /\ interrupt \in {None} \cup [from : Tracks, to : Tracks, was : {"regular", "background"}]
ShownTyped == shown \in Opt /\ ended \in BOOLEAN

(* The parts TypeOK has, before a step and after it.                           *)
LEMMA TypesSplit ==
  /\ TypeOK <=> /\ ListsTyped /\ HistoryTyped /\ PausedTyped /\ ShownTyped
                /\ current \in Opt /\ removing \subseteq Tracks /\ echoes \subseteq Tracks /\ moves \in Nat
  /\ TypeOK' <=> /\ ListsTyped' /\ HistoryTyped' /\ PausedTyped' /\ ShownTyped'
                 /\ current' \in Opt /\ removing' \subseteq Tracks /\ echoes' \subseteq Tracks /\ moves' \in Nat
BY DEF TypeOK, ListsTyped, HistoryTyped, PausedTyped, ShownTyped

(* Playing a track keeps the slot and the announcements in their types.        *)
LEMMA PlayTrackTyped ==
  ASSUME TypeOK, NEW t \in Tracks, PlayTrack(t)
  PROVE  current' \in Opt /\ echoes' \subseteq Tracks
BY DEF TypeOK, PlayTrack, Opt

(* Whatever comes into view is a track or nothing.                             *)
LEMMA WatchTyped ==
  ASSUME TypeOK, current' \in Opt, Watch
  PROVE  ShownTyped'
<1>1. shown' \in Opt
  BY DEF TypeOK, Watch
<1>2. ended' \in BOOLEAN
  BY DEF TypeOK, Watch
<1> QED BY <1>1, <1>2 DEF ShownTyped

(* Moving on keeps every type; the history stays within its bound.             *)
LEMMA AdvanceTyped ==
  ASSUME TypeOK, Advance
  PROVE  /\ ListsTyped' /\ HistoryTyped' /\ PausedTyped'
         /\ current' \in Opt /\ removing' \subseteq Tracks /\ echoes' \subseteq Tracks
<1>1. PICK d \in PickNext :
        /\ removing' = IF d.remove # None /\ st.owner THEN removing \cup {d.remove} ELSE removing
        /\ pausedBg' = Paused(d)
        /\ owed' = IF d.resumed /\ pausedBg # None THEN owed - 1 ELSE owed
        /\ IF d.next = None THEN current' = None /\ UNCHANGED echoes ELSE PlayTrack(d.next)
  BY DEF Advance
<1>2. d.next \in Opt /\ d.remove \in Opt /\ d.resumed \in BOOLEAN
  BY PickTyped DEF Decisions
<1>3. history' = Remembered /\ UNCHANGED <<lists, queue, known, pausedReg, interrupt>>
  BY DEF Advance
<1>4. ListsTyped'
  BY <1>3 DEF TypeOK, ListsTyped, lists
<1>5. HistoryTyped'
  <2>1. history \in Seq(Tracks) /\ Len(history) \in Nat /\ Len(history) <= MaxHistory /\ MaxHistory \in Nat \ {0}
    BY PlayerAssumption, ListIs DEF TypeOK
  <2>2. CASE current = None
    BY <1>3, <2>1, <2>2 DEF Remembered, HistoryTyped
  <2>3. CASE current # None
    <3>1. current \in Tracks
      BY <2>3 DEF TypeOK, Opt
    <3>2. CASE Len(history) < MaxHistory
      <4>1. history' = Append(history, current)
        BY <1>3, <2>3, <3>2 DEF Remembered
      <4>2. history' \in Seq(Tracks) /\ Len(history') = Len(history) + 1
        BY <2>1, <3>1, <4>1, AppendProperties
      <4> QED BY <2>1, <3>2, <4>2 DEF HistoryTyped
    <3>3. CASE ~(Len(history) < MaxHistory)
      <4>1. history # <<>>
        BY <2>1, <3>3, EmptySeq
      <4>2. Tail(history) \in Seq(Tracks) /\ Len(Tail(history)) = Len(history) - 1
        BY <2>1, <4>1, HeadTailProperties
      <4>3. history' = Append(Tail(history), current)
        BY <1>3, <2>3, <3>3 DEF Remembered
      <4>4. history' \in Seq(Tracks) /\ Len(history') = Len(history)
        BY <2>1, <3>1, <4>2, <4>3, AppendProperties
      <4> QED BY <2>1, <4>4 DEF HistoryTyped
    <3> QED BY <3>2, <3>3
  <2> QED BY <2>2, <2>3
<1>6. PausedTyped'
  BY <1>1, <1>2, <1>3 DEF TypeOK, Opt, Paused, PausedTyped
<1>7. current' \in Opt /\ echoes' \subseteq Tracks
  <2>1. CASE d.next = None
    BY <1>1, <2>1 DEF TypeOK, Opt
  <2>2. CASE d.next # None
    BY <1>1, <1>2, <2>2, PlayTrackTyped DEF Opt
  <2> QED BY <2>1, <2>2
<1>8. removing' \subseteq Tracks
  BY <1>1, <1>2 DEF TypeOK, Opt
<1> QED BY <1>4, <1>5, <1>6, <1>7, <1>8

(* The player starts in its types, whatever the playlist is opened with.       *)
LEMMA InitTyped == Init => TypeOK
<1> SUFFICES ASSUME Init PROVE TypeOK
  OBVIOUS
<1>1. <<>> \in Lists
  BY EmptySeq DEF Lists
<1>2. PICK o \in Opened : st = o.st /\ queue = o.queue /\ bgPage = o.backgrounds
  BY DEF Init
<1>3. st \in Settings /\ queue \in Lists /\ bgPage \in Lists
  BY <1>2, PlayerAssumption
<1>4. manual = [g \in {"vip", "regular"} |-> <<>>] /\ bgMode = <<>> /\ known = Elems(queue) /\ history = <<>>
  BY DEF Init
<1>5. ListsTyped
  BY <1>1, <1>3, <1>4, FirstIs DEF ListsTyped
<1>6. HistoryTyped
  <2>1. <<>> \in Seq(Tracks) /\ Len(<<>>) = 0 /\ 0 <= MaxHistory
    BY EmptySeq, PlayerAssumption
  <2> QED BY <1>4, <2>1 DEF HistoryTyped
<1>7. PausedTyped /\ ShownTyped
  <2>1. /\ pausedBg = None /\ pausedReg = None /\ interrupt = None /\ owed = 0
        /\ shown = None /\ ended = FALSE
    BY DEF Init
  <2>2. ShownTyped
    BY <2>1 DEF ShownTyped, Opt
  <2>3. interrupt \in {None} \cup [from : Tracks, to : Tracks, was : {"regular", "background"}]
    BY <2>1
  <2>4. pausedBg \in Opt /\ pausedReg \in Opt /\ owed \in Int
    BY <2>1 DEF Opt
  <2> QED BY <2>2, <2>3, <2>4 DEF PausedTyped
<1>8. current \in Opt /\ removing \subseteq Tracks /\ echoes \subseteq Tracks /\ moves \in Nat
  BY DEF Init, Opt
<1> QED BY <1>5, <1>6, <1>7, <1>8, TypesSplit

(* A track leaves the list, and with it the removals.                          *)
LEMMA LeaveTyped ==
  ASSUME TypeOK, NEW t \in Tracks, Leave(t), moves' \in Nat
  PROVE  TypeOK'
<1>1. /\ queue' = Without(queue, {t}) /\ removing' = removing \ {t} /\ UNCHANGED current /\ Watch
      /\ UNCHANGED <<lists, known, history, pauses, interrupt, echoes>>
  BY DEF Leave
<1>2. queue' \in Lists /\ Elems(queue') \subseteq Elems(queue)
  <2>1. queue \in Lists /\ Tracks \ {t} \in SUBSET Tracks
    BY DEF TypeOK
  <2> QED BY <1>1, <2>1, OnlyIs DEF Without
<1>3. ListsTyped'
  BY <1>1, <1>2 DEF TypeOK, ListsTyped, lists
<1>4. HistoryTyped' /\ PausedTyped'
  BY <1>1 DEF TypeOK, HistoryTyped, PausedTyped, pauses
<1>5. current' \in Opt /\ ShownTyped'
  BY <1>1, WatchTyped DEF TypeOK
<1>6. removing' \subseteq Tracks /\ echoes' \subseteq Tracks
  BY <1>1 DEF TypeOK
<1> QED BY <1>3, <1>4, <1>5, <1>6, TypesSplit

-----------------------------------------------------------------------------
(* No step leaves the types: one case per action.                              *)
LEMMA PlayerStep == TypeOK /\ Next => TypeOK'
<1> SUFFICES ASSUME TypeOK, Next PROVE TypeOK'
  OBVIOUS
<1>0. /\ ListsTyped /\ HistoryTyped /\ PausedTyped /\ ShownTyped
      /\ current \in Opt /\ removing \subseteq Tracks /\ echoes \subseteq Tracks /\ moves \in Nat
  BY TypesSplit
<1>q. queue \in Lists /\ Elems(queue) \subseteq Tracks
  BY FirstIs DEF TypeOK
<1>m. Move => moves' \in Nat
  BY DEF TypeOK, Move
<1> DEFINE SameLists == UNCHANGED <<lists, queue, known>>
           SamePauses == UNCHANGED <<pauses, interrupt>>
<1>l. SameLists => ListsTyped'
  BY DEF TypeOK, ListsTyped, lists
<1>h. UNCHANGED history => HistoryTyped'
  BY DEF TypeOK, HistoryTyped
<1>p. SamePauses => PausedTyped'
  BY DEF TypeOK, PausedTyped, pauses
<1>s. UNCHANGED <<shown, ended>> => ShownTyped'
  BY DEF TypeOK, ShownTyped
<1> HIDE DEF SameLists, SamePauses
<1>1. CASE End
  <2>1. Advance /\ moves' = moves
    BY <1>1 DEF End
  <2>2. shown' = (IF current' \in Elems(queue) THEN current' ELSE shown) /\ ended' \in BOOLEAN
    <3>1. shown' = (IF current' \in Elems(queue) THEN current' ELSE shown) /\ ended' = (shown' = shown)
      BY <1>1 DEF End
    <3>2. (shown' = shown) \in BOOLEAN
      OBVIOUS
    <3> QED BY <3>1, <3>2
  <2>3. /\ ListsTyped' /\ HistoryTyped' /\ PausedTyped'
        /\ current' \in Opt /\ removing' \subseteq Tracks /\ echoes' \subseteq Tracks
    BY <2>1, AdvanceTyped
  <2>4. ShownTyped'
    <3>1. shown' \in Opt
      BY <1>0, <2>2, <2>3 DEF ShownTyped
    <3>2. ended' \in BOOLEAN
      BY <2>2
    <3> QED BY <3>1, <3>2 DEF ShownTyped
  <2> QED BY <1>0, <2>1, <2>3, <2>4, TypesSplit
<1>2. CASE EndOnce
  <2>1. /\ SameLists /\ SamePauses /\ UNCHANGED history
        /\ current' = current /\ removing' = removing /\ echoes' = echoes /\ moves' = moves
        /\ shown' = shown /\ ended' = TRUE
    BY <1>2 DEF EndOnce, SameLists, SamePauses, lists, pauses
  <2>2. ShownTyped'
    BY <1>0, <2>1 DEF ShownTyped
  <2> QED BY <1>0, <1>l, <1>h, <1>p, <2>1, <2>2, TypesSplit
<1>3. CASE Skip
  <2>1. Move /\ Advance /\ Watch
    BY <1>3 DEF Skip
  <2>2. /\ ListsTyped' /\ HistoryTyped' /\ PausedTyped'
        /\ current' \in Opt /\ removing' \subseteq Tracks /\ echoes' \subseteq Tracks
    BY <2>1, AdvanceTyped
  <2> QED BY <1>m, <2>1, <2>2, WatchTyped, TypesSplit
<1>4. CASE Prev
  <2>1. /\ Move /\ history # <<>> /\ Watch /\ SameLists /\ SamePauses /\ removing' = removing
        /\ history' = SubSeq(history, 1, Len(history) - 1) /\ PlayTrack(history[Len(history)])
    BY <1>4 DEF Prev, SameLists, SamePauses, lists, pauses
  <2>2. history \in Seq(Tracks) /\ Len(history) \in Nat /\ Len(history) >= 1 /\ Len(history) <= MaxHistory
    BY <1>0, <2>1, ListIs DEF HistoryTyped
  <2>3. history[Len(history)] \in Tracks /\ \A i \in 1 .. Len(history) - 1 : history[i] \in Tracks
    BY <2>2, ListIs
  <2>4. HistoryTyped'
    <3>1. history' \in Seq(Tracks) /\ Len(history') = IF 1 <= Len(history) - 1 THEN Len(history) - 1 - 1 + 1 ELSE 0
      <4>1. Len(history) - 1 \in Int
        BY <2>2
      <4> QED BY <2>1, <2>3, <4>1, SubSeqProperties
    <3>2. MaxHistory \in Nat
      BY PlayerAssumption
    <3> QED BY <2>2, <3>1, <3>2 DEF HistoryTyped
  <2>5. current' \in Opt /\ echoes' \subseteq Tracks
    BY <2>1, <2>3, PlayTrackTyped
  <2>6. ShownTyped'
    BY <2>1, <2>5, WatchTyped
  <2> QED BY <1>0, <1>m, <1>l, <1>p, <2>1, <2>4, <2>5, <2>6, TypesSplit
<1>5. CASE Stop
  <2>1. /\ Move /\ current' = None /\ Watch /\ SameLists /\ SamePauses /\ UNCHANGED history
        /\ removing' = removing /\ echoes' = echoes
    BY <1>5 DEF Stop, SameLists, SamePauses, lists, pauses
  <2>2. current' \in Opt
    BY <2>1 DEF Opt
  <2>3. ShownTyped'
    BY <2>1, <2>2, WatchTyped
  <2> QED BY <1>0, <1>m, <1>l, <1>h, <1>p, <2>1, <2>2, <2>3, TypesSplit
<1>6. CASE TakeInterrupt
  <2>1. interrupt # None /\ interrupt' = None /\ Watch /\ SameLists /\ UNCHANGED <<history, removing, moves>>
    BY <1>6 DEF TakeInterrupt, SameLists, lists
  <2>2. interrupt.from \in Tracks /\ interrupt.to \in Tracks
    BY <1>0, <2>1 DEF PausedTyped
  <2>3. CASE interrupt.from # current
    <3>1. UNCHANGED <<current, echoes, pausedBg, pausedReg, owed>>
      BY <1>6, <2>3 DEF TakeInterrupt, pauses
    <3>2. PausedTyped'
      BY <1>0, <2>1, <3>1 DEF PausedTyped
    <3>3. ShownTyped'
      BY <1>0, <2>1, <3>1, WatchTyped
    <3> QED BY <1>0, <1>l, <1>h, <2>1, <3>1, <3>2, <3>3, TypesSplit
  <2>4. CASE interrupt.from = current
    <3>1. /\ PlayTrack(interrupt.to)
          /\ pausedBg' = IF interrupt.was = "background" THEN interrupt.from ELSE pausedBg
          /\ pausedReg' = IF interrupt.was = "regular" THEN interrupt.from ELSE pausedReg
          /\ owed' = IF interrupt.was = "background" THEN owed + 1 ELSE owed
      BY <1>6, <2>4 DEF TakeInterrupt
    <3>2. PausedTyped'
      BY <1>0, <2>1, <2>2, <3>1 DEF PausedTyped, Opt
    <3>3. current' \in Opt /\ echoes' \subseteq Tracks
      BY <2>2, <3>1, PlayTrackTyped
    <3>4. ShownTyped'
      BY <2>1, <3>3, WatchTyped
    <3> QED BY <1>0, <1>l, <1>h, <2>1, <3>2, <3>3, <3>4, TypesSplit
  <2> QED BY <2>3, <2>4
<1>7. ASSUME NEW t \in Tracks, Start(t) PROVE TypeOK'
  <2>1. /\ Move /\ PlayTrack(t) /\ Watch /\ SameLists /\ SamePauses /\ UNCHANGED history /\ removing' = removing
    BY <1>7 DEF Start, SameLists, SamePauses, lists, pauses
  <2>2. current' \in Opt /\ echoes' \subseteq Tracks
    BY <2>1, PlayTrackTyped
  <2>3. ShownTyped'
    BY <2>1, <2>2, WatchTyped
  <2> QED BY <1>0, <1>m, <1>l, <1>h, <1>p, <2>1, <2>2, <2>3, TypesSplit
<1>8. ASSUME NEW t \in Tracks, Arrive(t) PROVE TypeOK'
  <2>1. /\ t \notin known /\ known' = known \cup {t} /\ queue' = Append(queue, t)
        /\ current' = current /\ Watch /\ UNCHANGED <<lists, history, pauses, removing, echoes, moves>>
        /\ \/ interrupt' = interrupt
           \/ /\ current \in Elems(queue)
              /\ \E w \in {"regular", "background"} : interrupt' = [from |-> current, to |-> t, was |-> w]
    BY <1>8 DEF Arrive
  <2>2. t \notin Elems(queue)
    BY <2>1 DEF TypeOK
  <2>3. ListsTyped'
    <3>1. queue' \in Lists /\ Elems(queue') = Elems(queue) \cup {t}
      BY <1>q, <2>1, <2>2, AppendIs
    <3> QED BY <1>0, <2>1, <3>1 DEF ListsTyped, lists
  <2>4. PausedTyped'
    <3>1. current \in Elems(queue) => current \in Tracks
      BY <1>q
    <3>2. UNCHANGED <<pausedBg, pausedReg, owed>>
      BY <2>1 DEF pauses
    <3>3. interrupt' \in {None} \cup [from : Tracks, to : Tracks, was : {"regular", "background"}]
      BY <1>0, <2>1, <3>1 DEF PausedTyped
    <3> QED BY <1>0, <3>2, <3>3 DEF PausedTyped
  <2>5. ShownTyped'
    BY <1>0, <2>1, WatchTyped
  <2> QED BY <1>0, <1>h, <2>1, <2>3, <2>4, <2>5, TypesSplit
<1>9. ASSUME NEW t \in Tracks, Removed(t) \/ RemovedElsewhere(t) PROVE TypeOK'
  <2>1. Leave(t) /\ moves' \in Nat
    BY <1>0, <1>9, <1>m DEF Removed, RemovedElsewhere
  <2> QED BY <2>1, LeaveTyped
<1>10. ASSUME NEW t \in Tracks, RemoveFails(t) PROVE TypeOK'
  <2>1. /\ Move /\ removing' = removing \ {t} /\ SameLists /\ SamePauses /\ UNCHANGED <<history, shown, ended>>
        /\ current' = current /\ echoes' = echoes
    BY <1>10 DEF RemoveFails, SameLists, SamePauses, lists, pauses
  <2> QED BY <1>0, <1>m, <1>l, <1>h, <1>p, <1>s, <2>1, TypesSplit
<1>11. ASSUME NEW t \in Tracks, Echo(t) PROVE TypeOK'
  <2>1. /\ echoes' = echoes \ {t} /\ current' = t /\ Watch /\ SameLists /\ SamePauses
        /\ UNCHANGED <<history, removing, moves>>
    BY <1>11 DEF Echo, SameLists, SamePauses, lists, pauses
  <2>2. current' \in Opt
    BY <2>1 DEF Opt
  <2>3. ShownTyped'
    BY <2>1, <2>2, WatchTyped
  <2> QED BY <1>0, <1>l, <1>h, <1>p, <2>1, <2>2, <2>3, TypesSplit
<1>12. ASSUME NEW t \in Tracks, EchoRefused(t) PROVE TypeOK'
  <2>1. /\ echoes' = echoes \ {t} /\ SameLists /\ SamePauses /\ UNCHANGED <<history, shown, ended>>
        /\ current' = current /\ removing' = removing /\ moves' = moves
    BY <1>12 DEF EchoRefused, SameLists, SamePauses, lists, pauses
  <2> QED BY <1>0, <1>l, <1>h, <1>p, <1>s, <2>1, TypesSplit
<1> DEFINE Rest == /\ SamePauses /\ UNCHANGED <<st, queue, known, history, shown, ended>>
                   /\ current' = current /\ removing' = removing /\ echoes' = echoes /\ Move
<1>13. ASSUME Rest, bgPage' \in Lists, bgMode' \in Lists, manual' \in [{"vip", "regular"} -> Lists]
       PROVE  TypeOK'
  <2>1. ListsTyped'
    BY <1>0, <1>13 DEF ListsTyped
  <2> QED BY <1>0, <1>m, <1>h, <1>p, <1>s, <1>13, <2>1, TypesSplit
<1>e. /\ bgPage \in Lists /\ bgMode \in Lists /\ manual \in [{"vip", "regular"} -> Lists]
  BY DEF TypeOK
<1>14. ASSUME NEW t \in Tracks, ToggleBackground(t) PROVE TypeOK'
  <2>1. Rest /\ UNCHANGED <<bgMode, manual>>
    BY <1>14 DEF ToggleBackground, Edit, SamePauses, pauses
  <2>2. bgPage' \in Lists
    <3>1. CASE t \in Elems(bgPage)
      <4>1. bgPage' = Only[bgPage][Tracks \ {t}]
        BY <1>14, <3>1 DEF ToggleBackground, Without
      <4>2. Tracks \ {t} \in SUBSET Tracks
        OBVIOUS
      <4> QED BY <1>e, <4>1, <4>2, OnlyIs
    <3>2. CASE t \notin Elems(bgPage)
      BY <1>e, <1>14, <3>2, AppendIs DEF ToggleBackground
    <3> QED BY <3>1, <3>2
  <2> HIDE DEF Rest
  <2> QED BY <1>e, <1>13, <2>1, <2>2
<1>15. ASSUME NEW t \in Tracks, NEW g \in Sides, NEW d \in {-1, 1}, ReorderStep(g, t, d) PROVE TypeOK'
  <2> DEFINE ids == VisibleOrder(g)
             i == Index(ids, t)
  <2>1. Rest /\ UNCHANGED <<bgMode, bgPage>>
    BY <1>15 DEF ReorderStep, Edit, SamePauses, pauses
  <2>2. t \in Elems(ids) /\ i + d \in DOMAIN ids /\ manual' = [manual EXCEPT ![g] = Swap(ids, i, i + d)]
    BY <1>15 DEF ReorderStep
  <2>3. ids \in Lists
    BY VisibleIs
  <2> HIDE DEF ids
  <2>4. i \in DOMAIN ids
    BY <2>2, <2>3, IndexIs, ListIs
  <2> HIDE DEF i
  <2>5. Swap(ids, i, i + d) \in Lists
    BY <2>2, <2>3, <2>4, SwapIs
  <2>6. manual' \in [{"vip", "regular"} -> Lists]
    BY <1>e, <2>2, <2>5
  <2> HIDE DEF Rest
  <2> QED BY <1>e, <1>13, <2>1, <2>6
<1>16. ASSUME NEW i, ReorderBackground(i) PROVE TypeOK'
  <2>1. Rest /\ UNCHANGED <<bgPage, manual>>
    BY <1>16 DEF ReorderBackground, Edit, SamePauses, pauses
  <2>2. i \in 1 .. Len(Backgrounds) - 1 /\ bgMode' = Swap(Backgrounds, i, i + 1)
    BY <1>16 DEF ReorderBackground
  <2>3. Backgrounds \in Lists
    BY GroupsAre
  <2>4. i \in DOMAIN Backgrounds /\ i + 1 \in DOMAIN Backgrounds
    BY <2>2, <2>3, IndexIs, ListIs
  <2>5. bgMode' \in Lists
    BY <2>2, <2>3, <2>4, SwapIs
  <2> HIDE DEF Rest
  <2> QED BY <1>e, <1>13, <2>1, <2>5
<1> QED BY <1>1, <1>2, <1>3, <1>4, <1>5, <1>6, <1>7, <1>8, <1>9, <1>10, <1>11, <1>12, <1>14, <1>15, <1>16 DEF Next, Sides

-----------------------------------------------------------------------------
(* What is left to choose from when the current track is set aside.            *)
LEMMA WithoutIs ==
  ASSUME NEW s \in Lists, NEW t
  PROVE  Without(s, {t}) \in Lists /\ Elems(Without(s, {t})) = Elems(s) \ {t}
<1>1. Tracks \ {t} \in SUBSET Tracks
  OBVIOUS
<1>2. Without(s, {t}) \in Lists /\ Elems(Without(s, {t})) = Elems(s) \cap (Tracks \ {t})
  BY <1>1, OnlyIs DEF Without
<1> QED BY <1>2, FirstIs

(* What flow and stream mode choose, by rank.                                  *)
LEMMA QueueRanks ==
  ASSUME TypeOK, NEW d \in QueueNext
  PROVE  /\ Elems(Vips) \ {current} # {} => d.next \in Elems(Vips)
         /\ Elems(Vips) \ {current} = {} /\ Elems(Regulars) \ {current} # {} => d.next \in Elems(Regulars)
<1> DEFINE t == IF current \in Elems(queue) THEN current ELSE None
           wasVip == t # None /\ IsVip(t)
           wasBg == t # None /\ IsBackground(t, ResolveIds)
           wasReg == t # None /\ ~wasVip /\ ~wasBg
           vips == IF wasVip THEN Without(Vips, {t}) ELSE Vips
           regs == IF wasReg THEN Without(Regulars, {t}) ELSE Regulars
           gone == IF Stream /\ (wasVip \/ wasReg) THEN t ELSE None
           From(g, was, rest) ==
             IF was THEN {IF n = None THEN rest[1] ELSE n : n \in FromGroup(Group(g), t, Random(g), FALSE)}
             ELSE IF Random(g) THEN Elems(rest) ELSE {rest[1]}
           bgs == FromGroup(Backgrounds, IF wasBg THEN t ELSE None, st.shuffle, TRUE)
<1>1. /\ Vips \in Lists /\ Regulars \in Lists
      /\ Elems(Vips) = {x \in Elems(Pool) : IsVip(x)} /\ Elems(Regulars) = {x \in Elems(Pool) : ~IsVip(x)}
      /\ Elems(Pool) \subseteq Elems(queue) /\ Elems(queue) \subseteq Tracks /\ None \notin Tracks
  BY GroupsAre, PlayerAssumption
<1>2. vips \in Lists /\ Elems(vips) = Elems(Vips) \ {current}
  <2>1. CASE wasVip
    <3>1. t = current
      BY <2>1
    <3> QED BY <1>1, <2>1, <3>1, WithoutIs
  <2>2. CASE ~wasVip
    <3>1. current \notin Elems(Vips)
      BY <1>1, <2>2
    <3> QED BY <1>1, <2>2, <3>1
  <2> QED BY <2>1, <2>2
<1>3. regs \in Lists /\ Elems(regs) \subseteq Elems(Regulars) /\ Elems(Regulars) \ {current} \subseteq Elems(regs)
  <2>1. CASE wasReg
    <3>1. t = current /\ regs = Without(Regulars, {t})
      BY <2>1
    <3> HIDE DEF regs, wasReg, t
    <3>2. regs \in Lists /\ Elems(regs) = Elems(Regulars) \ {t}
      BY <1>1, <3>1, WithoutIs
    <3> QED BY <3>1, <3>2
  <2>2. CASE ~wasReg
    BY <1>1, <2>2
  <2> QED BY <2>1, <2>2
<1> HIDE DEF t, wasVip, wasBg, wasReg, gone
<1>4. ASSUME NEW g \in Sides, NEW was, NEW rest \in Lists, rest # <<>>, Elems(rest) \subseteq Elems(Group(g))
      PROVE  From(g, was, rest) \subseteq Elems(Group(g))
  <2> DEFINE G == Group(g)
             N == FromGroup(G, t, Random(g), FALSE)
  <2>1. G \in Lists
    BY <1>1 DEF Group, Sides
  <2>2. rest[1] \in Elems(G) /\ Elems(rest) \subseteq Elems(G)
    BY <1>4, FirstIs
  <2>3. N \subseteq Elems(G) \cup {None}
    <3> HIDE DEF G
    <3> QED BY <2>1, FromGroupIs
  <2>4. From(g, was, rest) = IF was THEN {IF n = None THEN rest[1] ELSE n : n \in N}
                             ELSE IF Random(g) THEN Elems(rest) ELSE {rest[1]}
    OBVIOUS
  <2> HIDE DEF From, N, G
  <2> QED BY <2>2, <2>3, <2>4 DEF G
<1>5. QueueNext =
        IF vips # <<>> THEN {Decision(n, IF wasVip THEN gone ELSE None, FALSE) : n \in From("vip", wasVip, vips)}
        ELSE IF regs # <<>> THEN {Decision(n, gone, FALSE) : n \in From("regular", wasReg, regs)}
        ELSE IF pausedBg # None THEN {Decision(pausedBg, gone, TRUE)}
        ELSE {Decision(n, gone, FALSE) : n \in bgs}
  BY DEF QueueNext, t, wasVip, wasBg, wasReg, gone
<1>6. (vips # <<>> <=> Elems(vips) # {}) /\ (regs # <<>> <=> Elems(regs) # {})
  <2> HIDE DEF vips, regs
  <2> QED BY <1>2, <1>3, FirstIs
<1>7. Group("vip") = Vips /\ Group("regular") = Regulars
  BY DEF Group
<1> DEFINE Fv == From("vip", wasVip, vips)
           Fr == From("regular", wasReg, regs)
<1>8. (vips # <<>> => Fv \subseteq Elems(Vips)) /\ (regs # <<>> => Fr \subseteq Elems(Regulars))
  <2>1. "vip" \in Sides /\ "regular" \in Sides
    BY DEF Sides
  <2>2. Elems(vips) \subseteq Elems(Group("vip")) /\ Elems(regs) \subseteq Elems(Group("regular"))
    BY <1>2, <1>3, <1>7
  <2> HIDE DEF From, vips, regs
  <2>3. vips # <<>> => From("vip", wasVip, vips) \subseteq Elems(Group("vip"))
    BY <1>2, <1>4, <2>1, <2>2
  <2>4. regs # <<>> => From("regular", wasReg, regs) \subseteq Elems(Group("regular"))
    BY <1>3, <1>4, <2>1, <2>2
  <2> QED BY <1>7, <2>3, <2>4
<1>9. ASSUME NEW n, NEW u, NEW b PROVE Decision(n, u, b).next = n
  BY DEF Decision
<1> HIDE DEF From, vips, regs, bgs, Fv, Fr
<1>10. CASE vips # <<>>
  <2>1. PICK n \in Fv : d = Decision(n, IF wasVip THEN gone ELSE None, FALSE)
    BY <1>5, <1>10 DEF Fv
  <2> DEFINE u == IF wasVip THEN gone ELSE None
  <2> HIDE DEF u
  <2>2. d.next = n
    BY <1>9, <2>1 DEF u
  <2> QED BY <1>2, <1>6, <1>8, <1>10, <2>1, <2>2
<1>11. CASE vips = <<>>
  <2>1. Elems(Vips) \ {current} = {}
    BY <1>2, <1>6, <1>11
  <2>2. ASSUME Elems(Regulars) \ {current} # {} PROVE d.next \in Elems(Regulars)
    <3>1. regs # <<>>
      BY <1>3, <1>6, <2>2
    <3>2. PICK n \in Fr : d = Decision(n, gone, FALSE)
      BY <1>5, <1>11, <3>1 DEF Fr
    <3> QED BY <1>8, <1>9, <3>1, <3>2
  <2> QED BY <2>1, <2>2
<1> QED BY <1>10, <1>11

(* And so what plays after the player moved on.                                *)
LEMMA AdvanceRanks ==
  ASSUME TypeOK, Advance, st.mode # "static"
  PROVE  /\ Elems(Vips) \ {current} # {} => current' \in Elems(Vips)
         /\ Elems(Vips) \ {current} = {} /\ Elems(Regulars) \ {current} # {} => current' \in Elems(Regulars)
<1>1. PICK d \in PickNext : IF d.next = None THEN current' = None ELSE current' = d.next
  BY DEF Advance, PlayTrack
<1>2. CASE queue = <<>>
  <2>1. Elems(queue) = {}
    BY <1>2 DEF Elems
  <2> QED BY <2>1, GroupsAre
<1>3. CASE queue # <<>>
  <2>1. d \in QueueNext
    BY <1>3 DEF PickNext
  <2>2. Elems(Vips) \subseteq Tracks /\ Elems(Regulars) \subseteq Tracks /\ None \notin Tracks
    BY GroupsAre, FirstIs, PlayerAssumption
  <2> QED BY <1>1, <2>1, <2>2, QueueRanks
<1> QED BY <1>2, <1>3

-----------------------------------------------------------------------------
(* The two sorted groups once more, as a predicate of a state: which tracks    *)
(* they hold, in which order, and that there is only one such order.           *)
InGroup(g) == {t \in Elems(Pool) : IsVip(t) <=> g = "vip"}
ByRules(g) == {p \in InGroup(g) \X InGroup(g) : Before(g, p[1], p[2])}
GroupRight(g) ==
  /\ Group(g) \in Lists /\ Elems(Group(g)) = InGroup(g)
  /\ \A i, j \in 1 .. Len(Group(g)) : i < j => <<Group(g)[i], Group(g)[j]>> \in ByRules(g)
  /\ Lines(ByRules(g), InGroup(g))
  /\ InGroup(g) \subseteq Tracks

(* The groups on screen are that.                                              *)
LEMMA GroupsRight == TypeOK => \A g \in Sides : GroupRight(g)
<1> SUFFICES ASSUME TypeOK, NEW g \in Sides PROVE GroupRight(g)
  OBVIOUS
<1>1. InGroup(g) \in SUBSET Elems(queue) /\ InGroup(g) \subseteq Tracks
  BY GroupsAre DEF InGroup
<1>2. Group(g) = Sorted[g][InGroup(g)]
  <2>1. CASE g = "vip"
    <3>1. InGroup(g) = {t \in Elems(Pool) : IsVip(t)}
      BY <2>1 DEF InGroup
    <3> QED BY <2>1, <3>1 DEF Group, Vips
  <2>2. CASE g = "regular"
    <3>1. InGroup(g) = {t \in Elems(Pool) : ~IsVip(t)}
      BY <2>2 DEF InGroup
    <3> QED BY <2>2, <3>1 DEF Group, Regulars
  <2> QED BY <2>1, <2>2 DEF Sides
<1>3. Lines(ByRules(g), InGroup(g))
  BY <1>1, BeforeLines DEF ByRules
<1>4. /\ Group(g) \in Lists /\ Elems(Group(g)) = InGroup(g)
      /\ \A i, j \in 1 .. Len(Group(g)) : i < j => Before(g, Group(g)[i], Group(g)[j])
  BY <1>1, <1>2, SortedIs
<1> DEFINE G == Group(g)
<1>5. \A i \in 1 .. Len(G) : G[i] \in InGroup(g)
  <2>1. G \in Lists /\ Elems(G) = InGroup(g)
    BY <1>4
  <2> HIDE DEF G
  <2> QED BY <2>1, IndexIs, ListIs
<1>6. \A i, j \in 1 .. Len(G) : i < j => <<G[i], G[j]>> \in ByRules(g)
  BY <1>4, <1>5 DEF ByRules
<1> QED BY <1>1, <1>3, <1>4, <1>6 DEF GroupRight

(* With a free order, what the owner's step works on is the group as it is on  *)
(* screen: the tracks the manual order still names, then those it does not.    *)
LEMMA FreeVisible ==
  ASSUME TypeOK, NEW g \in Sides, st.rules[g].order = "free"
  PROVE  VisibleOrder(g) = Group(g)
<1> DEFINE G == Group(g)
           S == InGroup(g)
           R == ByRules(g)
           m == manual[g]
           ids == Only[m][Elems(G)]
           rest == Without(G, Elems(ids))
           v == ids \o rest
<1>1. /\ G \in Lists /\ Elems(G) = S /\ Lines(R, S) /\ S \in SUBSET Tracks /\ m \in Lists
      /\ \A i, j \in 1 .. Len(G) : i < j => <<G[i], G[j]>> \in R
  BY GroupsRight DEF GroupRight, TypeOK, Sides
<1>2. \A a, b \in S : <<a, b>> \in R <=>
        \/ a \in Elems(m) /\ (b \in Elems(m) => Index(m, a) < Index(m, b))
        \/ {a, b} \cap Elems(m) = {} /\ Older(a, b)
  BY DEF ByRules, Before
<1>3. VisibleOrder(g) = IF m = <<>> THEN G ELSE v
  BY DEF VisibleOrder
<1> HIDE DEF G, S, R, m
<1>4. /\ ids \in Lists /\ Elems(ids) = Elems(m) \cap S
      /\ \A i, j \in 1 .. Len(ids) : i < j => Index(m, ids[i]) < Index(m, ids[j])
  BY <1>1, OnlyIs
<1> HIDE DEF ids
<1>5. /\ rest \in Lists /\ Elems(rest) = S \ Elems(m)
      /\ \A i, j \in 1 .. Len(rest) : i < j => Index(G, rest[i]) < Index(G, rest[j])
  <2>1. Tracks \ Elems(ids) \in SUBSET Tracks
    OBVIOUS
  <2>2. /\ rest \in Lists /\ Elems(rest) = Elems(G) \cap (Tracks \ Elems(ids))
        /\ \A i, j \in 1 .. Len(rest) : i < j => Index(G, rest[i]) < Index(G, rest[j])
    BY <1>1, <2>1, OnlyIs DEF Without
  <2> QED BY <1>1, <1>4, <2>2
<1> HIDE DEF rest
<1>6. v \in Lists /\ Elems(v) = S
  BY <1>4, <1>5, ConcatIs
<1>7. /\ ids \in Seq(Tracks) /\ Len(ids) \in Nat /\ rest \in Seq(Tracks) /\ Len(rest) \in Nat
      /\ \A i \in 1 .. Len(ids) : ids[i] \in S /\ ids[i] \in Elems(m)
      /\ \A i \in 1 .. Len(rest) : rest[i] \in S /\ rest[i] \notin Elems(m)
  BY <1>4, <1>5, IndexIs, ListIs
<1>8. /\ Len(v) = Len(ids) + Len(rest)
      /\ \A i \in 1 .. Len(ids) + Len(rest) : v[i] = IF i <= Len(ids) THEN ids[i] ELSE rest[i - Len(ids)]
  BY <1>7, ConcatProperties
<1> HIDE DEF v
<1>9. ASSUME NEW i \in 1 .. Len(v), NEW j \in 1 .. Len(v), i < j PROVE <<v[i], v[j]>> \in R
  <2>1. CASE j <= Len(ids)
    <3>1. i \in 1 .. Len(ids) /\ j \in 1 .. Len(ids)
      BY <1>7, <1>8, <1>9, <2>1
    <3>2. v[i] = ids[i] /\ v[j] = ids[j]
      BY <1>7, <1>8, <3>1
    <3> QED BY <1>2, <1>4, <1>7, <1>9, <3>1, <3>2
  <2>2. CASE i <= Len(ids) /\ ~(j <= Len(ids))
    <3>1. i \in 1 .. Len(ids) /\ j - Len(ids) \in 1 .. Len(rest)
      BY <1>7, <1>8, <2>2
    <3>2. v[i] = ids[i] /\ v[j] = rest[j - Len(ids)]
      BY <1>7, <1>8, <2>2
    <3> QED BY <1>2, <1>7, <3>1, <3>2
  <2>3. CASE ~(i <= Len(ids))
    <3> DEFINE k == i - Len(ids)
               l == j - Len(ids)
    <3>1. k \in 1 .. Len(rest) /\ l \in 1 .. Len(rest) /\ k < l /\ ~(j <= Len(ids))
      BY <1>7, <1>8, <1>9, <2>3
    <3>2. v[i] = rest[k] /\ v[j] = rest[l]
      BY <1>8, <2>3, <3>1
    <3> HIDE DEF k, l
    <3>3. rest[k] \in S /\ rest[l] \in S /\ Index(G, rest[k]) < Index(G, rest[l])
      BY <1>5, <1>7, <3>1
    <3>4. /\ Index(G, rest[k]) \in 1 .. Len(G) /\ G[Index(G, rest[k])] = rest[k]
          /\ Index(G, rest[l]) \in 1 .. Len(G) /\ G[Index(G, rest[l])] = rest[l]
      BY <1>1, <3>3, IndexIs
    <3> QED BY <1>1, <3>2, <3>3, <3>4
  <2> QED BY <2>1, <2>2, <2>3
<1>10. v \in Seq(Tracks) /\ G \in Seq(Tracks)
  BY <1>1, <1>6 DEF Lists
<1>11. v = G
  BY <1>1, <1>6, <1>9, <1>10, OneOrder
<1> QED BY <1>3, <1>11 DEF G

(* Also in the state a step leads to.                                          *)
LEMMA GroupsStayRight == TypeOK' => (\A g \in Sides : GroupRight(g))'
BY GroupsRight, PTL

(* After the step the group is what was written down.                          *)
LEMMA StepMoves ==
  ASSUME TypeOK, TypeOK', NEW g \in Sides, NEW t \in Tracks, NEW d \in {-1, 1}, ReorderStep(g, t, d)
  PROVE  LET i == Index(Group(g), t)
         IN  i + d \in DOMAIN Group(g) /\ Group(g)' = Swap(Group(g), i, i + d)
<1> DEFINE G == Group(g)
           i == Index(G, t)
           S == InGroup(g)
           q == Swap(G, i, i + d)
<1>1. /\ st.rules[g].order = "free" /\ UNCHANGED <<st, bgPage, bgMode, queue>>
      /\ t \in Elems(VisibleOrder(g)) /\ Index(VisibleOrder(g), t) + d \in DOMAIN VisibleOrder(g)
      /\ manual' = [manual EXCEPT ![g] = Swap(VisibleOrder(g), Index(VisibleOrder(g), t), Index(VisibleOrder(g), t) + d)]
  BY DEF ReorderStep
<1>2. VisibleOrder(g) = G
  BY <1>1, FreeVisible
<1>3. G \in Lists /\ Elems(G) = S
  BY GroupsRight DEF GroupRight
<1>4. t \in Elems(G) /\ i + d \in DOMAIN G /\ manual'[g] = q
  BY <1>1, <1>2 DEF TypeOK, Sides
<1>5. InGroup(g)' = S
  <2>1. Pool' = Pool
    BY <1>1 DEF Pool, Stream, SplitIds, Without
  <2>2. st' = st
    BY <1>1
  <2> QED BY <2>1, <2>2 DEF InGroup, IsVip, Elems
<1>6. GroupRight(g)'
  BY GroupsStayRight
<1>7. /\ Group(g)' \in Lists /\ Elems(Group(g)') = S /\ Lines(ByRules(g)', S)
      /\ \A k, l \in 1 .. Len(Group(g)') : k < l => <<Group(g)'[k], Group(g)'[l]>> \in ByRules(g)'
  BY <1>5, <1>6 DEF GroupRight
<1>8. \A a, b \in S : <<a, b>> \in ByRules(g)' <=>
        \/ a \in Elems(manual'[g]) /\ (b \in Elems(manual'[g]) => Index(manual'[g], a) < Index(manual'[g], b))
        \/ {a, b} \cap Elems(manual'[g]) = {} /\ Older(a, b)'
  BY <1>1, <1>5 DEF ByRules, Before
<1> HIDE DEF G, i, S
<1>9. i \in DOMAIN G
  BY <1>3, <1>4, IndexIs, ListIs DEF i
<1>10. q \in Lists /\ Elems(q) = S
  BY <1>3, <1>4, <1>9, SwapIs
<1> HIDE DEF q
<1>11. ASSUME NEW k \in 1 .. Len(q), NEW l \in 1 .. Len(q), k < l PROVE <<q[k], q[l]>> \in ByRules(g)'
  <2>1. q[k] \in S /\ q[l] \in S /\ Index(q, q[k]) = k /\ Index(q, q[l]) = l
    BY <1>10, IndexIs, ListIs
  <2> QED BY <1>4, <1>8, <1>10, <1>11, <2>1
<1> DEFINE H == Group(g)'
<1>12. H \in Seq(Tracks) /\ q \in Seq(Tracks)
  BY <1>7, <1>10 DEF Lists
<1>13. H = q
  <2> DEFINE R == ByRules(g)'
  <2>1. /\ Elems(H) = S /\ Lines(R, S) /\ \A k, l \in 1 .. Len(H) : k < l => <<H[k], H[l]>> \in R
        /\ \A k, l \in 1 .. Len(q) : k < l => <<q[k], q[l]>> \in R
    BY <1>7, <1>11
  <2> HIDE DEF R, H
  <2> QED BY <1>10, <1>12, <2>1, OneOrder
<1> QED BY <1>4, <1>13 DEF G, i, q

-----------------------------------------------------------------------------
(* The second track of the three groups after one another.                     *)
Seconds(order, V, R, B) ==
  /\ order \in Seq(Tracks) /\ Len(order) \in Nat /\ Len(order) >= 1
  /\ order[1] = Head2(V, R)
  /\ Len(order) > 1 <=> Len(V) > 1 \/ Len(R) > 1 \/ (Len(V) = 1 /\ Len(R) = 1) \/ B # <<>>
  /\ Len(V) > 1 => order[2] = V[2]
  /\ Len(V) = 1 /\ R # <<>> => order[2] = R[1]
  /\ Len(V) = 0 /\ Len(R) > 1 => order[2] = R[2]
  /\ Len(V) + Len(R) = 1 /\ B # <<>> => order[2] = B[1]

(* Which of the tracks the second one is.                                      *)
LEMMA SecondIs ==
  ASSUME NEW V \in Lists, NEW R \in Lists, NEW B \in Lists, V \o R # <<>>
  PROVE  Seconds((V \o R) \o B, V, R, B)
<1> DEFINE a == V \o R
           order == a \o B
<1>1. /\ V \in Seq(Tracks) /\ R \in Seq(Tracks) /\ B \in Seq(Tracks)
      /\ Len(V) \in Nat /\ Len(R) \in Nat /\ Len(B) \in Nat
      /\ (V = <<>> <=> Len(V) = 0) /\ (R = <<>> <=> Len(R) = 0) /\ (B = <<>> <=> Len(B) = 0)
  BY ListIs DEF Lists
<1>2. /\ a \in Seq(Tracks) /\ Len(a) = Len(V) + Len(R)
      /\ \A i \in 1 .. Len(V) + Len(R) : a[i] = IF i <= Len(V) THEN V[i] ELSE R[i - Len(V)]
  BY <1>1, ConcatProperties
<1>3. a # <<>> /\ Head2(V, R) = First(a)
  BY DEF Head2
<1> HIDE DEF a
<1>4. /\ order \in Seq(Tracks) /\ Len(order) = Len(a) + Len(B)
      /\ \A i \in 1 .. Len(a) + Len(B) : order[i] = IF i <= Len(a) THEN a[i] ELSE B[i - Len(a)]
  <2>1. a \in Seq(Tracks) /\ B \in Seq(Tracks)
    BY <1>1, <1>2
  <2> QED BY <2>1, ConcatProperties
<1> HIDE DEF order
<1>5. Len(a) >= 1
  <2>1. Len(a) \in Nat /\ Len(a) # 0
    BY <1>2, <1>3, ListIs
  <2> QED BY <2>1
<1>6. order[1] = Head2(V, R)
  BY <1>1, <1>2, <1>3, <1>4, <1>5 DEF First
<1>7. Len(order) \in Nat /\ Len(order) >= 1
  BY <1>1, <1>2, <1>4, <1>5
<1>l. Len(order) = Len(V) + Len(R) + Len(B) /\ Len(V) + Len(R) >= 1
  BY <1>2, <1>4, <1>5
<1>8. Len(order) > 1 <=> Len(V) > 1 \/ Len(R) > 1 \/ (Len(V) = 1 /\ Len(R) = 1) \/ B # <<>>
  <2>1. \A x, y, z \in Nat : x + y >= 1 => (x + y + z > 1 <=> x > 1 \/ y > 1 \/ (x = 1 /\ y = 1) \/ z # 0)
    OBVIOUS
  <2>2. Len(V) + Len(R) + Len(B) > 1 <=> Len(V) > 1 \/ Len(R) > 1 \/ (Len(V) = 1 /\ Len(R) = 1) \/ Len(B) # 0
    BY <1>1, <1>l, <2>1
  <2>3. B # <<>> <=> Len(B) # 0
    BY <1>1
  <2> QED BY <1>l, <2>2, <2>3
<1>9. Len(order) > 1 => order[2] = IF 2 <= Len(a) THEN a[2] ELSE B[2 - Len(a)]
  BY <1>1, <1>2, <1>4
<1>10. 2 <= Len(a) => a[2] = IF 2 <= Len(V) THEN V[2] ELSE R[2 - Len(V)]
  BY <1>1, <1>2
<1>11. Len(V) > 1 => order[2] = V[2]
  <2> SUFFICES ASSUME Len(V) > 1 PROVE order[2] = V[2]
    OBVIOUS
  <2>1. 2 <= Len(a) /\ 2 <= Len(V) /\ Len(order) > 1
    BY <1>1, <1>2, <1>4
  <2> QED BY <1>9, <1>10, <2>1
<1>12. Len(V) = 1 /\ R # <<>> => order[2] = R[1]
  <2> SUFFICES ASSUME Len(V) = 1, R # <<>> PROVE order[2] = R[1]
    OBVIOUS
  <2>1. Len(a) >= 2 /\ 2 - Len(V) = 1 /\ ~(2 <= Len(V)) /\ Len(order) > 1
    BY <1>1, <1>2, <1>4
  <2> QED BY <1>9, <1>10, <2>1
<1>13. Len(V) = 0 /\ Len(R) > 1 => order[2] = R[2]
  <2> SUFFICES ASSUME Len(V) = 0, Len(R) > 1 PROVE order[2] = R[2]
    OBVIOUS
  <2>1. Len(a) >= 2 /\ 2 - Len(V) = 2 /\ ~(2 <= Len(V)) /\ Len(order) > 1
    BY <1>1, <1>2, <1>4
  <2> QED BY <1>9, <1>10, <2>1
<1>14. Len(V) + Len(R) = 1 /\ B # <<>> => order[2] = B[1]
  <2> SUFFICES ASSUME Len(V) + Len(R) = 1, B # <<>> PROVE order[2] = B[1]
    OBVIOUS
  <2>1. Len(a) = 1 /\ 2 - Len(a) = 1 /\ ~(2 <= Len(a)) /\ Len(order) > 1
    BY <1>1, <1>2, <1>4
  <2> QED BY <1>9, <2>1
<1> QED BY <1>4, <1>6, <1>7, <1>8, <1>11, <1>12, <1>13, <1>14 DEF order, a, Seconds

(* In order and from its head, a group offers its second track.                *)
LEMMA AfterHead ==
  ASSUME NEW s \in Lists, s # <<>>
  PROVE  FromGroup(s, s[1], FALSE, FALSE) = IF Len(s) > 1 THEN {s[2]} ELSE {None}
<1>1. s[1] \in Elems(s) /\ Len(s) >= 1 /\ Len(s) \in Nat
  BY FirstIs, ListIs DEF Lists
<1>2. Index(s, s[1]) = 1
  BY <1>1, IndexIs
<1> QED BY <1>1, <1>2 DEF FromGroup

(* What is announced first when the current track heads the list.              *)
LEMMA FirstAnnounced ==
  ASSUME TypeOK, Stream, current = Head2(Vips, Regulars), current # None
  PROVE  LET order == Vips \o Regulars \o Backgrounds
         IN  First(UpNext) = IF Len(order) > 1 THEN order[2] ELSE None
<1> DEFINE V == Vips
           R == Regulars
           B == Backgrounds
           order == V \o R \o B
           n == Len(order)
<1>1. /\ V \in Lists /\ R \in Lists /\ B \in Lists
      /\ Elems(V) \cap Elems(R) = {} /\ (Elems(V) \cup Elems(R)) \cap Elems(B) = {}
  BY GroupsAre
<1>2. UpNext = IF current \notin Elems(order) THEN order
               ELSE SubSeq(order, Index(order, current) + 1, n)
                    \o IF st.mode # "flow" \/ st.repeat = "all"
                       THEN SubSeq(order, 1, Index(order, current) - 1) ELSE <<>>
  BY DEF UpNext
<1>3. st.mode # "flow" /\ current = Head2(V, R)
  BY DEF Stream
<1> HIDE DEF V, R, B
<1>4. V \o R # <<>>
  BY <1>3 DEF Head2, First
<1>5. V \o R \in Lists /\ Elems(V \o R) = Elems(V) \cup Elems(R)
  BY <1>1, ConcatIs
<1>6. order \in Lists
  <2>1. Elems(V \o R) \cap Elems(B) = {}
    BY <1>1, <1>5
  <2> QED BY <1>1, <1>5, <2>1, ConcatIs
<1>7. order \in Seq(Tracks) /\ n \in Nat /\ n >= 1 /\ order[1] = current
  <2>1. Seconds(order, V, R, B)
    BY <1>1, <1>4, SecondIs
  <2> QED BY <1>3, <2>1 DEF Seconds
<1> HIDE DEF order
<1>8. current \in Elems(order) /\ Index(order, current) = 1
  <2>1. 1 \in 1 .. Len(order)
    BY <1>7
  <2> QED BY <1>6, <1>7, <2>1, IndexIs, ListIs
<1>9. SubSeq(order, 1, Index(order, current) - 1) = <<>>
  <2>1. Index(order, current) - 1 = 0 /\ 0 \in Int /\ 1 \in Int /\ 0 < 1
    BY <1>8
  <2> QED BY <2>1, SubSeqEmpty
<1> DEFINE rest == SubSeq(order, 2, n)
<1>10. /\ rest \in Seq(Tracks) /\ Len(rest) = (IF 2 <= n THEN n - 2 + 1 ELSE 0)
       /\ \A i \in 1 .. n - 2 + 1 : rest[i] = order[2 + i - 1]
  <2>1. \A i \in 2 .. n : order[i] \in Tracks
    BY <1>7, ListIs
  <2>2. 2 \in Int /\ n \in Int
    BY <1>7
  <2> HIDE DEF n
  <2> QED BY <2>1, <2>2, SubSeqProperties
<1>11. UpNext = rest
  <2>1. UpNext = rest \o <<>>
    BY <1>2, <1>3, <1>8, <1>9
  <2> HIDE DEF rest
  <2> QED BY <1>10, <2>1, ConcatEmptySeq
<1>12. CASE n > 1
  <2>1. Len(rest) >= 1 /\ rest[1] = order[2]
    BY <1>7, <1>10, <1>12
  <2>2. rest # <<>>
    <3> HIDE DEF rest
    <3> QED BY <2>1, <1>10, EmptySeq
  <2> QED BY <1>11, <1>12, <2>1, <2>2 DEF First, order, V, R, B
<1>13. CASE ~(n > 1)
  <2>1. Len(rest) = 0
    BY <1>7, <1>10, <1>13
  <2>2. rest = <<>>
    <3> HIDE DEF rest
    <3> QED BY <2>1, <1>10, EmptySeq
  <2> QED BY <1>11, <1>13, <2>2 DEF First, order, V, R, B
<1> QED BY <1>12, <1>13

(* With nothing random or paused, in stream mode, and the current track at the *)
(* head of the list: the player goes on to the second one.                     *)
LEMMA SecondIsNext ==
  ASSUME TypeOK, Stream, Agree, pausedBg = None, current = Head2(Vips, Regulars), current # None,
         ~Random("vip"), ~Random("regular"), NEW d \in PickNext
  PROVE  LET order == Vips \o Regulars \o Backgrounds
         IN  d.next = IF Len(order) > 1 THEN order[2] ELSE None
<1> DEFINE V == Vips
           R == Regulars
           B == Backgrounds
           order == V \o R \o B
           wasVip == IsVip(current)
           vips == IF wasVip THEN Without(V, {current}) ELSE V
           regs == IF ~wasVip THEN Without(R, {current}) ELSE R
           Fv == IF wasVip THEN {IF n = None THEN vips[1] ELSE n : n \in FromGroup(V, current, FALSE, FALSE)}
                 ELSE {vips[1]}
           Fr == IF ~wasVip THEN {IF n = None THEN regs[1] ELSE n : n \in FromGroup(R, current, FALSE, FALSE)}
                 ELSE {regs[1]}
           Fb == FromGroup(B, None, FALSE, TRUE)
<1>1. /\ V \in Lists /\ R \in Lists /\ B \in Lists
      /\ Elems(V) = {x \in Elems(Pool) : IsVip(x)} /\ Elems(R) = {x \in Elems(Pool) : ~IsVip(x)}
      /\ Elems(Pool) = Elems(queue) \ Elems(SplitIds) /\ Elems(queue) \subseteq Tracks /\ None \notin Tracks
  BY GroupsAre, PlayerAssumption
<1>2. current \in Elems(V) \cup Elems(R)
  <2>1. current = IF V # <<>> THEN V[1] ELSE First(R)
    BY <1>1, HeadIs
  <2>2. V # <<>> => V[1] \in Elems(V)
    BY <1>1, FirstIs
  <2>3. R # <<>> => R[1] \in Elems(R)
    BY <1>1, FirstIs
  <2>4. First(R) = IF R = <<>> THEN None ELSE R[1]
    BY DEF First
  <2> HIDE DEF V, R
  <2> QED BY <2>1, <2>2, <2>3, <2>4
<1>3. current \in Elems(queue) /\ current \notin Elems(SplitIds)
  BY <1>1, <1>2
<1>4. ~IsBackground(current, ResolveIds)
  <2>1. Elems(SplitIds) = Elems(ResolveIds)
    <3>1. bgPage \in Lists /\ bgMode \in Lists
      BY DEF TypeOK
    <3>2. (bgPage = <<>> <=> Elems(bgPage) = {}) /\ (bgMode = <<>> <=> Elems(bgMode) = {})
      BY <3>1, FirstIs
    <3> QED BY <3>2 DEF Agree, SplitIds, ResolveIds
  <2> QED BY <1>3, <2>1 DEF IsBackground
<1>5. ~st.shuffle /\ st.mode # "static" /\ queue # <<>>
  <2>1. queue # <<>>
    BY <1>3 DEF Elems
  <2> QED BY <2>1 DEF Random, Stream
<1>6. PickNext = QueueNext
  BY <1>5 DEF PickNext
<1>7. /\ Random("vip") = FALSE /\ Random("regular") = FALSE /\ st.shuffle = FALSE
  <2>1. Random("vip") \in BOOLEAN /\ Random("regular") \in BOOLEAN /\ st.shuffle \in BOOLEAN
    BY DEF TypeOK, Settings, Random
  <2> QED BY <1>5, <2>1
<1> DEFINE t == IF current \in Elems(queue) THEN current ELSE None
           xVip == t # None /\ IsVip(t)
           xBg == t # None /\ IsBackground(t, ResolveIds)
           xReg == t # None /\ ~xVip /\ ~xBg
           xvips == IF xVip THEN Without(Vips, {t}) ELSE Vips
           xregs == IF xReg THEN Without(Regulars, {t}) ELSE Regulars
           gone == IF Stream /\ (xVip \/ xReg) THEN t ELSE None
           From(g, was, rest) ==
             IF was THEN {IF n = None THEN rest[1] ELSE n : n \in FromGroup(Group(g), t, Random(g), FALSE)}
             ELSE IF Random(g) THEN Elems(rest) ELSE {rest[1]}
<1>8. QueueNext =
        IF xvips # <<>> THEN {Decision(n, IF xVip THEN gone ELSE None, FALSE) : n \in From("vip", xVip, xvips)}
        ELSE IF xregs # <<>> THEN {Decision(n, gone, FALSE) : n \in From("regular", xReg, xregs)}
        ELSE IF pausedBg # None THEN {Decision(pausedBg, gone, TRUE)}
        ELSE {Decision(n, gone, FALSE) : n \in FromGroup(Backgrounds, IF xBg THEN t ELSE None, st.shuffle, TRUE)}
  BY DEF QueueNext
<1>9. /\ t = current /\ xBg = FALSE /\ (xVip <=> wasVip) /\ (xReg <=> ~wasVip)
      /\ xvips = vips /\ xregs = regs
  BY <1>3, <1>4
<1>10. Group("vip") = V /\ Group("regular") = R
  BY DEF Group
<1>11. From("vip", xVip, xvips) = Fv /\ From("regular", xReg, xregs) = Fr
  BY <1>7, <1>9, <1>10
<1>12. FromGroup(Backgrounds, IF xBg THEN t ELSE None, st.shuffle, TRUE) = Fb
  BY <1>7, <1>9
<1> HIDE DEF t, xVip, xBg, xReg, xvips, xregs, gone, From
<1>13. d.next \in IF vips # <<>> THEN Fv ELSE IF regs # <<>> THEN Fr ELSE Fb
  <2>1. ASSUME NEW n, NEW u, NEW b PROVE Decision(n, u, b).next = n
    BY DEF Decision
  <2> DEFINE u == IF xVip THEN gone ELSE None
  <2>2. d \in IF vips # <<>> THEN {Decision(n, u, FALSE) : n \in Fv}
              ELSE IF regs # <<>> THEN {Decision(n, gone, FALSE) : n \in Fr}
              ELSE {Decision(n, gone, FALSE) : n \in Fb}
    BY <1>6, <1>8, <1>9, <1>11, <1>12
  <2> HIDE DEF vips, regs, Fv, Fr, Fb, u
  <2> QED BY <2>1, <2>2
<1>14. /\ Len(V) \in Nat /\ Len(R) \in Nat /\ Len(B) \in Nat
       /\ (V = <<>> <=> Len(V) = 0) /\ (R = <<>> <=> Len(R) = 0) /\ (B = <<>> <=> Len(B) = 0)
       /\ (V = <<>> <=> Elems(V) = {}) /\ (R = <<>> <=> Elems(R) = {})
  <2>1. V \in Seq(Tracks) /\ R \in Seq(Tracks) /\ B \in Seq(Tracks)
    BY <1>1 DEF Lists
  <2> HIDE DEF V, R, B
  <2> QED BY <2>1, ListIs
<1>15. current = IF V # <<>> THEN V[1] ELSE R[1]
  <2>1. current = IF V # <<>> THEN V[1] ELSE First(R)
    BY <1>1, HeadIs
  <2> QED BY <1>2, <1>14, <2>1 DEF First
<1>16. V \o R # <<>>
  BY DEF Head2, First
<1> DEFINE n == Len(order)
<1>17. /\ n > 1 <=> Len(V) > 1 \/ Len(R) > 1 \/ (Len(V) = 1 /\ Len(R) = 1) \/ B # <<>>
       /\ Len(V) > 1 => order[2] = V[2]
       /\ Len(V) = 1 /\ R # <<>> => order[2] = R[1]
       /\ Len(V) = 0 /\ Len(R) > 1 => order[2] = R[2]
       /\ Len(V) + Len(R) = 1 /\ B # <<>> => order[2] = B[1]
  <2>1. V \in Lists /\ R \in Lists /\ B \in Lists
    BY <1>1
  <2> HIDE DEF V, R, B
  <2>2. Seconds(order, V, R, B)
    BY <2>1, <1>16, SecondIs
  <2> HIDE DEF order
  <2> QED BY <2>2 DEF Seconds
<1>a. \A k, l \in Nat : /\ ~(k > 1) /\ k # 0 => k = 1
                        /\ ~(k > 1) /\ k # 0 /\ l = 0 => k + l = 1 /\ l + k = 1
                        /\ l # 0 => l = 1 \/ l > 1
  OBVIOUS
<1>b. (V # <<>> <=> Len(V) # 0) /\ (R # <<>> <=> Len(R) # 0) /\ Len(V) \in Nat /\ Len(R) \in Nat
  BY <1>14
<1>18. V # <<>> <=> wasVip
  <2>1. V # <<>> => V[1] \in Elems(V)
    BY <1>1, FirstIs
  <2>2. wasVip => current \in Elems(V)
    BY <1>1, <1>2
  <2>3. current \in Elems(V) => wasVip
    BY <1>1
  <2> HIDE DEF V, R, wasVip
  <2> QED BY <1>14, <1>15, <2>1, <2>2, <2>3
<1> HIDE DEF order, B, V, R, n
(* one group only *)
<1>19. ASSUME NEW s \in Lists, s # <<>>
       PROVE  /\ Without(s, {s[1]}) # <<>> <=> Len(s) > 1
              /\ Len(s) > 1 => FromGroup(s, s[1], FALSE, FALSE) = {s[2]} /\ s[2] # None
  <2>1. /\ s \in Seq(Tracks) /\ Len(s) \in Nat /\ Len(s) >= 1
        /\ Without(s, {s[1]}) \in Lists /\ Elems(Without(s, {s[1]})) = Elems(s) \ {s[1]}
    <3>1. s \in Seq(Tracks)
      BY DEF Lists
    <3>2. Len(s) \in Nat /\ Len(s) >= 1
      BY <1>19, <3>1, FirstIs, ListIs
    <3> QED BY <3>1, <3>2, WithoutIs
  <2>2. Without(s, {s[1]}) # <<>> <=> Elems(s) \ {s[1]} # {}
    BY <2>1, FirstIs
  <2>3. ASSUME Len(s) > 1 PROVE s[2] \in Elems(s) /\ s[2] # s[1] /\ s[2] \in Tracks
    BY <2>1, <2>3, ListIs DEF Lists
  <2>4. ASSUME Elems(s) \ {s[1]} # {} PROVE Len(s) > 1
    <3>1. PICK x \in Elems(s) : x # s[1]
      BY <2>4
    <3>2. PICK i \in 1 .. Len(s) : s[i] = x
      BY <2>1, ListIs
    <3> QED BY <2>1, <3>1, <3>2
  <2>5. Len(s) > 1 => FromGroup(s, s[1], FALSE, FALSE) = {s[2]}
    BY <1>19, AfterHead
  <2> QED BY <1>1, <2>2, <2>3, <2>4, <2>5
<1>20. Fb = IF B = <<>> THEN {None} ELSE {B[1]}
  <2>1. None \notin Elems(B)
    BY <1>1, FirstIs
  <2> QED BY <2>1 DEF FromGroup
<1> HIDE DEF Fb
<1>21. CASE wasVip
  <2>1. current = V[1] /\ V # <<>> /\ vips = Without(V, {V[1]}) /\ regs = R /\ Fr = {R[1]}
        /\ Fv = {IF x = None THEN vips[1] ELSE x : x \in FromGroup(V, V[1], FALSE, FALSE)}
    BY <1>15, <1>18, <1>21
  <2> HIDE DEF vips, regs, Fv, Fr
  <2>2. (vips # <<>> <=> Len(V) > 1) /\ (Len(V) > 1 => Fv = {V[2]})
    <3>1. V \in Lists
      BY <1>1
    <3>2. /\ Without(V, {V[1]}) # <<>> <=> Len(V) > 1
          /\ Len(V) > 1 => FromGroup(V, V[1], FALSE, FALSE) = {V[2]} /\ V[2] # None
      BY <1>19, <2>1, <3>1
    <3> QED BY <2>1, <3>2
  <2>3. ASSUME Len(V) > 1 PROVE d.next = V[2] /\ n > 1 /\ order[2] = V[2]
    BY <1>13, <1>17, <2>2, <2>3
  <2>4. ASSUME ~(Len(V) > 1), R # <<>> PROVE d.next = R[1] /\ n > 1 /\ order[2] = R[1]
    <3>1. d.next = R[1]
      BY <1>13, <2>1, <2>2, <2>4
    <3>2. Len(V) = 1 /\ (Len(R) = 1 \/ Len(R) > 1)
      BY <1>a, <1>b, <2>1, <2>4
    <3> QED BY <1>17, <2>4, <3>1, <3>2
  <2>5. ASSUME ~(Len(V) > 1), R = <<>> PROVE d.next = IF n > 1 THEN order[2] ELSE None
    <3>1. d.next \in Fb
      BY <1>13, <2>1, <2>2, <2>5
    <3>2. Len(V) = 1 /\ Len(R) = 0 /\ Len(V) + Len(R) = 1
      BY <1>a, <1>b, <2>1, <2>5
    <3> QED BY <1>17, <1>20, <3>1, <3>2
  <2> QED BY <2>3, <2>4, <2>5 DEF n, order, V, R, B
<1>22. CASE ~wasVip
  <2>1. /\ V = <<>> /\ R # <<>> /\ current = R[1] /\ vips = <<>> /\ regs = Without(R, {R[1]})
        /\ Fr = {IF x = None THEN regs[1] ELSE x : x \in FromGroup(R, R[1], FALSE, FALSE)}
    BY <1>2, <1>14, <1>15, <1>18, <1>22
  <2> HIDE DEF vips, regs, Fv, Fr
  <2>2. (regs # <<>> <=> Len(R) > 1) /\ (Len(R) > 1 => Fr = {R[2]})
    <3>1. R \in Lists
      BY <1>1
    <3>2. /\ Without(R, {R[1]}) # <<>> <=> Len(R) > 1
          /\ Len(R) > 1 => FromGroup(R, R[1], FALSE, FALSE) = {R[2]} /\ R[2] # None
      BY <1>19, <2>1, <3>1
    <3> QED BY <2>1, <3>2
  <2>3. ASSUME Len(R) > 1 PROVE d.next = R[2] /\ n > 1 /\ order[2] = R[2]
    BY <1>13, <1>14, <1>17, <2>1, <2>2, <2>3
  <2>4. ASSUME ~(Len(R) > 1) PROVE d.next = IF n > 1 THEN order[2] ELSE None
    <3>1. d.next \in Fb
      BY <1>13, <2>1, <2>2, <2>4
    <3>2. Len(V) = 0 /\ Len(R) = 1 /\ Len(V) + Len(R) = 1
      BY <1>a, <1>b, <2>1, <2>4
    <3> QED BY <1>17, <1>20, <3>1, <3>2
  <2> QED BY <2>3, <2>4 DEF n, order, V, R, B
<1> QED BY <1>21, <1>22

(* The announcement in any state of its types.                                 *)
LEMMA AnnouncedIs == TypeOK => AnnouncedIsNext
<1> SUFFICES ASSUME TypeOK, Stream, Agree, pausedBg = None, current = Head2(Vips, Regulars), current # None,
                    ~Random("vip"), ~Random("regular"), NEW d \in PickNext
             PROVE  d.next = First(UpNext)
  BY DEF AnnouncedIsNext
<1> QED BY SecondIsNext, FirstAnnounced

-----------------------------------------------------------------------------
(* The player's variables keep their types: no list ever names a track twice,  *)
(* and what is queued has arrived.                                             *)
THEOREM PlayerTypeCorrect == Spec => []TypeOK
<1>1. TypeOK /\ UNCHANGED vars => TypeOK'
  BY DEF TypeOK, vars, lists, pauses
<1>2. TypeOK /\ [Next]_vars => TypeOK'
  BY <1>1, PlayerStep
<1> QED BY InitTyped, <1>2, PTL DEF Spec

(* Moving on, the player takes a waiting VIP first, and without one a waiting  *)
(* regular track before any background.                                        *)
THEOREM RanksHold == Spec => RanksRespected
<1>1. TypeOK /\ [Next]_vars =>
        [(End \/ Skip) /\ st.mode # "static" =>
           /\ Elems(Vips) \ {current} # {} => current' \in Elems(Vips)
           /\ Elems(Vips) \ {current} = {} /\ Elems(Regulars) \ {current} # {} => current' \in Elems(Regulars)]_vars
  BY AdvanceRanks DEF End, Skip
<1> QED BY <1>1, PlayerTypeCorrect, PTL DEF RanksRespected, Spec

(* A step in a manual order exchanges two neighbours of the group on screen.   *)
THEOREM StepsMoveOne == Spec => StepMovesOne
<1> DEFINE A == \A g \in {"vip", "regular"}, t \in Tracks, d \in {-1, 1} :
             ReorderStep(g, t, d) =>
               LET i == Index(Group(g), t)
               IN  i + d \in DOMAIN Group(g) /\ Group(g)' = Swap(Group(g), i, i + d)
<1>1. TypeOK /\ TypeOK' => A
  BY StepMoves DEF Sides
<1> QED BY <1>1, PlayerTypeCorrect, PTL DEF StepMovesOne, Spec

(* What the page announces first is what the player goes on to.                *)
THEOREM AnnouncementHolds == Spec => []AnnouncedIsNext
BY PlayerTypeCorrect, AnnouncedIs, PTL

=============================================================================
