--------------------------- MODULE FiberTimersProofs --------------------------
(***************************************************************************)
(* Proofs about FiberTimers, for every set of fibers and timers, every     *)
(* delay, period and duration, and every length of a second.               *)
(*                                                                         *)
(* The first part is about the wait of each fiber: where its code and its  *)
(* state are, its one event, the clock, and what a timer does after        *)
(* cancel().  No step of it reads refs.  The second part counts the        *)
(* references.                                                             *)
(***************************************************************************)
EXTENDS FiberTimers, FiniteSetTheorems, WellFoundedInduction, TLAPS

-----------------------------------------------------------------------------
(* Numbers and lists.                                                      *)

LEMMA NatSetInduction ==
    ASSUME NEW T \in SUBSET Nat, 0 \in T, \A n \in T : n + 1 \in T
    PROVE  T = Nat
<1> DEFINE R == {ss \in Nat \X Nat : ss[1] < ss[2]}
<1> SUFFICES ASSUME T # Nat PROVE FALSE
  OBVIOUS
<1>1. IsWellFoundedOn(R, Nat)
  BY NatLessThanWellFounded DEF OpToRel
<1>2. PICK m \in Nat \ T : \A n \in Nat \ T : ~(<<n, m>> \in R)
  BY <1>1, WFMin
<1>3. m # 0 /\ m - 1 \in Nat /\ m - 1 < m
  BY <1>2
<1>4. <<m - 1, m>> \in R
  BY <1>2, <1>3
<1>5. m - 1 \in T
  BY <1>2, <1>3, <1>4
<1> QED BY <1>2, <1>3, <1>5

LEMMA LeastElement ==
    ASSUME NEW K \in SUBSET Nat, K # {}
    PROVE  \E m \in K : \A n \in K : m <= n
<1> DEFINE R == {ss \in Nat \X Nat : ss[1] < ss[2]}
<1>1. IsWellFoundedOn(R, Nat)
  BY NatLessThanWellFounded DEF OpToRel
<1>2. PICK m \in K : \A n \in K : ~(<<n, m>> \in R)
  BY <1>1, WFMin
<1>3. ASSUME NEW n \in K PROVE m <= n
  <2>1. <<n, m>> \notin R /\ n \in Nat /\ m \in Nat
    BY <1>2
  <2>2. ~(n < m)
    BY <2>1
  <2> QED BY <2>1, <2>2
<1> QED BY <1>3

\* o goes through K from its least element to its greatest.
Enumerates(o, n, K) ==
    /\ o \in [1..n -> K]
    /\ \A i, j \in 1..n : i < j => o[i] < o[j]
    /\ \A k \in K : \E i \in 1..n : o[i] = k

LEMMA EnumerationExists ==
    ASSUME NEW n \in Nat, NEW K \in SUBSET Nat, IsFiniteSet(K), Cardinality(K) = n
    PROVE  \E o : Enumerates(o, n, K)
<1> DEFINE All_n(m) == \A S \in SUBSET Nat : IsFiniteSet(S) /\ Cardinality(S) = m
                            => \E o : Enumerates(o, m, S)
           T == {m \in Nat : All_n(m)}
<1>1. 0 \in T
  <2>1. ASSUME NEW S \in SUBSET Nat, IsFiniteSet(S), Cardinality(S) = 0
        PROVE  \E o : Enumerates(o, 0, S)
    <3>1. S = {}
      BY <2>1, FS_EmptySet
    <3>2. Enumerates([i \in 1..0 |-> i], 0, S)
      BY <3>1 DEF Enumerates
    <3> QED BY <3>2
  <2> QED BY <2>1
<1>2. ASSUME NEW m \in T PROVE m + 1 \in T
  <2>1. ASSUME NEW S \in SUBSET Nat, IsFiniteSet(S), Cardinality(S) = m + 1
        PROVE  \E o : Enumerates(o, m + 1, S)
    <3>0. m \in Nat /\ All_n(m)
      OBVIOUS
    <3>1. S # {}
      BY <2>1, <3>0, FS_EmptySet
    <3>2. PICK a \in S : \A b \in S : a <= b
      BY <3>1, LeastElement
    <3>3. IsFiniteSet(S \ {a}) /\ Cardinality(S \ {a}) = m
      <4>1. IsFiniteSet(S \ {a}) /\ Cardinality(S \ {a}) = Cardinality(S) - 1
        BY <2>1, FS_RemoveElement
      <4>2. m \in Nat => m + 1 - 1 = m
        OBVIOUS
      <4> QED BY <2>1, <3>0, <4>1, <4>2
    <3>4. PICK o : Enumerates(o, m, S \ {a})
      BY <3>0, <3>3
    <3> DEFINE p == [i \in 1..(m + 1) |-> IF i = 1 THEN a ELSE o[i - 1]]
    <3>5. \A i \in 1..(m + 1) : i # 1 => i - 1 \in 1..m
      BY <3>0
    <3>6. p[1] = a /\ \A i \in 1..m : i + 1 \in 1..(m + 1) /\ p[i + 1] = o[i]
      BY <3>0
    <3>7. ASSUME NEW i \in 1..(m + 1), NEW j \in 1..(m + 1), i < j
          PROVE  p[i] < p[j]
      <4>1. j - 1 \in 1..m /\ p[j] = o[j - 1] /\ o[j - 1] \in S \ {a}
        BY <3>0, <3>4, <3>5, <3>7 DEF Enumerates
      <4>2. CASE i = 1
        <5>1. a \in Nat /\ o[j - 1] \in Nat /\ a <= o[j - 1] /\ a # o[j - 1]
          BY <3>2, <4>1
        <5>2. a < o[j - 1]
          BY <5>1
        <5> QED BY <3>6, <4>1, <4>2, <5>2
      <4>3. CASE i # 1
        BY <3>4, <3>5, <3>7, <4>1, <4>3 DEF Enumerates
      <4> QED BY <4>2, <4>3
    <3>8. p \in [1..(m + 1) -> S]
      BY <3>4, <3>5 DEF Enumerates
    <3>9. \A k \in S : \E i \in 1..(m + 1) : p[i] = k
      <4>1. ASSUME NEW k \in S \ {a} PROVE \E i \in 1..(m + 1) : p[i] = k
        <5>1. PICK i \in 1..m : o[i] = k
          BY <3>4 DEF Enumerates
        <5> QED BY <3>6, <5>1
      <4>2. 1 \in 1..(m + 1)
        BY <3>0
      <4> QED BY <3>6, <4>1, <4>2
    <3> QED BY <3>7, <3>8, <3>9 DEF Enumerates
  <2> QED BY <2>1
<1>3. T = Nat
  <2> HIDE DEF T
  <2>1. T \in SUBSET Nat
    BY DEF T
  <2> QED BY <1>1, <1>2, <2>1, NatSetInduction
<1> QED BY <1>3

(* Order(K) goes through all of K: K has no more elements than positions.  *)
LEMMA OrderFacts ==
    ASSUME NEW K \in SUBSET Nat, IsFiniteSet(K)
    PROVE  Cardinality(K) \in Nat /\ Enumerates(Order(K), Cardinality(K), K)
<1> DEFINE n == Cardinality(K)
           o == Order(K)
<1>1. n \in Nat
  BY FS_CardinalityType
<1>2. o \in [1..n -> K] /\ \A i, j \in 1..n : i < j => o[i] < o[j]
  <2>1. \E p \in [1..n -> K] : \A i, j \in 1..n : i < j => p[i] < p[j]
    BY <1>1, EnumerationExists DEF Enumerates
  <2> QED BY <2>1 DEF Order
<1>3. o \in Injection(1..n, K)
  <2>1. \A i, j \in 1..n : o[i] = o[j] => i = j
    <3>1. \A i, j \in 1..n : o[i] \in Nat /\ o[j] \in Nat
      BY <1>2
    <3>2. \A i, j \in 1..n : i < j \/ j < i \/ i = j
      BY <1>1
    <3>3. \A x, y \in Nat : x < y => x # y
      OBVIOUS
    <3> QED BY <1>2, <3>1, <3>2, <3>3
  <2> QED BY <1>2, <2>1 DEF Injection, IsInjective
<1>4. Cardinality(1..n) = n
  BY <1>1, FS_Interval
<1>5. o \in Surjection(1..n, K)
  BY <1>3, <1>4, FS_Injection
<1> QED BY <1>1, <1>2, <1>5 DEF Enumerates, Surjection

(* What is picked from a list is a list of the elements at K, each once.   *)
LEMMA PickedFacts ==
    ASSUME NEW S, NEW s \in Seq(S), NEW K \in SUBSET (1..Len(s))
    PROVE  /\ Cardinality(K) \in Nat /\ IsFiniteSet(K)
           /\ Picked(s, K) \in Seq(S) /\ Len(Picked(s, K)) = Cardinality(K)
           /\ DOMAIN Picked(s, K) = 1..Cardinality(K)
           /\ \A i \in 1..Cardinality(K) :
                  Order(K)[i] \in K /\ Picked(s, K)[i] = s[Order(K)[i]]
           /\ \A i, j \in 1..Cardinality(K) : Order(K)[i] = Order(K)[j] => i = j
           /\ \A k \in K : \E i \in 1..Cardinality(K) : Order(K)[i] = k
<1> DEFINE n == Cardinality(K)
           o == Order(K)
<1>1. Len(s) \in Nat /\ K \in SUBSET Nat
  OBVIOUS
<1>2. IsFiniteSet(K)
  <2>1. IsFiniteSet(1..Len(s))
    BY <1>1, FS_Interval
  <2> QED BY <2>1, FS_Subset
<1>3. n \in Nat /\ Enumerates(o, n, K)
  BY <1>1, <1>2, OrderFacts
<1>4. \A i \in 1..n : o[i] \in K /\ o[i] \in Nat /\ s[o[i]] \in S
  <2>1. \A i \in 1..n : o[i] \in K
    BY <1>3 DEF Enumerates
  <2>2. \A k \in K : k \in Nat /\ s[k] \in S
    BY <1>1
  <2> QED BY <2>1, <2>2
<1>5. Picked(s, K) = [i \in 1..n |-> s[o[i]]]
  BY DEF Picked
<1>6. Picked(s, K) \in Seq(S) /\ Len(Picked(s, K)) = n
  <2>1. Picked(s, K) \in [1..n -> S]
    BY <1>4, <1>5
  <2> QED BY <1>3, <1>5, <2>1
<1>7. \A i, j \in 1..n : o[i] = o[j] => i = j
  <2>1. \A i, j \in 1..n : i < j \/ j < i \/ i = j
    BY <1>3
  <2>2. \A x, y \in Nat : x < y => x # y
    OBVIOUS
  <2> QED BY <1>3, <1>4, <2>1, <2>2 DEF Enumerates
<1>8. \A k \in K : \E i \in 1..n : o[i] = k
  BY <1>3 DEF Enumerates
<1>9. DOMAIN Picked(s, K) = 1..n /\ \A i \in 1..n : Picked(s, K)[i] = s[o[i]]
  BY <1>5
<1> HIDE DEF n, o
<1>10. /\ n \in Nat /\ IsFiniteSet(K)
       /\ Picked(s, K) \in Seq(S) /\ Len(Picked(s, K)) = n
       /\ DOMAIN Picked(s, K) = 1..n
       /\ \A i \in 1..n : o[i] \in K /\ Picked(s, K)[i] = s[o[i]]
       /\ \A i, j \in 1..n : o[i] = o[j] => i = j
       /\ \A k \in K : \E i \in 1..n : o[i] = k
  BY <1>2, <1>3, <1>4, <1>6, <1>7, <1>8, <1>9
<1> QED BY <1>10 DEF n, o

Occurs(s, V) == Cardinality({i \in 1..Len(s) : s[i] \in V})

\* As many elements of V as there were at the positions in K.
LEMMA OccursPicked ==
    ASSUME NEW S, NEW s \in Seq(S), NEW K \in SUBSET (1..Len(s)), NEW V
    PROVE  Occurs(Picked(s, K), V) = Cardinality({k \in K : s[k] \in V})
<1> DEFINE n == Cardinality(K)
           o == Order(K)
           P == Picked(s, K)
           A == {i \in 1..Len(P) : P[i] \in V}
           B == {k \in K : s[k] \in V}
           f == [i \in A |-> o[i]]
<1>1. /\ n \in Nat /\ IsFiniteSet(K) /\ Len(P) = n
      /\ \A i \in 1..n : o[i] \in K /\ P[i] = s[o[i]]
      /\ \A i, j \in 1..n : o[i] = o[j] => i = j
      /\ \A k \in K : \E i \in 1..n : o[i] = k
  BY PickedFacts
<1> HIDE DEF n, o, P
<1>2. f \in Injection(A, B) /\ f \in Surjection(A, B)
  <2>1. f \in [A -> B]
    BY <1>1
  <2>2. \A i, j \in A : f[i] = f[j] => i = j
    BY <1>1
  <2>3. \A k \in B : \E i \in A : f[i] = k
    BY <1>1
  <2> QED BY <2>1, <2>2, <2>3 DEF Injection, IsInjective, Surjection
<1>3. IsFiniteSet(B) /\ B \in SUBSET K
  BY <1>1, FS_Subset
<1>4. Cardinality(A) = Cardinality(B)
  BY <1>2, <1>3, FS_Injection
<1> QED BY <1>4 DEF P, Occurs

-----------------------------------------------------------------------------
(* The clock.                                                              *)

LEMMA Constants ==
    /\ Second \in Nat /\ Second > 0 /\ Horizon \in Nat /\ Second <= Horizon
    /\ IdleTimeout \in Nat /\ IdleTimeout > 0
    /\ Delays \subseteq Nat /\ Periods \subseteq Nat /\ Durations \subseteq Nat
    /\ None \notin All /\ IsFiniteSet(All)
    /\ \A f \in All : f \in Fibers \/ f \in Timers
    /\ \A t \in Timers : t \in All /\ t \notin Fibers
BY FiberTimersAssumption DEF All

LEMMA Divided ==
    ASSUME NEW t \in Nat, NEW s \in Nat, s > 0
    PROVE  /\ t \div s \in Nat /\ t % s \in 0..(s - 1)
           /\ t = (t \div s) * s + (t % s)
<1>1. t % s \in 0..(s - 1)
  OBVIOUS
<1>2. t \div s \in Nat
  OBVIOUS
<1>3. t = s * (t \div s) + (t % s)
  OBVIOUS
<1>4. s * (t \div s) = (t \div s) * s
  BY <1>2
<1> QED BY <1>1, <1>2, <1>3, <1>4

LEMMA SecMs ==
    ASSUME NEW t \in Nat
    PROVE  Sec(t) \in Nat /\ Ms(t) \in 0..(Second - 1) /\ t = Sec(t) * Second + Ms(t)
BY Constants, Divided DEF Sec, Ms

\* Seconds count for more than milliseconds do.
LEMMA Lexicographic ==
    ASSUME NEW s \in Nat, s > 0, NEW a \in Nat, NEW b \in Nat,
           NEW x \in 0..(s - 1), NEW y \in 0..(s - 1)
    PROVE  (a > b \/ (a = b /\ x >= y)) <=> a * s + x >= b * s + y
<1>1. a > b => a * s >= b * s + s
  <2>1. a > b => a - b >= 1 /\ a - b \in Nat
    OBVIOUS
  <2>2. \A c \in Nat : c >= 1 => c * s >= s
    OBVIOUS
  <2>3. a > b => (a - b) * s >= s
    BY <2>1, <2>2
  <2>4. (a - b) * s = a * s - b * s
    OBVIOUS
  <2> QED BY <2>3, <2>4
<1>2. b > a => b * s >= a * s + s
  <2>1. b > a => b - a >= 1 /\ b - a \in Nat
    OBVIOUS
  <2>2. \A c \in Nat : c >= 1 => c * s >= s
    OBVIOUS
  <2>3. b > a => (b - a) * s >= s
    BY <2>1, <2>2
  <2>4. (b - a) * s = b * s - a * s
    OBVIOUS
  <2> QED BY <2>3, <2>4
<1> DEFINE A == a * s
           B == b * s
<1>3. A \in Nat /\ B \in Nat
  OBVIOUS
<1>4. a = b => A = B
  OBVIOUS
<1> HIDE DEF A, B
<1>5. (a > b => A >= B + s) /\ (b > a => B >= A + s)
  BY <1>1, <1>2 DEF A, B
<1>6. (a > b \/ (a = b /\ x >= y)) <=> A + x >= B + y
  BY <1>3, <1>4, <1>5
<1> QED BY <1>6 DEF A, B

EventType == [fiber : All, live : BOOLEAN, sec : Nat, ms : 0..(Second - 1)]

LEMMA EventFacts ==
    ASSUME NEW e \in EventType
    PROVE  /\ e.fiber \in All /\ e.live \in BOOLEAN /\ e.sec \in Nat
           /\ e.ms \in 0..(Second - 1) /\ e.ms \in Nat /\ When(e) \in Nat
<1>1. /\ e.fiber \in All /\ e.live \in BOOLEAN /\ e.sec \in Nat
      /\ e.ms \in 0..(Second - 1)
  BY DEF EventType
<1>2. \A x \in 0..(Second - 1) : x \in Nat
  BY Constants
<1>3. e.sec * Second \in Nat
  BY <1>1, Constants
<1> QED BY <1>1, <1>2, <1>3 DEF When

LEMMA IsDueFacts ==
    ASSUME NEW e \in EventType, now \in Nat
    PROVE  IsDue(e) <=> now >= When(e)
<1>1. /\ Sec(now) \in Nat /\ Ms(now) \in 0..(Second - 1)
      /\ now = Sec(now) * Second + Ms(now)
  BY SecMs
<1>2. e.sec \in Nat /\ e.ms \in 0..(Second - 1)
  BY EventFacts
<1>3. (Sec(now) > e.sec \/ (Sec(now) = e.sec /\ Ms(now) >= e.ms))
      <=> Sec(now) * Second + Ms(now) >= e.sec * Second + e.ms
  BY <1>1, <1>2, Constants, Lexicographic
<1> QED BY <1>1, <1>3 DEF IsDue, When

LEMMA AddToNowFacts ==
    ASSUME now \in Nat, NEW d \in Nat
    PROVE  /\ AddToNow(d).sec \in Nat /\ AddToNow(d).ms \in 0..(Second - 1)
           /\ AddToNow(d).sec * Second + AddToNow(d).ms = now + d
<1>1. /\ Sec(now) \in Nat /\ Ms(now) \in 0..(Second - 1)
      /\ now = Sec(now) * Second + Ms(now)
  BY SecMs
<1>2. /\ Sec(d) \in Nat /\ Ms(d) \in 0..(Second - 1)
      /\ d = Sec(d) * Second + Ms(d)
  BY SecMs
<1> DEFINE sec == Sec(now) + Sec(d)
           ms == Ms(now) + Ms(d)
<1>3. /\ sec \in Nat /\ ms \in Nat /\ ms < Second + Second
      /\ sec * Second + ms = now + d
  <2>1. (Sec(now) + Sec(d)) * Second = Sec(now) * Second + Sec(d) * Second
    BY <1>1, <1>2, Constants
  <2>2. /\ Sec(now) * Second \in Nat /\ Sec(d) * Second \in Nat
    BY <1>1, <1>2, Constants
  <2> QED BY <1>1, <1>2, <2>1, <2>2, Constants
<1>4. (sec + 1) * Second = sec * Second + Second /\ sec * Second \in Nat
  BY <1>3, Constants
<1> HIDE DEF sec, ms
<1>5. AddToNow(d) = IF ms >= Second THEN [sec |-> sec + 1, ms |-> ms - Second]
                                    ELSE [sec |-> sec, ms |-> ms]
  BY DEF AddToNow, sec, ms
<1>6. CASE ms >= Second
  <2>1. AddToNow(d).sec = sec + 1 /\ AddToNow(d).ms = ms - Second
    BY <1>5, <1>6
  <2>2. (sec + 1) * Second + (ms - Second) = now + d
    BY <1>3, <1>4, Constants
  <2> QED BY <1>3, <1>6, <2>1, <2>2, Constants
<1>7. CASE ~(ms >= Second)
  <2>1. AddToNow(d).sec = sec /\ AddToNow(d).ms = ms
    BY <1>5, <1>7
  <2> QED BY <1>3, <1>7, <2>1, Constants
<1> QED BY <1>6, <1>7

\* How far the poller may sleep towards an event x milliseconds away.
Allowed(x) == IF x >= Second THEN x ELSE Second - 1

LEMMA AllowedMonotone ==
    ASSUME NEW x \in Int, NEW y \in Int, x <= y
    PROVE  Allowed(x) <= Allowed(y) /\ Allowed(x) \in Int /\ Allowed(y) \in Int
BY Constants DEF Allowed

LEMMA TimeToFacts ==
    ASSUME NEW e \in EventType, now \in Nat
    PROVE  TimeTo(e) \in Nat /\ TimeTo(e) <= Allowed(When(e) - now)
<1>1. /\ Sec(now) \in Nat /\ Ms(now) \in 0..(Second - 1)
      /\ now = Sec(now) * Second + Ms(now)
  BY SecMs
<1>2. e.sec \in Nat /\ e.ms \in 0..(Second - 1) /\ When(e) = e.sec * Second + e.ms
  BY EventFacts DEF When
<1> DEFINE b == IF e.ms < Ms(now) THEN 1 ELSE 0
           sec == e.sec - Sec(now) - b
           ms == IF e.ms < Ms(now) THEN e.ms + Second - Ms(now) ELSE e.ms - Ms(now)
<1>3. b \in {0, 1} /\ sec \in Int /\ ms \in 0..(Second - 1)
  BY <1>1, <1>2, Constants
<1>4. ms = e.ms - Ms(now) + b * Second
  BY <1>1, <1>2, Constants
<1>5. sec * Second = e.sec * Second - Sec(now) * Second - b * Second
  <2>1. \A x, y, z, s \in Int : (x - y - z) * s = x * s - y * s - z * s
    OBVIOUS
  <2> QED BY <1>1, <1>2, <1>3, <2>1, Constants
<1>6. TimeTo(e) = (IF sec < 0 THEN 0 ELSE sec) * Second + ms
  BY DEF TimeTo, Borrowed
<1>7. e.sec * Second \in Nat /\ Sec(now) * Second \in Nat /\ b * Second \in Nat
  BY <1>1, <1>2, <1>3, Constants
<1> HIDE DEF b, sec, ms
<1>8. CASE sec < 0
  <2>1. TimeTo(e) = ms
    BY <1>3, <1>6, <1>8, Constants
  <2>2. When(e) - now \in Int
    BY <1>1, <1>2, <1>7
  <2> QED BY <1>3, <2>1, <2>2, Constants DEF Allowed
<1>9. CASE ~(sec < 0)
  <2>1. TimeTo(e) = sec * Second + ms
    BY <1>6, <1>9
  <2>2. sec * Second + ms = When(e) - now
    BY <1>1, <1>2, <1>3, <1>4, <1>5, <1>7, Constants
  <2>3. sec * Second \in Nat
    BY <1>3, <1>9, Constants
  <2> QED BY <1>3, <2>1, <2>2, <2>3, Constants DEF Allowed
<1> QED BY <1>8, <1>9

LEMMA NearestFacts ==
    ASSUME events \in Seq(EventType), events # <<>>
    PROVE  /\ Nearest \in EventType
           /\ \A d \in ToSet(events) : When(Nearest) <= When(d)
<1> DEFINE E == ToSet(events)
           Before(e, d) == e.sec < d.sec \/ (e.sec = d.sec /\ e.ms <= d.ms)
<1>1. E \subseteq EventType /\ E # {}
  <2>1. Len(events) \in Nat /\ Len(events) >= 1 /\ events[1] \in EventType
    OBVIOUS
  <2> QED BY <2>1 DEF ToSet
<1>2. ASSUME NEW e \in EventType, NEW d \in EventType
      PROVE  Before(e, d) <=> When(e) <= When(d)
  <2>1. /\ e.sec \in Nat /\ e.ms \in 0..(Second - 1)
        /\ d.sec \in Nat /\ d.ms \in 0..(Second - 1)
    BY EventFacts
  <2>2. (d.sec > e.sec \/ (d.sec = e.sec /\ d.ms >= e.ms))
        <=> d.sec * Second + d.ms >= e.sec * Second + e.ms
    BY <2>1, Constants, Lexicographic
  <2>3. Before(e, d) <=> (d.sec > e.sec \/ (d.sec = e.sec /\ d.ms >= e.ms))
    BY <2>1, Constants
  <2>4. When(e) \in Nat /\ When(d) \in Nat
    BY EventFacts
  <2> QED BY <2>2, <2>3, <2>4 DEF When
<1> HIDE DEF E, Before
<1> DEFINE K == {When(e) : e \in E}
<1>3. PICK e \in E : \A d \in E : When(e) <= When(d)
  <2>1. K \in SUBSET Nat /\ K # {}
    BY <1>1, EventFacts
  <2>2. PICK m \in K : \A n \in K : m <= n
    BY <2>1, LeastElement
  <2> QED BY <2>2
<1>4. \A d \in E : Before(e, d)
  BY <1>1, <1>2, <1>3
<1>5. Nearest \in E /\ \A d \in E : Before(Nearest, d)
  BY <1>4 DEF Nearest, E, Before
<1> QED BY <1>1, <1>2, <1>5 DEF E

-----------------------------------------------------------------------------
(* The inductive invariant of the waits.                                   *)

\* TypeOK without what the references and the locals are kept in.
WaitTypeOK ==
    /\ now \in Second..Horizon /\ skewed \in BOOLEAN /\ lastTime \in Nat
    /\ events \in Seq(EventType)
    /\ waiters \in Nat
    /\ queue \in Seq(All)
    /\ loop \in {"before", "top", "poll", "run", "left"} /\ left \in Nat
    /\ current \in All \union {None} /\ (current = None <=> loop # "run")
    /\ state \in [All -> {"NEW", "RUNNABLE", "WAITING", "BLOCKED", "TERMINATED"}]
    /\ pc \in [All -> {"unborn", "new", "run", "sleep", "wait", "waitLong", "delay", "check",
                       "period", "call", "fire", "done", "end"}]
    /\ due \in [All -> Nat]
    /\ waitQueue \in Seq(All)
    /\ delay \in [Timers -> Nat] /\ period \in [Timers -> Nat]
    /\ canceled \in [Timers -> BOOLEAN] /\ late \in [Timers -> 0..2]

(* A fiber's state says how its code stands, and a fiber is on the run     *)
(* queue once, when it could run and does not.                             *)
StatesFit ==
    \A f \in All :
        /\ pc[f] = "unborn" <=> state[f] = "NEW"
        /\ pc[f] = "end" <=> state[f] = "TERMINATED"
        /\ state[f] = "WAITING" => Sleeping(f)
        /\ state[f] = "BLOCKED" => pc[f] \in {"wait", "waitLong"}
        /\ f \in Fibers => pc[f] \in {"unborn", "run", "sleep", "wait", "waitLong", "end"}
        /\ f \in Timers => pc[f] # "run"

Queued ==
    /\ \A i \in 1..Len(queue) : state[queue[i]] = "RUNNABLE" /\ queue[i] # current
    /\ \A i, j \in 1..Len(queue) : queue[i] = queue[j] => i = j
    /\ current # None => state[current] = "RUNNABLE"

(* The clock and the times of the events; the last two conjuncts are OnTime. *)
Clocked ==
    /\ ~skewed => lastTime <= Sec(now)
    /\ \A i \in 1..Len(events) :
           ~skewed /\ events[i].live => When(events[i]) = due[events[i].fiber]
    /\ NeverEarly
    /\ loop = "poll" => \A i \in 1..Len(events) :
                            events[i].live => left <= Allowed(When(events[i]) - now)

(* One event for each wait with a timer.  The event of a fiber that was    *)
(* woken before its time is live until the fiber goes on, with "wait"; a   *)
(* fiber that was timed out may still be on the wait queue.                *)
EventsFit ==
    /\ \A i, j \in 1..Len(events) :
           events[i].live /\ events[j].live /\ events[i].fiber = events[j].fiber => i = j
    /\ \A i \in 1..Len(events) :
           events[i].live =>
               pc[events[i].fiber] = "wait"
               \/ (Sleeping(events[i].fiber) /\ Asleep(events[i].fiber))
    /\ \A f \in All : Timed(f) /\ Asleep(f) =>
           \E i \in 1..Len(events) : events[i].live /\ events[i].fiber = f
    /\ waiters = Cardinality({f \in All : Timed(f)})

WaitQueueFits ==
    /\ \A i \in 1..Len(waitQueue) :
           /\ pc[waitQueue[i]] \in {"wait", "waitLong"}
           /\ Asleep(waitQueue[i])
              \/ \A j \in 1..Len(events) : events[j].fiber = waitQueue[i] => ~events[j].live
    /\ \A i, j \in 1..Len(waitQueue) : waitQueue[i] = waitQueue[j] => i = j

(* What a timer may still do once it is canceled.                          *)
Canceling ==
    \A t \in Timers :
        /\ ~canceled[t] => late[t] = 0
        /\ pc[t] \in {"unborn", "new", "delay", "period", "call"} => late[t] = 0
        /\ period[t] = 0 => late[t] = 0 /\ pc[t] \notin {"period", "call"}
        /\ late[t] <= 1

WaitInv == WaitTypeOK /\ StatesFit /\ Queued /\ Clocked /\ EventsFit /\ WaitQueueFits /\ Canceling

-----------------------------------------------------------------------------
(* What processTimeEvents does to the list, the states and the run queue.  *)

LEMMA TypeFacts ==
    ASSUME WaitTypeOK
    PROVE  /\ now \in Nat /\ now >= Second /\ Sec(now) \in Nat /\ Sec(now) >= 1
           /\ DOMAIN events = 1..Len(events) /\ Len(events) \in Nat
           /\ \A i \in 1..Len(events) : events[i] \in EventType /\ events[i].fiber \in All
<1>1. now \in Nat /\ now >= Second
  BY Constants DEF WaitTypeOK
<1>2. /\ Sec(now) \in Nat /\ Ms(now) \in 0..(Second - 1)
      /\ now = Sec(now) * Second + Ms(now)
  BY <1>1, SecMs
<1>3. Sec(now) # 0
  <2>1. Sec(now) = 0 => Sec(now) * Second = 0
    BY Constants
  <2> QED BY <1>1, <1>2, <2>1, Constants
<1>4. events \in Seq(EventType)
  BY DEF WaitTypeOK
<1>5. \A e \in EventType : e.fiber \in All
  BY EventFacts
<1>6. /\ DOMAIN events = 1..Len(events) /\ Len(events) \in Nat
      /\ \A i \in 1..Len(events) : events[i] \in EventType
  BY <1>4
<1>7. Sec(now) >= 1
  BY <1>2, <1>3
<1> QED BY <1>1, <1>2, <1>5, <1>6, <1>7

LEMMA SkewedFacts ==
    ASSUME WaitTypeOK
    PROVE  /\ Skewed \in Seq(EventType) /\ Len(Skewed) = Len(events)
           /\ DOMAIN Skewed = 1..Len(events)
           /\ \A i \in 1..Len(events) :
                  /\ Skewed[i].live = events[i].live /\ Skewed[i].fiber = events[i].fiber
                  /\ ~IsDue(Skewed[i]) => Skewed[i] = events[i]
                  /\ lastTime <= Sec(now) => Skewed[i] = events[i]
<1>1. /\ Sec(now) \in Nat /\ Sec(now) >= 1 /\ lastTime \in Nat
      /\ DOMAIN events = 1..Len(events) /\ Len(events) \in Nat
      /\ \A i \in 1..Len(events) : events[i] \in EventType
  BY TypeFacts DEF WaitTypeOK
<1>2. Skewed = [i \in 1..Len(events) |->
                   IF Sec(now) < lastTime THEN [events[i] EXCEPT !.sec = 0] ELSE events[i]]
  BY <1>1 DEF Skewed
<1>3. ASSUME NEW i \in 1..Len(events)
      PROVE  /\ Skewed[i] \in EventType
             /\ Skewed[i].live = events[i].live /\ Skewed[i].fiber = events[i].fiber
             /\ ~IsDue(Skewed[i]) => Skewed[i] = events[i]
             /\ lastTime <= Sec(now) => Skewed[i] = events[i]
  <2>1. events[i] \in EventType
    BY <1>1
  <2>2. CASE Sec(now) < lastTime
    <3>1. Skewed[i] = [events[i] EXCEPT !.sec = 0]
      BY <1>2, <2>2
    <3>2. /\ Skewed[i] \in EventType /\ Skewed[i].sec = 0
          /\ Skewed[i].live = events[i].live /\ Skewed[i].fiber = events[i].fiber
      BY <2>1, <3>1 DEF EventType
    <3>3. IsDue(Skewed[i])
      BY <1>1, <3>2 DEF IsDue
    <3>4. ~(lastTime <= Sec(now))
      BY <1>1, <2>2
    <3> QED BY <3>2, <3>3, <3>4
  <2>3. CASE ~(Sec(now) < lastTime)
    BY <1>2, <2>1, <2>3
  <2> QED BY <2>2, <2>3
<1>4. Skewed \in [1..Len(events) -> EventType]
  BY <1>2, <1>3
<1>5. Skewed \in Seq(EventType) /\ Len(Skewed) = Len(events) /\ DOMAIN Skewed = 1..Len(events)
  BY <1>1, <1>2, <1>4
<1> QED BY <1>3, <1>5

\* The event now at position i was at o[i]; what was live stays on the list,
\* deleted if it has fired.
Passed(o, new) ==
    /\ o \in [1..Len(new) -> 1..Len(events)]
    /\ \A i, j \in 1..Len(new) : o[i] = o[j] => i = j
    /\ \A k \in 1..Len(events) : events[k].live => \E i \in 1..Len(new) : o[i] = k
    /\ \A i \in 1..Len(new) :
           /\ events[o[i]].live /\ new[i].fiber = events[o[i]].fiber
           /\ new[i].live => new[i] = events[o[i]]
           /\ ~new[i].live /\ lastTime <= Sec(now) => now >= When(events[o[i]])

FiredIn(new, f) == \E i \in 1..Len(new) : new[i].fiber = f /\ ~new[i].live

NewEvents ==
    [i \in DOMAIN Live(Skewed) |->
        IF IsDue(Live(Skewed)[i]) THEN [Live(Skewed)[i] EXCEPT !.live = FALSE]
                                  ELSE Live(Skewed)[i]]

LEMMA ProcessFacts ==
    ASSUME WaitTypeOK
    PROVE  /\ NewEvents \in Seq(EventType)
           /\ \E o : Passed(o, NewEvents)
           /\ \A f \in All : FiredFor(f) <=> FiredIn(NewEvents, f)
<1> DEFINE S == Skewed
           K == {i \in DOMAIN S : S[i].live}
           L == Picked(S, K)
           n == Cardinality(K)
           o == Order(K)
           new == NewEvents
<1>1. /\ S \in Seq(EventType) /\ Len(S) = Len(events) /\ DOMAIN S = 1..Len(events)
      /\ \A i \in 1..Len(events) :
             /\ S[i].live = events[i].live /\ S[i].fiber = events[i].fiber
             /\ ~IsDue(S[i]) => S[i] = events[i]
             /\ lastTime <= Sec(now) => S[i] = events[i]
  BY SkewedFacts
<1>2. L = Live(S)
  BY DEF Live
<1> HIDE DEF S
<1>3. K \in SUBSET (1..Len(S)) /\ K \in SUBSET (1..Len(events))
      /\ \A k \in K : events[k].live
  BY <1>1
<1>3a. \A k \in 1..Len(events) : events[k].live => k \in K
  BY <1>1
<1> HIDE DEF K
<1>4. /\ n \in Nat
      /\ L \in Seq(EventType) /\ Len(L) = n /\ DOMAIN L = 1..n
      /\ \A i \in 1..n : o[i] \in K /\ L[i] = S[o[i]]
      /\ \A i, j \in 1..n : o[i] = o[j] => i = j
      /\ \A k \in K : \E i \in 1..n : o[i] = k
  BY <1>1, <1>3, PickedFacts
<1> HIDE DEF L, n, o
<1>5. new = [i \in 1..n |-> IF IsDue(L[i]) THEN [L[i] EXCEPT !.live = FALSE] ELSE L[i]]
  BY <1>2, <1>4 DEF NewEvents, S
<1> HIDE DEF new
<1>6. \A i \in 1..n : L[i] \in EventType
  BY <1>4
<1>7. ASSUME NEW i \in 1..n
      PROVE  /\ new[i] \in EventType /\ new[i].fiber = L[i].fiber
             /\ new[i].live => ~IsDue(L[i]) /\ new[i] = L[i]
             /\ ~IsDue(L[i]) => new[i] = L[i]
             /\ IsDue(L[i]) => ~new[i].live
             /\ L[i].live /\ o[i] \in 1..Len(events) /\ events[o[i]].live
             /\ L[i].fiber = events[o[i]].fiber
  <2>1. L[i] \in EventType
    BY <1>6
  <2>2. new[i] = IF IsDue(L[i]) THEN [L[i] EXCEPT !.live = FALSE] ELSE L[i]
    BY <1>5
  <2>3. o[i] \in K /\ L[i] = S[o[i]]
    BY <1>4
  <2>4. o[i] \in 1..Len(events) /\ events[o[i]].live
    BY <1>3, <2>3
  <2>5. L[i].live /\ L[i].fiber = events[o[i]].fiber
    BY <1>1, <2>3, <2>4
  <2>6. [L[i] EXCEPT !.live = FALSE] \in EventType
        /\ [L[i] EXCEPT !.live = FALSE].fiber = L[i].fiber
        /\ ~[L[i] EXCEPT !.live = FALSE].live
    BY <2>1 DEF EventType
  <2> QED BY <2>1, <2>2, <2>4, <2>5, <2>6
<1>8. new \in Seq(EventType) /\ Len(new) = n
  <2>1. new \in [1..n -> EventType]
    BY <1>5, <1>7
  <2> QED BY <1>4, <1>5, <2>1
<1>9. Passed([i \in 1..n |-> o[i]], new)
  <2> DEFINE p == [i \in 1..n |-> o[i]]
  <2>1. p \in [1..Len(new) -> 1..Len(events)]
    BY <1>7, <1>8
  <2>2. \A i \in 1..n : p[i] = o[i]
    OBVIOUS
  <2>3. \A k \in 1..Len(events) : events[k].live => \E i \in 1..n : p[i] = k
    BY <1>3a, <1>4, <2>2
  <2>4. ASSUME NEW i \in 1..n
        PROVE  /\ new[i].live => new[i] = events[o[i]]
               /\ ~new[i].live /\ lastTime <= Sec(now) => now >= When(events[o[i]])
    <3>1. o[i] \in 1..Len(events) /\ L[i] = S[o[i]]
      BY <1>4, <1>7
    <3>2. new[i].live => new[i] = events[o[i]]
      BY <1>1, <1>7, <3>1
    <3>3. ASSUME ~new[i].live, lastTime <= Sec(now) PROVE now >= When(events[o[i]])
      <4>1. L[i] = events[o[i]] /\ IsDue(L[i])
        BY <1>1, <1>7, <3>1, <3>3
      <4>2. now \in Nat
        BY TypeFacts
      <4>3. IsDue(L[i]) <=> now >= When(L[i])
        BY <1>6, <4>2, IsDueFacts
      <4> QED BY <4>1, <4>3
    <3> QED BY <3>2, <3>3
  <2> HIDE DEF p
  <2>5. \A i, j \in 1..Len(new) : p[i] = p[j] => i = j
    BY <1>4, <1>8, <2>2
  <2>6. \A k \in 1..Len(events) : events[k].live => \E i \in 1..Len(new) : p[i] = k
    BY <1>8, <2>3
  <2>7. ASSUME NEW i \in 1..Len(new)
        PROVE  /\ events[p[i]].live /\ new[i].fiber = events[p[i]].fiber
               /\ new[i].live => new[i] = events[p[i]]
               /\ ~new[i].live /\ lastTime <= Sec(now) => now >= When(events[p[i]])
    <3>1. i \in 1..n /\ p[i] = o[i]
      BY <1>8, <2>2
    <3> QED BY <1>7, <2>4, <3>1
  <2>8. Passed(p, new)
    BY <2>1, <2>5, <2>6, <2>7 DEF Passed
  <2> QED BY <2>8 DEF p
<1>10. ASSUME NEW f \in All PROVE FiredFor(f) <=> FiredIn(new, f)
  <2>1. FiredFor(f) <=> \E i \in 1..n : L[i].fiber = f /\ IsDue(L[i])
    BY <1>2, <1>4 DEF FiredFor, Fired, ToSet, S
  <2>2. FiredIn(new, f) <=> \E i \in 1..n : L[i].fiber = f /\ IsDue(L[i])
    BY <1>7, <1>8 DEF FiredIn
  <2> QED BY <2>1, <2>2
<1> QED BY <1>8, <1>9, <1>10 DEF new

OneLiveEvent ==
    \A i, j \in 1..Len(events) :
        events[i].live /\ events[j].live /\ events[i].fiber = events[j].fiber => i = j

LEMMA WokenFacts ==
    ASSUME WaitTypeOK, OneLiveEvent
    PROVE  /\ Woken \in Seq(All) /\ Len(Woken) \in Nat
           /\ \A i \in 1..Len(Woken) :
                  Woken[i] \in All /\ Asleep(Woken[i]) /\ FiredFor(Woken[i])
           /\ \A i, j \in 1..Len(Woken) : Woken[i] = Woken[j] => i = j
<1> DEFINE L == Live(Skewed)
           new == NewEvents
           W == Wakes
           n == Cardinality(W)
           o == Order(W)
<1>1. L \in Seq(EventType) /\ DOMAIN L = 1..Len(L) /\ Len(L) \in Nat
  <2>1. Skewed \in Seq(EventType) /\ {i \in DOMAIN Skewed : Skewed[i].live} \in SUBSET (1..Len(Skewed))
    BY SkewedFacts
  <2> QED BY <2>1, PickedFacts DEF Live
<1>2. PICK p : Passed(p, new)
  BY ProcessFacts
<1>3. new \in Seq(EventType)
  BY ProcessFacts
<1>4. DOMAIN new = 1..Len(L)
  BY <1>1 DEF NewEvents
<1>5. Len(new) = Len(L)
  BY <1>1, <1>3, <1>4
<1>6. ASSUME NEW i \in 1..Len(L) PROVE new[i].fiber = L[i].fiber /\ L[i].fiber \in All
  <2>1. L[i] \in EventType
    BY <1>1
  <2>2. new[i] = IF IsDue(L[i]) THEN [L[i] EXCEPT !.live = FALSE] ELSE L[i]
    BY <1>1 DEF NewEvents
  <2>3. [L[i] EXCEPT !.live = FALSE].fiber = L[i].fiber /\ L[i].fiber \in All
    BY <2>1 DEF EventType
  <2> QED BY <2>2, <2>3
<1>7. \A i, j \in 1..Len(L) : L[i].fiber = L[j].fiber => i = j
  <2>1. ASSUME NEW i \in 1..Len(L), NEW j \in 1..Len(L), L[i].fiber = L[j].fiber
        PROVE  i = j
    <3>1. /\ p[i] \in 1..Len(events) /\ p[j] \in 1..Len(events)
          /\ events[p[i]].live /\ new[i].fiber = events[p[i]].fiber
          /\ events[p[j]].live /\ new[j].fiber = events[p[j]].fiber
      BY <1>2, <1>5 DEF Passed
    <3>2. p[i] = p[j]
      BY <1>6, <2>1, <3>1 DEF OneLiveEvent
    <3> QED BY <1>2, <1>5, <3>2 DEF Passed
  <2> QED BY <2>1
<1>8. W \in SUBSET (1..Len(L)) /\ \A i \in W : IsDue(L[i]) /\ Asleep(L[i].fiber)
  BY <1>1 DEF Wakes
<1> HIDE DEF L, W, new
<1>9. /\ n \in Nat /\ \A i \in 1..n : o[i] \in W /\ Picked(L, W)[i] = L[o[i]]
      /\ \A i, j \in 1..n : o[i] = o[j] => i = j
  BY <1>1, <1>8, PickedFacts
<1> HIDE DEF n, o
<1>10. Woken = [i \in 1..n |-> Picked(L, W)[i].fiber]
  BY DEF Woken, n, L, W
<1>11. ASSUME NEW i \in 1..n
       PROVE  /\ Woken[i] = L[o[i]].fiber /\ Woken[i] \in All /\ o[i] \in 1..Len(L)
              /\ Asleep(Woken[i]) /\ FiredFor(Woken[i])
  <2>1. Woken[i] = L[o[i]].fiber /\ o[i] \in W
    BY <1>9, <1>10
  <2>2. o[i] \in 1..Len(L) /\ IsDue(L[o[i]]) /\ Asleep(L[o[i]].fiber)
    BY <1>8, <2>1
  <2>3. L[o[i]] \in Fired
    BY <1>1, <2>2 DEF Fired, ToSet, L
  <2> QED BY <1>6, <2>1, <2>2, <2>3 DEF FiredFor
<1>12. Woken \in Seq(All) /\ Len(Woken) = n
  <2>1. Woken \in [1..n -> All]
    BY <1>10, <1>11
  <2> QED BY <1>9, <1>10, <2>1
<1>13. ASSUME NEW i \in 1..n, NEW j \in 1..n, Woken[i] = Woken[j] PROVE i = j
  <2>1. L[o[i]].fiber = L[o[j]].fiber /\ o[i] \in 1..Len(L) /\ o[j] \in 1..Len(L)
    BY <1>11, <1>13
  <2>2. o[i] = o[j]
    BY <1>7, <2>1
  <2> QED BY <1>9, <2>2
<1> QED BY <1>9, <1>11, <1>12, <1>13

LEMMA ProcessKeeps ==
    ASSUME WaitInv, processTimeEvents, loop' # "poll",
           UNCHANGED <<now, skewed, waiters, pc, due, waitQueue>>
    PROVE  /\ events' \in Seq(EventType) /\ lastTime' \in Nat
           /\ state' \in [All -> {"NEW", "RUNNABLE", "WAITING", "BLOCKED", "TERMINATED"}]
           /\ \A f \in All : state'[f] = IF FiredFor(f) /\ Asleep(f) THEN "RUNNABLE" ELSE state[f]
           /\ StatesFit' /\ Clocked' /\ WaitQueueFits' /\ EventsFit'
<1> USE DEF WaitInv
<1>1. PICK o : Passed(o, events')
  BY ProcessFacts DEF processTimeEvents, NewEvents
<1>2. /\ events' \in Seq(EventType)
      /\ \A f \in All : FiredFor(f) <=> FiredIn(events', f)
  BY ProcessFacts DEF processTimeEvents, NewEvents
<1>3. /\ Sec(now) \in Nat /\ Len(events) \in Nat
      /\ \A i \in 1..Len(events) : events[i] \in EventType /\ events[i].fiber \in All
  BY TypeFacts
<1>4. lastTime' = Sec(now)
  BY DEF processTimeEvents
<1>5. state' = [f \in All |-> IF FiredFor(f) /\ Asleep(f) THEN "RUNNABLE" ELSE state[f]]
  BY DEF processTimeEvents
<1>6. state' \in [All -> {"NEW", "RUNNABLE", "WAITING", "BLOCKED", "TERMINATED"}]
  BY <1>5 DEF WaitTypeOK
<1>7. \A f \in All : state'[f] = IF FiredFor(f) /\ Asleep(f) THEN "RUNNABLE" ELSE state[f]
  BY <1>5
<1>8. ASSUME NEW i \in 1..Len(events')
      PROVE  /\ o[i] \in 1..Len(events) /\ events[o[i]].live
             /\ events'[i].fiber = events[o[i]].fiber /\ events'[i].fiber \in All
             /\ events'[i].live => events'[i] = events[o[i]]
             /\ ~events'[i].live /\ lastTime <= Sec(now) => now >= When(events[o[i]])
  BY <1>1, <1>3 DEF Passed
<1>9. StatesFit'
  <2>1. ASSUME NEW f \in All
        PROVE  /\ state[f] \in {"NEW", "TERMINATED"} <=> state'[f] \in {"NEW", "TERMINATED"}
               /\ state'[f] \in {"NEW", "TERMINATED", "WAITING", "BLOCKED"} => state'[f] = state[f]
    BY <1>7 DEF Asleep
  <2>2. pc' = pc
    OBVIOUS
  <2> QED BY <2>1, <2>2 DEF StatesFit, Sleeping
\* Who wakes up has no live event any more, who does not keeps it.
<1>10. ASSUME NEW f \in All, FiredFor(f), NEW i \in 1..Len(events'), events'[i].fiber = f
       PROVE  ~events'[i].live
  <2>1. PICK j \in 1..Len(events') : events'[j].fiber = f /\ ~events'[j].live
    BY <1>2, <1>10 DEF FiredIn
  <2>2. OneLiveEvent
    BY DEF EventsFit, OneLiveEvent
  <2> HIDE DEF WaitInv
  <2>3. /\ o[i] \in 1..Len(events) /\ events[o[i]].live
        /\ o[j] \in 1..Len(events) /\ events[o[j]].live
        /\ events[o[i]].fiber = events[o[j]].fiber
    BY <1>8, <1>10, <2>1
  <2>4. o[i] = o[j]
    BY <2>2, <2>3 DEF OneLiveEvent
  <2> QED BY <1>1, <2>1, <2>4 DEF Passed
<1>11. ASSUME NEW f \in All, ~FiredFor(f), NEW k \in 1..Len(events),
              events[k].live, events[k].fiber = f
       PROVE  \E i \in 1..Len(events') : events'[i].live /\ events'[i].fiber = f
  <2>1. PICK i \in 1..Len(events') : o[i] = k
    BY <1>1, <1>11 DEF Passed
  <2>2. events'[i].fiber = f
    BY <1>8, <1>11, <2>1
  <2>3. events'[i].live
    BY <1>2, <1>11, <2>2 DEF FiredIn
  <2> QED BY <2>2, <2>3
<1>12. Clocked'
  <2>1. ~skewed' => lastTime' <= Sec(now)'
    BY <1>3, <1>4 DEF Sec
  <2>2. ASSUME NEW i \in 1..Len(events'), ~skewed', events'[i].live
        PROVE  events'[i].sec * Second + events'[i].ms = due'[events'[i].fiber]
    BY <1>8, <2>2 DEF Clocked, When
  <2>3. NeverEarly'
    <3>1. ASSUME NEW f \in All, Sleeping(f), state'[f] = "RUNNABLE", ~skewed
          PROVE  now >= due[f]
      <4>1. CASE state[f] = "RUNNABLE"
        BY <3>1, <4>1 DEF Clocked, NeverEarly
      <4>2. CASE state[f] # "RUNNABLE"
        <5>1. FiredFor(f)
          BY <1>7, <3>1, <4>2
        <5>2. PICK i \in 1..Len(events') : events'[i].fiber = f /\ ~events'[i].live
          BY <1>2, <5>1 DEF FiredIn
        <5>3. now >= When(events[o[i]])
          BY <1>8, <3>1, <5>2 DEF Clocked
        <5>4. When(events[o[i]]) = due[f]
          BY <1>8, <3>1, <5>2 DEF Clocked
        <5> QED BY <5>3, <5>4
      <4> QED BY <4>1, <4>2
    <3> QED BY <3>1 DEF NeverEarly, Sleeping
  <2>4. loop' # "poll"
    OBVIOUS
  <2> QED BY <2>1, <2>2, <2>3, <2>4 DEF Clocked, When
<1>13. WaitQueueFits'
  <2>1. ASSUME NEW i \in 1..Len(waitQueue)
        PROVE  \/ Asleep(waitQueue[i])'
               \/ \A j \in 1..Len(events') : events'[j].fiber = waitQueue[i] => ~events'[j].live
    <3>1. waitQueue[i] \in All
      BY DEF WaitTypeOK
    <3>2. CASE FiredFor(waitQueue[i])
      BY <1>10, <3>1, <3>2
    <3>3. CASE ~FiredFor(waitQueue[i]) /\ Asleep(waitQueue[i])
      BY <1>7, <3>1, <3>3 DEF Asleep
    <3>4. CASE ~FiredFor(waitQueue[i]) /\ ~Asleep(waitQueue[i])
      <4>1. \A k \in 1..Len(events) : events[k].fiber = waitQueue[i] => ~events[k].live
        BY <3>4 DEF WaitQueueFits
      <4> QED BY <1>8, <4>1
    <3> QED BY <3>2, <3>3, <3>4
  <2> QED BY <2>1 DEF WaitQueueFits
<1>14. EventsFit'
  <2>1. \A i, j \in 1..Len(events') :
            events'[i].live /\ events'[j].live /\ events'[i].fiber = events'[j].fiber => i = j
    <3>1. ASSUME NEW i \in 1..Len(events'), NEW j \in 1..Len(events'),
                 events'[i].fiber = events'[j].fiber
          PROVE  i = j
      <4>1. OneLiveEvent
        BY DEF EventsFit, OneLiveEvent
      <4> HIDE DEF WaitInv
      <4>2. /\ o[i] \in 1..Len(events) /\ events[o[i]].live
            /\ o[j] \in 1..Len(events) /\ events[o[j]].live
            /\ events[o[i]].fiber = events[o[j]].fiber
        BY <1>8, <3>1
      <4>3. o[i] = o[j]
        BY <4>1, <4>2 DEF OneLiveEvent
      <4> QED BY <1>1, <4>3 DEF Passed
    <3> QED BY <3>1
  <2>2. ASSUME NEW i \in 1..Len(events'), events'[i].live
        PROVE  \/ pc'[events'[i].fiber] = "wait"
               \/ /\ pc'[events'[i].fiber] \in {"sleep", "delay", "period"}
                  /\ state'[events'[i].fiber] \in {"WAITING", "BLOCKED"}
    <3> DEFINE f == events'[i].fiber
    <3>1. ~FiredFor(f) /\ f \in All
      BY <1>8, <1>10, <2>2
    <3>2. pc[f] = "wait" \/ (Sleeping(f) /\ Asleep(f))
      BY <1>8 DEF EventsFit
    <3>3. state'[f] = state[f]
      BY <1>7, <3>1
    <3> HIDE DEF f
    <3>4. pc'[f] = "wait" \/ (pc'[f] \in {"sleep", "delay", "period"} /\ state'[f] \in {"WAITING", "BLOCKED"})
      BY <3>2, <3>3 DEF Sleeping, Asleep
    <3> QED BY <3>4 DEF f
  <2>4. ASSUME NEW f \in All, Timed(f), state'[f] \in {"WAITING", "BLOCKED"}
        PROVE  \E i \in 1..Len(events') : events'[i].live /\ events'[i].fiber = f
    <3>1. ~FiredFor(f) /\ Asleep(f)
      BY <1>7, <2>4 DEF Asleep
    <3>2. PICK k \in 1..Len(events) : events[k].live /\ events[k].fiber = f
      BY <2>4, <3>1 DEF EventsFit
    <3> QED BY <1>11, <3>1, <3>2
  <2>5. waiters' = Cardinality({f \in All : Timed(f)'})
    BY DEF EventsFit, Timed
  <2>6. \A f \in All : Timed(f)' /\ Asleep(f)' =>
            \E i \in 1..Len(events') : events'[i].live /\ events'[i].fiber = f
    BY <2>4 DEF Timed, Asleep
  <2>7. \A i \in 1..Len(events') :
            events'[i].live =>
                \/ pc'[events'[i].fiber] = "wait"
                \/ /\ pc'[events'[i].fiber] \in {"sleep", "delay", "period"}
                   /\ state'[events'[i].fiber] \in {"WAITING", "BLOCKED"}
    BY <2>2
  <2> QED BY <2>1, <2>5, <2>6, <2>7 DEF EventsFit, Sleeping, Asleep
<1> QED BY <1>2, <1>3, <1>4, <1>6, <1>7, <1>9, <1>12, <1>13, <1>14

-----------------------------------------------------------------------------
(* The loop and the clock.                                                 *)

LEMMA TailFacts ==
    ASSUME NEW S, NEW s \in Seq(S), s # <<>>
    PROVE  /\ Head(s) \in S /\ Head(s) = s[1] /\ Len(s) \in Nat /\ Len(s) >= 1
           /\ Tail(s) \in Seq(S) /\ Len(Tail(s)) = Len(s) - 1
           /\ \A i \in 1..Len(Tail(s)) : i + 1 \in 1..Len(s) /\ i + 1 # 1 /\ Tail(s)[i] = s[i + 1]
OBVIOUS

LEMMA ConcatFacts ==
    ASSUME NEW S, NEW s \in Seq(S), NEW r \in Seq(S)
    PROVE  /\ s \o r \in Seq(S) /\ Len(s) \in Nat /\ Len(r) \in Nat
           /\ Len(s \o r) = Len(s) + Len(r)
           /\ \A i \in 1..Len(s) : (s \o r)[i] = s[i]
           /\ \A i \in 1..(Len(s) + Len(r)) :
                  i \notin 1..Len(s) =>
                      i - Len(s) \in 1..Len(r) /\ (s \o r)[i] = r[i - Len(s)]
OBVIOUS

\* Two lists without doubles and without common elements, after each other.
LEMMA ConcatOnce ==
    ASSUME NEW S, NEW s \in Seq(S), NEW r \in Seq(S),
           \A i, j \in 1..Len(s) : s[i] = s[j] => i = j,
           \A i, j \in 1..Len(r) : r[i] = r[j] => i = j,
           \A i \in 1..Len(s), j \in 1..Len(r) : s[i] # r[j]
    PROVE  \A i, j \in 1..Len(s \o r) : (s \o r)[i] = (s \o r)[j] => i = j
<1>1. /\ Len(s) \in Nat /\ Len(r) \in Nat /\ Len(s \o r) = Len(s) + Len(r)
      /\ \A i \in 1..Len(s) : (s \o r)[i] = s[i]
      /\ \A i \in 1..(Len(s) + Len(r)) :
             i \notin 1..Len(s) =>
                 i - Len(s) \in 1..Len(r) /\ (s \o r)[i] = r[i - Len(s)]
  BY ConcatFacts
<1>2. ASSUME NEW i \in 1..(Len(s) + Len(r)), NEW j \in 1..(Len(s) + Len(r)),
             (s \o r)[i] = (s \o r)[j]
      PROVE  i = j
  <2>1. CASE i \in 1..Len(s) /\ j \in 1..Len(s)
    BY <1>1, <1>2, <2>1
  <2>2. CASE i \notin 1..Len(s) /\ j \notin 1..Len(s)
    <3>1. i - Len(s) = j - Len(s)
      BY <1>1, <1>2, <2>2
    <3> QED BY <1>1, <3>1
  <2>3. CASE i \in 1..Len(s) /\ j \notin 1..Len(s)
    BY <1>1, <1>2, <2>3
  <2>4. CASE i \notin 1..Len(s) /\ j \in 1..Len(s)
    BY <1>1, <1>2, <2>4
  <2> QED BY <2>1, <2>2, <2>3, <2>4
<1> QED BY <1>1, <1>2

\* The members of a list after another are members of one of the two.
LEMMA ConcatMembers ==
    ASSUME NEW S, NEW s \in Seq(S), NEW r \in Seq(S), NEW V,
           \A i \in 1..Len(s) : s[i] \in V, \A i \in 1..Len(r) : r[i] \in V
    PROVE  \A i \in 1..Len(s \o r) : (s \o r)[i] \in V
<1>1. /\ Len(s) \in Nat /\ Len(r) \in Nat /\ Len(s \o r) = Len(s) + Len(r)
      /\ \A i \in 1..Len(s) : (s \o r)[i] = s[i]
      /\ \A i \in 1..(Len(s) + Len(r)) :
             i \notin 1..Len(s) =>
                 i - Len(s) \in 1..Len(r) /\ (s \o r)[i] = r[i - Len(s)]
  BY ConcatFacts
<1> QED BY <1>1

LEMMA WaitersPositive ==
    ASSUME WaitInv, NEW f \in All, Timed(f)
    PROVE  waiters > 0
<1> DEFINE T == {g \in All : Timed(g)}
<1>1. IsFiniteSet(T) /\ T # {}
  BY Constants, FS_Subset
<1>2. Cardinality(T) \in Nat /\ Cardinality(T) # 0
  BY <1>1, FS_CardinalityType, FS_EmptySet
<1> QED BY <1>2 DEF WaitInv, EventsFit

LEMMA DispatchKeeps ==
    ASSUME WaitInv, Dispatch PROVE WaitInv'
<1> USE DEF WaitInv
<1> DEFINE f == Head(queue)
<1>1. /\ f \in All /\ f = queue[1] /\ Tail(queue) \in Seq(All) /\ Len(queue) \in Nat
      /\ Len(queue) >= 1 /\ Len(Tail(queue)) = Len(queue) - 1
      /\ \A i \in 1..Len(Tail(queue)) :
             i + 1 \in 1..Len(queue) /\ i + 1 # 1 /\ Tail(queue)[i] = queue[i + 1]
  BY TailFacts DEF Dispatch, WaitTypeOK
<1>2. /\ current' = f /\ loop' = "run" /\ f # None
      /\ UNCHANGED <<now, skewed, waiters, left, pc, due, waitQueue, timerVars>>
  BY <1>1, Constants DEF Dispatch, waitVars
<1>3. state[f] = "RUNNABLE"
  BY <1>1 DEF Queued
<1>4. \A i \in 1..Len(Tail(queue)) : state[Tail(queue)[i]] = "RUNNABLE" /\ Tail(queue)[i] # f
  BY <1>1 DEF Queued
<1>5. \A i, j \in 1..Len(Tail(queue)) : Tail(queue)[i] = Tail(queue)[j] => i = j
  BY <1>1 DEF Queued
<1> HIDE DEF f
<1>6. Canceling'
  BY <1>2 DEF Canceling, timerVars
<1>7. CASE waiters > 0 /\ processTimeEvents /\ queue' = Tail(queue) \o Woken
  <2>1. /\ events' \in Seq(EventType) /\ lastTime' \in Nat
        /\ state' \in [All -> {"NEW", "RUNNABLE", "WAITING", "BLOCKED", "TERMINATED"}]
        /\ \A g \in All : state'[g] = IF FiredFor(g) /\ Asleep(g) THEN "RUNNABLE" ELSE state[g]
        /\ StatesFit' /\ Clocked' /\ WaitQueueFits' /\ EventsFit'
    <3>1. loop' # "poll"
      BY <1>2
    <3> QED BY <1>2, <1>7, <3>1, ProcessKeeps
  <2>3. /\ Woken \in Seq(All)
        /\ \A i \in 1..Len(Woken) : Woken[i] \in All /\ Asleep(Woken[i]) /\ FiredFor(Woken[i])
        /\ \A i, j \in 1..Len(Woken) : Woken[i] = Woken[j] => i = j
    BY WokenFacts DEF OneLiveEvent, EventsFit
  <2>4. queue' \in Seq(All)
    BY <1>1, <1>7, <2>3
  <2>5. \A i, j \in 1..Len(queue') : queue'[i] = queue'[j] => i = j
    <3>1. \A i \in 1..Len(Tail(queue)), j \in 1..Len(Woken) : Tail(queue)[i] # Woken[j]
      BY <1>4, <2>3 DEF Asleep
    <3>2. \A i, j \in 1..Len(Tail(queue) \o Woken) :
              (Tail(queue) \o Woken)[i] = (Tail(queue) \o Woken)[j] => i = j
      <4>1. Tail(queue) \in Seq(All) /\ Woken \in Seq(All)
        BY <1>1, <2>3
      <4>2. \A i, j \in 1..Len(Woken) : Woken[i] = Woken[j] => i = j
        BY <2>3
      <4> HIDE DEF WaitInv
      <4> QED BY <1>5, <3>1, <4>1, <4>2, ConcatOnce
    <3> QED BY <1>7, <3>2
  <2>6. \A i \in 1..Len(queue') : state'[queue'[i]] = "RUNNABLE" /\ queue'[i] # current'
    <3> DEFINE V == {g \in All : state'[g] = "RUNNABLE" /\ g # f}
    <3>1. \A i \in 1..Len(Tail(queue)) : Tail(queue)[i] \in V
      <4>1. ASSUME NEW i \in 1..Len(Tail(queue)) PROVE Tail(queue)[i] \in V
        <5>1. PICK g \in All : g = Tail(queue)[i]
          BY <1>1
        <5>2. state[g] = "RUNNABLE" /\ g # f
          BY <1>4, <5>1
        <5>3. state'[g] = "RUNNABLE"
          BY <2>1, <5>2
        <5> QED BY <5>1, <5>2, <5>3
      <4> QED BY <4>1
    <3>2. \A i \in 1..Len(Woken) : Woken[i] \in V
      BY <1>3, <2>1, <2>3 DEF Asleep
    <3> HIDE DEF V
    <3>3. \A i \in 1..Len(queue') : queue'[i] \in V
      BY <1>1, <1>7, <2>3, <3>1, <3>2, ConcatMembers
    <3> QED BY <1>2, <3>3 DEF V
  <2>7. Queued'
    BY <1>1, <1>2, <1>3, <2>1, <2>5, <2>6 DEF Queued
  <2>8. WaitTypeOK'
    BY <1>1, <1>2, <2>1, <2>4 DEF WaitTypeOK, timerVars
  <2> QED BY <1>6, <2>1, <2>7, <2>8
<1>8. CASE /\ waiters = 0 /\ queue' = Tail(queue)
           /\ UNCHANGED <<events, lastTime, state>>
  <2>1. WaitTypeOK'
    BY <1>1, <1>2, <1>8 DEF WaitTypeOK, timerVars
  <2>2. StatesFit' /\ WaitQueueFits'
    BY <1>2, <1>8 DEF StatesFit, WaitQueueFits, Sleeping, Asleep
  <2>3. Queued'
    BY <1>1, <1>2, <1>3, <1>4, <1>5, <1>8 DEF Queued
  <2>4. Clocked'
    BY <1>2, <1>8 DEF Clocked, NeverEarly, Sleeping, Sec, When
  <2>5. EventsFit'
    BY <1>2, <1>8 DEF EventsFit, Timed, Sleeping, Asleep
  <2> QED BY <1>6, <2>1, <2>2, <2>3, <2>4, <2>5
<1> QED BY <1>7, <1>8 DEF Dispatch

LEMMA PollReturnKeeps ==
    ASSUME WaitInv, PollReturn PROVE WaitInv'
<1> USE DEF WaitInv
<1>1. /\ current = None /\ current' = None /\ loop' = "top"
      /\ UNCHANGED <<now, skewed, waiters, left, pc, due, waitQueue, timerVars>>
  BY DEF PollReturn, WaitTypeOK, waitVars
<1>2. /\ processTimeEvents /\ queue' = queue \o Woken /\ loop' # "poll"
  BY <1>1 DEF PollReturn
<1>3. /\ events' \in Seq(EventType) /\ lastTime' \in Nat
      /\ state' \in [All -> {"NEW", "RUNNABLE", "WAITING", "BLOCKED", "TERMINATED"}]
      /\ \A g \in All : state'[g] = IF FiredFor(g) /\ Asleep(g) THEN "RUNNABLE" ELSE state[g]
      /\ StatesFit' /\ Clocked' /\ WaitQueueFits' /\ EventsFit'
  BY <1>1, <1>2, ProcessKeeps
<1>5. /\ Woken \in Seq(All)
      /\ \A i \in 1..Len(Woken) : Woken[i] \in All /\ Asleep(Woken[i]) /\ FiredFor(Woken[i])
      /\ \A i, j \in 1..Len(Woken) : Woken[i] = Woken[j] => i = j
  BY WokenFacts DEF OneLiveEvent, EventsFit
<1>6. queue \in Seq(All) /\ \A i \in 1..Len(queue) : queue[i] \in All
  BY DEF WaitTypeOK
<1>7. queue' \in Seq(All)
  BY <1>2, <1>5, <1>6
<1>8. \A i, j \in 1..Len(queue') : queue'[i] = queue'[j] => i = j
  <2>1. \A i \in 1..Len(queue), j \in 1..Len(Woken) : queue[i] # Woken[j]
    BY <1>5 DEF Asleep, Queued
  <2>2. \A i, j \in 1..Len(queue) : queue[i] = queue[j] => i = j
    BY DEF Queued
  <2> QED BY <1>2, <1>5, <1>6, <2>1, <2>2, ConcatOnce
<1>9. \A i \in 1..Len(queue') : state'[queue'[i]] = "RUNNABLE" /\ queue'[i] # current'
  <2> DEFINE V == {g \in All : state'[g] = "RUNNABLE"}
  <2>1. \A i \in 1..Len(queue) : queue[i] \in V
    BY <1>3, <1>6 DEF Queued
  <2>2. \A i \in 1..Len(Woken) : Woken[i] \in V
    BY <1>3, <1>5
  <2> HIDE DEF V
  <2>3. \A i \in 1..Len(queue') : queue'[i] \in V
    BY <1>2, <1>5, <1>6, <2>1, <2>2, ConcatMembers
  <2> QED BY <1>1, <2>3, Constants DEF V
<1>10. Queued'
  BY <1>1, <1>8, <1>9 DEF Queued
<1>11. WaitTypeOK'
  BY <1>1, <1>3, <1>7 DEF WaitTypeOK, timerVars
<1>12. Canceling'
  BY <1>1 DEF Canceling, timerVars
<1> QED BY <1>3, <1>10, <1>11, <1>12

LEMMA IdleKeeps ==
    ASSUME WaitInv, Idle PROVE WaitInv'
<1> USE DEF WaitInv
<1>1. /\ loop = "top" /\ loop' = "poll" /\ left' = PollTimeout /\ current = None
      /\ UNCHANGED <<now, skewed, lastTime, events, waiters, queue, current, state, pc, due,
                     waitQueue, timerVars>>
  BY DEF Idle, WaitTypeOK, clockVars, waitVars
<1>2. /\ now \in Nat /\ Len(events) \in Nat /\ events \in Seq(EventType)
      /\ \A i \in 1..Len(events) : events[i] \in EventType
  BY TypeFacts DEF WaitTypeOK
<1>3. left' \in Nat /\ \A i \in 1..Len(events) : left' <= Allowed(When(events[i]) - now)
  <2>1. CASE events = <<>>
    <3>1. left' = IdleTimeout /\ Len(events) = 0
      BY <1>1, <2>1 DEF PollTimeout
    <3> QED BY <3>1, Constants
  <2>2. CASE events # <<>>
    <3>1. left' = TimeTo(Nearest)
      BY <1>1, <2>2 DEF PollTimeout
    <3>2. /\ Nearest \in EventType
          /\ \A d \in ToSet(events) : When(Nearest) <= When(d)
      BY <1>2, <2>2, NearestFacts
    <3>3. TimeTo(Nearest) \in Nat /\ TimeTo(Nearest) <= Allowed(When(Nearest) - now)
      BY <1>2, <3>2, TimeToFacts
    <3>4. ASSUME NEW i \in 1..Len(events)
          PROVE  TimeTo(Nearest) <= Allowed(When(events[i]) - now)
      <4>1. events[i] \in ToSet(events)
        BY <1>2 DEF ToSet
      <4>2. When(Nearest) <= When(events[i]) /\ When(Nearest) \in Nat /\ When(events[i]) \in Nat
        BY <1>2, <3>2, <4>1, EventFacts
      <4> DEFINE x == When(Nearest) - now
                 y == When(events[i]) - now
      <4>4. x \in Int /\ y \in Int /\ x <= y
        BY <1>2, <4>2
      <4> HIDE DEF x, y
      <4>5. Allowed(x) <= Allowed(y) /\ Allowed(x) \in Int /\ Allowed(y) \in Int
        BY <4>4, AllowedMonotone
      <4>6. TimeTo(Nearest) <= Allowed(x)
        BY <3>3 DEF x
      <4>7. TimeTo(Nearest) <= Allowed(y)
        BY <3>3, <4>5, <4>6
      <4> QED BY <4>7 DEF y
    <3> QED BY <3>1, <3>3, <3>4
  <2> QED BY <2>1, <2>2
<1>4. WaitTypeOK'
  BY <1>1, <1>3 DEF WaitTypeOK, timerVars
<1>5. StatesFit' /\ WaitQueueFits' /\ Queued' /\ EventsFit'
  BY <1>1 DEF StatesFit, WaitQueueFits, Queued, EventsFit, Timed, Sleeping, Asleep
<1>6. Clocked'
  BY <1>1, <1>3 DEF Clocked, NeverEarly, Sleeping, Sec, When, Allowed
<1>7. Canceling'
  BY <1>1 DEF Canceling, timerVars
<1> QED BY <1>4, <1>5, <1>6, <1>7

LEMMA JoinLeaveKeeps ==
    ASSUME WaitInv, Join \/ Leave PROVE WaitInv'
<1> USE DEF WaitInv
<1>1. /\ loop \in {"before", "top"} /\ loop' \in {"top", "left"}
      /\ UNCHANGED <<now, skewed, lastTime, events, waiters, queue, left, current, state, pc,
                     due, waitQueue, timerVars>>
  BY DEF Join, Leave, clockVars, waitVars
<1>2. WaitTypeOK'
  BY <1>1 DEF WaitTypeOK, timerVars
<1>3. StatesFit' /\ WaitQueueFits' /\ Queued' /\ EventsFit'
  BY <1>1 DEF StatesFit, WaitQueueFits, Queued, EventsFit, Timed, Sleeping, Asleep
<1>4. Clocked'
  BY <1>1 DEF Clocked, NeverEarly, Sleeping, Sec, When
<1>5. Canceling'
  BY <1>1 DEF Canceling, timerVars
<1> QED BY <1>2, <1>3, <1>4, <1>5

LEMMA SecMonotone ==
    ASSUME NEW t \in Nat PROVE Sec(t) <= Sec(t + 1)
<1>1. /\ Sec(t) \in Nat /\ Ms(t) \in 0..(Second - 1) /\ t = Sec(t) * Second + Ms(t)
  BY SecMs
<1>2. /\ Sec(t + 1) \in Nat /\ Ms(t + 1) \in 0..(Second - 1)
      /\ t + 1 = Sec(t + 1) * Second + Ms(t + 1)
  BY SecMs
<1>3. (Sec(t + 1) > Sec(t) \/ (Sec(t + 1) = Sec(t) /\ Ms(t + 1) >= Ms(t)))
      <=> Sec(t + 1) * Second + Ms(t + 1) >= Sec(t) * Second + Ms(t)
  BY <1>1, <1>2, Constants, Lexicographic
<1>4. Sec(t + 1) > Sec(t) \/ Sec(t + 1) = Sec(t)
  BY <1>1, <1>2, <1>3
<1> QED BY <1>1, <1>2, <1>4

\* What a step of the clock does not touch.
LEMMA ClockFrame ==
    ASSUME WaitInv, now' \in Second..Horizon, skewed' \in BOOLEAN, left' \in Nat, Clocked',
           UNCHANGED <<lastTime, events, waiters, queue, loop, current, state, pc, due,
                       waitQueue, timerVars>>
    PROVE  WaitInv'
<1> USE DEF WaitInv
<1>1. WaitTypeOK'
  BY DEF WaitTypeOK, timerVars
<1>2. StatesFit' /\ WaitQueueFits' /\ Queued' /\ EventsFit'
  BY DEF StatesFit, WaitQueueFits, Queued, EventsFit, Timed, Sleeping, Asleep
<1>3. Canceling'
  BY DEF Canceling, timerVars
<1> QED BY <1>1, <1>2, <1>3

LEMMA TickKeeps ==
    ASSUME WaitInv, Tick PROVE WaitInv'
<1> USE DEF WaitInv
<1>1. /\ now' = (IF now < Horizon THEN now + 1 ELSE now)
      /\ left' = (IF left > 0 THEN left - 1 ELSE 0)
      /\ skewed' = skewed
      /\ UNCHANGED <<lastTime, events, waiters, queue, loop, current, state, pc, due,
                     waitQueue, timerVars>>
  BY DEF Tick, waitVars
<1>2. now \in Nat /\ now \in Second..Horizon /\ left \in Nat /\ skewed \in BOOLEAN
      /\ lastTime \in Nat /\ Sec(now) \in Nat
      /\ \A i \in 1..Len(events) : events[i] \in EventType /\ events[i].fiber \in All
  BY TypeFacts DEF WaitTypeOK
<1>3. now' \in Second..Horizon /\ now' \in Nat /\ left' \in Nat /\ now <= now'
      /\ (now' = now + 1 \/ now' = now)
  BY <1>1, <1>2, Constants
<1>4. Clocked'
  <2>1. ~skewed' => lastTime' <= Sec(now)'
    <3>1. now' \div Second \in Nat /\ now \div Second <= now' \div Second
      <4>1. CASE now' = now
        BY <1>2, <4>1 DEF Sec
      <4>2. CASE now' = now + 1
        <5>1. Sec(now) <= Sec(now + 1) /\ Sec(now + 1) \in Nat
          BY <1>2, SecMonotone, SecMs
        <5> QED BY <4>2, <5>1 DEF Sec
      <4> QED BY <1>3, <4>1, <4>2
    <3>2. ~skewed => lastTime <= now \div Second
      BY DEF Clocked, Sec
    <3> QED BY <1>1, <1>2, <3>1, <3>2 DEF Sec
  <2>2. NeverEarly'
    BY <1>1, <1>2, <1>3 DEF Clocked, NeverEarly, Sleeping, WaitTypeOK
  <2>3. ASSUME loop = "poll", NEW i \in 1..Len(events), events[i].live
        PROVE  left' <= Allowed(When(events[i]) - now')
    <3>1. left <= Allowed(When(events[i]) - now) /\ When(events[i]) \in Nat
      BY <1>2, <2>3, EventFacts DEF Clocked
    <3> DEFINE w == When(events[i])
    <3> HIDE DEF w
    <3>2. left <= Allowed(w - now) /\ w \in Nat
      BY <3>1 DEF w
    <3>3. left' <= Allowed(w - now')
      <4>1. \A x, l, s \in Int :
                /\ s > 0 /\ l <= (IF x >= s THEN x ELSE s - 1)
                => /\ l - 1 <= (IF x - 1 >= s THEN x - 1 ELSE s - 1)
                   /\ l - 1 <= (IF x >= s THEN x ELSE s - 1)
                   /\ 0 <= (IF x >= s THEN x ELSE s - 1)
                   /\ 0 <= (IF x - 1 >= s THEN x - 1 ELSE s - 1)
        OBVIOUS
      <4>2. /\ left - 1 <= Allowed((w - now) - 1) /\ left - 1 <= Allowed(w - now)
            /\ 0 <= Allowed(w - now) /\ 0 <= Allowed((w - now) - 1)
        BY <1>2, <3>2, <4>1, Constants DEF Allowed
      <4>3. CASE now' = now + 1
        <5>1. w - now' = (w - now) - 1
          BY <1>2, <3>2, <4>3
        <5> QED BY <1>1, <4>2, <5>1
      <4>4. CASE now' = now
        BY <1>1, <4>2, <4>4
      <4> QED BY <1>3, <4>3, <4>4
    <3> QED BY <3>3 DEF w
  <2>4. \A i \in 1..Len(events) :
            ~skewed /\ events[i].live => When(events[i]) = due[events[i].fiber]
    BY DEF Clocked
  <2> QED BY <1>1, <2>1, <2>2, <2>3, <2>4 DEF Clocked, When, Allowed
<1> QED BY <1>1, <1>2, <1>3, <1>4, ClockFrame

LEMMA SetBackKeeps ==
    ASSUME WaitInv, SetBack PROVE WaitInv'
<1> USE DEF WaitInv
<1>1. /\ skewed' = TRUE /\ now' \in Second..(now - 1)
      /\ UNCHANGED <<lastTime, events, waiters, queue, loop, left, current, state, pc, due,
                     waitQueue, timerVars>>
  BY DEF SetBack, waitVars
<1>2. now \in Nat /\ now \in Second..Horizon /\ left \in Nat
      /\ \A i \in 1..Len(events) : events[i] \in EventType
  BY TypeFacts DEF WaitTypeOK
<1>3. now' \in Second..Horizon /\ now' \in Nat /\ now' <= now
  BY <1>1, <1>2, Constants
<1>4. Clocked'
  <2>1. ASSUME loop = "poll", NEW i \in 1..Len(events), events[i].live
        PROVE  left' <= Allowed(When(events[i]) - now')
    <3>1. left <= Allowed(When(events[i]) - now) /\ When(events[i]) \in Nat
      BY <1>2, <2>1, EventFacts DEF Clocked
    <3> DEFINE w == When(events[i])
    <3> HIDE DEF w
    <3>2. left <= Allowed(w - now) /\ w \in Nat
      BY <3>1 DEF w
    <3>3. w - now <= w - now' /\ w - now \in Int /\ w - now' \in Int
      <4>1. PICK a \in Nat, b \in Nat, c \in Nat : a = now /\ b = now' /\ c = w /\ b <= a
        BY <1>2, <1>3, <3>2
      <4>2. b <= a
        BY <4>1
      <4>3. c - a <= c - b /\ c - a \in Int /\ c - b \in Int
        BY <4>2
      <4> QED BY <4>1, <4>3
    <3>4. Allowed(w - now) <= Allowed(w - now') /\ Allowed(w - now) \in Int /\ Allowed(w - now') \in Int
      BY <3>3, AllowedMonotone
    <3>5. left' <= Allowed(w - now')
      BY <1>1, <1>2, <3>2, <3>4
    <3> QED BY <3>5 DEF w
  <2> QED BY <1>1, <2>1 DEF Clocked, When, Allowed, NeverEarly
<1> QED BY <1>1, <1>2, <1>3, <1>4, ClockFrame DEF WaitTypeOK

-----------------------------------------------------------------------------
(* A fiber sets a timer and gives the CPU back, or goes on and cancels it. *)

LEMMA PushFacts ==
    ASSUME NEW S, NEW s \in Seq(S), NEW e \in S
    PROVE  /\ <<e>> \o s \in Seq(S) /\ Len(s) \in Nat /\ Len(<<e>> \o s) = Len(s) + 1
           /\ (<<e>> \o s)[1] = e
           /\ \A i \in 1..(Len(s) + 1) :
                  i # 1 => i - 1 \in 1..Len(s) /\ (<<e>> \o s)[i] = s[i - 1]
           /\ \A i \in 1..Len(s) : i + 1 \in 1..(Len(s) + 1) /\ (<<e>> \o s)[i + 1] = s[i]
OBVIOUS

LEMMA AppendFacts ==
    ASSUME NEW S, NEW s \in Seq(S), NEW x \in S
    PROVE  /\ Append(s, x) \in Seq(S) /\ Len(s) \in Nat /\ Len(Append(s, x)) = Len(s) + 1
           /\ Append(s, x)[Len(s) + 1] = x
           /\ \A i \in 1..Len(s) : Append(s, x)[i] = s[i]
           /\ \A i \in 1..(Len(s) + 1) : i \in 1..Len(s) \/ i = Len(s) + 1
OBVIOUS

LEMMA NewEventFacts ==
    ASSUME WaitTypeOK, NEW f \in All, NEW d \in Nat
    PROVE  /\ Event(f, d) \in EventType /\ Event(f, d).fiber = f /\ Event(f, d).live
           /\ When(Event(f, d)) = now + d
<1>1. now \in Nat
  BY TypeFacts
<1>2. /\ AddToNow(d).sec \in Nat /\ AddToNow(d).ms \in 0..(Second - 1)
      /\ AddToNow(d).sec * Second + AddToNow(d).ms = now + d
  BY <1>1, AddToNowFacts
<1>3. Event(f, d) = [fiber |-> f, live |-> TRUE, sec |-> AddToNow(d).sec, ms |-> AddToNow(d).ms]
  BY DEF Event
<1>4. /\ Event(f, d).fiber = f /\ Event(f, d).live
      /\ Event(f, d).sec = AddToNow(d).sec /\ Event(f, d).ms = AddToNow(d).ms
  BY <1>3
<1>5. Event(f, d) \in EventType
  BY <1>2, <1>3 DEF EventType
<1> QED BY <1>2, <1>4, <1>5 DEF When

\* What a fiber with the CPU has to do with the rest.
LEMMA CurrentFacts ==
    ASSUME WaitInv, NEW f \in All, Has(f)
    PROVE  /\ current = f /\ loop = "run" /\ state[f] = "RUNNABLE" /\ ~Asleep(f)
           /\ f # None
           /\ \A i \in 1..Len(queue) : queue[i] # f
           /\ pc[f] \notin {"wait", "waitLong"} => \A i \in 1..Len(waitQueue) : waitQueue[i] # f
           /\ pc[f] # "wait" => \A i \in 1..Len(events) : events[i].fiber = f => ~events[i].live
<1>1. current = f /\ loop = "run" /\ f # None
  BY Constants DEF Has
<1>2. state[f] = "RUNNABLE"
  BY <1>1 DEF WaitInv, Queued
<1> QED BY <1>1, <1>2 DEF WaitInv, Queued, WaitQueueFits, EventsFit, Asleep

LEMMA SetupKeeps ==
    ASSUME WaitInv, NEW f \in All, Has(f), pc[f] \in {"run", "fire", "new", "check"},
           NEW d \in Nat, setupTimer(f, d), NEW s, NEW at,
           \/ s = "WAITING" /\ at \in {"sleep", "delay", "period"}
           \/ s = "BLOCKED" /\ at = "wait",
           state' = [state EXCEPT ![f] = s], pc' = [pc EXCEPT ![f] = at],
           current' = None, loop' = "top", UNCHANGED clockVars
    PROVE  /\ events' \in Seq(EventType) /\ waiters' \in Nat /\ due' \in [All -> Nat]
           /\ EventsFit' /\ Clocked'
           /\ \A g \in All \ {f} :
                  (\A i \in 1..Len(events) : events[i].fiber = g => ~events[i].live)
                  => \A i \in 1..Len(events') : events'[i].fiber = g => ~events'[i].live
<1> USE DEF WaitInv
<1> DEFINE e == Event(f, d)
           n == Len(events)
<1>1. e \in EventType /\ e.fiber = f /\ e.live /\ When(e) = now + d
  BY NewEventFacts
<1>2. /\ now \in Nat /\ n \in Nat /\ events \in Seq(EventType)
      /\ \A i \in 1..n : events[i] \in EventType /\ events[i].fiber \in All
  BY TypeFacts DEF WaitTypeOK
<1>3. events' = <<e>> \o events /\ waiters' = waiters + 1 /\ due' = [due EXCEPT ![f] = now + d]
  BY DEF setupTimer
<1> HIDE DEF e
<1>4. /\ events' \in Seq(EventType) /\ Len(events') = n + 1 /\ events'[1] = e
      /\ \A i \in 1..(n + 1) : i # 1 => i - 1 \in 1..n /\ events'[i] = events[i - 1]
      /\ \A i \in 1..n : i + 1 \in 1..(n + 1) /\ events'[i + 1] = events[i]
  BY <1>1, <1>2, <1>3, PushFacts
<1> HIDE DEF n
<1>5. \A i \in 1..n : events[i].fiber = f => ~events[i].live
  BY CurrentFacts DEF n
<1>6. due' \in [All -> Nat] /\ waiters' \in Nat
      /\ due'[f] = now + d /\ \A g \in All \ {f} : due'[g] = due[g]
  BY <1>2, <1>3 DEF WaitTypeOK
<1>7. /\ state'[f] = s /\ pc'[f] = at
      /\ \A g \in All \ {f} : state'[g] = state[g] /\ pc'[g] = pc[g]
  BY DEF WaitTypeOK
<1>9. EventsFit'
  <2>1. ASSUME NEW i \in 1..(n + 1), NEW j \in 1..(n + 1), events'[i].live, events'[j].live,
               events'[i].fiber = events'[j].fiber
        PROVE  i = j
    <3>1. CASE i = 1 /\ j = 1
      BY <3>1
    <3>2. CASE i # 1 /\ j # 1
      <4>1. i - 1 = j - 1
        BY <1>4, <2>1, <3>2 DEF EventsFit, n
      <4> QED BY <1>2, <4>1
    <3>3. CASE i = 1 /\ j # 1
      BY <1>1, <1>4, <1>5, <2>1, <3>3
    <3>4. CASE i # 1 /\ j = 1
      BY <1>1, <1>4, <1>5, <2>1, <3>4
    <3> QED BY <3>1, <3>2, <3>3, <3>4
  <2>2. ASSUME NEW i \in 1..(n + 1)
        PROVE  events'[i].live =>
                   \/ pc'[events'[i].fiber] = "wait"
                   \/ /\ pc'[events'[i].fiber] \in {"sleep", "delay", "period"}
                      /\ state'[events'[i].fiber] \in {"WAITING", "BLOCKED"}
    <3>1. CASE i = 1
      BY <1>1, <1>4, <1>7, <3>1
    <3>2. CASE i # 1
      <4>1. i - 1 \in 1..n /\ events'[i] = events[i - 1]
        BY <1>4, <3>2
      <4>2. events[i - 1].live =>
                pc[events[i - 1].fiber] = "wait"
                \/ (Sleeping(events[i - 1].fiber) /\ Asleep(events[i - 1].fiber))
        BY <4>1 DEF EventsFit, n
      <4>3. events[i - 1].fiber = f => ~events[i - 1].live
        BY <1>5, <4>1
      <4>4. events[i - 1].fiber \in All
        BY <1>2, <4>1
      <4> QED BY <1>7, <4>1, <4>2, <4>3, <4>4 DEF Sleeping, Asleep
    <3> QED BY <3>1, <3>2
  <2>3. ASSUME NEW g \in All, Timed(g)', Asleep(g)'
        PROVE  \E i \in 1..(n + 1) : events'[i].live /\ events'[i].fiber = g
    <3>1. CASE g = f
      <4>1. 1 \in 1..(n + 1)
        BY <1>2 DEF n
      <4> QED BY <1>1, <1>4, <3>1, <4>1
    <3>2. CASE g # f
      <4>1. Timed(g) /\ Asleep(g)
        BY <1>7, <2>3, <3>2 DEF Timed, Asleep
      <4>2. PICK i \in 1..n : events[i].live /\ events[i].fiber = g
        BY <4>1 DEF EventsFit, n
      <4> QED BY <1>4, <4>2
    <3> QED BY <3>1, <3>2
  <2>4. waiters' = Cardinality({g \in All : Timed(g)'})
    <3> DEFINE T == {g \in All : Timed(g)}
    <3>1. IsFiniteSet(T)
      BY Constants, FS_Subset
    <3>2. f \notin T
      BY DEF Timed
    <3>3. {g \in All : Timed(g)'} = T \union {f}
      BY <1>7 DEF Timed
    <3>4. Cardinality(T \union {f}) = Cardinality(T) + 1
      BY <3>1, <3>2, FS_AddElement
    <3> QED BY <1>3, <3>3, <3>4 DEF EventsFit
  <2> QED BY <1>4, <2>1, <2>2, <2>3, <2>4 DEF EventsFit, Sleeping, Asleep
<1>10. Clocked'
  <2>1. ~skewed' => lastTime' <= Sec(now)'
    BY DEF Clocked, Sec, clockVars
  <2>2. ASSUME NEW i \in 1..(n + 1), ~skewed', events'[i].live
        PROVE  events'[i].sec * Second + events'[i].ms = due'[events'[i].fiber]
    <3>1. CASE i = 1
      BY <1>1, <1>4, <1>6, <3>1 DEF When
    <3>2. CASE i # 1
      <4>1. i - 1 \in 1..n /\ events'[i] = events[i - 1]
        BY <1>4, <3>2
      <4>2. events[i - 1].fiber \in All \ {f}
        BY <1>2, <1>5, <2>2, <4>1 DEF n
      <4>3. When(events[i - 1]) = due[events[i - 1].fiber]
        BY <2>2, <4>1 DEF Clocked, clockVars, n
      <4> QED BY <1>6, <4>1, <4>2, <4>3 DEF When
    <3> QED BY <3>1, <3>2
  <2>3. NeverEarly'
    <3>1. ASSUME NEW g \in All, pc'[g] \in {"sleep", "delay", "period"}, state'[g] = "RUNNABLE"
          PROVE  skewed \/ now >= due'[g]
      <4>1. g # f
        BY <1>7, <3>1
      <4> QED BY <1>6, <1>7, <3>1, <4>1 DEF Clocked, NeverEarly, Sleeping
    <3> QED BY <3>1 DEF NeverEarly, Sleeping, clockVars
  <2> QED BY <1>4, <2>1, <2>2, <2>3 DEF Clocked, When
<1>11. ASSUME NEW g \in All \ {f},
              \A i \in 1..Len(events) : events[i].fiber = g => ~events[i].live,
              NEW i \in 1..Len(events'), events'[i].fiber = g
       PROVE  ~events'[i].live
  <2>1. i # 1 /\ i \in 1..(n + 1)
    BY <1>1, <1>4, <1>11
  <2>2. i - 1 \in 1..n /\ events'[i] = events[i - 1]
    BY <1>4, <2>1
  <2> QED BY <1>11, <2>2 DEF n
<1> QED BY <1>4, <1>6, <1>9, <1>10, <1>11

\* The run queue keeps its fibers when one with the CPU gives it back.
LEMMA GiveBackQueued ==
    ASSUME WaitInv, NEW f \in All, Has(f), current' = None, queue' = queue,
           \A g \in All \ {f} : state'[g] = state[g]
    PROVE  Queued'
<1>1. \A i \in 1..Len(queue) : queue[i] \in All /\ queue[i] # f /\ queue[i] # None
  BY CurrentFacts, Constants DEF WaitInv, WaitTypeOK
<1> QED BY <1>1 DEF WaitInv, Queued

LEMMA SleepToKeeps ==
    ASSUME WaitInv, NEW f \in All, Has(f), pc[f] \in {"run", "fire", "new", "check"},
           NEW d \in Nat, NEW at, SleepTo(f, d, at),
           \/ at = "sleep"
           \/ at \in {"delay", "period"} /\ f \in Timers /\ late[f] = 0
              /\ (at = "period" => period[f] > 0)
    PROVE  WaitInv'
<1> USE DEF WaitInv
<1>1. /\ setupTimer(f, d) /\ loop' = "top" /\ current' = None
      /\ state' = [state EXCEPT ![f] = "WAITING"] /\ pc' = [pc EXCEPT ![f] = at]
      /\ UNCHANGED <<clockVars, queue, left, waitQueue, timerVars>>
  BY DEF SleepTo, Become, BackToLoop
<1>2. /\ events' \in Seq(EventType) /\ waiters' \in Nat /\ due' \in [All -> Nat]
      /\ EventsFit' /\ Clocked'
      /\ \A g \in All \ {f} :
             (\A i \in 1..Len(events) : events[i].fiber = g => ~events[i].live)
             => \A i \in 1..Len(events') : events'[i].fiber = g => ~events'[i].live
  BY <1>1, SetupKeeps
<1>3. /\ state'[f] = "WAITING" /\ pc'[f] = at
      /\ \A g \in All \ {f} : state'[g] = state[g] /\ pc'[g] = pc[g]
  BY <1>1 DEF WaitTypeOK
<1>4. WaitTypeOK'
  BY <1>1, <1>2 DEF WaitTypeOK, clockVars, timerVars
<1>5. StatesFit'
  <2>1. ASSUME NEW g \in All
        PROVE  /\ pc'[g] = "unborn" <=> state'[g] = "NEW"
               /\ pc'[g] = "end" <=> state'[g] = "TERMINATED"
               /\ state'[g] = "WAITING" => pc'[g] \in {"sleep", "delay", "period"}
               /\ state'[g] = "BLOCKED" => pc'[g] \in {"wait", "waitLong"}
               /\ g \in Fibers => pc'[g] \in {"unborn", "run", "sleep", "wait", "waitLong", "end"}
               /\ g \in Timers => pc'[g] # "run"
    <3>1. CASE g = f
      BY <1>3, <3>1, Constants
    <3>2. CASE g # f
      BY <1>3, <3>2 DEF StatesFit, Sleeping
    <3> QED BY <3>1, <3>2
  <2> QED BY <2>1 DEF StatesFit, Sleeping
<1>6. Queued'
  BY <1>1, <1>3, GiveBackQueued
<1>7. WaitQueueFits'
  <2>1. \A i \in 1..Len(waitQueue) : waitQueue[i] \in All \ {f}
    <3>1. \A i \in 1..Len(waitQueue) : waitQueue[i] \in All
      BY DEF WaitTypeOK
    <3>2. \A i \in 1..Len(waitQueue) : waitQueue[i] # f
      BY CurrentFacts
    <3> QED BY <3>1, <3>2
  <2>2. waitQueue' = waitQueue
    BY <1>1
  <2>3. ASSUME NEW i \in 1..Len(waitQueue)
        PROVE  /\ pc'[waitQueue[i]] \in {"wait", "waitLong"}
               /\ \/ state'[waitQueue[i]] \in {"WAITING", "BLOCKED"}
                  \/ \A j \in 1..Len(events') : events'[j].fiber = waitQueue[i] => ~events'[j].live
    <3>1. PICK g \in All \ {f} : g = waitQueue[i]
      BY <2>1
    <3>2. /\ pc[g] \in {"wait", "waitLong"}
          /\ \/ state[g] \in {"WAITING", "BLOCKED"}
             \/ \A j \in 1..Len(events) : events[j].fiber = g => ~events[j].live
      BY <3>1 DEF WaitQueueFits, Asleep
    <3> QED BY <1>2, <1>3, <3>1, <3>2
  <2>4. \A i, j \in 1..Len(waitQueue) : waitQueue[i] = waitQueue[j] => i = j
    BY DEF WaitQueueFits
  <2> HIDE DEF WaitInv
  <2> QED BY <2>2, <2>3, <2>4 DEF WaitQueueFits, Asleep
<1>8. Canceling'
  <2>1. ASSUME NEW t \in Timers
        PROVE  /\ ~canceled[t] => late[t] = 0
               /\ pc'[t] \in {"unborn", "new", "delay", "period", "call"} => late[t] = 0
               /\ period[t] = 0 => late[t] = 0 /\ pc'[t] \notin {"period", "call"}
               /\ late[t] <= 1
    <3>1. CASE t = f
      BY <1>3, <3>1, Constants DEF Canceling, WaitTypeOK
    <3>2. CASE t # f
      BY <1>3, <3>2, Constants DEF Canceling
    <3> QED BY <3>1, <3>2
  <2> QED BY <1>1, <2>1 DEF Canceling, timerVars
<1> QED BY <1>2, <1>4, <1>5, <1>6, <1>7, <1>8

LEMMA SleepersKeep ==
    ASSUME WaitInv,
           \/ \E f \in All, d \in Durations : Sleep(f, d)
           \/ \E t \in Timers : StartTimer(t) \/ NextPeriod(t)
    PROVE  WaitInv'
<1>1. ASSUME NEW f \in All, NEW d \in Durations, Sleep(f, d) PROVE WaitInv'
  <2>1. Has(f) /\ pc[f] \in {"run", "fire"} /\ SleepTo(f, d, "sleep") /\ d \in Nat
    BY <1>1, Constants DEF Sleep, InProgram, Program
  <2> QED BY <2>1, SleepToKeeps
<1>2. ASSUME NEW t \in Timers, StartTimer(t) PROVE WaitInv'
  <2>1. Has(t) /\ pc[t] = "new" /\ SleepTo(t, delay[t], "delay") /\ t \in All
        /\ delay[t] \in Nat
    BY <1>2, Constants DEF StartTimer, WaitInv, WaitTypeOK
  <2>2. late[t] = 0
    BY <2>1 DEF WaitInv, Canceling
  <2> QED BY <2>1, <2>2, SleepToKeeps
<1>3. ASSUME NEW t \in Timers, NextPeriod(t) PROVE WaitInv'
  <2>1. Has(t) /\ pc[t] = "check" /\ SleepTo(t, period[t], "period") /\ t \in All
        /\ period[t] \in Nat /\ period[t] > 0 /\ ~canceled[t]
    BY <1>3, Constants DEF NextPeriod, WaitInv, WaitTypeOK, GoesOn
  <2>2. late[t] = 0
    BY <2>1 DEF WaitInv, Canceling
  <2> QED BY <2>1, <2>2, SleepToKeeps
<1> QED BY <1>1, <1>2, <1>3

LEMMA TimedWaitKeeps ==
    ASSUME WaitInv, NEW f \in All, NEW d \in Durations, TimedWait(f, d)
    PROVE  WaitInv'
<1> USE DEF WaitInv
<1> DEFINE at == IF d > 0 THEN "wait" ELSE "waitLong"
<1>1. /\ Has(f) /\ pc[f] \in {"run", "fire"} /\ d \in Nat /\ loop' = "top" /\ current' = None
      /\ state' = [state EXCEPT ![f] = "BLOCKED"] /\ pc' = [pc EXCEPT ![f] = at]
      /\ waitQueue' = Append(waitQueue, f)
      /\ UNCHANGED <<clockVars, queue, left, timerVars>>
  BY Constants DEF TimedWait, InProgram, Program, Become, BackToLoop
<1>3. at \in {"wait", "waitLong"} /\ (d > 0 => at = "wait") /\ (~(d > 0) => at = "waitLong")
  OBVIOUS
<1> HIDE DEF at
<1>4. /\ state'[f] = "BLOCKED" /\ pc'[f] = at
      /\ \A g \in All \ {f} : state'[g] = state[g] /\ pc'[g] = pc[g]
  BY <1>1 DEF WaitTypeOK
<1>5. /\ \A i \in 1..Len(waitQueue) : waitQueue[i] # f
      /\ \A i \in 1..Len(events) : events[i].fiber = f => ~events[i].live
      /\ Len(events) \in Nat /\ \A i \in 1..Len(events) : events[i].fiber \in All
  BY <1>1, CurrentFacts, TypeFacts
<1>6. /\ events' \in Seq(EventType) /\ waiters' \in Nat /\ due' \in [All -> Nat]
      /\ EventsFit' /\ Clocked'
      /\ \A g \in All \ {f} :
             (\A i \in 1..Len(events) : events[i].fiber = g => ~events[i].live)
             => \A i \in 1..Len(events') : events'[i].fiber = g => ~events'[i].live
  <2>1. CASE d > 0
    <3>1. setupTimer(f, d) /\ at = "wait"
      BY <1>3, <2>1 DEF TimedWait
    <3> QED BY <1>1, <3>1, SetupKeeps
  <2>2. CASE ~(d > 0)
    <3>1. UNCHANGED <<events, waiters, due>> /\ at = "waitLong"
      BY <1>3, <2>2 DEF TimedWait
    <3>2. \A g \in All : Timed(g)' <=> Timed(g)
      BY <1>1, <1>4, <3>1 DEF Timed
    <3>3. EventsFit'
      <4>1. \A i \in 1..Len(events) :
                events[i].live =>
                    \/ pc'[events[i].fiber] = "wait"
                    \/ /\ pc'[events[i].fiber] \in {"sleep", "delay", "period"}
                       /\ state'[events[i].fiber] \in {"WAITING", "BLOCKED"}
        <5>1. ASSUME NEW i \in 1..Len(events), events[i].live
              PROVE  \/ pc'[events[i].fiber] = "wait"
                     \/ /\ pc'[events[i].fiber] \in {"sleep", "delay", "period"}
                        /\ state'[events[i].fiber] \in {"WAITING", "BLOCKED"}
          <6>1. CASE events[i].fiber = f
            BY <1>5, <5>1, <6>1
          <6>2. CASE events[i].fiber # f
            BY <1>4, <1>5, <5>1, <6>2 DEF EventsFit, Sleeping, Asleep
          <6> QED BY <6>1, <6>2
        <5> QED BY <5>1
      <4>2. \A g \in All : Timed(g)' /\ Asleep(g)' =>
                \E i \in 1..Len(events) : events[i].live /\ events[i].fiber = g
        <5>1. ASSUME NEW g \in All, Timed(g)', Asleep(g)' PROVE Timed(g) /\ Asleep(g)
          <6>1. g # f
            BY <1>4, <3>1, <5>1 DEF Timed
          <6> QED BY <1>4, <5>1, <6>1 DEF Timed, Asleep
        <5> QED BY <5>1 DEF EventsFit
      <4>3. {g \in All : Timed(g)'} = {g \in All : Timed(g)}
        BY <3>2
      <4> QED BY <1>1, <3>1, <4>1, <4>2, <4>3 DEF EventsFit, Sleeping, Asleep
    <3>4. Clocked'
      BY <1>1, <1>4, <3>1 DEF Clocked, NeverEarly, Sleeping, Sec, When, clockVars
    <3> QED BY <3>1, <3>3, <3>4 DEF WaitTypeOK
  <2> QED BY <2>1, <2>2
<1>7. /\ waitQueue \in Seq(All) /\ Len(waitQueue) \in Nat /\ waitQueue' \in Seq(All)
      /\ Len(waitQueue') = Len(waitQueue) + 1 /\ waitQueue'[Len(waitQueue) + 1] = f
      /\ \A i \in 1..Len(waitQueue) : waitQueue'[i] = waitQueue[i] /\ waitQueue[i] \in All \ {f}
      /\ \A i \in 1..(Len(waitQueue) + 1) : i \in 1..Len(waitQueue) \/ i = Len(waitQueue) + 1
  BY <1>1, <1>5, AppendFacts DEF WaitTypeOK
<1>8. WaitTypeOK'
  BY <1>1, <1>3, <1>6, <1>7 DEF WaitTypeOK, clockVars, timerVars
<1>9. StatesFit'
  <2>1. ASSUME NEW g \in All
        PROVE  /\ pc'[g] = "unborn" <=> state'[g] = "NEW"
               /\ pc'[g] = "end" <=> state'[g] = "TERMINATED"
               /\ state'[g] = "WAITING" => pc'[g] \in {"sleep", "delay", "period"}
               /\ state'[g] = "BLOCKED" => pc'[g] \in {"wait", "waitLong"}
               /\ g \in Fibers => pc'[g] \in {"unborn", "run", "sleep", "wait", "waitLong", "end"}
               /\ g \in Timers => pc'[g] # "run"
    <3>1. CASE g = f
      BY <1>1, <1>3, <1>4, <3>1 DEF StatesFit
    <3>2. CASE g # f
      BY <1>4, <3>2 DEF StatesFit, Sleeping
    <3> QED BY <3>1, <3>2
  <2> QED BY <2>1 DEF StatesFit, Sleeping
<1>10. Queued'
  BY <1>1, <1>4, GiveBackQueued
<1>11. WaitQueueFits'
  <2>1. ASSUME NEW i \in 1..(Len(waitQueue) + 1)
        PROVE  /\ pc'[waitQueue'[i]] \in {"wait", "waitLong"}
               /\ \/ state'[waitQueue'[i]] \in {"WAITING", "BLOCKED"}
                  \/ \A j \in 1..Len(events') : events'[j].fiber = waitQueue'[i] => ~events'[j].live
    <3>1. CASE i = Len(waitQueue) + 1
      BY <1>3, <1>4, <1>7, <3>1
    <3>2. CASE i \in 1..Len(waitQueue)
      <4>1. PICK g \in All \ {f} : g = waitQueue[i] /\ waitQueue'[i] = g
        BY <1>7, <3>2
      <4>2. /\ pc[g] \in {"wait", "waitLong"}
            /\ Asleep(g) \/ \A j \in 1..Len(events) : events[j].fiber = g => ~events[j].live
        BY <3>2, <4>1 DEF WaitQueueFits
      <4>3. Asleep(g) => state'[g] \in {"WAITING", "BLOCKED"}
        BY <1>4 DEF Asleep
      <4>4. pc'[g] \in {"wait", "waitLong"}
        BY <1>4, <4>2
      <4>5. (\A j \in 1..Len(events) : events[j].fiber = g => ~events[j].live)
            => \A j \in 1..Len(events') : events'[j].fiber = g => ~events'[j].live
        BY <1>6
      <4> QED BY <4>1, <4>2, <4>3, <4>4, <4>5
    <3> QED BY <1>7, <3>1, <3>2
  <2>2. \A i, j \in 1..(Len(waitQueue) + 1) : waitQueue'[i] = waitQueue'[j] => i = j
    BY <1>7 DEF WaitQueueFits
  <2> QED BY <1>7, <2>1, <2>2 DEF WaitQueueFits, Asleep
<1>12. Canceling'
  <2>1. \A t \in Timers : t \in All /\ (t = f => pc'[t] \in {"wait", "waitLong"}) /\ (t # f => pc'[t] = pc[t])
    BY <1>3, <1>4, Constants
  <2> QED BY <1>1, <2>1 DEF Canceling, timerVars
<1> QED BY <1>6, <1>8, <1>9, <1>10, <1>11, <1>12

LEMMA CancelledFacts ==
    ASSUME WaitTypeOK, NEW f \in All
    PROVE  /\ Cancelled(f) \in Seq(EventType) /\ Len(Cancelled(f)) = Len(events)
           /\ Len(events) \in Nat
           /\ \A i \in 1..Len(events) :
                  /\ Cancelled(f)[i].fiber = events[i].fiber /\ events[i].fiber \in All
                  /\ events[i].fiber = f => ~Cancelled(f)[i].live
                  /\ events[i].fiber # f => Cancelled(f)[i] = events[i]
                  /\ Cancelled(f)[i].live => Cancelled(f)[i] = events[i]
<1>1. /\ DOMAIN events = 1..Len(events) /\ Len(events) \in Nat
      /\ \A i \in 1..Len(events) : events[i] \in EventType
  BY TypeFacts
<1>2. Cancelled(f) = [i \in 1..Len(events) |->
          IF events[i].fiber = f THEN [events[i] EXCEPT !.live = FALSE] ELSE events[i]]
  BY <1>1 DEF Cancelled
<1>3. ASSUME NEW i \in 1..Len(events)
      PROVE  /\ Cancelled(f)[i] \in EventType
             /\ Cancelled(f)[i].fiber = events[i].fiber /\ events[i].fiber \in All
             /\ events[i].fiber = f => ~Cancelled(f)[i].live
             /\ events[i].fiber # f => Cancelled(f)[i] = events[i]
  <2>1. events[i] \in EventType
    BY <1>1
  <2>2. /\ [events[i] EXCEPT !.live = FALSE] \in EventType
        /\ [events[i] EXCEPT !.live = FALSE].fiber = events[i].fiber
        /\ ~[events[i] EXCEPT !.live = FALSE].live
        /\ events[i].fiber \in All
    BY <2>1 DEF EventType
  <2>3. Cancelled(f)[i] = IF events[i].fiber = f THEN [events[i] EXCEPT !.live = FALSE] ELSE events[i]
    BY <1>2
  <2> QED BY <2>1, <2>2, <2>3
<1>4. Cancelled(f) \in [1..Len(events) -> EventType]
  BY <1>2, <1>3
<1>5. Cancelled(f) \in Seq(EventType) /\ Len(Cancelled(f)) = Len(events)
  BY <1>1, <1>2, <1>4
<1> QED BY <1>1, <1>3, <1>5

LEMMA GoOnStatesFit ==
    ASSUME WaitInv, NEW f \in All, Has(f), NEW at, pc' = [pc EXCEPT ![f] = at], state' = state,
           \/ f \in Fibers /\ at = "run"
           \/ f \in Timers /\ at \in {"check", "call", "fire", "done"},
           pc[f] # "unborn", pc[f] # "end"
    PROVE  StatesFit'
<1>1. pc'[f] = at /\ \A g \in All \ {f} : pc'[g] = pc[g]
  BY DEF WaitInv, WaitTypeOK
<1>2. state[f] = "RUNNABLE"
  BY CurrentFacts
<1>3. ASSUME NEW g \in All
      PROVE  /\ pc'[g] = "unborn" <=> state'[g] = "NEW"
             /\ pc'[g] = "end" <=> state'[g] = "TERMINATED"
             /\ state'[g] = "WAITING" => pc'[g] \in {"sleep", "delay", "period"}
             /\ state'[g] = "BLOCKED" => pc'[g] \in {"wait", "waitLong"}
             /\ g \in Fibers => pc'[g] \in {"unborn", "run", "sleep", "wait", "waitLong", "end"}
             /\ g \in Timers => pc'[g] # "run"
  <2>1. CASE g = f
    BY <1>1, <1>2, <2>1, Constants
  <2>2. CASE g # f
    BY <1>1, <2>2 DEF WaitInv, StatesFit, Sleeping
  <2> QED BY <2>1, <2>2
<1> QED BY <1>3 DEF StatesFit, Sleeping

\* Who goes on has no live event, and is not waited for any more.
LEMMA GoOnEventsFit ==
    ASSUME WaitInv, NEW f \in All, Has(f), NEW at, at \in {"run", "fire", "check", "call"},
           pc' = [pc EXCEPT ![f] = at], UNCHANGED <<state, current, loop, clockVars>>,
           due' = [due EXCEPT ![f] = 0],
           \/ Timed(f) /\ events' = Cancelled(f) /\ waiters' = waiters - 1
           \/ pc[f] = "waitLong" /\ events' = events /\ waiters' = waiters
    PROVE  /\ events' \in Seq(EventType) /\ waiters' \in Nat /\ due' \in [All -> Nat]
           /\ EventsFit' /\ Clocked'
           /\ \A g \in All :
                  (\A i \in 1..Len(events) : events[i].fiber = g => ~events[i].live)
                  => \A i \in 1..Len(events') : events'[i].fiber = g => ~events'[i].live
<1> USE DEF WaitInv
<1> DEFINE n == Len(events)
<1>1. n \in Nat /\ \A i \in 1..n : events[i].fiber \in All
  BY TypeFacts
<1>2. /\ events' \in Seq(EventType) /\ Len(events') = n
      /\ \A i \in 1..n :
             /\ events'[i].fiber = events[i].fiber
             /\ events[i].fiber = f => ~events'[i].live
             /\ events'[i].live => events'[i] = events[i]
             /\ events[i].fiber # f => events'[i] = events[i]
  <2>1. CASE events' = Cancelled(f)
    BY <2>1, CancelledFacts
  <2>2. CASE pc[f] = "waitLong" /\ events' = events
    BY <2>2, CurrentFacts DEF WaitTypeOK
  <2> QED BY <2>1, <2>2
<1> HIDE DEF n
<1>3. /\ pc'[f] = at /\ due'[f] = 0 /\ due' \in [All -> Nat]
      /\ \A g \in All \ {f} : pc'[g] = pc[g] /\ due'[g] = due[g]
  BY DEF WaitTypeOK
<1>4. /\ current = f /\ loop = "run" /\ state[f] = "RUNNABLE"
  BY CurrentFacts
<1>6. waiters' = Cardinality({g \in All : Timed(g)'}) /\ waiters' \in Nat
  <2> DEFINE T == {g \in All : Timed(g)}
             U == {g \in All : Timed(g)'}
  <2>1. IsFiniteSet(T) /\ IsFiniteSet(U)
    BY Constants, FS_Subset
  <2>2. Cardinality(T) \in Nat /\ Cardinality(U) \in Nat
    BY <2>1, FS_CardinalityType
  <2>3. U = T \ {f}
    BY <1>3 DEF Timed
  <2>4. Cardinality(T \ {f}) = IF f \in T THEN Cardinality(T) - 1 ELSE Cardinality(T)
    BY <2>1, FS_RemoveElement
  <2>5. waiters = Cardinality(T)
    BY DEF EventsFit
  <2>6. pc[f] = "waitLong" => f \notin T
    BY DEF Timed
  <2>7. waiters' = Cardinality(U)
    BY <2>3, <2>4, <2>5, <2>6
  <2> QED BY <2>2, <2>7
<1>7. EventsFit'
  <2>1. \A i, j \in 1..n :
            events'[i].live /\ events'[j].live /\ events'[i].fiber = events'[j].fiber => i = j
    BY <1>2 DEF EventsFit, n
  <2>2. ASSUME NEW i \in 1..n, events'[i].live
        PROVE  \/ pc'[events'[i].fiber] = "wait"
               \/ /\ pc'[events'[i].fiber] \in {"sleep", "delay", "period"}
                  /\ state'[events'[i].fiber] \in {"WAITING", "BLOCKED"}
    <3>1. CASE events[i].fiber = f
      BY <1>2, <2>2, <3>1
    <3>2. CASE events[i].fiber # f
      <4>1. PICK g \in All \ {f} : g = events[i].fiber /\ events'[i].fiber = g
        BY <1>1, <1>2, <3>2 DEF n
      <4>2. events[i].live
        BY <1>2, <2>2, <3>2
      <4>3. pc[g] = "wait" \/ (Sleeping(g) /\ Asleep(g))
        BY <4>1, <4>2 DEF EventsFit, n
      <4> QED BY <1>3, <4>1, <4>3 DEF Sleeping, Asleep
    <3> QED BY <3>1, <3>2
  <2>3. ASSUME NEW g \in All, Timed(g)', Asleep(g)'
        PROVE  \E i \in 1..n : events'[i].live /\ events'[i].fiber = g
    <3>1. g # f
      BY <1>4, <2>3 DEF Asleep
    <3>2. Timed(g) /\ Asleep(g)
      BY <1>3, <2>3, <3>1 DEF Timed, Asleep
    <3>3. PICK i \in 1..n : events[i].live /\ events[i].fiber = g
      BY <3>2 DEF EventsFit, n
    <3> QED BY <1>2, <3>1, <3>3
  <2> QED BY <1>2, <1>6, <2>1, <2>2, <2>3 DEF EventsFit, Sleeping, Asleep
<1>8. Clocked'
  <2>1. ~skewed' => lastTime' <= Sec(now)'
    BY DEF Clocked, Sec, clockVars
  <2>2. ASSUME NEW i \in 1..n, ~skewed', events'[i].live
        PROVE  events'[i].sec * Second + events'[i].ms = due'[events'[i].fiber]
    <3>1. events[i].fiber \in All \ {f} /\ events'[i] = events[i]
      BY <1>1, <1>2, <2>2 DEF n
    <3>2. When(events[i]) = due[events[i].fiber]
      BY <2>2, <3>1 DEF Clocked, clockVars, n
    <3> QED BY <1>3, <3>1, <3>2 DEF When
  <2>3. NeverEarly'
    <3>1. ASSUME NEW g \in All, pc'[g] \in {"sleep", "delay", "period"}, state[g] = "RUNNABLE"
          PROVE  skewed \/ now >= due'[g]
      BY <1>3, <3>1 DEF Clocked, NeverEarly, Sleeping
    <3> QED BY <3>1 DEF NeverEarly, Sleeping, clockVars
  <2> QED BY <1>2, <1>4, <2>1, <2>2, <2>3 DEF Clocked, When
<1>9. ASSUME NEW g \in All,
             \A i \in 1..Len(events) : events[i].fiber = g => ~events[i].live,
             NEW i \in 1..Len(events'), events'[i].fiber = g
      PROVE  ~events'[i].live
  BY <1>2, <1>9 DEF n
<1> QED BY <1>2, <1>3, <1>6, <1>7, <1>8, <1>9

LEMMA SleepReturnKeeps ==
    ASSUME WaitInv, NEW f \in All, SleepReturn(f) PROVE WaitInv'
<1> USE DEF WaitInv
<1> DEFINE at == AfterSleep(f)
<1>1. /\ Has(f) /\ Sleeping(f) /\ events' = Cancelled(f) /\ waiters' = waiters - 1
      /\ pc' = [pc EXCEPT ![f] = at] /\ due' = [due EXCEPT ![f] = 0]
      /\ UNCHANGED <<clockVars, queue, loop, left, current, state, waitQueue, timerVars>>
  BY DEF SleepReturn, cancelTimer, Sleeping
<1>2. \/ pc[f] = "sleep" /\ at = Program(f)
      \/ pc[f] = "delay" /\ at = "check"
      \/ pc[f] = "period" /\ at = "call"
  BY <1>1 DEF AfterSleep, Sleeping
<1> HIDE DEF at
<1>3. \/ f \in Fibers /\ at = "run"
      \/ f \in Timers /\ at \in {"check", "call", "fire"}
  BY <1>2, Constants DEF StatesFit, Program
<1>4. /\ events' \in Seq(EventType) /\ waiters' \in Nat /\ due' \in [All -> Nat]
      /\ EventsFit' /\ Clocked'
      /\ \A g \in All :
             (\A i \in 1..Len(events) : events[i].fiber = g => ~events[i].live)
             => \A i \in 1..Len(events') : events'[i].fiber = g => ~events'[i].live
  <2>1. Timed(f) /\ at \in {"run", "fire", "check", "call"}
    BY <1>1, <1>3 DEF Timed, Sleeping
  <2> QED BY <1>1, <2>1, GoOnEventsFit
<1>5. StatesFit'
  BY <1>1, <1>2, <1>3, GoOnStatesFit
<1>6. /\ pc'[f] = at /\ \A g \in All \ {f} : pc'[g] = pc[g]
  BY <1>1 DEF WaitTypeOK
<1>7. WaitTypeOK'
  <2>1. pc' \in [All -> {"unborn", "new", "run", "sleep", "wait", "waitLong", "delay", "check",
                       "period", "call", "fire", "done", "end"}]
    BY <1>1, <1>3 DEF WaitTypeOK
  <2> QED BY <1>1, <1>4, <2>1 DEF WaitTypeOK, clockVars, timerVars
<1>8. Queued'
  BY <1>1 DEF Queued
<1>9. WaitQueueFits'
  <2>1. \A i \in 1..Len(waitQueue) : waitQueue[i] \in All \ {f}
    <3>1. \A i \in 1..Len(waitQueue) : waitQueue[i] \in All
      BY DEF WaitTypeOK
    <3>2. \A i \in 1..Len(waitQueue) : waitQueue[i] # f
      BY <1>1, CurrentFacts DEF Sleeping
    <3> QED BY <3>1, <3>2
  <2>2. waitQueue' = waitQueue /\ state' = state
    BY <1>1 DEF timerVars
  <2>3. ASSUME NEW i \in 1..Len(waitQueue)
        PROVE  /\ pc'[waitQueue[i]] \in {"wait", "waitLong"}
               /\ \/ Asleep(waitQueue[i])'
                  \/ \A k \in 1..Len(events') : events'[k].fiber = waitQueue[i] => ~events'[k].live
    <3>1. waitQueue[i] \in All
      BY <2>1
    <3>2. /\ pc[waitQueue[i]] \in {"wait", "waitLong"}
          /\ \/ Asleep(waitQueue[i])
             \/ \A k \in 1..Len(events) : events[k].fiber = waitQueue[i] => ~events[k].live
      BY DEF WaitQueueFits
    <3>3. Asleep(waitQueue[i]) => Asleep(waitQueue[i])'
      BY <2>2 DEF Asleep
    <3>4. pc'[waitQueue[i]] = pc[waitQueue[i]]
      BY <1>6, <2>1
    <3> QED BY <1>4, <3>1, <3>2, <3>3, <3>4
  <2>4. \A i, j \in 1..Len(waitQueue) : waitQueue[i] = waitQueue[j] => i = j
    BY DEF WaitQueueFits
  <2> HIDE DEF WaitInv
  <2> QED BY <2>2, <2>3, <2>4 DEF WaitQueueFits
<1>10. Canceling'
  <2>1. ASSUME NEW t \in Timers
        PROVE  /\ ~canceled[t] => late[t] = 0
               /\ pc'[t] \in {"unborn", "new", "delay", "period", "call"} => late[t] = 0
               /\ period[t] = 0 => late[t] = 0 /\ pc'[t] \notin {"period", "call"}
               /\ late[t] <= 1
    <3>1. CASE t = f
      <4>1. \/ pc[t] = "sleep" /\ pc'[t] = "fire"
            \/ pc[t] = "delay" /\ pc'[t] = "check"
            \/ pc[t] = "period" /\ pc'[t] = "call"
        BY <1>2, <1>6, <3>1 DEF Program
      <4> QED BY <4>1 DEF Canceling
    <3>2. CASE t # f
      BY <1>6, <3>2, Constants DEF Canceling
    <3> QED BY <3>1, <3>2
  <2> QED BY <1>1, <2>1 DEF Canceling, timerVars
<1> QED BY <1>4, <1>5, <1>7, <1>8, <1>9, <1>10

LEMMA TimedWaitReturnKeeps ==
    ASSUME WaitInv, NEW f \in All, TimedWaitReturn(f) PROVE WaitInv'
<1> USE DEF WaitInv
<1>1. /\ Has(f) /\ pc[f] \in {"wait", "waitLong"}
      /\ pc' = [pc EXCEPT ![f] = Program(f)] /\ due' = [due EXCEPT ![f] = 0]
      /\ UNCHANGED <<clockVars, queue, loop, left, current, state, timerVars>>
  BY DEF TimedWaitReturn
<1>2. \/ f \in Fibers /\ Program(f) = "run"
      \/ f \in Timers /\ Program(f) = "fire"
  BY Constants DEF Program
<1>3. /\ events' \in Seq(EventType) /\ waiters' \in Nat /\ due' \in [All -> Nat]
      /\ EventsFit' /\ Clocked'
      /\ \A g \in All :
             (\A i \in 1..Len(events) : events[i].fiber = g => ~events[i].live)
             => \A i \in 1..Len(events') : events'[i].fiber = g => ~events'[i].live
  <2>1. \/ Timed(f) /\ events' = Cancelled(f) /\ waiters' = waiters - 1
        \/ pc[f] = "waitLong" /\ events' = events /\ waiters' = waiters
    BY <1>1 DEF TimedWaitReturn, cancelTimer, Timed
  <2>2. Program(f) \in {"run", "fire"}
    BY <1>2
  <2> QED BY <1>1, <2>1, <2>2, GoOnEventsFit
<1>4. StatesFit'
  BY <1>1, <1>2, GoOnStatesFit
<1>5. /\ pc'[f] = Program(f) /\ \A g \in All \ {f} : pc'[g] = pc[g]
  BY <1>1 DEF WaitTypeOK
\* The fiber is off the wait queue: wakeUp() took it, or it does itself.
<1>6. /\ waitQueue' \in Seq(All) /\ Len(waitQueue') \in Nat
      /\ \A i \in 1..Len(waitQueue') :
             /\ waitQueue'[i] \in All \ {f}
             /\ \E k \in 1..Len(waitQueue) : waitQueue'[i] = waitQueue[k]
      /\ \A i, j \in 1..Len(waitQueue') : waitQueue'[i] = waitQueue'[j] => i = j
  <2>0. waitQueue \in Seq(All) /\ Len(waitQueue) \in Nat /\ DOMAIN waitQueue = 1..Len(waitQueue)
        /\ \A i \in 1..Len(waitQueue) : waitQueue[i] \in All
    BY DEF WaitTypeOK
  <2>1. CASE LiveEvents(f) = {} /\ f \in ToSet(waitQueue)
    <3> DEFINE K == {i \in DOMAIN waitQueue : waitQueue[i] # f}
               q == Picked(waitQueue, K)
               m == Cardinality(K)
               o == Order(K)
    <3>1. waitQueue' = q
      BY <2>1 DEF TimedWaitReturn
    <3>2. K \in SUBSET (1..Len(waitQueue)) /\ \A k \in K : waitQueue[k] \in All \ {f}
      BY <2>0
    <3> HIDE DEF K
    <3>3. /\ m \in Nat /\ q \in Seq(All) /\ Len(q) = m
          /\ \A i \in 1..m : o[i] \in K /\ q[i] = waitQueue[o[i]]
          /\ \A i, j \in 1..m : o[i] = o[j] => i = j
      <4>1. /\ m \in Nat /\ q \in Seq(All) /\ Len(q) = m
            /\ \A i \in 1..m : Order(K)[i] \in K /\ q[i] = waitQueue[Order(K)[i]]
            /\ \A i, j \in 1..m : Order(K)[i] = Order(K)[j] => i = j
        BY <2>0, <3>2, PickedFacts
      <4> QED BY <4>1
    <3> HIDE DEF q, m, o
    <3>4. ASSUME NEW i \in 1..m
          PROVE  q[i] \in All \ {f} /\ \E k \in 1..Len(waitQueue) : q[i] = waitQueue[k]
      BY <3>2, <3>3
    <3>5. ASSUME NEW i \in 1..m, NEW j \in 1..m, q[i] = q[j] PROVE i = j
      <4>1. /\ o[i] \in 1..Len(waitQueue) /\ o[j] \in 1..Len(waitQueue)
            /\ waitQueue[o[i]] = waitQueue[o[j]]
        BY <3>2, <3>3, <3>5
      <4>2. o[i] = o[j]
        BY <4>1 DEF WaitQueueFits
      <4> QED BY <3>3, <4>2
    <3> QED BY <3>1, <3>3, <3>4, <3>5
  <2>2. CASE ~(LiveEvents(f) = {} /\ f \in ToSet(waitQueue))
    <3>1. waitQueue' = waitQueue
      BY <2>2 DEF TimedWaitReturn
    <3>2. \A i \in 1..Len(waitQueue) : waitQueue[i] # f
      <4>1. ASSUME NEW i \in 1..Len(waitQueue), waitQueue[i] = f PROVE FALSE
        <5>1. ~Asleep(f)
          BY <1>1, CurrentFacts
        <5>2. \A j \in 1..Len(events) : events[j].fiber = f => ~events[j].live
          BY <4>1, <5>1 DEF WaitQueueFits
        <5>3. LiveEvents(f) = {}
          BY <5>2, TypeFacts DEF LiveEvents
        <5>4. f \in ToSet(waitQueue)
          BY <2>0, <4>1 DEF ToSet
        <5> QED BY <2>2, <5>3, <5>4
      <4> QED BY <4>1
    <3> QED BY <2>0, <3>1, <3>2 DEF WaitQueueFits
  <2> QED BY <2>1, <2>2
<1>7. WaitTypeOK'
  <2>1. pc' \in [All -> {"unborn", "new", "run", "sleep", "wait", "waitLong", "delay", "check",
                       "period", "call", "fire", "done", "end"}]
    BY <1>1, <1>2 DEF WaitTypeOK
  <2> QED BY <1>1, <1>3, <1>6, <2>1 DEF WaitTypeOK, clockVars, timerVars
<1>8. Queued'
  BY <1>1 DEF Queued
<1>9. WaitQueueFits'
  <2>1. ASSUME NEW i \in 1..Len(waitQueue')
        PROVE  /\ pc'[waitQueue'[i]] \in {"wait", "waitLong"}
               /\ \/ state'[waitQueue'[i]] \in {"WAITING", "BLOCKED"}
                  \/ \A j \in 1..Len(events') : events'[j].fiber = waitQueue'[i] => ~events'[j].live
    <3>1. PICK g \in All \ {f}, k \in 1..Len(waitQueue) : g = waitQueue[k] /\ waitQueue'[i] = g
      BY <1>6
    <3>2. /\ pc[g] \in {"wait", "waitLong"}
          /\ Asleep(g) \/ \A j \in 1..Len(events) : events[j].fiber = g => ~events[j].live
      BY <3>1 DEF WaitQueueFits
    <3>3. (\A j \in 1..Len(events) : events[j].fiber = g => ~events[j].live)
          => \A j \in 1..Len(events') : events'[j].fiber = g => ~events'[j].live
      BY <1>3
    <3>4. pc'[g] \in {"wait", "waitLong"} /\ (Asleep(g) => state'[g] \in {"WAITING", "BLOCKED"})
      BY <1>1, <1>5, <3>2 DEF Asleep
    <3> QED BY <3>1, <3>2, <3>3, <3>4
  <2> QED BY <1>6, <2>1 DEF WaitQueueFits, Asleep
<1>10. Canceling'
  <2>1. ASSUME NEW t \in Timers
        PROVE  /\ ~canceled[t] => late[t] = 0
               /\ pc'[t] \in {"unborn", "new", "delay", "period", "call"} => late[t] = 0
               /\ period[t] = 0 => late[t] = 0 /\ pc'[t] \notin {"period", "call"}
               /\ late[t] <= 1
    <3>1. CASE t = f
      BY <1>2, <1>5, <3>1 DEF Canceling, Program
    <3>2. CASE t # f
      BY <1>5, <3>2, Constants DEF Canceling
    <3> QED BY <3>1, <3>2
  <2> QED BY <1>1, <2>1 DEF Canceling, timerVars
<1> QED BY <1>3, <1>4, <1>7, <1>8, <1>9, <1>10

-----------------------------------------------------------------------------
(* The other steps of fibers and timers.                                   *)

LEMMA WakeUpFiberKeeps ==
    ASSUME WaitInv, NEW f \in All, WakeUpFiber(f) PROVE WaitInv'
<1> USE DEF WaitInv
<1> DEFINE g == Head(waitQueue)
<1>1. /\ waitQueue \in Seq(All) /\ g \in All /\ g = waitQueue[1] /\ Len(waitQueue) \in Nat
      /\ Len(waitQueue) >= 1 /\ Tail(waitQueue) \in Seq(All)
      /\ Len(Tail(waitQueue)) = Len(waitQueue) - 1
      /\ \A i \in 1..Len(Tail(waitQueue)) :
             i + 1 \in 1..Len(waitQueue) /\ i + 1 # 1 /\ Tail(waitQueue)[i] = waitQueue[i + 1]
  BY TailFacts DEF WakeUpFiber, WaitTypeOK
<1>2. /\ waitQueue' = Tail(waitQueue) /\ loop = "run" /\ current # None
      /\ UNCHANGED <<clockVars, events, waiters, loop, left, current, pc, due, timerVars>>
      /\ \/ Asleep(g) /\ state' = [state EXCEPT ![g] = "RUNNABLE"] /\ queue' = Append(queue, g)
         \/ ~Asleep(g) /\ state' = state /\ queue' = queue
  BY DEF WakeUpFiber, InProgram, Has, WaitTypeOK
<1>3. 1 \in 1..Len(waitQueue) /\ pc[g] \in {"wait", "waitLong"}
  BY <1>1 DEF WaitQueueFits
<1> HIDE DEF g
<1>4. /\ \A h \in All \ {g} : state'[h] = state[h]
      /\ state'[g] = IF Asleep(g) THEN "RUNNABLE" ELSE state[g]
      /\ state' \in [All -> {"NEW", "RUNNABLE", "WAITING", "BLOCKED", "TERMINATED"}]
  BY <1>1, <1>2 DEF WaitTypeOK
<1>5. WaitTypeOK'
  <2>1. queue' \in Seq(All)
    <3>1. queue \in Seq(All) /\ (queue' = Append(queue, g) \/ queue' = queue)
      BY <1>2 DEF WaitTypeOK
    <3>2. g \in All
      BY <1>1
    <3>3. Append(queue, g) \in Seq(All)
      BY <3>1, <3>2, AppendFacts
    <3> QED BY <3>1, <3>3
  <2> QED BY <1>1, <1>2, <1>4, <2>1 DEF WaitTypeOK, clockVars, timerVars
<1>6. StatesFit'
  <2>1. ASSUME NEW h \in All
        PROVE  /\ pc[h] = "unborn" <=> state'[h] = "NEW"
               /\ pc[h] = "end" <=> state'[h] = "TERMINATED"
               /\ state'[h] = "WAITING" => pc[h] \in {"sleep", "delay", "period"}
               /\ state'[h] = "BLOCKED" => pc[h] \in {"wait", "waitLong"}
               /\ h \in Fibers => pc[h] \in {"unborn", "run", "sleep", "wait", "waitLong", "end"}
               /\ h \in Timers => pc[h] # "run"
    <3>1. CASE h = g
      BY <1>3, <1>4, <3>1 DEF StatesFit, Sleeping
    <3>2. CASE h # g
      BY <1>4, <3>2 DEF StatesFit, Sleeping
    <3> QED BY <3>1, <3>2
  <2> QED BY <1>2, <2>1 DEF StatesFit, Sleeping
<1>7. Queued'
  <2>1. CASE Asleep(g)
    <3>1. queue \in Seq(All)
      BY DEF WaitTypeOK
    <3>2. /\ queue' = Append(queue, g) /\ Len(queue) \in Nat
          /\ Len(queue') = Len(queue) + 1 /\ queue'[Len(queue) + 1] = g
          /\ \A i \in 1..Len(queue) : queue'[i] = queue[i]
          /\ \A i \in 1..(Len(queue) + 1) : i \in 1..Len(queue) \/ i = Len(queue) + 1
      <4>1. queue' = Append(queue, g) /\ g \in All
        BY <1>1, <1>2, <2>1
      <4> QED BY <3>1, <4>1, AppendFacts
    <3>3. \A i \in 1..Len(queue) : queue[i] # g
      BY <2>1 DEF Queued, Asleep
    <3>4. g # current
      BY <1>2, <2>1 DEF Queued, Asleep
    <3>5. \A i \in 1..Len(queue) : queue[i] \in All /\ state'[queue[i]] = "RUNNABLE"
      BY <1>4, <3>1, <3>3 DEF Queued
    <3>6. current \in All /\ state'[current] = "RUNNABLE"
      BY <1>2, <1>4, <3>4 DEF Queued, WaitTypeOK
    <3>7. \A i \in 1..Len(queue') : state'[queue'[i]] = "RUNNABLE" /\ queue'[i] # current
      BY <1>4, <2>1, <3>2, <3>4, <3>5 DEF Queued
    <3>8. \A i, j \in 1..Len(queue') : queue'[i] = queue'[j] => i = j
      BY <3>2, <3>3 DEF Queued
    <3> QED BY <1>2, <3>6, <3>7, <3>8 DEF Queued
  <2>2. CASE ~Asleep(g)
    BY <1>2, <2>2 DEF Queued
  <2> QED BY <2>1, <2>2
<1>8. Clocked'
  <2>1. NeverEarly'
    <3>1. ASSUME NEW h \in All, pc[h] \in {"sleep", "delay", "period"}, state'[h] = "RUNNABLE"
          PROVE  skewed \/ now >= due[h]
      <4>1. h # g
        BY <1>3, <3>1
      <4> QED BY <1>4, <3>1, <4>1 DEF Clocked, NeverEarly, Sleeping
    <3> QED BY <1>2, <3>1 DEF NeverEarly, Sleeping, clockVars
  <2> QED BY <1>2, <2>1 DEF Clocked, Sec, When, clockVars
<1>9. EventsFit'
  <2>1. \A i \in 1..Len(events) : events[i].fiber \in All
    BY TypeFacts
  <2>2. ASSUME NEW i \in 1..Len(events), events[i].live
        PROVE  \/ pc[events[i].fiber] = "wait"
               \/ /\ pc[events[i].fiber] \in {"sleep", "delay", "period"}
                  /\ state'[events[i].fiber] \in {"WAITING", "BLOCKED"}
    <3>1. PICK h \in All : h = events[i].fiber
      BY <2>1
    <3>2. pc[h] = "wait" \/ (Sleeping(h) /\ Asleep(h))
      BY <2>2, <3>1 DEF EventsFit
    <3>3. CASE h = g
      BY <1>3, <3>1, <3>2, <3>3 DEF Sleeping
    <3>4. CASE h # g
      BY <1>4, <3>1, <3>2, <3>4 DEF Sleeping, Asleep
    <3> QED BY <3>3, <3>4
  <2>3. \A h \in All : state'[h] \in {"WAITING", "BLOCKED"} => Asleep(h)
    BY <1>4 DEF Asleep
  <2> QED BY <1>2, <2>2, <2>3 DEF EventsFit, Timed, Sleeping, Asleep
<1>10. WaitQueueFits'
  <2>1. ASSUME NEW i \in 1..Len(Tail(waitQueue))
        PROVE  /\ pc[Tail(waitQueue)[i]] \in {"wait", "waitLong"}
               /\ \/ state'[Tail(waitQueue)[i]] \in {"WAITING", "BLOCKED"}
                  \/ \A j \in 1..Len(events) :
                         events[j].fiber = Tail(waitQueue)[i] => ~events[j].live
    <3>1. PICK h \in All, k \in 1..Len(waitQueue) : h = waitQueue[k] /\ h = Tail(waitQueue)[i] /\ k # 1
      BY <1>1
    <3>2. h # g
      BY <1>1, <1>3, <3>1 DEF WaitQueueFits, g
    <3> QED BY <1>4, <3>1, <3>2 DEF WaitQueueFits, Asleep
  <2>2. \A i, j \in 1..Len(Tail(waitQueue)) : Tail(waitQueue)[i] = Tail(waitQueue)[j] => i = j
    <3>1. ASSUME NEW i \in 1..Len(Tail(waitQueue)), NEW j \in 1..Len(Tail(waitQueue)),
                 Tail(waitQueue)[i] = Tail(waitQueue)[j]
          PROVE  i = j
      <4>1. i + 1 = j + 1
        BY <1>1, <3>1 DEF WaitQueueFits
      <4> QED BY <1>1, <4>1
    <3> QED BY <3>1
  <2> QED BY <1>2, <2>1, <2>2 DEF WaitQueueFits, Asleep
<1>11. Canceling'
  BY <1>2 DEF Canceling, timerVars
<1> QED BY <1>5, <1>6, <1>7, <1>8, <1>9, <1>10, <1>11

\* A fiber that waits for no time changes neither the events nor their times.
LEMMA UntimedFrame ==
    ASSUME WaitInv, NEW f \in All, ~Timed(f), NEW at, pc' = [pc EXCEPT ![f] = at],
           at \notin {"sleep", "wait", "delay", "period"},
           NEW s, state' = [state EXCEPT ![f] = s], current' \in {current, None},
           loop' # "poll",
           UNCHANGED <<events, waiters, due, clockVars>>
    PROVE  EventsFit' /\ Clocked'
<1> USE DEF WaitInv
<1>1. \A g \in All \ {f} : state'[g] = state[g] /\ pc'[g] = pc[g]
  BY DEF WaitTypeOK
<1>2. pc'[f] = at /\ ~Timed(f)'
  BY DEF WaitTypeOK, Timed
<1>3. \A i \in 1..Len(events) : events[i].fiber \in All /\ events[i].fiber # None
  BY TypeFacts, Constants
<1>4. EventsFit'
  <2>1. ASSUME NEW i \in 1..Len(events), events[i].live
        PROVE  \/ pc'[events[i].fiber] = "wait"
               \/ /\ pc'[events[i].fiber] \in {"sleep", "delay", "period"}
                  /\ state'[events[i].fiber] \in {"WAITING", "BLOCKED"}
    <3>1. PICK g \in All : g = events[i].fiber /\ g # None
      BY <1>3
    <3>2. pc[g] = "wait" \/ (Sleeping(g) /\ Asleep(g))
      BY <2>1, <3>1 DEF EventsFit
    <3>3. CASE g = f
      BY <3>1, <3>2, <3>3 DEF Timed, Sleeping
    <3>4. CASE g # f
      BY <1>1, <3>1, <3>2, <3>4 DEF Sleeping, Asleep
    <3> QED BY <3>3, <3>4
  <2>2. ASSUME NEW g \in All, Timed(g)', Asleep(g)'
        PROVE  \E i \in 1..Len(events) : events[i].live /\ events[i].fiber = g
    <3>1. Timed(g) /\ Asleep(g)
      BY <1>1, <1>2, <2>2 DEF Timed, Asleep
    <3> QED BY <3>1 DEF EventsFit
  <2>3. {g \in All : Timed(g)'} = {g \in All : Timed(g)}
    BY <1>1, <1>2 DEF Timed
  <2> QED BY <2>1, <2>2, <2>3 DEF EventsFit, Sleeping, Asleep
<1>5. Clocked'
  <2>1. NeverEarly'
    <3>1. ASSUME NEW g \in All, pc'[g] \in {"sleep", "delay", "period"}, state'[g] = "RUNNABLE"
          PROVE  skewed \/ now >= due[g]
      <4>1. g # f
        BY <1>2, <3>1
      <4> QED BY <1>1, <3>1, <4>1 DEF Clocked, NeverEarly, Sleeping
    <3> QED BY <3>1 DEF NeverEarly, Sleeping, clockVars
  <2> QED BY <2>1 DEF Clocked, Sec, When, clockVars
<1> QED BY <1>4, <1>5

LEMMA YieldKeeps ==
    ASSUME WaitInv, NEW f \in All, Yield(f) PROVE WaitInv'
<1> USE DEF WaitInv
<1>1. /\ Has(f) /\ queue' = Append(queue, f) /\ loop' = "top" /\ current' = None
      /\ UNCHANGED <<clockVars, events, waiters, left, state, pc, due, waitQueue, timerVars>>
  BY DEF Yield, InProgram, BackToLoop, waitVars
<1>2. /\ state[f] = "RUNNABLE" /\ \A i \in 1..Len(queue) : queue[i] # f /\ queue[i] \in All
      /\ f # None
  BY <1>1, CurrentFacts DEF WaitTypeOK
<1>3. /\ queue' \in Seq(All) /\ Len(queue) \in Nat
      /\ Len(queue') = Len(queue) + 1 /\ queue'[Len(queue) + 1] = f
      /\ \A i \in 1..Len(queue) : queue'[i] = queue[i]
      /\ \A i \in 1..(Len(queue) + 1) : i \in 1..Len(queue) \/ i = Len(queue) + 1
  BY <1>1, AppendFacts DEF WaitTypeOK
<1>4. WaitTypeOK'
  BY <1>1, <1>3 DEF WaitTypeOK, clockVars, timerVars
<1>5. StatesFit' /\ WaitQueueFits' /\ EventsFit'
  <2>1. \A i \in 1..Len(events) : events[i].fiber # None
    BY TypeFacts, Constants
  <2> QED BY <1>1, <2>1 DEF StatesFit, WaitQueueFits, EventsFit, Timed, Sleeping, Asleep
<1>6. Queued'
  <2>1. \A i \in 1..Len(queue') : state[queue'[i]] = "RUNNABLE" /\ queue'[i] # None
    BY <1>2, <1>3, Constants DEF Queued
  <2>2. \A i, j \in 1..Len(queue') : queue'[i] = queue'[j] => i = j
    BY <1>2, <1>3 DEF Queued
  <2> QED BY <1>1, <2>1, <2>2 DEF Queued
<1>7. Clocked'
  BY <1>1 DEF Clocked, NeverEarly, Sleeping, Sec, When, clockVars
<1>8. Canceling'
  BY <1>1 DEF Canceling, timerVars
<1> QED BY <1>4, <1>5, <1>6, <1>7, <1>8

LEMMA EndRunKeeps ==
    ASSUME WaitInv, NEW f \in All, Has(f), pc[f] \in {"run", "done", "check"}, EndRun(f)
    PROVE  WaitInv'
<1> USE DEF WaitInv
<1>1. /\ state' = [state EXCEPT ![f] = "TERMINATED"] /\ pc' = [pc EXCEPT ![f] = "end"]
      /\ loop' = "top" /\ current' = None
      /\ UNCHANGED <<clockVars, events, waiters, queue, left, due, waitQueue, timerVars>>
  BY DEF EndRun, Become, BackToLoop, waitVars
<1>2. /\ state'[f] = "TERMINATED" /\ pc'[f] = "end"
      /\ \A g \in All \ {f} : state'[g] = state[g] /\ pc'[g] = pc[g]
  BY <1>1 DEF WaitTypeOK
<1>3. ~Timed(f)
  BY DEF Timed
<1>4. EventsFit' /\ Clocked'
  BY <1>1, <1>3, UntimedFrame
<1>5. WaitTypeOK'
  BY <1>1 DEF WaitTypeOK, clockVars, timerVars
<1>6. StatesFit'
  <2>1. ASSUME NEW g \in All
        PROVE  /\ pc'[g] = "unborn" <=> state'[g] = "NEW"
               /\ pc'[g] = "end" <=> state'[g] = "TERMINATED"
               /\ state'[g] = "WAITING" => pc'[g] \in {"sleep", "delay", "period"}
               /\ state'[g] = "BLOCKED" => pc'[g] \in {"wait", "waitLong"}
               /\ g \in Fibers => pc'[g] \in {"unborn", "run", "sleep", "wait", "waitLong", "end"}
               /\ g \in Timers => pc'[g] # "run"
    <3>1. CASE g = f
      BY <1>2, <3>1
    <3>2. CASE g # f
      BY <1>2, <3>2 DEF StatesFit, Sleeping
    <3> QED BY <3>1, <3>2
  <2> QED BY <2>1 DEF StatesFit, Sleeping
<1>7. Queued'
  BY <1>1, <1>2, GiveBackQueued
<1>8. WaitQueueFits'
  <2>1. \A i \in 1..Len(waitQueue) : waitQueue[i] \in All \ {f}
    <3>1. \A i \in 1..Len(waitQueue) : waitQueue[i] \in All
      BY DEF WaitTypeOK
    <3>2. \A i \in 1..Len(waitQueue) : waitQueue[i] # f
      BY CurrentFacts
    <3> QED BY <3>1, <3>2
  <2> QED BY <1>1, <1>2, <2>1 DEF WaitQueueFits, Asleep
<1>9. Canceling'
  <2>1. ASSUME NEW t \in Timers
        PROVE  /\ ~canceled[t] => late[t] = 0
               /\ pc'[t] \in {"unborn", "new", "delay", "period", "call"} => late[t] = 0
               /\ period[t] = 0 => late[t] = 0 /\ pc'[t] \notin {"period", "call"}
               /\ late[t] <= 1
    <3>1. CASE t = f
      BY <1>2, <3>1 DEF Canceling
    <3>2. CASE t # f
      BY <1>2, <3>2, Constants DEF Canceling
    <3> QED BY <3>1, <3>2
  <2> QED BY <1>1, <2>1 DEF Canceling, timerVars
<1> QED BY <1>4, <1>5, <1>6, <1>7, <1>8, <1>9

\* Setting and removing a local, and canceling a timer.
LEMMA CallsKeep ==
    ASSUME WaitInv,
           \/ \E f \in All, l \in Locals : SetLocal(f, l) \/ RemoveLocal(f, l)
           \/ \E f \in All, t \in Timers : CancelTimer(f, t)
    PROVE  WaitInv'
<1> USE DEF WaitInv
<1>1. /\ UNCHANGED <<clockVars, events, waiters, queue, loop, left, current, state, pc, due,
                     waitQueue, delay, period, late>>
      /\ canceled' = canceled \/ \E t \in Timers : canceled' = [canceled EXCEPT ![t] = TRUE]
  BY DEF SetLocal, RemoveLocal, CancelTimer, waitVars, timerVars
<1>2. canceled' \in [Timers -> BOOLEAN] /\ \A t \in Timers : ~canceled'[t] => ~canceled[t]
  BY <1>1 DEF WaitTypeOK
<1>3. WaitTypeOK'
  BY <1>1, <1>2 DEF WaitTypeOK, clockVars
<1>4. StatesFit' /\ WaitQueueFits' /\ EventsFit' /\ Queued'
  BY <1>1 DEF StatesFit, WaitQueueFits, EventsFit, Queued, Timed, Sleeping, Asleep
<1>5. Clocked'
  BY <1>1 DEF Clocked, NeverEarly, Sleeping, Sec, When, clockVars
<1>6. Canceling'
  BY <1>1, <1>2 DEF Canceling
<1> QED BY <1>3, <1>4, <1>5, <1>6

\* A new fiber, made by another one, by a timer, or before join().
LEMMA MadeKeeps ==
    ASSUME WaitInv, NEW f \in All \union {None}, NEW t \in All, NEW at, Made(f, t, at),
           \/ t \in Fibers /\ at = "run"
           \/ t \in Timers /\ at = "new",
           loop \in {"run", "before"}, UNCHANGED <<canceled, late>>,
           delay' \in [Timers -> Nat], period' \in [Timers -> Nat],
           \A u \in Timers \ {t} : period'[u] = period[u]
    PROVE  WaitInv'
<1> USE DEF WaitInv
<1>1. /\ pc[t] = "unborn" /\ state' = [state EXCEPT ![t] = "RUNNABLE"]
      /\ pc' = [pc EXCEPT ![t] = at] /\ queue' = Append(queue, t)
      /\ UNCHANGED <<clockVars, events, waiters, loop, left, current, due, waitQueue>>
  BY DEF Made, Become, waitVars
<1>3. t # None /\ (t \in Fibers => t \notin Timers) /\ at \in {"run", "new"}
  BY Constants
<1>5. /\ state'[t] = "RUNNABLE" /\ pc'[t] = at
      /\ \A g \in All \ {t} : state'[g] = state[g] /\ pc'[g] = pc[g]
  BY <1>1 DEF WaitTypeOK
<1>6. state[t] = "NEW"
  BY <1>1 DEF StatesFit
<1>7. queue \in Seq(All) /\ \A i \in 1..Len(queue) : queue[i] \in All \ {t}
  BY <1>6 DEF WaitTypeOK, Queued
<1>8. /\ queue' \in Seq(All) /\ Len(queue) \in Nat
      /\ Len(queue') = Len(queue) + 1 /\ queue'[Len(queue) + 1] = t
      /\ \A i \in 1..Len(queue) : queue'[i] = queue[i]
      /\ \A i \in 1..(Len(queue) + 1) : i \in 1..Len(queue) \/ i = Len(queue) + 1
  BY <1>1, <1>7, AppendFacts
<1>9. current # t
  BY <1>3, <1>6 DEF Queued
<1>10. WaitTypeOK'
  <2>1. pc' \in [All -> {"unborn", "new", "run", "sleep", "wait", "waitLong", "delay", "check",
                       "period", "call", "fire", "done", "end"}]
    BY <1>1, <1>3 DEF WaitTypeOK
  <2> QED BY <1>1, <1>8, <2>1 DEF WaitTypeOK, clockVars
<1>11. EventsFit' /\ Clocked'
  <2>1. ~Timed(t) /\ at \notin {"sleep", "wait", "delay", "period"}
    BY <1>1, <1>3 DEF Timed
  <2> QED BY <1>1, <2>1, UntimedFrame
<1>12. StatesFit'
  <2>1. ASSUME NEW g \in All
        PROVE  /\ pc'[g] = "unborn" <=> state'[g] = "NEW"
               /\ pc'[g] = "end" <=> state'[g] = "TERMINATED"
               /\ state'[g] = "WAITING" => pc'[g] \in {"sleep", "delay", "period"}
               /\ state'[g] = "BLOCKED" => pc'[g] \in {"wait", "waitLong"}
               /\ g \in Fibers => pc'[g] \in {"unborn", "run", "sleep", "wait", "waitLong", "end"}
               /\ g \in Timers => pc'[g] # "run"
    <3>1. CASE g = t
      BY <1>3, <1>5, <3>1
    <3>2. CASE g # t
      BY <1>5, <3>2 DEF StatesFit, Sleeping
    <3> QED BY <3>1, <3>2
  <2> QED BY <2>1 DEF StatesFit, Sleeping
<1>13. Queued'
  <2>1. \A i \in 1..Len(queue') : state'[queue'[i]] = "RUNNABLE" /\ queue'[i] # current
    BY <1>5, <1>7, <1>8, <1>9 DEF Queued
  <2>2. \A i, j \in 1..Len(queue') : queue'[i] = queue'[j] => i = j
    BY <1>7, <1>8 DEF Queued
  <2>3. current # None => state'[current] = "RUNNABLE"
    BY <1>5, <1>9 DEF Queued, WaitTypeOK
  <2> QED BY <1>1, <2>1, <2>2, <2>3 DEF Queued
<1>14. WaitQueueFits'
  <2>1. \A i \in 1..Len(waitQueue) : waitQueue[i] \in All
    BY DEF WaitTypeOK
  <2>2. \A i \in 1..Len(waitQueue) : waitQueue[i] # t
    BY <1>1 DEF WaitQueueFits
  <2>3. \A i \in 1..Len(waitQueue) : waitQueue[i] \in All \ {t}
    BY <2>1, <2>2
  <2> QED BY <1>1, <1>5, <2>3 DEF WaitQueueFits, Asleep
<1>15. Canceling'
  <2>1. ASSUME NEW u \in Timers
        PROVE  /\ ~canceled[u] => late[u] = 0
               /\ pc'[u] \in {"unborn", "new", "delay", "period", "call"} => late[u] = 0
               /\ period'[u] = 0 => late[u] = 0 /\ pc'[u] \notin {"period", "call"}
               /\ late[u] <= 1
    <3>1. CASE u = t
      BY <1>1, <1>3, <1>5, <3>1 DEF Canceling
    <3>2. CASE u # t
      BY <1>5, <3>2, Constants DEF Canceling
    <3> QED BY <3>1, <3>2
  <2> QED BY <2>1 DEF Canceling
<1> QED BY <1>10, <1>11, <1>12, <1>13, <1>14, <1>15

LEMMA SpawnKeeps ==
    ASSUME WaitInv, NEW f \in All, NEW g \in Fibers, Spawn(f, g) PROVE WaitInv'
<1>1. /\ Made(f, g, "run") /\ loop = "run" /\ g \in All
      /\ UNCHANGED <<delay, period, canceled, late>>
  BY DEF Spawn, InProgram, Has, timerVars, All
<1>2. delay' \in [Timers -> Nat] /\ period' \in [Timers -> Nat]
  BY <1>1 DEF WaitInv, WaitTypeOK
<1> QED BY <1>1, <1>2, MadeKeeps

LEMMA AddTimerKeeps ==
    ASSUME WaitInv, NEW f \in All \union {None}, NEW t \in Timers, AddTimer(f, t)
    PROVE  WaitInv'
<1>1. Made(f, t, "new") /\ loop \in {"run", "before"} /\ UNCHANGED <<canceled, late>>
  BY DEF AddTimer, InProgram, Has
<1>2. PICK d \in Delays, p \in Periods :
          delay' = [delay EXCEPT ![t] = d] /\ period' = [period EXCEPT ![t] = p]
  BY DEF AddTimer
<1>3. t \in All /\ d \in Nat /\ p \in Nat
  BY Constants
<1>4. delay' \in [Timers -> Nat] /\ period' \in [Timers -> Nat]
      /\ \A u \in Timers \ {t} : period'[u] = period[u]
  BY <1>2, <1>3 DEF WaitInv, WaitTypeOK
<1> QED BY <1>1, <1>3, <1>4, MadeKeeps

LEMMA TimerRunKeeps ==
    ASSUME WaitInv, NEW t \in Timers, RunTimer(t) \/ ReturnTimer(t) PROVE WaitInv'
<1> USE DEF WaitInv
<1>1. t \in All /\ t \notin Fibers
  BY Constants
<1> DEFINE at == IF Ready(t) THEN "fire" ELSE IF period[t] > 0 THEN "check" ELSE "done"
<1>2. /\ Has(t) /\ pc[t] \in {"call", "check", "fire"} /\ pc' = [pc EXCEPT ![t] = at]
      /\ UNCHANGED <<clockVars, events, waiters, queue, loop, left, current, state, due,
                     waitQueue, delay, period, canceled>>
  BY DEF RunTimer, ReturnTimer, Ready, waitVars, timerVars
<1>3. at \in {"fire", "check", "done"}
  OBVIOUS
<1>4. /\ late' \in [Timers -> 0..2] /\ \A u \in Timers \ {t} : late'[u] = late[u]
      /\ ~canceled[t] => late'[t] = 0
      /\ period[t] = 0 => late'[t] = 0
      /\ late'[t] <= 1
  <2>1. CASE RunTimer(t)
    <3>1. late' = [late EXCEPT ![t] = IF canceled[t] /\ late[t] < 2 THEN late[t] + 1 ELSE late[t]]
      BY <2>1 DEF RunTimer
    <3>2. late[t] = 0 /\ (canceled[t] => period[t] # 0)
      <4>1. pc[t] = "call" \/ (pc[t] = "check" /\ period[t] = 0 /\ ~canceled[t])
        BY <2>1 DEF RunTimer, Ready, GoesOn
      <4> QED BY <4>1 DEF Canceling
    <3>3. late \in [Timers -> 0..2]
      BY DEF WaitTypeOK
    <3> QED BY <3>1, <3>2, <3>3
  <2>2. CASE ReturnTimer(t)
    <3>1. late' = late
      BY <2>2 DEF ReturnTimer, timerVars
    <3> QED BY <3>1 DEF Canceling, WaitTypeOK
  <2> QED BY <2>1, <2>2
<1> HIDE DEF at
<1>5. pc'[t] = at /\ \A g \in All \ {t} : pc'[g] = pc[g]
  BY <1>1, <1>2 DEF WaitTypeOK
<1>6. WaitTypeOK'
  <2>1. pc' \in [All -> {"unborn", "new", "run", "sleep", "wait", "waitLong", "delay", "check",
                       "period", "call", "fire", "done", "end"}]
    BY <1>2, <1>3 DEF WaitTypeOK
  <2> QED BY <1>2, <1>4, <2>1 DEF WaitTypeOK, clockVars
<1>7. StatesFit'
  BY <1>1, <1>2, <1>3, GoOnStatesFit
<1>8. Queued'
  BY <1>2 DEF Queued
<1>9. EventsFit' /\ Clocked'
  <2>1. ~Timed(t) /\ at \notin {"sleep", "wait", "delay", "period"}
    BY <1>2, <1>3 DEF Timed
  <2>2. state' = [state EXCEPT ![t] = state[t]] /\ loop' # "poll" /\ current' \in {current, None}
    BY <1>2 DEF WaitTypeOK, Has
  <2> QED BY <1>1, <1>2, <2>1, <2>2, UntimedFrame
<1>10. WaitQueueFits'
  <2>1. \A i \in 1..Len(waitQueue) : waitQueue[i] \in All \ {t}
    <3>1. \A i \in 1..Len(waitQueue) : waitQueue[i] \in All
      BY DEF WaitTypeOK
    <3>2. \A i \in 1..Len(waitQueue) : waitQueue[i] # t
      BY <1>1, <1>2, CurrentFacts
    <3> QED BY <3>1, <3>2
  <2> QED BY <1>2, <1>5, <2>1 DEF WaitQueueFits, Asleep
<1>11. Canceling'
  <2>1. ASSUME NEW u \in Timers
        PROVE  /\ ~canceled[u] => late'[u] = 0
               /\ pc'[u] \in {"unborn", "new", "delay", "period", "call"} => late'[u] = 0
               /\ period[u] = 0 => late'[u] = 0 /\ pc'[u] \notin {"period", "call"}
               /\ late'[u] <= 1
    <3>1. CASE u = t
      BY <1>3, <1>4, <1>5, <3>1
    <3>2. CASE u # t
      BY <1>4, <1>5, <3>2, Constants DEF Canceling
    <3> QED BY <3>1, <3>2
  <2> QED BY <1>2, <2>1 DEF Canceling
<1> QED BY <1>6, <1>7, <1>8, <1>9, <1>10, <1>11

-----------------------------------------------------------------------------
(* The invariant of the waits holds, and what follows from it.             *)

LEMMA InitWait == Init => WaitInv
<1> SUFFICES ASSUME Init PROVE WaitInv
  OBVIOUS
<1> USE DEF Init
<1>1. Sec(now) = 1
  <2>1. \A s \in Nat \ {0} : s \div s = 1
    BY Z3
  <2> QED BY <2>1, Constants DEF Sec
<1>2. /\ queue \in Seq(All) /\ Len(queue) \in Nat
      /\ \A i \in 1..Len(queue) : queue[i] \in Fibers /\ queue[i] \in ToSet(queue)
      /\ \A i, j \in 1..Len(queue) : queue[i] = queue[j] => i = j
      /\ ToSet(queue) \subseteq Fibers
  <2>1. PICK first \in SUBSET Fibers : queue \in SetToSeqs(first)
    OBVIOUS
  <2> DEFINE n == Cardinality(first)
  <2>2. first \subseteq All /\ IsFiniteSet(first) /\ n \in Nat
    <3>1. first \subseteq All
      BY DEF All
    <3> QED BY <3>1, Constants, FS_Subset, FS_CardinalityType
  <2>3. /\ queue \in [1..n -> first]
        /\ \A i, j \in 1..n : i # j => queue[i] # queue[j]
    BY <2>1 DEF SetToSeqs
  <2> HIDE DEF n
  <2>4. queue \in [1..n -> All]
    BY <2>2, <2>3
  <2>5. queue \in Seq(All) /\ Len(queue) = n /\ DOMAIN queue = 1..n
    BY <2>2, <2>4
  <2>6. ToSet(queue) = {queue[i] : i \in 1..n}
    BY <2>5 DEF ToSet
  <2> QED BY <2>2, <2>3, <2>5, <2>6
<1>3. \A f \in All : ~Timed(f) /\ ~Sleeping(f) /\ (f \in Timers => f \notin ToSet(queue))
  BY <1>2, FiberTimersAssumption DEF Timed, Sleeping
<1>4. WaitTypeOK
  <2>1. now \in Second..Horizon
    BY Constants
  <2>2. events \in Seq(EventType) /\ waitQueue \in Seq(All)
    OBVIOUS
  <2>3. /\ state \in [All -> {"NEW", "RUNNABLE", "WAITING", "BLOCKED", "TERMINATED"}]
        /\ pc \in [All -> {"unborn", "new", "run", "sleep", "wait", "waitLong", "delay", "check",
                           "period", "call", "fire", "done", "end"}]
        /\ due \in [All -> Nat]
    OBVIOUS
  <2>4. /\ delay \in [Timers -> Nat] /\ period \in [Timers -> Nat]
        /\ canceled \in [Timers -> BOOLEAN] /\ late \in [Timers -> 0..2]
    OBVIOUS
  <2> QED BY <1>2, <2>1, <2>2, <2>3, <2>4 DEF WaitTypeOK
<1>5. StatesFit
  BY <1>2, <1>3, Constants DEF StatesFit
<1>6. Queued
  <2>1. \A i \in 1..Len(queue) : queue[i] \in All /\ queue[i] # None
    BY <1>2, Constants DEF All
  <2> QED BY <1>2, <2>1 DEF Queued
<1>7. Clocked
  BY <1>1, <1>3 DEF Clocked, NeverEarly
<1>8. EventsFit
  <2>1. {f \in All : Timed(f)} = {}
    BY <1>3
  <2>2. Cardinality({}) = 0
    BY FS_EmptySet
  <2>3. Len(events) = 0
    OBVIOUS
  <2>4. waiters = Cardinality({f \in All : Timed(f)})
    BY <2>1, <2>2
  <2> QED BY <1>3, <2>3, <2>4 DEF EventsFit
<1>9. WaitQueueFits /\ Canceling
  BY Constants DEF WaitQueueFits, Canceling
<1> QED BY <1>4, <1>5, <1>6, <1>7, <1>8, <1>9 DEF WaitInv

LEMMA StepWait == WaitInv /\ [Next]_vars => WaitInv'
<1> SUFFICES ASSUME WaitInv, [Next]_vars PROVE WaitInv'
  OBVIOUS
<1>1. CASE Loop
  BY <1>1, JoinLeaveKeeps, DispatchKeeps, IdleKeeps, PollReturnKeeps DEF Loop
<1>2. CASE Tick \/ SetBack
  BY <1>2, TickKeeps, SetBackKeeps
<1>3. CASE \E f \in All : GoOn(f)
  <2>1. PICK f \in All : GoOn(f)
    BY <1>3
  <2>2. CASE End(f)
    <3>1. Has(f) /\ pc[f] \in {"run", "done", "check"} /\ EndRun(f)
      BY <2>2, Constants DEF End, InProgram, Program
    <3> QED BY <3>1, EndRunKeeps
  <2>3. CASE \E d \in Durations : Sleep(f, d) \/ TimedWait(f, d)
    BY <2>3, SleepersKeep, TimedWaitKeeps
  <2> QED BY <2>1, <2>2, <2>3, SleepReturnKeeps, TimedWaitReturnKeeps, YieldKeeps DEF GoOn
<1>4. CASE \E f \in All : WakeUpFiber(f)
  BY <1>4, WakeUpFiberKeeps
<1>5. CASE \/ \E f \in All, l \in Locals : SetLocal(f, l) \/ RemoveLocal(f, l)
           \/ \E f \in All, t \in Timers : CancelTimer(f, t)
  BY <1>5, CallsKeep
<1>6. CASE \E t \in Timers : TimerStep(t)
  <2>1. PICK t \in Timers : TimerStep(t)
    BY <1>6
  <2>2. CASE EndTimer(t)
    <3>1. t \in All /\ Has(t) /\ pc[t] \in {"run", "done", "check"} /\ EndRun(t)
      BY <2>2, Constants DEF EndTimer
    <3> QED BY <3>1, EndRunKeeps
  <2> QED BY <2>1, <2>2, SleepersKeep, TimerRunKeeps DEF TimerStep
<1>7. CASE \/ \E f \in All, g \in Fibers : Spawn(f, g)
           \/ \E t \in Timers, f \in All \union {None} : AddTimer(f, t)
  BY <1>7, SpawnKeeps, AddTimerKeeps
<1>8. CASE UNCHANGED vars
  <2>1. UNCHANGED <<now, skewed, lastTime, events, waiters, queue, loop, left, current, state, pc,
                    due, waitQueue, delay, period, canceled, late>>
    BY <1>8 DEF vars, clockVars, waitVars, timerVars
  <2> QED
    BY <2>1 DEF WaitInv, WaitTypeOK, StatesFit, Queued, Clocked, EventsFit, WaitQueueFits,
                Canceling, Timed, Sleeping, Asleep, NeverEarly, Sec, When
<1>9. CASE ThreadStep
  BY <1>1, <1>3, <1>6, <1>9 DEF ThreadStep
<1> QED BY <1>2, <1>4, <1>5, <1>7, <1>8, <1>9 DEF Next

LEMMA WaitInvariant == Spec => []WaitInv
<1>1. Init => WaitInv
  BY InitWait
<1>2. WaitInv /\ [Next]_vars => WaitInv'
  BY StepWait
<1> QED BY <1>1, <1>2, PTL DEF Spec

\* eco_ae.c adds seconds and milliseconds, carries, borrows and clips: for
\* every duration and every time of day a sleep is not over early, and the
\* poller is not asleep a second or more past an event that is waited for.
THEOREM OnTimeHolds == Spec => []OnTime
<1>1. ASSUME WaitInv PROVE OnTime
  <2>1. NeverEarly
    BY <1>1 DEF WaitInv, Clocked
  <2>2. ASSUME loop = "poll", NEW e \in ToSet(events), e.live
        PROVE  left <= Allowed(When(e) - now)
    <3>1. PICK i \in 1..Len(events) : e = events[i]
      BY <1>1, <2>2, TypeFacts DEF WaitInv, ToSet
    <3> QED BY <1>1, <2>2, <3>1 DEF WaitInv, Clocked
  <2> QED BY <2>1, <2>2 DEF OnTime, OversleepsLessThanSecond, Allowed
<1> QED BY <1>1, WaitInvariant, PTL

\* setupTimer, cancelTimer and processTimeEvents keep one event for each
\* fiber that waits with a time, and EIoWaiter's count of them is right; so
\* nothing wakes a fiber for a wait that is over.
THEOREM WaitsHaveEventsHolds == Spec => []WaitsHaveEvents
<1>1. ASSUME WaitInv PROVE WaitsHaveEvents
  <2>1. EventsFit /\ WaitTypeOK /\ DOMAIN events = 1..Len(events)
    BY <1>1, TypeFacts DEF WaitInv
  <2>2. ASSUME NEW f \in All, Timed(f), Asleep(f) PROVE Cardinality(LiveEvents(f)) = 1
    <3>1. PICK i \in 1..Len(events) : events[i].live /\ events[i].fiber = f
      BY <2>1, <2>2 DEF EventsFit
    <3>2. LiveEvents(f) = {i}
      BY <2>1, <3>1 DEF LiveEvents, EventsFit
    <3> QED BY <3>2, FS_Singleton
  <2>3. ASSUME NEW f \in All, ~Timed(f) PROVE LiveEvents(f) = {}
    BY <2>1, <2>3 DEF LiveEvents, EventsFit, Timed, Sleeping
  <2>4. waiters = Cardinality({f \in All : Timed(f)})
    BY <2>1 DEF EventsFit
  <2> QED BY <2>2, <2>3, <2>4 DEF WaitsHaveEvents
<1> QED BY <1>1, WaitInvariant, PTL

\* EFiberTimer::cancel against TimberFiber::run, which looks at `canceled'
\* before a single run and before each sleep of a period, not after it.
THEOREM CancelStopsHolds == Spec => []CancelStops
<1>1. ASSUME WaitInv PROVE CancelStops
  <2>1. ASSUME NEW t \in Timers PROVE late[t] <= IF period[t] > 0 THEN 1 ELSE 0
    <3>1. period[t] \in Nat /\ late[t] \in 0..2
      BY <1>1 DEF WaitInv, WaitTypeOK
    <3>2. late[t] <= 1 /\ (period[t] = 0 => late[t] = 0)
      BY <1>1 DEF WaitInv, Canceling
    <3> QED BY <3>1, <3>2
  <2> QED BY <2>1 DEF CancelStops
<1> QED BY <1>1, WaitInvariant, PTL

-----------------------------------------------------------------------------
(* The second part: references.  First, counting in lists.                 *)

LEMMA OccursNat ==
    ASSUME NEW s, Len(s) \in Nat, NEW V
    PROVE  /\ Occurs(s, V) \in Nat
           /\ Occurs(s, V) = 0 <=> \A i \in 1..Len(s) : s[i] \notin V
<1> DEFINE A == {i \in 1..Len(s) : s[i] \in V}
<1>1. IsFiniteSet(1..Len(s))
  BY FS_Interval
<1>2. IsFiniteSet(A)
  BY <1>1, FS_Subset
<1>3. Cardinality(A) \in Nat /\ (Cardinality(A) = 0 <=> A = {})
  BY <1>2, FS_CardinalityType, FS_EmptySet
<1> QED BY <1>3 DEF Occurs

\* A list with one element more, which is at k, the others shifted by sh.
Widened(s, r, k, sh) ==
    /\ Len(s) \in Nat /\ Len(r) = Len(s) + 1
    /\ k \in 1..(Len(s) + 1) /\ sh \in [1..Len(s) -> 1..(Len(s) + 1)]
    /\ \A i, j \in 1..Len(s) : sh[i] = sh[j] => i = j
    /\ \A i \in 1..Len(s) : sh[i] # k /\ r[sh[i]] = s[i]
    /\ \A j \in 1..(Len(s) + 1) : j # k => \E i \in 1..Len(s) : sh[i] = j

LEMMA OccursMore ==
    ASSUME NEW s, NEW r, NEW k, NEW sh, NEW V, Widened(s, r, k, sh)
    PROVE  Occurs(r, V) = Occurs(s, V) + (IF r[k] \in V THEN 1 ELSE 0)
<1> DEFINE A == {i \in 1..Len(s) : s[i] \in V}
           B == {j \in 1..Len(r) : r[j] \in V}
           C == B \ {k}
           f == [i \in A |-> sh[i]]
<1> USE DEF Widened
<1>1. f \in Injection(A, C) /\ f \in Surjection(A, C)
  <2>1. f \in [A -> C]
    OBVIOUS
  <2>2. \A i, j \in A : f[i] = f[j] => i = j
    OBVIOUS
  <2>3. ASSUME NEW j \in C PROVE \E i \in A : f[i] = j
    <3>1. PICK i \in 1..Len(s) : sh[i] = j
      OBVIOUS
    <3>2. i \in A
      BY <3>1
    <3> QED BY <3>1, <3>2
  <2> QED BY <2>1, <2>2, <2>3 DEF Injection, IsInjective, Surjection
<1>2. IsFiniteSet(1..Len(r))
  BY FS_Interval
<1>3. IsFiniteSet(B) /\ IsFiniteSet(C)
  BY <1>2, FS_Subset
<1>4. Cardinality(A) = Cardinality(C)
  BY <1>1, <1>3, FS_Injection
<1>5. /\ Cardinality(B) \in Nat
      /\ Cardinality(C) = IF k \in B THEN Cardinality(B) - 1 ELSE Cardinality(B)
  BY <1>3, FS_CardinalityType, FS_RemoveElement
<1>6. k \in B <=> r[k] \in V
  OBVIOUS
<1>7. Occurs(r, V) = Cardinality(B) /\ Occurs(s, V) = Cardinality(A)
  BY DEF Occurs
<1> QED BY <1>4, <1>5, <1>6, <1>7

LEMMA OccursAppend ==
    ASSUME NEW S, NEW s \in Seq(S), NEW x \in S, NEW V
    PROVE  Occurs(Append(s, x), V) = Occurs(s, V) + (IF x \in V THEN 1 ELSE 0)
<1> DEFINE r == Append(s, x)
           n == Len(s)
           sh == [i \in 1..n |-> i]
<1>1. /\ n \in Nat /\ Len(r) = n + 1 /\ r[n + 1] = x
      /\ \A i \in 1..n : r[i] = s[i]
  BY AppendFacts
<1> HIDE DEF r
<1>2. sh \in [1..n -> 1..(n + 1)] /\ n + 1 \in 1..(n + 1)
  BY <1>1
<1>3. \A i \in 1..n : sh[i] # n + 1 /\ r[sh[i]] = s[i]
  BY <1>1
<1>4. \A j \in 1..(n + 1) : j # n + 1 => \E i \in 1..n : sh[i] = j
  BY <1>1
<1>5. \A i, j \in 1..n : sh[i] = sh[j] => i = j
  OBVIOUS
<1> HIDE DEF sh
<1>6. Widened(s, r, n + 1, sh)
  BY <1>1, <1>2, <1>3, <1>4, <1>5 DEF Widened
<1>7. Occurs(r, V) = Occurs(s, V) + (IF r[n + 1] \in V THEN 1 ELSE 0)
  BY <1>6, OccursMore
<1> QED BY <1>1, <1>7 DEF r

LEMMA OccursPush ==
    ASSUME NEW S, NEW s \in Seq(S), NEW x \in S, NEW V
    PROVE  Occurs(<<x>> \o s, V) = Occurs(s, V) + (IF x \in V THEN 1 ELSE 0)
<1> DEFINE r == <<x>> \o s
           n == Len(s)
           sh == [i \in 1..n |-> i + 1]
<1>1. /\ n \in Nat /\ Len(r) = n + 1 /\ r[1] = x
      /\ \A i \in 1..n : r[i + 1] = s[i]
  BY PushFacts
<1> HIDE DEF r
<1>2. sh \in [1..n -> 1..(n + 1)] /\ 1 \in 1..(n + 1)
  BY <1>1
<1>3. \A i \in 1..n : sh[i] # 1 /\ r[sh[i]] = s[i]
  BY <1>1
<1>4. ASSUME NEW j \in 1..(n + 1), j # 1 PROVE \E i \in 1..n : sh[i] = j
  <2>1. j - 1 \in 1..n /\ (j - 1) + 1 = j
    BY <1>1, <1>4
  <2> QED BY <2>1
<1>5. \A i, j \in 1..n : sh[i] = sh[j] => i = j
  BY <1>1
<1> HIDE DEF sh
<1>6. Widened(s, r, 1, sh)
  BY <1>1, <1>2, <1>3, <1>4, <1>5 DEF Widened
<1>7. Occurs(r, V) = Occurs(s, V) + (IF r[1] \in V THEN 1 ELSE 0)
  BY <1>6, OccursMore
<1> QED BY <1>1, <1>7 DEF r

LEMMA OccursTail ==
    ASSUME NEW S, NEW s \in Seq(S), s # <<>>, NEW V
    PROVE  Occurs(s, V) = Occurs(Tail(s), V) + (IF Head(s) \in V THEN 1 ELSE 0)
<1> DEFINE r == Tail(s)
           n == Len(r)
           sh == [i \in 1..n |-> i + 1]
<1>1. /\ n \in Nat /\ Len(s) = n + 1 /\ s[1] = Head(s)
      /\ \A i \in 1..n : s[i + 1] = r[i]
  BY TailFacts
<1> HIDE DEF r
<1>2. sh \in [1..n -> 1..(n + 1)] /\ 1 \in 1..(n + 1)
  BY <1>1
<1>3. \A i \in 1..n : sh[i] # 1 /\ s[sh[i]] = r[i]
  BY <1>1
<1>4. ASSUME NEW j \in 1..(n + 1), j # 1 PROVE \E i \in 1..n : sh[i] = j
  <2>1. j - 1 \in 1..n /\ (j - 1) + 1 = j
    BY <1>1, <1>4
  <2> QED BY <2>1
<1>5. \A i, j \in 1..n : sh[i] = sh[j] => i = j
  BY <1>1
<1> HIDE DEF sh
<1>6. Widened(r, s, 1, sh)
  BY <1>1, <1>2, <1>3, <1>4, <1>5 DEF Widened
<1>7. Occurs(s, V) = Occurs(r, V) + (IF s[1] \in V THEN 1 ELSE 0)
  BY <1>6, OccursMore
<1> QED BY <1>1, <1>7 DEF r

-----------------------------------------------------------------------------
(* Which fibers the last reference to goes.                                *)

Alive == {f \in All : refs[f] > 0}

LEMMA ChildrenFacts ==
    ASSUME NEW f, NEW S \in SUBSET All, NEW T \in SUBSET S
    PROVE  /\ Children(f, S) \in Nat /\ Children(f, T) \in Nat
           /\ Children(f, T) <= Children(f, S)
           /\ Children(f, S) = Children(f, S \ T) + Children(f, T)
<1> DEFINE A == {t \in S : parent[t] = f}
           B == {t \in T : parent[t] = f}
           C == {t \in S \ T : parent[t] = f}
<1>1. IsFiniteSet(S)
  BY Constants, FS_Subset
<1>2. IsFiniteSet(A)
  BY <1>1, FS_Subset
<1>3. /\ IsFiniteSet(B) /\ IsFiniteSet(C)
      /\ Cardinality(B) <= Cardinality(A)
  <2>1. B \in SUBSET A /\ C \in SUBSET A
    OBVIOUS
  <2> QED BY <1>2, <2>1, FS_Subset
<1>4. Cardinality(A) \in Nat /\ Cardinality(B) \in Nat /\ Cardinality(C) \in Nat
  BY <1>2, <1>3, FS_CardinalityType
<1>5. Cardinality(C \cup B) = Cardinality(C) + Cardinality(B) - Cardinality(C \cap B)
  BY <1>3, FS_Union
<1>6. C \cup B = A /\ C \cap B = {}
  OBVIOUS
<1>7. Cardinality({}) = 0
  BY FS_EmptySet
<1>8. Cardinality(A) = Cardinality(C) + Cardinality(B)
  <2> HIDE DEF A, B, C
  <2> QED BY <1>4, <1>5, <1>6, <1>7
<1> QED BY <1>3, <1>4, <1>8 DEF Children

\* H[f] is what else refers to f; its children keep f while they are there.
Held(H, kept) ==
    /\ refs \in [All -> Nat] /\ H \in [All -> Nat]
    /\ \A f \in All : kept[f] = H[f] + Children(f, Alive)

LEMMA LastInMonotone ==
    ASSUME NEW H, NEW kept, Held(H, kept), NEW S \in SUBSET Alive, NEW T \in SUBSET S
    PROVE  LastIn(T, kept) \in SUBSET LastIn(S, kept)
<1> SUFFICES ASSUME NEW f \in All, refs[f] > 0, kept[f] = Children(f, T)
             PROVE  kept[f] = Children(f, S)
  BY DEF LastIn
<1>1. S \in SUBSET All /\ Alive \in SUBSET All
  BY DEF Alive
<1>2. /\ Children(f, T) \in Nat /\ Children(f, S) \in Nat /\ Children(f, Alive) \in Nat
      /\ Children(f, T) <= Children(f, S)
      /\ Children(f, S) <= Children(f, Alive)
  BY <1>1, ChildrenFacts
<1>3. H[f] \in Nat /\ kept[f] = H[f] + Children(f, Alive)
  BY DEF Held
<1> QED BY <1>2, <1>3

\* The steps by which Dead is reached, as one function.
Unfolds(g, n, kept) ==
    g = [k \in 0..n |-> IF k = 0 THEN {} ELSE LastIn(g[k - 1], kept)]

LEMMA UnfoldingExists ==
    ASSUME NEW n \in Nat, NEW kept
    PROVE  \E g : Unfolds(g, n, kept)
<1> DEFINE T == {m \in Nat : \E g : Unfolds(g, m, kept)}
<1>1. 0 \in T
  <2> DEFINE g == [k \in 0..0 |-> {}]
  <2>1. g = [k \in 0..0 |-> IF k = 0 THEN {} ELSE LastIn(g[k - 1], kept)]
    OBVIOUS
  <2> QED BY <2>1 DEF Unfolds
<1>2. ASSUME NEW m \in T PROVE m + 1 \in T
  <2>1. PICK g : Unfolds(g, m, kept)
    OBVIOUS
  <2> DEFINE h == [k \in 0..(m + 1) |-> IF k = m + 1 THEN LastIn(g[m], kept) ELSE g[k]]
  <2>2. m \in Nat
    OBVIOUS
  <2>3. ASSUME NEW k \in 0..(m + 1)
        PROVE  h[k] = IF k = 0 THEN {} ELSE LastIn(h[k - 1], kept)
    <3>1. CASE k = m + 1
      <4>1. k - 1 \in 0..(m + 1) /\ k - 1 # m + 1 /\ k # 0 /\ k - 1 = m
        BY <2>2, <3>1
      <4>2. h[k - 1] = g[m]
        BY <4>1
      <4> QED BY <3>1, <4>1, <4>2
    <3>2. CASE k # m + 1
      <4>1. k \in 0..m /\ h[k] = g[k]
        BY <2>2, <3>2
      <4>2. g[k] = IF k = 0 THEN {} ELSE LastIn(g[k - 1], kept)
        BY <2>1, <4>1 DEF Unfolds
      <4>3. k # 0 => h[k - 1] = g[k - 1]
        BY <2>2, <4>1
      <4> QED BY <4>1, <4>2, <4>3
    <3> QED BY <3>1, <3>2
  <2>4. h = [k \in 0..(m + 1) |-> h[k]]
    OBVIOUS
  <2> HIDE DEF h
  <2>5. Unfolds(h, m + 1, kept)
    BY <2>3, <2>4 DEF Unfolds
  <2> QED BY <2>2, <2>5
<1>3. T = Nat
  BY <1>1, <1>2, NatSetInduction
<1> QED BY <1>3

LEMMA DeadUnfolds ==
    ASSUME NEW kept
    PROVE  \E g : /\ Unfolds(g, Cardinality(All), kept)
                  /\ Dead(kept) = g[Cardinality(All)]
<1> DEFINE n == Cardinality(All)
           g == CHOOSE h : Unfolds(h, n, kept)
<1>1. n \in Nat
  BY Constants, FS_CardinalityType
<1>2. Unfolds(g, n, kept)
  BY <1>1, UnfoldingExists
<1>3. Dead(kept) = g[n]
  BY DEF Dead, Unfolds
<1> QED BY <1>2, <1>3

\* No more fibers go than those, and each of those is only referred to by
\* its children that go too.
LEMMA DeadFacts ==
    ASSUME NEW H, NEW kept, Held(H, kept)
    PROVE  Dead(kept) \in SUBSET Alive /\ LastIn(Dead(kept), kept) = Dead(kept)
<1> DEFINE n == Cardinality(All)
<1>1. n \in Nat /\ IsFiniteSet(All)
  BY Constants, FS_CardinalityType
<1>2. PICK g : Unfolds(g, n, kept) /\ Dead(kept) = g[n]
  BY DeadUnfolds
<1>3. g[0] = {} /\ \A k \in 0..n : k + 1 <= n => g[k + 1] = LastIn(g[k], kept)
  <2>1. \A k \in 0..n : g[k] = IF k = 0 THEN {} ELSE LastIn(g[k - 1], kept)
    BY <1>2 DEF Unfolds
  <2>2. ASSUME NEW k \in 0..n, k + 1 <= n PROVE g[k + 1] = LastIn(g[k], kept)
    <3>1. k + 1 \in 0..n /\ k + 1 # 0 /\ (k + 1) - 1 = k
      BY <1>1, <2>2
    <3> QED BY <2>1, <3>1
  <2> QED BY <1>1, <2>1, <2>2
<1>4. \A S : LastIn(S, kept) \in SUBSET Alive
  BY DEF LastIn, Alive
<1> DEFINE Good(k) ==
               /\ g[k] \in SUBSET Alive
               /\ g[k] \in SUBSET LastIn(g[k], kept)
               /\ LastIn(g[k], kept) = g[k] \/ Cardinality(g[k]) >= k
           T == {k \in Nat : k <= n => Good(k)}
<1>5. 0 \in T
  BY <1>3, FS_EmptySet
<1> HIDE DEF n
<1>6. ASSUME NEW k \in T PROVE k + 1 \in T
  <2>1. k \in Nat
    OBVIOUS
  <2> SUFFICES ASSUME k + 1 <= n PROVE Good(k + 1)
    BY <2>1
  <2>2. k \in 0..n /\ Good(k)
    BY <1>1, <2>1
  <2>3. g[k + 1] = LastIn(g[k], kept)
    BY <1>3, <2>2
  <2>4. g[k] \in SUBSET g[k + 1] /\ g[k + 1] \in SUBSET Alive
    BY <1>4, <2>2, <2>3
  <2>5. g[k + 1] \in SUBSET LastIn(g[k + 1], kept)
    BY <2>3, <2>4, LastInMonotone
  <2>6. CASE g[k + 1] = g[k]
    BY <2>3, <2>4, <2>5, <2>6
  <2>7. CASE g[k + 1] # g[k]
    <3>1. Cardinality(g[k]) >= k
      BY <2>2, <2>3, <2>7
    <3>2. IsFiniteSet(g[k + 1])
      BY <1>1, <2>4, FS_Subset DEF Alive
    <3>3. /\ Cardinality(g[k]) <= Cardinality(g[k + 1])
          /\ Cardinality(g[k]) # Cardinality(g[k + 1])
          /\ IsFiniteSet(g[k])
      BY <2>4, <2>7, <3>2, FS_Subset
    <3>4. Cardinality(g[k]) \in Nat /\ Cardinality(g[k + 1]) \in Nat
      BY <3>2, <3>3, FS_CardinalityType
    <3>5. Cardinality(g[k + 1]) >= k + 1
      BY <2>1, <3>1, <3>3, <3>4
    <3> QED BY <2>4, <2>5, <3>5
  <2> QED BY <2>6, <2>7
<1>7. T = Nat
  BY <1>5, <1>6, NatSetInduction
<1>8. Good(n)
  <2>1. n \in T
    BY <1>1, <1>7
  <2> QED BY <1>1, <2>1
<1>9. LastIn(g[n], kept) = g[n]
  <2>1. CASE Cardinality(g[n]) >= n
    <3>1. g[n] \in SUBSET All
      BY <1>8 DEF Alive
    <3>2. Cardinality(g[n]) <= n /\ (Cardinality(All) = Cardinality(g[n]) => All = g[n])
      BY <1>1, <3>1, FS_Subset DEF n
    <3>3. IsFiniteSet(g[n])
      BY <1>1, <3>1, FS_Subset
    <3>4. Cardinality(g[n]) \in Nat
      BY <3>3, FS_CardinalityType
    <3>5. Cardinality(g[n]) = n
      BY <1>1, <2>1, <3>2, <3>4
    <3>6. All = g[n]
      BY <3>2, <3>5 DEF n
    <3>7. LastIn(g[n], kept) \in SUBSET All
      BY DEF LastIn
    <3> QED BY <1>8, <3>6, <3>7
  <2> QED BY <1>8, <2>1
<1> QED BY <1>2, <1>8, <1>9

\* What Refer leaves: the references that are not a child's, and those of
\* the children that are still there.
LEMMA ReferFacts ==
    ASSUME NEW H, NEW m, NEW n, Held(H, Kept(m, n)), Refer(m, n),
           \A f \in All : refs[f] = 0 => H[f] = 0 /\ Children(f, Alive) = 0
    PROVE  /\ refs' \in [All -> Nat] /\ values' = values
           /\ \A f \in All : refs'[f] = H[f] + Children(f, {g \in All : refs'[g] > 0})
           /\ \A f \in All : refs[f] = 0 => refs'[f] = 0 /\ freed'[f] = freed[f]
           /\ \A f \in All : refs[f] > 0 /\ refs'[f] = 0 => freed'[f] = values[f]
           /\ \A f \in All : freed'[f] \in {freed[f], values[f]}
<1> DEFINE kept == Kept(m, n)
           D == Dead(kept)
<1>1. D \in SUBSET Alive /\ LastIn(D, kept) = D
  BY DeadFacts
<1>2. /\ refs' = [f \in All |-> kept[f] - Children(f, D)]
      /\ freed' = [f \in All |-> IF f \in D THEN values[f] ELSE freed[f]]
      /\ values' = values
  BY DEF Refer
<1> HIDE DEF kept, D
<1>3. /\ refs \in [All -> Nat] /\ H \in [All -> Nat]
      /\ \A f \in All : kept[f] = H[f] + Children(f, Alive)
  BY DEF Held, kept
<1>4. ASSUME NEW f \in All
      PROVE  /\ refs'[f] = H[f] + Children(f, Alive \ D)
             /\ refs'[f] \in Nat
             /\ refs'[f] > 0 <=> f \in Alive \ D
  <2>1. Alive \in SUBSET All
    BY DEF Alive
  <2>2. /\ Children(f, Alive) \in Nat /\ Children(f, D) \in Nat
        /\ Children(f, D) <= Children(f, Alive)
        /\ Children(f, Alive) = Children(f, Alive \ D) + Children(f, D)
    BY <1>1, <2>1, ChildrenFacts
  <2>3. Children(f, Alive \ D) \in Nat
    BY <2>1, ChildrenFacts
  <2>4. H[f] \in Nat /\ refs[f] \in Nat /\ refs'[f] = kept[f] - Children(f, D)
    BY <1>2, <1>3
  <2>5. kept[f] = H[f] + Children(f, Alive)
    BY <1>3
  <2>6. refs'[f] = H[f] + Children(f, Alive \ D) /\ refs'[f] \in Nat
    BY <2>2, <2>3, <2>4, <2>5
  <2>7. f \in D <=> refs[f] > 0 /\ kept[f] = Children(f, D)
    BY <1>1 DEF LastIn
  <2>8. f \in Alive <=> refs[f] > 0
    BY DEF Alive
  <2>9. refs[f] = 0 => H[f] = 0 /\ Children(f, Alive) = 0
    OBVIOUS
  <2>10. CASE refs[f] = 0
    <3>1. refs'[f] = 0
      BY <2>2, <2>3, <2>4, <2>5, <2>6, <2>9, <2>10
    <3> QED BY <2>6, <2>8, <2>10, <3>1
  <2>11. CASE refs[f] # 0
    <3>1. f \in Alive
      BY <2>4, <2>8, <2>11
    <3>2. f \in D <=> kept[f] = Children(f, D)
      BY <2>7, <2>8, <3>1
    <3>3. refs'[f] = 0 <=> kept[f] = Children(f, D)
      BY <2>2, <2>4, <2>5
    <3> QED BY <2>6, <3>1, <3>2, <3>3
  <2> QED BY <2>6, <2>10, <2>11
<1>5. {g \in All : refs'[g] > 0} = Alive \ D
  BY <1>4 DEF Alive
<1>6. \A f \in All : refs'[f] = H[f] + Children(f, {g \in All : refs'[g] > 0})
  BY <1>4, <1>5
<1>7. refs' \in [All -> Nat]
  <2>1. refs' = [f \in All |-> refs'[f]]
    BY <1>2
  <2> QED BY <1>4, <2>1
<1>8. ASSUME NEW f \in All
      PROVE  /\ refs[f] = 0 => refs'[f] = 0 /\ freed'[f] = freed[f]
             /\ refs[f] > 0 /\ refs'[f] = 0 => freed'[f] = values[f]
             /\ freed'[f] \in {freed[f], values[f]}
  <2>1. f \in Alive <=> refs[f] > 0
    BY DEF Alive
  <2>2. f \in D => f \in Alive
    BY <1>1
  <2>3. freed'[f] = IF f \in D THEN values[f] ELSE freed[f]
    BY <1>2
  <2>4. refs[f] \in Nat /\ refs'[f] \in Nat /\ (refs'[f] > 0 <=> f \in Alive \ D)
    BY <1>3, <1>4
  <2> QED BY <2>1, <2>2, <2>3, <2>4
<1> QED BY <1>2, <1>6, <1>7, <1>8

\* When no fiber loses a reference none goes.
LEMMA MoreFacts ==
    ASSUME NEW m, NEW n, \A f \in All : m[f] \in Nat /\ n[f] = 0,
           refs \in [All -> Nat], freed = [f \in All |-> freed[f]],
           Refer(m, n)
    PROVE  refs' = [f \in All |-> refs[f] + m[f]] /\ freed' = freed /\ values' = values
<1> DEFINE kept == Kept(m, n)
           N == Cardinality(All)
<1>1. \A f \in All : refs[f] \in Nat /\ m[f] \in Nat /\ kept[f] = refs[f] + m[f]
  BY DEF Kept
<1>2. \A f \in All : Children(f, {}) = 0
  <2>1. \A f \in All : {t \in {} : parent[t] = f} = {}
    OBVIOUS
  <2> QED BY <2>1, FS_EmptySet DEF Children
<1> HIDE DEF kept
<1>3. LastIn({}, kept) = {}
  <2>1. ASSUME NEW f \in All, refs[f] > 0 PROVE kept[f] # 0
    BY <1>1, <2>1
  <2> QED BY <1>2, <2>1 DEF LastIn
<1>4. N \in Nat
  BY Constants, FS_CardinalityType
<1>5. PICK g : Unfolds(g, N, kept) /\ Dead(kept) = g[N]
  BY DeadUnfolds
<1> HIDE DEF N
<1> DEFINE T == {k \in Nat : k <= N => g[k] = {}}
<1>6. \A k \in 0..N : g[k] = IF k = 0 THEN {} ELSE LastIn(g[k - 1], kept)
  BY <1>5 DEF Unfolds
<1>7. 0 \in T
  BY <1>4, <1>6
<1>8. ASSUME NEW k \in T PROVE k + 1 \in T
  <2>1. CASE k + 1 <= N
    <3>1. k + 1 \in 0..N /\ k + 1 # 0 /\ (k + 1) - 1 = k /\ g[k] = {}
      BY <1>4, <2>1
    <3> QED BY <1>3, <1>6, <3>1
  <2> QED BY <2>1
<1>9. T = Nat
  BY <1>7, <1>8, NatSetInduction
<1>10. Dead(kept) = {}
  BY <1>4, <1>5, <1>9
<1>11. /\ refs' = [f \in All |-> kept[f] - Children(f, {})]
       /\ freed' = [f \in All |-> freed[f]] /\ values' = values
  BY <1>10 DEF Refer, kept
<1> QED BY <1>1, <1>2, <1>11

-----------------------------------------------------------------------------
(* The inductive invariant of the references.                              *)

ForFiber(f) == {e \in EventType : e.fiber = f}
Stack(at) ==
    IF at \in {"sleep", "delay", "period"} THEN 2 ELSE IF at \in {"unborn", "end"} THEN 0 ELSE 1

\* What refers to f, its children aside.
Owned(ev, wq, at, f) == Occurs(ev, ForFiber(f)) + Occurs(wq, {f}) + Stack(at[f])
Own(f) == Owned(events, waitQueue, pc, f)

RefsTypeOK ==
    /\ refs \in [All -> Nat] /\ parent \in [All -> All \union {None}]
    /\ values \in [All -> SUBSET Locals] /\ freed \in [All -> SUBSET Locals]

Exact == \A f \in All : refs[f] = Own(f) + Children(f, Alive)

(* A parent is older than its children: so a fiber cannot keep itself      *)
(* through them.  Nothing refers to a fiber before it is made.             *)
Parents ==
    \A f \in All :
        /\ pc[f] = "unborn" => refs[f] = 0
        /\ parent[f] \in All => pc[parent[f]] # "unborn"
Ranks(rank, top) ==
    \A f \in All : rank[f] <= top /\ (parent[f] \in All => rank[parent[f]] < rank[f])
Rooted == \E rank \in [All -> Nat], top \in Nat : Ranks(rank, top)

Given == \A f \in All : refs[f] = 0 => freed[f] = values[f]
AtEnd == loop = "left" => \A f \in All : pc[f] \in {"unborn", "end"}

RefsInv == RefsTypeOK /\ Exact /\ Parents /\ Rooted /\ Given /\ AtEnd

LEMMA OwnedNat ==
    ASSUME NEW ev \in Seq(EventType), NEW wq \in Seq(All), NEW at, NEW f
    PROVE  /\ Owned(ev, wq, at, f) \in Nat
           /\ Occurs(ev, ForFiber(f)) \in Nat /\ Occurs(wq, {f}) \in Nat /\ Stack(at[f]) \in Nat
<1>1. Len(ev) \in Nat /\ Len(wq) \in Nat
  OBVIOUS
<1>2. Occurs(ev, ForFiber(f)) \in Nat /\ Occurs(wq, {f}) \in Nat
  BY <1>1, OccursNat
<1>3. Stack(at[f]) \in Nat
  BY DEF Stack
<1> QED BY <1>2, <1>3 DEF Owned

LEMMA ChildrenNat ==
    ASSUME RefsInv, WaitTypeOK, NEW f \in All
    PROVE  /\ Own(f) \in Nat /\ Children(f, Alive) \in Nat /\ refs[f] \in Nat
           /\ refs[f] = Own(f) + Children(f, Alive)
           /\ refs[f] = 0 => Own(f) = 0 /\ Children(f, Alive) = 0
           /\ Stack(pc[f]) > 0 => refs[f] > 0
           /\ (\E i \in 1..Len(waitQueue) : waitQueue[i] = f) => refs[f] > 0
<1>1. events \in Seq(EventType) /\ waitQueue \in Seq(All)
  BY DEF WaitTypeOK
<1>2. /\ Own(f) \in Nat /\ Occurs(events, ForFiber(f)) \in Nat
      /\ Occurs(waitQueue, {f}) \in Nat /\ Stack(pc[f]) \in Nat
      /\ Own(f) = Occurs(events, ForFiber(f)) + Occurs(waitQueue, {f}) + Stack(pc[f])
  BY <1>1, OwnedNat DEF Own, Owned
<1>3. Children(f, Alive) \in Nat
  BY ChildrenFacts DEF Alive
<1>4. refs[f] \in Nat /\ refs[f] = Own(f) + Children(f, Alive)
  BY DEF RefsInv, RefsTypeOK, Exact
<1>5. refs[f] = 0 => Own(f) = 0 /\ Children(f, Alive) = 0
  BY <1>2, <1>3, <1>4
<1>6. Stack(pc[f]) > 0 => refs[f] > 0
  BY <1>2, <1>3, <1>4
<1>7. ASSUME \E i \in 1..Len(waitQueue) : waitQueue[i] = f PROVE refs[f] > 0
  <2>1. Len(waitQueue) \in Nat
    BY <1>1
  <2>2. Occurs(waitQueue, {f}) # 0
    BY <1>7, <2>1, OccursNat
  <2> QED BY <1>2, <1>3, <1>4, <2>2
<1> QED BY <1>2, <1>3, <1>4, <1>5, <1>6, <1>7

\* A step that makes the references m and drops the references n, and does
\* to the fibers' own references what it says.
LEMMA ReferKeeps ==
    ASSUME RefsInv, WaitTypeOK, WaitTypeOK', parent' = parent,
           NEW m \in [All -> Nat], NEW n \in [All -> Nat], Refer(m, n),
           \A f \in All : Own(f)' = Own(f) + m[f] - n[f],
           \A f \in All : m[f] > 0 => refs[f] > 0,
           \A f \in All : pc'[f] = "unborn" => pc[f] = "unborn",
           loop' # "left"
    PROVE  RefsInv'
<1> DEFINE H == [f \in All |-> Own(f)']
<1>1. \A f \in All : /\ Own(f) \in Nat /\ Children(f, Alive) \in Nat /\ refs[f] \in Nat
                     /\ refs[f] = Own(f) + Children(f, Alive)
                     /\ refs[f] = 0 => Own(f) = 0 /\ Children(f, Alive) = 0
  BY ChildrenNat
<1>2. events' \in Seq(EventType) /\ waitQueue' \in Seq(All)
  BY DEF WaitTypeOK
<1>3. \A f \in All : Own(f)' \in Nat
  BY <1>2, OwnedNat DEF Own
<1>4. H \in [All -> Nat] /\ \A f \in All : H[f] = Own(f)'
  BY <1>3
<1> HIDE DEF H
<1>5. Held(H, Kept(m, n))
  <2>1. ASSUME NEW f \in All PROVE Kept(m, n)[f] = H[f] + Children(f, Alive)
    <3>1. Kept(m, n)[f] = refs[f] + m[f] - n[f]
      BY DEF Kept
    <3>2. m[f] \in Nat /\ n[f] \in Nat /\ H[f] = Own(f) + m[f] - n[f]
      BY <1>4
    <3>3. /\ Own(f) \in Nat /\ Children(f, Alive) \in Nat
          /\ refs[f] = Own(f) + Children(f, Alive)
      BY <1>1
    <3> HIDE DEF Own
    <3> QED BY <3>1, <3>2, <3>3
  <2> QED BY <1>4, <2>1 DEF Held, RefsInv, RefsTypeOK
<1>6. ASSUME NEW f \in All, refs[f] = 0 PROVE H[f] = 0 /\ Children(f, Alive) = 0
  <2>1. Own(f) = 0 /\ Children(f, Alive) = 0 /\ m[f] = 0
    BY <1>1, <1>6
  <2>2. H[f] \in Nat /\ n[f] \in Nat /\ H[f] = Own(f) + m[f] - n[f]
    BY <1>4
  <2>3. H[f] = 0 - n[f]
    BY <2>1, <2>2
  <2> QED BY <2>1, <2>2, <2>3
<1>7. /\ refs' \in [All -> Nat] /\ values' = values
      /\ \A f \in All : refs'[f] = H[f] + Children(f, {g \in All : refs'[g] > 0})
      /\ \A f \in All : refs[f] = 0 => refs'[f] = 0 /\ freed'[f] = freed[f]
      /\ \A f \in All : refs[f] > 0 /\ refs'[f] = 0 => freed'[f] = values[f]
      /\ \A f \in All : freed'[f] \in {freed[f], values[f]}
  BY <1>5, <1>6, ReferFacts
<1>8. RefsTypeOK'
  <2>1. freed' = [f \in All |-> freed'[f]]
    BY DEF Refer
  <2>2. \A f \in All : freed'[f] \in SUBSET Locals
    BY <1>7 DEF RefsInv, RefsTypeOK
  <2>3. freed' \in [All -> SUBSET Locals]
    BY <2>1, <2>2
  <2> QED BY <1>7, <2>3 DEF RefsInv, RefsTypeOK
<1>9. Exact'
  <2>1. ASSUME NEW f \in All PROVE refs'[f] = Own(f)' + Children(f, Alive)'
    <3>1. refs'[f] = H[f] + Children(f, {g \in All : refs'[g] > 0}) /\ H[f] = Own(f)'
      BY <1>4, <1>7
    <3>2. Children(f, Alive)' = Children(f, {g \in All : refs'[g] > 0})
      BY DEF Children, Alive
    <3> QED BY <3>1, <3>2
  <2> QED BY <2>1 DEF Exact
<1>10. Parents'
  BY <1>7 DEF RefsInv, RefsTypeOK, Parents
<1>11. Rooted'
  BY DEF RefsInv, Rooted, Ranks
<1>12. Given'
  <2>1. ASSUME NEW f \in All, refs'[f] = 0 PROVE freed'[f] = values'[f]
    <3>1. CASE refs[f] = 0
      BY <1>7, <3>1 DEF RefsInv, Given
    <3>2. CASE refs[f] # 0
      <4>1. refs[f] > 0
        BY <1>1, <3>2
      <4> QED BY <1>7, <2>1, <4>1
    <3> QED BY <3>1, <3>2
  <2> QED BY <2>1 DEF Given
<1>13. AtEnd'
  BY DEF AtEnd
<1> QED BY <1>8, <1>9, <1>10, <1>11, <1>12, <1>13 DEF RefsInv

\* A step that neither makes nor drops a reference.
LEMMA UnreferredKeeps ==
    ASSUME RefsInv, refs' = refs, parent' = parent, freed' = freed,
           values' \in [All -> SUBSET Locals],
           \A f \in All : refs[f] = 0 => values'[f] = values[f],
           \A f \in All : Own(f)' = Own(f),
           \A f \in All : pc'[f] = "unborn" => pc[f] = "unborn",
           loop' = "left" => \A f \in All : pc'[f] \in {"unborn", "end"}
    PROVE  RefsInv'
<1>1. RefsTypeOK'
  BY DEF RefsInv, RefsTypeOK
<1>2. Exact'
  <2>1. \A f \in All : Children(f, Alive)' = Children(f, Alive)
    BY DEF Children, Alive
  <2> HIDE DEF Own
  <2> QED BY <2>1 DEF RefsInv, Exact
<1>3. Parents'
  BY DEF RefsInv, RefsTypeOK, Parents
<1>4. Rooted'
  BY DEF RefsInv, Rooted, Ranks
<1>5. Given' /\ AtEnd'
  BY DEF RefsInv, Given, AtEnd
<1> QED BY <1>1, <1>2, <1>3, <1>4, <1>5 DEF RefsInv

LEMMA RefFacts ==
    ASSUME NEW f \in All, NEW k \in Nat
    PROVE  /\ Zero \in [All -> Nat] /\ Ref(f) \in [All -> Nat]
           /\ [Ref(f) EXCEPT ![f] = k] \in [All -> Nat]
           /\ \A g \in All : Zero[g] = 0 /\ Ref(f)[g] = IF g = f THEN 1 ELSE 0
           /\ \A g \in All : [Ref(f) EXCEPT ![f] = k][g] = IF g = f THEN k ELSE 0
BY DEF Zero, Ref

LEMMA OccursOfFiber ==
    ASSUME NEW ev \in Seq(EventType), NEW f
    PROVE  Occurs(ev, ForFiber(f)) = Cardinality({i \in 1..Len(ev) : ev[i].fiber = f})
<1>1. \A i \in 1..Len(ev) : ev[i] \in EventType
  OBVIOUS
<1>2. {i \in 1..Len(ev) : ev[i] \in ForFiber(f)} = {i \in 1..Len(ev) : ev[i].fiber = f}
  BY <1>1 DEF ForFiber
<1> QED BY <1>2 DEF Occurs

\* What is not live leaves the list, and that is what finalizing counts.
LEMMA ProcessOccurs ==
    ASSUME WaitTypeOK, NEW f \in All
    PROVE  /\ Deleted(f) \in Nat
           /\ Occurs(NewEvents, ForFiber(f)) = Occurs(events, ForFiber(f)) - Deleted(f)
<1> DEFINE n == Len(events)
           A == {i \in 1..n : events[i].fiber = f}
           B == {i \in 1..n : ~events[i].live /\ events[i].fiber = f}
           C == {i \in 1..n : events[i].live /\ events[i].fiber = f}
           K == {i \in 1..n : Skewed[i].live}
           L == Picked(Skewed, K)
<1>1. /\ Skewed \in Seq(EventType) /\ Len(Skewed) = n /\ DOMAIN Skewed = 1..n
      /\ \A i \in 1..n : Skewed[i].live = events[i].live /\ Skewed[i].fiber = events[i].fiber
  BY SkewedFacts
<1>2. events \in Seq(EventType) /\ n \in Nat /\ DOMAIN events = 1..n
  BY TypeFacts DEF WaitTypeOK
<1>3. Live(Skewed) = L /\ K \in SUBSET (1..Len(Skewed))
  BY <1>1 DEF Live
<1>4. L \in Seq(EventType) /\ DOMAIN L = 1..Len(L)
  <2> HIDE DEF K
  <2>1. /\ L \in Seq(EventType) /\ Len(L) = Cardinality(K)
        /\ DOMAIN L = 1..Cardinality(K)
    BY <1>1, <1>3, PickedFacts
  <2> QED BY <2>1
<1>5. \A i \in 1..n : Skewed[i] \in EventType
  BY <1>1
<1>6. Occurs(L, ForFiber(f)) = Cardinality(C)
  <2>1. Occurs(L, ForFiber(f)) = Cardinality({k \in K : Skewed[k] \in ForFiber(f)})
    BY <1>1, <1>3, OccursPicked
  <2>2. {k \in K : Skewed[k] \in ForFiber(f)} = C
    BY <1>1, <1>5 DEF ForFiber
  <2> QED BY <2>1, <2>2
<1>7. Occurs(NewEvents, ForFiber(f)) = Occurs(L, ForFiber(f))
  <2>1. /\ NewEvents = [i \in 1..Len(L) |->
                          IF IsDue(L[i]) THEN [L[i] EXCEPT !.live = FALSE] ELSE L[i]]
    BY <1>3, <1>4 DEF NewEvents
  <2> HIDE DEF L
  <2>2. Len(L) \in Nat
    BY <1>4
  <2>3. \A i \in 1..Len(L) : L[i] \in EventType
    BY <1>4
  <2>4. Len(NewEvents) = Len(L)
    BY <2>1, <2>2
  <2>5. \A i \in 1..Len(L) : NewEvents[i] \in EventType /\ NewEvents[i].fiber = L[i].fiber
    BY <2>1, <2>3 DEF EventType
  <2>6. {i \in 1..Len(NewEvents) : NewEvents[i] \in ForFiber(f)}
        = {i \in 1..Len(L) : L[i] \in ForFiber(f)}
    BY <2>3, <2>4, <2>5 DEF ForFiber
  <2> QED BY <2>6 DEF Occurs
<1>8. IsFiniteSet(1..n)
  BY <1>2, FS_Interval
<1>9. IsFiniteSet(B) /\ IsFiniteSet(C)
  <2>1. B \in SUBSET (1..n) /\ C \in SUBSET (1..n)
    OBVIOUS
  <2> QED BY <1>8, <2>1, FS_Subset
<1>10. Cardinality(A) = Cardinality(B) + Cardinality(C)
  <2>1. Cardinality(B \cup C) = Cardinality(B) + Cardinality(C) - Cardinality(B \cap C)
    BY <1>9, FS_Union
  <2>2. B \cup C = A /\ B \cap C = {}
    <3>1. \A i \in 1..n : events[i].live \in BOOLEAN
      BY <1>2, TypeFacts, EventFacts
    <3> QED BY <3>1
  <2>3. Cardinality({}) = 0
    BY FS_EmptySet
  <2>4. Cardinality(B) \in Nat /\ Cardinality(C) \in Nat
    BY <1>9, FS_CardinalityType
  <2> HIDE DEF A, B, C
  <2>5. Cardinality(B \cap C) = 0 /\ Cardinality(B \cup C) = Cardinality(A)
    BY <2>2, <2>3
  <2> QED BY <2>1, <2>4, <2>5
<1>11. Cardinality(B) \in Nat /\ Cardinality(C) \in Nat
  BY <1>9, FS_CardinalityType
<1>12. Occurs(events, ForFiber(f)) = Cardinality(A)
  BY <1>2, OccursOfFiber
<1>13. Deleted(f) = Cardinality(B)
  BY <1>2 DEF Deleted
<1> HIDE DEF A, B, C, L
<1> QED BY <1>6, <1>7, <1>10, <1>11, <1>12, <1>13

LEMMA ProcessRefs ==
    ASSUME RefsInv, WaitTypeOK, WaitTypeOK', processTimeEvents,
           pc' = pc, waitQueue' = waitQueue, parent' = parent, loop' # "left"
    PROVE  RefsInv'
<1> DEFINE n == [f \in All |-> Deleted(f)]
<1>1. Refer(Zero, n) /\ events' = NewEvents
  BY DEF processTimeEvents, Finalize, NewEvents
<1>2. n \in [All -> Nat] /\ Zero \in [All -> Nat] /\ \A f \in All : Zero[f] = 0
  BY ProcessOccurs DEF Zero
<1>3. ASSUME NEW f \in All PROVE Own(f)' = Own(f) + Zero[f] - n[f]
  <2>1. Occurs(events', ForFiber(f)) = Occurs(events, ForFiber(f)) - Deleted(f)
    BY <1>1, ProcessOccurs
  <2>2. events \in Seq(EventType) /\ waitQueue \in Seq(All)
    BY DEF WaitTypeOK
  <2>3. /\ Occurs(events, ForFiber(f)) \in Nat /\ Occurs(waitQueue, {f}) \in Nat
        /\ Stack(pc[f]) \in Nat
    BY <2>2, OwnedNat
  <2>4. Deleted(f) \in Nat /\ n[f] = Deleted(f)
    BY ProcessOccurs
  <2>5. Own(f)' = Occurs(events', ForFiber(f)) + Occurs(waitQueue, {f}) + Stack(pc[f])
    BY DEF Own, Owned
  <2>6. Own(f) = Occurs(events, ForFiber(f)) + Occurs(waitQueue, {f}) + Stack(pc[f])
    BY DEF Own, Owned
  <2> QED BY <1>2, <2>1, <2>3, <2>4, <2>5, <2>6
<1>4. \A f \in All : Zero[f] > 0 => refs[f] > 0
  BY <1>2
<1> HIDE DEF n, Own
<1> QED BY <1>1, <1>2, <1>3, <1>4, ReferKeeps

LEMMA OwnChanges ==
    ASSUME WaitTypeOK, NEW g \in All, NEW a \in Int, NEW b \in Int, NEW c \in Int,
           Occurs(events', ForFiber(g)) = Occurs(events, ForFiber(g)) + a,
           Occurs(waitQueue', {g}) = Occurs(waitQueue, {g}) + b,
           Stack(pc'[g]) = Stack(pc[g]) + c
    PROVE  Own(g)' = Own(g) + a + b + c
<1>1. events \in Seq(EventType) /\ waitQueue \in Seq(All)
  BY DEF WaitTypeOK
<1>2. /\ Occurs(events, ForFiber(g)) \in Nat /\ Occurs(waitQueue, {g}) \in Nat
      /\ Stack(pc[g]) \in Nat
  BY <1>1, OwnedNat
<1>3. Own(g)' = Occurs(events', ForFiber(g)) + Occurs(waitQueue', {g}) + Stack(pc'[g])
  BY DEF Own, Owned
<1>4. Own(g) = Occurs(events, ForFiber(g)) + Occurs(waitQueue, {g}) + Stack(pc[g])
  BY DEF Own, Owned
<1> QED BY <1>2, <1>3, <1>4

\* The steps of the loop.
LEMMA LoopRefs ==
    ASSUME RefsInv, WaitTypeOK, WaitTypeOK', Loop
    PROVE  RefsInv'
<1>1. CASE \/ Join \/ Idle
           \/ Dispatch /\ UNCHANGED <<events, lastTime, state, refs, values, freed>>
  <2>1. /\ UNCHANGED <<events, waitQueue, pc, refs, values, freed, parent>>
        /\ loop' # "left"
    BY <1>1 DEF Join, Idle, Dispatch, waitVars, ownVars
  <2>2. \A f \in All : Own(f)' = Own(f)
    BY <2>1 DEF Own
  <2> QED BY <2>1, <2>2, UnreferredKeeps DEF RefsInv, RefsTypeOK
<1>2. CASE PollReturn \/ (Dispatch /\ processTimeEvents)
  <2>1. /\ processTimeEvents /\ UNCHANGED <<waitQueue, pc, parent>>
        /\ loop' # "left"
    BY <1>2 DEF PollReturn, Dispatch, waitVars
  <2> QED BY <2>1, ProcessRefs
<1>3. CASE Leave
  <2>1. Total = 0 /\ UNCHANGED <<events, waitQueue, pc, refs, values, freed, parent>>
    BY <1>3 DEF Leave, waitVars, ownVars
  <2>2. \A f \in All : pc[f] \in {"unborn", "end"}
    <3> DEFINE S == {f \in All : pc[f] \notin {"unborn", "end"}}
    <3>1. IsFiniteSet(S)
      BY Constants, FS_Subset
    <3>2. S = {}
      BY <2>1, <3>1, FS_EmptySet DEF Total
    <3> QED BY <3>2
  <2>3. \A f \in All : Own(f)' = Own(f)
    BY <2>1 DEF Own
  <2> QED BY <2>1, <2>2, <2>3, UnreferredKeeps DEF RefsInv, RefsTypeOK
<1> QED BY <1>1, <1>2, <1>3 DEF Loop, Dispatch

\* Steps that leave the references alone.
LEMMA PlainRefs ==
    ASSUME RefsInv, WaitTypeOK,
           \/ Tick \/ SetBack
           \/ \E f \in All : Yield(f) \/ \E t \in Timers : CancelTimer(f, t)
           \/ \E t \in Timers : RunTimer(t) \/ ReturnTimer(t)
    PROVE  RefsInv'
<1>1. /\ UNCHANGED <<events, waitQueue, refs, values, freed, parent>>
      /\ loop' # "left"
  BY DEF Tick, SetBack, Yield, CancelTimer, RunTimer, ReturnTimer, InProgram, Has,
         BackToLoop, waitVars, ownVars
<1>2. /\ \A f \in All : Stack(pc'[f]) = Stack(pc[f])
      /\ \A f \in All : pc'[f] = "unborn" => pc[f] = "unborn"
  <2>1. CASE pc' = pc
    BY <2>1
  <2>2. ASSUME NEW t \in Timers, NEW at \in {"fire", "check", "done"},
               pc[t] \in {"call", "check", "fire"}, pc' = [pc EXCEPT ![t] = at]
        PROVE  /\ \A f \in All : Stack(pc'[f]) = Stack(pc[f])
               /\ \A f \in All : pc'[f] = "unborn" => pc[f] = "unborn"
    <3>1. pc'[t] = at /\ \A f \in All \ {t} : pc'[f] = pc[f]
      BY <2>2, Constants DEF WaitTypeOK
    <3>2. Stack(pc'[t]) = Stack(pc[t]) /\ pc'[t] # "unborn"
      BY <2>2, <3>1 DEF Stack
    <3> QED BY <3>1, <3>2
  <2>3. \/ pc' = pc
        \/ \E t \in Timers, at \in {"fire", "check", "done"} :
               pc[t] \in {"call", "check", "fire"} /\ pc' = [pc EXCEPT ![t] = at]
    BY DEF Tick, SetBack, Yield, CancelTimer, RunTimer, ReturnTimer, Ready
  <2> QED BY <2>1, <2>2, <2>3
<1>3. \A f \in All : Own(f)' = Own(f)
  BY <1>1, <1>2 DEF Own, Owned
<1> QED BY <1>1, <1>2, <1>3, UnreferredKeeps DEF RefsInv, RefsTypeOK

\* Only a fiber that is there sets or removes a local.
LEMMA LocalRefs ==
    ASSUME RefsInv, WaitTypeOK, NEW f \in All, NEW l \in Locals,
           SetLocal(f, l) \/ RemoveLocal(f, l)
    PROVE  RefsInv'
<1>1. /\ UNCHANGED <<events, waitQueue, refs, freed, parent, pc, loop>>
      /\ loop = "run" /\ pc[f] \in {"run", "fire"}
      /\ values' = [values EXCEPT ![f] = values[f] \union {l}]
         \/ values' = [values EXCEPT ![f] = values[f] \ {l}]
  BY DEF SetLocal, RemoveLocal, InProgram, Program, Has, waitVars
<1>2. refs[f] > 0
  BY <1>1, ChildrenNat DEF Stack
<1>3. /\ values' \in [All -> SUBSET Locals]
      /\ \A g \in All \ {f} : values'[g] = values[g]
  BY <1>1 DEF RefsInv, RefsTypeOK
<1>4. \A g \in All : refs[g] = 0 => values'[g] = values[g]
  BY <1>2, <1>3
<1>5. \A g \in All : Own(g)' = Own(g)
  BY <1>1 DEF Own
<1> QED BY <1>1, <1>3, <1>4, <1>5, UnreferredKeeps

\* A step of fiber f alone, which makes k references to it: a references of
\* events are new, b of the wait queue and c of its code.
FiberStep(f, k, m, n, a, b, c) ==
    /\ k > 0 => Stack(pc[f]) > 0
    /\ m \in [All -> Nat] /\ n \in [All -> Nat]
    /\ \A g \in All : m[g] = IF g = f THEN k ELSE 0
    /\ a + b + c = k - n[f]
    /\ \A g \in All \ {f} : n[g] = 0 /\ pc'[g] = pc[g]
    /\ \A g \in All : Occurs(events', ForFiber(g))
                      = Occurs(events, ForFiber(g)) + (IF g = f THEN a ELSE 0)
    /\ \A g \in All : Occurs(waitQueue', {g})
                      = Occurs(waitQueue, {g}) + (IF g = f THEN b ELSE 0)
    /\ Stack(pc'[f]) = Stack(pc[f]) + c
    /\ pc'[f] # "unborn"

LEMMA FiberRefs ==
    ASSUME RefsInv, WaitTypeOK, WaitTypeOK', NEW f \in All, parent' = parent, loop' # "left",
           NEW k \in Nat, NEW m, NEW n, Refer(m, n),
           NEW a \in Int, NEW b \in Int, NEW c \in Int, FiberStep(f, k, m, n, a, b, c)
    PROVE  RefsInv'
<1> USE DEF FiberStep
<1>1. ASSUME NEW g \in All PROVE Own(g)' = Own(g) + m[g] - n[g]
  <2>1. Own(g) \in Nat /\ m[g] \in Nat /\ n[g] \in Nat
    BY ChildrenNat
  <2> HIDE DEF Own
  <2>2. CASE g = f
    <3>1. Own(f)' = Own(f) + a + b + c
      BY OwnChanges
    <3>2. Own(f) \in Nat /\ m[f] = k /\ n[f] \in Nat
      BY <2>1, <2>2
    <3> QED BY <2>2, <3>1, <3>2
  <2>3. CASE g # f
    <3>1. /\ Occurs(events', ForFiber(g)) = Occurs(events, ForFiber(g)) + 0
          /\ Occurs(waitQueue', {g}) = Occurs(waitQueue, {g}) + 0
          /\ Stack(pc'[g]) = Stack(pc[g]) + 0
      <4>1. Stack(pc[g]) \in Nat /\ pc'[g] = pc[g]
        BY <2>3 DEF Stack
      <4>2. Stack(pc'[g]) = Stack(pc[g]) + 0
        BY <4>1
      <4> QED BY <2>3, <4>2
    <3>2. Own(g)' = Own(g) + 0 + 0 + 0
      BY <3>1, OwnChanges
    <3>3. m[g] = 0 /\ n[g] = 0
      BY <2>3
    <3> QED BY <2>1, <3>2, <3>3
  <2> QED BY <2>2, <2>3
<1>2. \A g \in All : m[g] > 0 => refs[g] > 0
  <2>1. Stack(pc[f]) > 0 => refs[f] > 0
    BY ChildrenNat
  <2> QED BY <2>1
<1>3. \A g \in All : pc'[g] = "unborn" => pc[g] = "unborn"
  OBVIOUS
<1> QED BY <1>1, <1>2, <1>3, ReferKeeps

\* setupTimer puts one event for f on the list.
LEMMA SetupOccurs ==
    ASSUME WaitTypeOK, NEW f \in All, NEW d \in Nat, setupTimer(f, d), NEW g \in All
    PROVE  Occurs(events', ForFiber(g))
           = Occurs(events, ForFiber(g)) + (IF g = f THEN 1 ELSE 0)
<1>1. Event(f, d) \in EventType /\ Event(f, d).fiber = f
  BY NewEventFacts
<1>2. events \in Seq(EventType) /\ events' = <<Event(f, d)>> \o events
  BY DEF WaitTypeOK, setupTimer
<1>3. Event(f, d) \in ForFiber(g) <=> g = f
  BY <1>1 DEF ForFiber
<1>4. Occurs(events', ForFiber(g))
      = Occurs(events, ForFiber(g)) + (IF Event(f, d) \in ForFiber(g) THEN 1 ELSE 0)
  BY <1>1, <1>2, OccursPush
<1> QED BY <1>3, <1>4

\* What stands for a list that is the same in FiberRefs.
LEMMA SameOccurs ==
    ASSUME WaitTypeOK, NEW g
    PROVE  /\ Occurs(events, ForFiber(g)) \in Nat /\ Occurs(waitQueue, {g}) \in Nat
           /\ Occurs(events, ForFiber(g)) = Occurs(events, ForFiber(g)) + 0
           /\ Occurs(waitQueue, {g}) = Occurs(waitQueue, {g}) + 0
<1>1. events \in Seq(EventType) /\ waitQueue \in Seq(All)
  BY DEF WaitTypeOK
<1>2. Occurs(events, ForFiber(g)) \in Nat /\ Occurs(waitQueue, {g}) \in Nat
  BY <1>1, OwnedNat
<1> QED BY <1>2

\* Canceling leaves the events on the list.
LEMMA CancelOccurs ==
    ASSUME WaitTypeOK, NEW f \in All, NEW g
    PROVE  Occurs(Cancelled(f), ForFiber(g)) = Occurs(events, ForFiber(g))
<1>1. /\ Cancelled(f) \in Seq(EventType) /\ Len(Cancelled(f)) = Len(events)
      /\ \A i \in 1..Len(events) : Cancelled(f)[i].fiber = events[i].fiber
      /\ events \in Seq(EventType)
  BY CancelledFacts DEF WaitTypeOK
<1>2. {i \in 1..Len(Cancelled(f)) : Cancelled(f)[i].fiber = g}
      = {i \in 1..Len(events) : events[i].fiber = g}
  BY <1>1
<1> QED BY <1>1, <1>2, OccursOfFiber

LEMMA SleepToRefs ==
    ASSUME RefsInv, WaitTypeOK, WaitTypeOK', NEW f \in All,
           pc[f] \in {"run", "fire", "new", "check"}, NEW d \in Nat,
           NEW at \in {"sleep", "delay", "period"}, SleepTo(f, d, at)
    PROVE  RefsInv'
<1> DEFINE m == [Ref(f) EXCEPT ![f] = 2]
<1>1. /\ setupTimer(f, d) /\ Refer(m, Zero) /\ pc' = [pc EXCEPT ![f] = at]
      /\ waitQueue' = waitQueue /\ parent' = parent /\ loop' # "left"
  BY DEF SleepTo, Become, BackToLoop
<1>2. /\ m \in [All -> Nat] /\ Zero \in [All -> Nat]
      /\ \A g \in All : m[g] = (IF g = f THEN 2 ELSE 0) /\ Zero[g] = 0
  BY RefFacts
<1>3. pc'[f] = at /\ \A g \in All \ {f} : pc'[g] = pc[g]
  BY <1>1 DEF WaitTypeOK
<1>4. Stack(pc[f]) = 1 /\ Stack(pc'[f]) = 1 + 1
  BY <1>3 DEF Stack
<1>5. \A g \in All : Occurs(events', ForFiber(g))
                     = Occurs(events, ForFiber(g)) + (IF g = f THEN 1 ELSE 0)
  BY <1>1, SetupOccurs
<1>6. \A g \in All : Occurs(waitQueue', {g})
                     = Occurs(waitQueue, {g}) + (IF g = f THEN 0 ELSE 0)
  BY <1>1, SameOccurs
<1>7. 1 + 0 + 1 = 2 - Zero[f] /\ pc'[f] # "unborn"
  BY <1>2, <1>3
<1>8. 2 > 0 => Stack(pc[f]) > 0
  BY <1>4
<1> HIDE DEF m
<1>9. FiberStep(f, 2, m, Zero, 1, 0, 1)
  BY <1>2, <1>3, <1>4, <1>5, <1>6, <1>7, <1>8 DEF FiberStep
<1> QED BY <1>1, <1>9, FiberRefs

LEMMA SleepReturnRefs ==
    ASSUME RefsInv, WaitTypeOK, WaitTypeOK', NEW f \in All, SleepReturn(f)
    PROVE  RefsInv'
<1>1. /\ pc[f] \in {"sleep", "delay", "period"} /\ events' = Cancelled(f)
      /\ Refer(Zero, Ref(f)) /\ pc' = [pc EXCEPT ![f] = AfterSleep(f)]
      /\ waitQueue' = waitQueue /\ parent' = parent /\ loop' # "left"
  BY DEF SleepReturn, cancelTimer, Has
<1>2. /\ Ref(f) \in [All -> Nat] /\ Zero \in [All -> Nat] /\ Ref(f)[f] = 1
      /\ \A g \in All : Zero[g] = IF g = f THEN 0 ELSE 0
      /\ \A g \in All \ {f} : Ref(f)[g] = 0
  BY RefFacts
<1>3. AfterSleep(f) \in {"run", "fire", "check", "call"}
  BY <1>1 DEF AfterSleep, Program
<1>4. pc'[f] \in {"run", "fire", "check", "call"} /\ \A g \in All \ {f} : pc'[g] = pc[g]
  BY <1>1, <1>3 DEF WaitTypeOK
<1>5. Stack(pc[f]) = 2 /\ Stack(pc'[f]) = 2 + (-1)
  BY <1>1, <1>4 DEF Stack
<1>6. \A g \in All : Occurs(events', ForFiber(g))
                     = Occurs(events, ForFiber(g)) + (IF g = f THEN 0 ELSE 0)
  BY <1>1, CancelOccurs, SameOccurs
<1>7. \A g \in All : Occurs(waitQueue', {g})
                     = Occurs(waitQueue, {g}) + (IF g = f THEN 0 ELSE 0)
  BY <1>1, SameOccurs
<1>8. 0 + 0 + (-1) = 0 - Ref(f)[f] /\ pc'[f] # "unborn"
  BY <1>2, <1>4
<1>9. FiberStep(f, 0, Zero, Ref(f), 0, 0, -1)
  BY <1>2, <1>4, <1>5, <1>6, <1>7, <1>8 DEF FiberStep
<1> QED BY <1>1, <1>9, FiberRefs

LEMMA TimedWaitRefs ==
    ASSUME RefsInv, WaitTypeOK, WaitTypeOK', NEW f \in All, NEW d \in Nat, TimedWait(f, d)
    PROVE  RefsInv'
<1> DEFINE k == IF d > 0 THEN 2 ELSE 1
           a == IF d > 0 THEN 1 ELSE 0
           m == [Ref(f) EXCEPT ![f] = k]
<1>1. /\ IF d > 0 THEN setupTimer(f, d) ELSE events' = events
      /\ pc[f] \in {"run", "fire"} /\ Refer(m, Zero) /\ waitQueue' = Append(waitQueue, f)
      /\ pc' = [pc EXCEPT ![f] = IF d > 0 THEN "wait" ELSE "waitLong"]
      /\ parent' = parent /\ loop' # "left"
  BY DEF TimedWait, InProgram, Program, Become, BackToLoop
<1>2. k \in Nat /\ a \in Int
  OBVIOUS
<1>3. /\ m \in [All -> Nat] /\ Zero \in [All -> Nat]
      /\ \A g \in All : m[g] = (IF g = f THEN k ELSE 0) /\ Zero[g] = 0
  BY <1>2, RefFacts
<1>4. pc'[f] \in {"wait", "waitLong"} /\ \A g \in All \ {f} : pc'[g] = pc[g]
  BY <1>1 DEF WaitTypeOK
<1>5. Stack(pc[f]) = 1 /\ Stack(pc'[f]) = Stack(pc[f]) + 0
  BY <1>1, <1>4 DEF Stack
<1>6. \A g \in All : Occurs(events', ForFiber(g))
                     = Occurs(events, ForFiber(g)) + (IF g = f THEN a ELSE 0)
  <2>1. CASE d > 0
    BY <1>1, <2>1, SetupOccurs
  <2>2. CASE ~(d > 0)
    BY <1>1, <2>2, SameOccurs
  <2> QED BY <2>1, <2>2
<1>7. \A g \in All : Occurs(waitQueue', {g})
                     = Occurs(waitQueue, {g}) + (IF g = f THEN 1 ELSE 0)
  <2>1. waitQueue \in Seq(All)
    BY DEF WaitTypeOK
  <2>2. ASSUME NEW g \in All
        PROVE  Occurs(Append(waitQueue, f), {g})
               = Occurs(waitQueue, {g}) + (IF f \in {g} THEN 1 ELSE 0)
    BY <2>1, OccursAppend
  <2> QED BY <1>1, <2>2
<1>8. a + 1 + 0 = k - Zero[f] /\ pc'[f] # "unborn"
  BY <1>3, <1>4
<1> HIDE DEF m, k, a
<1>9. FiberStep(f, k, m, Zero, a, 1, 0)
  BY <1>3, <1>4, <1>5, <1>6, <1>7, <1>8 DEF FiberStep
<1> QED BY <1>1, <1>2, <1>9, FiberRefs

\* A fiber that takes itself off the wait queue was on it once.
LEMMA TimedWaitReturnRefs ==
    ASSUME RefsInv, WaitInv, WaitTypeOK', NEW f \in All, TimedWaitReturn(f)
    PROVE  RefsInv'
<1> USE DEF WaitInv
<1>1. /\ pc[f] \in {"wait", "waitLong"} /\ pc' = [pc EXCEPT ![f] = Program(f)]
      /\ events' \in {events, Cancelled(f)} /\ parent' = parent
      /\ loop' # "left"
  BY DEF TimedWaitReturn, cancelTimer, Has
<1>2. pc'[f] \in {"run", "fire"} /\ \A g \in All \ {f} : pc'[g] = pc[g]
  BY <1>1 DEF WaitTypeOK, Program
<1>3. \A g \in All : Stack(pc'[g]) = Stack(pc[g]) /\ (pc'[g] = "unborn" => pc[g] = "unborn")
  BY <1>1, <1>2 DEF Stack
<1>4. \A g \in All : Occurs(events', ForFiber(g)) = Occurs(events, ForFiber(g))
  BY <1>1, CancelOccurs
<1>5. CASE UNCHANGED <<waitQueue, refs, values, freed>>
  <2>1. \A g \in All : Own(g)' = Own(g)
    BY <1>3, <1>4, <1>5 DEF Own, Owned
  <2> QED BY <1>1, <1>3, <1>5, <2>1, UnreferredKeeps DEF RefsInv, RefsTypeOK
<1> DEFINE K == {i \in 1..Len(waitQueue) : waitQueue[i] # f}
<1>6. waitQueue \in Seq(All) /\ DOMAIN waitQueue = 1..Len(waitQueue) /\ Len(waitQueue) \in Nat
  BY DEF WaitTypeOK
<1>7. CASE /\ f \in ToSet(waitQueue) /\ Refer(Zero, Ref(f))
           /\ waitQueue' = Picked(waitQueue, {i \in DOMAIN waitQueue : waitQueue[i] # f})
  <2>1. /\ Ref(f) \in [All -> Nat] /\ Zero \in [All -> Nat] /\ Ref(f)[f] = 1
        /\ \A g \in All : Zero[g] = IF g = f THEN 0 ELSE 0
        /\ \A g \in All \ {f} : Ref(f)[g] = 0
    BY RefFacts
  <2>2. waitQueue' = Picked(waitQueue, K)
    BY <1>6, <1>7
  <2>3. \A g \in All : Occurs(waitQueue', {g}) = Cardinality({i \in K : waitQueue[i] \in {g}})
    BY <1>6, <2>2, OccursPicked
  <2>4. Occurs(waitQueue, {f}) = 1 /\ Occurs(waitQueue', {f}) = 0
    <3>1. PICK i \in 1..Len(waitQueue) : waitQueue[i] = f
      BY <1>6, <1>7 DEF ToSet
    <3>2. {j \in 1..Len(waitQueue) : waitQueue[j] \in {f}} = {i}
      BY <3>1 DEF WaitQueueFits
    <3>3. {j \in K : waitQueue[j] \in {f}} = {}
      OBVIOUS
    <3>4. Cardinality({i}) = 1 /\ Cardinality({}) = 0
      BY FS_Singleton, FS_EmptySet
    <3>5. Occurs(waitQueue, {f}) = 1
      BY <3>2, <3>4 DEF Occurs
    <3>6. Occurs(waitQueue', {f}) = 0
      BY <2>3, <3>3, <3>4
    <3> QED BY <3>5, <3>6
  <2>5. ASSUME NEW g \in All, g # f PROVE Occurs(waitQueue', {g}) = Occurs(waitQueue, {g})
    <3>1. {j \in K : waitQueue[j] \in {g}} = {j \in 1..Len(waitQueue) : waitQueue[j] \in {g}}
      BY <2>5
    <3>2. Occurs(waitQueue', {g}) = Cardinality({j \in K : waitQueue[j] \in {g}})
      BY <2>3
    <3> QED BY <3>1, <3>2 DEF Occurs
  <2>6. ASSUME NEW g \in All
        PROVE  Occurs(waitQueue', {g}) = Occurs(waitQueue, {g}) + (IF g = f THEN -1 ELSE 0)
    <3>1. CASE g = f
      <4>1. Occurs(waitQueue', {f}) = Occurs(waitQueue, {f}) + (-1)
        BY <2>4
      <4> QED BY <3>1, <4>1
    <3>2. CASE g # f
      <4>1. Occurs(waitQueue, {g}) = Occurs(waitQueue, {g}) + 0
        BY SameOccurs
      <4> QED BY <2>5, <3>2, <4>1
    <3> QED BY <3>1, <3>2
  <2>7. \A g \in All : Occurs(events', ForFiber(g))
                       = Occurs(events, ForFiber(g)) + (IF g = f THEN 0 ELSE 0)
    BY <1>4, SameOccurs
  <2>8. Stack(pc'[f]) = Stack(pc[f]) + 0
    BY <1>1, <1>2 DEF Stack
  <2>9. 0 + (-1) + 0 = 0 - Ref(f)[f]
    BY <2>1
  <2>10. FiberStep(f, 0, Zero, Ref(f), 0, -1, 0)
    BY <1>2, <2>1, <2>6, <2>7, <2>8, <2>9 DEF FiberStep
  <2> QED BY <1>1, <1>7, <2>10, FiberRefs
<1> QED BY <1>5, <1>7 DEF TimedWaitReturn

LEMMA WakeUpRefs ==
    ASSUME RefsInv, WaitInv, WaitTypeOK', NEW f \in All, WakeUpFiber(f)
    PROVE  RefsInv'
<1> USE DEF WaitInv
<1> DEFINE h == Head(waitQueue)
<1>1. /\ waitQueue # <<>> /\ waitQueue' = Tail(waitQueue) /\ Refer(Zero, Ref(h))
      /\ UNCHANGED <<events, pc, parent>> /\ loop' # "left"
  BY DEF WakeUpFiber, InProgram, Has
<1>2. waitQueue \in Seq(All)
  BY DEF WaitTypeOK
<1>3. h \in All /\ h = waitQueue[1] /\ Len(waitQueue) \in Nat /\ Len(waitQueue) >= 1
  BY <1>1, <1>2, TailFacts
<1>4. pc[h] \in {"wait", "waitLong"}
  BY <1>3 DEF WaitQueueFits
<1>5. ASSUME NEW g \in All
      PROVE  Occurs(waitQueue', {g}) = Occurs(waitQueue, {g}) + (IF g = h THEN -1 ELSE 0)
  <2>1. Occurs(waitQueue, {g}) = Occurs(Tail(waitQueue), {g}) + (IF h \in {g} THEN 1 ELSE 0)
    BY <1>1, <1>2, OccursTail
  <2>2. Tail(waitQueue) \in Seq(All)
    BY <1>1, <1>2, TailFacts
  <2>3. Len(Tail(waitQueue)) \in Nat
    BY <2>2
  <2>4. Occurs(Tail(waitQueue), {g}) \in Nat
    BY <2>3, OccursNat
  <2> HIDE DEF h
  <2> QED BY <1>1, <2>1, <2>4
<1> HIDE DEF h
<1>6. /\ Ref(h) \in [All -> Nat] /\ Zero \in [All -> Nat] /\ Ref(h)[h] = 1
      /\ \A g \in All : Zero[g] = IF g = h THEN 0 ELSE 0
      /\ \A g \in All \ {h} : Ref(h)[g] = 0
  BY <1>3, RefFacts
<1>7. \A g \in All : Occurs(events', ForFiber(g))
                     = Occurs(events, ForFiber(g)) + (IF g = h THEN 0 ELSE 0)
  BY <1>1, SameOccurs
<1>8. Stack(pc'[h]) = Stack(pc[h]) + 0 /\ pc'[h] # "unborn"
  BY <1>1, <1>4 DEF Stack
<1>9. 0 + (-1) + 0 = 0 - Ref(h)[h]
  BY <1>6
<1>10. \A g \in All \ {h} : Ref(h)[g] = 0 /\ pc'[g] = pc[g]
  BY <1>1, <1>6
<1>11. FiberStep(h, 0, Zero, Ref(h), 0, -1, 0)
  BY <1>5, <1>6, <1>7, <1>8, <1>9, <1>10 DEF FiberStep
<1> QED BY <1>1, <1>3, <1>11, FiberRefs

LEMMA EndRunRefs ==
    ASSUME RefsInv, WaitTypeOK, WaitTypeOK', NEW f \in All,
           pc[f] \in {"run", "done", "check"}, EndRun(f)
    PROVE  RefsInv'
<1>1. /\ pc' = [pc EXCEPT ![f] = "end"] /\ Refer(Zero, Ref(f))
      /\ UNCHANGED <<events, waitQueue, parent>> /\ loop' # "left"
  BY DEF EndRun, Become, BackToLoop, DroppedAtEnd, waitVars
<1>2. /\ Ref(f) \in [All -> Nat] /\ Zero \in [All -> Nat] /\ Ref(f)[f] = 1
      /\ \A g \in All : Zero[g] = IF g = f THEN 0 ELSE 0
      /\ \A g \in All \ {f} : Ref(f)[g] = 0
  BY RefFacts
<1>3. pc'[f] = "end" /\ \A g \in All \ {f} : pc'[g] = pc[g]
  BY <1>1 DEF WaitTypeOK
<1>4. Stack(pc'[f]) = Stack(pc[f]) + (-1)
  BY <1>3 DEF Stack
<1>5. \A g \in All : Occurs(events', ForFiber(g))
                     = Occurs(events, ForFiber(g)) + (IF g = f THEN 0 ELSE 0)
  BY <1>1, SameOccurs
<1>6. \A g \in All : Occurs(waitQueue', {g})
                     = Occurs(waitQueue, {g}) + (IF g = f THEN 0 ELSE 0)
  BY <1>1, SameOccurs
<1>7. 0 + 0 + (-1) = 0 - Ref(f)[f] /\ pc'[f] # "unborn"
  BY <1>2, <1>3
<1>8. FiberStep(f, 0, Zero, Ref(f), 0, 0, -1)
  BY <1>2, <1>3, <1>4, <1>5, <1>6, <1>7 DEF FiberStep
<1> QED BY <1>1, <1>8, FiberRefs

\* A fiber that is not made yet is nobody's parent, and no list refers to it.
LEMMA UnbornFacts ==
    ASSUME RefsInv, WaitTypeOK, NEW t \in All, pc[t] = "unborn"
    PROVE  refs[t] = 0 /\ Own(t) = 0 /\ \A g \in All : parent[g] # t
<1>1. refs[t] = 0 /\ \A g \in All : parent[g] # t
  BY DEF RefsInv, Parents
<1> QED BY <1>1, ChildrenNat

LEMMA MadeRefs ==
    ASSUME RefsInv, WaitInv, WaitTypeOK', NEW f \in All \union {None}, NEW t \in All,
           NEW at \in {"run", "new"}, Made(f, t, at), f \in All => InProgram(f),
           loop # "left"
    PROVE  RefsInv'
<1> USE DEF WaitInv
<1> DEFINE m == [g \in All |-> IF g \in {f, t} THEN 1 ELSE 0]
<1>1. /\ pc[t] = "unborn" /\ pc' = [pc EXCEPT ![t] = at]
      /\ parent' = [parent EXCEPT ![t] = f] /\ Refer(m, Zero)
      /\ UNCHANGED <<events, waitQueue>> /\ loop' # "left"
      /\ f \in All => pc[f] \in {"run", "fire"}
  BY DEF Made, Become, InProgram, Program, Has, waitVars
<1>2. f # t /\ None \notin All
  BY <1>1, Constants
<1>3. refs[t] = 0 /\ (\A g \in All : parent[g] # t) /\ Own(t) = 0
  BY <1>1, UnbornFacts
<1>4. /\ refs \in [All -> Nat] /\ parent \in [All -> All \union {None}]
      /\ values \in [All -> SUBSET Locals] /\ freed \in [All -> SUBSET Locals]
  BY DEF RefsInv, RefsTypeOK
<1>5. refs' = [g \in All |-> refs[g] + m[g]] /\ freed' = freed /\ values' = values
  <2>1. \A g \in All : m[g] \in Nat /\ Zero[g] = 0
    BY DEF Zero
  <2>2. freed = [g \in All |-> freed[g]]
    BY <1>4
  <2> HIDE DEF m
  <2> QED BY <1>1, <1>4, <2>1, <2>2, MoreFacts
<1>6. /\ refs' \in [All -> Nat] /\ refs'[t] = 1
      /\ \A g \in All : refs'[g] = refs[g] + (IF g \in {f, t} THEN 1 ELSE 0)
  <2>1. \A g \in All : refs[g] \in Nat /\ refs[g] + m[g] \in Nat
    BY <1>4
  <2> QED BY <1>2, <1>3, <1>5, <2>1
<1>7. /\ pc'[t] = at /\ \A g \in All \ {t} : pc'[g] = pc[g]
      /\ parent'[t] = f /\ \A g \in All \ {t} : parent'[g] = parent[g]
      /\ parent' \in [All -> All \union {None}]
  BY <1>1, <1>2, <1>4 DEF WaitTypeOK
<1>8. f \in All => refs[f] > 0
  <2>1. f \in All => Stack(pc[f]) > 0
    BY <1>1 DEF Stack
  <2> QED BY <2>1, ChildrenNat
<1>9. {g \in All : refs'[g] > 0} = Alive \union {t} /\ t \notin Alive
  <2>1. ASSUME NEW g \in All PROVE refs'[g] > 0 <=> refs[g] > 0 \/ g = t
    <3>1. refs[g] \in Nat /\ refs'[g] = refs[g] + (IF g \in {f, t} THEN 1 ELSE 0)
      BY <1>4, <1>6
    <3> QED BY <1>3, <1>8, <3>1
  <2> QED BY <1>2, <1>3, <2>1 DEF Alive
<1>10. RefsTypeOK'
  BY <1>4, <1>5, <1>6, <1>7 DEF RefsTypeOK
<1>11. Exact'
  <2>1. ASSUME NEW g \in All PROVE refs'[g] = Own(g)' + Children(g, Alive)'
    <3> DEFINE A == {x \in Alive : parent[x] = g}
               B == {x \in Alive \union {t} : parent'[x] = g}
    <3>1. Children(g, Alive) = Cardinality(A) /\ Children(g, Alive)' = Cardinality(B)
      BY <1>9 DEF Children, Alive
    <3>2. IsFiniteSet(A)
      <4>1. A \in SUBSET All
        BY DEF Alive
      <4> QED BY <4>1, Constants, FS_Subset
    <3>3. B = (IF g = f THEN A \union {t} ELSE A) /\ t \notin A
      BY <1>2, <1>7, <1>9 DEF Alive
    <3>4. Cardinality(A) \in Nat
      BY <3>2, FS_CardinalityType
    <3> HIDE DEF A, B
    <3>5. Cardinality(A \union {t}) = Cardinality(A) + 1
      BY <3>2, <3>3, FS_AddElement
    <3>6. Cardinality(B) = Cardinality(A) + (IF g = f THEN 1 ELSE 0)
      BY <3>3, <3>4, <3>5
    <3>7. Own(g)' = Own(g) + (IF g = t THEN 1 ELSE 0)
      <4>1. Stack(pc'[g]) = Stack(pc[g]) + (IF g = t THEN 1 ELSE 0) /\ Stack(pc[g]) \in Nat
        BY <1>1, <1>7 DEF Stack
      <4>2. Occurs(events, ForFiber(g)) \in Nat /\ Occurs(waitQueue, {g}) \in Nat
        BY SameOccurs
      <4>3. Own(g)' = Occurs(events, ForFiber(g)) + Occurs(waitQueue, {g}) + Stack(pc'[g])
        BY <1>1 DEF Own, Owned
      <4>4. Own(g) = Occurs(events, ForFiber(g)) + Occurs(waitQueue, {g}) + Stack(pc[g])
        BY DEF Own, Owned
      <4> QED BY <4>1, <4>2, <4>3, <4>4
    <3>8. Own(g) \in Nat /\ refs[g] = Own(g) + Children(g, Alive)
      BY ChildrenNat
    <3>9. refs'[g] = refs[g] + (IF g \in {f, t} THEN 1 ELSE 0)
      BY <1>6
    <3> HIDE DEF Own
    <3> QED BY <1>2, <3>1, <3>4, <3>6, <3>7, <3>8, <3>9
  <2> QED BY <2>1 DEF Exact
<1>12. Parents'
  <2>1. ASSUME NEW g \in All
        PROVE  /\ pc'[g] = "unborn" => refs'[g] = 0
               /\ parent'[g] \in All => pc'[parent'[g]] # "unborn"
    <3>1. CASE g = t
      BY <1>1, <1>2, <1>7, <3>1
    <3>2. CASE g # t
      <4>1. pc'[g] = pc[g] /\ parent'[g] = parent[g] /\ parent[g] # t
        BY <1>3, <1>7, <3>2
      <4>2. /\ pc[g] = "unborn" => refs[g] = 0 /\ g # f
            /\ parent[g] \in All => pc[parent[g]] # "unborn"
        BY <1>1 DEF RefsInv, Parents
      <4>3. g # f => refs'[g] = refs[g]
        BY <1>4, <1>6, <3>2
      <4> QED BY <1>7, <4>1, <4>2, <4>3
    <3> QED BY <3>1, <3>2
  <2> QED BY <2>1 DEF Parents
<1>13. Rooted'
  <2>1. PICK rank \in [All -> Nat], top \in Nat : Ranks(rank, top)
    BY DEF RefsInv, Rooted
  <2> DEFINE r == IF f \in All THEN rank[f] + 1 ELSE 0
             rank2 == [rank EXCEPT ![t] = r]
  <2>2. /\ r \in Nat /\ r <= top + 1 /\ rank2 \in [All -> Nat] /\ top + 1 \in Nat
        /\ rank2[t] = r /\ \A g \in All \ {t} : rank2[g] = rank[g]
    BY <1>2, <2>1 DEF Ranks
  <2>3. ASSUME NEW g \in All
        PROVE  rank2[g] <= top + 1 /\ (parent'[g] \in All => rank2[parent'[g]] < rank2[g])
    <3>1. CASE g = t
      <4>1. parent'[g] = f /\ rank2[g] = r
        BY <1>7, <2>2, <3>1
      <4>2. f \in All => rank2[f] = rank[f] /\ r = rank[f] + 1 /\ rank[f] \in Nat
        BY <1>2, <2>2
      <4> HIDE DEF r, rank2
      <4> QED BY <2>2, <4>1, <4>2
    <3>2. CASE g # t
      <4>1. parent'[g] = parent[g] /\ rank2[g] = rank[g] /\ rank[g] \in Nat
        BY <1>7, <2>2, <3>2
      <4>2. parent[g] \in All => rank2[parent[g]] = rank[parent[g]]
        BY <1>3, <2>2
      <4>3. rank[g] <= top /\ (parent[g] \in All => rank[parent[g]] < rank[g])
        BY <2>1 DEF Ranks
      <4> HIDE DEF r, rank2
      <4> QED BY <4>1, <4>2, <4>3
    <3> QED BY <3>1, <3>2
  <2> HIDE DEF rank2, r
  <2>4. Ranks(rank2, top + 1)'
    BY <2>3 DEF Ranks
  <2> QED BY <2>2, <2>4 DEF Rooted
<1>14. Given'
  <2>1. ASSUME NEW g \in All, refs'[g] = 0 PROVE freed'[g] = values'[g]
    <3>1. refs[g] \in Nat /\ refs'[g] = refs[g] + (IF g \in {f, t} THEN 1 ELSE 0)
      BY <1>4, <1>6
    <3>2. refs[g] = 0
      BY <2>1, <3>1
    <3> QED BY <1>5, <3>2 DEF RefsInv, Given
  <2> QED BY <2>1 DEF Given
<1>15. AtEnd'
  BY <1>1 DEF AtEnd
<1> QED BY <1>10, <1>11, <1>12, <1>13, <1>14, <1>15 DEF RefsInv

\* Spawn and addtimer().
LEMMA BornRefs ==
    ASSUME RefsInv, WaitInv, WaitTypeOK',
           \/ \E f \in All, g \in Fibers : Spawn(f, g)
           \/ \E t \in Timers, f \in All \union {None} : AddTimer(f, t)
    PROVE  RefsInv'
<1>1. ASSUME NEW f \in All, NEW g \in Fibers, Spawn(f, g) PROVE RefsInv'
  <2>1. InProgram(f) /\ Made(f, g, "run") /\ loop # "left" /\ g \in All
    BY <1>1 DEF Spawn, InProgram, Has, All
  <2> QED BY <2>1, MadeRefs
<1>2. ASSUME NEW t \in Timers, NEW f \in All \union {None}, AddTimer(f, t) PROVE RefsInv'
  <2>1. /\ Made(f, t, "new") /\ loop # "left" /\ t \in All
        /\ f \in All => InProgram(f)
    BY <1>2, Constants DEF AddTimer, InProgram, Has
  <2> QED BY <2>1, MadeRefs
<1> QED BY <1>1, <1>2

LEMMA InitRefs == Init => RefsInv
<1> SUFFICES ASSUME Init PROVE RefsInv
  OBVIOUS
<1> USE DEF Init
<1>1. RefsTypeOK
  BY DEF RefsTypeOK
<1>2. Exact
  <2>1. ASSUME NEW f \in All PROVE refs[f] = Own(f) + Children(f, Alive)
    <3>1. Occurs(events, ForFiber(f)) = 0 /\ Occurs(waitQueue, {f}) = 0
      <4>1. Len(<<>>) = 0 /\ Len(<<>>) \in Nat /\ \A i \in 1..Len(<<>>) : FALSE
        OBVIOUS
      <4>2. \A V : Occurs(<<>>, V) = 0
        BY <4>1, OccursNat
      <4> QED BY <4>2
    <3>2. Children(f, Alive) = 0
      <4>1. {g \in Alive : parent[g] = f} = {}
        BY Constants DEF Alive
      <4> QED BY <4>1, FS_EmptySet DEF Children
    <3>3. Stack(pc[f]) = refs[f]
      BY DEF Stack
    <3>4. refs[f] \in Nat
      OBVIOUS
    <3> QED BY <3>1, <3>2, <3>3, <3>4 DEF Own, Owned
  <2> QED BY <2>1 DEF Exact
<1>3. Parents /\ Given /\ AtEnd
  BY Constants DEF Parents, Given, AtEnd
<1>4. Rooted
  <2> DEFINE rank == [f \in All |-> 0]
  <2>1. rank \in [All -> Nat] /\ Ranks(rank, 0)
    BY Constants DEF Ranks
  <2> QED BY <2>1 DEF Rooted
<1> QED BY <1>1, <1>2, <1>3, <1>4 DEF RefsInv

LEMMA StepRefs == WaitInv /\ WaitInv' /\ RefsInv /\ [Next]_vars => RefsInv'
<1> SUFFICES ASSUME WaitInv, WaitInv', RefsInv, [Next]_vars PROVE RefsInv'
  OBVIOUS
<1>0. WaitTypeOK /\ WaitTypeOK'
  BY DEF WaitInv
<1>1. CASE Loop
  BY <1>0, <1>1, LoopRefs
<1>2. CASE \/ Tick \/ SetBack
           \/ \E f \in All : Yield(f) \/ \E t \in Timers : CancelTimer(f, t)
           \/ \E t \in Timers : RunTimer(t) \/ ReturnTimer(t)
  BY <1>0, <1>2, PlainRefs
<1>3. CASE \E f \in All : GoOn(f)
  <2>1. PICK f \in All : GoOn(f)
    BY <1>3
  <2>2. CASE End(f)
    <3>1. pc[f] \in {"run", "done", "check"} /\ EndRun(f)
      BY <2>2, Constants DEF End, InProgram, Program
    <3> QED BY <1>0, <3>1, EndRunRefs
  <2>3. CASE \E d \in Durations : Sleep(f, d)
    <3>1. PICK d \in Durations : Sleep(f, d)
      BY <2>3
    <3>2. d \in Nat /\ pc[f] \in {"run", "fire", "new", "check"} /\ SleepTo(f, d, "sleep")
      BY <3>1, Constants DEF Sleep, InProgram, Program
    <3> QED BY <1>0, <3>2, SleepToRefs
  <2>4. CASE \E d \in Durations : TimedWait(f, d)
    BY <1>0, <2>4, Constants, TimedWaitRefs
  <2> QED
    BY <1>0, <1>2, <2>1, <2>2, <2>3, <2>4, SleepReturnRefs, TimedWaitReturnRefs DEF GoOn
<1>4. CASE \E f \in All : WakeUpFiber(f)
  BY <1>0, <1>4, WakeUpRefs
<1>5. CASE \E f \in All, l \in Locals : SetLocal(f, l) \/ RemoveLocal(f, l)
  BY <1>0, <1>5, LocalRefs
<1>6. CASE \E t \in Timers : TimerStep(t)
  <2>1. PICK t \in Timers : TimerStep(t)
    BY <1>6
  <2>2. t \in All /\ delay[t] \in Nat /\ period[t] \in Nat
    BY <1>0, Constants DEF WaitTypeOK
  <2>3. CASE EndTimer(t)
    <3>1. pc[t] \in {"run", "done", "check"} /\ EndRun(t)
      BY <2>3 DEF EndTimer
    <3> QED BY <1>0, <2>2, <3>1, EndRunRefs
  <2>4. CASE StartTimer(t)
    <3>1. pc[t] \in {"run", "fire", "new", "check"} /\ SleepTo(t, delay[t], "delay")
      BY <2>4 DEF StartTimer
    <3> QED BY <1>0, <2>2, <3>1, SleepToRefs
  <2>5. CASE NextPeriod(t)
    <3>1. pc[t] \in {"run", "fire", "new", "check"} /\ SleepTo(t, period[t], "period")
      BY <2>5 DEF NextPeriod
    <3> QED BY <1>0, <2>2, <3>1, SleepToRefs
  <2> QED BY <1>2, <2>1, <2>3, <2>4, <2>5 DEF TimerStep
<1>7. CASE \/ \E f \in All, g \in Fibers : Spawn(f, g)
           \/ \E t \in Timers, f \in All \union {None} : AddTimer(f, t)
  BY <1>0, <1>7, BornRefs
<1>8. CASE UNCHANGED vars
  <2>1. UNCHANGED <<events, waitQueue, pc, loop, refs, parent, values, freed>>
    BY <1>8 DEF vars, waitVars, ownVars
  <2>2. \A f \in All : Own(f)' = Own(f)
    BY <2>1 DEF Own
  <2> QED BY <2>1, <2>2, UnreferredKeeps DEF RefsInv, RefsTypeOK, AtEnd
<1>9. CASE ThreadStep
  BY <1>1, <1>3, <1>6, <1>9 DEF ThreadStep
<1> QED BY <1>2, <1>4, <1>5, <1>7, <1>8, <1>9 DEF Next

LEMMA RefsInvariant == Spec => [](WaitInv /\ RefsInv)
<1>1. Init => WaitInv /\ RefsInv
  BY InitWait, InitRefs
<1>2. WaitInv /\ RefsInv /\ [Next]_vars => (WaitInv /\ RefsInv)'
  BY StepWait, StepRefs
<1> QED BY <1>1, <1>2, PTL DEF Spec

\* Every field keeps to its values; that no count of references is negative
\* is that none is dropped twice.
THEOREM TypeOKHolds == Spec => []TypeOK
<1>1. ASSUME WaitInv, RefsInv PROVE TypeOK
  BY <1>1 DEF WaitInv, WaitTypeOK, RefsInv, RefsTypeOK, TypeOK, EventType
<1> QED BY <1>1, RefsInvariant, PTL

\* sp<EFiber> against the copies that the scheduler, the events, the wait
\* queue, the sleeping code and the children hold: the count is exact, in
\* whichever order they are dropped and however far a drop reaches up the
\* chain of parents.
THEOREM RefsExactHolds == Spec => []RefsExact
<1>1. ASSUME WaitInv, RefsInv PROVE RefsExact
  <2>1. ASSUME NEW f \in All PROVE refs[f] = References(f)
    <3> DEFINE a == Cardinality({i \in DOMAIN events : events[i].fiber = f})
               b == Cardinality({i \in DOMAIN waitQueue : waitQueue[i] = f})
               c == Cardinality({g \in All : parent[g] = f /\ refs[g] > 0})
    <3>1. events \in Seq(EventType) /\ waitQueue \in Seq(All)
      BY <1>1 DEF WaitInv, WaitTypeOK
    <3>2. DOMAIN events = 1..Len(events) /\ DOMAIN waitQueue = 1..Len(waitQueue)
      BY <3>1
    <3>3. a = Occurs(events, ForFiber(f))
      BY <3>1, <3>2, OccursOfFiber
    <3>4. b = Occurs(waitQueue, {f})
      <4>1. {i \in DOMAIN waitQueue : waitQueue[i] = f}
            = {i \in 1..Len(waitQueue) : waitQueue[i] \in {f}}
        BY <3>2
      <4> QED BY <4>1 DEF Occurs
    <3>5. c = Children(f, Alive)
      <4>1. {g \in All : parent[g] = f /\ refs[g] > 0} = {g \in Alive : parent[g] = f}
        BY DEF Alive
      <4> QED BY <4>1 DEF Children
    <3>6. Stack(pc[f]) = (IF Sleeping(f) THEN 1 ELSE 0)
                         + (IF pc[f] \in {"unborn", "end"} THEN 0 ELSE 1)
      BY DEF Stack, Sleeping
    <3>7. /\ a \in Nat /\ b \in Nat /\ c \in Nat /\ Stack(pc[f]) \in Nat
      BY <1>1, <3>1, <3>3, <3>4, <3>5, OwnedNat, ChildrenNat DEF WaitInv
    <3>8. refs[f] = a + b + Stack(pc[f]) + c
      BY <1>1, <3>3, <3>4, <3>5 DEF RefsInv, Exact, Own, Owned
    <3>9. References(f) = a + b + c + (IF Sleeping(f) THEN 1 ELSE 0)
                          + (IF pc[f] \in {"unborn", "end"} THEN 0 ELSE 1)
      BY DEF References
    <3> HIDE DEF a, b, c
    <3> QED BY <3>6, <3>7, <3>8, <3>9
  <2> QED BY <2>1 DEF RefsExact
<1> QED BY <1>1, RefsInvariant, PTL

\* A fiber is of its own family, and so are the children of one of it.
LEMMA FamilyFacts ==
    ASSUME NEW f \in All
    PROVE  /\ f \in Family(f) /\ Family(f) \in SUBSET All
           /\ \A g \in All : parent[g] \in Family(f) => g \in Family(f)
BY DEF Family

\* Once every run has ended, a family without an event is gone: the youngest
\* of it that was there would have no child and nothing else to keep it.
LEMMA FamilyGone ==
    ASSUME WaitInv, RefsInv, loop = "left", NEW f \in All,
           \A i \in 1..Len(events) : events[i].fiber \notin Family(f)
    PROVE  refs[f] = 0
<1> USE DEF WaitInv
<1>1. \A g \in All : pc[g] \in {"unborn", "end"}
  BY DEF RefsInv, AtEnd
<1>2. events \in Seq(EventType) /\ waitQueue \in Seq(All)
  BY DEF WaitTypeOK
<1>3. Len(events) \in Nat /\ Len(waitQueue) \in Nat
  BY <1>2
<1>4. ASSUME NEW g \in Family(f) PROVE g \in All /\ Own(g) = 0
  <2>1. g \in All
    BY FamilyFacts
  <2>2. \A i \in 1..Len(events) : events[i] \notin ForFiber(g)
    BY DEF ForFiber
  <2>3. \A i \in 1..Len(waitQueue) : waitQueue[i] # g
    BY <1>1, <2>1 DEF WaitQueueFits
  <2>4. Occurs(events, ForFiber(g)) = 0 /\ Occurs(waitQueue, {g}) = 0
    BY <1>3, <2>2, <2>3, OccursNat
  <2> QED BY <1>1, <2>1, <2>4 DEF Own, Owned, Stack
<1>5. PICK rank \in [All -> Nat], top \in Nat : Ranks(rank, top)
  BY DEF RefsInv, Rooted
<1> DEFINE S == {g \in Family(f) : refs[g] > 0}
           K == {top - rank[g] : g \in S}
<1>6. SUFFICES ASSUME S # {} PROVE FALSE
  <2>1. refs[f] \in Nat
    BY DEF RefsInv, RefsTypeOK
  <2> QED BY <2>1, FamilyFacts
<1>7. \A g \in All : rank[g] \in Nat /\ rank[g] <= top /\ top - rank[g] \in Nat
  BY <1>5 DEF Ranks
<1>8. PICK g \in S : \A u \in S : rank[u] <= rank[g]
  <2>1. K \in SUBSET Nat /\ K # {}
    BY <1>4, <1>6, <1>7
  <2>2. PICK k \in K : \A j \in K : k <= j
    BY <2>1, LeastElement
  <2>3. PICK g \in S : k = top - rank[g]
    OBVIOUS
  <2>4. ASSUME NEW u \in S PROVE rank[u] <= rank[g]
    <3>1. top - rank[g] <= top - rank[u]
      BY <2>2, <2>3
    <3>2. rank[u] \in Nat /\ rank[g] \in Nat
      BY <1>4, <1>7
    <3> QED BY <3>1, <3>2
  <2> QED BY <2>4
<1>9. g \in All /\ g \in Family(f) /\ Own(g) = 0 /\ refs[g] > 0
  BY <1>4
<1>10. {u \in Alive : parent[u] = g} = {}
  <2>1. ASSUME NEW u \in Alive, parent[u] = g PROVE FALSE
    <3>1. u \in All /\ refs[u] > 0
      BY <2>1 DEF Alive
    <3>2. u \in S
      BY <1>9, <2>1, <3>1, FamilyFacts
    <3>3. rank[g] < rank[u]
      BY <1>5, <1>9, <2>1, <3>1 DEF Ranks
    <3>4. rank[u] <= rank[g]
      BY <1>8, <3>2
    <3> QED BY <1>7, <1>9, <3>1, <3>3, <3>4
  <2> QED BY <2>1
<1>11. Children(g, Alive) = 0
  BY <1>10, FS_EmptySet DEF Children
<1> QED BY <1>9, <1>11 DEF RefsInv, Exact

\* ~EFiber gives every value it still has to its EFiberLocal's callback, once
\* join() has returned: what could keep a fiber then is a cancelled event, its
\* own or that of a fiber or timer made by it, by one of those, and so on.
THEOREM LocalsFreedHolds == Spec => []LocalsFreed
<1>1. ASSUME WaitInv, RefsInv PROVE LocalsFreed
  <2> SUFFICES ASSUME loop = "left", NEW f \in All,
                      \A e \in ToSet(events) : e.fiber \notin Family(f)
               PROVE  freed[f] = values[f]
    BY DEF LocalsFreed
  <2>1. events \in Seq(EventType)
    BY <1>1 DEF WaitInv, WaitTypeOK
  <2>2. DOMAIN events = 1..Len(events)
    BY <2>1
  <2>3. \A i \in 1..Len(events) : events[i].fiber \notin Family(f)
    BY <2>2 DEF ToSet
  <2>4. refs[f] = 0
    BY <1>1, <2>3, FamilyGone
  <2> QED BY <1>1, <2>4 DEF RefsInv, Given
<1> QED BY <1>1, RefsInvariant, PTL

=============================================================================
