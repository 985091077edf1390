-------------------------- MODULE Scheduler_proofs --------------------------
(***************************************************************************)
(* The books of the scheduler are in order and no timer fires early, for   *)
(* any objects, intervals, quota, delays, timers and crashes.              *)
(*                                                                         *)
(* Timers are moved between sequences.  The first lemmas say what the      *)
(* operators that move them do to the members: Kept is in bijection with   *)
(* the positions it keeps (from the least number principle), so nothing is *)
(* duplicated, and what is counted on both sides of a partition adds up.   *)
(***************************************************************************)
EXTENDS Scheduler, FiniteSetTheorems, TLAPS

-----------------------------------------------------------------------------
(* The inductive invariant *)

Distinct(s) == \A i, j \in 1..Len(s) : s[i].id = s[j].id => i = j

(* A timer that has waited and is still to wait does both for all the ticks   *)
(* it asked for, and the tick it waits for can be told at tick k.             *)
Waits(t, k) == t.left + t.age >= t.asked /\ t.left + k <= MaxDelay + MaxTick

(* The owner of those that are due may be over the quota only when none of    *)
(* them is his: what the budget puts back is one too many at most.            *)
WithinQuota(ts, d) ==
    /\ OwnedCount(ts) <= Quota + 1
    /\ OwnedCount(ts) <= Quota \/ \A i \in 1..Len(d) : d[i].target \notin Owned

Outcomes == {"none", "pending", "fired", "cancelled", "dropped"}

(* What holds of the timers ts at tick k, while those in d are being fired    *)
(* and o is what became of all.                                               *)
InOrder(k, ts, d, o) ==
    /\ ts \in Seq(Timer) /\ o \in [TimerIds -> Outcomes]
    /\ Distinct(ts) /\ Ids(ts) \cap Ids(d) = {}
    /\ \A i \in TimerIds : o[i] = "pending" <=> i \in Ids(ts) \cup Ids(d)
    /\ \A i \in 1..Len(ts) : Waits(ts[i], k)
    /\ WithinQuota(ts, d)

Due ==
    /\ due \in Seq(Timer) /\ Distinct(due)
    /\ \A i \in 1..Len(due) : due[i].left = 0 /\ due[i].age >= due[i].asked
    /\ phase # "timers" => due = <<>>

(* The table, read at tick 0 *)
Saved ==
    /\ saved \in Seq(Timer) /\ Distinct(saved)
    /\ \A i \in 1..Len(saved) : Waits(saved[i], 0)
    /\ OwnedCount(saved) <= Quota + 1

Heartbeat ==
    /\ tick \in 0..MaxTick
    /\ phase \in {"idle", "objects", "timers"}
    /\ pos \in 1..(Len(Intervals) + 1)
    /\ over \in BOOLEAN
    /\ crashes \in 0..MaxCrashes

Inv == Heartbeat /\ InOrder(tick, timers, due, outcome) /\ Due /\ Saved

-----------------------------------------------------------------------------
(* The operators on sequences *)

(* Every nonempty set of naturals has a least member. *)
LEMMA Least ==
    ASSUME NEW T \in SUBSET Nat, T # {}
    PROVE  \E n \in T : \A k \in T : n <= k
<1> DEFINE R == {ss \in Nat \X Nat : ss[1] < ss[2]}
<1>1. R = OpToRel(<, Nat)
  BY DEF OpToRel
<1>2. IsWellFoundedOn(R, Nat)
  BY <1>1, NatLessThanWellFounded
<1>3. PICK n \in T : \A k \in T : <<k, n>> \notin R
  BY <1>2, WFMin
<1>4. ASSUME NEW k \in T PROVE n <= k
  <2>1. <<k, n>> \in Nat \X Nat
    OBVIOUS
  <2>2. ~(<<k, n>>[1] < <<k, n>>[2])
    BY <2>1, <1>3
  <2> QED BY <2>2
<1>5. QED
  BY <1>4

(* f lists what Kept has gathered after each position up to m. *)
Gathers(A, s, S, m, f) ==
    /\ f \in [0..m -> Seq(A)]
    /\ f[0] = <<>>
    /\ \A i \in 1..m : f[i] = IF i \in S THEN Append(f[i - 1], s[i]) ELSE f[i - 1]

(* e tells where each member of t comes from: one position of S each. *)
ComesFrom(t, s, S, e) ==
    /\ e \in [1..Len(t) -> S]
    /\ \A k \in 1..Len(t) : t[k] = s[e[k]]
    /\ \A k, l \in 1..Len(t) : e[k] = e[l] => k = l
    /\ \A i \in S : \E k \in 1..Len(t) : e[k] = i

LEMMA Gathered ==
    ASSUME NEW A, NEW s \in Seq(A), NEW S \in SUBSET (1..Len(s)), NEW n \in 0..Len(s)
    PROVE  \E f : Gathers(A, s, S, n, f) /\ \E e : ComesFrom(f[n], s, S \cap 1..n, e)
<1> DEFINE P(m) == \E f : Gathers(A, s, S, m, f) /\ \E e : ComesFrom(f[m], s, S \cap 1..m, e)
           T == {m \in 0..Len(s) : ~P(m)}
<1> SUFFICES ASSUME T # {} PROVE FALSE
  OBVIOUS
<1>0. Len(s) \in Nat
  OBVIOUS
<1>1. PICK m \in T : \A k \in T : m <= k
  <2> T \in SUBSET Nat
    BY <1>0
  <2> HIDE DEF T
  <2> QED BY Least
<1>2. P(0)
  <2> DEFINE f == [i \in 0..0 |-> <<>>]
             e == [i \in 1..0 |-> 0]
  <2>1. Gathers(A, s, S, 0, f)
    BY DEF Gathers
  <2>2. f[0] = <<>> /\ S \cap 1..0 = {} /\ Len(<<>>) = 0 /\ 1..0 = {}
    OBVIOUS
  <2>3. ComesFrom(f[0], s, S \cap 1..0, e)
    <3> HIDE DEF f
    <3> QED BY <2>2 DEF ComesFrom
  <2> QED BY <2>1, <2>3
<1>3. m \in 1..Len(s) /\ m - 1 \in 0..Len(s)
  <2>1. m \in 0..Len(s) /\ ~P(m)
    OBVIOUS
  <2> HIDE DEF P
  <2> QED BY <1>0, <1>2, <2>1
<1>4. P(m - 1)
  <2> HIDE DEF P
  <2>1. CASE m - 1 \in T
    BY <1>1, <1>3, <2>1
  <2> QED BY <1>3, <2>1
<1>5. PICK f : Gathers(A, s, S, m - 1, f) /\ \E e : ComesFrom(f[m - 1], s, S \cap 1..(m - 1), e)
  BY <1>4
<1>6. PICK e : ComesFrom(f[m - 1], s, S \cap 1..(m - 1), e)
  BY <1>5
<1> DEFINE last == IF m \in S THEN Append(f[m - 1], s[m]) ELSE f[m - 1]
           g == [i \in 0..m |-> IF i = m THEN last ELSE f[i]]
<1>7. f[m - 1] \in Seq(A) /\ last \in Seq(A)
  BY <1>3, <1>5 DEF Gathers
<1>8. Gathers(A, s, S, m, g)
  <2> HIDE DEF last
  <2>1. g \in [0..m -> Seq(A)]
    BY <1>3, <1>5, <1>7 DEF Gathers
  <2>2. g[0] = <<>>
    BY <1>3, <1>5 DEF Gathers
  <2>3. ASSUME NEW i \in 1..m
        PROVE  g[i] = IF i \in S THEN Append(g[i - 1], s[i]) ELSE g[i - 1]
    <3>1. g[i - 1] = f[i - 1]
      BY <1>3
    <3>2. CASE i = m
      BY <1>3, <3>1, <3>2 DEF last
    <3>3. CASE i # m
      <4>1. i \in 1..(m - 1) /\ g[i] = f[i]
        BY <1>3, <3>3
      <4> HIDE DEF g
      <4> QED BY <1>5, <3>1, <4>1 DEF Gathers
    <3> QED BY <3>2, <3>3
  <2> HIDE DEF g
  <2> QED BY <2>1, <2>2, <2>3 DEF Gathers
<1>9. g[m] = last
  BY <1>3
<1>10. \E d : ComesFrom(last, s, S \cap 1..m, d)
  <2>1. CASE m \notin S
    <3>1. S \cap 1..m = S \cap 1..(m - 1) /\ last = f[m - 1]
      BY <1>3, <2>1
    <3> HIDE DEF last
    <3> QED BY <1>6, <3>1
  <2>2. CASE m \in S
    <3> DEFINE t == f[m - 1]
               d == [k \in 1..(Len(t) + 1) |-> IF k = Len(t) + 1 THEN m ELSE e[k]]
    <3>1. /\ last = Append(t, s[m]) /\ Len(last) = Len(t) + 1 /\ Len(t) \in Nat
          /\ last[Len(t) + 1] = s[m] /\ \A k \in 1..Len(t) : last[k] = t[k]
      BY <1>7, <2>2
    <3>2. S \cap 1..m = (S \cap 1..(m - 1)) \cup {m} /\ m \notin S \cap 1..(m - 1)
      BY <1>3, <2>2
    <3>3. /\ e \in [1..Len(t) -> S \cap 1..(m - 1)]
          /\ \A k \in 1..Len(t) : t[k] = s[e[k]]
          /\ \A k, l \in 1..Len(t) : e[k] = e[l] => k = l
          /\ \A i \in S \cap 1..(m - 1) : \E k \in 1..Len(t) : e[k] = i
      BY <1>6 DEF ComesFrom
    <3> HIDE DEF last, t
    <3>4. d[Len(t) + 1] = m /\ \A k \in 1..Len(t) : d[k] = e[k]
      BY <3>1
    <3>5. d \in [1..Len(last) -> S \cap 1..m]
      BY <3>1, <3>2, <3>3
    <3>6. \A k \in 1..Len(last) : k = Len(t) + 1 \/ k \in 1..Len(t)
      BY <3>1
    <3> HIDE DEF d
    <3>7. \A k \in 1..Len(last) : last[k] = s[d[k]]
      BY <3>1, <3>3, <3>4, <3>6
    <3>8. ASSUME NEW k \in 1..Len(last), NEW l \in 1..Len(last), d[k] = d[l] PROVE k = l
      <4>1. CASE k \in 1..Len(t) /\ l \in 1..Len(t)
        BY <3>3, <3>4, <3>8, <4>1
      <4>2. CASE k = Len(t) + 1 /\ l \in 1..Len(t)
        <5>1. d[k] = m /\ d[l] \in S \cap 1..(m - 1)
          BY <3>3, <3>4, <4>2
        <5> QED BY <3>2, <3>8, <5>1
      <4>3. CASE k \in 1..Len(t) /\ l = Len(t) + 1
        <5>1. d[l] = m /\ d[k] \in S \cap 1..(m - 1)
          BY <3>3, <3>4, <4>3
        <5> QED BY <3>2, <3>8, <5>1
      <4> QED BY <3>6, <4>1, <4>2, <4>3
    <3>9. ASSUME NEW i \in S \cap 1..m PROVE \E k \in 1..Len(last) : d[k] = i
      <4>1. CASE i = m
        <5>1. Len(t) + 1 \in 1..Len(last)
          BY <3>1
        <5> QED BY <3>4, <4>1, <5>1
      <4>2. CASE i # m
        <5>1. PICK k \in 1..Len(t) : e[k] = i
          BY <3>2, <3>3, <4>2
        <5>2. k \in 1..Len(last)
          BY <3>1
        <5> QED BY <3>4, <5>1, <5>2
      <4> QED BY <4>1, <4>2
    <3> QED BY <3>5, <3>7, <3>8, <3>9 DEF ComesFrom
  <2> QED BY <2>1, <2>2
<1>11. P(m)
  <2> HIDE DEF g, last
  <2> QED BY <1>8, <1>9, <1>10
<1> QED BY <1>11

(* Kept(s, S) has one member for each position in S. *)
LEMMA KeptWorks ==
    ASSUME NEW A, NEW s \in Seq(A), NEW S \in SUBSET (1..Len(s))
    PROVE  Kept(s, S) \in Seq(A) /\ \E e : ComesFrom(Kept(s, S), s, S, e)
<1> DEFINE N == Len(s)
           Is(w) == w = [i \in 0..N |-> IF i = 0 THEN <<>>
                                        ELSE IF i \in S THEN Append(w[i - 1], s[i]) ELSE w[i - 1]]
           W == CHOOSE w : Is(w)
<1>1. N \in Nat /\ N \in 0..N
  OBVIOUS
<1>11. S \cap 1..N = S
  OBVIOUS
<1>2. PICK f : Gathers(A, s, S, N, f) /\ \E e : ComesFrom(f[N], s, S \cap 1..N, e)
  <2>1. \A n \in 0..N : \E f : Gathers(A, s, S, n, f) /\ \E e : ComesFrom(f[n], s, S \cap 1..n, e)
    BY Gathered
  <2> HIDE DEF N
  <2> QED BY <1>1, <2>1
<1>3. Is(f)
  <2> HIDE DEF N
  <2>1. f \in [0..N -> Seq(A)] /\ f[0] = <<>>
    BY <1>2 DEF Gathers
  <2>2. \A i \in 1..N : f[i] = IF i \in S THEN Append(f[i - 1], s[i]) ELSE f[i - 1]
    BY <1>2 DEF Gathers
  <2> DEFINE h == [i \in 0..N |-> IF i = 0 THEN <<>>
                                ELSE IF i \in S THEN Append(f[i - 1], s[i]) ELSE f[i - 1]]
  <2>3. ASSUME NEW i \in 0..N PROVE h[i] = f[i]
    <3>1. i = 0 \/ i \in 1..N
      BY <1>1
    <3> QED BY <2>1, <2>2, <3>1
  <2>4. h = [i \in 0..N |-> h[i]] /\ f = [i \in 0..N |-> f[i]]
    BY <2>1
  <2>5. h = f
    <3> HIDE DEF h
    <3> QED BY <2>3, <2>4
  <2> QED BY <2>5
<1>4. Kept(s, S) = W[N]
  BY DEF Kept
<1>5. Is(W)
  BY <1>3
<1> HIDE DEF W, N
<1>6. W[0] = <<>> /\ \A i \in 1..N : W[i] = IF i \in S THEN Append(W[i - 1], s[i]) ELSE W[i - 1]
  <2> DEFINE V == W
  <2>1. W = [i \in 0..N |-> IF i = 0 THEN <<>>
                            ELSE IF i \in S THEN Append(V[i - 1], s[i]) ELSE V[i - 1]]
    BY <1>5
  <2> HIDE DEF V
  <2>2. W[0] = <<>> /\ \A i \in 1..N : W[i] = IF i \in S THEN Append(V[i - 1], s[i]) ELSE V[i - 1]
    BY <1>1, <2>1
  <2> QED BY <2>2 DEF V
<1>7. W[N] = f[N]
  <2> DEFINE T == {i \in 0..N : W[i] # f[i]}
  <2>1. CASE T = {}
    BY <1>1, <2>1
  <2>2. CASE T # {}
    <3>1. PICK i \in T : \A k \in T : i <= k
      <4> T \in SUBSET Nat
        BY <1>1
      <4> HIDE DEF T
      <4> QED BY <2>2, Least
    <3>2. i \in 1..N /\ i - 1 \in 0..N
      BY <1>1, <1>2, <1>6 DEF Gathers
    <3>3. W[i - 1] = f[i - 1]
      <4>1. i - 1 \notin T
        <5> HIDE DEF T
        <5> QED BY <3>1, <3>2
      <4> QED BY <3>2, <4>1
    <3>4. W[i] = f[i]
      BY <1>2, <1>6, <3>2, <3>3 DEF Gathers
    <3> QED BY <3>1, <3>4
  <2> QED BY <2>1, <2>2
<1>8. f[N] \in Seq(A)
  BY <1>1, <1>2 DEF Gathers
<1> QED BY <1>2, <1>4, <1>7, <1>8, <1>11

(* The positions in S of the timers that count towards the quota *)
OwnedIn(s, S) == {i \in S : s[i].target \in Owned}

(* What Kept keeps: the ids, once each, and the owned ones. *)
LEMMA KeptMembers ==
    ASSUME NEW A, NEW s \in Seq(A), NEW S \in SUBSET (1..Len(s)), NEW t, t = Kept(s, S)
    PROVE  /\ t \in Seq(A)
           /\ \A k \in 1..Len(t) : \E i \in S : t[k] = s[i]
           /\ Ids(t) = {s[i].id : i \in S}
           /\ Distinct(s) => Distinct(t)
           /\ OwnedCount(t) = Cardinality(OwnedIn(s, S))
<1>1. t \in Seq(A)
  BY KeptWorks
<1>2. PICK e : ComesFrom(t, s, S, e)
  BY KeptWorks
<1>3. /\ e \in [1..Len(t) -> S]
      /\ \A k \in 1..Len(t) : t[k] = s[e[k]]
      /\ \A k, l \in 1..Len(t) : e[k] = e[l] => k = l
      /\ \A i \in S : \E k \in 1..Len(t) : e[k] = i
  BY <1>2 DEF ComesFrom
<1>4. Ids(t) = {s[i].id : i \in S}
  <2>1. ASSUME NEW k \in 1..Len(t) PROVE t[k].id \in {s[i].id : i \in S}
    BY <1>3
  <2>2. ASSUME NEW i \in S PROVE s[i].id \in {t[k].id : k \in 1..Len(t)}
    <3>1. PICK k \in 1..Len(t) : e[k] = i
      BY <1>3
    <3> QED BY <1>3, <3>1
  <2> QED BY <2>1, <2>2 DEF Ids
<1>5. ASSUME Distinct(s) PROVE Distinct(t)
  <2>1. ASSUME NEW k \in 1..Len(t), NEW l \in 1..Len(t), t[k].id = t[l].id PROVE k = l
    <3>1. e[k] \in 1..Len(s) /\ e[l] \in 1..Len(s) /\ s[e[k]].id = s[e[l]].id
      BY <1>3, <2>1
    <3>2. e[k] = e[l]
      BY <1>5, <3>1 DEF Distinct
    <3> QED BY <1>3, <3>2
  <2> QED BY <2>1 DEF Distinct
<1>6. OwnedCount(t) = Cardinality(OwnedIn(s, S))
  <2> DEFINE P == {k \in 1..Len(t) : t[k].target \in Owned}
             Q == OwnedIn(s, S)
             f == [k \in P |-> e[k]]
  <2>1. f \in [P -> Q]
    BY <1>3 DEF OwnedIn
  <2>2. ASSUME NEW k \in P, NEW l \in P, f[k] = f[l] PROVE k = l
    <3>1. k \in 1..Len(t) /\ l \in 1..Len(t) /\ e[k] = e[l]
      BY <2>2
    <3> QED BY <1>3, <3>1
  <2>3. ASSUME NEW i \in Q PROVE \E k \in P : f[k] = i
    <3>1. i \in S /\ s[i].target \in Owned
      BY DEF OwnedIn
    <3>2. PICK k \in 1..Len(t) : e[k] = i
      BY <1>3, <3>1
    <3>3. k \in P /\ f[k] = i
      BY <1>3, <3>1, <3>2
    <3> QED BY <3>3
  <2>4. IsFiniteSet(P)
    <3>1. Len(t) \in Nat
      BY <1>1
    <3>2. IsFiniteSet(1..Len(t))
      BY <3>1, FS_Interval
    <3> QED BY <3>2, FS_Subset
  <2> HIDE DEF P, Q, f
  <2>5. f \in Bijection(P, Q)
    BY <2>1, <2>2, <2>3 DEF Bijection, Injection, Surjection, IsInjective
  <2>6. Cardinality(Q) = Cardinality(P)
    BY <2>4, <2>5, FS_Bijection DEF ExistsBijection
  <2> QED BY <2>6 DEF OwnedCount, P, Q
<1>7. ASSUME NEW k \in 1..Len(t) PROVE \E i \in S : t[k] = s[i]
  <2>1. e[k] \in S /\ t[k] = s[e[k]]
    BY <1>3
  <2> QED BY <2>1
<1> QED BY <1>1, <1>4, <1>5, <1>6, <1>7

LEMMA Counts ==
    ASSUME NEW A, NEW s \in Seq(A), NEW S \in SUBSET (1..Len(s))
    PROVE  /\ IsFiniteSet(OwnedIn(s, S)) /\ Cardinality(OwnedIn(s, S)) \in Nat
           /\ OwnedCount(s) = Cardinality(OwnedIn(s, 1..Len(s))) /\ OwnedCount(s) \in Nat
           /\ Cardinality(OwnedIn(s, S)) <= OwnedCount(s)
<1>1. Len(s) \in Nat
  OBVIOUS
<1>2. IsFiniteSet(1..Len(s))
  BY <1>1, FS_Interval
<1>3. OwnedIn(s, 1..Len(s)) \in SUBSET (1..Len(s))
  BY DEF OwnedIn
<1>4. IsFiniteSet(OwnedIn(s, 1..Len(s)))
  BY <1>2, <1>3, FS_Subset
<1>5. OwnedIn(s, S) \in SUBSET OwnedIn(s, 1..Len(s))
  BY DEF OwnedIn
<1>6. /\ IsFiniteSet(OwnedIn(s, S))
      /\ Cardinality(OwnedIn(s, S)) <= Cardinality(OwnedIn(s, 1..Len(s)))
  BY <1>4, <1>5, FS_Subset
<1>7. OwnedCount(s) = Cardinality(OwnedIn(s, 1..Len(s)))
  BY DEF OwnedCount, OwnedIn
<1> QED BY <1>4, <1>6, <1>7, FS_CardinalityType

(* The two sides of a partition add up. *)
LEMMA Partition ==
    ASSUME NEW A, NEW s \in Seq(A), NEW S \in SUBSET (1..Len(s)), NEW R, R = (1..Len(s)) \ S
    PROVE  OwnedCount(Kept(s, S)) + OwnedCount(Kept(s, R)) = OwnedCount(s)
<1>1. R \in SUBSET (1..Len(s))
  OBVIOUS
<1>2. /\ OwnedCount(Kept(s, S)) = Cardinality(OwnedIn(s, S))
      /\ OwnedCount(Kept(s, R)) = Cardinality(OwnedIn(s, R))
  BY <1>1, KeptMembers
<1>3. /\ IsFiniteSet(OwnedIn(s, S)) /\ Cardinality(OwnedIn(s, S)) \in Nat
      /\ IsFiniteSet(OwnedIn(s, R)) /\ Cardinality(OwnedIn(s, R)) \in Nat
      /\ OwnedCount(s) = Cardinality(OwnedIn(s, 1..Len(s)))
  BY <1>1, Counts
<1>4. /\ OwnedIn(s, 1..Len(s)) = OwnedIn(s, S) \cup OwnedIn(s, R)
      /\ OwnedIn(s, S) \cap OwnedIn(s, R) = {}
  BY DEF OwnedIn
<1> DEFINE P == OwnedIn(s, S)
           Q == OwnedIn(s, R)
<1>5. Cardinality(P \cup Q) = Cardinality(P) + Cardinality(Q) - Cardinality(P \cap Q)
  <2>1. IsFiniteSet(P) /\ IsFiniteSet(Q)
    BY <1>3
  <2> HIDE DEF P, Q
  <2> QED BY <2>1, FS_Union
<1>6. Cardinality(P \cap Q) = 0
  BY <1>4, FS_EmptySet
<1>7. OwnedCount(s) = Cardinality(P \cup Q)
  BY <1>3, <1>4
<1>8. /\ Cardinality(P) \in Nat /\ OwnedCount(Kept(s, S)) = Cardinality(P)
      /\ Cardinality(Q) \in Nat /\ OwnedCount(Kept(s, R)) = Cardinality(Q)
  BY <1>2, <1>3
<1> HIDE DEF P, Q
<1> QED BY <1>5, <1>6, <1>7, <1>8

(* t is s with x appended: what SMT knows of Append.                           *)
OneMore(A, s, x, t) ==
    /\ t \in Seq(A) /\ Len(t) = Len(s) + 1 /\ Len(s) \in Nat
    /\ t[Len(s) + 1] = x /\ \A i \in 1..Len(s) : t[i] = s[i]

LEMMA Appended ==
    ASSUME NEW A, NEW s \in Seq(A), NEW x \in A, NEW t, OneMore(A, s, x, t)
    PROVE  /\ Ids(t) = Ids(s) \cup {x.id}
           /\ Distinct(s) /\ x.id \notin Ids(s) => Distinct(t)
           /\ OwnedCount(t) = IF x.target \in Owned THEN OwnedCount(s) + 1 ELSE OwnedCount(s)
<1>1. /\ t \in Seq(A) /\ Len(t) = Len(s) + 1 /\ Len(s) \in Nat
      /\ t[Len(s) + 1] = x /\ \A i \in 1..Len(s) : t[i] = s[i]
  BY DEF OneMore
<1>2. Len(s) + 1 \in 1..Len(t) /\ \A k \in 1..Len(t) : k = Len(s) + 1 \/ k \in 1..Len(s)
  BY <1>1
<1>3. Ids(t) = Ids(s) \cup {x.id}
  <2>1. \A k \in 1..Len(s) : k \in 1..Len(t)
    BY <1>1
  <2> QED BY <1>1, <1>2, <2>1 DEF Ids
<1>4. ASSUME Distinct(s), x.id \notin Ids(s) PROVE Distinct(t)
  <2>1. ASSUME NEW k \in 1..Len(t), NEW l \in 1..Len(t), t[k].id = t[l].id PROVE k = l
    <3>1. CASE k \in 1..Len(s) /\ l \in 1..Len(s)
      BY <1>1, <1>4, <2>1, <3>1 DEF Distinct
    <3>2. CASE k = Len(s) + 1 /\ l \in 1..Len(s)
      BY <1>1, <1>4, <2>1, <3>2 DEF Ids
    <3>3. CASE k \in 1..Len(s) /\ l = Len(s) + 1
      BY <1>1, <1>4, <2>1, <3>3 DEF Ids
    <3> QED BY <1>2, <3>1, <3>2, <3>3
  <2> QED BY <2>1 DEF Distinct
<1>5. OwnedCount(t) = IF x.target \in Owned THEN OwnedCount(s) + 1 ELSE OwnedCount(s)
  <2> DEFINE P == OwnedIn(s, 1..Len(s))
             n == Len(s) + 1
  <2>1. IsFiniteSet(P) /\ OwnedCount(s) = Cardinality(P) /\ OwnedCount(s) \in Nat
    BY Counts
  <2>2. OwnedCount(t) = Cardinality(OwnedIn(t, 1..Len(t)))
    BY DEF OwnedCount, OwnedIn
  <2>3. n \notin P
    BY <1>1 DEF OwnedIn
  <2>4. \A k : k \in 1..Len(t) <=> k = n \/ k \in 1..Len(s)
    BY <1>1
  <2>5. CASE x.target \in Owned
    <3>1. OwnedIn(t, 1..Len(t)) = P \cup {n}
      BY <1>1, <2>4, <2>5 DEF OwnedIn
    <3>2. Cardinality(P \cup {n}) = Cardinality(P) + 1
      <4> HIDE DEF P, n
      <4> QED BY <2>1, <2>3, FS_AddElement
    <3> QED BY <2>1, <2>2, <2>5, <3>1, <3>2
  <2>6. CASE x.target \notin Owned
    <3>1. OwnedIn(t, 1..Len(t)) = P
      BY <1>1, <2>4, <2>6 DEF OwnedIn
    <3> QED BY <2>1, <2>2, <2>6, <3>1
  <2> QED BY <2>5, <2>6
<1> QED BY <1>3, <1>4, <1>5

(* A timer that changes in place stays the same timer. *)
LEMMA SameTimers ==
    ASSUME NEW s, NEW t, Len(s) = Len(t),
           \A i \in 1..Len(s) : t[i].id = s[i].id /\ t[i].target = s[i].target
    PROVE  Ids(t) = Ids(s) /\ (Distinct(s) => Distinct(t)) /\ OwnedCount(t) = OwnedCount(s)
<1>1. Ids(t) = Ids(s)
  BY DEF Ids
<1>2. Distinct(s) => Distinct(t)
  BY DEF Distinct
<1>3. {i \in 1..Len(t) : t[i].target \in Owned} = {i \in 1..Len(s) : s[i].target \in Owned}
  OBVIOUS
<1> QED BY <1>1, <1>2, <1>3 DEF OwnedCount

(* t is s without its head x: what SMT knows of Head and Tail.                *)
OneLess(A, s, x, t) ==
    /\ t \in Seq(A) /\ Len(s) = Len(t) + 1 /\ Len(t) \in Nat
    /\ x \in A /\ x = s[1] /\ 1 \in 1..Len(s)
    /\ \A i \in 1..Len(t) : t[i] = s[i + 1] /\ i + 1 \in 1..Len(s)

LEMMA Tails ==
    ASSUME NEW A, NEW s \in Seq(A), NEW x, NEW t, OneLess(A, s, x, t)
    PROVE  /\ Ids(s) = Ids(t) \cup {x.id}
           /\ Distinct(s) => Distinct(t) /\ x.id \notin Ids(t)
<1>1. /\ t \in Seq(A) /\ Len(s) = Len(t) + 1 /\ Len(t) \in Nat
      /\ x \in A /\ x = s[1] /\ 1 \in 1..Len(s)
      /\ \A i \in 1..Len(t) : t[i] = s[i + 1] /\ i + 1 \in 1..Len(s)
  BY DEF OneLess
<1>2. ASSUME NEW i \in 1..Len(s) PROVE i = 1 \/ \E k \in 1..Len(t) : i = k + 1 /\ t[k] = s[i]
  <2>1. CASE i # 1
    <3>1. i - 1 \in 1..Len(t) /\ i = (i - 1) + 1
      BY <1>1, <2>1
    <3> QED BY <1>1, <3>1
  <2> QED BY <2>1
<1>3. Ids(s) = Ids(t) \cup {x.id}
  <2>1. ASSUME NEW i \in 1..Len(s) PROVE s[i].id \in Ids(t) \cup {x.id}
    BY <1>1, <1>2 DEF Ids
  <2>2. ASSUME NEW k \in 1..Len(t) PROVE t[k].id \in Ids(s)
    <3>1. k + 1 \in 1..Len(s) /\ t[k].id = s[k + 1].id
      BY <1>1
    <3> QED BY <3>1 DEF Ids
  <2>3. x.id \in Ids(s)
    BY <1>1 DEF Ids
  <2> QED BY <2>1, <2>2, <2>3 DEF Ids
<1>4. ASSUME Distinct(s) PROVE Distinct(t) /\ x.id \notin Ids(t)
  <2>1. ASSUME NEW k \in 1..Len(t), NEW l \in 1..Len(t), t[k].id = t[l].id PROVE k = l
    <3>1. k + 1 = l + 1
      BY <1>1, <1>4, <2>1 DEF Distinct
    <3> QED BY <3>1
  <2>2. ASSUME NEW k \in 1..Len(t), t[k].id = s[1].id PROVE FALSE
    <3>1. k + 1 = 1
      BY <1>1, <1>4, <2>2 DEF Distinct
    <3> QED BY <3>1
  <2> QED BY <1>1, <2>1, <2>2 DEF Distinct, Ids
<1> QED BY <1>3, <1>4

-----------------------------------------------------------------------------
(* Every script keeps the timers in order, whoever calls it. *)

LEMMA Fields ==
    ASSUME NEW x \in Timer
    PROVE  /\ x.id \in TimerIds /\ x.target \in Targets /\ x.hook \in Hooks
           /\ x.left \in Nat /\ x.asked \in Nat /\ x.age \in Nat
           /\ x.left <= MaxDelay + MaxTick /\ x.asked <= MaxDelay /\ x.age <= MaxDelay
  BY ConstantsAssumption DEF Timer

LEMMA ScheduleKeeps ==
    ASSUME NEW k \in 0..MaxTick, NEW d \in Seq(Timer), NEW o,
           InOrder(k, timers, d, o), Ids(d) \subseteq Ids(due),
           NEW t \in Targets, NEW h \in Hooks, NEW n \in 1..MaxDelay, Schedule(o, t, h, n)
    PROVE  InOrder(k, timers', d, outcome')
<1>1. ~TimerQuotaReached(t)
  BY DEF Schedule
<1>2. PICK i \in FreeIds :
        /\ timers' = Append(timers, [id |-> i, target |-> t, hook |-> h,
                                     left |-> FireIn(n), asked |-> n, age |-> 0])
        /\ outcome' = [o EXCEPT ![i] = "pending"]
  BY DEF Schedule
<1> DEFINE x == [id |-> i, target |-> t, hook |-> h, left |-> n, asked |-> n, age |-> 0]
<1>3. timers' = Append(timers, x)
  BY <1>2 DEF FireIn
<1>4. i \in TimerIds /\ i \notin Ids(timers) /\ i \notin Ids(d)
  BY DEF FreeIds
<1>5. /\ timers \in Seq(Timer) /\ o \in [TimerIds -> Outcomes]
      /\ Distinct(timers) /\ Ids(timers) \cap Ids(d) = {}
      /\ \A j \in TimerIds : o[j] = "pending" <=> j \in Ids(timers) \cup Ids(d)
      /\ \A j \in 1..Len(timers) : Waits(timers[j], k)
      /\ WithinQuota(timers, d)
  BY DEF InOrder
<1>6. x \in Timer /\ Waits(x, k)
  BY <1>4, ConstantsAssumption DEF Timer, Waits
<1>7. x.id = i /\ x.target = t
  OBVIOUS
<1> HIDE DEF x
<1>8. /\ timers' \in Seq(Timer) /\ Len(timers') = Len(timers) + 1 /\ Len(timers) \in Nat
      /\ timers'[Len(timers) + 1] = x /\ \A j \in 1..Len(timers) : timers'[j] = timers[j]
      /\ Ids(timers') = Ids(timers) \cup {i}
      /\ Distinct(timers')
      /\ OwnedCount(timers') = IF t \in Owned THEN OwnedCount(timers) + 1 ELSE OwnedCount(timers)
  <2>1. timers \in Seq(Timer) /\ x \in Timer
    BY <1>5, <1>6
  <2>2. OneMore(Timer, timers, x, timers')
    BY <1>3, <2>1 DEF OneMore
  <2>3. /\ Ids(timers') = Ids(timers) \cup {x.id}
        /\ Distinct(timers) /\ x.id \notin Ids(timers) => Distinct(timers')
        /\ OwnedCount(timers') = IF x.target \in Owned THEN OwnedCount(timers) + 1 ELSE OwnedCount(timers)
    BY <2>1, <2>2, Appended
  <2> QED BY <1>4, <1>5, <1>7, <2>2, <2>3 DEF OneMore
<1>9. WithinQuota(timers', d)
  <2>1. OwnedCount(timers) \in Nat
    BY <1>5, Counts
  <2>2. CASE t \in Owned
    <3>1. OwnedCount(timers) < Quota
      BY <1>1, <2>1, <2>2, ConstantsAssumption DEF TimerQuotaReached
    <3> QED BY <1>8, <2>1, <2>2, <3>1, ConstantsAssumption DEF WithinQuota
  <2>3. CASE t \notin Owned
    BY <1>5, <1>8, <2>3 DEF WithinQuota
  <2> QED BY <2>2, <2>3
<1>10. ASSUME NEW j \in 1..Len(timers') PROVE Waits(timers'[j], k)
  <2>1. j = Len(timers) + 1 \/ j \in 1..Len(timers)
    BY <1>8
  <2> QED BY <1>5, <1>6, <1>8, <2>1
<1>11. /\ outcome' \in [TimerIds -> Outcomes]
       /\ outcome'[i] = "pending"
       /\ \A j \in TimerIds \ {i} : outcome'[j] = o[j]
  BY <1>2, <1>4, <1>5 DEF Outcomes
<1>12. \A j \in TimerIds : outcome'[j] = "pending" <=> j \in Ids(timers') \cup Ids(d)
  BY <1>5, <1>8, <1>11
<1>13. Ids(timers') \cap Ids(d) = {}
  BY <1>4, <1>5, <1>8
<1> QED BY <1>8, <1>9, <1>10, <1>11, <1>12, <1>13 DEF InOrder

LEMMA CancelKeeps ==
    ASSUME NEW k \in 0..MaxTick, NEW d \in Seq(Timer), NEW o,
           InOrder(k, timers, d, o),
           NEW t \in Targets, NEW h \in Hooks, Cancel(o, t, h)
    PROVE  InOrder(k, timers', d, outcome')
<1> DEFINE hit == {i \in DOMAIN timers : timers[i].target = t /\ timers[i].hook = h}
           gone == {timers[i].id : i \in hit}
           S == DOMAIN timers \ hit
<1>1. /\ timers' = Kept(timers, S)
      /\ outcome' = [i \in TimerIds |-> IF i \in gone THEN "cancelled" ELSE o[i]]
  BY DEF Cancel
<1>2. /\ timers \in Seq(Timer) /\ o \in [TimerIds -> Outcomes]
      /\ Distinct(timers) /\ Ids(timers) \cap Ids(d) = {}
      /\ \A j \in TimerIds : o[j] = "pending" <=> j \in Ids(timers) \cup Ids(d)
      /\ \A j \in 1..Len(timers) : Waits(timers[j], k)
      /\ WithinQuota(timers, d)
  BY DEF InOrder
<1>3. /\ S \in SUBSET (1..Len(timers)) /\ hit \in SUBSET (1..Len(timers))
      /\ S \cap hit = {} /\ S \cup hit = 1..Len(timers)
  BY <1>2
<1> HIDE DEF hit, S
<1>4. /\ timers' \in Seq(Timer)
      /\ \A j \in 1..Len(timers') : \E i \in S : timers'[j] = timers[i]
      /\ Ids(timers') = {timers[i].id : i \in S}
      /\ Distinct(timers')
      /\ OwnedCount(timers') = Cardinality(OwnedIn(timers, S))
  BY <1>1, <1>2, <1>3, KeptMembers
<1>5. WithinQuota(timers', d)
  <2>1. /\ OwnedCount(timers') <= OwnedCount(timers)
        /\ OwnedCount(timers') \in Nat /\ OwnedCount(timers) \in Nat
    BY <1>2, <1>3, <1>4, Counts
  <2>2. Quota \in Nat
    BY ConstantsAssumption
  <2> QED BY <1>2, <2>1, <2>2 DEF WithinQuota
<1>6. ASSUME NEW j \in 1..Len(timers') PROVE Waits(timers'[j], k)
  BY <1>2, <1>3, <1>4
<1>7. /\ Ids(timers') \cap gone = {} /\ Ids(timers') \cup gone = Ids(timers)
  <2>1. Ids(timers') \cap gone = {}
    BY <1>2, <1>3, <1>4 DEF Distinct
  <2>2. Ids(timers') \cup gone = Ids(timers)
    BY <1>3, <1>4 DEF Ids
  <2> QED BY <2>1, <2>2
<1> HIDE DEF gone
<1>8. outcome' \in [TimerIds -> Outcomes]
  BY <1>1, <1>2 DEF Outcomes
<1>9. \A j \in TimerIds : outcome'[j] = "pending" <=> j \in Ids(timers') \cup Ids(d)
  BY <1>1, <1>2, <1>7
<1> QED BY <1>2, <1>4, <1>5, <1>6, <1>7, <1>8, <1>9 DEF InOrder

LEMMA ScriptKeeps ==
    ASSUME NEW k \in 0..MaxTick, NEW d \in Seq(Timer), NEW o,
           InOrder(k, timers, d, o), Ids(d) \subseteq Ids(due), ScriptEffects(o)
    PROVE  InOrder(k, timers', d, outcome')
<1>1. CASE outcome' = o /\ UNCHANGED timers
  BY <1>1
<1>2. CASE \E t \in Targets, h \in Hooks, n \in 1..MaxDelay : Schedule(o, t, h, n)
  BY <1>2, ScheduleKeeps
<1>3. CASE \E t \in Targets : ScheduleRefused(o, t)
  BY <1>3 DEF ScheduleRefused
<1>4. CASE \E t \in Targets, h \in Hooks : Cancel(o, t, h)
  BY <1>4, CancelKeeps
<1> QED BY <1>1, <1>2, <1>3, <1>4 DEF ScriptEffects

-----------------------------------------------------------------------------
(* The books are in order when the process starts. *)

LEMMA Empty == Distinct(<<>>) /\ Ids(<<>>) = {} /\ OwnedCount(<<>>) = 0 /\ <<>> \in Seq(Timer)
<1>1. Len(<<>>) = 0 /\ 1..0 = {}
  OBVIOUS
<1>2. {i \in 1..Len(<<>>) : <<>>[i].target \in Owned} = {}
  BY <1>1
<1>3. OwnedCount(<<>>) = 0
  BY <1>2, FS_EmptySet DEF OwnedCount
<1>4. Distinct(<<>>) /\ Ids(<<>>) = {}
  BY <1>1 DEF Distinct, Ids
<1>5. <<>> \in Seq(Timer)
  <2> HIDE DEF Timer
  <2> QED OBVIOUS
<1> QED BY <1>3, <1>4, <1>5

(* The numbers the steps count with *)
LEMMA Numbers ==
    /\ Quota \in Nat /\ MaxDelay \in Nat /\ MaxTick \in Nat /\ MaxCrashes \in Nat
    /\ Period \in 1..MaxTick /\ Len(Intervals) \in Nat
  BY ConstantsAssumption

LEMMA InitInv == Init => Inv
<1> SUFFICES ASSUME Init PROVE Inv
  OBVIOUS
<1>1. Len(<<>>) = 0 /\ \A s : s = <<>> => Len(s) = 0
  OBVIOUS
<1>2. Heartbeat
  <2>1. over \in BOOLEAN
    BY Zenon DEF Init
  <2> QED BY <2>1, Numbers DEF Init, Heartbeat
<1>3. WithinQuota(timers, due)
  BY Empty, ConstantsAssumption DEF Init, WithinQuota
<1>4. InOrder(tick, timers, due, outcome)
  <2>1. outcome \in [TimerIds -> Outcomes] /\ \A i \in TimerIds : outcome[i] # "pending"
    BY DEF Init, Outcomes
  <2>2. timers = <<>> /\ due = <<>>
    BY DEF Init
  <2>3. \A j \in 1..Len(timers) : Waits(timers[j], tick)
    BY <1>1, <2>2
  <2> QED BY <1>3, <2>1, <2>2, <2>3, Empty DEF InOrder
<1>5. Due
  <2>1. due = <<>> /\ \A j \in 1..Len(due) : FALSE
    BY <1>1 DEF Init
  <2> QED BY <2>1, Empty DEF Due
<1>6. Saved
  <2>1. saved = <<>> /\ \A j \in 1..Len(saved) : FALSE
    BY <1>1 DEF Init
  <2> QED BY <2>1, Empty, ConstantsAssumption DEF Saved
<1> QED BY <1>2, <1>4, <1>5, <1>6 DEF Inv

-----------------------------------------------------------------------------
(* Every step keeps them in order. *)

LEMMA CommandKeeps == ASSUME Inv, Command PROVE Inv'
<1>1. InOrder(tick, timers, due, outcome) /\ due \in Seq(Timer) /\ tick \in 0..MaxTick
  BY DEF Inv, Due, Heartbeat
<1>2. ScriptEffects(outcome) /\ UNCHANGED <<tick, phase, pos, over, due, saved, crashes>>
  BY DEF Command
<1>3. InOrder(tick, timers', due, outcome')
  BY <1>1, <1>2, ScriptKeeps
<1>4. Heartbeat' /\ Due' /\ Saved'
  BY <1>2 DEF Inv, Heartbeat, Due, Saved, Distinct
<1> QED BY <1>2, <1>3, <1>4 DEF Inv

LEMMA TickObjectKeeps == ASSUME Inv, TickObject PROVE Inv'
<1>1. /\ InOrder(tick, timers, due, outcome) /\ due \in Seq(Timer) /\ tick \in 0..MaxTick
      /\ pos \in 1..(Len(Intervals) + 1) /\ over \in BOOLEAN
  BY DEF Inv, Due, Heartbeat
<1>2. /\ UNCHANGED <<tick, phase, due, saved, crashes>>
      /\ pos' = pos + 1 /\ pos <= Len(Intervals) /\ over' \in BOOLEAN
      /\ ScriptEffects(outcome) \/ UNCHANGED <<timers, outcome>>
  BY <1>1 DEF TickObject, ReadClock
<1>3. InOrder(tick, timers', due, outcome')
  <2>1. CASE ScriptEffects(outcome)
    BY <1>1, <2>1, ScriptKeeps
  <2>2. CASE UNCHANGED <<timers, outcome>>
    BY <1>1, <2>2
  <2> QED BY <1>2, <2>1, <2>2
<1>4. Heartbeat'
  BY <1>1, <1>2, Numbers DEF Inv, Heartbeat
<1>5. Due' /\ Saved'
  BY <1>2 DEF Inv, Due, Saved, Distinct
<1> QED BY <1>2, <1>3, <1>4, <1>5 DEF Inv

LEMMA BreakObjectsKeeps == ASSUME Inv, BreakObjects PROVE Inv'
<1>1. over \in BOOLEAN
  BY DEF Inv, Heartbeat
<1>2. /\ UNCHANGED <<tick, phase, timers, due, saved, crashes, outcome>>
      /\ pos' = Len(Intervals) + 1 /\ over' \in BOOLEAN
  BY <1>1 DEF BreakObjects, ReadClock
<1>3. Heartbeat'
  BY <1>2, Numbers DEF Inv, Heartbeat
<1>4. Due' /\ Saved'
  BY <1>2 DEF Inv, Due, Saved, Distinct
<1>5. InOrder(tick, timers, due, outcome)
  BY DEF Inv
<1> QED BY <1>2, <1>3, <1>4, <1>5 DEF Inv

(* A heartbeat brings every timer one tick closer and makes it one tick older. *)
LEMMA BeginTickKeeps == ASSUME Inv, BeginTick PROVE Inv'
<1>1. /\ timers' = [i \in 1..Len(timers) |-> Older(timers[i])] /\ tick' = Wrap(tick + 1)
      /\ phase' = "objects" /\ pos' = 1 /\ over' = FALSE /\ phase = "idle"
      /\ UNCHANGED <<due, saved, crashes, outcome>>
  BY DEF BeginTick
<1>2. InOrder(tick, timers, due, outcome) /\ tick \in 0..MaxTick
  BY DEF Inv, Heartbeat
<1>3. due = <<>>
  BY <1>1 DEF Inv, Due
<1>4. tick' \in 0..MaxTick /\ tick' <= tick + 1
  BY <1>1, <1>2, Numbers DEF Wrap
<1>5. /\ timers \in Seq(Timer) /\ outcome \in [TimerIds -> Outcomes]
      /\ Distinct(timers) /\ Ids(timers) \cap Ids(due) = {}
      /\ \A j \in TimerIds : outcome[j] = "pending" <=> j \in Ids(timers) \cup Ids(due)
      /\ \A j \in 1..Len(timers) : Waits(timers[j], tick)
      /\ WithinQuota(timers, due)
  BY <1>2 DEF InOrder
<1>6. ASSUME NEW x \in Timer, Waits(x, tick)
      PROVE  /\ Older(x) \in Timer /\ Waits(Older(x), tick')
             /\ Older(x).id = x.id /\ Older(x).target = x.target
  <2> DEFINE l == IF x.left = 0 THEN 0 ELSE x.left - 1
             a == IF x.age < MaxDelay THEN x.age + 1 ELSE x.age
  <2>1. /\ x.id \in TimerIds /\ x.target \in Targets /\ x.hook \in Hooks
        /\ x.left \in Nat /\ x.asked \in Nat /\ x.age \in Nat
        /\ x.left <= MaxDelay + MaxTick /\ x.asked <= MaxDelay /\ x.age <= MaxDelay
    BY Fields
  <2>2. /\ Older(x) \in Timer /\ Older(x).left = l /\ Older(x).age = a /\ Older(x).asked = x.asked
        /\ Older(x).id = x.id /\ Older(x).target = x.target
    <3>1. l \in 0..(MaxDelay + MaxTick) /\ a \in 0..MaxDelay
      BY <2>1, Numbers
    <3>2. Older(x) = [[x EXCEPT !.left = l] EXCEPT !.age = a]
      BY DEF Older, Timer
    <3> HIDE DEF l, a
    <3> QED BY <3>1, <3>2 DEF Timer
  <2>3. l + a >= x.asked /\ l + tick' <= MaxDelay + MaxTick
    <3>1. x.left + x.age >= x.asked /\ x.left + tick <= MaxDelay + MaxTick
      BY <1>6 DEF Waits
    <3>2. l + a >= x.asked
      BY <2>1, <3>1, Numbers, SMTT(60)
    <3>3. CASE x.left = 0
      <4>1. l = 0
        BY <3>3
      <4> HIDE DEF l, a
      <4>2. tick' \in Nat /\ tick' <= MaxTick
        BY <1>4, Numbers
      <4>3. tick' <= MaxDelay + MaxTick
        <5>1. MaxDelay \in Nat /\ MaxTick \in Nat
          BY Numbers
        <5> QED BY <4>2, <5>1
      <4> QED BY <3>2, <4>1, <4>2, <4>3
    <3>4. CASE x.left # 0
      BY <1>2, <1>4, <2>1, <3>1, <3>2, <3>4, Numbers
    <3> QED BY <3>2, <3>3, <3>4
  <2> HIDE DEF l, a
  <2> QED BY <2>2, <2>3 DEF Waits
<1>7. /\ timers' \in Seq(Timer) /\ Len(timers') = Len(timers)
      /\ \A i \in 1..Len(timers) : timers'[i] = Older(timers[i]) /\ timers[i] \in Timer
  <2>1. \A i \in 1..Len(timers) : Older(timers[i]) \in Timer /\ timers[i] \in Timer
    BY <1>5, <1>6
  <2> HIDE DEF Timer
  <2> QED BY <1>1, <1>5, <2>1
<1>8. Ids(timers') = Ids(timers) /\ Distinct(timers') /\ OwnedCount(timers') = OwnedCount(timers)
  BY <1>5, <1>6, <1>7, SameTimers
<1>9. InOrder(tick', timers', due, outcome)
  BY <1>5, <1>6, <1>7, <1>8 DEF InOrder, WithinQuota
<1>10. Heartbeat'
  <2>1. over' \in BOOLEAN
    BY <1>1, Zenon
  <2> QED BY <1>1, <1>4, <2>1, Numbers DEF Inv, Heartbeat
<1>11. Due' /\ Saved'
  BY <1>1, <1>3 DEF Inv, Due, Saved, Distinct
<1> QED BY <1>1, <1>9, <1>10, <1>11 DEF Inv

(* The due ones are moved, not copied, and are at the end of their waiting.   *)
LEMMA TakeDueKeeps == ASSUME Inv, TakeDue PROVE Inv'
<1> DEFINE S == {i \in DOMAIN timers : IsDue(timers[i])}
           R == {i \in DOMAIN timers : ~IsDue(timers[i])}
<1>1. /\ due' = Kept(timers, S) /\ timers' = Kept(timers, R)
      /\ phase' = "timers" /\ phase = "objects"
      /\ UNCHANGED <<tick, pos, over, saved, crashes, outcome>>
  BY DEF TakeDue, Remaining
<1>2. due = <<>>
  BY <1>1 DEF Inv, Due
<1>3. Ids(due) = {}
  BY <1>2, Empty
<1>4. /\ timers \in Seq(Timer) /\ outcome \in [TimerIds -> Outcomes]
      /\ Distinct(timers)
      /\ \A j \in TimerIds : outcome[j] = "pending" <=> j \in Ids(timers) \cup Ids(due)
      /\ \A j \in 1..Len(timers) : Waits(timers[j], tick)
      /\ OwnedCount(timers) <= Quota + 1
  BY DEF Inv, InOrder, WithinQuota
<1>5. /\ S \in SUBSET (1..Len(timers)) /\ R \in SUBSET (1..Len(timers))
      /\ R = (1..Len(timers)) \ S
      /\ \A i \in S : timers[i].left = 0
  BY <1>4 DEF IsDue
<1> HIDE DEF S, R
<1>6. /\ due' \in Seq(Timer)
      /\ \A k \in 1..Len(due') : \E i \in S : due'[k] = timers[i]
      /\ Ids(due') = {timers[i].id : i \in S}
      /\ Distinct(due')
  <2>1. timers \in Seq(Timer) /\ S \in SUBSET (1..Len(timers)) /\ due' = Kept(timers, S)
    BY <1>1, <1>4, <1>5
  <2>2. /\ due' \in Seq(Timer)
        /\ \A k \in 1..Len(due') : \E i \in S : due'[k] = timers[i]
        /\ Ids(due') = {timers[i].id : i \in S}
        /\ Distinct(timers) => Distinct(due')
    BY <2>1, KeptMembers
  <2> QED BY <1>4, <2>2
<1>7. /\ timers' \in Seq(Timer)
      /\ \A k \in 1..Len(timers') : \E i \in R : timers'[k] = timers[i]
      /\ Ids(timers') = {timers[i].id : i \in R}
      /\ Distinct(timers')
  <2>1. timers \in Seq(Timer) /\ R \in SUBSET (1..Len(timers)) /\ timers' = Kept(timers, R)
    BY <1>1, <1>4, <1>5
  <2>2. /\ timers' \in Seq(Timer)
        /\ \A k \in 1..Len(timers') : \E i \in R : timers'[k] = timers[i]
        /\ Ids(timers') = {timers[i].id : i \in R}
        /\ Distinct(timers) => Distinct(timers')
    BY <2>1, KeptMembers
  <2> QED BY <1>4, <2>2
<1>8. OwnedCount(due') + OwnedCount(timers') = OwnedCount(timers)
  BY <1>1, <1>4, <1>5, Partition
<1>9. /\ OwnedCount(due') \in Nat /\ OwnedCount(timers') \in Nat /\ OwnedCount(timers) \in Nat
  BY <1>4, <1>6, <1>7, Counts
<1>10. WithinQuota(timers', due')
  <2>1. CASE OwnedCount(due') = 0
    <3>1. OwnedIn(due', 1..Len(due')) = {}
      <4>1. /\ IsFiniteSet(OwnedIn(due', 1..Len(due')))
            /\ OwnedCount(due') = Cardinality(OwnedIn(due', 1..Len(due')))
        BY <1>6, Counts
      <4> QED BY <2>1, <4>1, FS_EmptySet
    <3>2. \A i \in 1..Len(due') : due'[i].target \notin Owned
      BY <3>1 DEF OwnedIn
    <3> QED BY <1>4, <1>8, <1>9, <2>1, <3>2, Numbers DEF WithinQuota
  <2>2. CASE OwnedCount(due') # 0
    <3>1. OwnedCount(timers') <= Quota
      BY <1>4, <1>8, <1>9, <2>2, Numbers
    <3> QED BY <1>9, <3>1, Numbers DEF WithinQuota
  <2> QED BY <2>1, <2>2
<1>11. Ids(timers') \cap Ids(due') = {} /\ Ids(timers') \cup Ids(due') = Ids(timers) \cup Ids(due)
  <2>1. Ids(timers') \cap Ids(due') = {}
    BY <1>4, <1>5, <1>6, <1>7 DEF Distinct
  <2>2. Ids(timers') \cup Ids(due') = Ids(timers)
    <3>1. \A i \in 1..Len(timers) : i \in S \/ i \in R
      BY <1>5
    <3>2. \A i \in S \cup R : i \in 1..Len(timers)
      BY <1>5
    <3>3. Ids(timers) = {timers[i].id : i \in 1..Len(timers)}
      BY DEF Ids
    <3> QED BY <1>6, <1>7, <3>1, <3>2, <3>3
  <2> QED BY <1>3, <2>1, <2>2
<1>12. ASSUME NEW k \in 1..Len(timers') PROVE Waits(timers'[k], tick)
  BY <1>4, <1>5, <1>7
<1>13. InOrder(tick, timers', due', outcome)
  BY <1>4, <1>7, <1>10, <1>11, <1>12 DEF InOrder
<1>14. ASSUME NEW k \in 1..Len(due') PROVE due'[k].left = 0 /\ due'[k].age >= due'[k].asked
  <2>1. PICK i \in S : due'[k] = timers[i]
    BY <1>6
  <2>2. timers[i] \in Timer /\ Waits(timers[i], tick) /\ timers[i].left = 0
    BY <1>4, <1>5
  <2> QED BY <2>1, <2>2, Fields DEF Waits
<1>15. Due'
  BY <1>1, <1>6, <1>14 DEF Due
<1>16. Heartbeat' /\ Saved'
  BY <1>1 DEF Inv, Heartbeat, Saved, Distinct
<1> QED BY <1>1, <1>13, <1>15, <1>16 DEF Inv

(* Head and rest of the due ones *)
LEMMA DueHead ==
    ASSUME Inv, due # <<>>
    PROVE  /\ OneLess(Timer, due, Head(due), Tail(due))
           /\ Ids(due) = Ids(Tail(due)) \cup {Head(due).id}
           /\ Distinct(Tail(due)) /\ Head(due).id \notin Ids(Tail(due))
           /\ Head(due) \in Timer /\ Tail(due) \in Seq(Timer)
<1>1. due \in Seq(Timer) /\ Distinct(due)
  BY DEF Inv, Due
<1>2. OneLess(Timer, due, Head(due), Tail(due))
  <2> HIDE DEF Timer
  <2> QED BY <1>1 DEF OneLess
<1> DEFINE x == Head(due)
           t == Tail(due)
<1>3. OneLess(Timer, due, x, t)
  BY <1>2
<1>4. x \in Timer /\ t \in Seq(Timer)
  BY <1>2 DEF OneLess
<1> HIDE DEF x, t
<1>5. Ids(due) = Ids(t) \cup {x.id} /\ Distinct(t) /\ x.id \notin Ids(t)
  BY <1>1, <1>3, Tails
<1> QED BY <1>2, <1>4, <1>5 DEF x, t

LEMMA FireTimerKeeps == ASSUME Inv, FireTimer PROVE Inv'
<1> DEFINE x == Head(due)
           t == Tail(due)
           o == [outcome EXCEPT ![x.id] = "fired"]
<1>1. /\ due # <<>> /\ due' = t /\ ReadClock /\ phase = "timers"
      /\ UNCHANGED <<tick, phase, pos, saved, crashes>>
      /\ ScriptEffects(o)
  BY DEF FireTimer
<1>2. /\ OneLess(Timer, due, x, t)
      /\ Ids(due) = Ids(t) \cup {x.id}
      /\ Distinct(t) /\ x.id \notin Ids(t)
      /\ x \in Timer /\ t \in Seq(Timer)
  BY <1>1, DueHead
<1>3. /\ timers \in Seq(Timer) /\ outcome \in [TimerIds -> Outcomes]
      /\ Distinct(timers) /\ Ids(timers) \cap Ids(due) = {}
      /\ \A j \in TimerIds : outcome[j] = "pending" <=> j \in Ids(timers) \cup Ids(due)
      /\ \A j \in 1..Len(timers) : Waits(timers[j], tick)
      /\ WithinQuota(timers, due)
      /\ tick \in 0..MaxTick
  BY DEF Inv, InOrder, Heartbeat
<1>4. x.id \in TimerIds
  BY <1>2, Fields
<1> HIDE DEF x, t
<1>5. /\ o \in [TimerIds -> Outcomes] /\ o[x.id] = "fired"
      /\ \A j \in TimerIds \ {x.id} : o[j] = outcome[j]
  BY <1>3, <1>4 DEF Outcomes
<1> HIDE DEF o
<1>6. \A j \in TimerIds : o[j] = "pending" <=> j \in Ids(timers) \cup Ids(t)
  BY <1>2, <1>3, <1>5
<1>7. WithinQuota(timers, t)
  BY <1>2, <1>3 DEF WithinQuota, OneLess
<1>8. InOrder(tick, timers, t, o)
  BY <1>2, <1>3, <1>5, <1>6, <1>7 DEF InOrder
<1>9. InOrder(tick, timers', t, outcome')
  BY <1>1, <1>2, <1>3, <1>8, ScriptKeeps
<1>10. \A i \in 1..Len(t) : t[i].left = 0 /\ t[i].age >= t[i].asked
  <2>1. \A i \in 1..Len(due) : due[i].left = 0 /\ due[i].age >= due[i].asked
    BY DEF Inv, Due
  <2> QED BY <1>2, <2>1 DEF OneLess
<1>11. Due'
  BY <1>1, <1>2, <1>10 DEF Due
<1>12. Heartbeat'
  <2>1. over' \in BOOLEAN
    BY <1>1 DEF Inv, Heartbeat, ReadClock
  <2> QED BY <1>1, <2>1 DEF Inv, Heartbeat
<1>13. Saved'
  BY <1>1 DEF Inv, Saved, Distinct
<1> QED BY <1>1, <1>9, <1>11, <1>12, <1>13 DEF Inv

(* What is put back may be one too many, if what was left was within bounds.  *)
LEMMA BreakTimersKeeps == ASSUME Inv, BreakTimers PROVE Inv'
<1> DEFINE x == Head(due)
           t == Tail(due)
<1>1. /\ due # <<>> /\ due' = <<>> /\ ReadClock /\ phase' = "idle"
      /\ timers' = Append(timers, x)
      /\ outcome' = [i \in TimerIds |-> IF i \in Ids(t) THEN "dropped" ELSE outcome[i]]
      /\ UNCHANGED <<tick, pos, saved, crashes>>
  BY DEF BreakTimers
<1>2. /\ OneLess(Timer, due, x, t)
      /\ Ids(due) = Ids(t) \cup {x.id}
      /\ Distinct(t) /\ x.id \notin Ids(t)
      /\ x \in Timer /\ t \in Seq(Timer)
  BY <1>1, DueHead
<1>3. /\ timers \in Seq(Timer) /\ outcome \in [TimerIds -> Outcomes]
      /\ Distinct(timers) /\ Ids(timers) \cap Ids(due) = {}
      /\ \A j \in TimerIds : outcome[j] = "pending" <=> j \in Ids(timers) \cup Ids(due)
      /\ \A j \in 1..Len(timers) : Waits(timers[j], tick)
      /\ WithinQuota(timers, due)
      /\ tick \in 0..MaxTick
  BY DEF Inv, InOrder, Heartbeat
<1>4. x.left = 0 /\ x.age >= x.asked
  BY <1>2 DEF Inv, Due, OneLess
<1>5. Waits(x, tick)
  BY <1>2, <1>3, <1>4, Fields, Numbers DEF Waits
<1> HIDE DEF x, t
<1>6. OneMore(Timer, timers, x, timers')
  BY <1>1, <1>2, <1>3 DEF OneMore
<1>7. /\ Ids(timers') = Ids(timers) \cup {x.id}
      /\ Distinct(timers')
      /\ OwnedCount(timers') = IF x.target \in Owned THEN OwnedCount(timers) + 1 ELSE OwnedCount(timers)
  BY <1>2, <1>3, <1>6, Appended
<1>8. Ids(due') = {} /\ \A i \in 1..Len(due') : FALSE
  <2>1. Len(<<>>) = 0
    OBVIOUS
  <2> QED BY <1>1, <2>1, Empty
<1>9. WithinQuota(timers', due')
  <2>1. OwnedCount(timers) \in Nat
    BY <1>3, Counts
  <2>2. CASE x.target \in Owned
    <3>1. OwnedCount(timers) <= Quota
      BY <1>2, <1>3, <2>2 DEF WithinQuota, OneLess
    <3> QED BY <1>7, <1>8, <2>1, <2>2, <3>1, Numbers DEF WithinQuota
  <2>3. CASE x.target \notin Owned
    BY <1>3, <1>7, <1>8, <2>3 DEF WithinQuota
  <2> QED BY <2>2, <2>3
<1>10. ASSUME NEW j \in 1..Len(timers') PROVE Waits(timers'[j], tick)
  <2>1. j = Len(timers) + 1 \/ j \in 1..Len(timers)
    BY <1>6 DEF OneMore
  <2> QED BY <1>3, <1>5, <1>6, <2>1 DEF OneMore
<1>11. outcome' \in [TimerIds -> Outcomes]
  BY <1>1, <1>3 DEF Outcomes
<1>12. \A j \in TimerIds : outcome'[j] = "pending" <=> j \in Ids(timers') \cup Ids(due')
  BY <1>1, <1>2, <1>3, <1>7, <1>8
<1>13. InOrder(tick, timers', due', outcome')
  BY <1>6, <1>7, <1>8, <1>9, <1>10, <1>11, <1>12 DEF InOrder, OneMore
<1>14. Due'
  <2>1. due' \in Seq(Timer) /\ Distinct(due')
    BY <1>1, Empty
  <2> QED BY <1>1, <1>8, <2>1 DEF Due
<1>15. Heartbeat'
  <2>1. over' \in BOOLEAN
    BY <1>1 DEF Inv, Heartbeat, ReadClock
  <2> QED BY <1>1, <2>1 DEF Inv, Heartbeat
<1>16. Saved'
  BY <1>1 DEF Inv, Saved, Distinct
<1> QED BY <1>1, <1>13, <1>14, <1>15, <1>16 DEF Inv

LEMMA EndTickKeeps == ASSUME Inv, EndTick PROVE Inv'
<1>1. /\ due = <<>> /\ phase' = "idle"
      /\ UNCHANGED <<tick, pos, over, timers, due, saved, crashes, outcome>>
  BY DEF EndTick
<1>2. Heartbeat'
  BY <1>1 DEF Inv, Heartbeat
<1>3. Due' /\ Saved'
  BY <1>1 DEF Inv, Due, Saved, Distinct
<1>4. InOrder(tick, timers, due, outcome)
  BY DEF Inv
<1> QED BY <1>1, <1>2, <1>3, <1>4 DEF Inv

(* The table holds what a process that counts from 0 has to wait for.         *)
LEMMA SaveTimersKeeps == ASSUME Inv, SaveTimers PROVE Inv'
<1> DEFINE row(x) == [x EXCEPT !.left = FireAtTick(x)]
<1>1. /\ saved' = [i \in 1..Len(timers) |-> row(timers[i])]
      /\ UNCHANGED <<tick, phase, pos, over, timers, due, crashes, outcome>>
  BY DEF SaveTimers
<1>2. InOrder(tick, timers, due, outcome) /\ tick \in 0..MaxTick
  BY DEF Inv, Heartbeat
<1>3. /\ timers \in Seq(Timer) /\ Distinct(timers)
      /\ \A j \in 1..Len(timers) : Waits(timers[j], tick)
      /\ OwnedCount(timers) <= Quota + 1
  BY <1>2 DEF InOrder, WithinQuota
<1>4. ASSUME NEW x \in Timer, Waits(x, tick)
      PROVE  row(x) \in Timer /\ Waits(row(x), 0) /\ row(x).id = x.id /\ row(x).target = x.target
  <2> DEFINE l == x.left + tick
  <2>1. /\ x.left \in Nat /\ x.asked \in Nat /\ x.age \in Nat
    BY Fields
  <2>2. l \in 0..(MaxDelay + MaxTick) /\ l + x.age >= x.asked /\ l + 0 <= MaxDelay + MaxTick
    BY <1>2, <1>4, <2>1, Numbers DEF Waits
  <2>3. row(x) = [x EXCEPT !.left = l]
    BY DEF FireAtTick
  <2> HIDE DEF l, row
  <2>4. row(x) \in Timer /\ row(x).left = l /\ row(x).age = x.age /\ row(x).asked = x.asked
        /\ row(x).id = x.id /\ row(x).target = x.target
    BY <2>2, <2>3 DEF Timer
  <2> QED BY <2>2, <2>4 DEF Waits
<1> HIDE DEF row
<1>5. /\ saved' \in Seq(Timer) /\ Len(saved') = Len(timers)
      /\ \A i \in 1..Len(timers) : saved'[i] = row(timers[i]) /\ timers[i] \in Timer
  <2>1. \A i \in 1..Len(timers) : row(timers[i]) \in Timer /\ timers[i] \in Timer
    BY <1>3, <1>4
  <2> QED BY <1>1, <1>3, <2>1
<1>6. Distinct(saved') /\ OwnedCount(saved') = OwnedCount(timers)
  BY <1>3, <1>4, <1>5, SameTimers
<1>7. Saved'
  BY <1>3, <1>4, <1>5, <1>6 DEF Saved
<1>8. Heartbeat' /\ Due'
  BY <1>1 DEF Inv, Heartbeat, Due, Distinct
<1> QED BY <1>1, <1>2, <1>7, <1>8 DEF Inv

LEMMA RestartKeeps == ASSUME Inv, Restart PROVE Inv'
<1>1. /\ crashes < MaxCrashes /\ crashes' = crashes + 1 /\ tick' = 0 /\ phase' = "idle"
      /\ pos' = 1 /\ over' = FALSE /\ timers' = saved /\ due' = <<>> /\ saved' = saved
      /\ outcome' = [i \in TimerIds |-> IF i \in Ids(saved) THEN "pending" ELSE "none"]
  BY DEF Restart
<1>2. /\ saved \in Seq(Timer) /\ Distinct(saved)
      /\ \A i \in 1..Len(saved) : Waits(saved[i], 0)
      /\ OwnedCount(saved) <= Quota + 1
  BY DEF Inv, Saved
<1>3. Heartbeat'
  <2>1. over' \in BOOLEAN
    BY <1>1, Zenon
  <2>2. crashes \in 0..MaxCrashes
    BY DEF Inv, Heartbeat
  <2> QED BY <1>1, <2>1, <2>2, Numbers DEF Heartbeat
<1>4. Ids(due') = {} /\ (\A i \in 1..Len(due') : FALSE) /\ Distinct(due') /\ due' \in Seq(Timer)
  <2>1. Len(<<>>) = 0
    OBVIOUS
  <2> QED BY <1>1, <2>1, Empty
<1>5. Due'
  BY <1>1, <1>4 DEF Due
<1>6. outcome' \in [TimerIds -> Outcomes]
  BY <1>1 DEF Outcomes
<1>7. InOrder(tick', timers', due', outcome')
  BY <1>1, <1>2, <1>4, <1>6 DEF InOrder, WithinQuota
<1>8. Saved'
  BY <1>1, <1>2 DEF Saved
<1> QED BY <1>3, <1>5, <1>7, <1>8 DEF Inv

LEMMA NextKeepsInv == Inv /\ [Next]_vars => Inv'
<1> SUFFICES ASSUME Inv, [Next]_vars PROVE Inv'
  OBVIOUS
<1>1. CASE Command
  BY <1>1, CommandKeeps
<1>2. CASE DoTick
  BY <1>2, BeginTickKeeps, TickObjectKeeps, BreakObjectsKeeps, TakeDueKeeps,
     FireTimerKeeps, BreakTimersKeeps, EndTickKeeps DEF DoTick
<1>3. CASE SaveTimers
  BY <1>3, SaveTimersKeeps
<1>4. CASE Restart
  BY <1>4, RestartKeeps
<1>5. CASE UNCHANGED vars
  BY <1>5 DEF vars, Inv, Heartbeat, InOrder, Due, Saved, Distinct, WithinQuota
<1> QED BY <1>1, <1>2, <1>3, <1>4, <1>5 DEF Next

LEMMA Invariance == Spec => []Inv
  BY InitInv, NextKeepsInv, PTL DEF Spec

-----------------------------------------------------------------------------
(* The theorems *)

(* Timers with ids of their own are as many as their ids. *)
LEMMA Counted ==
    ASSUME NEW A, NEW s \in Seq(A), Distinct(s)
    PROVE  IsFiniteSet(Ids(s)) /\ Cardinality(Ids(s)) = Len(s) /\ Len(s) \in Nat
<1> DEFINE n == Len(s)
           T == Ids(s)
           f == [i \in 1..n |-> s[i].id]
<1>1. n \in Nat
  OBVIOUS
<1>2. f \in [1..n -> T] /\ \A x \in T : \E i \in 1..n : f[i] = x
  BY DEF Ids
<1>3. \A i, j \in 1..n : f[i] = f[j] => i = j
  BY DEF Distinct
<1> HIDE DEF n, T, f
<1>4. f \in Bijection(1..n, T)
  BY <1>2, <1>3 DEF Bijection, Injection, Surjection, IsInjective
<1>5. ExistsBijection(1..n, T)
  BY <1>4 DEF ExistsBijection
<1>6. Cardinality(T) = n
  BY <1>1, <1>5, FS_CountingElements
<1>7. IsFiniteSet(T)
  BY <1>1, <1>5, FS_NatBijection
<1> QED BY <1>1, <1>6, <1>7 DEF n, T

(* The ids in two lists are those in their concatenation.                     *)
LEMMA IdsOfBoth ==
    ASSUME NEW A, NEW s \in Seq(A), NEW t \in Seq(A)
    PROVE  Ids(s \o t) = Ids(s) \cup Ids(t)
<1>1. /\ Len(s) \in Nat /\ Len(t) \in Nat /\ Len(s \o t) = Len(s) + Len(t)
      /\ \A i \in 1..Len(s) : (s \o t)[i] = s[i]
      /\ \A i \in 1..Len(t) : (s \o t)[Len(s) + i] = t[i]
  OBVIOUS
<1> DEFINE b == s \o t
<1> HIDE DEF b
<1>2. ASSUME NEW i \in 1..Len(b) PROVE b[i].id \in Ids(s) \cup Ids(t)
  <2>1. CASE i <= Len(s)
    <3>1. i \in 1..Len(s) /\ b[i] = s[i]
      BY <1>1, <2>1 DEF b
    <3> QED BY <3>1 DEF Ids
  <2>2. CASE ~(i <= Len(s))
    <3> DEFINE k == i - Len(s)
    <3>1. k \in 1..Len(t) /\ i = Len(s) + k
      BY <1>1, <2>2 DEF b
    <3> HIDE DEF k
    <3>2. b[i] = t[k]
      BY <1>1, <3>1 DEF b
    <3> QED BY <3>1, <3>2 DEF Ids
  <2> QED BY <2>1, <2>2
<1>3. ASSUME NEW i \in 1..Len(s) PROVE s[i].id \in Ids(b)
  <2>1. i \in 1..Len(b) /\ b[i] = s[i]
    BY <1>1 DEF b
  <2> QED BY <2>1 DEF Ids
<1>4. ASSUME NEW i \in 1..Len(t) PROVE t[i].id \in Ids(b)
  <2>1. Len(s) + i \in 1..Len(b) /\ b[Len(s) + i] = t[i]
    BY <1>1 DEF b
  <2> QED BY <2>1 DEF Ids
<1>5. Ids(b) = Ids(s) \cup Ids(t)
  <2>1. Ids(b) \subseteq Ids(s) \cup Ids(t)
    BY <1>2 DEF Ids
  <2>2. Ids(s) \subseteq Ids(b) /\ Ids(t) \subseteq Ids(b)
    BY <1>3, <1>4 DEF Ids
  <2> QED BY <2>1, <2>2
<1> QED BY <1>5 DEF b

(* However ticks are cut, saved and restarted: a timer is pending exactly     *)
(* when it is in one place, once, and the owner's pending timers exceed the   *)
(* quota by at most the one that a tick out of budget puts back (do_tick,     *)
(* timer_quota_reached).                                                      *)
THEOREM BooksInOrder == Spec => []TimersAccounted
<1>1. ASSUME Inv PROVE TimersAccounted
  <2>1. /\ timers \in Seq(Timer) /\ outcome \in [TimerIds -> Outcomes]
        /\ Distinct(timers) /\ Ids(timers) \cap Ids(due) = {}
        /\ \A j \in TimerIds : outcome[j] = "pending" <=> j \in Ids(timers) \cup Ids(due)
        /\ OwnedCount(timers) <= Quota + 1
        /\ due \in Seq(Timer) /\ Distinct(due) /\ saved \in Seq(Timer)
    BY <1>1 DEF Inv, InOrder, Due, Saved, WithinQuota
  <2>2. TypeOK
    BY <1>1, <2>1 DEF Inv, Heartbeat, TypeOK, Outcomes
  <2>3. Ids(timers \o due) = Ids(timers) \cup Ids(due)
    BY <2>1, IdsOfBoth
  <2>4. /\ IsFiniteSet(Ids(timers)) /\ Cardinality(Ids(timers)) = Len(timers) /\ Len(timers) \in Nat
        /\ IsFiniteSet(Ids(due)) /\ Cardinality(Ids(due)) = Len(due) /\ Len(due) \in Nat
    BY <2>1, Counted
  <2>5. Cardinality(Ids(timers) \cup Ids(due)) = Len(timers) + Len(due)
    <3> DEFINE P == Ids(timers)
               Q == Ids(due)
    <3>1. IsFiniteSet(P) /\ IsFiniteSet(Q) /\ P \cap Q = {}
      BY <2>1, <2>4
    <3> HIDE DEF P, Q
    <3>2. Cardinality(P \cup Q) = Cardinality(P) + Cardinality(Q) - Cardinality(P \cap Q)
      BY <3>1, FS_Union
    <3>3. Cardinality(P \cap Q) = 0
      BY <3>1, FS_EmptySet
    <3> QED BY <2>4, <3>2, <3>3 DEF P, Q
  <2>6. Ledger
    BY <2>1, <2>3, <2>5 DEF Ledger
  <2> QED BY <2>1, <2>2, <2>6 DEF TimersAccounted, QuotaPlusOne
<1> QED BY <1>1, Invariance, PTL

(* No timer is about to fire before it has waited for all the ticks it asked  *)
(* for, saved and restarted in between or not (do_tick, save_scheduled_hooks). *)
THEOREM NoneFiresEarly == Spec => []NeverEarly
<1>1. ASSUME Inv PROVE NeverEarly
  BY <1>1 DEF Inv, Due, NeverEarly
<1> QED BY <1>1, Invariance, PTL

=============================================================================
