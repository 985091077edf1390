------------------------- MODULE ObjectGraph_proofs -------------------------
(***************************************************************************)
(* What the intents keep true of the object graph, and what the built-in   *)
(* commands that move or destroy do with it while hooks meddle: for every  *)
(* number of objects, builders and traits, every depth limit, quota and    *)
(* capacity, and any number of commands in progress.                       *)
(*                                                                         *)
(* The walks up the locations and the archetypes are recursive functions:  *)
(* the first lemmas show, from the least number principle, that they exist *)
(* and step as defined.  Then: a move the walk allows closes no circle; an *)
(* archetype the walk allows closes none that fits in the walk, because a  *)
(* walk of that length inside a smaller set comes back to where it was; an *)
(* object whose line loses a member resolves as before, because the one    *)
(* that is flattened in its stead has what the rest of the line had.  The  *)
(* commands, which ask for no walk, rely on what each has found when it    *)
(* looked: this holds until the world changes, and then they are meddled.  *)
(***************************************************************************)
EXTENDS HookedCommands, FiniteSetTheorems, SequenceTheorems, WellFoundedInduction, TLAPS

(* Every nonempty set of naturals has a least member. *)
LEMMA Least ==
    ASSUME NEW T \in SUBSET Nat, T # {}
    PROVE  \E n \in T : \A k \in T : n <= k
<1> DEFINE R == {ss \in Nat \X Nat : ss[1] < ss[2]}
<1>1. R = OpToRel(<, Nat)
  BY DEF OpToRel
<1>2. IsWellFoundedOn(R, Nat)
  BY <1>1, NatLessThanWellFounded
<1>3. PICK n \in T : \A k \in T : <<k, n>> \notin R
  BY <1>2, WFMin
<1>4. ASSUME NEW k \in T PROVE n <= k
  <2>1. <<k, n>> \in Nat \X Nat
    OBVIOUS
  <2>2. ~(<<k, n>>[1] < <<k, n>>[2])
    BY <2>1, <1>3
  <2>3. ~(k < n)
    BY <2>2
  <2> QED BY <2>3
<1>5. QED
  BY <1>4

(* The functions that record n applications of next, from d on. *)
Iterates(A, next, d, n) ==
    {f \in [0..n -> A] : f[0] = d /\ \A i \in 1..n : f[i] = next[f[i - 1]]}

(* There is such a function: the least n without one would have one. *)
LEMMA IterateExists ==
    ASSUME NEW A, NEW next \in [A -> A], NEW d \in A, NEW n \in Nat
    PROVE  Iterates(A, next, d, n) # {}
<1> DEFINE P(m) == \E f \in [0..m -> A] : f[0] = d /\ \A i \in 1..m : f[i] = next[f[i - 1]]
           T == {m \in Nat : ~P(m)}
<1> SUFFICES ASSUME T # {} PROVE FALSE
  BY DEF Iterates
<1>1. PICK m \in T : \A k \in T : m <= k
  BY Least
<1>2. P(0)
  <2> DEFINE f == [i \in 0..0 |-> d]
  <2>1. f \in [0..0 -> A] /\ f[0] = d /\ \A i \in 1..0 : f[i] = next[f[i - 1]]
    OBVIOUS
  <2> HIDE DEF f
  <2> QED BY <2>1
<1>3. m \in Nat \ {0} /\ m - 1 \in Nat
  <2>1. m \in Nat /\ ~P(m)
    OBVIOUS
  <2> HIDE DEF P
  <2> QED BY <1>2, <2>1
<1>4. P(m - 1)
  <2> HIDE DEF P
  <2>1. CASE m - 1 \in T
    BY <1>1, <1>3, <2>1
  <2> QED BY <1>3, <2>1
<1>5. PICK f \in [0..(m - 1) -> A] : f[0] = d /\ \A i \in 1..(m - 1) : f[i] = next[f[i - 1]]
  BY <1>4
<1> DEFINE g == [i \in 0..m |-> IF i = m THEN next[f[m - 1]] ELSE f[i]]
<1>6. g \in [0..m -> A]
  BY <1>3
<1>7. g[0] = d
  BY <1>3, <1>5
<1>8. \A i \in 1..m : g[i] = next[g[i - 1]]
  BY <1>3, <1>5
<1>9. P(m)
  BY <1>6, <1>7, <1>8
<1> QED BY <1>9

(* The walk up the locations starts at d and goes from each object to its     *)
(* location.                                                                  *)
LEMMA ContainerWalkSteps ==
    ASSUME TypeOK, NEW d \in Refs
    PROVE  LET walk == ContainerWalk(d) IN
           /\ walk[0] = d
           /\ \A i \in 0..(MaxContainerDepth + 1) : walk[i] \in Refs \cup {None}
           /\ \A i \in 1..(MaxContainerDepth + 1) : walk[i] = LocationOf(walk[i - 1])
<1> DEFINE N == MaxContainerDepth + 1
           B == Refs \cup {None}
           up == [r \in B |-> LocationOf(r)]
           Is(f) == f = [i \in 0..N |-> IF i = 0 THEN d ELSE LocationOf(f[i - 1])]
<1>1. N \in Nat
  BY ConstantsAssumption
<1>2. up \in [B -> B]
  BY DEF TypeOK, LocationOf, Live, Object
<1>3. PICK f \in [0..N -> B] : f[0] = d /\ \A i \in 1..N : f[i] = up[f[i - 1]]
  <2>1. d \in B
    OBVIOUS
  <2> HIDE DEF N, up, B
  <2>2. Iterates(B, up, d, N) # {}
    BY <1>1, <1>2, <2>1, IterateExists
  <2> QED BY <2>2 DEF Iterates
<1>4. Is(f)
  <2> HIDE DEF N
  <2>1. ASSUME NEW i \in 1..N PROVE f[i] = LocationOf(f[i - 1])
    <3>1. i - 1 \in 0..N
      BY <1>1
    <3>2. f[i - 1] \in B
      BY <3>1, <1>3
    <3> QED BY <1>3, <3>2
  <2> QED BY <1>1, <1>3, <2>1
<1>5. ContainerWalk(d) = CHOOSE w : Is(w)
  BY DEF ContainerWalk
<1>6. Is(ContainerWalk(d))
  BY <1>4, <1>5
<1> DEFINE W == ContainerWalk(d)
<1>7. W = [i \in 0..N |-> IF i = 0 THEN d ELSE LocationOf(W[i - 1])]
  BY <1>6
<1> HIDE DEF W, N
<1>8. W[0] = d /\ \A i \in 1..N : W[i] = LocationOf(W[i - 1])
  BY <1>1, <1>7
<1>9. \A i \in 0..N : W[i] \in B
  <2>1. \A r : LocationOf(r) \in B
    BY DEF TypeOK, LocationOf, Live, Object
  <2>2. ASSUME NEW i \in 0..N PROVE W[i] \in B
    <3>1. i = 0 \/ i \in 1..N
      BY <1>1
    <3> QED BY <1>8, <2>1, <3>1
  <2> QED BY <2>2
<1> QED BY <1>8, <1>9 DEF W, N

(* The walk up the archetypes, likewise. *)
LEMMA ArchetypeWalkSteps ==
    ASSUME TypeOK, NEW d \in Refs
    PROVE  LET walk == ArchetypeWalk(d) IN
           /\ walk[0] = d
           /\ \A i \in 0..(MaxArchetypeDepth - 1) : walk[i] \in Refs \cup {None}
           /\ \A i \in 1..(MaxArchetypeDepth - 1) : walk[i] = ArchetypeOf(walk[i - 1])
<1> DEFINE N == MaxArchetypeDepth - 1
           B == Refs \cup {None}
           up == [r \in B |-> ArchetypeOf(r)]
           Is(f) == f = [i \in 0..N |-> IF i = 0 THEN d ELSE ArchetypeOf(f[i - 1])]
<1>1. N \in Nat
  BY ConstantsAssumption
<1>2. up \in [B -> B]
  BY DEF TypeOK, ArchetypeOf, Live, Object
<1>3. PICK f \in [0..N -> B] : f[0] = d /\ \A i \in 1..N : f[i] = up[f[i - 1]]
  <2>1. d \in B
    OBVIOUS
  <2> HIDE DEF N, up, B
  <2>2. Iterates(B, up, d, N) # {}
    BY <1>1, <1>2, <2>1, IterateExists
  <2> QED BY <2>2 DEF Iterates
<1>4. Is(f)
  <2> HIDE DEF N
  <2>1. ASSUME NEW i \in 1..N PROVE f[i] = ArchetypeOf(f[i - 1])
    <3>1. i - 1 \in 0..N
      BY <1>1
    <3>2. f[i - 1] \in B
      BY <3>1, <1>3
    <3> QED BY <1>3, <3>2
  <2> QED BY <1>1, <1>3, <2>1
<1>5. ArchetypeWalk(d) = CHOOSE w : Is(w)
  BY DEF ArchetypeWalk
<1>6. Is(ArchetypeWalk(d))
  BY <1>4, <1>5
<1> DEFINE W == ArchetypeWalk(d)
<1>7. W = [i \in 0..N |-> IF i = 0 THEN d ELSE ArchetypeOf(W[i - 1])]
  BY <1>6
<1> HIDE DEF W, N
<1>8. W[0] = d /\ \A i \in 1..N : W[i] = ArchetypeOf(W[i - 1])
  BY <1>1, <1>7
<1>9. \A i \in 0..N : W[i] \in B
  <2>1. \A r : ArchetypeOf(r) \in B
    BY DEF TypeOK, ArchetypeOf, Live, Object
  <2>2. ASSUME NEW i \in 0..N PROVE W[i] \in B
    <3>1. i = 0 \/ i \in 1..N
      BY <1>1
    <3> QED BY <1>8, <2>1, <3>1
  <2> QED BY <2>2
<1> QED BY <1>8, <1>9 DEF W, N

(* The inductive invariant. *)
IInv == TypeOK /\ NoOrphan /\ ContainmentAcyclic /\ ArchetypesAcyclic

(* What is inherited is a trait. *)
LEMMA ResolvedType ==
    ASSUME TypeOK, NEW r \in Refs
    PROVE  Resolved(r) \in Traits \cup {None}
<1> DEFINE walk == ArchetypeWalk(r)
           nearest == {i \in DOMAIN walk : Defines(walk[i]) /\ \A j \in 0..(i - 1) : ~Defines(walk[j])}
           i0 == CHOOSE i \in nearest : TRUE
<1>1. Resolved(r) = IF nearest = {} THEN None ELSE objects[walk[i0]].own
  BY DEF Resolved
<1>2. CASE nearest = {}
  BY <1>1, <1>2
<1>3. CASE nearest # {}
  <2>1. i0 \in nearest
    BY <1>3
  <2>2. Defines(walk[i0])
    BY <2>1
  <2> HIDE DEF i0, walk
  <2>3. walk[i0] \in Live
    BY <2>2 DEF Defines
  <2> DEFINE w == walk[i0]
  <2>4. objects[w] \in Object
    BY <2>3 DEF Live, TypeOK
  <2>5. objects[w].own \in Traits \cup {None}
    BY <2>4 DEF Object
  <2> QED BY <1>1, <1>3, <2>5 DEF i0, walk
<1> QED BY <1>2, <1>3

(* A live object has the shape of one. *)
LEMMA LiveObject ==
    ASSUME TypeOK, NEW r \in Live
    PROVE  r \in Refs /\ objects[r] \in Object /\ objects[r] # Gone
BY DEF TypeOK, Live

(* Detaching changes neither place nor owner. *)
LEMMA DetachedType ==
    ASSUME TypeOK, NEW r \in Live
    PROVE  /\ Detached(r) \in Object
           /\ Detached(r).arch = None
           /\ Detached(r).loc = objects[r].loc
           /\ Detached(r).owner = objects[r].owner
<1>1. Resolved(r) \in Traits \cup {None} /\ objects[r] \in Object
  BY ResolvedType, LiveObject
<1> QED BY <1>1 DEF Detached, Object

(* New objects in N, others that keep their archetype or lose it: no circle of *)
(* bounded length.                                                             *)
LEMMA KeepsArchetypes ==
    ASSUME TypeOK, TypeOK', ArchetypesAcyclic, NEW N,
           Live' \subseteq Live \cup N, N \cap Live = {},
           \A n \in N : objects'[n].arch \notin N,
           \A r \in Live : objects[r].arch \notin N,
           \A r \in Live \cap Live' : objects'[r].arch \in {objects[r].arch, None}
    PROVE  ArchetypesAcyclic'
<1> SUFFICES ASSUME NEW S \in SUBSET Live', S # {}, Cardinality(S) <= MaxArchetypeDepth,
                    \A r \in S : objects'[r].arch \in S
             PROVE  FALSE
  BY DEF ArchetypesAcyclic
<1> DEFINE T == S \ N
<1>1. None \notin S
  BY ConstantsAssumption DEF Live
<1>2. T \subseteq Live
  OBVIOUS
<1>3. ASSUME NEW r \in T PROVE objects[r].arch \in T
  BY <1>1, <1>2
<1>4. Cardinality(T) <= MaxArchetypeDepth
  <2>1. IsFiniteSet(S)
    BY ConstantsAssumption, FS_Subset DEF Live
  <2>2. Cardinality(T) <= Cardinality(S) /\ Cardinality(T) \in Nat /\ Cardinality(S) \in Nat
    BY <2>1, FS_Subset, FS_CardinalityType
  <2> QED BY <2>2, ConstantsAssumption
<1>5. T = {}
  <2> HIDE DEF T
  <2> QED BY <1>2, <1>3, <1>4 DEF ArchetypesAcyclic
<1>6. PICK n \in S : TRUE
  OBVIOUS
<1> QED BY <1>5, <1>6

(* Nothing new: the containment only loses. *)
LEMMA NoNewContainment ==
    ASSUME TypeOK, TypeOK', ContainmentAcyclic, Live' \subseteq Live, looped \subseteq looped',
           \A r \in Live' : objects'[r].loc \in {objects[r].loc, None}
    PROVE  ContainmentAcyclic'
<1> SUFFICES ASSUME NEW S \in SUBSET (Live' \ looped'), S # {}, \A r \in S : objects'[r].loc \in S
             PROVE  FALSE
  BY DEF ContainmentAcyclic
<1>1. None \notin S
  BY ConstantsAssumption DEF Live
<1>2. S \in SUBSET (Live \ looped)
  OBVIOUS
<1>3. \A r \in S : objects[r].loc \in S
  BY <1>1
<1> QED BY <1>2, <1>3 DEF ContainmentAcyclic

(* A new object closes a circle only from inside what its dbref still holds. *)
LEMMA CreateKeepsContainment ==
    ASSUME TypeOK, TypeOK', ContainmentAcyclic, NEW n \in Refs, n \notin Live,
           NEW l \in Live \cup {None}, objects'[n].loc = l, Live' = Live \cup {n},
           \A r \in Live : objects'[r].loc = objects[r].loc,
           looped' = IF Beneath(l, {n}) THEN looped \cup {n} ELSE looped \ {n}
    PROVE  ContainmentAcyclic'
<1> SUFFICES ASSUME NEW S \in SUBSET (Live' \ looped'), S # {}, \A r \in S : objects'[r].loc \in S
             PROVE  FALSE
  BY DEF ContainmentAcyclic
<1>1. None \notin S
  BY ConstantsAssumption DEF Live
<1>2. CASE n \notin S
  <2>1. S \in SUBSET (Live \ looped) /\ \A r \in S : objects[r].loc \in S
    BY <1>2
  <2> QED BY <2>1 DEF ContainmentAcyclic
<1>3. CASE n \in S
  <2> DEFINE T == S \ {n}
  <2>1. ~Beneath(l, {n})
    BY <1>3
  <2>2. l \in T
    BY <1>1, <1>3
  <2>3. T \in SUBSET Live /\ \A x \in T : objects[x].loc \in T \cup {n}
    OBVIOUS
  <2> HIDE DEF T
  <2> QED BY <2>1, <2>2, <2>3 DEF Beneath
<1> QED BY <1>2, <1>3

(* Nothing new: the delegation only loses. *)
LEMMA NoNewArchetypes ==
    ASSUME TypeOK, TypeOK', ArchetypesAcyclic, Live' \subseteq Live,
           \A r \in Live' : objects'[r].arch \in {objects[r].arch, None}
    PROVE  ArchetypesAcyclic'
<1> DEFINE N == {}
<1>1. /\ Live' \subseteq Live \cup N /\ N \cap Live = {}
      /\ \A n \in N : objects'[n].arch \notin N
      /\ \A r \in Live : objects[r].arch \notin N
      /\ \A r \in Live \cap Live' : objects'[r].arch \in {objects[r].arch, None}
  OBVIOUS
<1> HIDE DEF N
<1> QED BY <1>1, KeepsArchetypes

(* A move that the walk allows closes no circle. *)
LEMMA MoveKeepsContainment ==
    ASSUME TypeOK, TypeOK', ContainmentAcyclic, NEW t \in Refs, NEW d \in Refs, MoveAllowed(t, d),
           Live' = Live, looped \ {t} \subseteq looped', objects'[t].loc = d,
           \A r \in Live \ {t} : objects'[r].loc = objects[r].loc
    PROVE  ContainmentAcyclic'
<1> SUFFICES ASSUME NEW S \in SUBSET (Live \ looped'), S # {}, \A r \in S : objects'[r].loc \in S
             PROVE  FALSE
  BY DEF ContainmentAcyclic
<1> DEFINE D == MaxContainerDepth + 1
           W == ContainerWalk(d)
           T == {r \in S : \E i \in 0..D : r = W[i]}
<1>1. W[0] = d /\ \A i \in 1..D : W[i] = LocationOf(W[i - 1])
  BY ContainerWalkSteps
<1>2. W[D] = None /\ t # d /\ \A i \in 1..D : W[i] # t
  BY DEF MoveAllowed
<1>3. D \in Nat
  BY ConstantsAssumption
<1>4. None \notin S
  BY ConstantsAssumption DEF Live
<1> HIDE DEF W, D
<1>5. t \in S
  BY DEF ContainmentAcyclic
<1>6. d \in T
  <2>1. d \in S
    BY <1>5
  <2>2. 0 \in 0..D
    BY <1>3
  <2> QED BY <2>1, <2>2, <1>1
<1>7. ASSUME NEW r \in T PROVE objects[r].loc \in T
  <2>1. PICK i \in 0..D : r = W[i]
    OBVIOUS
  <2>2. i # D
    BY <1>2, <1>4, <2>1
  <2>3. i + 1 \in 1..D /\ i + 1 \in 0..D /\ (i + 1) - 1 = i
    BY <1>3, <2>2
  <2>4. r # t
    <3>1. CASE i = 0
      BY <1>1, <1>2, <2>1, <3>1
    <3>2. CASE i \in 1..D
      BY <1>2, <2>1, <3>2
    <3> QED BY <1>3, <3>1, <3>2
  <2>5. objects[r].loc \in S
    BY <2>4
  <2>6. W[i + 1] = objects[r].loc
    BY <1>1, <2>1, <2>3 DEF LocationOf
  <2> QED BY <2>3, <2>5, <2>6
<1>8. t \notin T
  <2> SUFFICES ASSUME NEW i \in 0..D, t = W[i] PROVE FALSE
    OBVIOUS
  <2>1. i = 0 \/ i \in 1..D
    BY <1>3
  <2> QED BY <1>1, <1>2, <2>1
<1>9. T \in SUBSET (Live \ looped) /\ T # {}
  BY <1>6, <1>8
<1> HIDE DEF T
<1> QED BY <1>7, <1>9 DEF ContainmentAcyclic

(* A walk that comes back to where it was runs in a circle. *)
LEMMA NoReturn ==
    ASSUME TypeOK, ArchetypesAcyclic, NEW c \in Refs, NEW S \in SUBSET Live,
           Cardinality(S) <= MaxArchetypeDepth,
           \A i \in 0..(MaxArchetypeDepth - 1) : ArchetypeWalk(c)[i] \in S,
           NEW x \in 0..(MaxArchetypeDepth - 1), NEW y \in 0..(MaxArchetypeDepth - 1), x < y,
           ArchetypeWalk(c)[x] = ArchetypeWalk(c)[y]
    PROVE  FALSE
<1> DEFINE M == MaxArchetypeDepth - 1
           W == ArchetypeWalk(c)
           C == {r \in S : \E k \in x..(y - 1) : r = W[k]}
<1>1. M \in Nat /\ \A i \in 1..M : W[i] = ArchetypeOf(W[i - 1])
  BY ConstantsAssumption, ArchetypeWalkSteps
<1>2. /\ \A i \in 0..M : W[i] \in S
      /\ W[x] = W[y]
      /\ x \in 0..M /\ y \in 0..M
  OBVIOUS
<1>3. Cardinality(C) <= MaxArchetypeDepth
  <2>1. IsFiniteSet(S)
    BY ConstantsAssumption, FS_Subset DEF Live
  <2>2. Cardinality(C) <= Cardinality(S) /\ Cardinality(C) \in Nat /\ Cardinality(S) \in Nat
    BY <2>1, FS_Subset, FS_CardinalityType
  <2> QED BY <2>2, ConstantsAssumption
<1> HIDE DEF M, W
<1>4. W[x] \in C
  <2>1. x \in x..(y - 1) /\ W[x] \in S
    BY <1>1, <1>2
  <2> QED BY <2>1
<1>5. ASSUME NEW r \in C PROVE objects[r].arch \in C
  <2>1. PICK k \in x..(y - 1) : r = W[k]
    OBVIOUS
  <2>2. k + 1 \in 1..M /\ k + 1 \in 0..M /\ (k + 1) - 1 = k
    BY <1>1, <1>2
  <2>3. objects[r].arch = W[k + 1] /\ W[k + 1] \in S
    BY <1>1, <1>2, <2>1, <2>2 DEF ArchetypeOf
  <2>4. CASE k + 1 = y
    BY <1>2, <1>4, <2>3, <2>4
  <2>5. CASE k + 1 # y
    <3>1. k + 1 \in x..(y - 1)
      BY <1>1, <1>2, <2>5
    <3> QED BY <2>3, <3>1
  <2> QED BY <2>4, <2>5
<1>6. C \subseteq Live /\ C # {}
  BY <1>4
<1> HIDE DEF C
<1> QED BY <1>3, <1>5, <1>6 DEF ArchetypesAcyclic

(* An archetype that the walk allows closes no circle that a walk can see. *)
LEMMA SetArchetypeKeepsArchetypes ==
    ASSUME TypeOK, TypeOK', ArchetypesAcyclic, NEW t \in Live, NEW c \in Refs, ~WouldCycle(t, c),
           Live' = Live, objects'[t].arch = c,
           \A r \in Live \ {t} : objects'[r].arch = objects[r].arch
    PROVE  ArchetypesAcyclic'
<1> SUFFICES ASSUME NEW S \in SUBSET Live, S # {}, Cardinality(S) <= MaxArchetypeDepth,
                    \A r \in S : objects'[r].arch \in S
             PROVE  FALSE
  BY DEF ArchetypesAcyclic
<1> DEFINE M == MaxArchetypeDepth - 1
           W == ArchetypeWalk(c)
           Out == {i \in 0..M : W[i] \notin S}
<1>1. M \in Nat /\ M + 1 = MaxArchetypeDepth
  BY ConstantsAssumption
<1>2. W[0] = c /\ \A i \in 1..M : W[i] = ArchetypeOf(W[i - 1])
  BY ArchetypeWalkSteps
<1>3. \A i \in 0..M : W[i] # t
  BY DEF WouldCycle
<1> HIDE DEF M, W
<1>4. t \in S
  BY DEF ArchetypesAcyclic
<1>5. c \in S
  BY <1>4
<1>6. Out = {}
  <2> SUFFICES ASSUME Out # {} PROVE FALSE
    OBVIOUS
  <2>1. PICK i \in Out : \A j \in Out : i <= j
    <3>1. Out \in SUBSET Nat
      OBVIOUS
    <3> HIDE DEF Out
    <3> QED BY <3>1, Least
  <2>2. i \in 1..M /\ i - 1 \in 0..M
    BY <1>1, <1>2, <1>5
  <2>3. W[i - 1] \in S
    BY <2>1, <2>2
  <2>4. objects[W[i - 1]].arch \in S
    BY <1>3, <2>2, <2>3
  <2>5. W[i] \in S
    BY <1>2, <2>2, <2>3, <2>4 DEF ArchetypeOf
  <2> QED BY <2>5
<1>7. IsFiniteSet(S)
  BY ConstantsAssumption, FS_Subset DEF Live
<1>8. IsFiniteSet(S \ {t}) /\ Cardinality(S \ {t}) < M + 1
  <2>1. IsFiniteSet(S \ {t}) /\ Cardinality(S \ {t}) = Cardinality(S) - 1
    BY <1>4, <1>7, FS_RemoveElement
  <2>2. Cardinality(S) \in Nat
    BY <1>7, FS_CardinalityType
  <2> QED BY <1>1, <2>1, <2>2, ConstantsAssumption
<1>9. IsFiniteSet(0..M) /\ Cardinality(0..M) = M + 1
  BY <1>1, FS_Interval
<1>10. PICK x \in 0..M, y \in 0..M : x # y /\ W[x] = W[y]
  <2> DEFINE f == [i \in 0..M |-> W[i]]
  <2>1. f \in [0..M -> S \ {t}]
    BY <1>3, <1>6
  <2>2. \E x, y \in 0..M : x # y /\ f[x] = f[y]
    <3> DEFINE A == 0..M
               B == S \ {t}
    <3>1. /\ IsFiniteSet(A) /\ IsFiniteSet(B)
          /\ Cardinality(B) < Cardinality(A)
          /\ f \in [A -> B]
      BY <1>8, <1>9, <2>1
    <3> HIDE DEF A, B, f
    <3>2. \E x, y \in A : x # y /\ f[x] = f[y]
      BY ONLY <3>1, FS_PigeonHole
    <3> QED BY <3>2 DEF A
  <2> QED BY <2>2 DEF f
<1>11. \A i \in 0..M : W[i] \in S
  BY <1>6
<1>12. CASE x < y
  BY <1>10, <1>11, <1>12, NoReturn DEF M, W
<1>13. CASE y < x
  BY <1>10, <1>11, <1>13, NoReturn DEF M, W
<1> QED BY <1>1, <1>10, <1>12, <1>13

-----------------------------------------------------------------------------
(* What the intents come to, for the graph. *)
Becomes(t, o) == o \in Object /\ objects' = [objects EXCEPT ![t] = o]

Edited(t, o) ==
    /\ t \in Live /\ Becomes(t, o) /\ looped' = looped
    /\ o.loc = objects[t].loc /\ o.arch \in {objects[t].arch, None}
Placed(t, o) ==
    /\ t \in Live /\ Becomes(t, o) /\ looped' = looped \ {t}
    /\ o.loc \in Live /\ MoveAllowed(t, o.loc) /\ o.arch = objects[t].arch
Redirected(t, o) ==
    /\ t \in Live /\ Becomes(t, o) /\ looped' = looped
    /\ o.loc = objects[t].loc /\ o.arch \in Live /\ ~WouldCycle(t, o.arch)
Created(r, o) ==
    /\ r \in Refs \ Live /\ Becomes(r, o)
    /\ looped' = IF Beneath(o.loc, {r}) THEN looped \cup {r} ELSE looped \ {r}
    /\ o.loc \in Live \cup {None} /\ o.arch \in Live \cup {None}
Removed(t) == t \in Live /\ objects' = AfterDestroy(t) /\ looped' = looped

(* Creating puts a new object in a place and under an archetype that exist. *)
LEMMA CreateShape ==
    ASSUME TypeOK, NEW r, NEW l \in Live \cup {None}, NEW ar \in Live \cup {None},
           NEW o \in Players \cup {None}, NEW v \in Traits \cup {None}, Create(r, l, ar, o, v)
    PROVE  \E ob \in Object : Created(r, ob)
<1> DEFINE ob == [loc |-> l, arch |-> ar, owner |-> o, own |-> v]
<1>1. ob \in Object
  BY DEF Object, Live
<1>2. Created(r, ob)
  BY <1>1 DEF Create, Created, Becomes
<1> QED BY <1>1, <1>2

(* Every intent is of one of these shapes. *)
LEMMA StepShape ==
    ASSUME TypeOK, NoOrphan, NEW a \in Authorities, BatchStep(a)
    PROVE  \/ \E t \in Live, o \in Object : Edited(t, o) \/ Placed(t, o) \/ Redirected(t, o)
           \/ \E r \in Refs, o \in Object : Created(r, o)
           \/ \E t \in Live : Removed(t)
<1>1. CASE \E t \in Things, v \in Traits \cup {None} : SetTrait(a, t, v)
  <2>1. PICK t \in Things, v \in Traits \cup {None} : SetTrait(a, t, v)
    BY <1>1
  <2> DEFINE o == [objects[t] EXCEPT !.own = v]
  <2>2. t \in Live /\ objects[t] \in Object
    BY LiveObject DEF Things
  <2>3. o \in Object /\ o.loc = objects[t].loc /\ o.arch = objects[t].arch
    BY <2>2 DEF Object
  <2>4. Edited(t, o)
    BY <2>1, <2>2, <2>3 DEF SetTrait, Edited, Becomes
  <2> QED BY <2>2, <2>3, <2>4
<1>2. CASE \E t \in Live \cap Movable, d \in Live : Move(t, d)
  <2>1. PICK t \in Live \cap Movable, d \in Live : Move(t, d)
    BY <1>2
  <2> DEFINE o == [objects[t] EXCEPT !.loc = d]
  <2>2. objects[t] \in Object /\ d \in Refs
    BY LiveObject
  <2>3. o \in Object /\ o.loc = d /\ o.arch = objects[t].arch
    BY <2>2 DEF Object
  <2>4. Placed(t, o)
    BY <2>1, <2>2, <2>3 DEF Move, Placed, Becomes
  <2> QED BY <2>3, <2>4
<1>3. CASE \E r \in Refs \ Live, l \in Live \cup {None}, o \in Authorities, ar \in Things \cup {None} :
              Spawn(a, r, l, o, ar)
  <2>1. PICK r \in Refs \ Live, l \in Live \cup {None}, o \in Authorities, ar \in Things \cup {None} :
              Spawn(a, r, l, o, ar)
    BY <1>3
  <2>2. l \in Live \cup {None} /\ ar \in Live \cup {None} /\ Create(r, l, ar, o, None)
    BY <2>1 DEF Spawn
  <2> QED BY <2>2, CreateShape DEF Authorities
<1>4. CASE \E r \in Refs \ Live, s \in Things, l \in Authorities, o \in Authorities :
              Clone(a, r, s, l, o)
  <2>1. PICK r \in Refs \ Live, s \in Things, l \in Authorities, o \in Authorities :
              Clone(a, r, s, l, o)
    BY <1>4
  <2> DEFINE at == IF l = None THEN objects[s].loc ELSE l
             own == IF o = None THEN a ELSE o
  <2>2. s \in Live /\ objects[s] \in Object
    BY LiveObject DEF Things
  <2>3. objects[s].arch \in Live \cup {None} /\ objects[s].own \in Traits \cup {None}
    BY <2>2 DEF NoOrphan, Object
  <2>4. at \in Live \cup {None} /\ own \in Players \cup {None}
        /\ Create(r, at, objects[s].arch, own, objects[s].own)
    BY <2>1 DEF Clone, Authorities
  <2> HIDE DEF at, own
  <2> QED BY <2>3, <2>4, CreateShape
<1>5. CASE \E r \in Refs \ Live, s \in Things : CreateExit(a, r, s)
  <2>1. PICK r \in Refs \ Live, s \in Things : CreateExit(a, r, s)
    BY <1>5
  <2>2. s \in Live \cup {None} /\ Create(r, s, None, None, None)
    BY <2>1 DEF CreateExit
  <2> QED BY <2>2, CreateShape
<1>6. CASE \E t \in Things, cascade \in BOOLEAN : Destroy(a, t, cascade)
  BY <1>6 DEF Destroy, Removed, Things
<1>7. CASE \E t \in Things : Detach(a, t)
  <2>1. PICK t \in Things : Detach(a, t)
    BY <1>7
  <2>2. t \in Live
    BY DEF Things
  <2>3. Edited(t, Detached(t))
    BY <2>1, <2>2, DetachedType DEF Detach, Edited, Becomes
  <2> QED BY <2>2, <2>3 DEF Edited, Becomes
<1>8. CASE \E t \in Things, ar \in Things \cup {None} : SetArchetype(a, t, ar)
  <2>1. PICK t \in Things, ar \in Things \cup {None} : SetArchetype(a, t, ar)
    BY <1>8
  <2> DEFINE o == [objects[t] EXCEPT !.arch = ar]
  <2>2. t \in Live /\ objects[t] \in Object /\ ar \in Live \cup {None} /\ ar \in Refs \cup {None}
    BY LiveObject DEF Things, Live
  <2>3. o \in Object /\ o.loc = objects[t].loc /\ o.arch = ar
    BY <2>2 DEF Object
  <2>4. Becomes(t, o) /\ looped' = looped /\ (ar # None => ~WouldCycle(t, ar))
    BY <2>1, <2>2, <2>3 DEF SetArchetype, Becomes
  <2>5. Edited(t, o) \/ Redirected(t, o)
    BY <2>2, <2>3, <2>4 DEF Edited, Redirected
  <2> QED BY <2>2, <2>3, <2>5
<1>9. CASE \E t \in Things, o \in Players : SetOwner(a, t, o)
  <2>1. PICK t \in Things, p \in Players : SetOwner(a, t, p)
    BY <1>9
  <2> DEFINE o == [objects[t] EXCEPT !.owner = p]
  <2>2. t \in Live /\ objects[t] \in Object
    BY LiveObject DEF Things
  <2>3. o \in Object /\ o.loc = objects[t].loc /\ o.arch = objects[t].arch
    BY <2>2 DEF Object
  <2>4. Edited(t, o)
    BY <2>1, <2>2, <2>3 DEF SetOwner, Edited, Becomes
  <2> QED BY <2>2, <2>3, <2>4
<1> QED BY <1>1, <1>2, <1>3, <1>4, <1>5, <1>6, <1>7, <1>8, <1>9 DEF BatchStep

(* One object changes or appears, the others are what they were. *)
LEMMA BecomesLive ==
    ASSUME TypeOK, NEW t \in Refs, NEW o \in Object, Becomes(t, o)
    PROVE  /\ objects' \in [Refs -> Object \cup {Gone}]
           /\ Live' = Live \cup {t}
           /\ objects'[t] = o
           /\ \A r \in Refs \ {t} : objects'[r] = objects[r]
<1>1. o # Gone
  BY GoneAssumption
<1> QED BY <1>1 DEF TypeOK, Live, Becomes

(* One object goes; its instances delegate to nothing. *)
LEMMA RemovedLive ==
    ASSUME TypeOK, NEW t \in Live, Removed(t)
    PROVE  /\ objects' \in [Refs -> Object \cup {Gone}]
           /\ Live' = Live \ {t}
           /\ \A r \in Live \ {t} : objects'[r].loc = objects[r].loc
           /\ \A r \in Live \ {t} : objects'[r].arch \in {objects[r].arch, None} \ {t}
<1>1. \A r \in Live : /\ Detached(r) \in Object /\ Detached(r).arch = None
                       /\ Detached(r).loc = objects[r].loc
  BY DetachedType
<1>2. \A r \in Refs : objects'[r] = IF r = t THEN Gone
                                      ELSE IF r \in Instances(t) THEN Detached(r) ELSE objects[r]
  BY DEF Removed, AfterDestroy
<1>3. objects' = [r \in Refs |-> IF r = t THEN Gone
                                 ELSE IF r \in Instances(t) THEN Detached(r) ELSE objects[r]]
  BY DEF Removed, AfterDestroy
<1>4. t \in Refs /\ Instances(t) = {r \in Live : objects[r].arch = t}
  BY DEF Instances, Live
<1> HIDE DEF Removed
<1>5. objects' \in [Refs -> Object \cup {Gone}]
  BY <1>1, <1>3, <1>4 DEF TypeOK
<1>6. Live' = Live \ {t}
  BY <1>1, <1>2, <1>4, GoneAssumption DEF Live, TypeOK
<1>7. ASSUME NEW r \in Live \ {t}
      PROVE  objects'[r] = IF objects[r].arch = t THEN Detached(r) ELSE objects[r]
  BY <1>2, <1>4 DEF Live
<1>8. ASSUME NEW r \in Live \ {t}
      PROVE  /\ objects'[r].loc = objects[r].loc
             /\ objects'[r].arch \in {objects[r].arch, None} \ {t}
  BY <1>1, <1>4, <1>7, ConstantsAssumption
<1> QED BY <1>5, <1>6, <1>7, <1>8

(* Every intent preserves the inductive invariant. *)
LEMMA Step ==
    ASSUME IInv, NEW a \in Authorities, BatchStep(a), by' = a
    PROVE  IInv'
<1> USE DEF IInv
<1>1. CASE \E t \in Live, o \in Object : Edited(t, o)
  <2>1. PICK t \in Live, o \in Object : Edited(t, o)
    BY <1>1
  <2>2. Becomes(t, o) /\ looped' = looped /\ o.loc = objects[t].loc /\ o.arch \in {objects[t].arch, None}
    BY <2>1 DEF Edited
  <2>3. /\ objects' \in [Refs -> Object \cup {Gone}] /\ Live' = Live /\ objects'[t] = o
        /\ \A r \in Refs \ {t} : objects'[r] = objects[r]
    BY <2>2, BecomesLive, LiveObject
  <2>4. TypeOK'
    BY <2>2, <2>3 DEF TypeOK, Authorities
  <2>5. \A r \in Live : objects'[r].loc = objects[r].loc /\ objects'[r].arch \in {objects[r].arch, None}
    BY <2>2, <2>3, LiveObject
  <2>6. NoOrphan'
    BY <2>2, <2>3, <2>5 DEF NoOrphan
  <2>7. ContainmentAcyclic'
    BY <2>2, <2>3, <2>4, <2>5, NoNewContainment
  <2>8. ArchetypesAcyclic'
    BY <2>3, <2>4, <2>5, NoNewArchetypes
  <2> QED BY <2>4, <2>6, <2>7, <2>8
<1>2. CASE \E t \in Live, o \in Object : Placed(t, o)
  <2>1. PICK t \in Live, o \in Object : Placed(t, o)
    BY <1>2
  <2>2. /\ Becomes(t, o) /\ looped' = looped \ {t}
        /\ o.loc \in Live /\ MoveAllowed(t, o.loc) /\ o.arch = objects[t].arch
    BY <2>1 DEF Placed
  <2>3. /\ objects' \in [Refs -> Object \cup {Gone}] /\ Live' = Live /\ objects'[t] = o
        /\ \A r \in Refs \ {t} : objects'[r] = objects[r]
    BY <2>2, BecomesLive, LiveObject
  <2>4. TypeOK'
    BY <2>2, <2>3 DEF TypeOK, Authorities
  <2>5. \A r \in Live : objects'[r].arch = objects[r].arch
    BY <2>2, <2>3, LiveObject
  <2>6. \A r \in Live \ {t} : objects'[r].loc = objects[r].loc
    BY <2>3, LiveObject
  <2>7. NoOrphan'
    BY <2>2, <2>3, <2>4, <2>5, <2>6, LiveObject DEF NoOrphan
  <2>8. ContainmentAcyclic'
    <3>1. t \in Refs /\ o.loc \in Refs
      BY <2>2, LiveObject
    <3> DEFINE d == o.loc
    <3>2. /\ d \in Refs /\ MoveAllowed(t, d) /\ objects'[t].loc = d
          /\ looped \ {t} \subseteq looped'
      BY <2>2, <2>3, <3>1
    <3> HIDE DEF d
    <3> QED BY <2>3, <2>4, <2>6, <3>1, <3>2, MoveKeepsContainment
  <2>9. ArchetypesAcyclic'
    BY <2>3, <2>4, <2>5, NoNewArchetypes
  <2> QED BY <2>4, <2>7, <2>8, <2>9
<1>3. CASE \E t \in Live, o \in Object : Redirected(t, o)
  <2>1. PICK t \in Live, o \in Object : Redirected(t, o)
    BY <1>3
  <2>2. /\ Becomes(t, o) /\ looped' = looped
        /\ o.loc = objects[t].loc /\ o.arch \in Live /\ ~WouldCycle(t, o.arch)
    BY <2>1 DEF Redirected
  <2>3. /\ objects' \in [Refs -> Object \cup {Gone}] /\ Live' = Live /\ objects'[t] = o
        /\ \A r \in Refs \ {t} : objects'[r] = objects[r]
    BY <2>2, BecomesLive, LiveObject
  <2>4. TypeOK'
    BY <2>2, <2>3 DEF TypeOK, Authorities
  <2>5. \A r \in Live : objects'[r].loc = objects[r].loc
    BY <2>2, <2>3, LiveObject
  <2>6. \A r \in Live \ {t} : objects'[r].arch = objects[r].arch
    BY <2>3, LiveObject
  <2>7. NoOrphan'
    BY <2>2, <2>3, <2>5, <2>6 DEF NoOrphan
  <2>8. ContainmentAcyclic'
    BY <2>2, <2>3, <2>4, <2>5, NoNewContainment
  <2>9. ArchetypesAcyclic'
    <3>1. o.arch \in Refs
      BY <2>2, LiveObject
    <3> DEFINE c == o.arch
    <3>2. /\ c \in Refs /\ ~WouldCycle(t, c) /\ objects'[t].arch = c
      BY <2>2, <2>3, <3>1
    <3> HIDE DEF c
    <3> QED BY <2>3, <2>4, <2>6, <3>2, SetArchetypeKeepsArchetypes
  <2> QED BY <2>4, <2>7, <2>8, <2>9
<1>4. CASE \E r \in Refs, o \in Object : Created(r, o)
  <2>1. PICK n \in Refs, o \in Object : Created(n, o)
    BY <1>4
  <2>2. /\ n \notin Live /\ Becomes(n, o)
        /\ looped' = IF Beneath(o.loc, {n}) THEN looped \cup {n} ELSE looped \ {n}
        /\ o.loc \in Live \cup {None} /\ o.arch \in Live \cup {None}
    BY <2>1 DEF Created
  <2>3. /\ objects' \in [Refs -> Object \cup {Gone}] /\ Live' = Live \cup {n} /\ objects'[n] = o
        /\ \A r \in Refs \ {n} : objects'[r] = objects[r]
    BY <2>2, BecomesLive
  <2>4. TypeOK'
    BY <2>2, <2>3 DEF TypeOK, Authorities
  <2>5. n \notin Live /\ n # None
    BY <2>2, ConstantsAssumption DEF TypeOK
  <2>6. \A r \in Live : objects'[r] = objects[r] /\ objects[r].arch # n
    BY <2>2, <2>3, <2>5, LiveObject DEF NoOrphan
  <2>7. NoOrphan'
    BY <2>2, <2>3, <2>6, LiveObject DEF NoOrphan
  <2>8. ContainmentAcyclic'
    <3> DEFINE l == o.loc
    <3>1. /\ l \in Live \cup {None} /\ objects'[n].loc = l
          /\ looped' = IF Beneath(l, {n}) THEN looped \cup {n} ELSE looped \ {n}
      BY <2>2, <2>3
    <3>2. \A r \in Live : objects'[r].loc = objects[r].loc
      BY <2>6
    <3> HIDE DEF l
    <3> QED BY <2>2, <2>3, <2>4, <3>1, <3>2, CreateKeepsContainment
  <2>9. ArchetypesAcyclic'
    <3> DEFINE N == {n}
    <3>1. /\ Live' \subseteq Live \cup N /\ N \cap Live = {}
          /\ \A r \in N : objects'[r].arch \notin N
          /\ \A r \in Live : objects[r].arch \notin N
          /\ \A r \in Live \cap Live' : objects'[r].arch \in {objects[r].arch, None}
      BY <2>2, <2>3, <2>5, <2>6
    <3> HIDE DEF N
    <3> QED BY <2>4, <3>1, KeepsArchetypes
  <2> QED BY <2>4, <2>7, <2>8, <2>9
<1>5. CASE \E t \in Live : Removed(t)
  <2>1. PICK t \in Live : Removed(t)
    BY <1>5
  <2>2. /\ objects' \in [Refs -> Object \cup {Gone}] /\ Live' = Live \ {t}
        /\ \A r \in Live \ {t} : objects'[r].loc = objects[r].loc
        /\ \A r \in Live \ {t} : objects'[r].arch \in {objects[r].arch, None} \ {t}
    BY <2>1, RemovedLive
  <2>3. looped' = looped
    BY <2>1 DEF Removed
  <2>4. TypeOK'
    BY <2>2, <2>3 DEF TypeOK, Authorities
  <2>5. NoOrphan'
    BY <2>2, <2>3 DEF NoOrphan
  <2>6. ContainmentAcyclic'
    BY <2>2, <2>3, <2>4, NoNewContainment
  <2>7. ArchetypesAcyclic'
    BY <2>2, <2>4, NoNewArchetypes
  <2> QED BY <2>4, <2>5, <2>6, <2>7
<1> QED BY <1>1, <1>2, <1>3, <1>4, <1>5, StepShape

(* The inductive invariant holds throughout. *)
THEOREM Invariance == Spec => []IInv
<1>1. Init => IInv
  <2> SUFFICES ASSUME Init PROVE IInv
    OBVIOUS
  <2>1. Live = Players
    BY ConstantsAssumption, GoneAssumption DEF Init, Live, Object
  <2>2. TypeOK
    BY <2>1, ConstantsAssumption DEF Init, TypeOK, Object, Authorities
  <2>3. \A r \in Live : objects[r].loc = None /\ objects[r].arch = None
    BY <2>1, ConstantsAssumption DEF Init
  <2>4. None \notin Refs
    BY ConstantsAssumption
  <2> QED BY <2>2, <2>3, <2>4
          DEF IInv, NoOrphan, ContainmentAcyclic, ArchetypesAcyclic, Live
<1>2. IInv /\ [Next]_vars => IInv'
  <2> SUFFICES ASSUME IInv, [Next]_vars PROVE IInv'
    OBVIOUS
  <2>1. CASE Next
    BY <2>1, Step DEF Next
  <2>2. CASE UNCHANGED vars
    BY <2>2 DEF vars, IInv, TypeOK, NoOrphan, ContainmentAcyclic,
                ArchetypesAcyclic, Live
  <2> QED BY <2>1, <2>2
<1> QED BY <1>1, <1>2, PTL DEF Spec

(* Every object keeps its shape. *)
THEOREM TypeCorrect == Spec => []TypeOK
BY Invariance, PTL DEF IInv

(* No sequence of moves, removals and changes of archetype puts an object     *)
(* inside itself, or makes it delegate to itself in a circle that the bounded *)
(* walks could run around (Intent::Move, would_cycle_archetype); a creation   *)
(* puts one inside itself only from within what a destroyed object of the     *)
(* same dbref had left behind (Intent::Spawn).                                *)
THEOREM NothingInsideItself == Spec => []NoCircles
BY Invariance, PTL DEF IInv, NoCircles

(* No destroyed object is still delegated to. *)
THEOREM NothingOrphaned == Spec => []NoOrphan
BY Invariance, PTL DEF IInv

(* What a batch under a builder's authority leaves of the objects of others. *)
Untouched(r) ==
    /\ r \in Live'
    /\ objects'[r].owner = objects[r].owner
    /\ \/ objects'[r].own = objects[r].own /\ objects'[r].arch = objects[r].arch
       \/ objects[r].arch \notin Live' /\ objects'[r] = Detached(r)

(* An edit of another object, or one of the place alone, leaves r alone. *)
LEMMA EditUntouched ==
    ASSUME TypeOK, NEW t \in Live, NEW o \in Object, Becomes(t, o), NEW r \in Live,
           r # t \/ (o.owner = objects[t].owner /\ o.own = objects[t].own /\ o.arch = objects[t].arch)
    PROVE  Untouched(r)
BY BecomesLive, LiveObject DEF Untouched

(* A new object leaves the others alone. *)
LEMMA CreateUntouched ==
    ASSUME TypeOK, NEW n, NEW l, NEW ar, NEW o, NEW v, Create(n, l, ar, o, v), NEW r \in Live
    PROVE  Untouched(r)
<1>1. n # r /\ n \in Refs /\ r \in Refs
  BY DEF Create, TypeOK, Live
<1>2. objects'[r] = objects[r]
  BY <1>1 DEF Create, TypeOK
<1> QED BY <1>1, <1>2 DEF Untouched, Live

(* Every intent of a builder leaves alone an object that is not his. *)
LEMMA BuilderStep ==
    ASSUME TypeOK, NEW a \in Players, a # None, BatchStep(a), NEW r \in Live, objects[r].owner # a
    PROVE  Untouched(r)
<1>1. ASSUME NEW t \in Live, NEW o \in Object, Becomes(t, o), MayModify(a, t)
      PROVE  Untouched(r)
  <2>1. r # t
    BY <1>1 DEF MayModify
  <2> QED BY <1>1, <2>1, EditUntouched
<1>2. ASSUME NEW t \in Things, NEW v \in Traits \cup {None}, SetTrait(a, t, v) PROVE Untouched(r)
  <2> DEFINE o == [objects[t] EXCEPT !.own = v]
  <2>1. t \in Live /\ objects[t] \in Object
    BY LiveObject DEF Things
  <2>2. o \in Object
    BY <2>1 DEF Object
  <2>3. MayModify(a, t) /\ Becomes(t, o)
    BY <1>2, <2>1, <2>2 DEF SetTrait, Becomes
  <2> QED BY <1>1, <2>1, <2>2, <2>3
<1>3. ASSUME NEW t \in Live, NEW d \in Live, Move(t, d) PROVE Untouched(r)
  <2> DEFINE o == [objects[t] EXCEPT !.loc = d]
  <2>1. objects[t] \in Object /\ d \in Refs
    BY LiveObject
  <2>2. /\ o \in Object /\ o.owner = objects[t].owner
        /\ o.own = objects[t].own /\ o.arch = objects[t].arch
    BY <2>1 DEF Object
  <2>3. Becomes(t, o)
    BY <1>3, <2>1, <2>2 DEF Move, Becomes
  <2> HIDE DEF o
  <2> QED BY <2>2, <2>3, EditUntouched
<1>4. ASSUME NEW n, NEW l, NEW o, NEW ar, Spawn(a, n, l, o, ar) PROVE Untouched(r)
  <2>1. Create(n, l, ar, o, None)
    BY <1>4 DEF Spawn
  <2> QED BY <2>1, CreateUntouched
<1>5. ASSUME NEW n, NEW s, NEW l, NEW o, Clone(a, n, s, l, o) PROVE Untouched(r)
  <2> DEFINE at == IF l = None THEN objects[s].loc ELSE l
             p == IF o = None THEN a ELSE o
             ar == objects[s].arch
             v == objects[s].own
  <2>1. Create(n, at, ar, p, v)
    BY <1>5 DEF Clone
  <2> HIDE DEF at, p, ar, v
  <2> QED BY <2>1, CreateUntouched
<1>6. ASSUME NEW n, NEW s, CreateExit(a, n, s) PROVE Untouched(r)
  <2>1. Create(n, s, None, None, None)
    BY <1>6 DEF CreateExit
  <2> QED BY <2>1, CreateUntouched
<1>7. ASSUME NEW t \in Things, NEW cascade \in BOOLEAN, Destroy(a, t, cascade) PROVE Untouched(r)
  <2>1. t \in Live /\ MayModify(a, t) /\ objects' = AfterDestroy(t) /\ looped' = looped
    BY <1>7 DEF Destroy, Things
  <2>2. r # t /\ r \in Refs /\ t \in Refs
    BY <2>1 DEF MayModify, Live
  <2>3. Live' = Live \ {t}
    BY <2>1, RemovedLive DEF Removed
  <2>4. objects'[r] = IF objects[r].arch = t THEN Detached(r) ELSE objects[r]
    BY <2>1, <2>2 DEF AfterDestroy, Instances
  <2>5. Detached(r).owner = objects[r].owner
    BY DetachedType
  <2> QED BY <2>2, <2>3, <2>4, <2>5 DEF Untouched
<1>8. ASSUME NEW t \in Things, Detach(a, t) PROVE Untouched(r)
  <2>1. t \in Live /\ Detached(t) \in Object
    BY DetachedType DEF Things
  <2>2. MayModify(a, t) /\ Becomes(t, Detached(t))
    BY <1>8, <2>1 DEF Detach, Becomes
  <2> QED BY <1>1, <2>1, <2>2
<1>9. ASSUME NEW t \in Things, NEW ar \in Things \cup {None}, SetArchetype(a, t, ar) PROVE Untouched(r)
  <2> DEFINE o == [objects[t] EXCEPT !.arch = ar]
  <2>1. t \in Live /\ objects[t] \in Object /\ ar \in Refs \cup {None}
    BY LiveObject DEF Things, Live
  <2>2. o \in Object
    BY <2>1 DEF Object
  <2>3. MayModify(a, t) /\ Becomes(t, o)
    BY <1>9, <2>1, <2>2 DEF SetArchetype, Becomes
  <2> QED BY <1>1, <2>1, <2>2, <2>3
<1>10. ASSUME NEW t \in Things, NEW p \in Players, SetOwner(a, t, p) PROVE Untouched(r)
  <2> DEFINE o == [objects[t] EXCEPT !.owner = p]
  <2>1. t \in Live /\ objects[t] \in Object
    BY LiveObject DEF Things
  <2>2. o \in Object
    BY <2>1 DEF Object
  <2>3. MayModify(a, t) /\ Becomes(t, o)
    BY <1>10, <2>1, <2>2 DEF SetOwner, Becomes
  <2> QED BY <1>1, <2>1, <2>2, <2>3
<1> QED BY <1>2, <1>3, <1>4, <1>5, <1>6, <1>7, <1>8, <1>9, <1>10 DEF BatchStep

(* A builder's batch leaves alone what he does not own, for every number of   *)
(* objects, owners and steps.                                                 *)
THEOREM BuildersKeepToTheirOwn == Spec => OthersUntouched
<1>1. TypeOK /\ [Next]_vars =>
        [by' # None => \A r \in Live : objects[r].owner # by' => Untouched(r)]_vars
  <2> SUFFICES ASSUME TypeOK, Next, by' # None, NEW r \in Live, objects[r].owner # by'
               PROVE  Untouched(r)
    OBVIOUS
  <2>1. PICK a \in Authorities : BatchStep(a) /\ by' = a
    BY DEF Next
  <2>2. a \in Players
    BY <2>1 DEF Authorities
  <2> QED BY <2>1, <2>2, BuilderStep
<1> QED BY <1>1, TypeCorrect, PTL DEF Spec, OthersUntouched, Untouched

(* Only a step that asked for the quota makes an object, and makes one. *)
LEMMA Growth ==
    ASSUME TypeOK, NEW a \in Authorities, BatchStep(a)
    PROVE  Live' \subseteq Live \/ (~AtQuota(a) /\ \E n \in Refs : Live' \subseteq Live \cup {n})
<1>1. ASSUME NEW n, NEW l, NEW ar, NEW o, NEW v, Create(n, l, ar, o, v)
      PROVE  n \in Refs /\ Live' \subseteq Live \cup {n}
  BY <1>1 DEF Create, TypeOK, Live
<1>2. ASSUME NEW n, NEW l, NEW o, NEW ar, Spawn(a, n, l, o, ar)
      PROVE  ~AtQuota(a) /\ \E m \in Refs : Live' \subseteq Live \cup {m}
  <2>1. ~AtQuota(a) /\ Create(n, l, ar, o, None)
    BY <1>2 DEF Spawn
  <2> QED BY <1>1, <2>1
<1>3. ASSUME NEW n, NEW s, NEW l, NEW o, Clone(a, n, s, l, o)
      PROVE  ~AtQuota(a) /\ \E m \in Refs : Live' \subseteq Live \cup {m}
  <2> DEFINE at == IF l = None THEN objects[s].loc ELSE l
             p == IF o = None THEN a ELSE o
             ar == objects[s].arch
             v == objects[s].own
  <2>1. ~AtQuota(a) /\ Create(n, at, ar, p, v)
    BY <1>3 DEF Clone
  <2> HIDE DEF at, p, ar, v
  <2> QED BY <1>1, <2>1
<1>4. ASSUME NEW n, NEW s, CreateExit(a, n, s)
      PROVE  ~AtQuota(a) /\ \E m \in Refs : Live' \subseteq Live \cup {m}
  <2>1. ~AtQuota(a) /\ Create(n, s, None, None, None)
    BY <1>4 DEF CreateExit
  <2> QED BY <1>1, <2>1
<1>5. ASSUME NEW t \in Live, \A r \in Refs \ {t} : objects'[r] = objects[r]
      PROVE  Live' \subseteq Live
  BY <1>5 DEF Live
<1>6. ASSUME NEW t \in Things, NEW v \in Traits \cup {None}, SetTrait(a, t, v) PROVE Live' \subseteq Live
  BY <1>5, <1>6 DEF SetTrait, TypeOK
<1>7. ASSUME NEW t \in Live, NEW d \in Live, Move(t, d) PROVE Live' \subseteq Live
  BY <1>5, <1>7 DEF Move, TypeOK
<1>8. ASSUME NEW t \in Things, NEW cascade \in BOOLEAN, Destroy(a, t, cascade) PROVE Live' \subseteq Live
  <2>1. t \in Live /\ Removed(t)
    BY <1>8 DEF Destroy, Removed, Things
  <2> QED BY <2>1, RemovedLive
<1>9. ASSUME NEW t \in Things, Detach(a, t) PROVE Live' \subseteq Live
  BY <1>5, <1>9 DEF Detach, TypeOK
<1>10. ASSUME NEW t \in Things, NEW ar \in Things \cup {None}, SetArchetype(a, t, ar) PROVE Live' \subseteq Live
  BY <1>5, <1>10 DEF SetArchetype, TypeOK
<1>11. ASSUME NEW t \in Things, NEW p \in Players, SetOwner(a, t, p) PROVE Live' \subseteq Live
  BY <1>5, <1>11 DEF SetOwner, TypeOK
<1> QED BY <1>2, <1>3, <1>4, <1>6, <1>7, <1>8, <1>9, <1>10, <1>11 DEF BatchStep

(* A builder's own batch never takes him beyond his quota, whatever the       *)
(* number of objects and whoever else gives him some.                         *)
THEOREM BuildersKeepToTheirQuota == Spec => OwnQuota
<1>1. TypeOK /\ [Next]_vars =>
        [by' # None /\ ~(OwnedBy(by)' \subseteq OwnedBy(by'))
           => Cardinality(OwnedBy(by)') <= OwnerQuota]_vars
  <2> SUFFICES ASSUME TypeOK, Next, by' # None, ~(OwnedBy(by)' \subseteq OwnedBy(by'))
               PROVE  Cardinality(OwnedBy(by)') <= OwnerQuota
    OBVIOUS
  <2>1. PICK a \in Authorities : BatchStep(a) /\ by' = a
    BY DEF Next
  <2> DEFINE Old == OwnedBy(by')
             New == OwnedBy(by)'
  <2>2. /\ Old = {r \in Live : objects[r].owner = a}
        /\ New = {r \in Live' : objects'[r].owner = a}
    BY <2>1 DEF OwnedBy
  <2>3. New \cap Live \subseteq Old
    <3>1. a \in Players
      BY <2>1 DEF Authorities
    <3>2. ASSUME NEW r \in Live, objects[r].owner # a PROVE objects'[r].owner # a
      BY <2>1, <3>1, <3>2, BuilderStep DEF Untouched
    <3> QED BY <2>2, <3>2
  <2>4. New \subseteq Live'
    BY <2>2
  <2> HIDE DEF Old, New
  <2>5. ~(New \subseteq Old)
    BY DEF Old, New
  <2>6. ~AtQuota(a) /\ \E n \in Refs : Live' \subseteq Live \cup {n}
    BY <2>1, <2>3, <2>4, <2>5, Growth
  <2>7. PICK n \in Refs : New \subseteq Old \cup {n}
    BY <2>3, <2>4, <2>6
  <2>8. Cardinality(Old) < OwnerQuota /\ IsFiniteSet(Old) /\ Cardinality(Old) \in Nat
    <3>1. IsFiniteSet(Old)
      BY <2>2, ConstantsAssumption, FS_Subset DEF Live
    <3>2. Cardinality(Old) \in Nat
      BY <3>1, FS_CardinalityType
    <3>3. ~(Cardinality(Old) >= OwnerQuota)
      BY <2>1, <2>6 DEF AtQuota, Old
    <3> QED BY <3>1, <3>2, <3>3, ConstantsAssumption
  <2>9. IsFiniteSet(Old \cup {n}) /\ Cardinality(Old \cup {n}) \in Nat
        /\ Cardinality(Old \cup {n}) <= OwnerQuota
    <3>1. IsFiniteSet(Old \cup {n})
          /\ Cardinality(Old \cup {n}) = IF n \in Old THEN Cardinality(Old) ELSE Cardinality(Old) + 1
      BY <2>8, FS_AddElement
    <3> QED BY <2>8, <3>1, ConstantsAssumption
  <2>10. Cardinality(New) <= Cardinality(Old \cup {n}) /\ Cardinality(New) \in Nat
    BY <2>7, <2>9, FS_Subset, FS_CardinalityType
  <2>11. Cardinality(New) <= OwnerQuota
    BY <2>9, <2>10, ConstantsAssumption
  <2> QED BY <2>11 DEF New
<1> QED BY <1>1, TypeCorrect, PTL DEF Spec, OwnQuota


-----------------------------------------------------------------------------
(* What an object resolves to, without the functions that walk. *)
Reach == MaxArchetypeDepth - 1
Walks(r) ==
    LET w == ArchetypeWalk(r) IN
    /\ w[0] = r
    /\ \A i \in 0..Reach : w[i] \in Refs \cup {None}
    /\ \A i \in 1..Reach : w[i] = ArchetypeOf(w[i - 1])
ResolvesNearest(r) ==
    LET w == ArchetypeWalk(r) IN
    /\ \A i \in 0..Reach : Defines(w[i]) /\ (\A j \in 0..(i - 1) : ~Defines(w[j]))
         => Resolved(r) = objects[w[i]].own
    /\ (\A i \in 0..Reach : ~Defines(w[i])) => Resolved(r) = None

LEMMA WalkKnown == TypeOK => \A r \in Refs : Walks(r)
BY ArchetypeWalkSteps DEF Walks, Reach

(* The nearest definition is the one that counts, and there is only one. *)
LEMMA NearestKnown == TypeOK => \A r \in Refs : ResolvesNearest(r)
<1> SUFFICES ASSUME TypeOK, NEW r \in Refs PROVE ResolvesNearest(r)
  OBVIOUS
<1> DEFINE w == ArchetypeWalk(r)
           Near(i) == Defines(w[i]) /\ \A j \in 0..(i - 1) : ~Defines(w[j])
           nearest == {i \in DOMAIN w : Near(i)}
           i0 == CHOOSE i \in nearest : TRUE
<1>1. Resolved(r) = IF nearest = {} THEN None ELSE objects[w[i0]].own
  BY DEF Resolved
<1>2. DOMAIN w = 0..Reach
  <2> DEFINE Is(f) == f = [i \in 0..Reach |-> IF i = 0 THEN r ELSE ArchetypeOf(f[i - 1])]
             v == [i \in 0..Reach |-> w[i]]
  <2>1. \A i \in 0..Reach : w[i] = IF i = 0 THEN r ELSE ArchetypeOf(w[i - 1])
    <3>1. Reach \in Nat
      BY ConstantsAssumption DEF Reach
    <3>2. w[0] = r /\ \A i \in 1..Reach : w[i] = ArchetypeOf(w[i - 1])
      BY ArchetypeWalkSteps DEF Reach
    <3> HIDE DEF w
    <3> QED BY <3>1, <3>2
  <2>2. Is(v)
    <3>1. Reach \in Nat
      BY ConstantsAssumption DEF Reach
    <3> HIDE DEF w
    <3>2. \A i \in 1..Reach : i - 1 \in 0..Reach
      BY <3>1
    <3>3. \A i \in 0..Reach : v[i] = IF i = 0 THEN r ELSE ArchetypeOf(v[i - 1])
      BY <2>1, <3>1, <3>2
    <3> QED BY <3>3
  <2>3. w = CHOOSE f : Is(f)
    BY DEF ArchetypeWalk, Reach
  <2>4. Is(w)
    BY <2>2, <2>3
  <2> HIDE DEF w
  <2> QED BY <2>4
<1>3. ASSUME NEW i \in 0..Reach, Near(i) PROVE Resolved(r) = objects[w[i]].own
  <2>1. i \in nearest
    BY <1>2, <1>3
  <2>2. i0 \in nearest
    BY <2>1
  <2>3. i0 \in 0..Reach /\ Near(i0)
    BY <1>2, <2>2
  <2>4. i = i0
    <3> HIDE DEF w, i0
    <3> QED BY <1>3, <2>3
  <2> QED BY <1>1, <2>1, <2>4
<1>4. ASSUME \A i \in 0..Reach : ~Defines(w[i]) PROVE Resolved(r) = None
  <2>1. nearest = {}
    BY <1>2, <1>4
  <2> QED BY <1>1, <2>1
<1> QED BY <1>3, <1>4 DEF ResolvesNearest

(* What holds at the start of an interval and passes from each to the next    *)
(* holds on all of it.                                                        *)
LEMMA Upward ==
    ASSUME NEW m \in Nat, NEW n \in Nat, NEW S, m \in S,
           \A i \in (m + 1)..n : i - 1 \in S => i \in S
    PROVE  \A i \in m..n : i \in S
<1> DEFINE T == {i \in m..n : i \notin S}
<1> SUFFICES ASSUME T # {} PROVE FALSE
  OBVIOUS
<1>1. PICK i \in T : \A j \in T : i <= j
  <2>1. T \in SUBSET Nat
    OBVIOUS
  <2> HIDE DEF T
  <2> QED BY <2>1, Least
<1>2. i \in (m + 1)..n /\ i - 1 \in m..n
  OBVIOUS
<1>3. i - 1 \in S
  BY <1>1, <1>2
<1> QED BY <1>2, <1>3

(* A removal changes what its instances delegate to and define, and nothing   *)
(* else of the living.                                                        *)
LEMMA RemovedEffects ==
    ASSUME TypeOK, NEW t \in Live, Removed(t)
    PROVE  /\ \A x \in (Refs \cup {None}) \ {t} : x \notin Instances(t) =>
                 /\ ArchetypeOf(x)' = ArchetypeOf(x) /\ (Defines(x)' <=> Defines(x))
                 /\ Defines(x) => objects'[x].own = objects[x].own
           /\ \A x \in Instances(t) \ {t} :
                 /\ ArchetypeOf(x)' = None /\ (Defines(x)' <=> Resolved(x) # None)
                 /\ objects'[x].own = Resolved(x)
<1>1. Live' = Live \ {t} /\ None \notin Live
  BY RemovedLive, ConstantsAssumption DEF Live
<1>2. ASSUME NEW x \in Live \ {t}
      PROVE  objects'[x] = IF x \in Instances(t) THEN Detached(x) ELSE objects[x]
  BY DEF Removed, AfterDestroy, Live
<1>3. ASSUME NEW x \in (Refs \cup {None}) \ {t}, x \notin Instances(t)
      PROVE  /\ ArchetypeOf(x)' = ArchetypeOf(x) /\ (Defines(x)' <=> Defines(x))
             /\ Defines(x) => objects'[x].own = objects[x].own
  BY <1>1, <1>2, <1>3 DEF ArchetypeOf, Defines
<1>4. ASSUME NEW x \in Instances(t) \ {t}
      PROVE  /\ ArchetypeOf(x)' = None /\ (Defines(x)' <=> Resolved(x) # None)
             /\ objects'[x].own = Resolved(x)
  <2>1. x \in Live \ {t} /\ objects[x] \in Object
    BY LiveObject DEF Instances
  <2>2. objects'[x] = Detached(x)
    BY <1>2, <2>1
  <2>3. Detached(x).own = Resolved(x) /\ Detached(x).arch = None
    BY <2>1 DEF Detached, Object
  <2> QED BY <1>1, <2>1, <2>2, <2>3 DEF ArchetypeOf, Defines
<1> QED BY <1>3, <1>4

(* An object whose line its walk sees whole resolves as before when something *)
(* above it goes.                                                             *)
LEMMA RemovalKeepsResolved ==
    ASSUME TypeOK, \A x \in Refs : Walks(x) /\ ResolvesNearest(x),
           NEW t \in Live, Removed(t), NEW r \in Live \ {t}, SeenWhole(r),
           Walks(r)', ResolvesNearest(r)'
    PROVE  Resolved(r)' = Resolved(r)
<1> DEFINE M == Reach
           B == Refs \cup {None}
<1>1. M \in Nat /\ M = MaxArchetypeDepth - 1
  BY ConstantsAssumption DEF Reach
<1>2. r \in Refs /\ t \in Refs /\ None # t /\ None \notin Live
  BY ConstantsAssumption DEF Live
<1>3. PICK W : W = ArchetypeWalk(r)
  OBVIOUS
<1>4. PICK V : V = ArchetypeWalk(r)'
  OBVIOUS
<1>5. /\ W[0] = r
      /\ \A i \in 0..M : W[i] \in B
      /\ \A i \in 1..M : W[i] = ArchetypeOf(W[i - 1])
  BY <1>2, <1>3 DEF Walks
<1>6. /\ V[0] = r
      /\ \A i \in 1..M : V[i] = ArchetypeOf(V[i - 1])'
  BY <1>4 DEF Walks
<1>7. /\ \A i \in 0..M : Defines(W[i]) /\ (\A j \in 0..(i - 1) : ~Defines(W[j]))
           => Resolved(r) = objects[W[i]].own
      /\ (\A i \in 0..M : ~Defines(W[i])) => Resolved(r) = None
  BY <1>2, <1>3 DEF ResolvesNearest
<1>8. /\ \A i \in 0..M : Defines(V[i])' /\ (\A j \in 0..(i - 1) : ~Defines(V[j])')
           => Resolved(r)' = objects'[V[i]].own
      /\ (\A i \in 0..M : ~Defines(V[i])') => Resolved(r)' = None
  BY <1>4 DEF ResolvesNearest
<1>9. /\ \A x \in B \ {t} : x \notin Instances(t) =>
            /\ ArchetypeOf(x)' = ArchetypeOf(x) /\ (Defines(x)' <=> Defines(x))
            /\ Defines(x) => objects'[x].own = objects[x].own
      /\ \A x \in Instances(t) \ {t} :
            /\ ArchetypeOf(x)' = None /\ (Defines(x)' <=> Resolved(x) # None)
            /\ objects'[x].own = Resolved(x)
  BY RemovedEffects
<1>10. ArchetypeOf(W[M]) = None
  BY <1>1, <1>3 DEF SeenWhole
<1>11. ArchetypeOf(None) = None /\ ~Defines(None) /\ ArchetypeOf(None)' = None /\ ~Defines(None)'
  <2>1. None \notin Live'
    BY ConstantsAssumption DEF Live
  <2> QED BY <1>2, <2>1 DEF ArchetypeOf, Defines
<1> HIDE DEF M
(* Up to its first instance of t the line is what it was. *)
<1>12. ASSUME NEW k \in 0..M, \A i \in 0..(k - 1) : W[i] \notin Instances(t)
       PROVE  \A i \in 0..k : V[i] = W[i] /\ W[i] # t
  <2> DEFINE S == {i \in 0..k : V[i] = W[i] /\ W[i] # t}
  <2>1. 0 \in S
    BY <1>5, <1>6
  <2>2. ASSUME NEW i \in 1..k, i - 1 \in S PROVE i \in S
    <3>1. i - 1 \in 0..(k - 1) /\ i \in 1..M /\ i - 1 \in 0..M /\ k \in Nat
      BY <1>1
    <3>2. W[i - 1] \in B \ {t} /\ W[i - 1] \notin Instances(t) /\ V[i - 1] = W[i - 1]
      BY <1>5, <1>12, <2>2, <3>1
    <3>3. V[i] = W[i]
      BY <1>5, <1>6, <1>9, <3>1, <3>2
    <3>4. W[i] # t
      BY <1>2, <1>5, <3>1, <3>2 DEF ArchetypeOf, Instances
    <3> QED BY <3>3, <3>4
  <2> HIDE DEF S
  <2>3. \A i \in (0 + 1)..k : i - 1 \in S => i \in S
    BY <2>2
  <2>4. 0 \in Nat /\ k \in Nat
    BY <1>1
  <2>5. \A i \in 0..k : i \in S
    BY <2>1, <2>3, <2>4, Upward
  <2> QED BY <2>5 DEF S
<1>13. CASE \A i \in 0..M : W[i] \notin Instances(t)
  <2>1. \A i \in 0..M : V[i] = W[i] /\ W[i] # t
    BY <1>1, <1>12, <1>13
  <2>2. \A i \in 0..M : /\ Defines(V[i])' <=> Defines(W[i])
                        /\ Defines(W[i]) => objects'[V[i]].own = objects[W[i]].own
    BY <1>5, <1>9, <1>13, <2>1
  <2>3. CASE \A i \in 0..M : ~Defines(W[i])
    BY <1>7, <1>8, <2>2, <2>3
  <2>4. CASE \E i \in 0..M : Defines(W[i])
    <3> DEFINE D == {i \in 0..M : Defines(W[i])}
    <3>1. PICK i \in D : \A j \in D : i <= j
      <4>1. D \in SUBSET Nat /\ D # {}
        BY <2>4
      <4> HIDE DEF D
      <4> QED BY <4>1, Least
    <3>2. i \in 0..M /\ Defines(W[i]) /\ \A j \in 0..(i - 1) : j \in 0..M /\ ~Defines(W[j])
      BY <1>1, <3>1
    <3>3. Resolved(r) = objects[W[i]].own
      BY <1>7, <3>2
    <3>4. Resolved(r)' = objects'[V[i]].own
      BY <1>8, <2>2, <3>2
    <3> QED BY <2>2, <3>2, <3>3, <3>4
  <2> QED BY <2>3, <2>4
<1>14. CASE \E i \in 0..M : W[i] \in Instances(t)
  <2> DEFINE K == {i \in 0..M : W[i] \in Instances(t)}
  <2>1. PICK k \in K : \A j \in K : k <= j
    <3>1. K \in SUBSET Nat /\ K # {}
      BY <1>14
    <3> HIDE DEF K
    <3> QED BY <3>1, Least
  <2>2. k \in 0..M /\ W[k] \in Instances(t) /\ \A j \in 0..(k - 1) : j \in 0..M /\ W[j] \notin Instances(t)
    BY <1>1, <2>1
  <2>3. \A i \in 0..k : V[i] = W[i] /\ W[i] # t
    BY <1>12, <2>2
  <2>4. \A i \in 0..(k - 1) : /\ Defines(V[i])' <=> Defines(W[i])
                              /\ Defines(W[i]) => objects'[V[i]].own = objects[W[i]].own
    <3>1. \A i \in 0..(k - 1) : i \in 0..k
      BY <1>1, <2>2
    <3> QED BY <1>5, <1>9, <2>2, <2>3, <3>1
  <2>5. CASE \E i \in 0..(k - 1) : Defines(W[i])
    <3> DEFINE D == {i \in 0..(k - 1) : Defines(W[i])}
    <3>1. PICK i \in D : \A j \in D : i <= j
      <4>1. D \in SUBSET Nat /\ D # {}
        BY <2>2, <2>5
      <4> HIDE DEF D
      <4> QED BY <4>1, Least
    <3>2. i \in 0..M /\ i \in 0..(k - 1) /\ Defines(W[i])
          /\ \A j \in 0..(i - 1) : j \in 0..(k - 1) /\ ~Defines(W[j])
      BY <1>1, <2>2, <3>1
    <3>3. Resolved(r) = objects[W[i]].own
      BY <1>7, <3>2
    <3>4. Resolved(r)' = objects'[V[i]].own
      BY <1>8, <2>4, <3>2
    <3> QED BY <2>4, <3>2, <3>3, <3>4
  <2>6. CASE \A i \in 0..(k - 1) : ~Defines(W[i])
    <3>1. PICK q : q = W[k]
      OBVIOUS
    <3>2. /\ q \in Instances(t) \ {t} /\ q \in Refs /\ V[k] = q /\ k \in Nat
      BY <1>1, <2>2, <2>3, <3>1 DEF Instances, Live
    <3>3. /\ ArchetypeOf(q)' = None /\ (Defines(q)' <=> Resolved(q) # None)
          /\ objects'[q].own = Resolved(q)
      BY <1>9, <3>2
    (* Above the instance nothing is left. *)
    <3>4. \A i \in (k + 1)..M : V[i] = None
      <4> DEFINE S == {i \in (k + 1)..M : V[i] = None}
      <4>1. ASSUME k + 1 \in 0..M PROVE k + 1 \in S
        <5>1. k + 1 \in 1..M /\ (k + 1) - 1 = k
          BY <1>1, <3>2, <4>1
        <5>2. V[k + 1] = None
          BY <1>6, <3>2, <3>3, <5>1
        <5> QED BY <3>2, <4>1, <5>2
      <4>2. ASSUME NEW i \in ((k + 1) + 1)..M, i - 1 \in S PROVE i \in S
        <5>1. i \in 1..M /\ i \in (k + 1)..M
          BY <1>1, <3>2
        <5> QED BY <1>6, <1>11, <4>2, <5>1
      <4>3. CASE k + 1 \in 0..M
        <5> DEFINE m == k + 1
        <5>1. m \in Nat /\ M \in Nat /\ m \in S /\ \A i \in (m + 1)..M : i - 1 \in S => i \in S
          BY <1>1, <3>2, <4>1, <4>2, <4>3
        <5> HIDE DEF S, m
        <5>2. \A i \in m..M : i \in S
          BY <5>1, Upward
        <5> QED BY <5>2 DEF S, m
      <4>4. CASE k + 1 \notin 0..M
        BY <1>1, <3>2, <4>4
      <4> QED BY <4>3, <4>4
    <3>5. Resolved(r)' = Resolved(q)
      <4>1. \A j \in 0..(k - 1) : ~Defines(V[j])'
        BY <2>4, <2>6
      <4>2. CASE Resolved(q) # None
        <5>1. Defines(V[k])'
          BY <3>2, <3>3, <4>2
        <5> QED BY <1>8, <2>2, <3>2, <3>3, <4>1, <5>1
      <4>3. CASE Resolved(q) = None
        <5>1. ~Defines(V[k])'
          BY <3>2, <3>3, <4>3
        <5>2. \A i \in 0..M : i \in 0..(k - 1) \/ i = k \/ i \in (k + 1)..M
          BY <1>1, <3>2
        <5>3. \A i \in 0..M : ~Defines(V[i])'
          BY <1>11, <3>4, <4>1, <5>1, <5>2
        <5> QED BY <1>8, <4>3, <5>3
      <4> QED BY <4>2, <4>3
    (* The instance's own walk goes on as the object's did, and then further: *)
    (* there is nothing there, as the object's walk has seen the end.         *)
    <3>6. PICK X : X = ArchetypeWalk(q)
      OBVIOUS
    <3>7. /\ X[0] = q
          /\ \A i \in 1..M : X[i] = ArchetypeOf(X[i - 1])
          /\ \A i \in 0..M : Defines(X[i]) /\ (\A j \in 0..(i - 1) : ~Defines(X[j]))
               => Resolved(q) = objects[X[i]].own
          /\ (\A i \in 0..M : ~Defines(X[i])) => Resolved(q) = None
      BY <3>2, <3>6 DEF Walks, ResolvesNearest, M
    <3>8. \A i \in 0..(M - k) : X[i] = W[k + i]
      <4> DEFINE S == {i \in 0..(M - k) : X[i] = W[k + i]}
      <4>1. 0 \in S
        BY <1>1, <2>2, <3>1, <3>2, <3>7
      <4>2. ASSUME NEW i \in 1..(M - k), i - 1 \in S PROVE i \in S
        <5>1. i \in 1..M /\ k + i \in 1..M /\ k + (i - 1) = (k + i) - 1 /\ i \in 0..(M - k)
          BY <1>1, <2>2, <3>2
        <5>2. X[i] = ArchetypeOf(X[i - 1]) /\ X[i - 1] = W[(k + i) - 1]
          BY <3>7, <4>2, <5>1
        <5> QED BY <1>5, <5>1, <5>2
      <4> DEFINE n == M - k
      <4>3. 0 \in Nat /\ n \in Nat /\ \A i \in (0 + 1)..n : i - 1 \in S => i \in S
        BY <1>1, <2>2, <3>2, <4>2
      <4> HIDE DEF S, n
      <4>4. \A i \in 0..n : i \in S
        BY <4>1, <4>3, Upward
      <4> QED BY <4>4 DEF S, n
    <3>9. \A i \in (M - k + 1)..M : X[i] = None
      <4> DEFINE m == M - k + 1
                 S == {i \in m..M : X[i] = None}
      <4>0. m \in Nat /\ M \in Nat /\ m - 1 = M - k /\ k + (m - 1) = M /\ m - 1 \in 0..(M - k) /\ m \in 1..(M + 1)
        BY <1>1, <2>2, <3>2
      <4>1. ASSUME m \in 1..M PROVE m \in S
        <5>1. X[m - 1] = W[M]
          BY <3>8, <4>0
        <5> QED BY <1>10, <3>7, <4>0, <4>1, <5>1
      <4>2. ASSUME NEW i \in (m + 1)..M, i - 1 \in S PROVE i \in S
        BY <1>11, <3>7, <4>0, <4>2
      <4> HIDE DEF m
      <4>3. CASE m \in 1..M
        <5>1. m \in S /\ \A i \in (m + 1)..M : i - 1 \in S => i \in S
          BY <4>1, <4>2, <4>3
        <5> HIDE DEF S
        <5>2. \A i \in m..M : i \in S
          BY <4>0, <5>1, Upward
        <5> QED BY <5>2 DEF S, m
      <4>4. CASE m \notin 1..M
        <5>1. \A i \in m..M : FALSE
          BY <1>1, <4>0, <4>4
        <5> QED BY <5>1 DEF m
      <4> QED BY <4>3, <4>4
    <3>10. Resolved(r) = Resolved(q)
      <4>1. CASE \A i \in 0..M : ~Defines(W[i])
        <5>1. ASSUME NEW i \in 0..M PROVE ~Defines(X[i])
          <6>1. CASE i \in 0..(M - k)
            <7>1. k + i \in 0..M
              BY <1>1, <2>2, <3>2, <6>1
            <7> QED BY <3>8, <4>1, <6>1, <7>1
          <6>2. CASE i \in (M - k + 1)..M
            BY <1>11, <3>9, <6>2
          <6> QED BY <1>1, <2>2, <3>2, <6>1, <6>2
        <5> QED BY <1>7, <3>7, <4>1, <5>1
      <4>2. CASE \E i \in 0..M : Defines(W[i])
        <5> DEFINE D == {i \in 0..M : Defines(W[i])}
        <5>1. PICK i \in D : \A j \in D : i <= j
          <6>1. D \in SUBSET Nat /\ D # {}
            BY <4>2
          <6> HIDE DEF D
          <6> QED BY <6>1, Least
        <5>2. i \in 0..M /\ Defines(W[i]) /\ \A j \in 0..(i - 1) : j \in 0..M /\ ~Defines(W[j])
          BY <1>1, <5>1
        <5>3. k <= i /\ i - k \in 0..(M - k) /\ i - k \in 0..M /\ k + (i - k) = i
          BY <1>1, <2>2, <2>6, <3>2, <5>2
        <5>4. X[i - k] = W[i]
          BY <3>8, <5>3
        <5>5. ASSUME NEW j \in 0..((i - k) - 1) PROVE ~Defines(X[j])
          <6>1. j \in 0..(M - k) /\ k + j \in 0..(i - 1)
            BY <1>1, <2>2, <3>2, <5>2, <5>3
          <6> QED BY <3>8, <5>2, <6>1
        <5>6. Resolved(q) = objects[X[i - k]].own
          <6> DEFINE l == i - k
          <6>1. l \in 0..M /\ Defines(X[l]) /\ \A j \in 0..(l - 1) : ~Defines(X[j])
            BY <5>2, <5>3, <5>4, <5>5
          <6> HIDE DEF l
          <6>2. Resolved(q) = objects[X[l]].own
            BY <3>7, <6>1
          <6> QED BY <6>2 DEF l
        <5>7. Resolved(r) = objects[W[i]].own
          BY <1>7, <5>2
        <5> QED BY <5>4, <5>6, <5>7
      <4> QED BY <4>1, <4>2
    <3> QED BY <3>5, <3>10
  <2> QED BY <2>5, <2>6
<1> QED BY <1>13, <1>14

(* No intent but a removal makes objects fewer. *)
LEMMA FewerRemoves ==
    ASSUME IInv, Next, Live' \subseteq Live, Live' # Live
    PROVE  \E t \in Live : Removed(t)
<1>1. TypeOK /\ NoOrphan
  BY DEF IInv
<1>2. PICK a \in Authorities : BatchStep(a)
  BY DEF Next
<1>3. ASSUME NEW t \in Live, NEW o \in Object, Becomes(t, o) PROVE FALSE
  BY <1>1, <1>3, BecomesLive, LiveObject
<1>4. ASSUME NEW r \in Refs, NEW o \in Object, Created(r, o) PROVE FALSE
  BY <1>1, <1>4, BecomesLive DEF Created, TypeOK
<1> QED BY <1>1, <1>2, <1>3, <1>4, StepShape DEF Edited, Placed, Redirected

Resolving == \A r \in Refs : Walks(r) /\ ResolvesNearest(r)

(* Destroying an archetype takes nothing from what delegates to it, directly  *)
(* or through others, for lines of every length that the walks see whole      *)
(* (Intent::Destroy with cascade, detach_object).                             *)
THEOREM NothingLosesBehaviour == Spec => CascadeKeepsBehaviour
<1>1. TypeOK => Resolving
  BY WalkKnown, NearestKnown DEF Resolving
<1>2. IInv => TypeOK
  BY DEF IInv
<1>3. IInv /\ Resolving /\ Resolving' /\ [Next]_vars =>
        [Live' \subseteq Live /\ Live' # Live =>
           \A r \in Live' : SeenWhole(r) => Resolved(r)' = Resolved(r)]_vars
  <2> SUFFICES ASSUME IInv, Resolving, Resolving', Next, Live' \subseteq Live, Live' # Live,
                      NEW r \in Live', SeenWhole(r)
               PROVE  Resolved(r)' = Resolved(r)
    OBVIOUS
  <2>1. PICK t \in Live : Removed(t)
    BY FewerRemoves
  <2>2. TypeOK /\ Live' = Live \ {t}
    BY <2>1, RemovedLive DEF IInv
  <2>3. Walks(r)' /\ ResolvesNearest(r)'
    BY <2>2 DEF Resolving, Live
  <2> QED BY <2>1, <2>2, <2>3, RemovalKeepsResolved DEF Resolving
<1> QED BY <1>1, <1>2, <1>3, Invariance, PTL DEF Spec, CascadeKeepsBehaviour
-----------------------------------------------------------------------------
(* What a thing is in, directly or not: whoever is in itself is in a circle   *)
(* of things that are each in another of them.                                *)
LEMMA AroundItself ==
    ASSUME NEW objs \in [Refs -> Object \cup {Gone}], NEW r \in Refs, r \in Around(objs, r)
    PROVE  \E D \in SUBSET {o \in Refs : objs[o] # Gone} :
              D # {} /\ \A o \in D : objs[o].loc \in D
<1> DEFINE N == Cardinality(Refs)
           A == SUBSET (Refs \cup {None})
           On == {o \in Refs : objs[o] # Gone}
           In(S) == {objs[o].loc : o \in {o \in Refs \cap S : objs[o] # Gone}}
           next == [S \in A |-> In({r} \cup S)]
           Is(f) == f = [i \in 1..N |-> IF i = 1 THEN In({r}) ELSE In({r} \cup f[i - 1])]
<1>1. N \in Nat \ {0}
  <2>1. N \in Nat
    BY ConstantsAssumption, FS_CardinalityType
  <2>2. N # 0
    BY ConstantsAssumption, FS_EmptySet
  <2> QED BY <2>1, <2>2
<1>2. \A o \in On : objs[o].loc \in Refs \cup {None}
  BY DEF Object
<1>3. next \in [A -> A]
  <2>1. \A S : In(S) \in A
    BY <1>2
  <2> HIDE DEF In, A
  <2> QED BY <2>1
<1>4. PICK f \in [0..N -> A] : f[0] = {} /\ \A i \in 1..N : f[i] = next[f[i - 1]]
  <2>1. {} \in A
    OBVIOUS
  <2> HIDE DEF next, A, N
  <2>2. Iterates(A, next, {}, N) # {}
    BY <1>1, <1>3, <2>1, IterateExists
  <2> QED BY <2>2 DEF Iterates
<1>5. \A i \in 1..N : f[i] = IF i = 1 THEN In({r}) ELSE In({r} \cup f[i - 1])
  <2> SUFFICES ASSUME NEW i \in 1..N
               PROVE  f[i] = IF i = 1 THEN In({r}) ELSE In({r} \cup f[i - 1])
    OBVIOUS
  <2>1. i - 1 \in 0..N
    BY <1>1
  <2>2. f[i - 1] \in A
    BY <2>1, <1>4
  <2> HIDE DEF In, A, N
  <2>3. f[i] = In({r} \cup f[i - 1])
    BY <1>4, <2>2
  <2>4. i = 1 => {r} \cup f[i - 1] = {r}
    BY <1>4
  <2>5. i = 1 => In({r} \cup f[i - 1]) = In({r})
    BY <2>4 DEF In
  <2> QED BY <2>3, <2>5
<1> DEFINE g == [i \in 1..N |-> f[i]]
<1>6. Is(g)
  <2> HIDE DEF In, N
  <2>1. ASSUME NEW i \in 1..N PROVE g[i] = IF i = 1 THEN In({r}) ELSE In({r} \cup g[i - 1])
    <3>1. i # 1 => i - 1 \in 1..N
      BY <1>1
    <3> QED BY <1>5, <3>1
  <2> QED BY <2>1
<1> DEFINE U == CHOOSE w : Is(w)
<1>7. Around(objs, r) = U[N]
  BY DEF Around
<1>8. Is(U)
  BY <1>6
<1>9. \A i \in 1..N : U[i] = IF i = 1 THEN In({r}) ELSE In({r} \cup U[i - 1])
  <2> HIDE DEF U, In, N
  <2> QED BY <1>8
<1> DEFINE Way(x) == \E D \in SUBSET On : r \in D /\ \A o \in D : objs[o].loc \in D \cup {x}
           T == {i \in 1..N : \E x \in U[i] : ~Way(x)}
<1>10. T = {}
  <2> SUFFICES ASSUME T # {} PROVE FALSE
    OBVIOUS
  <2> HIDE DEF U, N
  <2>1. PICK i \in T : \A j \in T : i <= j
    <3>1. T \in SUBSET Nat
      BY <1>1
    <3> HIDE DEF T
    <3> QED BY <3>1, Least
  <2>2. i \in 1..N
    OBVIOUS
  <2>3. PICK x \in U[i] : ~Way(x)
    OBVIOUS
  <2>4. ASSUME r \in On, x = objs[r].loc PROVE FALSE
    <3>1. {r} \in SUBSET On /\ r \in {r} /\ \A o \in {r} : objs[o].loc \in {r} \cup {x}
      BY <2>4
    <3> QED BY <2>3, <3>1
  <2>5. CASE i = 1
    <3>1. x \in In({r})
      BY <1>9, <2>2, <2>3, <2>5
    <3> QED BY <2>4, <3>1
  <2>6. CASE i # 1
    <3>1. i - 1 \in 1..N /\ i - 1 \notin T
      BY <1>1, <2>1, <2>2, <2>6
    <3>2. x \in In({r} \cup U[i - 1])
      BY <1>9, <2>2, <2>3, <2>6
    <3>3. PICK o \in On : x = objs[o].loc /\ o \in {r} \cup U[i - 1]
      BY <3>2
    <3>4. o \in U[i - 1]
      BY <2>4, <3>3
    <3>5. Way(o)
      BY <3>1, <3>4
    <3>6. PICK D \in SUBSET On : r \in D /\ \A q \in D : objs[q].loc \in D \cup {o}
      BY <3>5
    <3> DEFINE E == D \cup {o}
    <3>7. E \in SUBSET On /\ r \in E /\ \A q \in E : objs[q].loc \in E \cup {x}
      BY <3>3, <3>6
    <3> HIDE DEF E
    <3>8. Way(x)
      BY <3>7
    <3> QED BY <2>3, <3>8
  <2> QED BY <2>5, <2>6
<1>11. Way(r)
  <2> HIDE DEF U, Way, N
  <2>1. N \in 1..N
    BY <1>1
  <2> QED BY <1>7, <1>10, <2>1
<1>12. PICK D \in SUBSET On : r \in D /\ \A o \in D : objs[o].loc \in D \cup {r}
  BY <1>11
<1> QED BY <1>12

-----------------------------------------------------------------------------
(* The commands that move or destroy (CSpec).  What a command is about, and   *)
(* what it knows of it as long as nothing has meddled: the act relies on no   *)
(* more than that.                                                            *)
Here(p) == {p, objects[p].loc}

About(c) ==
    /\ c.verb \in {"get", "put", "drop"} => c.what \in Items
    /\ c.verb = "get" => c.dest = c.actor /\ c.box \in Items \cup {None}
    /\ c.verb = "put" => c.dest \in Containers /\ c.box = c.dest
    /\ c.verb = "drop" => c.box = None
    /\ c.verb = "go" => c.what = c.actor /\ c.dest \in Refs
    /\ c.verb = "destroy" => c.what \in Refs \ Players

AsFound(c) ==
    /\ c.verb \in {"get", "put", "drop"} => c.what \in Live
    /\ c.verb = "get" =>
         \/ c.box = None /\ objects[c.what].loc = objects[c.actor].loc
         \/ c.box \in Live /\ objects[c.what].loc = c.box /\ objects[c.box].loc \in Here(c.actor)
    /\ c.verb = "put" =>
         /\ c.dest \in Live /\ c.what # c.dest /\ ~Full(c.dest)
         /\ objects[c.what].loc \in Here(c.actor) /\ objects[c.dest].loc \in Here(c.actor)
    /\ c.verb = "drop" => objects[c.what].loc = c.actor /\ c.dest = objects[c.actor].loc
    /\ c.verb = "destroy" => Instances(c.what) = {} /\ ~Occupied(c.what)

Known(c) == ~c.acted => About(c) /\ (~c.meddled => AsFound(c))

(* The inductive invariant of the commands. *)
Steady ==
    /\ TypeOK /\ looped = {} /\ by = None /\ down \in BOOLEAN
    /\ Players \subseteq Live
    /\ \A r \in Rooms \cap Live : objects[r].loc = None
Books == calls \in Seq(Call \cup {Acted}) /\ \A i \in 1..Len(calls) : Known(calls[i])
CInv == Steady /\ Books

(* What the kinds of objects have to do with each other. *)
LEMMA Kinds ==
    /\ Rooms \subseteq Refs /\ Items \subseteq Refs /\ Players \subseteq Refs
    /\ Rooms \cap Players = {} /\ Items \cap Players = {} /\ Rooms \cap Items = {}
    /\ Containers \subseteq Items /\ Archetypes \subseteq Items /\ None \notin Refs
    /\ \A p \in Players : Followers[p] \subseteq Refs \ (Players \cup Rooms)
BY KindsAssumption, ConstantsAssumption

LEMMA CallFields ==
    ASSUME NEW c \in Call \cup {Acted}
    PROVE  /\ ~c.acted => c \in Call
           /\ c \in Call => /\ c.acted = FALSE /\ c.verb \in Verbs /\ c.actor \in Players
                            /\ c.what \in Refs /\ c.dest \in Refs \cup {None}
                            /\ c.box \in Refs \cup {None} /\ c.meddled \in BOOLEAN
<1>1. CASE c \in Call
  BY <1>1 DEF Call
<1>2. CASE c \in {Acted}
  <2>1. c.acted = TRUE
    BY <1>2 DEF Acted
  <2>2. c \notin Call
    BY <2>1 DEF Call
  <2> QED BY <2>1, <2>2
<1> QED BY <1>1, <1>2

(* Nothing is forgotten while no object changes. *)
LEMMA StillKnown ==
    ASSUME NEW c, UNCHANGED objects
    PROVE  (AsFound(c)' <=> AsFound(c)) /\ (About(c)' <=> About(c))
BY DEF AsFound, About, Here, Full, Occupied, Instances, Inside, Live

(* The innermost command and those under it. *)
LEMMA TopIsLast ==
    ASSUME Books, calls # <<>>
    PROVE  /\ Len(calls) \in Nat \ {0} /\ Top = calls[Len(calls)]
           /\ Top \in Call \cup {Acted} /\ Known(Top)
           /\ Under \in Seq(Call \cup {Acted}) /\ Len(Under) = Len(calls) - 1
           /\ \A i \in 1..Len(Under) : i \in 1..Len(calls) /\ Under[i] = calls[i]
<1> DEFINE A == Call \cup {Acted}
<1>1. calls \in Seq(A) /\ calls # <<>>
  BY DEF Books
<1> HIDE DEF A
<1>2. Len(calls) \in Nat \ {0} /\ Len(calls) \in 1..Len(calls) /\ calls[Len(calls)] \in A
  BY <1>1
<1>3. Known(Top)
  BY <1>2 DEF Books, Top
<1>4. /\ Under \in Seq(A) /\ Len(Under) = Len(calls) - 1
      /\ \A i \in 1..Len(Under) : i \in 1..Len(calls) /\ Under[i] = calls[i]
  <2> DEFINE n == Len(calls) - 1
  <2>1. n \in Int /\ n \in Nat /\ 1 \in Int /\ \A i \in 1..n : calls[i] \in A /\ i \in 1..Len(calls)
    BY <1>1, <1>2
  <2>2. Under = SubSeq(calls, 1, n)
    BY DEF Under
  <2> HIDE DEF n
  <2>3. /\ SubSeq(calls, 1, n) \in Seq(A)
        /\ Len(SubSeq(calls, 1, n)) = IF 1 <= n THEN n - 1 + 1 ELSE 0
        /\ \A i \in 1..(n - 1 + 1) : SubSeq(calls, 1, n)[i] = calls[1 + i - 1]
    BY <2>1, SubSeqProperties
  <2>4. Len(Under) = n /\ \A i \in 1..n : Under[i] = calls[i]
    BY <2>1, <2>2, <2>3
  <2> QED BY <2>1, <2>2, <2>3, <2>4 DEF n
<1> QED BY <1>2, <1>3, <1>4 DEF A, Top

(* Those under it come back to what they know if nothing changes. *)
LEMMA FewerCalls ==
    ASSUME CInv, calls # <<>>, calls' = Under, UNCHANGED <<objects, looped, by, down>>
    PROVE  CInv'
<1>1. Steady'
  BY DEF CInv, Steady, TypeOK, Live
<1>2. Under \in Seq(Call \cup {Acted})
      /\ \A i \in 1..Len(Under) : i \in 1..Len(calls) /\ Under[i] = calls[i]
  BY TopIsLast DEF CInv
<1>3. ASSUME NEW i \in 1..Len(calls') PROVE Known(calls[i])'
  <2>1. PICK c : c = calls'[i]
    OBVIOUS
  <2>2. Known(c)
    BY <1>2, <2>1 DEF CInv, Books
  <2> QED BY <2>1, <2>2, StillKnown DEF Known
<1> QED BY <1>1, <1>2, <1>3 DEF CInv, Books

(* A command that begins knows what it has found. *)
LEMMA OneMoreCall ==
    ASSUME CInv, NEW c \in Call, About(c), AsFound(c), calls' = Append(calls, c),
           UNCHANGED <<objects, looped, by, down>>
    PROVE  CInv'
<1> DEFINE A == Call \cup {Acted}
<1>1. Steady'
  BY DEF CInv, Steady, TypeOK, Live
<1>2. calls \in Seq(A) /\ c \in A
  BY DEF CInv, Books
<1> HIDE DEF A
<1>3. /\ calls' \in Seq(A) /\ Len(calls') = Len(calls) + 1
      /\ \A i \in 1..Len(calls') : calls'[i] = c \/ (i \in 1..Len(calls) /\ calls'[i] = calls[i])
  BY <1>2
<1>4. ASSUME NEW i \in 1..Len(calls') PROVE Known(calls[i])'
  <2>1. PICK d : d = calls'[i]
    OBVIOUS
  <2>2. Known(d)
    BY <1>3, <2>1 DEF CInv, Books, Known
  <2> QED BY <2>1, <2>2, StillKnown DEF Known
<1> QED BY <1>1, <1>3, <1>4 DEF CInv, Books, A

(* One whose world was meddled with knows only what it is about. *)
LEMMA MeddledCalls ==
    ASSUME NEW s \in Seq(Call \cup {Acted}), \A i \in 1..Len(s) : Known(s[i])
    PROVE  /\ Meddled(s) \in Seq(Call \cup {Acted}) /\ Len(Meddled(s)) = Len(s)
           /\ \A i \in 1..Len(s) : /\ Meddled(s)[i].acted = s[i].acted
                                   /\ ~s[i].acted => Meddled(s)[i].meddled /\ About(Meddled(s)[i])
<1> DEFINE A == Call \cup {Acted}
           m(i) == IF s[i].acted THEN s[i] ELSE [s[i] EXCEPT !.meddled = TRUE]
<1>1. Len(s) \in Nat /\ \A i \in 1..Len(s) : s[i] \in A
  OBVIOUS
<1>2. Meddled(s) = [i \in 1..Len(s) |-> m(i)]
  BY DEF Meddled
<1>3. ASSUME NEW i \in 1..Len(s)
      PROVE  /\ m(i) \in A /\ m(i).acted = s[i].acted
             /\ ~s[i].acted => m(i).meddled /\ About(m(i))
  <2>1. CASE s[i].acted
    BY <1>1, <2>1
  <2>2. CASE ~s[i].acted
    <3>1. s[i] \in Call /\ About(s[i])
      BY <1>1, <2>2, CallFields DEF Known
    <3>2. PICK c \in Call : c = s[i]
      BY <3>1
    <3>3. m(i) = [c EXCEPT !.meddled = TRUE]
      BY <2>2, <3>2
    <3>4. [c EXCEPT !.meddled = TRUE] \in Call
      BY DEF Call
    <3>5. [c EXCEPT !.meddled = TRUE].acted = c.acted /\ [c EXCEPT !.meddled = TRUE].meddled
      BY DEF Call
    <3>6. About([c EXCEPT !.meddled = TRUE])
      BY <3>1, <3>2 DEF About, Call
    <3> QED BY <3>2, <3>3, <3>4, <3>5, <3>6
  <2> QED BY <2>1, <2>2
<1> HIDE DEF m, A
<1>4. Meddled(s) \in Seq(A) /\ Len(Meddled(s)) = Len(s)
  BY <1>1, <1>2, <1>3
<1>5. \A i \in 1..Len(s) : Meddled(s)[i] = m(i)
  BY <1>2
<1> QED BY <1>3, <1>4, <1>5 DEF A

(* What is carried somewhere, and what no longer delegates. *)
LEMMA RelocatedObjects ==
    ASSUME TypeOK, NEW M \in SUBSET Refs, NEW d \in Refs \cup {None},
           objects' = Relocated(objects, M, d)
    PROVE  /\ objects' \in [Refs -> Object \cup {Gone}] /\ Live' = Live
           /\ \A r \in Live : /\ objects'[r].arch = objects[r].arch
                              /\ objects'[r].loc = IF r \in M THEN d ELSE objects[r].loc
<1> DEFINE new(r) == IF r \in M /\ objects[r] # Gone THEN [objects[r] EXCEPT !.loc = d] ELSE objects[r]
<1>1. objects' = [r \in Refs |-> new(r)]
  BY DEF Relocated
<1>2. ASSUME NEW r \in Refs, objects[r] # Gone
      PROVE  /\ new(r) \in Object /\ new(r) # Gone /\ new(r).arch = objects[r].arch
             /\ new(r).loc = IF r \in M THEN d ELSE objects[r].loc
  <2>1. PICK o \in Object : o = objects[r]
    BY <1>2 DEF TypeOK
  <2>2. /\ [o EXCEPT !.loc = d] \in Object /\ [o EXCEPT !.loc = d].arch = o.arch
        /\ [o EXCEPT !.loc = d].loc = d
    BY DEF Object
  <2> QED BY <1>2, <2>1, <2>2, GoneAssumption
<1>3. ASSUME NEW r \in Refs, objects[r] = Gone PROVE new(r) = Gone
  BY <1>3
<1> HIDE DEF new
<1>4. \A r \in Refs : objects'[r] = new(r)
  BY <1>1
<1>5. Live' = Live
  BY <1>2, <1>3, <1>4 DEF Live
<1>6. objects' \in [Refs -> Object \cup {Gone}]
  BY <1>1, <1>2, <1>3
<1> QED BY <1>2, <1>4, <1>5, <1>6 DEF Live

LEMMA FlattenedObjects ==
    ASSUME TypeOK, NEW t \in Live, objects' = Flattened(t)
    PROVE  /\ objects' \in [Refs -> Object \cup {Gone}] /\ Live' = Live
           /\ \A r \in Live : /\ objects'[r].loc = objects[r].loc
                              /\ objects'[r].arch \in {objects[r].arch, None} \ {t}
<1> DEFINE new(r) == IF r \in Instances(t) THEN Detached(r) ELSE objects[r]
<1>1. objects' = [r \in Refs |-> new(r)]
  BY DEF Flattened
<1>2. ASSUME NEW r \in Live
      PROVE  /\ new(r) \in Object /\ new(r) # Gone /\ new(r).loc = objects[r].loc
             /\ new(r).arch \in {objects[r].arch, None} \ {t}
  <2>1. /\ Detached(r) \in Object /\ Detached(r).arch = None
        /\ Detached(r).loc = objects[r].loc
    BY DetachedType
  <2>2. objects[r] \in Object /\ None # t
    BY LiveObject, ConstantsAssumption DEF Live
  <2>3. r \in Instances(t) <=> objects[r].arch = t
    BY DEF Instances
  <2> QED BY <2>1, <2>2, <2>3, GoneAssumption
<1>3. ASSUME NEW r \in Refs, objects[r] = Gone PROVE new(r) = Gone
  BY <1>3 DEF Instances, Live
<1> HIDE DEF new
<1>4. \A r \in Refs : objects'[r] = new(r)
  BY <1>1
<1>5. Live' = Live
  BY <1>2, <1>3, <1>4 DEF Live
<1>6. objects' \in [Refs -> Object \cup {Gone}]
  BY <1>1, <1>2, <1>3 DEF Live
<1>7. \A r \in Live : r \in Refs
  BY DEF Live
<1> QED BY <1>2, <1>4, <1>5, <1>6, <1>7

(* A command that looks and finds. *)
LEMMA LookKeeps ==
    ASSUME CInv, NEW p \in Players, UNCHANGED <<looped, by, down>>,
           \/ \E i \in Items : Get(p, i) \/ Drop(p, i) \/ \E c \in Items : GetFrom(p, i, c)
           \/ \E i \in Items, c \in Items : Put(p, i, c)
           \/ \E to \in Refs : Go(p, to)
           \/ Use(p)
    PROVE  CInv'
<1> DEFINE rec(v, x, d, b) == [verb |-> v, actor |-> p, what |-> x, dest |-> d, box |-> b,
                               acted |-> FALSE, meddled |-> FALSE]
<1>1. ASSUME NEW v \in Verbs, NEW x \in Refs, NEW d \in Refs \cup {None},
             NEW b \in Refs \cup {None}
      PROVE  rec(v, x, d, b) \in Call
  BY DEF Call
<1>2. /\ p \in Live /\ p \in Refs /\ objects[p].loc \in Refs \cup {None}
      /\ Players \cap Items = {} /\ Items \subseteq Refs
  <2>1. objects[p] \in Object
    BY LiveObject DEF CInv, Steady
  <2> QED BY <2>1, Kinds DEF Object, CInv, Steady
<1>3. ASSUME NEW v, NEW x, NEW d, NEW b, Begin(v, p, x, d, b), UNCHANGED objects,
             rec(v, x, d, b) \in Call, About(rec(v, x, d, b)), AsFound(rec(v, x, d, b))
      PROVE  CInv'
  <2>1. calls' = Append(calls, rec(v, x, d, b))
    BY <1>3 DEF Begin
  <2> HIDE DEF rec
  <2> QED BY <1>3, <2>1, OneMoreCall
<1>4. ASSUME NEW i \in Items, Get(p, i) PROVE CInv'
  <2> DEFINE c == rec("get", i, p, None)
  <2>1. i \in Live /\ objects[i].loc = objects[p].loc
    BY <1>4 DEF Get, Inside
  <2>2. About(c)
    BY DEF About
  <2>3. AsFound(c)
    BY <2>1 DEF AsFound
  <2>4. c \in Call
    BY <1>1, <1>2 DEF Verbs
  <2>5. Begin("get", p, i, p, None) /\ UNCHANGED objects
    BY <1>4 DEF Get
  <2> HIDE DEF rec
  <2> QED BY <1>3, <2>2, <2>3, <2>4, <2>5
<1>5. ASSUME NEW i \in Items, Drop(p, i) PROVE CInv'
  <2> DEFINE c == rec("drop", i, objects[p].loc, None)
  <2>1. i \in Live /\ objects[i].loc = p
    BY <1>5 DEF Drop, Inside
  <2>2. About(c)
    BY DEF About
  <2>3. AsFound(c)
    BY <2>1 DEF AsFound
  <2>4. c \in Call
    BY <1>1, <1>2 DEF Verbs
  <2>5. Begin("drop", p, i, objects[p].loc, None) /\ UNCHANGED objects
    BY <1>5 DEF Drop
  <2>6. PICK d : d = objects[p].loc
    OBVIOUS
  <2> HIDE DEF rec
  <2> QED BY <1>3, <2>2, <2>3, <2>4, <2>5, <2>6
<1>6. ASSUME NEW i \in Items, NEW k \in Items, GetFrom(p, i, k) PROVE CInv'
  <2> DEFINE c == rec("get", i, p, k)
  <2>1. /\ i \in Live /\ objects[i].loc = k
        /\ k \in Live /\ objects[k].loc \in Here(p)
    BY <1>6 DEF GetFrom, Inside, Within, Here
  <2>2. About(c)
    BY DEF About
  <2>3. AsFound(c)
    BY <2>1 DEF AsFound
  <2>4. c \in Call
    BY <1>1, <1>2 DEF Verbs
  <2>5. Begin("get", p, i, p, k) /\ UNCHANGED objects
    BY <1>6 DEF GetFrom
  <2> HIDE DEF rec
  <2> QED BY <1>3, <2>2, <2>3, <2>4, <2>5
<1>7. ASSUME NEW i \in Items, NEW k \in Items, Put(p, i, k) PROVE CInv'
  <2> DEFINE c == rec("put", i, k, k)
  <2>1. /\ i \in Live /\ objects[i].loc \in Here(p)
        /\ k \in Live /\ objects[k].loc \in Here(p)
        /\ k \in Containers /\ i # k /\ ~Full(k)
    BY <1>7 DEF Put, PutAllowed, Within, Here
  <2>2. About(c)
    BY <2>1 DEF About
  <2>3. AsFound(c)
    BY <2>1 DEF AsFound
  <2>4. c \in Call
    BY <1>1, <1>2 DEF Verbs
  <2>5. Begin("put", p, i, k, k) /\ UNCHANGED objects
    BY <1>7 DEF Put
  <2> HIDE DEF rec
  <2> QED BY <1>3, <2>2, <2>3, <2>4, <2>5
<1>8. ASSUME NEW to \in Refs, Go(p, to) PROVE CInv'
  <2> DEFINE c == rec("go", p, to, None)
  <2>1. About(c)
    BY DEF About
  <2>2. AsFound(c)
    BY DEF AsFound
  <2>3. c \in Call
    BY <1>1, <1>2, Kinds DEF Verbs
  <2>4. Begin("go", p, p, to, None) /\ UNCHANGED objects
    BY <1>8 DEF Go
  <2> HIDE DEF rec
  <2> QED BY <1>3, <2>1, <2>2, <2>3, <2>4
<1>9. ASSUME Use(p) PROVE CInv'
  <2> DEFINE c == rec("use", p, None, None)
  <2>1. About(c)
    BY DEF About
  <2>2. AsFound(c)
    BY DEF AsFound
  <2>3. c \in Call
    BY <1>1, <1>2 DEF Verbs
  <2>4. Begin("use", p, p, None, None) /\ UNCHANGED objects
    BY <1>9 DEF Use
  <2> HIDE DEF rec
  <2> QED BY <1>3, <2>1, <2>2, <2>3, <2>4
<1> QED BY <1>4, <1>5, <1>6, <1>7, <1>8, <1>9

(* @destroy begins alone, when what delegated to its target no longer does. *)
LEMMA DestroyCommandKeeps ==
    ASSUME CInv, NEW p \in Players, NEW t \in Things, NEW cascade \in BOOLEAN,
           UNCHANGED <<looped, by, down>>, DestroyCommand(p, t, cascade)
    PROVE  CInv'
<1>1. t \in Live /\ t \in Refs /\ t \notin Players
  BY DEF Things, Live
<1>2. calls = <<>> /\ objects' = Flattened(t) /\ TypeOK
  BY DEF DestroyCommand, CInv, Steady
<1>3. /\ objects' \in [Refs -> Object \cup {Gone}] /\ Live' = Live
      /\ \A r \in Live : /\ objects'[r].loc = objects[r].loc
                         /\ objects'[r].arch \in {objects[r].arch, None} \ {t}
  BY <1>1, <1>2, FlattenedObjects
<1>4. Steady'
  BY <1>3 DEF CInv, Steady, TypeOK
<1>5. CASE Occupied(t)
  <2>1. calls' = calls
    BY <1>5 DEF DestroyCommand
  <2>2. Books'
    BY <1>2, <2>1 DEF Books, CInv
  <2> QED BY <1>4, <2>2 DEF CInv
<1>6. CASE ~Occupied(t)
  <2> DEFINE c == [verb |-> "destroy", actor |-> p, what |-> t, dest |-> None, box |-> None,
                   acted |-> FALSE, meddled |-> FALSE]
  <2>1. calls' = Append(calls, c)
    BY <1>6 DEF DestroyCommand, Begin
  <2>2. c \in Call
    BY <1>1 DEF Call, Verbs
  <2>3. About(c)' /\ AsFound(c)'
    <3>1. Instances(t)' = {}
      BY <1>3 DEF Instances
    <3>2. ~Occupied(t)'
      BY <1>3, <1>6 DEF Occupied, Inside
    <3> QED BY <1>1, <3>1, <3>2 DEF About, AsFound
  <2> HIDE DEF c
  <2>4. calls' = <<c>>
    BY <1>2, <2>1
  <2>5. Books'
    <3> DEFINE A == Call \cup {Acted}
    <3>1. c \in A
      BY <2>2
    <3> HIDE DEF A
    <3>2. <<c>> \in Seq(A) /\ Len(<<c>>) = 1 /\ \A i \in 1..1 : <<c>>[i] = c
      BY <3>1
    <3>3. ASSUME NEW i \in 1..Len(calls') PROVE Known(calls[i])'
      <4>1. calls'[i] = c
        BY <2>4, <3>2, <3>3
      <4> QED BY <2>3, <4>1 DEF Known
    <3> QED BY <2>4, <3>2, <3>3 DEF Books, A
  <2> QED BY <1>4, <2>5 DEF CInv
<1> QED BY <1>5, <1>6

(* What a hook does to the graph: it closes no circle and orphans nothing.    *)
LEMMA HookGraph ==
    ASSUME Steady, HookIntent
    PROVE  /\ Steady'
           /\ ContainmentAcyclic => ContainmentAcyclic'
           /\ NoOrphan => NoOrphan'
<1>1. TypeOK /\ UNCHANGED <<by, down>>
  BY DEF Steady, HookIntent
<1>2. CASE \E t \in Live \cap Movable, d \in Live \cap Reached : Move(t, d)
  <2>1. PICK t \in Live \ Rooms, d \in Live \cap Reached : Move(t, d)
    BY <1>2, KindsAssumption
  <2>2. t \in Refs /\ d \in Refs /\ objects[t] \in Object
    BY <1>1, LiveObject
  <2> DEFINE o == [objects[t] EXCEPT !.loc = d]
  <2>3. o \in Object /\ o.loc = d /\ o.arch = objects[t].arch
    BY <2>2 DEF Object
  <2>4. Becomes(t, o) /\ looped' = looped \ {t} /\ MoveAllowed(t, d)
    BY <2>1, <2>3 DEF Becomes, Move
  <2> HIDE DEF o
  <2>5. /\ objects' \in [Refs -> Object \cup {Gone}] /\ Live' = Live \cup {t} /\ objects'[t] = o
        /\ \A r \in Refs \ {t} : objects'[r] = objects[r]
    BY <1>1, <2>2, <2>3, <2>4, BecomesLive
  <2>6. Live' = Live /\ \A r \in Live : r \in Refs
    BY <2>5, <2>1 DEF Live
  <2>7. Steady'
    BY <1>1, <2>1, <2>4, <2>5, <2>6 DEF Steady, TypeOK
  <2>8. ContainmentAcyclic => ContainmentAcyclic'
    <3>1. TypeOK'
      BY <2>7 DEF Steady
    <3>2. objects'[t].loc = d /\ \A r \in Live \ {t} : objects'[r].loc = objects[r].loc
      BY <2>3, <2>5, <2>6
    <3>3. looped \ {t} \subseteq looped'
      BY <2>4
    <3> QED BY <1>1, <2>2, <2>4, <2>6, <3>1, <3>2, <3>3, MoveKeepsContainment
  <2>9. NoOrphan => NoOrphan'
    BY <2>3, <2>5, <2>6 DEF NoOrphan
  <2> QED BY <2>7, <2>8, <2>9
<1>3. CASE \E t \in Things \cap Doomed : Destroy(None, t, FALSE)
  <2>1. PICK t \in Things : Destroy(None, t, FALSE)
    BY <1>3
  <2>2. t \in Live /\ t \notin Players /\ Removed(t) /\ looped' = looped
    BY <2>1 DEF Destroy, Removed, Things
  <2>3. /\ objects' \in [Refs -> Object \cup {Gone}] /\ Live' = Live \ {t}
        /\ \A r \in Live \ {t} : objects'[r].loc = objects[r].loc
        /\ \A r \in Live \ {t} : objects'[r].arch \in {objects[r].arch, None} \ {t}
    BY <1>1, <2>2, RemovedLive
  <2>4. Steady'
    BY <1>1, <2>2, <2>3 DEF Steady, TypeOK
  <2>5. ContainmentAcyclic => ContainmentAcyclic'
    BY <1>1, <2>3, <2>4, NoNewContainment DEF Steady
  <2>6. NoOrphan => NoOrphan'
    BY <2>3 DEF NoOrphan
  <2> QED BY <2>4, <2>5, <2>6
<1>4. CASE \E t \in Items \cap Live, ar \in Archetypes \cup {None} : SetArchetype(None, t, ar)
  <2>1. PICK t \in Live, ar \in Archetypes \cup {None} : SetArchetype(None, t, ar)
    BY <1>4
  <2>2. t \in Refs /\ objects[t] \in Object /\ ar \in Live \cup {None} /\ ar \in Refs \cup {None}
    BY <1>1, <2>1, LiveObject DEF SetArchetype, Live
  <2> DEFINE o == [objects[t] EXCEPT !.arch = ar]
  <2>3. o \in Object /\ o.loc = objects[t].loc /\ o.arch = ar
    BY <2>2 DEF Object
  <2>4. Becomes(t, o) /\ looped' = looped
    BY <2>1, <2>3 DEF Becomes, SetArchetype
  <2> HIDE DEF o
  <2>5. /\ objects' \in [Refs -> Object \cup {Gone}] /\ Live' = Live \cup {t} /\ objects'[t] = o
        /\ \A r \in Refs \ {t} : objects'[r] = objects[r]
    BY <1>1, <2>2, <2>3, <2>4, BecomesLive
  <2>6. Live' = Live /\ \A r \in Live : r \in Refs
    BY <2>5 DEF Live
  <2>7. \A r \in Live : objects'[r].loc = objects[r].loc
    BY <2>3, <2>5, <2>6
  <2>8. Steady'
    BY <1>1, <2>4, <2>5, <2>6, <2>7 DEF Steady, TypeOK
  <2>9. ContainmentAcyclic => ContainmentAcyclic'
    BY <1>1, <2>6, <2>7, <2>8, NoNewContainment DEF Steady
  <2>10. NoOrphan => NoOrphan'
    BY <2>2, <2>3, <2>5, <2>6 DEF NoOrphan
  <2> QED BY <2>8, <2>9, <2>10
<1> QED BY <1>2, <1>3, <1>4 DEF HookIntent

(* After it no command in progress knows anything any more. *)
LEMMA HookKeeps == ASSUME CInv, HookIntent PROVE CInv'
<1>1. Steady'
  BY HookGraph DEF CInv
<1>2. calls' = Meddled(calls)
  BY DEF HookIntent
<1>3. /\ calls' \in Seq(Call \cup {Acted}) /\ Len(calls') = Len(calls)
      /\ \A i \in 1..Len(calls) : /\ calls'[i].acted = calls[i].acted
                                  /\ ~calls[i].acted => calls'[i].meddled /\ About(calls'[i])
  BY <1>2, MeddledCalls DEF CInv, Books
<1>4. ASSUME NEW i \in 1..Len(calls') PROVE Known(calls[i])'
  <2>1. PICK c : c = calls'[i]
    OBVIOUS
  <2>2. ~c.acted => c.meddled /\ About(c)
    BY <1>3, <2>1
  <2> QED BY <2>1, <2>2 DEF Known, About
<1> QED BY <1>1, <1>3, <1>4 DEF CInv, Books

(* A thing that goes where it was found not to be around closes no circle.    *)
LEMMA CarryKeepsContainment ==
    ASSUME TypeOK, TypeOK', ContainmentAcyclic, looped = {}, Live' = Live, NEW i \in Live, NEW d,
           \A r \in Live : objects'[r].loc = IF r = i THEN d ELSE objects[r].loc,
           \A S \in SUBSET Live :
              i \in S /\ d \in S /\ (\A r \in S \ {i} : objects[r].loc \in S)
                => \E X \in SUBSET Live : \A r \in S \cup X : objects[r].loc \in S \cup X
    PROVE  ContainmentAcyclic'
<1> SUFFICES ASSUME NEW S \in SUBSET Live, S # {}, \A r \in S : objects'[r].loc \in S
             PROVE  FALSE
  BY DEF ContainmentAcyclic
<1>1. \A r \in S \ {i} : objects[r].loc \in S
  OBVIOUS
<1>2. i \in S
  BY <1>1 DEF ContainmentAcyclic
<1>3. d \in S
  BY <1>2
<1>4. PICK X \in SUBSET Live : \A r \in S \cup X : objects[r].loc \in S \cup X
  BY <1>1, <1>2, <1>3
<1> DEFINE T == S \cup X
<1>5. T \in SUBSET Live /\ T # {} /\ \A r \in T : objects[r].loc \in T
  BY <1>4
<1> HIDE DEF T
<1> QED BY <1>5 DEF ContainmentAcyclic

(* Nor does anybody who goes, with what follows him, where none of them is.   *)
LEMMA GoKeepsContainment ==
    ASSUME TypeOK, TypeOK', ContainmentAcyclic, looped = {}, Live' = Live, NEW M, NEW d \in Live,
           d \notin M, ~Beneath(d, M),
           \A r \in Live : objects'[r].loc = IF r \in M THEN d ELSE objects[r].loc
    PROVE  ContainmentAcyclic'
<1> SUFFICES ASSUME NEW S \in SUBSET Live, S # {}, \A r \in S : objects'[r].loc \in S
             PROVE  FALSE
  BY DEF ContainmentAcyclic
<1>1. CASE d \in S
  <2> DEFINE T == S \ M
  <2>1. T \in SUBSET Live /\ d \in T /\ \A x \in T : objects[x].loc \in T \cup M
    BY <1>1
  <2> HIDE DEF T
  <2> QED BY <2>1 DEF Beneath
<1>2. CASE d \notin S
  <2>1. \A r \in S : r \notin M
    BY <1>2
  <2>2. \A r \in S : objects[r].loc \in S
    BY <2>1
  <2> QED BY <2>2 DEF ContainmentAcyclic
<1> QED BY <1>1, <1>2

(* What an act does to the graph when nothing that it unwraps is gone.        *)
LEMMA ActGraph ==
    ASSUME CInv, Act, UNCHANGED down
    PROVE  /\ Steady'
           /\ ContainmentAcyclic /\ ~Top.meddled /\ ~LeadsInward => ContainmentAcyclic'
           /\ NoOrphan /\ ~Top.meddled => NoOrphan'
<1>1. TypeOK /\ Steady /\ looped = {} /\ calls # <<>> /\ ~Top.acted /\ UNCHANGED <<looped, by>>
  BY DEF CInv, Steady, Act
<1>2. Top \in Call /\ Known(Top)
  BY <1>1, TopIsLast, CallFields DEF CInv
<1>3. PICK c \in Call : c = Top
  BY <1>2
<1>4. /\ c.verb \in Verbs /\ c.actor \in Players
      /\ c.what \in Refs /\ c.dest \in Refs \cup {None}
  BY CallFields
<1>5. About(c) /\ (~c.meddled => AsFound(c))
  BY <1>1, <1>2, <1>3 DEF Known
<1>6. down = FALSE
  BY DEF Act, CInv, Steady
<1>7. Unwraps \subseteq Live /\ objects' = AfterAct /\ (c.verb = "go" => c.dest \in Live)
  BY <1>3, <1>6 DEF Act
<1>8. CASE c.verb \in {"get", "put", "drop"}
  <2>1. objects' = Relocated(objects, {c.what}, c.dest)
    BY <1>3, <1>7, <1>8 DEF AfterAct
  <2>2. /\ objects' \in [Refs -> Object \cup {Gone}] /\ Live' = Live
        /\ \A r \in Live : /\ objects'[r].arch = objects[r].arch
                           /\ objects'[r].loc = IF r = c.what THEN c.dest ELSE objects[r].loc
    <3> DEFINE M == {c.what}
               d == c.dest
    <3>1. M \in SUBSET Refs /\ d \in Refs \cup {None} /\ objects' = Relocated(objects, M, d)
      BY <1>4, <2>1
    <3> HIDE DEF M, d
    <3>2. /\ objects' \in [Refs -> Object \cup {Gone}] /\ Live' = Live
          /\ \A r \in Live : /\ objects'[r].arch = objects[r].arch
                             /\ objects'[r].loc = IF r \in M THEN d ELSE objects[r].loc
      BY <1>1, <3>1, RelocatedObjects
    <3> QED BY <3>2 DEF M, d
  <2>3. c.what \in Items /\ c.what \in Live
    <3>1. c.what \in Unwraps
      BY <1>3, <1>4, <1>8, ConstantsAssumption DEF Unwraps
    <3> QED BY <1>5, <1>7, <1>8, <3>1 DEF About
  <2>4. Steady'
    BY <1>1, <1>6, <2>2, <2>3, Kinds DEF Steady, TypeOK
  <2>5. NoOrphan => NoOrphan'
    BY <2>2 DEF NoOrphan
  <2>6. ASSUME ~c.meddled, ContainmentAcyclic PROVE ContainmentAcyclic'
    <3> DEFINE i == c.what
               p == c.actor
               d == c.dest
    <3>1. /\ p \in Live /\ p # i /\ i \in Live /\ AsFound(c)
          /\ Items \cap Players = {}
      BY <1>1, <1>4, <1>5, <2>3, <2>6, Kinds DEF Steady
    <3>2. ASSUME NEW S \in SUBSET Live, i \in S, d \in S, \A r \in S \ {i} : objects[r].loc \in S
          PROVE  \E X \in SUBSET Live : \A r \in S \cup X : objects[r].loc \in S \cup X
      <4>1. ASSUME NEW X \in SUBSET Live, objects[i].loc \in S \cup X,
                   \A r \in X : objects[r].loc \in S \cup X
            PROVE  \E Y \in SUBSET Live : \A r \in S \cup Y : objects[r].loc \in S \cup Y
        BY <3>2, <4>1
      <4>2. CASE c.verb = "get"
        <5>1. d = p /\ objects[p].loc \in S
          BY <1>5, <3>1, <3>2, <4>2 DEF About
        <5>2. CASE c.box = None /\ objects[i].loc = objects[p].loc
          <6> DEFINE X == {}
          <6>1. X \in SUBSET Live /\ objects[i].loc \in S \cup X
                /\ \A r \in X : objects[r].loc \in S \cup X
            BY <5>1, <5>2
          <6> HIDE DEF X
          <6> QED BY <4>1, <6>1
        <5>3. CASE c.box \in Live /\ objects[i].loc = c.box /\ objects[c.box].loc \in Here(p)
          <6> DEFINE X == {c.box}
          <6>1. X \in SUBSET Live /\ objects[i].loc \in S \cup X
                /\ \A r \in X : objects[r].loc \in S \cup X
            BY <3>2, <5>1, <5>3 DEF Here
          <6> HIDE DEF X
          <6> QED BY <4>1, <6>1
        <5> QED BY <3>1, <4>2, <5>2, <5>3 DEF AsFound
      <4>3. CASE c.verb = "drop"
        <5> DEFINE X == {p}
        <5>1. objects[i].loc = p /\ objects[p].loc = d
          BY <3>1, <4>3 DEF AsFound
        <5>2. X \in SUBSET Live /\ objects[i].loc \in S \cup X
              /\ \A r \in X : objects[r].loc \in S \cup X
          BY <3>1, <3>2, <5>1
        <5> HIDE DEF X
        <5> QED BY <4>1, <5>2
      <4>4. CASE c.verb = "put"
        <5> DEFINE X == {p}
        <5>1. /\ d # i /\ objects[i].loc \in Here(p) /\ objects[d].loc \in Here(p)
          BY <3>1, <4>4 DEF AsFound
        <5>2. objects[d].loc \in S
          BY <3>2, <5>1
        <5>3. objects[p].loc \in S
          BY <3>1, <3>2, <5>1, <5>2 DEF Here
        <5>4. X \in SUBSET Live /\ objects[i].loc \in S \cup X
              /\ \A r \in X : objects[r].loc \in S \cup X
          BY <3>1, <5>1, <5>3 DEF Here
        <5> HIDE DEF X
        <5> QED BY <4>1, <5>4
      <4> QED BY <1>8, <4>2, <4>3, <4>4
    <3>3. TypeOK'
      BY <2>4 DEF Steady
    <3> HIDE DEF d, i, p
    <3>4. \A r \in Live : objects'[r].loc = IF r = i THEN d ELSE objects[r].loc
      BY <2>2 DEF d, i
    <3>5. \A S \in SUBSET Live :
             i \in S /\ d \in S /\ (\A r \in S \ {i} : objects[r].loc \in S)
               => \E X \in SUBSET Live : \A r \in S \cup X : objects[r].loc \in S \cup X
      BY <3>2
    <3>6. TypeOK /\ looped = {} /\ Live' = Live /\ ContainmentAcyclic /\ i \in Live
      BY <1>1, <2>2, <2>6, <3>1
    <3> QED BY <3>3, <3>4, <3>5, <3>6, CarryKeepsContainment
  <2> QED BY <1>3, <2>4, <2>5, <2>6
<1>9. CASE c.verb = "go"
  <2> DEFINE M == {c.what} \cup Followers[c.actor]
  <2>1. objects' = Relocated(objects, M, c.dest)
    BY <1>3, <1>7, <1>9 DEF AfterAct, Carried
  <2>2. c.what \in Players /\ c.dest \in Refs /\ c.dest \in Live
    BY <1>1, <1>4, <1>5, <1>7, <1>9 DEF About, Steady
  <2>3. M \in SUBSET Refs /\ M \cap Rooms = {}
    BY <1>4, <2>2, Kinds
  <2> HIDE DEF M
  <2>4. /\ objects' \in [Refs -> Object \cup {Gone}] /\ Live' = Live
        /\ \A r \in Live : /\ objects'[r].arch = objects[r].arch
                           /\ objects'[r].loc = IF r \in M THEN c.dest ELSE objects[r].loc
    BY <1>1, <1>4, <2>1, <2>3, RelocatedObjects
  <2>5. Steady'
    BY <1>1, <1>6, <2>3, <2>4 DEF Steady, TypeOK
  <2>6. NoOrphan => NoOrphan'
    BY <2>4 DEF NoOrphan
  <2>7. ASSUME ContainmentAcyclic, ~LeadsInward PROVE ContainmentAcyclic'
    <3> DEFINE d == c.dest
    <3>1. /\ d \in Live /\ \A r \in Live : objects'[r].loc = IF r \in M THEN d ELSE objects[r].loc
      BY <2>2, <2>4
    <3>2. d \notin M /\ ~Beneath(d, M)
      BY <1>3, <1>9, <2>7 DEF LeadsInward, Carried, M
    <3>3. TypeOK'
      BY <2>5 DEF Steady
    <3> HIDE DEF d
    <3> QED BY <1>1, <2>4, <2>7, <3>1, <3>2, <3>3, GoKeepsContainment
  <2> QED BY <2>5, <2>6, <2>7
<1>10. CASE c.verb = "use"
  <2>1. objects' = objects
    BY <1>3, <1>7, <1>10 DEF AfterAct
  <2> QED BY <1>1, <1>6, <2>1 DEF Steady, TypeOK, ContainmentAcyclic, NoOrphan, Live
<1>11. CASE c.verb = "destroy"
  <2>1. objects' = [objects EXCEPT ![c.what] = Gone]
    BY <1>3, <1>7, <1>11 DEF AfterAct
  <2>2. c.what \notin Players
    BY <1>5, <1>11 DEF About
  <2>3. /\ objects' \in [Refs -> Object \cup {Gone}] /\ Live' = Live \ {c.what}
        /\ \A r \in Live \ {c.what} : objects'[r] = objects[r]
    BY <1>1, <1>4, <2>1 DEF TypeOK, Live
  <2>4. Steady'
    BY <1>1, <1>6, <2>2, <2>3 DEF Steady, TypeOK
  <2>5. ContainmentAcyclic => ContainmentAcyclic'
    <3>1. /\ TypeOK /\ TypeOK' /\ Live' \subseteq Live /\ looped \subseteq looped'
          /\ \A r \in Live' : objects'[r].loc \in {objects[r].loc, None}
      BY <1>1, <2>3, <2>4 DEF Steady
    <3> QED BY <3>1, NoNewContainment
  <2>6. ASSUME ~c.meddled, NoOrphan PROVE NoOrphan'
    <3>1. \A r \in Live : objects[r].arch # c.what
      BY <1>5, <1>11, <2>6 DEF AsFound, Instances
    <3> QED BY <2>3, <2>6, <3>1 DEF NoOrphan
  <2> QED BY <1>3, <2>4, <2>5, <2>6
<1> QED BY <1>4, <1>8, <1>9, <1>10, <1>11 DEF Verbs

(* After an act the innermost command only runs hooks, and those under it     *)
(* know nothing any more if the act changed anything.                         *)
LEMMA ActKeeps == ASSUME CInv, Act PROVE CInv'
<1> DEFINE A == Call \cup {Acted}
<1>1. Books /\ calls # <<>> /\ down = FALSE
  BY DEF CInv, Act, Steady
<1>2. /\ Len(calls) \in Nat \ {0} /\ Under \in Seq(A) /\ Len(Under) = Len(calls) - 1
      /\ \A i \in 1..Len(Under) : i \in 1..Len(calls) /\ Under[i] = calls[i]
  BY <1>1, TopIsLast
<1>3. CASE ~(Unwraps \subseteq Live)
  <2>1. UNCHANGED <<objects, looped, by, calls>> /\ down' = TRUE
    BY <1>3 DEF Act
  <2>2. Steady'
    BY <2>1 DEF CInv, Steady, TypeOK, Live
  <2>3. ASSUME NEW i \in 1..Len(calls) PROVE Known(calls[i])'
    <3>1. PICK c : c = calls[i]
      OBVIOUS
    <3>2. Known(c) /\ calls'[i] = c
      BY <1>1, <2>1, <3>1 DEF Books
    <3> QED BY <2>1, <3>2, StillKnown DEF Known
  <2> QED BY <1>1, <2>1, <2>2, <2>3 DEF CInv, Books
<1>4. CASE Unwraps \subseteq Live
  <2>1. /\ UNCHANGED down
        /\ calls' = IF objects' = objects THEN Append(Under, Acted) ELSE Append(Meddled(Under), Acted)
    BY <1>4 DEF Act
  <2>2. Steady'
    BY <2>1, ActGraph
  <2>3. \A i \in 1..Len(Under) : Known(Under[i])
    BY <1>1, <1>2 DEF Books
  <2>4. /\ Meddled(Under) \in Seq(A) /\ Len(Meddled(Under)) = Len(Under)
        /\ \A i \in 1..Len(Under) : /\ Meddled(Under)[i].acted = Under[i].acted
                                    /\ ~Under[i].acted => Meddled(Under)[i].meddled /\ About(Meddled(Under)[i])
    BY <1>2, <2>3, MeddledCalls
  <2>5. PICK s \in Seq(A) : /\ calls' = Append(s, Acted) /\ Len(s) = Len(Under)
                            /\ \/ s = Under /\ objects' = objects
                               \/ s = Meddled(Under)
    BY <1>2, <2>1, <2>4
  <2>6. ASSUME NEW i \in 1..Len(s) PROVE Known(s[i])'
    <3>1. PICK c : c = s[i]
      OBVIOUS
    <3>2. CASE s = Under /\ objects' = objects
      BY <2>3, <2>5, <3>1, <3>2, StillKnown DEF Known
    <3>3. CASE s = Meddled(Under)
      <4>1. ~c.acted => c.meddled /\ About(c)
        BY <2>4, <2>5, <3>1, <3>3
      <4> QED BY <3>1, <4>1 DEF Known, About
    <3> QED BY <2>5, <3>2, <3>3
  <2>7. Acted \in A /\ Acted.acted
    BY DEF Acted
  <2> HIDE DEF A
  <2>8. /\ calls' \in Seq(A) /\ Len(calls') = Len(s) + 1
        /\ \A i \in 1..Len(calls') : calls'[i] = Acted \/ (i \in 1..Len(s) /\ calls'[i] = s[i])
    BY <2>5, <2>7
  <2>9. ASSUME NEW i \in 1..Len(calls') PROVE Known(calls[i])'
    <3>1. CASE calls'[i] = Acted
      BY <2>7, <3>1 DEF Known
    <3>2. CASE i \in 1..Len(s) /\ calls'[i] = s[i]
      BY <2>6, <3>2 DEF Known
    <3> QED BY <2>8, <3>1, <3>2
  <2> QED BY <2>2, <2>8, <2>9 DEF CInv, Books, A
<1> QED BY <1>3, <1>4

LEMMA CommandKeeps == ASSUME CInv, Command PROVE CInv'
<1>1. UNCHANGED <<looped, by, down>>
  BY DEF Command
<1>2. PICK p \in Players :
         \/ \E i \in Items : Get(p, i) \/ Drop(p, i) \/ \E c \in Items : GetFrom(p, i, c)
         \/ \E i \in Items, c \in Items : Put(p, i, c)
         \/ \E to \in Refs : Go(p, to)
         \/ Use(p)
         \/ \E t \in Things, cascade \in BOOLEAN : DestroyCommand(p, t, cascade)
  BY DEF Command
<1>3. CASE \E t \in Things, cascade \in BOOLEAN : DestroyCommand(p, t, cascade)
  BY <1>1, <1>3, DestroyCommandKeeps
<1>4. CASE ~\E t \in Things, cascade \in BOOLEAN : DestroyCommand(p, t, cascade)
  BY <1>1, <1>2, <1>4, LookKeeps
<1> QED BY <1>3, <1>4

(* The commands preserve their inductive invariant, which holds throughout.   *)
THEOREM CommandInvariance == CSpec => []CInv
<1>1. CInit => CInv
  <2> SUFFICES ASSUME CInit PROVE CInv
    OBVIOUS
  <2> DEFINE o(r) == [loc |-> Start[r], arch |-> None, owner |-> None, own |-> None]
  <2>1. \A r \in Refs : o(r) \in Object /\ o(r) # Gone
    BY StartAssumption, GoneAssumption DEF Object
  <2>2. objects = [r \in Refs |-> o(r)]
    BY DEF CInit
  <2>3. \A r \in Refs : o(r).loc = Start[r]
    OBVIOUS
  <2> HIDE DEF o
  <2>4. Live = Refs /\ objects \in [Refs -> Object \cup {Gone}]
    BY <2>1, <2>2 DEF Live
  <2>5. \A r \in Rooms \cap Live : objects[r].loc = None
    BY <2>2, <2>3, <2>4, StartAssumption
  <2>6. looped = {} /\ by = None /\ calls = <<>> /\ down = FALSE
    BY DEF CInit
  <2>7. Steady
    BY <2>4, <2>5, <2>6, Kinds DEF Steady, TypeOK, Authorities
  <2>8. Books
    BY <2>6 DEF Books
  <2> QED BY <2>7, <2>8 DEF CInv
<1>2. CInv /\ [CNext]_cvars => CInv'
  <2> SUFFICES ASSUME CInv, [CNext]_cvars PROVE CInv'
    OBVIOUS
  <2>1. CASE Command
    BY <2>1, CommandKeeps
  <2>2. CASE HookIntent
    BY <2>2, HookKeeps
  <2>3. CASE Veto
    BY <2>3, FewerCalls DEF Veto
  <2>4. CASE Act
    BY <2>4, ActKeeps
  <2>5. CASE NowhereToGo
    BY <2>5, FewerCalls DEF NowhereToGo
  <2>6. CASE Return
    BY <2>6, FewerCalls DEF Return
  <2>7. CASE UNCHANGED cvars
    <3>1. UNCHANGED <<objects, looped, by, calls, down>>
      BY <2>7 DEF cvars
    <3>2. Steady'
      BY <3>1 DEF CInv, Steady, TypeOK, Live
    <3>3. ASSUME NEW i \in 1..Len(calls) PROVE Known(calls[i])'
      <4>1. PICK c : c = calls[i]
        OBVIOUS
      <4>2. Known(c) /\ calls'[i] = c
        BY <3>1, <4>1 DEF CInv, Books
      <4> QED BY <3>1, <4>2, StillKnown DEF Known
    <3> QED BY <3>1, <3>2, <3>3 DEF CInv, Books
  <2> QED BY <2>1, <2>2, <2>3, <2>4, <2>5, <2>6, <2>7 DEF CNext
<1> QED BY <1>1, <1>2, PTL DEF CSpec

(* Only an act acts, and it does when the engine does not go down.            *)
LEMMA ActActs ==
    ASSUME CInv, Act
    PROVE  Acts <=> UNCHANGED down
<1>1. Books /\ calls # <<>> /\ ~Top.acted /\ down = FALSE
  BY DEF CInv, Act, Steady
<1>2. /\ Len(calls) \in Nat \ {0} /\ Top = calls[Len(calls)]
      /\ Under \in Seq(Call \cup {Acted}) /\ Len(Under) = Len(calls) - 1
      /\ \A i \in 1..Len(Under) : i \in 1..Len(calls) /\ Under[i] = calls[i]
  BY <1>1, TopIsLast
<1>3. CASE ~(Unwraps \subseteq Live)
  <2>1. calls' = calls /\ down' = TRUE
    BY <1>3 DEF Act
  <2> QED BY <1>1, <1>2, <2>1 DEF Acts
<1>4. CASE Unwraps \subseteq Live
  <2>1. /\ UNCHANGED down
        /\ calls' = IF objects' = objects THEN Append(Under, Acted) ELSE Append(Meddled(Under), Acted)
    BY <1>4 DEF Act
  <2>2. \A i \in 1..Len(Under) : Known(Under[i])
    BY <1>1, <1>2 DEF Books
  <2>3. Meddled(Under) \in Seq(Call \cup {Acted}) /\ Len(Meddled(Under)) = Len(Under)
    BY <1>2, <2>2, MeddledCalls
  <2> DEFINE A == Call \cup {Acted}
  <2>4. PICK s \in Seq(A) : calls' = Append(s, Acted) /\ Len(s) = Len(calls) - 1
    BY <1>2, <2>1, <2>3
  <2>5. Acted.acted /\ Acted \in A
    BY DEF Acted
  <2> HIDE DEF A
  <2>6. Len(calls') = Len(calls) /\ calls'[Len(calls)] = Acted
    BY <1>2, <2>4, <2>5
  <2> QED BY <1>1, <2>1, <2>5, <2>6 DEF Acts
<1> QED BY <1>3, <1>4

LEMMA OnlyActActs ==
    ASSUME CInv, [CNext]_cvars, Acts
    PROVE  Act /\ UNCHANGED down
<1>1. Books /\ calls # <<>> /\ ~Top.acted /\ Len(calls') = Len(calls) /\ calls'[Len(calls)].acted
  BY DEF CInv, Acts
<1>2. /\ Len(calls) \in Nat \ {0} /\ Top = calls[Len(calls)] /\ Len(Under) = Len(calls) - 1
  BY <1>1, TopIsLast
<1>3. calls' # calls /\ calls' # Under
  BY <1>1, <1>2
<1>4. ~Command
  <2> SUFFICES ASSUME Command PROVE FALSE
    OBVIOUS
  <2>1. \E c : calls' = Append(calls, c)
    BY <1>1, <1>3 DEF Command, Get, Drop, GetFrom, Put, Go, Use, DestroyCommand, Begin
  <2>2. PICK c : calls' = Append(calls, c)
    BY <2>1
  <2>3. Len(calls') = Len(calls) + 1
    BY <2>2, <1>1 DEF Books
  <2> QED BY <1>1, <1>2, <2>3
<1>5. ~HookIntent
  <2> SUFFICES ASSUME HookIntent PROVE FALSE
    OBVIOUS
  <2>1. calls' = Meddled(calls)
    BY DEF HookIntent
  <2>2. Len(calls) \in 1..Len(calls)
    BY <1>2
  <2>3. calls'[Len(calls)].acted = calls[Len(calls)].acted
    BY <1>1, <2>1, <2>2, MeddledCalls DEF Books
  <2> QED BY <1>1, <1>2, <2>3
<1>6. Act
  BY <1>3, <1>4, <1>5 DEF CNext, cvars, Veto, NowhereToGo, Return
<1> QED BY <1>6, ActActs

(* A step that is no act of a command whose world has changed orphans nothing *)
(* and, but by an exit that leads inward, closes no circle.                   *)
LEMMA CommandGraph ==
    ASSUME CInv, [CNext]_cvars, ~ActsBlind
    PROVE  /\ ContainmentAcyclic /\ ~(Acts /\ LeadsInward) => ContainmentAcyclic'
           /\ NoOrphan => NoOrphan'
<1>1. TypeOK /\ TypeOK' /\ looped' = looped
  <2>1. Steady /\ Steady'
    BY CommandKeeps, HookKeeps, ActKeeps, FewerCalls
       DEF CNext, cvars, Veto, NowhereToGo, Return, CInv, Steady, TypeOK, Live
  <2> QED BY <2>1 DEF Steady
<1>2. CASE UNCHANGED objects
  BY <1>1, <1>2 DEF ContainmentAcyclic, NoOrphan, Live
<1>3. CASE \E t \in Things : objects' = Flattened(t)
  <2>1. PICK t \in Live : objects' = Flattened(t)
    BY <1>3 DEF Things
  <2>2. /\ Live' = Live
        /\ \A r \in Live : /\ objects'[r].loc = objects[r].loc
                           /\ objects'[r].arch \in {objects[r].arch, None} \ {t}
    BY <1>1, <2>1, FlattenedObjects
  <2>3. ContainmentAcyclic => ContainmentAcyclic'
    BY <1>1, <2>2, NoNewContainment
  <2>4. NoOrphan => NoOrphan'
    BY <2>2 DEF NoOrphan
  <2> QED BY <2>3, <2>4
<1>4. CASE HookIntent
  BY <1>4, HookGraph DEF CInv
<1>5. CASE Act
  <2>1. CASE UNCHANGED down
    BY <1>5, <2>1, ActActs, ActGraph DEF ActsBlind
  <2>2. CASE ~UNCHANGED down
    <3>1. UNCHANGED objects
      BY <1>5, <2>2 DEF Act
    <3> QED BY <1>2, <3>1
  <2> QED BY <2>1, <2>2
<1>6. CASE Command
  <2>1. UNCHANGED objects \/ \E t \in Things : objects' = Flattened(t)
    BY <1>6 DEF Command, Get, Drop, GetFrom, Put, Go, Use, DestroyCommand
  <2> QED BY <1>2, <1>3, <2>1
<1> QED BY <1>2, <1>4, <1>5, <1>6 DEF CNext, cvars, Veto, NowhereToGo, Return

(* A circle of containers takes a hook that moves something between a         *)
(* command's look and its act, or an exit that leads into what goes through   *)
(* it, for any world and any exits, however deep the hooks nest (cmd_put,     *)
(* cmd_get, cmd_drop, cmd_go).                                                *)
THEOREM NoCommandClosesACircle == CSpec => CircleTakesMeddling
<1>1. CInv /\ CInv' /\ [CNext]_cvars =>
        [(\E r \in Live' : objects'[r].loc # objects[r].loc /\ r \in Around(objects', r))
           => ActsBlind \/ (Acts /\ LeadsInward) \/ ~ContainmentAcyclic]_objects
  <2> SUFFICES ASSUME CInv, CInv', [CNext]_cvars, ~ActsBlind, ~(Acts /\ LeadsInward),
                      ContainmentAcyclic,
                      NEW r \in Live', r \in Around(objects', r)
               PROVE  FALSE
    OBVIOUS
  <2>1. ContainmentAcyclic' /\ looped' = {}
    BY CommandGraph DEF CInv, Steady
  <2>2. objects' \in [Refs -> Object \cup {Gone}]
    BY DEF CInv, Steady, TypeOK
  <2>3. PICK objs \in [Refs -> Object \cup {Gone}] : objs = objects'
    BY <2>2
  <2>4. r \in Refs /\ Live' = {o \in Refs : objs[o] # Gone}
    BY <2>3 DEF Live
  <2>5. r \in Around(objs, r)
    BY <2>3 DEF Around
  <2>6. PICK D \in SUBSET {o \in Refs : objs[o] # Gone} :
          D # {} /\ \A o \in D : objs[o].loc \in D
    BY <2>4, <2>5, AroundItself
  <2>7. D \in SUBSET Live' /\ D # {} /\ \A o \in D : objects'[o].loc \in D
    BY <2>3, <2>4, <2>6
  <2> QED BY <2>1, <2>7 DEF ContainmentAcyclic
<1> QED BY <1>1, CommandInvariance, PTL DEF CSpec, CircleTakesMeddling

(* A put that finds its container as it left it fills it to its capacity at   *)
(* most, for every capacity (cmd_put).                                        *)
THEOREM PutsFit == CSpec => PutFits
<1>1. CInv /\ [CNext]_cvars =>
        [Acts /\ Top.verb = "put" /\ ~Top.meddled =>
           Cardinality({o \in Items \cap Live' : objects'[o].loc = Top.dest}) <= Capacity]_cvars
  <2> SUFFICES ASSUME CInv, [CNext]_cvars, Acts, Top.verb = "put", ~Top.meddled
               PROVE  Cardinality({o \in Items \cap Live' : objects'[o].loc = Top.dest}) <= Capacity
    OBVIOUS
  <2>1. Act /\ UNCHANGED down /\ calls # <<>> /\ ~Top.acted /\ down = FALSE /\ TypeOK
    BY OnlyActActs DEF Act, CInv, Steady
  <2>2. Top \in Call /\ Known(Top)
    BY <2>1, TopIsLast, CallFields DEF CInv
  <2>3. PICK c \in Call : c = Top
    BY <2>2
  <2>4. c.what \in Refs /\ c.dest \in Refs \cup {None}
    BY CallFields
  <2>5. ~Full(c.dest) /\ c.dest \in Live
    BY <2>1, <2>2, <2>3 DEF Known, AsFound
  <2> DEFINE M == {c.what}
             d == c.dest
             Old == Inside(d) \cap Items
             New == {o \in Items \cap Live' : objects'[o].loc = d}
  <2>6. objects' = Relocated(objects, M, d)
    BY <2>1, <2>3 DEF Act, AfterAct
  <2>7. Live' = Live /\ \A r \in Live : objects'[r].loc = IF r \in M THEN d ELSE objects[r].loc
    <3>1. M \in SUBSET Refs /\ d \in Refs \cup {None}
      BY <2>4
    <3> HIDE DEF M, d
    <3> QED BY <2>1, <2>6, <3>1, RelocatedObjects
  <2>8. New \subseteq Old \cup {c.what}
    BY <2>7 DEF Inside
  <2>9. IsFiniteSet(Old) /\ Cardinality(Old) \in Nat /\ Cardinality(Old) < Capacity
    <3>1. IsFiniteSet(Old)
      BY ConstantsAssumption, FS_Subset DEF Inside, Live
    <3>2. Cardinality(Old) \in Nat
      BY <3>1, FS_CardinalityType
    <3>3. ~(Cardinality(Old) >= Capacity)
      BY <2>5 DEF Full
    <3> QED BY <3>1, <3>2, <3>3, KindsAssumption
  <2> HIDE DEF Old, New
  <2> DEFINE More == Old \cup {c.what}
  <2>10. IsFiniteSet(More) /\ Cardinality(More) \in Nat /\ Cardinality(More) <= Capacity
    <3>1. /\ IsFiniteSet(More)
          /\ Cardinality(More) = IF c.what \in Old THEN Cardinality(Old) ELSE Cardinality(Old) + 1
      BY <2>9, FS_AddElement
    <3> QED BY <2>9, <3>1, KindsAssumption
  <2>11. Cardinality(New) <= Cardinality(More) /\ Cardinality(New) \in Nat
    BY <2>8, <2>10, FS_Subset, FS_CardinalityType
  <2>12. Cardinality(New) <= Capacity
    BY <2>10, <2>11, KindsAssumption
  <2> QED BY <2>3, <2>12 DEF New
<1> QED BY <1>1, CommandInvariance, PTL DEF CSpec, PutFits

(* The engine goes down only on something a hook destroyed under a command    *)
(* that had found it (the unwraps of cmd_get, cmd_put and cmd_drop).          *)
THEOREM OnlyMeddlingPanics == CSpec => PanicTakesMeddling
<1>1. CInv /\ [CNext]_cvars => [down' /\ ~down => Top.meddled]_cvars
  <2> SUFFICES ASSUME CInv, [CNext]_cvars, down', ~down, ~Top.meddled PROVE FALSE
    OBVIOUS
  <2>1. Act
    BY DEF CNext, cvars, Command, HookIntent, Veto, NowhereToGo, Return
  <2>2. ~(Unwraps \subseteq Live) /\ calls # <<>> /\ ~Top.acted
    BY <2>1 DEF Act
  <2>3. Top \in Call /\ Known(Top)
    BY <2>2, TopIsLast, CallFields DEF CInv
  <2>4. PICK c \in Call : c = Top
    BY <2>3
  <2>5. About(c) /\ AsFound(c)
    BY <2>2, <2>3, <2>4 DEF Known
  <2>6. Unwraps = IF c.verb \in {"get", "put", "drop"} THEN {c.what, c.box} \ {None} ELSE {}
    BY <2>4 DEF Unwraps
  <2>7. Unwraps \subseteq Live
    BY <2>5, <2>6 DEF About, AsFound
  <2> QED BY <2>2, <2>7
<1> QED BY <1>1, CommandInvariance, PTL DEF CSpec, PanicTakesMeddling

(* @destroy razes no room that somebody was in when it looked, and orphans    *)
(* no instance, unless a hook meddles (cmd_destroy).                          *)
THEOREM DestroyKeepsItsPromises == CSpec => DestroyTakesMeddling
<1>1. CInv /\ [CNext]_cvars =>
        [\A r \in Rooms \cap Live : r \notin Live' /\ Acts /\ ~Top.meddled => Inside(r) = {}]_cvars
  <2> SUFFICES ASSUME CInv, [CNext]_cvars, NEW r \in Rooms \cap Live, r \notin Live', Acts, ~Top.meddled
               PROVE  Inside(r) = {}
    OBVIOUS
  <2>1. Act /\ UNCHANGED down /\ calls # <<>> /\ ~Top.acted /\ down = FALSE /\ TypeOK
    BY OnlyActActs DEF Act, CInv, Steady
  <2>2. Top \in Call /\ Known(Top)
    BY <2>1, TopIsLast, CallFields DEF CInv
  <2>3. PICK c \in Call : c = Top
    BY <2>2
  <2>4. /\ c.verb \in Verbs /\ c.actor \in Players
        /\ c.what \in Refs /\ c.dest \in Refs \cup {None}
    BY CallFields
  <2>5. About(c) /\ AsFound(c)
    BY <2>1, <2>2, <2>3 DEF Known
  <2>6. objects' = AfterAct
    BY <2>1 DEF Act
  <2>7. ASSUME NEW M, objects' = Relocated(objects, M, c.dest), M \in SUBSET Refs PROVE FALSE
    <3> DEFINE d == c.dest
    <3>1. d \in Refs \cup {None} /\ objects' = Relocated(objects, M, d)
      BY <2>4, <2>7
    <3> HIDE DEF d
    <3> QED BY <2>1, <2>7, <3>1, RelocatedObjects
  <2>8. c.verb = "destroy"
    <3>1. CASE c.verb \in {"get", "put", "drop"}
      <4>1. objects' = Relocated(objects, {c.what}, c.dest) /\ {c.what} \in SUBSET Refs
        BY <2>3, <2>4, <2>6, <3>1 DEF AfterAct
      <4> QED BY <2>7, <4>1
    <3>2. CASE c.verb = "go"
      <4>1. objects' = Relocated(objects, Carried, c.dest)
        BY <2>3, <2>6, <3>2 DEF AfterAct
      <4>2. Carried \in SUBSET Refs
        BY <2>3, <2>4, Kinds DEF Carried
      <4> QED BY <2>7, <4>1, <4>2
    <3>3. CASE c.verb = "use"
      <4>1. objects' = objects
        BY <2>3, <2>6, <3>3 DEF AfterAct
      <4> QED BY <4>1 DEF Live
    <3> QED BY <2>4, <3>1, <3>2, <3>3 DEF Verbs
  <2>9. objects' = [objects EXCEPT ![c.what] = Gone]
    BY <2>3, <2>6, <2>8 DEF AfterAct
  <2>10. r = c.what
    BY <2>1, <2>9 DEF Live, TypeOK
  <2> QED BY <2>5, <2>8, <2>10 DEF AsFound, Occupied
<1>2. CInv /\ [CNext]_cvars => [~NoOrphan' => ~NoOrphan \/ ActsBlind]_objects
  BY CommandGraph
<1> QED BY <1>1, <1>2, CommandInvariance, PTL
        DEF CSpec, DestroyTakesMeddling, RazingTakesMeddling, OrphanTakesMeddling
=============================================================================
