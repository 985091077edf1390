---------------------------- MODULE Content_proofs ----------------------------
(***************************************************************************)
(* Whatever is loaded, imported, exported, renamed, lost in a crash or     *)
(* done by hand, no two objects that files have made carry one file key,   *)
(* unless one took it by being detached or both by a revision that names a *)
(* source twice; no script that was written in the game gives way to a     *)
(* file's, and what a load skips as unchanged is in the world as its file  *)
(* says: for any game directory, bundles, revisions and bounds.            *)
(*                                                                         *)
(* Loads, imports, exports and plans run over sequences, one definition,   *)
(* object or move after the other.  Run w stands for such a loop: w[i] is  *)
(* what it has made after i steps, and what each step keeps, the loop      *)
(* keeps (Climb).                                                          *)
(***************************************************************************)
EXTENDS Content, FiniteSetTheorems, WellFoundedInduction, TLAPS

-----------------------------------------------------------------------------
(* Loops *)

(* Every nonempty set of naturals has a least member. *)
LEMMA Least ==
    ASSUME NEW T \in SUBSET Nat, T # {}
    PROVE  \E n \in T : \A k \in T : n <= k
<1> DEFINE R == {p \in Nat \X Nat : p[1] < p[2]}
<1>1. R = OpToRel(<, Nat)
  BY DEF OpToRel
<1>2. IsWellFoundedOn(R, Nat)
  BY <1>1, NatLessThanWellFounded
<1>3. PICK n \in T : \A k \in T : <<k, n>> \notin R
  BY <1>2, WFMin
<1>4. ASSUME NEW k \in T PROVE n <= k
  <2>1. <<k, n>> \in Nat \X Nat /\ ~(<<k, n>>[1] < <<k, n>>[2])
    BY <1>3
  <2> QED BY <2>1
<1> QED BY <1>4

(* What holds at first and is kept by each of n steps holds throughout. *)
LEMMA Climb ==
    ASSUME NEW n \in Nat, NEW S, 0 \in S, \A i \in 1..n : i - 1 \in S => i \in S
    PROVE  \A i \in 0..n : i \in S
<1> DEFINE T == {i \in 0..n : i \notin S}
<1> SUFFICES ASSUME T # {} PROVE FALSE
  OBVIOUS
<1>1. PICK m \in T : \A k \in T : m <= k
  <2> T \in SUBSET Nat
    OBVIOUS
  <2> HIDE DEF T
  <2> QED BY Least
<1>2. m \in 1..n /\ m - 1 \in 0..n
  OBVIOUS
<1>3. m - 1 \in S
  BY <1>1, <1>2
<1> QED BY <1>2, <1>3

(* One archetype further up, as detach_object goes *)
NextUp(o, cur) ==
    [at |-> o[cur.at].arch, met |-> cur.met \cup {cur.at},
     obj |-> Under(cur.obj, o[cur.at]), srcs |-> cur.srcs \o Sources1(o[cur.at])]

(* The steps of the loops, by name; x is what a loop has at hand besides. *)
Step(how, st, d, x) ==
    CASE how = "assign" -> Assign(st, d)
      [] how = "thing" -> LoadThing(st, d)
      [] how = "rest" -> LoadRest(st, d)
      [] how = "thingsOfFiles" -> IF d \in x THEN st \o files[d].things ELSE st
      [] how = "restOfFiles" -> IF d \in x THEN st \o files[d].rest ELSE st
      [] how = "import" -> ImportThing(st, d, x)
      [] how = "importRest" -> ImportRest(st, d, x)
      [] how = "stamp" -> StampOne(st, d)
      [] how = "restamp" -> Restamp(st, d)
      [] how = "plan" -> PlanOp(x[1], x[2], d, st)
      [] how = "resolve" -> IF st.at \notin DOMAIN x \ st.met THEN st ELSE NextUp(x, st)

Run(w, how, start, s, x) ==
    w = [i \in 0..Len(s) |-> IF i = 0 THEN start ELSE Step(how, w[i - 1], s[i], x)]

(* Every loop runs. *)
LEMMA Runs ==
    ASSUME NEW how, NEW start, NEW s, NEW x, Len(s) \in Nat
    PROVE  \E w : Run(w, how, start, s, x)
<1> DEFINE N == Len(s)
           Upto(m, w) == w = [i \in 0..m |-> IF i = 0 THEN start ELSE Step(how, w[i - 1], s[i], x)]
           S == {m \in 0..N : \E w : Upto(m, w)}
<1>0. N \in Nat
  OBVIOUS
<1> HIDE DEF N
<1>1. 0 \in S
  <2> DEFINE v == [i \in 0..0 |-> start]
  <2>1. v = [i \in 0..0 |-> IF i = 0 THEN start ELSE Step(how, v[i - 1], s[i], x)]
    OBVIOUS
  <2>2. \E w : Upto(0, w)
    <3> HIDE DEF v
    <3> QED BY <2>1
  <2> HIDE DEF Upto
  <2> QED BY <1>0, <2>2
<1>2. ASSUME NEW m \in 1..N, m - 1 \in S PROVE m \in S
  <2>1. PICK w : Upto(m - 1, w)
    BY <1>2
  <2> DEFINE v == [i \in 0..m |-> IF i = m THEN Step(how, w[m - 1], s[m], x) ELSE w[i]]
             u == [i \in 0..m |-> IF i = 0 THEN start ELSE Step(how, v[i - 1], s[i], x)]
  <2>2. ASSUME NEW i \in 0..m PROVE v[i] = u[i]
    <3>1. CASE i = 0
      <4>1. w[0] = start /\ i # m
        BY <1>0, <2>1, <3>1
      <4> QED BY <3>1, <4>1
    <3>2. CASE i \in 1..(m - 1)
      <4>1. i - 1 \in 0..m /\ i - 1 # m /\ i # m /\ i # 0 /\ i \in 0..(m - 1)
        BY <1>0, <3>2
      <4>2. w[i] = Step(how, w[i - 1], s[i], x)
        BY <2>1, <4>1
      <4>3. v[i] = w[i] /\ v[i - 1] = w[i - 1]
        BY <4>1
      <4> HIDE DEF v
      <4> QED BY <4>1, <4>2, <4>3
    <3>3. CASE i = m
      <4>1. m # 0 /\ m - 1 \in 0..m /\ m - 1 # m
        BY <1>0
      <4>2. v[m - 1] = w[m - 1] /\ v[m] = Step(how, w[m - 1], s[m], x)
        BY <4>1
      <4> HIDE DEF v
      <4> QED BY <3>3, <4>1, <4>2
    <3> QED BY <1>0, <3>1, <3>2, <3>3
  <2>3. v = u
    <3> v = [i \in 0..m |-> v[i]] /\ u = [i \in 0..m |-> u[i]]
      OBVIOUS
    <3> HIDE DEF v, u
    <3> QED BY <2>2
  <2>4. Upto(m, v)
    BY <2>3
  <2> HIDE DEF v, u, Upto
  <2> QED BY <1>0, <2>4
<1>3. N \in S
  <2> HIDE DEF S
  <2>1. \A i \in 0..N : i \in S
    BY <1>0, <1>1, <1>2, Climb
  <2> QED BY <1>0, <2>1
<1> QED BY <1>3 DEF N, Run

(* What a run is, step by step *)
LEMMA RunIs ==
    ASSUME NEW w, NEW how, NEW start, NEW s, NEW x, Len(s) \in Nat, Run(w, how, start, s, x)
    PROVE  w[0] = start /\ \A i \in 1..Len(s) : w[i] = Step(how, w[i - 1], s[i], x)
<1> DEFINE N == Len(s)
<1> HIDE DEF N
<1>1. N \in Nat /\ w = [i \in 0..N |-> IF i = 0 THEN start ELSE Step(how, w[i - 1], s[i], x)]
  BY DEF Run, N
<1>2. ASSUME NEW i \in 0..N PROVE w[i] = IF i = 0 THEN start ELSE Step(how, w[i - 1], s[i], x)
  BY <1>1
<1>3. 0 \in 0..N /\ \A i \in 1..N : i \in 0..N /\ i # 0
  BY <1>1
<1> QED BY <1>2, <1>3 DEF N

LEMMA Steps ==
    /\ \A st, d, x : Step("assign", st, d, x) = Assign(st, d)
    /\ \A st, d, x : Step("thing", st, d, x) = LoadThing(st, d)
    /\ \A st, d, x : Step("rest", st, d, x) = LoadRest(st, d)
    /\ \A st, d, x : Step("import", st, d, x) = ImportThing(st, d, x)
    /\ \A st, d, x : Step("importRest", st, d, x) = ImportRest(st, d, x)
    /\ \A st, d, x : Step("stamp", st, d, x) = StampOne(st, d)
    /\ \A st, d, x : Step("restamp", st, d, x) = Restamp(st, d)
    /\ \A st, d, x : Step("resolve", st, d, x) =
          IF st.at \notin DOMAIN x \ st.met THEN st ELSE NextUp(x, st)
  BY DEF Step

LEMMA PlanSteps ==
    ASSUME NEW st, NEW d, NEW o, NEW mf PROVE Step("plan", st, d, <<o, mf>>) = PlanOp(o, mf, d, st)
  BY DEF Step

LEMMA ThingsOfFileSteps ==
    ASSUME NEW st, NEW d, NEW x
    PROVE  \/ Step("thingsOfFiles", st, d, x) = st \o files[d].things
           \/ Step("thingsOfFiles", st, d, x) = st
  BY DEF Step

LEMMA RestOfFileSteps ==
    ASSUME NEW st, NEW d, NEW x
    PROVE  \/ Step("restOfFiles", st, d, x) = st \o files[d].rest
           \/ Step("restOfFiles", st, d, x) = st
  BY DEF Step

(* Each loop of the model is a run. *)
LEMMA AlongAssign ==
    ASSUME NEW start, NEW s, Len(s) \in Nat
    PROVE  \E w : Run(w, "assign", start, s, 0) /\ Assigned(start, s) = w[Len(s)]
<1> DEFINE Is(w) == w = [i \in 0..Len(s) |-> IF i = 0 THEN start ELSE Assign(w[i - 1], s[i])]
           W == CHOOSE w : Is(w)
<1>1. \A w : Run(w, "assign", start, s, 0) <=> Is(w)
  BY DEF Run, Step
<1>2. \E w : Is(w)
  BY <1>1, Runs
<1>3. Is(W)
  BY <1>2
<1>4. Assigned(start, s) = W[Len(s)]
  BY DEF Along, Assigned
<1> HIDE DEF W, Is
<1> QED BY <1>1, <1>3, <1>4

LEMMA AlongThing ==
    ASSUME NEW start, NEW s, Len(s) \in Nat
    PROVE  \E w : Run(w, "thing", start, s, 0) /\ ThingsLoaded(start, s) = w[Len(s)]
<1> DEFINE Is(w) == w = [i \in 0..Len(s) |-> IF i = 0 THEN start ELSE LoadThing(w[i - 1], s[i])]
           W == CHOOSE w : Is(w)
<1>1. \A w : Run(w, "thing", start, s, 0) <=> Is(w)
  BY DEF Run, Step
<1>2. \E w : Is(w)
  BY <1>1, Runs
<1>3. Is(W)
  BY <1>2
<1>4. ThingsLoaded(start, s) = W[Len(s)]
  BY DEF Along, ThingsLoaded
<1> HIDE DEF W, Is
<1> QED BY <1>1, <1>3, <1>4

LEMMA AlongRest ==
    ASSUME NEW start, NEW s, Len(s) \in Nat
    PROVE  \E w : Run(w, "rest", start, s, 0) /\ RestLoaded(start, s) = w[Len(s)]
<1> DEFINE Is(w) == w = [i \in 0..Len(s) |-> IF i = 0 THEN start ELSE LoadRest(w[i - 1], s[i])]
           W == CHOOSE w : Is(w)
<1>1. \A w : Run(w, "rest", start, s, 0) <=> Is(w)
  BY DEF Run, Step
<1>2. \E w : Is(w)
  BY <1>1, Runs
<1>3. Is(W)
  BY <1>2
<1>4. RestLoaded(start, s) = W[Len(s)]
  BY DEF Along, RestLoaded
<1> HIDE DEF W, Is
<1> QED BY <1>1, <1>3, <1>4

LEMMA AlongImport ==
    ASSUME NEW start, NEW b, Len(b.things) \in Nat
    PROVE  \E w : Run(w, "import", start, b.things, b) /\ ImportThings(b, start) = w[Len(b.things)]
<1> DEFINE Is(w) == w = [i \in 0..Len(b.things) |-> IF i = 0 THEN start ELSE ImportThing(w[i - 1], b.things[i], b)]
           W == CHOOSE w : Is(w)
<1>1. \A w : Run(w, "import", start, b.things, b) <=> Is(w)
  BY DEF Run, Step
<1>2. \E w : Is(w)
  BY <1>1, Runs
<1>3. Is(W)
  BY <1>2
<1>4. ImportThings(b, start) = W[Len(b.things)]
  BY DEF Along, ImportThings
<1> HIDE DEF W, Is
<1> QED BY <1>1, <1>3, <1>4

LEMMA AlongImportRest ==
    ASSUME NEW start, NEW b, Len(b.rest) \in Nat
    PROVE  \E w : Run(w, "importRest", start, b.rest, b) /\ ImportRests(b, start) = w[Len(b.rest)]
<1> DEFINE Is(w) == w = [i \in 0..Len(b.rest) |-> IF i = 0 THEN start ELSE ImportRest(w[i - 1], b.rest[i], b)]
           W == CHOOSE w : Is(w)
<1>1. \A w : Run(w, "importRest", start, b.rest, b) <=> Is(w)
  BY DEF Run, Step
<1>2. \E w : Is(w)
  BY <1>1, Runs
<1>3. Is(W)
  BY <1>2
<1>4. ImportRests(b, start) = W[Len(b.rest)]
  BY DEF Along, ImportRests
<1> HIDE DEF W, Is
<1> QED BY <1>1, <1>3, <1>4

LEMMA AlongStamp ==
    ASSUME NEW start, NEW s, Len(s) \in Nat
    PROVE  \E w : Run(w, "stamp", start, s, 0) /\ Stamped(start, s) = w[Len(s)]
<1> DEFINE Is(w) == w = [i \in 0..Len(s) |-> IF i = 0 THEN start ELSE StampOne(w[i - 1], s[i])]
           W == CHOOSE w : Is(w)
<1>1. \A w : Run(w, "stamp", start, s, 0) <=> Is(w)
  BY DEF Run, Step
<1>2. \E w : Is(w)
  BY <1>1, Runs
<1>3. Is(W)
  BY <1>2
<1>4. Stamped(start, s) = W[Len(s)]
  BY DEF Along, Stamped
<1> HIDE DEF W, Is
<1> QED BY <1>1, <1>3, <1>4

LEMMA AlongRestamp ==
    ASSUME NEW start, NEW s, Len(s) \in Nat
    PROVE  \E w : Run(w, "restamp", start, s, 0) /\ Moved(start, s) = w[Len(s)]
<1> DEFINE Is(w) == w = [i \in 0..Len(s) |-> IF i = 0 THEN start ELSE Restamp(w[i - 1], s[i])]
           W == CHOOSE w : Is(w)
<1>1. \A w : Run(w, "restamp", start, s, 0) <=> Is(w)
  BY DEF Run, Step
<1>2. \E w : Is(w)
  BY <1>1, Runs
<1>3. Is(W)
  BY <1>2
<1>4. Moved(start, s) = W[Len(s)]
  BY DEF Along, Moved
<1> HIDE DEF W, Is
<1> QED BY <1>1, <1>3, <1>4

LEMMA AlongPlan ==
    ASSUME NEW objects, NEW mf, Len(mf.rename) \in Nat
    PROVE  \E w : Run(w, "plan", FirstPlans(objects, mf), mf.rename, <<objects, mf>>) /\ Plans(objects, mf) = w[Len(mf.rename)]
<1> DEFINE Is(w) == w = [i \in 0..Len(mf.rename) |-> IF i = 0 THEN FirstPlans(objects, mf) ELSE PlanOp(objects, mf, mf.rename[i], w[i - 1])]
           W == CHOOSE w : Is(w)
<1>1. \A w : Run(w, "plan", FirstPlans(objects, mf), mf.rename, <<objects, mf>>) <=> Is(w)
  BY DEF Run, Step
<1>2. \E w : Is(w)
  BY <1>1, Runs
<1>3. Is(W)
  BY <1>2
<1>4. Plans(objects, mf) = W[Len(mf.rename)]
  BY DEF Along, Plans, FirstPlans
<1> HIDE DEF W, Is
<1> QED BY <1>1, <1>3, <1>4

LEMMA AlongResolve ==
    ASSUME NEW o, NEW r
    PROVE  LET s == [i \in 1..(ArchetypeDepth - 1) |-> i]
               start == [at |-> o[r].arch, met |-> {r}, obj |-> o[r], srcs |-> Sources1(o[r])]
           IN  Len(s) \in Nat /\ \E w : Run(w, "resolve", start, s, o) /\ Resolved(o, r) = w[Len(s)]
<1> DEFINE s == [i \in 1..(ArchetypeDepth - 1) |-> i]
           start == [at |-> o[r].arch, met |-> {r}, obj |-> o[r], srcs |-> Sources1(o[r])]
           Is(w) == w = [i \in 0..Len(s) |->
                           IF i = 0 THEN start
                           ELSE IF w[i - 1].at \notin DOMAIN o \ w[i - 1].met THEN w[i - 1]
                           ELSE NextUp(o, w[i - 1])]
           W == CHOOSE w : Is(w)
<1>0. Len(s) \in Nat
  <2>1. ArchetypeDepth - 1 \in Nat
    BY ContentAssumption
  <2> QED BY <2>1
<1>4. Resolved(o, r) = W[Len(s)]
  BY DEF Along, Resolved, NextUp
<1> HIDE DEF s, start
<1>1. \A w : Run(w, "resolve", start, s, o) <=> Is(w)
  BY DEF Run, Step
<1>2. \E w : Is(w)
  BY <1>0, <1>1, Runs
<1>3. Is(W)
  BY <1>2
<1> HIDE DEF W, Is
<1>5. \E w : Run(w, "resolve", start, s, o) /\ Resolved(o, r) = w[Len(s)]
  BY <1>1, <1>3, <1>4
<1> QED BY <1>0, <1>5 DEF s, start

LEMMA AlongThingsOfFiles ==
    ASSUME NEW S, Len(AreaOrder) \in Nat
    PROVE  \E w : Run(w, "thingsOfFiles", <<>>, AreaOrder, S) /\ Things(S) = w[Len(AreaOrder)]
<1> DEFINE Is(w) == w = [i \in 0..Len(AreaOrder) |-> IF i = 0 THEN <<>> ELSE IF AreaOrder[i] \in S THEN w[i - 1] \o files[AreaOrder[i]].things ELSE w[i - 1]]
           W == CHOOSE w : Is(w)
<1>1. \A w : Run(w, "thingsOfFiles", <<>>, AreaOrder, S) <=> Is(w)
  BY DEF Run, Step
<1>2. \E w : Is(w)
  BY <1>1, Runs
<1>3. Is(W)
  BY <1>2
<1>4. Things(S) = W[Len(AreaOrder)]
  BY DEF Along, Things
<1> HIDE DEF W, Is
<1> QED BY <1>1, <1>3, <1>4

LEMMA AlongRestOfFiles ==
    ASSUME NEW S, Len(AreaOrder) \in Nat
    PROVE  \E w : Run(w, "restOfFiles", <<>>, AreaOrder, S) /\ Rest(S) = w[Len(AreaOrder)]
<1> DEFINE Is(w) == w = [i \in 0..Len(AreaOrder) |-> IF i = 0 THEN <<>> ELSE IF AreaOrder[i] \in S THEN w[i - 1] \o files[AreaOrder[i]].rest ELSE w[i - 1]]
           W == CHOOSE w : Is(w)
<1>1. \A w : Run(w, "restOfFiles", <<>>, AreaOrder, S) <=> Is(w)
  BY DEF Run, Step
<1>2. \E w : Is(w)
  BY <1>1, Runs
<1>3. Is(W)
  BY <1>2
<1>4. Rest(S) = W[Len(AreaOrder)]
  BY DEF Along, Rest
<1> HIDE DEF W, Is
<1> QED BY <1>1, <1>3, <1>4

-----------------------------------------------------------------------------
(* Worlds *)

Fields == {"fk", "managed", "locked", "kind", "name", "loc", "to", "arch", "desc", "script", "lib"}

(* An object of a world whose references go up to n *)
Object(x, n) ==
    /\ DOMAIN x = Fields
    /\ x.managed => x.fk # NoKey
    /\ x.kind \in Kinds /\ x.script \in Program /\ x.lib \in Program
    /\ x.loc \in 0..n /\ x.to \in 0..n /\ x.arch \in 0..n

World(o, n) == n \in Nat /\ DOMAIN o \subseteq 1..n /\ \A r \in DOMAIN o : Object(o[r], n)

(* No two objects made by files carry one key, but for keys that were doubled. *)
Unique(o) == \A q, r \in Managed(o) : o[q].fk = o[r].fk => q = r \/ o[q].fk \in doubled

(* What is written in the game stays. *)
Written1(x, y) == x.script.origin = "ingame" => y.script.origin = "ingame"
Keeps(o, p) == \A r \in DOMAIN o : r \in DOMAIN p /\ Written1(o[r], p[r])

(* y is x with the same key, made by files as much as x. *)
Same(x, y) == y.fk = x.fk /\ y.managed = x.managed

TextsTyped == \A p \in DOMAIN texts : texts[p] \in Texts \cup {NoText}

WellMade(d) ==
    /\ d.key # NoKey /\ d.kind \in {"room", "item", "code", "exit"}
    /\ d.kind = "exit" => d.loc # NoKey /\ d.to # NoKey

LEMMA Wider ==
    ASSUME NEW o, NEW n \in Nat, NEW m \in Nat, World(o, n), n <= m
    PROVE  World(o, m)
<1>1. ASSUME NEW r \in DOMAIN o PROVE Object(o[r], m)
  BY DEF World, Object
<1> QED BY <1>1 DEF World

LEMMA PutWorld ==
    ASSUME NEW o, NEW n \in Nat, NEW r \in 1..n, NEW x, World(o, n), Object(x, n)
    PROVE  World(Put(o, r, x), n)
<1> DEFINE p == Put(o, r, x)
<1>1. DOMAIN p = DOMAIN o \cup {r} /\ p[r] = x /\ \A q \in DOMAIN o \ {r} : p[q] = o[q]
  BY DEF Put
<1> HIDE DEF p
<1>2. ASSUME NEW q \in DOMAIN p PROVE Object(p[q], n)
  <2>1. CASE q = r
    BY <2>1, <1>1
  <2>2. CASE q \in DOMAIN o \ {r}
    BY <2>2, <1>1 DEF World
  <2> QED BY <2>1, <2>2, <1>1
<1>3. World(p, n)
  BY <1>1, <1>2 DEF World
<1> QED BY <1>3 DEF p

(* A program that a file gives *)
LEMMA FileProgram == ASSUME NEW t \in Texts PROVE FromFile(t) \in Program
BY DEF FromFile, Program, Origins

(* What a file makes of a script and of a library *)
LEMMA InstallScriptKeeps ==
    ASSUME NEW o, NEW d, NEW n \in Nat, Object(o, n), TextsTyped
    PROVE  LET y == InstallScript(o, d).obj
           IN  Object(y, n) /\ Same(o, y) /\ Written1(o, y) /\ y.loc = o.loc
<1> DEFINE shadowed == o.script.origin = "ingame"
           shadowedLib == o.lib.origin = "ingame"
           badScript == ~shadowed /\ Unreadable(d.script, texts)
           badLib == ~shadowedLib /\ Unreadable(d.lib, texts)
           script == IF shadowed \/ badScript THEN o.script
                     ELSE IF d.script = NoKey THEN NoProgram ELSE FromFile(texts[d.script])
           lib == IF shadowedLib THEN o.lib
                  ELSE IF badScript THEN o.lib
                  ELSE IF d.lib = NoKey \/ badLib THEN NoProgram ELSE FromFile(texts[d.lib])
           y == [o EXCEPT !.script = script, !.lib = lib]
<1>1. InstallScript(o, d).obj = y
  BY DEF InstallScript
<1>2. ASSUME NEW p, p # NoKey, ~Unreadable(p, texts) PROVE FromFile(texts[p]) \in Program
  <2>1. texts[p] \in Texts
    BY <1>2 DEF Unreadable, TextsTyped
  <2> QED BY <2>1, FileProgram
<1>3. script \in Program /\ lib \in Program
  <2>1. o.script \in Program /\ o.lib \in Program /\ NoProgram \in Program
    BY DEF Object, Program
  <2>2. script \in Program
    <3>1. CASE shadowed \/ badScript \/ d.script = NoKey
      BY <3>1, <2>1
    <3>2. CASE ~shadowed /\ ~badScript /\ d.script # NoKey
      BY <3>2, <1>2
    <3> QED BY <3>1, <3>2
  <2>3. lib \in Program
    <3>1. CASE shadowedLib \/ badScript \/ d.lib = NoKey \/ badLib
      BY <3>1, <2>1
    <3>2. CASE ~shadowedLib /\ ~badScript /\ d.lib # NoKey /\ ~badLib
      BY <3>2, <1>2
    <3> QED BY <3>1, <3>2
  <2> QED BY <2>2, <2>3
<1>4. shadowed => script = o.script
  OBVIOUS
<1> HIDE DEF script, lib
<1>5. /\ DOMAIN y = Fields /\ y.script = script /\ y.lib = lib
      /\ \A f \in Fields \ {"script", "lib"} : y[f] = o[f]
  BY DEF Object, Fields
<1>6. Object(y, n) /\ Same(o, y) /\ y.loc = o.loc
  BY <1>3, <1>5 DEF Object, Same, Fields
<1>7. Written1(o, y)
  BY <1>4, <1>5 DEF Written1
<1> QED BY <1>1, <1>6, <1>7

(* What a definition says of an object *)
LEMMA DescribedKeeps ==
    ASSUME NEW o, NEW d, NEW km, NEW n \in Nat, Object(o, n), WellMade(d),
           \A k \in DOMAIN km : km[k] \in 1..n,
           ~Dangles(km, d.loc), d.kind = "exit" => ~Dangles(km, d.to)
    PROVE  LET y == Described(o, d, km)
           IN  Object(y, n) /\ Same(o, y) /\ y.script = o.script
<1> DEFINE y == Described(o, d, km)
<1>1. CASE d.kind = "exit"
  <2>1. km[d.loc] \in 0..n /\ km[d.to] \in 0..n
    BY <1>1 DEF WellMade, Dangles
  <2>2. y = [o EXCEPT !.loc = km[d.loc], !.to = km[d.to]]
    BY <1>1 DEF Described
  <2> HIDE DEF y
  <2>3. /\ DOMAIN y = Fields /\ y.loc \in 0..n /\ y.to \in 0..n
        /\ \A f \in Fields \ {"loc", "to"} : y[f] = o[f]
    BY <2>1, <2>2 DEF Object, Fields
  <2> QED BY <2>3 DEF Object, Same, Fields, y
<1>2. CASE d.kind # "exit" /\ d.key.sub = "script"
  <2>1. y = o
    BY <1>2 DEF Described
  <2> QED BY <2>1 DEF Same
<1>3. CASE d.kind # "exit" /\ d.key.sub # "script"
  <2> DEFINE kind == IF d.kind = "room" THEN o.kind ELSE d.kind
             loc == IF d.loc = NoKey THEN o.loc ELSE km[d.loc]
             arch == ResolveArchetype(km, d.arch)
  <2>1. y = [o EXCEPT !.kind = kind, !.desc = d.desc, !.loc = loc, !.arch = arch]
    BY <1>3 DEF Described
  <2>2. kind \in Kinds /\ loc \in 0..n /\ arch \in 0..n
    <3>1. kind \in Kinds
      BY DEF Object, WellMade, Kinds
    <3>2. loc \in 0..n
      BY DEF Object, Dangles
    <3>3. arch \in 0..n
      BY DEF ResolveArchetype, ResolveKey, Nowhere
    <3> QED BY <3>1, <3>2, <3>3
  <2> HIDE DEF y, kind, loc, arch
  <2>3. /\ DOMAIN y = Fields /\ y.kind = kind /\ y.loc = loc /\ y.arch = arch
        /\ \A f \in Fields \ {"kind", "desc", "loc", "arch"} : y[f] = o[f]
    BY <2>1 DEF Object, Fields
  <2> QED BY <2>2, <2>3 DEF Object, Same, Fields, y
<1> QED BY <1>1, <1>2, <1>3

(* A load or an import in progress: a world, the references given out, and a  *)
(* reference for each key                                                     *)
Good(st) ==
    /\ {"objs", "next", "km", "ok"} \subseteq DOMAIN st
    /\ World(st.objs, st.next)
    /\ \A k \in DOMAIN st.km : st.km[k] \in 1..st.next

(* The loader finds again what files have made. *)
FindsAgain(km, x, r) == x.fk \in DOMAIN km /\ (km[x.fk] = r \/ x.fk \in doubled)
Found(st) == \A r \in Managed(st.objs) : FindsAgain(st.km, st.objs[r], r)

Onward(st, t) ==
    /\ st.next <= t.next /\ DOMAIN st.km \subseteq DOMAIN t.km
    /\ Keeps(st.objs, t.objs)
    /\ Found(st) => Found(t)

LEMMA OnwardStays == ASSUME NEW st, Good(st) PROVE Onward(st, st)
BY DEF Onward, Good, World, Keeps, Written1

LEMMA OnwardGoesOn ==
    ASSUME NEW st, NEW t, NEW u, Good(st), Good(t), Good(u), Onward(st, t), Onward(t, u)
    PROVE  Onward(st, u)
<1>1. st.next <= u.next
  BY DEF Onward, Good, World
<1>2. Keeps(st.objs, u.objs)
  BY DEF Onward, Keeps, Written1
<1> QED BY <1>1, <1>2 DEF Onward

(* A new key gets a reference of its own. *)
LEMMA NewKey ==
    ASSUME NEW st, NEW k, Good(st),
           k \in DOMAIN st.km => st.km[k] \notin DOMAIN st.objs
    PROVE  LET t == [st EXCEPT !.next = st.next + 1, !.km = Put(st.km, k, st.next + 1)]
           IN  /\ Good(t) /\ Onward(st, t) /\ k \in DOMAIN t.km
               /\ t.objs = st.objs /\ t.ok = st.ok
<1> DEFINE t == [st EXCEPT !.next = st.next + 1, !.km = Put(st.km, k, st.next + 1)]
           km == Put(st.km, k, st.next + 1)
<1>1. /\ DOMAIN t = DOMAIN st /\ t.next = st.next + 1 /\ t.km = km
      /\ t.objs = st.objs /\ t.ok = st.ok
  BY DEF Good
<1>2. /\ DOMAIN km = DOMAIN st.km \cup {k} /\ km[k] = st.next + 1
      /\ \A j \in DOMAIN st.km \ {k} : km[j] = st.km[j]
  BY DEF Put
<1>3. st.next \in Nat
  BY DEF Good, World
<1> HIDE DEF t, km
<1>4. ASSUME NEW j \in DOMAIN t.km PROVE t.km[j] \in 1..t.next
  <2>1. CASE j = k
    BY <2>1, <1>1, <1>2, <1>3
  <2>2. CASE j \in DOMAIN st.km \ {k}
    <3>1. st.km[j] \in 1..st.next
      BY <2>2 DEF Good
    <3> QED BY <3>1, <2>2, <1>1, <1>2, <1>3
  <2> QED BY <2>1, <2>2, <1>1, <1>2
<1>5. World(t.objs, t.next)
  BY <1>1, <1>3, Wider DEF Good
<1>6. Good(t)
  BY <1>1, <1>4, <1>5 DEF Good
<1>7. Keeps(st.objs, t.objs)
  BY <1>1 DEF Keeps, Written1
<1>8. ASSUME Found(st) PROVE Found(t)
  <2>1. ASSUME NEW r \in Managed(t.objs)
        PROVE  FindsAgain(t.km, t.objs[r], r)
    <3>1. /\ r \in Managed(st.objs) /\ r \in DOMAIN st.objs /\ t.objs[r].fk = st.objs[r].fk
          /\ st.objs[r].fk \in DOMAIN st.km
          /\ st.km[st.objs[r].fk] = r \/ st.objs[r].fk \in doubled
      BY <1>1, <1>8, <2>1 DEF Found, FindsAgain, Managed
    <3>2. st.objs[r].fk # k \/ st.objs[r].fk \in doubled
      BY <3>1
    <3> QED BY <3>1, <3>2, <1>1, <1>2 DEF FindsAgain
  <2> QED BY <2>1 DEF Found
<1>9. Onward(st, t)
  BY <1>1, <1>2, <1>3, <1>7, <1>8 DEF Onward
<1> QED BY <1>1, <1>2, <1>6, <1>9 DEF t

LEMMA AssignStep ==
    ASSUME NEW st, NEW d, Good(st)
    PROVE  LET t == Assign(st, d)
           IN  /\ Good(t) /\ Onward(st, t) /\ d.key \in DOMAIN t.km
               /\ t.objs = st.objs /\ t.ok = st.ok
<1>1. CASE d.key \in DOMAIN st.km
  BY <1>1, OnwardStays DEF Assign
<1>2. CASE d.key \notin DOMAIN st.km
  <2> DEFINE t == [st EXCEPT !.next = st.next + 1, !.km = Put(st.km, d.key, st.next + 1)]
  <2>1. /\ Good(t) /\ Onward(st, t) /\ d.key \in DOMAIN t.km
        /\ t.objs = st.objs /\ t.ok = st.ok
    BY <1>2, NewKey
  <2>2. Assign(st, d) = t
    BY <1>2 DEF Assign
  <2> HIDE DEF t
  <2> QED BY <2>1, <2>2
<1> QED BY <1>1, <1>2

(* Nothing more than before is made by files, and under the keys it had. *)
NoneMade(o, p) == \A r \in Managed(p) : r \in Managed(o) /\ p[r].fk = o[r].fk

LEMMA NoneMadeTwice ==
    ASSUME NEW o, NEW p, NoneMade(o, p), Unique(o) PROVE Unique(p)
BY DEF NoneMade, Unique

(* An object brought up to date, or added under its key *)
LEMMA PutObject ==
    ASSUME NEW st, NEW t, NEW r, NEW y, Good(st), r \in 1..st.next, Object(y, st.next),
           r \in DOMAIN st.objs => Same(st.objs[r], y) /\ Written1(st.objs[r], y),
           r \notin DOMAIN st.objs /\ y.managed => y.fk \in DOMAIN st.km /\ st.km[y.fk] = r,
           {"objs", "next", "km", "ok"} \subseteq DOMAIN t,
           t.objs = Put(st.objs, r, y), t.next = st.next, t.km = st.km
    PROVE  /\ Good(t) /\ Onward(st, t)
           /\ ~y.managed \/ r \in DOMAIN st.objs => NoneMade(st.objs, t.objs)
<1>1. /\ DOMAIN t.objs = DOMAIN st.objs \cup {r} /\ t.objs[r] = y
      /\ \A q \in DOMAIN st.objs \ {r} : t.objs[q] = st.objs[q]
  BY DEF Put
<1>2. st.next \in Nat /\ World(st.objs, st.next)
  BY DEF Good, World
<1>3. World(t.objs, t.next)
  BY <1>2, PutWorld
<1>4. Good(t)
  BY <1>3 DEF Good
<1>5. Keeps(st.objs, t.objs)
  <2>1. ASSUME NEW q \in DOMAIN st.objs
        PROVE  q \in DOMAIN t.objs /\ Written1(st.objs[q], t.objs[q])
    <3>1. CASE q = r
      BY <3>1, <2>1, <1>1
    <3>2. CASE q # r
      BY <3>2, <2>1, <1>1 DEF Written1
    <3> QED BY <3>1, <3>2
  <2> QED BY <2>1 DEF Keeps
<1>6. ASSUME Found(st) PROVE Found(t)
  <2>1. ASSUME NEW q \in Managed(t.objs)
        PROVE  FindsAgain(t.km, t.objs[q], q)
    <3>1. CASE q # r
      <4>1. q \in Managed(st.objs) /\ t.objs[q] = st.objs[q]
        BY <3>1, <2>1, <1>1 DEF Managed
      <4> QED BY <4>1, <1>6 DEF Found
    <3>2. CASE q = r /\ r \in DOMAIN st.objs
      <4>1. r \in Managed(st.objs) /\ t.objs[r].fk = st.objs[r].fk
        BY <3>2, <2>1, <1>1 DEF Managed, Same
      <4> QED BY <4>1, <3>2, <1>6 DEF Found, FindsAgain
    <3>3. CASE q = r /\ r \notin DOMAIN st.objs
      <4>1. y.managed /\ t.objs[q] = y
        BY <3>3, <2>1, <1>1 DEF Managed
      <4> QED BY <4>1, <3>3 DEF FindsAgain
    <3> QED BY <3>1, <3>2, <3>3
  <2> QED BY <2>1 DEF Found
<1>7. ASSUME ~y.managed \/ r \in DOMAIN st.objs PROVE NoneMade(st.objs, t.objs)
  <2>1. ASSUME NEW q \in Managed(t.objs)
        PROVE  q \in Managed(st.objs) /\ t.objs[q].fk = st.objs[q].fk
    <3>1. CASE q # r
      BY <3>1, <2>1, <1>1 DEF Managed
    <3>2. CASE q = r
      BY <3>2, <2>1, <1>1, <1>7 DEF Managed, Same
    <3> QED BY <3>1, <3>2
  <2> QED BY <2>1 DEF NoneMade
<1>8. Onward(st, t)
  BY <1>2, <1>5, <1>6 DEF Onward
<1> QED BY <1>4, <1>7, <1>8

LEMMA BlankObject ==
    ASSUME NEW kind \in Kinds, NEW name, NEW n \in Nat PROVE Object(Blank(kind, name), n)
<1> DEFINE x == Blank(kind, name)
<1>1. /\ DOMAIN x = Fields /\ ~x.managed /\ x.kind = kind /\ x.script = NoProgram /\ x.lib = NoProgram
      /\ x.loc = 0 /\ x.to = 0 /\ x.arch = 0
  BY DEF Blank, Fields, Nowhere
<1> HIDE DEF x
<1>2. Object(x, n)
  BY <1>1 DEF Object, Program
<1> QED BY <1>2 DEF x

(* What a load makes of an object it has or has not met before *)
LEMMA LoadIntoKeeps ==
    ASSUME NEW st, NEW d, NEW r, Good(st), WellMade(d), TextsTyped,
           d.key \in DOMAIN st.km, r = st.km[d.key],
           ~Dangles(st.km, d.loc), d.kind = "exit" => ~Dangles(st.km, d.to)
    PROVE  LET t == LoadInto(st, d, r)
           IN  Good(t) /\ Onward(st, t) /\ t.km = st.km
<1> DEFINE before == IF r \in DOMAIN st.objs THEN st.objs[r] ELSE Made(d)
           told == Described(before, d, st.km)
           res == InstallScript(told, d)
           t == Loaded(st, r, res)
<1>1. LoadInto(st, d, r) = t
  BY DEF LoadInto
<1>2. st.next \in Nat /\ World(st.objs, st.next) /\ r \in 1..st.next
  BY DEF Good, World
<1>3. Object(before, st.next) /\ (r \notin DOMAIN st.objs => before.fk = d.key /\ before.managed)
  <2>1. CASE r \in DOMAIN st.objs
    BY <2>1, <1>2 DEF World
  <2>2. CASE r \notin DOMAIN st.objs
    <3> DEFINE x == Blank(d.kind, d.key.base)
               m == [x EXCEPT !.fk = d.key, !.managed = TRUE]
    <3>1. Object(x, st.next)
      BY <1>2, BlankObject DEF WellMade, Kinds
    <3> HIDE DEF x
    <3>2. /\ DOMAIN m = Fields /\ m.fk = d.key /\ m.managed
          /\ \A f \in Fields \ {"fk", "managed"} : m[f] = x[f]
      BY <3>1 DEF Object, Fields
    <3>3. before = m
      BY <2>2 DEF Made, x
    <3> HIDE DEF m, before
    <3>4. Object(m, st.next)
      BY <3>1, <3>2 DEF Object, Fields, WellMade
    <3> QED BY <3>2, <3>3, <3>4
  <2> QED BY <2>1, <2>2
<1> HIDE DEF before
<1>4. Object(told, st.next) /\ Same(before, told) /\ told.script = before.script
  BY <1>2, <1>3, DescribedKeeps DEF Good
<1> HIDE DEF told
<1>5. Object(res.obj, st.next) /\ Same(told, res.obj) /\ Written1(told, res.obj)
  BY <1>2, <1>4, InstallScriptKeeps
<1> HIDE DEF res
<1>6. Same(before, res.obj) /\ Written1(before, res.obj)
  BY <1>4, <1>5 DEF Same, Written1
<1>7. CASE res.ok \/ r \in DOMAIN st.objs
  <2> DEFINE u == [st EXCEPT !.objs = Put(st.objs, r, res.obj), !.ok = res.ok]
  <2>1. t = u
    BY <1>7 DEF Loaded
  <2>2. /\ {"objs", "next", "km", "ok"} \subseteq DOMAIN u
        /\ u.objs = Put(st.objs, r, res.obj) /\ u.next = st.next /\ u.km = st.km
    BY DEF Good
  <2>3. r \in DOMAIN st.objs => Same(st.objs[r], res.obj) /\ Written1(st.objs[r], res.obj)
    BY <1>6 DEF before
  <2>4. r \notin DOMAIN st.objs => res.obj.fk \in DOMAIN st.km /\ st.km[res.obj.fk] = r
    BY <1>3, <1>6 DEF Same
  <2> HIDE DEF u, t
  <2>5. Good(u) /\ Onward(st, u)
    BY <1>2, <1>5, <2>2, <2>3, <2>4, PutObject
  <2> QED BY <1>1, <2>1, <2>2, <2>5
<1>8. CASE ~res.ok /\ r \notin DOMAIN st.objs
  <2> DEFINE u == [st EXCEPT !.ok = FALSE]
  <2>1. t = u
    BY <1>8 DEF Loaded
  <2>2. /\ {"objs", "next", "km", "ok"} \subseteq DOMAIN u
        /\ u.objs = st.objs /\ u.next = st.next /\ u.km = st.km
    BY DEF Good
  <2> HIDE DEF u, t
  <2>3. Good(u) /\ Onward(st, u)
    BY <2>2, OnwardStays DEF Good, Onward, Found
  <2> QED BY <1>1, <2>1, <2>2, <2>3
<1> QED BY <1>7, <1>8

(* A load or an import that ends stays where it is. *)
LEMMA EndKeeps ==
    ASSUME NEW st, Good(st)
    PROVE  LET t == [st EXCEPT !.ok = FALSE]
           IN  /\ Good(t) /\ Onward(st, t) /\ t.km = st.km /\ t.objs = st.objs
               /\ t.next = st.next /\ ~t.ok
<1> DEFINE t == [st EXCEPT !.ok = FALSE]
<1>1. /\ {"objs", "next", "km", "ok"} \subseteq DOMAIN t /\ t.objs = st.objs
      /\ t.next = st.next /\ t.km = st.km /\ ~t.ok
  BY DEF Good
<1> HIDE DEF t
<1>2. Good(t) /\ Onward(st, t)
  BY <1>1, OnwardStays DEF Good, Onward, Found
<1> QED BY <1>1, <1>2 DEF t

LEMMA LoadThingStep ==
    ASSUME NEW st, NEW d, Good(st), WellMade(d), d.kind # "exit", TextsTyped,
           d.key \in DOMAIN st.km
    PROVE  LET t == LoadThing(st, d)
           IN  Good(t) /\ Onward(st, t) /\ t.km = st.km
<1>1. CASE ~st.ok
  BY <1>1, OnwardStays DEF LoadThing
<1>2. CASE st.ok /\ Dangles(st.km, d.loc)
  <2>1. LoadThing(st, d) = [st EXCEPT !.ok = FALSE]
    BY <1>2 DEF LoadThing
  <2> QED BY <2>1, EndKeeps
<1>3. CASE st.ok /\ ~Dangles(st.km, d.loc)
  <2>1. LoadThing(st, d) = LoadInto(st, d, st.km[d.key])
    BY <1>3 DEF LoadThing
  <2> QED BY <2>1, <1>3, LoadIntoKeeps
<1> QED BY <1>1, <1>2, <1>3

LEMMA IfNewStep ==
    ASSUME NEW st, NEW d, Good(st)
    PROVE  LET t == IfNew(st, d)
           IN  /\ Good(t) /\ Onward(st, t) /\ d.key \in DOMAIN t.km
               /\ t.objs = st.objs /\ t.ok = st.ok
<1> DEFINE there == d.key \in DOMAIN st.km /\ st.km[d.key] \in DOMAIN st.objs
<1>1. CASE there
  BY <1>1, OnwardStays DEF IfNew
<1>2. CASE ~there
  <2> DEFINE t == [st EXCEPT !.next = st.next + 1, !.km = Put(st.km, d.key, st.next + 1)]
  <2>1. /\ Good(t) /\ Onward(st, t) /\ d.key \in DOMAIN t.km
        /\ t.objs = st.objs /\ t.ok = st.ok
    BY <1>2, NewKey
  <2>2. IfNew(st, d) = t
    BY <1>2 DEF IfNew
  <2> HIDE DEF t
  <2> QED BY <2>1, <2>2
<1> QED BY <1>1, <1>2

LEMMA LoadRestStep ==
    ASSUME NEW st, NEW d, Good(st), WellMade(d), TextsTyped
    PROVE  LET t == LoadRest(st, d) IN Good(t) /\ Onward(st, t)
<1>1. CASE ~st.ok
  BY <1>1, OnwardStays DEF LoadRest
<1>2. CASE /\ st.ok
           /\ \/ Dangles(st.km, d.loc) \/ Dangles(st.km, d.to)
              \/ d.key.sub = "script" /\ Unreadable(d.script, texts)
  <2>1. LoadRest(st, d) = [st EXCEPT !.ok = FALSE]
    BY <1>2 DEF LoadRest
  <2> QED BY <2>1, EndKeeps
<1>3. CASE /\ st.ok /\ ~Dangles(st.km, d.loc) /\ ~Dangles(st.km, d.to)
           /\ ~(d.key.sub = "script" /\ Unreadable(d.script, texts))
  <2> DEFINE at == IfNew(st, d)
  <2>1. LoadRest(st, d) = LoadInto(at, d, at.km[d.key])
    BY <1>3 DEF LoadRest
  <2>2. Good(at) /\ Onward(st, at) /\ d.key \in DOMAIN at.km
    BY IfNewStep
  <2> HIDE DEF at
  <2>3. ~Dangles(at.km, d.loc) /\ ~Dangles(at.km, d.to)
    BY <1>3, <2>2 DEF Dangles, Onward
  <2> DEFINE t == LoadInto(at, d, at.km[d.key])
  <2>4. Good(t) /\ Onward(at, t)
    BY <2>2, <2>3, LoadIntoKeeps
  <2> HIDE DEF t
  <2>5. Onward(st, t)
    BY <2>2, <2>4, OnwardGoesOn
  <2> QED BY <2>1, <2>4, <2>5 DEF t
<1> QED BY <1>1, <1>2, <1>3

(* A world of which every object was changed, and nothing that matters here *)
Like(o, p) ==
    DOMAIN p = DOMAIN o /\ \A r \in DOMAIN o : Same(o[r], p[r]) /\ Written1(o[r], p[r])

LEMMA LikeKeeps ==
    ASSUME NEW o, NEW p, Like(o, p)
    PROVE  Keeps(o, p) /\ NoneMade(o, p) /\ Managed(p) = Managed(o)
BY DEF Like, Keeps, NoneMade, Managed, Same

LEMMA BreakKeeps ==
    ASSUME NEW o, NEW n, World(o, n)
    PROVE  World(BreakArchetypeCycles(o), n) /\ Like(o, BreakArchetypeCycles(o))
<1> DEFINE p == BreakArchetypeCycles(o)
<1>1. DOMAIN p = DOMAIN o
  BY DEF BreakArchetypeCycles
<1>2. ASSUME NEW r \in DOMAIN o
      PROVE  Object(p[r], n) /\ Same(o[r], p[r]) /\ Written1(o[r], p[r])
  <2>1. p[r] = o[r] \/ p[r] = [o[r] EXCEPT !.arch = Nowhere]
    BY DEF BreakArchetypeCycles
  <2>2. Object(o[r], n) /\ n \in Nat
    BY DEF World
  <2>3. CASE p[r] = o[r]
    BY <2>2, <2>3 DEF Same, Written1
  <2>4. CASE p[r] = [o[r] EXCEPT !.arch = Nowhere]
    <3> DEFINE x == o[r]
               y == p[r]
    <3>1. y = [x EXCEPT !.arch = Nowhere] /\ Object(x, n)
      BY <2>2, <2>4
    <3> HIDE DEF x, y
    <3>2. DOMAIN y = Fields /\ y.arch = 0 /\ \A f \in Fields \ {"arch"} : y[f] = x[f]
      BY <3>1 DEF Object, Fields, Nowhere
    <3>3. Object(y, n) /\ Same(x, y) /\ Written1(x, y)
      BY <3>1, <3>2, <2>2 DEF Object, Same, Written1, Fields
    <3> QED BY <3>3 DEF x, y
  <2> QED BY <2>1, <2>3, <2>4
<1> HIDE DEF p
<1>3. World(p, n) /\ Like(o, p)
  BY <1>1, <1>2 DEF World, Like
<1> QED BY <1>3 DEF p

LEMMA StampLockedKeeps ==
    ASSUME NEW o, NEW n, World(o, n)
    PROVE  World(StampLocked(o), n) /\ Like(o, StampLocked(o))
<1> DEFINE p == StampLocked(o)
<1>1. DOMAIN p = DOMAIN o
  BY DEF StampLocked
<1>2. ASSUME NEW r \in DOMAIN o
      PROVE  Object(p[r], n) /\ Same(o[r], p[r]) /\ Written1(o[r], p[r])
  <2> DEFINE x == o[r]
             y == p[r]
             b == o[r].fk.area \in LockedAreas
  <2>1. Object(x, n) /\ (y = x \/ y = [x EXCEPT !.locked = b])
    BY DEF World, StampLocked
  <2> HIDE DEF x, y, b
  <2>2. DOMAIN y = Fields /\ \A f \in Fields \ {"locked"} : y[f] = x[f]
    BY <2>1 DEF Object, Fields
  <2>3. Object(y, n) /\ Same(x, y) /\ Written1(x, y)
    BY <2>1, <2>2 DEF Object, Same, Written1, Fields
  <2> QED BY <2>3 DEF x, y
<1> HIDE DEF p
<1>3. World(p, n) /\ Like(o, p)
  BY <1>1, <1>2 DEF World, Like
<1> QED BY <1>3 DEF p

LEMMA AcyclicStep ==
    ASSUME NEW st, Good(st)
    PROVE  LET t == Acyclic(st)
           IN  /\ Good(t) /\ Onward(st, t) /\ t.km = st.km /\ t.next = st.next
               /\ NoneMade(st.objs, t.objs)
<1>1. CASE ~st.ok
  BY <1>1, OnwardStays DEF Acyclic, NoneMade
<1>2. CASE st.ok
  <2> DEFINE p == BreakArchetypeCycles(st.objs)
             t == [st EXCEPT !.objs = p]
  <2>1. Acyclic(st) = t
    BY <1>2 DEF Acyclic
  <2>2. World(p, st.next) /\ Like(st.objs, p)
    BY BreakKeeps DEF Good
  <2>3. /\ {"objs", "next", "km", "ok"} \subseteq DOMAIN t /\ t.objs = p
        /\ t.next = st.next /\ t.km = st.km
    BY DEF Good
  <2> HIDE DEF t, p
  <2>4. Keeps(st.objs, p) /\ NoneMade(st.objs, p) /\ Managed(p) = Managed(st.objs)
    BY <2>2, LikeKeeps
  <2>5. Good(t)
    BY <2>2, <2>3 DEF Good
  <2>6. Found(st) => Found(t)
    BY <2>3, <2>4 DEF Found, FindsAgain, NoneMade
  <2>7. Onward(st, t)
    BY <2>3, <2>4, <2>6 DEF Onward, Good, World
  <2> QED BY <2>1, <2>3, <2>4, <2>5, <2>7
<1> QED BY <1>1, <1>2

-----------------------------------------------------------------------------
(* A load *)

FilesTyped == \A a \in Areas : files[a] \in Versions[a]
AllThings == UNION {ToSet(c.things) : c \in UNION {Versions[a] : a \in Areas}}
AllRest == UNION {ToSet(c.rest) : c \in UNION {Versions[a] : a \in Areas}}

LEMMA DefinitionsWellMade ==
    /\ \A d \in AllThings : WellMade(d) /\ d.kind # "exit"
    /\ \A d \in AllRest : WellMade(d)
    /\ FilesTyped => \A a \in Areas : files[a].things \in Seq(AllThings) /\ files[a].rest \in Seq(AllRest)
<1>1. ASSUME NEW a \in Areas, NEW c \in Versions[a]
      PROVE  /\ \A d \in ToSet(c.things) : WellMade(d) /\ d.kind # "exit"
             /\ \A d \in ToSet(c.rest) : WellMade(d)
             /\ c.things \in Seq(ToSet(c.things)) /\ c.rest \in Seq(ToSet(c.rest))
  <2>1. InFiles(c)
    BY ContentAssumption
  <2> QED BY <2>1 DEF InFiles, WellFormed, WellMade
<1>2. /\ \A d \in AllThings : WellMade(d) /\ d.kind # "exit"
      /\ \A d \in AllRest : WellMade(d)
  BY <1>1 DEF AllThings, AllRest
<1>3. ASSUME FilesTyped, NEW a \in Areas
      PROVE  files[a].things \in Seq(AllThings) /\ files[a].rest \in Seq(AllRest)
  <2>1. files[a] \in Versions[a]
    BY <1>3 DEF FilesTyped
  <2>2. ToSet(files[a].things) \subseteq AllThings /\ ToSet(files[a].rest) \subseteq AllRest
    BY <2>1 DEF AllThings, AllRest
  <2>3. files[a].things \in Seq(ToSet(files[a].things)) /\ files[a].rest \in Seq(ToSet(files[a].rest))
    BY <1>1, <2>1
  <2> QED BY <2>2, <2>3
<1> QED BY <1>2, <1>3

LEMMA ThingsTyped ==
    ASSUME FilesTyped, NEW S PROVE Things(S) \in Seq(AllThings)
<1> DEFINE N == Len(AreaOrder)
           ds == Things(S)
<1>0. N \in Nat /\ \A i \in 1..N : AreaOrder[i] \in Areas
  BY ContentAssumption
<1>6. PICK w : Run(w, "thingsOfFiles", <<>>, AreaOrder, S) /\ ds = w[N]
  BY <1>0, AlongThingsOfFiles
<1>1. /\ w[0] = <<>> /\ ds = w[N]
      /\ \A i \in 1..N : w[i] = Step("thingsOfFiles", w[i - 1], AreaOrder[i], S)
  BY <1>0, <1>6, RunIs
<1> DEFINE T == {i \in 0..N : w[i] \in Seq(AllThings)}
<1> HIDE DEF ds, N
<1>5. w[0] = <<>> /\ ds = w[N]
  BY <1>1, Zenon
<1>2. 0 \in T
  <2>1. <<>> \in Seq(AllThings)
    OBVIOUS
  <2>2. w[0] \in Seq(AllThings)
    BY <1>5, <2>1
  <2> QED BY <1>0, <2>2
<1>3. ASSUME NEW i \in 1..N, i - 1 \in T PROVE i \in T
  <2>1. w[i - 1] \in Seq(AllThings) /\ files[AreaOrder[i]].things \in Seq(AllThings)
    BY <1>0, <1>3, DefinitionsWellMade
  <2> DEFINE u == w[i - 1]
             v == files[AreaOrder[i]].things
  <2>4. w[i] = Step("thingsOfFiles", u, AreaOrder[i], S)
    BY <1>1
  <2>3. w[i] = u \o v \/ w[i] = u
    <3> HIDE DEF u
    <3> QED BY <2>4, ThingsOfFileSteps
  <2> HIDE DEF u, v
  <2>5. u \in Seq(AllThings) /\ v \in Seq(AllThings)
    BY <2>1 DEF u, v
  <2>2. w[i] \in Seq(AllThings)
    <3>1. u \o v \in Seq(AllThings)
      BY <2>5
    <3> QED BY <2>3, <2>5, <3>1
  <2> QED BY <1>0, <2>2
<1>4. N \in T
  <2> HIDE DEF T
  <2>1. \A i \in 0..N : i \in T
    BY <1>0, <1>2, <1>3, Climb
  <2> QED BY <1>0, <2>1
<1> QED BY <1>5, <1>4 DEF ds

LEMMA RestTyped ==
    ASSUME FilesTyped, NEW S PROVE Rest(S) \in Seq(AllRest)
<1> DEFINE N == Len(AreaOrder)
           ds == Rest(S)
<1>0. N \in Nat /\ \A i \in 1..N : AreaOrder[i] \in Areas
  BY ContentAssumption
<1>6. PICK w : Run(w, "restOfFiles", <<>>, AreaOrder, S) /\ ds = w[N]
  BY <1>0, AlongRestOfFiles
<1>1. /\ w[0] = <<>> /\ ds = w[N]
      /\ \A i \in 1..N : w[i] = Step("restOfFiles", w[i - 1], AreaOrder[i], S)
  BY <1>0, <1>6, RunIs
<1> DEFINE T == {i \in 0..N : w[i] \in Seq(AllRest)}
<1> HIDE DEF ds, N
<1>5. w[0] = <<>> /\ ds = w[N]
  BY <1>1, Zenon
<1>2. 0 \in T
  <2>1. <<>> \in Seq(AllRest)
    OBVIOUS
  <2>2. w[0] \in Seq(AllRest)
    BY <1>5, <2>1
  <2> QED BY <1>0, <2>2
<1>3. ASSUME NEW i \in 1..N, i - 1 \in T PROVE i \in T
  <2>1. w[i - 1] \in Seq(AllRest) /\ files[AreaOrder[i]].rest \in Seq(AllRest)
    BY <1>0, <1>3, DefinitionsWellMade
  <2> DEFINE u == w[i - 1]
             v == files[AreaOrder[i]].rest
  <2>4. w[i] = Step("restOfFiles", u, AreaOrder[i], S)
    BY <1>1
  <2>3. w[i] = u \o v \/ w[i] = u
    <3> HIDE DEF u
    <3> QED BY <2>4, RestOfFileSteps
  <2> HIDE DEF u, v
  <2>5. u \in Seq(AllRest) /\ v \in Seq(AllRest)
    BY <2>1 DEF u, v
  <2>2. w[i] \in Seq(AllRest)
    <3>1. u \o v \in Seq(AllRest)
      BY <2>5
    <3> QED BY <2>3, <2>5, <3>1
  <2> QED BY <1>0, <2>2
<1>4. N \in T
  <2> HIDE DEF T
  <2>1. \A i \in 0..N : i \in T
    BY <1>0, <1>2, <1>3, Climb
  <2> QED BY <1>0, <2>1
<1> QED BY <1>5, <1>4 DEF ds

(* Pass 1 gives every key a reference. *)
LEMMA AssignLoop ==
    ASSUME NEW st, NEW s, Len(s) \in Nat, Good(st)
    PROVE  LET t == Assigned(st, s)
           IN  /\ Good(t) /\ Onward(st, t) /\ t.objs = st.objs /\ t.ok = st.ok
               /\ \A i \in 1..Len(s) : s[i].key \in DOMAIN t.km
<1> DEFINE N == Len(s)
           t == Assigned(st, s)
           Held(i, u) == /\ Good(u) /\ Onward(st, u) /\ u.objs = st.objs /\ u.ok = st.ok
                         /\ \A j \in 1..i : s[j].key \in DOMAIN u.km
<1>5. PICK w : Run(w, "assign", st, s, 0) /\ t = w[N]
  BY AlongAssign
<1>1. w[0] = st /\ t = w[N] /\ \A i \in 1..N : w[i] = Assign(w[i - 1], s[i])
  BY <1>5, RunIs, Steps
<1> DEFINE T == {i \in 0..N : Held(i, w[i])}
<1> HIDE DEF t, N
<1>0. N \in Nat
  BY DEF N
<1>2. 0 \in T
  BY <1>0, <1>1, OnwardStays
<1>3. ASSUME NEW i \in 1..N, i - 1 \in T PROVE i \in T
  <2> DEFINE u == w[i - 1]
             v == w[i]
  <2>1. Held(i - 1, u) /\ v = Assign(u, s[i])
    BY <1>1, <1>3
  <2> HIDE DEF u, v
  <2>2. Good(v) /\ Onward(u, v) /\ s[i].key \in DOMAIN v.km /\ v.objs = u.objs /\ v.ok = u.ok
    BY <2>1, AssignStep
  <2>3. Onward(st, v)
    BY <2>1, <2>2, OnwardGoesOn
  <2>4. \A j \in 1..i : s[j].key \in DOMAIN v.km
    <3>1. ASSUME NEW j \in 1..i PROVE s[j].key \in DOMAIN v.km
      <4>1. j = i \/ j \in 1..(i - 1)
        OBVIOUS
      <4> QED BY <4>1, <2>1, <2>2 DEF Onward
    <3> QED BY <3>1
  <2>5. Held(i, v)
    BY <2>1, <2>2, <2>3, <2>4
  <2> HIDE DEF Held
  <2> QED BY <1>0, <2>5 DEF v
<1>4. N \in T
  <2> HIDE DEF T
  <2>1. \A i \in 0..N : i \in T
    BY <1>0, <1>2, <1>3, Climb
  <2> QED BY <1>0, <2>1
<1> QED BY <1>1, <1>4 DEF t, N

(* Pass 2: the definitions of things one by one *)
LEMMA ThingLoop ==
    ASSUME NEW st, NEW s, Len(s) \in Nat, Good(st), TextsTyped,
           \A i \in 1..Len(s) : WellMade(s[i]) /\ s[i].kind # "exit" /\ s[i].key \in DOMAIN st.km
    PROVE  LET t == ThingsLoaded(st, s) IN Good(t) /\ Onward(st, t)
<1> DEFINE N == Len(s)
           t == ThingsLoaded(st, s)
           Held(u) == Good(u) /\ Onward(st, u)
<1>5. PICK w : Run(w, "thing", st, s, 0) /\ t = w[N]
  BY AlongThing
<1>1. w[0] = st /\ t = w[N] /\ \A i \in 1..N : w[i] = LoadThing(w[i - 1], s[i])
  BY <1>5, RunIs, Steps
<1> DEFINE T == {i \in 0..N : Held(w[i])}
<1>6. \A i \in 1..N : WellMade(s[i]) /\ s[i].kind # "exit" /\ s[i].key \in DOMAIN st.km
  OBVIOUS
<1>0. N \in Nat
  OBVIOUS
<1> HIDE DEF t, N
<1>2. 0 \in T
  BY <1>0, <1>1, OnwardStays
<1>3. ASSUME NEW i \in 1..N, i - 1 \in T PROVE i \in T
  <2> DEFINE u == w[i - 1]
             v == w[i]
             d == s[i]
  <2>1. Held(u) /\ v = LoadThing(u, d) /\ WellMade(d) /\ d.kind # "exit" /\ d.key \in DOMAIN st.km
    BY <1>1, <1>3, <1>6
  <2> HIDE DEF u, v, d
  <2>2. d.key \in DOMAIN u.km
    BY <2>1 DEF Onward
  <2>3. Good(v) /\ Onward(u, v)
    BY <2>1, <2>2, LoadThingStep
  <2>4. Held(v)
    BY <2>1, <2>3, OnwardGoesOn
  <2> HIDE DEF Held
  <2> QED BY <1>0, <2>4 DEF v
<1>4. N \in T
  <2> HIDE DEF T
  <2>1. \A i \in 0..N : i \in T
    BY <1>0, <1>2, <1>3, Climb
  <2> QED BY <1>0, <2>1
<1> QED BY <1>1, <1>4 DEF t

(* The definitions of exits and scripts one by one *)
LEMMA RestLoop ==
    ASSUME NEW st, NEW s, Len(s) \in Nat, Good(st), TextsTyped,
           \A i \in 1..Len(s) : WellMade(s[i])
    PROVE  LET t == RestLoaded(st, s) IN Good(t) /\ Onward(st, t)
<1> DEFINE N == Len(s)
           t == RestLoaded(st, s)
           Held(u) == Good(u) /\ Onward(st, u)
<1>5. PICK w : Run(w, "rest", st, s, 0) /\ t = w[N]
  BY AlongRest
<1>1. w[0] = st /\ t = w[N] /\ \A i \in 1..N : w[i] = LoadRest(w[i - 1], s[i])
  BY <1>5, RunIs, Steps
<1> DEFINE T == {i \in 0..N : Held(w[i])}
<1>6. \A i \in 1..N : WellMade(s[i])
  OBVIOUS
<1>0. N \in Nat
  OBVIOUS
<1> HIDE DEF t, N
<1>2. 0 \in T
  BY <1>0, <1>1, OnwardStays
<1>3. ASSUME NEW i \in 1..N, i - 1 \in T PROVE i \in T
  <2> DEFINE u == w[i - 1]
             v == w[i]
             d == s[i]
  <2>1. Held(u) /\ v = LoadRest(u, d) /\ WellMade(d)
    BY <1>1, <1>3, <1>6
  <2> HIDE DEF u, v, d
  <2>2. Good(v) /\ Onward(u, v)
    BY <2>1, LoadRestStep
  <2>3. Held(v)
    BY <2>1, <2>2, OnwardGoesOn
  <2> HIDE DEF Held
  <2> QED BY <1>0, <2>3 DEF v
<1>4. N \in T
  <2> HIDE DEF T
  <2>1. \A i \in 0..N : i \in T
    BY <1>0, <1>2, <1>3, Climb
  <2> QED BY <1>0, <2>1
<1> QED BY <1>1, <1>4 DEF t

LEMMA LoadAreasKeeps ==
    ASSUME NEW st, NEW S, Good(st), TextsTyped, FilesTyped
    PROVE  LET t == LoadAreas(st, S) IN Good(t) /\ Onward(st, t)
<1> DEFINE things == Things(S)
           rest == Rest(S)
           a == Assigned(st, things)
           b == ThingsLoaded(a, things)
           c == RestLoaded(b, rest)
<1>1. things \in Seq(AllThings) /\ rest \in Seq(AllRest)
  BY ThingsTyped, RestTyped
<1>2. LoadAreas(st, S) = c
  BY DEF LoadAreas
<1> HIDE DEF things, rest
<1>3. /\ Len(things) \in Nat /\ Len(rest) \in Nat
      /\ \A i \in 1..Len(things) : WellMade(things[i]) /\ things[i].kind # "exit"
      /\ \A i \in 1..Len(rest) : WellMade(rest[i])
  <2>1. /\ Len(things) \in Nat /\ Len(rest) \in Nat
        /\ \A i \in 1..Len(things) : things[i] \in AllThings
        /\ \A i \in 1..Len(rest) : rest[i] \in AllRest
    BY <1>1
  <2> QED BY <2>1, DefinitionsWellMade
<1>4. Good(a) /\ Onward(st, a) /\ \A i \in 1..Len(things) : things[i].key \in DOMAIN a.km
  BY <1>3, AssignLoop
<1> HIDE DEF a
<1>5. Good(b) /\ Onward(a, b)
  BY <1>3, <1>4, ThingLoop
<1> HIDE DEF b
<1>6. Good(c) /\ Onward(b, c)
  BY <1>3, <1>5, RestLoop
<1> HIDE DEF c
<1>7. Onward(st, b)
  BY <1>4, <1>5, OnwardGoesOn
<1>8. Onward(st, c)
  BY <1>5, <1>6, <1>7, OnwardGoesOn
<1> QED BY <1>2, <1>6, <1>8

(* What holds of a load's key map *)
Names(o, km) == \A r \in Managed(o) : FindsAgain(km, o[r], r)

LEMMA FoundUnique == ASSUME NEW st, Found(st) PROVE Unique(st.objs)
BY DEF Found, FindsAgain, Unique

LEMMA LoadKeeps ==
    ASSUME NEW o, NEW next, NEW km, NEW h, World(o, next), \A k \in DOMAIN km : km[k] \in 1..next,
           TextsTyped, FilesTyped
    PROVE  LET t == Load(o, next, km, h)
           IN  Good(t) /\ next <= t.next /\ Keeps(o, t.objs) /\ (Names(o, km) => Unique(t.objs))
<1> DEFINE start == [objs |-> o, next |-> next, km |-> km, ok |-> TRUE]
           t == Load(o, next, km, h)
<1>1. Good(start) /\ (Names(o, km) => Found(start))
  <2>1. /\ DOMAIN start = {"objs", "next", "km", "ok"}
        /\ start.objs = o /\ start.next = next /\ start.km = km
    OBVIOUS
  <2> HIDE DEF start
  <2> QED BY <2>1 DEF Good, Found, Names
<1>2. CASE Present = {}
  <2> DEFINE u == [start EXCEPT !.km = << >>]
  <2>1. t = u
    BY <1>2 DEF Load
  <2>2. /\ DOMAIN u = {"objs", "next", "km", "ok"}
        /\ u.objs = o /\ u.next = next /\ DOMAIN u.km = {}
    OBVIOUS
  <2>3. Names(o, km) => Unique(o)
    BY DEF Names, FindsAgain, Unique
  <2> HIDE DEF u, t
  <2>4. Good(u) /\ next <= u.next /\ Keeps(o, u.objs) /\ (Names(o, km) => Unique(u.objs))
    BY <2>2, <2>3 DEF Good, World, Keeps, Written1
  <2> QED BY <2>1, <2>4 DEF t
<1>3. CASE Present # {} /\ \E a \in Present : ~files[a].parses
  <2> DEFINE u == [start EXCEPT !.ok = FALSE]
  <2>1. t = u
    BY <1>3 DEF Load
  <2>2. start.objs = o /\ start.next = next
    OBVIOUS
  <2>3. Good(u) /\ Onward(start, u)
    <3> HIDE DEF start
    <3> QED BY <1>1, EndKeeps
  <2> HIDE DEF u, t, start
  <2>4. Good(u) /\ next <= u.next /\ Keeps(o, u.objs) /\ (Names(o, km) => Unique(u.objs))
    BY <1>1, <2>2, <2>3, FoundUnique DEF Onward
  <2> QED BY <2>1, <2>4 DEF t
<1>4. CASE Present # {} /\ ~ \E a \in Present : ~files[a].parses
  <2> DEFINE u == LoadAreas(start, HalfDone(h))
             v == Acyclic(u)
  <2>1. t = v
    BY <1>4 DEF Load
  <2>2. start.objs = o /\ start.next = next
    OBVIOUS
  <2> HIDE DEF t, start
  <2>3. Good(u) /\ Onward(start, u)
    BY <1>1, LoadAreasKeeps
  <2> HIDE DEF u
  <2>4. Good(v) /\ Onward(u, v)
    BY <2>3, AcyclicStep
  <2> HIDE DEF v
  <2>5. Onward(start, v)
    BY <1>1, <2>3, <2>4, OnwardGoesOn
  <2>6. Good(v) /\ next <= v.next /\ Keeps(o, v.objs) /\ (Names(o, km) => Unique(v.objs))
    BY <1>1, <2>2, <2>4, <2>5, FoundUnique DEF Onward
  <2> QED BY <2>1, <2>6 DEF t
<1> QED BY <1>2, <1>3, <1>4

-----------------------------------------------------------------------------
(* Keys *)

(* One member of each set is picked. *)
LEMMA SelectionsPick ==
    ASSUME NEW sets, NEW f \in Selections(sets), \A k \in DOMAIN sets : sets[k] # {}
    PROVE  DOMAIN f = DOMAIN sets /\ \A k \in DOMAIN sets : f[k] \in sets[k]
<1> DEFINE open == {k \in DOMAIN sets : Cardinality(sets[k]) > 1}
           picks == {g \in [open -> UNION {sets[k] : k \in open}] : \A k \in open : g[k] \in sets[k]}
<1>1. PICK g \in picks :
         f = [k \in DOMAIN sets |-> IF k \in open THEN g[k] ELSE CHOOSE r \in sets[k] : TRUE]
  BY DEF Selections
<1>2. \A k \in open : g[k] \in sets[k]
  OBVIOUS
<1> HIDE DEF open, picks
<1>3. ASSUME NEW k \in DOMAIN sets PROVE f[k] \in sets[k]
  <2>1. CASE k \in open
    BY <1>1, <1>2, <2>1
  <2>2. CASE k \notin open
    BY <1>1, <2>2
  <2> QED BY <2>1, <2>2
<1> QED BY <1>1, <1>3

LEMMA KeyMapsPick ==
    ASSUME NEW o, NEW R \in SUBSET DOMAIN o, NEW km \in KeyMaps(o, R)
    PROVE  /\ DOMAIN km = {o[r].fk : r \in R} \ {NoKey}
           /\ \A k \in DOMAIN km : km[k] \in R /\ o[km[k]].fk = k
<1> DEFINE K == {o[r].fk : r \in R} \ {NoKey}
           sets == [k \in K |-> {r \in R : o[r].fk = k}]
<1>1. km \in Selections(sets)
  BY DEF KeyMaps
<1>2. DOMAIN sets = K /\ \A k \in K : sets[k] = {r \in R : o[r].fk = k} /\ sets[k] # {}
  OBVIOUS
<1> HIDE DEF sets
<1>3. DOMAIN km = K /\ \A k \in K : km[k] \in sets[k]
  BY <1>1, <1>2, SelectionsPick
<1> QED BY <1>2, <1>3

LEMMA KeyMapsTyped ==
    ASSUME NEW o, NEW n, World(o, n),
           NEW km \in ManagedKeyMaps(o) \cup KeyMapsFromWorld(o)
    PROVE  \A k \in DOMAIN km : km[k] \in 1..n
<1>1. CASE km \in ManagedKeyMaps(o)
  <2>1. Managed(o) \in SUBSET DOMAIN o
    BY DEF Managed
  <2>2. \A k \in DOMAIN km : km[k] \in Managed(o)
    BY <1>1, <2>1, KeyMapsPick DEF ManagedKeyMaps
  <2> QED BY <2>1, <2>2 DEF World
<1>2. CASE km \in KeyMapsFromWorld(o)
  <2>1. \A k \in DOMAIN km : km[k] \in DOMAIN o
    BY <1>2, KeyMapsPick DEF KeyMapsFromWorld
  <2> QED BY <2>1 DEF World
<1> QED BY <1>1, <1>2

LEMMA ManagedNames ==
    ASSUME NEW o, NEW n, World(o, n), Unique(o), NEW km \in ManagedKeyMaps(o)
    PROVE  Names(o, km)
<1>1. Managed(o) \in SUBSET DOMAIN o
  BY DEF Managed
<1>2. /\ DOMAIN km = {o[r].fk : r \in Managed(o)} \ {NoKey}
      /\ \A k \in DOMAIN km : km[k] \in Managed(o) /\ o[km[k]].fk = k
  BY <1>1, KeyMapsPick DEF ManagedKeyMaps
<1>3. ASSUME NEW r \in Managed(o) PROVE FindsAgain(km, o[r], r)
  <2>1. o[r].fk # NoKey
    BY DEF World, Object, Managed
  <2>2. o[r].fk \in DOMAIN km
    BY <1>2, <2>1
  <2>3. km[o[r].fk] \in Managed(o) /\ o[km[o[r].fk]].fk = o[r].fk
    BY <1>2, <2>2
  <2> QED BY <2>2, <2>3 DEF Unique, FindsAgain
<1> QED BY <1>3 DEF Names

-----------------------------------------------------------------------------
(* An import *)

BundleTyped(b) ==
    /\ Len(b.things) \in Nat /\ Len(b.rest) \in Nat
    /\ \A i \in 1..Len(b.things) : WellMade(b.things[i]) /\ b.things[i].kind # "exit"
    /\ \A i \in 1..Len(b.rest) : WellMade(b.rest[i])
    /\ \A p \in DOMAIN b.texts : b.texts[p] \in Texts \cup {NoText}

LEMMA BundlesTyped == ASSUME NEW b \in Bundles PROVE BundleTyped(b)
<1>1. InFiles(b) /\ \A p \in DOMAIN b.texts : b.texts[p] \in Texts \cup {NoText}
  BY ContentAssumption DEF NoText
<1>2. /\ b.things \in Seq(ToSet(b.things)) /\ b.rest \in Seq(ToSet(b.rest))
      /\ \A d \in ToSet(b.things) : WellMade(d) /\ d.kind # "exit"
      /\ \A d \in ToSet(b.rest) : WellMade(d)
  BY <1>1 DEF InFiles, WellFormed, WellMade
<1>3. /\ Len(b.things) \in Nat /\ \A i \in 1..Len(b.things) : b.things[i] \in ToSet(b.things)
      /\ Len(b.rest) \in Nat /\ \A i \in 1..Len(b.rest) : b.rest[i] \in ToSet(b.rest)
  BY <1>2
<1> QED BY <1>1, <1>2, <1>3 DEF BundleTyped

LEMMA ResolveScriptKeeps ==
    ASSUME NEW o, NEW d, NEW b, NEW n \in Nat, Object(o, n), BundleTyped(b)
    PROVE  LET y == ResolveScript(o, d, b).obj
           IN  Object(y, n) /\ Same(o, y) /\ Written1(o, y)
<1> DEFINE keepsScript == d.script = NoKey \/ o.script.origin = "ingame"
           badScript == Unreadable(d.script, b.texts)
           script == IF keepsScript \/ badScript THEN o.script ELSE FromFile(b.texts[d.script])
           shadowedLib == o.lib.origin = "ingame"
           badLib == Unreadable(d.lib, b.texts)
           lib == IF shadowedLib \/ badScript THEN o.lib
                  ELSE IF d.lib = NoKey \/ badLib THEN NoProgram ELSE FromFile(b.texts[d.lib])
           y == [o EXCEPT !.script = script, !.lib = lib]
<1>1. ResolveScript(o, d, b).obj = y
  BY DEF ResolveScript
<1>2. ASSUME NEW p, p # NoKey, ~Unreadable(p, b.texts) PROVE FromFile(b.texts[p]) \in Program
  <2>1. b.texts[p] \in Texts
    BY <1>2 DEF Unreadable, BundleTyped
  <2> QED BY <2>1, FileProgram
<1>3. script \in Program /\ lib \in Program
  <2>1. o.script \in Program /\ o.lib \in Program /\ NoProgram \in Program
    BY DEF Object, Program
  <2>2. script \in Program
    <3>1. CASE keepsScript \/ badScript
      BY <3>1, <2>1
    <3>2. CASE ~keepsScript /\ ~badScript
      BY <3>2, <1>2
    <3> QED BY <3>1, <3>2
  <2>3. lib \in Program
    <3>1. CASE shadowedLib \/ badScript \/ d.lib = NoKey \/ badLib
      BY <3>1, <2>1
    <3>2. CASE ~shadowedLib /\ ~badScript /\ d.lib # NoKey /\ ~badLib
      BY <3>2, <1>2
    <3> QED BY <3>1, <3>2
  <2> QED BY <2>2, <2>3
<1>4. o.script.origin = "ingame" => script = o.script
  OBVIOUS
<1> HIDE DEF script, lib
<1>5. /\ DOMAIN y = Fields /\ y.script = script /\ y.lib = lib
      /\ \A f \in Fields \ {"script", "lib"} : y[f] = o[f]
  BY DEF Object, Fields
<1>6. Object(y, n) /\ Same(o, y)
  BY <1>3, <1>5 DEF Object, Same, Fields
<1>7. Written1(o, y)
  BY <1>4, <1>5 DEF Written1
<1> QED BY <1>1, <1>6, <1>7

(* What an import makes of an object: none that it adds is made by files. *)
LEMMA ImportIntoKeeps ==
    ASSUME NEW st, NEW d, NEW r, NEW b, Good(st), WellMade(d), BundleTyped(b),
           d.key \in DOMAIN st.km, r = st.km[d.key],
           ~Dangles(st.km, d.loc), d.kind = "exit" => ~Dangles(st.km, d.to)
    PROVE  LET t == ImportInto(st, d, r, b)
           IN  Good(t) /\ Onward(st, t) /\ t.km = st.km /\ NoneMade(st.objs, t.objs)
<1> DEFINE before == IF r \in DOMAIN st.objs THEN st.objs[r]
                     ELSE [Blank(d.kind, d.key.base) EXCEPT !.fk = d.key]
           told == Described(before, d, st.km)
           kept == [told EXCEPT !.kind = before.kind]
           res == ResolveScript(kept, d, b)
           t == Imported(st, d, r, res)
<1>1. ImportInto(st, d, r, b) = t
  BY DEF ImportInto
<1>2. st.next \in Nat /\ World(st.objs, st.next) /\ r \in 1..st.next
  BY DEF Good, World
<1>3. Object(before, st.next) /\ (r \notin DOMAIN st.objs => ~before.managed)
  <2>1. CASE r \in DOMAIN st.objs
    BY <2>1, <1>2 DEF World
  <2>2. CASE r \notin DOMAIN st.objs
    <3> DEFINE x == Blank(d.kind, d.key.base)
               m == [x EXCEPT !.fk = d.key]
    <3>1. Object(x, st.next) /\ ~x.managed
      BY <1>2, BlankObject DEF WellMade, Kinds, Blank
    <3> HIDE DEF x
    <3>2. DOMAIN m = Fields /\ \A f \in Fields \ {"fk"} : m[f] = x[f]
      BY <3>1 DEF Object, Fields
    <3>3. before = m
      BY <2>2 DEF x
    <3> HIDE DEF m, before
    <3>4. Object(m, st.next) /\ ~m.managed
      BY <3>1, <3>2 DEF Object, Fields
    <3> QED BY <3>3, <3>4
  <2> QED BY <2>1, <2>2
<1> HIDE DEF before
<1>4. Object(told, st.next) /\ Same(before, told) /\ told.script = before.script
  BY <1>2, <1>3, DescribedKeeps DEF Good
<1> HIDE DEF told
<1>5. Object(kept, st.next) /\ Same(before, kept) /\ kept.script = before.script
  <2>1. /\ DOMAIN kept = Fields /\ kept.kind = before.kind
        /\ \A f \in Fields \ {"kind"} : kept[f] = told[f]
    BY <1>4 DEF Object, Fields
  <2> HIDE DEF kept
  <2> QED BY <2>1, <1>3, <1>4 DEF Object, Same, Fields
<1> HIDE DEF kept
<1>6. Object(res.obj, st.next) /\ Same(kept, res.obj) /\ Written1(kept, res.obj)
  BY <1>2, <1>5, ResolveScriptKeeps
<1> HIDE DEF res
<1>7. Same(before, res.obj) /\ Written1(before, res.obj)
  BY <1>5, <1>6 DEF Same, Written1
<1> DEFINE isNew == r \notin DOMAIN st.objs
           u == [st EXCEPT !.objs = Put(st.objs, r, res.obj), !.ok = res.ok,
                           !.created = IF isNew /\ res.ok THEN @ \cup {d.key} ELSE @]
<1>8. t = u
  BY DEF Imported
<1>9. /\ {"objs", "next", "km", "ok"} \subseteq DOMAIN u
      /\ u.objs = Put(st.objs, r, res.obj) /\ u.next = st.next /\ u.km = st.km
  BY DEF Good
<1>10. r \in DOMAIN st.objs => Same(st.objs[r], res.obj) /\ Written1(st.objs[r], res.obj)
  BY <1>7 DEF before
<1>11. r \notin DOMAIN st.objs => ~res.obj.managed
  BY <1>3, <1>7 DEF Same
<1> HIDE DEF u, t
<1>12. Good(u) /\ Onward(st, u) /\ NoneMade(st.objs, u.objs)
  BY <1>2, <1>6, <1>9, <1>10, <1>11, PutObject
<1> QED BY <1>1, <1>8, <1>9, <1>12

LEMMA NoneMadeGoesOn ==
    ASSUME NEW o, NEW p, NEW q, NoneMade(o, p), NoneMade(p, q) PROVE NoneMade(o, q)
BY DEF NoneMade

LEMMA NoneMadeStays == ASSUME NEW o PROVE NoneMade(o, o)
BY DEF NoneMade

LEMMA ImportThingStep ==
    ASSUME NEW st, NEW d, NEW b, Good(st), WellMade(d), d.kind # "exit", BundleTyped(b),
           d.key \in DOMAIN st.km
    PROVE  LET t == ImportThing(st, d, b)
           IN  Good(t) /\ Onward(st, t) /\ NoneMade(st.objs, t.objs)
<1>1. CASE ~st.ok
  BY <1>1, OnwardStays, NoneMadeStays DEF ImportThing
<1>2. CASE st.ok /\ Dangles(st.km, d.loc)
  <2>1. ImportThing(st, d, b) = [st EXCEPT !.ok = FALSE]
    BY <1>2 DEF ImportThing
  <2> QED BY <2>1, EndKeeps, NoneMadeStays
<1>3. CASE st.ok /\ ~Dangles(st.km, d.loc)
  <2>1. ImportThing(st, d, b) = ImportInto(st, d, st.km[d.key], b)
    BY <1>3 DEF ImportThing
  <2> QED BY <2>1, <1>3, ImportIntoKeeps
<1> QED BY <1>1, <1>2, <1>3

LEMMA ImportRestStep ==
    ASSUME NEW st, NEW d, NEW b, Good(st), WellMade(d), BundleTyped(b)
    PROVE  LET t == ImportRest(st, d, b)
           IN  Good(t) /\ Onward(st, t) /\ NoneMade(st.objs, t.objs)
<1>1. CASE ~st.ok
  BY <1>1, OnwardStays, NoneMadeStays DEF ImportRest
<1>2. CASE st.ok /\ (Dangles(st.km, d.loc) \/ Dangles(st.km, d.to))
  <2>1. ImportRest(st, d, b) = [st EXCEPT !.ok = FALSE]
    BY <1>2 DEF ImportRest
  <2> QED BY <2>1, EndKeeps, NoneMadeStays
<1>3. CASE st.ok /\ ~Dangles(st.km, d.loc) /\ ~Dangles(st.km, d.to)
  <2> DEFINE at == IfNew(st, d)
  <2>1. ImportRest(st, d, b) = ImportInto(at, d, at.km[d.key], b)
    BY <1>3 DEF ImportRest
  <2>2. Good(at) /\ Onward(st, at) /\ d.key \in DOMAIN at.km /\ at.objs = st.objs
    BY IfNewStep
  <2> HIDE DEF at
  <2>3. ~Dangles(at.km, d.loc) /\ ~Dangles(at.km, d.to)
    BY <1>3, <2>2 DEF Dangles, Onward
  <2> DEFINE t == ImportInto(at, d, at.km[d.key], b)
  <2>4. Good(t) /\ Onward(at, t) /\ NoneMade(at.objs, t.objs)
    BY <2>2, <2>3, ImportIntoKeeps
  <2> HIDE DEF t
  <2>5. Onward(st, t)
    BY <2>2, <2>4, OnwardGoesOn
  <2> QED BY <2>1, <2>2, <2>4, <2>5 DEF t
<1> QED BY <1>1, <1>2, <1>3

LEMMA ImportThingLoop ==
    ASSUME NEW st, NEW b, Good(st), BundleTyped(b),
           \A i \in 1..Len(b.things) : b.things[i].key \in DOMAIN st.km
    PROVE  LET t == ImportThings(b, st) IN Good(t) /\ Onward(st, t) /\ NoneMade(st.objs, t.objs)
<1> DEFINE s == b.things
           N == Len(s)
           t == ImportThings(b, st)
           Held(u) == Good(u) /\ Onward(st, u) /\ NoneMade(st.objs, u.objs)
<1>0. /\ N \in Nat
      /\ \A i \in 1..N : WellMade(s[i]) /\ s[i].kind # "exit" /\ s[i].key \in DOMAIN st.km
  BY DEF BundleTyped
<1>5. PICK w : Run(w, "import", st, s, b) /\ t = w[N]
  BY <1>0, AlongImport
<1>1. w[0] = st /\ t = w[N] /\ \A i \in 1..N : w[i] = ImportThing(w[i - 1], s[i], b)
  BY <1>0, <1>5, RunIs, Steps
<1> DEFINE T == {i \in 0..N : Held(w[i])}
<1> HIDE DEF t, N, s
<1>2. 0 \in T
  BY <1>0, <1>1, OnwardStays, NoneMadeStays
<1>3. ASSUME NEW i \in 1..N, i - 1 \in T PROVE i \in T
  <2> DEFINE u == w[i - 1]
             v == w[i]
             d == s[i]
  <2>1. /\ Held(u) /\ v = ImportThing(u, d, b)
        /\ WellMade(d) /\ d.kind # "exit" /\ d.key \in DOMAIN st.km
    BY <1>0, <1>1, <1>3
  <2> HIDE DEF u, v, d
  <2>2. d.key \in DOMAIN u.km
    BY <2>1 DEF Onward
  <2>3. Good(v) /\ Onward(u, v) /\ NoneMade(u.objs, v.objs)
    BY <2>1, <2>2, ImportThingStep
  <2>4. Held(v)
    BY <2>1, <2>3, OnwardGoesOn, NoneMadeGoesOn
  <2> HIDE DEF Held
  <2> QED BY <1>0, <2>4 DEF v
<1>4. N \in T
  <2> HIDE DEF T
  <2>1. \A i \in 0..N : i \in T
    BY <1>0, <1>2, <1>3, Climb
  <2> QED BY <1>0, <2>1
<1> QED BY <1>1, <1>4 DEF t

LEMMA ImportRestLoop ==
    ASSUME NEW st, NEW b, Good(st), BundleTyped(b)
    PROVE  LET t == ImportRests(b, st) IN Good(t) /\ Onward(st, t) /\ NoneMade(st.objs, t.objs)
<1> DEFINE s == b.rest
           N == Len(s)
           t == ImportRests(b, st)
           Held(u) == Good(u) /\ Onward(st, u) /\ NoneMade(st.objs, u.objs)
<1>0. N \in Nat /\ \A i \in 1..N : WellMade(s[i])
  BY DEF BundleTyped
<1>5. PICK w : Run(w, "importRest", st, s, b) /\ t = w[N]
  BY <1>0, AlongImportRest
<1>1. w[0] = st /\ t = w[N] /\ \A i \in 1..N : w[i] = ImportRest(w[i - 1], s[i], b)
  BY <1>0, <1>5, RunIs, Steps
<1> DEFINE T == {i \in 0..N : Held(w[i])}
<1> HIDE DEF t, N, s
<1>2. 0 \in T
  BY <1>0, <1>1, OnwardStays, NoneMadeStays
<1>3. ASSUME NEW i \in 1..N, i - 1 \in T PROVE i \in T
  <2> DEFINE u == w[i - 1]
             v == w[i]
             d == s[i]
  <2>1. Held(u) /\ v = ImportRest(u, d, b) /\ WellMade(d)
    BY <1>0, <1>1, <1>3
  <2> HIDE DEF u, v, d
  <2>2. Good(v) /\ Onward(u, v) /\ NoneMade(u.objs, v.objs)
    BY <2>1, ImportRestStep
  <2>3. Held(v)
    BY <2>1, <2>2, OnwardGoesOn, NoneMadeGoesOn
  <2> HIDE DEF Held
  <2> QED BY <1>0, <2>3 DEF v
<1>4. N \in T
  <2> HIDE DEF T
  <2>1. \A i \in 0..N : i \in T
    BY <1>0, <1>2, <1>3, Climb
  <2> QED BY <1>0, <2>1
<1> QED BY <1>1, <1>4 DEF t

(* An import adds objects and keeps what is written in the game; nothing that *)
(* it adds counts as made by files.                                           *)
LEMMA ImportKeeps ==
    ASSUME NEW b \in Bundles, NEW o, NEW next, NEW st \in Imports(b, o, next), World(o, next)
    PROVE  Good(st) /\ next <= st.next /\ Keeps(o, st.objs) /\ NoneMade(o, st.objs)
<1>1. PICK km \in KeyMapsFromWorld(o) : st = Import(b, o, next, km)
  BY DEF Imports
<1>2. \A k \in DOMAIN km : km[k] \in 1..next
  BY <1>1, KeyMapsTyped
<1>3. BundleTyped(b)
  BY BundlesTyped
<1> DEFINE start == [objs |-> o, next |-> next, km |-> km, ok |-> TRUE, created |-> {}]
<1>4. {"objs", "next", "km", "ok"} \subseteq DOMAIN start /\ start.objs = o /\ start.next = next /\ start.km = km
  OBVIOUS
<1>5. CASE Collides(b)
  <2>1. st = [start EXCEPT !.ok = FALSE]
    BY <1>1, <1>5 DEF Import
  <2> HIDE DEF start
  <2>2. Good(start)
    BY <1>2, <1>4 DEF Good
  <2>3. Good(st) /\ Onward(start, st) /\ st.objs = start.objs /\ st.next = start.next
    BY <2>1, <2>2, EndKeeps
  <2> QED BY <1>4, <2>3, NoneMadeStays DEF Onward
<1>6. CASE ~Collides(b)
  <2> DEFINE a == Assigned(start, b.things)
             c == ImportThings(b, a)
             d == Acyclic(c)
             e == ImportRests(b, d)
  <2>1. st = e
    BY <1>1, <1>6 DEF Import
  <2> HIDE DEF start
  <2>2. Good(start) /\ Len(b.things) \in Nat
    BY <1>2, <1>3, <1>4 DEF Good, BundleTyped
  <2>3. /\ Good(a) /\ Onward(start, a) /\ a.objs = start.objs
        /\ \A i \in 1..Len(b.things) : b.things[i].key \in DOMAIN a.km
    BY <2>2, AssignLoop
  <2> HIDE DEF a
  <2>4. Good(c) /\ Onward(a, c) /\ NoneMade(a.objs, c.objs)
    BY <1>3, <2>3, ImportThingLoop
  <2> HIDE DEF c
  <2>5. Good(d) /\ Onward(c, d) /\ NoneMade(c.objs, d.objs)
    BY <2>4, AcyclicStep
  <2> HIDE DEF d
  <2>6. Good(e) /\ Onward(d, e) /\ NoneMade(d.objs, e.objs)
    BY <1>3, <2>5, ImportRestLoop
  <2> HIDE DEF e
  <2>7. Onward(start, c)
    BY <2>2, <2>3, <2>4, OnwardGoesOn
  <2>8. Onward(start, d)
    BY <2>2, <2>4, <2>5, <2>7, OnwardGoesOn
  <2>9. Onward(start, e)
    BY <2>2, <2>5, <2>6, <2>8, OnwardGoesOn
  <2>10. NoneMade(o, d.objs)
    BY <1>4, <2>3, <2>4, <2>5, NoneMadeGoesOn
  <2>11. NoneMade(o, e.objs)
    BY <2>6, <2>10, NoneMadeGoesOn
  <2> QED BY <1>4, <2>1, <2>6, <2>9, <2>11 DEF Onward
<1> QED BY <1>5, <1>6

-----------------------------------------------------------------------------
(* An export *)

(* As many members that are all different are all there are. *)
LEMMA Onto ==
    ASSUME NEW S, IsFiniteSet(S), NEW n \in Nat, Cardinality(S) = n,
           NEW f \in [S -> 1..n], \A x, y \in S : f[x] = f[y] => x = y
    PROVE  \A i \in 1..n : \E x \in S : f[x] = i
<1>1. IsFiniteSet(1..n) /\ Cardinality(1..n) = n
  <2>1. 1 \in Int /\ n \in Int
    OBVIOUS
  <2> QED BY <2>1, FS_Interval
<1>2. f \in Injection(S, 1..n)
  BY DEF Injection, IsInjective
<1>3. f \in Surjection(S, 1..n)
  BY <1>1, <1>2, FS_Injection
<1> QED BY <1>3 DEF Surjection

(* The i-th member of an ordered set is one of them. *)
LEMMA InOrderPicks ==
    ASSUME NEW S, IsFiniteSet(S), NEW below \in [S -> SUBSET S],
           \A x \in S : x \notin below[x] /\ \A y \in below[x] : below[y] \subseteq below[x],
           \A x, y \in S : x = y \/ x \in below[y] \/ y \in below[x]
    PROVE  \A i \in 1..Cardinality(S) : \E x \in S : Cardinality(below[x]) = i - 1
<1> DEFINE n == Cardinality(S)
           f == [x \in S |-> Cardinality(below[x]) + 1]
<1>1. n \in Nat
  BY FS_CardinalityType
<1>2. ASSUME NEW x \in S, NEW T \in SUBSET S, NEW y \in T, NEW U \in SUBSET T, y \notin U
      PROVE  Cardinality(U) \in Nat /\ Cardinality(T) \in Nat /\ Cardinality(U) < Cardinality(T)
  <2>1. IsFiniteSet(T)
    BY FS_Subset
  <2>2. IsFiniteSet(U) /\ Cardinality(U) <= Cardinality(T) /\ (Cardinality(T) = Cardinality(U) => T = U)
    BY <2>1, FS_Subset
  <2>3. Cardinality(U) \in Nat /\ Cardinality(T) \in Nat
    BY <2>1, <2>2, FS_CardinalityType
  <2> QED BY <1>2, <2>2, <2>3
<1>3. ASSUME NEW x \in S PROVE Cardinality(below[x]) \in Nat /\ Cardinality(below[x]) < n
  <2>1. S \in SUBSET S /\ below[x] \in SUBSET S /\ x \notin below[x]
    OBVIOUS
  <2> QED BY <1>2, <2>1
<1>4. f \in [S -> 1..n]
  BY <1>1, <1>3
<1>5. ASSUME NEW x \in S, NEW y \in below[x] PROVE Cardinality(below[y]) < Cardinality(below[x])
  <2>1. /\ y \in S /\ below[x] \in SUBSET S /\ below[y] \in SUBSET below[x] /\ y \notin below[y]
    OBVIOUS
  <2> QED BY <1>2, <2>1
<1>6. ASSUME NEW x \in S, NEW y \in S, f[x] = f[y] PROVE x = y
  <2>1. Cardinality(below[x]) = Cardinality(below[y])
    BY <1>3, <1>6
  <2>2. y \notin below[x] /\ x \notin below[y]
    BY <1>3, <1>5, <2>1
  <2> QED BY <2>2
<1>7. \A i \in 1..n : \E x \in S : f[x] = i
  <2> HIDE DEF f, n
  <2>1. Cardinality(S) = n
    BY DEF n
  <2> QED BY <1>1, <1>4, <1>6, <2>1, Onto
<1>8. ASSUME NEW i \in 1..n PROVE \E x \in S : Cardinality(below[x]) = i - 1
  <2>1. PICK x \in S : f[x] = i
    BY <1>7
  <2> QED BY <1>1, <1>3, <2>1
<1> QED BY <1>8

(* The objects an export gives keys to, and how they come *)
Todo(o) == {r \in DOMAIN o : o[r].fk = NoKey /\ o[r].kind # "player"}
Ranks == [k \in Kinds |-> CASE k = "room" -> 1 [] k = "item" -> 2 [] k = "code" -> 3
                            [] k = "exit" -> 4 [] OTHER -> 5]
Earlier(o, q, r) ==
    \/ Ranks[o[q].kind] < Ranks[o[r].kind]
    \/ Ranks[o[q].kind] = Ranks[o[r].kind] /\ q < r

LEMMA RanksTyped == \A k \in Kinds : Ranks[k] \in Nat
<1>1. ASSUME NEW k \in Kinds PROVE Ranks[k] \in Nat
  BY DEF Ranks, Kinds
<1> QED BY <1>1

LEMMA StampOrder ==
    ASSUME NEW o, NEW n, World(o, n)
    PROVE  \E s : /\ Len(s) \in Nat /\ \A i \in 1..Len(s) : s[i] \in Todo(o)
                  /\ StampMissingIdentities(o) = Stamped(o, s)
<1> DEFINE S == Todo(o)
           below == [x \in S |-> {y \in S : Earlier(o, y, x)}]
           s == [i \in 1..Cardinality(S) |-> CHOOSE x \in S : Cardinality({y \in S : Earlier(o, y, x)}) = i - 1]
<1>1. /\ n \in Nat /\ S \subseteq 1..n
      /\ \A x \in S : o[x].kind \in Kinds /\ Ranks[o[x].kind] \in Nat
  BY RanksTyped DEF World, Object, Todo
<1>2. IsFiniteSet(S) /\ Cardinality(S) \in Nat
  <2>1. IsFiniteSet(1..n)
    <3>1. 1 \in Int /\ n \in Int
      BY <1>1
    <3> QED BY <3>1, FS_Interval
  <2>2. IsFiniteSet(S)
    BY <1>1, <2>1, FS_Subset
  <2> QED BY <2>2, FS_CardinalityType
<1>3. StampMissingIdentities(o) = Stamped(o, s)
  BY DEF StampMissingIdentities, InOrder, Earlier, Ranks, Todo
<1>4. \A i \in 1..Cardinality(S) : \E x \in S : Cardinality(below[x]) = i - 1
  <2>1. below \in [S -> SUBSET S]
    OBVIOUS
  <2>2. ASSUME NEW x \in S PROVE x \notin below[x]
    BY <1>1 DEF Earlier
  <2>3. ASSUME NEW x \in S, NEW y \in below[x] PROVE below[y] \subseteq below[x]
    <3>1. ASSUME NEW z \in below[y] PROVE z \in below[x]
      <4>1. y \in S /\ z \in S /\ Earlier(o, y, x) /\ Earlier(o, z, y)
        BY <2>3, <3>1
      <4>2. Earlier(o, z, x)
        <5> DEFINE a == Ranks[o[x].kind]
                   b == Ranks[o[y].kind]
                   c == Ranks[o[z].kind]
        <5>1. /\ a \in Nat /\ b \in Nat /\ c \in Nat /\ x \in Nat /\ y \in Nat /\ z \in Nat
              /\ (b < a \/ (b = a /\ y < x)) /\ (c < b \/ (c = b /\ z < y))
          BY <1>1, <4>1 DEF Earlier
        <5> HIDE DEF a, b, c
        <5>2. c < a \/ (c = a /\ z < x)
          BY <5>1
        <5> QED BY <5>2 DEF Earlier, a, c
      <4> QED BY <4>1, <4>2
    <3> QED BY <3>1
  <2>4. ASSUME NEW x \in S, NEW y \in S PROVE x = y \/ x \in below[y] \/ y \in below[x]
    <3> DEFINE a == Ranks[o[x].kind]
               b == Ranks[o[y].kind]
    <3>1. a \in Nat /\ b \in Nat /\ x \in Nat /\ y \in Nat
      BY <1>1
    <3>2. x = y \/ (a < b \/ (a = b /\ x < y)) \/ (b < a \/ (b = a /\ y < x))
      <4> HIDE DEF a, b
      <4> QED BY <3>1
    <3> QED BY <3>2 DEF Earlier
  <2> HIDE DEF S, below
  <2> QED BY <1>2, <2>1, <2>2, <2>3, <2>4, InOrderPicks
<1>5. ASSUME NEW i \in 1..Cardinality(S) PROVE s[i] \in S
  <2>1. \E x \in S : Cardinality({y \in S : Earlier(o, y, x)}) = i - 1
    BY <1>4
  <2> HIDE DEF S
  <2> QED BY <2>1
<1>6. Len(s) = Cardinality(S)
  <2> HIDE DEF S
  <2> QED BY <1>2
<1> HIDE DEF s, S
<1> QED BY <1>2, <1>3, <1>5, <1>6 DEF S

(* One that is given a key changes in nothing else. *)
LEMMA StampOneKeeps ==
    ASSUME NEW o, NEW n, NEW r, World(o, n), ~o[r].managed
    PROVE  LET p == StampOne(o, r)
           IN  World(p, n) /\ Keeps(o, p) /\ NoneMade(o, p) /\ \A q \in DOMAIN o : p[q].managed = o[q].managed
<1> DEFINE p == StampOne(o, r)
<1>1. p = o \/ \E key : p = [o EXCEPT ![r].fk = key]
  <2> DEFINE x == o[r]
             area == ResolveExportArea(o, r)
             key == CASE x.kind = "room" -> DedupeKey(o, ThingKey(Unfiled, x.name, 1))
                      [] x.kind = "item" -> DedupeKey(o, ThingKey(area, x.name, 1))
                      [] x.kind = "code" -> DedupeKey(o, ScriptKey(Unfiled, x.name, 1))
                      [] x.kind = "exit" /\ x.loc \in DOMAIN o ->
                            ExitKey(o[x.loc].fk.area, o[x.loc].fk, x.name)
                      [] OTHER -> NoKey
  <2>1. p = IF x.kind = "exit" /\ key \in KeysOf(o) THEN o ELSE [o EXCEPT ![r].fk = key]
    BY DEF StampOne
  <2> HIDE DEF p, key, x
  <2> QED BY <2>1
<1> HIDE DEF p
<1>2. CASE p = o
  BY <1>2, NoneMadeStays DEF Keeps, Written1, p
<1>3. ASSUME NEW key, p = [o EXCEPT ![r].fk = key]
      PROVE  World(p, n) /\ Keeps(o, p) /\ NoneMade(o, p) /\ \A q \in DOMAIN o : p[q].managed = o[q].managed
  <2>1. DOMAIN p = DOMAIN o /\ \A q \in DOMAIN o \ {r} : p[q] = o[q]
    BY <1>3
  <2>2. CASE r \notin DOMAIN o
    BY <2>1, <2>2, NoneMadeStays DEF World, Keeps, Written1, NoneMade, Managed
  <2>3. CASE r \in DOMAIN o
    <3> DEFINE x == o[r]
               y == p[r]
    <3>1. y = [x EXCEPT !.fk = key] /\ Object(x, n)
      BY <1>3, <2>3 DEF World
    <3> HIDE DEF x, y
    <3>2. DOMAIN y = Fields /\ \A f \in Fields \ {"fk"} : y[f] = x[f]
      BY <3>1 DEF Object, Fields
    <3>3. ~x.managed
      BY DEF x
    <3>4. Object(y, n) /\ ~y.managed /\ x.managed = y.managed /\ Written1(x, y)
      BY <3>1, <3>2, <3>3 DEF Object, Written1, Fields
    <3>5. World(p, n)
      <4>1. ASSUME NEW q \in DOMAIN p PROVE Object(p[q], n)
        BY <2>1, <3>4 DEF World, y
      <4> QED BY <2>1, <4>1 DEF World
    <3>6. Keeps(o, p)
      BY <2>1, <3>4 DEF Keeps, Written1, x, y
    <3>7. NoneMade(o, p)
      BY <2>1, <3>4 DEF NoneMade, Managed, y
    <3>8. \A q \in DOMAIN o : p[q].managed = o[q].managed
      BY <2>1, <3>4 DEF x, y
    <3> QED BY <3>5, <3>6, <3>7, <3>8
  <2> QED BY <2>2, <2>3
<1> QED BY <1>1, <1>2, <1>3 DEF p

LEMMA ExportKeeps ==
    ASSUME NEW o, NEW n, World(o, n)
    PROVE  LET p == StampMissingIdentities(o)
           IN  World(p, n) /\ Keeps(o, p) /\ NoneMade(o, p)
<1>1. PICK s : /\ Len(s) \in Nat /\ \A i \in 1..Len(s) : s[i] \in Todo(o)
               /\ StampMissingIdentities(o) = Stamped(o, s)
  BY StampOrder
<1>2. \A i \in 1..Len(s) : s[i] \in DOMAIN o /\ ~o[s[i]].managed
  BY <1>1 DEF Todo, World, Object
<1> DEFINE N == Len(s)
           t == Stamped(o, s)
           Held(p) == /\ World(p, n) /\ Keeps(o, p) /\ NoneMade(o, p)
                      /\ \A q \in DOMAIN o : p[q].managed = o[q].managed
<1>5. PICK w : Run(w, "stamp", o, s, 0) /\ t = w[N]
  BY <1>1, AlongStamp
<1>3. w[0] = o /\ t = w[N] /\ \A i \in 1..N : w[i] = StampOne(w[i - 1], s[i])
  BY <1>1, <1>5, RunIs, Steps
<1> DEFINE T == {i \in 0..N : Held(w[i])}
<1>0. N \in Nat /\ \A i \in 1..N : s[i] \in DOMAIN o /\ ~o[s[i]].managed
  BY <1>1, <1>2
<1> HIDE DEF t, N
<1>4. 0 \in T
  <2>1. Held(o)
    BY NoneMadeStays DEF Keeps, Written1
  <2> HIDE DEF Held
  <2> QED BY <1>0, <1>3, <2>1
<1>6. ASSUME NEW i \in 1..N, i - 1 \in T PROVE i \in T
  <2> DEFINE u == w[i - 1]
             v == w[i]
             r == s[i]
  <2>1. Held(u) /\ v = StampOne(u, r) /\ r \in DOMAIN o /\ ~o[r].managed
    BY <1>0, <1>3, <1>6
  <2> HIDE DEF u, v, r
  <2>2. ~u[r].managed
    BY <2>1
  <2>3. World(v, n) /\ Keeps(u, v) /\ NoneMade(u, v) /\ \A q \in DOMAIN u : v[q].managed = u[q].managed
    BY <2>1, <2>2, StampOneKeeps
  <2>4. Keeps(o, v) /\ NoneMade(o, v)
    BY <2>1, <2>3, NoneMadeGoesOn DEF Keeps, Written1
  <2>5. \A q \in DOMAIN o : v[q].managed = o[q].managed
    BY <2>1, <2>3 DEF Keeps
  <2>6. Held(v)
    BY <2>3, <2>4, <2>5
  <2> HIDE DEF Held
  <2> QED BY <1>0, <2>6 DEF v
<1>7. N \in T
  <2> HIDE DEF T
  <2>1. \A i \in 0..N : i \in T
    BY <1>0, <1>4, <1>6, Climb
  <2> QED BY <1>0, <2>1
<1> QED BY <1>1, <1>3, <1>7 DEF t

-----------------------------------------------------------------------------
(* A revision *)

(* What the first i operations of a revision move *)
Moves(o, mf, i) == UNION {Sources(o, mf, mf.rename[j]) : j \in 1..i}
MovesOf(o, mf) == Moves(o, mf, Len(mf.rename))
Made1(plan) == {plan.stamps[i] : i \in DOMAIN plan.stamps}

(* A plan whose moves are those of P.  With operations apart, the object that *)
(* was moved last holds the key it has got, and a key from which nothing was  *)
(* moved is held by an object that had it all along.                          *)
Sound(plan, o, mf, P) ==
    plan.ok =>
      /\ plan.stamps \in Seq(MovesOf(o, mf)) /\ Made1(plan) = P
      /\ Apart(mf) =>
           /\ \A m \in P : m.new \in DOMAIN plan.occ /\ plan.occ[m.new] = m.ref
           /\ \A k \in KeysOf(o) \ mf.remove :
                 (\A m \in P : m.old # k) =>
                    /\ k \in DOMAIN plan.occ /\ plan.occ[k] \in DOMAIN o
                    /\ o[plan.occ[k]].fk = k

LEMMA SourcesAre ==
    ASSUME NEW o, NEW mf, NEW op, NEW m
    PROVE  m \in Sources(o, mf, op) <=>
              /\ m = [ref |-> m.ref, old |-> o[m.ref].fk, new |-> op[o[m.ref].fk]]
              /\ m.ref \in DOMAIN o /\ o[m.ref].fk \in DOMAIN op \ mf.remove
<1>1. ASSUME m \in Sources(o, mf, op)
      PROVE  /\ m = [ref |-> m.ref, old |-> o[m.ref].fk, new |-> op[o[m.ref].fk]]
             /\ m.ref \in DOMAIN o /\ o[m.ref].fk \in DOMAIN op \ mf.remove
  <2>1. PICK r \in DOMAIN o : /\ o[r].fk \in DOMAIN op \ mf.remove
                              /\ m = [ref |-> r, old |-> o[r].fk, new |-> op[o[r].fk]]
    BY <1>1 DEF Sources
  <2>2. m.ref = r
    BY <2>1
  <2> QED BY <2>1, <2>2
<1>2. ASSUME m = [ref |-> m.ref, old |-> o[m.ref].fk, new |-> op[o[m.ref].fk]],
             m.ref \in DOMAIN o, o[m.ref].fk \in DOMAIN op \ mf.remove
      PROVE  m \in Sources(o, mf, op)
  BY <1>2 DEF Sources
<1> QED BY <1>1, <1>2

(* A move says from which key to which; operations apart, what is moved from  *)
(* one key is moved to one key, and by one operation.                         *)
LEMMA MovesAre ==
    ASSUME NEW o, NEW mf, NEW i, NEW m \in Moves(o, mf, i), OfFiles(mf), i \in 0..Len(mf.rename)
    PROVE  \E j \in 1..i :
              /\ m \in Sources(o, mf, mf.rename[j])
              /\ m.ref \in DOMAIN o /\ m.old = o[m.ref].fk
              /\ m.old \in DOMAIN mf.rename[j] \ mf.remove
              /\ m.new = mf.rename[j][m.old] /\ m.new # NoKey /\ m.old # NoKey
              /\ m = [ref |-> m.ref, old |-> m.old, new |-> m.new]
<1>1. PICK j \in 1..i : m \in Sources(o, mf, mf.rename[j])
  BY DEF Moves
<1>2. /\ m = [ref |-> m.ref, old |-> o[m.ref].fk, new |-> mf.rename[j][o[m.ref].fk]]
      /\ m.ref \in DOMAIN o /\ o[m.ref].fk \in DOMAIN mf.rename[j] \ mf.remove
  BY <1>1, SourcesAre
<1>3. m.old = o[m.ref].fk /\ m.new = mf.rename[j][o[m.ref].fk]
  BY <1>2
<1>4. mf.rename[j] \in ToSet(mf.rename)
  <2>1. mf.rename \in Seq(ToSet(mf.rename)) /\ j \in 1..Len(mf.rename)
    BY DEF OfFiles
  <2> QED BY <2>1
<1>5. m.new # NoKey /\ m.old # NoKey
  BY <1>2, <1>3, <1>4 DEF OfFiles
<1> QED BY <1>1, <1>2, <1>3, <1>5

LEMMA MovesApart ==
    ASSUME NEW o, NEW mf, OfFiles(mf), Apart(mf),
           NEW m \in MovesOf(o, mf), NEW l \in MovesOf(o, mf), m.old = l.old
    PROVE  m.new = l.new /\ (m.ref = l.ref => m = l)
<1> DEFINE N == Len(mf.rename)
<1>1. N \in Nat /\ DOMAIN mf.rename = 1..N
  BY DEF OfFiles
<1>2. PICK i \in 1..N : /\ m.old \in DOMAIN mf.rename[i] /\ m.new = mf.rename[i][m.old]
                        /\ m = [ref |-> m.ref, old |-> m.old, new |-> m.new]
  BY <1>1, MovesAre DEF MovesOf
<1>3. PICK j \in 1..N : /\ l.old \in DOMAIN mf.rename[j] /\ l.new = mf.rename[j][l.old]
                        /\ l = [ref |-> l.ref, old |-> l.old, new |-> l.new]
  BY <1>1, MovesAre DEF MovesOf
<1>4. i = j
  BY <1>1, <1>2, <1>3 DEF Apart
<1>5. m.new = l.new
  BY <1>2, <1>3, <1>4
<1> QED BY <1>2, <1>3, <1>5

(* One object restamped *)
LEMMA RestampStep ==
    ASSUME NEW o, NEW mf, OfFiles(mf), NEW P \in SUBSET MovesOf(o, mf),
           NEW m \in MovesOf(o, mf), Apart(mf) => m \notin P, NEW plan, Sound(plan, o, mf, P)
    PROVE  Sound(Restamp(plan, m), o, mf, P \cup {m})
<1> DEFINE occ == plan.occ
           taken == m.new \in DOMAIN occ /\ occ[m.new] # m.ref
           t == Restamp(plan, m)
<1>1. CASE ~plan.ok \/ taken
  <2>1. t = [plan EXCEPT !.ok = FALSE]
    BY <1>1 DEF Restamp
  <2>2. ~t.ok \/ t = plan
    BY <2>1
  <2>3. CASE ~t.ok
    BY <2>3 DEF Sound
  <2>4. CASE t.ok
    <3>1. FALSE
      BY <2>1, <2>4
    <3> QED BY <3>1
  <2> QED BY <2>3, <2>4
<1>2. CASE plan.ok /\ ~taken
  <2> DEFINE left == Restrict(occ, DOMAIN occ \ {m.old})
             occ2 == [k \in DOMAIN left \cup {m.new} |-> IF k = m.new THEN m.ref ELSE left[k]]
             stamps == Append(plan.stamps, m)
  <2>1. t = [ok |-> TRUE, occ |-> occ2, stamps |-> stamps]
    BY <1>2 DEF Restamp
  <2>2. t.occ = occ2 /\ t.stamps = stamps
    BY <2>1
  <2>3. /\ DOMAIN occ2 = (DOMAIN occ \ {m.old}) \cup {m.new} /\ occ2[m.new] = m.ref
        /\ \A k \in DOMAIN occ \ {m.old, m.new} : occ2[k] = occ[k]
    BY DEF Restrict
  <2>4. plan.stamps \in Seq(MovesOf(o, mf)) /\ Made1(plan) = P
    BY <1>2 DEF Sound
  <2>5. stamps \in Seq(MovesOf(o, mf)) /\ Made1(t) = P \cup {m}
    <3>1. stamps \in Seq(MovesOf(o, mf))
      BY <2>4
    <3>2. /\ DOMAIN stamps = 1..(Len(plan.stamps) + 1) /\ Len(plan.stamps) \in Nat
          /\ DOMAIN plan.stamps = 1..Len(plan.stamps) /\ stamps[Len(plan.stamps) + 1] = m
          /\ \A i \in 1..Len(plan.stamps) : stamps[i] = plan.stamps[i]
      BY <2>4
    <3> HIDE DEF stamps, t
    <3>3. Made1(t) = P \cup {m}
      <4>1. ASSUME NEW x \in P \cup {m} PROVE x \in Made1(t)
        BY <2>2, <2>4, <3>2, <4>1 DEF Made1
      <4>2. ASSUME NEW x \in Made1(t) PROVE x \in P \cup {m}
        <5>1. PICK i \in 1..(Len(plan.stamps) + 1) : x = stamps[i]
          BY <2>2, <3>2, <4>2 DEF Made1
        <5>2. i = Len(plan.stamps) + 1 \/ i \in 1..Len(plan.stamps)
          BY <3>2
        <5> QED BY <2>4, <3>2, <5>1, <5>2 DEF Made1
      <4> QED BY <4>1, <4>2
    <3> QED BY <3>1, <3>3
  <2> HIDE DEF t, occ2, stamps
  <2>6. ASSUME Apart(mf)
        PROVE  /\ \A l \in P \cup {m} : l.new \in DOMAIN occ2 /\ occ2[l.new] = l.ref
               /\ \A k \in KeysOf(o) \ mf.remove :
                     (\A l \in P \cup {m} : l.old # k) =>
                        k \in DOMAIN occ2 /\ occ2[k] \in DOMAIN o /\ o[occ2[k]].fk = k
    <3>1. /\ \A l \in P : l.new \in DOMAIN occ /\ occ[l.new] = l.ref
          /\ \A k \in KeysOf(o) \ mf.remove :
                (\A l \in P : l.old # k) => k \in DOMAIN occ /\ occ[k] \in DOMAIN o /\ o[occ[k]].fk = k
      BY <1>2, <2>6 DEF Sound
    <3>2. m.ref \in DOMAIN o /\ m.old = o[m.ref].fk /\ m.old # NoKey /\ m.old \notin mf.remove
      <4>1. Len(mf.rename) \in Nat
        BY DEF OfFiles
      <4> QED BY <4>1, MovesAre DEF MovesOf
    <3>3. ~taken
      BY <1>2
    <3>4. \A l \in P : l.old # m.old
      <4>1. ASSUME NEW l \in P, l.old = m.old PROVE FALSE
        <5>1. m.new = l.new /\ (m.ref = l.ref => m = l)
          BY <2>6, <4>1, MovesApart
        <5>2. occ[m.new] = l.ref /\ m.new \in DOMAIN occ
          BY <3>1, <5>1
        <5> QED BY <2>6, <3>3, <5>1, <5>2
      <4> QED BY <4>1
    <3>5. m.old \in DOMAIN occ /\ occ[m.old] \in DOMAIN o /\ o[occ[m.old]].fk = m.old
      BY <3>1, <3>2, <3>4 DEF KeysOf
    <3>6. ASSUME NEW l \in P PROVE l.new \in DOMAIN occ2 /\ occ2[l.new] = l.ref
      <4>1. l.ref \in DOMAIN o /\ l.old = o[l.ref].fk
        <5>1. Len(mf.rename) \in Nat
          BY DEF OfFiles
        <5> QED BY <5>1, MovesAre DEF MovesOf
      <4>2. l.ref # m.ref
        BY <3>2, <3>4, <4>1
      <4>3. l.new # m.new
        BY <3>1, <3>3, <4>2
      <4>4. l.new # m.old
        BY <3>1, <3>4, <3>5, <4>1
      <4> QED BY <2>3, <3>1, <4>3, <4>4
    <3>7. ASSUME NEW k \in KeysOf(o) \ mf.remove, \A l \in P \cup {m} : l.old # k
          PROVE  k \in DOMAIN occ2 /\ occ2[k] \in DOMAIN o /\ o[occ2[k]].fk = k
      <4>1. k \in DOMAIN occ /\ occ[k] \in DOMAIN o /\ o[occ[k]].fk = k /\ k # m.old
        BY <3>1, <3>7
      <4>2. occ[k] # m.ref
        BY <3>2, <4>1
      <4>3. k # m.new
        BY <3>3, <4>1, <4>2
      <4> QED BY <2>3, <4>1, <4>3
    <3>8. ASSUME NEW l \in P \cup {m} PROVE l.new \in DOMAIN occ2 /\ occ2[l.new] = l.ref
      BY <2>3, <3>6
    <3> QED BY <3>7, <3>8
  <2> QED BY <2>2, <2>5, <2>6 DEF Sound, t
<1> QED BY <1>1, <1>2

LEMMA SourcesFinite ==
    ASSUME NEW o, NEW n, World(o, n), NEW mf, NEW op
    PROVE  LET S == Sources(o, mf, op)
           IN  IsFiniteSet(S) /\ Cardinality(S) \in Nat
<1> DEFINE S == Sources(o, mf, op)
           f == [m \in S |-> m.ref]
<1>1. n \in Nat /\ DOMAIN o \subseteq 1..n
  BY DEF World
<1>2. IsFiniteSet(1..n)
  <2>1. 1 \in Int /\ n \in Int
    BY <1>1
  <2> QED BY <2>1, FS_Interval
<1>3. \A m \in S : /\ m = [ref |-> m.ref, old |-> o[m.ref].fk, new |-> op[o[m.ref].fk]]
                   /\ m.ref \in DOMAIN o
  BY SourcesAre
<1> HIDE DEF S
<1>4. f \in Injection(S, 1..n)
  <2>1. f \in [S -> 1..n]
    BY <1>1, <1>3
  <2>2. ASSUME NEW m \in S, NEW l \in S, f[m] = f[l] PROVE m = l
    BY <1>3, <2>2
  <2> HIDE DEF f
  <2> QED BY <2>1, <2>2 DEF Injection, IsInjective
<1>5. IsFiniteSet(S)
  <2> HIDE DEF f
  <2> QED BY <1>2, <1>4, FS_Injection
<1> QED BY <1>5, FS_CardinalityType DEF S

(* An operation visits all its sources, each once. *)
LEMMA VisitsAll ==
    ASSUME NEW S, IsFiniteSet(S), NEW s \in SetToSeqs(S)
    PROVE  /\ Len(s) \in Nat /\ \A i \in 1..Len(s) : s[i] \in S
           /\ \A i, j \in 1..Len(s) : s[i] = s[j] => i = j
           /\ S = {s[i] : i \in 1..Len(s)}
<1> DEFINE n == Cardinality(S)
<1>1. n \in Nat
  BY FS_CardinalityType
<1>2. s \in [1..n -> S] /\ \A i, j \in 1..n : i # j => s[i] # s[j]
  BY DEF SetToSeqs
<1>3. Len(s) = n
  <2> HIDE DEF n
  <2> QED BY <1>1, <1>2
<1>4. S \subseteq {s[i] : i \in 1..n}
  <2>1. IsFiniteSet(1..n) /\ Cardinality(1..n) = n
    <3>1. 1 \in Int /\ n \in Int
      BY <1>1
    <3> HIDE DEF n
    <3> QED BY <1>1, <3>1, FS_Interval
  <2>2. s \in Injection(1..n, S)
    BY <1>2 DEF Injection, IsInjective
  <2>3. s \in Surjection(1..n, S)
    BY <2>1, <2>2, FS_Injection
  <2> QED BY <2>3 DEF Surjection
<1> HIDE DEF n
<1> QED BY <1>1, <1>2, <1>3, <1>4

LEMMA OperationKeeps ==
    ASSUME NEW o, NEW n, World(o, n), NEW mf, OfFiles(mf), NEW i \in 1..Len(mf.rename),
           NEW s \in SetToSeqs(Sources(o, mf, mf.rename[i])), NEW plan,
           Sound(plan, o, mf, Moves(o, mf, i - 1))
    PROVE  Sound(Moved(plan, s), o, mf, Moves(o, mf, i))
<1> DEFINE S == Sources(o, mf, mf.rename[i])
           P == Moves(o, mf, i - 1)
           M == MovesOf(o, mf)
           N == Len(s)
           Part(j) == P \cup {s[l] : l \in 1..j}
           t == Moved(plan, s)
<1>1. /\ N \in Nat /\ \A j \in 1..N : s[j] \in S
      /\ \A j, l \in 1..N : s[j] = s[l] => j = l
      /\ S = {s[j] : j \in 1..N}
  BY SourcesFinite, VisitsAll
<1>2. P \subseteq M /\ S \subseteq M /\ Moves(o, mf, i) = P \cup S
  <2>1. Len(mf.rename) \in Nat /\ 1..i = 1..(i - 1) \cup {i} /\ 1..i \subseteq 1..Len(mf.rename)
    BY DEF OfFiles
  <2> QED BY <2>1 DEF Moves, MovesOf
<1>3. Apart(mf) => P \cap S = {}
  <2> SUFFICES ASSUME Apart(mf), NEW m \in P \cap S PROVE FALSE
    OBVIOUS
  <2>1. Len(mf.rename) \in Nat /\ DOMAIN mf.rename = 1..Len(mf.rename)
    BY DEF OfFiles
  <2>2. PICK j \in 1..(i - 1) : m \in Sources(o, mf, mf.rename[j])
    BY DEF Moves
  <2>3. o[m.ref].fk \in DOMAIN mf.rename[i] /\ o[m.ref].fk \in DOMAIN mf.rename[j]
    BY <2>2, SourcesAre
  <2> QED BY <2>1, <2>2, <2>3 DEF Apart
<1>4. PICK w : Run(w, "restamp", plan, s, 0) /\ t = w[N]
  BY <1>1, AlongRestamp
<1>5. w[0] = plan /\ t = w[N] /\ \A j \in 1..N : w[j] = Restamp(w[j - 1], s[j])
  BY <1>1, <1>4, RunIs, Steps
<1> DEFINE T == {j \in 0..N : Sound(w[j], o, mf, Part(j))}
<1>6. Sound(plan, o, mf, P)
  OBVIOUS
<1> HIDE DEF S, P, M, N, t
<1>7. 0 \in T
  <2>1. Part(0) = P
    OBVIOUS
  <2> HIDE DEF Part
  <2>2. Sound(w[0], o, mf, Part(0))
    BY <1>5, <1>6, <2>1
  <2> QED BY <1>1, <2>2
<1>8. ASSUME NEW j \in 1..N, j - 1 \in T PROVE j \in T
  <2>1. Sound(w[j - 1], o, mf, Part(j - 1)) /\ w[j] = Restamp(w[j - 1], s[j])
    BY <1>5, <1>8
  <2>2. Part(j - 1) \subseteq M /\ s[j] \in M
    BY <1>1, <1>2
  <2>3. Apart(mf) => s[j] \notin Part(j - 1)
    <3> SUFFICES ASSUME Apart(mf), s[j] \in Part(j - 1) PROVE FALSE
      OBVIOUS
    <3>1. s[j] \in S /\ s[j] \notin P
      BY <1>1, <1>3
    <3>2. PICK l \in 1..(j - 1) : s[j] = s[l]
      BY <3>1
    <3> QED BY <1>1, <3>2
  <2>4. Part(j) = Part(j - 1) \cup {s[j]}
    <3>1. 1..j = 1..(j - 1) \cup {j}
      BY <1>1
    <3> QED BY <3>1
  <2> HIDE DEF Part
  <2>5. Sound(w[j], o, mf, Part(j))
    BY <2>1, <2>2, <2>3, <2>4, RestampStep DEF M
  <2> QED BY <1>1, <2>5
<1>9. N \in T
  <2> HIDE DEF T
  <2>1. \A j \in 0..N : j \in T
    BY <1>1, <1>7, <1>8, Climb
  <2> QED BY <1>1, <2>1
<1>10. Sound(t, o, mf, P \cup S)
  BY <1>1, <1>5, <1>9
<1> QED BY <1>2, <1>10 DEF t

(* What a plan starts from: every key that stays is held by one that carries it. *)
LEMMA FirstPlansSound ==
    ASSUME NEW o, NEW mf, OfFiles(mf), NEW plan \in FirstPlans(o, mf)
    PROVE  Sound(plan, o, mf, Moves(o, mf, 0))
<1> DEFINE K == KeysOf(o) \ mf.remove
           sets == [k \in K |-> Holders(o, k)]
<1>1. PICK occ \in Selections(sets) : plan = [ok |-> TRUE, occ |-> occ, stamps |-> <<>>]
  BY DEF FirstPlans, Occupations
<1>2. plan.occ = occ /\ plan.stamps = <<>>
  BY <1>1
<1>3. DOMAIN sets = K /\ \A k \in K : sets[k] = Holders(o, k) /\ sets[k] # {}
  BY DEF KeysOf, Holders
<1> HIDE DEF sets
<1>4. DOMAIN occ = K /\ \A k \in K : occ[k] \in Holders(o, k)
  BY <1>1, <1>3, SelectionsPick
<1>5. Moves(o, mf, 0) = {}
  BY DEF Moves
<1>6. plan.stamps \in Seq(MovesOf(o, mf)) /\ Made1(plan) = {}
  <2>1. <<>> \in Seq(MovesOf(o, mf))
    OBVIOUS
  <2>2. DOMAIN plan.stamps = {}
    BY <1>2
  <2> QED BY <1>2, <2>1, <2>2 DEF Made1
<1>7. \A k \in K : k \in DOMAIN plan.occ /\ plan.occ[k] \in DOMAIN o /\ o[plan.occ[k]].fk = k
  BY <1>2, <1>4 DEF Holders
<1> QED BY <1>5, <1>6, <1>7 DEF Sound

LEMMA PlansSound ==
    ASSUME NEW o, NEW n, World(o, n), NEW mf, OfFiles(mf), NEW plan \in Plans(o, mf)
    PROVE  Sound(plan, o, mf, MovesOf(o, mf))
<1> DEFINE N == Len(mf.rename)
           t == Plans(o, mf)
<1>0. N \in Nat
  BY DEF OfFiles
<1>1. PICK w : Run(w, "plan", FirstPlans(o, mf), mf.rename, <<o, mf>>) /\ t = w[N]
  BY <1>0, AlongPlan
<1>2. /\ w[0] = FirstPlans(o, mf) /\ t = w[N]
      /\ \A i \in 1..N : w[i] = PlanOp(o, mf, mf.rename[i], w[i - 1])
  BY <1>0, <1>1, RunIs, PlanSteps
<1> DEFINE T == {i \in 0..N : \A p \in w[i] : Sound(p, o, mf, Moves(o, mf, i))}
<1>3. 0 \in T
  BY <1>0, <1>2, FirstPlansSound
<1>4. ASSUME NEW i \in 1..N, i - 1 \in T PROVE i \in T
  <2>1. ASSUME NEW p \in w[i] PROVE Sound(p, o, mf, Moves(o, mf, i))
    <3>1. p \in PlanOp(o, mf, mf.rename[i], w[i - 1])
      BY <1>2, <2>1
    <3>2. PICK q \in w[i - 1], s \in SetToSeqs(Sources(o, mf, mf.rename[i])) : p = Moved(q, s)
      BY <3>1 DEF PlanOp
    <3>3. Sound(q, o, mf, Moves(o, mf, i - 1))
      BY <1>4, <3>2
    <3> QED BY <3>2, <3>3, OperationKeeps
  <2> QED BY <1>0, <2>1
<1>5. N \in T
  <2> HIDE DEF T
  <2>1. \A i \in 0..N : i \in T
    BY <1>0, <1>3, <1>4, Climb
  <2> QED BY <1>0, <2>1
<1> QED BY <1>2, <1>5 DEF MovesOf

(* A nonempty set of numbers up to n has a greatest. *)
LEMMA Greatest ==
    ASSUME NEW n \in Nat, NEW T \in SUBSET (1..n), T # {}
    PROVE  \E m \in T : \A k \in T : k <= m
<1> DEFINE U == {n - k : k \in T}
<1>1. U \in SUBSET Nat /\ U # {}
  <2>1. ASSUME NEW k \in T PROVE n - k \in Nat /\ n - k \in U
    OBVIOUS
  <2>2. \A u \in U : \E k \in T : u = n - k
    OBVIOUS
  <2> HIDE DEF U
  <2> QED BY <2>1, <2>2
<1>2. PICK u \in U : \A v \in U : u <= v
  <2> HIDE DEF U
  <2> QED BY <1>1, Least
<1>3. PICK m \in T : u = n - m
  OBVIOUS
<1>4. ASSUME NEW k \in T PROVE k <= m
  <2>1. n - m <= n - k
    BY <1>2, <1>3
  <2> QED BY <2>1
<1> QED BY <1>4

(* An object after a revision: as it was, or under the key it was moved to *)
Applied(o, mf, p) ==
    /\ DOMAIN p = DOMAIN o \ Removed(o, mf)
    /\ \A r \in DOMAIN p :
          \/ p[r] = o[r] /\ \A m \in MovesOf(o, mf) : m.ref # r
          \/ \E m \in MovesOf(o, mf) : m.ref = r /\ p[r] = [o[r] EXCEPT !.fk = m.new]

LEMMA AppliedTo ==
    ASSUME NEW o, NEW n, World(o, n), NEW mf, OfFiles(mf), NEW plan \in Plans(o, mf), plan.ok
    PROVE  Applied(o, mf, ApplyOne(o, mf, plan))
<1> DEFINE kept == DOMAIN o \ Removed(o, mf)
           mine(r) == {i \in DOMAIN plan.stamps : plan.stamps[i].ref = r}
           newKey(r) == plan.stamps[CHOOSE i \in mine(r) : \A j \in mine(r) : j <= i].new
           p == [r \in kept |-> IF mine(r) = {} THEN o[r] ELSE [o[r] EXCEPT !.fk = newKey(r)]]
<1>1. ApplyOne(o, mf, plan) = p
  BY DEF ApplyOne
<1>2. plan.stamps \in Seq(MovesOf(o, mf)) /\ Made1(plan) = MovesOf(o, mf)
  BY PlansSound DEF Sound
<1>3. Len(plan.stamps) \in Nat /\ DOMAIN plan.stamps = 1..Len(plan.stamps)
  BY <1>2
<1>4. DOMAIN p = kept
  OBVIOUS
<1>5. ASSUME NEW r \in kept
      PROVE  \/ p[r] = o[r] /\ \A m \in MovesOf(o, mf) : m.ref # r
             \/ \E m \in MovesOf(o, mf) : m.ref = r /\ p[r] = [o[r] EXCEPT !.fk = m.new]
  <2>1. CASE mine(r) = {}
    <3>1. p[r] = o[r]
      BY <2>1
    <3>2. \A m \in MovesOf(o, mf) : m.ref # r
      <4> HIDE DEF p
      <4> QED BY <1>2, <2>1 DEF Made1
    <3> HIDE DEF p
    <3> QED BY <3>1, <3>2
  <2>2. CASE mine(r) # {}
    <3> DEFINE last == CHOOSE i \in mine(r) : \A j \in mine(r) : j <= i
               m == plan.stamps[last]
    <3>1. last \in mine(r)
      <4>1. mine(r) \in SUBSET (1..Len(plan.stamps))
        BY <1>3
      <4>2. \E i \in mine(r) : \A j \in mine(r) : j <= i
        <5> HIDE DEF mine, p, last
        <5> QED BY <1>3, <2>2, <4>1, Greatest
      <4> HIDE DEF mine, p
      <4> QED BY <4>2
    <3>2. m \in MovesOf(o, mf) /\ m.ref = r
      <4> HIDE DEF last, p
      <4>1. last \in DOMAIN plan.stamps /\ plan.stamps[last].ref = r
        BY <3>1
      <4> QED BY <1>2, <4>1 DEF Made1
    <3>3. p[r] = [o[r] EXCEPT !.fk = m.new]
      BY <2>2
    <3> HIDE DEF p, m
    <3> QED BY <3>2, <3>3
  <2> HIDE DEF p, mine
  <2> QED BY <2>1, <2>2
<1> HIDE DEF p, kept
<1>6. Applied(o, mf, p)
  <2>1. DOMAIN p = DOMAIN o \ Removed(o, mf)
    BY <1>4 DEF kept
  <2>2. \A r \in DOMAIN p :
            \/ p[r] = o[r] /\ \A m \in MovesOf(o, mf) : m.ref # r
            \/ \E m \in MovesOf(o, mf) : m.ref = r /\ p[r] = [o[r] EXCEPT !.fk = m.new]
    BY <1>4, <1>5
  <2> QED BY <2>1, <2>2 DEF Applied
<1> QED BY <1>1, <1>6

(* Whatever it renames, a revision keeps what is written in the game, and keys *)
(* that are unique but for those that its operations may overrun.              *)
LEMMA RevisionKeeps ==
    ASSUME NEW o, NEW n, World(o, n), NEW mf, OfFiles(mf), NEW plan \in Plans(o, mf), plan.ok
    PROVE  LET p == ApplyOne(o, mf, plan)
           IN  /\ World(p, n)
               /\ \A r \in DOMAIN o \cap DOMAIN p : Written1(o[r], p[r])
               /\ Unique(o) => \A q, r \in Managed(p) :
                     p[q].fk = p[r].fk => q = r \/ p[q].fk \in doubled \cup Overrun(mf, plan)
<1> DEFINE p == ApplyOne(o, mf, plan)
           M == MovesOf(o, mf)
<1>1. /\ DOMAIN p = DOMAIN o \ Removed(o, mf)
      /\ \A r \in DOMAIN p :
            \/ p[r] = o[r] /\ \A m \in M : m.ref # r
            \/ \E m \in M : m.ref = r /\ p[r] = [o[r] EXCEPT !.fk = m.new]
  <2>1. Applied(o, mf, p)
    BY AppliedTo
  <2> HIDE DEF p
  <2> QED BY <2>1 DEF Applied
<1>2. Sound(plan, o, mf, M)
  BY PlansSound
<1>0. Len(mf.rename) \in Nat
  BY DEF OfFiles
<1>3. \A m \in M : /\ m.ref \in DOMAIN o /\ m.old = o[m.ref].fk /\ m.new # NoKey
                   /\ m.old # NoKey /\ m.old \notin mf.remove
  BY <1>0, MovesAre DEF MovesOf
<1> HIDE DEF p
<1>4. ASSUME NEW r \in DOMAIN p
      PROVE  /\ Object(p[r], n) /\ Written1(o[r], p[r]) /\ p[r].managed = o[r].managed
             /\ \/ p[r] = o[r] /\ \A m \in M : m.ref # r
                \/ \E m \in M : m.ref = r /\ p[r].fk = m.new
  <2>1. r \in DOMAIN o /\ Object(o[r], n)
    BY <1>1 DEF World
  <2>2. CASE p[r] = o[r] /\ \A m \in M : m.ref # r
    BY <2>1, <2>2 DEF Written1
  <2>3. ASSUME NEW m \in M, m.ref = r, p[r] = [o[r] EXCEPT !.fk = m.new]
        PROVE  /\ Object(p[r], n) /\ Written1(o[r], p[r]) /\ p[r].managed = o[r].managed
               /\ p[r].fk = m.new
    <3> DEFINE x == o[r]
               y == p[r]
    <3>1. y = [x EXCEPT !.fk = m.new] /\ Object(x, n) /\ m.new # NoKey
      BY <1>3, <2>1, <2>3
    <3> HIDE DEF x, y
    <3>2. DOMAIN y = Fields /\ y.fk = m.new /\ \A f \in Fields \ {"fk"} : y[f] = x[f]
      BY <3>1 DEF Object, Fields
    <3>3. Object(y, n) /\ Written1(x, y) /\ y.managed = x.managed
      BY <3>1, <3>2 DEF Object, Written1, Fields
    <3> QED BY <3>2, <3>3 DEF x, y
  <2> QED BY <1>1, <2>2, <2>3
<1>5. World(p, n)
  BY <1>1, <1>4 DEF World
<1>6. \A r \in DOMAIN o \cap DOMAIN p : Written1(o[r], p[r])
  BY <1>4
<1>7. ASSUME Unique(o), Apart(mf) PROVE Unique(p)
  <2>1. /\ \A m \in M : m.new \in DOMAIN plan.occ /\ plan.occ[m.new] = m.ref
        /\ \A k \in KeysOf(o) \ mf.remove :
              (\A m \in M : m.old # k) =>
                 k \in DOMAIN plan.occ /\ plan.occ[k] \in DOMAIN o /\ o[plan.occ[k]].fk = k
    BY <1>2, <1>7 DEF Sound
  (* One that stays under its key, and one that is moved *)
  <2>2. ASSUME NEW q \in Managed(p), \A l \in M : l.ref # q, NEW m \in M, m.new = o[q].fk
        PROVE  FALSE
    <3> DEFINE k == o[q].fk
    <3>1. q \in DOMAIN o /\ o[q].managed /\ q \notin Removed(o, mf)
      BY <1>1, <1>4, <2>2 DEF Managed
    <3>2. k \in KeysOf(o) \ mf.remove
      BY <3>1 DEF World, Object, KeysOf, Removed
    <3>3. ASSUME NEW l \in M, l.old = k PROVE FALSE
      <4>1. PICK j \in 1..Len(mf.rename) : l.old \in DOMAIN mf.rename[j] \ mf.remove
        BY <1>0, MovesAre DEF MovesOf
      <4> DEFINE x == [ref |-> q, old |-> o[q].fk, new |-> mf.rename[j][o[q].fk]]
      <4>2. x \in Sources(o, mf, mf.rename[j])
        BY <3>1, <3>3, <4>1 DEF Sources
      <4>3. x \in M
        BY <4>2 DEF MovesOf, Moves
      <4>4. x.ref = q
        OBVIOUS
      <4> HIDE DEF x
      <4> QED BY <2>2, <4>3, <4>4
    <3>4. plan.occ[k] = m.ref /\ o[m.ref].fk = k
      BY <2>1, <2>2, <3>2, <3>3
    <3> QED BY <1>3, <3>3, <3>4
  <2>3. ASSUME NEW q \in Managed(p), NEW r \in Managed(p), p[q].fk = p[r].fk
        PROVE  q = r \/ p[q].fk \in doubled
    <3>1. q \in DOMAIN p /\ r \in DOMAIN p /\ q \in Managed(o) /\ r \in Managed(o)
      BY <1>1, <1>4 DEF Managed
    <3>2. CASE (\A m \in M : m.ref # q) /\ (\A m \in M : m.ref # r)
      <4>1. p[q] = o[q] /\ p[r] = o[r]
        BY <1>4, <3>1, <3>2
      <4> QED BY <1>7, <2>3, <3>1, <4>1 DEF Unique
    <3>3. ASSUME NEW m \in M, m.ref = q, \A l \in M : l.ref # r PROVE FALSE
      <4>1. PICK l \in M : l.ref = q /\ p[q].fk = l.new
        BY <1>4, <3>1, <3>3
      <4>2. p[r] = o[r]
        BY <1>4, <3>1, <3>3
      <4> QED BY <2>2, <2>3, <3>3, <4>1, <4>2
    <3>4. ASSUME NEW m \in M, m.ref = r, \A l \in M : l.ref # q PROVE FALSE
      <4>1. PICK l \in M : l.ref = r /\ p[r].fk = l.new
        BY <1>4, <3>1, <3>4
      <4>2. p[q] = o[q]
        BY <1>4, <3>1, <3>4
      <4> QED BY <2>2, <2>3, <3>4, <4>1, <4>2
    <3>5. ASSUME NEW m \in M, m.ref = q, NEW l \in M, l.ref = r PROVE q = r
      <4>1. PICK a \in M : a.ref = q /\ p[q].fk = a.new
        BY <1>4, <3>1, <3>5
      <4>2. PICK c \in M : c.ref = r /\ p[r].fk = c.new
        BY <1>4, <3>1, <3>5
      <4>3. plan.occ[a.new] = a.ref
        BY <2>1, <4>1
      <4>4. plan.occ[c.new] = c.ref
        BY <2>1, <4>2
      <4>5. a.new = c.new
        BY <2>3, <4>1, <4>2
      <4> QED BY <4>1, <4>2, <4>3, <4>4, <4>5
    <3> QED BY <3>2, <3>3, <3>4, <3>5
  <2> QED BY <2>3 DEF Unique
<1>8. ASSUME Unique(o), ~Apart(mf), NEW q \in Managed(p), NEW r \in Managed(p), p[q].fk = p[r].fk
      PROVE  q = r \/ p[q].fk \in doubled \cup Overrun(mf, plan)
  <2>1. \A m \in M : m.new \in Overrun(mf, plan)
    BY <1>2, <1>8 DEF Sound, Made1, Overrun
  <2>2. q \in DOMAIN p /\ r \in DOMAIN p /\ q \in Managed(o) /\ r \in Managed(o)
    BY <1>1, <1>4 DEF Managed
  <2>3. CASE p[q] = o[q] /\ p[r] = o[r]
    BY <1>8, <2>2, <2>3 DEF Unique
  <2>4. CASE \E m \in M : p[q].fk = m.new \/ p[r].fk = m.new
    BY <1>8, <2>1, <2>4
  <2> QED BY <1>4, <2>2, <2>3, <2>4
<1>9. ASSUME Unique(o), NEW q \in Managed(p), NEW r \in Managed(p), p[q].fk = p[r].fk
      PROVE  q = r \/ p[q].fk \in doubled \cup Overrun(mf, plan)
  <2>1. CASE Apart(mf)
    BY <1>7, <1>9, <2>1 DEF Unique
  <2>2. CASE ~Apart(mf)
    BY <1>8, <1>9, <2>2
  <2> QED BY <2>1, <2>2
<1> QED BY <1>5, <1>6, <1>9 DEF p

-----------------------------------------------------------------------------
(* Detaching *)

(* y is x with something more of what x resolves to. *)
Fuller(x, y, n) ==
    /\ Object(y, n) /\ Written1(x, y)
    /\ x.managed => y.managed
    /\ x.fk # NoKey => y.fk = x.fk

LEMMA UnderKeeps ==
    ASSUME NEW n, NEW x, Object(x, n), NEW y, Object(y, n)
    PROVE  LET z == Under(x, y)
           IN  /\ Object(z, n) /\ z.script = x.script
               /\ (x.managed => z.managed) /\ (x.fk # NoKey => z.fk = x.fk)
<1> DEFINE fk == IF x.fk = NoKey THEN y.fk ELSE x.fk
           managed == x.managed \/ y.managed
           desc == IF x.desc = NoText THEN y.desc ELSE x.desc
           z == Under(x, y)
<1>1. z = [x EXCEPT !.fk = fk, !.managed = managed, !.desc = desc]
  BY DEF Under
<1>2. (x.managed => managed) /\ (managed => fk # NoKey) /\ (x.fk # NoKey => fk = x.fk)
  BY DEF Object
<1> HIDE DEF fk, managed, desc, z
<1>3. /\ DOMAIN z = Fields /\ z.fk = fk /\ z.managed = managed
      /\ \A f \in Fields \ {"fk", "managed", "desc"} : z[f] = x[f]
  BY <1>1 DEF Object, Fields
<1>4. Object(z, n) /\ z.script = x.script
  BY <1>2, <1>3 DEF Object, Fields
<1> QED BY <1>2, <1>3, <1>4 DEF z

LEMMA SourcesOfOne ==
    ASSUME NEW x, x.script \in Program PROVE Sources1(x) \in Seq(Texts)
BY DEF Program, NoProgram, Sources1

(* Whatever it meets on the way up *)
LEMMA ResolvedKeeps ==
    ASSUME NEW o, NEW n, World(o, n), NEW r \in DOMAIN o
    PROVE  LET all == Resolved(o, r)
           IN  /\ Object(all.obj, n) /\ all.obj.script = o[r].script /\ all.srcs \in Seq(Texts)
               /\ (o[r].managed => all.obj.managed) /\ (o[r].fk # NoKey => all.obj.fk = o[r].fk)
<1> DEFINE s == [i \in 1..(ArchetypeDepth - 1) |-> i]
           start == [at |-> o[r].arch, met |-> {r}, obj |-> o[r], srcs |-> Sources1(o[r])]
           N == Len(s)
           Held(c) == /\ {"at", "met", "obj", "srcs"} \subseteq DOMAIN c
                      /\ Object(c.obj, n) /\ c.obj.script = o[r].script /\ c.srcs \in Seq(Texts)
                      /\ (o[r].managed => c.obj.managed) /\ (o[r].fk # NoKey => c.obj.fk = o[r].fk)
<1>1. N \in Nat /\ \E w : Run(w, "resolve", start, s, o) /\ Resolved(o, r) = w[N]
  BY AlongResolve
<1>2. Held(start)
  <2>1. Object(o[r], n) /\ Sources1(o[r]) \in Seq(Texts)
    BY SourcesOfOne DEF World, Object
  <2>2. {"at", "met", "obj", "srcs"} \subseteq DOMAIN start /\ start.obj = o[r] /\ start.srcs = Sources1(o[r])
    OBVIOUS
  <2> HIDE DEF start
  <2> QED BY <2>1, <2>2
<1> HIDE DEF s, start
<1>3. PICK w : Run(w, "resolve", start, s, o) /\ Resolved(o, r) = w[N]
  BY <1>1
<1>4. w[0] = start /\ \A i \in 1..N : w[i] = Step("resolve", w[i - 1], s[i], o)
  BY <1>1, <1>3, RunIs
<1> DEFINE T == {i \in 0..N : Held(w[i])}
<1>5. 0 \in T
  <2> HIDE DEF Held
  <2> QED BY <1>1, <1>2, <1>4
<1>6. ASSUME NEW i \in 1..N, i - 1 \in T PROVE i \in T
  <2> DEFINE u == w[i - 1]
             v == w[i]
  <2>1. Held(u) /\ v = IF u.at \notin DOMAIN o \ u.met THEN u ELSE NextUp(o, u)
    BY <1>4, <1>6, Steps
  <2> HIDE DEF u, v
  <2>2. ASSUME v = u PROVE Held(v)
    BY <2>1, <2>2
  <2>3. ASSUME u.at \in DOMAIN o, v = NextUp(o, u) PROVE Held(v)
    <3> DEFINE y == o[u.at]
               z == Under(u.obj, y)
    <3>1. Object(y, n) /\ Sources1(y) \in Seq(Texts)
      BY <2>3, SourcesOfOne DEF World, Object
    <3>2. /\ {"at", "met", "obj", "srcs"} \subseteq DOMAIN v
          /\ v.obj = z /\ v.srcs = u.srcs \o Sources1(y)
      BY <2>3 DEF NextUp
    <3> HIDE DEF y, z
    <3>3. /\ Object(z, n) /\ z.script = u.obj.script
          /\ (u.obj.managed => z.managed) /\ (u.obj.fk # NoKey => z.fk = u.obj.fk)
      BY <2>1, <3>1, UnderKeeps DEF z
    <3>4. v.srcs \in Seq(Texts)
      <4> DEFINE a == u.srcs
                 b == Sources1(y)
      <4>1. a \in Seq(Texts) /\ b \in Seq(Texts) /\ v.srcs = a \o b
        BY <2>1, <3>1, <3>2
      <4> HIDE DEF a, b
      <4> QED BY <4>1
    <3> QED BY <2>1, <3>2, <3>3, <3>4
  <2>4. Held(v)
    BY <2>1, <2>2, <2>3
  <2> HIDE DEF Held
  <2> QED BY <1>1, <2>4 DEF v
<1>7. N \in T
  <2> HIDE DEF T, N
  <2>1. \A i \in 0..N : i \in T
    BY <1>1, <1>5, <1>6, Climb
  <2> QED BY <1>1, <2>1
<1>8. Held(Resolved(o, r))
  <2> HIDE DEF Held
  <2> QED BY <1>3, <1>7
<1> QED BY <1>8

(* What is detached has all it resolved to, and loses nothing of its own. *)
LEMMA FlattenedKeeps ==
    ASSUME NEW o, NEW n, World(o, n), NEW r \in DOMAIN o, NEW y \in Flattened(o, r)
    PROVE  Fuller(o[r], y, n)
<1> DEFINE all == Resolved(o, r)
           x == [all.obj EXCEPT !.arch = Nowhere]
<1>1. /\ Object(all.obj, n) /\ all.obj.script = o[r].script /\ all.srcs \in Seq(Texts)
      /\ (o[r].managed => all.obj.managed) /\ (o[r].fk # NoKey => all.obj.fk = o[r].fk)
  BY ResolvedKeeps
<1>2. y = x \/ (all.srcs # <<>> /\ \E t \in Joined(all.srcs) : y = [x EXCEPT !.script = InGame(t)])
  BY DEF Flattened
<1> HIDE DEF all
<1>3. /\ DOMAIN x = Fields /\ x.arch = 0 /\ \A f \in Fields \ {"arch"} : x[f] = all.obj[f]
  BY <1>1 DEF Object, Fields, Nowhere
<1> HIDE DEF x
<1>4. n \in Nat
  BY DEF World
<1>5. Fuller(o[r], x, n)
  BY <1>1, <1>3, <1>4 DEF Fuller, Object, Written1, Fields
<1>6. ASSUME NEW t \in Joined(all.srcs), all.srcs # <<>>, y = [x EXCEPT !.script = InGame(t)]
      PROVE  Fuller(o[r], y, n)
  <2>1. t \in Texts
    BY <1>1, <1>6 DEF Joined
  <2>2. InGame(t) \in Program /\ InGame(t).origin = "ingame"
    BY <2>1 DEF InGame, Program, Origins
  <2>3. DOMAIN y = Fields /\ y.script = InGame(t) /\ \A f \in Fields \ {"script"} : y[f] = x[f]
    BY <1>3, <1>6 DEF Fields
  <2> QED BY <1>5, <2>2, <2>3 DEF Fuller, Object, Written1, Fields
<1> QED BY <1>2, <1>5, <1>6

LEMMA FlattenedSome ==
    ASSUME NEW o, NEW n, World(o, n), NEW r \in DOMAIN o PROVE Flattened(o, r) # {}
<1>1. Resolved(o, r).srcs \in Seq(Texts)
  BY ResolvedKeeps
<1>2. ASSUME Resolved(o, r).srcs # <<>> PROVE Joined(Resolved(o, r).srcs) # {}
  <2>1. Resolved(o, r).srcs[1] \in Texts
    BY <1>1, <1>2
  <2> QED BY <2>1 DEF Joined
<1> QED BY <1>2 DEF Flattened

-----------------------------------------------------------------------------
(* The server and its database *)

(* An object made by hand *)
LEMMA AddBlank ==
    ASSUME NEW o, NEW n, World(o, n), NEW kind \in Kinds, NEW name
    PROVE  LET p == Put(o, n + 1, Blank(kind, name))
           IN  World(p, n + 1) /\ Keeps(o, p) /\ NoneMade(o, p)
<1> DEFINE x == Blank(kind, name)
           p == Put(o, n + 1, x)
<1>1. n \in Nat /\ n + 1 \in Nat /\ n + 1 \in 1..(n + 1) /\ n + 1 \notin DOMAIN o
  BY DEF World
<1>2. Object(x, n + 1)
  BY <1>1, BlankObject
<1>3. ~x.managed
  BY DEF Blank
<1> HIDE DEF x
<1>4. World(o, n + 1)
  BY <1>1, Wider
<1>5. World(p, n + 1)
  BY <1>1, <1>2, <1>4, PutWorld
<1>6. /\ DOMAIN p = DOMAIN o \cup {n + 1} /\ p[n + 1] = x
      /\ \A q \in DOMAIN o : p[q] = o[q]
  BY <1>1 DEF Put
<1> HIDE DEF p
<1>7. Keeps(o, p) /\ NoneMade(o, p)
  BY <1>3, <1>6 DEF Keeps, Written1, NoneMade, Managed
<1> QED BY <1>5, <1>7 DEF p, x

LEMMA SpawnKeeps ==
    ASSUME NEW st, World(st.objs, st.next), NEW km, \A k \in DOMAIN km : km[k] \in 1..st.next
    PROVE  LET b == Spawn(st, km)
           IN  /\ World(b.objs, b.next) /\ b.room \in 1..b.next
               /\ Keeps(st.objs, b.objs) /\ NoneMade(st.objs, b.objs)
<1> DEFINE o == StampLocked(st.objs)
           b == Spawn(st, km)
<1>1. World(o, st.next) /\ Keeps(st.objs, o) /\ NoneMade(st.objs, o) /\ st.next \in Nat
  BY StampLockedKeeps, LikeKeeps DEF World
<1>2. CASE SpawnKey \in DOMAIN km
  <2>1. b = [objs |-> o, next |-> st.next, room |-> km[SpawnKey]]
    BY <1>2 DEF Spawn
  <2> HIDE DEF b, o
  <2>2. b.objs = o /\ b.next = st.next /\ b.room \in 1..st.next
    BY <1>2, <2>1
  <2> QED BY <1>1, <2>2 DEF b
<1>3. CASE SpawnKey \notin DOMAIN km
  <2> DEFINE p == Put(o, st.next + 1, Blank("room", SpawnKey.base))
  <2>1. b = [objs |-> p, next |-> st.next + 1, room |-> st.next + 1]
    BY <1>3 DEF Spawn
  <2> HIDE DEF b, o
  <2>2. World(p, st.next + 1) /\ Keeps(o, p) /\ NoneMade(o, p)
    <3>1. "room" \in Kinds
      BY DEF Kinds
    <3> QED BY <1>1, <3>1, AddBlank
  <2> HIDE DEF p
  <2>3. b.objs = p /\ b.next = st.next + 1 /\ b.room \in 1..(st.next + 1)
    BY <1>1, <2>1
  <2>4. Keeps(st.objs, p) /\ NoneMade(st.objs, p)
    BY <1>1, <2>2, NoneMadeGoesOn DEF Keeps, Written1
  <2> QED BY <2>2, <2>3, <2>4 DEF b
<1> QED BY <1>2, <1>3

(* The inductive invariant: what the files and the control may be, and a world *)
(* in memory and one in the database in which every reference was handed out   *)
Control ==
    /\ up \in BOOLEAN /\ migrating \in BOOLEAN
    /\ applied \in 0..Len(Revisions) /\ (migrating => applied < Len(Revisions))
    /\ doubt \subseteq Areas /\ fresh \subseteq Areas
    /\ FilesTyped /\ TextsTyped
Worlds ==
    /\ World(objs, nextId) /\ nextId <= MaxRef /\ spawn \in 0..MaxRef
    /\ World(saved.objs, saved.next) /\ saved.next <= MaxRef
    /\ DOMAIN saved = {"objs", "next"}
Inv == Control /\ Worlds

Keyed == Unique(objs) /\ Unique(saved.objs)

LEMMA StillKeyed ==
    ASSUME Unique(objs'), Unique(saved'.objs), doubled \subseteq doubled' PROVE Keyed'
BY DEF Keyed, Unique, Managed

(* What a step does to the world that lives on *)
Survive(o, p) == \A r \in DOMAIN o \cap DOMAIN p : Written1(o[r], p[r])
Alive == ~(up /\ ~up' /\ saved' = saved) => Survive(Live, Live')

LEMMA KeepsSurvive == ASSUME NEW o, NEW p, Keeps(o, p) PROVE Survive(o, p)
BY DEF Keeps, Survive

LEMMA SurviveStays == ASSUME NEW o PROVE Survive(o, o)
BY DEF Survive, Written1

LEMMA SetsOfAreas ==
    /\ \A h : HalfDone(h) \subseteq Areas
    /\ Control => \A st, h : Unsure(st, h) \subseteq Areas
<1>1. \A h : HalfDone(h) \subseteq Areas
  BY DEF HalfDone, Present
<1>2. ASSUME Control, NEW st, NEW h PROVE Unsure(st, h) \subseteq Areas
  BY <1>1, <1>2 DEF Unsure, Control
<1> QED BY <1>1, <1>2

LEMMA InitInv == Init => Inv /\ Keyed
<1> SUFFICES ASSUME Init PROVE Inv /\ Keyed
  OBVIOUS
<1>1. Control
  <2>1. Len(Revisions) \in Nat
    BY ContentAssumption
  <2>2. FilesTyped
    BY ContentAssumption DEF Init, FilesTyped
  <2>3. TextsTyped
    BY ContentAssumption DEF Init, TextsTyped
  <2>4. up \in BOOLEAN /\ migrating \in BOOLEAN /\ ~migrating
    BY DEF Init
  <2>5. applied = 0 /\ fresh = {} /\ doubt = {}
    BY DEF Init
  <2> QED BY <2>1, <2>2, <2>3, <2>4, <2>5 DEF Control
<1> DEFINE x == Blank("player", "root")
<1>2. saved.objs = [r \in {1} |-> x] /\ saved.next = 1 /\ DOMAIN saved = {"objs", "next"}
  BY DEF Init, FreshWorld
<1>3. Object(x, 1) /\ ~x.managed
  <2>1. "player" \in Kinds
    BY DEF Kinds
  <2>2. Object(x, 1)
    BY <2>1, BlankObject
  <2> QED BY <2>2 DEF Blank
<1> HIDE DEF x
<1>4. World(saved.objs, saved.next) /\ Unique(saved.objs)
  BY <1>2, <1>3 DEF World, Unique, Managed
<1>5. objs = << >> /\ nextId = 0 /\ spawn = 0 /\ MaxRef \in Nat \ {0}
  BY ContentAssumption DEF Init, Nowhere
<1>6. World(objs, nextId) /\ Unique(objs)
  BY <1>5 DEF World, Unique, Managed
<1>7. Worlds
  BY <1>2, <1>4, <1>5, <1>6 DEF Worlds
<1> QED BY <1>1, <1>4, <1>6, <1>7 DEF Inv, Keyed

LEMMA BootKeeps ==
    ASSUME Inv, Boot PROVE Inv' /\ (Keyed => Keyed') /\ Alive
<1>1. PICK st \in BootLoads, kmAll \in KeyMapsFromWorld(saved.objs) :
        LET born == Spawn(st, IF st.ok THEN st.km ELSE kmAll)
        IN  /\ born.next <= MaxRef
            /\ objs' = born.objs /\ nextId' = born.next /\ spawn' = born.room
            /\ doubt' = IF LoadFiles THEN Unsure(st, savedHashes) ELSE doubt
            /\ fresh' = IF LoadFiles THEN HalfDone(savedHashes) ELSE {}
  BY DEF Boot
<1> DEFINE km == IF st.ok THEN st.km ELSE kmAll
           born == Spawn(st, km)
<1>2. /\ ~up /\ up' /\ up' \in BOOLEAN
      /\ UNCHANGED <<files, texts, saved, applied, migrating, doubled>>
  BY DEF Boot, migrationVars
<1>3. World(saved.objs, saved.next) /\ TextsTyped /\ FilesTyped
  BY DEF Inv, Control, Worlds
<1>4. /\ World(st.objs, st.next) /\ saved.next <= st.next /\ Keeps(saved.objs, st.objs)
      /\ (Unique(saved.objs) => Unique(st.objs))
      /\ (st.ok => \A k \in DOMAIN st.km : st.km[k] \in 1..st.next)
  <2>1. CASE LoadFiles
    <3>1. PICK km1 \in ManagedKeyMaps(saved.objs) : st = Load(saved.objs, saved.next, km1, savedHashes)
      BY <2>1 DEF BootLoads
    <3>2. \A k \in DOMAIN km1 : km1[k] \in 1..saved.next
      BY <1>3, KeyMapsTyped
    <3>3. Good(st) /\ saved.next <= st.next /\ Keeps(saved.objs, st.objs)
          /\ (Names(saved.objs, km1) => Unique(st.objs))
      BY <1>3, <3>1, <3>2, LoadKeeps
    <3>4. Unique(saved.objs) => Names(saved.objs, km1)
      BY <1>3, ManagedNames
    <3> QED BY <3>3, <3>4 DEF Good
  <2>2. CASE ~LoadFiles
    <3>1. st = [objs |-> saved.objs, next |-> saved.next, km |-> << >>, ok |-> FALSE]
      BY <2>2 DEF BootLoads
    <3>2. st.objs = saved.objs /\ st.next = saved.next /\ ~st.ok
      BY <3>1
    <3> QED BY <1>3, <3>2 DEF Keeps, Written1, World
  <2> QED BY <2>1, <2>2
<1>5. \A k \in DOMAIN km : km[k] \in 1..st.next
  <2>1. \A k \in DOMAIN kmAll : kmAll[k] \in 1..saved.next
    BY <1>3, KeyMapsTyped
  <2>2. saved.next \in Nat /\ st.next \in Nat
    BY <1>3, <1>4 DEF World
  <2>3. CASE st.ok
    BY <1>4, <2>3
  <2>4. CASE ~st.ok
    BY <1>4, <2>1, <2>2, <2>4
  <2> QED BY <2>3, <2>4
<1> HIDE DEF km
<1>6. /\ World(born.objs, born.next) /\ born.room \in 1..born.next
      /\ Keeps(st.objs, born.objs) /\ NoneMade(st.objs, born.objs)
  BY <1>4, <1>5, SpawnKeeps
<1>7. /\ born.next <= MaxRef /\ objs' = born.objs /\ nextId' = born.next /\ spawn' = born.room
  BY <1>1 DEF km
<1> HIDE DEF born
<1>8. Worlds'
  <2>1. MaxRef \in Nat /\ born.next \in Nat
    BY <1>6, ContentAssumption DEF World
  <2>2. spawn' \in 0..MaxRef
    BY <1>6, <1>7, <2>1
  <2> QED BY <1>2, <1>6, <1>7, <2>2 DEF Inv, Worlds
<1>9. Control'
  <2>1. doubt' \subseteq Areas /\ fresh' \subseteq Areas
    BY <1>1, SetsOfAreas DEF Inv, Control
  <2> QED BY <1>2, <2>1 DEF Inv, Control, FilesTyped, TextsTyped
<1>10. ASSUME Keyed PROVE Keyed'
  <2>1. Unique(born.objs) /\ Unique(saved.objs)
    BY <1>4, <1>6, <1>10, NoneMadeTwice DEF Keyed
  <2> QED BY <1>2, <1>7, <2>1, StillKeyed
<1>11. Alive
  <2>1. Keeps(saved.objs, objs')
    BY <1>4, <1>6, <1>7 DEF Keeps, Written1
  <2>2. Live = saved.objs /\ Live' = objs'
    BY <1>2 DEF Live
  <2> QED BY <2>1, <2>2, KeepsSurvive DEF Alive
<1> QED BY <1>8, <1>9, <1>10, <1>11 DEF Inv

LEMMA ReloadKeeps ==
    ASSUME Inv, ReloadWorld PROVE Inv' /\ (Keyed => Keyed') /\ Alive
<1>1. PICK km \in ManagedKeyMaps(objs) :
        LET st == Load(objs, nextId, km, hashes)
        IN  /\ st.next <= MaxRef
            /\ objs' = (IF st.ok THEN StampLocked(st.objs) ELSE st.objs)
            /\ nextId' = st.next
            /\ spawn' = (IF st.ok /\ SpawnKey \in DOMAIN st.km THEN st.km[SpawnKey] ELSE spawn)
            /\ doubt' = Unsure(st, hashes)
            /\ fresh' = fresh \cup HalfDone(hashes)
  BY DEF ReloadWorld
<1> DEFINE st == Load(objs, nextId, km, hashes)
<1>2. /\ up /\ up' = up
      /\ UNCHANGED <<files, texts, saved, applied, migrating, doubled>>
  BY DEF ReloadWorld, migrationVars
<1>3. World(objs, nextId) /\ TextsTyped /\ FilesTyped
  BY DEF Inv, Control, Worlds
<1>4. /\ Good(st) /\ nextId <= st.next /\ Keeps(objs, st.objs)
      /\ (Unique(objs) => Unique(st.objs))
  <2>1. \A k \in DOMAIN km : km[k] \in 1..nextId
    BY <1>3, KeyMapsTyped
  <2>2. Good(st) /\ nextId <= st.next /\ Keeps(objs, st.objs) /\ (Names(objs, km) => Unique(st.objs))
    BY <1>3, <2>1, LoadKeeps
  <2>3. Unique(objs) => Names(objs, km)
    BY <1>3, ManagedNames
  <2> HIDE DEF st
  <2> QED BY <2>2, <2>3
<1>5. /\ st.next <= MaxRef /\ nextId' = st.next
      /\ objs' = StampLocked(st.objs) \/ objs' = st.objs
      /\ spawn' = spawn \/ (SpawnKey \in DOMAIN st.km /\ spawn' = st.km[SpawnKey])
      /\ doubt' = Unsure(st, hashes) /\ fresh' = fresh \cup HalfDone(hashes)
  BY <1>1
<1> HIDE DEF st
<1>6. World(objs', nextId') /\ Keeps(st.objs, objs') /\ NoneMade(st.objs, objs')
  <2>1. World(st.objs, st.next) /\ Keeps(st.objs, st.objs)
    BY <1>4 DEF Good, Keeps, Written1
  <2>2. LET o == StampLocked(st.objs) IN World(o, st.next) /\ Keeps(st.objs, o) /\ NoneMade(st.objs, o)
    BY <2>1, StampLockedKeeps, LikeKeeps
  <2> QED BY <1>5, <2>1, <2>2, NoneMadeStays
<1>7. Worlds'
  <2>1. MaxRef \in Nat /\ st.next \in Nat
    BY <1>4, ContentAssumption DEF Good, World
  <2>2. spawn' \in 0..MaxRef
    BY <1>4, <1>5, <2>1 DEF Good, Inv, Worlds
  <2> QED BY <1>2, <1>5, <1>6, <2>2 DEF Inv, Worlds
<1>8. Control'
  <2>1. doubt' \subseteq Areas /\ fresh' \subseteq Areas
    BY <1>5, SetsOfAreas DEF Inv, Control
  <2> QED BY <1>2, <2>1 DEF Inv, Control, FilesTyped, TextsTyped
<1>9. ASSUME Keyed PROVE Keyed'
  <2>1. Unique(objs') /\ Unique(saved.objs)
    BY <1>4, <1>6, <1>9, NoneMadeTwice DEF Keyed
  <2> QED BY <1>2, <2>1, StillKeyed
<1>10. Alive
  <2>1. Keeps(objs, objs')
    BY <1>4, <1>6 DEF Keeps, Written1
  <2>2. Live = objs /\ Live' = objs'
    BY <1>2 DEF Live
  <2> QED BY <2>1, <2>2, KeepsSurvive DEF Alive
<1> QED BY <1>7, <1>8, <1>9, <1>10 DEF Inv

(* What a step of the running server leaves when it keeps the world in order *)
LEMMA UpStep ==
    ASSUME Inv, up, up' = up, UNCHANGED <<files, texts, saved, applied, migrating, doubt, fresh, spawn>>,
           World(objs', nextId'), nextId' <= MaxRef, Survive(objs, objs')
    PROVE  Inv' /\ Alive
<1>1. Worlds'
  BY DEF Inv, Worlds
<1>2. Control'
  BY DEF Inv, Control, FilesTyped, TextsTyped
<1>3. Alive
  BY DEF Alive, Live
<1> QED BY <1>1, <1>2, <1>3 DEF Inv

LEMMA ImportBundleKeeps ==
    ASSUME Inv, NEW b \in Bundles, ImportBundle(b) PROVE Inv' /\ (Keyed => Keyed') /\ Alive
<1>1. PICK st \in Imports(b, objs, nextId) : st.next <= MaxRef /\ objs' = st.objs /\ nextId' = st.next
  BY DEF ImportBundle
<1>2. up /\ UNCHANGED <<files, texts, up, saved, applied, migrating, doubt, fresh, spawn, doubled>>
  BY DEF ImportBundle, dbVars, migrationVars
<1>3. World(objs, nextId)
  BY DEF Inv, Worlds
<1>4. Good(st) /\ Keeps(objs, st.objs) /\ NoneMade(objs, st.objs)
  BY <1>3, ImportKeeps
<1>5. World(objs', nextId') /\ nextId' <= MaxRef /\ Survive(objs, objs')
  BY <1>1, <1>4, KeepsSurvive DEF Good
<1>6. Inv' /\ Alive
  BY <1>2, <1>5, UpStep
<1>7. ASSUME Keyed PROVE Keyed'
  <2>1. Unique(st.objs) /\ Unique(saved.objs)
    BY <1>4, <1>7, NoneMadeTwice DEF Keyed
  <2> QED BY <1>1, <1>2, <2>1, StillKeyed
<1> QED BY <1>6, <1>7

LEMMA ExportStep ==
    ASSUME Inv, Export PROVE Inv' /\ (Keyed => Keyed') /\ Alive
<1>1. /\ up /\ UNCHANGED <<files, texts, up, saved, applied, migrating, doubt, fresh, spawn, doubled>>
      /\ objs' = StampMissingIdentities(objs) /\ nextId' = nextId
  BY DEF Export, dbVars, migrationVars
<1>2. World(objs, nextId) /\ nextId <= MaxRef
  BY DEF Inv, Worlds
<1>3. World(objs', nextId) /\ Keeps(objs, objs') /\ NoneMade(objs, objs')
  BY <1>1, <1>2, ExportKeeps
<1>4. Inv' /\ Alive
  BY <1>1, <1>2, <1>3, KeepsSurvive, UpStep
<1>5. ASSUME Keyed PROVE Keyed'
  <2>1. Unique(objs') /\ Unique(saved.objs)
    BY <1>3, <1>5, NoneMadeTwice DEF Keyed
  <2> QED BY <1>1, <2>1, StillKeyed
<1> QED BY <1>4, <1>5

(* Builders and players change one object and leave its key. *)
LEMMA ChangeOne ==
    ASSUME Inv, NEW r \in DOMAIN objs, NEW y, Work, UNCHANGED <<nextId, doubled>>,
           Object(y, nextId), Same(objs[r], y), Written1(objs[r], y),
           objs' = [objs EXCEPT ![r] = y]
    PROVE  Inv' /\ (Keyed => Keyed') /\ Alive
<1>1. up /\ UNCHANGED <<files, texts, up, saved, applied, migrating, doubt, fresh, spawn>>
  BY DEF Work, dbVars, migrationVars
<1>2. World(objs, nextId) /\ nextId <= MaxRef
  BY DEF Inv, Worlds
<1>3. /\ DOMAIN objs' = DOMAIN objs /\ objs'[r] = y
      /\ \A q \in DOMAIN objs \ {r} : objs'[q] = objs[q]
  OBVIOUS
<1>4. World(objs', nextId')
  <2>1. ASSUME NEW q \in DOMAIN objs' PROVE Object(objs'[q], nextId')
    <3>1. CASE q = r
      BY <1>3, <3>1
    <3>2. CASE q # r
      BY <1>2, <1>3, <2>1, <3>2 DEF World
    <3> QED BY <3>1, <3>2
  <2> QED BY <1>2, <1>3, <2>1 DEF World
<1>5. Like(objs, objs')
  <2>1. ASSUME NEW q \in DOMAIN objs PROVE Same(objs[q], objs'[q]) /\ Written1(objs[q], objs'[q])
    <3>1. CASE q = r
      BY <1>3, <3>1
    <3>2. CASE q # r
      BY <1>3, <2>1, <3>2 DEF Same, Written1
    <3> QED BY <3>1, <3>2
  <2> QED BY <1>3, <2>1 DEF Like
<1>6. Keeps(objs, objs') /\ NoneMade(objs, objs')
  BY <1>5, LikeKeeps
<1>7. Inv' /\ Alive
  BY <1>1, <1>2, <1>4, <1>6, KeepsSurvive, UpStep
<1>8. ASSUME Keyed PROVE Keyed'
  <2>1. Unique(objs') /\ Unique(saved.objs)
    BY <1>6, <1>8, NoneMadeTwice DEF Keyed
  <2> QED BY <1>1, <2>1, StillKeyed
<1> QED BY <1>7, <1>8

LEMMA WriteScriptKeeps ==
    ASSUME Inv, NEW r, NEW t \in HandWritten.texts, WriteScript(r, t)
    PROVE  Inv' /\ (Keyed => Keyed') /\ Alive
<1> DEFINE x == objs[r]
           y == [x EXCEPT !.script = InGame(t)]
<1>1. /\ Work /\ r \in DOMAIN objs /\ UNCHANGED <<nextId, doubled>>
      /\ objs' = [objs EXCEPT ![r].script = InGame(t)]
  BY DEF WriteScript
<1>2. objs' = [objs EXCEPT ![r] = y]
  BY <1>1
<1>3. Object(x, nextId)
  BY <1>1 DEF Inv, Worlds, World
<1>4. InGame(t) \in Program /\ InGame(t).origin = "ingame"
  BY ContentAssumption DEF InGame, Program, Origins
<1> HIDE DEF x
<1>5. DOMAIN y = Fields /\ y.script = InGame(t) /\ \A f \in Fields \ {"script"} : y[f] = x[f]
  BY <1>3 DEF Object, Fields
<1> HIDE DEF y
<1>6. Object(y, nextId) /\ Same(x, y) /\ Written1(x, y)
  BY <1>3, <1>4, <1>5 DEF Object, Same, Written1, Fields
<1> QED BY <1>1, <1>2, <1>6, ChangeOne DEF x

LEMMA PickUpKeeps ==
    ASSUME Inv, NEW r, PickUp(r) PROVE Inv' /\ (Keyed => Keyed') /\ Alive
<1> DEFINE x == objs[r]
           y == [x EXCEPT !.loc = 1]
<1>1. /\ Work /\ r \in DOMAIN objs /\ UNCHANGED <<nextId, doubled>>
      /\ objs' = [objs EXCEPT ![r].loc = 1]
  BY DEF PickUp
<1>2. objs' = [objs EXCEPT ![r] = y]
  BY <1>1
<1>3. Object(x, nextId) /\ 1 \in 0..nextId
  BY <1>1 DEF Inv, Worlds, World
<1> HIDE DEF x
<1>5. DOMAIN y = Fields /\ y.loc = 1 /\ \A f \in Fields \ {"loc"} : y[f] = x[f]
  BY <1>3 DEF Object, Fields
<1> HIDE DEF y
<1>6. Object(y, nextId) /\ Same(x, y) /\ Written1(x, y)
  BY <1>3, <1>5 DEF Object, Same, Written1, Fields
<1> QED BY <1>1, <1>2, <1>6, ChangeOne DEF x

LEMMA CreateKeeps ==
    ASSUME Inv, NEW kind \in HandMade, NEW name, CreateByHand(kind, name)
    PROVE  Inv' /\ (Keyed => Keyed') /\ Alive
<1>1. /\ up /\ UNCHANGED <<files, texts, up, saved, applied, migrating, doubt, fresh, spawn>>
      /\ nextId < MaxRef /\ nextId' = nextId + 1 /\ doubled' = doubled
      /\ objs' = Put(objs, nextId + 1, Blank(kind, name))
  BY DEF CreateByHand, Work, dbVars, migrationVars
<1>2. World(objs, nextId) /\ nextId \in Nat /\ MaxRef \in Nat /\ kind \in Kinds
  BY ContentAssumption DEF Inv, Worlds, World, Kinds
<1>3. World(objs', nextId') /\ Keeps(objs, objs') /\ NoneMade(objs, objs')
  BY <1>1, <1>2, AddBlank
<1>4. nextId' <= MaxRef
  BY <1>1, <1>2
<1>5. Inv' /\ Alive
  BY <1>1, <1>3, <1>4, KeepsSurvive, UpStep
<1>6. ASSUME Keyed PROVE Keyed'
  <2>1. Unique(objs') /\ Unique(saved.objs)
    BY <1>3, <1>6, NoneMadeTwice DEF Keyed
  <2> QED BY <1>1, <2>1, StillKeyed
<1> QED BY <1>5, <1>6

LEMMA DelegateKeeps ==
    ASSUME Inv, NEW r, NEW a, Delegate(r, a) PROVE Inv' /\ (Keyed => Keyed') /\ Alive
<1> DEFINE x == objs[r]
           y == [x EXCEPT !.arch = a]
<1>1. /\ Work /\ r \in DOMAIN objs /\ UNCHANGED <<nextId, doubled>> /\ a \in DOMAIN objs \cup {0}
      /\ objs' = [objs EXCEPT ![r].arch = a]
  BY DEF Delegate, Nowhere
<1>2. objs' = [objs EXCEPT ![r] = y]
  BY <1>1
<1>3. Object(x, nextId) /\ a \in 0..nextId
  BY <1>1 DEF Inv, Worlds, World
<1> HIDE DEF x
<1>5. DOMAIN y = Fields /\ y.arch = a /\ \A f \in Fields \ {"arch"} : y[f] = x[f]
  BY <1>3 DEF Object, Fields
<1> HIDE DEF y
<1>6. Object(y, nextId) /\ Same(x, y) /\ Written1(x, y)
  BY <1>3, <1>5 DEF Object, Same, Written1, Fields
<1> QED BY <1>1, <1>2, <1>6, ChangeOne DEF x

(* Objects may come to be made by files, under keys that are doubled by that; *)
(* none that has a key changes it.                                            *)
LEMMA AdoptKeeps ==
    ASSUME Keyed, UNCHANGED saved, doubled' = doubled \cup Adopted(objs, objs'),
           DOMAIN objs' \subseteq DOMAIN objs,
           \A r \in DOMAIN objs' : objs[r].managed => objs'[r].fk = objs[r].fk
    PROVE  Keyed'
<1>1. Unique(objs)'
  <2>1. ASSUME NEW q \in Managed(objs'), NEW r \in Managed(objs'), objs'[q].fk = objs'[r].fk, q # r
        PROVE  objs'[q].fk \in doubled'
    <3>1. CASE q \in Managed(objs) /\ r \in Managed(objs)
      <4>1. objs'[q].fk = objs[q].fk /\ objs'[r].fk = objs[r].fk
        BY <2>1, <3>1 DEF Managed
      <4> QED BY <2>1, <3>1, <4>1 DEF Keyed, Unique
    <3>2. CASE q \notin Managed(objs) \/ r \notin Managed(objs)
      BY <2>1, <3>2 DEF Adopted
    <3> QED BY <3>1, <3>2
  <2> QED BY <2>1 DEF Unique, Managed
<1>2. Unique(saved.objs)'
  BY DEF Keyed, Unique, Managed
<1> QED BY <1>1, <1>2 DEF Keyed

LEMMA DetachKeeps ==
    ASSUME Inv, NEW r, Detach(r) PROVE Inv' /\ (Keyed => Keyed') /\ Alive
<1>1. /\ up /\ UNCHANGED <<files, texts, up, saved, applied, migrating, doubt, fresh, spawn, nextId>>
      /\ r \in DOMAIN objs /\ doubled' = doubled \cup Adopted(objs, objs')
  BY DEF Detach, Work, dbVars, migrationVars
<1>2. PICK x \in Flattened(objs, r) : objs' = [objs EXCEPT ![r] = x]
  BY DEF Detach
<1>3. World(objs, nextId) /\ nextId <= MaxRef
  BY DEF Inv, Worlds
<1>4. Fuller(objs[r], x, nextId)
  BY <1>1, <1>2, <1>3, FlattenedKeeps
<1>5. /\ DOMAIN objs' = DOMAIN objs /\ objs'[r] = x
      /\ \A q \in DOMAIN objs \ {r} : objs'[q] = objs[q]
  BY <1>1, <1>2
<1>6. \A q \in DOMAIN objs' : Object(objs'[q], nextId) /\ Written1(objs[q], objs'[q])
                            /\ (objs[q].managed => objs'[q].fk = objs[q].fk)
  BY <1>3, <1>4, <1>5 DEF Fuller, World, Object, Written1
<1>7. World(objs', nextId') /\ Survive(objs, objs')
  BY <1>1, <1>3, <1>5, <1>6 DEF World, Survive
<1>8. Inv' /\ Alive
  BY <1>1, <1>3, <1>7, UpStep
<1>9. Keyed => Keyed'
  BY <1>1, <1>5, <1>6, AdoptKeeps
<1> QED BY <1>8, <1>9

(* What is left when an object goes: its instances as they resolved, and the  *)
(* rest as it was                                                             *)
LEMMA DestroyLeaves ==
    ASSUME NEW r, Destroy(r), NEW n, World(objs, n)
    PROVE  /\ DOMAIN objs' = DOMAIN objs \ {r}
           /\ \A q \in DOMAIN objs' : Fuller(objs[q], objs'[q], n)
           /\ \A q \in DOMAIN objs' : objs[q].arch # r => objs'[q] = objs[q]
<1> DEFINE instances == {q \in DOMAIN objs : objs[q].arch = r}
           sets == [q \in instances |-> Flattened(objs, q)]
<1>1. PICK flat \in Selections(sets) :
         objs' = [q \in DOMAIN objs \ {r} |-> IF q \in instances THEN flat[q] ELSE objs[q]]
  BY DEF Destroy
<1>2. \A q \in instances : Flattened(objs, q) # {} /\ \A x \in Flattened(objs, q) : Fuller(objs[q], x, n)
  BY FlattenedKeeps, FlattenedSome
<1>3. DOMAIN sets = instances /\ \A q \in instances : sets[q] = Flattened(objs, q)
  OBVIOUS
<1> HIDE DEF sets
<1>4. \A q \in instances : flat[q] \in sets[q]
  BY <1>1, <1>2, <1>3, SelectionsPick
<1>5. \A q \in DOMAIN objs : Fuller(objs[q], objs[q], n)
  BY DEF World, Fuller, Written1
<1> QED BY <1>1, <1>2, <1>3, <1>4, <1>5

LEMMA DestroyKeeps ==
    ASSUME Inv, NEW r, Destroy(r) PROVE Inv' /\ (Keyed => Keyed') /\ Alive
<1>1. /\ up /\ UNCHANGED <<files, texts, up, saved, applied, migrating, doubt, fresh, spawn, nextId>>
      /\ doubled' = doubled \cup Adopted(objs, objs')
  BY DEF Destroy, Work, dbVars, migrationVars
<1>2. World(objs, nextId) /\ nextId <= MaxRef
  BY DEF Inv, Worlds
<1>3. DOMAIN objs' = DOMAIN objs \ {r} /\ \A q \in DOMAIN objs' : Fuller(objs[q], objs'[q], nextId)
  BY <1>2, DestroyLeaves
<1>4. \A q \in DOMAIN objs' : Object(objs'[q], nextId) /\ Written1(objs[q], objs'[q])
                            /\ (objs[q].managed => objs'[q].fk = objs[q].fk)
  BY <1>2, <1>3 DEF Fuller, World, Object
<1>5. World(objs', nextId') /\ Survive(objs, objs')
  BY <1>1, <1>2, <1>3, <1>4 DEF World, Survive
<1>6. Inv' /\ Alive
  BY <1>1, <1>2, <1>5, UpStep
<1>7. Keyed => Keyed'
  BY <1>1, <1>3, <1>4, AdoptKeeps
<1> QED BY <1>6, <1>7

LEMMA SaveKeeps ==
    ASSUME Inv, Save PROVE Inv' /\ (Keyed => Keyed') /\ Alive
<1>1. /\ up /\ UNCHANGED <<files, texts, up, objs, nextId, applied, migrating, doubt, spawn, doubled>>
      /\ saved' = [objs |-> objs, next |-> nextId] /\ fresh' = {}
  BY DEF Save, worldVars, migrationVars
<1>2. saved'.objs = objs /\ saved'.next = nextId /\ DOMAIN saved' = {"objs", "next"}
  BY <1>1
<1>3. Worlds'
  BY <1>1, <1>2 DEF Inv, Worlds
<1>4. Control'
  BY <1>1 DEF Inv, Control, FilesTyped, TextsTyped
<1>5. Keyed => Keyed'
  BY <1>1, <1>2, StillKeyed DEF Keyed
<1>6. Alive
  BY <1>1, SurviveStays DEF Alive, Live
<1> QED BY <1>3, <1>4, <1>5, <1>6 DEF Inv

LEMMA NoWorld == World(<< >>, 0) /\ Unique(<< >>)
BY DEF World, Unique, Managed

LEMMA ShutdownKeeps ==
    ASSUME Inv, Shutdown PROVE Inv' /\ (Keyed => Keyed') /\ Alive
<1>1. /\ up /\ ~up' /\ up' \in BOOLEAN /\ UNCHANGED <<files, texts, applied, migrating, doubt, doubled>>
      /\ objs' = << >> /\ nextId' = 0 /\ spawn' = 0
      /\ saved' = [objs |-> objs, next |-> nextId] /\ fresh' = {}
  BY DEF Shutdown, Down, migrationVars, Nowhere
<1>2. saved'.objs = objs /\ saved'.next = nextId /\ DOMAIN saved' = {"objs", "next"}
  BY <1>1
<1>3. MaxRef \in Nat
  BY ContentAssumption
<1>4. Worlds'
  BY <1>1, <1>2, <1>3, NoWorld DEF Inv, Worlds
<1>5. Control'
  BY <1>1 DEF Inv, Control, FilesTyped, TextsTyped
<1>6. Keyed => Keyed'
  BY <1>1, <1>2, NoWorld, StillKeyed DEF Keyed
<1>7. Alive
  BY <1>1, <1>2, SurviveStays DEF Alive, Live
<1> QED BY <1>4, <1>5, <1>6, <1>7 DEF Inv

LEMMA CrashKeeps ==
    ASSUME Inv, Crash PROVE Inv' /\ (Keyed => Keyed') /\ Alive
<1>1. /\ up /\ ~up' /\ up' \in BOOLEAN /\ UNCHANGED <<files, texts, saved, applied, migrating, doubled>>
      /\ objs' = << >> /\ nextId' = 0 /\ spawn' = 0
      /\ doubt' = doubt \cup fresh /\ fresh' = {}
  BY DEF Crash, Down, dbVars, migrationVars, Nowhere
<1>2. MaxRef \in Nat
  BY ContentAssumption
<1>3. Worlds'
  BY <1>1, <1>2, NoWorld DEF Inv, Worlds
<1>4. Control'
  BY <1>1 DEF Inv, Control, FilesTyped, TextsTyped
<1>5. Keyed => Keyed'
  BY <1>1, NoWorld, StillKeyed DEF Keyed
<1>6. Alive
  BY <1>1 DEF Alive
<1> QED BY <1>3, <1>4, <1>5, <1>6 DEF Inv

LEMMA MigrateWorldKeeps ==
    ASSUME Inv, MigrateWorld PROVE Inv' /\ (Keyed => Keyed') /\ Alive
<1> DEFINE mf == Revisions[applied + 1]
<1>1. /\ ~up /\ applied < Len(Revisions) /\ migrating' = TRUE
      /\ UNCHANGED <<files, texts, up, objs, nextId, spawn, applied, fresh, doubt>>
  BY DEF MigrateWorld, worldVars
<1>2. PICK plan \in Plans(saved.objs, mf) :
         /\ plan.ok /\ saved' = [saved EXCEPT !.objs = ApplyOne(saved.objs, mf, plan)]
         /\ doubled' = doubled \cup Overrun(mf, plan)
  BY DEF MigrateWorld
<1>3. mf \in ToSet(Revisions) /\ OfFiles(mf)
  <2>1. /\ Revisions \in Seq(ToSet(Revisions)) /\ applied \in Nat /\ applied + 1 \in 1..Len(Revisions)
    BY <1>1, ContentAssumption DEF Inv, Control
  <2>2. mf \in ToSet(Revisions)
    BY <2>1
  <2> HIDE DEF mf
  <2> QED BY <2>2, ContentAssumption
<1> HIDE DEF mf
<1> DEFINE p == ApplyOne(saved.objs, mf, plan)
<1>4. saved'.objs = p /\ saved'.next = saved.next /\ DOMAIN saved' = {"objs", "next"}
  BY <1>2 DEF Inv, Worlds
<1>5. /\ World(p, saved.next)
      /\ \A r \in DOMAIN saved.objs \cap DOMAIN p : Written1(saved.objs[r], p[r])
      /\ Unique(saved.objs) => \A q, r \in Managed(p) :
            p[q].fk = p[r].fk => q = r \/ p[q].fk \in doubled \cup Overrun(mf, plan)
  <2>1. World(saved.objs, saved.next)
    BY DEF Inv, Worlds
  <2> QED BY <1>2, <1>3, <2>1, RevisionKeeps
<1> HIDE DEF p
<1>6. Worlds'
  BY <1>1, <1>4, <1>5 DEF Inv, Worlds
<1>7. Control'
  <2>1. migrating' \in BOOLEAN
    BY <1>1
  <2>2. up' \in BOOLEAN /\ applied' \in 0..Len(Revisions) /\ applied' < Len(Revisions)
    BY <1>1 DEF Inv, Control
  <2>3. doubt' \subseteq Areas /\ fresh' \subseteq Areas /\ FilesTyped' /\ TextsTyped'
    BY <1>1 DEF Inv, Control, FilesTyped, TextsTyped
  <2> QED BY <2>1, <2>2, <2>3 DEF Control
<1>8. ASSUME Keyed PROVE Keyed'
  <2>1. Unique(objs)'
    BY <1>1, <1>2, <1>8 DEF Keyed, Unique, Managed
  <2>2. Unique(saved.objs)'
    BY <1>2, <1>4, <1>5, <1>8 DEF Keyed, Unique, Managed
  <2> QED BY <2>1, <2>2 DEF Keyed
<1>9. Alive
  BY <1>1, <1>4, <1>5 DEF Alive, Live, Survive
<1> QED BY <1>6, <1>7, <1>8, <1>9 DEF Inv

(* A step that changes neither world *)
LEMMA SameWorlds ==
    ASSUME Inv, UNCHANGED <<up, objs, nextId, spawn, saved, doubled>>
    PROVE  Worlds' /\ (Keyed => Keyed') /\ Alive
<1>1. Worlds'
  BY DEF Inv, Worlds
<1>2. Keyed => Keyed'
  BY StillKeyed DEF Keyed
<1>3. Alive
  BY SurviveStays DEF Alive, Live
<1> QED BY <1>1, <1>2, <1>3

LEMMA MigrationEnds ==
    ASSUME Inv, MigrateRecord \/ MigrateDies PROVE Inv' /\ (Keyed => Keyed') /\ Alive
<1>1. /\ migrating /\ ~migrating' /\ migrating' \in BOOLEAN
      /\ applied' = applied \/ applied' = applied + 1
      /\ UNCHANGED <<files, texts, up, objs, nextId, spawn, saved, fresh, doubt, doubled>>
  BY DEF MigrateRecord, MigrateDies, worldVars
<1>2. Len(Revisions) \in Nat
  BY ContentAssumption
<1>3. applied' \in 0..Len(Revisions)
  BY <1>1, <1>2 DEF Inv, Control
<1>4. Control'
  BY <1>1, <1>3 DEF Inv, Control, FilesTyped, TextsTyped
<1> QED BY <1>1, <1>4, SameWorlds DEF Inv

LEMMA EditKeeps ==
    ASSUME Inv, (\E a \in Areas : EditFile(a)) \/ (\E p \in ProgFiles : EditText(p))
    PROVE  Inv' /\ (Keyed => Keyed') /\ Alive
<1>1. /\ UNCHANGED <<up, objs, nextId, spawn, saved, applied, migrating, fresh, doubt, doubled>>
      /\ FilesTyped' /\ TextsTyped'
  <2>1. FilesTyped /\ TextsTyped
    BY DEF Inv, Control
  <2>2. ASSUME NEW a \in Areas, EditFile(a)
        PROVE  /\ UNCHANGED <<up, objs, nextId, spawn, saved, applied, migrating, fresh, doubt, doubled>>
               /\ FilesTyped' /\ TextsTyped'
    <3>1. PICK c \in Versions[a] : files' = [files EXCEPT ![a] = c]
      BY <2>2 DEF EditFile
    <3>2. UNCHANGED <<texts, up, objs, nextId, spawn, saved, applied, migrating, fresh, doubt, doubled>>
      BY <2>2 DEF EditFile, worldVars, dbVars, migrationVars
    <3> QED BY <2>1, <3>1, <3>2 DEF FilesTyped, TextsTyped
  <2>3. ASSUME NEW p \in ProgFiles, EditText(p)
        PROVE  /\ UNCHANGED <<up, objs, nextId, spawn, saved, applied, migrating, fresh, doubt, doubled>>
               /\ FilesTyped' /\ TextsTyped'
    <3>1. PICK t \in Texts \cup {NoText} : texts' = [texts EXCEPT ![p] = t]
      BY <2>3 DEF EditText
    <3>2. UNCHANGED <<files, up, objs, nextId, spawn, saved, applied, migrating, fresh, doubt, doubled>>
      BY <2>3 DEF EditText, worldVars, dbVars, migrationVars
    <3> QED BY <2>1, <3>1, <3>2 DEF FilesTyped, TextsTyped
  <2> QED BY <2>2, <2>3
<1>2. Control'
  BY <1>1 DEF Inv, Control
<1> QED BY <1>1, <1>2, SameWorlds DEF Inv

LEMMA NextKeeps ==
    ASSUME Inv, [Next]_vars PROVE Inv' /\ (Keyed => Keyed') /\ Alive
<1>1. CASE Boot
  BY <1>1, BootKeeps
<1>2. CASE ReloadWorld
  BY <1>2, ReloadKeeps
<1>3. CASE Export
  BY <1>3, ExportStep
<1>4. ASSUME NEW b \in Bundles, ImportBundle(b) PROVE Inv' /\ (Keyed => Keyed') /\ Alive
  BY <1>4, ImportBundleKeeps
<1>5. ASSUME NEW r \in 1..MaxRef, PickUp(r) PROVE Inv' /\ (Keyed => Keyed') /\ Alive
  BY <1>5, PickUpKeeps
<1>6. ASSUME NEW r \in 1..MaxRef, Detach(r) \/ Destroy(r) PROVE Inv' /\ (Keyed => Keyed') /\ Alive
  BY <1>6, DetachKeeps, DestroyKeeps
<1>16. ASSUME NEW r \in 1..MaxRef, NEW a \in 0..MaxRef, Delegate(r, a)
      PROVE  Inv' /\ (Keyed => Keyed') /\ Alive
  BY <1>16, DelegateKeeps
<1>7. ASSUME NEW r \in 1..MaxRef, NEW t \in HandWritten.texts, WriteScript(r, t)
      PROVE  Inv' /\ (Keyed => Keyed') /\ Alive
  BY <1>7, WriteScriptKeeps
<1>8. ASSUME NEW kind \in HandMade, CreateByHand(kind, HandName)
      PROVE  Inv' /\ (Keyed => Keyed') /\ Alive
  BY <1>8, CreateKeeps
<1>9. CASE Save
  BY <1>9, SaveKeeps
<1>10. CASE Shutdown
  BY <1>10, ShutdownKeeps
<1>11. CASE Crash
  BY <1>11, CrashKeeps
<1>12. CASE MigrateWorld
  BY <1>12, MigrateWorldKeeps
<1>13. CASE MigrateRecord \/ MigrateDies
  BY <1>13, MigrationEnds
<1>14. CASE (\E a \in Areas : EditFile(a)) \/ (\E p \in ProgFiles : EditText(p))
  BY <1>14, EditKeeps
<1>15. CASE UNCHANGED vars
  <2>1. UNCHANGED <<files, texts, up, objs, nextId, spawn, saved, applied, migrating, fresh, doubt, doubled>>
    BY <1>15 DEF vars
  <2>2. Control'
    BY <2>1 DEF Inv, Control, FilesTyped, TextsTyped
  <2> QED BY <2>1, <2>2, SameWorlds DEF Inv
<1> QED
  BY <1>1, <1>2, <1>3, <1>4, <1>5, <1>6, <1>7, <1>8, <1>9, <1>10, <1>11, <1>12, <1>13, <1>14, <1>15, <1>16
  DEF Next

LEMMA ContentInvariance == Spec => []Inv
<1>1. Init => Inv
  BY InitInv
<1>2. Inv /\ [Next]_vars => Inv'
  BY NextKeeps
<1> QED BY <1>1, <1>2, PTL DEF Spec

(* The world is of its types whatever happens: no reference is ever used that *)
(* was not handed out (World::next_dbref), no program is on an object that    *)
(* neither a file nor a builder wrote.                                        *)
THEOREM WorldTyped == Spec => []TypeOK
<1>1. Inv => TypeOK
  <2> SUFFICES ASSUME Inv PROVE TypeOK
    OBVIOUS
  <2>1. World(objs, nextId) /\ nextId <= MaxRef /\ nextId \in Nat /\ MaxRef \in Nat
    BY ContentAssumption DEF Inv, Worlds, World
  <2>2. ASSUME NEW r \in DOMAIN objs
        PROVE  /\ objs[r].kind \in Kinds /\ objs[r].script \in Program /\ objs[r].lib \in Program
               /\ {objs[r].loc, objs[r].to, objs[r].arch} \subseteq 0..MaxRef
    BY <2>1 DEF World, Object
  <2>3. DOMAIN objs \subseteq 1..nextId /\ nextId \in 0..MaxRef /\ spawn \in 0..MaxRef
    BY <2>1 DEF World, Inv, Worlds
  <2>4. /\ applied \in 0..Len(Revisions) /\ {up, migrating} \subseteq BOOLEAN
        /\ doubt \subseteq Areas /\ fresh \subseteq Areas
    BY DEF Inv, Control
  <2> QED BY <2>2, <2>3, <2>4 DEF TypeOK
<1> QED BY <1>1, ContentInvariance, PTL

(* Loads, imports, exports, saves, restarts and migrations never put a file's *)
(* script in the place of one that was written in the game: whatever the      *)
(* files, the bundles and the revisions are (install_script,                  *)
(* resolve_one_script, the migrations that move objects to other keys).       *)
THEOREM HandWrittenStays == Spec => EditsSurvive
<1>1. Inv /\ [Next]_vars => [~(up /\ ~up' /\ saved' = saved) =>
         \A r \in DOMAIN Live \cap DOMAIN Live' :
            Live[r].script.origin = "ingame" => Live'[r].script.origin = "ingame"]_vars
  <2> SUFFICES ASSUME Inv, [Next]_vars
               PROVE  ~(up /\ ~up' /\ saved' = saved) =>
                         \A r \in DOMAIN Live \cap DOMAIN Live' :
                            Live[r].script.origin = "ingame" => Live'[r].script.origin = "ingame"
    OBVIOUS
  <2>1. Alive
    BY NextKeeps
  <2> QED BY <2>1 DEF Alive, Survive, Written1
<1> QED BY <1>1, ContentInvariance, PTL DEF Spec, EditsSurvive

(* No two objects made by files carry one key, in memory or in the database,  *)
(* unless one of them got it by being detached from an archetype              *)
(* (detach_object) or from a revision that names a source in two operations   *)
(* (migrate.rs:274): a load finds again what a load has made, whatever was    *)
(* imported, exported, removed, pointed at archetypes, renamed or lost in a   *)
(* crash in between, for any files, bundles and revisions (load_game_dir,     *)
(* import_bundle).                                                            *)
THEOREM KeysStayUnique == Spec => []WorldKeyed
<1>1. Init => Keyed
  BY InitInv
<1>2. Inv /\ Keyed /\ [Next]_vars => Keyed'
  BY NextKeeps
<1>3. Keyed => ManagedKeysUnique
  BY DEF Keyed, Unique, ManagedKeysUnique
<1>4. Spec => []Keyed
  BY <1>1, <1>2, ContentInvariance, PTL DEF Spec
<1> QED BY <1>3, <1>4, WorldTyped, PTL DEF WorldKeyed

-----------------------------------------------------------------------------
(* What the hashes claim *)

Defs(c) == ToSet(c.things) \cup ToSet(c.rest)

(* No file defines one key in two ways.  The loader does not look for that:   *)
(* the second of two rooms with one key is loaded over the first.             *)
DefinedOnce == \A a \in Areas : \A c \in Versions[a] : \A d, e \in Defs(c) : d.key = e.key => d = e

(* An object is as its definition says, with the programs tx. *)
HasScript(x, d, tx) ==
    \/ x.script.origin = "ingame" \/ Unreadable(d.script, tx)
    \/ x.script = IF d.script = NoKey THEN NoProgram ELSE FromFile(tx[d.script])
HasText(x, d) == d.kind # "exit" /\ d.key.sub # "script" => x.desc = d.desc
Leads(o, x, d) == d.kind = "exit" => KeyOf(o, x.loc) = d.loc /\ KeyOf(o, x.to) = d.to
Fits(o, x, d, tx) ==
    /\ x.managed /\ x.fk = d.key
    /\ HasScript(x, d, tx) /\ HasText(x, d) /\ Leads(o, x, d)
InstalledAs(o, d, tx) == \E r \in DOMAIN o : Fits(o, o[r], d, tx)

(* Every object that has a key keeps it, and if the key is not in K it keeps  *)
(* what its definition says of it, too.                                       *)
Alike(x, y) ==
    y.script = x.script /\ y.desc = x.desc /\ y.loc = x.loc /\ y.to = x.to
Leaves(o, p, K) ==
    \A r \in DOMAIN o :
       o[r].fk # NoKey => r \in DOMAIN p /\ Same(o[r], p[r]) /\ (o[r].fk \in K \/ Alike(o[r], p[r]))

LEMMA LeavesStays == ASSUME NEW o, NEW K PROVE Leaves(o, o, K)
BY DEF Leaves, Same, Alike

LEMMA LeavesGoesOn ==
    ASSUME NEW o, NEW p, NEW q, NEW J, NEW K, NEW U, Leaves(o, p, J), Leaves(p, q, K),
           J \subseteq U, K \subseteq U
    PROVE  Leaves(o, q, U)
<1>1. ASSUME NEW r \in DOMAIN o, o[r].fk # NoKey
      PROVE  r \in DOMAIN q /\ Same(o[r], q[r]) /\ (o[r].fk \in U \/ Alike(o[r], q[r]))
  <2>1. r \in DOMAIN p /\ Same(o[r], p[r]) /\ (o[r].fk \in J \/ Alike(o[r], p[r]))
    BY <1>1 DEF Leaves
  <2>2. p[r].fk = o[r].fk
    BY <2>1 DEF Same
  <2>3. r \in DOMAIN q /\ Same(p[r], q[r]) /\ (p[r].fk \in K \/ Alike(p[r], q[r]))
    BY <1>1, <2>1, <2>2 DEF Leaves
  <2>4. Same(o[r], q[r])
    BY <2>1, <2>3 DEF Same
  <2>5. ASSUME o[r].fk \notin U PROVE Alike(o[r], q[r])
    <3>1. Alike(o[r], p[r]) /\ Alike(p[r], q[r])
      BY <2>1, <2>2, <2>3, <2>5
    <3> QED BY <3>1 DEF Alike
  <2> QED BY <2>3, <2>4, <2>5
<1> QED BY <1>1 DEF Leaves

(* An object that is left as it was still is as its definition says. *)
LEMMA LeavesInstalled ==
    ASSUME NEW o, NEW p, NEW K, NEW d, NEW tx, Leaves(o, p, K), WellMade(d), d.key \notin K,
           InstalledAs(o, d, tx)
    PROVE  InstalledAs(p, d, tx)
<1>1. PICK r \in DOMAIN o : Fits(o, o[r], d, tx)
  BY DEF InstalledAs
<1>2. o[r].fk = d.key /\ d.key # NoKey
  BY <1>1 DEF Fits, WellMade
<1>3. r \in DOMAIN p /\ Same(o[r], p[r]) /\ Alike(o[r], p[r])
  BY <1>2 DEF Leaves
<1>4. ASSUME NEW q, KeyOf(o, q) # NoKey PROVE KeyOf(p, q) = KeyOf(o, q)
  <2>1. q \in DOMAIN o /\ o[q].fk # NoKey /\ KeyOf(o, q) = o[q].fk
    BY <1>4 DEF KeyOf
  <2>2. q \in DOMAIN p /\ p[q].fk = o[q].fk
    BY <2>1 DEF Leaves, Same
  <2> QED BY <2>1, <2>2 DEF KeyOf
<1>5. Leads(p, p[r], d)
  <2>1. ASSUME d.kind = "exit" PROVE KeyOf(p, p[r].loc) = d.loc /\ KeyOf(p, p[r].to) = d.to
    <3>1. KeyOf(o, o[r].loc) = d.loc /\ KeyOf(o, o[r].to) = d.to /\ d.loc # NoKey /\ d.to # NoKey
      BY <1>1, <2>1 DEF Fits, Leads, WellMade
    <3>2. KeyOf(p, o[r].loc) = d.loc /\ KeyOf(p, o[r].to) = d.to
      BY <1>4, <3>1
    <3>3. p[r].loc = o[r].loc /\ p[r].to = o[r].to
      BY <1>3 DEF Alike
    <3> QED BY <3>2, <3>3
  <2> QED BY <2>1 DEF Leads
<1>6. HasScript(p[r], d, tx) /\ HasText(p[r], d)
  <2>1. HasScript(o[r], d, tx) /\ HasText(o[r], d)
    BY <1>1 DEF Fits
  <2>2. p[r].script = o[r].script /\ p[r].desc = o[r].desc
    BY <1>3 DEF Alike
  <2> QED BY <2>1, <2>2 DEF HasScript, HasText
<1>7. p[r].managed /\ p[r].fk = d.key
  BY <1>1, <1>3 DEF Fits, Same
<1> QED BY <1>3, <1>5, <1>6, <1>7 DEF InstalledAs, Fits

(* Programs that have not changed, or are not there, make no difference. *)
LEMMA OtherTexts ==
    ASSUME NEW o, NEW d, NEW tx, NEW ty, InstalledAs(o, d, tx),
           d.script # NoKey /\ ~Unreadable(d.script, ty) =>
              ~Unreadable(d.script, tx) /\ ty[d.script] = tx[d.script]
    PROVE  InstalledAs(o, d, ty)
<1>1. PICK r \in DOMAIN o : Fits(o, o[r], d, tx)
  BY DEF InstalledAs
<1>2. HasScript(o[r], d, ty)
  <2>1. HasScript(o[r], d, tx)
    BY <1>1 DEF Fits
  <2>2. ~Unreadable(NoKey, tx) /\ ~Unreadable(NoKey, ty)
    BY DEF Unreadable
  <2> QED BY <2>1, <2>2 DEF HasScript
<1> QED BY <1>1, <1>2 DEF InstalledAs, Fits

(* A key map names at most one key for a reference, and the object there, if  *)
(* there is one, carries it.                                                  *)
Sure(st) ==
    /\ \A j, k \in DOMAIN st.km : st.km[j] = st.km[k] => j = k
    /\ \A k \in DOMAIN st.km : st.km[k] \in DOMAIN st.objs => st.objs[st.km[k]].fk = k

(* What it finds was made by files. *)
Ours(st) == \A k \in DOMAIN st.km : st.km[k] \in DOMAIN st.objs => st.objs[st.km[k]].managed

(* All but these keys have an object. *)
There(st, K) == \A k \in DOMAIN st.km : k \in K \/ st.km[k] \in DOMAIN st.objs

LEMMA NewKeySure ==
    ASSUME NEW st, NEW k, Good(st), Sure(st),
           k \in DOMAIN st.km => st.km[k] \notin DOMAIN st.objs
    PROVE  LET t == [st EXCEPT !.next = st.next + 1, !.km = Put(st.km, k, st.next + 1)]
           IN  /\ Sure(t) /\ (Ours(st) => Ours(t)) /\ \A K : There(st, K) => There(t, K \cup {k})
               /\ DOMAIN t.km = DOMAIN st.km \cup {k} /\ \A j \in DOMAIN st.km \ {k} : t.km[j] = st.km[j]
<1> DEFINE t == [st EXCEPT !.next = st.next + 1, !.km = Put(st.km, k, st.next + 1)]
           km == Put(st.km, k, st.next + 1)
<1>1. t.km = km /\ t.objs = st.objs
  BY DEF Good
<1>2. /\ DOMAIN km = DOMAIN st.km \cup {k} /\ km[k] = st.next + 1
      /\ \A j \in DOMAIN st.km \ {k} : km[j] = st.km[j]
  BY DEF Put
<1>3. st.next \in Nat /\ DOMAIN st.objs \subseteq 1..st.next /\ \A j \in DOMAIN st.km : st.km[j] \in 1..st.next
  BY DEF Good, World
<1> HIDE DEF t, km
<1>4. st.next + 1 \notin DOMAIN st.objs /\ \A j \in DOMAIN st.km : st.km[j] # st.next + 1
  BY <1>3
<1>5. Sure(t)
  BY <1>1, <1>2, <1>4 DEF Sure
<1>6. Ours(st) => Ours(t)
  BY <1>1, <1>2, <1>4 DEF Ours
<1>7. ASSUME NEW K, There(st, K) PROVE There(t, K \cup {k})
  BY <1>1, <1>2, <1>7 DEF There
<1> QED BY <1>1, <1>2, <1>5, <1>6, <1>7 DEF t

(* The object that a key stands for is put in its place. *)
LEMMA PutSure ==
    ASSUME NEW st, NEW t, NEW k \in DOMAIN st.km, NEW r, r = st.km[k], NEW y, Sure(st), y.fk = k,
           r \in DOMAIN st.objs => Same(st.objs[r], y),
           t.objs = Put(st.objs, r, y), t.km = st.km
    PROVE  /\ Sure(t) /\ (Ours(st) /\ y.managed => Ours(t)) /\ Leaves(st.objs, t.objs, {k})
           /\ r \in DOMAIN t.objs /\ DOMAIN st.objs \subseteq DOMAIN t.objs /\ t.objs[r] = y
<1>1. /\ DOMAIN t.objs = DOMAIN st.objs \cup {r} /\ t.objs[r] = y
      /\ \A q \in DOMAIN st.objs \ {r} : t.objs[q] = st.objs[q]
  BY DEF Put
<1>2. Sure(t)
  <2>1. ASSUME NEW j \in DOMAIN t.km, t.km[j] \in DOMAIN t.objs PROVE t.objs[t.km[j]].fk = j
    <3>1. CASE j = k
      BY <1>1, <3>1
    <3>2. CASE j # k
      <4>1. st.km[j] # r /\ st.km[j] \in DOMAIN st.objs
        BY <1>1, <2>1, <3>2 DEF Sure
      <4> QED BY <1>1, <2>1, <4>1 DEF Sure
    <3> QED BY <3>1, <3>2
  <2> QED BY <2>1 DEF Sure
<1>3. ASSUME Ours(st), y.managed PROVE Ours(t)
  <2>1. ASSUME NEW j \in DOMAIN t.km, t.km[j] \in DOMAIN t.objs PROVE t.objs[t.km[j]].managed
    <3>1. CASE t.km[j] = r
      BY <1>1, <1>3, <3>1
    <3>2. CASE t.km[j] # r
      BY <1>1, <1>3, <2>1, <3>2 DEF Ours
    <3> QED BY <3>1, <3>2
  <2> QED BY <2>1 DEF Ours
<1>4. Leaves(st.objs, t.objs, {k})
  <2>1. ASSUME NEW q \in DOMAIN st.objs
        PROVE  q \in DOMAIN t.objs /\ Same(st.objs[q], t.objs[q])
               /\ (st.objs[q].fk \in {k} \/ Alike(st.objs[q], t.objs[q]))
    <3>1. CASE q = r
      <4>1. st.objs[q].fk = k
        BY <2>1, <3>1 DEF Sure
      <4> QED BY <1>1, <2>1, <3>1, <4>1
    <3>2. CASE q # r
      <4>1. q \in DOMAIN t.objs /\ t.objs[q] = st.objs[q]
        BY <1>1, <2>1, <3>2
      <4> QED BY <4>1 DEF Same, Alike
    <3> QED BY <3>1, <3>2
  <2> QED BY <2>1 DEF Leaves
<1> QED BY <1>1, <1>2, <1>3, <1>4

(* The script of a file is on the object, unless one written in the game is. *)
LEMMA InstallScriptGives ==
    ASSUME NEW o, NEW d, NEW n \in Nat, Object(o, n)
    PROVE  LET res == InstallScript(o, d)
           IN  /\ res.ok => HasScript(res.obj, d, texts)
               /\ res.obj.desc = o.desc /\ res.obj.loc = o.loc /\ res.obj.to = o.to
<1> DEFINE shadowed == o.script.origin = "ingame"
           shadowedLib == o.lib.origin = "ingame"
           badScript == ~shadowed /\ Unreadable(d.script, texts)
           badLib == ~shadowedLib /\ Unreadable(d.lib, texts)
           script == IF shadowed \/ badScript THEN o.script
                     ELSE IF d.script = NoKey THEN NoProgram ELSE FromFile(texts[d.script])
           lib == IF shadowedLib THEN o.lib
                  ELSE IF badScript THEN o.lib
                  ELSE IF d.lib = NoKey \/ badLib THEN NoProgram ELSE FromFile(texts[d.lib])
           y == [o EXCEPT !.script = script, !.lib = lib]
           res == InstallScript(o, d)
<1>1. res.ok = (~badScript /\ ~badLib) /\ res.obj = y
  BY DEF InstallScript
<1>2. /\ shadowed => script = o.script
      /\ ~shadowed /\ ~badScript => script = IF d.script = NoKey THEN NoProgram ELSE FromFile(texts[d.script])
  OBVIOUS
<1> HIDE DEF script, lib, res
<1>3. y.script = script /\ \A f \in Fields \ {"script", "lib"} : y[f] = o[f]
  BY DEF Object, Fields
<1>4. y.desc = o.desc /\ y.loc = o.loc /\ y.to = o.to
  BY <1>3 DEF Fields
<1> HIDE DEF y
<1>5. ASSUME ~badScript PROVE HasScript(y, d, texts)
  BY <1>2, <1>3, <1>5 DEF HasScript
<1> QED BY <1>1, <1>4, <1>5 DEF res

LEMMA DescribedGives ==
    ASSUME NEW o, NEW d, NEW km, NEW n \in Nat, Object(o, n)
    PROVE  LET y == Described(o, d, km)
           IN  HasText(y, d) /\ (d.kind = "exit" => y.loc = km[d.loc] /\ y.to = km[d.to])
<1> DEFINE y == Described(o, d, km)
<1>1. CASE d.kind = "exit"
  <2>1. y = [o EXCEPT !.loc = km[d.loc], !.to = km[d.to]]
    BY <1>1 DEF Described
  <2> HIDE DEF y
  <2>2. y.loc = km[d.loc] /\ y.to = km[d.to]
    BY <2>1 DEF Object, Fields
  <2> QED BY <1>1, <2>2 DEF HasText, y
<1>2. CASE d.kind # "exit" /\ d.key.sub = "script"
  BY <1>2 DEF HasText
<1>3. CASE d.kind # "exit" /\ d.key.sub # "script"
  <2> DEFINE kind == IF d.kind = "room" THEN o.kind ELSE d.kind
             loc == IF d.loc = NoKey THEN o.loc ELSE km[d.loc]
             arch == ResolveArchetype(km, d.arch)
  <2>1. y = [o EXCEPT !.kind = kind, !.desc = d.desc, !.loc = loc, !.arch = arch]
    BY <1>3 DEF Described
  <2> HIDE DEF y, kind, loc, arch
  <2>2. y.desc = d.desc
    BY <2>1 DEF Object, Fields
  <2> QED BY <1>3, <2>2 DEF HasText, y
<1> QED BY <1>1, <1>2, <1>3

(* A definition that is loaded touches the object of its key and no other,    *)
(* and if the load goes on, that object is as the definition says.            *)
LEMMA LoadIntoInstalls ==
    ASSUME NEW st, NEW d, NEW r, Good(st), WellMade(d), TextsTyped, Sure(st),
           d.key \in DOMAIN st.km, r = st.km[d.key],
           ~Dangles(st.km, d.loc), d.kind = "exit" => ~Dangles(st.km, d.to)
    PROVE  LET t == LoadInto(st, d, r)
           IN  /\ t.km = st.km /\ Sure(t) /\ (Ours(st) => Ours(t))
               /\ Leaves(st.objs, t.objs, {d.key}) /\ DOMAIN st.objs \subseteq DOMAIN t.objs
               /\ t.ok => r \in DOMAIN t.objs
               /\ /\ t.ok /\ Ours(st)
                  /\ d.kind = "exit" => st.km[d.loc] \in DOMAIN st.objs /\ st.km[d.to] \in DOMAIN st.objs
                  => InstalledAs(t.objs, d, texts)
<1> DEFINE before == IF r \in DOMAIN st.objs THEN st.objs[r] ELSE Made(d)
           told == Described(before, d, st.km)
           res == InstallScript(told, d)
           t == Loaded(st, r, res)
           Holds(u) ==
               /\ u.km = st.km /\ Sure(u) /\ (Ours(st) => Ours(u))
               /\ Leaves(st.objs, u.objs, {d.key}) /\ DOMAIN st.objs \subseteq DOMAIN u.objs
               /\ u.ok => r \in DOMAIN u.objs
               /\ /\ u.ok /\ Ours(st)
                  /\ d.kind = "exit" => st.km[d.loc] \in DOMAIN st.objs /\ st.km[d.to] \in DOMAIN st.objs
                  => InstalledAs(u.objs, d, texts)
<1>1. LoadInto(st, d, r) = t
  BY DEF LoadInto
<1>2. st.next \in Nat /\ World(st.objs, st.next) /\ r \in 1..st.next
  BY DEF Good, World
<1>3. /\ Object(before, st.next) /\ before.fk = d.key
      /\ r \in DOMAIN st.objs => before = st.objs[r]
      /\ Ours(st) => before.managed
  <2>1. CASE r \in DOMAIN st.objs
    BY <2>1, <1>2 DEF World, Sure, Ours
  <2>2. CASE r \notin DOMAIN st.objs
    <3> DEFINE x == Blank(d.kind, d.key.base)
               m == [x EXCEPT !.fk = d.key, !.managed = TRUE]
    <3>1. Object(x, st.next)
      BY <1>2, BlankObject DEF WellMade, Kinds
    <3> HIDE DEF x
    <3>2. /\ DOMAIN m = Fields /\ m.fk = d.key /\ m.managed
          /\ \A f \in Fields \ {"fk", "managed"} : m[f] = x[f]
      BY <3>1 DEF Object, Fields
    <3>3. before = m
      BY <2>2 DEF Made, x
    <3> HIDE DEF m, before
    <3>4. Object(m, st.next)
      BY <3>1, <3>2 DEF Object, Fields, WellMade
    <3> QED BY <2>2, <3>2, <3>3, <3>4
  <2> QED BY <2>1, <2>2
<1> HIDE DEF before
<1>4. Object(told, st.next) /\ Same(before, told)
  BY <1>2, <1>3, DescribedKeeps DEF Good
<1>5. HasText(told, d) /\ (d.kind = "exit" => told.loc = st.km[d.loc] /\ told.to = st.km[d.to])
  BY <1>2, <1>3, DescribedGives
<1> HIDE DEF told
<1>6. Same(told, res.obj)
  BY <1>2, <1>4, InstallScriptKeeps
<1>7. /\ res.ok => HasScript(res.obj, d, texts)
      /\ res.obj.desc = told.desc /\ res.obj.loc = told.loc /\ res.obj.to = told.to
  BY <1>2, <1>4, InstallScriptGives
<1> HIDE DEF res
<1>8. Same(before, res.obj) /\ res.obj.fk = d.key /\ res.obj.managed = before.managed
  BY <1>3, <1>4, <1>6 DEF Same
<1>9. CASE res.ok \/ r \in DOMAIN st.objs
  <2> DEFINE y == res.obj
             u == [st EXCEPT !.objs = Put(st.objs, r, y), !.ok = res.ok]
  <2>1. t = u
    BY <1>9 DEF Loaded
  <2>2. u.objs = Put(st.objs, r, y) /\ u.km = st.km /\ u.ok = res.ok
    BY DEF Good
  <2>3. y.fk = d.key /\ (r \in DOMAIN st.objs => Same(st.objs[r], y))
    BY <1>3, <1>8
  <2> HIDE DEF u, t, y
  <2>4. /\ Sure(u) /\ (Ours(st) /\ y.managed => Ours(u)) /\ Leaves(st.objs, u.objs, {d.key})
        /\ r \in DOMAIN u.objs /\ DOMAIN st.objs \subseteq DOMAIN u.objs /\ u.objs[r] = y
    BY <2>2, <2>3, PutSure
  <2>5. Ours(st) => y.managed
    BY <1>3, <1>8 DEF y
  <2>6. ASSUME u.ok, Ours(st),
               d.kind = "exit" => st.km[d.loc] \in DOMAIN st.objs /\ st.km[d.to] \in DOMAIN st.objs
        PROVE  InstalledAs(u.objs, d, texts)
    <3>1. HasScript(y, d, texts) /\ HasText(y, d)
      BY <1>5, <1>7, <2>2, <2>6 DEF HasText, y
    <3>2. Leads(u.objs, y, d)
      <4>1. ASSUME d.kind = "exit" PROVE KeyOf(u.objs, y.loc) = d.loc /\ KeyOf(u.objs, y.to) = d.to
        <5>1. /\ d.loc \in DOMAIN u.km /\ u.km[d.loc] \in DOMAIN u.objs
              /\ d.to \in DOMAIN u.km /\ u.km[d.to] \in DOMAIN u.objs
          BY <2>2, <2>4, <2>6, <4>1 DEF Dangles, WellMade
        <5>2. y.loc = u.km[d.loc] /\ y.to = u.km[d.to]
          BY <1>5, <1>7, <2>2, <4>1 DEF y
        <5> QED BY <2>4, <5>1, <5>2 DEF Sure, KeyOf
      <4> QED BY <4>1 DEF Leads
    <3>3. Fits(u.objs, y, d, texts)
      BY <2>3, <2>5, <2>6, <3>1, <3>2 DEF Fits
    <3> QED BY <2>4, <3>3 DEF InstalledAs
  <2>7. Holds(u)
    BY <2>2, <2>4, <2>5, <2>6
  <2> HIDE DEF Holds
  <2> QED BY <1>1, <2>1, <2>7 DEF Holds
<1>10. CASE ~res.ok /\ r \notin DOMAIN st.objs
  <2> DEFINE u == [st EXCEPT !.ok = FALSE]
  <2>1. t = u
    BY <1>10 DEF Loaded
  <2>2. u.objs = st.objs /\ u.km = st.km /\ ~u.ok
    BY DEF Good
  <2> HIDE DEF u, t
  <2>3. Sure(u) /\ (Ours(st) => Ours(u)) /\ Leaves(st.objs, u.objs, {d.key})
    BY <2>2, LeavesStays DEF Sure, Ours
  <2>4. Holds(u)
    BY <2>2, <2>3
  <2> HIDE DEF Holds
  <2> QED BY <1>1, <2>1, <2>4 DEF Holds
<1> QED BY <1>9, <1>10

LEMMA LoadThingInstalls ==
    ASSUME NEW st, NEW d, Good(st), WellMade(d), d.kind # "exit", TextsTyped, Sure(st),
           d.key \in DOMAIN st.km
    PROVE  LET t == LoadThing(st, d)
           IN  /\ t.km = st.km /\ Sure(t) /\ (Ours(st) => Ours(t))
               /\ Leaves(st.objs, t.objs, {d.key}) /\ DOMAIN st.objs \subseteq DOMAIN t.objs
               /\ t.ok => /\ st.ok /\ st.km[d.key] \in DOMAIN t.objs
                          /\ Ours(st) => InstalledAs(t.objs, d, texts)
<1>1. CASE ~st.ok
  BY <1>1, LeavesStays DEF LoadThing
<1>2. CASE st.ok /\ Dangles(st.km, d.loc)
  <2> DEFINE t == [st EXCEPT !.ok = FALSE]
  <2>1. LoadThing(st, d) = t
    BY <1>2 DEF LoadThing
  <2>2. t.km = st.km /\ t.objs = st.objs /\ ~t.ok
    BY EndKeeps
  <2> HIDE DEF t
  <2>3. Sure(t) /\ (Ours(st) => Ours(t)) /\ Leaves(st.objs, t.objs, {d.key})
    BY <2>2, LeavesStays DEF Sure, Ours
  <2> QED BY <2>1, <2>2, <2>3
<1>3. CASE st.ok /\ ~Dangles(st.km, d.loc)
  <2>1. LoadThing(st, d) = LoadInto(st, d, st.km[d.key])
    BY <1>3 DEF LoadThing
  <2> QED BY <2>1, <1>3, LoadIntoInstalls
<1> QED BY <1>1, <1>2, <1>3

LEMMA IfNewSure ==
    ASSUME NEW st, NEW d, Good(st), Sure(st)
    PROVE  LET t == IfNew(st, d)
           IN  /\ Sure(t) /\ (Ours(st) => Ours(t)) /\ (There(st, {}) => There(t, {d.key}))
               /\ \A k \in DOMAIN st.km : st.km[k] \in DOMAIN st.objs => k \in DOMAIN t.km /\ t.km[k] = st.km[k]
<1> DEFINE there == d.key \in DOMAIN st.km /\ st.km[d.key] \in DOMAIN st.objs
<1>1. CASE there
  BY <1>1 DEF IfNew, There
<1>2. CASE ~there
  <2> DEFINE t == [st EXCEPT !.next = st.next + 1, !.km = Put(st.km, d.key, st.next + 1)]
  <2>1. /\ Sure(t) /\ (Ours(st) => Ours(t)) /\ \A K : There(st, K) => There(t, K \cup {d.key})
        /\ DOMAIN t.km = DOMAIN st.km \cup {d.key}
        /\ \A j \in DOMAIN st.km \ {d.key} : t.km[j] = st.km[j]
    BY <1>2, NewKeySure
  <2>2. IfNew(st, d) = t
    BY <1>2 DEF IfNew
  <2> HIDE DEF t
  <2>3. There(st, {}) => There(t, {} \cup {d.key})
    BY <2>1
  <2>4. {} \cup {d.key} = {d.key}
    OBVIOUS
  <2>5. There(st, {}) => There(t, {d.key})
    BY <2>3, <2>4
  <2>6. ASSUME NEW k \in DOMAIN st.km, st.km[k] \in DOMAIN st.objs
        PROVE  k \in DOMAIN t.km /\ t.km[k] = st.km[k]
    <3>1. k # d.key
      BY <1>2, <2>6
    <3> QED BY <2>1, <3>1
  <2> QED BY <2>1, <2>2, <2>5, <2>6
<1> QED BY <1>1, <1>2

LEMMA LoadRestInstalls ==
    ASSUME NEW st, NEW d, Good(st), WellMade(d), TextsTyped, Sure(st)
    PROVE  LET t == LoadRest(st, d)
           IN  /\ Sure(t) /\ (Ours(st) => Ours(t))
               /\ Leaves(st.objs, t.objs, {d.key}) /\ DOMAIN st.objs \subseteq DOMAIN t.objs
               /\ t.ok => /\ st.ok
                          /\ There(st, {}) => There(t, {})
                          /\ There(st, {}) /\ Ours(st) => InstalledAs(t.objs, d, texts)
<1>1. CASE ~st.ok
  BY <1>1, LeavesStays DEF LoadRest
<1>2. CASE /\ st.ok
           /\ \/ Dangles(st.km, d.loc) \/ Dangles(st.km, d.to)
              \/ d.key.sub = "script" /\ Unreadable(d.script, texts)
  <2> DEFINE t == [st EXCEPT !.ok = FALSE]
  <2>1. LoadRest(st, d) = t
    BY <1>2 DEF LoadRest
  <2>2. t.km = st.km /\ t.objs = st.objs /\ ~t.ok
    BY EndKeeps
  <2> HIDE DEF t
  <2>3. Sure(t) /\ (Ours(st) => Ours(t)) /\ Leaves(st.objs, t.objs, {d.key})
    BY <2>2, LeavesStays DEF Sure, Ours
  <2> QED BY <2>1, <2>2, <2>3
<1>3. CASE /\ st.ok /\ ~Dangles(st.km, d.loc) /\ ~Dangles(st.km, d.to)
           /\ ~(d.key.sub = "script" /\ Unreadable(d.script, texts))
  <2> DEFINE at == IfNew(st, d)
             r == at.km[d.key]
             t == LoadInto(at, d, r)
  <2>1. LoadRest(st, d) = t
    BY <1>3 DEF LoadRest
  <2>2. Good(at) /\ Onward(st, at) /\ d.key \in DOMAIN at.km /\ at.objs = st.objs
    BY IfNewStep
  <2>3. /\ Sure(at) /\ (Ours(st) => Ours(at)) /\ (There(st, {}) => There(at, {d.key}))
        /\ \A k \in DOMAIN st.km : st.km[k] \in DOMAIN st.objs => k \in DOMAIN at.km /\ at.km[k] = st.km[k]
    BY IfNewSure
  <2> HIDE DEF at
  <2>4. ~Dangles(at.km, d.loc) /\ ~Dangles(at.km, d.to)
    BY <1>3, <2>2 DEF Dangles, Onward
  <2>5. /\ t.km = at.km /\ Sure(t) /\ (Ours(at) => Ours(t))
        /\ Leaves(at.objs, t.objs, {d.key}) /\ DOMAIN at.objs \subseteq DOMAIN t.objs
        /\ t.ok => r \in DOMAIN t.objs
        /\ /\ t.ok /\ Ours(at)
           /\ d.kind = "exit" => at.km[d.loc] \in DOMAIN at.objs /\ at.km[d.to] \in DOMAIN at.objs
           => InstalledAs(t.objs, d, texts)
    BY <2>2, <2>3, <2>4, LoadIntoInstalls
  <2> HIDE DEF t
  <2>6. ASSUME t.ok, There(st, {}) PROVE There(t, {})
    BY <2>2, <2>3, <2>5, <2>6 DEF There
  <2>7. ASSUME t.ok, There(st, {}), Ours(st) PROVE InstalledAs(t.objs, d, texts)
    <3>1. ASSUME d.kind = "exit" PROVE at.km[d.loc] \in DOMAIN at.objs /\ at.km[d.to] \in DOMAIN at.objs
      <4>1. d.loc \in DOMAIN st.km /\ d.to \in DOMAIN st.km
        BY <1>3, <3>1 DEF Dangles, WellMade
      <4>2. st.km[d.loc] \in DOMAIN st.objs /\ st.km[d.to] \in DOMAIN st.objs
        BY <2>7, <4>1 DEF There
      <4> QED BY <2>2, <2>3, <4>1, <4>2
    <3> QED BY <2>3, <2>5, <2>7, <3>1
  <2> QED BY <1>3, <2>1, <2>2, <2>3, <2>5, <2>6, <2>7
<1> QED BY <1>1, <1>2, <1>3

(* A definition stays installed while others are loaded. *)
LEMMA StillInstalled ==
    ASSUME NEW o, NEW p, NEW d, NEW e, WellMade(e), e.key = d.key => e = d,
           Leaves(o, p, {d.key}), InstalledAs(p, d, texts),
           e = d \/ InstalledAs(o, e, texts)
    PROVE  InstalledAs(p, e, texts)
<1>1. CASE e = d
  BY <1>1
<1>2. CASE e # d
  <2>1. e.key \notin {d.key} /\ InstalledAs(o, e, texts)
    BY <1>2
  <2> QED BY <2>1, LeavesInstalled
<1> QED BY <1>1, <1>2

(* Pass 2: after the last thing all of them are as the files say. *)
LEMMA ThingLoopInstalls ==
    ASSUME NEW st, NEW s, Len(s) \in Nat, Good(st), TextsTyped, Sure(st), Ours(st), NEW K,
           \A i \in 1..Len(s) : /\ WellMade(s[i]) /\ s[i].kind # "exit"
                                /\ s[i].key \in DOMAIN st.km /\ s[i].key \in K,
           \A i, j \in 1..Len(s) : s[i].key = s[j].key => s[i] = s[j]
    PROVE  LET t == ThingsLoaded(st, s)
           IN  /\ Good(t) /\ t.km = st.km /\ Sure(t) /\ Ours(t)
               /\ Leaves(st.objs, t.objs, K) /\ DOMAIN st.objs \subseteq DOMAIN t.objs
               /\ t.ok => \A i \in 1..Len(s) : /\ st.km[s[i].key] \in DOMAIN t.objs
                                               /\ InstalledAs(t.objs, s[i], texts)
<1> DEFINE N == Len(s)
           t == ThingsLoaded(st, s)
           Held(i, u) ==
               /\ Good(u) /\ u.km = st.km /\ Sure(u) /\ Ours(u)
               /\ Leaves(st.objs, u.objs, K) /\ DOMAIN st.objs \subseteq DOMAIN u.objs
               /\ u.ok => \A j \in 1..i : /\ st.km[s[j].key] \in DOMAIN u.objs
                                          /\ InstalledAs(u.objs, s[j], texts)
<1>5. PICK w : Run(w, "thing", st, s, 0) /\ t = w[N]
  BY AlongThing
<1>1. w[0] = st /\ t = w[N] /\ \A i \in 1..N : w[i] = LoadThing(w[i - 1], s[i])
  BY <1>5, RunIs, Steps
<1> DEFINE T == {i \in 0..N : Held(i, w[i])}
<1>6. /\ \A i \in 1..N : /\ WellMade(s[i]) /\ s[i].kind # "exit"
                         /\ s[i].key \in DOMAIN st.km /\ s[i].key \in K
      /\ \A i, j \in 1..N : s[i].key = s[j].key => s[i] = s[j]
  OBVIOUS
<1>0. N \in Nat
  OBVIOUS
<1> HIDE DEF t, N
<1>2. 0 \in T
  BY <1>0, <1>1, LeavesStays
<1>3. ASSUME NEW i \in 1..N, i - 1 \in T PROVE i \in T
  <2> DEFINE u == w[i - 1]
             v == w[i]
             d == s[i]
  <2>1. /\ Held(i - 1, u) /\ v = LoadThing(u, d)
        /\ WellMade(d) /\ d.kind # "exit" /\ d.key \in DOMAIN st.km /\ d.key \in K
    BY <1>1, <1>3, <1>6
  <2>2. \A j \in 1..(i - 1) : WellMade(s[j]) /\ (s[j].key = d.key => s[j] = d)
    BY <1>0, <1>6
  <2>3. \A j \in 1..i : j \in 1..(i - 1) \/ s[j] = d
    BY <1>0
  <2> HIDE DEF u, v, d
  <2>4. d.key \in DOMAIN u.km
    BY <2>1
  <2>5. Good(v)
    BY <2>1, <2>4, LoadThingStep
  <2>6. /\ v.km = u.km /\ Sure(v) /\ (Ours(u) => Ours(v))
        /\ Leaves(u.objs, v.objs, {d.key}) /\ DOMAIN u.objs \subseteq DOMAIN v.objs
        /\ v.ok => /\ u.ok /\ u.km[d.key] \in DOMAIN v.objs
                   /\ Ours(u) => InstalledAs(v.objs, d, texts)
    BY <2>1, <2>4, LoadThingInstalls
  <2>7. Leaves(st.objs, v.objs, K)
    BY <2>1, <2>6, LeavesGoesOn
  <2>8. ASSUME v.ok, NEW j \in 1..i
        PROVE  st.km[s[j].key] \in DOMAIN v.objs /\ InstalledAs(v.objs, s[j], texts)
    <3>1. u.ok /\ u.km[d.key] \in DOMAIN v.objs /\ InstalledAs(v.objs, d, texts)
      BY <2>1, <2>6, <2>8
    <3>2. CASE s[j] = d
      BY <2>1, <3>1, <3>2
    <3>3. CASE j \in 1..(i - 1)
      <4>1. /\ st.km[s[j].key] \in DOMAIN u.objs /\ InstalledAs(u.objs, s[j], texts)
            /\ WellMade(s[j]) /\ (s[j].key = d.key => s[j] = d)
        BY <2>1, <2>2, <3>1, <3>3
      <4> QED BY <2>6, <3>1, <4>1, StillInstalled
    <3> QED BY <2>3, <3>2, <3>3
  <2>9. DOMAIN st.objs \subseteq DOMAIN v.objs /\ v.km = st.km /\ Ours(v)
    BY <2>1, <2>6
  <2>10. Held(i, v)
    BY <2>5, <2>6, <2>7, <2>8, <2>9
  <2> HIDE DEF Held
  <2> QED BY <1>0, <2>10 DEF v
<1>4. N \in T
  <2> HIDE DEF T
  <2>1. \A i \in 0..N : i \in T
    BY <1>0, <1>2, <1>3, Climb
  <2> QED BY <1>0, <2>1
<1> QED BY <1>1, <1>4 DEF t, N

(* Exits and scripts: after the last of them all of them are, and so are the  *)
(* definitions that were loaded before (E).                                   *)
LEMMA RestLoopInstalls ==
    ASSUME NEW st, NEW s, Len(s) \in Nat, Good(st), TextsTyped, Sure(st), Ours(st), NEW K, NEW E,
           \A i \in 1..Len(s) : WellMade(s[i]) /\ s[i].key \in K,
           \A i, j \in 1..Len(s) : s[i].key = s[j].key => s[i] = s[j],
           \A e \in E : WellMade(e) /\ \A i \in 1..Len(s) : e.key = s[i].key => e = s[i],
           st.ok => There(st, {}) /\ \A e \in E : InstalledAs(st.objs, e, texts)
    PROVE  LET t == RestLoaded(st, s)
           IN  /\ Good(t) /\ Leaves(st.objs, t.objs, K)
               /\ t.ok => /\ \A e \in E : InstalledAs(t.objs, e, texts)
                          /\ \A i \in 1..Len(s) : InstalledAs(t.objs, s[i], texts)
<1> DEFINE N == Len(s)
           t == RestLoaded(st, s)
           Held(i, u) ==
               /\ Good(u) /\ Sure(u) /\ Ours(u) /\ Leaves(st.objs, u.objs, K)
               /\ u.ok => /\ There(u, {})
                          /\ \A e \in E : InstalledAs(u.objs, e, texts)
                          /\ \A j \in 1..i : InstalledAs(u.objs, s[j], texts)
<1>5. PICK w : Run(w, "rest", st, s, 0) /\ t = w[N]
  BY AlongRest
<1>1. w[0] = st /\ t = w[N] /\ \A i \in 1..N : w[i] = LoadRest(w[i - 1], s[i])
  BY <1>5, RunIs, Steps
<1> DEFINE T == {i \in 0..N : Held(i, w[i])}
<1>6. /\ \A i \in 1..N : WellMade(s[i]) /\ s[i].key \in K
      /\ \A i, j \in 1..N : s[i].key = s[j].key => s[i] = s[j]
      /\ \A e \in E : WellMade(e) /\ \A i \in 1..N : e.key = s[i].key => e = s[i]
  OBVIOUS
<1>0. N \in Nat
  OBVIOUS
<1> HIDE DEF t, N
<1>2. 0 \in T
  BY <1>0, <1>1, LeavesStays
<1>3. ASSUME NEW i \in 1..N, i - 1 \in T PROVE i \in T
  <2> DEFINE u == w[i - 1]
             v == w[i]
             d == s[i]
  <2>1. Held(i - 1, u) /\ v = LoadRest(u, d) /\ WellMade(d) /\ d.key \in K
    BY <1>1, <1>3, <1>6
  <2>2. /\ \A j \in 1..(i - 1) : WellMade(s[j]) /\ (s[j].key = d.key => s[j] = d)
        /\ \A e \in E : WellMade(e) /\ (e.key = d.key => e = d)
    BY <1>0, <1>6
  <2>3. \A j \in 1..i : j \in 1..(i - 1) \/ s[j] = d
    BY <1>0
  <2> HIDE DEF u, v, d
  <2>5. Good(v)
    BY <2>1, LoadRestStep
  <2>6. /\ Sure(v) /\ (Ours(u) => Ours(v))
        /\ Leaves(u.objs, v.objs, {d.key}) /\ DOMAIN u.objs \subseteq DOMAIN v.objs
        /\ v.ok => /\ u.ok
                   /\ There(u, {}) => There(v, {})
                   /\ There(u, {}) /\ Ours(u) => InstalledAs(v.objs, d, texts)
    BY <2>1, LoadRestInstalls
  <2>7. Leaves(st.objs, v.objs, K)
    BY <2>1, <2>6, LeavesGoesOn
  <2>8. ASSUME v.ok
        PROVE  /\ There(v, {})
               /\ \A e \in E : InstalledAs(v.objs, e, texts)
               /\ \A j \in 1..i : InstalledAs(v.objs, s[j], texts)
    <3>1. /\ u.ok /\ There(v, {}) /\ InstalledAs(v.objs, d, texts)
          /\ \A e \in E : InstalledAs(u.objs, e, texts)
          /\ \A j \in 1..(i - 1) : InstalledAs(u.objs, s[j], texts)
      BY <2>1, <2>6, <2>8
    <3>2. ASSUME NEW e \in E PROVE InstalledAs(v.objs, e, texts)
      BY <2>2, <2>6, <3>1, StillInstalled
    <3>3. ASSUME NEW j \in 1..i PROVE InstalledAs(v.objs, s[j], texts)
      <4>1. CASE s[j] = d
        BY <3>1, <4>1
      <4>2. CASE j \in 1..(i - 1)
        BY <2>2, <2>6, <3>1, <4>2, StillInstalled
      <4> QED BY <2>3, <4>1, <4>2
    <3> QED BY <3>1, <3>2, <3>3
  <2>10. Held(i, v)
    BY <2>1, <2>5, <2>6, <2>7, <2>8
  <2> HIDE DEF Held
  <2> QED BY <1>0, <2>10 DEF v
<1>4. N \in T
  <2> HIDE DEF T
  <2>1. \A i \in 0..N : i \in T
    BY <1>0, <1>2, <1>3, Climb
  <2> QED BY <1>0, <2>1
<1> QED BY <1>1, <1>4 DEF t, N

LEMMA ToSetConcat ==
    ASSUME NEW X, NEW u \in Seq(X), NEW v \in Seq(X), NEW d
    PROVE  d \in ToSet(u \o v) <=> d \in ToSet(u) \/ d \in ToSet(v)
<1> DEFINE w == u \o v
<1>1. /\ Len(u) \in Nat /\ Len(v) \in Nat /\ w \in Seq(X) /\ Len(w) = Len(u) + Len(v)
      /\ \A i \in 1..Len(w) : w[i] = IF i <= Len(u) THEN u[i] ELSE v[i - Len(u)]
  OBVIOUS
<1>2. DOMAIN u = 1..Len(u) /\ DOMAIN v = 1..Len(v) /\ DOMAIN w = 1..Len(w)
  BY <1>1
<1> HIDE DEF w
<1>3. ASSUME d \in ToSet(w) PROVE d \in ToSet(u) \/ d \in ToSet(v)
  <2>1. PICK i \in 1..Len(w) : w[i] = d
    BY <1>2, <1>3 DEF ToSet
  <2>2. CASE i <= Len(u)
    BY <1>1, <1>2, <2>1, <2>2 DEF ToSet
  <2>3. CASE ~(i <= Len(u))
    <3>1. i - Len(u) \in 1..Len(v) /\ v[i - Len(u)] = d
      BY <1>1, <2>1, <2>3
    <3> QED BY <1>2, <3>1 DEF ToSet
  <2> QED BY <2>2, <2>3
<1>4. ASSUME d \in ToSet(u) PROVE d \in ToSet(w)
  <2>1. PICK i \in 1..Len(u) : u[i] = d
    BY <1>2, <1>4 DEF ToSet
  <2>2. i \in 1..Len(w) /\ w[i] = d
    BY <1>1, <2>1
  <2> QED BY <1>2, <2>2 DEF ToSet
<1>5. ASSUME d \in ToSet(v) PROVE d \in ToSet(w)
  <2>1. PICK i \in 1..Len(v) : v[i] = d
    BY <1>2, <1>5 DEF ToSet
  <2>2. Len(u) + i \in 1..Len(w) /\ ~(Len(u) + i <= Len(u)) /\ Len(u) + i - Len(u) = i
    BY <1>1, <2>1
  <2>3. w[Len(u) + i] = d
    BY <1>1, <2>1, <2>2
  <2> QED BY <1>2, <2>2, <2>3 DEF ToSet
<1> QED BY <1>3, <1>4, <1>5 DEF w

(* What the loops over the areas collect: the definitions of all files of S *)
LEMMA ThingsAre ==
    ASSUME FilesTyped, NEW S
    PROVE  \A d : d \in ToSet(Things(S)) <=> \E a \in Areas : a \in S /\ d \in ToSet(files[a].things)
<1> DEFINE N == Len(AreaOrder)
           ds == Things(S)
           From(i, d) == \E j \in 1..i : AreaOrder[j] \in S /\ d \in ToSet(files[AreaOrder[j]].things)
<1>0. N \in Nat /\ (\A i \in 1..N : AreaOrder[i] \in Areas) /\ \A a \in Areas : \E i \in 1..N : AreaOrder[i] = a
  BY ContentAssumption DEF Areas, ToSet
<1>6. PICK w : Run(w, "thingsOfFiles", <<>>, AreaOrder, S) /\ ds = w[N]
  BY <1>0, AlongThingsOfFiles
<1>1. /\ w[0] = <<>> /\ ds = w[N]
      /\ \A i \in 1..N : w[i] = Step("thingsOfFiles", w[i - 1], AreaOrder[i], S)
  BY <1>0, <1>6, RunIs
<1> DEFINE T == {i \in 0..N : w[i] \in Seq(AllThings) /\ \A d : d \in ToSet(w[i]) <=> From(i, d)}
<1> HIDE DEF ds, N
<1>5. w[0] = <<>> /\ ds = w[N]
  BY <1>1, Zenon
<1>2. 0 \in T
  <2>1. w[0] \in Seq(AllThings) /\ \A d : d \notin ToSet(w[0])
    BY <1>5 DEF ToSet
  <2>2. \A d : ~From(0, d)
    OBVIOUS
  <2> HIDE DEF From
  <2>3. 0 \in 0..N
    BY <1>0
  <2> QED BY <2>1, <2>2, <2>3
<1>3. ASSUME NEW i \in 1..N, i - 1 \in T PROVE i \in T
  <2> DEFINE u == w[i - 1]
             v == files[AreaOrder[i]].things
  <2>1. /\ u \in Seq(AllThings) /\ v \in Seq(AllThings)
        /\ \A d : d \in ToSet(u) <=> From(i - 1, d)
    BY <1>0, <1>3, DefinitionsWellMade
  <2>2. w[i] = Step("thingsOfFiles", u, AreaOrder[i], S)
    BY <1>1
  <2>3. w[i] = IF AreaOrder[i] \in S THEN u \o v ELSE u
    <3> HIDE DEF u
    <3> QED BY <2>2 DEF Step
  <2> HIDE DEF u
  <2>4. ASSUME NEW d PROVE From(i, d) <=> From(i - 1, d) \/ (AreaOrder[i] \in S /\ d \in ToSet(v))
    <3>1. \A j \in 1..i : j = i \/ j \in 1..(i - 1)
      BY <1>0
    <3>2. i \in 1..i /\ \A j \in 1..(i - 1) : j \in 1..i
      BY <1>0
    <3> QED BY <3>1, <3>2
  <2> HIDE DEF v, From
  <2>5. CASE AreaOrder[i] \in S
    <3>1. w[i] = u \o v
      BY <2>3, <2>5
    <3>2. \A d : d \in ToSet(u \o v) <=> d \in ToSet(u) \/ d \in ToSet(v)
      BY <2>1, ToSetConcat
    <3>3. u \o v \in Seq(AllThings)
      BY <2>1
    <3>4. w[i] \in Seq(AllThings) /\ \A d : d \in ToSet(w[i]) <=> From(i, d)
      BY <2>1, <2>4, <2>5, <3>1, <3>2, <3>3
    <3> QED BY <1>0, <3>4
  <2>6. CASE AreaOrder[i] \notin S
    <3>1. w[i] \in Seq(AllThings) /\ \A d : d \in ToSet(w[i]) <=> From(i, d)
      BY <2>1, <2>3, <2>4, <2>6
    <3> QED BY <1>0, <3>1
  <2> QED BY <2>5, <2>6
<1>4. N \in T
  <2> HIDE DEF T
  <2>1. \A i \in 0..N : i \in T
    BY <1>0, <1>2, <1>3, Climb
  <2> QED BY <1>0, <2>1
<1>7. \A d : d \in ToSet(ds) <=> From(N, d)
  BY <1>4, <1>5
<1> QED BY <1>0, <1>7 DEF ds

LEMMA RestAre ==
    ASSUME FilesTyped, NEW S
    PROVE  \A d : d \in ToSet(Rest(S)) <=> \E a \in Areas : a \in S /\ d \in ToSet(files[a].rest)
<1> DEFINE N == Len(AreaOrder)
           ds == Rest(S)
           From(i, d) == \E j \in 1..i : AreaOrder[j] \in S /\ d \in ToSet(files[AreaOrder[j]].rest)
<1>0. N \in Nat /\ (\A i \in 1..N : AreaOrder[i] \in Areas) /\ \A a \in Areas : \E i \in 1..N : AreaOrder[i] = a
  BY ContentAssumption DEF Areas, ToSet
<1>6. PICK w : Run(w, "restOfFiles", <<>>, AreaOrder, S) /\ ds = w[N]
  BY <1>0, AlongRestOfFiles
<1>1. /\ w[0] = <<>> /\ ds = w[N]
      /\ \A i \in 1..N : w[i] = Step("restOfFiles", w[i - 1], AreaOrder[i], S)
  BY <1>0, <1>6, RunIs
<1> DEFINE T == {i \in 0..N : w[i] \in Seq(AllRest) /\ \A d : d \in ToSet(w[i]) <=> From(i, d)}
<1> HIDE DEF ds, N
<1>5. w[0] = <<>> /\ ds = w[N]
  BY <1>1, Zenon
<1>2. 0 \in T
  <2>1. w[0] \in Seq(AllRest) /\ \A d : d \notin ToSet(w[0])
    BY <1>5 DEF ToSet
  <2>2. \A d : ~From(0, d)
    OBVIOUS
  <2> HIDE DEF From
  <2>3. 0 \in 0..N
    BY <1>0
  <2> QED BY <2>1, <2>2, <2>3
<1>3. ASSUME NEW i \in 1..N, i - 1 \in T PROVE i \in T
  <2> DEFINE u == w[i - 1]
             v == files[AreaOrder[i]].rest
  <2>1. /\ u \in Seq(AllRest) /\ v \in Seq(AllRest)
        /\ \A d : d \in ToSet(u) <=> From(i - 1, d)
    BY <1>0, <1>3, DefinitionsWellMade
  <2>2. w[i] = Step("restOfFiles", u, AreaOrder[i], S)
    BY <1>1
  <2>3. w[i] = IF AreaOrder[i] \in S THEN u \o v ELSE u
    <3> HIDE DEF u
    <3> QED BY <2>2 DEF Step
  <2> HIDE DEF u
  <2>4. ASSUME NEW d PROVE From(i, d) <=> From(i - 1, d) \/ (AreaOrder[i] \in S /\ d \in ToSet(v))
    <3>1. \A j \in 1..i : j = i \/ j \in 1..(i - 1)
      BY <1>0
    <3>2. i \in 1..i /\ \A j \in 1..(i - 1) : j \in 1..i
      BY <1>0
    <3> QED BY <3>1, <3>2
  <2> HIDE DEF v, From
  <2>5. CASE AreaOrder[i] \in S
    <3>1. w[i] = u \o v
      BY <2>3, <2>5
    <3>2. \A d : d \in ToSet(u \o v) <=> d \in ToSet(u) \/ d \in ToSet(v)
      BY <2>1, ToSetConcat
    <3>3. u \o v \in Seq(AllRest)
      BY <2>1
    <3>4. w[i] \in Seq(AllRest) /\ \A d : d \in ToSet(w[i]) <=> From(i, d)
      BY <2>1, <2>4, <2>5, <3>1, <3>2, <3>3
    <3> QED BY <1>0, <3>4
  <2>6. CASE AreaOrder[i] \notin S
    <3>1. w[i] \in Seq(AllRest) /\ \A d : d \in ToSet(w[i]) <=> From(i, d)
      BY <2>1, <2>3, <2>4, <2>6
    <3> QED BY <1>0, <3>1
  <2> QED BY <2>5, <2>6
<1>4. N \in T
  <2> HIDE DEF T
  <2>1. \A i \in 0..N : i \in T
    BY <1>0, <1>2, <1>3, Climb
  <2> QED BY <1>0, <2>1
<1>7. \A d : d \in ToSet(ds) <=> From(N, d)
  BY <1>4, <1>5
<1> QED BY <1>0, <1>7 DEF ds

(* Pass 1 gives references only to keys that have none. *)
LEMMA AssignLoopSure ==
    ASSUME NEW st, NEW s, Len(s) \in Nat, Good(st), Sure(st), NEW K, \A i \in 1..Len(s) : s[i].key \in K
    PROVE  LET t == Assigned(st, s)
           IN  Sure(t) /\ (Ours(st) => Ours(t)) /\ (There(st, {}) => There(t, K))
<1> DEFINE N == Len(s)
           t == Assigned(st, s)
           Held(u) == /\ Good(u) /\ Sure(u) /\ (Ours(st) => Ours(u)) /\ (There(st, {}) => There(u, K))
<1>5. PICK w : Run(w, "assign", st, s, 0) /\ t = w[N]
  BY AlongAssign
<1>1. w[0] = st /\ t = w[N] /\ \A i \in 1..N : w[i] = Assign(w[i - 1], s[i])
  BY <1>5, RunIs, Steps
<1> DEFINE T == {i \in 0..N : Held(w[i])}
<1>6. \A i \in 1..N : s[i].key \in K
  OBVIOUS
<1>0. N \in Nat
  OBVIOUS
<1> HIDE DEF t, N
<1>2. 0 \in T
  BY <1>0, <1>1 DEF There
<1>3. ASSUME NEW i \in 1..N, i - 1 \in T PROVE i \in T
  <2> DEFINE u == w[i - 1]
             v == w[i]
             d == s[i]
  <2>1. Held(u) /\ v = Assign(u, d) /\ d.key \in K
    BY <1>1, <1>3, <1>6
  <2> HIDE DEF u, v, d
  <2>2. Good(v)
    BY <2>1, AssignStep
  <2>3. Sure(v) /\ (Ours(u) => Ours(v)) /\ (There(u, K) => There(v, K))
    <3>1. CASE d.key \in DOMAIN u.km
      BY <2>1, <3>1 DEF Assign
    <3>2. CASE d.key \notin DOMAIN u.km
      <4> DEFINE x == [u EXCEPT !.next = u.next + 1, !.km = Put(u.km, d.key, u.next + 1)]
      <4>1. Sure(x) /\ (Ours(u) => Ours(x)) /\ \A J : There(u, J) => There(x, J \cup {d.key})
        BY <2>1, <3>2, NewKeySure
      <4>2. v = x
        BY <2>1, <3>2 DEF Assign
      <4> HIDE DEF x
      <4>3. K \cup {d.key} = K
        BY <2>1
      <4>4. There(u, K) => There(x, K \cup {d.key})
        BY <4>1
      <4>5. There(u, K) => There(x, K)
        BY <4>3, <4>4
      <4> QED BY <4>1, <4>2, <4>5
    <3> QED BY <3>1, <3>2
  <2>4. Held(v)
    BY <2>1, <2>2, <2>3
  <2> HIDE DEF Held
  <2> QED BY <1>0, <2>4 DEF v
<1>4. N \in T
  <2> HIDE DEF T
  <2>1. \A i \in 0..N : i \in T
    BY <1>0, <1>2, <1>3, Climb
  <2> QED BY <1>0, <2>1
<1> QED BY <1>1, <1>4 DEF t

(* What the files of some areas define *)
DefsIn(S) == UNION {Defs(files[a]) : a \in S}
KeysIn(S) == {d.key : d \in DefsIn(S)}

LEMMA DefsApart ==
    ASSUME FilesTyped, DefinedOnce, NEW S \in SUBSET Areas
    PROVE  /\ \A d \in DefsIn(S) : WellMade(d) /\ d.key.area \in S
           /\ \A d, e \in DefsIn(S) : d.key = e.key => d = e
<1>1. ASSUME NEW a \in Areas, NEW d \in Defs(files[a]) PROVE WellMade(d) /\ d.key.area = a
  <2>1. files[a] \in Versions[a]
    BY DEF FilesTyped
  <2>2. d.key.area = a
    BY <2>1, ContentAssumption DEF Defs
  <2>3. d \in AllThings \/ d \in AllRest
    BY <2>1 DEF Defs, AllThings, AllRest
  <2> QED BY <2>2, <2>3, DefinitionsWellMade
<1>2. ASSUME NEW d \in DefsIn(S), NEW e \in DefsIn(S), d.key = e.key PROVE d = e
  <2>1. PICK a \in S : d \in Defs(files[a])
    BY DEF DefsIn
  <2>2. PICK b \in S : e \in Defs(files[b])
    BY DEF DefsIn
  <2>3. a = b
    BY <1>1, <1>2, <2>1, <2>2
  <2>4. files[a] \in Versions[a]
    BY DEF FilesTyped
  <2> QED BY <1>2, <2>1, <2>2, <2>3, <2>4 DEF DefinedOnce
<1> QED BY <1>1, <1>2 DEF DefsIn

LEMMA InThem ==
    ASSUME NEW X, NEW s \in Seq(X), NEW d
    PROVE  d \in ToSet(s) <=> \E i \in 1..Len(s) : s[i] = d
<1>1. DOMAIN s = 1..Len(s)
  OBVIOUS
<1> QED BY <1>1 DEF ToSet

(* The changed areas are loaded: nothing else is touched, and if no error     *)
(* ends the load they all are as their files say.                             *)
LEMMA LoadAreasInstalls ==
    ASSUME NEW st, NEW S \in SUBSET Areas, Good(st), TextsTyped, FilesTyped, DefinedOnce,
           Sure(st), Ours(st), There(st, {})
    PROVE  LET t == LoadAreas(st, S)
           IN  /\ Good(t) /\ Leaves(st.objs, t.objs, KeysIn(S))
               /\ t.ok => \A d \in DefsIn(S) : InstalledAs(t.objs, d, texts)
<1> DEFINE things == Things(S)
           rest == Rest(S)
           a == Assigned(st, things)
           b == ThingsLoaded(a, things)
           c == RestLoaded(b, rest)
           E == ToSet(things)
           K == KeysIn(S)
           J == {things[i].key : i \in 1..Len(things)}
<1>1. things \in Seq(AllThings) /\ rest \in Seq(AllRest)
  BY ThingsTyped, RestTyped
<1>2. LoadAreas(st, S) = c
  BY DEF LoadAreas
<1>3. \A d : d \in E \/ d \in ToSet(rest) <=> d \in DefsIn(S)
  BY ThingsAre, RestAre DEF DefsIn, Defs
<1> HIDE DEF things, rest
<1>4. /\ Len(things) \in Nat /\ Len(rest) \in Nat
      /\ \A i \in 1..Len(things) : things[i] \in AllThings /\ things[i] \in E
      /\ \A i \in 1..Len(rest) : rest[i] \in AllRest /\ rest[i] \in ToSet(rest)
      /\ \A d \in E : \E i \in 1..Len(things) : things[i] = d
      /\ \A d \in ToSet(rest) : \E i \in 1..Len(rest) : rest[i] = d
  BY <1>1, InThem
<1>5. /\ \A d \in DefsIn(S) : WellMade(d) /\ d.key \in K
      /\ \A d, e \in DefsIn(S) : d.key = e.key => d = e
  BY DefsApart DEF KeysIn
<1>6. /\ \A i \in 1..Len(things) : WellMade(things[i]) /\ things[i].kind # "exit" /\ things[i].key \in K
      /\ \A i, j \in 1..Len(things) : things[i].key = things[j].key => things[i] = things[j]
      /\ \A i \in 1..Len(rest) : WellMade(rest[i]) /\ rest[i].key \in K
      /\ \A i, j \in 1..Len(rest) : rest[i].key = rest[j].key => rest[i] = rest[j]
      /\ \A e \in E : WellMade(e) /\ \A i \in 1..Len(rest) : e.key = rest[i].key => e = rest[i]
  BY <1>3, <1>4, <1>5, DefinitionsWellMade
<1> HIDE DEF E, K
<1>7. \A i \in 1..Len(things) : things[i].key \in J
  OBVIOUS
<1>8. /\ Good(a) /\ a.objs = st.objs /\ \A i \in 1..Len(things) : things[i].key \in DOMAIN a.km
      /\ Sure(a) /\ Ours(a) /\ There(a, J)
  BY <1>4, <1>7, AssignLoop, AssignLoopSure
<1> HIDE DEF a
<1>9. /\ Good(b) /\ b.km = a.km /\ Sure(b) /\ Ours(b)
      /\ Leaves(a.objs, b.objs, K) /\ DOMAIN a.objs \subseteq DOMAIN b.objs
      /\ b.ok => \A i \in 1..Len(things) : /\ a.km[things[i].key] \in DOMAIN b.objs
                                           /\ InstalledAs(b.objs, things[i], texts)
  BY <1>4, <1>6, <1>8, ThingLoopInstalls
<1> HIDE DEF b
<1>10. ASSUME b.ok PROVE There(b, {}) /\ \A e \in E : InstalledAs(b.objs, e, texts)
  <2>1. ASSUME NEW k \in DOMAIN b.km PROVE b.km[k] \in DOMAIN b.objs
    <3>1. CASE k \in J
      <4>1. PICK i \in 1..Len(things) : k = things[i].key
        BY <3>1
      <4> QED BY <1>9, <1>10, <4>1
    <3>2. CASE k \notin J
      BY <1>8, <1>9, <2>1, <3>2 DEF There
    <3> QED BY <3>1, <3>2
  <2> QED BY <1>4, <1>9, <1>10, <2>1 DEF There
<1>11. /\ Good(c) /\ Leaves(b.objs, c.objs, K)
       /\ c.ok => /\ \A e \in E : InstalledAs(c.objs, e, texts)
                  /\ \A i \in 1..Len(rest) : InstalledAs(c.objs, rest[i], texts)
  <2>1. Len(rest) \in Nat /\ Good(b) /\ Sure(b) /\ Ours(b)
    BY <1>4, <1>9
  <2>2. /\ \A i \in 1..Len(rest) : WellMade(rest[i]) /\ rest[i].key \in K
        /\ \A i, j \in 1..Len(rest) : rest[i].key = rest[j].key => rest[i] = rest[j]
        /\ \A e \in E : WellMade(e) /\ \A i \in 1..Len(rest) : e.key = rest[i].key => e = rest[i]
    BY <1>6
  <2>3. b.ok => There(b, {}) /\ \A e \in E : InstalledAs(b.objs, e, texts)
    BY <1>10
  <2> HIDE DEF c
  <2> QED BY <2>1, <2>2, <2>3, RestLoopInstalls DEF c
<1> HIDE DEF c
<1>12. Leaves(st.objs, c.objs, K)
  BY <1>8, <1>9, <1>11, LeavesGoesOn
<1>13. ASSUME c.ok, NEW d \in DefsIn(S) PROVE InstalledAs(c.objs, d, texts)
  <2>1. d \in E \/ \E i \in 1..Len(rest) : rest[i] = d
    BY <1>3, <1>4
  <2> QED BY <1>11, <1>13, <2>1
<1> QED BY <1>2, <1>11, <1>12, <1>13 DEF K

(* Neither the circles of archetypes that are broken nor the locks of areas   *)
(* matter to a definition.                                                    *)
LEMMA BreakLeaves ==
    ASSUME NEW o, NEW n, World(o, n) PROVE Leaves(o, BreakArchetypeCycles(o), {})
<1> DEFINE p == BreakArchetypeCycles(o)
<1>1. ASSUME NEW r \in DOMAIN o
      PROVE  r \in DOMAIN p /\ Same(o[r], p[r]) /\ Alike(o[r], p[r])
  <2> DEFINE x == o[r]
             y == p[r]
  <2>1. r \in DOMAIN p /\ (y = x \/ y = [x EXCEPT !.arch = Nowhere]) /\ DOMAIN x = Fields
    BY DEF BreakArchetypeCycles, World, Object
  <2> HIDE DEF p, x, y
  <2>2. \A f \in Fields \ {"arch"} : y[f] = x[f]
    BY <2>1 DEF Fields
  <2>3. Same(x, y) /\ Alike(x, y)
    BY <2>2 DEF Same, Alike, Fields
  <2> QED BY <2>1, <2>3 DEF x, y
<1> QED BY <1>1 DEF Leaves

LEMMA StampLockedLeaves ==
    ASSUME NEW o, NEW n, World(o, n) PROVE Leaves(o, StampLocked(o), {})
<1> DEFINE p == StampLocked(o)
<1>1. ASSUME NEW r \in DOMAIN o
      PROVE  r \in DOMAIN p /\ Same(o[r], p[r]) /\ Alike(o[r], p[r])
  <2> DEFINE x == o[r]
             y == p[r]
             b == o[r].fk.area \in LockedAreas
  <2>1. r \in DOMAIN p /\ (y = x \/ y = [x EXCEPT !.locked = b]) /\ DOMAIN x = Fields
    BY DEF StampLocked, World, Object
  <2> HIDE DEF p, x, y, b
  <2>2. \A f \in Fields \ {"locked"} : y[f] = x[f]
    BY <2>1 DEF Fields
  <2>3. Same(x, y) /\ Alike(x, y)
    BY <2>2 DEF Same, Alike, Fields
  <2> QED BY <2>1, <2>3 DEF x, y
<1> QED BY <1>1 DEF Leaves

LEMMA AcyclicLeaves ==
    ASSUME NEW st, Good(st)
    PROVE  LET t == Acyclic(st)
           IN  Leaves(st.objs, t.objs, {}) /\ t.ok = st.ok /\ t.km = st.km /\ DOMAIN t.objs = DOMAIN st.objs
<1>1. CASE ~st.ok
  BY <1>1, LeavesStays DEF Acyclic
<1>2. CASE st.ok
  <2> DEFINE p == BreakArchetypeCycles(st.objs)
             t == [st EXCEPT !.objs = p]
  <2>1. Acyclic(st) = t
    BY <1>2 DEF Acyclic
  <2>2. t.objs = p /\ t.ok = st.ok /\ t.km = st.km
    BY DEF Good
  <2>3. DOMAIN p = DOMAIN st.objs
    BY DEF BreakArchetypeCycles
  <2> HIDE DEF t
  <2>4. Leaves(st.objs, p, {})
    BY BreakLeaves DEF Good
  <2> QED BY <2>1, <2>2, <2>3, <2>4
<1> QED BY <1>1, <1>2

(* What a load makes of the world, as far as the files are concerned          *)
LEMMA LoadInstalls ==
    ASSUME NEW o, NEW next, NEW km \in ManagedKeyMaps(o), NEW h, World(o, next),
           TextsTyped, FilesTyped, DefinedOnce
    PROVE  LET t == Load(o, next, km, h)
               S == HalfDone(h)
           IN  /\ Leaves(o, t.objs, KeysIn(S)) /\ World(t.objs, t.next)
               /\ (~ \A a \in Present : files[a].parses) => t.objs = o /\ ~t.ok
               /\ t.ok => \A d \in DefsIn(S) : InstalledAs(t.objs, d, texts)
<1> DEFINE start == [objs |-> o, next |-> next, km |-> km, ok |-> TRUE]
           t == Load(o, next, km, h)
           S == HalfDone(h)
<1>1. Good(start) /\ Sure(start) /\ Ours(start) /\ There(start, {}) /\ start.objs = o
  <2>1. Managed(o) \in SUBSET DOMAIN o
    BY DEF Managed
  <2>2. \A k \in DOMAIN km : km[k] \in Managed(o) /\ o[km[k]].fk = k
    BY <2>1, KeyMapsPick DEF ManagedKeyMaps
  <2>3. \A k \in DOMAIN km : km[k] \in 1..next
    BY KeyMapsTyped
  <2>4. /\ DOMAIN start = {"objs", "next", "km", "ok"}
        /\ start.objs = o /\ start.next = next /\ start.km = km
    OBVIOUS
  <2> HIDE DEF start
  <2>5. Good(start)
    BY <2>3, <2>4 DEF Good
  <2>6. Sure(start) /\ Ours(start) /\ There(start, {})
    BY <2>1, <2>2, <2>4 DEF Sure, Ours, There, Managed
  <2> QED BY <2>4, <2>5, <2>6
<1>2. S \in SUBSET Areas /\ S \subseteq Present
  BY DEF HalfDone, Present
<1>3. World(t.objs, t.next)
  <2>1. \A k \in DOMAIN km : km[k] \in 1..next
    BY KeyMapsTyped
  <2> QED BY <2>1, LoadKeeps DEF Good
<1>4. CASE Present = {}
  <2> DEFINE u == [start EXCEPT !.km = << >>]
  <2>1. t = u
    BY <1>4 DEF Load
  <2>2. u.objs = o
    OBVIOUS
  <2>3. DefsIn(S) = {}
    BY <1>2, <1>4 DEF DefsIn
  <2> HIDE DEF u, t, S
  <2> QED BY <1>3, <1>4, <2>1, <2>2, <2>3, LeavesStays DEF t, S
<1>5. CASE Present # {} /\ \E a \in Present : ~files[a].parses
  <2> DEFINE u == [start EXCEPT !.ok = FALSE]
  <2>1. t = u
    BY <1>5 DEF Load
  <2>2. u.objs = o /\ ~u.ok
    OBVIOUS
  <2> HIDE DEF u, t, S
  <2> QED BY <1>3, <2>1, <2>2, LeavesStays DEF t, S
<1>6. CASE Present # {} /\ ~ \E a \in Present : ~files[a].parses
  <2> DEFINE u == LoadAreas(start, S)
             v == Acyclic(u)
  <2>1. t = v
    BY <1>6 DEF Load
  <2> HIDE DEF t, start, S
  <2>2. /\ Good(u) /\ Leaves(start.objs, u.objs, KeysIn(S))
        /\ u.ok => \A d \in DefsIn(S) : InstalledAs(u.objs, d, texts)
    BY <1>1, <1>2, LoadAreasInstalls
  <2> HIDE DEF u
  <2>3. Leaves(u.objs, v.objs, {}) /\ v.ok = u.ok
    BY <2>2, AcyclicLeaves
  <2> HIDE DEF v
  <2>4. Leaves(o, v.objs, KeysIn(S))
    BY <1>1, <2>2, <2>3, LeavesGoesOn
  <2>5. ASSUME v.ok, NEW d \in DefsIn(S) PROVE InstalledAs(v.objs, d, texts)
    <3>1. WellMade(d) /\ d.key \notin {}
      BY <1>2, DefsApart
    <3> QED BY <2>2, <2>3, <2>5, <3>1, LeavesInstalled
  <2> QED BY <1>3, <1>6, <2>1, <2>4, <2>5 DEF t, S
<1> QED BY <1>4, <1>5, <1>6

(* An import, too, touches the object of the key it brings and no other. *)
LEMMA ImportIntoLeaves ==
    ASSUME NEW st, NEW d, NEW r, NEW b, Good(st), WellMade(d), BundleTyped(b), Sure(st),
           d.key \in DOMAIN st.km, r = st.km[d.key],
           ~Dangles(st.km, d.loc), d.kind = "exit" => ~Dangles(st.km, d.to)
    PROVE  LET t == ImportInto(st, d, r, b)
           IN  Sure(t) /\ Leaves(st.objs, t.objs, {d.key})
<1> DEFINE before == IF r \in DOMAIN st.objs THEN st.objs[r]
                     ELSE [Blank(d.kind, d.key.base) EXCEPT !.fk = d.key]
           told == Described(before, d, st.km)
           kept == [told EXCEPT !.kind = before.kind]
           res == ResolveScript(kept, d, b)
           t == Imported(st, d, r, res)
<1>1. ImportInto(st, d, r, b) = t
  BY DEF ImportInto
<1>2. st.next \in Nat /\ World(st.objs, st.next) /\ r \in 1..st.next
  BY DEF Good, World
<1>3. /\ Object(before, st.next) /\ before.fk = d.key
      /\ r \in DOMAIN st.objs => before = st.objs[r]
  <2>1. CASE r \in DOMAIN st.objs
    BY <2>1, <1>2 DEF World, Sure
  <2>2. CASE r \notin DOMAIN st.objs
    <3> DEFINE x == Blank(d.kind, d.key.base)
               m == [x EXCEPT !.fk = d.key]
    <3>1. Object(x, st.next) /\ ~x.managed
      BY <1>2, BlankObject DEF WellMade, Kinds, Blank
    <3> HIDE DEF x
    <3>2. DOMAIN m = Fields /\ m.fk = d.key /\ \A f \in Fields \ {"fk"} : m[f] = x[f]
      BY <3>1 DEF Object, Fields
    <3>3. before = m
      BY <2>2 DEF x
    <3> HIDE DEF m, before
    <3>4. Object(m, st.next)
      BY <3>1, <3>2 DEF Object, Fields
    <3> QED BY <2>2, <3>2, <3>3, <3>4
  <2> QED BY <2>1, <2>2
<1> HIDE DEF before
<1>4. Object(told, st.next) /\ Same(before, told)
  BY <1>2, <1>3, DescribedKeeps DEF Good
<1> HIDE DEF told
<1>5. Object(kept, st.next) /\ Same(before, kept)
  <2>1. /\ DOMAIN kept = Fields /\ kept.kind = before.kind
        /\ \A f \in Fields \ {"kind"} : kept[f] = told[f]
    BY <1>4 DEF Object, Fields
  <2> HIDE DEF kept
  <2> QED BY <2>1, <1>3, <1>4 DEF Object, Same, Fields
<1> HIDE DEF kept
<1>6. Same(kept, res.obj)
  BY <1>2, <1>5, ResolveScriptKeeps
<1> HIDE DEF res
<1> DEFINE isNew == r \notin DOMAIN st.objs
           y == res.obj
           u == [st EXCEPT !.objs = Put(st.objs, r, y), !.ok = res.ok,
                           !.created = IF isNew /\ res.ok THEN @ \cup {d.key} ELSE @]
<1>8. t = u
  BY DEF Imported
<1>9. u.objs = Put(st.objs, r, y) /\ u.km = st.km
  BY DEF Good
<1>10. y.fk = d.key /\ (r \in DOMAIN st.objs => Same(st.objs[r], y))
  BY <1>3, <1>5, <1>6 DEF Same
<1> HIDE DEF u, t, y
<1> DEFINE k == d.key
<1>12. /\ k \in DOMAIN st.km /\ r = st.km[k] /\ Sure(st) /\ y.fk = k
       /\ r \in DOMAIN st.objs => Same(st.objs[r], y)
       /\ u.objs = Put(st.objs, r, y) /\ u.km = st.km
  BY <1>9, <1>10
<1> HIDE DEF k
<1>11. Sure(u) /\ Leaves(st.objs, u.objs, {k})
  BY ONLY <1>12, PutSure
<1> QED BY <1>1, <1>8, <1>11 DEF k

LEMMA EndSure ==
    ASSUME NEW st, Good(st), Sure(st), NEW K
    PROVE  LET t == [st EXCEPT !.ok = FALSE] IN Sure(t) /\ Leaves(st.objs, t.objs, K)
<1> DEFINE t == [st EXCEPT !.ok = FALSE]
<1>1. t.km = st.km /\ t.objs = st.objs
  BY EndKeeps
<1> HIDE DEF t
<1>2. Sure(t) /\ Leaves(st.objs, t.objs, K)
  BY <1>1, LeavesStays DEF Sure
<1> QED BY <1>2 DEF t

LEMMA ImportThingLeaves ==
    ASSUME NEW st, NEW d, NEW b, Good(st), WellMade(d), d.kind # "exit", BundleTyped(b), Sure(st),
           d.key \in DOMAIN st.km
    PROVE  LET t == ImportThing(st, d, b) IN Sure(t) /\ Leaves(st.objs, t.objs, {d.key})
<1>1. CASE ~st.ok
  BY <1>1, LeavesStays DEF ImportThing
<1>2. CASE st.ok /\ Dangles(st.km, d.loc)
  <2>1. ImportThing(st, d, b) = [st EXCEPT !.ok = FALSE]
    BY <1>2 DEF ImportThing
  <2> QED BY <2>1, EndSure
<1>3. CASE st.ok /\ ~Dangles(st.km, d.loc)
  <2>1. ImportThing(st, d, b) = ImportInto(st, d, st.km[d.key], b)
    BY <1>3 DEF ImportThing
  <2> QED BY <2>1, <1>3, ImportIntoLeaves
<1> QED BY <1>1, <1>2, <1>3

LEMMA ImportRestLeaves ==
    ASSUME NEW st, NEW d, NEW b, Good(st), WellMade(d), BundleTyped(b), Sure(st)
    PROVE  LET t == ImportRest(st, d, b) IN Sure(t) /\ Leaves(st.objs, t.objs, {d.key})
<1>1. CASE ~st.ok
  BY <1>1, LeavesStays DEF ImportRest
<1>2. CASE st.ok /\ (Dangles(st.km, d.loc) \/ Dangles(st.km, d.to))
  <2>1. ImportRest(st, d, b) = [st EXCEPT !.ok = FALSE]
    BY <1>2 DEF ImportRest
  <2> QED BY <2>1, EndSure
<1>3. CASE st.ok /\ ~Dangles(st.km, d.loc) /\ ~Dangles(st.km, d.to)
  <2> DEFINE at == IfNew(st, d)
  <2>1. ImportRest(st, d, b) = ImportInto(at, d, at.km[d.key], b)
    BY <1>3 DEF ImportRest
  <2>2. Good(at) /\ Onward(st, at) /\ d.key \in DOMAIN at.km /\ at.objs = st.objs
    BY IfNewStep
  <2>3. Sure(at)
    BY IfNewSure
  <2> HIDE DEF at
  <2>4. ~Dangles(at.km, d.loc) /\ ~Dangles(at.km, d.to)
    BY <1>3, <2>2 DEF Dangles, Onward
  <2> DEFINE t == ImportInto(at, d, at.km[d.key], b)
  <2>5. Sure(t) /\ Leaves(at.objs, t.objs, {d.key})
    BY <2>2, <2>3, <2>4, ImportIntoLeaves
  <2> HIDE DEF t
  <2> QED BY <2>1, <2>2, <2>5 DEF t
<1> QED BY <1>1, <1>2, <1>3

LEMMA ImportThingLoopLeaves ==
    ASSUME NEW st, NEW b, Good(st), BundleTyped(b), Sure(st), NEW K,
           \A i \in 1..Len(b.things) : b.things[i].key \in DOMAIN st.km /\ b.things[i].key \in K
    PROVE  LET t == ImportThings(b, st) IN Sure(t) /\ Leaves(st.objs, t.objs, K)
<1> DEFINE s == b.things
           N == Len(s)
           t == ImportThings(b, st)
           Held(u) == Good(u) /\ Onward(st, u) /\ Sure(u) /\ Leaves(st.objs, u.objs, K)
<1>0. /\ N \in Nat
      /\ \A i \in 1..N : /\ WellMade(s[i]) /\ s[i].kind # "exit"
                         /\ s[i].key \in DOMAIN st.km /\ s[i].key \in K
  BY DEF BundleTyped
<1>5. PICK w : Run(w, "import", st, s, b) /\ t = w[N]
  BY <1>0, AlongImport
<1>1. w[0] = st /\ t = w[N] /\ \A i \in 1..N : w[i] = ImportThing(w[i - 1], s[i], b)
  BY <1>0, <1>5, RunIs, Steps
<1> DEFINE T == {i \in 0..N : Held(w[i])}
<1> HIDE DEF t, N, s
<1>2. 0 \in T
  BY <1>0, <1>1, OnwardStays, LeavesStays
<1>3. ASSUME NEW i \in 1..N, i - 1 \in T PROVE i \in T
  <2> DEFINE u == w[i - 1]
             v == w[i]
             d == s[i]
  <2>1. /\ Held(u) /\ v = ImportThing(u, d, b)
        /\ WellMade(d) /\ d.kind # "exit" /\ d.key \in DOMAIN st.km /\ d.key \in K
    BY <1>0, <1>1, <1>3
  <2> HIDE DEF u, v, d
  <2>2. d.key \in DOMAIN u.km
    BY <2>1 DEF Onward
  <2>3. Good(v) /\ Onward(u, v)
    BY <2>1, <2>2, ImportThingStep
  <2>4. Sure(v) /\ Leaves(u.objs, v.objs, {d.key})
    BY <2>1, <2>2, ImportThingLeaves
  <2>5. Onward(st, v)
    BY <2>1, <2>3, OnwardGoesOn
  <2>6. Leaves(st.objs, v.objs, K)
    BY <2>1, <2>4, LeavesGoesOn
  <2>7. Held(v)
    BY <2>3, <2>4, <2>5, <2>6
  <2> HIDE DEF Held
  <2> QED BY <1>0, <2>7 DEF v
<1>4. N \in T
  <2> HIDE DEF T
  <2>1. \A i \in 0..N : i \in T
    BY <1>0, <1>2, <1>3, Climb
  <2> QED BY <1>0, <2>1
<1> QED BY <1>1, <1>4 DEF t

LEMMA ImportRestLoopLeaves ==
    ASSUME NEW st, NEW b, Good(st), BundleTyped(b), Sure(st), NEW K,
           \A i \in 1..Len(b.rest) : b.rest[i].key \in K
    PROVE  LET t == ImportRests(b, st) IN Leaves(st.objs, t.objs, K)
<1> DEFINE s == b.rest
           N == Len(s)
           t == ImportRests(b, st)
           Held(u) == Good(u) /\ Sure(u) /\ Leaves(st.objs, u.objs, K)
<1>0. N \in Nat /\ \A i \in 1..N : WellMade(s[i]) /\ s[i].key \in K
  BY DEF BundleTyped
<1>5. PICK w : Run(w, "importRest", st, s, b) /\ t = w[N]
  BY <1>0, AlongImportRest
<1>1. w[0] = st /\ t = w[N] /\ \A i \in 1..N : w[i] = ImportRest(w[i - 1], s[i], b)
  BY <1>0, <1>5, RunIs, Steps
<1> DEFINE T == {i \in 0..N : Held(w[i])}
<1> HIDE DEF t, N, s
<1>2. 0 \in T
  BY <1>0, <1>1, LeavesStays
<1>3. ASSUME NEW i \in 1..N, i - 1 \in T PROVE i \in T
  <2> DEFINE u == w[i - 1]
             v == w[i]
             d == s[i]
  <2>1. Held(u) /\ v = ImportRest(u, d, b) /\ WellMade(d) /\ d.key \in K
    BY <1>0, <1>1, <1>3
  <2> HIDE DEF u, v, d
  <2>2. Good(v)
    BY <2>1, ImportRestStep
  <2>3. Sure(v) /\ Leaves(u.objs, v.objs, {d.key})
    BY <2>1, ImportRestLeaves
  <2>4. Leaves(st.objs, v.objs, K)
    BY <2>1, <2>3, LeavesGoesOn
  <2>5. Held(v)
    BY <2>2, <2>3, <2>4
  <2> HIDE DEF Held
  <2> QED BY <1>0, <2>5 DEF v
<1>4. N \in T
  <2> HIDE DEF T
  <2>1. \A i \in 0..N : i \in T
    BY <1>0, <1>2, <1>3, Climb
  <2> QED BY <1>0, <2>1
<1> QED BY <1>1, <1>4 DEF t

(* An import touches the objects of the keys that its bundle brings. *)
LEMMA ImportLeaves ==
    ASSUME NEW b \in Bundles, NEW o, NEW next, NEW st \in Imports(b, o, next), World(o, next)
    PROVE  Leaves(o, st.objs, {d.key : d \in DefsOf(b)}) /\ (Collides(b) => st.objs = o)
<1>1. PICK km \in KeyMapsFromWorld(o) : st = Import(b, o, next, km)
  BY DEF Imports
<1>2. \A k \in DOMAIN km : km[k] \in 1..next
  BY <1>1, KeyMapsTyped
<1>3. BundleTyped(b)
  BY BundlesTyped
<1> DEFINE start == [objs |-> o, next |-> next, km |-> km, ok |-> TRUE, created |-> {}]
           K == {d.key : d \in DefsOf(b)}
<1>4. {"objs", "next", "km", "ok"} \subseteq DOMAIN start /\ start.objs = o /\ start.next = next /\ start.km = km
  OBVIOUS
<1> HIDE DEF start
<1>5. Good(start) /\ Sure(start)
  <2>1. \A k \in DOMAIN km : km[k] \in DOMAIN o /\ o[km[k]].fk = k
    BY KeyMapsPick DEF KeyMapsFromWorld
  <2> QED BY <1>2, <1>4, <2>1 DEF Good, Sure
<1>6. /\ Len(b.things) \in Nat
      /\ \A i \in 1..Len(b.things) : b.things[i].key \in K
      /\ \A i \in 1..Len(b.rest) : b.rest[i].key \in K
  <2>1. b.things \in Seq(ToSet(b.things)) /\ b.rest \in Seq(ToSet(b.rest))
    BY ContentAssumption DEF InFiles, WellFormed
  <2>2. /\ \A i \in 1..Len(b.things) : b.things[i] \in ToSet(b.things)
        /\ \A i \in 1..Len(b.rest) : b.rest[i] \in ToSet(b.rest)
    BY <2>1
  <2> QED BY <2>1, <2>2 DEF DefsOf
<1> HIDE DEF K
<1>7. CASE Collides(b)
  <2>1. st = [start EXCEPT !.ok = FALSE]
    BY <1>1, <1>7 DEF Import, start
  <2>2. st.objs = o
    BY <1>4, <1>5, <2>1, EndKeeps
  <2> QED BY <2>2, LeavesStays
<1>8. CASE ~Collides(b)
  <2> DEFINE a == Assigned(start, b.things)
             c == ImportThings(b, a)
             d == Acyclic(c)
             e == ImportRests(b, d)
  <2>1. st = e
    BY <1>1, <1>8 DEF Import, start
  <2>2. /\ Good(a) /\ a.objs = start.objs /\ Sure(a)
        /\ \A i \in 1..Len(b.things) : b.things[i].key \in DOMAIN a.km
    BY <1>5, <1>6, AssignLoop, AssignLoopSure
  <2> HIDE DEF a
  <2>3. Good(c) /\ Sure(c) /\ Leaves(a.objs, c.objs, K)
    BY <1>3, <1>6, <2>2, ImportThingLoop, ImportThingLoopLeaves
  <2> HIDE DEF c
  <2>4. Good(d) /\ Leaves(c.objs, d.objs, {}) /\ d.km = c.km /\ DOMAIN d.objs = DOMAIN c.objs /\ Like(c.objs, d.objs)
    <3>1. Good(d) /\ Leaves(c.objs, d.objs, {}) /\ d.km = c.km /\ DOMAIN d.objs = DOMAIN c.objs
      BY <2>3, AcyclicStep, AcyclicLeaves
    <3>2. Like(c.objs, d.objs)
      <4>1. World(c.objs, c.next) /\ {"objs", "next", "km", "ok"} \subseteq DOMAIN c
        BY <2>3 DEF Good
      <4>2. CASE c.ok
        <5> DEFINE p == BreakArchetypeCycles(c.objs)
        <5>1. d = [c EXCEPT !.objs = p]
          BY <4>2 DEF Acyclic
        <5>2. Like(c.objs, p)
          BY <4>1, BreakKeeps
        <5> HIDE DEF p, d
        <5>3. d.objs = p
          BY <4>1, <5>1
        <5> QED BY <5>2, <5>3
      <4>3. CASE ~c.ok
        BY <4>3 DEF Acyclic, Like, Same, Written1
      <4> QED BY <4>2, <4>3
    <3> QED BY <3>1, <3>2
  <2>5. Sure(d)
    BY <2>3, <2>4 DEF Sure, Like, Same
  <2> HIDE DEF d
  <2>6. Leaves(d.objs, e.objs, K)
    BY <1>3, <1>6, <2>4, <2>5, ImportRestLoopLeaves
  <2> HIDE DEF e
  <2>7. Leaves(o, d.objs, K)
    BY <1>4, <2>2, <2>3, <2>4, LeavesGoesOn
  <2>8. Leaves(o, e.objs, K)
    BY <2>6, <2>7, LeavesGoesOn
  <2> QED BY <1>8, <2>1, <2>8 DEF K
<1> QED BY <1>7, <1>8 DEF K

(* An export changes nothing of an object that has a key. *)
LEMMA ExportLeaves ==
    ASSUME NEW o, NEW n, World(o, n), NEW K PROVE Leaves(o, StampMissingIdentities(o), K)
<1>1. PICK s : /\ Len(s) \in Nat /\ \A i \in 1..Len(s) : s[i] \in Todo(o)
               /\ StampMissingIdentities(o) = Stamped(o, s)
  BY StampOrder
<1> DEFINE N == Len(s)
           t == Stamped(o, s)
           Held(p) == DOMAIN p = DOMAIN o /\ \A q \in DOMAIN o : q \in Todo(o) \/ p[q] = o[q]
<1>5. PICK w : Run(w, "stamp", o, s, 0) /\ t = w[N]
  BY <1>1, AlongStamp
<1>3. w[0] = o /\ t = w[N] /\ \A i \in 1..N : w[i] = StampOne(w[i - 1], s[i])
  BY <1>1, <1>5, RunIs, Steps
<1> DEFINE T == {i \in 0..N : Held(w[i])}
<1>0. N \in Nat /\ \A i \in 1..N : s[i] \in Todo(o)
  BY <1>1
<1> HIDE DEF t, N
<1>4. 0 \in T
  BY <1>0, <1>3
<1>6. ASSUME NEW i \in 1..N, i - 1 \in T PROVE i \in T
  <2> DEFINE u == w[i - 1]
             v == w[i]
             r == s[i]
  <2>1. Held(u) /\ v = StampOne(u, r) /\ r \in Todo(o)
    BY <1>0, <1>3, <1>6
  <2> HIDE DEF u, v, r
  <2>2. v = u \/ \E key : v = [u EXCEPT ![r].fk = key]
    <3> DEFINE x == u[r]
               area == ResolveExportArea(u, r)
               key == CASE x.kind = "room" -> DedupeKey(u, ThingKey(Unfiled, x.name, 1))
                        [] x.kind = "item" -> DedupeKey(u, ThingKey(area, x.name, 1))
                        [] x.kind = "code" -> DedupeKey(u, ScriptKey(Unfiled, x.name, 1))
                        [] x.kind = "exit" /\ x.loc \in DOMAIN u ->
                              ExitKey(u[x.loc].fk.area, u[x.loc].fk, x.name)
                        [] OTHER -> NoKey
    <3>1. v = IF x.kind = "exit" /\ key \in KeysOf(u) THEN u ELSE [u EXCEPT ![r].fk = key]
      BY <2>1 DEF StampOne
    <3> HIDE DEF key, x
    <3> QED BY <3>1
  <2>3. DOMAIN v = DOMAIN u /\ \A q \in DOMAIN u \ {r} : v[q] = u[q]
    BY <2>2
  <2>4. Held(v)
    BY <2>1, <2>3
  <2> HIDE DEF Held
  <2> QED BY <1>0, <2>4 DEF v
<1>7. N \in T
  <2> HIDE DEF T
  <2>1. \A i \in 0..N : i \in T
    BY <1>0, <1>4, <1>6, Climb
  <2> QED BY <1>0, <2>1
<1>8. Held(t)
  BY <1>3, <1>7
<1>9. Leaves(o, t, K)
  BY <1>8 DEF Leaves, Todo, Same, Alike
<1> QED BY <1>1, <1>9 DEF t

-----------------------------------------------------------------------------
(* What files the hashes h remember is in the world o, but for what the       *)
(* areas D define and the objects under the keys T.                           *)
Truth(o, h, D, T) ==
    \A a \in Areas \ D : \A d \in Defs(h.files[a]) : d.key \in T \/ InstalledAs(o, d, h.texts)

Remembered(h) == DOMAIN h.texts = ProgFiles /\ \A a \in Areas : h.files[a] \in Versions[a] \cup {NoFile}

(* The hashes tell the truth of the world in memory, and those in the         *)
(* database of the world in the database, which lags behind by the areas that *)
(* were loaded since the last save.                                           *)
Honest ==
    /\ DOMAIN texts = ProgFiles /\ Remembered(hashes) /\ Remembered(savedHashes)
    /\ up => hashes = savedHashes /\ Truth(objs, hashes, doubt, touched)
    /\ ~up => fresh = {}
    /\ Truth(saved.objs, savedHashes, doubt \cup fresh, touched)

LEMMA NoFileEmpty == Defs(NoFile) = {}
BY DEF Defs, NoFile, ToSet

LEMMA RememberedDefs ==
    ASSUME NEW h, Remembered(h), NEW a \in Areas, NEW d \in Defs(h.files[a])
    PROVE  WellMade(d) /\ d.key.area = a
<1>1. h.files[a] # NoFile
  BY NoFileEmpty
<1>2. h.files[a] \in Versions[a]
  BY <1>1 DEF Remembered
<1>3. d.key.area = a
  BY <1>2, ContentAssumption DEF Defs
<1>4. d \in AllThings \/ d \in AllRest
  BY <1>2 DEF Defs, AllThings, AllRest
<1> QED BY <1>3, <1>4, DefinitionsWellMade

(* What stays true when only the objects under K change *)
LEMMA TruthLeaves ==
    ASSUME NEW o, NEW p, NEW h, NEW K, NEW D, NEW T, NEW D2, NEW T2,
           Truth(o, h, D, T), Leaves(o, p, K), Remembered(h), D \subseteq D2,
           \A k \in T \cup K : k \in T2 \/ k.area \in D2
    PROVE  Truth(p, h, D2, T2)
<1>1. ASSUME NEW a \in Areas \ D2, NEW d \in Defs(h.files[a]), d.key \notin T2
      PROVE  InstalledAs(p, d, h.texts)
  <2>1. WellMade(d) /\ d.key.area = a
    BY RememberedDefs
  <2>2. d.key \notin T /\ d.key \notin K
    BY <1>1, <2>1
  <2>3. InstalledAs(o, d, h.texts)
    BY <2>2 DEF Truth
  <2> QED BY <2>1, <2>2, <2>3, LeavesInstalled
<1> QED BY <1>1 DEF Truth

LEMMA TruthStays ==
    ASSUME NEW o, NEW h, NEW D, NEW T, NEW D2, NEW T2, Truth(o, h, D, T), Remembered(h),
           D \subseteq D2, T \subseteq T2
    PROVE  Truth(o, h, D2, T2)
<1>1. Leaves(o, o, {}) /\ \A k \in T \cup {} : k \in T2 \/ k.area \in D2
  BY LeavesStays
<1> QED BY <1>1, TruthLeaves

LEMMA NewHashesAre ==
    ASSUME FilesTyped, DOMAIN texts = ProgFiles
    PROVE  /\ Remembered(NewHashes) /\ NewHashes.files = files
           /\ \A a \in Present : \A p :
                 p \in Programs(files[a]) /\ ~Unreadable(p, NewHashes.texts) /\ p # NoKey
                    => ~Unreadable(p, texts) /\ NewHashes.texts[p] = texts[p]
<1> DEFINE tx == [p \in ProgFiles |-> IF \E a \in Present : p \in Programs(files[a]) THEN texts[p] ELSE NoText]
<1>1. NewHashes.files = files /\ NewHashes.texts = tx
  BY DEF NewHashes
<1>2. DOMAIN tx = ProgFiles
  OBVIOUS
<1>3. ASSUME NEW a \in Present, NEW p, p \in Programs(files[a]), ~Unreadable(p, tx), p # NoKey
      PROVE  ~Unreadable(p, texts) /\ tx[p] = texts[p]
  <2>1. p \in ProgFiles /\ tx[p] # NoText
    BY <1>2, <1>3 DEF Unreadable
  <2>2. tx[p] = texts[p]
    BY <1>3, <2>1
  <2> HIDE DEF tx
  <2> QED BY <2>1, <2>2 DEF Unreadable
<1> HIDE DEF tx
<1> QED BY <1>1, <1>2, <1>3 DEF Remembered, FilesTyped

LEMMA ProgramsOf ==
    ASSUME NEW c, NEW d \in Defs(c), d.script # NoKey PROVE d.script \in Programs(c)
BY DEF Programs, Defs

(* The new hashes say of what was not loaded what the old ones said. *)
LEMMA TruthRenewed ==
    ASSUME FilesTyped, DOMAIN texts = ProgFiles, NEW o, NEW h, NEW D, NEW T,
           Truth(o, h, D, T), Remembered(h)
    PROVE  Truth(o, NewHashes, D \cup HalfDone(h), T)
<1>1. ASSUME NEW a \in Areas \ (D \cup HalfDone(h)), NEW d \in Defs(NewHashes.files[a]), d.key \notin T
      PROVE  InstalledAs(o, d, NewHashes.texts)
  <2>1. d \in Defs(files[a])
    BY NewHashesAre
  <2>2. a \in Present
    BY <2>1, NoFileEmpty DEF Present
  <2>3. ~Changed(a, h)
    BY <2>2 DEF HalfDone
  <2>4. h.files[a] = files[a] /\ \A p \in Programs(files[a]) : texts[p] = NoText \/ h.texts[p] = texts[p]
    BY <2>3 DEF Changed
  <2>5. InstalledAs(o, d, h.texts)
    BY <1>1, <2>1, <2>4 DEF Truth
  <2>6. ASSUME d.script # NoKey, ~Unreadable(d.script, NewHashes.texts)
        PROVE  ~Unreadable(d.script, h.texts) /\ NewHashes.texts[d.script] = h.texts[d.script]
    <3>1. d.script \in Programs(files[a])
      BY <2>1, <2>6, ProgramsOf
    <3>2. ~Unreadable(d.script, texts) /\ NewHashes.texts[d.script] = texts[d.script]
      BY <2>2, <2>6, <3>1, NewHashesAre
    <3>3. d.script \in ProgFiles /\ texts[d.script] # NoText
      BY <2>6, <3>2 DEF Unreadable
    <3>4. h.texts[d.script] = texts[d.script]
      BY <2>4, <3>1, <3>3
    <3> QED BY <3>2, <3>3, <3>4 DEF Unreadable, Remembered
  <2> QED BY <2>5, <2>6, OtherTexts
<1> QED BY <1>1 DEF Truth

(* What a load and its hashes leave *)
LEMMA LoadTruth ==
    ASSUME NEW o, NEW next, NEW km \in ManagedKeyMaps(o), NEW h, World(o, next),
           TextsTyped, FilesTyped, DefinedOnce, DOMAIN texts = ProgFiles,
           Remembered(h), Truth(o, h, doubt, touched)
    PROVE  LET t == Load(o, next, km, h)
           IN  /\ World(t.objs, t.next)
               /\ t.ok => Truth(t.objs, NewHashes, Unsure(t, h), Reloaded(h))
               /\ ~t.ok => Truth(t.objs, h, Unsure(t, h), touched)
<1> DEFINE t == Load(o, next, km, h)
           S == HalfDone(h)
           K == KeysIn(S)
<1>1. /\ Leaves(o, t.objs, K) /\ World(t.objs, t.next)
      /\ (~ \A a \in Present : files[a].parses) => t.objs = o /\ ~t.ok
      /\ t.ok => \A d \in DefsIn(S) : InstalledAs(t.objs, d, texts)
  BY LoadInstalls
<1>2. S \in SUBSET Areas /\ S \subseteq Present
  BY DEF HalfDone, Present
<1>3. \A k \in K : k.area \in S
  BY <1>2, DefsApart DEF KeysIn
<1> HIDE DEF t, K
<1>4. ASSUME t.ok PROVE Truth(t.objs, NewHashes, Unsure(t, h), Reloaded(h))
  <2>1. Truth(o, NewHashes, doubt \cup S, touched) /\ Remembered(NewHashes)
    BY TruthRenewed, NewHashesAre
  <2>2. \A k \in touched \cup K : k \in Reloaded(h) \/ k.area \in doubt \cup S
    BY <1>3 DEF Reloaded
  <2>3. Truth(t.objs, NewHashes, doubt \cup S, Reloaded(h))
    <3> DEFINE D == doubt \cup S
               R == Reloaded(h)
    <3>1. Truth(o, NewHashes, D, touched) /\ D \subseteq D /\ \A k \in touched \cup K : k \in R \/ k.area \in D
      BY <2>1, <2>2
    <3> HIDE DEF D, R
    <3>2. Truth(t.objs, NewHashes, D, R)
      BY <1>1, <2>1, <3>1, TruthLeaves
    <3> QED BY <3>2 DEF D, R
  <2>4. Unsure(t, h) = doubt \ S
    BY <1>4 DEF Unsure
  <2>5. ASSUME NEW a \in Areas \ (doubt \ S), NEW d \in Defs(NewHashes.files[a]), d.key \notin Reloaded(h)
        PROVE  InstalledAs(t.objs, d, NewHashes.texts)
    <3>1. CASE a \notin S
      BY <2>3, <2>5, <3>1 DEF Truth
    <3>2. CASE a \in S
      <4>1. d \in Defs(files[a]) /\ d \in DefsIn(S) /\ a \in Present
        BY <1>2, <3>2, NewHashesAre DEF DefsIn
      <4>2. InstalledAs(t.objs, d, texts)
        BY <1>1, <1>4, <4>1
      <4>3. d.script # NoKey /\ ~Unreadable(d.script, NewHashes.texts)
               => ~Unreadable(d.script, texts) /\ NewHashes.texts[d.script] = texts[d.script]
        BY <4>1, ProgramsOf, NewHashesAre
      <4> QED BY <4>2, <4>3, OtherTexts
    <3> QED BY <3>1, <3>2
  <2> QED BY <2>4, <2>5 DEF Truth
<1>5. ASSUME ~t.ok PROVE Truth(t.objs, h, Unsure(t, h), touched)
  <2>1. CASE \A a \in Present : files[a].parses
    <3> DEFINE D == Unsure(t, h)
    <3>1. D = doubt \cup S
      BY <1>5, <2>1 DEF Unsure
    <3>2. doubt \subseteq D /\ \A k \in touched \cup K : k \in touched \/ k.area \in D
      BY <1>3, <3>1
    <3> HIDE DEF D
    <3>3. Truth(t.objs, h, D, touched)
      BY <1>1, <3>2, TruthLeaves
    <3> QED BY <3>3 DEF D
  <2>2. CASE ~ \A a \in Present : files[a].parses
    <3>1. t.objs = o /\ Unsure(t, h) = doubt
      BY <1>1, <1>5, <2>2 DEF Unsure
    <3> QED BY <3>1
  <2> QED BY <2>1, <2>2
<1> QED BY <1>1, <1>4, <1>5 DEF t

LEMMA InitHonest == Init => Honest
<1> SUFFICES ASSUME Init PROVE Honest
  OBVIOUS
<1>1. DOMAIN texts = ProgFiles /\ hashes = NoHashes /\ savedHashes = NoHashes /\ ~up /\ fresh = {}
  BY ContentAssumption DEF Init
<1>2. DOMAIN NoHashes.texts = ProgFiles /\ \A a \in Areas : NoHashes.files[a] = NoFile
  BY DEF NoHashes
<1>3. Remembered(NoHashes)
  BY <1>2 DEF Remembered
<1>4. Truth(saved.objs, NoHashes, doubt \cup fresh, touched)
  BY <1>2, NoFileEmpty DEF Truth
<1> QED BY <1>1, <1>3, <1>4 DEF Honest

(* A step of the running server that leaves hashes and files *)
LEMMA UpTruth ==
    ASSUME Honest, up, NEW K, Leaves(objs, objs', K), K \cup touched \subseteq touched',
           UNCHANGED <<texts, up, hashes, saved, savedHashes, doubt, fresh>>
    PROVE  Honest'
<1>1. Remembered(hashes) /\ Remembered(savedHashes) /\ Truth(objs, hashes, doubt, touched)
      /\ Truth(saved.objs, savedHashes, doubt \cup fresh, touched)
  BY DEF Honest
<1>2. Truth(objs', hashes, doubt, touched')
  <2>1. doubt \subseteq doubt /\ \A k \in touched \cup K : k \in touched' \/ k.area \in doubt
    OBVIOUS
  <2> QED BY <1>1, <2>1, TruthLeaves
<1>3. Truth(saved.objs, savedHashes, doubt \cup fresh, touched')
  BY <1>1, TruthStays
<1> QED BY <1>2, <1>3 DEF Honest, Remembered, Truth

LEMMA AddLeaves ==
    ASSUME NEW o, NEW n, World(o, n), NEW x PROVE Leaves(o, Put(o, n + 1, x), {})
<1>1. n + 1 \notin DOMAIN o
  BY DEF World
<1>2. \A r \in DOMAIN o : r \in DOMAIN Put(o, n + 1, x) /\ Put(o, n + 1, x)[r] = o[r]
  BY <1>1 DEF Put
<1> QED BY <1>2 DEF Leaves, Same, Alike

LEMMA SpawnLeaves ==
    ASSUME NEW st, World(st.objs, st.next), NEW km
    PROVE  Leaves(st.objs, Spawn(st, km).objs, {})
<1> DEFINE o == StampLocked(st.objs)
           b == Spawn(st, km)
<1>1. Leaves(st.objs, o, {}) /\ World(o, st.next)
  BY StampLockedLeaves, StampLockedKeeps
<1>2. CASE SpawnKey \in DOMAIN km
  <2>1. b.objs = o
    BY <1>2 DEF Spawn
  <2> QED BY <1>1, <2>1
<1>3. CASE SpawnKey \notin DOMAIN km
  <2> DEFINE p == Put(o, st.next + 1, Blank("room", SpawnKey.base))
  <2>1. b.objs = p
    BY <1>3 DEF Spawn
  <2> HIDE DEF b
  <2>2. Leaves(o, p, {})
    BY <1>1, AddLeaves
  <2>3. Leaves(st.objs, p, {})
    BY <1>1, <2>2, LeavesGoesOn
  <2> QED BY <2>1, <2>3 DEF b
<1> QED BY <1>2, <1>3

(* What a load does to the truth about the world in the database: the hashes *)
(* are stored at once, the objects at the next save.                         *)
LEMMA SavedTruth ==
    ASSUME FilesTyped, DOMAIN texts = ProgFiles, NEW h, Remembered(h), NEW o, NEW D, NEW F,
           Truth(o, h, D \cup F, touched), NEW D2, NEW F2, HalfDone(h) \subseteq F2,
           D \cup F \subseteq D2 \cup F2
    PROVE  Truth(o, NewHashes, D2 \cup F2, Reloaded(h))
<1> DEFINE S == HalfDone(h)
           E == D \cup F \cup S
           E2 == D2 \cup F2
           R == Reloaded(h)
<1>1. Truth(o, NewHashes, E, touched) /\ Remembered(NewHashes)
  BY TruthRenewed, NewHashesAre
<1>2. E \subseteq E2 /\ \A k \in touched \cup {} : k \in R \/ k.area \in E2
  BY DEF Reloaded
<1> HIDE DEF E, E2, R
<1>3. Leaves(o, o, {})
  BY LeavesStays
<1>4. Truth(o, NewHashes, E2, R)
  BY <1>1, <1>2, <1>3, TruthLeaves
<1> QED BY <1>4 DEF E2, R

LEMMA BootHonest == ASSUME Inv, Honest, DefinedOnce, Boot PROVE Honest'
<1>1. PICK st \in BootLoads, kmAll \in KeyMapsFromWorld(saved.objs) :
         LET born == Spawn(st, IF st.ok THEN st.km ELSE kmAll)
         IN  /\ objs' = born.objs
             /\ hashes' = IF st.ok THEN NewHashes ELSE savedHashes
             /\ savedHashes' = hashes'
             /\ doubt' = IF LoadFiles THEN Unsure(st, savedHashes) ELSE doubt
             /\ touched' = IF st.ok THEN Reloaded(savedHashes) ELSE touched
             /\ fresh' = IF LoadFiles THEN HalfDone(savedHashes) ELSE {}
  BY DEF Boot
<1>2. ~up /\ up' /\ UNCHANGED <<files, texts, saved>>
  BY DEF Boot
<1>3. World(saved.objs, saved.next) /\ TextsTyped /\ FilesTyped
  BY DEF Inv, Control, Worlds
<1>4. /\ DOMAIN texts = ProgFiles /\ Remembered(savedHashes) /\ fresh = {}
      /\ Truth(saved.objs, savedHashes, doubt, touched)
      /\ Truth(saved.objs, savedHashes, doubt \cup fresh, touched)
  <2>1. fresh = {} /\ Truth(saved.objs, savedHashes, doubt \cup fresh, touched)
    BY <1>2 DEF Honest
  <2>2. doubt \cup fresh = doubt
    BY <2>1
  <2>3. Truth(saved.objs, savedHashes, doubt, touched)
    BY <2>1, <2>2
  <2> QED BY <2>1, <2>3 DEF Honest
<1> DEFINE S == HalfDone(savedHashes)
           R == Reloaded(savedHashes)
           U == Unsure(st, savedHashes)
<1>5. /\ World(st.objs, st.next)
      /\ st.ok => LoadFiles /\ Truth(st.objs, NewHashes, U, R)
      /\ ~st.ok => Truth(st.objs, savedHashes, doubt', touched)
  <2>1. CASE LoadFiles
    <3>1. PICK km \in ManagedKeyMaps(saved.objs) : st = Load(saved.objs, saved.next, km, savedHashes)
      BY <2>1 DEF BootLoads
    <3>2. /\ World(st.objs, st.next)
          /\ st.ok => Truth(st.objs, NewHashes, Unsure(st, savedHashes), Reloaded(savedHashes))
          /\ ~st.ok => Truth(st.objs, savedHashes, Unsure(st, savedHashes), touched)
      BY <1>3, <1>4, <3>1, LoadTruth
    <3> QED BY <1>1, <2>1, <3>2
  <2>2. CASE ~LoadFiles
    <3>1. st = [objs |-> saved.objs, next |-> saved.next, km |-> << >>, ok |-> FALSE]
      BY <2>2 DEF BootLoads
    <3>2. st.objs = saved.objs /\ st.next = saved.next /\ ~st.ok
      BY <3>1
    <3> QED BY <1>1, <1>3, <1>4, <2>2, <3>2
  <2> QED BY <2>1, <2>2
<1>6. Leaves(st.objs, objs', {})
  BY <1>1, <1>5, SpawnLeaves
<1>7. Remembered(NewHashes)
  BY <1>3, <1>4, NewHashesAre
<1>8. CASE st.ok
  <2>1. hashes' = NewHashes /\ savedHashes' = NewHashes /\ doubt' = U /\ touched' = R /\ fresh' = S
    BY <1>1, <1>5, <1>8
  <2>2. Truth(objs', NewHashes, U, R)
    <3>1. Truth(st.objs, NewHashes, U, R)
      BY <1>5, <1>8
    <3> HIDE DEF U, R
    <3>2. U \subseteq U /\ \A k \in R \cup {} : k \in R \/ k.area \in U
      OBVIOUS
    <3> QED BY <1>6, <1>7, <3>1, <3>2, TruthLeaves
  <2>3. Truth(saved.objs, NewHashes, U \cup S, R)
    <3>1. doubt \cup fresh \subseteq U \cup S
      BY <1>4, <1>8 DEF Unsure
    <3> QED BY <1>3, <1>4, <3>1, SavedTruth
  <2> HIDE DEF U, R, S
  <2> QED BY <1>2, <1>4, <1>7, <2>1, <2>2, <2>3 DEF Honest, Remembered, Truth
<1>9. CASE ~st.ok
  <2>1. hashes' = savedHashes /\ savedHashes' = savedHashes /\ touched' = touched
    BY <1>1, <1>9
  <2>2. doubt \subseteq doubt'
    BY <1>1, <1>9 DEF Unsure
  <2>3. Truth(objs', savedHashes, doubt', touched)
    <3>1. Truth(st.objs, savedHashes, doubt', touched)
      BY <1>5, <1>9
    <3>2. doubt' \subseteq doubt' /\ \A k \in touched \cup {} : k \in touched \/ k.area \in doubt'
      OBVIOUS
    <3> QED BY <1>4, <1>6, <3>1, <3>2, TruthLeaves
  <2>4. Truth(saved.objs, savedHashes, doubt' \cup fresh', touched)
    BY <1>4, <2>2, TruthStays
  <2> QED BY <1>2, <1>4, <2>1, <2>3, <2>4 DEF Honest, Remembered, Truth
<1> QED BY <1>8, <1>9

LEMMA ReloadHonest == ASSUME Inv, Honest, DefinedOnce, ReloadWorld PROVE Honest'
<1>1. PICK km \in ManagedKeyMaps(objs) :
         LET st == Load(objs, nextId, km, hashes)
         IN  /\ objs' = IF st.ok THEN StampLocked(st.objs) ELSE st.objs
             /\ hashes' = IF st.ok THEN NewHashes ELSE hashes
             /\ savedHashes' = IF st.ok THEN hashes' ELSE savedHashes
             /\ doubt' = Unsure(st, hashes)
             /\ touched' = IF st.ok THEN Reloaded(hashes) ELSE touched
             /\ fresh' = fresh \cup HalfDone(hashes)
  BY DEF ReloadWorld
<1> DEFINE st == Load(objs, nextId, km, hashes)
           S == HalfDone(hashes)
           R == Reloaded(hashes)
           U == Unsure(st, hashes)
<1>2. up /\ up' /\ UNCHANGED <<files, texts, saved>>
  BY DEF ReloadWorld
<1>3. World(objs, nextId) /\ TextsTyped /\ FilesTyped
  BY DEF Inv, Control, Worlds
<1>4. /\ DOMAIN texts = ProgFiles /\ Remembered(hashes) /\ savedHashes = hashes
      /\ Truth(objs, hashes, doubt, touched)
      /\ Truth(saved.objs, hashes, doubt \cup fresh, touched)
  BY <1>2 DEF Honest
<1>5. /\ World(st.objs, st.next)
      /\ st.ok => Truth(st.objs, NewHashes, U, R)
      /\ ~st.ok => Truth(st.objs, hashes, U, touched)
  BY <1>3, <1>4, LoadTruth
<1>7. Remembered(NewHashes)
  BY <1>3, <1>4, NewHashesAre
<1>8. CASE st.ok
  <2>1. /\ hashes' = NewHashes /\ savedHashes' = NewHashes /\ doubt' = U /\ touched' = R
        /\ fresh' = fresh \cup S /\ objs' = StampLocked(st.objs)
    BY <1>1, <1>8
  <2>2. Truth(objs', NewHashes, U, R)
    <3>1. Truth(st.objs, NewHashes, U, R) /\ Leaves(st.objs, objs', {})
      BY <1>5, <1>8, <2>1, StampLockedLeaves
    <3> HIDE DEF st, U, R
    <3>2. U \subseteq U /\ \A k \in R \cup {} : k \in R \/ k.area \in U
      OBVIOUS
    <3> QED BY <1>7, <3>1, <3>2, TruthLeaves
  <2>3. Truth(saved.objs, NewHashes, U \cup (fresh \cup S), R)
    <3> DEFINE F2 == fresh \cup S
    <3>1. doubt \cup fresh \subseteq U \cup F2 /\ HalfDone(hashes) \subseteq F2
      <4> HIDE DEF st
      <4> QED BY <1>8 DEF Unsure
    <3> HIDE DEF F2, U
    <3>2. Truth(saved.objs, NewHashes, U \cup F2, Reloaded(hashes))
      BY <1>3, <1>4, <3>1, SavedTruth
    <3> QED BY <3>2 DEF F2
  <2> HIDE DEF U, R, S, st
  <2> QED BY <1>2, <1>4, <1>7, <2>1, <2>2, <2>3 DEF Honest, Remembered, Truth
<1>9. CASE ~st.ok
  <2>1. hashes' = hashes /\ savedHashes' = hashes /\ touched' = touched /\ objs' = st.objs /\ doubt' = U
    BY <1>1, <1>4, <1>9
  <2>2. doubt \cup fresh \subseteq doubt' \cup fresh'
    <3> HIDE DEF st
    <3> QED BY <1>1, <1>9, <2>1 DEF Unsure
  <2>3. Truth(objs', hashes, doubt', touched)
    BY <1>5, <1>9, <2>1
  <2>4. Truth(saved.objs, hashes, doubt' \cup fresh', touched)
    BY <1>4, <2>2, TruthStays
  <2> HIDE DEF U, st
  <2> QED BY <1>2, <1>4, <2>1, <2>3, <2>4 DEF Honest, Remembered, Truth
<1> QED BY <1>8, <1>9

LEMMA ImportBundleHonest == ASSUME Inv, Honest, NEW b \in Bundles, ImportBundle(b) PROVE Honest'
<1> DEFINE K == {d.key : d \in DefsOf(b)}
<1>1. PICK st \in Imports(b, objs, nextId) : objs' = st.objs
  BY DEF ImportBundle
<1>2. /\ up /\ UNCHANGED <<texts, up, hashes, saved, savedHashes, doubt, fresh>>
      /\ touched' = IF Collides(b) THEN touched ELSE touched \cup K
  BY DEF ImportBundle, dbVars
<1>3. World(objs, nextId)
  BY DEF Inv, Worlds
<1>4. Leaves(objs, st.objs, K) /\ (Collides(b) => st.objs = objs)
  BY <1>3, ImportLeaves
<1> HIDE DEF K
<1>5. CASE Collides(b)
  <2>1. Leaves(objs, objs', {}) /\ {} \cup touched \subseteq touched'
    BY <1>1, <1>2, <1>4, <1>5, LeavesStays
  <2> QED BY <1>2, <2>1, UpTruth
<1>6. CASE ~Collides(b)
  <2>1. Leaves(objs, objs', K) /\ K \cup touched \subseteq touched'
    BY <1>1, <1>2, <1>4, <1>6
  <2> QED BY <1>2, <2>1, UpTruth
<1> QED BY <1>5, <1>6

LEMMA ExportHonest == ASSUME Inv, Honest, Export PROVE Honest'
<1>1. /\ up /\ UNCHANGED <<texts, up, hashes, saved, savedHashes, doubt, fresh, touched>>
      /\ objs' = StampMissingIdentities(objs)
  BY DEF Export, dbVars
<1>2. World(objs, nextId)
  BY DEF Inv, Worlds
<1>3. Leaves(objs, objs', {}) /\ {} \cup touched \subseteq touched'
  BY <1>1, <1>2, ExportLeaves
<1> QED BY <1>1, <1>3, UpTruth

LEMMA WorkLeaves ==
    ASSUME Work PROVE up /\ UNCHANGED <<files, texts, up, hashes, saved, savedHashes, doubt, fresh, spawn>>
BY DEF Work, dbVars

(* A builder or a player changes one object, and the history says so. *)
LEMMA ChangeHonest ==
    ASSUME Honest, NEW r \in DOMAIN objs, NEW y, Work, Touch(r), Same(objs[r], y),
           objs' = [objs EXCEPT ![r] = y]
    PROVE  Honest'
<1> DEFINE K == {objs[r].fk} \ {NoKey}
<1>1. touched' = touched \cup K
  BY DEF Touch, TouchAll
<1>2. ASSUME NEW q \in DOMAIN objs, objs[q].fk # NoKey
      PROVE  q \in DOMAIN objs' /\ Same(objs[q], objs'[q]) /\ (objs[q].fk \in K \/ Alike(objs[q], objs'[q]))
  <2>1. CASE q = r
    BY <1>2, <2>1
  <2>2. CASE q # r
    BY <2>2 DEF Same, Alike
  <2> QED BY <2>1, <2>2
<1>3. Leaves(objs, objs', K)
  BY <1>2 DEF Leaves
<1> HIDE DEF K
<1>4. K \cup touched \subseteq touched'
  BY <1>1
<1> QED BY <1>3, <1>4, WorkLeaves, UpTruth

LEMMA WriteScriptHonest == ASSUME Inv, Honest, NEW r, NEW t, WriteScript(r, t) PROVE Honest'
<1> DEFINE y == [objs[r] EXCEPT !.script = InGame(t)]
<1>1. Work /\ r \in DOMAIN objs /\ Touch(r) /\ objs' = [objs EXCEPT ![r] = y]
  BY DEF WriteScript
<1>2. Same(objs[r], y)
  BY DEF Same
<1> QED BY <1>1, <1>2, ChangeHonest

LEMMA PickUpHonest == ASSUME Inv, Honest, NEW r, PickUp(r) PROVE Honest'
<1> DEFINE y == [objs[r] EXCEPT !.loc = 1]
<1>1. Work /\ r \in DOMAIN objs /\ Touch(r) /\ objs' = [objs EXCEPT ![r] = y]
  BY DEF PickUp
<1>2. Same(objs[r], y)
  BY DEF Same
<1> QED BY <1>1, <1>2, ChangeHonest

LEMMA CreateHonest == ASSUME Inv, Honest, NEW kind, NEW name, CreateByHand(kind, name) PROVE Honest'
<1>1. Work /\ touched' = touched /\ objs' = Put(objs, nextId + 1, Blank(kind, name))
  BY DEF CreateByHand
<1>2. World(objs, nextId)
  BY DEF Inv, Worlds
<1>3. Leaves(objs, objs', {}) /\ {} \cup touched \subseteq touched'
  BY <1>1, <1>2, AddLeaves
<1> QED BY <1>1, <1>3, WorkLeaves, UpTruth

(* An object that nothing refers to takes nothing with it but what its own   *)
(* definition says.                                                          *)
LEMMA DelegateHonest == ASSUME Inv, Honest, NEW r, NEW a, Delegate(r, a) PROVE Honest'
<1> DEFINE x == objs[r]
           y == [x EXCEPT !.arch = a]
<1>1. Work /\ Touch(r) /\ r \in DOMAIN objs /\ objs' = [objs EXCEPT ![r] = y]
  BY DEF Delegate
<1>2. DOMAIN x = Fields
  BY <1>1 DEF Inv, Worlds, World, Object
<1> HIDE DEF x
<1>3. Same(x, y)
  BY <1>2 DEF Same, Fields
<1> HIDE DEF y
<1> QED BY <1>1, <1>3, ChangeHonest DEF x

(* What the history does not name is as it was, and so are the keys of the    *)
(* ends of exits.                                                             *)
LEMMA WorkHonest ==
    ASSUME Honest, Work, touched \subseteq touched',
           \A q \in DOMAIN objs :
              objs[q].fk \notin touched' \cup {NoKey} => q \in DOMAIN objs' /\ objs'[q] = objs[q],
           \A q \in DOMAIN objs : \A e \in {objs[q].loc, objs[q].to} :
              KeyOf(objs, e) # NoKey => KeyOf(objs', e) = KeyOf(objs, e)
    PROVE  Honest'
<1>3. up /\ UNCHANGED <<texts, up, hashes, saved, savedHashes, doubt, fresh>>
  BY WorkLeaves
<1>4. /\ Remembered(hashes) /\ Remembered(savedHashes) /\ Truth(objs, hashes, doubt, touched)
      /\ Truth(saved.objs, savedHashes, doubt \cup fresh, touched)
  BY <1>3 DEF Honest
<1>5. ASSUME NEW a \in Areas \ doubt, NEW d \in Defs(hashes.files[a]), d.key \notin touched'
      PROVE  InstalledAs(objs', d, hashes.texts)
  <2>1. WellMade(d)
    BY <1>4, RememberedDefs
  <2>2. PICK q \in DOMAIN objs : Fits(objs, objs[q], d, hashes.texts)
    BY <1>4, <1>5 DEF Truth, InstalledAs
  <2>3. objs[q].fk = d.key /\ d.key # NoKey
    BY <2>1, <2>2 DEF Fits, WellMade
  <2>5. q \in DOMAIN objs' /\ objs'[q] = objs[q]
    BY <1>5, <2>3
  <2>8. Leads(objs', objs'[q], d)
    <3>1. ASSUME d.kind = "exit"
          PROVE  KeyOf(objs', objs[q].loc) = d.loc /\ KeyOf(objs', objs[q].to) = d.to
      <4>1. /\ KeyOf(objs, objs[q].loc) = d.loc /\ KeyOf(objs, objs[q].to) = d.to
            /\ d.loc # NoKey /\ d.to # NoKey
        BY <2>1, <2>2, <3>1 DEF Fits, Leads, WellMade
      <4> QED BY <4>1
    <3> QED BY <2>5, <3>1 DEF Leads
  <2>9. Fits(objs', objs'[q], d, hashes.texts)
    BY <2>2, <2>5, <2>8 DEF Fits
  <2> QED BY <2>5, <2>9 DEF InstalledAs
<1>6. Truth(objs', hashes, doubt, touched')
  BY <1>5 DEF Truth
<1>7. Truth(saved.objs, savedHashes, doubt \cup fresh, touched')
  BY <1>4, TruthStays
<1> QED BY <1>3, <1>6, <1>7 DEF Honest, Remembered, Truth

LEMMA DetachHonest == ASSUME Inv, Honest, NEW r, Detach(r) PROVE Honest'
<1>1. /\ Work /\ r \in DOMAIN objs
      /\ touched' = touched \cup ({objs[r].fk} \ {NoKey})
  BY DEF Detach, Touch, TouchAll
<1>2. PICK x \in Flattened(objs, r) : objs' = [objs EXCEPT ![r] = x]
  BY DEF Detach
<1>3. objs[r].fk # NoKey => x.fk = objs[r].fk
  BY <1>1, <1>2, FlattenedKeeps DEF Fuller, Inv, Worlds
<1>4. /\ DOMAIN objs' = DOMAIN objs /\ objs'[r] = x
      /\ \A q \in DOMAIN objs \ {r} : objs'[q] = objs[q]
  BY <1>1, <1>2
<1>5. \A q \in DOMAIN objs :
         objs[q].fk \notin touched' \cup {NoKey} => q \in DOMAIN objs' /\ objs'[q] = objs[q]
  BY <1>1, <1>4
<1>6. \A e : KeyOf(objs, e) # NoKey => KeyOf(objs', e) = KeyOf(objs, e)
  BY <1>3, <1>4 DEF KeyOf
<1> QED BY <1>1, <1>5, <1>6, WorkHonest

LEMMA DestroyHonest == ASSUME Inv, Honest, NEW r, Destroy(r) PROVE Honest'
<1> DEFINE instances == {q \in DOMAIN objs : objs[q].arch = r}
<1>1. /\ Work /\ r \in DOMAIN objs
      /\ \A q \in DOMAIN objs : r \notin {objs[q].loc, objs[q].to}
      /\ touched' = touched \cup ({objs[q].fk : q \in {r} \cup instances} \ {NoKey})
  BY DEF Destroy, TouchAll
<1>2. /\ DOMAIN objs' = DOMAIN objs \ {r}
      /\ \A q \in DOMAIN objs' : Fuller(objs[q], objs'[q], nextId)
      /\ \A q \in DOMAIN objs' : objs[q].arch # r => objs'[q] = objs[q]
  BY DestroyLeaves DEF Inv, Worlds
<1>3. \A q \in DOMAIN objs :
         objs[q].fk \notin touched' \cup {NoKey} => q \in DOMAIN objs' /\ objs'[q] = objs[q]
  BY <1>1, <1>2
<1>4. \A e : e # r /\ KeyOf(objs, e) # NoKey => KeyOf(objs', e) = KeyOf(objs, e)
  BY <1>2 DEF KeyOf, Fuller
<1>5. \A q \in DOMAIN objs : \A e \in {objs[q].loc, objs[q].to} :
         KeyOf(objs, e) # NoKey => KeyOf(objs', e) = KeyOf(objs, e)
  BY <1>1, <1>4
<1>6. touched \subseteq touched'
  BY <1>1
<1> QED BY <1>1, <1>3, <1>5, <1>6, WorkHonest

LEMMA SaveHonest == ASSUME Inv, Honest, Save \/ Shutdown PROVE Honest'
<1>1. /\ up /\ UNCHANGED <<texts, savedHashes, doubt, touched>> /\ fresh' = {}
      /\ saved' = [objs |-> objs, next |-> nextId]
      /\ up' => UNCHANGED <<objs, hashes>>
      /\ Remembered(hashes')
  <2>1. Remembered(NoHashes) /\ Remembered(hashes)
    BY DEF Honest, Remembered, NoHashes
  <2>2. CASE Save
    BY <2>1, <2>2 DEF Save, worldVars, Remembered
  <2>3. CASE Shutdown
    BY <2>1, <2>3 DEF Shutdown, Down
  <2> QED BY <2>2, <2>3
<1>2. hashes = savedHashes /\ Truth(objs, hashes, doubt, touched) /\ Remembered(savedHashes)
  BY <1>1 DEF Honest
<1>3. saved'.objs = objs /\ doubt' \cup fresh' = doubt
  BY <1>1
<1>4. Truth(saved'.objs, savedHashes, doubt' \cup fresh', touched)
  BY <1>2, <1>3
<1> QED BY <1>1, <1>2, <1>4 DEF Honest, Remembered, Truth

LEMMA CrashHonest == ASSUME Inv, Honest, Crash PROVE Honest'
<1>1. /\ ~up' /\ hashes' = NoHashes /\ UNCHANGED <<texts, saved, savedHashes, touched>>
      /\ doubt' = doubt \cup fresh /\ fresh' = {}
  BY DEF Crash, Down, dbVars
<1>2. Remembered(NoHashes) /\ Remembered(savedHashes)
  BY DEF Honest, Remembered, NoHashes
<1>3. doubt' \cup fresh' = doubt \cup fresh
  BY <1>1
<1>4. Truth(saved.objs, savedHashes, doubt' \cup fresh', touched)
  BY <1>3 DEF Honest
<1> QED BY <1>1, <1>2, <1>4 DEF Honest, Remembered, Truth

(* A migration may move whatever the database has: its keys are counted as   *)
(* touched.                                                                  *)
LEMMA MigrateHonest == ASSUME Inv, Honest, MigrateWorld PROVE Honest'
<1>1. /\ ~up /\ UNCHANGED <<texts, up, hashes, savedHashes, doubt, fresh>>
      /\ touched' = touched \cup KeysOf(saved.objs)
  BY DEF MigrateWorld
<1>2. Remembered(savedHashes) /\ Truth(saved.objs, savedHashes, doubt \cup fresh, touched)
  BY DEF Honest
<1>3. ASSUME NEW a \in Areas \ (doubt \cup fresh), NEW d \in Defs(savedHashes.files[a])
      PROVE  d.key \in touched'
  <2>1. WellMade(d)
    BY <1>2, RememberedDefs
  <2>2. CASE d.key \in touched
    BY <1>1, <2>2
  <2>3. CASE d.key \notin touched
    <3>1. PICK r \in DOMAIN saved.objs : Fits(saved.objs, saved.objs[r], d, savedHashes.texts)
      BY <1>2, <2>3 DEF Truth, InstalledAs
    <3>2. saved.objs[r].fk = d.key /\ d.key # NoKey
      BY <2>1, <3>1 DEF Fits, WellMade
    <3> QED BY <1>1, <3>2 DEF KeysOf
  <2> QED BY <2>2, <2>3
<1>4. Truth(saved'.objs, savedHashes, doubt \cup fresh, touched')
  BY <1>3 DEF Truth
<1> QED BY <1>1, <1>4 DEF Honest, Remembered, Truth

(* A step that changes neither worlds nor hashes *)
LEMMA SameHonest ==
    ASSUME Honest, UNCHANGED <<up, objs, hashes, saved, savedHashes, fresh, doubt, touched>>,
           DOMAIN texts' = ProgFiles
    PROVE  Honest'
BY DEF Honest, Remembered, Truth

LEMMA EditHonest ==
    ASSUME Inv, Honest, (\E a \in Areas : EditFile(a)) \/ (\E p \in ProgFiles : EditText(p)) PROVE Honest'
<1>1. UNCHANGED <<up, objs, hashes, saved, savedHashes, fresh, doubt, touched>>
  BY DEF EditFile, EditText, worldVars, dbVars
<1>2. texts' = texts \/ \E p, t : texts' = [texts EXCEPT ![p] = t]
  BY DEF EditFile, EditText
<1>3. DOMAIN texts' = ProgFiles
  BY <1>2 DEF Honest
<1> QED BY <1>1, <1>3, SameHonest

LEMMA NextHonest == ASSUME Inv, Honest, DefinedOnce, [Next]_vars PROVE Honest'
<1>1. CASE Boot
  BY <1>1, BootHonest
<1>2. CASE ReloadWorld
  BY <1>2, ReloadHonest
<1>3. CASE Export
  BY <1>3, ExportHonest
<1>4. ASSUME NEW b \in Bundles, ImportBundle(b) PROVE Honest'
  BY <1>4, ImportBundleHonest
<1>5. ASSUME NEW r \in 1..MaxRef, PickUp(r) PROVE Honest'
  BY <1>5, PickUpHonest
<1>6. ASSUME NEW r \in 1..MaxRef, Detach(r) \/ Destroy(r) PROVE Honest'
  BY <1>6, DetachHonest, DestroyHonest
<1>14. ASSUME NEW r \in 1..MaxRef, NEW a \in 0..MaxRef, Delegate(r, a) PROVE Honest'
  BY <1>14, DelegateHonest
<1>7. ASSUME NEW r \in 1..MaxRef, NEW t \in HandWritten.texts, WriteScript(r, t) PROVE Honest'
  BY <1>7, WriteScriptHonest
<1>8. ASSUME NEW kind \in HandMade, CreateByHand(kind, HandName) PROVE Honest'
  BY <1>8, CreateHonest
<1>9. CASE Save \/ Shutdown
  BY <1>9, SaveHonest
<1>10. CASE Crash
  BY <1>10, CrashHonest
<1>11. CASE MigrateWorld
  BY <1>11, MigrateHonest
<1>12. CASE MigrateRecord \/ MigrateDies \/ UNCHANGED vars
  <2>1. UNCHANGED <<texts, up, objs, hashes, saved, savedHashes, fresh, doubt, touched>>
    BY <1>12 DEF MigrateRecord, MigrateDies, worldVars, vars
  <2>2. DOMAIN texts' = ProgFiles
    BY <2>1 DEF Honest
  <2> QED BY <2>1, <2>2, SameHonest
<1>13. CASE (\E a \in Areas : EditFile(a)) \/ (\E p \in ProgFiles : EditText(p))
  BY <1>13, EditHonest
<1> QED
  BY <1>1, <1>2, <1>3, <1>4, <1>5, <1>6, <1>7, <1>8, <1>9, <1>10, <1>11, <1>12, <1>13, <1>14 DEF Next

(* An unchanged file says of the world what the hashes say. *)
LEMMA HonestTells == ASSUME Honest PROVE HashesTellTruth
<1>1. ASSUME up, NEW a \in Present \ doubt, ~Changed(a, hashes), NEW d \in Defs(files[a]), d.key \notin touched
      PROVE  Installed(objs, d)
  <2>1. a \in Areas /\ hashes.files[a] = files[a]
    BY <1>1 DEF Present, Changed
  <2>2. InstalledAs(objs, d, hashes.texts)
    BY <1>1, <2>1 DEF Honest, Truth
  <2>3. ASSUME d.script # NoKey, ~Unreadable(d.script, texts)
        PROVE  ~Unreadable(d.script, hashes.texts) /\ texts[d.script] = hashes.texts[d.script]
    <3>1. d.script \in Programs(files[a])
      BY <2>3, ProgramsOf
    <3>2. d.script \in ProgFiles /\ texts[d.script] # NoText /\ DOMAIN hashes.texts = ProgFiles
      BY <2>3 DEF Unreadable, Honest, Remembered
    <3>3. hashes.texts[d.script] = texts[d.script]
      BY <1>1, <3>1, <3>2 DEF Changed
    <3> QED BY <3>2, <3>3 DEF Unreadable
  <2>4. InstalledAs(objs, d, texts)
    BY <2>2, <2>3, OtherTexts
  <2>5. PICK r \in DOMAIN objs : Fits(objs, objs[r], d, texts)
    BY <2>4 DEF InstalledAs
  <2>6. r \in Managed(objs)
    BY <2>5 DEF Fits, Managed
  <2> QED BY <2>5, <2>6 DEF Installed, Fits, HasScript, HasText, Leads
<1> QED BY <1>1 DEF HashesTellTruth, Defs

(* What the loader skips as unchanged is in the world as its file says, but   *)
(* for the areas that a failed load or a crash left in doubt and the objects  *)
(* that builders, players, imports and migrations changed: whatever is        *)
(* loaded, edited, saved, lost in a crash or migrated in between, the hashes  *)
(* never claim more than was loaded (load_game_dir, Engine::new).  Only files *)
(* that define one key in two ways are left out: of those the loader keeps    *)
(* the last definition and remembers both.                                    *)
THEOREM HashesAreTruthful == ASSUME DefinedOnce PROVE Spec => []HashesTellTruth
<1>1. Init => Honest
  BY InitHonest
<1>2. Inv /\ Honest /\ [Next]_vars => Honest'
  BY NextHonest, DefinedOnce
<1>3. Honest => HashesTellTruth
  BY HonestTells
<1> QED BY <1>1, <1>2, <1>3, ContentInvariance, PTL DEF Spec
=============================================================================
