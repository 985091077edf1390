-------------------------- MODULE Programs_proofs --------------------------
(***************************************************************************)
(* A program is its own latest version, an edit lock keeps its holder's    *)
(* work current, and a publication against a version undoes nothing that   *)
(* others published: for any builders, programs, texts, times to live and  *)
(* crashes.                                                                *)
(***************************************************************************)
EXTENDS Programs, TLAPS

-----------------------------------------------------------------------------
(* The inductive invariant *)

Version == [text : Text, from : Nat]
View == [p : Programs \cup {"none"}, text : Text, version : Nat, drifted : BOOLEAN, alone : BOOLEAN]
Typed == TypeOK /\ view \in [Clients -> View]

(* Who is alone with a program holds its lock. *)
Held == \A a \in Clients : view[a].alone => view[a].p \in Programs /\ Holds(a, view[a].p)

(* The version a client names is in the history, and is what it opened unless *)
(* the program had drifted then.                                              *)
Opened ==
    \A a \in Clients : LET v == view[a] IN
        v.version # 0 =>
            /\ v.p \in Programs
            /\ v.version \in 1..Latest(v.p)
            /\ ~v.drifted => versions[v.p][v.version].text = v.text

Locks == LocksDurable /\ Held /\ HolderIsCurrent
Inv == Typed /\ Locks /\ HistoryComplete /\ Opened

-----------------------------------------------------------------------------
(* Texts and versions *)

LEMMA Texts == Blank \in Text /\ Absent \in Program /\ Drafts \subseteq Text
BY ProgramsAssumption DEF Blank, Text, Absent, Program

LEMMA Numbers == Ttl \in Nat \ {0} /\ MaxCrashes \in Nat
BY ProgramsAssumption DEF ProgramsAssumption

(* No version changes or goes. *)
Grown ==
    \A q \in Programs : \A v \in 1..Len(versions[q]) :
        v \in 1..Len(versions'[q]) /\ versions'[q][v] = versions[q][v]

LEMMA Appending ==
    ASSUME NEW vs \in Seq(Version), NEW t \in Text, NEW f \in Nat
    PROVE  LET ws == AppendScriptVersion(vs, t, f) IN
           /\ ws \in Seq(Version) /\ ws # <<>> /\ Last(ws).text = t
           /\ \A v \in 1..Len(vs) : v \in 1..Len(ws) /\ ws[v] = vs[v]
<1> DEFINE e == [text |-> t, from |-> f]
<1>1. e \in Version
  BY DEF Version
<1>2. /\ Append(vs, e) \in Seq(Version) /\ Len(Append(vs, e)) = Len(vs) + 1 /\ Len(vs) \in Nat
      /\ Append(vs, e)[Len(vs) + 1] = e
      /\ \A v \in 1..Len(vs) : Append(vs, e)[v] = vs[v]
  BY <1>1
<1>3. Append(vs, e) # <<>>
  BY <1>2
<1>4. Last(Append(vs, e)) = e
  BY <1>2 DEF Last
<1> QED BY <1>2, <1>3, <1>4 DEF AppendScriptVersion

(* A recorded text is the latest version of its program. *)
LEMMA Recording ==
    ASSUME Typed, NEW p \in Programs, NEW t \in Text, NEW f \in Nat, Record(p, t, f)
    PROVE  /\ versions' \in [Programs -> Seq(Version)] /\ Grown
           /\ versions'[p] # <<>> /\ Last(versions'[p]).text = t
           /\ \A q \in Programs \ {p} : versions'[q] = versions[q]
<1>1. versions \in [Programs -> Seq(Version)]
  BY DEF Typed, TypeOK, Version
<1>2. CASE IsLatest(p, t)
  <2>1. versions' = versions
    BY <1>2 DEF Record
  <2> QED BY <1>1, <1>2, <2>1 DEF IsLatest, Grown
<1>3. CASE ~IsLatest(p, t)
  <2> DEFINE ws == AppendScriptVersion(versions[p], t, f)
  <2>1. versions' = [versions EXCEPT ![p] = ws]
    BY <1>3 DEF Record
  <2>2. /\ ws \in Seq(Version) /\ ws # <<>> /\ Last(ws).text = t
        /\ \A v \in 1..Len(versions[p]) : v \in 1..Len(ws) /\ ws[v] = versions[p][v]
    BY <1>1, Appending
  <2> HIDE DEF ws
  <2>3. versions'[p] = ws /\ \A q \in Programs \ {p} : versions'[q] = versions[q]
    BY <1>1, <2>1
  <2>4. Grown
    BY <2>2, <2>3 DEF Grown
  <2> QED BY <1>1, <2>1, <2>2, <2>3, <2>4
<1> QED BY <1>2, <1>3

(* After a load or a boot, the programs from files are their latest versions, *)
(* and no others have new ones.                                               *)
LEMMA RecordingFiles ==
    ASSUME Typed, NEW now \in [Programs -> Program], RecordFilePrograms(now)
    PROVE  /\ versions' \in [Programs -> Seq(Version)] /\ Grown
           /\ \A p \in Programs : now[p].origin = "File" =>
                 versions'[p] # <<>> /\ Last(versions'[p]).text = now[p].text
           /\ \A p \in Programs : now[p].origin # "File" \/ IsLatest(p, now[p].text) =>
                 versions'[p] = versions[p]
<1>1. versions \in [Programs -> Seq(Version)]
  BY DEF Typed, TypeOK, Version
<1> DEFINE news == Unrecorded(now)
           ws(p) == AppendScriptVersion(versions[p], now[p].text, 0)
<1>2. versions' = [p \in Programs |-> IF p \in news THEN ws(p) ELSE versions[p]]
  BY DEF RecordFilePrograms
<1>3. ASSUME NEW p \in Programs
      PROVE  /\ ws(p) \in Seq(Version) /\ ws(p) # <<>> /\ Last(ws(p)).text = now[p].text
             /\ \A v \in 1..Len(versions[p]) : v \in 1..Len(ws(p)) /\ ws(p)[v] = versions[p][v]
  <2>1. now[p].text \in Text
    BY Texts DEF Program, Absent
  <2> QED BY <1>1, <2>1, Appending
<1> HIDE DEF ws
<1>4. versions' \in [Programs -> Seq(Version)]
  BY <1>1, <1>2, <1>3
<1>5. Grown
  BY <1>2, <1>3 DEF Grown
<1>6. ASSUME NEW p \in Programs, now[p].origin = "File"
      PROVE  versions'[p] # <<>> /\ Last(versions'[p]).text = now[p].text
  <2>1. CASE p \in news
    BY <1>2, <1>3, <2>1
  <2>2. CASE p \notin news
    BY <1>2, <1>6, <2>2 DEF IsLatest, Unrecorded
  <2> QED BY <2>1, <2>2
<1>7. ASSUME NEW p \in Programs, now[p].origin # "File" \/ IsLatest(p, now[p].text)
      PROVE  versions'[p] = versions[p]
  BY <1>2, <1>7 DEF Unrecorded
<1> QED BY <1>4, <1>5, <1>6, <1>7

(* What a client has open stays true of a history that only grows. *)
LEMMA StillOpened ==
    ASSUME Typed, Opened, Grown,
           \A a \in Clients : /\ view'[a].p = view[a].p /\ view'[a].text = view[a].text
                              /\ view'[a].version = view[a].version
                              /\ view'[a].drifted = view[a].drifted
    PROVE  Opened'
BY SMTT(60) DEF Opened, Grown, Latest

LEMMA InitInv == Init => Inv
<1> SUFFICES ASSUME Init PROVE Inv
  OBVIOUS
<1> USE Texts DEF Init
<1>1. Typed
  <2>1. NoView \in View /\ NoBuffer \in [p : Scripts \cup {"none"}, text : Text]
    BY DEF NoView, NoBuffer, View
  <2>2. view \in [Clients -> View] /\ \A a \in Clients : view[a].p \in Programs \cup {"none"} /\ view[a].text \in Text
    BY <2>1 DEF View
  <2>3. versions \in [Programs -> Seq([text : Text, from : Nat])]
    <3> DEFINE V == [text : Text, from : Nat]
    <3> HIDE DEF V
    <3>1. <<>> \in Seq(V)
      OBVIOUS
    <3>2. versions \in [Programs -> Seq(V)]
      BY <3>1
    <3> QED BY <3>2 DEF V
  <2>4. Free \in Lock
    BY DEF Free, Lock
  <2>5. crashes \in 0..MaxCrashes /\ drift \subseteq Programs
    BY Numbers
  <2>6. program \in [Programs -> Program] /\ saved \in [Programs -> Program]
    OBVIOUS
  <2>7. lock \in [Programs -> Lock] /\ lockRow \in [Programs -> Lock]
    BY <2>4
  <2>8. buffer \in [Typists -> [p : Scripts \cup {"none"}, text : Text]]
    BY <2>1
  <2> QED BY <2>2, <2>3, <2>5, <2>6, <2>7, <2>8 DEF Typed, TypeOK
<1>2. Locks
  BY DEF Locks, LocksDurable, Held, HolderIsCurrent, NoView
<1>3. HistoryComplete
  BY DEF HistoryComplete, Source, Absent
<1>4. Opened
  BY DEF Opened, NoView
<1> QED BY <1>1, <1>2, <1>3, <1>4 DEF Inv

-----------------------------------------------------------------------------
(* The writers *)

(* What publishes with the lock respected keeps everybody's view true. *)
LEMMA PublishKeeps ==
    ASSUME Inv, NEW a \in Accounts, NEW p \in Programs, ~LockedOut(a, p),
           NEW r \in Version, Publish(a, p, r)
    PROVE  Inv'
<1> USE DEF Inv
<1> DEFINE new == [text |-> r.text, origin |-> "InGame"]
<1>1. /\ program' = [program EXCEPT ![p] = new] /\ Record(p, r.text, r.from) /\ RenewLock(a, p)
      /\ view' = [c \in Clients |-> IF c # a THEN view[c] ELSE
            [p |-> p, text |-> r.text, version |-> Len(versions'[p]), drifted |-> FALSE,
             alone |-> lock'[p].by = a /\ lock'[p].left > 0]]
      /\ drift' = drift \ {p} /\ UNCHANGED <<saved, buffer, crashes>>
  BY DEF Publish
<1>2. r.text \in Text /\ r.from \in Nat /\ new \in Program
  BY DEF Version, Program
<1>3. /\ versions' \in [Programs -> Seq(Version)] /\ Grown
      /\ versions'[p] # <<>> /\ Last(versions'[p]).text = r.text
      /\ \A q \in Programs \ {p} : versions'[q] = versions[q]
  BY <1>1, <1>2, Recording
<1>4. /\ lock \in [Programs -> Lock] /\ lockRow \in [Programs -> Lock]
      /\ program \in [Programs -> Program] /\ view \in [Clients -> View]
  BY DEF Typed, TypeOK
<1> DEFINE renewed == IF lock[p].by = a THEN [lock[p] EXCEPT !.left = Ttl] ELSE lock[p]
<1>5. renewed \in Lock /\ renewed.by = lock[p].by /\ (lock[p].left > 0 => renewed.left > 0)
  <2>1. lock[p] \in Lock
    BY <1>4
  <2>2. CASE lock[p].by = a
    <3>1. [lock[p] EXCEPT !.left = Ttl] = [by |-> a, left |-> Ttl]
      BY <2>1, <2>2 DEF Lock, Free
    <3>2. Ttl \in 0..Ttl /\ Ttl > 0
      BY Numbers
    <3>3. [by |-> a, left |-> Ttl] \in Lock
      BY <3>2 DEF Lock
    <3> QED BY <2>2, <3>1, <3>2, <3>3
  <2> QED BY <2>1, <2>2
<1>6. /\ lock' = [lock EXCEPT ![p] = renewed]
      /\ lockRow' = [lockRow EXCEPT ![p] = IF lock[p].by = a THEN renewed ELSE @]
  BY <1>1, <1>4 DEF RenewLock
<1> HIDE DEF renewed
<1>7. Len(versions'[p]) \in Nat \ {0} /\ Last(versions'[p]) = versions'[p][Len(versions'[p])]
  BY <1>3 DEF Last
<1>8. view' \in [Clients -> View]
  BY <1>1, <1>2, <1>4, <1>7 DEF View
<1>9. Typed'
  <2>1. \A c \in Clients : view'[c].p \in Programs \cup {"none"} /\ view'[c].text \in Text
    BY <1>8 DEF View
  <2>2. program' \in [Programs -> Program]
    BY <1>1, <1>2, <1>4
  <2>3. lock' \in [Programs -> Lock] /\ lockRow' \in [Programs -> Lock]
    BY <1>4, <1>5, <1>6
  <2> QED BY <1>1, <1>3, <1>8, <2>1, <2>2, <2>3 DEF Typed, TypeOK, Version
<1>10. LocksDurable'
  <2> SUFFICES ASSUME NEW q \in Programs, lock'[q].left > 0 \/ lockRow'[q].left > 0
               PROVE  lock'[q] = lockRow'[q]
    BY DEF LocksDurable
  <2>1. CASE q = p /\ lock[p].by = a
    BY <1>4, <1>6, <2>1
  <2>2. CASE q # p
    BY <1>4, <1>6, <2>2 DEF Locks, LocksDurable
  <2>3. CASE q = p /\ lock[p].by # a
    <3>1. lock'[q] = lock[q] /\ lockRow'[q] = lockRow[q]
      BY <1>4, <1>6, <2>3 DEF renewed
    <3> QED BY <3>1 DEF Locks, LocksDurable
  <2> QED BY <2>1, <2>2, <2>3
<1>11. ASSUME NEW c \in Clients, view'[c].alone
       PROVE  /\ view'[c].p \in Programs /\ lock'[view'[c].p].by = c /\ lock'[view'[c].p].left > 0
              /\ program'[view'[c].p].text = view'[c].text
              /\ Len(versions'[view'[c].p]) = view'[c].version
  <2>1. CASE c = a
    <3> DEFINE holds == lock'[p].by = a /\ lock'[p].left > 0
    <3>1. view'[a] = [p |-> p, text |-> r.text, version |-> Len(versions'[p]), drifted |-> FALSE,
                      alone |-> holds]
      BY <1>1, <2>1
    <3>2. program'[p].text = r.text
      BY <1>1, <1>4
    <3> HIDE DEF holds
    <3>3. view'[a].alone = holds /\ view'[a].p = p /\ view'[a].text = r.text
          /\ view'[a].version = Len(versions'[p])
      BY <3>1
    <3>4. holds
      BY <1>11, <2>1, <3>3
    <3> QED BY <2>1, <3>2, <3>3, <3>4 DEF holds
  <2>2. CASE c # a
    <3>1. view'[c] = view[c]
      BY <1>1, <2>2
    <3>2. /\ view[c].p \in Programs /\ lock[view[c].p].by = c /\ lock[view[c].p].left > 0
          /\ program[view[c].p].text = view[c].text /\ Len(versions[view[c].p]) = view[c].version
      BY <1>11, <3>1 DEF Locks, Held, Holds, HolderIsCurrent, Source, Latest
    <3>3. view[c].p # p
      BY <2>2, <3>2 DEF LockedOut
    <3>4. lock'[view[c].p] = lock[view[c].p]
      BY <1>4, <1>6, <3>2, <3>3
    <3>5. program'[view[c].p] = program[view[c].p] /\ versions'[view[c].p] = versions[view[c].p]
      BY <1>1, <1>3, <1>4, <3>2, <3>3
    <3> QED BY <3>1, <3>2, <3>4, <3>5
  <2> QED BY <2>1, <2>2
<1>12. Locks'
  <2>1. Held'
    BY <1>11 DEF Held, Holds
  <2>2. HolderIsCurrent'
    BY <1>11 DEF HolderIsCurrent, Source, Latest
  <2> QED BY <1>10, <2>1, <2>2 DEF Locks
<1>13. HistoryComplete'
  <2>1. program'[p] = new /\ \A q \in Programs \ {p} : program'[q] = program[q]
    BY <1>1, <1>4
  <2> QED BY <1>1, <1>3, <2>1 DEF HistoryComplete, Source
<1>14. Opened'
  <2> SUFFICES ASSUME NEW c \in Clients, view'[c].version # 0
               PROVE  /\ view'[c].p \in Programs /\ view'[c].version \in 1..Len(versions'[view'[c].p])
                      /\ ~view'[c].drifted => versions'[view'[c].p][view'[c].version].text = view'[c].text
    BY DEF Opened, Latest
  <2>1. CASE c = a
    BY <1>1, <1>3, <1>7, <2>1
  <2>2. CASE c # a
    <3>1. view'[c] = view[c]
      BY <1>1, <2>2
    <3> QED BY <1>3, <3>1 DEF Opened, Latest, Grown
  <2> QED BY <2>1, <2>2
<1> QED BY <1>9, <1>12, <1>13, <1>14

(* Writers that heed no lock end the claims of those who are alone with what  *)
(* they write.                                                                *)
LEMMA PassedKeeps ==
    ASSUME Inv, NEW P \in SUBSET Programs, view' = Passed(P), UNCHANGED <<lock, lockRow>>, Grown,
           \A q \in Programs \ P : program'[q] = program[q] /\ versions'[q] = versions[q]
    PROVE  /\ view' \in [Clients -> View]
           /\ \A c \in Clients : view'[c].p \in Programs \cup {"none"} /\ view'[c].text \in Text
           /\ Locks' /\ Opened'
<1> USE DEF Inv
<1>1. view \in [Clients -> View]
  BY DEF Typed
<1>2. ASSUME NEW c \in Clients
      PROVE  /\ view'[c] \in View
             /\ view'[c].p = view[c].p /\ view'[c].text = view[c].text
             /\ view'[c].version = view[c].version /\ view'[c].drifted = view[c].drifted
             /\ view'[c].alone => view[c].alone /\ view[c].p \notin P
  <2>1. CASE view[c].p \in P
    <3>1. view'[c] = [view[c] EXCEPT !.alone = FALSE]
      BY <2>1 DEF Passed
    <3> QED BY <1>1, <3>1, ZenonT(60) DEF View
  <2>2. CASE view[c].p \notin P
    <3>1. view'[c] = view[c]
      BY <2>2 DEF Passed
    <3> QED BY <1>1, <2>2, <3>1
  <2> QED BY <2>1, <2>2
<1>3. view' \in [Clients -> View]
  <2>1. view' = [c \in Clients |-> view'[c]]
    BY DEF Passed
  <2> QED BY <1>2, <2>1
<1>4. \A c \in Clients : view'[c].p \in Programs \cup {"none"} /\ view'[c].text \in Text
  BY <1>2 DEF View
<1>5. Locks'
  <2>1. LocksDurable'
    BY DEF Locks, LocksDurable
  <2>2. ASSUME NEW c \in Clients, view'[c].alone
        PROVE  /\ view'[c].p \in Programs /\ lock'[view'[c].p].by = c /\ lock'[view'[c].p].left > 0
               /\ program'[view'[c].p].text = view'[c].text
               /\ Len(versions'[view'[c].p]) = view'[c].version
    BY <1>2, <2>2 DEF Locks, Held, Holds, HolderIsCurrent, Source, Latest
  <2>3. Held'
    BY <2>2 DEF Held, Holds
  <2>4. HolderIsCurrent'
    BY <2>2 DEF HolderIsCurrent, Source, Latest
  <2> QED BY <2>1, <2>3, <2>4 DEF Locks
<1>6. Opened'
  BY <1>2, StillOpened
<1> QED BY <1>3, <1>4, <1>5, <1>6

(* A writer that records nothing makes the program drift. *)
LEMMA UnversionedKeeps ==
    ASSUME Inv, NEW p \in Programs, NEW new \in Program, Unversioned(p, new)
    PROVE  Inv'
<1> USE DEF Inv
<1>1. /\ program' = [program EXCEPT ![p] = new] /\ view' = Passed({p}) /\ drift' = drift \cup {p}
      /\ UNCHANGED <<saved, versions, lock, lockRow, buffer, crashes>>
  BY DEF Unversioned
<1>2. program' \in [Programs -> Program] /\ program'[p] = new
      /\ \A q \in Programs \ {p} : program'[q] = program[q]
  BY <1>1 DEF Typed, TypeOK
<1>3. Grown
  BY <1>1 DEF Grown
<1>4. /\ view' \in [Clients -> View] /\ Locks' /\ Opened'
      /\ \A c \in Clients : view'[c].p \in Programs \cup {"none"} /\ view'[c].text \in Text
  BY <1>1, <1>2, <1>3, PassedKeeps
<1>5. Typed'
  BY <1>1, <1>2, <1>4 DEF Typed, TypeOK
<1>6. HistoryComplete'
  BY <1>1, <1>2 DEF HistoryComplete, Source
<1> QED BY <1>4, <1>5, <1>6

(* @program records what it installs; the editor it may come from is typed.   *)
LEMMA InstallKeeps ==
    ASSUME Inv, NEW p \in Programs, NEW t \in Text, InstallProgram(p, t),
           buffer' \in [Typists -> [p : Scripts \cup {"none"}, text : Text]]
    PROVE  Inv'
<1> USE DEF Inv
<1> DEFINE new == [text |-> t, origin |-> "InGame"]
<1>1. /\ program' = [program EXCEPT ![p] = new] /\ Record(p, t, 0) /\ view' = Passed({p})
      /\ drift' = drift \ {p} /\ UNCHANGED <<saved, lock, lockRow, crashes>>
  BY DEF InstallProgram
<1>2. program' \in [Programs -> Program] /\ program'[p] = new
      /\ \A q \in Programs \ {p} : program'[q] = program[q]
  <2>1. new \in Program
    BY DEF Program
  <2> QED BY <1>1, <2>1 DEF Typed, TypeOK
<1>3. /\ versions' \in [Programs -> Seq(Version)] /\ Grown
      /\ versions'[p] # <<>> /\ Last(versions'[p]).text = t
      /\ \A q \in Programs \ {p} : versions'[q] = versions[q]
  BY <1>1, Recording
<1>4. /\ view' \in [Clients -> View] /\ Locks' /\ Opened'
      /\ \A c \in Clients : view'[c].p \in Programs \cup {"none"} /\ view'[c].text \in Text
  BY <1>1, <1>2, <1>3, PassedKeeps
<1>5. Typed'
  BY <1>1, <1>2, <1>3, <1>4 DEF Typed, TypeOK, Version
<1>6. HistoryComplete'
  BY <1>1, <1>2, <1>3, SMTT(60) DEF HistoryComplete, Source
<1> QED BY <1>4, <1>5, <1>6

(* What a load records may be another program than the one it writes.         *)
LEMMA FileWriteKeeps ==
    ASSUME Inv, NEW p \in Programs, NEW new \in Program, FileWrite(p, new)
    PROVE  Inv'
<1> USE DEF Inv
<1> DEFINE now == [program EXCEPT ![p] = new]
           changed == {q \in Programs : now[q] # program[q]}
           P == changed \cup Unrecorded(now)
<1>1. /\ program' = now /\ RecordFilePrograms(now) /\ view' = Passed(P)
      /\ drift' = (drift \cup changed) \ FromFiles(now)
      /\ UNCHANGED <<saved, lock, lockRow, buffer, crashes>>
  BY DEF FileWrite
<1>2. now \in [Programs -> Program]
  BY DEF Typed, TypeOK
<1>3. P \in SUBSET Programs
  BY DEF Unrecorded
<1> HIDE DEF now
<1>4. /\ versions' \in [Programs -> Seq(Version)] /\ Grown
      /\ \A q \in Programs : now[q].origin = "File" =>
            versions'[q] # <<>> /\ Last(versions'[q]).text = now[q].text
      /\ \A q \in Programs : now[q].origin # "File" \/ IsLatest(q, now[q].text) =>
            versions'[q] = versions[q]
  BY <1>1, <1>2, RecordingFiles
<1>5. \A q \in Programs \ P : program'[q] = program[q] /\ versions'[q] = versions[q]
  BY <1>1, <1>4 DEF Unrecorded
<1>6. HistoryComplete'
  <2> SUFFICES ASSUME NEW q \in Programs \ drift'
               PROVE  now[q].text = IF versions'[q] = <<>> THEN Blank ELSE Last(versions'[q]).text
    BY <1>1 DEF HistoryComplete, Source
  <2>1. CASE now[q].origin = "File"
    BY <1>4, <2>1
  <2>2. CASE now[q].origin # "File"
    <3>1. q \notin drift /\ now[q] = program[q]
      BY <1>1, <2>2 DEF FromFiles
    <3> QED BY <1>4, <2>2, <3>1 DEF HistoryComplete, Source
  <2> QED BY <2>1, <2>2
<1> HIDE DEF P
<1>7. /\ view' \in [Clients -> View] /\ Locks' /\ Opened'
      /\ \A c \in Clients : view'[c].p \in Programs \cup {"none"} /\ view'[c].text \in Text
  BY <1>1, <1>3, <1>4, <1>5, PassedKeeps
<1>8. Typed'
  BY <1>1, <1>2, <1>4, <1>7 DEF Typed, TypeOK, Version
<1> QED BY <1>6, <1>7, <1>8

(* What keeps the program a file gives it is a program. *)
LEMMA Installed ==
    ASSUME Typed, NEW p \in Programs, NEW t \in Drafts \cup {Blank}
    PROVE  InstallScript(p, t) \in Program /\ ResolveScript(p, t) \in Program
<1>1. t \in Text /\ Absent \in Program /\ program[p] \in Program
  BY Texts DEF Typed, TypeOK
<1>2. [text |-> t, origin |-> "File"] \in Program
  BY <1>1 DEF Program
<1>3. InstallScript(p, t) \in Program
  BY <1>1, <1>2 DEF InstallScript
<1> QED BY <1>1, <1>3 DEF ResolveScript

-----------------------------------------------------------------------------
(* The locks *)

(* When locks end, so does being alone. *)
LEMMA StillHeldKeeps ==
    ASSUME Inv, view' = StillHeld, UNCHANGED <<program, versions>>
    PROVE  /\ view' \in [Clients -> View]
           /\ \A c \in Clients : view'[c].p \in Programs \cup {"none"} /\ view'[c].text \in Text
           /\ Held' /\ HolderIsCurrent' /\ Opened'
<1> USE DEF Inv
<1> DEFINE keeps(c) == view[c].alone /\ lock'[view[c].p].by = c /\ lock'[view[c].p].left > 0
<1>1. \A c : keeps(c) \in BOOLEAN
  OBVIOUS
<1>2. view' = [c \in Clients |-> [view[c] EXCEPT !.alone = keeps(c)]]
  BY DEF StillHeld
<1>3. \A c : keeps(c) => view[c].alone /\ lock'[view[c].p].by = c /\ lock'[view[c].p].left > 0
  OBVIOUS
<1> HIDE DEF keeps
<1>4. ASSUME NEW c \in Clients
      PROVE  /\ view'[c] \in View
             /\ view'[c].p = view[c].p /\ view'[c].text = view[c].text
             /\ view'[c].version = view[c].version /\ view'[c].drifted = view[c].drifted
             /\ view'[c].alone = keeps(c)
  BY <1>1, <1>2 DEF Typed, View
<1>5. view' \in [Clients -> View]
  BY <1>2, <1>4
<1>6. \A c \in Clients : view'[c].p \in Programs \cup {"none"} /\ view'[c].text \in Text
  BY <1>4 DEF View
<1>7. ASSUME NEW c \in Clients, view'[c].alone
      PROVE  /\ view'[c].p \in Programs /\ lock'[view'[c].p].by = c /\ lock'[view'[c].p].left > 0
             /\ program'[view'[c].p].text = view'[c].text
             /\ Len(versions'[view'[c].p]) = view'[c].version
  <2>1. keeps(c)
    BY <1>4, <1>7
  <2> QED BY <1>3, <1>4, <2>1 DEF Locks, Held, HolderIsCurrent, Source, Latest
<1>8. Held'
  BY <1>7 DEF Held, Holds
<1>9. HolderIsCurrent'
  BY <1>7 DEF HolderIsCurrent, Source, Latest
<1>10. Opened'
  <2>1. Grown
    BY DEF Grown
  <2> QED BY <1>4, <2>1, StillOpened
<1> QED BY <1>5, <1>6, <1>8, <1>9, <1>10

LEMMA LockScriptKeeps ==
    ASSUME Inv, NEW a \in Accounts, NEW p \in Programs, LockScript(a, p)
    PROVE  Inv'
<1> USE DEF Inv
<1> DEFINE l == [by |-> a, left |-> Ttl]
<1>1. /\ ~LockedOut(a, p) /\ lock' = [lock EXCEPT ![p] = l] /\ lockRow' = [lockRow EXCEPT ![p] = l]
      /\ UNCHANGED <<program, saved, versions, view, buffer, crashes, drift>>
  BY DEF LockScript
<1>2. l \in Lock /\ l.by = a /\ l.left > 0
  <2>1. Ttl \in 0..Ttl /\ Ttl > 0
    BY Numbers
  <2> QED BY <2>1 DEF Lock
<1> HIDE DEF l
<1>3. lock \in [Programs -> Lock] /\ lockRow \in [Programs -> Lock]
  BY DEF Typed, TypeOK
<1>4. lock' \in [Programs -> Lock] /\ lockRow' \in [Programs -> Lock]
  BY <1>1, <1>2, <1>3
<1>5. Typed'
  BY <1>1, <1>4 DEF Typed, TypeOK
<1>6. LocksDurable'
  BY <1>1, <1>3 DEF Locks, LocksDurable
<1>7. ASSUME NEW c \in Clients, view[c].alone
      PROVE  lock'[view[c].p].by = c /\ lock'[view[c].p].left > 0
  <2>1. view[c].p \in Programs /\ lock[view[c].p].by = c /\ lock[view[c].p].left > 0
    BY <1>7 DEF Locks, Held, Holds
  <2>2. CASE view[c].p = p
    BY <1>1, <1>2, <1>3, <2>1, <2>2 DEF LockedOut
  <2>3. CASE view[c].p # p
    BY <1>1, <1>3, <2>1, <2>3
  <2> QED BY <2>2, <2>3
<1>8. Held'
  BY <1>1, <1>7 DEF Locks, Held, Holds
<1>9. HolderIsCurrent'
  BY <1>1 DEF Locks, HolderIsCurrent, Source, Latest
<1>10. HistoryComplete' /\ Opened'
  BY <1>1 DEF HistoryComplete, Source, Opened, Latest
<1> QED BY <1>5, <1>6, <1>8, <1>9, <1>10 DEF Locks

LEMMA UnlockScriptKeeps ==
    ASSUME Inv, NEW a \in Accounts, NEW p \in Programs, UnlockScript(a, p)
    PROVE  Inv'
<1> USE DEF Inv
<1>1. /\ lock' = [lock EXCEPT ![p] = Free] /\ lockRow' = [lockRow EXCEPT ![p] = Free]
      /\ view' = StillHeld
      /\ UNCHANGED <<program, saved, versions, buffer, crashes, drift>>
  BY DEF UnlockScript
<1>2. /\ view' \in [Clients -> View] /\ Held' /\ HolderIsCurrent' /\ Opened'
      /\ \A c \in Clients : view'[c].p \in Programs \cup {"none"} /\ view'[c].text \in Text
  BY <1>1, StillHeldKeeps
<1>3. lock \in [Programs -> Lock] /\ lockRow \in [Programs -> Lock] /\ Free \in Lock
  BY DEF Typed, TypeOK, Lock
<1>4. lock' \in [Programs -> Lock] /\ lockRow' \in [Programs -> Lock]
  BY <1>1, <1>3
<1>5. Typed'
  BY <1>1, <1>2, <1>4 DEF Typed, TypeOK
<1>6. LocksDurable'
  BY <1>1, <1>3 DEF Locks, LocksDurable
<1>7. HistoryComplete'
  BY <1>1 DEF HistoryComplete, Source
<1> QED BY <1>2, <1>5, <1>6, <1>7 DEF Locks

LEMMA ElapseKeeps == ASSUME Inv, Elapse PROVE Inv'
<1> USE DEF Inv
<1>1. /\ lock' = [p \in Programs |-> Older(lock[p])] /\ lockRow' = [p \in Programs |-> Older(lockRow[p])]
      /\ view' = StillHeld
      /\ UNCHANGED <<program, saved, versions, buffer, crashes, drift>>
  BY DEF Elapse
<1>2. /\ view' \in [Clients -> View] /\ Held' /\ HolderIsCurrent' /\ Opened'
      /\ \A c \in Clients : view'[c].p \in Programs \cup {"none"} /\ view'[c].text \in Text
  BY <1>1, StillHeldKeeps
<1>3. ASSUME NEW l \in Lock
      PROVE  Older(l) \in Lock /\ (Older(l).left > 0 => l.left > 0)
  <2>1. CASE l \in [by : Accounts, left : 0..Ttl]
    <3>1. /\ l.by \in Accounts /\ l.left \in 0..Ttl
          /\ Older(l) = [by |-> l.by, left |-> IF l.left = 0 THEN 0 ELSE l.left - 1]
      BY <2>1 DEF Older
    <3>2. (IF l.left = 0 THEN 0 ELSE l.left - 1) \in 0..Ttl
      BY <3>1, Numbers
    <3> QED BY <3>1, <3>2 DEF Lock
  <2>2. CASE l = Free
    <3>1. Older(l) = Free
      BY <2>2 DEF Older, Free
    <3> QED BY <2>2, <3>1 DEF Lock
  <2> QED BY <2>1, <2>2 DEF Lock
<1>4. lock \in [Programs -> Lock] /\ lockRow \in [Programs -> Lock]
  BY DEF Typed, TypeOK
<1>5. lock' \in [Programs -> Lock] /\ lockRow' \in [Programs -> Lock]
  BY <1>1, <1>3, <1>4
<1>6. Typed'
  BY <1>1, <1>2, <1>5 DEF Typed, TypeOK
<1>7. LocksDurable'
  BY <1>1, <1>3, <1>4 DEF Locks, LocksDurable
<1>8. HistoryComplete'
  BY <1>1 DEF HistoryComplete, Source
<1> QED BY <1>2, <1>6, <1>7, <1>8 DEF Locks

-----------------------------------------------------------------------------
(* Opening, the editor and the process *)

LEMMA OpenKeeps ==
    ASSUME Inv, NEW a \in Clients, NEW p \in Programs, Open(a, p)
    PROVE  Inv'
<1> USE DEF Inv
<1> DEFINE drifted == p \in drift
           mine == lock[p].by = a /\ lock[p].left > 0
           v == [p |-> p, text |-> Source(p), version |-> Len(versions[p]), drifted |-> drifted, alone |-> mine]
<1>1. /\ view' = [view EXCEPT ![a] = v]
      /\ UNCHANGED <<program, saved, versions, lock, lockRow, buffer, crashes, drift>>
  BY DEF Open, VersionAndLock, Holds, Latest
<1>2. drifted \in BOOLEAN /\ mine \in BOOLEAN /\ (drifted <=> p \in drift)
      /\ (mine => lock[p].by = a /\ lock[p].left > 0)
  OBVIOUS
<1> HIDE DEF drifted, mine
<1>3. Source(p) \in Text /\ Len(versions[p]) \in Nat
      /\ (versions[p] # <<>> => Last(versions[p]) = versions[p][Len(versions[p])])
      /\ (Len(versions[p]) # 0 => versions[p] # <<>>)
  BY Texts DEF Typed, TypeOK, Source, Program, Absent, Last
<1>4. v \in View /\ v.p = p /\ v.text = Source(p) /\ v.version = Len(versions[p])
      /\ v.drifted = drifted /\ v.alone = mine
  BY <1>2, <1>3 DEF View
<1> HIDE DEF v
<1>5. view \in [Clients -> View] /\ view' \in [Clients -> View] /\ view'[a] = v
      /\ \A c \in Clients \ {a} : view'[c] = view[c]
  BY <1>1, <1>4 DEF Typed
<1>6. Typed'
  <2>1. \A c \in Clients : view'[c].p \in Programs \cup {"none"} /\ view'[c].text \in Text
    BY <1>5 DEF View
  <2> QED BY <1>1, <1>5, <2>1 DEF Typed, TypeOK
<1>7. LocksDurable'
  BY <1>1 DEF Locks, LocksDurable
<1>8. ASSUME NEW c \in Clients, view'[c].alone
      PROVE  /\ view'[c].p \in Programs /\ lock[view'[c].p].by = c /\ lock[view'[c].p].left > 0
             /\ program[view'[c].p].text = view'[c].text
             /\ Len(versions[view'[c].p]) = view'[c].version
  <2>1. CASE c = a
    <3>1. mine
      BY <1>4, <1>5, <1>8, <2>1
    <3> QED BY <1>2, <1>4, <1>5, <2>1, <3>1 DEF Source
  <2>2. CASE c # a
    BY <1>5, <1>8, <2>2 DEF Locks, Held, Holds, HolderIsCurrent, Source, Latest
  <2> QED BY <2>1, <2>2
<1>9. Held'
  BY <1>1, <1>8 DEF Held, Holds
<1>10. HolderIsCurrent'
  BY <1>1, <1>8 DEF HolderIsCurrent, Source, Latest
<1>11. HistoryComplete'
  BY <1>1 DEF HistoryComplete, Source
<1>12. Opened'
  <2> SUFFICES ASSUME NEW c \in Clients, view'[c].version # 0
               PROVE  /\ view'[c].p \in Programs /\ view'[c].version \in 1..Len(versions[view'[c].p])
                      /\ ~view'[c].drifted => versions[view'[c].p][view'[c].version].text = view'[c].text
    BY <1>1 DEF Opened, Latest
  <2>1. CASE c = a
    <3>1. ~drifted => Source(p) = Last(versions[p]).text
      BY <1>2, <1>3, <1>4, <1>5, <2>1 DEF HistoryComplete
    <3> QED BY <1>3, <1>4, <1>5, <2>1, <3>1
  <2>2. CASE c # a
    BY <1>5, <2>2 DEF Opened, Latest
  <2> QED BY <2>1, <2>2
<1> QED BY <1>6, <1>7, <1>9, <1>10, <1>11, <1>12 DEF Locks

(* The editor's lines and the save touch nothing the rest speaks of. *)
LEMMA ElsewhereKeeps ==
    ASSUME Inv, UNCHANGED <<program, versions, lock, lockRow, view, crashes, drift>>,
           saved' \in [Programs -> Program],
           buffer' \in [Typists -> [p : Scripts \cup {"none"}, text : Text]]
    PROVE  Inv'
<1> USE DEF Inv
<1>1. Typed'
  BY DEF Typed, TypeOK
<1>2. Locks'
  BY DEF Locks, LocksDurable, Held, Holds, HolderIsCurrent, Source, Latest
<1>3. HistoryComplete'
  BY DEF HistoryComplete, Source
<1>4. Opened'
  BY DEF Opened, Latest
<1> QED BY <1>1, <1>2, <1>3, <1>4

LEMMA RestartKeeps == ASSUME Inv, Restart PROVE Inv'
<1> USE DEF Inv
<1>1. /\ crashes < MaxCrashes /\ crashes' = crashes + 1 /\ program' = saved /\ RecordFilePrograms(saved)
      /\ lock' = LoadScriptLocks
      /\ view' = [a \in Clients |-> [view[a] EXCEPT !.alone = FALSE]]
      /\ buffer' = [a \in Typists |-> NoBuffer]
      /\ drift' = (drift \cup {p \in Programs : saved[p] # program[p]}) \ FromFiles(saved)
      /\ UNCHANGED <<saved, lockRow>>
  BY DEF Restart
<1>2. saved \in [Programs -> Program] /\ lockRow \in [Programs -> Lock]
      /\ view \in [Clients -> View]
  BY DEF Typed, TypeOK
<1>3. /\ versions' \in [Programs -> Seq(Version)] /\ Grown
      /\ \A q \in Programs : saved[q].origin = "File" =>
            versions'[q] # <<>> /\ Last(versions'[q]).text = saved[q].text
      /\ \A q \in Programs : saved[q].origin # "File" => versions'[q] = versions[q]
  BY <1>1, <1>2, RecordingFiles
<1>4. ASSUME NEW c \in Clients
      PROVE  /\ view'[c] \in View /\ ~view'[c].alone
             /\ view'[c].p = view[c].p /\ view'[c].text = view[c].text
             /\ view'[c].version = view[c].version /\ view'[c].drifted = view[c].drifted
  BY <1>1, <1>2 DEF View
<1>5. Typed'
  <2>1. view' \in [Clients -> View]
    BY <1>1, <1>4
  <2>2. \A c \in Clients : view'[c].p \in Programs \cup {"none"} /\ view'[c].text \in Text
    BY <1>4 DEF View
  <2>3. lock' \in [Programs -> Lock]
    BY <1>1, <1>2 DEF LoadScriptLocks, Lock
  <2>4. buffer' \in [Typists -> [p : Scripts \cup {"none"}, text : Text]]
    BY <1>1, Texts DEF NoBuffer
  <2>5. crashes' \in 0..MaxCrashes /\ drift' \subseteq Programs
    BY <1>1, Numbers DEF Typed, TypeOK
  <2> QED BY <1>1, <1>2, <1>3, <2>1, <2>2, <2>3, <2>4, <2>5 DEF Typed, TypeOK, Version
<1>6. LocksDurable'
  <2> SUFFICES ASSUME NEW p \in Programs, lock'[p].left > 0 \/ lockRow[p].left > 0
               PROVE  lock'[p] = lockRow[p]
    BY <1>1 DEF LocksDurable
  <2> QED BY <1>1 DEF LoadScriptLocks, Free
<1>7. Locks'
  BY <1>4, <1>6 DEF Locks, Held, HolderIsCurrent
<1>9. HistoryComplete'
  <2> SUFFICES ASSUME NEW q \in Programs \ drift'
               PROVE  saved[q].text = IF versions'[q] = <<>> THEN Blank ELSE Last(versions'[q]).text
    BY <1>1 DEF HistoryComplete, Source
  <2>1. CASE saved[q].origin = "File"
    BY <1>3, <2>1
  <2>2. CASE saved[q].origin # "File"
    <3>1. q \notin drift /\ saved[q] = program[q]
      BY <1>1, <2>2 DEF FromFiles
    <3> QED BY <1>3, <2>2, <3>1 DEF HistoryComplete, Source
  <2> QED BY <2>1, <2>2
<1>10. Opened'
  BY <1>3, <1>4, StillOpened
<1> QED BY <1>5, <1>7, <1>9, <1>10

-----------------------------------------------------------------------------
(* Every step *)

(* What a publication comes to be is a text with the version it came from. *)
LEMMA Resolved ==
    ASSUME Typed, NEW p \in Programs, NEW t \in Text, NEW base,
           NEW r \in ResolveVersionedWrite(p, t, base)
    PROVE  r \in Version
<1>1. Source(p) \in Text /\ Latest(p) \in Nat
  BY Texts DEF Typed, TypeOK, Source, Latest, Program, Absent
<1>2. CASE base = 0 \/ Latest(p) = 0 \/ Latest(p) = base
  <2>1. r = [text |-> t, from |-> 0]
    BY <1>2 DEF ResolveVersionedWrite
  <2> QED BY <2>1 DEF Version
<1>3. CASE ~(base = 0 \/ Latest(p) = 0 \/ Latest(p) = base)
  <2>1. PICK u \in Merge(GetScriptVersion(p, base), t, Source(p)) : r = [text |-> u, from |-> Latest(p)]
    BY <1>3 DEF ResolveVersionedWrite
  <2>2. u = [h \in Hunks |-> IF t[h] # GetScriptVersion(p, base)[h] THEN t[h] ELSE Source(p)[h]]
    BY <2>1 DEF Merge
  <2>3. u \in Text
    BY <1>1, <2>2 DEF Text
  <2> QED BY <1>1, <2>1, <2>3 DEF Version
<1> QED BY <1>2, <1>3

LEMMA RequestKeeps == ASSUME Inv, NEW a \in Accounts, Request(a) PROVE Inv'
<1>1. ASSUME NEW p, NEW t \in Text, NEW base, SetScript(a, p, t, base) \/ SetLib(a, p, t, base)
      PROVE  Inv'
  <2>1. p \in Programs /\ ~LockedOut(a, p)
    BY <1>1 DEF SetScript, SetLib, Programs
  <2>2. PICK r \in ResolveVersionedWrite(p, t, base) : Publish(a, p, r)
    BY <1>1 DEF SetScript, SetLib
  <2>3. r \in Version
    BY <2>1, Resolved DEF Inv
  <2> QED BY <2>1, <2>2, <2>3, PublishKeeps
<1>2. CASE a \in Clients /\ SetOpened(a)
  <2>1. PICK t \in Sent(a) : SetScript(a, view[a].p, t, view[a].version) \/ SetLib(a, view[a].p, t, view[a].version)
    BY <1>2 DEF SetOpened
  <2>2. view[a].text \in Text
    BY <1>2 DEF Inv, Typed, TypeOK
  <2>3. t \in Text
    <3>1. PICK h \in Hunks, w \in Wordings : t = [view[a].text EXCEPT ![h] = w]
      BY <2>1 DEF Sent
    <3> QED BY <2>2, <3>1 DEF Text
  <2> QED BY <1>1, <2>1, <2>3
<1>3. CASE a \in Clients /\ \E p \in Programs : GetScript(a, p) \/ ListLibs(a, p)
  BY <1>3, OpenKeeps DEF GetScript, ListLibs
<1>4. ASSUME NEW p \in Programs, SetDraft(a, p) PROVE Inv'
  BY <1>1, <1>4, Texts DEF SetDraft
<1>5. ASSUME NEW p \in Programs, NEW v \in 1..Latest(p), RevertScript(a, p, v) PROVE Inv'
  <2> DEFINE r == [text |-> GetScriptVersion(p, v), from |-> 0]
  <2>1. ~LockedOut(a, p) /\ Publish(a, p, r)
    BY <1>5 DEF RevertScript
  <2>2. versions[p] \in Seq(Version)
    BY DEF Inv, Typed, TypeOK, Version
  <2>3. versions[p][v] \in Version
    BY <2>2 DEF Latest
  <2>4. r \in Version
    BY <2>3 DEF Version, GetScriptVersion
  <2> QED BY <2>1, <2>4, PublishKeeps
<1> QED BY <1>2, <1>3, <1>4, <1>5, LockScriptKeeps, UnlockScriptKeeps DEF Request

LEMMA EditorKeeps == ASSUME Inv, NEW a \in Typists, Editor(a) PROVE Inv'
<1> DEFINE Buffer == [p : Scripts \cup {"none"}, text : Text]
<1>1. buffer \in [Typists -> Buffer] /\ buffer[a] \in Buffer /\ saved \in [Programs -> Program]
      /\ NoBuffer \in Buffer
  BY Texts DEF Inv, Typed, TypeOK, NoBuffer
<1>2. ASSUME NEW p \in Programs, CmdProgram(a, p) PROVE Inv'
  <2>1. [p |-> p, text |-> Source(p)] \in Buffer
    BY <1>2, Texts DEF CmdProgram, Inv, Typed, TypeOK, Source, Program, Absent
  <2>2. buffer' \in [Typists -> Buffer]
    BY <1>1, <1>2, <2>1 DEF CmdProgram
  <2> QED BY <1>1, <1>2, <2>2, ElsewhereKeeps DEF CmdProgram
<1>3. ASSUME NEW h \in Hunks, NEW w \in Wordings, EditorLine(a, h, w) PROVE Inv'
  <2>1. [buffer[a].text EXCEPT ![h] = w] \in Text
    BY <1>1 DEF Text
  <2>2. [buffer[a] EXCEPT !.text = [buffer[a].text EXCEPT ![h] = w]] \in Buffer
    BY <1>1, <2>1
  <2>3. buffer' = [buffer EXCEPT ![a] = [buffer[a] EXCEPT !.text = [buffer[a].text EXCEPT ![h] = w]]]
    BY <1>1, <1>3 DEF EditorLine
  <2>4. buffer' \in [Typists -> Buffer]
    BY <1>1, <2>2, <2>3
  <2> QED BY <1>1, <1>3, <2>4, ElsewhereKeeps DEF EditorLine
<1>4. CASE EditorDone(a)
  <2>1. buffer' \in [Typists -> Buffer]
    BY <1>1, <1>4 DEF EditorDone
  <2>2. CASE buffer[a].text = Blank
    BY <1>1, <1>4, <2>1, <2>2, ElsewhereKeeps DEF EditorDone
  <2>3. CASE buffer[a].text # Blank
    <3>1. InstallProgram(buffer[a].p, buffer[a].text)
      BY <1>4, <2>3 DEF EditorDone
    <3>2. buffer[a].p \in Programs /\ buffer[a].text \in Text
      BY <1>1, <1>4 DEF EditorDone, Programs
    <3> QED BY <2>1, <3>1, <3>2, InstallKeeps
  <2> QED BY <2>2, <2>3
<1>5. CASE EditorAbort(a)
  <2>1. buffer' \in [Typists -> Buffer]
    BY <1>1, <1>5 DEF EditorAbort
  <2> QED BY <1>1, <1>5, <2>1, ElsewhereKeeps DEF EditorAbort
<1> QED BY <1>2, <1>3, <1>4, <1>5 DEF Editor

LEMMA OthersKeep == ASSUME Inv, Elsewhere PROVE Inv'
<1> DEFINE made(t) == [text |-> t, origin |-> "InGame"]
<1>1. PICK p \in Programs :
        \/ ClearScript(p) \/ RemoveLib(p) \/ CmdRmprogram(p) \/ CmdRmscript(p) \/ CmdRmlib(p)
        \/ \E t \in Drafts :
            \/ CmdScript(p, t) \/ CmdLib(p, t) \/ CreateLibrary(p, t)
            \/ Softcode(p, t) \/ CmdProgramLine(p, t)
        \/ \E t \in Drafts \cup {Blank} : ReloadWorld(p, t) \/ Import(p, t)
  BY DEF Elsewhere
<1>2. CASE ClearScript(p) \/ RemoveLib(p) \/ CmdRmprogram(p) \/ CmdRmscript(p) \/ CmdRmlib(p)
  <2>1. Unversioned(p, Absent)
    BY <1>2 DEF ClearScript, RemoveLib, CmdRmprogram, CmdRmscript, CmdRmlib
  <2> QED BY <2>1, Texts, UnversionedKeeps
<1>3. ASSUME NEW t \in Drafts, CmdScript(p, t) \/ CmdLib(p, t) \/ CreateLibrary(p, t) \/ Softcode(p, t)
      PROVE  Inv'
  <2>1. Unversioned(p, made(t))
    BY <1>3 DEF CmdScript, CmdLib, CreateLibrary, UpsertLibrary, Softcode
  <2>2. made(t) \in Program
    BY Texts DEF Program
  <2> QED BY <2>1, <2>2, UnversionedKeeps
<1>4. ASSUME NEW t \in Drafts, CmdProgramLine(p, t) PROVE Inv'
  <2>1. InstallProgram(p, t) /\ UNCHANGED buffer /\ t \in Text
    BY <1>4, Texts DEF CmdProgramLine
  <2>2. buffer' \in [Typists -> [p : Scripts \cup {"none"}, text : Text]]
    BY <2>1 DEF Inv, Typed, TypeOK
  <2> QED BY <2>1, <2>2, InstallKeeps
<1>5. ASSUME NEW t \in Drafts \cup {Blank}, ReloadWorld(p, t) \/ Import(p, t) PROVE Inv'
  <2>1. PICK new \in {InstallScript(p, t), ResolveScript(p, t)} : FileWrite(p, new) \/ FileWriteFails(p, new)
    BY <1>5 DEF ReloadWorld, Import
  <2>2. new \in Program
    BY Installed DEF Inv
  <2> QED BY <2>1, <2>2, FileWriteKeeps, UnversionedKeeps DEF FileWriteFails
<1> QED BY <1>1, <1>2, <1>3, <1>4, <1>5

LEMMA NextKeepsInv == Inv /\ [Next]_vars => Inv'
<1> SUFFICES ASSUME Inv, [Next]_vars PROVE Inv'
  OBVIOUS
<1>1. program \in [Programs -> Program] /\ saved \in [Programs -> Program]
      /\ buffer \in [Typists -> [p : Scripts \cup {"none"}, text : Text]]
  BY DEF Inv, Typed, TypeOK
<1>2. CASE \E a \in Accounts : Request(a)
  BY <1>2, RequestKeeps
<1>3. CASE \E a \in Typists : Editor(a)
  BY <1>3, EditorKeeps
<1>4. CASE SaveWorld
  BY <1>1, <1>4, ElsewhereKeeps DEF SaveWorld
<1>5. CASE UNCHANGED vars
  BY <1>1, <1>5, ElsewhereKeeps DEF vars
<1> QED BY <1>2, <1>3, <1>4, <1>5, OthersKeep, ElapseKeeps, RestartKeeps DEF Next

LEMMA Invariance == Spec => []Inv
BY InitInv, NextKeepsInv, PTL DEF Spec

-----------------------------------------------------------------------------
(* A program is its own latest version unless its last writer records none, a *)
(* load that fails half-way included, or a crash took it back                 *)
(* (record_script_version, record_file_program_versions).                     *)
THEOREM HistoryIsComplete == Spec => []HistoryComplete
<1>1. Inv => HistoryComplete
  BY DEF Inv
<1> QED BY <1>1, Invariance, PTL

(* A lock's holder is at the version and text opened, and the locks that      *)
(* count are those a restart finds (check_edit_lock, save_script_lock).       *)
THEOREM LocksProtect == Spec => []EditLocksHold
<1>1. Inv => EditLocksHold
  BY DEF Inv, Typed, Locks, EditLocksHold
<1> QED BY <1>1, Invariance, PTL

(* A publication leaves each hunk that is not as its client saw it.           *)
LEMMA PublicationSpares ==
    ASSUME Inv, NEW a \in Clients, view[a].version # 0, ~view[a].drifted, view[a].p \notin drift,
           SetOpened(a), NEW h \in Hunks, Source(view[a].p)[h] # view[a].text[h]
    PROVE  Source(view[a].p)'[h] = Source(view[a].p)[h]
<1> DEFINE p == view[a].p
           base == view[a].version
<1>1. /\ p \in Programs /\ base \in 1..Latest(p) /\ versions[p][base].text = view[a].text
      /\ Latest(p) = Len(versions[p]) /\ versions[p] \in Seq(Version)
  BY DEF Inv, Opened, Typed, TypeOK, Version, Latest
<1>2. Source(p) = versions[p][Len(versions[p])].text
  <2>1. versions[p] # <<>>
    BY <1>1
  <2> QED BY <1>1, <2>1 DEF Inv, HistoryComplete, Last
<1>3. Latest(p) # base /\ base # 0 /\ Latest(p) # 0
  BY <1>1, <1>2
<1>4. PICK t \in Sent(a) : SetScript(a, p, t, base) \/ SetLib(a, p, t, base)
  BY DEF SetOpened
<1>5. PICK r \in ResolveVersionedWrite(p, t, base) : Publish(a, p, r)
  BY <1>4 DEF SetScript, SetLib
<1>6. PICK u \in Merge(view[a].text, t, Source(p)) : r = [text |-> u, from |-> Latest(p)]
  BY <1>1, <1>3, <1>5 DEF ResolveVersionedWrite, GetScriptVersion
<1>7. /\ ~ \E g \in Hunks : t[g] # view[a].text[g] /\ Source(p)[g] # view[a].text[g] /\ t[g] # Source(p)[g]
      /\ u = [g \in Hunks |-> IF t[g] # view[a].text[g] THEN t[g] ELSE Source(p)[g]]
  BY <1>6 DEF Merge
<1>8. u[h] = Source(p)[h]
  BY <1>7
<1>9. program'[p].text = u /\ view'[a].p = p
  BY <1>1, <1>5, <1>6 DEF Publish, Inv, Typed, TypeOK
<1> QED BY <1>8, <1>9 DEF Source

(* No publication against a version undoes what others published since, as    *)
(* long as the program did not drift from its history (diffy::merge).         *)
THEOREM NothingOverwritten == Spec => NoSilentOverwrite
<1>1. Inv /\ [Next]_vars =>
        [\A a \in Clients : LET v == view[a] IN
            v.version # 0 /\ ~v.drifted /\ v.p \notin drift /\ SetOpened(a)
            => \A h \in Hunks : Source(v.p)[h] # v.text[h] => Source(v.p)'[h] = Source(v.p)[h]]_vars
  BY PublicationSpares
<1> QED BY <1>1, Invariance, PTL DEF Spec, NoSilentOverwrite

=============================================================================
