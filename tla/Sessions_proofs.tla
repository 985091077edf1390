-------------------------- MODULE Sessions_proofs --------------------------
(***************************************************************************)
(* Sessions and accounts agree, whoever plays plays a character of his own *)
(* and is not shown as offline, for any number of connections, accounts,   *)
(* characters and crashes.                                                 *)
(***************************************************************************)
EXTENDS Sessions, FiniteSetTheorems, TLAPS

-----------------------------------------------------------------------------
(* The inductive invariant *)

(* An account plays one of its characters, in memory and in the database.     *)
ActiveOwned ==
    \A a \in Accounts :
        /\ Exists(a) => acct[a].active \in acct[a].chars
        /\ disk.acct[a] # NoAccount => disk.acct[a].active \in disk.acct[a].chars

(* A connection has an account where it needs one, and a body only in play.   *)
Placed ==
    \A c \in Conns :
        /\ sess[c].phase \in {"password", "confirm", "playing"} => sess[c].acct \in Accounts
        /\ sess[c].phase # "playing" => sess[c].actor = NoRef
Agree == SessionsAgree /\ ActiveOwned /\ Placed

(* What exists or is tagged has a reference that was handed out, and the      *)
(* database is behind the process in that.                                    *)
Counted ==
    /\ \A r \in Live : r <= nextId
    /\ \A r \in Refs : disk.objs[r] # Nothing => r <= disk.nextId
    /\ \A r \in offline : r <= nextId
    /\ \A r \in disk.offline : r <= disk.nextId
    /\ disk.nextId <= nextId
    /\ ~disk.hasWorld => disk.objs = NoObjects /\ disk.nextId = 0

(* A puppet may go, but no player takes its reference.                        *)
Puppets ==
    \A c \in Conns : sess[c].puppet # NoRef =>
        sess[c].puppet <= nextId /\ objs[sess[c].puppet] \in {Item, Nothing}

(* The database has the same accounts with the same characters, and nothing   *)
(* else in place of them; in memory they are players made for the account.    *)
Owned ==
    \A a \in Accounts :
        /\ Exists(a) <=> disk.acct[a] # NoAccount
        /\ Exists(a) =>
              /\ acct[a].chars = disk.acct[a].chars
              /\ \A r \in acct[a].chars : objs[r] = a /\ disk.objs[r] \in {a, Nothing}

Online == \A c \in Conns : sess[c].phase = "playing" => sess[c].actor \notin offline

Inv == Agree /\ Counted /\ Puppets /\ (~rolledBack => Owned /\ Online)
-----------------------------------------------------------------------------
LEMMA InitInv == Init => Inv
<1> SUFFICES ASSUME Init PROVE Inv
  OBVIOUS
<1> USE ConstantsAssumption DEF Init, Closed, At, NoObjects, NoAccounts
<1>1. TypeOK
  <2>1. disk \in Disk
    BY DEF Disk
  <2>2. sess \in [Conns -> Session]
    BY DEF Session, Phases
  <2>3. objs \in [Refs -> Accounts \cup {Nothing, Item}] /\ acct \in [Accounts -> Account \cup {NoAccount}]
    OBVIOUS
  <2>4. nextId \in 0..MaxRef /\ crashes \in 0..MaxCrashes /\ offline \subseteq Refs
    OBVIOUS
  <2>5. rolledBack \in BOOLEAN
    OBVIOUS
  <2> QED BY <2>1, <2>2, <2>3, <2>4, <2>5 DEF TypeOK
<1>2. OnePlaying /\ ActiveIsPlayed /\ MenuUnreachable
  BY DEF OnePlaying, ActiveIsPlayed, MenuUnreachable, Plays
<1>3. ActiveOwned /\ Placed
  BY DEF ActiveOwned, Placed, Exists
<1>4. Counted
  BY DEF Counted, Live
<1>5. Puppets /\ Owned /\ Online
  BY DEF Puppets, Owned, Online, Exists
<1> QED BY <1>1, <1>2, <1>3, <1>4, <1>5 DEF Inv, Agree, SessionsAgree

(* A step that only moves sessions between the prompts, or to a puppet.       *)
LEMMA SessionStepKeepsInv ==
    ASSUME Inv, UNCHANGED <<acct, world, disk, crashes, rolledBack>>,
           NEW c \in Conns, NEW x \in Session, sess' = [sess EXCEPT ![c] = x],
           x.phase # "select",
           x.phase = "playing" => x.acct = sess[c].acct /\ x.actor = sess[c].actor /\ sess[c].phase = "playing",
           x.phase \in {"password", "confirm"} => x.acct \in Accounts,
           x.phase # "playing" => x.actor = NoRef,
           x.puppet # NoRef => x.puppet \in Refs /\ objs[x.puppet] = Item
    PROVE  Inv'
<1> USE DEF Inv, Agree, SessionsAgree, world
<1>1. TypeOK'
  BY DEF TypeOK
<1>2. OnePlaying' /\ ActiveIsPlayed' /\ MenuUnreachable'
  BY DEF OnePlaying, ActiveIsPlayed, MenuUnreachable, Plays, Exists, TypeOK
<1>3. ActiveOwned' /\ Counted' /\ Placed'
  BY DEF ActiveOwned, Counted, Placed, Exists, Live, TypeOK
<1>4. Puppets'
  <2>1. x.puppet # NoRef => x.puppet <= nextId
    BY ConstantsAssumption DEF Counted, Live
  <2> QED BY <2>1 DEF Puppets, TypeOK
<1>5. (~rolledBack => Owned /\ Online)'
  BY DEF Owned, Online, Exists, TypeOK
<1> QED BY <1>1, <1>2, <1>3, <1>4, <1>5

(* What the other connections are left as when c comes to play a.             *)
Others(s, c, a) ==
    /\ s \in [Conns -> Session]
    /\ \A d \in Conns \ {c} : s[d] \in {sess[d], Closed} /\ (s[d].phase = "playing" => s[d].acct # a)

LEMMA EnterExistingKeepsInv ==
    ASSUME Inv, NEW c \in Conns, NEW a \in Accounts, Exists(a),
           NEW r \in acct[a].chars, NEW s, Others(s, c, a),
           NEW tagged \in SUBSET Refs, \A q \in tagged : q <= nextId,
           ~rolledBack => \A d \in Conns \ {c} : s[d].phase = "playing" => s[d].actor \notin tagged,
           EnterExisting(c, a, r, s, tagged), UNCHANGED <<crashes, rolledBack>>
    PROVE  Inv'
<1> USE ConstantsAssumption DEF Inv, Agree, SessionsAgree, EnterExisting, Others
<1>a. /\ r \in Refs /\ acct[a] \in Account
      /\ acct' = [acct EXCEPT ![a] = [chars |-> acct[a].chars, active |-> r]]
  <2>1. acct[a] \in Account /\ acct[a].chars \cup {r} = acct[a].chars
    BY DEF TypeOK, Exists
  <2> QED BY <2>1 DEF Entered, Live
<1>b. /\ sess' \in [Conns -> Session]
      /\ sess'[c] = [phase |-> "playing", acct |-> a, actor |-> r, puppet |-> NoRef]
      /\ \A d \in Conns \ {c} : sess'[d] = s[d]
  BY <1>a DEF At, Session, Phases
<1>1. TypeOK'
  BY <1>a, <1>b DEF TypeOK, Account, Untagged
<1>2. OnePlaying' /\ MenuUnreachable'
  BY <1>b DEF OnePlaying, MenuUnreachable, Plays, Closed, At
<1>3. ActiveIsPlayed'
  <2> SUFFICES ASSUME NEW d \in Conns, NEW b \in Accounts, Plays(d, b)'
               PROVE  (Exists(b) /\ acct[b].active = sess[d].actor)'
    BY DEF ActiveIsPlayed
  <2>1. CASE d = c
    BY <1>1, <1>a, <1>b, <2>1 DEF Plays, Exists, TypeOK, Account, Refs
  <2>2. CASE d # c
    BY <1>a, <1>b, <2>2 DEF Plays, Exists, ActiveIsPlayed, Closed, At
  <2> QED BY <2>1, <2>2
<1>4. ActiveOwned' /\ Placed'
  BY <1>a, <1>b DEF ActiveOwned, Placed, Exists, TypeOK, Closed, At
<1>5. Counted'
  BY DEF Counted, Live, Untagged
<1>6. Puppets'
  BY <1>b DEF Puppets, Closed, At
<1>7. ~rolledBack => Owned'
  <2>1. Exists(a)' /\ acct'[a].chars = acct[a].chars
    BY <1>1, <1>a DEF Exists, TypeOK, Account, Refs
  <2>2. \A b \in Accounts \ {a} : acct'[b] = acct[b]
    BY <1>a DEF TypeOK
  <2>3. disk' = disk /\ objs' = objs
    OBVIOUS
  <2> HIDE DEF EnterExisting
  <2> SUFFICES ASSUME Owned, NEW b \in Accounts
               PROVE  /\ Exists(b)' <=> disk.acct[b] # NoAccount
                      /\ Exists(b)' =>
                            /\ acct'[b].chars = disk.acct[b].chars
                            /\ \A q \in acct'[b].chars : objs[q] = b /\ disk.objs[q] \in {b, Nothing}
    BY <2>3 DEF Owned, Exists
  <2>4. CASE b = a
    BY <2>1, <2>4 DEF Owned
  <2>5. CASE b # a
    BY <2>2, <2>5 DEF Owned, Exists
  <2> QED BY <2>4, <2>5
<1>8. ~rolledBack => Online'
  BY <1>b DEF Online, Untagged
<1> QED BY <1>1, <1>2, <1>3, <1>4, <1>5, <1>6, <1>7, <1>8

LEMMA EnterFreshKeepsInv ==
    ASSUME Inv, NEW c \in Conns, NEW a \in Accounts, NEW r, NEW s, Others(s, c, a),
           NEW accts, accts = [acct EXCEPT ![a] = accts[a]], accts[a] \in Account,
           ~rolledBack => accts[a].chars = {},
           EnterFresh(c, a, r, s, accts), UNCHANGED <<crashes, rolledBack>>
    PROVE  Inv'
<1> USE ConstantsAssumption DEF Inv, Agree, SessionsAgree, EnterFresh, AddObject, NextRef, Others
<1>a. /\ NextRef \in Refs /\ NextRef \notin Live /\ NextRef \notin offline
      /\ disk.objs[NextRef] = Nothing /\ nextId \in Nat
  BY DEF Refs, Counted, TypeOK, Live, Disk
<1>b. /\ acct' = [acct EXCEPT ![a] = [chars |-> accts[a].chars \cup {NextRef}, active |-> NextRef]]
      /\ \A b \in Accounts \ {a} : acct'[b] = acct[b]
  BY DEF Entered, TypeOK
<1>c. /\ sess' \in [Conns -> Session]
      /\ sess'[c] = [phase |-> "playing", acct |-> a, actor |-> NextRef, puppet |-> NoRef]
      /\ \A d \in Conns \ {c} : sess'[d] = s[d]
  BY <1>a DEF At, Session, Phases
<1>d. disk'.acct = acct' /\ disk'.objs = disk.objs /\ disk'.nextId = disk.nextId
      /\ disk'.offline = disk.offline /\ disk'.hasWorld = disk.hasWorld
  BY DEF TypeOK, Disk
<1>1. TypeOK'
  <2>1. acct' \in [Accounts -> Account \cup {NoAccount}]
    BY <1>a, <1>b DEF TypeOK, Account
  <2>2. disk' \in Disk
    BY <2>1 DEF TypeOK, Disk
  <2>3. objs' \in [Refs -> Accounts \cup {Nothing, Item}] /\ nextId' \in 0..MaxRef
    BY <1>a DEF TypeOK
  <2> QED BY <1>c, <2>1, <2>2, <2>3 DEF TypeOK
<1>2. OnePlaying' /\ MenuUnreachable'
  BY <1>c DEF OnePlaying, MenuUnreachable, Plays, Closed, At
<1>3. ActiveIsPlayed'
  <2> SUFFICES ASSUME NEW d \in Conns, NEW b \in Accounts, Plays(d, b)'
               PROVE  (Exists(b) /\ acct[b].active = sess[d].actor)'
    BY DEF ActiveIsPlayed
  <2>1. CASE d = c
    BY <1>1, <1>b, <1>c, <2>1 DEF Plays, Exists, TypeOK, Account, Refs
  <2>2. CASE d # c
    BY <1>b, <1>c, <2>2 DEF Plays, Exists, ActiveIsPlayed, Closed, At
  <2> QED BY <2>1, <2>2
<1>4. ActiveOwned' /\ Placed'
  <2>1. ActiveOwned'
    BY <1>b, <1>d DEF ActiveOwned, Exists, TypeOK
  <2>2. Placed'
    BY <1>c DEF Placed, Closed, At
  <2> QED BY <2>1, <2>2
<1>5. Counted'
  <2>1. \A q \in Refs : q # NextRef => objs'[q] = objs[q]
    BY DEF TypeOK
  <2>2. disk.nextId \in Nat
    BY DEF TypeOK, Disk
  <2> QED BY <1>a, <1>d, <2>1, <2>2 DEF Counted, Live, TypeOK, Refs
<1>6. Puppets'
  <2> SUFFICES ASSUME NEW d \in Conns, sess'[d].puppet # NoRef
               PROVE  sess'[d].puppet <= nextId' /\ objs'[sess'[d].puppet] \in {Item, Nothing}
    BY DEF Puppets
  <2>1. sess'[d] = sess[d]
    BY <1>c DEF Closed, At
  <2>2. sess[d].puppet \in Refs /\ sess[d].puppet <= nextId /\ objs[sess[d].puppet] \in {Item, Nothing}
    BY <2>1 DEF Puppets, TypeOK, Session
  <2>3. sess[d].puppet # NextRef
    BY <1>a, <2>2 DEF Refs
  <2> QED BY <1>a, <2>1, <2>2, <2>3 DEF TypeOK, Refs
<1>7. ~rolledBack => Owned'
  <2> SUFFICES ASSUME ~rolledBack, NEW b \in Accounts, acct'[b] # NoAccount
               PROVE  /\ acct'[b].chars = disk'.acct[b].chars
                      /\ \A q \in acct'[b].chars : objs'[q] = b /\ disk'.objs[q] \in {b, Nothing}
    BY <1>d DEF Owned, Exists
  <2>1. CASE b = a
    BY <1>a, <1>b, <1>d, <2>1 DEF TypeOK
  <2>2. CASE b # a
    <3>1. acct'[b] = acct[b] /\ \A q \in acct[b].chars : objs[q] = b /\ disk.objs[q] \in {b, Nothing} /\ q \in Refs
      BY <1>b, <2>2 DEF Owned, Exists, TypeOK, Account
    <3>2. \A q \in acct[b].chars : q # NextRef
      BY <1>a, <3>1 DEF Live
    <3> QED BY <1>d, <3>1, <3>2 DEF TypeOK
  <2> QED BY <2>1, <2>2
<1>8. ~rolledBack => Online'
  BY <1>a, <1>c DEF Online, Closed, At
<1> QED BY <1>1, <1>2, <1>3, <1>4, <1>5, <1>6, <1>7, <1>8

(* Whoever plays has a living character of his own, and nobody else's.        *)
LEMMA PlaysOwn ==
    ASSUME Inv, ~rolledBack, NEW c \in Conns, sess[c].phase = "playing"
    PROVE  LET a == sess[c].acct IN
           a \in Accounts /\ Exists(a) /\ sess[c].actor \in acct[a].chars /\ objs[sess[c].actor] = a
BY DEF Inv, Agree, SessionsAgree, Placed, ActiveIsPlayed, ActiveOwned, Plays, Owned

LEMMA Apart ==
    ASSUME Inv, ~rolledBack, NEW c \in Conns, NEW d \in Conns, c # d,
           sess[c].phase = "playing", sess[d].phase = "playing"
    PROVE  sess[c].actor # sess[d].actor
<1>1. sess[c].acct \in Accounts /\ Plays(c, sess[c].acct) /\ Plays(d, sess[d].acct)
  BY PlaysOwn DEF Plays
<1>2. sess[c].acct # sess[d].acct
  BY <1>1 DEF Inv, Agree, SessionsAgree, OnePlaying
<1>3. objs[sess[c].actor] = sess[c].acct /\ objs[sess[d].actor] = sess[d].acct
  BY PlaysOwn
<1> QED BY <1>2, <1>3

LEMMA LogInKeepsInv ==
    ASSUME Inv, NEW c \in Conns, NEW a \in Accounts, LogIn(c, a), sess[c].phase # "playing"
    PROVE  Inv'
<1> DEFINE r == ChosenCharacter(a)
<1>1. acct[a].active \in acct[a].chars /\ acct[a] \in Account
  BY DEF Inv, Agree, SessionsAgree, ActiveOwned, LogIn, TypeOK, Exists
<1>2. r \in acct[a].chars /\ ~OffersMenu(a)
  BY <1>1 DEF ChosenCharacter, OffersMenu
<1>3. Others(Kicked(c, a), c, a)
  BY DEF Inv, Agree, SessionsAgree, TypeOK, Others, Kicked, Plays, Closed, At, Session, Phases
<1>4. CASE EnterExisting(c, a, r, Kicked(c, a), offline)
  <2>1. offline \in SUBSET Refs /\ \A q \in offline : q <= nextId
    BY DEF Inv, Agree, SessionsAgree, TypeOK, Counted
  <2>2. ~rolledBack => \A d \in Conns \ {c} : Kicked(c, a)[d].phase = "playing" => Kicked(c, a)[d].actor \notin offline
    BY DEF Inv, Online, Kicked, Closed, At
  <2> QED BY <1>2, <1>3, <1>4, <2>1, <2>2, EnterExistingKeepsInv DEF LogIn
<1>5. CASE EnterFresh(c, a, r, Kicked(c, a), acct)
  <2>1. rolledBack
    BY <1>1, <1>2, <1>5, ConstantsAssumption DEF Inv, Owned, EnterFresh, Live, LogIn, Account, Exists
  <2>2. acct = [acct EXCEPT ![a] = acct[a]]
    BY DEF Inv, Agree, SessionsAgree, TypeOK
  <2> QED BY <1>1, <1>3, <1>5, <2>1, <2>2, EnterFreshKeepsInv DEF LogIn
<1> QED BY <1>2, <1>4, <1>5 DEF LogIn

LEMMA ConfirmPasswordKeepsInv ==
    ASSUME Inv, NEW c \in Conns, ConfirmPassword(c) PROVE Inv'
<1> DEFINE a == sess[c].acct
           new == [chars |-> {}, active |-> NoRef]
           accts == [acct EXCEPT ![a] = new]
<1>1. a \in Accounts /\ new \in Account
  BY DEF Inv, Agree, Placed, ConfirmPassword, Account
<1>2. accts[a] = new /\ accts = [acct EXCEPT ![a] = accts[a]]
  BY <1>1 DEF Inv, Agree, SessionsAgree, TypeOK
<1>3. Others(sess, c, a)
  BY <1>1 DEF Inv, Agree, SessionsAgree, TypeOK, Others, ActiveIsPlayed, Plays, ConfirmPassword
<1>4. EnterFresh(c, a, NoRef, sess, accts) /\ UNCHANGED <<crashes, rolledBack>>
  BY DEF ConfirmPassword
<1> HIDE DEF a, accts
<1> QED BY <1>1, <1>2, <1>3, <1>4, EnterFreshKeepsInv DEF new

LEMMA DisconnectKeepsInv ==
    ASSUME Inv, NEW c \in Conns, Disconnect(c) PROVE Inv'
<1> USE ConstantsAssumption DEF Inv, Agree, SessionsAgree, Disconnect, Closed, At
<1>1. TypeOK'
  BY DEF TypeOK, Session, Phases, Live
<1>2. OnePlaying' /\ ActiveIsPlayed' /\ MenuUnreachable'
  BY DEF OnePlaying, ActiveIsPlayed, MenuUnreachable, Plays, Exists, TypeOK
<1>3. ActiveOwned' /\ Placed'
  BY DEF ActiveOwned, Placed, Exists, TypeOK
<1>4. Counted' /\ Puppets'
  BY DEF Counted, Puppets, Live, TypeOK
<1>5. ~rolledBack => Owned' /\ Online'
  <2> SUFFICES ASSUME ~rolledBack PROVE Owned' /\ Online'
    OBVIOUS
  <2>1. Owned'
    BY DEF Owned, Exists
  <2>2. ASSUME NEW d \in Conns, sess'[d].phase = "playing" PROVE sess'[d].actor \notin offline'
    <3>1. d # c /\ sess'[d] = sess[d]
      BY <2>2 DEF TypeOK
    <3>2. sess[d].actor # sess[c].actor
      <4>1. CASE sess[c].phase = "playing"
        BY <2>2, <3>1, <4>1, Apart
      <4>2. CASE sess[c].phase # "playing"
        <5>1. sess[c].actor = NoRef /\ sess[d].actor \in acct[sess[d].acct].chars
               /\ sess[d].acct \in Accounts /\ Exists(sess[d].acct)
          BY <2>2, <3>1, <4>2, PlaysOwn DEF Placed
        <5>2. sess[d].actor \in Refs
          BY <5>1 DEF TypeOK, Exists, Account
        <5> QED BY <5>1, <5>2 DEF Refs
      <4> QED BY <4>1, <4>2
    <3> QED BY <2>2, <3>1, <3>2 DEF Online
  <2> QED BY <2>1, <2>2 DEF Online
<1> QED BY <1>1, <1>2, <1>3, <1>4, <1>5

LEMMA CharSwitchKeepsInv ==
    ASSUME Inv, NEW c \in Conns, NEW r \in Refs, CharSwitch(c, r) PROVE Inv'
<1> DEFINE a == sess[c].acct
           tagged == offline \cup ({acct[a].active} \cap Live)
<1>1. a \in Accounts /\ Exists(a) /\ r \in acct[a].chars /\ Plays(c, a)
  BY DEF Inv, Agree, Placed, CharSwitch, Plays
<1>2. Others(sess, c, a)
  BY <1>1 DEF Inv, Agree, SessionsAgree, TypeOK, Others, OnePlaying, Plays
<1>3. tagged \in SUBSET Refs /\ \A q \in tagged : q <= nextId
  BY DEF Inv, Agree, SessionsAgree, TypeOK, Counted, Live
<1>4. ~rolledBack => \A d \in Conns \ {c} : sess[d].phase = "playing" => sess[d].actor \notin tagged
  <2> SUFFICES ASSUME ~rolledBack, NEW d \in Conns, d # c, sess[d].phase = "playing"
               PROVE  sess[d].actor \notin tagged
    OBVIOUS
  <2>1. acct[a].active = sess[c].actor
    BY <1>1 DEF Inv, Agree, SessionsAgree, ActiveIsPlayed
  <2>2. sess[c].actor # sess[d].actor
    BY <1>1, Apart DEF Plays
  <2> QED BY <2>1, <2>2 DEF Inv, Online
<1>5. EnterExisting(c, a, r, sess, tagged) /\ UNCHANGED <<crashes, rolledBack>>
  BY DEF CharSwitch
<1> HIDE DEF a, tagged
<1> QED BY <1>1, <1>2, <1>3, <1>4, <1>5, EnterExistingKeepsInv

LEMMA MakeItemKeepsInv ==
    ASSUME Inv, MakeItem PROVE Inv'
<1> USE ConstantsAssumption DEF Inv, Agree, SessionsAgree, MakeItem, AddObject, NextRef
<1>1. NextRef \in Refs /\ NextRef \notin Live /\ nextId \in Nat /\ disk.nextId \in Nat
  BY DEF Refs, Counted, TypeOK, Live, Disk
<1>2. \A q \in Refs : q # NextRef => objs'[q] = objs[q]
  BY DEF TypeOK
<1>3. TypeOK'
  BY <1>1 DEF TypeOK
<1>4. OnePlaying' /\ ActiveIsPlayed' /\ MenuUnreachable'
  BY DEF OnePlaying, ActiveIsPlayed, MenuUnreachable, Plays, Exists
<1>5. ActiveOwned' /\ Placed'
  BY DEF ActiveOwned, Placed, Exists
<1>6. Counted'
  BY <1>1, <1>2 DEF Counted, Live, TypeOK, Refs
<1>7. Puppets'
  BY <1>1, <1>2 DEF Puppets, TypeOK, Session, Refs
<1>8. ~rolledBack => Owned' /\ Online'
  BY <1>1, <1>2 DEF Owned, Online, Exists, Live, TypeOK, Account
<1> QED BY <1>3, <1>4, <1>5, <1>6, <1>7, <1>8

LEMMA DestroyItemKeepsInv ==
    ASSUME Inv, NEW r \in Refs, DestroyItem(r) PROVE Inv'
<1> USE ConstantsAssumption DEF Inv, Agree, SessionsAgree, DestroyItem
<1>1. \A q \in Refs : q # r => objs'[q] = objs[q]
  BY DEF TypeOK
<1>2. TypeOK'
  BY DEF TypeOK
<1>3. OnePlaying' /\ ActiveIsPlayed' /\ MenuUnreachable'
  BY DEF OnePlaying, ActiveIsPlayed, MenuUnreachable, Plays, Exists
<1>4. ActiveOwned' /\ Placed'
  BY DEF ActiveOwned, Placed, Exists
<1>5. Counted'
  BY DEF Counted, Live, TypeOK
<1>6. Puppets'
  BY <1>1 DEF Puppets, TypeOK, Session
<1>7. ~rolledBack => Owned' /\ Online'
  BY <1>1 DEF Owned, Online, Exists, Live, TypeOK, Account
<1> QED BY <1>2, <1>3, <1>4, <1>5, <1>6, <1>7

LEMMA CharCreateKeepsInv ==
    ASSUME Inv, NEW c \in Conns, CharCreate(c) PROVE Inv'
<1> USE ConstantsAssumption DEF Inv, Agree, SessionsAgree, CharCreate, AddObject, NextRef
<1> DEFINE a == sess[c].acct
           more == [chars |-> acct[a].chars \cup {NextRef}, active |-> acct[a].active]
<1>1. a \in Accounts /\ acct[a] \in Account
  BY DEF Placed, TypeOK, Exists
<1>2. /\ NextRef \in Refs /\ NextRef \notin Live /\ NextRef \notin offline
      /\ disk.objs[NextRef] = Nothing /\ nextId \in Nat /\ disk.nextId \in Nat
  BY DEF Refs, Counted, TypeOK, Live, Disk
<1>3. /\ acct' = [acct EXCEPT ![a] = more]
      /\ more \in Account
      /\ \A b \in Accounts \ {a} : acct'[b] = acct[b]
      /\ acct'[a] = more /\ more # NoAccount /\ acct[a] # NoAccount
  <2>1. [acct[a] EXCEPT !.chars = acct[a].chars \cup {NextRef}] = more
    <3> HIDE DEF Inv, CharCreate, AddObject, NextRef, a
    <3> QED BY <1>1 DEF Account, more
  <2>2. more \in Account
    BY <1>1, <1>2 DEF Account
  <2>3. acct' = [acct EXCEPT ![a] = more]
    BY <2>1 DEF TypeOK
  <2>4. more # NoAccount /\ acct[a] # NoAccount
    BY <1>1, <2>2 DEF Account, Refs
  <2> HIDE DEF more
  <2> QED BY <1>1, <2>2, <2>3, <2>4 DEF TypeOK
<1>4. /\ disk'.acct = acct' /\ disk'.objs = disk.objs /\ disk'.nextId = disk.nextId
      /\ disk'.offline = disk.offline /\ disk'.hasWorld = disk.hasWorld
  BY DEF TypeOK, Disk
<1>5. \A q \in Refs : q # NextRef => objs'[q] = objs[q]
  BY DEF TypeOK
<1> HIDE DEF a, more
<1>6. TypeOK'
  <2>1. acct' \in [Accounts -> Account \cup {NoAccount}]
    BY <1>3 DEF TypeOK
  <2>2. disk' \in Disk
    BY <2>1 DEF TypeOK, Disk
  <2> QED BY <1>1, <1>2, <2>1, <2>2 DEF TypeOK, a
<1>7. OnePlaying' /\ MenuUnreachable'
  BY DEF OnePlaying, MenuUnreachable, Plays
<1>8. ActiveIsPlayed'
  <2>1. \A b \in Accounts : acct[b] # NoAccount => acct'[b] # NoAccount /\ acct'[b].active = acct[b].active
    <3>1. acct'[a].active = acct[a].active
      BY <1>3 DEF more
    <3> QED BY <1>3, <3>1
  <2>2. sess' = sess
    OBVIOUS
  <2> QED BY <2>1, <2>2 DEF ActiveIsPlayed, Plays, Exists
<1>9. ActiveOwned' /\ Placed'
  BY <1>3, <1>4, SMTT(60) DEF ActiveOwned, Placed, Exists, more
<1>10. Counted'
  BY <1>2, <1>4, <1>5 DEF Counted, Live, TypeOK, Refs
<1>11. Puppets'
  BY <1>2, <1>5 DEF Puppets, TypeOK, Session, Refs
<1>12. ~rolledBack => Owned' /\ Online'
  <2> SUFFICES ASSUME ~rolledBack, NEW b \in Accounts, acct'[b] # NoAccount
               PROVE  \A q \in acct'[b].chars : objs'[q] = b /\ disk'.objs[q] \in {b, Nothing}
    BY <1>4 DEF Owned, Online, Exists
  <2>1. acct[b] # NoAccount /\ \A q \in acct[b].chars : q \in Refs /\ q # NextRef
    BY <1>2, <1>3 DEF Owned, Exists, TypeOK, Account, Live
  <2>2. \A q \in acct[b].chars : objs'[q] = b /\ disk'.objs[q] \in {b, Nothing}
    BY <1>4, <1>5, <2>1 DEF Owned, Exists
  <2>3. b = a => objs'[NextRef] = b
    BY <1>2 DEF TypeOK, a
  <2>4. \A q \in acct'[b].chars : q \in acct[b].chars \/ (b = a /\ q = NextRef)
    <3>1. CASE b = a
      BY <1>3, <3>1 DEF more
    <3>2. CASE b # a
      BY <1>3, <3>2
    <3> QED BY <3>1, <3>2
  <2> QED BY <1>2, <1>4, <2>2, <2>3, <2>4
<1> QED BY <1>6, <1>7, <1>8, <1>9, <1>10, <1>11, <1>12

LEMMA CharDeleteKeepsInv ==
    ASSUME Inv, NEW c \in Conns, NEW r \in Refs, CharDelete(c, r) PROVE Inv'
<1> USE ConstantsAssumption DEF Inv, Agree, SessionsAgree, CharDelete, MayDelete
<1> DEFINE a == sess[c].acct
           fewer == [chars |-> acct[a].chars \ {r}, active |-> acct[a].active]
<1>1. a \in Accounts /\ acct[a] \in Account
  BY DEF Placed, TypeOK, Exists
<1>2. /\ acct' = [acct EXCEPT ![a] = fewer]
      /\ fewer \in Account
      /\ \A b \in Accounts \ {a} : acct'[b] = acct[b]
      /\ acct'[a] = fewer /\ fewer # NoAccount /\ acct[a] # NoAccount
  <2>1. [acct[a] EXCEPT !.chars = acct[a].chars \ {r}] = fewer
    <3> HIDE DEF Inv, CharDelete, a
    <3> QED BY <1>1 DEF Account, fewer
  <2>2. fewer \in Account
    BY <1>1 DEF Account
  <2>3. acct' = [acct EXCEPT ![a] = fewer]
    BY <2>1 DEF TypeOK
  <2>4. fewer # NoAccount /\ acct[a] # NoAccount
    BY <1>1, <2>2 DEF Account, Refs
  <2> HIDE DEF fewer
  <2> QED BY <1>1, <2>2, <2>3, <2>4 DEF TypeOK
<1>3. /\ disk'.acct = acct' /\ disk'.objs = disk.objs /\ disk'.nextId = disk.nextId
      /\ disk'.offline = disk.offline /\ disk'.hasWorld = disk.hasWorld
  BY DEF TypeOK, Disk
<1>4. objs'[r] = Nothing /\ \A q \in Refs : q # r => objs'[q] = objs[q]
  BY DEF TypeOK
<1>5. r \in acct[a].chars /\ r # acct[a].active
  OBVIOUS
<1> HIDE DEF a, fewer
<1>6. TypeOK'
  <2>1. acct' \in [Accounts -> Account \cup {NoAccount}]
    BY <1>2 DEF TypeOK
  <2>2. disk' \in Disk
    BY <2>1 DEF TypeOK, Disk
  <2> QED BY <2>1, <2>2 DEF TypeOK
<1>7. OnePlaying' /\ MenuUnreachable'
  BY DEF OnePlaying, MenuUnreachable, Plays
<1>8. ActiveIsPlayed'
  BY <1>2 DEF ActiveIsPlayed, Plays, Exists, fewer
<1>9. ActiveOwned' /\ Placed'
  BY <1>2, <1>3, <1>5, SMTT(60) DEF ActiveOwned, Placed, Exists, fewer
<1>10. Counted'
  BY <1>3, <1>4 DEF Counted, Live, TypeOK
<1>11. Puppets'
  BY <1>4 DEF Puppets, TypeOK, Session
<1>12. ~rolledBack => Owned' /\ Online'
  <2> SUFFICES ASSUME ~rolledBack, NEW b \in Accounts, acct'[b] # NoAccount
               PROVE  \A q \in acct'[b].chars : objs'[q] = b /\ disk'.objs[q] \in {b, Nothing}
    BY <1>3 DEF Owned, Online, Exists
  <2>1. acct[b] # NoAccount /\ \A q \in acct[b].chars : q \in Refs /\ objs[q] = b /\ disk.objs[q] \in {b, Nothing}
    BY <1>2 DEF Owned, Exists, TypeOK, Account
  <2>2. objs[r] = a
    BY <1>1, <1>2, <1>5 DEF Owned, Exists
  <2>3. \A q \in acct'[b].chars : q \in acct[b].chars /\ q # r
    BY <1>2, <2>1, <2>2 DEF fewer
  <2> QED BY <1>3, <1>4, <2>1, <2>3
<1> QED BY <1>6, <1>7, <1>8, <1>9, <1>10, <1>11, <1>12

LEMMA SaveKeepsInv ==
    ASSUME Inv, Save PROVE Inv'
<1> USE ConstantsAssumption DEF Inv, Agree, SessionsAgree, Save, world
<1>1. /\ disk'.acct = acct /\ disk'.objs = objs /\ disk'.nextId = nextId
      /\ disk'.offline = offline /\ disk'.hasWorld = TRUE /\ disk' \in Disk
  BY DEF TypeOK, Disk, WorldSaved
<1>2. TypeOK' /\ OnePlaying' /\ ActiveIsPlayed' /\ MenuUnreachable'
  BY <1>1 DEF TypeOK, OnePlaying, ActiveIsPlayed, MenuUnreachable, Plays, Exists
<1>3. ActiveOwned' /\ Placed'
  BY <1>1 DEF ActiveOwned, Placed, Exists
<1>4. Counted' /\ Puppets'
  BY <1>1 DEF Counted, Puppets, Live, TypeOK
<1>5. ~rolledBack => Owned' /\ Online'
  BY <1>1 DEF Owned, Online, Exists
<1> QED BY <1>2, <1>3, <1>4, <1>5

(* A boot, from the database as it is or with the world saved to it.          *)
LEMMA BootKeepsInv ==
    ASSUME Inv, NEW d \in {disk, WorldSaved}, Boot(d) PROVE Inv'
<1> USE ConstantsAssumption
<1>1. /\ d \in Disk /\ d.acct = disk.acct
      /\ \A a \in Accounts : d.acct[a] # NoAccount => d.acct[a].active \in d.acct[a].chars
  BY ZenonT(60) DEF Inv, Agree, SessionsAgree, TypeOK, Disk, WorldSaved, ActiveOwned
<1>2. /\ \A r \in Refs : d.objs[r] # Nothing => r <= d.nextId
      /\ \A r \in d.offline : r <= d.nextId
      /\ ~d.hasWorld => d.objs = NoObjects /\ d.nextId = 0
  <2>1. CASE d = disk
    BY <2>1 DEF Inv, Counted
  <2>2. CASE d = WorldSaved
    <3>1. d.objs = objs /\ d.nextId = nextId /\ d.offline = offline /\ d.hasWorld = TRUE
      BY <2>2 DEF Inv, Agree, SessionsAgree, TypeOK, Disk, WorldSaved
    <3> QED BY <3>1 DEF Inv, Counted, Live
  <2> QED BY <2>1, <2>2
<1>3. ~rolledBack => \A a \in Accounts : d.acct[a] # NoAccount =>
                        \A r \in d.acct[a].chars : d.objs[r] \in {a, Nothing}
  <2>1. d.objs \in {disk.objs, objs}
    BY DEF Inv, Agree, SessionsAgree, TypeOK, Disk, WorldSaved
  <2> QED BY <1>1, <2>1 DEF Inv, Owned, Exists
<1>4. /\ sess' \in [Conns -> Session]
      /\ \A c \in Conns : sess'[c].phase = "closed" /\ sess'[c].actor = NoRef /\ sess'[c].puppet = NoRef
  BY DEF Boot, Closed, At, Session, Phases
<1>5. NoObjects \in [Refs -> Accounts \cup {Nothing, Item}] /\ NoAccounts \in [Accounts -> Account \cup {NoAccount}]
  BY DEF NoObjects, NoAccounts
<1>6. disk' = d
  BY DEF Boot
<1>7. CASE d.hasWorld
  <2>1. objs' = d.objs /\ nextId' = d.nextId /\ offline' = d.offline /\ acct' = d.acct
    BY <1>7 DEF Boot
  <2>2. TypeOK'
    <3>1. rolledBack' \in BOOLEAN
      BY DEF Boot
    <3>2. crashes' \in 0..MaxCrashes
      BY DEF Boot, Inv, Agree, SessionsAgree, TypeOK
    <3>3. d.objs \in [Refs -> Accounts \cup {Nothing, Item}] /\ d.nextId \in 0..MaxRef
          /\ d.offline \subseteq Refs /\ d.acct \in [Accounts -> Account \cup {NoAccount}]
      BY <1>1 DEF Disk
    <3> QED BY <1>1, <1>4, <1>6, <2>1, <3>1, <3>2, <3>3 DEF TypeOK
  <2>3. ActiveOwned' /\ Counted'
    BY <1>1, <1>2, <1>6, <1>7, <2>1, <2>2 DEF ActiveOwned, Counted, Exists, Live, TypeOK
  <2>4. ~rolledBack' => Owned'
    <3>1. ~rolledBack' => ~rolledBack /\ \A a \in Accounts : d.acct[a] # NoAccount =>
                             \A r \in d.acct[a].chars : d.objs[r] # Nothing
      BY DEF Boot
    <3> QED BY <1>3, <1>6, <2>1, <3>1 DEF Owned, Exists
  <2> QED BY <1>4, <2>2, <2>3, <2>4 DEF Inv, Agree, SessionsAgree, OnePlaying, ActiveIsPlayed,
          MenuUnreachable, Plays, Placed, Puppets, Online
<1>8. CASE ~d.hasWorld
  <2>1. objs' = NoObjects /\ nextId' = 0 /\ offline' = {} /\ acct' = NoAccounts
    BY <1>8 DEF Boot
  <2>2. TypeOK'
    <3>1. rolledBack' \in BOOLEAN
      BY DEF Boot
    <3>2. crashes' \in 0..MaxCrashes
      BY DEF Boot, Inv, Agree, SessionsAgree, TypeOK
    <3> QED BY <1>1, <1>4, <1>5, <1>6, <2>1, <3>1, <3>2 DEF TypeOK
  <2>3. ActiveOwned'
    BY <1>1, <1>6, <2>1 DEF ActiveOwned, NoAccounts, Exists
  <2>4. Counted'
    BY <1>1, <1>2, <1>6, <1>8, <2>1 DEF Counted, NoObjects, Live, Disk
  <2>5. ~rolledBack' => Owned'
    <3> SUFFICES ASSUME ~rolledBack', NEW a \in Accounts PROVE d.acct[a] = NoAccount
      BY <1>6, <2>1 DEF Owned, Exists, NoAccounts
    <3>1. d.acct[a] # NoAccount => d.acct[a].active \in Refs
      BY <1>1 DEF Disk, Account
    <3>2. d.acct[a] # NoAccount => d.objs[d.acct[a].active] # Nothing
      BY <1>1 DEF Boot
    <3> QED BY <1>2, <1>8, <3>1, <3>2 DEF NoObjects
  <2> QED BY <1>4, <2>2, <2>3, <2>4, <2>5 DEF Inv, Agree, SessionsAgree, OnePlaying, ActiveIsPlayed,
          MenuUnreachable, Plays, Placed, Puppets, Online
<1> QED BY <1>7, <1>8

-----------------------------------------------------------------------------
(* The messages that only move a connection from prompt to prompt.            *)
Prompts(c) ==
    \/ Connect(c) \/ AskCreate(c) \/ LoginFails(c) \/ ConfirmTaken(c) \/ Unpuppet(c)
    \/ \E a \in Accounts : GiveUsername(c, a) \/ ChooseUsername(c, a)
    \/ \E r \in Refs : Puppet(c, r)

LEMMA PromptsKeepInv ==
    ASSUME Inv, NEW c \in Conns, Prompts(c) PROVE Inv'
<1> USE ConstantsAssumption
<1>1. UNCHANGED <<acct, world, disk, crashes, rolledBack>>
  BY DEF Prompts, Connect, AskCreate, LoginFails, ConfirmTaken, Unpuppet, GiveUsername, ChooseUsername, Puppet
<1>2. sess \in [Conns -> Session] /\ sess[c] \in Session
  BY DEF Inv, Agree, SessionsAgree, TypeOK
<1>3. CASE Connect(c) \/ AskCreate(c) \/ LoginFails(c) \/ ConfirmTaken(c)
  <2>1. PICK phase \in {"username", "create"} : sess' = [sess EXCEPT ![c] = At(phase, NoAccount, NoRef)]
    BY <1>3 DEF Connect, AskCreate, LoginFails, ConfirmTaken
  <2>2. At(phase, NoAccount, NoRef) \in Session
    BY DEF At, Session, Phases
  <2> QED BY <1>1, <2>1, <2>2, SessionStepKeepsInv DEF At
<1>4. ASSUME NEW a \in Accounts, GiveUsername(c, a) \/ ChooseUsername(c, a) PROVE Inv'
  <2>1. PICK phase \in {"password", "confirm"} : sess' = [sess EXCEPT ![c] = At(phase, a, NoRef)]
    BY <1>4 DEF GiveUsername, ChooseUsername
  <2>2. At(phase, a, NoRef) \in Session
    BY DEF At, Session, Phases
  <2> QED BY <1>1, <2>1, <2>2, SessionStepKeepsInv DEF At
<1>5. ASSUME NEW r \in Refs \cup {NoRef}, sess' = [sess EXCEPT ![c].puppet = r],
             r # NoRef => objs[r] = Item /\ sess[c].phase = "playing"
      PROVE  Inv'
  <2> DEFINE x == [sess[c] EXCEPT !.puppet = r]
  <2>1. /\ x \in Session /\ x.phase = sess[c].phase /\ x.acct = sess[c].acct /\ x.actor = sess[c].actor
        /\ x.puppet = r
    BY <1>2 DEF Session
  <2>2. sess' = [sess EXCEPT ![c] = x]
    BY <1>5
  <2>3. x.phase # "select" /\ (x.phase # "playing" => x.actor = NoRef)
        /\ (x.phase \in {"password", "confirm"} => x.acct \in Accounts)
    BY <2>1 DEF Inv, Agree, SessionsAgree, MenuUnreachable, Placed
  <2> HIDE DEF x
  <2> QED BY <1>1, <1>5, <2>1, <2>2, <2>3, SessionStepKeepsInv, ZenonT(60)
<1>6. CASE Unpuppet(c)
  BY <1>5, <1>6 DEF Unpuppet
<1>7. ASSUME NEW r \in Refs, Puppet(c, r) PROVE Inv'
  BY <1>5, <1>7 DEF Puppet
<1> QED BY <1>3, <1>4, <1>6, <1>7 DEF Prompts

LEMMA NextKeepsInv == ASSUME Inv, [Next]_vars PROVE Inv'
<1>1. ASSUME NEW c \in Conns, PasswordAccepted(c) PROVE Inv'
  <2>1. sess[c].acct \in Accounts /\ sess[c].phase # "playing" /\ LogIn(c, sess[c].acct)
    BY <1>1 DEF PasswordAccepted, Inv, Agree, Placed
  <2> QED BY <2>1, LogInKeepsInv
<1>2. ASSUME NEW c \in Conns, NEW a \in Accounts, Reconnect(c, a) PROVE Inv'
  BY <1>2, LogInKeepsInv DEF Reconnect
<1>3. ASSUME NEW c \in Conns, Prompts(c) PROVE Inv'
  BY <1>3, PromptsKeepInv
<1>4. CASE Crash \/ CrashInSave
  BY <1>4, BootKeepsInv DEF Crash, CrashInSave
<1>5. CASE UNCHANGED vars
  BY <1>5 DEF vars, Inv, Agree, SessionsAgree, TypeOK, OnePlaying, ActiveIsPlayed, MenuUnreachable, Plays,
     Exists, ActiveOwned, Placed, Counted, Live, Puppets, Owned, Online
<1> QED BY <1>1, <1>2, <1>3, <1>4, <1>5, ConfirmPasswordKeepsInv, DisconnectKeepsInv, CharCreateKeepsInv,
       CharSwitchKeepsInv, CharDeleteKeepsInv, MakeItemKeepsInv, DestroyItemKeepsInv, SaveKeepsInv
    DEF Next, Message, Prompts

LEMMA Invariance == Spec => []Inv
BY InitInv, NextKeepsInv, PTL DEF Spec

-----------------------------------------------------------------------------
(* One session per account, playing the active character, and no login ends   *)
(* in the character menu, in any order of messages and crashes.               *)
THEOREM SessionsAndAccountsAgree == Spec => []SessionsAgree
<1>1. Inv => SessionsAgree
  BY DEF Inv, Agree
<1> QED BY <1>1, Invariance, PTL

(* Unless a boot found accounts ahead of the world, whoever plays plays and   *)
(* drives nobody's character but his own.                                     *)
THEOREM CharactersAreOnesOwn == Spec => []OwnUnlessRolledBack
<1>1. ASSUME Inv PROVE OwnUnlessRolledBack
  <2> SUFFICES ASSUME ~rolledBack, NEW c \in Conns, NEW a \in Accounts, Plays(c, a)
               PROVE  /\ objs[sess[c].actor] = a
                      /\ \A b \in Accounts \ {a} : Exists(b) => sess[c].actor \notin acct[b].chars
                      /\ \A b \in Accounts : Exists(b) => EffectiveActor(c) \notin acct[b].chars \ {sess[c].actor}
    BY DEF OwnUnlessRolledBack, PlaysOwnCharacter
  <2>1. objs[sess[c].actor] = a
    BY <1>1, PlaysOwn DEF Plays
  <2>2. \A b \in Accounts : Exists(b) => \A r \in acct[b].chars : objs[r] = b
    BY <1>1 DEF Inv, Owned
  <2>3. sess[c].puppet # NoRef => objs[sess[c].puppet] \in {Item, Nothing}
    BY <1>1 DEF Inv, Puppets
  <2> QED BY <2>1, <2>2, <2>3, ConstantsAssumption DEF EffectiveActor
<1> QED BY <1>1, Invariance, PTL

-----------------------------------------------------------------------------
(* Who has left: every step that ends a session's play of a character tags it,*)
(* or somebody plays it at once, or it is gone.                               *)

(* What was ever played was handed out before: no new object takes its place. *)
Handed == left \cup Played \subseteq {r \in Refs : r <= nextId}
Away == Handed /\ LeftIsOffline

(* What a message does to the tags of a world.                                *)
TagsFollow ==
    /\ nextId' \in Nat /\ nextId <= nextId'
    /\ \A r \in Live' \ Live : r > nextId
    /\ \A r \in (offline \cup Played) \cap Live' : r \in Live => r \in offline' \cup Played'
    /\ \A r \in Played' : r \in Played \/ (r \in Refs /\ r <= nextId')

LEMMA TagsKeepAway ==
    ASSUME Inv, Away, TagsFollow, left' = (left \cup Played) \ Played' PROVE Away'
<1>1. nextId \in Nat /\ Refs \subseteq Nat /\ Live' \subseteq Refs
  BY ConstantsAssumption DEF Inv, Agree, SessionsAgree, TypeOK, Live, Refs
<1>2. LeftIsOffline'
  <2> SUFFICES ASSUME NEW r \in left \cup Played, r \notin Played', r \in Live' PROVE r \in offline'
    BY DEF LeftIsOffline
  <2>1. r \in Refs /\ r <= nextId
    BY DEF Away, Handed
  <2>2. r \in Live
    BY <1>1, <2>1 DEF TagsFollow
  <2> QED BY <2>2 DEF Away, LeftIsOffline, TagsFollow
<1>3. Handed'
  <2> SUFFICES ASSUME NEW r \in left \cup Played PROVE r \in Refs /\ r <= nextId'
    BY DEF Handed, TagsFollow
  <2>1. r \in Refs /\ r <= nextId
    BY DEF Away, Handed
  <2>2. nextId <= nextId' /\ nextId' \in Nat
    BY DEF TagsFollow
  <2> QED BY <1>1, <2>1, <2>2
<1> QED BY <1>2, <1>3 DEF Away

LEMMA PlayedIs ==
    \A r : r \in Played <=> \E c \in Conns : sess[c].phase = "playing" /\ r = sess[c].actor
BY DEF Played

LEMMA PlayedWillBe ==
    \A r : r \in Played' <=> \E c \in Conns : sess'[c].phase = "playing" /\ r = sess'[c].actor
BY DEF Played

(* Nobody comes or goes, and no object is made.                               *)
LEMMA SamePlayersTag ==
    ASSUME Inv, Played' = Played, nextId' = nextId, Live' \subseteq Live,
           \A r \in offline : r \in offline' \/ r \notin Live'
    PROVE  TagsFollow
BY ConstantsAssumption DEF TagsFollow, Inv, Agree, SessionsAgree, TypeOK

LEMMA AddObjectTags ==
    ASSUME Inv, NEW what, AddObject(what), UNCHANGED <<sess, offline>> PROVE TagsFollow
<1>1. nextId \in Nat /\ nextId' = nextId + 1 /\ Played' = Played
  BY ConstantsAssumption DEF Inv, Agree, SessionsAgree, TypeOK, AddObject, Played
<1>2. \A r \in Live' \ Live : r = nextId + 1
  BY DEF AddObject, NextRef, Live, Inv, Agree, SessionsAgree, TypeOK
<1> QED BY <1>1, <1>2 DEF TagsFollow

LEMMA DisconnectTags ==
    ASSUME Inv, NEW c \in Conns, Disconnect(c) PROVE TagsFollow
<1>1. nextId \in Nat /\ nextId' = nextId /\ Live' = Live /\ offline' = offline \cup ({sess[c].actor} \cap Live)
  BY ConstantsAssumption DEF Inv, Agree, SessionsAgree, TypeOK, Disconnect, Live
<1>2. sess' = [sess EXCEPT ![c] = Closed] /\ sess \in [Conns -> Session]
  BY DEF Inv, Agree, SessionsAgree, TypeOK, Disconnect
<1>3. Played' \subseteq Played
  BY <1>2, PlayedIs, PlayedWillBe DEF Closed, At
<1>4. \A r \in Played : r \in Played' \/ r = sess[c].actor
  BY <1>2, PlayedIs, PlayedWillBe
<1> QED BY <1>1, <1>3, <1>4 DEF TagsFollow

(* Who is moved out of the way when c comes to play r had that character or   *)
(* is tagged.                                                                 *)
LEMMA EnterExistingTags ==
    ASSUME Inv, NEW c \in Conns, NEW a, NEW r, NEW s, NEW tagged, offline \subseteq tagged,
           \A d \in Conns : sess[d].phase = "playing" /\ (d = c \/ s[d] # sess[d]) =>
               sess[d].actor \in tagged \cup {r} \/ sess[d].actor \notin Live,
           \A d \in Conns : s[d] \in {sess[d], Closed},
           s \in [Conns -> Session],
           EnterExisting(c, a, r, s, tagged)
    PROVE  TagsFollow
<1>1. /\ nextId \in Nat /\ nextId' = nextId /\ Live' = Live /\ offline' = tagged \ {r}
      /\ r \in Refs /\ r <= nextId
  BY ConstantsAssumption DEF Inv, Agree, SessionsAgree, TypeOK, EnterExisting, Live, Untagged, Counted
<1>2. sess' = [s EXCEPT ![c] = At("playing", a, r)]
  BY DEF EnterExisting
<1>3. r \in Played'
  BY <1>2, PlayedWillBe DEF At
<1>4. \A q \in Played' : q \in Played \/ q = r
  BY <1>2, PlayedIs, PlayedWillBe DEF At, Closed
<1>5. \A q \in Played \cap Live : q \in Played' \/ q \in tagged \cup {r}
  <2> SUFFICES ASSUME NEW d \in Conns, sess[d].phase = "playing", sess[d].actor \in Live
               PROVE  sess[d].actor \in Played' \/ sess[d].actor \in tagged \cup {r}
    BY PlayedIs
  <2>1. CASE d = c \/ s[d] # sess[d]
    BY <2>1
  <2>2. CASE d # c /\ s[d] = sess[d]
    BY <1>2, <2>2, PlayedWillBe
  <2> QED BY <2>1, <2>2
<1> QED BY <1>1, <1>3, <1>4, <1>5 DEF TagsFollow

LEMMA EnterFreshTags ==
    ASSUME Inv, NEW c \in Conns, sess[c].phase # "playing", NEW a, NEW r, NEW s, NEW accts,
           \A d \in Conns : sess[d].phase = "playing" /\ s[d] # sess[d] => sess[d].actor \notin Live,
           \A d \in Conns : s[d] \in {sess[d], Closed},
           s \in [Conns -> Session],
           EnterFresh(c, a, r, s, accts)
    PROVE  TagsFollow
<1>1. /\ nextId \in Nat /\ nextId' = nextId + 1 /\ NextRef = nextId + 1 /\ NextRef \in Refs
      /\ offline' = offline
  BY ConstantsAssumption DEF Inv, Agree, SessionsAgree, TypeOK, EnterFresh, AddObject, NextRef, Refs
<1>2. \A q \in Live' \ Live : q = nextId + 1
  BY DEF EnterFresh, AddObject, NextRef, Live, Inv, Agree, SessionsAgree, TypeOK
<1>3. sess' = [s EXCEPT ![c] = At("playing", a, NextRef)]
  BY DEF EnterFresh
<1>4. \A q \in Played' : q \in Played \/ q = NextRef
  BY <1>3, PlayedIs, PlayedWillBe DEF At, Closed
<1>5. \A q \in Played \cap Live : q \in Played'
  <2> SUFFICES ASSUME NEW d \in Conns, sess[d].phase = "playing", sess[d].actor \in Live
               PROVE  sess[d].actor \in Played'
    BY PlayedIs
  <2>1. d # c /\ s[d] = sess[d]
    OBVIOUS
  <2> QED BY <1>3, <2>1, PlayedWillBe
<1> QED BY <1>1, <1>2, <1>4, <1>5 DEF TagsFollow

(* A login goes to the active character, which is whom the kicked one played. *)
LEMMA LogInTags ==
    ASSUME Inv, NEW c \in Conns, NEW a \in Accounts, LogIn(c, a), sess[c].phase # "playing"
    PROVE  TagsFollow
<1> DEFINE r == ChosenCharacter(a)
           s == Kicked(c, a)
<1>1. acct[a] \in Account /\ acct[a].active \in acct[a].chars
  BY DEF Inv, Agree, SessionsAgree, ActiveOwned, LogIn, TypeOK, Exists
<1>2. r = acct[a].active /\ ~OffersMenu(a)
  <2>1. acct[a].chars \subseteq 1..MaxRef
    BY <1>1 DEF Account, Refs
  <2>2. IsFiniteSet(acct[a].chars)
    <3>1. IsFiniteSet(1..MaxRef)
      BY FS_Interval, ConstantsAssumption
    <3> QED BY <2>1, <3>1, FS_Subset
  <2>3. Cardinality(acct[a].chars) = 1 => \E x : acct[a].chars = {x}
    BY <2>2, FS_Singleton
  <2> QED BY <1>1, <2>3 DEF ChosenCharacter, OffersMenu
<1>3. /\ s \in [Conns -> Session]
      /\ \A d \in Conns : s[d] \in {sess[d], Closed}
      /\ \A d \in Conns : s[d] # sess[d] => Plays(d, a)
  BY DEF Kicked, Inv, Agree, SessionsAgree, TypeOK, Closed, At, Session, Phases
<1>4. \A d \in Conns : s[d] # sess[d] => sess[d].actor = r
  BY <1>2, <1>3 DEF Inv, Agree, SessionsAgree, ActiveIsPlayed
<1> HIDE DEF r, s
<1>5. CASE EnterExisting(c, a, r, s, offline)
  BY <1>3, <1>4, <1>5, EnterExistingTags
<1>6. CASE EnterFresh(c, a, r, s, acct)
  <2>1. r \notin Live
    BY <1>6 DEF EnterFresh
  <2> QED BY <1>3, <1>4, <1>6, <2>1, EnterFreshTags
<1> QED BY <1>2, <1>5, <1>6 DEF LogIn, r, s

LEMMA CharSwitchTags ==
    ASSUME Inv, NEW c \in Conns, NEW r \in Refs, CharSwitch(c, r) PROVE TagsFollow
<1> DEFINE a == sess[c].acct
           tagged == offline \cup ({acct[a].active} \cap Live)
<1>1. EnterExisting(c, a, r, sess, tagged)
  BY DEF CharSwitch
<1>2. sess[c].actor = acct[a].active
  BY DEF CharSwitch, Inv, Agree, SessionsAgree, ActiveIsPlayed, Placed, Plays
<1>3. sess[c].actor \in tagged \/ sess[c].actor \notin Live
  BY <1>2
<1>4. sess \in [Conns -> Session]
  BY DEF Inv, Agree, SessionsAgree, TypeOK
<1>5. offline \subseteq tagged
  OBVIOUS
<1> HIDE DEF a, tagged
<1> QED BY <1>1, <1>3, <1>4, <1>5, EnterExistingTags

LEMMA PromptsTag ==
    ASSUME Inv, NEW c \in Conns, Prompts(c) PROVE TagsFollow
<1>1. UNCHANGED world
  BY DEF Prompts, Connect, AskCreate, LoginFails, ConfirmTaken, Unpuppet, GiveUsername, ChooseUsername, Puppet
<1>2. sess \in [Conns -> Session]
  BY DEF Inv, Agree, SessionsAgree, TypeOK
<1>3. PICK x : sess' = [sess EXCEPT ![c] = x] /\ (x.phase = "playing" <=> sess[c].phase = "playing")
                /\ (x.phase = "playing" => x.actor = sess[c].actor)
  <2>1. CASE Connect(c) \/ AskCreate(c) \/ LoginFails(c) \/ ConfirmTaken(c)
    BY <2>1 DEF Connect, AskCreate, LoginFails, ConfirmTaken, At
  <2>2. CASE \E a \in Accounts : GiveUsername(c, a) \/ ChooseUsername(c, a)
    BY <2>2 DEF GiveUsername, ChooseUsername, At
  <2>3. ASSUME NEW q, sess' = [sess EXCEPT ![c].puppet = q]
        PROVE  \E x : sess' = [sess EXCEPT ![c] = x] /\ (x.phase = "playing" <=> sess[c].phase = "playing")
                      /\ (x.phase = "playing" => x.actor = sess[c].actor)
    <3>1. sess' = [sess EXCEPT ![c] = [sess[c] EXCEPT !.puppet = q]]
      BY <2>3
    <3>2. [sess[c] EXCEPT !.puppet = q].phase = sess[c].phase /\ [sess[c] EXCEPT !.puppet = q].actor = sess[c].actor
      BY <1>2 DEF Session
    <3> QED BY <3>1, <3>2
  <2>4. CASE Unpuppet(c)
    BY <2>3, <2>4 DEF Unpuppet
  <2>5. ASSUME NEW q \in Refs, Puppet(c, q) PROVE sess' = [sess EXCEPT ![c].puppet = q]
    BY <2>5 DEF Puppet
  <2> QED BY <2>1, <2>2, <2>3, <2>4, <2>5 DEF Prompts
<1>4. Played' = Played
  <2>1. \A q : q \in Played' <=> q \in Played
    BY <1>2, <1>3, PlayedIs, PlayedWillBe
  <2> QED BY <2>1
<1>5. Live' = Live /\ nextId' = nextId /\ offline' = offline
  BY <1>1 DEF world, Live
<1> QED BY <1>4, <1>5, SamePlayersTag

LEMMA MessagesTag ==
    ASSUME Inv, Message PROVE TagsFollow
<1>1. ASSUME NEW c \in Conns, PasswordAccepted(c) PROVE TagsFollow
  <2>1. sess[c].acct \in Accounts /\ sess[c].phase # "playing" /\ LogIn(c, sess[c].acct)
    BY <1>1 DEF PasswordAccepted, Inv, Agree, Placed
  <2> QED BY <2>1, LogInTags
<1>2. ASSUME NEW c \in Conns, NEW a \in Accounts, Reconnect(c, a) PROVE TagsFollow
  BY <1>2, LogInTags DEF Reconnect
<1>3. ASSUME NEW c \in Conns, ConfirmPassword(c) PROVE TagsFollow
  <2> DEFINE a == sess[c].acct
             accts == [acct EXCEPT ![a] = [chars |-> {}, active |-> NoRef]]
  <2>1. EnterFresh(c, a, NoRef, sess, accts) /\ sess[c].phase # "playing"
    BY <1>3 DEF ConfirmPassword
  <2>2. sess \in [Conns -> Session]
    BY DEF Inv, Agree, SessionsAgree, TypeOK
  <2> HIDE DEF a, accts
  <2> QED BY <2>1, <2>2, EnterFreshTags
<1>4. ASSUME NEW c \in Conns, CharCreate(c) PROVE TagsFollow
  BY <1>4, AddObjectTags DEF CharCreate
<1>5. CASE MakeItem
  BY <1>5, AddObjectTags DEF MakeItem
<1>6. ASSUME NEW r \in Refs, objs' = [objs EXCEPT ![r] = Nothing], offline' = offline \ {r},
             UNCHANGED <<sess, nextId>>
      PROVE  TagsFollow
  <2>1. Played' = Played
    BY <1>6 DEF Played
  <2>2. Live' \subseteq Live /\ r \notin Live'
    BY <1>6 DEF Live, Inv, Agree, SessionsAgree, TypeOK
  <2> QED BY <1>6, <2>1, <2>2, SamePlayersTag
<1>7. ASSUME NEW r \in Refs, DestroyItem(r) \/ \E c \in Conns : CharDelete(c, r) PROVE TagsFollow
  BY <1>6, <1>7 DEF DestroyItem, CharDelete
<1>8. CASE Save
  <2>1. Played' = Played /\ Live' = Live /\ nextId' = nextId /\ offline' = offline
    BY <1>8 DEF Save, world, Played, Live
  <2> QED BY <2>1, SamePlayersTag
<1> QED BY <1>1, <1>2, <1>3, <1>4, <1>5, <1>7, <1>8, PromptsTag, DisconnectTags, CharSwitchTags DEF Message, Prompts

LEMMA AwayInit == Init => Away
BY DEF Init, Away, Handed, LeftIsOffline, Played, Closed, At

LEMMA AwayStep == ASSUME Inv, Away, [Next]_vars PROVE Away'
<1>1. CASE Message /\ left' = (left \cup Played) \ Played'
  BY <1>1, MessagesTag, TagsKeepAway
<1>2. CASE (Crash \/ CrashInSave) /\ left' = {}
  <2>1. \A c \in Conns : sess'[c].phase = "closed"
    BY <1>2 DEF Crash, CrashInSave, Boot, Closed, At
  <2>2. Played' = {}
    BY <2>1, PlayedWillBe
  <2> QED BY <1>2, <2>2 DEF Away, Handed, LeftIsOffline
<1>3. CASE UNCHANGED vars
  BY <1>3 DEF vars, Away, Handed, LeftIsOffline, Played, Live
<1> QED BY <1>1, <1>2, <1>3 DEF Next

(* The tag of those who are offline is on nobody who plays, unless accounts   *)
(* came to share a character, and on everybody who has left, by disconnect,   *)
(* switch or kick (handle_disconnect, cmd_charswitch, enter_world).           *)
THEOREM PlayersShownOnline == Spec => []OfflineTagsRight
<1>1. Inv => PlayedIsOnline
  BY PlayedIs DEF Inv, Online, PlayedIsOnline
<1>2. Spec => []Away
  BY Invariance, AwayInit, AwayStep, PTL DEF Spec
<1>3. Away => LeftIsOffline
  BY DEF Away
<1> QED BY <1>1, <1>2, <1>3, Invariance, PTL DEF OfflineTagsRight
=============================================================================
