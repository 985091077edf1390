------------------------------ MODULE Sessions ------------------------------
(***************************************************************************)
(* Connections, accounts and characters (src/src/engine/mod.rs, from       *)
(* handle_connect to enter_world, and the @char commands; accounts.rs),    *)
(* with what of them is on disk.  Accounts are written whenever one gains  *)
(* or loses a character; the world, characters included, only by do_save,  *)
(* which writes it in a transaction of its own before the accounts.        *)
(* Each action is one message of one connection, handled to its end.       *)
(***************************************************************************)
EXTENDS Naturals, FiniteSets

CONSTANTS
    Conns,          \* connections; one may be closed and opened again
    Accounts,       \* user names
    MaxRef,         \* bound on the dbrefs handed out
    MaxCharacters,  \* max_characters
    MaxCrashes,     \* bound on the crashes
    NoAccount, NoRef, Nothing, Item

ASSUME ConstantsAssumption ==
    /\ MaxRef \in Nat /\ MaxCharacters \in Nat /\ MaxCrashes \in Nat
    /\ NoRef \notin 1..MaxRef
    /\ {Nothing, Item} \cap Accounts = {}
    /\ Nothing # Item
    /\ NoAccount \notin Accounts
    /\ NoAccount \notin [chars : SUBSET (1..MaxRef), active : (1..MaxRef) \cup {NoRef}]

Refs == 1..MaxRef

VARIABLES
    sess,       \* Engine::sessions: phase, account or name asked for, character, puppet
    acct,       \* AccountStore: characters and active_character of each account
    objs,       \* World::objects: Nothing, Item (any other kind), or the account a player was made for
    nextId,     \* World::next_id
    offline,    \* objects tagged system:offline
    disk,       \* the database
    crashes,    \* number of crashes so far
    rolledBack, \* history: some boot found accounts ahead of the world in the database
    left        \* history: whom a session has played since the boot and none plays now

vars == <<sess, acct, objs, nextId, offline, disk, crashes, rolledBack, left>>
world == <<objs, nextId, offline>>

Account == [chars : SUBSET Refs, active : Refs \cup {NoRef}]
Phases == {"closed", "username", "password", "create", "confirm", "select", "playing"}
Session ==
    [phase : Phases, acct : Accounts \cup {NoAccount}, actor : Refs \cup {NoRef}, puppet : Refs \cup {NoRef}]
Disk == [objs : [Refs -> Accounts \cup {Nothing, Item}], nextId : 0..MaxRef,
         offline : SUBSET Refs, acct : [Accounts -> Account \cup {NoAccount}],
         hasWorld : BOOLEAN]

At(phase, a, r) == [phase |-> phase, acct |-> a, actor |-> r, puppet |-> NoRef]
Closed == At("closed", NoAccount, NoRef)
Exists(a) == acct[a] # NoAccount
Live == {r \in Refs : objs[r] # Nothing}
Plays(c, a) == sess[c].phase = "playing" /\ sess[c].acct = a
Played == {sess[c].actor : c \in {d \in Conns : sess[d].phase = "playing"}}
EffectiveActor(c) == IF sess[c].puppet # NoRef THEN sess[c].puppet ELSE sess[c].actor
NoObjects == [r \in Refs |-> Nothing]
NoAccounts == [a \in Accounts |-> NoAccount]

Init ==
    /\ sess = [c \in Conns |-> Closed]
    /\ acct = NoAccounts
    /\ objs = NoObjects
    /\ nextId = 0
    /\ offline = {}
    /\ disk = [objs |-> NoObjects, nextId |-> 0, offline |-> {}, acct |-> NoAccounts,
               hasWorld |-> FALSE]
    /\ crashes = 0
    /\ rolledBack = FALSE
    /\ left = {}

-----------------------------------------------------------------------------
NextRef == nextId + 1

(* World::next_dbref and add_object *)
AddObject(what) ==
    /\ NextRef <= MaxRef
    /\ nextId' = nextId + 1
    /\ objs' = [objs EXCEPT ![NextRef] = what]

Entered(account, r) == [chars |-> account.chars \cup {r}, active |-> r]

(* Mutant: the tag stays. *)
Untagged_Forgotten(tagged, r) == tagged
Untagged(tagged, r) == tagged \ {r}

(* enter_world with a character_ref that resolves: the account is not saved.  *)
EnterExisting(c, a, r, s, tagged) ==
    /\ r \in Live
    /\ acct' = [acct EXCEPT ![a] = Entered(@, r)]
    /\ offline' = Untagged(tagged, r)
    /\ sess' = [s EXCEPT ![c] = At("playing", a, r)]
    /\ UNCHANGED <<objs, nextId, disk>>

(* enter_world without one, or with one that does not resolve: a new player   *)
(* joins the others of the account, and the accounts are saved.               *)
EnterFresh(c, a, r, s, accts) ==
    /\ r \notin Live
    /\ AddObject(a)
    /\ acct' = [accts EXCEPT ![a] = Entered(@, NextRef)]
    /\ disk' = [disk EXCEPT !.acct = acct']
    /\ sess' = [s EXCEPT ![c] = At("playing", a, NextRef)]
    /\ UNCHANGED offline

-----------------------------------------------------------------------------
(* Logging in *)

Connect(c) ==
    /\ sess[c].phase = "closed"
    /\ sess' = [sess EXCEPT ![c] = At("username", NoAccount, NoRef)]
    /\ UNCHANGED <<acct, world, disk, crashes, rolledBack>>

(* handle_login_username: any name, known or not; or "create" *)
GiveUsername(c, a) ==
    /\ sess[c].phase = "username"
    /\ sess' = [sess EXCEPT ![c] = At("password", a, NoRef)]
    /\ UNCHANGED <<acct, world, disk, crashes, rolledBack>>

AskCreate(c) ==
    /\ sess[c].phase = "username"
    /\ sess' = [sess EXCEPT ![c] = At("create", NoAccount, NoRef)]
    /\ UNCHANGED <<acct, world, disk, crashes, rolledBack>>

(* handle_login_password: a wrong password, or too many of them before.       *)
LoginFails(c) ==
    /\ sess[c].phase = "password"
    /\ sess' = [sess EXCEPT ![c] = At("username", NoAccount, NoRef)]
    /\ UNCHANGED <<acct, world, disk, crashes, rolledBack>>

(* Mutant: the other sessions of the account are left alone. *)
Kicked_None(c, a) == sess
(* The sessions after those playing the account elsewhere are removed; they   *)
(* are not disconnected: no hook, no offline tag.                             *)
Kicked(c, a) == [d \in Conns |-> IF d # c /\ Plays(d, a) THEN Closed ELSE sess[d]]

(* Which character a login enters: none or one leave no choice, several go    *)
(* to the active one, if it is among them, else to the menu.                  *)
OffersMenu(a) == Cardinality(acct[a].chars) > 1 /\ acct[a].active \notin acct[a].chars
ChosenCharacter(a) ==
    CASE acct[a].chars = {} -> NoRef
      [] Cardinality(acct[a].chars) = 1 -> CHOOSE r \in acct[a].chars : TRUE
      [] OTHER -> acct[a].active

LogIn(c, a) ==
    /\ Exists(a)
    /\ UNCHANGED <<crashes, rolledBack>>
    /\ IF OffersMenu(a)
         THEN /\ sess' = [Kicked(c, a) EXCEPT ![c] = At("select", a, NoRef)]
              /\ UNCHANGED <<acct, world, disk>>
         ELSE LET r == ChosenCharacter(a) IN
              \/ EnterExisting(c, a, r, Kicked(c, a), offline)
              \/ EnterFresh(c, a, r, Kicked(c, a), acct)

PasswordAccepted(c) ==
    /\ sess[c].phase = "password"
    /\ LogIn(c, sess[c].acct)

(* handle_token_reconnect, with a token that enter_world issued.  It kicks    *)
(* the other sessions of the account before it looks at the characters.       *)
Reconnect(c, a) ==
    /\ sess[c].phase = "username"
    /\ Exists(a) /\ acct[a].chars # {}
    /\ LogIn(c, a)

-----------------------------------------------------------------------------
(* Creating an account *)

ChooseUsername(c, a) ==
    /\ sess[c].phase = "create"
    /\ ~Exists(a)
    /\ sess' = [sess EXCEPT ![c] = At("confirm", a, NoRef)]
    /\ UNCHANGED <<acct, world, disk, crashes, rolledBack>>

(* handle_confirm_password: AccountStore::create looks at the name again.     *)
ConfirmPassword(c) ==
    LET a == sess[c].acct IN
    /\ sess[c].phase = "confirm"
    /\ ~Exists(a)
    /\ EnterFresh(c, a, NoRef, sess, [acct EXCEPT ![a] = [chars |-> {}, active |-> NoRef]])
    /\ UNCHANGED <<crashes, rolledBack>>

ConfirmTaken(c) ==
    /\ sess[c].phase = "confirm"
    /\ Exists(sess[c].acct)
    /\ sess' = [sess EXCEPT ![c] = At("create", NoAccount, NoRef)]
    /\ UNCHANGED <<acct, world, disk, crashes, rolledBack>>

-----------------------------------------------------------------------------
(* Playing *)

(* handle_disconnect: quit, a closed connection, or @boot by somebody else.   *)
Disconnect(c) ==
    /\ sess[c].phase # "closed"
    /\ offline' = offline \cup ({sess[c].actor} \cap Live)
    /\ sess' = [sess EXCEPT ![c] = Closed]
    /\ UNCHANGED <<acct, objs, nextId, disk, crashes, rolledBack>>

CharCreate(c) ==
    LET a == sess[c].acct IN
    /\ sess[c].phase = "playing"
    /\ Exists(a)
    /\ Cardinality(acct[a].chars) < MaxCharacters
    /\ AddObject(a)
    /\ acct' = [acct EXCEPT ![a].chars = @ \cup {NextRef}]
    /\ disk' = [disk EXCEPT !.acct = acct']
    /\ UNCHANGED <<sess, offline, crashes, rolledBack>>

(* @charswitch: what goes offline is the account's active character.          *)
CharSwitch(c, r) ==
    LET a == sess[c].acct IN
    /\ sess[c].phase = "playing"
    /\ Exists(a)
    /\ r \in acct[a].chars \cap Live
    /\ r # acct[a].active
    /\ EnterExisting(c, a, r, sess, offline \cup ({acct[a].active} \cap Live))
    /\ UNCHANGED <<crashes, rolledBack>>

(* Mutant: any character may be deleted. *)
MayDelete_Any(a, r) == TRUE
MayDelete(a, r) == r # acct[a].active

(* @chardelete: the character goes from the account and from the world; only  *)
(* the accounts are saved.                                                    *)
CharDelete(c, r) ==
    LET a == sess[c].acct IN
    /\ sess[c].phase = "playing"
    /\ Exists(a)
    /\ r \in acct[a].chars \cap Live
    /\ MayDelete(a, r)
    /\ acct' = [acct EXCEPT ![a].chars = @ \ {r}]
    /\ objs' = [objs EXCEPT ![r] = Nothing]
    /\ offline' = offline \ {r}
    /\ disk' = [disk EXCEPT !.acct = acct']
    /\ UNCHANGED <<sess, nextId, crashes, rolledBack>>

(* @puppet: whether the account may is for its scopes and the owner to say,   *)
(* at this moment and never again.  Nothing releases a puppet that goes.      *)
Puppet(c, r) ==
    /\ sess[c].phase = "playing"
    /\ objs[r] = Item
    /\ sess' = [sess EXCEPT ![c].puppet = r]
    /\ UNCHANGED <<acct, world, disk, crashes, rolledBack>>

Unpuppet(c) ==
    /\ sess[c].puppet # NoRef
    /\ sess' = [sess EXCEPT ![c].puppet = NoRef]
    /\ UNCHANGED <<acct, world, disk, crashes, rolledBack>>

(* A builder, or a script, makes or destroys an object that is no player.     *)
MakeItem ==
    /\ AddObject(Item)
    /\ UNCHANGED <<sess, acct, offline, disk, crashes, rolledBack>>

DestroyItem(r) ==
    /\ objs[r] = Item
    /\ objs' = [objs EXCEPT ![r] = Nothing]
    /\ offline' = offline \ {r}
    /\ UNCHANGED <<sess, acct, nextId, disk, crashes, rolledBack>>

-----------------------------------------------------------------------------
(* Saving and booting *)

WorldSaved == [disk EXCEPT !.objs = objs, !.nextId = nextId, !.offline = offline,
                           !.hasWorld = TRUE]

(* do_save: the world, then the accounts. *)
Save ==
    /\ disk' = [WorldSaved EXCEPT !.acct = acct]
    /\ UNCHANGED <<sess, acct, world, crashes, rolledBack>>

(* Engine::new on what the disk holds.  Without objects in the database the   *)
(* accounts in it are not loaded either.                                      *)
Boot(d) ==
    /\ crashes < MaxCrashes
    /\ crashes' = crashes + 1
    /\ sess' = [c \in Conns |-> Closed]
    /\ disk' = d
    /\ objs' = IF d.hasWorld THEN d.objs ELSE NoObjects
    /\ nextId' = IF d.hasWorld THEN d.nextId ELSE 0
    /\ offline' = IF d.hasWorld THEN d.offline ELSE {}
    /\ acct' = IF d.hasWorld THEN d.acct ELSE NoAccounts
    /\ rolledBack' = (rolledBack \/ \E a \in Accounts :
                        d.acct[a] # NoAccount /\ \E r \in d.acct[a].chars : d.objs[r] = Nothing)

(* The process ends between two messages, or between the two transactions.    *)
Crash == Boot(disk)
CrashInSave == Boot(WorldSaved)

Message ==
    \/ \E c \in Conns :
        \/ Connect(c) \/ AskCreate(c) \/ LoginFails(c) \/ PasswordAccepted(c)
        \/ ConfirmPassword(c) \/ ConfirmTaken(c) \/ Disconnect(c) \/ CharCreate(c)
        \/ Unpuppet(c)
        \/ \E a \in Accounts : GiveUsername(c, a) \/ Reconnect(c, a) \/ ChooseUsername(c, a)
        \/ \E r \in Refs : CharSwitch(c, r) \/ CharDelete(c, r) \/ Puppet(c, r)
    \/ MakeItem
    \/ \E r \in Refs : DestroyItem(r)
    \/ Save

Next ==
    \/ Message /\ left' = (left \cup Played) \ Played'
    \/ (Crash \/ CrashInSave) /\ left' = {}

Spec == Init /\ [][Next]_vars

-----------------------------------------------------------------------------
TypeOK ==
    /\ sess \in [Conns -> Session]
    /\ acct \in [Accounts -> Account \cup {NoAccount}]
    /\ objs \in [Refs -> Accounts \cup {Nothing, Item}]
    /\ nextId \in 0..MaxRef
    /\ offline \subseteq Refs
    /\ disk \in Disk
    /\ crashes \in 0..MaxCrashes
    /\ rolledBack \in BOOLEAN

(* CONTEXT.md: an account "may own several [characters] and plays one at a    *)
(* time".  Two connections never play one account, whichever way they got in. *)
OnePlaying == \A c, d \in Conns, a \in Accounts : Plays(c, a) /\ Plays(d, a) => c = d

(* The active character of an account is the one its session plays.  The      *)
(* @char commands rely on it: they take the one from the account to protect   *)
(* or to disconnect the other.                                                *)
ActiveIsPlayed ==
    \A c \in Conns, a \in Accounts :
        Plays(c, a) => Exists(a) /\ acct[a].active = sess[c].actor

(* The active character is always among the characters: no login ever ends in *)
(* the character menu, whose handlers are unreachable.                        *)
MenuUnreachable == \A c \in Conns : sess[c].phase # "select"

(* Sessions and accounts agree on who plays what: the three above, over       *)
(* values of their types (Session, Account).                                  *)
SessionsAgree == TypeOK /\ OnePlaying /\ ActiveIsPlayed /\ MenuUnreachable

(* CONTEXT.md: a character is "an Object of kind player that an Account owns  *)
(* and plays as".  What a session plays exists, was made for its account, and *)
(* belongs to no other; and it acts as nobody's character but its own,        *)
(* whatever it puppets.                                                       *)
PlaysOwnCharacter ==
    \A c \in Conns, a \in Accounts : Plays(c, a) =>
        /\ objs[sess[c].actor] = a
        /\ \A b \in Accounts \ {a} : Exists(b) => sess[c].actor \notin acct[b].chars
        /\ \A b \in Accounts : Exists(b) => EffectiveActor(c) \notin acct[b].chars \ {sess[c].actor}

(* That holds until a boot finds accounts in the database that are ahead of   *)
(* the world there, whether it loads them or not (a later one may, when the   *)
(* world has come to name something else by their references): the one way in *)
(* which it can break.                                                        *)
OwnUnlessRolledBack == ~rolledBack => PlaysOwnCharacter

(* Nobody is shown as offline while he plays, unless two accounts have come   *)
(* to own one character; and whoever has left is, by whichever way: a         *)
(* disconnect, a switch, or a kick, which tags nothing, but only makes room   *)
(* for the same character.  What a crash cuts off nobody has left: the tags   *)
(* are then those of the last save.                                           *)
PlayedIsOnline == ~rolledBack => Played \cap offline = {}
LeftIsOffline == left \cap Live \subseteq offline
OfflineTagsRight == PlayedIsOnline /\ LeftIsOffline
=============================================================================
