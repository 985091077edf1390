----------------------------- MODULE Authority -----------------------------
(***************************************************************************)
(* Who may change which object: the scopes of accounts, the tokens of HTTP *)
(* clients, the tags system:locked and system:global, the owners, and the  *)
(* editors, which ask for permission when they open and not when they end  *)
(* (src/src/engine/mod.rs, src/src/engine/authoring.rs, src/src/accounts.rs). *)
(*                                                                         *)
(* An account is also the character it plays.  An object's data (title,    *)
(* description, attributes, aliases, locks, exit target, script, dialogue) *)
(* is one bit that every edit flips.  Hooks, which any of these commands   *)
(* may run, are the action Script; restarts lose no object here, the       *)
(* WorldStore is about those.                                              *)
(***************************************************************************)
EXTENDS Naturals, FiniteSets

CONSTANTS
    Accounts,    \* accounts; each is the character it plays
    Objects,     \* objects that are no players
    Rooms,       \* those that are rooms
    EndsIn,      \* the room each exit leaves from or leads to
    Managed,     \* those that content files make
    LockedFiles, \* those of them under locked_prefixes
    Seeds,       \* the accounts the environment may name as administrator
    Tokens,      \* bound: tokens at one time
    TokenLife,   \* 30 days
    MaxEditors,  \* bound on the editors open at one time
    MaxEdits     \* bound on the changes of objects

ASSUME AuthorityAssumption ==
    /\ Rooms \subseteq Objects /\ LockedFiles \subseteq Managed /\ Managed \subseteq Objects
    /\ Accounts \cap (Objects \cup {"nobody", "unborn", "gone"}) = {}
    /\ DOMAIN EndsIn \subseteq Objects \ Rooms /\ \A e \in DOMAIN EndsIn : EndsIn[e] \in Rooms
    /\ Seeds \subseteq Accounts
    /\ TokenLife \in Nat \ {0}
    /\ MaxEdits \in Nat /\ MaxEditors \in Nat

VARIABLES
    objs,        \* objects of the world
    scopes,      \* scopes of each account
    savedScopes, \* the same in the database
    tokens,      \* api_tokens
    savedTokens, \* table api_tokens
    worldSaved,  \* the database holds objects: some save of the world went through
    editor,      \* what each account's session is in
    edits,       \* number of changes of objects so far
    last         \* history: who made the last step, by which way

authorityVars == <<objs, scopes, savedScopes, tokens, savedTokens, worldSaved, editor, edits, last>>
rightsVars == <<scopes, savedScopes, tokens, savedTokens, worldSaved>>

Tags == {"locked", "global"}
Scopes == {"builder", "admin"}
Unregistered == {"unregistered"}
Forever == TokenLife + 1

(* A reference that was never given out, and one whose object was removed *)
Unborn == [owner |-> "unborn", tags |-> {}, arch |-> "none", data |-> FALSE]
Gone == [owner |-> "gone", tags |-> {}, arch |-> "none", data |-> FALSE]
Offline == [mode |-> "offline", on |-> "none"]
Commands == [mode |-> "none", on |-> "none"]
NoToken == [by |-> "nobody", left |-> 0]
NoAccounts == [a \in Accounts |-> Unregistered]

(* What an empty store boots with: nobody, or the administrator that the       *)
(* environment names (HEARTH_ADMIN_USER).                                      *)
Seeded(seed) == [a \in Accounts |-> IF a = seed THEN Scopes ELSE Unregistered]

Record == [owner : Accounts \cup {"nobody"}, tags : SUBSET Tags,
           arch : Objects \cup {"none"}, data : BOOLEAN]

Existing == {o \in Objects : objs[o] \notin {Unborn, Gone}}

AuthorityInit ==
    /\ objs \in [Objects -> {r \in Record : r.arch = "none" /\ ~r.data /\ r.owner = "nobody"} \cup {Unborn}]
    /\ \A o \in Managed : objs[o] # Unborn /\ (o \in LockedFiles <=> "locked" \in objs[o].tags)
    /\ \A o \in Objects \ Managed : objs[o].tags = {}
    /\ scopes \in {Seeded(seed) : seed \in Seeds \cup {"nobody"}}
    /\ savedScopes = scopes
    /\ worldSaved = FALSE
    /\ tokens = [t \in Tokens |-> NoToken]
    /\ savedTokens = tokens
    /\ editor = [a \in Accounts |-> Offline]
    /\ edits = 0
    /\ last = [who |-> "system", via |-> "boot"]

-----------------------------------------------------------------------------
(* What is asked of whom *)

Exists(a) == scopes[a] # Unregistered

HasScope(a, s) == scopes[a] \cap {"admin", s} # {}

IsObjectLocked(o) == "locked" \in objs[o].tags

(* An object and all it delegates to. *)
Lineage(o) ==
    {p \in Objects : \A S \in SUBSET Objects :
        o \in S /\ (\A q \in S \cap Existing : objs[q].arch \in S \cup {"none"}) => p \in S} \cap Existing

(* system:locked is the object's own only; every other tag is inherited. *)
ResolvedTags(o) == objs[o].tags \cup ((UNION {objs[p].tags : p \in Lineage(o)}) \ {"locked"})

IsRefGlobal(o) == "global" \in ResolvedTags(o)

CanModifyObject(a, o) == HasScope(a, "admin") \/ objs[o].owner = a

(* A valid token: still good in the last second of its life. *)
Authenticated(a) == \E t \in Tokens : tokens[t].by = a /\ tokens[t].left # 0

(* A session that takes commands. *)
Playing(a) == editor[a] = Commands

Instances(o) == {i \in Existing : objs[i].arch = o}

(* detach_object: an instance keeps what it inherited. *)
Detached(i) == [objs[i] EXCEPT !.arch = "none", !.tags = ResolvedTags(i)]

-----------------------------------------------------------------------------
(* Changing objects *)

Becomes(new, a, via) ==
    /\ edits < MaxEdits
    /\ edits' = edits + 1
    /\ objs' = new
    /\ last' = [who |-> a, via |-> via]

Flipped(o) == [objs[o] EXCEPT !.data = ~@]
Edit(o, a, via) == Becomes([objs EXCEPT ![o] = Flipped(o)], a, via)

(* WouldCycleArchetype *)
WouldCycle(o, p) == o \in Lineage(p)

Fresh(owner) == [owner |-> owner, tags |-> {}, arch |-> "none", data |-> FALSE]

(* CloneObject: every system tag stays behind. *)
Copy(s, owner) == [objs[s] EXCEPT !.owner = owner, !.tags = {}]

(* What goes when o is destroyed: the object, and a room's exits with it.      *)
Destroyed(o, exits) ==
    [i \in Objects |-> IF i \in {o} \cup exits THEN Gone
                       ELSE IF i \in Instances(o) THEN Detached(i) ELSE objs[i]]

(* Instances keep an archetype alive, unless `cascade` detaches them; a locked *)
(* one does not let it.                                                        *)
MayCascade(o, cascade) ==
    Instances(o) # {} => cascade /\ \A i \in Instances(o) : ~IsObjectLocked(i)

-----------------------------------------------------------------------------
(* Commands of a playing session *)

Command(a, s) == Playing(a) /\ HasScope(a, s) /\ UNCHANGED <<rightsVars, editor>>

(* Of one's own objects, or an administrator's *)
CmdSet(a, o) == Command(a, "builder") /\ CanModifyObject(a, o) /\ ~IsObjectLocked(o) /\ Edit(o, a, "command")
CmdLock(a, o) == Command(a, "builder") /\ CanModifyObject(a, o) /\ ~IsObjectLocked(o) /\ Edit(o, a, "command")
CmdAlias(a, o) == Command(a, "builder") /\ CanModifyObject(a, o) /\ ~IsObjectLocked(o) /\ Edit(o, a, "command")

(* check_program_write *)
CheckProgramWrite(a, o) == CanModifyObject(a, o) /\ ~IsObjectLocked(o)
CmdProgramLine(a, o) == Command(a, "builder") /\ CheckProgramWrite(a, o) /\ Edit(o, a, "command")
CmdRmprogram(a, o) == Command(a, "builder") /\ CheckProgramWrite(a, o) /\ Edit(o, a, "command")

(* @reload, which switches a script on again, asks for the scope alone. *)
CmdReload(a, o) == Command(a, "builder") /\ Edit(o, a, "reload")

(* Of any object that is not locked *)
CmdDescribe(a, o) == Command(a, "builder") /\ ~IsObjectLocked(o) /\ Edit(o, a, "command")
CmdName(a, o) == Command(a, "builder") /\ ~IsObjectLocked(o) /\ Edit(o, a, "command")
CmdUnlock(a, o) == Command(a, "builder") /\ ~IsObjectLocked(o) /\ Edit(o, a, "command")
CmdScriptInterval(a, o) == Command(a, "builder") /\ ~IsObjectLocked(o) /\ Edit(o, a, "command")
CmdDialogueClear(a, o) == Command(a, "builder") /\ ~IsObjectLocked(o) /\ Edit(o, a, "command")

CmdTag(a, o, t) ==
    /\ Command(a, "builder")
    /\ ~IsObjectLocked(o)
    /\ Becomes([objs EXCEPT ![o].tags = @ \cup {t}], a, "command")

(* Mutant: the lock can be taken off like any other tag. *)
CmdUntag_Unlocks(a, o, t) ==
    /\ Command(a, "builder")
    /\ t \in objs[o].tags
    /\ Becomes([objs EXCEPT ![o].tags = @ \ {t}], a, "command")
CmdUntag(a, o, t) ==
    /\ Command(a, "builder")
    /\ ~IsObjectLocked(o)
    /\ t \in objs[o].tags
    /\ Becomes([objs EXCEPT ![o].tags = @ \ {t}], a, "command")

(* @archetype: p, or "none" to stand alone *)
CmdArchetype(a, o, p) ==
    /\ Command(a, "builder")
    /\ CanModifyObject(a, o)
    /\ ~IsObjectLocked(o)
    /\ IF p = "none"
       THEN Becomes([objs EXCEPT ![o] = Detached(o)], a, "command")
       ELSE p \in Existing /\ ~WouldCycle(o, p) /\ Becomes([objs EXCEPT ![o].arch = p], a, "command")

CmdDig(a, o) == Command(a, "builder") /\ o \in Rooms /\ Becomes([objs EXCEPT ![o] = Fresh(a)], a, "command")
CmdOpen(a, o) ==
    /\ Command(a, "builder")
    /\ o \in DOMAIN EndsIn /\ EndsIn[o] \in Existing
    /\ Becomes([objs EXCEPT ![o] = Fresh(a)], a, "command")
CmdCreate(a, o) ==
    /\ Command(a, "builder")
    /\ o \notin Rooms \cup DOMAIN EndsIn
    /\ Becomes([objs EXCEPT ![o] = Fresh(a)], a, "command")

CmdClone(a, s, o) ==
    /\ Command(a, "builder")
    /\ ~IsObjectLocked(s)
    /\ Becomes([objs EXCEPT ![o] = Copy(s, a)], a, "command")

(* @destroy: with a room go the exits that leave it or lead to it, whoever     *)
(* owns them and locked or not.  (What stands in the room stops the removal,   *)
(* but only after the instances were detached: `occupied`.)                    *)
CmdDestroy(a, o, cascade, occupied) ==
    /\ Command(a, "builder")
    /\ CanModifyObject(a, o)
    /\ ~IsObjectLocked(o)
    /\ MayCascade(o, cascade)
    /\ occupied => o \in Rooms
    /\ IF occupied
       THEN Becomes([i \in Objects |-> IF i \in Instances(o) THEN Detached(i) ELSE objs[i]], a, "command")
       ELSE Becomes(Destroyed(o, {e \in DOMAIN EndsIn \cap Existing : EndsIn[e] = o}), a, "command")

CmdChown(a, o, b) ==
    /\ Command(a, "admin")
    /\ Exists(b)
    /\ ~IsObjectLocked(o)
    /\ Becomes([objs EXCEPT ![o].owner = b], a, "command")

-----------------------------------------------------------------------------
(* Editors: until '.' or '@abort' the session's lines go to the editor.       *)

Editing(a) == editor[a].mode \in {"program", "ink", "eval"}

Opens(a, mode, o) ==
    /\ Cardinality({b \in Accounts : Editing(b)}) < MaxEditors
    /\ editor' = [editor EXCEPT ![a] = [mode |-> mode, on |-> o]]
    /\ last' = [who |-> a, via |-> "command"]
    /\ UNCHANGED <<objs, edits, rightsVars>>

CmdProgram(a, o) == Playing(a) /\ HasScope(a, "builder") /\ CheckProgramWrite(a, o) /\ Opens(a, "program", o)

CmdDialogueEdit(a, o) == Playing(a) /\ HasScope(a, "builder") /\ ~IsObjectLocked(o) /\ Opens(a, "ink", o)

CmdEval(a) == Playing(a) /\ HasScope(a, "admin") /\ Opens(a, "eval", "none")

(* A '.' asks for nothing again: neither scope, owner nor tag. *)
EditorDone(a, mode) ==
    /\ editor[a].mode = mode
    /\ editor' = [editor EXCEPT ![a] = Commands]
    /\ UNCHANGED rightsVars
    /\ IF editor[a].on \in Existing
       THEN Edit(editor[a].on, a, "editor")
       ELSE last' = [who |-> a, via |-> "editor"] /\ UNCHANGED <<objs, edits>>
ProgramEditorDone(a) == EditorDone(a, "program")
InkEditorDone(a) == EditorDone(a, "ink")

(* eval_and_report: a script with nobody's authority, so any object *)
EvalEditorDone(a) ==
    /\ editor[a].mode = "eval"
    /\ editor' = [editor EXCEPT ![a] = Commands]
    /\ UNCHANGED rightsVars
    /\ \E o \in Existing : Edit(o, a, "script")

EditorAbort(a) ==
    /\ Editing(a)
    /\ editor' = [editor EXCEPT ![a] = Commands]
    /\ last' = [who |-> a, via |-> "editor"]
    /\ UNCHANGED <<objs, edits, rightsVars>>

-----------------------------------------------------------------------------
(* HTTP requests *)

Request(a, s) == Authenticated(a) /\ HasScope(a, s) /\ UNCHANGED <<rightsVars, editor>>

(* Mutant: only the object's own tags are looked at. *)
MayWrite_OwnTags(a, o) == (HasScope(a, "admin") \/ "global" \notin objs[o].tags) /\ ~IsObjectLocked(o)
(* The gate in front of every request that has a locked_target. *)
MayWrite(a, o) == (HasScope(a, "admin") \/ ~IsRefGlobal(o)) /\ ~IsObjectLocked(o)

(* write_batch: data of one object, by intents that ask no more *)
WriteBatch(a, o) == Request(a, "builder") /\ MayWrite(a, o) /\ Edit(o, a, "request")
SetLocation(a, o) == Request(a, "builder") /\ MayWrite(a, o) /\ Edit(o, a, "request")
InkSave(a, o) == Request(a, "builder") /\ MayWrite(a, o) /\ Edit(o, a, "request")

AddTag(a, o, t) ==
    /\ Request(a, "builder") /\ MayWrite(a, o)
    /\ t = "global" => HasScope(a, "admin")
    /\ Becomes([objs EXCEPT ![o].tags = @ \cup {t}], a, "request")
RemoveTag(a, o, t) ==
    /\ Request(a, "builder") /\ MayWrite(a, o)
    /\ t = "global" => HasScope(a, "admin")
    /\ Becomes([objs EXCEPT ![o].tags = @ \ {t}], a, "request")

(* None here inherits nothing any more; DetachObject keeps it all. *)
SetArchetype(a, o, p) ==
    /\ Request(a, "builder") /\ MayWrite(a, o)
    /\ p # "none" => p \in Existing /\ ~WouldCycle(o, p)
    /\ Becomes([objs EXCEPT ![o].arch = p], a, "request")
DetachObject(a, o) ==
    /\ Request(a, "builder") /\ MayWrite(a, o)
    /\ Becomes([objs EXCEPT ![o] = Detached(o)], a, "request")

(* What is made over HTTP belongs to nobody. *)
CreateRoom(a, o) == Request(a, "builder") /\ o \in Rooms /\ Becomes([objs EXCEPT ![o] = Fresh("nobody")], a, "request")
CreateObject(a, o) ==
    /\ Request(a, "builder")
    /\ o \notin Rooms \cup DOMAIN EndsIn
    /\ Becomes([objs EXCEPT ![o] = Fresh("nobody")], a, "request")
CreateExit(a, o) ==
    /\ Request(a, "builder")
    /\ o \in DOMAIN EndsIn /\ EndsIn[o] \in Existing
    /\ Becomes([objs EXCEPT ![o] = Fresh("nobody")], a, "request")

(* ... but for a copy, whose owner the client names. *)
CloneObject(a, s, o, owner) ==
    /\ Request(a, "builder")
    /\ ~IsObjectLocked(s)
    /\ Becomes([objs EXCEPT ![o] = Copy(s, owner)], a, "request")

(* Only the object goes: a room leaves its exits behind. *)
DeleteObject(a, o, cascade) ==
    /\ Request(a, "builder") /\ MayWrite(a, o) /\ MayCascade(o, cascade)
    /\ Becomes(Destroyed(o, {}), a, "request")

(* A script at work, be it a hook, Eval or a command that runs one: what its   *)
(* intents do is in ObjectGraph; neither tag stops them.                      *)
Script(o) ==
    /\ \/ Edit(o, "system", "script")
       \/ \E t \in Tags : Becomes([objs EXCEPT ![o].tags = IF t \in @ THEN @ \ {t} ELSE @ \cup {t}], "system", "script")
    /\ UNCHANGED <<rightsVars, editor>>

(* stamp_locked: what files make is locked as the prefixes say. *)
StampLocked(os) ==
    [o \in Objects |-> IF o \in Managed \cap Existing
        THEN [os[o] EXCEPT !.tags = IF o \in LockedFiles THEN @ \cup {"locked"} ELSE @ \ {"locked"}]
        ELSE os[o]]

(* A load of a changed file for o, or of none *)
ReloadWorld(a) ==
    /\ Command(a, "admin")
    /\ \/ Becomes(StampLocked(objs), a, "files")
       \/ \E o \in Managed \cap Existing : Becomes(StampLocked([objs EXCEPT ![o] = Flipped(o)]), a, "files")

-----------------------------------------------------------------------------
(* Accounts, sessions and tokens *)

Quiet(a) == last' = [who |-> a, via |-> "command"] /\ UNCHANGED <<objs, edits, worldSaved>>

(* save_tokens: all of them are persistent. *)
SaveTokens == savedTokens' = tokens'
SaveAccounts == savedScopes' = scopes'

(* A session token is good for TokenLife. *)
Issued(held, a, left) ==
    \E t \in Tokens : held[t] = NoToken /\ tokens' = [held EXCEPT ![t] = [by |-> a, left |-> left]]
IssueToken(a, left) == Issued(tokens, a, left)

(* A new account has an id of its own: the tokens of one that was lost are     *)
(* nobody's, whatever the name.                                                *)
Forgotten(held, a) == [t \in Tokens |-> IF held[t].by = a THEN NoToken ELSE held[t]]

(* AccountStore::create: the first account has every scope. *)
FirstScopes == IF \A b \in Accounts : ~Exists(b) THEN Scopes ELSE {}

(* A new account enters the world with a new character, which saves it. *)
Register(a) ==
    /\ ~Exists(a)
    /\ scopes' = [scopes EXCEPT ![a] = FirstScopes]
    /\ SaveAccounts
    /\ Issued(Forgotten(tokens, a), a, TokenLife) /\ SaveTokens
    /\ editor' = [editor EXCEPT ![a] = Commands]
    /\ Quiet(a)

(* enter_world *)
EnterWorld(a) ==
    /\ Exists(a) /\ editor[a] = Offline
    /\ IssueToken(a, TokenLife) /\ SaveTokens
    /\ editor' = [editor EXCEPT ![a] = Commands]
    /\ UNCHANGED <<scopes, savedScopes>>
    /\ Quiet(a)

(* quit, @boot or a lost connection: the session's token stays. *)
Disconnect(a) ==
    /\ editor[a] # Offline
    /\ editor' = [editor EXCEPT ![a] = Offline]
    /\ UNCHANGED <<scopes, savedScopes, tokens, savedTokens>>
    /\ Quiet(a)

GrantScope(b, s) == scopes' = [scopes EXCEPT ![b] = @ \cup {s}]
RevokeScope(b, s) == scopes' = [scopes EXCEPT ![b] = @ \ {s}]

Administers(a) ==
    /\ Playing(a) /\ HasScope(a, "admin")
    /\ UNCHANGED <<tokens, savedTokens, editor>>
    /\ Quiet(a)

(* Mutant: the grant waits for the autosave. *)
CmdGrant_Unsaved(a, b, s) == Administers(a) /\ Exists(b) /\ GrantScope(b, s) /\ UNCHANGED savedScopes
CmdGrant(a, b, s) == Administers(a) /\ Exists(b) /\ GrantScope(b, s) /\ SaveAccounts

CmdRevoke(a, b, s) ==
    /\ Administers(a)
    /\ Exists(b)
    /\ ~(b = a /\ s = "admin")
    /\ RevokeScope(b, s)
    /\ SaveAccounts

CmdTokenCreate(a) ==
    /\ Playing(a)
    /\ IssueToken(a, Forever) /\ SaveTokens
    /\ UNCHANGED <<scopes, savedScopes, editor>>
    /\ Quiet(a)
CmdTokenRevoke(a, t) ==
    /\ Playing(a)
    /\ tokens[t].by = a
    /\ tokens' = [tokens EXCEPT ![t] = NoToken] /\ SaveTokens
    /\ UNCHANGED <<scopes, savedScopes, editor>>
    /\ Quiet(a)

(* The wall clock, for the tokens in memory and in the table *)
Older(t) == [t EXCEPT !.left = IF @ \in {0, Forever} THEN @ ELSE @ - 1]
Elapse ==
    /\ \E t \in Tokens : tokens[t].left \notin {0, Forever}
    /\ tokens' = [t \in Tokens |-> Older(tokens[t])]
    /\ savedTokens' = [t \in Tokens |-> Older(savedTokens[t])]
    /\ UNCHANGED <<scopes, savedScopes, editor>>
    /\ Quiet("system")

(* do_tick, every 60th: expired tokens go, from the table too. *)
SweepTokens ==
    /\ \E t \in Tokens : tokens[t].by # "nobody" /\ tokens[t].left = 0
    /\ tokens' = [t \in Tokens |-> IF tokens[t].left = 0 THEN NoToken ELSE tokens[t]]
    /\ SaveTokens
    /\ UNCHANGED <<scopes, savedScopes, editor>>
    /\ Quiet("system")

(* do_save: the world, and then the accounts *)
DoSave ==
    /\ worldSaved' = TRUE
    /\ UNCHANGED <<objs, scopes, tokens, savedTokens, editor, edits>>
    /\ SaveAccounts
    /\ last' = [who |-> "system", via |-> "command"]

(* Engine::new reads the accounts only if the database holds a world as well.  *)
Loaded(has) == IF has THEN savedScopes ELSE NoAccounts

(* The process ends, in whatever way, and boots: maybe between the two         *)
(* transactions of a save, so that the database has the world's only.          *)
ServerRestart(saving, seed) ==
    /\ worldSaved' = (worldSaved \/ saving)
    /\ IF seed \in Seeds /\ Loaded(worldSaved') = NoAccounts
       THEN scopes' = Seeded(seed) /\ SaveAccounts
            /\ tokens' = Forgotten(savedTokens, seed) /\ SaveTokens
       ELSE scopes' = Loaded(worldSaved') /\ tokens' = savedTokens
            /\ UNCHANGED <<savedScopes, savedTokens>>
    /\ editor' = [a \in Accounts |-> Offline]
    /\ objs' = StampLocked(objs)
    /\ last' = [who |-> "system", via |-> "boot"]
    /\ UNCHANGED edits

-----------------------------------------------------------------------------
Edits(a) ==
    \E o \in Existing :
        \/ CmdSet(a, o) \/ CmdLock(a, o) \/ CmdAlias(a, o) \/ CmdProgramLine(a, o) \/ CmdRmprogram(a, o)
        \/ CmdReload(a, o)
        \/ CmdDescribe(a, o) \/ CmdName(a, o) \/ CmdUnlock(a, o) \/ CmdScriptInterval(a, o) \/ CmdDialogueClear(a, o)
        \/ \E t \in Tags : CmdTag(a, o, t) \/ CmdUntag(a, o, t)
        \/ \E p \in Objects \cup {"none"} : CmdArchetype(a, o, p)
        \/ \E c, full \in BOOLEAN : CmdDestroy(a, o, c, full)
        \/ \E b \in Accounts : CmdChown(a, o, b)
        \/ CmdProgram(a, o) \/ CmdDialogueEdit(a, o)

Makes(a) ==
    \E o \in Objects : objs[o] = Unborn /\
        \/ CmdDig(a, o) \/ CmdOpen(a, o) \/ CmdCreate(a, o)
        \/ CreateRoom(a, o) \/ CreateObject(a, o) \/ CreateExit(a, o)
        \/ \E s \in Existing : \/ CmdClone(a, s, o)
                           \/ \E b \in Accounts \cup {"nobody"} : CloneObject(a, s, o, b)

Requests(a) ==
    \E o \in Existing :
        \/ WriteBatch(a, o) \/ SetLocation(a, o) \/ InkSave(a, o) \/ DetachObject(a, o)
        \/ \E t \in Tags : AddTag(a, o, t) \/ RemoveTag(a, o, t)
        \/ \E p \in Objects \cup {"none"} : SetArchetype(a, o, p)
        \/ \E c \in BOOLEAN : DeleteObject(a, o, c)

Editors(a) ==
    \/ CmdEval(a) \/ ProgramEditorDone(a) \/ InkEditorDone(a) \/ EvalEditorDone(a) \/ EditorAbort(a)

Accounting(a) ==
    \/ Register(a) \/ EnterWorld(a) \/ Disconnect(a) \/ CmdTokenCreate(a)
    \/ \E t \in Tokens : CmdTokenRevoke(a, t)
    \/ \E b \in Accounts, s \in Scopes : CmdGrant(a, b, s) \/ CmdRevoke(a, b, s)

AuthorityNext ==
    \/ \E a \in Accounts : Edits(a) \/ Makes(a) \/ Requests(a) \/ Editors(a) \/ Accounting(a) \/ ReloadWorld(a)
    \/ \E o \in Existing : Script(o)
    \/ Elapse \/ SweepTokens \/ DoSave
    \/ \E saving \in BOOLEAN, seed \in Seeds \cup {"nobody"} : ServerRestart(saving, seed)

AuthoritySpec == AuthorityInit /\ [][AuthorityNext]_authorityVars

-----------------------------------------------------------------------------
Token == [by : Accounts \cup {"nobody"}, left : 0..Forever]

AuthorityTypeOK ==
    /\ objs \in [Objects -> Record \cup {Unborn, Gone}]
    /\ scopes \in [Accounts -> (SUBSET Scopes) \cup {Unregistered}]
    /\ savedScopes \in [Accounts -> (SUBSET Scopes) \cup {Unregistered}]
    /\ tokens \in [Tokens -> Token] /\ savedTokens \in [Tokens -> Token]
    /\ worldSaved \in BOOLEAN
    /\ editor \in [Accounts -> [mode : {"offline", "none", "program", "ink", "eval"}, on : Objects \cup {"none"}]]
    /\ edits \in 0..MaxEdits

(* "Definition read-only": a locked object stays as it is.  Besides scripts   *)
(* and the content files only three things reach it: an editor that was       *)
(* opened before the lock, @reload, which switches its script on, and the     *)
(* removal of the room a locked exit belongs to (is_ref_locked before every   *)
(* other command and request; docs/adr/0007).                                 *)
LockedStep ==
    \A o \in Existing : IsObjectLocked(o) /\ objs'[o] # objs[o] =>
        \/ last'.via \in {"script", "files", "boot"}
        \/ last'.via = "reload" /\ objs'[o] = Flipped(o)
        \/ last'.via = "editor" /\ editor[last'.who].on = o
        \/ o \in DOMAIN EndsIn /\ objs'[o] = Gone /\ objs'[EndsIn[o]] = Gone
LockedHeld == [][LockedStep]_authorityVars

(* No request of a builder who is not an administrator takes an object out of *)
(* the global command surface, be it by the object's own tag or through what  *)
(* it inherits it from, or changes the data of one in it; and none gives the  *)
(* tag to an object that was not there.  What such a request does bring in,   *)
(* by set-archetype or a clone, which do not look at the archetype, inherits  *)
(* from an object that was in the surface (the system:global guard,           *)
(* resolved_tags, detach_object).  Ancestors of a global object that are not  *)
(* global themselves are as open as any other object.                         *)
GlobalStep ==
    last'.via = "request" /\ last'.who \in Accounts /\ ~HasScope(last'.who, "admin") =>
        /\ \A o \in Existing : IsRefGlobal(o) =>
            o \in Existing' /\ IsRefGlobal(o)' /\ objs'[o].data = objs[o].data
        /\ \A o \in Existing' : ("global" \in objs'[o].tags) => o \in Existing /\ IsRefGlobal(o)
        /\ \A o \in Existing' : IsRefGlobal(o)' /\ ~(o \in Existing /\ IsRefGlobal(o)) =>
            \E p \in Lineage(o)' \ {o} : p \in Existing /\ IsRefGlobal(p)
GlobalHeld == [][GlobalStep]_authorityVars

(* Once somebody has registered there is an administrator, whatever is        *)
(* revoked by whom, and after any crash (AccountStore::create, cmd_revoke).   *)
AdminRemains ==
    /\ (\E a \in Accounts : Exists(a)) => \E a \in Accounts : "admin" \in scopes[a]
    /\ (\E a \in Accounts : savedScopes[a] # Unregistered) => \E a \in Accounts : "admin" \in savedScopes[a]

(* What counts is saved at once, so that a crash takes back no grant,         *)
(* revocation or token (save_accounts in cmd_grant and cmd_revoke,            *)
(* save_tokens), but for one: a boot before the world was ever saved forgets  *)
(* every account, and goes on with none until somebody registers (Engine::new,*)
(* has_world_data).                                                           *)
RightsDurable ==
    /\ tokens = savedTokens
    /\ scopes = savedScopes \/ (~worldSaved /\ scopes = NoAccounts)

(* Rights outlive every crash once the world was saved, and whenever there is *)
(* an account, somebody has the rights that give them.                        *)
RightsHold == AdminRemains /\ RightsDurable
=============================================================================
