------------------------------ MODULE Programs ------------------------------
(***************************************************************************)
(* The programs builders write: an object's script or a named library      *)
(* (src/src/engine/mod.rs, src/src/db.rs).  Several builders publish the   *)
(* same program over HTTP, against the version they opened, with an edit   *)
(* lock or without; the telnet editor, one-line commands, softcode and     *)
(* content files write it too.  The version history and the lock rows are  *)
(* committed at once, the programs themselves only with the world, so a    *)
(* crash takes programs back and leaves their history.                     *)
(*                                                                         *)
(* A text is a function from its hunks to what they say.  A lock carries   *)
(* the time it has `left`; its row's absolute expires_at is the same       *)
(* number, for time passes for both.                                       *)
(***************************************************************************)
EXTENDS Naturals, Sequences, FiniteSets, SequencesExt

CONSTANTS
    Accounts,    \* builders
    Admins,      \* those who are administrators
    Typists,     \* those with a telnet session
    Clients,     \* those whose HTTP client keeps what it opened
    Libs,        \* the programs that are libraries
    Scripts,     \* the programs that are scripts; one that is in both sets
                 \* stands for either, and has the writers of both
    Locked,      \* programs whose object is tagged system:locked
    Hunks,       \* the parts of a text that merge independently
    Wordings,    \* what a hunk may say besides nothing
    Drafts,      \* bound on the texts that come from elsewhere than a client
    Ttl,         \* LOCK_TTL_SECS
    MaxVersions, \* bound on the versions of all programs
    MaxCrashes   \* bound on the crashes

ASSUME ProgramsAssumption ==
    /\ Admins \cup Typists \cup Clients \subseteq Accounts
    /\ Locked \subseteq Libs \cup Scripts
    /\ Ttl \in Nat \ {0} /\ MaxVersions \in Nat /\ MaxCrashes \in Nat
    /\ "" \notin Wordings
    /\ Drafts \subseteq [Hunks -> Wordings \cup {""}]

VARIABLES
    program,   \* the program in each slot
    saved,     \* the programs in the database
    versions,  \* table script_versions
    lock,      \* script_locks
    lockRow,   \* table script_locks
    view,      \* what a client has open: see NoView
    buffer,    \* _program_target and _program_buffer of a builder's character
    crashes,   \* number of crashes so far
    drift      \* history: programs whose last writer recorded no version

vars == <<program, saved, versions, lock, lockRow, view, buffer, crashes, drift>>

Programs == Libs \cup Scripts
Text == [Hunks -> Wordings \cup {""}]
Blank == [h \in Hunks |-> ""]

(* origin "none" is an empty slot, read as the empty source *)
Absent == [text |-> Blank, origin |-> "none"]
Program == [text : Text, origin : {"InGame", "File"}] \cup {Absent}

Free == [by |-> "nobody", left |-> 0]

(* version 0: the program had no version when it was opened.  The flags are   *)
(* history: `drifted`, drift when it was opened; `alone`, its builder has     *)
(* held the lock since and no writer that heeds no lock has written.          *)
NoView == [p |-> "none", text |-> Blank, version |-> 0, drifted |-> FALSE, alone |-> FALSE]
NoBuffer == [p |-> "none", text |-> Blank]

Source(p) == program[p].text
Latest(p) == Len(versions[p])
TotalVersions == FoldFunction(LAMBDA v, n : Len(v) + n, 0, versions)

Init ==
    /\ program = [p \in Programs |-> Absent]
    /\ saved = program
    /\ versions = [p \in Programs |-> <<>>]
    /\ lock = [p \in Programs |-> Free]
    /\ lockRow = lock
    /\ view = [a \in Clients |-> NoView]
    /\ buffer = [a \in Typists |-> NoBuffer]
    /\ crashes = 0
    /\ drift = {}

-----------------------------------------------------------------------------
(* Locks *)

(* active_edit_lock: one that has expired counts for nothing. *)
Holds(a, p) == lock[p].by = a /\ lock[p].left > 0

(* Mutant: only a lock of the caller's own is looked at. *)
LockedOut_Never(a, p) == Holds(a, p) /\ lock[p].by # a
(* check_edit_lock *)
LockedOut(a, p) == lock[p].left > 0 /\ lock[p].by # a

(* renew_edit_lock: the holder's, expired or not. *)
RenewLock(a, p) ==
    /\ lock' = [lock EXCEPT ![p] = IF @.by = a THEN [@ EXCEPT !.left = Ttl] ELSE @]
    /\ lockRow' = [lockRow EXCEPT ![p] = IF lock[p].by = a THEN lock'[p] ELSE @]

StillHeld == [a \in Clients |->
    [view[a] EXCEPT !.alone = @ /\ lock'[view[a].p].by = a /\ lock'[view[a].p].left > 0]]

LockScript(a, p) ==
    /\ ~LockedOut(a, p)
    /\ lock' = [lock EXCEPT ![p] = [by |-> a, left |-> Ttl]]
    /\ lockRow' = [lockRow EXCEPT ![p] = [by |-> a, left |-> Ttl]]
    /\ UNCHANGED <<program, saved, versions, view, buffer, crashes, drift>>

(* The row goes even where there is no lock in memory (an expired one that    *)
(* boot did not load).                                                        *)
UnlockScript(a, p) ==
    /\ lock[p] = Free \/ lock[p].by = a \/ a \in Admins
    /\ lock' = [lock EXCEPT ![p] = Free]
    /\ lockRow' = [lockRow EXCEPT ![p] = Free]
    /\ view' = StillHeld
    /\ UNCHANGED <<program, saved, versions, buffer, crashes, drift>>

Older(l) == [l EXCEPT !.left = IF @ = 0 THEN 0 ELSE @ - 1]

(* The wall clock *)
Elapse ==
    /\ \E p \in Programs : lock[p].left > 0 \/ lockRow[p].left > 0
    /\ lock' = [p \in Programs |-> Older(lock[p])]
    /\ lockRow' = [p \in Programs |-> Older(lockRow[p])]
    /\ view' = StillHeld
    /\ UNCHANGED <<program, saved, versions, buffer, crashes, drift>>

-----------------------------------------------------------------------------
(* Versions *)

(* Mutant: the last version is taken for the first. *)
IsLatest_First(p, t) == versions[p] # <<>> /\ Head(versions[p]).text = t
(* latest_script_version: the hash stands for the source. *)
IsLatest(p, t) == versions[p] # <<>> /\ Last(versions[p]).text = t

AppendScriptVersion(vs, t, from) == Append(vs, [text |-> t, from |-> from])

GetScriptVersion(p, v) == versions[p][v].text

(* record_script_version: the text that is the latest already is not added. *)
Record(p, t, from) ==
    /\ TotalVersions < MaxVersions
    /\ versions' = IF IsLatest(p, t) THEN versions
                   ELSE [versions EXCEPT ![p] = AppendScriptVersion(@, t, from)]

(* diffy::merge hunk by hunk, if it can: a hunk with two new wordings is a     *)
(* conflict.  (It may also refuse two changes that are neighbours: a refusal  *)
(* changes nothing.)                                                          *)
Merge(base, ours, theirs) ==
    IF \E h \in Hunks : ours[h] # base[h] /\ theirs[h] # base[h] /\ ours[h] # theirs[h]
    THEN {}
    ELSE {[h \in Hunks |-> IF ours[h] # base[h] THEN ours[h] ELSE theirs[h]]}

(* Mutant: a base that is out of date is not noticed. *)
ResolveVersionedWrite_NoMerge(p, t, base) == {[text |-> t, from |-> 0]}
(* resolve_versioned_write: no base overwrites; the latest as base is clean,  *)
(* whatever the live text; an older base is merged with the live text.        *)
ResolveVersionedWrite(p, t, base) ==
    IF base = 0 \/ Latest(p) = 0 \/ Latest(p) = base
    THEN {[text |-> t, from |-> 0]}
    ELSE {[text |-> u, from |-> Latest(p)] :
            u \in Merge(GetScriptVersion(p, base), t, Source(p))}

-----------------------------------------------------------------------------
(* The HTTP requests *)

VersionAndLock(a, p) == [version |-> Latest(p), mine |-> Holds(a, p)]

Open(a, p) ==
    /\ view' = [view EXCEPT ![a] =
          [p |-> p, text |-> Source(p), version |-> VersionAndLock(a, p).version,
           drifted |-> p \in drift, alone |-> VersionAndLock(a, p).mine]]
    /\ UNCHANGED <<program, saved, versions, lock, lockRow, buffer, crashes, drift>>

GetScript(a, p) == p \in Scripts /\ Open(a, p)
ListLibs(a, p) == p \in Libs /\ Open(a, p)

(* What every request that publishes ends with: the program, its version, the *)
(* lock, and the answer, which is what the client then has open.              *)
Publish(a, p, r) ==
    /\ program' = [program EXCEPT ![p] = [text |-> r.text, origin |-> "InGame"]]
    /\ Record(p, r.text, r.from)
    /\ RenewLock(a, p)
    /\ view' = [c \in Clients |-> IF c # a THEN view[c] ELSE
          [p |-> p, text |-> r.text, version |-> Len(versions'[p]), drifted |-> FALSE,
           alone |-> lock'[p].by = a /\ lock'[p].left > 0]]
    /\ drift' = drift \ {p}
    /\ UNCHANGED <<saved, buffer, crashes>>

SetScript(a, p, t, base) ==
    /\ p \in Scripts \ Locked
    /\ ~LockedOut(a, p)
    /\ \E r \in ResolveVersionedWrite(p, t, base) : Publish(a, p, r)

SetLib(a, p, t, base) ==
    /\ p \in Libs \ Locked
    /\ ~LockedOut(a, p)
    /\ \E r \in ResolveVersionedWrite(p, t, base) : Publish(a, p, r)

(* A client sends what it has open with one hunk reworded, and the version it *)
(* opened; anybody may send a draft and name no version.                      *)
Sent(a) == {[view[a].text EXCEPT ![h] = w] : h \in Hunks, w \in Wordings}
SetOpened(a) ==
    LET v == view[a] IN \E t \in Sent(a) : SetScript(a, v.p, t, v.version) \/ SetLib(a, v.p, t, v.version)
SetDraft(a, p) == \E t \in Drafts : SetScript(a, p, t, 0) \/ SetLib(a, p, t, 0)

RevertScript(a, p, v) ==
    /\ p \notin Locked
    /\ ~LockedOut(a, p)
    /\ Publish(a, p, [text |-> GetScriptVersion(p, v), from |-> 0])

-----------------------------------------------------------------------------
(* The writers that heed no edit lock *)

Passed(ps) ==
    [a \in Clients |-> IF view[a].p \in ps THEN [view[a] EXCEPT !.alone = FALSE] ELSE view[a]]

(* Nothing is recorded of these. *)
Unversioned(p, new) ==
    /\ program' = [program EXCEPT ![p] = new]
    /\ view' = Passed({p})
    /\ drift' = drift \cup {p}
    /\ UNCHANGED <<saved, versions, lock, lockRow, buffer, crashes>>

(* ClearScript, RemoveLib *)
ClearScript(p) == p \in Scripts \ Locked /\ Unversioned(p, Absent)
RemoveLib(p) == p \in Libs \ Locked /\ Unversioned(p, Absent)

(* @script, which makes the object where there is none *)
CmdScript(p, t) == p \in Scripts \ Locked /\ t # Blank /\ Unversioned(p, [text |-> t, origin |-> "InGame"])

UpsertLibrary(p, t) == p \in Libs \ Locked /\ Unversioned(p, [text |-> t, origin |-> "InGame"])
(* @lib *)
CmdLib(p, t) == t # Blank /\ UpsertLibrary(p, t)
(* Its starter text is not recorded either. *)
CreateLibrary(p, t) == program[p] = Absent /\ UpsertLibrary(p, t)

CmdRmprogram(p) == p \in Scripts \ Locked /\ program[p] # Absent /\ Unversioned(p, Absent)
CmdRmscript(p) == p \in Scripts \ Locked /\ program[p] # Absent /\ Unversioned(p, Absent)
CmdRmlib(p) == p \in Libs \ Locked /\ program[p] # Absent /\ Unversioned(p, Absent)

(* Intents SetScript and SetLib: neither lock nor tag stops a script. *)
Softcode(p, t) == Unversioned(p, [text |-> t, origin |-> "InGame"])

(* install_program: @program, in one line or at the end of the editor.  It    *)
(* records a version and asks for no lock.                                    *)
InstallProgram(p, t) ==
    /\ program' = [program EXCEPT ![p] = [text |-> t, origin |-> "InGame"]]
    /\ Record(p, t, 0)
    /\ view' = Passed({p})
    /\ drift' = drift \ {p}
    /\ UNCHANGED <<saved, lock, lockRow, crashes>>

(* @program <ref>: the editor opens on a copy of the source. *)
CmdProgram(a, p) ==
    /\ p \in Scripts \ Locked
    /\ buffer[a] = NoBuffer
    /\ buffer' = [buffer EXCEPT ![a] = [p |-> p, text |-> Source(p)]]
    /\ UNCHANGED <<program, saved, versions, lock, lockRow, view, crashes, drift>>

CmdProgramLine(p, t) ==
    /\ p \in Scripts \ Locked
    /\ t # Blank
    /\ InstallProgram(p, t)
    /\ UNCHANGED buffer

(* A line is appended: what the editor opened on stays in it. *)
EditorLine(a, h, w) ==
    /\ buffer[a].p # "none"
    /\ buffer[a].text[h] = ""
    /\ buffer' = [buffer EXCEPT ![a].text[h] = w]
    /\ UNCHANGED <<program, saved, versions, lock, lockRow, view, crashes, drift>>

(* A '.' installs the buffer over whatever the program has become. *)
EditorDone(a) ==
    /\ buffer[a].p # "none"
    /\ buffer' = [buffer EXCEPT ![a] = NoBuffer]
    /\ IF buffer[a].text = Blank
       THEN UNCHANGED <<program, saved, versions, lock, lockRow, view, crashes, drift>>
       ELSE InstallProgram(buffer[a].p, buffer[a].text)

EditorAbort(a) ==
    /\ buffer[a].p # "none"
    /\ buffer' = [buffer EXCEPT ![a] = NoBuffer]
    /\ UNCHANGED <<program, saved, versions, lock, lockRow, view, crashes, drift>>

-----------------------------------------------------------------------------
(* Content files: a load or an import that gives p the text t, or none        *)
(* (Blank).                                                                   *)

(* Mutant: a program edited in the game is overwritten like any other. *)
InstallScript_Overwrite(p, t) ==
    IF t = Blank THEN Absent ELSE [text |-> t, origin |-> "File"]
(* install_script: what was edited in the game stays. *)
InstallScript(p, t) ==
    CASE program[p].origin = "InGame" -> program[p]
      [] program[p].origin # "InGame" /\ t = Blank -> Absent
      [] OTHER -> [text |-> t, origin |-> "File"]

(* resolve_script of an import: a script the bundle does not mention is left  *)
(* alone, a library from a file is removed.                                   *)
ResolveScript(p, t) ==
    IF t = Blank /\ p \in Scripts THEN program[p] ELSE InstallScript(p, t)

(* record_file_program_versions, of every program that came from a file. *)
Unrecorded(now) == {p \in Programs : now[p].origin = "File" /\ ~IsLatest(p, now[p].text)}
RecordFilePrograms(now) ==
    /\ TotalVersions + Cardinality(Unrecorded(now)) <= MaxVersions
    /\ versions' = [p \in Programs |->
          IF p \in Unrecorded(now) THEN AppendScriptVersion(versions[p], now[p].text, 0)
                                   ELSE versions[p]]

FromFiles(now) == {p \in Programs : now[p].origin = "File"}

(* A load or an import that comes to its end. *)
FileWrite(p, new) ==
    LET now == [program EXCEPT ![p] = new]
        changed == {q \in Programs : now[q] # program[q]}
    IN /\ program' = now
       /\ RecordFilePrograms(now)
       /\ view' = Passed(changed \cup Unrecorded(now))
       /\ drift' = (drift \cup changed) \ FromFiles(now)
       /\ UNCHANGED <<saved, lock, lockRow, buffer, crashes>>

(* One that stops at an error after p: what it has installed stays, and       *)
(* nothing is recorded until another comes to its end.                        *)
FileWriteFails(p, new) == new # program[p] /\ Unversioned(p, new)

(* @reload-world; @import and Import *)
ReloadWorld(p, t) == LET new == InstallScript(p, t) IN FileWrite(p, new) \/ FileWriteFails(p, new)
Import(p, t) == LET new == ResolveScript(p, t) IN FileWrite(p, new) \/ FileWriteFails(p, new)

-----------------------------------------------------------------------------
(* Saving and crashing *)

(* Of use only if a crash may follow. *)
SaveWorld ==
    /\ crashes < MaxCrashes
    /\ saved' = program
    /\ UNCHANGED <<program, versions, lock, lockRow, view, buffer, crashes, drift>>

(* The process ends and boots: programs as saved, then the content files (the *)
(* ones already loaded; LoadFiles is a changed one), versions and lock rows   *)
(* as committed, expired rows left out.  The clients keep what they have      *)
(* open; the telnet sessions are gone.                                        *)
LoadScriptLocks == [p \in Programs |-> IF lockRow[p].left > 0 THEN lockRow[p] ELSE Free]

Restart ==
    /\ crashes < MaxCrashes
    /\ crashes' = crashes + 1
    /\ program' = saved
    /\ RecordFilePrograms(saved)
    /\ lock' = LoadScriptLocks
    /\ view' = [a \in Clients |-> [view[a] EXCEPT !.alone = FALSE]]
    /\ buffer' = [a \in Typists |-> NoBuffer]
    /\ drift' = (drift \cup {p \in Programs : saved[p] # program[p]}) \ FromFiles(saved)
    /\ UNCHANGED <<saved, lockRow>>

Request(a) ==
    \/ a \in Clients /\ (SetOpened(a) \/ \E p \in Programs : GetScript(a, p) \/ ListLibs(a, p))
    \/ \E p \in Programs :
        \/ SetDraft(a, p)
        \/ LockScript(a, p)
        \/ UnlockScript(a, p)
        \/ \E v \in 1..Latest(p) : RevertScript(a, p, v)

Editor(a) ==
    \/ \E p \in Programs : CmdProgram(a, p)
    \/ \E h \in Hunks, w \in Wordings : EditorLine(a, h, w)
    \/ EditorDone(a)
    \/ EditorAbort(a)

Elsewhere ==
    \E p \in Programs :
        \/ ClearScript(p) \/ RemoveLib(p) \/ CmdRmprogram(p) \/ CmdRmscript(p) \/ CmdRmlib(p)
        \/ \E t \in Drafts :
            \/ CmdScript(p, t) \/ CmdLib(p, t) \/ CreateLibrary(p, t)
            \/ Softcode(p, t) \/ CmdProgramLine(p, t)
        \/ \E t \in Drafts \cup {Blank} : ReloadWorld(p, t) \/ Import(p, t)

Next == (\E a \in Accounts : Request(a)) \/ (\E a \in Typists : Editor(a)) \/ Elsewhere \/ Elapse \/ SaveWorld \/ Restart

Spec == Init /\ [][Next]_vars

-----------------------------------------------------------------------------
Lock == [by : Accounts, left : 0..Ttl] \cup {Free}

TypeOK ==
    /\ program \in [Programs -> Program] /\ saved \in [Programs -> Program]
    /\ versions \in [Programs -> Seq([text : Text, from : Nat])]
    /\ lock \in [Programs -> Lock] /\ lockRow \in [Programs -> Lock]
    /\ \A a \in Clients :
        view[a].p \in Programs \cup {"none"} /\ view[a].text \in Text
    /\ buffer \in [Typists -> [p : Scripts \cup {"none"}, text : Text]]
    /\ crashes \in 0..MaxCrashes
    /\ drift \subseteq Programs

(* Whatever publishes, reverts, reloads, merges or crashes, a program is its  *)
(* own latest version, unless its last writer was one that records none       *)
(* (softcode, @script, @lib, a removal, a load or an import that failed       *)
(* half-way) or the crash took it back (record_script_version and its         *)
(* duplicate suppression).                                                    *)
HistoryComplete ==
    \A p \in Programs \ drift :
        Source(p) = IF versions[p] = <<>> THEN Blank ELSE Last(versions[p]).text

(* A builder who has held the edit lock since opening a program finds it as   *)
(* opened, at the version opened, unless a writer that heeds no lock came by, *)
(* be it a load that only records what one before it had left unrecorded:     *)
(* no merge and no conflict awaits the holder (check_edit_lock,               *)
(* renew_edit_lock, LockScript, UnlockScript, expiry, restart).               *)
HolderIsCurrent ==
    \A a \in Clients : LET v == view[a] IN
        v.alone => Source(v.p) = v.text /\ Latest(v.p) = v.version

(* The locks that count in memory are those that count in the database, at    *)
(* every moment: a restart neither frees a program under its holder nor       *)
(* brings a released lock back (save_script_lock, delete_script_lock).        *)
LocksDurable ==
    \A p \in Programs : lock[p].left > 0 \/ lockRow[p].left > 0 => lock[p] = lockRow[p]

(* An edit lock does what it is for: its holder's work is up to date, and it  *)
(* survives a restart (the two above, over values of their types).            *)
EditLocksHold == TypeOK /\ HolderIsCurrent /\ LocksDurable

(* A publication that names the version it was written against never undoes   *)
(* what others published since: a hunk that is not as the client saw it stays *)
(* as it is (resolve_versioned_write, diffy::merge).  Only programs that      *)
(* drifted from their history escape this, before or after being opened: by   *)
(* a crash or by the writers that record no version, of which a load that     *)
(* failed half-way is one (@reload-world, its Err arm).                       *)
NoSilentOverwrite ==
    [][\A a \in Clients : LET v == view[a] IN
        v.version # 0 /\ ~v.drifted /\ v.p \notin drift /\ SetOpened(a)
        => \A h \in Hunks : Source(v.p)[h] # v.text[h] => Source(v.p)'[h] = Source(v.p)[h]]_vars
=============================================================================
