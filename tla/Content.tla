-------------------------------- MODULE Content --------------------------------
(* How the files of a game get into its world and back out: load_game_dir at  *)
(* boot and at @reload-world (loader.rs), @import and @export                 *)
(* (import_export.rs), hearth migrate (migrate.rs), what the engine does with *)
(* them when it starts (Engine::new), and what builders, saves and crashes do *)
(* in between.                                                                *)
(*                                                                            *)
(* A file key is a record: area/base-n, area/script/base-n, or for an exit    *)
(* area/exit/base-n/dir after the room it leaves.  An area has one file; its  *)
(* content is two sequences of definitions, [things |-> rooms and objects,    *)
(* rest |-> exits and scripts], that name other objects by their full key and *)
(* programs by program file.  The texts of an object that files replace as a  *)
(* whole are its `desc`; its attributes and tags, which they only add to, are *)
(* left out.  A hash is the text it is the hash of.                           *)
EXTENDS Migrations, TLC

CONSTANTS
    AreaOrder,   \* the areas, in the order of their file names
    Versions,    \* what the file of each area may contain, NoFile if it may go
    Start,       \* what the game directory contains at first
    ProgFiles,   \* program files of the game directory, named by key
    Texts,       \* program texts
    CmdTexts,    \* those of them that define one and the same command
    Bundles,     \* bundles that may be imported
    Revisions,   \* the migrations, in order of revision
    SpawnKey,    \* spawn_room of the configuration
    LockedAreas, \* locked of the configuration
    LoadFiles,   \* load_world_files of the configuration
    HandMade,    \* kinds of what builders make by hand
    HandWritten, \* kinds of what they write scripts for, and the texts of those
    HandLinked,  \* kinds of what they point at archetypes
    ExportHops,  \* 64
    ArchetypeDepth, \* MAX_ARCHETYPE_DEPTH, 32
    MaxRef,      \* bound on references
    MaxEdits,    \* bound on edits of the game directory
    MaxWork      \* bound on what builders and players do

Areas == ToSet(AreaOrder)

(* What the readers of files and bundles let through: definitions with a key  *)
(* of their own, and exits that say where they are and where they lead.       *)
WellFormed(ds, kinds) ==
    /\ ds \in Seq(ToSet(ds))
    /\ \A d \in ToSet(ds) : /\ d.key # NoKey /\ d.kind \in kinds
                            /\ d.kind = "exit" => NoKey \notin {d.loc, d.to}
InFiles(c) == WellFormed(c.things, {"room", "item", "code"}) /\ WellFormed(c.rest, {"exit", "code"})

(* Only objects with a file key are removed or renamed. *)
OfFiles(mf) ==
    /\ NoKey \notin mf.remove /\ mf.rename \in Seq(ToSet(mf.rename))
    /\ \A op \in ToSet(mf.rename) : NoKey \notin DOMAIN op \cup {op[k] : k \in DOMAIN op}

ASSUME ContentAssumption ==
    /\ \A a \in Areas : \A c \in Versions[a] :
          /\ InFiles(c)
          /\ \A d \in ToSet(c.things) \cup ToSet(c.rest) : d.key.area = a
    /\ \A b \in Bundles : /\ InFiles(b)
                         /\ \A p \in DOMAIN b.texts : b.texts[p] \in Texts \cup {"none"}
    /\ AreaOrder \in Seq(Areas)
    /\ Revisions \in Seq(ToSet(Revisions)) /\ \A mf \in ToSet(Revisions) : OfFiles(mf)
    /\ \A a \in Areas : Start.files[a] \in Versions[a]
    /\ Start.texts \in [ProgFiles -> Texts]
    /\ "unfiled" \notin Areas /\ LockedAreas \subseteq Areas
    /\ CmdTexts \cup HandWritten.texts \subseteq Texts
    /\ HandMade \cup HandWritten.kinds \cup HandLinked \subseteq {"room", "item", "code", "exit"} /\ "none" \notin Texts
    /\ LoadFiles \in BOOLEAN /\ {ArchetypeDepth, MaxRef} \subseteq Nat \ {0}
    /\ {MaxEdits, MaxWork} \subseteq Nat

VARIABLES
    files,       \* the file of each area, NoFile if there is none
    texts,       \* the text of each program file, NoText if there is none
    up,          \* the server runs
    objs,        \* objects of the world
    nextId,      \* last reference given out
    spawn,       \* spawn_room_ref
    hashes,      \* file_hashes
    saved,       \* the world in the database, [objs, nextId]
    savedHashes, \* table file_hashes
    applied,     \* table migrations: number of revisions recorded
    migrating,   \* hearth migrate is between its two transactions
    stamping,    \* history: objects restamped by the revision not recorded yet
    fresh,       \* history: areas loaded since the last save
    doubt,       \* history: areas that a failed load or a crash left in between
    touched,     \* history: keys whose object a builder or a player changed
    doubled,     \* history: keys that a detached object or a revision may have taken
    edits,       \* number of edits of the game directory so far
    work         \* number of things builders and players did

vars == <<files, texts, up, objs, nextId, spawn, hashes, saved, savedHashes,
          applied, migrating, stamping, fresh, doubt, touched, doubled, edits, work>>
diskVars == <<files, texts>>
worldVars == <<objs, nextId>>
migrationVars == <<applied, migrating, stamping>>
dbVars == <<saved, savedHashes, migrationVars>>

Nowhere == 0
NoText == "none"
NoFile == [parses |-> TRUE, absent |-> TRUE, things |-> <<>>, rest |-> <<>>]
NoProgram == [src |-> NoText, origin |-> "none"]
FromFile(t) == [src |-> t, origin |-> "file"]
InGame(t) == [src |-> t, origin |-> "ingame"]

HandName == "thing"
Kinds == {"room", "item", "code", "exit", "player"}
Blank(kind, name) ==
    [fk |-> NoKey, managed |-> FALSE, locked |-> FALSE, kind |-> kind, name |-> name,
     loc |-> Nowhere, to |-> Nowhere, arch |-> Nowhere, desc |-> NoText,
     script |-> NoProgram, lib |-> NoProgram]

(* The members of a set in an order *)
InOrder(S, before(_, _)) ==
    [i \in 1..Cardinality(S) |-> CHOOSE x \in S : Cardinality({y \in S : before(y, x)}) = i - 1]

Put(o, r, x) == [q \in DOMAIN o \cup {r} |-> IF q = r THEN x ELSE o[q]]

----------------------------------------------------------------------------
(* Keys, programs and archetypes *)

(* One reference for each key of a set of objects; a key that two carry may   *)
(* come out as either (a hash map is filled in no particular order).          *)
KeyMaps(o, R) ==
    Selections([k \in {o[r].fk : r \in R} \ {NoKey} |-> {r \in R : o[r].fk = k}])
Managed(o) == {r \in DOMAIN o : o[r].managed}
ManagedKeyMaps(o) == KeyMaps(o, Managed(o))
KeyMapsFromWorld_Managed(o) == KeyMaps(o, Managed(o))
KeyMapsFromWorld(o) == KeyMaps(o, DOMAIN o)

(* A reference by key, resolved or not *)
ResolveKey(km, k) == IF k \in DOMAIN km THEN km[k] ELSE Nowhere
ResolveArchetype(km, k) == ResolveKey(km, k)
Dangles(km, k) == k # NoKey /\ k \notin DOMAIN km

(* A program that a definition names cannot be read *)
Unreadable(prog, txt) == prog # NoKey /\ (prog \notin DOMAIN txt \/ txt[prog] = NoText)

(* The objects that are in their own chain of archetypes lose it. *)
Chain(o, r) ==
    LET up1(S) == S \cup {o[q].arch : q \in S \cap DOMAIN o}
    IN  Along(LAMBDA S, i : up1(S), {o[r].arch}, [i \in 1..Cardinality(DOMAIN o) |-> i])
BreakArchetypeCycles(o) ==
    [r \in DOMAIN o |-> IF o[r].arch # Nowhere /\ r \in Chain(o, r)
                        THEN [o[r] EXCEPT !.arch = Nowhere] ELSE o[r]]

(* would_cycle_archetype looks ArchetypeDepth far. *)
WouldCycle(o, r, a) ==
    LET up1(S) == S \cup {o[q].arch : q \in S \cap DOMAIN o}
    IN  r \in Along(LAMBDA S, i : up1(S), {a}, [i \in 1..(ArchetypeDepth - 1) |-> i])

(* detach_object: what r resolves to becomes its own, the key and the tag     *)
(* system:managed included (system:locked is not inherited), and the programs *)
(* of its archetypes and its own become one, joined to some other text if     *)
(* there are several.  It delegates no more.                                  *)
Under(x, y) ==
    [x EXCEPT !.fk = IF @ = NoKey THEN y.fk ELSE @, !.managed = @ \/ y.managed,
              !.desc = IF @ = NoText THEN y.desc ELSE @]
Sources1(x) == IF x.script.src = NoText THEN <<>> ELSE <<x.script.src>>
Resolved(o, r) ==
    LET step(cur, i) ==
            IF cur.at \notin DOMAIN o \ cur.met THEN cur
            ELSE LET y == o[cur.at]
                 IN  [at |-> y.arch, met |-> cur.met \cup {cur.at},
                      obj |-> Under(cur.obj, y), srcs |-> cur.srcs \o Sources1(y)]
    IN  Along(step, [at |-> o[r].arch, met |-> {r}, obj |-> o[r], srcs |-> Sources1(o[r])],
              [i \in 1..(ArchetypeDepth - 1) |-> i])
Joined(srcs) == IF Len(srcs) = 1 THEN {srcs[1]} ELSE Texts
Flattened(o, r) ==
    LET all == Resolved(o, r)
        x == [all.obj EXCEPT !.arch = Nowhere]
    IN  IF all.srcs = <<>> THEN {x} ELSE {[x EXCEPT !.script = InGame(t)] : t \in Joined(all.srcs)}

(* system:locked on the managed objects of the locked areas, and on no other  *)
(* managed object                                                             *)
StampLocked(o) ==
    [r \in DOMAIN o |->
       IF o[r].managed THEN [o[r] EXCEPT !.locked = o[r].fk.area \in LockedAreas] ELSE o[r]]

----------------------------------------------------------------------------
(* load_game_dir *)

Programs(c) ==
    LET ds == ToSet(c.things) \cup ToSet(c.rest)
    IN  ({d.script : d \in ds} \cup {d.lib : d \in ToSet(c.things)}) \ {NoKey}
Present == {a \in Areas : files[a] # NoFile}

(* Whether the file or a program it names differs from what the hashes        *)
(* remember; a program that is not there has no hash and counts as unchanged. *)
Changed_FileOnly(a, h) == h.files[a] # files[a]
Changed(a, h) ==
    \/ h.files[a] # files[a]
    \/ \E p \in Programs(files[a]) : texts[p] # NoText /\ h.texts[p] # texts[p]

NewHashes ==
    [files |-> files,
     texts |-> [p \in ProgFiles |-> IF \E a \in Present : p \in Programs(files[a])
                                    THEN texts[p] ELSE NoText]]
NoHashes == [files |-> [a \in Areas |-> NoFile], texts |-> [p \in ProgFiles |-> NoText]]

(* A script edited in game shadows the file's; a File library that the file   *)
(* no longer names goes.  `ok` is false when a program cannot be read.        *)
InstallScript_Overwrites(o, d) ==
    IF Unreadable(d.script, texts) \/ Unreadable(d.lib, texts) THEN [ok |-> FALSE, obj |-> o]
    ELSE [ok |-> TRUE,
          obj |-> [o EXCEPT !.script = IF d.script = NoKey THEN NoProgram ELSE FromFile(texts[d.script]),
                            !.lib = IF d.lib = NoKey THEN NoProgram ELSE FromFile(texts[d.lib])]]
InstallScript(o, d) ==
    LET shadowed == o.script.origin = "ingame"
        shadowedLib == o.lib.origin = "ingame"
        badScript == ~shadowed /\ Unreadable(d.script, texts)
        badLib == ~shadowedLib /\ Unreadable(d.lib, texts)
        script == IF shadowed \/ badScript THEN o.script
                  ELSE IF d.script = NoKey THEN NoProgram ELSE FromFile(texts[d.script])
        lib == IF shadowedLib THEN o.lib
               ELSE IF badScript THEN o.lib
               ELSE IF d.lib = NoKey \/ badLib THEN NoProgram ELSE FromFile(texts[d.lib])
    IN  [ok |-> ~badScript /\ ~badLib, obj |-> [o EXCEPT !.script = script, !.lib = lib]]

(* Pass 1: a reference for every thing of the changed areas *)
Assign_Always(st, d) ==
    [st EXCEPT !.next = st.next + 1, !.km = Put(st.km, d.key, st.next + 1)]
Assign(st, d) ==
    IF d.key \in DOMAIN st.km THEN st
    ELSE [st EXCEPT !.next = st.next + 1, !.km = Put(st.km, d.key, st.next + 1)]

Assigned(st, ds) == Along(Assign, st, ds)

(* What a definition says of an object besides its programs *)
Described(o, d, km) ==
    IF d.kind = "exit" THEN [o EXCEPT !.loc = km[d.loc], !.to = km[d.to]]
    ELSE IF d.key.sub = "script" THEN o
    ELSE [o EXCEPT !.kind = IF d.kind = "room" THEN @ ELSE d.kind, !.desc = d.desc,
                   !.loc = IF d.loc = NoKey THEN o.loc ELSE km[d.loc],
                   !.arch = ResolveArchetype(km, d.arch)]

(* An object that is there is described before its programs are read; a new   *)
(* one is added only if they can be.                                          *)
Made(d) == [Blank(d.kind, d.key.base) EXCEPT !.fk = d.key, !.managed = TRUE]
Loaded(st, r, res) ==
    IF res.ok \/ r \in DOMAIN st.objs
    THEN [st EXCEPT !.objs = Put(st.objs, r, res.obj), !.ok = res.ok]
    ELSE [st EXCEPT !.ok = FALSE]
LoadInto(st, d, r) ==
    LET before == IF r \in DOMAIN st.objs THEN st.objs[r] ELSE Made(d)
    IN  Loaded(st, r, InstallScript(Described(before, d, st.km), d))

(* Pass 2: rooms and objects.  The first error ends the load. *)
LoadThing(st, d) ==
    IF ~st.ok THEN st
    ELSE IF Dangles(st.km, d.loc) THEN [st EXCEPT !.ok = FALSE]
    ELSE LoadInto(st, d, st.km[d.key])

(* Exits and scripts: their references are given out as they are met, and     *)
(* again for one whose key is known but whose object is not there.            *)
IfNew(st, d) ==
    IF d.key \in DOMAIN st.km /\ st.km[d.key] \in DOMAIN st.objs THEN st
    ELSE [st EXCEPT !.next = st.next + 1, !.km = Put(st.km, d.key, st.next + 1)]
LoadRest(st, d) ==
    IF ~st.ok THEN st
    ELSE IF Dangles(st.km, d.loc) \/ Dangles(st.km, d.to) THEN [st EXCEPT !.ok = FALSE]
    ELSE IF d.key.sub = "script" /\ Unreadable(d.script, texts) THEN [st EXCEPT !.ok = FALSE]
    ELSE LET at == IfNew(st, d) IN LoadInto(at, d, at.km[d.key])

(* The areas a load applies, or half-applies if it fails in the middle: those *)
(* it finds changed                                                           *)
HalfDone(h) == {a \in Present : Changed(a, h)}

(* What a load makes of the world: nothing at all when a file cannot be       *)
(* parsed, and what it had done when it met an error half-way.                *)
Things(areas) == Along(LAMBDA ds, a : IF a \in areas THEN ds \o files[a].things ELSE ds, <<>>, AreaOrder)
Rest(areas) == Along(LAMBDA ds, a : IF a \in areas THEN ds \o files[a].rest ELSE ds, <<>>, AreaOrder)
ThingsLoaded(st, ds) == Along(LoadThing, st, ds)
RestLoaded(st, ds) == Along(LoadRest, st, ds)
LoadAreas(start, areas) ==
    RestLoaded(ThingsLoaded(Assigned(start, Things(areas)), Things(areas)), Rest(areas))
Acyclic(st) == IF st.ok THEN [st EXCEPT !.objs = BreakArchetypeCycles(st.objs)] ELSE st
Load(o, next, km, h) ==
    LET start == [objs |-> o, next |-> next, km |-> km, ok |-> TRUE]
    IN  IF Present = {} THEN [start EXCEPT !.km = << >>]
        ELSE IF \E a \in Present : ~files[a].parses THEN [start EXCEPT !.ok = FALSE]
        ELSE Acyclic(LoadAreas(start, HalfDone(h)))

----------------------------------------------------------------------------
(* import_bundle.  A bundle is [things, rest, texts], its areas one after the *)
(* other.                                                                     *)

DefsOf(b) == ToSet(b.things) \cup ToSet(b.rest)

(* What refuses a bundle before anything is written: one identity declared    *)
(* twice, one command defined by two rooms or objects, a program of theirs    *)
(* that cannot be read.                                                       *)
Collides(b) ==
    \/ \E d \in ToSet(b.things) : Unreadable(d.script, b.texts)
    \/ LET all == b.things \o b.rest
       IN  \E i, j \in DOMAIN all : i # j /\ all[i].key = all[j].key
    \/ \E d, e \in ToSet(b.things) :
          /\ d.key # e.key /\ d.script # NoKey /\ e.script # NoKey
          /\ b.texts[d.script] \in CmdTexts /\ b.texts[e.script] \in CmdTexts

(* An in-game script or library stays; a script the bundle does not name      *)
(* stays too, a File library it does not name goes.                           *)
ResolveScript(o, d, b) ==
    LET keepsScript == d.script = NoKey \/ o.script.origin = "ingame"
        badScript == Unreadable(d.script, b.texts)
        script == IF keepsScript \/ badScript THEN o.script ELSE FromFile(b.texts[d.script])
        badLib == Unreadable(d.lib, b.texts)
        lib == IF o.lib.origin = "ingame" \/ badScript THEN o.lib
               ELSE IF d.lib = NoKey \/ badLib THEN NoProgram ELSE FromFile(b.texts[d.lib])
    IN  [ok |-> ~badScript /\ ~badLib, obj |-> [o EXCEPT !.script = script, !.lib = lib]]

(* An object is added, or brought up to date, before its programs are read.   *)
Imported(st, d, r, res) ==
    LET isNew == r \notin DOMAIN st.objs
    IN  [st EXCEPT !.objs = Put(st.objs, r, res.obj), !.ok = res.ok,
                   !.created = IF isNew /\ res.ok THEN @ \cup {d.key} ELSE @]
ImportInto(st, d, r, b) ==
    LET before == IF r \in DOMAIN st.objs THEN st.objs[r]
                  ELSE [Blank(d.kind, d.key.base) EXCEPT !.fk = d.key]
        kept == [Described(before, d, st.km) EXCEPT !.kind = before.kind]
    IN  Imported(st, d, r, ResolveScript(kept, d, b))

(* Rooms and objects; the first error ends the import, what it had done stays. *)
ImportThing(st, d, b) ==
    IF ~st.ok THEN st
    ELSE IF Dangles(st.km, d.loc) THEN [st EXCEPT !.ok = FALSE]
    ELSE ImportInto(st, d, st.km[d.key], b)

(* Exits and scripts, after the circles of archetypes are broken *)
ImportRest(st, d, b) ==
    IF ~st.ok THEN st
    ELSE IF Dangles(st.km, d.loc) \/ Dangles(st.km, d.to) THEN [st EXCEPT !.ok = FALSE]
    ELSE LET at == IfNew(st, d) IN ImportInto(at, d, at.km[d.key], b)

ImportThings(b, start) == Along(LAMBDA st, d : ImportThing(st, d, b), start, b.things)
ImportRests(b, start) == Along(LAMBDA st, d : ImportRest(st, d, b), start, b.rest)
Import(b, o, next, km) ==
    LET start == [objs |-> o, next |-> next, km |-> km, ok |-> TRUE, created |-> {}]
    IN  IF Collides(b) THEN [start EXCEPT !.ok = FALSE]
        ELSE ImportRests(b, Acyclic(ImportThings(b, Assigned(start, b.things))))
Imports(b, o, next) == {Import(b, o, next, km) : km \in KeyMapsFromWorld(o)}

----------------------------------------------------------------------------
(* export_bundle *)

Unfiled == "unfiled"
ThingKey(area, base, n) == [area |-> area, sub |-> "", base |-> base, n |-> n, dir |-> ""]
ScriptKey(area, base, n) == [area |-> area, sub |-> "script", base |-> base, n |-> n, dir |-> ""]
ExitKey(area, from, dir) == [area |-> area, sub |-> "exit", base |-> from.base, n |-> from.n, dir |-> dir]

(* base, base-2, base-3 ...: the first that nothing uses *)
DedupeKey(o, first) ==
    LET free == {n \in 1..Cardinality(DOMAIN o) + 1 : [first EXCEPT !.n = n] \notin KeysOf(o)}
    IN  [first EXCEPT !.n = CHOOSE n \in free : \A k \in free : n <= k]

(* The area of the nearest thing around it that has a key, ExportHops at most;*)
(* none beyond a room                                                         *)
ResolveExportArea(o, r) ==
    LET step(cur, i) ==
            IF cur.done THEN cur
            ELSE IF cur.at \notin DOMAIN o THEN [cur EXCEPT !.done = TRUE]
            ELSE IF o[cur.at].fk # NoKey
                 THEN [cur EXCEPT !.area = o[cur.at].fk.area, !.done = TRUE]
            ELSE IF o[cur.at].kind \in {"room", "code"} THEN [cur EXCEPT !.done = TRUE]
            ELSE [cur EXCEPT !.at = o[cur.at].loc]
    IN  Along(step, [at |-> r, area |-> Unfiled, done |-> FALSE], [i \in 1..ExportHops |-> i]).area

StampOne(o, r) ==
    LET x == o[r]
        area == ResolveExportArea(o, r)
        key == CASE x.kind = "room" -> DedupeKey(o, ThingKey(Unfiled, x.name, 1))
                 [] x.kind = "item" -> DedupeKey(o, ThingKey(area, x.name, 1))
                 [] x.kind = "code" -> DedupeKey(o, ScriptKey(Unfiled, x.name, 1))
                 [] x.kind = "exit" /\ x.loc \in DOMAIN o ->
                       ExitKey(o[x.loc].fk.area, o[x.loc].fk, x.name)
                 [] OTHER -> NoKey
    IN  IF x.kind = "exit" /\ key \in KeysOf(o) THEN o ELSE [o EXCEPT ![r].fk = key]

Stamped(o, order) == Along(StampOne, o, order)

(* Everything but players gets a key: rooms first, exits last, each kind in   *)
(* the order of references; a second exit of one room and direction gets none.*)
StampMissingIdentities(o) ==
    LET rank == [k \in Kinds |-> CASE k = "room" -> 1 [] k = "item" -> 2 [] k = "code" -> 3
                                   [] k = "exit" -> 4 [] OTHER -> 5]
        todo == {r \in DOMAIN o : o[r].fk = NoKey /\ o[r].kind # "player"}
        before(q, r) == \/ rank[o[q].kind] < rank[o[r].kind]
                        \/ rank[o[q].kind] = rank[o[r].kind] /\ q < r
    IN  Stamped(o, InOrder(todo, before))

KeyOf(o, r) == IF r \in DOMAIN o THEN o[r].fk ELSE NoKey

(* An object as a definition; its program goes to a file named after its key. *)
(* A script is written as an object: a definition of a script has no place    *)
(* for libraries.                                                             *)
Definition_FileOnly(o, r) ==
    LET x == o[r]
        key == CASE x.kind = "exit" -> ExitKey(x.fk.area, KeyOf(o, x.loc), x.name)
                 [] OTHER -> ThingKey(x.fk.area, x.fk.base, x.fk.n)
        prog(p, lib) == IF p.origin # "file" THEN NoKey ELSE [key EXCEPT !.sub = lib]
    IN  [key |-> key, kind |-> x.kind, desc |-> x.desc,
         loc |-> IF x.kind = "room" THEN NoKey ELSE KeyOf(o, x.loc),
         to |-> KeyOf(o, x.to), arch |-> KeyOf(o, x.arch),
         script |-> prog(x.script, "file"), lib |-> prog(x.lib, "lib")]
Definition(o, r) ==
    LET x == o[r]
        key == CASE x.kind = "exit" -> ExitKey(x.fk.area, KeyOf(o, x.loc), x.name)
                 [] OTHER -> ThingKey(x.fk.area, x.fk.base, x.fk.n)
        prog(p, lib) == IF p = NoProgram THEN NoKey ELSE [key EXCEPT !.sub = lib]
    IN  [key |-> key, kind |-> x.kind, desc |-> x.desc,
         loc |-> IF x.kind = "room" THEN NoKey ELSE KeyOf(o, x.loc),
         to |-> KeyOf(o, x.to), arch |-> KeyOf(o, x.arch),
         script |-> prog(x.script, "file"), lib |-> prog(x.lib, "lib")]

(* What cannot be said in a file is skipped: an exit whose ends have no key,  *)
(* and what is carried by a player or is in something without one.            *)
Exportable(o) ==
    {r \in DOMAIN o :
        /\ o[r].kind # "player" /\ o[r].fk # NoKey
        /\ o[r].kind = "exit" => KeyOf(o, o[r].loc) # NoKey /\ KeyOf(o, o[r].to) # NoKey
        /\ o[r].kind = "item" => o[r].loc = Nowhere \/ KeyOf(o, o[r].loc) # NoKey}

WriteScripts(o, out) ==
    LET written == UNION {{Definition(o, r).script, Definition(o, r).lib} : r \in out} \ {NoKey}
        src(r, f) == IF f.sub = "lib" THEN o[r].lib.src ELSE o[r].script.src
    IN  [f \in written |->
           CHOOSE t \in Texts : \E r \in out : /\ f \in {Definition(o, r).script, Definition(o, r).lib}
                                               /\ t = src(r, f)]
Written(o, out) ==
    LET defs(R) == Along(LAMBDA ds, r : Append(ds, Definition(o, r)), <<>>, InOrder(R, <))
        exits == {r \in out : o[r].kind = "exit"}
    IN  [things |-> defs(out \ exits), rest |-> defs(exits), texts |-> WriteScripts(o, out)]
ExportBundle(o) == Written(o, Exportable(o))

----------------------------------------------------------------------------
(* The server and its database *)

Down == /\ up' = FALSE /\ objs' = << >> /\ nextId' = 0 /\ spawn' = Nowhere
        /\ hashes' = NoHashes

(* A fresh database holds the administrator's character. *)
FreshWorld == [objs |-> [r \in {1} |-> Blank("player", "root")], next |-> 1]

Init ==
    /\ files = Start.files /\ texts = Start.texts
    /\ up = FALSE /\ objs = << >> /\ nextId = 0 /\ spawn = Nowhere /\ hashes = NoHashes
    /\ saved = FreshWorld /\ savedHashes = NoHashes
    /\ applied = 0 /\ migrating = FALSE /\ stamping = {}
    /\ fresh = {} /\ doubt = {} /\ touched = {} /\ doubled = {} /\ edits = 0 /\ work = 0

Unsure(st, h) ==
    IF st.ok THEN doubt \ HalfDone(h)
    ELSE IF \A a \in Present : files[a].parses THEN doubt \cup HalfDone(h) ELSE doubt

(* A load brings the objects of the areas it found changed back to the files. *)
Reloaded(h) == {k \in touched : k.area \notin HalfDone(h)}

(* Engine::new: the world of the database, the changed files loaded into it   *)
(* and their hashes stored at once, the locked areas stamped, the spawn room  *)
(* found under its key or made.  The keys are those of the load when there    *)
(* was one, those of the world when files are not loaded or the load failed.  *)
BootLoads ==
    IF LoadFiles THEN {Load(saved.objs, saved.next, km, savedHashes) : km \in ManagedKeyMaps(saved.objs)}
    ELSE {[objs |-> saved.objs, next |-> saved.next, km |-> << >>, ok |-> FALSE]}

Spawn(st, km) ==
    IF SpawnKey \in DOMAIN km
    THEN [objs |-> StampLocked(st.objs), next |-> st.next, room |-> km[SpawnKey]]
    ELSE [objs |-> Put(StampLocked(st.objs), st.next + 1, Blank("room", SpawnKey.base)),
          next |-> st.next + 1, room |-> st.next + 1]

Boot ==
    /\ ~up /\ ~migrating /\ up' = TRUE
    /\ \E st \in BootLoads, kmAll \in KeyMapsFromWorld(saved.objs) :
          \E born \in {Spawn(st, IF st.ok THEN st.km ELSE kmAll)} :
              /\ born.next <= MaxRef
              /\ objs' = born.objs /\ nextId' = born.next /\ spawn' = born.room
              /\ hashes' = IF st.ok THEN NewHashes ELSE savedHashes
              /\ savedHashes' = hashes'
              /\ doubt' = IF LoadFiles THEN Unsure(st, savedHashes) ELSE doubt
              /\ touched' = IF st.ok THEN Reloaded(savedHashes) ELSE touched
              /\ fresh' = IF LoadFiles THEN HalfDone(savedHashes) ELSE {}
    /\ UNCHANGED <<files, texts, saved, migrationVars, doubled, edits, work>>

(* @reload-world: the same load into the live world, nothing else when it fails *)
ReloadWorld ==
    /\ up
    /\ \E st \in {Load(objs, nextId, km, hashes) : km \in ManagedKeyMaps(objs)} :
          /\ st.next <= MaxRef
          /\ objs' = IF st.ok THEN StampLocked(st.objs) ELSE st.objs
          /\ nextId' = st.next
          /\ spawn' = IF st.ok /\ SpawnKey \in DOMAIN st.km THEN st.km[SpawnKey] ELSE spawn
          /\ hashes' = IF st.ok THEN NewHashes ELSE hashes
          /\ savedHashes' = IF st.ok THEN hashes' ELSE savedHashes
          /\ doubt' = Unsure(st, hashes)
          /\ touched' = IF st.ok THEN Reloaded(hashes) ELSE touched
          /\ fresh' = fresh \cup HalfDone(hashes)
    /\ UNCHANGED <<files, texts, up, saved, migrationVars, doubled, edits, work>>

(* @import and POST /api/import; a dry run works on a copy of the world.      *)
ImportBundle(b) ==
    /\ up
    /\ \E st \in Imports(b, objs, nextId) :
          /\ st.next <= MaxRef
          /\ objs' = st.objs /\ nextId' = st.next
          /\ touched' = IF Collides(b) THEN touched ELSE touched \cup {d.key : d \in DefsOf(b)}
    /\ UNCHANGED <<files, texts, up, spawn, hashes, dbVars, fresh, doubt, doubled, edits, work>>

(* @export and POST /api/export: the objects without a key are given one. *)
Export ==
    /\ up
    /\ objs' = StampMissingIdentities(objs)
    /\ UNCHANGED <<files, texts, up, nextId, spawn, hashes, dbVars, fresh, doubt, touched, doubled,
                   edits, work>>

(* Builders, players and their scripts, which no lock stops: a script written *)
(* in the game, an item picked up, a thing made by hand, one pointed at an    *)
(* archetype, one detached from it, one removed (here: one that nothing is in *)
(* or leads to, and in no circle of archetypes).                              *)
TouchAll(R) == touched' = touched \cup ({objs[r].fk : r \in R} \ {NoKey})
Touch(r) == TouchAll({r})
Work == /\ up /\ work < MaxWork /\ work' = work + 1
        /\ UNCHANGED <<files, texts, up, spawn, hashes, dbVars, fresh, doubt, edits>>

WriteScript(r, t) ==
    /\ Work /\ r \in DOMAIN objs /\ objs[r].kind \in HandWritten.kinds
    /\ objs' = [objs EXCEPT ![r].script = InGame(t)]
    /\ Touch(r) /\ UNCHANGED <<nextId, doubled>>

PickUp(r) ==
    /\ Work /\ r \in DOMAIN objs /\ objs[r].kind = "item" /\ ~objs[r].locked
    /\ objs' = [objs EXCEPT ![r].loc = 1]
    /\ Touch(r) /\ UNCHANGED <<nextId, doubled>>

CreateByHand(kind, name) ==
    /\ Work /\ nextId < MaxRef
    /\ objs' = Put(objs, nextId + 1, Blank(kind, name)) /\ nextId' = nextId + 1
    /\ UNCHANGED <<touched, doubled>>

(* Intent::SetArchetype, also with no archetype *)
Delegate(r, a) ==
    /\ Work /\ r \in DOMAIN objs /\ objs[r].kind \in HandLinked /\ a \in DOMAIN objs \cup {Nowhere}
    /\ ~WouldCycle(objs, r, a)
    /\ objs' = [objs EXCEPT ![r].arch = a]
    /\ Touch(r) /\ UNCHANGED <<nextId, doubled>>

(* The keys under which something comes to be made by files *)
Adopted(o, p) == {p[r].fk : r \in Managed(p) \ Managed(o)}

Detach(r) ==
    /\ Work /\ r \in DOMAIN objs /\ objs[r].arch # Nowhere
    /\ \E x \in Flattened(objs, r) : objs' = [objs EXCEPT ![r] = x]
    /\ doubled' = doubled \cup Adopted(objs, objs')
    /\ Touch(r) /\ UNCHANGED nextId

(* Intent::Destroy with cascade: the instances are flattened first. *)
Destroy(r) ==
    /\ Work /\ r \in DOMAIN objs /\ objs[r].kind # "player" /\ r # spawn
    /\ \A q \in DOMAIN objs : r \notin {objs[q].loc, objs[q].to}
    /\ r \notin Chain(objs, r)
    /\ LET instances == {q \in DOMAIN objs : objs[q].arch = r}
       IN  /\ \E flat \in Selections([q \in instances |-> Flattened(objs, q)]) :
                 objs' = [q \in DOMAIN objs \ {r} |-> IF q \in instances THEN flat[q] ELSE objs[q]]
           /\ TouchAll({r} \cup instances)
    /\ doubled' = doubled \cup Adopted(objs, objs')
    /\ UNCHANGED nextId

(* do_save, as far as content goes *)
Save ==
    /\ up
    /\ saved' = [objs |-> objs, next |-> nextId]
    /\ UNCHANGED <<files, texts, up, worldVars, spawn, hashes, savedHashes,
                   migrationVars, doubt, touched, doubled, edits, work>>
    /\ fresh' = {}

(* A shutdown saves.  A crash leaves in the database the world of the last    *)
(* save and the hashes of the last load: the areas that were loaded since are *)
(* in doubt.                                                                  *)
Shutdown ==
    /\ up /\ Down
    /\ saved' = [objs |-> objs, next |-> nextId]
    /\ fresh' = {}
    /\ UNCHANGED <<files, texts, savedHashes, migrationVars, doubt, touched, doubled, edits, work>>

Crash ==
    /\ up /\ Down
    /\ doubt' = doubt \cup fresh /\ fresh' = {}
    /\ UNCHANGED <<files, texts, dbVars, touched, doubled, edits, work>>

(* hearth migrate, with the server down: the next revision planned on the     *)
(* world of the database and saved, then recorded, in two transactions.  A    *)
(* revision that is refused ends the command.                                 *)
MigrateWorld ==
    /\ ~up /\ ~migrating /\ applied < Len(Revisions)
    /\ LET mf == Revisions[applied + 1]
       IN  \E plan \in Plans(saved.objs, mf) :
              /\ plan.ok
              /\ saved' = [saved EXCEPT !.objs = ApplyOne(saved.objs, mf, plan)]
              /\ stamping' = Restamped(plan)
              /\ touched' = touched \cup KeysOf(saved.objs)
              /\ doubled' = doubled \cup Overrun(mf, plan)
    /\ migrating' = TRUE
    /\ UNCHANGED <<files, texts, up, worldVars, spawn, hashes, savedHashes, applied,
                   fresh, doubt, edits, work>>

MigrateRecord ==
    /\ migrating
    /\ applied' = applied + 1 /\ migrating' = FALSE /\ stamping' = {}
    /\ UNCHANGED <<files, texts, up, worldVars, spawn, hashes, saved, savedHashes,
                   fresh, doubt, touched, doubled, edits, work>>

MigrateDies ==
    /\ migrating
    /\ migrating' = FALSE
    /\ UNCHANGED <<files, texts, up, worldVars, spawn, hashes, saved, savedHashes, applied,
                   stamping, fresh, doubt, touched, doubled, edits, work>>

(* Someone edits the game directory. *)
Edit == edits < MaxEdits /\ edits' = edits + 1 /\ UNCHANGED work

EditFile(a) ==
    /\ Edit
    /\ \E c \in Versions[a] \ {files[a]} : files' = [files EXCEPT ![a] = c]
    /\ UNCHANGED <<texts, up, worldVars, spawn, hashes, dbVars, fresh, doubt, touched, doubled>>

EditText(p) ==
    /\ Edit
    /\ \E t \in (Texts \cup {NoText}) \ {texts[p]} : texts' = [texts EXCEPT ![p] = t]
    /\ UNCHANGED <<files, up, worldVars, spawn, hashes, dbVars, fresh, doubt, touched, doubled>>

Next ==
    \/ Boot \/ ReloadWorld \/ Export
    \/ \E b \in Bundles : ImportBundle(b)
    \/ \E r \in 1..MaxRef :
          \/ PickUp(r) \/ Detach(r) \/ Destroy(r)
          \/ \E t \in HandWritten.texts : WriteScript(r, t)
          \/ \E a \in 0..MaxRef : Delegate(r, a)
    \/ \E kind \in HandMade : CreateByHand(kind, HandName)
    \/ Save \/ Shutdown \/ Crash
    \/ MigrateWorld \/ MigrateRecord \/ MigrateDies
    \/ \E a \in Areas : EditFile(a)
    \/ \E p \in ProgFiles : EditText(p)

Spec == Init /\ [][Next]_vars

----------------------------------------------------------------------------
(* Properties *)

Origins == {"file", "ingame"}
Program == {NoProgram} \cup [src : Texts, origin : Origins]
TypeOK ==
    /\ DOMAIN objs \subseteq 1..nextId /\ nextId \in 0..MaxRef /\ spawn \in 0..MaxRef
    /\ \A r \in DOMAIN objs :
          /\ objs[r].kind \in Kinds /\ objs[r].script \in Program /\ objs[r].lib \in Program
          /\ {objs[r].loc, objs[r].to, objs[r].arch} \subseteq 0..MaxRef
    /\ applied \in 0..Len(Revisions) /\ {up, migrating} \subseteq BOOLEAN
    /\ doubt \subseteq Areas /\ fresh \subseteq Areas

(* Of all the objects that files have made, or that pass for such, no two     *)
(* carry one file key, in memory or in the database, whatever was loaded,     *)
(* imported, exported, removed, renamed by a migration or lost in a crash:    *)
(* the loader finds again what it made and never makes it a second time       *)
(* (load_game_dir, pass 1).  Two things give a key a second time: an object   *)
(* detached from an archetype that files have made becomes one of theirs, also*)
(* under the archetype's key (detach_object), and a revision that names one   *)
(* source in two operations renames onto keys that are taken (migrate.rs:274).*)
(* The loader adds nothing to these.  A builder who writes the attribute      *)
(* _file_key or the tag system:managed himself is left out.                   *)
ManagedKeysUnique ==
    \A o \in {objs, saved.objs} : \A q, r \in Managed(o) :
        o[q].fk = o[r].fk => q = r \/ o[q].fk \in doubled

(* The world is one the loader can work with: unique keys, values of their    *)
(* types, references that were handed out (World::next_dbref).                *)
WorldKeyed == TypeOK /\ ManagedKeysUnique

(* Whether the world has an object as its definition says, up to what builders*)
(* and players do                                                             *)
Installed(o, d) ==
    \E r \in Managed(o) :
        /\ o[r].fk = d.key
        /\ \/ o[r].script.origin = "ingame" \/ Unreadable(d.script, texts)
           \/ o[r].script = IF d.script = NoKey THEN NoProgram ELSE FromFile(texts[d.script])
        /\ d.kind # "exit" /\ d.key.sub # "script" => o[r].desc = d.desc
        /\ d.kind = "exit" => KeyOf(o, o[r].loc) = d.loc /\ KeyOf(o, o[r].to) = d.to

(* What the loader would skip as unchanged is in the world as its file says:  *)
(* the hashes never claim more than was loaded.  Not so for an area in doubt: *)
(* one whose load failed half-way (the old hashes stay, and the old file put  *)
(* back is skipped with half of the new one in the world), or one loaded      *)
(* after the last save before a crash (the hashes are stored at once, the     *)
(* objects are not).                                                          *)
HashesTellTruth ==
    up => \A a \in Present \ doubt :
             ~Changed(a, hashes) => \A d \in ToSet(files[a].things) \cup ToSet(files[a].rest) :
                                       d.key \in touched \/ Installed(objs, d)

(* A script that a builder wrote in the game is replaced only by another one  *)
(* written in the game, and goes only with its object, whatever is loaded,    *)
(* imported, exported, detached, saved or migrated; a crash takes back what   *)
(* was not saved (install_script, resolve_one_script, detach_object).         *)
Live == IF up THEN objs ELSE saved.objs
EditsSurvive ==
    [][~(up /\ ~up' /\ saved' = saved) =>
         \A r \in DOMAIN Live \cap DOMAIN Live' :
            Live[r].script.origin = "ingame" => Live'[r].script.origin = "ingame"]_vars

(* Importing again what has just been imported creates nothing, and changes   *)
(* nothing when no key is carried twice and the archetypes it declares have   *)
(* come into force (docs/commands.md:204).  Those of a circle through an      *)
(* object outside the bundle, and those made after the objects that name      *)
(* them, do so the second time.                                               *)
KeysUnique(o) == \A q, r \in DOMAIN o : o[q].fk = o[r].fk /\ o[q].fk # NoKey => q = r
ArchetypesSet(b, o) ==
    \A d \in ToSet(b.things) : \A r \in DOMAIN o :
       o[r].fk = d.key => KeyOf(o, o[r].arch) = d.arch \/ d.arch \notin KeysOf(o)
Again(b) ==
    \A once \in Imports(b, objs, nextId) :
       once.ok => \A twice \in Imports(b, once.objs, once.next) :
                     /\ twice.created = {}
                     /\ KeysUnique(objs) /\ ArchetypesSet(b, once.objs) => twice.objs = once.objs
ImportSettles == up => \A b \in Bundles : Again(b)

(* What an export writes can be imported into an empty database and gives     *)
(* back everything it wrote: what disaster recovery relies on                 *)
(* (docs/commands.md:275).  Not so when two objects carry one key (a room     *)
(* made twice over REST), when one carries a key of another kind (after it was*)
(* detached or renamed), when a script and an object have one name, when one  *)
(* command is on two objects, or when something is inside what a player       *)
(* carries: the container is skipped, its contents are written.               *)
Restorable(o) ==
    /\ KeysUnique(o)
    /\ \A r \in DOMAIN o : o[r].fk # NoKey =>
          (o[r].kind = "exit" <=> o[r].fk.sub = "exit") /\ (o[r].kind = "code" <=> o[r].fk.sub = "script")
    /\ \A q, r \in DOMAIN o : q # r /\ o[q].fk # NoKey /\ o[r].fk # NoKey /\ o[q].kind # "exit"
          => [o[q].fk EXCEPT !.sub = ""] # o[r].fk
    /\ Cardinality({r \in DOMAIN o : o[r].kind # "exit" /\ o[r].script.src \in CmdTexts}) <= 1
    /\ \A r \in Exportable(o) : {o[r].loc, o[r].to} \subseteq Exportable(o) \cup {Nowhere}
Recovers(o) ==
    \A st \in {Import(ExportBundle(o), FreshWorld.objs, FreshWorld.next, << >>)} :
       /\ st.ok
       /\ \A r \in Exportable(o) :
             \E q \in DOMAIN st.objs :
                /\ st.objs[q].fk = Definition(o, r).key
                /\ st.objs[q].script.src = o[r].script.src
                /\ KeyOf(st.objs, st.objs[q].loc) =
                      IF o[r].kind = "room" \/ o[r].loc = Nowhere THEN NoKey
                      ELSE Definition(o, o[r].loc).key
ExportRestores == up => \A o \in {StampMissingIdentities(objs)} : Restorable(o) => Recovers(o)

(* hearth migrate is "safe to re-run" (docs/migrations.md:29, migrate.rs:25): *)
(* a revision never removes what it has itself put under a new key.           *)
SafeToRerun ==
    [][MigrateWorld => stamping \cap DOMAIN saved.objs \subseteq DOMAIN saved'.objs]_vars
================================================================================
