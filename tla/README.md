# A verification development for Hearth

Hearth is a MUD engine: one Rust process that keeps a world of objects in memory,
runs Luau scripts on it, serves players over telnet and builders over HTTP, and
checkpoints everything to SQLite. This directory holds TLA+ models of it, the TLC
runs that check them on small instances, and proofs of the results that hold on
every instance.

## 1. The system

### Parts, their state and their operations

| Component | State | Operations | Where | Module |
|---|---|---|---|---|
| World store | objects, `next_id`, change set (`dirty`), location index (`children`) | `next_dbref`, `add_object`, `remove_object`, `get_mut`, `relocate`, `drain_dirty`, `save_world_delta`, `load_world` | `world/mod.rs`, `db.rs` | WorldStore |
| Tick scheduler | `tick_count`, `scheduled_hooks` | `do_tick`, `after`, `cancel_after` | `engine/mod.rs` | Scheduler |
| Game clock | minutes since the beginning | `advance_clock` | `clock.rs`, `engine/mod.rs` | Clock |
| Sessions and accounts | the state of each connection, characters of each account | connect, login, create, select, enter, switch, delete, boot, puppet | `engine/mod.rs`, `accounts.rs` | Sessions |
| Object graph | who contains, delegates to and owns whom | the intents of a batch, applied all or none | `softcode/mod.rs` | ObjectGraph, Intents |
| Hook dispatch | `trigger_depth`, `force_depth`, the call stack | `fire_hook`, `deliver_effects`, `dispatch_as_actor` | `engine/mod.rs` | HookDispatch |
| Hook table | scripts and their state; `DerivedIndexes`; `commands_cache` | `resolve_script`, `indexes`, `send_commands`, `detach_object`, `write_back_script_state` | `softcode/hooks.rs`, `engine/mod.rs` | Hooks |
| Built-in commands | none of their own | get, put, drop, go, use, look, say, ... with `can_*` and `on_*` hooks around each | `engine/mod.rs` | HookedCommands |
| Authoring | programs, version history, edit locks, editors | publish, merge, claim, renew, force, revert, `@program`, `@script` | `engine/mod.rs`, `db.rs` | Programs |
| Permissions | scopes, API tokens, `system:locked`, `system:global`, owners | grant, revoke, tokens, every authoring command and request | `engine/`, `accounts.rs` | Authority |
| Content files | managed objects, file hashes, import baselines | `load_game_dir`, `@reload-world`, `@import`, `@export` | `loader.rs`, `import_export.rs` | Content |
| Schema migrations | applied revisions | `hearth migrate` | `migrate.rs` | Migrations, Content |
| Database | rows of objects, accounts, timers, tokens, versions, edit locks, hashes | one transaction per kind of thing | `db.rs` | by the module that owns the thing |
| Script hosts | snapshot, pending batch, reserved dbrefs, ink stories, library caches | the Luau API, `require`, ink | `softcode/` | Intents, Modules, Softcode |
| Maps, grids, dungeons | templates, generated rooms | path finding, sight, instantiation, generation, sound | `grid.rs`, `map_template.rs`, `dungeon.rs` | Grid, MapTemplate, Dungeon, Sound |
| Locks | an expression per object and action | parse, evaluate | `locks.rs` | Locks |
| Network | one task per connection | telnet parsing and negotiation, web sockets, HTTP | `net/` | Telnet |
| Text, configuration, command line | - | formatting, parsing, start-up | `markup.rs`, `config.rs`, `cli.rs`, ... | - |
| User interface and clients | - | - | `web/`, `clients/`, `lib/`, `plugins/` | - |

The engine task owns all state but the connections. The network tasks send it messages
over an unbounded channel; a message, a tick or an autosave is handled to its end before
the next. Concurrency is therefore not between threads but between **steps**: a command
that fires hooks runs arbitrary softcode between its own check and its own act; a timer
runs while the tick holds the other due timers; two sessions of one account interleave
their messages; an editor stays open while rights change; a script reads a snapshot and
writes later; and the process may end between any two transactions.

### What is hard about it

- **Acting on what was read before a hook ran.** A command finds its objects, asks the
  `can_*` hooks, and acts. The hooks commit their batches at once, so the act meets a world
  that may lack what the command found. The same holds for the tick, which holds the due
  timers in a vector of its own while their hooks schedule and cancel.
- **Recursion.** Hooks cause hooks (`trigger`, hooked moves, `run_command_as`) on the
  engine's own call stack. Two counters are to bound it.
- **Guards that are bounded walks.** No container inside itself, no delegation circle: each is
  one walk of limited length at the time of one intent, and has to hold after any number of
  intents, under any authority, in any order.
- **Lists kept by hand.** What ticks, what serves globally and what commands there are is
  computed once and kept until somebody bumps a counter; libraries and compiled chunks likewise.
- **Incremental saves.** Only what the change set names is written. A change that is not in
  it, or is in it in the wrong form, is lost or brings something back from the dead.
- **Crashes between transactions.** The world, the accounts, the timers and the clock are
  saved one after the other; accounts, tokens, versions, edit locks and file hashes also at
  other times; `hearth migrate` saves the world and its revision one after the other.
- **Two representations of one fact.** `location_ref` and the `children` index;
  `active_character` and the session's `actor_ref`; `system:offline` and the sessions; a lock
  in memory and its row; a text and its latest version; a map and the rooms made of it.
- **Reading one's own writes.** A script sees its pending writes through some functions, the
  snapshot through others; dbrefs are handed out before the objects exist.
- **Many authors.** HTTP clients with and without a base version, telnet editors, one-line
  commands, softcode and files write the same program.

### What makes each component correct

| Component | It is correct if |
|---|---|
| World store | the index and the locations agree; what is not pending is on disk; the next dbref is free in memory and on disk, unless a script took it ahead of the counter; a save leaves the whole world on disk and a boot brings it back |
| Tick scheduler | no timer is duplicated or lost unaccounted for, or fires early; the quota holds; a tick ends; a pending timer is settled |
| Sessions | one session per account; its character is the account's active one, is the account's own and is not shown offline; who has left is |
| Object graph | no circle of containment or delegation; nothing delegates to a destroyed object; destroying takes no behaviour from others; a builder keeps to what is his and to his quota |
| Hook dispatch | the counters match the stack on every path; the stack is bounded; an event ends |
| Hook table | what is kept of who answers what is what would be computed afresh; what an object remembers is not lost; detaching changes no answer |
| Built-in commands | on a world as it found it, a command closes no circle (unless an exit leads into what goes through it), overfills nothing, razes no occupied room, orphans nothing and never panics |
| Authoring | a text is its latest version; a lock's holder is up to date, and stays it over a restart; a publication undoes nothing it has not seen |
| Permissions | rights survive a crash; an administrator remains; what is locked or global changes only by whom it may |
| Content files | one object per key, but for keys that an object takes by being detached; the hashes claim no more than was loaded; an in-game script survives; an import repeated creates nothing; an export rebuilds the world |
| Migrations | a revision gives no key to two objects, and interrupted and run again does no harm (it may do both: see section 3) |
| Script hosts | what a script reads of its own writes is what will be written; no dbref is handed out twice; a transfer conserves; a story is not forgotten; no library is stale |
| Locks, clock, grids, sound, zones, telnet | the algorithm computes what a reference definition says, for every small input |

## 2. The modules

```
 CheckpointStore            what persistence promises
        ^ implements
 WorldStore  <------ Objects_proofs
 Scheduler <-------- Scheduler_proofs
 Sessions <--------- Sessions_proofs
 ObjectGraph
        ^ extends
 HookedCommands <--- ObjectGraph_proofs
 HookDispatch, Hooks <-- Hooks_proofs
 Programs <--------- Programs_proofs
 Authority <-------- Objects_proofs
 Migrations <- Content <--- Content_proofs
 Modules, MapTemplate, Dungeon <- Intents <- Softcode <- Softcode_proofs
 Clock, Locks   (instantiated by MCScheduler)
 Grid, Sound    (by MCSoftcode)
 Telnet         (by MCSessions)
```

Each `MC` module instantiates the module it is named after for TLC; each `.cfg` is one run.
The definitions named `X_Something` just before a definition `X` are mutants: the way a
plausible bug would change `X`. `PROJECT.json` says which run must notice which, and which
lines of the source each definition stands for.

**WorldStore** has one action per method of `World` that changes state (`AddObject`,
`RemoveObject`, `GetMut`, `Relocate`), the spawn under a ref that a script names (`SpawnAs`: `add_object`
without `next_dbref`, so that the counter reaches that ref later and `AddObject` then replaces what is there), the two callers that assign a location behind the
index's back (`LoaderAssign`, `ImportAssign`), the save that commits and the one that fails,
and the restart. `objects`, `nextId`, `dirty` and `children` are the fields of `World`;
`rows` and `savedNextId` the tables. `dirty` is `"upsert"` or `"delete"` where the map has
`true` or `false`. `lost`, `bypassed` and `chosen` are history: what a save is known to have lost,
which index entries no method has kept, and which refs scripts have named. The properties are stated relative to them, so
that they say exactly what goes wrong and nothing more.

**CheckpointStore** is the promise of `docs/adr/0003`: a world in memory, a checkpoint
that copies it, a restart that copies it back; only under a ref somebody picked may a boot put something
else in the place of what was saved. `WorldStore!ImplementsCheckpoint` is the refinement.

**Scheduler** is `do_tick` step by step. The heartbeat is one action in the code and many
here (`BeginTick`, `TickObject`, `TakeDue`, `FireTimer`, ...) because each script in it has
effects, and because the budget may run out before any of them (`BreakObjects`,
`BreakTimers`). The clock is a nondeterministic flag, `over`, that stays up once it is up.
A timer holds the difference between its `fire_at_tick` and `tick_count`, and `tick_count`
wraps by a common multiple of the intervals, which keeps infinite behaviours in a finite
graph; the absolute number appears where the code writes it, in `SaveTimers`.

**Clock** is the game clock as operators: the date at a minute (`AgreeOnDate` compares it with
counting minutes one by one) and the hooks a tick rings (`AgreeOnHooks`). **Locks** is the
recursive-descent parser of lock expressions over words and the evaluator (`AgreeOnGrammar`
compares both with the grammar, `AgreeOnWindow` the hours around midnight).

**Sessions** has one action per message of a connection: what `handle_connect`,
`handle_login_*`, `handle_create_*`, `handle_token_reconnect`, `handle_disconnect`, `@puppet` and the
`@char*` commands do to sessions, accounts, characters and the database. `Save` writes world
and accounts; `CrashInSave` ends between the two. `Boot` reproduces that accounts are only
loaded when the database has objects. `left` is history: whom somebody has played since the boot and nobody plays now. **Telnet** is `process_bytes`, a state machine over
bytes, compared with what the protocol says the bytes mean (`AgreeOnStream`).

**ObjectGraph** has one action per intent of `apply_to` that changes who contains, delegates
to or owns whom. `BatchStep(a)` is one intent under the authority `a` (a builder, or the
system); a batch that fails is a run of steps that is not taken, since `apply_batch` works
on a copy. `ContainerWalk` and `ArchetypeWalk` are the bounded loops of the code, as
functions of the number of steps. What is created takes any dbref that is not live, a destroyed object's too, in which other
things may still be located; `looped` is history: what was made inside what its own dbref still held.

**HookDispatch** is the engine's call stack: a frame per command and per `deliver_effects` in
progress, and the two depth counters. What hooks compute is left open: a run leaves any
number of triggers, moves and forced commands up to `Many`.

**Hooks** answers which script of an object's line of archetypes runs for a hook (`Line`,
`Definers`, `ResolveScript`), and keeps what the engine keeps of that: `derived`, the
`DerivedIndexes`, and `offered`, the `commands_cache`. Versions are not counted: an action
whose code bumps one drops the list it guards. A script is the function from hooks to what it
defines them as. `FireTick` and `DeliveryEnd` are the two halves of
`fire_tick_hook_with_args`, with the effects of the run, whatever they are, in between;
`FireHook` is `fire_hook_inner`, which writes first. `bypassed` is history: what was changed
by code that bumps nothing.

**HookedCommands** composes the commands with `ObjectGraph`: a command is put on `calls` when
it has found its objects and passed its checks (`Get`, `GetFrom`, `Put`, `Drop`, `Go`, `Use`,
`DestroyCommand`); while it is there, `HookIntent` lets a hook do to the world what
`ObjectGraph` lets a script do, and `Command` lets it force another command on top; then
`Veto` or `Act`. Exits lead from any object to any object. `meddled` notes that the world changed since the command looked.

**Programs** has a program per script and library, its versions, its edit lock and the lock's
row; one action per way to write it (`SetScript` and `SetLib` with or without a base and its merge,
`RevertScript`, the requests that ask nothing, the one-line commands, the telnet editor line by line,
softcode, reload and import), per step of the lock's life (`LockScript`, `RenewLock`, expiry by `Elapse`,
`UnlockScript`), `SaveWorld` and `Restart`. A text is a function from hunks to wordings, so that a
merge is a choice hunk by hunk. `drift` is history: programs whose last writer records no version.
A load or an import that stops at an error (`FileWriteFails`) keeps what it has installed and records nothing; the next one that
comes to its end records that, too (`Unrecorded`).

**Authority** has one action per authoring command and request, each with its guards in the
order of the code (scope, owner, locked, global), the editors that check when they open and
write when they end, registration, grants, revocations, tokens and their sweep, saves of the world, and restarts: between the
two transactions of a save or not, with the accounts of the database or, if it holds no world, with none or the
administrator that the environment names.
Every edit flips one bit, `data`. `last` says how the last change came about; no action reads it.

**Content** has `Boot`, `ReloadWorld`, `ImportBundle`, `Export`, `MigrateWorld` with `MigrateRecord` or
`MigrateDies`, what builders do in between (scripts, things made, picked up, pointed at an archetype, `Detach`, `Destroy` with its cascade), changes of the files, saves, shutdowns and crashes. Loading and
importing are operators from a world to a world, pass by pass as in the code, with the partial
result where the code stops half-way. `doubled` is history: the keys that detaching or a revision may have given to a second
object. **Migrations** is the pure part of one revision: the plan, its
refusals, and its application.

**Intents** has what a script reads (`Read...`, through its pending writes or past them) and
what each intent does (`Apply`, all or none). **MapTemplate** and **Dungeon** are the intents
`instantiate_map` and `generate_dungeon` record, with the functions that answer for the same
places without rooms; **Modules** is `require` with the tables the host keeps. **Softcode**
runs scripts on these: `RunHook` or `RunEval`, one call at a time, `Finish` or `Dies`, and between the runs
the requests, reloads and imports that change libraries. **Grid** and **Sound** are the
searches, each with the definition of what it searches for.

## 3. The runs

| Run | Question | Bounds |
|---|---|---|
| `WorldStore.cfg` | Do index, change set, rows and counter stay in step, and is the incremental save a checkpoint? | 2 dbrefs, each given out or picked by a script, 2 data values, failing saves, crashes at will |
| `Scheduler.cfg` | Is every timer accounted for, none early, the quota exceeded by one at most; do ticks end and timers settle? And the calendar and the lock grammar (assumptions) | 2 targets of one owner, quota 1, 3 timers, delays to 2, intervals to 2, 1 crash |
| `Sessions.cfg` | One session per account, its own active character, the right offline tag? And the telnet parser (assumptions) | 2 connections, 2 accounts, 3 dbrefs, 2 characters each, 1 crash |
| `ObjectGraph.cfg` | Circles, lost behaviour, ownership, quota | 1 builder and 3 objects whose dbrefs are used again, quota 1, walks of 2 and 3 |
| `HookDispatch.cfg` | Do the counters match the stack, do the limits hold, does an event end? | depths 2 and 1, batches of up to 2 of each effect, 1 hooked move |
| `Hooks.cfg` | Are the lists kept of who answers what right, is state kept, does detaching change an answer? | 2 players, a room, 3 more objects in any line of archetypes, 2 changes of scripts, states of 2 |
| `HookedCommands.cfg` | What can a command do that nobody meddled with? | 2 rooms, 1 player, 2 containers of capacity 1, one exit into a container, commands nested 2 deep |
| `Programs.cfg` | Is the history complete, do edit locks hold, is nothing overwritten unseen? | 2 accounts, 1 program of 2 hunks, leases of 2, 3 versions, 1 crash, loads that fail |
| `Authority.cfg` | Do rights survive crashes, does an administrator remain, is the locked and the global held? | 2 accounts, either or none named by the environment, a room and an exit, 1 token of life 1, 1 editor open at a time, 2 edits |
| `Content.cfg` | One object per key, honest hashes, in-game edits kept, imports settle, exports rebuild? And revisions of up to 4 renames (an assumption) | 2 areas, 1 bundle, 1 revision, 6 dbrefs, 1 change of the files, 1 piece of in-game work |
| `Content_SafeToRerun.cfg` | Is a revision safe to run again? (**no**) | the same |
| `Softcode.cfg` | Does a script read what it will write; refs, transfers, stories, libraries, places? And grids, sound and zones (assumptions) | 3 calls in all, in up to 2 scripts, 10 objects, stories of 3, one already told to 2, two dungeons (3 rooms; 2 and 2), a map of 3 by 2 in two drafts, 2 libraries |

The bounds are the least at which each interesting case occurs, and a mutant for every
property shows that they are large enough for a bug to be seen.

- *WorldStore*: an object in another, a ref reused after a crash, an object under a ref ahead of the counter and the
  creation that lands on it. The run has no legacy scripts; the theorems cover them.
- *Scheduler*: of three timers one fires, one is put back and one is dropped, in any order.
- *Sessions*: kicks, switches, and a ref that goes to somebody else's character. The view drops the
  database from states after the last crash, where nothing reads it any more.
- *ObjectGraph*: a chain one longer than its ends, the shape in which a shallow guard fails; the limits
  are set so that walks of the full length, and walks cut short, occur. Scripts move things, not players (`Movable`).
- *HookDispatch*: the forced command may trigger again, so that both counters nest in one another.
- *Hooks*: two writes are the least for one to be lost, or for a list to be stale after it was right; of two
  players one can be offered what the other carries.
- *HookedCommands*: two nested calls are a command that a hook forces while the outer command waits for it;
  one destroyable room and one destroyable item are destroyed by scripts at every moment; scripts
  move things to rooms, the player and one of the containers. Rooms start in nothing. The bag is an exit's end as well, so that
  the player, who may carry it, can walk into it.
- *Programs*: two hunks are what a merge can mix; three versions a base, an other's and one's own.
- *Authority*: the exit is what a destroyed room takes along; the accounts are symmetric; `last`,
  which no action reads, is not in the view.
- *Content*: an area that reads another's key, one of each kind that the passes treat apart, a bag that the bundle makes one way and the files another,
  and a circle of archetypes that only the files and the bundle together close. One change of the files and one
  of the world are enough, since a run may reload, save, crash and boot at every point around them.
- *Softcode*: three calls are a write, a second write and a read; two scripts a refused batch and what
  the next one finds; of a story of three, told to two, both more and less can be
  saved. The repertoire of calls is chosen per family, so that calls which can see each other's
  effects meet.

Some properties are conjunctions, one part of which is about another piece of the same state:
`TimersAccounted` (types, ledger, quota), `HeartbeatSettles` (`TickEnds` and
`TimersSettle`), `SessionsAgree`, `OfflineTagsRight` (who plays is not tagged, who left is), `NoCircles` (containment, delegation), `DestroyTakesMeddling`
(rooms not razed, objects not orphaned), `EditLocksHold` (the holder is current, locks are durable),
`RightsHold` (an administrator remains, rights are durable), `WorldKeyed` (types, keys), `PlacesHangTogether`
(maps and their rooms agree, dungeons are connected), `ListsFollow` (hooks, global commands and the
offered ones). The module names the parts.

**Pure algorithms** are checked by assumptions that TLC evaluates at the start of a run:
each compares the operator translated from the code with a definition of what it should compute, for
every small input: `AgreeOnDate`, `AgreeOnHooks`, `AgreeOnGrammar`, `AgreeOnWindow`, `AgreeOnStream`, `AgreeOnRenames` (of all
revisions of up to four renames over three objects and four keys, which keys two objects come to carry), and in `MCSoftcode` those of `Grid`, `Sound` and `Dungeon`.

**Fairness.** `Scheduler` assumes weak fairness of `DoTick`: the engine loop's interval keeps
firing, and a tick, once begun, is not interrupted, as it is one call on the engine's task.
Commands, saves and crashes owe nothing. `TimersSettle` also assumes that not every tick from
some point on runs out of budget; without that, the code may put one timer back for ever.
`HookDispatch` assumes weak fairness of `Return`: a function that has been called runs on.
`EventEnds` holds for a bounded number of hooked moves per event, which are what no counter of the
code bounds. No other module states liveness: what the others wait for is a person.

**Where the system may stop.** Deadlock is checked except in `ObjectGraph` (all dbrefs of the
bound used and nothing left to change is a legal end), in `HookedCommands` (the engine has
panicked, or the objects of the bound are gone), in `Content` (the changes of the bound are made, the dbrefs of the bound used) and in `Softcode` (both scripts have run).

### Where the code departs from what it says

`SafeToRerun` has a run with a counterexample and an entry under `findings`: `docs/migrations.md:29` says that
`hearth migrate` "is safe to re-run". The migrated world is saved before the revision is recorded
(`migrate.rs:352`); a process that dies in between runs the revision again, on objects that already have
their new keys, and a revision that removes a key and renames another object to it removes that one too.

The following are plain from the code, or were found with the modules below under a property that
is not part of a run; the properties that are state what remains true.

1. `World::relocate` of a ref that was just removed overwrites the recorded removal with an
   upsert (`world/mod.rs:136`), which the save skips (`db.rs:700`). The row stays; after a restart the object is back
   (*WorldStore*, `lost`).
2. A tick out of budget defers one due timer and drops the others (`engine/mod.rs:1098`);
   `docs/adr/0005` says it defers the rest (*Scheduler*, `TimersAccounted` accounts for them as dropped).
3. A character created less than one autosave before a crash leaves its ref in the account, saved at
   once (`engine/mod.rs:3783`), and not in the world. The next object created takes the ref, and the account's
   next login plays that object (*Sessions*, `OwnUnlessRolledBack`). If nothing was saved before the crash, the
   accounts in the database are not even loaded (`engine/mod.rs:701`), and may come back at a later boot. Until then, whoever
   registers first is administrator once more, and scopes are lost that were written at once because "a scope change lost to
   a crash before the next autosave is a silent, surprising regression" (`engine/mod.rs:5506`; *Authority*, `RightsDurable`).
4. The hooks of scripted moves count against no depth limit (`engine/mod.rs:5000`; *HookDispatch*, `OnlyMovesPile`).
5. A `can_get`, `can_put` or `can_drop` hook that destroys its object makes the command
   unwrap `None` (`engine/mod.rs:5247`). The engine task ends, and `main.rs:134` takes this for a shutdown: no
   final save. The comment at `engine/mod.rs:438` calls such a thing "a server kill reachable from two lines of
   softcode" (*HookedCommands*, `PanicTakesMeddling`).
6. A revision may leave two managed objects with one key. `docs/migrations.md:79` says that a "rename onto a key another object still
   holds is a hard error", and `migrate.rs:247` that the table of who holds what is kept "so two renames can't collide onto
   the same target either". But each operation finds its sources under the keys of the world as it was, and drops the old
   key from the table whoever holds it by then (`migrate.rs:274`). Of three objects under `a`, `b` and `c`, the
   renames a to z, b to a, a to y, c to a leave the second and the third under `a`, unrefused. `AgreeOnRenames` looks at every revision of up to four renames over three
   objects: keys are doubled by some, and only by such as name one source key in two operations (*Migrations*,
   `Overrun`; *Content*, `doubled`).
7. "Every mutation that could change what those indexes contain must call `bump_struct`" (`world/mod.rs:33`), but
   `@set <ref>/tick_interval`, a `transfer_attr` of it, `@reload` of a disabled script and the bundle import
   over HTTP do not (*Hooks*, `bypassed`).
8. A file may list two rooms with one key: pass 1 gives both the reference of the first (`loader.rs:664`), pass 2 makes
   it from the first and writes the second over it, unreported. From then on the file is skipped as unchanged,
   and says something of the first that is nowhere. Found by the proof of `HashesAreTruthful`, which assumes that
   no file does so (*Content_proofs*, `DefinedOnce`); an import refuses such a bundle (`Collides`).
9. Importing a bundle a second time may change the world, although `docs/commands.md:204` calls imports idempotent by identity. A
   circle of archetypes is broken by clearing every object in it (`import_export.rs:744`, `loader.rs:1080`); where it goes
   through an object outside the bundle, the second import sets the bundle's part of it again, and now there is
   no circle. An archetype that the same bundle makes after the object that names it is found the second time only,
   too. `ImportSettles` asks that the declared archetypes have come into force (*Content*, `ArchetypesSet`).
10. `record_file_program_versions` is "called after boot load, `@reload-world`, and `@import`, so a file/deploy change lands in
   history" (`engine/mod.rs:1453`), but a load that fails half-way keeps the programs it has installed
   (`loader.rs:701`, 768, 809 return after them) and records nothing (`engine/mod.rs:6468`, 6516). The live text is then nobody's version;
   a publication against the latest one passes as clean and overwrites the file's text
   (*Programs*, `FileWriteFails`, `drift`). The next load that succeeds records what is then live.

### Observations

*World and saves.* `loader.rs:762` assigns locations around `relocate`, "the *only* correct way"
(`world/mod.rs:124`). The migration of legacy scripts repeats at every boot, since nothing empties the
table (`db.rs:863`). A `spawn` with a `ref` ahead of the counter
(`api.rs:1718`, `softcode/mod.rs:915`) does not move the counter: a later creation, the legacy migration's included, is given the same ref, replaces the object that is there, and
leaves the old one's entry in the index (*WorldStore*, `chosen`). The four transactions of `do_save` (`engine/mod.rs:1333`) let a crash between the world's and the timers'
bring cancelled or fired timers back, and the clock its old hour. Versions and edit locks are keyed by dbref and outlive the object (`db.rs:504`).

*Ticks and the clock.* `fire_at_tick` is saved as an absolute number and `tick_count` starts from 0 at boot: a timer
waits for the old process's whole uptime on top of its delay. The `on_tick` list is cut at the budget and not resumed
(`engine/mod.rs:1079`). `cancel_after` does not reach timers the same tick has already taken out. The
fraction of a minute is lost at a restart, and a clock faster than an hour per tick skips hours.

*Sessions.* Players who were online when the process ended are still tagged as online after the boot; so is
a character that was created and never played. The sweep of a connection's tokens at disconnect never removes
one, and every login leaves a persistent token (`engine/mod.rs:3315`).

A puppet's player hears his character's room and not the puppet's (`send_to_room`, `engine/mod.rs:5188`, asks for `actor_ref`), though
`docs/adr/0008` says that output follows the effective actor; a command forced on his character is run by the
puppet (`dispatch_as_actor` goes through `handle_game_input`). A puppet stays one's puppet after `@chown`,
after the scope is revoked and after it is destroyed.

*Object graph.* The cycle guard of archetypes stops after `MAX_ARCHETYPE_DEPTH` objects; a longer circle is
closed unnoticed (`NoCircles` is stated up to that length). The quota counts under the authority that runs, but
the object belongs to whom the script names, exits belong to nobody, and `set_owner` asks for no quota:
`OwnQuota` is what remains true. `MAX_CONTAINER_DEPTH` bounds where something is moved to, not how deep it is
itself (`softcode/mod.rs:724`). Under a chosen `ref`
a script can make an object again inside something that is still located in the destroyed one: a circle of
containment that no guard looks for (`looped`). `detach_object` copies every inherited attribute and tag, the file key and `system:managed`
included: the instance then passes for an object of the files, under its archetype's key (*Content*, `doubled`).

*Hooks.* A delivery at the trigger limit drops its hooked moves and forced commands too, though those have limits
of their own (`engine/mod.rs:4979`). `fire_tick_hook_with_args` writes the state of `on_tick` after its effects: a nested trigger of
`on_tick` on the same object loses the inner update. `commands_cache` (`engine/mod.rs:5853`) is keyed by room, scopes and
version, not by actor: one player is offered what another carries. Detaching revives disabled scripts of the line.
`nearest_ancestor_script` is unused.

*Commands.* `cmd_put` and `Intent::Move` check different rules. `@destroy --cascade` flattens the instances before it
refuses an occupied room. `@destroy` of a room removes its exits even if they are locked or somebody else's.
`@open` and `create_exit` take any live object for a target (`engine/mod.rs:4147`) and `do_move` asks nothing about it
(7159): a player who goes through an exit that leads into what he carries closes a circle (`LeadsInward`).

*Authoring.* A client without a base overwrites silently, and a base equal to the latest version counts as clean even if the
live text drifted. The requests that clear, the one-line commands and `@program` ignore edit locks; the
telnet editor installs over whatever was published while it was open; editors recheck nothing at `.`.
`docs/plans/softcode-versioning.md` claims that history is captured on every authoring surface; `drift` shows where it is
not. An import does not clear scripts that the bundle lacks, a reload does.

*Permissions.* Telnet commands do not consult `system:global`; `system:locked` counts only as an object's own tag; `@reload` asks
for a builder only, and re-enables scripts of locked objects. `system:global` is inherited: a builder brings an object into the global
command surface by pointing it at a global archetype (`engine/mod.rs:1633`) or by cloning from one, though he may not
set the tag; and an unprotected ancestor of a global object is anybody's to change.

*Content.* An item inside a container that a player carries is exported into a bundle that a fresh database refuses
(`import_export.rs:1432`, against `docs/commands.md:275`). Code objects are exported under another key than they
have (1365), and an object that has the key of another kind, by being detached or renamed, does not come back as it was. Two live objects with the same `cmd_` hook export to a bundle that import refuses.
`CreateRoom` over HTTP stamps a file key without a look at who has it (`engine/mod.rs:1894`). An import does not mark what it makes as managed, and a load
only looks at what is: duplicates. Without content files each boot makes another spawn room. A load that
fails has applied its first half, and, before `break_archetype_cycles`, may leave a cycle live.
A missing program file counts as unchanged. A reload assigns locations and leaves the index. An object deleted in game and
referenced from a changed file aborts every load. The outcome of a migration plan depends on the order of a hash
map (`migrate.rs:253`). An import resets where things are.

*Softcode.* The rooms of generated dungeons and maps are nested by location, and `move_object` refuses destinations
with more than three above them (`softcode/mod.rs:715`), though `dungeon.rs:337` calls the location of a room
"purely bookkeeping". `on_expire` looks only at rooms tagged `dungeon:room` and at players online: one in a
corridor, or offline, is stranded. `set_val` starts from the world's value, so that of two in a script the first is lost
(`api.rs:853`); an index of 0 wraps around (840). A cell key with a space is an override for the rooms of a map and
not for its steps (`map_template.rs:359`, `api.rs:412`). `has_attr` ignores inheritance on a pending unset; a
description set to nothing reads as nothing and is the archetype's afterwards. `transfer_attr` to oneself creates
the amount, and a negative amount overdraws (`softcode/mod.rs:1255`); `TransfersConserve` is stated for the others. Ink state is
changed outside the batch: an `ink_end` that saves and an `ink_start` in one script resume the older state.
A refused batch gives its refs out again; `spawn`'s undocumented `ref` option picks one ahead of the counter.
Instantiating a map twice duplicates the exits of its fixed rooms. Steps and rooms treat unknown terrain
differently. Two maps, or two libraries, of one name: the order of a hash map decides. Destroying a library's host, and
the import over HTTP, leave stale sources (`softcode/mod.rs:1630` claims that every path invalidates). `EmitRadius`
settles the distance of a room at its first discovery, which is wrong when exits muffle (`engine/mod.rs:4954`).

*Locks and network.* A lock that cannot be read admits nobody. Hours in locks end at 23, although calendars may have more. After
`quit` or a kick nothing closes the telnet socket; its reader goes on until the client does.

## 4. The proofs

TLC checks the bounds of section 3; the theorems hold for every value of the constants that
satisfies the named assumptions of each module (sentinels are no records or refs, limits are
natural numbers, archetype walks have at least one step).

**Objects_proofs, the world store.** `Inv` is the conjunction of the five invariants; it is inductive as a
whole and in no part: a save preserves `CleanIsSaved` because `NoLiveRowDeleted` says that it
deletes no row of a live object, `AddObject` preserves `IndexAgrees` because `NextRefFree` says
that no object and no bucket knows the new ref, unless a script has chosen it; then the creation replaces what is there, and
`bypassed` gains the entry it leaves behind (`AddAtInv`, which serves `SpawnAs` and the legacy migration as well). One lemma per action, each with one step per
conjunct. `Refinement` maps every step of `WorldStore` under `Inv` to a step of `CheckpointStore` or a stutter.

**Scheduler_proofs.** `BooksInOrder` and `NoneFiresEarly` rest on one invariant: every timer is in one place
only, pending, taken out or neither, with the ticks it asked for ahead of it. `Kept`, which takes the due timers out of the list,
is shown to be in order and one to one with the places it keeps, so that nothing is duplicated or skipped. The quota is the
delicate part: hooks count while the tick holds the due timers, so a full set of new ones may be
scheduled in the meantime, and the tick that is out of budget puts back one, and no more than one, on top of it.

**ObjectGraph_proofs.** `IInv` joins the types, `NoOrphan` and the absence of circles. Circles are stated with
sets (a set of objects none of which leads out), which
spares the induction. What is made under a dbref that something dangling still names closes a circle only if it is
made inside that, and then `looped` holds it (`CreateKeepsContainment`). A move can only close a circle through the moved object, and then the
walk from the destination stays in the circle and either meets the moved object or does
not reach the top, so `MoveAllowed` refused it. For archetypes, the walk visits
distinct objects as long as it does not return (`NoReturn`), so that a set closed under delegation with at
most `MaxArchetypeDepth` members is visited whole. That the recursive functions behind the walks are defined
is proved from the principle of the least number (`Least`, `IterateExists`). `OthersUntouched` and `OwnQuota`
follow step by step from the types. For `CascadeKeepsBehaviour` what an object has is described without
counting, as what the nearest object has that can be reached from it (`Reach`, `NearestKnown`); a flattened
object has what its line had, so whoever came through the removed one still finds it. This holds for objects whose line the walk sees
whole, which the property says: TLC finds the others at a depth of 2.

The same module has the commands. `CInv` adds to `IInv` what a pending command knows (`Books`): its objects have
been handed out and are of the kinds its verb asks for, and until somebody meddles, what it found is still so. `Act` relies on
no more than that. A put closes a circle only if the box is inside what is put; it is not as long as the command's finding stands. A walk
closes one only if the exit leads inward, into the walker or what he carries. The hooks and
commands in between either set `meddled` on every call below them or change nothing a command knows of.

**Hooks_proofs, the call stack.** `DispatchInv` adds to the counters `forceDepth <= MaxForceDepth` and the shape of
the stack. `Linked`: a command runs at the bottom, under the command that forced it, or under a delivery
at its forced commands. `Shape`: the deliveries under the tip that fire triggers are within
the limit, the tip too if it has a trigger to fire, and every delivery under the tip that
is at its forced commands has a command running above it. The frames of each kind are then
bounded by the limits and the hooks of moves, and their sum is the height of the stack: `OnlyMovesPile`.

**Sessions_proofs.** `Inv` holds in three layers. Without conditions: an account plays one of its own
characters, in memory and in the database (`ActiveOwned`), which is why the menu is never offered; what exists
has a ref that was handed out, and the database is behind the process in that (`Counted`), which is why a new
character is nobody's old one; a puppet's ref is taken by no player (`Puppets`). As long as no boot found accounts
ahead of the world: memory and database have the same accounts with the same characters, with nothing else in their
place (`Owned`), so two sessions never share a character and whoever leaves tags only his own (`Online`). `Boot` is
the step that needs all of them; it is also the only one that can end the third. The other half of the tags, that who
left is offline, needs no such condition, but that who is played or has left has a ref that was handed out (`Away`): then no
new character stands in his place, and each message either keeps a tag or puts its character in play (`TagsFollow`).

**Programs_proofs.** `Inv` adds two facts to the properties. `Held`: who is alone with a program holds its lock,
so that nobody else passes `check_edit_lock`. `Opened`: the version a client names is in the history and is what it opened, unless the program had drifted by then.
With that, `NothingOverwritten` needs no induction of its own: a hunk that differs from what the client saw means
that the version named is not the latest, the publication goes through the merge, and the merge keeps the hunk.

**Objects_proofs, authority.** `RightsInv` says of memory and of the database that somebody administers if
anybody has registered, and that what is in memory is on disk, but for the accounts after a boot that found no world. No part
is inductive alone: a restart preserves the administrator because the saved accounts have one, or because it starts with nobody or
with the one the environment names (`SeededIsAdministered`); a revocation because the code refuses one's own. For
`LockedHeld` the invariant is only that objects are objects (`WorldOK`); the weight is in the step: for each of the
actions either its guard says that the object is not locked, or it belongs to the ways the property names, or it
leaves the object as it is (the `Spares` lemmas). `GlobalHeld` reaches further, as a change of one object reaches all that
inherit from it. `LinesKeepServing` is the argument: if what is changed did not serve, or serves by a tag of its own
afterwards, every line that met a global object still meets one. With lines as the
least closed sets, the line before lies within the line after and those of the changed objects on it.

**Hooks_proofs, the hook table.** What an object answers depends on the archetypes for the line and on the members of the line for the rest
(`SameLines`, `SameAnswers`). A write that bumps nothing changes no archetype, so lines stay, and what it changes is remembered as
`bypassed`: `IndexesFollow`. The list of commands must be right for everybody in the room, with or without the scope it was made
for (`OfferedGood`): a grant drops no list, and the player may come back to the scope he had. Two in one room see the same but for what they
carry (`RoomMates`). `StateKept` follows action by action. For `DetachKeepsAnswers` a line is a function on places: the line that ran
through the detached object keeps its places up to it and ends there (`CutLine`), what came after is the object's own line
(`Shifted`), and the nearest value that is set stays the same one (`CutSaysTheSame`), for scripts, intervals and tags alike.
Again it takes a line the walk sees whole; TLC shows why at a depth of 2.

**Content_proofs.** A load, an import, an export and a migration plan are loops over definitions, objects or moves.
Each is one function from the number of steps made to what they have made (`Run`, which exists for every
loop by `Runs`), and what one step keeps the whole keeps (`Climb`), so that each of them needs one lemma about one
step. `Control` is what the server, the database and the game directory always satisfy, `Worlds` that both worlds hold objects
with references that were handed out; together they are inductive (`WorldTyped`). `HandWrittenStays` needs no more: each step either
leaves an in-game script alone or replaces it by another (`Onward` for loads; `install_script` and `resolve_one_script` test the origin first).

`KeysStayUnique` adds `Keyed`: unique keys among the managed objects of both worlds. For a load that is not
inductive step by step, as pass 1 gives out references for objects that do not exist yet: what each step keeps (`Good`)
relates the world to the key map. Every managed object is found under its key, and two keys lead to two references. The key map at the
start is a choice among the holders of each key, which is no choice when the keys are unique (`Found`). Imports and exports make
nothing managed and give a key only to what has none (`NoneMade`). A revision is the hard part. Its
collision check looks at who would hold a key after the restamps so far; that it prevents two objects with one key
rests on this table being the truth (`Sound`), and it is only while each object is restamped once, that is, if no two operations
of the revision name one source (`Apart`). For the others the theorem says that no keys but those they give are doubled (`Overrun`).
Of what builders do, detaching and the cascade of a destruction make managed objects: the loop up the line of archetypes
(`NextUp`) leaves a key where it was and otherwise copies the nearest (`FlattenedKeeps`), and the keys so copied are the ones in
`doubled` (`AdoptKeeps`). Nothing is assumed.

For `HashesAreTruthful` the invariant says of both pairs of world and hashes what `HashesTellTruth` says of the live one and of
the files of the moment (`Honest`): the hashes carry the texts they were taken of, so that it does not move when somebody edits a file
(`HonestTells` comes back to the files). The database's pair leaves out what is loaded and not saved yet, too: that is
what a crash adds to `doubt`. Of a load, `LoadAreasInstalls` says that at the end of it, when it does
not fail, every object is as its definition says; in between, each pass keeps what it has installed so far, because the definitions that
follow have other keys (`Sure`, `Ours`, `There`), and an exit leads where it should only because pass 1 gave every
key its reference. What other steps do is one relation (`Leaves`): objects with keys outside a set stay as they are; what builders do
keeps to it as well (`WorkHonest`).
That no file defines one key in two ways (`DefinedOnce`, which the instance satisfies) is a hypothesis; section 3 says why.

**Softcode_proofs.** A region of rooms, a dungeon, the doors of a map and the application of a batch are loops (`Looping`), and
the reference counter runs through all of them. `Numbered(batch, nextId, counter, chosen)` says of a batch that what it makes
has references between the two, each once, or references that scripts chose; it is a property of sequences that concatenation
preserves (`Join`), so that each loop needs one lemma about one turn. That the rooms of a dungeon zone take no
more references than were counted for their doors rests on the cut being a tree: `n` rooms, `n - 1` doors
(`PiecesAreDoored`, by induction on the budget of the recursion). `Inv` adds what a run must find:
everything in the world has a reference below `nextId` or a chosen one, the maps are maps, and objects have
their attributes (`Sound`). None of it is inductive alone: `HandedOut` needs, at the end of a run, that the batch makes nothing
that is not numbered, and `Numbered` needs that `nextId` is only moved to the counter.

The same module has two action properties. `ModulesFollow`: `Follows` relates the tables of a host before and after a `require`,
which asks for others in its turn, perhaps in a circle. That what is kept is made of present texts is shown by
induction on the number of libraries not on the way to it (`Askable`), with a library that fails leaving the ones before it
loaded. Batches that neither write nor destroy leave every library where it is (`ApplyKeepsLibs`). `TransfersConserve`:
a sum over a finite set does not depend on the order of its terms (`SumOff`, by induction on the size of the set), so
that what one object loses and another gains cancels (`SumsShift`).

`ReadsSeeOwnWrites` compares two ways of reckoning: the reading functions look for the last pending write and, where there is
none or an unsetting one, along the object's archetypes in the world as it was; the world after the batch is what
turn after turn of `apply_to` made of it. An intent touches only the object it is about (`ChangedSpares`), and of that what
it writes (`ChangedUpholds`), so that after the whole batch an object has the last of what was written to it
(`BatchUpholds`, from `LastStays`) and its archetypes are as they were (`BatchSpares`): the line is the same
(`LineFollows`), and what is found along it too (`UnwrittenReads`, `WrittenReads`). Unsetting is the delicate case
(`ErasedReads`): a script reads from the archetype on, with a walk as long as that which starts at the object, and so may
see one archetype more; and a reference to nobody must not be one of an object (`Named`, inductive with `Inv`). The first
proof attempts found what the property has to leave out, lines longer than the walk and objects destroyed and made again.

`StoryKept` compares two places where a story can be, the conversation the host holds and the attribute of the teller, which
the batch may be about to write: `PointOf(batch, world)`. A call adds to the batch, so the last write of the attribute stays
or a later one takes its place (`LastWriteGrows`; that calls only add is `Grown`, shown of each call with `Inv`). When the batch
is applied, `StoryTurn` says what one intent does to the attribute and `LastStays` carries it over all of them; a saved
point survives a detachment because an object's own attributes come before its archetypes'. What was added to `Inv`
is `StoryInv`: no batch outlives its script. Here the proof attempt corrected the property: a story begun anew and saved
replaces one that was further, and a script may destroy the teller, neither of which the run showed while its story had
two points and nothing was saved at first.

| Theorem | For every value of the constants |
|---|---|
| `Objects_proofs!TypeCorrect`, `IndexCorrect`, `IncrementalSaveCorrect`, `FreshRefs` | the four safety results of `WorldStore`, spawns under chosen refs included |
| `Objects_proofs!Refinement` | the incremental save implements the plain checkpoint |
| `ObjectGraph_proofs!TypeCorrect`, `NothingInsideItself`, `NothingOrphaned` | no circle of delegation, none of containment but inside what a destroyed namesake held; nothing delegates to what is gone |
| `ObjectGraph_proofs!BuildersKeepToTheirOwn`, `BuildersKeepToTheirQuota` | its action properties |
| `ObjectGraph_proofs!NothingLosesBehaviour` | destroying an archetype takes no behaviour from others |
| `ObjectGraph_proofs!CommandInvariance`, `NoCommandClosesACircle`, `PutsFit`, `OnlyMeddlingPanics`, `DestroyKeepsItsPromises` | what a command may do on a world as it found it, and where no exit leads inward |
| `Scheduler_proofs!BooksInOrder`, `NoneFiresEarly` | timers neither duplicated nor lost unaccounted for, the quota and one, none early |
| `Hooks_proofs!ListsAreTrue`, `NothingForgotten`, `NothingDetachedLosesAnswers` | the lists kept, the state kept, the answers kept |
| `Hooks_proofs!DispatchInvariance`, `NoLevelLeaks`, `LimitsHold` | the counters and the bound of the call stack |
| `Sessions_proofs!SessionsAndAccountsAgree` | one session per account, on the active character, never the menu |
| `Sessions_proofs!CharactersAreOnesOwn`, `PlayersShownOnline` | unless rolled back: one's own character, not tagged offline; always: who left is tagged |
| `Programs_proofs!HistoryIsComplete`, `LocksProtect` | a program is its latest version unless its last writer recorded none or a crash took it back; a lock keeps its holder current |
| `Programs_proofs!NothingOverwritten` | publishing against a version undoes nothing others published, unless the program drifted |
| `Objects_proofs!RightsSurvive` | an administrator remains; rights are durable once the world was saved |
| `Objects_proofs!LockedObjectsHeld` | a locked object changes only by the ways named |
| `Objects_proofs!GlobalObjectsHeld` | no builder's request changes what serves globally or tags it so; what one brings in inherits from what was there |
| `Content_proofs!WorldTyped`, `HandWrittenStays` | objects are what they should be; an in-game script gives way to no file |
| `Content_proofs!KeysStayUnique` | one object per key, but for what detaching and revisions that name a source twice double |
| `Content_proofs!HashesAreTruthful` | what the loader skips is in the world as the file says, if no file defines a key twice |
| `Softcode_proofs!ReferencesAreHandedOutOnce` | no reference is given to two things, or to one and something in the world |
| `Softcode_proofs!TransfersConserveGold` | transfers between two objects make and lose nothing |
| `Softcode_proofs!ScriptsReadTheirOwnWrites` | what a script reads after writing is what the world will say |
| `Softcode_proofs!StoriesAreKept` | a story told or saved is lost in the ways `StoryKept` names and no other |
| `Softcode_proofs!LibrariesStayUpToDate` | no library is stale, but by a destruction or an import over REST |

`Objects_proofs!TypeCorrect` and `IncrementalSaveCorrect`, `ObjectGraph_proofs!TypeCorrect` and `NothingOrphaned`,
`Hooks_proofs!DispatchInvariance`, `ObjectGraph_proofs!CommandInvariance` and `Content_proofs!WorldTyped` state what no run lists: they are the strengthenings the others rest on.

**Only model-checked**: all liveness (`HeartbeatSettles`, `EventEnds`), which is out of the
prover's reach; `ImportSettles` and `ExportRestores` of `Content`, which compare what two whole loops make of a
world (`WorldKeyed`, `EditsSurvive` and `HashesTellTruth` are proved); `PlacesHangTogether` of `Softcode`: what it says of maps
holds only of those the run has, as a script may tear down what it built, and what it
says of dungeons is a reachability through any number of zones. `Locks` and `Grid` are written with recursive
operators, which the prover does not read.

## 5. What the models leave out

- **Scheduler**: a script emits one timer effect per run; the 64-bit counter does not overflow.
- **Clock**: time per tick is a fraction where the code has a floating-point number; names, and reading the file.
- **Locks**: the lexer.
- **Sessions**: who may puppet what, guests, web sessions, passwords and the throttling of logins; the
  text of the character menu, which `SessionsAgree` shows is never offered.
- **ObjectGraph**: attributes, hooks and scripts of an object are one trait; kinds other than
  player and thing; tags, locks and the lock on file-authoritative objects; where an exit leads
  (*HookedCommands* fixes that for the run, from any object to any).
- **HookDispatch**: what hooks compute, their state, and which object of an archetype chain answers (*Hooks*).
- **Hooks**: the index of troupes; the amounts of `transfer_attr`, the order of ticks and the arithmetic of
  intervals are left open; the source of a script and its compilation.
- **HookedCommands**: DSL locks (they only refuse, as `Veto` does), the exits removed with a room,
  coordinates; hooks run as the system, and do not move rooms. The commands that only print.
- **Programs**: writes to the database succeed; checks of syntax and of shipped names; a refused publication is a
  stutter. The merge library is external.
- **Authority**: `@password`, `@email`, `@maxchars`; `system:managed` stays where it is; an object is its owner, its tags, its
  archetype and one bit.
- **Content**: tags, attributes, locks, aliases and schema are one field or left out; an object has one library; an
  exit comes from its own area; players carry by one object; builders destroy only what nothing is in or leads to, and write
  neither `_file_key` nor `system:managed` themselves.
- **Softcode**: Luau and ink themselves, time and instruction limits of a script, titles that are the empty text (a
  title is a word or none), the files of maps and themes, seeds, noise and rendering; output is recorded, not delivered (*HookDispatch* delivers it).
- **Telnet**: the two loops that read and write the socket, the character sets and the trimming of a line.
- **Database**: each module saves and restores its own part, with the crashes between its transactions; no module
  has all four transactions of `do_save`.

### Not modelled

Text and configuration (`markup.rs`, `theme.rs`, `config.rs`, `attr_schema.rs`) are formatting and parsing without state; the
command line and the test runner start and drive the program; web sockets and HTTP framing belong to
libraries; the WASM host runs foreign code under the rules of the Luau one. The user interface, the clients and the shipped Luau libraries
are other programs.

## 6. The plan

What is left, in the order of what it would add:

1. **Proofs**: `ImportSettles` of `Content`, by the lemmas that `HashesAreTruthful` rests on. For `Softcode`, the rooms and exits one `Instantiate` lays out.
2. **One save**: the four transactions of `do_save` and its early writers in one model, with a crash between any
   two, from the parts that `WorldStore`, `Sessions`, `Scheduler` and `Programs` have.
3. **Sessions**: guests and web sessions; the tokens of logins; where output goes (see the observations on
   puppets); a second crash, which now makes the instance too large.
4. **Content**: the import's fields apart instead of one, attribute schemas, and maps and themes read from files.
5. **A batch as an atomic change**: `Intents` as a refinement of one step of an abstract world.
