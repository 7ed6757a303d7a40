# A TLA+ model of the CarbonMC server

This directory holds TLA+ modules that model the CarbonMC Minecraft server (`src/`), TLC
configurations that check them on small instances, and proofs of the main theorems that the TLAPS
proof system checks for every value of the constants. `PROJECT.json` says, definition by
definition, which lines of the source each definition stands for; this file says what the parts
are, how they fit together, and what the checks and proofs show.

Every definition is translated from the Rust code, not from its documentation. Where a run shows
the code doing something a document or a comment rules out, the run is expected to fail and is
listed under *Disagreements*.

## The system

CarbonMC is one process. A Tokio runtime runs one task per connection (`network/mod.rs`), one task
that advances the world every 50 ms (`runtime.rs` `tick_loop`), and one that reads the operator's
console (`console_loop`). They share one `ServerState` (`state.rs`), whose fields are about thirty
separate `RwLock`s and five atomic counters: there is no lock over the whole, and no message queue
between the tasks. A task tells another something by appending to a *revision feed* (chat, player
events, block changes, knockback, disconnect requests) that every session polls. This design is
where the hard behaviour is: handlers of different tasks interleave between any two lock
acquisitions.

| Component | State it keeps | Operations | Talks to | What makes it correct |
| --- | --- | --- | --- | --- |
| World save files (`state.rs` `load_save_file`, `write_world_save`, `atomic_write`) | `world-save.json`, `.bak`, `.tmp`, quarantined files | load, recheck, quarantine, write, rotate, commit, roll back | the tick (autosave), `repair_world`, shutdown | a kill or a failed operation never loses the stored world; refused files stay untouched |
| Locks of the server state | who holds and who waits for each `RwLock` | acquire, release | every handler | no cycle of waits |
| Revision feeds | an atomic counter, a bounded deque per feed, one cursor per session | publish (number, then append), poll, trim | every session, the tick, commands | every session sees every entry that is kept, once and in order |
| Player sessions (`handle_connection` ... `remove_player`) | players, transforms, saved locations, sessions' cursors | login checks, configuration, registration, play, kick, ban, removal | access lists, disconnect feed | a banned player does not stay online; an online player has all of its per-player records |
| Access control lists | operators, bans, allowlist, permissions, and a JSON file for each | grant, revoke, ban, pardon, query with expiry | commands, login, files | what a command reported as stored survives a restart; deny wins |
| Moderation audit log | numbered records in memory, a JSON-lines file | record, reload after a torn line | commands | numbers unique and increasing; one torn line loses one record |
| Inventories | 46 slots, cursor and grid of each player | clicks, shift-moves, gestures, give, take, craft, drop | sessions, pickups in the tick | no item appears or disappears |
| Containers | chests, furnaces by dimension and position | click, take, break, smelt | sessions, the tick, save | loot is generated once; contents move, never copy |
| Vitals, combat, effects | health, food, shields, effects, last-hit ticks | damage, attack, block, heal, die, respawn | the tick, sessions, feeds | a dead player stays dead until a respawn or a reset; blocked hits do no damage |
| Block changes and portals (`set_block`, `set_dimension_block`, portals of `state.rs`, packet handlers) | the edited blocks, the feed of changes, what each client was sent | mine, place, light, collapse, poll | sessions, the block feed | clients end up showing the world; no plant floats; no portal is lit without its frame |
| World (`world.rs`) | sparse edits, item entities, mobs of three dimensions | set, drop, pick up, spawn, tick | sessions, the tick, save | an edit is in the save or equal to the generated block; a dropped item is picked up once |
| Runtime | shutdown flag, three tasks, extension list | start, tick, console, stop | everything | a stop ends every task and saves last |
| Connection transport | admissions per address, frame budgets, keep-alive timer | admit, receive, refuse, time out | sessions | limits are never exceeded and always given back |
| Authentication | a pool of verification permits | verify | login | a permit is always returned |
| Wire protocol, configuration, API types | none | encode, decode, parse | sessions | (pure functions) |

## The modules

| Module | Models | Built on |
| --- | --- | --- |
| `DurableWorld` | the promise of saving: one stored world, replaced atomically | |
| `SaveFiles` | the file protocol of a save, one action per file operation | refines `DurableWorld` |
| `RwLocks` | threads that run programs of lock operations on fair readers-writer locks | |
| `StateLocks` | the lock programs of `ServerState`'s operations, as sequences | given to `RwLocks` |
| `RevisionFeed` | a counter, a bounded deque, and one cursor per session | |
| `Registrations` | the state of the sessions and what they promise | `RevisionFeed` for disconnect requests |
| `PlayerSessions` | connections from login to removal, and moderators | `Registrations` |
| `BlockUpdates` | what packets do to blocks, and what clients see of it | `RevisionFeed` for block changes |
| `Stacks` | kinds of items, stacks, clicks of one slot (pure) | |
| `Recipes`, `Mining` | the tables of crafting, tools, drops and speeds (pure) | `Stacks` |
| `Inventories` | what a player has, and the operations under one lock | `Mining` |
| `Items` | gestures of several locks, containers, the tick thread and the console | `Inventories` |
| `AuditLog` | the appended file of moderation records and the records in memory | |
| `AccessLists` | operators, bans, allowlist, permissions, their files and commands | `AuditLog` |
| `Vitals` | health, food, effects, shields, death and respawn | |
| `Presence` | who and what is in which dimension, and what clients are shown of it | |
| `Tasks` | the state of the process's tasks and what they promise | |
| `Serving` | the steps of the tasks: connections, logins and shutdown | `Tasks` |
| `MC...` | values of the constants for TLC | |
| `...Proofs` | theorems and their proofs | the module of that name (`PlayerSessionsProofs`: also `Presence`; `SaveFilesProofs`: also `Serving`) |

Definitions named `X_Something` marked *mutant* are wrong versions of `X`. Nothing refers to
them; each is a plausible mistake in the code that makes one property fail when it is put in the
place of `X`.

### SaveFiles and DurableWorld

`primary`, `backup`, `temporary` are what the three files hold: a world, damaged text, a file this
server refuses, or nothing. `pc[w]` is the next file operation of a saver, `data[w]` the snapshot
it carries, `handle[w]` the name its open file has by now (a rename takes an open file along).
`Start` is `load_save`; `TakeSnapshot` the collecting half of `save`; `Recheck`, `Inspect` and
`Quarantine` are `write_world_save`; `OpenTemporary` to `Commit` are `atomic_write`, its existence
checks and removal of the older backup included; `Reset` and `Forget` are the parts of
`repair_world` before and after its save. `Fail` is the failure of any operation, with the rollback
of the last rename, and `Crash` a kill between any two operations. `Damage` is what the recovery
code exists for: a good file is damaged or replaced while nothing is being saved. The durability of
renames (no directory is synced) is taken from a kill of the process, as in `save_tests.rs`, not
from a power failure.

`DurableWorld` has one variable, the stored world, and says that a save replaces it in one step, an
error leaves it alone and a crash changes nothing. `ImplementsDurableWorld` maps the stored world to
what `load_save_file` would return for the files as they are.

### RwLocks and StateLocks

`RwLocks` gives each thread a program, a sequence of lock operations, and locks that block a new
reader behind a waiting writer, as the standard library's do on the platforms the server supports.
`StateLocks` writes one such program for each operation of `ServerState` that holds one lock while
it takes another (the tick, chest clicks, respawn, attacks, food, the reset, ...), every call inlined.
`NoWaitCycle` says that no set of threads waits for its own members only. A rank of each lock
(`StateRank`) explains why: every program takes what it takes while holding something in the order of
the ranks. The autosave is the exception, and has a run of its own.

### RevisionFeed

The five feeds share their algorithm. `Draw` is the `fetch_add`, `Push` the append and the trimming
under the lock of the deque, `Join` the reading of the last revision when a session starts, `Poll`
and `Handle` the copying of new entries and the treatment of each, with the cursor advanced as the
feed does it (`Advanced`): `highest` is chosen in `Init` and says whether the cursor keeps the
highest revision (events, impulses) or takes the last one handled (chat, disconnects). `Clear` is
what a reset does to the two feeds it empties, which are of the former kind. An entry's `place` is
its order in the deque; since numbers are drawn before the lock, the two orders differ, and
`Overtaken` names the entries this happens to. The variables below `batch` are history and no
action's guard reads them.

### Registrations and PlayerSessions

`phase[s]` walks through `handle_login`, `handle_configuration`, `handle_play`,
`run_play_session` and the drop of the registration. `AddPlayer`, `AddTransform`, `AddCombat` and
`RemovePlayer`, `RemoveTransform`, `RemoveCombat` are the separately locked sections of `add_player`
and `remove_player`; `duty[m]` is the progress of a kick or ban, which looks the player up, draws a
revision and pushes the request, or of `repair_world` on the console, which lists the players
(`RepairWorld`), asks each of them to go by the same two steps, and later makes transforms
(`ResetTransforms`) and combat states (`ResetCombat`) for those on its list. `caught` is that list. The
feed of requests is an instance of `RevisionFeed` with moderators as writers, and every action that
touches it calls the action of that module. `restored` and `disturbed` are history, and hold what the
code does not keep: what a reset made for players whose sessions were gone (`NoLeftovers` excepts it),
and the sessions that may lack a transform or a combat state (`PlayersKeepState` excepts them), because
they were added while `remove_player` of an older session of the account was still between its locks, or
after a reset had listed the players.

### BlockUpdates

`work[s]` is what is left of the handler of a session, one task per lock it still takes: *look* (the
read of the previous block), *apply* (the write), *number*, *push*, then *plant* and *portal*, the
follow-ups of `set_block`, and *reply*, the direct answer to the client. A portal is lit or collapses
by a list of such tasks. `view[s]` is what the client shows: the chunk as sent, changed by replies and
by handled entries. The world is one chunk with positions of two kinds: a plant on its ground and a
portal in its frame. Finding the frame is one step, and the size and axis of a field are abstracted to
`Frame` and `Portal`. Follow-ups that cannot find anything are left out, so a kind without plants above
costs no step. `contested` and `raced` are history: positions where two sessions' changes overlapped
before they were published, and whether a frame was broken where the code, which decides from the block
it read before, does not collapse what is lit.

### Stacks, Recipes, Mining, Inventories, Items

A stack has a kind, a count and its damage; a cell is a stack with the level of its enchantment, which
`state.rs` keeps in an array beside the slots. `ClickStack` and `ClickLocalSlot` are the two click
functions, `AddStack` is `add_stack`; `Recipes` and `Mining` are the `match`es of the code as sets and
functions, and `CraftingAgrees` and `MiningAgrees` compare the tables with each other: the commands
with the grids, tools with drops, tiers with speed, damage and durability.

A session handles one packet at a time, but a gesture takes a lock for every slot it touches, and
between two of them the tick thread gives pickups and other sessions click the same container. So a
gesture is a `program`, the list of lock-protected operations it has still to do, and `hand` is the
local variable in which its handler carries a stack between them. `Return` is
`return_inventory_cursor`, `QuickMove` to `Collect` are `handle_inventory_gesture`, `ShiftChest` to
`ShiftCraft` the container screens, `Mine` and `PlaceBlock` the two block packets for blocks that hold
items, `AttackPlayer` and `Struck` what fighting wears. `owed` is history: how many items of each kind
there should be, changed only where recipes, furnaces, commands, eating and breaking make or use up
an item. `InPlay` counts what there is, in slots, grids, hands, containers, blocks and on the ground.
Steps that touch only what the session keeps to itself (`Private`) are taken at once, since they
commute with everyone else's.

`NothingFromNothing` and `LossesAreNamed` together say that items are conserved but for the losses that
`NamedLoss` lists, each of which is what the code does: a pickup or an output of which only a part
fits, the grid that opening a chest forgets, the hand that a swap discards, a container whose block is
replaced, equipment that a command overwrites, the oldest of 4,096 items, and the item that stood
where an attacker had seen a shield.

### AccessLists and AuditLog

`job[a]` is the command of an actor: dispatched (`CommandAllowed`), executed under the lock of its list
(`Change`), and written by the operations of `atomic_write`, still under that lock. The change in
memory is not undone when a write fails. `Start` reads only the file itself, as the loaders do, and
takes a missing one for an empty list. `stored` is what was put in place last; `unsaved` the lists
that changed since, or whose missing file a start overlooked. Permissions are paths, and a rule matches
one path or all below it. An audit record is appended in pieces without a lock; `Decodes` is the reading
by lines at a start, and `crossed` and `torn` count the records another writer wrote into and the
appends that broke off.

### Vitals

`thread` is where the tick thread is in `advance_tick`, with the list it made and works off
(burns, zombies' victims, periodic effects); `job[p]` what a session does between two locks. Health,
food and durations are scaled down and the amount of a blow is any of `Blows`, since weapons, armor and
resistance only scale it. `reset` is where `repair_world` is: it clears effects, fire, gear, vitals and
shields under one lock after the other, while the sessions it asked to disconnect go on. `deaths` and
`lives` are history: the announcements of a death, and the returns to life, by a respawn or by a reset
that found the player dead. `astray` is history too: the players whose vitals a reset replaced, with
revisions that start over, since their clients were sent any. A scene says which packets a player sends
in a behaviour, and whether the console resets the world; the tick thread runs in all of them. All
players are online all the time, so a reset lists them all; what becomes of the vitals of a player who
joins after the list was made (their entry is dropped) is not modelled.

### Presence

`sims[d]` has the mobs, the items with their age, and the next entity number of a dimension; `thread` is
the simulation of the three (the Nether and the End are alike and stand for each other), with the lock
of the players kept from the pickups to the end of the tick. `world[p]` is the player's record,
`dim[p]` the session's own variable, `saved[p]` the location kept for the next login. `shown[p]` is what
a client displays and `tracked[p]` the session's three maps, which it compares with the world at each
tick (`Sync`). A client knows entities by their number alone, so `Sync` replaces. Positions are left
out: whoever the code looks at may be near.

### Serving

Four tasks and the connections, each at one of its awaits. `main` is `CarbonServer::run` with the order
in which it awaits the others, `network` is `serve`, `conn[c]` is `handle_connection`. What may end a
connection is an action for each place: an answered status, a refusal, a failing read or write (a client
that left, is late, breaks the protocol or exceeds a budget), a rejected account, the deadline of the
setup, the shutdown. All of them drop what the task owns (`Drops`): its admission and its permit. The
RSA job shares the permit and runs on. `hand` is the clients whose session holds items outside of an
inventory, which its regular end returns and an abort does not. `input` is the blocking read of the
standard input: the console task that asked for a line may be ended, the thread that reads may not. `run`
has returned when `main` is at *saved* or *failed* (`Returned`); the process has ended when it is *gone*
(`Exit`), which `main.rs` comes to only when the drop of the runtime has seen that read and every RSA job
end. `HangInAutosave` is the autosave of a tick that never gets the players again (`state.rs:1117`, the
run `StateLocksAutosave`); the other tasks go on in the model, although those that need the lock would
not, which only adds behaviours.

## The runs

| Run | Question | Result |
| --- | --- | --- |
| `SaveFiles` | one saver: kill, failure or damage anywhere | the stored world survives, evidence stays, refused files are untouched, `DurableWorld` is implemented |
| `StateLocks` | tick, session and console, all operations | no cycle of waits |
| `StateLocksAutosave` | the tick with its autosave | expected to fail (below) |
| `Feed` | a feed of either kind, two writers, two sessions, resets | bounded; only overtaken entries are missed or repeated; the rest reaches the sessions that stay (liveness) |
| `PlayerSessions` | an account's old and new connection, a console that bans, kicks and resets | exact list of players, no leftovers but a reset's, who plays keeps transform and combat state but in two cases, the feed is a `RevisionFeed`, a request pushed after the cursor was taken ends the session (liveness) |
| `BlockUpdates` | two sessions that edit, light, join and leave | clients agree, portals are framed, no plant floats |
| `Items` | twelve scenes of gestures, containers, the tick, the console and fights | items are conserved but for named losses, and keep their damage and level |
| `AccessLists` | console and helper, failing writes, kills, passing time | what is stored is found or in the backup; nobody escalates; bans hold; audit records survive |
| `Vitals` | five scenes: hazards, effects, shields, resets | one announcement per death; the screen agrees but after a reset; shields have to be raised anew |
| `Presence` | joining, travel, death, drops, hits, a reset | a session acts where its player is; what it takes for displayed is displayed |
| `PresenceOverworld` | does each dimension act on its own players? | expected to fail (below) |
| `Serving` | clients that log in, play and vanish; failures; shutdown | the final save is last; counts are exact; after a shutdown the process ends, unless a tick hangs or a line is awaited (liveness) |

### Bounds

- **Savers, worlds, texts** (`MCSaveFiles`): three worlds tell a stale snapshot from the current world
  and from the fresh one; two damaged texts let a second damage follow a recovery. No other bound: the
  run covers any number of saves, kills and damages. The server stops when a start is refused, so
  deadlock is not checked there.
- **Threads** (`MCStateLocks`): two threads make the shortest cycle, and the third lets a writer queue
  between them. The theorem covers any number.
- **Feeds**: `History = 2` makes trimming happen with the third entry, and `Bound`, the entries drawn, is
  3. The safety theorems cover any number.
- **Sessions**: two connections of one account are what a reconnection needs, and one moderator, who is
  the console, what a reset beside them needs. `Bound` is the number of requests.
- **Blocks**: `Packets = 2` handlers, on a chunk of five positions, are two overlapping edits with all
  their follow-ups; `Bound = 6` covers the changes two handlers can make, and `History = 3` lets the
  deque drop one that a session has not polled. Players carry stone only: together with mining it
  reaches each branch of `set_block`; what they cannot do there is to put obsidian back.
- **Items**: two slots of storage (one of them the hotbar), one cell of a chest, of the table and of the
  armor, stacks of at most two, tools that break at the second use, a ground of two items, and at most
  two items brought in by commands. Each scene has the kinds some operations are about, so that together
  every operation meets full, half full and empty slots. One player uses the inventory; the other
  places, visits and attacks. Only one mines: that two who mine one block both get it is a hazard that
  no property covers.
- **AccessLists**: a permanent ban, one that lasts a second, and a clock that passes it; two records
  followed; one kept in memory. The helper starts with a wildcard and two denials, the smallest list
  from which escalation could succeed.
- **Vitals**: two points of health, two ticks and one return to life, by a respawn or a reset; every
  period is one or two ticks, so that everything periodic happens in the same tick as well as alone. The
  scenes with a reset have either a player who respawns and reads, or one who is attacked.
- **Presence**: the actor and the visitor, one mob, two entity numbers, one reset. `FewWithVisitors`
  keeps the visitor away during a reset and after many entities, which the actor alone goes through.
- **Serving**: three clients for two connections, two of them from one address with room for one; one
  permit; a queue of one event. Whether accounts are verified is chosen in `Init`.

Deadlock is not checked where the bounds or an ended program stop the model.

### Fairness

Only `Feed`, `PlayerSessions` and `Serving` assume any. A publisher that has begun finishes (`Push`,
`ModeratorStep`): its code runs from the `fetch_add` to the append without an await, and a reset has none
either. That supposes that locks are granted, which `RwLocksProofs` shows of all but the autosave; while a
tick hangs there, nothing is promised of the sessions. A session polls and
handles (`Poll`, `Handle`, `SessionStep`): its timer ticks every 50 ms in `run_play_session`'s
`select!`, and each arm runs to its end or ends the session. Weak fairness is enough, as nothing
disables these actions but themselves or the end of the session. Nobody has to connect, quit, publish or
kick. In `Serving` a task that can go on does, where the code waits for the shutdown: `stopped` is the
first branch of a biased `select!` in reads, and the watch stays changed. An RSA job ends, as it only
computes. The tick task stops only if it does not hang (`HangInAutosave`, after which `StopTicks` is never
enabled), and nobody has to type a line. Nothing is assumed of clients or of the account service.

## What is proved

TLAPS checks these for every value of the constants that satisfies the modules' assumptions. Each
invariant below that is inductive (its name ends in `Invariant`) was also checked by TLC on the
instance of its component's run.

- `SaveFilesProofs`, about two specifications.
  - `SaveFiles`: `TypeCorrect` for any savers. With a single saver (`SingleSaver`, an assumption on the
    constants), `SaveInvariant` is inductive: it says, for each `pc`, what the three files hold
    relative to the stored world (`PhaseInvariant`, e.g. *before the last rename there is no primary and
    the backup is good*), without which `Recoverable` would not survive a step. `RecoverableHolds` and
    `DurableWorldImplemented` follow: initial states map to initial states, and `Commit` is the only step
    that is not a stutter for the stored world. The phase also says which file is good when another one
    goes, which gives the action properties `GoodCopyRemains`, `EvidenceKept` and `RefusedUntouched`.
  - `Serving`: `ServingInvariant` adds `PermitsKept`, which ties each permit to the one login or job
    that keeps it, and `TasksJoined`, which says of each place of the main task which tasks have ended by
    then. `AdmissionsExactHolds` counts connections one by one, over any finite set of clients;
    `JobsBoundedHolds` and `SavedLastHolds` follow from the two parts added. `Tasks` holds the state and
    the properties, and the steps are those of the instance `Sv` of `Serving`.
- `RwLocksProofs`: `DeadlockFree`. For any threads, programs and locks: when every program takes its
  locks in rank order, no set of threads waits for its own members. `LockInvariant` ties what a thread
  holds to its place in its program. In a set that waits for itself, the thread that waits for the
  highest rank waits for someone who holds that lock and waits for a higher one. The premise is proved
  of the server: `StateProgramsOrdered` says that every program of `StateLocks` but the autosave's is
  ordered. As the programs are put together from pieces, so is the proof: `Does(S, p, T)` says what a
  piece begun with the locks `S` held ends with, and `Chain` lets one piece follow another.
  `StartsOrderedHolds` and `ServerDeadlockFree` follow for any number of threads that run these
  operations. The run `StateLocksAutosave` shows that the exception is needed.
- `RevisionFeedProofs`: `FeedInvariant` is inductive, and `NothingSkipped` and `HandledOnce` follow, for
  feeds of both kinds. The strengthening (`Ahead`, `Behind`) speaks of whole batches: what a session
  polled is compared with what it has handled and with what is still to come. `BoundedHolds`: what the
  trim keeps are the newest entries, of which there are never more than `History`; the lemmas about
  `Newest` and `Last` are what the other proofs about feeds cite.
- `PlayerSessionsProofs`, about two specifications.
  - `PlayerSessions`: `SessionInvariant` is inductive, and gives `OneSessionPerPlayer`, `NoLeftovers` and
    `PlayersKeepState`. The strengthening names, for each transform and combat state that no reset made of
    a player who was gone, a session that still has to remove it (`Placed`, `Armed`), and says that no
    older session of the account is between the locks of its `remove_player` while one that is not
    `disturbed` is registered (`Undisturbed`). What a step of a session may do to the two maps is stated
    once (`Keeps`), and both follow from it (`PhaseStep`).
    `FeedImplemented` maps every step to a step of the feed or a stutter, so the theorems above hold of
    disconnect requests. `Registrations` holds the state and the properties, and the steps are those of
    the instance `PS` of `PlayerSessions`, so that both specifications fit into one module.
  - `Presence`: `PresenceInvariant` gives `SessionKnowsDimensionHolds` and the action property
    `NoNewGapsHolds`. Its core is `NumbersUnique`: entity numbers are the only names on the
    wire, removing one takes away whatever the client shows under it, and so the client and the session
    stay alike only if no two entities that meet in one comparison have the same number. That follows
    because a dimension never gives a number twice (`Grows`), a session tracks only numbers below the
    next one (`NumbersGiven`) and forgets them when it travels, and a player's number is none of theirs
    (`NumbersApart`). `DimensionKnown` needs `OnlineWhileAdded`, and `TrackedStep` sums up what a step may do
    to what a session tracks.
- `BlockUpdatesProofs`, on three invariants. All use the feed's theorems through an instance, and
  `FeedImplemented` is the refinement of the feed.
  - `BlockInvariant`, whose core `PlantsAreOwed` says that whenever a plant stands on a block it does not
    survive on, some session has changed that block and not looked above it yet, or is about to remove
    the plant. `PlantsStandHolds` is that when no handler is at work.
  - `PortalInvariant`: where the frame is broken nobody is lighting it, and for each lit position some
    session has yet to put it out (`Darkens`): it has read the obsidian it is about to replace, or still
    has the portal on its list. `PortalsAreFramedHolds` is that when no handler is at work. The
    exception `raced` is the code's: no collapse is due where obsidian is taken away that was put there
    after the session had read the position, or while another session lights what it found framed.
  - `ClientInvariant`: a client shows, of a block nobody changed at the same time as another and of
    which nothing is still to come, what the world shows (`Shows`), and what a handler is about to answer
    is that too (`Answers`). This is not inductive without what the world was published as
    (`WorldPublished`), without the fact that entries out of order come from sessions that overlapped
    (`OverlapsContested`), and without what a session may meet again or from before it joined
    (`NothingAlone`, `NothingOld`). `ClientsAgreeHolds` is that when all is quiet.
- `ItemsProofs`: `QualitySafe`, for any players, slots, hotbars, chests, furnaces, loot and gestures:
  `QualityInvariant` is inductive. It is `TypeOK` with sound stacks in place of typed ones (`SoundStacks`:
  as large as their kind allows, worn only if their kind is one that the scene wears; `SoundCells`: sharp
  only if a weapon; `SoundInventories`: armor on the slots of armor). `ItemsTyped` and
  `QualitiesAlwaysFit` follow. `QualitiesFit` alone is not inductive, for two reasons. A quick move
  relies on what lies on a slot of armor; and a gesture is a program whose operations carry stacks,
  slots and positions from one lock to the next, so what they carry is part of the invariant (`Ops`).
  The argument goes from the bottom up: what the pure operators do with sound stacks, cells and arrays
  (`ClickStackSound`, `AddStackSound`, `TakeKindsSound`, `TickedSound`), that every recipe and every
  block makes something sound, what a click may answer, and then one lemma for each operation, gesture
  and event. No operation has to be atomic with another: whatever the tick thread, the console and other
  players do between two of them keeps the cells sound.
- `VitalsProofs`: `VitalsInvariant` adds that no client is ahead of its player (`ShownBehind`); without
  it a client could show old vitals under a revision that is reached later, as it may after a reset, until
  it is sent others (`astray`). It gives `DiesOnceHolds`,
  `ShownAgreeHolds` and `RaisedAfterDisabledHolds`, for any players, amounts, blows and periods.
- `AccessListsProofs`, on two invariants.
  - `ListsInvariant`: a list is written by one actor at a time (`OneSaver`), each operation finds the
    files as the ones before it left them (`SavesInOrder`), and whoever is about to give rights has had
    them when the command was allowed (`ByTrusted`): between `command_allowed` and the change the right
    may be gone, so that `NoEscalation` alone is not inductive. It gives `ListsStoredHolds`,
    `NoEscalationHolds` and the action property `BansHoldAlways`.
  - `AuditInvariant`: a record that nobody wrote into is in one piece (`InOnePiece`), and the piece in
    front of one that is glued to a line is the last of a record that broke off (`GluedToBroken`); those
    are counted (`BrokenCounted`). `AuditKeptHolds` is an injection from the records that a start does
    not find into the broken ones.

The assumptions on the constants are those of the modules, and TLC evaluates them in the runs; what a
theorem assumes beyond them (`SingleSaver`, `AllOrdered`, `ServerThreads`) stands in its statement. Four
say more than types: `NumbersApart` has players' entity numbers (31 bits of a UUID) differ from those that
mobs and items get, which count up from 1000; `ServingAssumption` has finitely many clients and slots;
`ItemsAssumption` has the items to begin with and the loot of chests be what players can come by
(`SoundStacks`): players start with nothing, `structure_loot` makes small stacks of materials, and
a save the server wrote has what they had (`load_stack` does not look at the sizes in a file that somebody
edited); and `BlockAssumption` says of
the generated chunk that its plants stand on what they survive on, and that a portal that is lit stands
in its frame, which is how `generate_active_portal` and `generate_ruined_portal` of `world.rs` build it.

Only model-checked:

- the liveness properties `Delivered`, `RequestsTakeEffect` and `Stops`: fairness is out of the
  prover's reach;
- `NothingFromNothing` and `LossesAreNamed`: they count items with folds over slots and players, whose laws
  need induction over data;
- `CraftingAgrees` and `MiningAgrees`: formulas about constant tables without a variable, which TLC
  evaluates.

## Disagreements

Two runs are expected to fail. Each checks what the documentation says, and finds that the code does
something else; `PROJECT.json` quotes both.

1. *The autosave's second read.* `advance_tick` holds `players` for reading when it calls `save`, which
   reads `players` again. A writer that queues in between stops the tick for good.
2. *The players of the Overworld.* `advance_tick` gives the simulation of the Overworld the players of
   all dimensions: items there are collected by, and its zombies strike, whoever is at the same
   coordinates of another dimension.

The other properties name what the code does not keep, in an exception of the property or in a hazard
without one. Those a reader should know of:

- With two savers at once, a kill may leave a torn primary beside an old backup (`SaveFiles` is for one).
- A ban or kick accepted before a loading session took its cursor is never seen (`RequestsTakeEffect`
  speaks of the later ones), and the lists are not asked again after the login.
- Two sessions that change one block may publish in the other order than they wrote (`ClientsAgree`).
- A start after a kill between the two renames of a list takes the list for empty (`BansHold`), though
  its backup has it; a retry after a failed write reports success without writing.
- Items are lost where `NamedLoss` says, and a pickup restores a worn tool.
- Two who mine one block both get it, and a mob that two hit while it has no health drops its loot twice.
- After a death in another dimension the session compares what the client shows with the entities of the
  Overworld under numbers of the other dimension (`NoNewGaps` stops there until the next travel).
- A reset moves sessions that began during it without their knowing (`SessionKnowsDimension`), and drops
  their combat state (`PlayersKeepState`). It makes a transform and a combat state for whoever it had
  listed, also when their session is gone (`NoLeftovers`). It heals the dead (`DiesOnce`) and starts the
  revisions of vitals over, so that a session that plays on may take new ones for those it has
  (`ShownAgree`).
- A player who is added while `remove_player` of their former session is between its locks loses the
  transform and the combat state to it, and is not seen to move (`PlayersKeepState`).
- After the final save the process still waits for the read of the console's line that was begun last
  (`runtime.rs:156`): a shutdown by a signal ends only when somebody types a line or the input is closed. A
  tick that hangs in the autosave keeps `run` from returning at all (`Stops`).
- A failed accept ends the network task and aborts its sessions with what they hold, and the next stop
  skips the final save that `src/README.md` line 31 promises.
- Smaller ones: effects are cleared when a player respawns, not at death (`src/README.md` line 129);
  a block that is finished without having been started counts as mined for long enough; iron and
  diamond axes and shovels mine alike, and stone, iron and diamond axes strike alike (line 113: "Each
  tier has distinct mining speed, durability, attack damage, and attack speed"); cobblestone cannot be
  placed; and the 250 ticks of obsidian are never reached, since it is a pickaxe block.

## Not modelled

Left out for good: terrain generation and the movement of mobs and items (pure functions of seed, blocks
and time), the streaming of chunks, the encoding of packets, cryptography, configuration, the start of
extensions, the advisory lock of the data directory and the release scripts. Also abstracted: a feed's
entries carry only what is told apart (the account, or a position and a kind of block); the text of
chat, reasons and names does not appear; deadlines and budgets pass at any time; and what `load_save`
accepts of a damaged record is not modelled.

Three merged or narrowed steps are worth knowing. `RenewWorlds` of `Presence` takes the first part of a
reset (`state.rs` 405-474, several locks) as one step; the sessions it could meet in between are the ones
a reset overtook, which the properties except by name. The run `AccessLists` writes the bans list and
never the permissions list, so that a failing write of permissions misleads no command rests on the
theorem `NoEscalationHolds` (with `ListsStoredHolds`) and not on a run. The refusal of audit details that
are too long is left out: such a record is neither written nor kept in memory, and only the log says so.
