------------------------------- MODULE Presence -------------------------------
(***************************************************************************)
(* Who and what is in which dimension, and what the clients are shown of   *)
(* it: joining, travelling, dying and coming back (state.rs and            *)
(* run_play_session in network/mod.rs), mobs and dropped items and the     *)
(* simulation that ages and collects them (world.rs). Every dimension      *)
(* numbers its entities for itself. Positions are left out: any player of  *)
(* those that the code looks at may be near an item or a mob.              *)
(***************************************************************************)
EXTENDS Naturals, FiniteSets

CONSTANTS Players,
          Actors,   \* those who die, drop items and hit mobs here
          Watchers, \* those whose clients are followed
          Overworld, \* the dimension that ServerState keeps for itself
          Other,    \* the Nether or the End, which it treats alike
          Mobs,     \* the mobs the Overworld begins with
          Ripe,     \* 10 ticks until an item is collected
          Old,      \* 6000 ticks until it disappears
          ItemCap,  \* 4096 items in a dimension
          MaxId, MaxResets \* bounds, for TLC

Dims == {Overworld, Other}

Gone == "gone"

ASSUME PresenceAssumption ==
    /\ Overworld # Other /\ Gone \notin Dims /\ Actors \subseteq Players /\ Watchers \subseteq Players
    /\ Mobs \in Nat /\ ItemCap \in Nat \ {0} /\ MaxId \in Nat /\ MaxResets \in Nat
    /\ Ripe \in Nat /\ Old \in Nat \ {0}

\* A player's entity has 31 bits of its UUID for a number (player_entity_id),
\* which is taken to be none that a mob or an item ever gets.
ASSUME NumbersApart == Players \intersect Nat = {}

VARIABLES sims,    \* the mobs and items of each dimension, and the next number
          thread,  \* the tick thread, and the items it has collected
          world,   \* the players that are registered: the world each is in
          saved,   \* saved_locations: where each player comes back
          at,      \* what each session is doing
          dim,     \* session.dimension
          dead,    \* the players with no health left
          shown,   \* what each client displays
          tracked, \* last_players, last_sent and last_items of each session
          asked,   \* whom a reset asked to disconnect, or should have asked
          console, \* the reset that is going on
          resets,  \* the resets so far
          touched, \* history: the dimension simulated last, and the worlds of
                   \* those it acted on
          displaced \* history: who died in Other and plays on in the Overworld

vars == <<sims, thread, world, saved, at, dim, dead, shown, tracked, asked,
          console, resets, touched, displaced>>

Fresh(d) == [mobs |-> IF d = Overworld THEN [i \in 1 .. Mobs |-> TRUE] ELSE << >>,
             items |-> << >>,
             next |-> IF d = Overworld THEN Mobs + 1 ELSE 1]
Resting == [at |-> "rest", list |-> {}]

Init ==
    /\ sims = [d \in Dims |-> Fresh(d)]
    /\ thread = Resting
    /\ world = [p \in Players |-> Gone]
    /\ saved = [p \in Players |-> Overworld]
    /\ at = [p \in Players |-> "out"]
    /\ dim = [p \in Players |-> Overworld]
    /\ dead = {}
    /\ shown = [p \in Players |-> {}] /\ tracked = [p \in Players |-> {}]
    /\ asked = [p \in Players |-> "no"]
    /\ console = "idle" /\ resets = 0
    /\ touched = {} /\ displaced = {}

Online == {p \in Players : world[p] # Gone}
\* The tick thread keeps the lock of the players from the simulation on.
PlayersFree == thread.at = "rest"

Shown(kind, ids) == {<<kind, i>> : i \in ids}
MobsOf(d) == Shown("mob", DOMAIN sims[d].mobs)
ItemsOf(d) == Shown("item", DOMAIN sims[d].items)
Others(p) == Shown("player", {q \in Online \ {p} : world[q] = dim[p]})
Only(S, kind) == {e \in S : e[1] = kind}
Without(f, S) == [i \in DOMAIN f \ S |-> f[i]]
-----------------------------------------------------------------------------
(* The simulation: PrototypeWorld                                          *)

\* drop_item: the oldest makes room; new entities get the next number.
MayDrop(sim) == sim.next <= MaxId
Dropped(sim) ==
    LET oldest == {i \in DOMAIN sim.items : \A j \in DOMAIN sim.items : i <= j}
        kept == IF Cardinality(DOMAIN sim.items) >= ItemCap
                THEN Without(sim.items, oldest) ELSE sim.items
    IN [sim EXCEPT !.items = [i \in DOMAIN kept \union {sim.next} |->
                                IF i = sim.next THEN 0 ELSE kept[i]],
                   !.next = @ + 1]
SpawnMob(sim) ==
    [sim EXCEPT !.mobs = [i \in DOMAIN sim.mobs \union {sim.next} |->
                            IF i = sim.next THEN TRUE ELSE sim.mobs[i]],
                !.next = @ + 1]
\* tick: daylight may kill mobs while players are there, the dead are taken
\* away, and items age.
Ticked(sim, burnt) ==
    LET aged == [i \in DOMAIN sim.items |-> sim.items[i] + 1]
    IN [sim EXCEPT !.mobs = Without(@, burnt \union {i \in DOMAIN sim.mobs : ~sim.mobs[i]}),
                   !.items = Without(aged, {i \in DOMAIN aged : aged[i] >= Old})]
Collectable(sim) == {i \in DOMAIN sim.items : sim.items[i] >= Ripe}

\* Whom advance_tick hands to the simulation of a dimension.
Local(d) == IF d = Overworld THEN Online ELSE {p \in Online : world[p] = d}

Apart == UNCHANGED <<world, saved, at, dim, dead, shown, tracked, asked, console, resets, displaced>>
\* One dimension: its tick, and the pickups that follow.
Simulate(d, done) ==
    \E burnt \in SUBSET DOMAIN sims[d].mobs :
        LET sim == Ticked(sims[d], burnt)
        IN \E taken \in SUBSET Collectable(sim) : \E by \in [taken -> Local(d)] :
            /\ burnt # {} => Local(d) # {}
            /\ sims' = [sims EXCEPT ![d] = [sim EXCEPT !.items = Without(@, taken)]]
            /\ thread' = [at |-> done, list |-> {<<d, i>> : i \in taken}]
            /\ touched' = {<<d, world[by[i]]>> : i \in taken}
            /\ Apart
TickOverworld == thread = Resting /\ Simulate(Overworld, "giving")
\* What an inventory has no room for is dropped again where it was found.
Give(from, to) ==
    /\ thread.at = from
    /\ IF thread.list = {} THEN thread' = [at |-> to, list |-> {}] /\ UNCHANGED sims
       ELSE \E e \in thread.list :
            /\ thread' = [thread EXCEPT !.list = @ \ {e}]
            /\ \/ UNCHANGED sims
               \/ /\ MayDrop(sims[e[1]])
                  /\ sims' = [sims EXCEPT ![e[1]] = Dropped(@)]
    /\ touched' = {} /\ Apart
GiveOverworld == Give("giving", "others")
TickOthers == thread.at = "others" /\ Simulate(Other, "returning")
GiveOthers == Give("returning", "zombies")
\* The zombies of the Overworld strike whoever is near.
TickZombies ==
    /\ thread.at = "zombies" /\ thread' = Resting
    /\ \E hit \in SUBSET (IF sims[Overworld].mobs = << >> THEN {} ELSE Online) :
        /\ touched' = {<<Overworld, world[p]>> : p \in hit}
        /\ \E killed \in SUBSET hit : dead' = dead \union killed
    /\ UNCHANGED <<sims, world, saved, at, dim, shown, tracked, asked, console, resets, displaced>>
-----------------------------------------------------------------------------
(* Joining and leaving                                                     *)

Does(p, step) == at[p] = step
Then(p, step) == at' = [at EXCEPT ![p] = step]
Followed(p, S) == IF p \in Watchers THEN S ELSE {}
Shows(p, S) == shown' = [shown EXCEPT ![p] = Followed(p, S)]
Tracks(p, S) == tracked' = [tracked EXCEPT ![p] = Followed(p, S)]
Rest == UNCHANGED <<thread, console, resets, touched>>
Stays == UNCHANGED displaced
Settles(p) == displaced' = displaced \ {p}

\* handle_play greets with the entities of the Overworld, adds the player and
\* then shows those of the dimension where the player was last.
Greet(p) ==
    /\ Does(p, "out") /\ Then(p, "greeted")
    /\ Shows(p, MobsOf(Overworld) \union ItemsOf(Overworld))
    /\ UNCHANGED <<sims, world, saved, dim, dead, tracked, asked>> /\ Rest /\ Stays
AddPlayer(p) ==
    /\ Does(p, "greeted") /\ PlayersFree /\ Then(p, "added")
    /\ world' = [world EXCEPT ![p] = saved[p]]
    /\ UNCHANGED <<sims, saved, dim, dead, shown, tracked, asked>> /\ Rest /\ Stays
ShowDimension(p) ==
    /\ Does(p, "added") /\ Then(p, "shown")
    /\ dim' = [dim EXCEPT ![p] = world[p]]
    /\ IF world[p] = Overworld THEN UNCHANGED shown
       ELSE Shows(p, MobsOf(world[p]) \union ItemsOf(world[p]))
    /\ UNCHANGED <<sims, world, saved, dead, tracked, asked>> /\ Rest /\ Stays
\* run_play_session takes what is there by now for what the client was shown,
\* and passes over the requests to disconnect that came before.
BeginSession(p) ==
    /\ Does(p, "shown") /\ Then(p, "playing")
    /\ Tracks(p, MobsOf(dim[p]) \union ItemsOf(dim[p]))
    /\ asked' = [asked EXCEPT ![p] = IF @ = "asked" THEN "missed" ELSE @]
    /\ UNCHANGED <<sims, world, saved, dim, dead, shown>> /\ Rest /\ Stays
\* remove_player keeps the location. A session ends where it awaits the client.
RemovePlayer(p) ==
    /\ at[p] \in {"added", "shown", "playing", "mobs", "items"} /\ PlayersFree
    /\ Then(p, "out")
    /\ world' = [world EXCEPT ![p] = Gone]
    /\ saved' = [saved EXCEPT ![p] = world[p]]
    /\ Shows(p, {}) /\ Tracks(p, {})
    /\ dim' = [dim EXCEPT ![p] = Overworld]
    /\ asked' = [asked EXCEPT ![p] = "no"]
    /\ UNCHANGED <<sims, dead>> /\ Rest /\ Settles(p)
HangUp(p) ==
    /\ Does(p, "greeted") /\ Then(p, "out") /\ Shows(p, {})
    /\ UNCHANGED <<sims, world, saved, dim, dead, tracked, asked>> /\ Rest /\ Stays
-----------------------------------------------------------------------------
(* Playing                                                                 *)

\* What the callers of transition_dimension clear: to the client the new
\* dimension is an empty one.
Forgets_Mobs(p) == Shows(p, {}) /\ Tracks(p, Only(tracked[p], "item")) \* mutant: the items stay
Forgets(p) == Shows(p, {}) /\ Tracks(p, {})
ChangePlayerDimension(p, d) == PlayersFree /\ world' = [world EXCEPT ![p] = d]
\* By a command or a portal.
TransitionDimension(p, d) ==
    /\ d # dim[p] /\ ChangePlayerDimension(p, d)
    /\ dim' = [dim EXCEPT ![p] = d]
Travel(p) ==
    /\ Does(p, "playing")
    /\ \E d \in Dims : TransitionDimension(p, d)
    /\ Forgets(p)
    /\ UNCHANGED <<sims, saved, at, dead, asked>> /\ Rest /\ Settles(p)

Die(p) == \* by a fall, fire or another player
    /\ Does(p, "playing") /\ dead' = dead \union {p}
    /\ UNCHANGED <<sims, world, saved, at, dim, shown, tracked, asked>> /\ Rest /\ Stays
\* respawn_player gives the health first and moves the player later.
Respawn(p) ==
    /\ Does(p, "playing") /\ p \in dead /\ Then(p, "reborn")
    /\ dead' = dead \ {p}
    /\ UNCHANGED <<sims, world, saved, dim, shown, tracked, asked>> /\ Rest /\ Stays
\* The client forgets what it displayed when the dimension is another one.
RespawnDimension_Kept(p) == dim \* mutant: the session stays where the player died
RespawnDimension(p) == [dim EXCEPT ![p] = Overworld]
Reappear(p) ==
    /\ Does(p, "reborn") /\ PlayersFree /\ Then(p, "playing")
    /\ world' = [world EXCEPT ![p] = Overworld]
    /\ dim' = RespawnDimension(p)
    /\ IF dim[p] = Overworld THEN UNCHANGED shown ELSE Shows(p, {})
    /\ UNCHANGED <<sims, saved, dead, tracked, asked>> /\ Rest
    /\ displaced' = IF dim[p] = Overworld THEN displaced ELSE displaced \union {p}

DropItem(p) ==
    /\ Does(p, "playing") /\ MayDrop(sims[dim[p]])
    /\ sims' = [sims EXCEPT ![dim[p]] = Dropped(@)]
    /\ UNCHANGED <<world, saved, at, dim, dead, shown, tracked, asked>> /\ Rest /\ Stays
\* Whoever hits a mob that has no health, also one that another killed before
\* the tick takes it away, goes on to drop its loot. The sweep of a sword then
\* hits others, one by one.
HitMob(p) ==
    \E i \in DOMAIN sims[dim[p]].mobs, health \in BOOLEAN :
        /\ health => sims[dim[p]].mobs[i]
        /\ sims' = [sims EXCEPT ![dim[p]].mobs[i] = health]
        /\ IF health THEN (Then(p, "playing") \/ Then(p, "sweeping")) ELSE Then(p, "looting")
AttackMob(p) ==
    /\ Does(p, "playing") /\ HitMob(p)
    /\ UNCHANGED <<world, saved, dim, dead, shown, tracked, asked>> /\ Rest /\ Stays
Sweep(p) ==
    /\ Does(p, "sweeping") /\ (HitMob(p) \/ (Then(p, "playing") /\ UNCHANGED sims))
    /\ UNCHANGED <<world, saved, dim, dead, shown, tracked, asked>> /\ Rest /\ Stays
Loot(p) ==
    /\ Does(p, "looting") /\ (Then(p, "playing") \/ Then(p, "sweeping"))
    /\ \/ UNCHANGED sims
       \/ MayDrop(sims[dim[p]]) /\ sims' = [sims EXCEPT ![dim[p]] = Dropped(@)]
    /\ UNCHANGED <<world, saved, dim, dead, shown, tracked, asked>> /\ Rest /\ Stays

\* The part of a tick of the session that shows its client what changed of one
\* kind: what is gone is removed, what is new is spawned. A client knows
\* entities by their number, mobs and items alike.
Numbered(S) == {k \in {"mob", "item"} : S # {}} \X {e[2] : e \in S}
Sync(p, from, to, kind, there) ==
    LET gone == Only(tracked[p], kind) \ there
        new == there \ tracked[p]
    IN /\ Does(p, from) /\ Then(p, to)
       /\ Shows(p, (shown[p] \ (gone \union Numbered(gone \union new))) \union new)
       /\ Tracks(p, (tracked[p] \ gone) \union new)
       /\ UNCHANGED <<sims, world, saved, dim, dead, asked>> /\ Rest /\ Stays
SyncPlayers(p) == asked[p] # "asked" /\ Sync(p, "playing", "mobs", "player", Others(p))
SyncMobs(p) == Sync(p, "mobs", "items", "mob", MobsOf(dim[p]))
SyncItems(p) == Sync(p, "items", "playing", "item", ItemsOf(dim[p]))
-----------------------------------------------------------------------------
(* The console                                                             *)

\* spawn_mob has no dimension but the Overworld.
SummonMob ==
    /\ MayDrop(sims[Overworld])
    /\ sims' = [sims EXCEPT ![Overworld] = SpawnMob(@)]
    /\ UNCHANGED <<world, saved, at, dim, dead, shown, tracked, asked>> /\ Rest /\ Stays
\* repair_world asks the players to disconnect and renews the worlds, and then
\* moves those who are there to the spawn, which their sessions do not know.
RenewWorlds ==
    /\ console = "idle" /\ resets < MaxResets
    /\ console' = "moving" /\ resets' = resets + 1
    /\ asked' = [p \in Players |-> IF p \in Online THEN "asked" ELSE asked[p]]
    /\ sims' = [d \in Dims |-> Fresh(d)]
    /\ saved' = [p \in Players |-> Overworld]
    /\ UNCHANGED <<thread, world, at, dim, dead, shown, tracked, touched, displaced>>
MovePlayers ==
    /\ console = "moving" /\ PlayersFree /\ console' = "idle"
    /\ world' = [p \in Players |-> IF p \in Online THEN Overworld ELSE Gone]
    /\ asked' = [p \in Players |-> IF p \in Online /\ asked[p] = "no" THEN "missed" ELSE asked[p]]
    /\ dead' = {}
    /\ UNCHANGED <<sims, thread, saved, at, dim, shown, tracked, resets, touched, displaced>>

Session(p) ==
    \/ Greet(p) \/ AddPlayer(p) \/ ShowDimension(p) \/ BeginSession(p) \/ RemovePlayer(p) \/ HangUp(p)
    \/ Travel(p) \/ Respawn(p) \/ Reappear(p) \/ Loot(p) \/ Sweep(p)
    \/ p \in Actors /\ (Die(p) \/ DropItem(p) \/ AttackMob(p))
    \/ p \in Watchers /\ (SyncPlayers(p) \/ SyncMobs(p) \/ SyncItems(p))
Next ==
    \/ TickOverworld \/ GiveOverworld \/ TickOthers \/ GiveOthers \/ TickZombies
    \/ SummonMob \/ RenewWorlds \/ MovePlayers
    \/ \E p \in Players : Session(p)
Spec == Init /\ [][Next]_vars
-----------------------------------------------------------------------------
Entities == ({"mob", "item"} \X (Nat \ {0})) \union ({"player"} \X Players)
IsSim(sim) ==
    /\ sim = [mobs |-> sim.mobs, items |-> sim.items, next |-> sim.next]
    /\ sim.next \in Nat \ {0}
    /\ DOMAIN sim.mobs \subseteq 1 .. sim.next - 1
    /\ DOMAIN sim.items \subseteq 1 .. sim.next - 1
Acting == {"playing", "mobs", "items", "looting", "sweeping"}
TypeOK ==
    /\ DOMAIN sims = Dims /\ \A d \in Dims : IsSim(sims[d])
    /\ thread.at \in {"rest", "giving", "others", "returning", "zombies"}
    /\ thread = [at |-> thread.at, list |-> thread.list]
    /\ thread.list \subseteq Dims \X (Nat \ {0})
    /\ world \in [Players -> Dims \union {Gone}]
    /\ saved \in [Players -> Dims] /\ dim \in [Players -> Dims]
    /\ at \in [Players -> Acting \union {"out", "greeted", "added", "shown", "reborn"}]
    /\ asked \in [Players -> {"no", "asked", "missed"}]
    /\ shown \in [Players -> SUBSET Entities] /\ tracked \in [Players -> SUBSET Entities]
    /\ dead \subseteq Players /\ displaced \subseteq Players
    /\ touched \subseteq Dims \X Dims

\* A session acts on the dimension its player is in, through joining at a saved
\* place, travelling and dying elsewhere; but for the sessions that a reset
\* overtook, above all those that began while it went on.
SessionKnowsDimension ==
    \A p \in Players :
        at[p] \in Acting /\ asked[p] = "no" => dim[p] = world[p]

\* What a client displays and what its session takes for displayed do not drift
\* apart while it plays, whatever appears and goes away meanwhile: a gap comes
\* from joining, and grows only after a reset, or after a death in another
\* dimension, whose entities the session goes on to compare with those of the
\* Overworld until it travels again.
Gap(p) == (shown[p] \ tracked[p]) \union (tracked[p] \ shown[p])
Plays(p) == /\ asked[p] = "no" /\ p \notin displaced
            /\ at[p] \in Acting \union {"reborn"}
NoNewGaps == [][\A p \in Players : Plays(p) /\ Plays(p)' => Gap(p)' \subseteq Gap(p)]_vars

\* A simulation leaves the players of other worlds alone (README.md:
\* "Independent Overworld, Nether, and End simulations with [...] dropped
\* items").
DimensionsIndependent == \A t \in touched : t[1] = t[2]

\* What makes these true. A player is online from add_player to remove_player;
\* a session knows its dimension from the moment it has shown it; and all that
\* is there and all that a session tracks bears numbers of its own, because a
\* dimension never gives one twice and the session forgets those of another.
OnlineWhileAdded ==
    \A p \in Players : p \in Online <=> at[p] \notin {"out", "greeted"}
DimensionKnown ==
    \A p \in Players :
        at[p] \in Acting \union {"shown", "reborn"} /\ asked[p] = "no" => dim[p] = world[p]
OneName(S) == \A e, f \in S : e[2] = f[2] => e = f
NumbersGiven(p) == \A e \in tracked[p] : e[1] # "player" => e[2] < sims[dim[p]].next
NumbersUnique ==
    /\ \A d \in Dims : OneName(MobsOf(d) \union ItemsOf(d))
    /\ \A p \in Players : Plays(p) =>
         NumbersGiven(p) /\ OneName(tracked[p] \union MobsOf(dim[p]) \union ItemsOf(dim[p]))
PresenceInvariant ==
    TypeOK /\ OnlineWhileAdded /\ DimensionKnown /\ NumbersUnique
=============================================================================
