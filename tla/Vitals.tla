------------------------------- MODULE Vitals -------------------------------
(***************************************************************************)
(* Health, food, effects and fighting (carbon-server/src/state.rs and the  *)
(* attack and respawn packets of network/mod.rs). The tick thread burns,   *)
(* feeds and poisons the players from lists it made a few locks earlier,   *)
(* while their sessions fight, eat, drink, die and respawn lock by lock,   *)
(* and the console resets the world. The players are online all the time.  *)
(* Health and durations are scaled down; how much a blow takes after       *)
(* weapons, armour and resistance, and who is in front of whom, is any     *)
(* choice.                                                                 *)
(***************************************************************************)
EXTENDS Naturals, FiniteSets

CONSTANTS Players,
          Console,     \* the console, which may reset the world
          Full,        \* 20, health and food of a new life
          Fed,         \* 18, the food that heals
          LavaEvery,   \* 10 ticks between two burns
          StrikeEvery, \* 20 ticks between the blows of the zombies
          BurnTicks,   \* 80 ticks that fire lasts outside of lava
          RegenEvery,  \* 80 ticks between two steps of healing or starving
          HungerEvery, \* 1600 ticks to the next loss of food
          Periods,     \* the ticks between two steps of each periodic effect
          RaiseTicks,  \* 5 ticks until a raised shield protects
          DisabledTicks, \* 100 ticks that a shield stays disabled
          Gifts,       \* the effects that are given, with their ticks
          Blows,       \* what an attack or a fall may take
          Scenes,      \* what each player and the console may do
          MaxTick, MaxLives \* bounds, for TLC

Kinds == {"regeneration", "poison", "hunger", "fire resistance"}
Places == {"land", "lava", "water", "zombie"}

ASSUME VitalsAssumption ==
    /\ Full \in Nat \ {0} /\ Fed \in 1 .. Full
    /\ \A n \in {LavaEvery, StrikeEvery, BurnTicks, RegenEvery, HungerEvery} : n \in Nat \ {0}
    /\ RaiseTicks \in Nat /\ DisabledTicks \in Nat
    /\ DOMAIN Periods = Kinds \ {"fire resistance"}
    /\ \A k \in DOMAIN Periods : Periods[k] \in Nat \ {0}
    /\ Blows \subseteq Nat \ {0} /\ Gifts \subseteq [kind: Kinds, left: Nat]

VARIABLES tick,    \* ServerState::tick
          thread,  \* the tick thread: its part of advance_tick, and its list
          vitals,  \* health, food and revision of each player
          effects, \* the ticks left of each effect of each player
          burning, \* lava_burn_until, 0 for none
          combat,  \* when a shield was raised, 0 for not, and disabled until
          gear,    \* the shield and the armour each player has
          place,   \* where each player stands
          job,     \* what each session is doing
          shown,   \* the vitals each client was sent last
          reset,   \* where repair_world is
          scene,   \* which of the scenes this is
          deaths,  \* history: the Died events of each player
          lives,   \* history: how often each player came back to life
          astray   \* history: whose vitals a reset replaced since they were sent

vars == <<tick, thread, vitals, effects, burning, combat, gear, place, job,
          shown, reset, scene, deaths, lives, astray>>

New(revision) == [health |-> Full, food |-> Full, revision |-> revision]
Lowered == [since |-> 0, until |-> 0]
Resting == [at |-> "rest", list |-> {}]
Idle == [at |-> "idle"]

Init ==
    /\ tick = 0
    /\ thread = Resting
    /\ vitals = [p \in Players |-> New(0)]
    /\ effects = [p \in Players |-> [k \in Kinds |-> 0]]
    /\ burning = [p \in Players |-> 0]
    /\ combat = [p \in Players |-> Lowered]
    /\ gear = [p \in Players |-> {"shield", "armour"}]
    /\ place = [p \in Players |-> "land"]
    /\ job = [p \in Players |-> Idle]
    /\ shown = vitals
    /\ reset = "none"
    /\ scene \in Scenes
    /\ deaths = [p \in Players |-> 0]
    /\ lives = [p \in Players |-> 0]
    /\ astray = {}

\* The locks that the tick thread keeps for longer than a step: the players,
\* from the pickups to the end, and the vitals, while it applies the effects.
PlayersFree == thread.at \in {"rest", "lava", "fire"}
VitalsFree == thread.at # "periodic"
-----------------------------------------------------------------------------
Alive(p) == vitals[p].health > 0
Due(every) == tick % every = 0
Cap(n) == IF n < Full THEN n ELSE Full
Bump(v) == [v EXCEPT !.revision = @ + 1]

\* damage_player: the dead are spared, and who dies is announced.
DamagePlayer(p, amount) ==
    LET left == IF vitals[p].health > amount THEN vitals[p].health - amount ELSE 0
    IN IF ~Alive(p) THEN UNCHANGED <<vitals, deaths>>
       ELSE /\ vitals' = [vitals EXCEPT ![p] = Bump([@ EXCEPT !.health = left])]
            /\ deaths' = IF left = 0 THEN [deaths EXCEPT ![p] = @ + 1] ELSE deaths
\* damage_player_combat: a blow that lands wears the armour, which may break.
Strike(p, amount) ==
    /\ DamagePlayer(p, amount)
    /\ \/ UNCHANGED gear
       \/ Alive(p) /\ gear' = [gear EXCEPT ![p] = @ \ {"armour"}]
-----------------------------------------------------------------------------
(* advance_tick *)

Go(at, list) == thread' = [at |-> at, list |-> list]
Still == UNCHANGED <<place, job, shown, lives, reset, scene, astray>>

TickBegins ==
    /\ thread = Resting /\ tick < MaxTick
    /\ tick' = tick + 1
    /\ Go("lava", {<<p, place[p]>> : p \in Players})
    /\ UNCHANGED <<vitals, effects, burning, combat, gear, deaths>> /\ Still

\* tick_lava_hazards: where the players were makes the list of who burns.
Contact(p) == CHOOSE w \in Places : <<p, w>> \in thread.list
Until(p) ==
    IF Contact(p) = "lava" THEN tick + BurnTicks
    ELSE IF Contact(p) = "water" THEN 0 ELSE burning[p]
TickLava ==
    /\ thread.at = "lava"
    /\ burning' = [p \in Players |-> IF Until(p) >= tick THEN Until(p) ELSE 0]
    /\ Go("fire", IF ~Due(LavaEvery) THEN {}
                  ELSE {<<p, IF Contact(p) = "lava" THEN 2 ELSE 1>> :
                            p \in {q \in Players : Until(q) >= tick}})
    /\ UNCHANGED <<tick, vitals, effects, combat, gear, deaths>> /\ Still
TickFire ==
    /\ thread.at = "fire"
    /\ IF thread.list = {}
       THEN /\ Go("mobs", IF Due(StrikeEvery) THEN {p \in Players : place[p] = "zombie"} ELSE {})
            /\ UNCHANGED <<vitals, deaths>>
       ELSE \E e \in thread.list :
            /\ Go("fire", thread.list \ {e})
            /\ IF effects[e[1]]["fire resistance"] > 0 THEN UNCHANGED <<vitals, deaths>>
               ELSE DamagePlayer(e[1], e[2])
    /\ UNCHANGED <<tick, effects, burning, combat, gear>> /\ Still

\* The zombies strike all who stand near, whatever became of them meanwhile.
TickMobs ==
    /\ thread.at = "mobs"
    /\ IF thread.list = {}
       THEN Go("regen", {}) /\ UNCHANGED <<vitals, deaths, gear>>
       ELSE \E p \in thread.list, b \in Blows : Go("mobs", thread.list \ {p}) /\ Strike(p, b)
    /\ UNCHANGED <<tick, effects, burning, combat>> /\ Still

Regenerated(v) ==
    IF v.health > 0 /\ v.food >= Fed /\ v.health < Full
    THEN Bump([v EXCEPT !.health = @ + 1])
    ELSE IF v.health > 1 /\ v.food = 0 THEN Bump([v EXCEPT !.health = @ - 1]) ELSE v
TickRegen ==
    /\ thread.at = "regen"
    /\ vitals' = IF Due(RegenEvery) THEN [p \in Players |-> Regenerated(vitals[p])] ELSE vitals
    /\ Go("effects", {})
    /\ UNCHANGED <<tick, effects, burning, combat, gear, deaths>> /\ Still

\* tick_status_effects: the effects age under their lock, and those that are
\* due are applied under the lock of the vitals.
TickEffects ==
    /\ thread.at = "effects"
    /\ effects' = [p \in Players |-> [k \in Kinds |->
                    IF effects[p][k] > 0 THEN effects[p][k] - 1 ELSE 0]]
    /\ Go("periodic", {e \in Players \X DOMAIN Periods :
                            effects[e[1]][e[2]] > 0 /\ Due(Periods[e[2]])})
    /\ UNCHANGED <<tick, vitals, burning, combat, gear, deaths>> /\ Still
Periodic_Undead(v, kind) == \* mutant: the dead are healed as well
    CASE kind = "regeneration" /\ v.health < Full -> Bump([v EXCEPT !.health = @ + 1])
      [] kind = "poison" /\ v.health > 1 -> Bump([v EXCEPT !.health = @ - 1])
      [] kind = "hunger" /\ v.food > 0 -> Bump([v EXCEPT !.food = @ - 1])
      [] OTHER -> v
Periodic(v, kind) ==
    CASE v.health = 0 -> v
      [] kind = "regeneration" /\ v.health \in 1 .. Full - 1 -> Bump([v EXCEPT !.health = @ + 1])
      [] kind = "poison" /\ v.health > 1 -> Bump([v EXCEPT !.health = @ - 1])
      [] kind = "hunger" /\ v.health > 0 /\ v.food > 0 -> Bump([v EXCEPT !.food = @ - 1])
      [] OTHER -> v
TickPeriodic ==
    /\ thread.at = "periodic"
    /\ IF thread.list = {} THEN Go("hunger", {}) /\ UNCHANGED vitals
       ELSE \E e \in thread.list :
            /\ Go("periodic", thread.list \ {e})
            /\ vitals' = [vitals EXCEPT ![e[1]] = Periodic(@, e[2])]
    /\ UNCHANGED <<tick, effects, burning, combat, gear, deaths>> /\ Still
TickHunger ==
    /\ thread.at = "hunger"
    /\ vitals' = [p \in Players |->
                    IF Due(HungerEvery) /\ vitals[p].food > 0
                    THEN Bump([vitals[p] EXCEPT !.food = @ - 1]) ELSE vitals[p]]
    /\ thread' = Resting
    /\ UNCHANGED <<tick, effects, burning, combat, gear, deaths>> /\ Still
-----------------------------------------------------------------------------
(* Sessions: one packet, or one look at what changed, at a time.           *)

Does(p, at) == job[p].at = at
Then(p, j) == job' = [job EXCEPT ![p] = j]
Apart == UNCHANGED <<tick, thread, reset, scene, astray>>

\* Movement, with the fall that may end it.
Move(p) ==
    /\ Does(p, "idle") /\ PlayersFree /\ VitalsFree
    /\ \E w \in Places : w # place[p] /\ place' = [place EXCEPT ![p] = w]
    /\ \/ UNCHANGED <<vitals, deaths>>
       \/ \E b \in Blows : DamagePlayer(p, b)
    /\ UNCHANGED <<effects, burning, combat, gear, job, shown, lives>> /\ Apart

\* change_player_dimension, which forgets how the player fought.
ChangeDimension(p) ==
    /\ Does(p, "idle") /\ PlayersFree
    /\ place' = [place EXCEPT ![p] = "land"]
    /\ combat' = [combat EXCEPT ![p] = Lowered]
    /\ UNCHANGED <<vitals, effects, burning, gear, job, shown, deaths, lives>> /\ Apart

SetPlayerBlocking(p, blocking) ==
    combat' = [combat EXCEPT ![p].since =
        IF blocking /\ tick >= combat[p].until THEN tick ELSE 0]
Block(p) ==
    /\ Does(p, "idle")
    /\ \E blocking \in BOOLEAN : SetPlayerBlocking(p, blocking)
    /\ UNCHANGED <<vitals, effects, burning, gear, place, job, shown, deaths, lives>> /\ Apart
EquipShield(p) ==
    /\ Does(p, "idle") /\ "shield" \notin gear[p]
    /\ gear' = [gear EXCEPT ![p] = @ \union {"shield"}]
    /\ UNCHANGED <<vitals, effects, burning, combat, place, job, shown, deaths, lives>> /\ Apart

\* attack_player looks at the target's shield first, and acts on that later.
ShieldReady(p) ==
    /\ tick >= combat[p].until
    /\ combat[p].since # 0 /\ tick - combat[p].since >= RaiseTicks
    /\ "shield" \in gear[p]
Attack(p, q) ==
    /\ Does(p, "idle") /\ p # q
    /\ \E step \in {"strike"} \union {s \in {"aside"} : ShieldReady(q)}, axe \in BOOLEAN :
        Then(p, [at |-> step, target |-> q, axe |-> axe])
    /\ UNCHANGED <<vitals, effects, burning, combat, gear, place, shown, deaths, lives>> /\ Apart
\* The blow wears the shield; a shield that breaks is lowered.
TurnAside(p) ==
    LET q == job[p].target
    IN /\ Does(p, "aside")
       /\ \/ UNCHANGED <<gear, combat>>
          \/ /\ "shield" \in gear[q]
             /\ gear' = [gear EXCEPT ![q] = @ \ {"shield"}]
             /\ SetPlayerBlocking(q, FALSE)
       /\ Then(p, [job[p] EXCEPT !.at = "failed"])
       /\ UNCHANGED <<vitals, effects, burning, place, shown, deaths, lives>> /\ Apart
StrikePlayer(p) ==
    LET q == job[p].target
    IN /\ Does(p, "strike") /\ VitalsFree
       /\ \E b \in Blows : Strike(q, b)
       /\ Then(p, IF Alive(q) THEN Idle ELSE [job[p] EXCEPT !.at = "failed"])
       /\ UNCHANGED <<effects, burning, combat, place, shown, lives>> /\ Apart
DisablePlayerShield_Raised(p) == \* mutant: a raised shield stays raised
    combat' = [combat EXCEPT ![p].until = tick + DisabledTicks]
DisablePlayerShield(p) ==
    combat' = [combat EXCEPT ![p] = [since |-> 0, until |-> tick + DisabledTicks]]
\* A charged axe that did no damage disables the shield.
AttackFailed(p) ==
    /\ Does(p, "failed")
    /\ IF job[p].axe THEN DisablePlayerShield(job[p].target) ELSE UNCHANGED combat
    /\ Then(p, Idle)
    /\ UNCHANGED <<vitals, effects, burning, gear, place, shown, deaths, lives>> /\ Apart

\* consume_food; rotten flesh gives hunger when the locks are released.
ConsumeFood(p) ==
    /\ Does(p, "idle") /\ VitalsFree
    /\ Alive(p) /\ vitals[p].food < Full
    /\ vitals' = [vitals EXCEPT ![p] = Bump([@ EXCEPT !.food = Cap(vitals[p].food + 1)])]
    /\ \E rotten \in BOOLEAN : Then(p, IF rotten THEN [at |-> "rotten"] ELSE Idle)
    /\ UNCHANGED <<effects, burning, combat, gear, place, shown, deaths, lives>> /\ Apart
Apply(p, kind, left) == effects' = [effects EXCEPT ![p][kind] = left]
Sicken(p) ==
    /\ Does(p, "rotten")
    /\ Apply(p, "hunger", Full)
    /\ Then(p, Idle)
    /\ UNCHANGED <<vitals, burning, combat, gear, place, shown, deaths, lives>> /\ Apart
\* consume_milk: the effects go first, then the fire.
ConsumeMilk(p) ==
    /\ Does(p, "idle")
    /\ effects' = [effects EXCEPT ![p] = [k \in Kinds |-> 0]]
    /\ Then(p, [at |-> "milk"])
    /\ UNCHANGED <<vitals, burning, combat, gear, place, shown, deaths, lives>> /\ Apart
PutOut(p) ==
    /\ Does(p, "milk")
    /\ burning' = [burning EXCEPT ![p] = 0]
    /\ Then(p, Idle)
    /\ UNCHANGED <<vitals, effects, combat, gear, place, shown, deaths, lives>> /\ Apart

\* respawn_player, lock by lock; fire is not put out.
Reborn_Forgetting(v) == New(0) \* mutant: the revision starts over
Reborn(v) == New(v.revision + 1)
RespawnPlayer(p) ==
    /\ Does(p, "idle") /\ VitalsFree
    /\ ~Alive(p) /\ lives[p] < MaxLives
    /\ vitals' = [vitals EXCEPT ![p] = Reborn(@)]
    /\ lives' = [lives EXCEPT ![p] = @ + 1]
    /\ Then(p, [at |-> "cure"])
    /\ UNCHANGED <<effects, burning, combat, gear, place, shown, deaths>> /\ Apart
Cure(p) ==
    /\ Does(p, "cure")
    /\ effects' = [effects EXCEPT ![p] = [k \in Kinds |-> 0]]
    /\ Then(p, [at |-> "spawn"])
    /\ UNCHANGED <<vitals, burning, combat, gear, place, shown, deaths, lives>> /\ Apart
Spawn(p) ==
    /\ Does(p, "spawn") /\ PlayersFree
    /\ place' = [place EXCEPT ![p] = "land"]
    /\ Then(p, [at |-> "lower"])
    /\ UNCHANGED <<vitals, effects, burning, combat, gear, shown, deaths, lives>> /\ Apart
Lower(p) ==
    /\ Does(p, "lower")
    /\ combat' = [combat EXCEPT ![p] = Lowered]
    /\ Then(p, Idle)
    /\ UNCHANGED <<vitals, effects, burning, gear, place, shown, deaths, lives>> /\ Apart

\* The client is sent the vitals when their revision is not the one it has.
SyncVitals(p) ==
    /\ Does(p, "idle") /\ VitalsFree
    /\ vitals[p].revision # shown[p].revision
    /\ shown' = [shown EXCEPT ![p] = vitals[p]]
    /\ astray' = astray \ {p}
    /\ UNCHANGED <<vitals, effects, burning, combat, gear, place, job, deaths, lives>>
    /\ UNCHANGED <<tick, thread, reset, scene>>

\* The effect command, of the console or of a session with the permission.
Effect(p) ==
    /\ \/ \E g \in Gifts : Apply(p, g.kind, g.left)
       \/ \E k \in Kinds : Apply(p, k, 0)
    /\ UNCHANGED <<vitals, burning, combat, gear, place, job, shown, deaths, lives>> /\ Apart
-----------------------------------------------------------------------------
(* repair_world, lock by lock. It listed the players and asked them to     *)
(* disconnect; until their sessions poll that, they go on.                 *)

Resets(from, to) ==
    /\ reset = from /\ reset' = to
    /\ UNCHANGED <<tick, thread, job, shown, scene, deaths>>
\* Where the players are there may be anything in the worlds that are new.
ResetWorlds ==
    /\ "reset" \in scene[Console] /\ \A p \in Players : lives[p] < MaxLives
    /\ Resets("none", "effects")
    /\ place' \in [Players -> Places]
    /\ UNCHANGED <<vitals, effects, burning, combat, gear, lives, astray>>
ResetEffects ==
    /\ Resets("effects", "fire")
    /\ effects' = [p \in Players |-> [k \in Kinds |-> 0]]
    /\ UNCHANGED <<vitals, burning, combat, gear, place, lives, astray>>
ResetFire ==
    /\ Resets("fire", "players")
    /\ burning' = [p \in Players |-> 0]
    /\ UNCHANGED <<vitals, effects, combat, gear, place, lives, astray>>
ResetPlayers ==
    /\ Resets("players", "gear") /\ PlayersFree
    /\ place' = [p \in Players |-> "land"]
    /\ UNCHANGED <<vitals, effects, burning, combat, gear, lives, astray>>
ResetGear ==
    /\ Resets("gear", "vitals")
    /\ gear' = [p \in Players |-> {}]
    /\ UNCHANGED <<vitals, effects, burning, combat, place, lives, astray>>
\* The dead live again, and the revisions start over.
ResetVitals ==
    /\ Resets("vitals", "combat") /\ VitalsFree
    /\ vitals' = [p \in Players |-> New(0)]
    /\ lives' = [p \in Players |-> IF Alive(p) THEN lives[p] ELSE lives[p] + 1]
    /\ astray' = Players
    /\ UNCHANGED <<effects, burning, combat, gear, place>>
ResetCombat ==
    /\ Resets("combat", "none")
    /\ combat' = [p \in Players |-> Lowered]
    /\ UNCHANGED <<vitals, effects, burning, gear, place, lives, astray>>

ConsoleThread ==
    \/ ResetWorlds \/ ResetEffects \/ ResetFire \/ ResetPlayers \/ ResetGear
    \/ ResetVitals \/ ResetCombat
TickThread ==
    \/ TickBegins \/ TickLava \/ TickFire \/ TickMobs \/ TickRegen
    \/ TickEffects \/ TickPeriodic \/ TickHunger
\* What a session began it ends, whatever the scene.
Session(p) ==
    \/ "move" \in scene[p] /\ (Move(p) \/ ChangeDimension(p))
    \/ "block" \in scene[p] /\ (Block(p) \/ EquipShield(p))
    \/ "attack" \in scene[p] /\ \E q \in Players : Attack(p, q)
    \/ "eat" \in scene[p] /\ (ConsumeFood(p) \/ ConsumeMilk(p))
    \/ "respawn" \in scene[p] /\ RespawnPlayer(p)
    \/ "sync" \in scene[p] /\ SyncVitals(p)
    \/ "effect" \in scene[p] /\ Effect(p)
    \/ TurnAside(p) \/ StrikePlayer(p) \/ AttackFailed(p)
    \/ Sicken(p) \/ PutOut(p) \/ Cure(p) \/ Spawn(p) \/ Lower(p)
Next == TickThread \/ ConsoleThread \/ \E p \in Players : Session(p)
Spec == Init /\ [][Next]_vars
-----------------------------------------------------------------------------
Vital == [health: 0 .. Full, food: 0 .. Full, revision: Nat]
Fight == [since: Nat, until: Nat]
Jobs == [at: {"idle", "rotten", "milk", "cure", "spawn", "lower"}]
        \union [at: {"strike", "aside", "failed"}, target: Players, axe: BOOLEAN]
\* Who is where, who burns how much, whom zombies are near, what is due for whom.
Parts == [at: {"lava"}, list: SUBSET (Players \X Places)]
         \union [at: {"fire"}, list: SUBSET (Players \X {1, 2})]
         \union [at: {"mobs"}, list: SUBSET Players]
         \union [at: {"periodic"}, list: SUBSET (Players \X DOMAIN Periods)]
         \union [at: {"rest", "regen", "effects", "hunger"}, list: {{}}]

TypeOK ==
    /\ tick \in Nat
    /\ thread \in Parts
    /\ vitals \in [Players -> Vital] /\ shown \in [Players -> Vital]
    /\ effects \in [Players -> [Kinds -> Nat]]
    /\ burning \in [Players -> Nat]
    /\ combat \in [Players -> Fight]
    /\ gear \in [Players -> SUBSET {"shield", "armour"}]
    /\ place \in [Players -> Places]
    /\ job \in [Players -> Jobs]
    /\ deaths \in [Players -> Nat] /\ lives \in [Players -> Nat]
    /\ reset \in {"none", "effects", "fire", "players", "gear", "vitals", "combat"}
    /\ astray \subseteq Players

\* Whoever burns, strikes, poisons, starves or heals a player, and in whatever
\* order: every life ends at most once, with one announcement, and nobody lives
\* again but by a respawn, or by a reset that found them dead.
DiesOnce == \A p \in Players : deaths[p] = lives[p] + (IF Alive(p) THEN 0 ELSE 1)

\* A client that has the revision of its player's vitals shows these vitals,
\* whichever of the tick thread, the attackers and the player changed them. Not
\* so after a reset, which starts the revisions over: until a client is sent
\* vitals with another number than it has, it may show those of the old world.
ShownAgree ==
    \A p \in Players \ astray :
        shown[p].revision = vitals[p].revision => shown[p] = vitals[p]

\* A shield was raised after it was last disabled and that time had passed, so
\* the delay of raising it starts over; whatever attacks cross each other.
RaisedAfterDisabled ==
    \A p \in Players : combat[p].since # 0 => combat[p].since \in combat[p].until .. tick
-----------------------------------------------------------------------------
\* What makes ShownAgree true: no client is ahead of its player.
ShownBehind == \A p \in Players \ astray : shown[p].revision <= vitals[p].revision

VitalsInvariant == TypeOK /\ DiesOnce /\ ShownBehind /\ ShownAgree /\ RaisedAfterDisabled
=============================================================================
