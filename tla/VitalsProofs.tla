---------------------------- MODULE VitalsProofs ----------------------------
(***************************************************************************)
(* VitalsInvariant is inductive for any players, periods, delays, effects  *)
(* and blows, and however many sessions strike, eat, drink, die and        *)
(* respawn between the parts of a tick and the steps of a reset. Every     *)
(* action that touches vitals does one of five things to those of a player *)
(* (LivesOn); every action that touches a shield does one of two           *)
(* (FightsOn); what the invariant needs follows from that, once for all    *)
(* actions.                                                                *)
(***************************************************************************)
EXTENDS Vitals, TLAPS

LEMMA InitInvariant == Init => VitalsInvariant
<1> SUFFICES ASSUME Init PROVE VitalsInvariant
  OBVIOUS
<1>1. vitals \in [Players -> Vital] /\ shown \in [Players -> Vital]
  <2>1. New(0) \in Vital
    <3>1. Full \in Nat
      BY VitalsAssumption
    <3>2. Full \in 0 .. Full
      BY <3>1
    <3>3. QED
      BY <3>2 DEF New, Vital
  <2>2. QED
    BY <2>1 DEF Init
<1>2. effects \in [Players -> [Kinds -> Nat]] /\ burning \in [Players -> Nat]
  <2>1. [k \in Kinds |-> 0] \in [Kinds -> Nat]
    OBVIOUS
  <2>2. QED
    BY <2>1 DEF Init
<1>3. combat \in [Players -> Fight]
  <2>1. Lowered \in Fight
    BY DEF Lowered, Fight
  <2>2. QED
    BY <2>1 DEF Init
<1>4. job \in [Players -> Jobs]
  <2>1. Idle \in Jobs
    BY DEF Idle, Jobs
  <2>2. QED
    BY <2>1 DEF Init
<1>5. thread \in Parts
  <2>1. Resting \in [at: {"rest", "regen", "effects", "hunger"}, list: {{}}]
    BY DEF Resting
  <2>2. QED
    BY <2>1 DEF Init, Parts
<1>6. TypeOK
  BY <1>1, <1>2, <1>3, <1>4, <1>5 DEF Init, TypeOK, Places
<1>7. DiesOnce /\ ShownBehind /\ ShownAgree
  <2>1. /\ \A p \in Players : vitals[p].health = Full /\ deaths[p] = 0 /\ lives[p] = 0
        /\ Full \in Nat /\ Full > 0
    <3>1. Full \in Nat \ {0}
      BY VitalsAssumption
    <3>2. QED
      BY <3>1 DEF Init, New
  <2>2. \A p \in Players : vitals[p].revision = 0 /\ shown[p] = vitals[p]
    BY DEF Init, New
  <2>3. \A p \in Players : Alive(p)
    BY <2>1 DEF Alive
  <2>4. DiesOnce
    BY <2>1, <2>3 DEF DiesOnce
  <2>5. QED
    BY <2>2, <2>4 DEF ShownBehind, ShownAgree
<1>8. RaisedAfterDisabled
  BY DEF Init, RaisedAfterDisabled, Lowered
<1>9. QED
  BY <1>6, <1>7, <1>8 DEF VitalsInvariant
-----------------------------------------------------------------------------
(* What a step may do to a player.                                         *)

\* The revision rises with every change of vitals; a change that ends a life
\* is announced, and a respawn begins one. A reset does as well where the player
\* was dead, and the client may be ahead from then on.
LivesOn(p) ==
    \/ vitals'[p] = vitals[p] /\ deaths'[p] = deaths[p] /\ lives'[p] = lives[p]
    \/ /\ vitals'[p].revision = vitals[p].revision + 1
       /\ \/ (Alive(p)' <=> Alive(p)) /\ deaths'[p] = deaths[p] /\ lives'[p] = lives[p]
          \/ Alive(p) /\ ~Alive(p)' /\ deaths'[p] = deaths[p] + 1 /\ lives'[p] = lives[p]
          \/ ~Alive(p) /\ Alive(p)' /\ deaths'[p] = deaths[p] /\ lives'[p] = lives[p] + 1
    \/ /\ p \in astray' /\ Alive(p)' /\ deaths'[p] = deaths[p]
       /\ lives'[p] = lives[p] + (IF Alive(p) THEN 0 ELSE 1)
LiveOn ==
    /\ vitals' \in [Players -> Vital]
    /\ deaths' \in [Players -> Nat] /\ lives' \in [Players -> Nat]
    /\ \A p \in Players : LivesOn(p)

\* A client keeps what it was sent, or is sent what the player has; only then
\* is it no longer astray.
Synced ==
    /\ shown' \in [Players -> Vital] /\ astray' \subseteq Players
    /\ \A p \in astray \ astray' : shown'[p] = vitals'[p]
    /\ \A p \in Players : shown'[p] = shown[p] \/ shown'[p] = vitals'[p]

\* A shield stays as it is, is lowered, or is raised now that it may be.
FightsOn(p) ==
    \/ combat'[p] = combat[p]
    \/ combat'[p].since = 0
    \/ tick >= combat[p].until /\ combat'[p] = [since |-> tick, until |-> combat[p].until]
FightOn ==
    /\ combat' \in [Players -> Fight]
    /\ tick' \in Nat /\ tick' >= tick
    /\ \A p \in Players : FightsOn(p)

WorldOK ==
    /\ thread \in Parts
    /\ effects \in [Players -> [Kinds -> Nat]]
    /\ burning \in [Players -> Nat]
    /\ gear \in [Players -> SUBSET {"shield", "armour"}]
    /\ place \in [Players -> Places]
    /\ job \in [Players -> Jobs]
    /\ reset \in {"none", "effects", "fire", "players", "gear", "vitals", "combat"}

LEMMA LivesCounted ==
  ASSUME TypeOK, DiesOnce, LiveOn
  PROVE  DiesOnce'
<1> SUFFICES ASSUME NEW p \in Players
             PROVE  deaths'[p] = lives'[p] + (IF Alive(p)' THEN 0 ELSE 1)
  BY DEF DiesOnce, Alive
<1>1. /\ deaths[p] = lives[p] + (IF Alive(p) THEN 0 ELSE 1)
      /\ deaths[p] \in Nat /\ lives[p] \in Nat
  BY DEF DiesOnce, TypeOK
<1>2. LivesOn(p)
  BY DEF LiveOn
<1>3. CASE vitals'[p] = vitals[p] /\ deaths'[p] = deaths[p] /\ lives'[p] = lives[p]
  BY <1>1, <1>3 DEF Alive
<1>4. CASE (Alive(p)' <=> Alive(p)) /\ deaths'[p] = deaths[p] /\ lives'[p] = lives[p]
  BY <1>1, <1>4
<1>5. CASE Alive(p) /\ ~Alive(p)' /\ deaths'[p] = deaths[p] + 1 /\ lives'[p] = lives[p]
  BY <1>1, <1>5
<1>6. CASE ~Alive(p) /\ Alive(p)' /\ deaths'[p] = deaths[p] /\ lives'[p] = lives[p] + 1
  BY <1>1, <1>6
<1>7. CASE /\ Alive(p)' /\ deaths'[p] = deaths[p]
           /\ lives'[p] = lives[p] + (IF Alive(p) THEN 0 ELSE 1)
  BY <1>1, <1>7
<1>8. QED
  BY <1>2, <1>3, <1>4, <1>5, <1>6, <1>7 DEF LivesOn

LEMMA ShownFollows ==
  ASSUME TypeOK, ShownBehind, ShownAgree, LiveOn, Synced
  PROVE  ShownBehind' /\ ShownAgree'
<1>1. ASSUME NEW p \in Players \ astray'
      PROVE  /\ shown'[p].revision <= vitals'[p].revision
             /\ shown'[p].revision = vitals'[p].revision => shown'[p] = vitals'[p]
  <2>1. /\ vitals[p].revision \in Nat /\ shown[p].revision \in Nat
        /\ vitals'[p].revision \in Nat
    BY DEF TypeOK, LiveOn, Vital
  <2>2. vitals'[p] = vitals[p] \/ vitals'[p].revision = vitals[p].revision + 1
    BY DEF LiveOn, LivesOn
  <2>3. CASE shown'[p] = vitals'[p]
    BY <2>1, <2>3
  <2>4. CASE shown'[p] = shown[p] /\ p \notin astray
    <3>1. /\ shown[p].revision <= vitals[p].revision
          /\ shown[p].revision = vitals[p].revision => shown[p] = vitals[p]
      BY <2>4 DEF ShownBehind, ShownAgree
    <3>2. QED
      BY <2>1, <2>2, <2>4, <3>1
  <2>5. QED
    BY <2>3, <2>4 DEF Synced
<1>2. QED
  BY <1>1 DEF ShownBehind, ShownAgree

LEMMA ShieldsFollow ==
  ASSUME TypeOK, RaisedAfterDisabled, FightOn
  PROVE  RaisedAfterDisabled'
<1> SUFFICES ASSUME NEW p \in Players, combat'[p].since # 0
             PROVE  combat'[p].since \in combat'[p].until .. tick'
  BY DEF RaisedAfterDisabled
<1>1. /\ tick \in Nat /\ tick' \in Nat /\ tick' >= tick
      /\ combat[p] \in Fight /\ FightsOn(p)
      /\ combat[p].since # 0 => combat[p].since \in combat[p].until .. tick
  BY DEF TypeOK, FightOn, RaisedAfterDisabled
<1>2. CASE combat'[p] = combat[p]
  BY <1>1, <1>2 DEF Fight
<1>3. CASE tick >= combat[p].until /\ combat'[p] = [since |-> tick, until |-> combat[p].until]
  BY <1>1, <1>3 DEF Fight
<1>4. QED
  BY <1>1, <1>2, <1>3 DEF FightsOn

LEMMA StepInvariant ==
  ASSUME VitalsInvariant, LiveOn, Synced, FightOn, WorldOK'
  PROVE  VitalsInvariant'
<1>1. TypeOK'
  BY DEF LiveOn, Synced, FightOn, WorldOK, TypeOK
<1>2. QED
  BY <1>1, LivesCounted, ShownFollows, ShieldsFollow DEF VitalsInvariant
-----------------------------------------------------------------------------
(* What the operators do.                                                  *)

LEMMA SameVitals ==
  ASSUME TypeOK, UNCHANGED <<vitals, deaths, lives>>
  PROVE  LiveOn
BY DEF TypeOK, LiveOn, LivesOn

LEMMA SameShown ==
  ASSUME TypeOK, UNCHANGED <<shown, astray>>
  PROVE  Synced
BY DEF TypeOK, Synced

LEMMA SameFight ==
  ASSUME TypeOK, UNCHANGED <<tick, combat>>
  PROVE  FightOn
BY DEF TypeOK, FightOn, FightsOn

LEMMA BumpedVital ==
  ASSUME NEW v \in Vital, NEW n \in 0 .. Full
  PROVE  /\ Bump([v EXCEPT !.health = n]) \in Vital
         /\ Bump([v EXCEPT !.health = n]).health = n
         /\ Bump([v EXCEPT !.health = n]).revision = v.revision + 1
         /\ Bump([v EXCEPT !.food = n]) \in Vital
         /\ Bump([v EXCEPT !.food = n]).health = v.health
         /\ Bump([v EXCEPT !.food = n]).revision = v.revision + 1
<1>1. v.revision + 1 \in Nat
  BY DEF Vital
<1>2. /\ Bump([v EXCEPT !.health = n]) = [v EXCEPT !.health = n, !.revision = v.revision + 1]
      /\ Bump([v EXCEPT !.food = n]) = [v EXCEPT !.food = n, !.revision = v.revision + 1]
  BY DEF Bump, Vital
<1>3. QED
  BY <1>1, <1>2 DEF Vital

\* The vitals of one player change, and no life begins or ends.
LEMMA OneLivesOn ==
  ASSUME TypeOK, NEW p \in Players, NEW v \in Vital,
         vitals' = [vitals EXCEPT ![p] = v],
         \/ v = vitals[p]
         \/ /\ v.revision = vitals[p].revision + 1
            /\ v.health > 0 <=> Alive(p),
         UNCHANGED <<deaths, lives>>
  PROVE  LiveOn
<1>1. vitals' \in [Players -> Vital] /\ deaths' \in [Players -> Nat] /\ lives' \in [Players -> Nat]
  BY DEF TypeOK
<1>2. ASSUME NEW q \in Players PROVE LivesOn(q)
  <2>1. deaths'[q] = deaths[q] /\ lives'[q] = lives[q]
    OBVIOUS
  <2>2. vitals'[q] = IF q = p THEN v ELSE vitals[q]
    BY DEF TypeOK
  <2>3. QED
    BY <2>1, <2>2 DEF LivesOn, Alive
<1>3. QED
  BY <1>1, <1>2 DEF LiveOn

LEMMA DamageStep ==
  ASSUME TypeOK, NEW p \in Players, NEW amount \in Nat,
         DamagePlayer(p, amount), UNCHANGED lives
  PROVE  LiveOn
<1> DEFINE left == IF vitals[p].health > amount THEN vitals[p].health - amount ELSE 0
           hurt == Bump([vitals[p] EXCEPT !.health = left])
<1>1. vitals[p] \in Vital /\ Full \in Nat
  BY VitalsAssumption DEF TypeOK
<1>2. left \in 0 .. Full
  BY <1>1 DEF Vital
<1>3. hurt \in Vital /\ hurt.health = left /\ hurt.revision = vitals[p].revision + 1
  BY <1>1, <1>2, BumpedVital
<1>4. CASE ~Alive(p)
  BY <1>4, SameVitals DEF DamagePlayer
<1>5. CASE Alive(p)
  <2>1. vitals' = [vitals EXCEPT ![p] = hurt]
    BY <1>5 DEF DamagePlayer
  <2>2. deaths' = IF left = 0 THEN [deaths EXCEPT ![p] = @ + 1] ELSE deaths
    BY <1>5 DEF DamagePlayer
  <2> HIDE DEF hurt
  <2>3. vitals' \in [Players -> Vital] /\ vitals'[p] = hurt
    BY <1>3, <2>1 DEF TypeOK
  <2>4. deaths' \in [Players -> Nat] /\ lives' \in [Players -> Nat]
    BY <2>2 DEF TypeOK
  <2>5. CASE left = 0
    <3>1. ~Alive(p)' /\ deaths'[p] = deaths[p] + 1
      BY <1>3, <2>2, <2>3, <2>5 DEF Alive, TypeOK
    <3>2. LivesOn(p)
      BY <1>3, <1>5, <2>3, <3>1 DEF LivesOn
    <3>3. \A q \in Players : q # p => LivesOn(q)
      BY <2>1, <2>2 DEF LivesOn, TypeOK
    <3>4. QED
      BY <2>3, <2>4, <3>2, <3>3 DEF LiveOn
  <2>6. CASE left # 0
    <3>1. (hurt.health > 0 <=> Alive(p)) /\ UNCHANGED deaths
      BY <1>2, <1>3, <1>5, <2>2, <2>6
    <3>2. QED
      BY <1>3, <2>1, <3>1, OneLivesOn
  <2>7. QED
    BY <2>5, <2>6
<1>6. QED
  BY <1>4, <1>5

LEMMA StrikeStep ==
  ASSUME TypeOK, NEW p \in Players, NEW b \in Blows, Strike(p, b), UNCHANGED lives
  PROVE  LiveOn /\ gear' \in [Players -> SUBSET {"shield", "armour"}]
<1>1. b \in Nat
  BY VitalsAssumption
<1>2. LiveOn
  BY <1>1, DamageStep DEF Strike
<1>3. gear' \in [Players -> SUBSET {"shield", "armour"}]
  BY DEF Strike, TypeOK
<1>4. QED
  BY <1>2, <1>3

LEMMA RegeneratedVital ==
  ASSUME NEW v \in Vital
  PROVE  /\ Regenerated(v) \in Vital
         /\ \/ Regenerated(v) = v
            \/ /\ Regenerated(v).revision = v.revision + 1
               /\ Regenerated(v).health > 0 <=> v.health > 0
<1>1. v.health \in 0 .. Full /\ Full \in Nat
  BY VitalsAssumption DEF Vital
<1>2. CASE v.health > 0 /\ v.food >= Fed /\ v.health < Full
  <2>1. v.health + 1 \in 0 .. Full /\ v.health + 1 > 0
    BY <1>1, <1>2
  <2>2. Regenerated(v) = Bump([v EXCEPT !.health = v.health + 1])
    BY <1>2 DEF Regenerated
  <2>3. /\ Bump([v EXCEPT !.health = v.health + 1]) \in Vital
        /\ Bump([v EXCEPT !.health = v.health + 1]).health = v.health + 1
        /\ Bump([v EXCEPT !.health = v.health + 1]).revision = v.revision + 1
    BY <2>1, BumpedVital
  <2>4. QED
    BY <1>2, <2>1, <2>2, <2>3
<1>3. CASE ~(v.health > 0 /\ v.food >= Fed /\ v.health < Full) /\ v.health > 1 /\ v.food = 0
  <2>1. v.health - 1 \in 0 .. Full /\ v.health - 1 > 0 /\ v.health > 0
    BY <1>1, <1>3
  <2>2. Regenerated(v) = Bump([v EXCEPT !.health = v.health - 1])
    BY <1>3 DEF Regenerated
  <2>3. /\ Bump([v EXCEPT !.health = v.health - 1]) \in Vital
        /\ Bump([v EXCEPT !.health = v.health - 1]).health = v.health - 1
        /\ Bump([v EXCEPT !.health = v.health - 1]).revision = v.revision + 1
    BY <2>1, BumpedVital
  <2>4. QED
    BY <2>1, <2>2, <2>3
<1>4. CASE /\ ~(v.health > 0 /\ v.food >= Fed /\ v.health < Full)
           /\ ~(v.health > 1 /\ v.food = 0)
  BY <1>4 DEF Regenerated
<1>5. QED
  BY <1>2, <1>3, <1>4

LEMMA PeriodicVital ==
  ASSUME NEW v \in Vital, NEW kind
  PROVE  /\ Periodic(v, kind) \in Vital
         /\ \/ Periodic(v, kind) = v
            \/ /\ Periodic(v, kind).revision = v.revision + 1
               /\ Periodic(v, kind).health > 0 <=> v.health > 0
<1>1. /\ v.health \in 0 .. Full /\ v.food \in 0 .. Full /\ Full \in Nat
  BY VitalsAssumption DEF Vital
<1>2. CASE kind = "regeneration" /\ v.health \in 1 .. Full - 1
  <2>1. v.health + 1 \in 0 .. Full /\ v.health + 1 > 0 /\ v.health > 0
    BY <1>1, <1>2
  <2>2. Periodic(v, kind) = Bump([v EXCEPT !.health = v.health + 1])
    BY <1>1, <1>2 DEF Periodic
  <2>3. /\ Bump([v EXCEPT !.health = v.health + 1]) \in Vital
        /\ Bump([v EXCEPT !.health = v.health + 1]).health = v.health + 1
        /\ Bump([v EXCEPT !.health = v.health + 1]).revision = v.revision + 1
    BY <2>1, BumpedVital
  <2>4. QED
    BY <2>1, <2>2, <2>3
<1>3. CASE kind = "poison" /\ v.health > 1
  <2>1. v.health - 1 \in 0 .. Full /\ v.health - 1 > 0 /\ v.health > 0
    BY <1>1, <1>3
  <2>2. Periodic(v, kind) = Bump([v EXCEPT !.health = v.health - 1])
    BY <1>1, <1>3 DEF Periodic
  <2>3. /\ Bump([v EXCEPT !.health = v.health - 1]) \in Vital
        /\ Bump([v EXCEPT !.health = v.health - 1]).health = v.health - 1
        /\ Bump([v EXCEPT !.health = v.health - 1]).revision = v.revision + 1
    BY <2>1, BumpedVital
  <2>4. QED
    BY <2>1, <2>2, <2>3
<1>4. CASE kind = "hunger" /\ v.health > 0 /\ v.food > 0
  <2>1. v.food - 1 \in 0 .. Full
    BY <1>1, <1>4
  <2>2. Periodic(v, kind) = Bump([v EXCEPT !.food = v.food - 1])
    BY <1>1, <1>4 DEF Periodic
  <2>3. /\ Bump([v EXCEPT !.food = v.food - 1]) \in Vital
        /\ Bump([v EXCEPT !.food = v.food - 1]).health = v.health
        /\ Bump([v EXCEPT !.food = v.food - 1]).revision = v.revision + 1
    BY <2>1, BumpedVital
  <2>4. QED
    BY <2>1, <2>2, <2>3
<1>5. CASE /\ ~(kind = "regeneration" /\ v.health \in 1 .. Full - 1)
           /\ ~(kind = "poison" /\ v.health > 1)
           /\ ~(kind = "hunger" /\ v.health > 0 /\ v.food > 0)
  <2>1. Periodic(v, kind) = v
    BY <1>5 DEF Periodic
  <2>2. QED
    BY <2>1
<1>6. QED
  BY <1>2, <1>3, <1>4, <1>5

LEMMA GoStep ==
  ASSUME NEW at, NEW list, Go(at, list),
         \/ at = "lava" /\ list \subseteq Players \X Places
         \/ at = "fire" /\ list \subseteq Players \X {1, 2}
         \/ at = "mobs" /\ list \subseteq Players
         \/ at = "periodic" /\ list \subseteq Players \X DOMAIN Periods
         \/ at \in {"rest", "regen", "effects", "hunger"} /\ list = {}
  PROVE  thread' \in Parts
BY DEF Go, Parts

LEMMA ListOf ==
  ASSUME TypeOK
  PROVE  /\ thread.at = "lava" => thread.list \subseteq Players \X Places
         /\ thread.at = "fire" => thread.list \subseteq Players \X {1, 2}
         /\ thread.at = "mobs" => thread.list \subseteq Players
         /\ thread.at = "periodic" => thread.list \subseteq Players \X DOMAIN Periods
BY DEF TypeOK, Parts

LEMMA ThenStep ==
  ASSUME TypeOK, NEW p \in Players, NEW j \in Jobs, Then(p, j)
  PROVE  job' \in [Players -> Jobs]
BY DEF TypeOK, Then

LEMMA JobOf ==
  ASSUME TypeOK, NEW p \in Players, job[p].at \in {"strike", "aside", "failed"}
  PROVE  /\ job[p].target \in Players
         /\ [job[p] EXCEPT !.at = "failed"] \in Jobs
<1>1. job[p] \in [at: {"strike", "aside", "failed"}, target: Players, axe: BOOLEAN]
  BY DEF TypeOK, Jobs
<1>2. [job[p] EXCEPT !.at = "failed"]
        \in [at: {"strike", "aside", "failed"}, target: Players, axe: BOOLEAN]
  BY <1>1
<1>3. QED
  BY <1>1, <1>2 DEF Jobs

LEMMA RestJobs ==
  ASSUME NEW at \in {"idle", "rotten", "milk", "cure", "spawn", "lower"}
  PROVE  [at |-> at] \in Jobs
BY DEF Jobs

LEMMA ApplyStep ==
  ASSUME TypeOK, NEW p \in Players, NEW kind \in Kinds, NEW left \in Nat, Apply(p, kind, left)
  PROVE  effects' \in [Players -> [Kinds -> Nat]]
BY DEF TypeOK, Apply

LEMMA CuredStep ==
  ASSUME TypeOK, NEW p \in Players, effects' = [effects EXCEPT ![p] = [k \in Kinds |-> 0]]
  PROVE  effects' \in [Players -> [Kinds -> Nat]]
<1>1. [k \in Kinds |-> 0] \in [Kinds -> Nat]
  OBVIOUS
<1>2. QED
  BY <1>1 DEF TypeOK

\* How the shield of one player changes.
LEMMA OneFightsOn ==
  ASSUME TypeOK, UNCHANGED tick, NEW p \in Players, NEW f \in Fight,
         combat' = [combat EXCEPT ![p] = f],
         \/ f.since = 0
         \/ tick >= combat[p].until /\ f = [since |-> tick, until |-> combat[p].until]
  PROVE  FightOn
<1>1. combat' \in [Players -> Fight] /\ tick' \in Nat /\ tick' >= tick
  BY DEF TypeOK
<1>2. ASSUME NEW q \in Players PROVE FightsOn(q)
  <2>1. combat'[q] = IF q = p THEN f ELSE combat[q]
    BY DEF TypeOK
  <2>2. QED
    BY <2>1 DEF FightsOn
<1>3. QED
  BY <1>1, <1>2 DEF FightOn

LEMMA LoweredStep ==
  ASSUME TypeOK, UNCHANGED tick, NEW p \in Players, combat' = [combat EXCEPT ![p] = Lowered]
  PROVE  FightOn
<1>1. Lowered \in Fight /\ Lowered.since = 0
  BY DEF Lowered, Fight
<1>2. QED
  BY <1>1, OneFightsOn

LEMMA BlockingStep ==
  ASSUME TypeOK, UNCHANGED tick, NEW p \in Players, NEW blocking \in BOOLEAN,
         SetPlayerBlocking(p, blocking)
  PROVE  FightOn
<1> DEFINE raised == IF blocking /\ tick >= combat[p].until THEN tick ELSE 0
           f == [since |-> raised, until |-> combat[p].until]
<1>1. combat[p] \in Fight /\ tick \in Nat
  BY DEF TypeOK
<1>2. combat' = [combat EXCEPT ![p] = f]
  <2>1. combat' = [combat EXCEPT ![p] = [combat[p] EXCEPT !.since = raised]]
    BY DEF SetPlayerBlocking
  <2>2. [combat[p] EXCEPT !.since = raised] = f
    BY <1>1 DEF Fight
  <2>3. QED
    BY <2>1, <2>2
<1>3. raised = 0 \/ (tick >= combat[p].until /\ raised = tick)
  OBVIOUS
<1>4. f \in Fight
  BY <1>1 DEF Fight
<1>5. \/ f.since = 0
      \/ tick >= combat[p].until /\ f = [since |-> tick, until |-> combat[p].until]
  BY <1>3
<1>6. QED
  <2> HIDE DEF f
  <2> QED
    BY <1>2, <1>4, <1>5, OneFightsOn

LEMMA DisabledStep ==
  ASSUME TypeOK, UNCHANGED tick, NEW p \in Players, DisablePlayerShield(p)
  PROVE  FightOn
<1> DEFINE f == [since |-> 0, until |-> tick + DisabledTicks]
<1>1. tick \in Nat /\ DisabledTicks \in Nat
  BY VitalsAssumption DEF TypeOK
<1>2. f \in Fight /\ f.since = 0
  BY <1>1 DEF Fight
<1>3. combat' = [combat EXCEPT ![p] = f]
  BY DEF DisablePlayerShield
<1>4. QED
  <2> HIDE DEF f
  <2> QED
    BY <1>2, <1>3, OneFightsOn
-----------------------------------------------------------------------------
(* The tick thread.                                                        *)

LEMMA TickBeginsStep ==
  ASSUME VitalsInvariant, TickBegins
  PROVE  VitalsInvariant'
<1>1. TypeOK
  BY DEF VitalsInvariant
<1>2. LiveOn /\ Synced
  BY <1>1, SameVitals, SameShown DEF TickBegins, Still
<1>3. FightOn
  <2>1. tick' = tick + 1 /\ tick \in Nat /\ UNCHANGED combat
    BY <1>1 DEF TickBegins, TypeOK
  <2>2. QED
    BY <1>1, <2>1 DEF FightOn, FightsOn, TypeOK
<1>4. thread' \in Parts
  <2>1. {<<p, place[p]>> : p \in Players} \subseteq Players \X Places
    BY <1>1 DEF TypeOK
  <2>2. QED
    BY <2>1, GoStep DEF TickBegins
<1>5. WorldOK'
  BY <1>1, <1>4 DEF TickBegins, Still, TypeOK, WorldOK
<1>6. QED
  BY <1>2, <1>3, <1>5, StepInvariant

LEMMA TickLavaStep ==
  ASSUME VitalsInvariant, TickLava
  PROVE  VitalsInvariant'
<1>1. TypeOK
  BY DEF VitalsInvariant
<1>2. LiveOn /\ Synced /\ FightOn
  BY <1>1, SameVitals, SameShown, SameFight DEF TickLava, Still
<1>3. thread' \in Parts
  <2> DEFINE list == IF ~Due(LavaEvery) THEN {}
                     ELSE {<<p, IF Contact(p) = "lava" THEN 2 ELSE 1>> :
                               p \in {q \in Players : Until(q) >= tick}}
  <2>1. list \subseteq Players \X {1, 2}
    OBVIOUS
  <2>2. Go("fire", list)
    BY DEF TickLava
  <2>3. QED
    <3> HIDE DEF list
    <3> QED
      BY <2>1, <2>2, GoStep
<1>4. burning' \in [Players -> Nat]
  <2>1. /\ burning' = [p \in Players |-> IF Until(p) >= tick THEN Until(p) ELSE 0]
        /\ tick \in Nat /\ BurnTicks \in Nat
    BY <1>1, VitalsAssumption DEF TickLava, TypeOK
  <2>2. ASSUME NEW p \in Players PROVE Until(p) \in Nat
    BY <1>1, <2>1 DEF Until, TypeOK
  <2>3. QED
    BY <2>1, <2>2
<1>5. WorldOK'
  BY <1>1, <1>3, <1>4 DEF TickLava, Still, TypeOK, WorldOK
<1>6. QED
  BY <1>2, <1>5, StepInvariant

LEMMA TickFireStep ==
  ASSUME VitalsInvariant, TickFire
  PROVE  VitalsInvariant'
<1>1. TypeOK
  BY DEF VitalsInvariant
<1>2. Synced /\ FightOn
  BY <1>1, SameShown, SameFight DEF TickFire, Still
<1>3. CASE thread.list = {}
  <2>1. LiveOn
    BY <1>1, <1>3, SameVitals DEF TickFire, Still
  <2>2. thread' \in Parts
    <3> DEFINE list == IF Due(StrikeEvery) THEN {p \in Players : place[p] = "zombie"} ELSE {}
    <3>1. list \subseteq Players /\ Go("mobs", list)
      BY <1>3 DEF TickFire
    <3>2. QED
      <4> HIDE DEF list
      <4> QED
        BY <3>1, GoStep
  <2>3. WorldOK'
    BY <1>1, <2>2 DEF TickFire, Still, TypeOK, WorldOK
  <2>4. QED
    BY <1>2, <2>1, <2>3, StepInvariant
<1>4. CASE thread.list # {}
  <2>1. PICK e \in thread.list :
          /\ Go("fire", thread.list \ {e})
          /\ IF effects[e[1]]["fire resistance"] > 0 THEN UNCHANGED <<vitals, deaths>>
             ELSE DamagePlayer(e[1], e[2])
    BY <1>4 DEF TickFire
  <2>2. thread.list \subseteq Players \X {1, 2}
    BY <1>1, ListOf DEF TickFire
  <2>3. e[1] \in Players /\ e[2] \in Nat
    BY <2>2
  <2>4. LiveOn
    BY <1>1, <2>1, <2>3, SameVitals, DamageStep DEF TickFire, Still
  <2>5. thread' \in Parts
    BY <2>1, <2>2, GoStep
  <2>6. WorldOK'
    BY <1>1, <2>5 DEF TickFire, Still, TypeOK, WorldOK
  <2>7. QED
    BY <1>2, <2>4, <2>6, StepInvariant
<1>5. QED
  BY <1>3, <1>4

LEMMA TickMobsStep ==
  ASSUME VitalsInvariant, TickMobs
  PROVE  VitalsInvariant'
<1>1. TypeOK
  BY DEF VitalsInvariant
<1>2. Synced /\ FightOn
  BY <1>1, SameShown, SameFight DEF TickMobs, Still
<1>3. CASE thread.list = {}
  <2>1. LiveOn
    BY <1>1, <1>3, SameVitals DEF TickMobs, Still
  <2>2. thread' \in Parts
    BY <1>3, GoStep DEF TickMobs
  <2>3. WorldOK'
    BY <1>1, <1>3, <2>2 DEF TickMobs, Still, TypeOK, WorldOK
  <2>4. QED
    BY <1>2, <2>1, <2>3, StepInvariant
<1>4. CASE thread.list # {}
  <2>1. PICK p \in thread.list, b \in Blows : Go("mobs", thread.list \ {p}) /\ Strike(p, b)
    BY <1>4 DEF TickMobs
  <2>2. thread.list \subseteq Players
    BY <1>1, ListOf DEF TickMobs
  <2>3. LiveOn /\ gear' \in [Players -> SUBSET {"shield", "armour"}]
    BY <1>1, <2>1, <2>2, StrikeStep DEF TickMobs, Still
  <2>4. thread' \in Parts
    BY <2>1, <2>2, GoStep
  <2>5. WorldOK'
    BY <1>1, <2>3, <2>4 DEF TickMobs, Still, TypeOK, WorldOK
  <2>6. QED
    BY <1>2, <2>3, <2>5, StepInvariant
<1>5. QED
  BY <1>3, <1>4

LEMMA TickRegenStep ==
  ASSUME VitalsInvariant, TickRegen
  PROVE  VitalsInvariant'
<1>1. TypeOK
  BY DEF VitalsInvariant
<1>2. Synced /\ FightOn
  BY <1>1, SameShown, SameFight DEF TickRegen, Still
<1>3. deaths' = deaths /\ lives' = lives
  BY DEF TickRegen, Still
<1>4. LiveOn
  <2>1. CASE vitals' = vitals
    BY <1>1, <1>3, <2>1, SameVitals
  <2>2. CASE vitals' = [p \in Players |-> Regenerated(vitals[p])]
    <3>1. ASSUME NEW p \in Players
          PROVE  Regenerated(vitals[p]) \in Vital /\ LivesOn(p)
      <4>1. vitals[p] \in Vital
        BY <1>1 DEF TypeOK
      <4>2. vitals'[p] = Regenerated(vitals[p])
        BY <2>2
      <4>3. QED
        BY <1>3, <4>1, <4>2, RegeneratedVital DEF LivesOn, Alive
    <3>2. vitals' \in [Players -> Vital]
      BY <2>2, <3>1
    <3>3. deaths' \in [Players -> Nat] /\ lives' \in [Players -> Nat]
      BY <1>1, <1>3 DEF TypeOK
    <3>4. QED
      BY <3>1, <3>2, <3>3 DEF LiveOn
  <2>3. QED
    BY <2>1, <2>2 DEF TickRegen
<1>5. thread' \in Parts
  BY GoStep DEF TickRegen
<1>6. WorldOK'
  BY <1>1, <1>5 DEF TickRegen, Still, TypeOK, WorldOK
<1>7. QED
  BY <1>2, <1>4, <1>6, StepInvariant

LEMMA TickEffectsStep ==
  ASSUME VitalsInvariant, TickEffects
  PROVE  VitalsInvariant'
<1>1. TypeOK
  BY DEF VitalsInvariant
<1>2. LiveOn /\ Synced /\ FightOn
  BY <1>1, SameVitals, SameShown, SameFight DEF TickEffects, Still
<1>3. thread' \in Parts
  <2> DEFINE list == {e \in Players \X DOMAIN Periods :
                          effects[e[1]][e[2]] > 0 /\ Due(Periods[e[2]])}
  <2>1. list \subseteq Players \X DOMAIN Periods /\ Go("periodic", list)
    BY DEF TickEffects
  <2>2. QED
    <3> HIDE DEF list
    <3> QED
      BY <2>1, GoStep
<1>4. effects' \in [Players -> [Kinds -> Nat]]
  <2>1. ASSUME NEW p \in Players, NEW k \in Kinds
        PROVE  (IF effects[p][k] > 0 THEN effects[p][k] - 1 ELSE 0) \in Nat
    BY <1>1 DEF TypeOK
  <2>2. QED
    BY <2>1 DEF TickEffects
<1>5. WorldOK'
  BY <1>1, <1>3, <1>4 DEF TickEffects, Still, TypeOK, WorldOK
<1>6. QED
  BY <1>2, <1>5, StepInvariant

LEMMA TickPeriodicStep ==
  ASSUME VitalsInvariant, TickPeriodic
  PROVE  VitalsInvariant'
<1>1. TypeOK
  BY DEF VitalsInvariant
<1>2. Synced /\ FightOn
  BY <1>1, SameShown, SameFight DEF TickPeriodic, Still
<1>3. CASE thread.list = {}
  <2>1. LiveOn
    BY <1>1, <1>3, SameVitals DEF TickPeriodic, Still
  <2>2. thread' \in Parts
    BY <1>3, GoStep DEF TickPeriodic
  <2>3. WorldOK'
    BY <1>1, <2>2 DEF TickPeriodic, Still, TypeOK, WorldOK
  <2>4. QED
    BY <1>2, <2>1, <2>3, StepInvariant
<1>4. CASE thread.list # {}
  <2>1. PICK e \in thread.list :
          /\ Go("periodic", thread.list \ {e})
          /\ vitals' = [vitals EXCEPT ![e[1]] = Periodic(@, e[2])]
    BY <1>4 DEF TickPeriodic
  <2>2. thread.list \subseteq Players \X DOMAIN Periods
    BY <1>1, ListOf DEF TickPeriodic
  <2>3. e[1] \in Players /\ vitals[e[1]] \in Vital
    BY <1>1, <2>2 DEF TypeOK
  <2>4. /\ Periodic(vitals[e[1]], e[2]) \in Vital
        /\ \/ Periodic(vitals[e[1]], e[2]) = vitals[e[1]]
           \/ /\ Periodic(vitals[e[1]], e[2]).revision = vitals[e[1]].revision + 1
              /\ Periodic(vitals[e[1]], e[2]).health > 0 <=> Alive(e[1])
    BY <2>3, PeriodicVital DEF Alive
  <2>5. vitals' = [vitals EXCEPT ![e[1]] = Periodic(vitals[e[1]], e[2])]
    BY <2>1
  <2>6. LiveOn
    BY <1>1, <2>3, <2>4, <2>5, OneLivesOn DEF TickPeriodic, Still
  <2>7. thread' \in Parts
    BY <2>1, <2>2, GoStep
  <2>8. WorldOK'
    BY <1>1, <2>7 DEF TickPeriodic, Still, TypeOK, WorldOK
  <2>9. QED
    BY <1>2, <2>6, <2>8, StepInvariant
<1>5. QED
  BY <1>3, <1>4

LEMMA TickHungerStep ==
  ASSUME VitalsInvariant, TickHunger
  PROVE  VitalsInvariant'
<1>1. TypeOK
  BY DEF VitalsInvariant
<1>2. Synced /\ FightOn
  BY <1>1, SameShown, SameFight DEF TickHunger, Still
<1>3. deaths' = deaths /\ lives' = lives
  BY DEF TickHunger, Still
<1>4. ASSUME NEW p \in Players
      PROVE  vitals'[p] \in Vital /\ LivesOn(p)
  <2>1. vitals[p] \in Vital /\ vitals[p].food \in 0 .. Full /\ Full \in Nat
    BY <1>1, VitalsAssumption DEF TypeOK, Vital
  <2>2. CASE Due(HungerEvery) /\ vitals[p].food > 0
    <3>1. vitals'[p] = Bump([vitals[p] EXCEPT !.food = vitals[p].food - 1])
      BY <2>2 DEF TickHunger
    <3>2. vitals[p].food - 1 \in 0 .. Full
      BY <2>1, <2>2
    <3>3. /\ vitals'[p] \in Vital /\ vitals'[p].health = vitals[p].health
          /\ vitals'[p].revision = vitals[p].revision + 1
      <4> DEFINE v == vitals[p]
      <4> HIDE DEF v
      <4>1. ASSUME v \in Vital, v.food - 1 \in 0 .. Full
            PROVE  /\ Bump([v EXCEPT !.food = v.food - 1]) \in Vital
                   /\ Bump([v EXCEPT !.food = v.food - 1]).health = v.health
                   /\ Bump([v EXCEPT !.food = v.food - 1]).revision = v.revision + 1
        BY <4>1, BumpedVital
      <4>2. QED
        BY <2>1, <3>1, <3>2, <4>1 DEF v
    <3>4. QED
      BY <1>3, <3>3 DEF LivesOn, Alive
  <2>3. CASE ~(Due(HungerEvery) /\ vitals[p].food > 0)
    <3>1. vitals'[p] = vitals[p]
      BY <2>3 DEF TickHunger
    <3>2. QED
      BY <1>3, <2>1, <3>1 DEF LivesOn
  <2>4. QED
    BY <2>2, <2>3
<1>5. vitals' \in [Players -> Vital]
  BY <1>4 DEF TickHunger
<1>6. LiveOn
  BY <1>1, <1>3, <1>4, <1>5 DEF LiveOn, TypeOK
<1>7. thread' \in Parts
  BY DEF TickHunger, Resting, Parts
<1>8. WorldOK'
  BY <1>1, <1>7 DEF TickHunger, Still, TypeOK, WorldOK
<1>9. QED
  BY <1>2, <1>6, <1>8, StepInvariant
-----------------------------------------------------------------------------
(* The sessions.                                                           *)

LEMMA MoveStep ==
  ASSUME VitalsInvariant, NEW p \in Players, Move(p) \/ ChangeDimension(p)
  PROVE  VitalsInvariant'
<1>1. TypeOK
  BY DEF VitalsInvariant
<1>2. Synced
  BY <1>1, SameShown DEF Move, ChangeDimension, Apart
<1>3. WorldOK'
  BY <1>1 DEF Move, ChangeDimension, Apart, TypeOK, WorldOK, Places
<1>4. CASE Move(p)
  <2>1. FightOn
    BY <1>1, <1>4, SameFight DEF Move, Apart
  <2>2. CASE UNCHANGED <<vitals, deaths>>
    <3>1. LiveOn
      BY <1>1, <1>4, <2>2, SameVitals DEF Move
    <3>2. QED
      BY <1>2, <1>3, <2>1, <3>1, StepInvariant
  <2>3. CASE \E b \in Blows : DamagePlayer(p, b)
    <3>1. PICK b \in Blows : DamagePlayer(p, b)
      BY <2>3
    <3>2. b \in Nat
      BY VitalsAssumption
    <3>3. LiveOn
      BY <1>1, <1>4, <3>1, <3>2, DamageStep DEF Move
    <3>4. QED
      BY <1>2, <1>3, <2>1, <3>3, StepInvariant
  <2>4. QED
    BY <1>4, <2>2, <2>3 DEF Move
<1>5. CASE ChangeDimension(p)
  <2>1. LiveOn /\ FightOn
    BY <1>1, <1>5, SameVitals, LoweredStep DEF ChangeDimension, Apart
  <2>2. QED
    BY <1>2, <1>3, <2>1, StepInvariant
<1>6. QED
  BY <1>4, <1>5

LEMMA ShieldStep ==
  ASSUME VitalsInvariant, NEW p \in Players, Block(p) \/ EquipShield(p)
  PROVE  VitalsInvariant'
<1>1. TypeOK
  BY DEF VitalsInvariant
<1>2. LiveOn /\ Synced
  BY <1>1, SameVitals, SameShown DEF Block, EquipShield, Apart
<1>3. FightOn
  BY <1>1, SameFight, BlockingStep DEF Block, EquipShield, Apart
<1>4. WorldOK'
  BY <1>1 DEF Block, EquipShield, Apart, TypeOK, WorldOK
<1>5. QED
  BY <1>2, <1>3, <1>4, StepInvariant

LEMMA AttackStep ==
  ASSUME VitalsInvariant, NEW p \in Players, NEW q \in Players, Attack(p, q)
  PROVE  VitalsInvariant'
<1>1. TypeOK
  BY DEF VitalsInvariant
<1>2. LiveOn /\ Synced /\ FightOn
  BY <1>1, SameVitals, SameShown, SameFight DEF Attack, Apart
<1>3. job' \in [Players -> Jobs]
  <2>1. PICK step \in {"strike"} \union {s \in {"aside"} : ShieldReady(q)}, axe \in BOOLEAN :
          Then(p, [at |-> step, target |-> q, axe |-> axe])
    BY DEF Attack
  <2>2. step \in {"strike", "aside", "failed"}
    OBVIOUS
  <2>3. [at |-> step, target |-> q, axe |-> axe] \in Jobs
    BY <2>2 DEF Jobs
  <2>4. QED
    BY <1>1, <2>1, <2>3, ThenStep
<1>4. WorldOK'
  BY <1>1, <1>3 DEF Attack, Apart, TypeOK, WorldOK
<1>5. QED
  BY <1>2, <1>4, StepInvariant

LEMMA TurnAsideStep ==
  ASSUME VitalsInvariant, NEW p \in Players, TurnAside(p)
  PROVE  VitalsInvariant'
<1>1. TypeOK
  BY DEF VitalsInvariant
<1>2. LiveOn /\ Synced
  BY <1>1, SameVitals, SameShown DEF TurnAside, Apart
<1>3. job[p].target \in Players /\ [job[p] EXCEPT !.at = "failed"] \in Jobs
  BY <1>1, JobOf DEF TurnAside, Does
<1>4. FightOn
  BY <1>1, <1>3, SameFight, BlockingStep DEF TurnAside, Apart
<1>5. gear' \in [Players -> SUBSET {"shield", "armour"}]
  <2>1. \/ UNCHANGED gear
        \/ gear' = [gear EXCEPT ![job[p].target] = @ \ {"shield"}]
    BY DEF TurnAside
  <2>2. gear \in [Players -> SUBSET {"shield", "armour"}]
    BY <1>1 DEF TypeOK
  <2>3. QED
    BY <1>3, <2>1, <2>2
<1>6. job' \in [Players -> Jobs]
  BY <1>1, <1>3, ThenStep DEF TurnAside
<1>7. WorldOK'
  BY <1>1, <1>5, <1>6 DEF TurnAside, Apart, TypeOK, WorldOK
<1>8. QED
  BY <1>2, <1>4, <1>7, StepInvariant

LEMMA StrikePlayerStep ==
  ASSUME VitalsInvariant, NEW p \in Players, StrikePlayer(p)
  PROVE  VitalsInvariant'
<1>1. TypeOK
  BY DEF VitalsInvariant
<1>2. Synced /\ FightOn
  BY <1>1, SameShown, SameFight DEF StrikePlayer, Apart
<1>3. job[p].target \in Players /\ [job[p] EXCEPT !.at = "failed"] \in Jobs
  BY <1>1, JobOf DEF StrikePlayer, Does
<1>4. PICK b \in Blows : Strike(job[p].target, b)
  BY DEF StrikePlayer
<1>5. LiveOn /\ gear' \in [Players -> SUBSET {"shield", "armour"}]
  BY <1>1, <1>3, <1>4, StrikeStep DEF StrikePlayer
<1>6. job' \in [Players -> Jobs]
  <2>1. Idle \in Jobs
    BY RestJobs DEF Idle
  <2>2. QED
    BY <1>1, <1>3, <2>1, ThenStep DEF StrikePlayer
<1>7. WorldOK'
  BY <1>1, <1>5, <1>6 DEF StrikePlayer, Apart, TypeOK, WorldOK
<1>8. QED
  BY <1>2, <1>5, <1>7, StepInvariant

LEMMA AttackFailedStep ==
  ASSUME VitalsInvariant, NEW p \in Players, AttackFailed(p)
  PROVE  VitalsInvariant'
<1>1. TypeOK
  BY DEF VitalsInvariant
<1>2. LiveOn /\ Synced
  BY <1>1, SameVitals, SameShown DEF AttackFailed, Apart
<1>3. FightOn
  <2>1. job[p].target \in Players
    BY <1>1, JobOf DEF AttackFailed, Does
  <2>2. QED
    BY <1>1, <2>1, SameFight, DisabledStep DEF AttackFailed, Apart
<1>4. job' \in [Players -> Jobs]
  <2>1. Idle \in Jobs
    BY RestJobs DEF Idle
  <2>2. QED
    BY <1>1, <2>1, ThenStep DEF AttackFailed
<1>5. WorldOK'
  BY <1>1, <1>4 DEF AttackFailed, Apart, TypeOK, WorldOK
<1>6. QED
  BY <1>2, <1>3, <1>5, StepInvariant

LEMMA ConsumeFoodStep ==
  ASSUME VitalsInvariant, NEW p \in Players, ConsumeFood(p)
  PROVE  VitalsInvariant'
<1> DEFINE v == vitals[p]
           fed == Bump([v EXCEPT !.food = Cap(v.food + 1)])
<1>1. TypeOK
  BY DEF VitalsInvariant
<1>2. Synced /\ FightOn
  BY <1>1, SameShown, SameFight DEF ConsumeFood, Apart
<1>3. LiveOn
  <2>1. v \in Vital /\ v.food \in 0 .. Full /\ Full \in Nat
    BY <1>1, VitalsAssumption DEF TypeOK, Vital
  <2>2. Cap(v.food + 1) \in 0 .. Full
    BY <2>1 DEF Cap
  <2>3. vitals' = [vitals EXCEPT ![p] = fed]
    BY DEF ConsumeFood, Bump
  <2>4. /\ fed \in Vital /\ fed.revision = v.revision + 1
        /\ fed.health > 0 <=> Alive(p)
    <3>1. fed \in Vital /\ fed.health = v.health /\ fed.revision = v.revision + 1
      BY <2>1, <2>2, BumpedVital
    <3>2. QED
      BY <3>1 DEF Alive
  <2>5. UNCHANGED <<deaths, lives>>
    BY DEF ConsumeFood
  <2>6. QED
    <3> HIDE DEF fed
    <3> QED
      BY <1>1, <2>3, <2>4, <2>5, OneLivesOn
<1>4. job' \in [Players -> Jobs]
  <2>1. Idle \in Jobs /\ [at |-> "rotten"] \in Jobs
    BY RestJobs DEF Idle
  <2>2. QED
    BY <1>1, <2>1, ThenStep DEF ConsumeFood
<1>5. WorldOK'
  BY <1>1, <1>4 DEF ConsumeFood, Apart, TypeOK, WorldOK
<1>6. QED
  BY <1>2, <1>3, <1>5, StepInvariant

LEMMA CureStep ==
  ASSUME VitalsInvariant, NEW p \in Players,
         Sicken(p) \/ ConsumeMilk(p) \/ PutOut(p) \/ Cure(p) \/ Spawn(p)
  PROVE  VitalsInvariant'
<1>1. TypeOK
  BY DEF VitalsInvariant
<1>2. LiveOn /\ Synced /\ FightOn
  BY <1>1, SameVitals, SameShown, SameFight
  DEF Sicken, ConsumeMilk, PutOut, Cure, Spawn, Apart
<1>3. job' \in [Players -> Jobs]
  <2>1. /\ Idle \in Jobs /\ [at |-> "milk"] \in Jobs
        /\ [at |-> "spawn"] \in Jobs /\ [at |-> "lower"] \in Jobs
    BY RestJobs DEF Idle
  <2>2. QED
    BY <1>1, <2>1, ThenStep DEF Sicken, ConsumeMilk, PutOut, Cure, Spawn
<1>4. effects' \in [Players -> [Kinds -> Nat]]
  <2>1. CASE Sicken(p)
    <3>1. "hunger" \in Kinds /\ Full \in Nat
      BY VitalsAssumption DEF Kinds
    <3>2. QED
      BY <1>1, <2>1, <3>1, ApplyStep DEF Sicken
  <2>2. CASE ConsumeMilk(p) \/ Cure(p)
    BY <1>1, <2>2, CuredStep DEF ConsumeMilk, Cure
  <2>3. CASE PutOut(p) \/ Spawn(p)
    BY <1>1, <2>3 DEF PutOut, Spawn, TypeOK
  <2>4. QED
    BY <2>1, <2>2, <2>3
<1>5. burning' \in [Players -> Nat] /\ place' \in [Players -> Places]
  <2>1. CASE PutOut(p)
    BY <1>1, <2>1 DEF PutOut, TypeOK
  <2>2. CASE Spawn(p)
    <3>1. place' = [place EXCEPT ![p] = "land"] /\ "land" \in Places /\ UNCHANGED burning
      BY <2>2 DEF Spawn, Places
    <3>2. QED
      BY <1>1, <3>1 DEF TypeOK
  <2>3. CASE Sicken(p) \/ ConsumeMilk(p) \/ Cure(p)
    BY <1>1, <2>3 DEF Sicken, ConsumeMilk, Cure, TypeOK
  <2>4. QED
    BY <2>1, <2>2, <2>3
<1>6. WorldOK'
  BY <1>1, <1>3, <1>4, <1>5
  DEF Sicken, ConsumeMilk, PutOut, Cure, Spawn, Apart, TypeOK, WorldOK
<1>7. QED
  BY <1>2, <1>6, StepInvariant

LEMMA RespawnStep ==
  ASSUME VitalsInvariant, NEW p \in Players, RespawnPlayer(p)
  PROVE  VitalsInvariant'
<1>1. TypeOK
  BY DEF VitalsInvariant
<1>2. Synced /\ FightOn
  BY <1>1, SameShown, SameFight DEF RespawnPlayer, Apart
<1>3. LiveOn
  <2> DEFINE v == Reborn(vitals[p])
  <2>1. vitals[p].revision \in Nat /\ Full \in Nat /\ Full > 0
    <3>1. Full \in Nat \ {0} /\ vitals[p] \in Vital
      BY <1>1, VitalsAssumption DEF TypeOK
    <3>2. QED
      BY <3>1 DEF Vital
  <2>2. v \in Vital /\ v.revision = vitals[p].revision + 1 /\ v.health > 0
    <3>1. Full \in 0 .. Full /\ vitals[p].revision + 1 \in Nat
      BY <2>1
    <3>2. QED
      BY <2>1, <3>1 DEF Reborn, New, Vital
  <2>3. /\ vitals' = [vitals EXCEPT ![p] = v] /\ ~Alive(p)
        /\ lives' = [lives EXCEPT ![p] = lives[p] + 1] /\ deaths' = deaths
    BY DEF RespawnPlayer
  <2> HIDE DEF v
  <2>4. /\ vitals' \in [Players -> Vital]
        /\ deaths' \in [Players -> Nat] /\ lives' \in [Players -> Nat]
    BY <1>1, <2>2, <2>3 DEF TypeOK
  <2>5. LivesOn(p)
    <3>1. vitals'[p] = v /\ lives'[p] = lives[p] + 1 /\ deaths'[p] = deaths[p]
      BY <1>1, <2>3 DEF TypeOK
    <3>2. Alive(p)'
      BY <2>2, <3>1 DEF Alive
    <3>3. QED
      BY <2>2, <2>3, <3>1, <3>2 DEF LivesOn
  <2>6. \A q \in Players : q # p => LivesOn(q)
    BY <1>1, <2>3 DEF LivesOn, TypeOK
  <2>7. QED
    BY <2>4, <2>5, <2>6 DEF LiveOn
<1>4. job' \in [Players -> Jobs]
  BY <1>1, RestJobs, ThenStep DEF RespawnPlayer
<1>5. WorldOK'
  BY <1>1, <1>4 DEF RespawnPlayer, Apart, TypeOK, WorldOK
<1>6. QED
  BY <1>2, <1>3, <1>5, StepInvariant

LEMMA LowerStep ==
  ASSUME VitalsInvariant, NEW p \in Players, Lower(p)
  PROVE  VitalsInvariant'
<1>1. TypeOK
  BY DEF VitalsInvariant
<1>2. LiveOn /\ Synced /\ FightOn
  BY <1>1, SameVitals, SameShown, LoweredStep DEF Lower, Apart
<1>3. job' \in [Players -> Jobs]
  <2>1. Idle \in Jobs
    BY RestJobs DEF Idle
  <2>2. QED
    BY <1>1, <2>1, ThenStep DEF Lower
<1>4. WorldOK'
  BY <1>1, <1>3 DEF Lower, Apart, TypeOK, WorldOK
<1>5. QED
  BY <1>2, <1>4, StepInvariant

LEMMA SyncVitalsStep ==
  ASSUME VitalsInvariant, NEW p \in Players, SyncVitals(p)
  PROVE  VitalsInvariant'
<1>1. TypeOK
  BY DEF VitalsInvariant
<1>2. LiveOn /\ FightOn
  BY <1>1, SameVitals, SameFight DEF SyncVitals
<1>3. Synced
  BY <1>1 DEF SyncVitals, Synced, TypeOK
<1>4. WorldOK'
  BY <1>1 DEF SyncVitals, TypeOK, WorldOK
<1>5. QED
  BY <1>2, <1>3, <1>4, StepInvariant

LEMMA EffectStep ==
  ASSUME VitalsInvariant, NEW p \in Players, Effect(p)
  PROVE  VitalsInvariant'
<1>1. TypeOK
  BY DEF VitalsInvariant
<1>2. LiveOn /\ Synced /\ FightOn
  BY <1>1, SameVitals, SameShown, SameFight DEF Effect, Apart
<1>3. effects' \in [Players -> [Kinds -> Nat]]
  <2>1. \A g \in Gifts : g.kind \in Kinds /\ g.left \in Nat
    BY VitalsAssumption
  <2>2. QED
    BY <1>1, <2>1, ApplyStep DEF Effect
<1>4. WorldOK'
  BY <1>1, <1>3 DEF Effect, Apart, TypeOK, WorldOK
<1>5. QED
  BY <1>2, <1>4, StepInvariant
-----------------------------------------------------------------------------
(* The reset.                                                              *)

\* The steps that touch neither vitals nor shields.
LEMMA ResetWorldStep ==
  ASSUME VitalsInvariant,
         ResetWorlds \/ ResetEffects \/ ResetFire \/ ResetPlayers \/ ResetGear
  PROVE  VitalsInvariant'
<1>1. TypeOK
  BY DEF VitalsInvariant
<1>2. LiveOn /\ Synced /\ FightOn
  BY <1>1, SameVitals, SameShown, SameFight
  DEF ResetWorlds, ResetEffects, ResetFire, ResetPlayers, ResetGear, Resets
<1>3. effects' \in [Players -> [Kinds -> Nat]] /\ burning' \in [Players -> Nat]
  <2>1. CASE ResetEffects
    <3>1. [k \in Kinds |-> 0] \in [Kinds -> Nat]
      OBVIOUS
    <3>2. QED
      BY <1>1, <2>1, <3>1 DEF ResetEffects, TypeOK
  <2>2. CASE ResetFire
    BY <1>1, <2>2 DEF ResetFire, TypeOK
  <2>3. CASE ResetWorlds \/ ResetPlayers \/ ResetGear
    BY <1>1, <2>3 DEF ResetWorlds, ResetPlayers, ResetGear, TypeOK
  <2>4. QED
    BY <2>1, <2>2, <2>3
<1>4. place' \in [Players -> Places] /\ gear' \in [Players -> SUBSET {"shield", "armour"}]
  BY <1>1 DEF ResetWorlds, ResetEffects, ResetFire, ResetPlayers, ResetGear, TypeOK, Places
<1>5. WorldOK'
  BY <1>1, <1>3, <1>4
  DEF ResetWorlds, ResetEffects, ResetFire, ResetPlayers, ResetGear, Resets, TypeOK, WorldOK
<1>6. QED
  BY <1>2, <1>5, StepInvariant

\* The dead live again, and no client is known to agree.
LEMMA ResetVitalsStep ==
  ASSUME VitalsInvariant, ResetVitals
  PROVE  VitalsInvariant'
<1>1. TypeOK
  BY DEF VitalsInvariant
<1>2. FightOn
  BY <1>1, SameFight DEF ResetVitals, Resets
<1>3. Synced
  BY <1>1 DEF ResetVitals, Resets, Synced, TypeOK
<1>4. LiveOn
  <2>1. New(0) \in Vital /\ New(0).health > 0
    <3>1. Full \in Nat \ {0}
      BY VitalsAssumption
    <3>2. Full \in 0 .. Full /\ Full > 0
      BY <3>1
    <3>3. QED
      BY <3>2 DEF New, Vital
  <2>2. /\ vitals' = [p \in Players |-> New(0)]
        /\ lives' = [p \in Players |-> IF Alive(p) THEN lives[p] ELSE lives[p] + 1]
        /\ astray' = Players /\ deaths' = deaths
    BY DEF ResetVitals, Resets
  <2>3. /\ deaths \in [Players -> Nat] /\ lives \in [Players -> Nat]
    BY <1>1 DEF TypeOK
  <2>4. vitals' \in [Players -> Vital]
    BY <2>1, <2>2
  <2>5. deaths' \in [Players -> Nat] /\ lives' \in [Players -> Nat]
    BY <2>2, <2>3
  <2>6. ASSUME NEW p \in Players PROVE LivesOn(p)
    <3>1. Alive(p)'
      BY <2>1, <2>2 DEF Alive
    <3>2. lives'[p] = lives[p] + (IF Alive(p) THEN 0 ELSE 1)
      BY <2>2, <2>3
    <3>3. QED
      BY <2>2, <3>1, <3>2 DEF LivesOn
  <2>7. QED
    BY <2>4, <2>5, <2>6 DEF LiveOn
<1>5. WorldOK'
  BY <1>1 DEF ResetVitals, Resets, TypeOK, WorldOK
<1>6. QED
  BY <1>2, <1>3, <1>4, <1>5, StepInvariant

LEMMA ResetCombatStep ==
  ASSUME VitalsInvariant, ResetCombat
  PROVE  VitalsInvariant'
<1>1. TypeOK
  BY DEF VitalsInvariant
<1>2. LiveOn /\ Synced
  BY <1>1, SameVitals, SameShown DEF ResetCombat, Resets
<1>3. FightOn
  <2>1. Lowered \in Fight /\ Lowered.since = 0
    BY DEF Lowered, Fight
  <2>2. /\ combat' = [p \in Players |-> Lowered] /\ tick' = tick /\ tick \in Nat
    BY <1>1 DEF ResetCombat, Resets, TypeOK
  <2>3. QED
    BY <2>1, <2>2 DEF FightOn, FightsOn
<1>4. WorldOK'
  BY <1>1 DEF ResetCombat, Resets, TypeOK, WorldOK
<1>5. QED
  BY <1>2, <1>3, <1>4, StepInvariant
-----------------------------------------------------------------------------
LEMMA NextInvariant ==
  ASSUME VitalsInvariant, [Next]_vars
  PROVE  VitalsInvariant'
<1>1. CASE TickThread
  BY <1>1, TickBeginsStep, TickLavaStep, TickFireStep, TickMobsStep, TickRegenStep,
     TickEffectsStep, TickPeriodicStep, TickHungerStep DEF TickThread
<1>2. ASSUME NEW p \in Players, Session(p) PROVE VitalsInvariant'
  BY <1>2, MoveStep, ShieldStep, AttackStep, TurnAsideStep, StrikePlayerStep, AttackFailedStep,
     ConsumeFoodStep, CureStep, RespawnStep, LowerStep, SyncVitalsStep, EffectStep DEF Session
<1>3. CASE UNCHANGED vars
  <2>1. TypeOK
    BY DEF VitalsInvariant
  <2>2. LiveOn /\ Synced /\ FightOn
    BY <1>3, <2>1, SameVitals, SameShown, SameFight DEF vars
  <2>3. WorldOK'
    BY <1>3, <2>1 DEF vars, TypeOK, WorldOK
  <2>4. QED
    BY <2>2, <2>3, StepInvariant
<1>4. CASE ConsoleThread
  BY <1>4, ResetWorldStep, ResetVitalsStep, ResetCombatStep DEF ConsoleThread
<1>5. QED
  BY <1>1, <1>2, <1>3, <1>4 DEF Next

\* In every state of every behaviour of the sessions, the tick thread and the
\* console, the state is well typed and the parts of the inductive invariant hold.
THEOREM VitalsInvariantHolds == Spec => []VitalsInvariant
<1>1. Init => VitalsInvariant
  BY InitInvariant
<1>2. VitalsInvariant /\ [Next]_vars => VitalsInvariant'
  BY NextInvariant
<1>3. QED
  BY <1>1, <1>2, PTL DEF Spec

\* Every life ends at most once, with one announcement, and the next begins with
\* a respawn, or with a reset of the world that found the player dead, whoever
\* damages the player between the locks (damage_player, respawn_player, the
\* parts of advance_tick and repair_world).
THEOREM DiesOnceHolds == Spec => []DiesOnce
<1>1. VitalsInvariant => DiesOnce
  BY DEF VitalsInvariant
<1>2. QED
  BY <1>1, VitalsInvariantHolds, PTL

\* A client that has the revision of its player's vitals shows these vitals,
\* unless a reset of the world replaced them and it was sent none since
\* (sync_vitals and repair_world).
THEOREM ShownAgreeHolds == Spec => []ShownAgree
<1>1. VitalsInvariant => ShownAgree
  BY DEF VitalsInvariant
<1>2. QED
  BY <1>1, VitalsInvariantHolds, PTL

\* A raised shield was raised when it was no longer disabled
\* (set_player_blocking and disable_player_shield, in any order).
THEOREM RaisedAfterDisabledHolds == Spec => []RaisedAfterDisabled
<1>1. VitalsInvariant => RaisedAfterDisabled
  BY DEF VitalsInvariant
<1>2. QED
  BY <1>1, VitalsInvariantHolds, PTL
=============================================================================
