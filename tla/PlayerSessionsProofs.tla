------------------------ MODULE PlayerSessionsProofs ------------------------
(***************************************************************************)
(* What is proved of the players' sessions, in two parts.                  *)
(*                                                                         *)
(* Presence: PresenceInvariant is inductive for any players and mobs. The  *)
(* numbers of entities carry it: a dimension never gives one twice, so no  *)
(* two entities that a client may display have the same, and what it       *)
(* displays and what its session tracks change alike.                      *)
(*                                                                         *)
(* PlayerSessions: SessionInvariant is inductive for any number of         *)
(* connections, accounts and moderators, and every step of the composition *)
(* is a step of its feed of disconnect requests or leaves that feed alone. *)
(***************************************************************************)
EXTENDS Presence, Registrations, TLAPS

\* What may become of a dimension: entities go away, and new ones get numbers
\* that were never given.
Distinct(sim) == DOMAIN sim.mobs \intersect DOMAIN sim.items = {}
Grows(old, new) ==
    /\ IsSim(new) /\ Distinct(new) /\ old.next <= new.next
    /\ \A i \in DOMAIN new.mobs : i \in DOMAIN old.mobs \/ i >= old.next
    /\ \A i \in DOMAIN new.items : i \in DOMAIN old.items \/ i >= old.next

LEMMA FreshSim == \A d : IsSim(Fresh(d)) /\ Distinct(Fresh(d))
<1> SUFFICES ASSUME NEW d PROVE IsSim(Fresh(d)) /\ Distinct(Fresh(d))
  OBVIOUS
<1>1. Mobs \in Nat
  BY PresenceAssumption
<1>2. DOMAIN << >> = {}
  OBVIOUS
<1>3. CASE d = Overworld
  BY <1>1, <1>2, <1>3 DEF Fresh, IsSim, Distinct
<1>4. CASE d # Overworld
  BY <1>1, <1>2, <1>4 DEF Fresh, IsSim, Distinct
<1>5. QED
  BY <1>3, <1>4

LEMMA SameGrows ==
  ASSUME NEW sim, IsSim(sim), Distinct(sim)
  PROVE  Grows(sim, sim)
  BY DEF Grows, IsSim

LEMMA DroppedGrows ==
  ASSUME NEW sim, IsSim(sim), Distinct(sim)
  PROVE  Grows(sim, Dropped(sim))
<1> DEFINE oldest == {i \in DOMAIN sim.items : \A j \in DOMAIN sim.items : i <= j}
           kept == IF Cardinality(DOMAIN sim.items) >= ItemCap
                   THEN Without(sim.items, oldest) ELSE sim.items
           items == [i \in DOMAIN kept \union {sim.next} |-> IF i = sim.next THEN 0 ELSE kept[i]]
<1>1. DOMAIN kept \subseteq DOMAIN sim.items
  BY DEF Without
<1> HIDE DEF kept
<1>2. DOMAIN items = DOMAIN kept \union {sim.next}
  OBVIOUS
<1>3. Dropped(sim) = [sim EXCEPT !.items = items, !.next = @ + 1]
  BY DEF Dropped, kept
<1> HIDE DEF items
<1>4. Dropped(sim) = [mobs |-> sim.mobs, items |-> items, next |-> sim.next + 1]
  BY <1>3 DEF IsSim
<1>5. QED
  BY <1>1, <1>2, <1>4 DEF Grows, IsSim, Distinct

LEMMA SpawnGrows ==
  ASSUME NEW sim, IsSim(sim), Distinct(sim)
  PROVE  Grows(sim, SpawnMob(sim))
<1> DEFINE mobs == [i \in DOMAIN sim.mobs \union {sim.next} |->
                      IF i = sim.next THEN TRUE ELSE sim.mobs[i]]
<1>1. DOMAIN mobs = DOMAIN sim.mobs \union {sim.next}
  OBVIOUS
<1>2. SpawnMob(sim) = [sim EXCEPT !.mobs = mobs, !.next = @ + 1]
  BY DEF SpawnMob
<1> HIDE DEF mobs
<1>3. SpawnMob(sim) = [mobs |-> mobs, items |-> sim.items, next |-> sim.next + 1]
  BY <1>2 DEF IsSim
<1>4. QED
  BY <1>1, <1>3 DEF Grows, IsSim, Distinct

LEMMA TickedGrows ==
  ASSUME NEW sim, IsSim(sim), Distinct(sim), NEW burnt, NEW taken
  PROVE  LET ticked == Ticked(sim, burnt) IN
         Grows(sim, [ticked EXCEPT !.items = Without(@, taken)])
<1> DEFINE ticked == Ticked(sim, burnt)
           aged == [i \in DOMAIN sim.items |-> sim.items[i] + 1]
           mobs == Without(sim.mobs, burnt \union {i \in DOMAIN sim.mobs : ~sim.mobs[i]})
           items == Without(aged, {i \in DOMAIN aged : aged[i] >= Old})
           left == Without(items, taken)
<1>1. DOMAIN mobs \subseteq DOMAIN sim.mobs /\ DOMAIN items \subseteq DOMAIN sim.items
      /\ DOMAIN left \subseteq DOMAIN items
  BY DEF Without
<1>2. ticked = [sim EXCEPT !.mobs = mobs, !.items = items]
  BY DEF Ticked
<1> HIDE DEF mobs, items, ticked
<1>3. ticked = [mobs |-> mobs, items |-> items, next |-> sim.next]
  BY <1>2 DEF IsSim
<1>4. [ticked EXCEPT !.items = Without(@, taken)]
        = [mobs |-> mobs, items |-> left, next |-> sim.next]
  BY <1>3
<1> HIDE DEF left
<1>5. Grows(sim, [mobs |-> mobs, items |-> left, next |-> sim.next])
  BY <1>1 DEF Grows, IsSim, Distinct
<1>6. QED
  BY <1>4, <1>5 DEF ticked

LEMMA HitGrows ==
  ASSUME NEW sim, IsSim(sim), Distinct(sim), NEW i, NEW health
  PROVE  Grows(sim, [sim EXCEPT !.mobs[i] = health])
<1> DEFINE mobs == [sim.mobs EXCEPT ![i] = health]
<1>1. DOMAIN mobs = DOMAIN sim.mobs
  OBVIOUS
<1>2. [sim EXCEPT !.mobs[i] = health] = [sim EXCEPT !.mobs = mobs]
  OBVIOUS
<1> HIDE DEF mobs
<1>3. [sim EXCEPT !.mobs = mobs] = [mobs |-> mobs, items |-> sim.items, next |-> sim.next]
  BY DEF IsSim
<1>4. QED
  BY <1>1, <1>2, <1>3 DEF Grows, IsSim, Distinct

\* Names that are apart from those of a dimension stay so while it grows.
LEMMA NamesKept ==
  ASSUME NEW S \in SUBSET Entities, NEW old, NEW new, IsSim(old), Grows(old, new),
         OneName(S \union (Shown("mob", DOMAIN old.mobs) \union Shown("item", DOMAIN old.items))),
         \A e \in S : e[1] # "player" => e[2] < old.next
  PROVE  /\ OneName(S \union (Shown("mob", DOMAIN new.mobs) \union Shown("item", DOMAIN new.items)))
         /\ \A e \in S : e[1] # "player" => e[2] < new.next
<1> DEFINE There(sim) == Shown("mob", DOMAIN sim.mobs) \union Shown("item", DOMAIN sim.items)
<1>1. \A e \in S : e[1] # "player" => e[2] \in Nat /\ e[2] < old.next
  BY DEF Entities
<1>2. \A e \in S : e[1] = "player" => e[2] \notin Nat
  BY NumbersApart DEF Entities
<1>3. old.next \in Nat /\ new.next \in Nat /\ old.next <= new.next
  BY DEF IsSim, Grows
<1>4. \A e \in There(new) : e[2] \in Nat /\ (e \in There(old) \/ e[2] >= old.next)
  BY DEF Shown, Grows, IsSim
<1>5. ASSUME NEW e \in There(new), NEW f \in There(new), e[2] = f[2] PROVE e = f
  BY <1>5 DEF Shown, Grows, Distinct
<1>6. ASSUME NEW e \in S, NEW f \in There(new), e[2] = f[2] PROVE e = f
  <2>1. e[1] # "player" /\ f \in There(old)
    BY <1>1, <1>2, <1>3, <1>4, <1>6
  <2>2. QED
    BY <1>6, <2>1 DEF OneName
<1>7. ASSUME NEW e \in S, NEW f \in S, e[2] = f[2] PROVE e = f
  BY <1>7 DEF OneName
<1>8. \A e \in S : e[1] # "player" => e[2] < new.next
  BY <1>1, <1>3
<1> HIDE DEF There
<1>9. OneName(S \union There(new))
  BY <1>5, <1>6, <1>7 DEF OneName
<1>10. QED
  BY <1>8, <1>9 DEF There
-----------------------------------------------------------------------------
\* The same, said of the state.
LEMMA NamesInDimension ==
  ASSUME TypeOK, NEW d \in Dims
  PROVE  OneName(MobsOf(d) \union ItemsOf(d)) <=> Distinct(sims[d])
<1> DEFINE S == MobsOf(d) \union ItemsOf(d)
<1>1. /\ \A i \in DOMAIN sims[d].mobs : <<"mob", i>> \in MobsOf(d)
      /\ \A i \in DOMAIN sims[d].items : <<"item", i>> \in ItemsOf(d)
      /\ MobsOf(d) \subseteq S /\ ItemsOf(d) \subseteq S
  BY DEF MobsOf, ItemsOf, Shown
<1>2. \A e \in S : \/ e = <<"mob", e[2]>> /\ e[2] \in DOMAIN sims[d].mobs
                   \/ e = <<"item", e[2]>> /\ e[2] \in DOMAIN sims[d].items
  BY DEF MobsOf, ItemsOf, Shown
<1> HIDE DEF S
<1>3. ASSUME OneName(S), NEW i \in DOMAIN sims[d].mobs, i \in DOMAIN sims[d].items
      PROVE  FALSE
  <2>1. <<"mob", i>>[2] = <<"item", i>>[2]
    OBVIOUS
  <2>2. <<"mob", i>> = <<"item", i>>
    BY <1>1, <1>3, <2>1 DEF OneName
  <2>3. QED
    BY <2>2
<1>4. ASSUME Distinct(sims[d]), NEW e \in S, NEW f \in S, e[2] = f[2]
      PROVE  e = f
  <2>1. CASE e[2] \in DOMAIN sims[d].mobs
    BY <1>2, <1>4, <2>1 DEF Distinct
  <2>2. CASE e[2] \notin DOMAIN sims[d].mobs
    BY <1>2, <1>4, <2>2 DEF Distinct
  <2>3. QED
    BY <2>1, <2>2
<1>5. OneName(S) <=> Distinct(sims[d])
  BY <1>3, <1>4 DEF OneName, Distinct
<1>6. QED
  BY <1>5 DEF S

SimsGrow == DOMAIN sims' = Dims /\ \A d \in Dims : Grows(sims[d], sims'[d])

LEMMA OneGrows ==
  ASSUME TypeOK, \A e \in Dims : Distinct(sims[e]),
         NEW d \in Dims, NEW sim, Grows(sims[d], sim), sims' = [sims EXCEPT ![d] = sim]
  PROVE  SimsGrow
<1>1. \A e \in Dims : Grows(sims[e], sims[e])
  BY SameGrows DEF TypeOK
<1>2. QED
  BY <1>1 DEF SimsGrow, TypeOK

LEMMA NoneGrows ==
  ASSUME TypeOK, \A e \in Dims : Distinct(sims[e]), sims' = sims
  PROVE  SimsGrow
  BY SameGrows DEF SimsGrow, TypeOK

LEMMA SimulateGrows ==
  ASSUME TypeOK, \A e \in Dims : Distinct(sims[e]), NEW d \in Dims, NEW done,
         Simulate(d, done)
  PROVE  SimsGrow
<1>1. PICK burnt, taken : sims' = [sims EXCEPT ![d] =
          [Ticked(sims[d], burnt) EXCEPT !.items = Without(@, taken)]]
  BY DEF Simulate
<1>2. Grows(sims[d], [Ticked(sims[d], burnt) EXCEPT !.items = Without(@, taken)])
  BY TickedGrows DEF TypeOK
<1>3. QED
  BY <1>1, <1>2, OneGrows

LEMMA DropGrows ==
  ASSUME TypeOK, \A e \in Dims : Distinct(sims[e]), NEW d \in Dims,
         sims' = [sims EXCEPT ![d] = Dropped(@)]
  PROVE  SimsGrow
<1>1. Grows(sims[d], Dropped(sims[d]))
  BY DroppedGrows DEF TypeOK
<1>2. sims' = [sims EXCEPT ![d] = Dropped(sims[d])]
  OBVIOUS
<1>3. QED
  BY <1>1, <1>2, OneGrows

LEMMA GiveGrows ==
  ASSUME TypeOK, \A e \in Dims : Distinct(sims[e]), NEW from, NEW to, Give(from, to)
  PROVE  SimsGrow
<1>1. CASE sims' = sims
  BY <1>1, NoneGrows
<1>2. ASSUME NEW e \in thread.list, sims' = [sims EXCEPT ![e[1]] = Dropped(@)]
      PROVE  SimsGrow
  <2>1. e[1] \in Dims
    BY DEF TypeOK
  <2>2. QED
    BY <1>2, <2>1, DropGrows
<1>3. QED
  BY <1>1, <1>2 DEF Give

LEMMA HitMobGrows ==
  ASSUME TypeOK, \A e \in Dims : Distinct(sims[e]), NEW p \in Players, HitMob(p)
  PROVE  SimsGrow
<1>1. PICK i, health : sims' = [sims EXCEPT ![dim[p]].mobs[i] = health]
  BY DEF HitMob
<1>2. dim[p] \in Dims
  BY DEF TypeOK
<1>3. Grows(sims[dim[p]], [sims[dim[p]] EXCEPT !.mobs[i] = health])
  BY <1>2, HitGrows DEF TypeOK
<1>4. sims' = [sims EXCEPT ![dim[p]] = [sims[dim[p]] EXCEPT !.mobs[i] = health]]
  BY <1>1
<1>5. QED
  BY <1>2, <1>3, <1>4, OneGrows

\* A dimension is renewed by a reset and grows by everything else.
LEMMA SimsStep ==
  ASSUME TypeOK, \A e \in Dims : Distinct(sims[e]), [Next]_vars
  PROVE  SimsGrow \/ RenewWorlds
<1> Overworld \in Dims /\ Other \in Dims /\ \A p \in Players : dim[p] \in Dims
  BY DEF Dims, TypeOK
<1>1. CASE TickOverworld \/ TickOthers
  BY <1>1, SimulateGrows DEF TickOverworld, TickOthers
<1>2. CASE GiveOverworld \/ GiveOthers
  BY <1>2, GiveGrows DEF GiveOverworld, GiveOthers
<1>3. CASE SummonMob
  <2>1. Grows(sims[Overworld], SpawnMob(sims[Overworld]))
    BY SpawnGrows DEF TypeOK
  <2>2. sims' = [sims EXCEPT ![Overworld] = SpawnMob(sims[Overworld])]
    BY <1>3 DEF SummonMob
  <2>3. QED
    BY <2>1, <2>2, OneGrows
<1>4. CASE TickZombies \/ MovePlayers \/ UNCHANGED vars
  BY <1>4, NoneGrows DEF TickZombies, MovePlayers, vars
<1>5. ASSUME NEW p \in Players, Session(p) PROVE SimsGrow
  <2>1. CASE DropItem(p)
    BY <2>1, DropGrows DEF DropItem
  <2>2. CASE Loot(p)
    BY <2>2, DropGrows, NoneGrows DEF Loot
  <2>3. CASE AttackMob(p) \/ Sweep(p)
    BY <2>3, HitMobGrows, NoneGrows DEF AttackMob, Sweep
  <2>4. CASE Greet(p) \/ AddPlayer(p) \/ ShowDimension(p) \/ BeginSession(p) \/ RemovePlayer(p)
             \/ HangUp(p) \/ Travel(p) \/ Respawn(p) \/ Reappear(p) \/ Die(p)
             \/ SyncPlayers(p) \/ SyncMobs(p) \/ SyncItems(p)
    BY <2>4, NoneGrows
       DEF Greet, AddPlayer, ShowDimension, BeginSession, RemovePlayer, HangUp, Travel,
           Respawn, Reappear, Die, SyncPlayers, SyncMobs, SyncItems, Sync
  <2>5. QED
    BY <1>5, <2>1, <2>2, <2>3, <2>4 DEF Session
<1>6. QED
  BY <1>1, <1>2, <1>3, <1>4, <1>5 DEF Next
-----------------------------------------------------------------------------
\* Everything but the sims, the tick thread and the touched.
LEMMA PlayersEntities ==
  ASSUME TypeOK
  PROVE  /\ \A d \in Dims : MobsOf(d) \subseteq Entities /\ ItemsOf(d) \subseteq Entities
         /\ \A p \in Players : Others(p) \subseteq Entities
<1>1. ASSUME NEW d \in Dims PROVE MobsOf(d) \subseteq Entities /\ ItemsOf(d) \subseteq Entities
  <2>1. IsSim(sims[d])
    BY DEF TypeOK
  <2>2. QED
    BY <2>1 DEF MobsOf, ItemsOf, Shown, Entities, IsSim
<1>2. \A p \in Players : Others(p) \subseteq Entities
  BY DEF Others, Shown, Online, Entities
<1>3. QED
  BY <1>1, <1>2

LEMMA ThreadStep ==
  ASSUME TypeOK, [Next]_vars
  PROVE  /\ thread'.at \in {"rest", "giving", "others", "returning", "zombies"}
         /\ thread' = [at |-> thread'.at, list |-> thread'.list]
         /\ thread'.list \subseteq Dims \X (Nat \ {0})
<1> Overworld \in Dims /\ Other \in Dims
  BY DEF Dims
<1> DEFINE Good == /\ thread'.at \in {"rest", "giving", "others", "returning", "zombies"}
                   /\ thread' = [at |-> thread'.at, list |-> thread'.list]
                   /\ thread'.list \subseteq Dims \X (Nat \ {0})
<1>1. ASSUME NEW d \in Dims, NEW done \in {"giving", "returning"}, Simulate(d, done) PROVE Good
  <2>0. PICK burnt : \E taken \in SUBSET Collectable(Ticked(sims[d], burnt)) :
           thread' = [at |-> done, list |-> {<<d, i>> : i \in taken}]
    BY <1>1 DEF Simulate
  <2>1. PICK taken \in SUBSET Collectable(Ticked(sims[d], burnt)) :
           thread' = [at |-> done, list |-> {<<d, i>> : i \in taken}]
    BY <2>0
  <2>2. DOMAIN Ticked(sims[d], burnt).items \subseteq Nat \ {0}
    <3>1. IsSim(sims[d])
      BY DEF TypeOK
    <3>2. DOMAIN Ticked(sims[d], burnt).items \subseteq DOMAIN sims[d].items
      BY <3>1 DEF Ticked, Without, IsSim
    <3>3. QED
      BY <3>1, <3>2 DEF IsSim
  <2>3. taken \subseteq Nat \ {0}
    BY <2>2 DEF Collectable
  <2>4. QED
    BY <2>1, <2>3
<1>2. ASSUME NEW from, NEW to \in {"others", "zombies"}, Give(from, to), thread.at = from PROVE Good
  <2>1. CASE thread' = [at |-> to, list |-> {}]
    BY <2>1
  <2>2. ASSUME NEW e, thread' = [thread EXCEPT !.list = @ \ {e}] PROVE Good
    <3>1. thread' = [at |-> thread.at, list |-> thread.list \ {e}]
      BY <2>2 DEF TypeOK
    <3>2. QED
      BY <3>1 DEF TypeOK
  <2>3. QED
    BY <1>2, <2>1, <2>2 DEF Give
<1>3. CASE thread' = thread \/ thread' = Resting
  BY <1>3 DEF TypeOK, Resting
<1>4. CASE TickOverworld \/ TickOthers
  BY <1>1, <1>4 DEF TickOverworld, TickOthers
<1>5. CASE GiveOverworld \/ GiveOthers
  <2>1. GiveOverworld => thread.at = "giving"
    BY DEF GiveOverworld, Give
  <2>2. GiveOthers => thread.at = "returning"
    BY DEF GiveOthers, Give
  <2>3. QED
    BY <1>2, <1>5, <2>1, <2>2 DEF GiveOverworld, GiveOthers
<1>6. CASE SummonMob \/ TickZombies \/ MovePlayers \/ RenewWorlds \/ UNCHANGED vars
  BY <1>3, <1>6 DEF SummonMob, TickZombies, MovePlayers, RenewWorlds, vars, Rest
<1>7. ASSUME NEW p \in Players, Session(p) PROVE thread' = thread
  BY <1>7
     DEF Session, Greet, AddPlayer, ShowDimension, BeginSession, RemovePlayer, HangUp, Travel,
         Respawn, Reappear, Die, DropItem, AttackMob, Sweep, Loot, SyncPlayers, SyncMobs,
         SyncItems, Sync, Rest
<1>8. QED
  BY <1>3, <1>4, <1>5, <1>6, <1>7 DEF Next

\* Whose simulation took from whom.
LEMMA TouchedStep ==
  ASSUME TypeOK, [Next]_vars
  PROVE  touched' \subseteq Dims \X Dims
<1> Overworld \in Dims /\ Other \in Dims /\ Gone \notin Dims
  BY PresenceAssumption DEF Dims
<1> DEFINE Good == touched' \subseteq Dims \X Dims
<1>1. ASSUME NEW d \in Dims, NEW done, Simulate(d, done) PROVE Good
  <2>0. PICK taken : \E by \in [taken -> Local(d)] :
           touched' = {<<d, world[by[i]]>> : i \in taken}
    BY <1>1 DEF Simulate
  <2>1. PICK by \in [taken -> Local(d)] : touched' = {<<d, world[by[i]]>> : i \in taken}
    BY <2>0
  <2>2. \A i \in taken : by[i] \in Local(d)
    BY <2>1
  <2>3. \A q \in Local(d) : world[q] \in Dims
    BY DEF Local, Online, TypeOK
  <2>4. \A t \in touched' : \E i \in taken : t = <<d, world[by[i]]>>
    BY <2>1
  <2>5. QED
    BY <2>2, <2>3, <2>4
<1>2. CASE touched' = {}
  BY <1>2
<1>3. CASE touched' = touched
  BY <1>3 DEF TypeOK
<1>4. CASE TickZombies
  <2>1. PICK hit \in SUBSET Online : touched' = {<<Overworld, world[p]>> : p \in hit}
    BY <1>4 DEF TickZombies
  <2>2. \A q \in hit : world[q] \in Dims
    BY DEF Online, TypeOK
  <2>3. QED
    BY <2>1, <2>2
<1>5. CASE TickOverworld \/ TickOthers
  BY <1>1, <1>5 DEF TickOverworld, TickOthers
<1>6. CASE GiveOverworld \/ GiveOthers
  BY <1>2, <1>6 DEF GiveOverworld, GiveOthers, Give
<1>7. CASE SummonMob \/ MovePlayers \/ RenewWorlds \/ UNCHANGED vars
  BY <1>3, <1>7 DEF SummonMob, MovePlayers, RenewWorlds, vars, Rest
<1>8. ASSUME NEW p \in Players, Session(p) PROVE touched' = touched
  BY <1>8
     DEF Session, Greet, AddPlayer, ShowDimension, BeginSession, RemovePlayer, HangUp, Travel,
         Respawn, Reappear, Die, DropItem, AttackMob, Sweep, Loot, SyncPlayers, SyncMobs,
         SyncItems, Sync, Rest
<1>9. QED
  BY <1>3, <1>4, <1>5, <1>6, <1>7, <1>8 DEF Next
-----------------------------------------------------------------------------
LEMMA FreshGood ==
  ASSUME RenewWorlds
  PROVE  DOMAIN sims' = Dims /\ \A d \in Dims : IsSim(sims'[d]) /\ Distinct(sims'[d])
<1>1. sims' = [d \in Dims |-> Fresh(d)]
  BY DEF RenewWorlds
<1>2. QED
  BY <1>1, FreshSim

\* What the state keeps of each player, and how it goes together.
Places == {"playing", "mobs", "items", "looting", "sweeping", "out", "greeted", "added",
           "shown", "reborn"}
PlayerTypes ==
    /\ world \in [Players -> Dims \union {Gone}]
    /\ saved \in [Players -> Dims] /\ dim \in [Players -> Dims]
    /\ at \in [Players -> Places]
    /\ asked \in [Players -> {"no", "asked", "missed"}]
    /\ shown \in [Players -> SUBSET Entities] /\ tracked \in [Players -> SUBSET Entities]
    /\ dead \subseteq Players /\ displaced \subseteq Players
PlayersKnown ==
    \A p \in Players :
        /\ world[p] # Gone <=> at[p] \notin {"out", "greeted"}
        /\ at[p] \in {"playing", "mobs", "items", "looting", "sweeping", "shown", "reborn"}
              /\ asked[p] = "no" => dim[p] = world[p]

LEMMA PlayersSplit ==
  /\ TypeOK => PlayerTypes
  /\ PlayerTypes => (PlayersKnown <=> OnlineWhileAdded /\ DimensionKnown)
<1>1. Acting \union {"out", "greeted", "added", "shown", "reborn"} = Places
  BY DEF Acting, Places
<1>2. Acting \union {"shown", "reborn"}
        = {"playing", "mobs", "items", "looting", "sweeping", "shown", "reborn"}
  BY DEF Acting
<1>3. TypeOK => PlayerTypes
  BY <1>1 DEF TypeOK, PlayerTypes
<1>4. PlayersKnown <=> OnlineWhileAdded /\ DimensionKnown
  BY <1>2 DEF PlayersKnown, OnlineWhileAdded, DimensionKnown, Online
<1>5. QED
  BY <1>3, <1>4

LEMMA SessionStep ==
  ASSUME TypeOK, PlayersKnown, NEW p \in Players, Session(p)
  PROVE  PlayerTypes' /\ PlayersKnown'
<1> DEFINE Good == PlayerTypes' /\ PlayersKnown'
<1>1. Overworld \in Dims /\ Gone \notin Dims /\ PlayerTypes
  BY PresenceAssumption, PlayersSplit DEF Dims
<1>2. /\ \A d \in Dims : MobsOf(d) \subseteq Entities /\ ItemsOf(d) \subseteq Entities
      /\ \A q \in Players : Others(q) \subseteq Entities
  BY PlayersEntities
<1>3. \A S \in SUBSET Entities : Followed(p, S) \in SUBSET Entities
  BY DEF Followed
<1>4. Followed(p, {}) = {}
  BY DEF Followed
<1>5. CASE Greet(p)
  <2>1. MobsOf(Overworld) \union ItemsOf(Overworld) \in SUBSET Entities
    BY <1>1, <1>2, <1>5 DEF Greet, Does, PlayerTypes, PlayersKnown
  <2>2. QED
    BY <1>1, <1>3, <1>4, <1>5, <2>1
       DEF Greet, Does, Then, Shows, Tracks, Rest, Stays, Settles, PlayerTypes, PlayersKnown, Places
<1>6. CASE AddPlayer(p)
  BY <1>1, <1>3, <1>4, <1>6
     DEF AddPlayer, Does, Then, Shows, Tracks, Rest, Stays, Settles, PlayerTypes, PlayersKnown, Places
<1>7. CASE ShowDimension(p)
  <2>1. world[p] \in Dims /\ MobsOf(world[p]) \union ItemsOf(world[p]) \in SUBSET Entities
    BY <1>1, <1>2, <1>7 DEF ShowDimension, Does, PlayerTypes, PlayersKnown
  <2>2. QED
    BY <1>1, <1>3, <1>4, <1>7, <2>1
       DEF ShowDimension, Does, Then, Shows, Tracks, Rest, Stays, Settles, PlayerTypes, PlayersKnown, Places
<1>8. CASE BeginSession(p)
  <2>1. MobsOf(dim[p]) \union ItemsOf(dim[p]) \in SUBSET Entities
    BY <1>1, <1>2, <1>8 DEF BeginSession, Does, PlayerTypes, PlayersKnown
  <2>2. QED
    BY <1>1, <1>3, <1>4, <1>8, <2>1
       DEF BeginSession, Does, Then, Shows, Tracks, Rest, Stays, Settles, PlayerTypes, PlayersKnown, Places
<1>9. CASE RemovePlayer(p)
  BY <1>1, <1>3, <1>4, <1>9
     DEF RemovePlayer, Does, Then, Shows, Tracks, Rest, Stays, Settles, PlayerTypes, PlayersKnown, Places
<1>10. CASE HangUp(p)
  BY <1>1, <1>3, <1>4, <1>10
     DEF HangUp, Does, Then, Shows, Tracks, Rest, Stays, Settles, PlayerTypes, PlayersKnown, Places
<1>11. CASE Travel(p)
  BY <1>1, <1>3, <1>4, <1>11
     DEF Travel, Does, Then, Shows, Tracks, Rest, Stays, Settles, PlayerTypes, PlayersKnown, Places, Forgets, TransitionDimension, ChangePlayerDimension
<1>12. CASE Respawn(p)
  BY <1>1, <1>3, <1>4, <1>12
     DEF Respawn, Does, Then, Shows, Tracks, Rest, Stays, Settles, PlayerTypes, PlayersKnown, Places
<1>13. CASE Reappear(p)
  BY <1>1, <1>3, <1>4, <1>13
     DEF Reappear, Does, Then, Shows, Tracks, Rest, Stays, Settles, PlayerTypes, PlayersKnown, Places, RespawnDimension
<1>14. CASE Loot(p)
  BY <1>1, <1>3, <1>4, <1>14
     DEF Loot, Does, Then, Shows, Tracks, Rest, Stays, Settles, PlayerTypes, PlayersKnown, Places
<1>15. CASE Sweep(p)
  BY <1>1, <1>3, <1>4, <1>15
     DEF Sweep, Does, Then, Shows, Tracks, Rest, Stays, Settles, PlayerTypes, PlayersKnown, Places, HitMob
<1>16. CASE Die(p)
  BY <1>1, <1>3, <1>4, <1>16
     DEF Die, Does, Then, Shows, Tracks, Rest, Stays, Settles, PlayerTypes, PlayersKnown, Places
<1>17. CASE DropItem(p)
  BY <1>1, <1>3, <1>4, <1>17
     DEF DropItem, Does, Then, Shows, Tracks, Rest, Stays, Settles, PlayerTypes, PlayersKnown, Places
<1>18. CASE AttackMob(p)
  BY <1>1, <1>3, <1>4, <1>18
     DEF AttackMob, Does, Then, Shows, Tracks, Rest, Stays, Settles, PlayerTypes, PlayersKnown, Places, HitMob
<1>19. ASSUME NEW from \in {"playing", "mobs", "items"}, NEW to \in {"playing", "mobs", "items"},
            NEW kind, NEW there \in SUBSET Entities, Sync(p, from, to, kind, there)
      PROVE  Good
  <2> DEFINE gone == Only(tracked[p], kind) \ there
             new == there \ tracked[p]
             S == (shown[p] \ (gone \union Numbered(gone \union new))) \union new
             T == (tracked[p] \ gone) \union new
  <2>1. S \in SUBSET Entities /\ T \in SUBSET Entities
    BY <1>1 DEF PlayerTypes
  <2>2. /\ shown' = [shown EXCEPT ![p] = Followed(p, S)]
        /\ tracked' = [tracked EXCEPT ![p] = Followed(p, T)]
    BY <1>19 DEF Sync, Shows, Tracks
  <2> HIDE DEF S, T
  <2>3. QED
    BY <1>1, <1>3, <1>19, <2>1, <2>2
       DEF Sync, Does, Then, Rest, Stays, PlayerTypes, PlayersKnown, Places
<1>20. CASE SyncPlayers(p) \/ SyncMobs(p) \/ SyncItems(p)
  <2>1. Others(p) \in SUBSET Entities /\ MobsOf(dim[p]) \in SUBSET Entities
        /\ ItemsOf(dim[p]) \in SUBSET Entities
    BY <1>1, <1>2 DEF PlayerTypes
  <2>2. QED
    BY <1>19, <1>20, <2>1 DEF SyncPlayers, SyncMobs, SyncItems
<1>21. QED
  BY <1>5, <1>6, <1>7, <1>8, <1>9, <1>10, <1>11, <1>12, <1>13, <1>14, <1>15, <1>16, <1>17, <1>18, <1>20 DEF Session

LEMMA PlayersStep ==
  ASSUME TypeOK, PlayersKnown, [Next]_vars
  PROVE  PlayerTypes' /\ PlayersKnown'
<1>1. Overworld \in Dims /\ Gone \notin Dims /\ PlayerTypes
  BY PresenceAssumption, PlayersSplit DEF Dims
<1>2. CASE UNCHANGED <<world, saved, at, dim, shown, tracked, asked, displaced>>
           /\ dead' \subseteq Players
  BY <1>1, <1>2 DEF PlayerTypes, PlayersKnown
<1>3. CASE TickOverworld \/ TickOthers \/ GiveOverworld \/ GiveOthers \/ SummonMob \/ UNCHANGED vars
  BY <1>1, <1>2, <1>3
     DEF TickOverworld, TickOthers, GiveOverworld, GiveOthers, SummonMob, Simulate, Give, Apart,
         Stays, vars, PlayerTypes
<1>4. CASE TickZombies
  <2>1. dead' \subseteq Players
    <3>1. PICK hit \in SUBSET Online : \E killed \in SUBSET hit : dead' = dead \union killed
      BY <1>4 DEF TickZombies
    <3>2. QED
      BY <1>1, <3>1 DEF Online, PlayerTypes
  <2>2. QED
    BY <1>2, <1>4, <2>1 DEF TickZombies
<1>5. CASE RenewWorlds
  BY <1>1, <1>5 DEF RenewWorlds, PlayerTypes, PlayersKnown, Online
<1>6. CASE MovePlayers
  BY <1>1, <1>6 DEF MovePlayers, PlayerTypes, PlayersKnown, Online
<1>7. QED
  BY <1>3, <1>4, <1>5, <1>6, SessionStep DEF Next
-----------------------------------------------------------------------------
\* The sets of a session that compares what it tracks with what is there.
NewlyGone(T, kind, there) == Only(T, kind) \ there
NewlyThere(T, there) == there \ T
ShownAfter(S, T, kind, there) ==
    (S \ (NewlyGone(T, kind, there) \union Numbered(NewlyGone(T, kind, there) \union NewlyThere(T, there))))
    \union NewlyThere(T, there)
TrackedAfter(T, kind, there) == (T \ NewlyGone(T, kind, there)) \union NewlyThere(T, there)

\* Whom a comparison in which all names differ takes away or adds, it takes
\* from both sets or adds to both.
LEMMA ComparedAlike ==
  ASSUME NEW S, NEW T, NEW S2, NEW T2, NEW kind, NEW there,
         OneName(T \union there), S2 = ShownAfter(S, T, kind, there),
         T2 = TrackedAfter(T, kind, there)
  PROVE  (S2 \ T2) \union (T2 \ S2) \subseteq (S \ T) \union (T \ S)
<1> DEFINE G == NewlyGone(T, kind, there)
           N == NewlyThere(T, there)
<1>1. G \subseteq T /\ G \intersect there = {} /\ N \subseteq there /\ N \intersect T = {}
  BY DEF NewlyGone, NewlyThere, Only
<1>2. S2 = (S \ (G \union Numbered(G \union N))) \union N /\ T2 = (T \ G) \union N
  BY DEF ShownAfter, TrackedAfter
<1>3. ASSUME NEW e \in T, e \notin G, e \notin N PROVE e \notin Numbered(G \union N)
  <2>1. SUFFICES ASSUME e \in Numbered(G \union N) PROVE FALSE
    OBVIOUS
  <2>2. PICK f \in G \union N : e[2] = f[2]
    BY <2>1 DEF Numbered
  <2>3. f \in T \union there /\ e \in T \union there
    BY <1>1, <2>2
  <2>4. e = f
    BY <2>2, <2>3 DEF OneName
  <2>5. QED
    BY <1>3, <2>2, <2>4
<1> HIDE DEF G, N
<1>4. QED
  BY <1>1, <1>2, <1>3

\* What may happen to what a session tracks, while it plays and after.
Synced(p, kind, there) ==
    /\ kind \in {"mob", "item", "player"}
    /\ there = CASE kind = "player" -> Others(p)
                 [] kind = "mob" -> MobsOf(dim[p])
                 [] kind = "item" -> ItemsOf(dim[p])
    /\ shown'[p] = ShownAfter(shown[p], tracked[p], kind, there)
    /\ tracked'[p] = TrackedAfter(tracked[p], kind, there)

LEMMA SyncStep ==
  ASSUME TypeOK, NEW p \in Players, p \in Watchers,
         NEW from, NEW to, NEW kind \in {"mob", "item", "player"}, NEW there,
         there = CASE kind = "player" -> Others(p)
                   [] kind = "mob" -> MobsOf(dim[p])
                   [] kind = "item" -> ItemsOf(dim[p]),
         Sync(p, from, to, kind, there)
  PROVE  Synced(p, kind, there)
<1>1. /\ shown' = [shown EXCEPT ![p] = ShownAfter(shown[p], tracked[p], kind, there)]
      /\ tracked' = [tracked EXCEPT ![p] = TrackedAfter(tracked[p], kind, there)]
  BY DEF Sync, Shows, Tracks, Followed, ShownAfter, TrackedAfter, NewlyGone, NewlyThere
<1>2. QED
  BY <1>1 DEF Synced, TypeOK

Same(p) == tracked'[p] = tracked[p] /\ shown'[p] = shown[p] /\ dim'[p] = dim[p]
Forgotten(p) == tracked'[p] = {} /\ shown'[p] = {}
Begun(p) ==
    /\ at[p] = "shown" /\ sims' = sims /\ dim'[p] = dim[p]
    /\ tracked'[p] = Followed(p, MobsOf(dim[p]) \union ItemsOf(dim[p]))

LEMMA TrackedStep ==
  ASSUME TypeOK, PlayersKnown, [Next]_vars, ~RenewWorlds, NEW p \in Players, Plays(p)'
  PROVE  \/ Same(p) /\ Plays(p)
         \/ Forgotten(p)
         \/ Begun(p)
         \/ /\ Plays(p) /\ sims' = sims /\ dim' = dim
            /\ \E kind, there : Synced(p, kind, there)
<1> DEFINE Good == \/ Same(p) /\ Plays(p)
                   \/ Forgotten(p)
                   \/ Begun(p)
                   \/ /\ Plays(p) /\ sims' = sims /\ dim' = dim
                      /\ \E kind, there : Synced(p, kind, there)
           In == {"playing", "mobs", "items", "looting", "sweeping", "reborn"}
<1>1. /\ Plays(p) <=> asked[p] = "no" /\ p \notin displaced /\ at[p] \in In
      /\ asked'[p] = "no" /\ p \notin displaced' /\ at'[p] \in In
  BY DEF Plays, Acting
<1>2. PlayerTypes
  BY PlayersSplit
<1> HIDE DEF In
<1> USE DEF Same
<1>3. CASE UNCHANGED <<at, dim, shown, tracked, asked, displaced>>
  BY <1>1, <1>3
<1>4. CASE TickOverworld \/ TickOthers \/ GiveOverworld \/ GiveOthers \/ TickZombies
           \/ SummonMob \/ UNCHANGED vars
  BY <1>3, <1>4
     DEF TickOverworld, TickOthers, GiveOverworld, GiveOthers, TickZombies, SummonMob, Simulate,
         Give, Apart, Stays, vars
<1>5. CASE MovePlayers
  BY <1>1, <1>2, <1>5 DEF MovePlayers, PlayerTypes
<1>6. ASSUME NEW q \in Players, Session(q), q # p PROVE Good
  <2>1. /\ tracked'[p] = tracked[p] /\ shown'[p] = shown[p] /\ dim'[p] = dim[p]
        /\ asked'[p] = asked[p] /\ at'[p] = at[p]
    BY <1>2, <1>6
       DEF PlayerTypes, Session, Greet, AddPlayer, ShowDimension, BeginSession, RemovePlayer,
           HangUp, Travel, Respawn, Reappear, Die, DropItem, AttackMob, Sweep, Loot,
           SyncPlayers, SyncMobs, SyncItems, Sync, Then, Shows, Tracks, Forgets,
           TransitionDimension, RespawnDimension, HitMob
  <2>2. p \in displaced' <=> p \in displaced
    BY <1>6
       DEF Session, Greet, AddPlayer, ShowDimension, BeginSession, RemovePlayer,
           HangUp, Travel, Respawn, Reappear, Die, DropItem, AttackMob, Sweep, Loot,
           SyncPlayers, SyncMobs, SyncItems, Sync, Stays, Settles
  <2>3. QED
    BY <1>1, <2>1, <2>2
<1>7. CASE Greet(p) \/ AddPlayer(p) \/ ShowDimension(p) \/ RemovePlayer(p) \/ HangUp(p)
  <2>1. at'[p] \in {"greeted", "added", "shown", "out"}
    BY <1>2, <1>7
       DEF PlayerTypes, Greet, AddPlayer, ShowDimension, RemovePlayer, HangUp, Then
  <2>2. QED
    BY <1>1, <2>1 DEF In
<1>8. CASE BeginSession(p)
  BY <1>2, <1>8 DEF PlayerTypes, BeginSession, Begun, Does, Then, Tracks
<1>9. CASE Travel(p)
  BY <1>2, <1>9 DEF PlayerTypes, Travel, Forgets, Shows, Tracks, Followed, Forgotten
<1>10. CASE Respawn(p) \/ Loot(p) \/ Sweep(p) \/ Die(p) \/ DropItem(p) \/ AttackMob(p)
  <2>1. at[p] \in In
    BY <1>10 DEF Respawn, Loot, Sweep, Die, DropItem, AttackMob, Does, In
  <2>2. UNCHANGED <<dim, shown, tracked, asked, displaced>>
    BY <1>10 DEF Respawn, Loot, Sweep, Die, DropItem, AttackMob, Stays
  <2>3. QED
    BY <1>1, <2>1, <2>2
<1>11. CASE Reappear(p)
  <2>1. dim[p] = Overworld
    BY <1>1, <1>11 DEF Reappear
  <2>2. UNCHANGED <<shown, tracked, asked, displaced>> /\ dim'[p] = dim[p] /\ at[p] \in In
    BY <1>2, <1>11, <2>1 DEF Reappear, RespawnDimension, PlayerTypes, Does, In
  <2>3. QED
    BY <1>1, <2>2
<1>12. CASE p \in Watchers /\ (SyncPlayers(p) \/ SyncMobs(p) \/ SyncItems(p))
  <2>1. at[p] \in In /\ UNCHANGED <<sims, dim, asked, displaced>>
    BY <1>12 DEF SyncPlayers, SyncMobs, SyncItems, Sync, Does, Stays, In
  <2>2. \E kind, there : Synced(p, kind, there)
    <3>1. CASE SyncPlayers(p)
      <4>1. Sync(p, "playing", "mobs", "player", Others(p))
        BY <3>1 DEF SyncPlayers
      <4>2. Synced(p, "player", Others(p))
        BY <1>12, <4>1, SyncStep
      <4>3. QED
        BY <4>2
    <3>2. CASE SyncMobs(p)
      <4>1. Sync(p, "mobs", "items", "mob", MobsOf(dim[p]))
        BY <3>2 DEF SyncMobs
      <4>2. Synced(p, "mob", MobsOf(dim[p]))
        BY <1>12, <4>1, SyncStep
      <4>3. QED
        BY <4>2
    <3>3. CASE SyncItems(p)
      <4>1. Sync(p, "items", "playing", "item", ItemsOf(dim[p]))
        BY <3>3 DEF SyncItems
      <4>2. Synced(p, "item", ItemsOf(dim[p]))
        BY <1>12, <4>1, SyncStep
      <4>3. QED
        BY <4>2
    <3>4. QED
      BY <1>12, <3>1, <3>2, <3>3
  <2>3. QED
    BY <1>1, <2>1, <2>2
<1>13. QED
  BY <1>4, <1>5, <1>6, <1>7, <1>8, <1>9, <1>10, <1>11, <1>12 DEF Next, Session
-----------------------------------------------------------------------------
\* What a session compares with has names apart from what it tracks.
LEMMA ThereApart ==
  ASSUME TypeOK, NumbersUnique, NEW p \in Players, Plays(p),
         NEW kind, NEW there, Synced(p, kind, there)
  PROVE  LET here == MobsOf(dim[p]) \union ItemsOf(dim[p]) IN
         /\ there \in SUBSET Entities /\ \A e \in there : e[1] = kind
         /\ OneName((tracked[p] \union there) \union here)
         /\ \A e \in there : e[1] # "player" => e[2] < sims[dim[p]].next
<1> DEFINE here == MobsOf(dim[p]) \union ItemsOf(dim[p])
<1>1. dim[p] \in Dims /\ tracked[p] \subseteq Entities /\ IsSim(sims[dim[p]])
  BY DEF TypeOK
<1>2. OneName(tracked[p] \union here) /\ here \subseteq Entities
  BY <1>1, PlayersEntities DEF NumbersUnique
<1>3. \A e \in here : e[1] # "player" /\ e[2] \in Nat
  BY <1>1 DEF MobsOf, ItemsOf, Shown, IsSim
<1>4. CASE kind = "player"
  <2>1. there = Others(p)
    BY <1>4 DEF Synced
  <2>2. \A e \in there : e = <<"player", e[2]>> /\ e[1] = "player" /\ e[2] \in Players
    BY <2>1 DEF Others, Shown, Online
  <2>3. \A e \in tracked[p] \union here :
           \/ e[1] # "player" /\ e[2] \in Nat
           \/ e[1] = "player" /\ e[2] \in Players /\ e = <<"player", e[2]>>
    BY <1>1, <1>3 DEF Entities
  <2>4. there \subseteq Entities
    BY <2>1, PlayersEntities
  <2>5. ASSUME NEW e \in there, NEW f \in (tracked[p] \union here) \union there, e[2] = f[2]
        PROVE  e = f
    BY <2>2, <2>3, <2>5, NumbersApart
  <2> HIDE DEF here
  <2>6. OneName((tracked[p] \union there) \union here)
    <3>1. ASSUME NEW e \in (tracked[p] \union there) \union here,
                 NEW f \in (tracked[p] \union there) \union here, e[2] = f[2]
          PROVE  e = f
      <4>1. CASE e \in there
        BY <2>5, <3>1, <4>1
      <4>2. CASE f \in there
        BY <2>5, <3>1, <4>2
      <4>3. CASE e \notin there /\ f \notin there
        BY <1>2, <3>1, <4>3 DEF OneName
      <4>4. QED
        BY <4>1, <4>2, <4>3
    <3>2. QED
      BY <3>1 DEF OneName
  <2>7. QED
    BY <1>4, <2>2, <2>4, <2>6 DEF here
<1>5. CASE kind \in {"mob", "item"}
  <2>1. there \subseteq here /\ \A e \in there : e[1] = kind
    BY <1>5 DEF Synced, MobsOf, ItemsOf, Shown
  <2>2. \A e \in here : e[2] < sims[dim[p]].next
    BY <1>1 DEF MobsOf, ItemsOf, Shown, IsSim
  <2> HIDE DEF here
  <2>3. (tracked[p] \union there) \union here = tracked[p] \union here
    BY <2>1
  <2>4. QED
    BY <1>2, <1>5, <2>1, <2>2, <2>3 DEF here
<1>6. QED
  BY <1>4, <1>5 DEF Synced

LEMMA NumbersStep ==
  ASSUME PresenceInvariant, [Next]_vars, TypeOK'
  PROVE  NumbersUnique'
<1>1. /\ TypeOK /\ NumbersUnique /\ PlayersKnown
      /\ \A d \in Dims : IsSim(sims[d]) /\ Distinct(sims[d])
  BY NamesInDimension, PlayersSplit DEF PresenceInvariant, NumbersUnique, TypeOK
<1>2. CASE RenewWorlds
  <2>1. \A d \in Dims : Distinct(sims'[d])
    BY <1>2, FreshGood
  <2>2. ASSUME NEW d \in Dims PROVE OneName(MobsOf(d)' \union ItemsOf(d)')
    <3>1. IsSim(sims'[d]) /\ Distinct(sims'[d])
      BY <1>2, FreshGood
    <3>2. QED
      BY <3>1 DEF OneName, MobsOf, ItemsOf, Shown, Distinct, IsSim
  <2>3. ASSUME NEW p \in Players PROVE ~Plays(p)'
    BY <1>1, <1>2 DEF RenewWorlds, Plays, Acting, Online, PlayersKnown
  <2>4. QED
    BY <2>2, <2>3 DEF NumbersUnique
<1>3. CASE ~RenewWorlds
  <2>1. \A d \in Dims : Grows(sims[d], sims'[d])
    BY <1>1, <1>3, SimsStep DEF SimsGrow
  <2>2. ASSUME NEW d \in Dims PROVE OneName(MobsOf(d)' \union ItemsOf(d)')
    <3>1. IsSim(sims'[d]) /\ Distinct(sims'[d])
      BY <2>1 DEF Grows
    <3>2. QED
      BY <3>1 DEF OneName, MobsOf, ItemsOf, Shown, Distinct, IsSim
  <2>3. ASSUME NEW p \in Players, Plays(p)'
        PROVE  /\ NumbersGiven(p)'
               /\ OneName(tracked[p] \union MobsOf(dim[p]) \union ItemsOf(dim[p]))'
    <3> DEFINE d == dim[p]
               There(sim) == Shown("mob", DOMAIN sim.mobs) \union Shown("item", DOMAIN sim.items)
               Kept(e) == dim'[p] = e /\ OneName(tracked'[p] \union There(sims'[e]))
                          /\ \A x \in tracked'[p] : x[1] # "player" => x[2] < sims'[e].next
    <3>1. /\ d \in Dims /\ tracked[p] \subseteq Entities /\ IsSim(sims[d])
          /\ Grows(sims[d], sims'[d])
      BY <1>1, <2>1 DEF TypeOK
    <3>2. \A e : MobsOf(e) \union ItemsOf(e) = There(sims[e])
                 /\ MobsOf(e)' \union ItemsOf(e)' = There(sims'[e])
      BY DEF MobsOf, ItemsOf
    <3>3. dim'[p] \in Dims
      BY DEF TypeOK
    <3>4. SUFFICES Kept(dim'[p])
      BY <3>2 DEF NumbersGiven, MobsOf, ItemsOf
    <3>5. OneName(There(sims'[dim'[p]]))
      BY <2>2, <3>2, <3>3
    <3> HIDE DEF There
    <3>6. CASE Same(p) /\ Plays(p)
      <4>1. OneName(tracked[p] \union There(sims[d]))
        BY <1>1, <3>1, <3>2, <3>6 DEF NumbersUnique
      <4>2. \A x \in tracked[p] : x[1] # "player" => x[2] < sims[d].next
        BY <1>1, <3>6 DEF NumbersUnique, NumbersGiven
      <4>3. /\ OneName(tracked[p] \union There(sims'[d]))
            /\ \A x \in tracked[p] : x[1] # "player" => x[2] < sims'[d].next
        BY <3>1, <4>1, <4>2, NamesKept DEF There
      <4>4. QED
        BY <3>6, <4>3 DEF Same
    <3>7. CASE Forgotten(p)
      BY <3>5, <3>7 DEF Forgotten
    <3>8. CASE Begun(p)
      <4>1. tracked'[p] \subseteq There(sims[d]) /\ sims' = sims /\ dim'[p] = d
        BY <3>2, <3>8 DEF Begun, Followed
      <4>2. \A x \in There(sims[d]) : x[2] < sims[d].next
        BY <3>1 DEF There, Shown, IsSim
      <4>3. tracked'[p] \union There(sims'[d]) = There(sims[d])
        BY <4>1
      <4>4. QED
        BY <3>5, <4>1, <4>2, <4>3
    <3>9. ASSUME Plays(p), sims' = sims, dim' = dim, NEW kind, NEW there, Synced(p, kind, there)
          PROVE  Kept(dim'[p])
      <4>1. /\ OneName((tracked[p] \union there) \union There(sims[d]))
            /\ \A x \in there : x[1] # "player" => x[2] < sims[d].next
        BY <1>1, <3>2, <3>9, ThereApart
      <4>2. \A x \in tracked[p] : x[1] # "player" => x[2] < sims[d].next
        BY <1>1, <3>9 DEF NumbersUnique, NumbersGiven
      <4>3. tracked'[p] \subseteq tracked[p] \union there
        BY <3>9 DEF Synced, TrackedAfter, NewlyThere
      <4>4. QED
        BY <3>9, <4>1, <4>2, <4>3 DEF OneName
    <3>10. QED
      BY <1>1, <1>3, <2>3, <3>6, <3>7, <3>8, <3>9, TrackedStep
  <2>4. QED
    BY <2>2, <2>3 DEF NumbersUnique
<1>4. QED
  BY <1>2, <1>3

LEMMA InitInvariant == Init => PresenceInvariant
<1> SUFFICES ASSUME Init PROVE PresenceInvariant
  OBVIOUS
<1>1. /\ sims = [d \in Dims |-> Fresh(d)]
      /\ \A d \in Dims : IsSim(sims[d]) /\ Distinct(sims[d])
  BY FreshSim DEF Init
<1>2. TypeOK
  BY <1>1, PresenceAssumption DEF Init, TypeOK, Dims, Resting
<1>3. OnlineWhileAdded /\ DimensionKnown
  BY DEF Init, OnlineWhileAdded, DimensionKnown, Online, Acting
<1>4. \A p \in Players : ~Plays(p)
  BY DEF Init, Plays, Acting
<1>5. NumbersUnique
  BY <1>1, <1>2, <1>4, NamesInDimension DEF NumbersUnique
<1>6. QED
  BY <1>2, <1>3, <1>4, <1>5 DEF PresenceInvariant

LEMMA StepInvariant == PresenceInvariant /\ [Next]_vars => PresenceInvariant'
<1> SUFFICES ASSUME PresenceInvariant, [Next]_vars PROVE PresenceInvariant'
  OBVIOUS
<1>1. /\ TypeOK /\ PlayersKnown
      /\ \A d \in Dims : Distinct(sims[d])
  BY NamesInDimension, PlayersSplit DEF PresenceInvariant, NumbersUnique
<1>2. DOMAIN sims' = Dims /\ \A d \in Dims : IsSim(sims'[d])
  BY <1>1, SimsStep, FreshGood DEF SimsGrow, Grows
<1>3. PlayerTypes' /\ PlayersKnown'
  BY <1>1, PlayersStep
<1>4. touched' \subseteq Dims \X Dims
  BY <1>1, TouchedStep
<1>5. TypeOK'
  <2>1. Places = Acting \union {"out", "greeted", "added", "shown", "reborn"}
    BY DEF Acting, Places
  <2>2. QED
    BY <1>1, <1>2, <1>3, <1>4, <2>1, ThreadStep DEF TypeOK, PlayerTypes
<1>6. OnlineWhileAdded' /\ DimensionKnown'
  <2>1. Acting \union {"shown", "reborn"}
          = {"playing", "mobs", "items", "looting", "sweeping", "shown", "reborn"}
    BY DEF Acting
  <2>2. QED
    BY <1>3, <2>1 DEF PlayersKnown, OnlineWhileAdded, DimensionKnown, Online
<1>7. NumbersUnique'
  BY <1>5, NumbersStep
<1>8. QED
  BY <1>5, <1>6, <1>7 DEF PresenceInvariant

\* The invariant of the sessions and the dimensions, for any players.
THEOREM PresenceInvariantHolds == Spec => []PresenceInvariant
  BY InitInvariant, StepInvariant, PTL DEF Spec

\* A session acts on the dimension its player is in, unless a reset overtook it.
THEOREM SessionKnowsDimensionHolds == Spec => []SessionKnowsDimension
<1>1. PresenceInvariant => SessionKnowsDimension
  BY DEF PresenceInvariant, DimensionKnown, SessionKnowsDimension
<1>2. QED
  BY <1>1, PresenceInvariantHolds, PTL

\* What a client displays and what its session takes for displayed do not drift
\* apart, however many entities come and go under whatever numbers.
THEOREM NoNewGapsHolds == Spec => NoNewGaps
<1>1. ASSUME PresenceInvariant, [Next]_vars, NEW p \in Players, Plays(p), Plays(p)'
      PROVE  Gap(p)' \subseteq Gap(p)
  <2>1. TypeOK /\ PlayersKnown /\ NumbersUnique
    BY <1>1, PlayersSplit DEF PresenceInvariant
  <2>2. ~RenewWorlds
    BY <1>1, <2>1 DEF RenewWorlds, Plays, Acting, Online, PlayersKnown
  <2>3. CASE Same(p) \/ Forgotten(p)
    BY <2>3 DEF Same, Forgotten, Gap
  <2>4. ASSUME Begun(p) PROVE FALSE
    BY <1>1, <2>4 DEF Begun, Plays, Acting
  <2>5. ASSUME NEW kind, NEW there, Synced(p, kind, there) PROVE Gap(p)' \subseteq Gap(p)
    <3>1. /\ there \in SUBSET Entities /\ \A e \in there : e[1] = kind
          /\ OneName(tracked[p] \union there)
      BY <1>1, <2>1, <2>5, ThereApart DEF OneName
    <3>2. /\ shown'[p] = ShownAfter(shown[p], tracked[p], kind, there)
          /\ tracked'[p] = TrackedAfter(tracked[p], kind, there)
      BY <2>5 DEF Synced
    <3>3. (shown'[p] \ tracked'[p]) \union (tracked'[p] \ shown'[p])
            \subseteq (shown[p] \ tracked[p]) \union (tracked[p] \ shown[p])
      BY <3>1, <3>2, ComparedAlike
    <3>4. QED
      BY <3>3 DEF Gap
  <2>6. QED
    BY <1>1, <2>1, <2>2, <2>3, <2>4, <2>5, TrackedStep
<1>2. PresenceInvariant /\ [Next]_vars
        => [\A p \in Players : Plays(p) /\ Plays(p)' => Gap(p)' \subseteq Gap(p)]_vars
  BY <1>1
<1>3. QED
  BY <1>2, PresenceInvariantHolds, PTL DEF Spec, NoNewGaps
-----------------------------------------------------------------------------
(* From here on: PlayerSessions, whose definitions have the prefix PS.        *)
PS == INSTANCE PlayerSessions

LEMMA SessionsBegin == PS!Init => PS!SessionInvariant
  BY DEF PS!Init, PS!Feed!Init, PS!SessionInvariant, PS!TypeOK, PS!OneSessionPerPlayer,
         PS!Registered, PS!Placed, PS!Armed, PS!Phases, PS!Idle

LEMMA SessionTypesStep ==
  ASSUME PS!SessionInvariant, [PS!Next]_PS!vars
  PROVE  PS!TypeOK'
<1> USE DEF PS!SessionInvariant, PS!TypeOK, PS!Phases
<1>1. ASSUME NEW s \in Sessions, PS!Connect(s) \/ PS!Disconnect(s) \/ PS!SessionStep(s)
      PROVE  PS!TypeOK'
  <2>1. Account[s] \in Accounts
    BY SessionsAssumption
  <2>2. /\ phase' \in [Sessions -> PS!Phases] /\ online' \in SUBSET Accounts
        /\ transforms' \in SUBSET Accounts /\ combat' \in SUBSET Accounts
        /\ restored' \in SUBSET (Accounts \X {"transform", "combat"})
        /\ disturbed' \in SUBSET Sessions
        /\ UNCHANGED <<banned, duty, caught>>
    BY <1>1, <2>1
       DEF PS!Connect, PS!Disconnect, PS!SessionStep, PS!LoginChecked, PS!AddPlayer,
           PS!AddTransform, PS!AddCombat, PS!EnterPlay, PS!Poll, PS!HandleDisconnect,
           PS!RemovePlayer, PS!RemoveTransform, PS!RemoveCombat, PS!Go, PS!playerVars,
           PS!history
  <2>3. QED
    BY <2>2
<1>2. ASSUME NEW m \in Moderators, PS!ModeratorStep(m) \/ PS!RepairWorld(m)
      PROVE  PS!TypeOK'
  <2>1. duty' \in [Moderators -> [doing: {"nothing", "find", "request", "push",
                                          "ask", "tell", "fight"},
                                  target: SUBSET Accounts]]
    <3> DEFINE Job == [doing: {"nothing", "find", "request", "push", "ask", "tell", "fight"},
                       target: SUBSET Accounts]
    <3>1. duty[m] \in Job /\ duty[m].target \in SUBSET Accounts
      OBVIOUS
    <3>2. \E j \in Job : duty' = [duty EXCEPT ![m] = j]
      <4>1. CASE PS!PushDisconnect(m)
        BY <3>1, <4>1 DEF PS!PushDisconnect, PS!Turn, PS!Finish, PS!Idle
      <4>2. ASSUME NEW p \in Accounts, PS!Find(m, p) PROVE  \E j \in Job : duty' = [duty EXCEPT ![m] = j]
        BY <3>1, <4>2 DEF PS!Find, PS!Turn, PS!Finish, PS!Idle
      <4>3. ASSUME NEW p \in Accounts, PS!RequestDisconnect(m, p) PROVE  \E j \in Job : duty' = [duty EXCEPT ![m] = j]
        BY <3>1, <4>3 DEF PS!RequestDisconnect, PS!Turn
      <4>4. CASE PS!ResetTransforms(m) \/ PS!ResetCombat(m) \/ PS!RepairWorld(m)
        BY <3>1, <4>4 DEF PS!ResetTransforms, PS!ResetCombat, PS!RepairWorld, PS!Turn,
                          PS!Finish, PS!Idle
      <4>5. QED
        BY <1>2, <4>1, <4>2, <4>3, <4>4 DEF PS!ModeratorStep
    <3>3. QED
      BY <3>2
  <2>2. /\ transforms' \in SUBSET Accounts /\ combat' \in SUBSET Accounts
        /\ caught' \in SUBSET Accounts /\ disturbed' \in SUBSET Sessions
        /\ restored' \in SUBSET (Accounts \X {"transform", "combat"})
        /\ UNCHANGED <<phase, online, banned>>
    <3>1. CASE \/ PS!PushDisconnect(m) \/ PS!RepairWorld(m)
               \/ \E p \in Accounts : PS!Find(m, p) \/ PS!RequestDisconnect(m, p)
      BY <3>1 DEF PS!PushDisconnect, PS!Find, PS!RequestDisconnect, PS!RepairWorld,
                  PS!playerVars, PS!history
    <3>2. CASE PS!ResetTransforms(m)
      <4>1. {<<p, "transform">> : p \in {q \in caught : ~PS!Kept(q, PS!Placing)}}
              \subseteq Accounts \X {"transform", "combat"}
        OBVIOUS
      <4>2. QED
        BY <3>2, <4>1 DEF PS!ResetTransforms
    <3>3. CASE PS!ResetCombat(m)
      <4>1. {<<p, "combat">> : p \in {q \in caught : ~PS!Kept(q, PS!Fighting)}}
              \subseteq Accounts \X {"transform", "combat"}
        OBVIOUS
      <4>2. QED
        BY <3>3, <4>1 DEF PS!ResetCombat
    <3>4. QED
      BY <1>2, <3>1, <3>2, <3>3 DEF PS!ModeratorStep
  <2>3. QED
    BY <2>1, <2>2
<1>3. ASSUME NEW m \in Moderators, NEW p \in Accounts,
             PS!Ban(m, p) \/ PS!Kick(m, p) \/ PS!Pardon(m, p)
      PROVE  PS!TypeOK'
  BY <1>3 DEF PS!Ban, PS!Kick, PS!Pardon, PS!Turn, PS!playerVars, PS!history
<1>4. CASE UNCHANGED PS!vars
  BY <1>4 DEF PS!vars, PS!playerVars, PS!history
<1>5. QED
  BY <1>1, <1>2, <1>3, <1>4 DEF PS!Next

\* Every step is a step of the feed or leaves it alone.
LEMMA FeedStep == [PS!Next]_PS!vars => [PS!Feed!Next]_PS!Feed!vars
<1> USE DEF PS!feedVars, PS!Feed!vars, PS!Feed!SameKind, PS!Feed!history
<1>1. ASSUME NEW s \in Sessions, PS!Connect(s) \/ PS!Disconnect(s) \/ PS!SessionStep(s)
      PROVE  [PS!Feed!Next]_PS!Feed!vars
  BY <1>1
     DEF PS!Connect, PS!Disconnect, PS!SessionStep, PS!LoginChecked, PS!AddPlayer,
         PS!AddTransform, PS!AddCombat, PS!EnterPlay, PS!Poll, PS!HandleDisconnect,
         PS!RemovePlayer, PS!RemoveTransform, PS!RemoveCombat, PS!Feed!Next
<1>2. ASSUME NEW m \in Moderators, PS!ModeratorStep(m) \/ PS!RepairWorld(m)
      PROVE  [PS!Feed!Next]_PS!Feed!vars
  BY <1>2 DEF PS!ModeratorStep, PS!PushDisconnect, PS!Find, PS!RequestDisconnect,
              PS!RepairWorld, PS!ResetTransforms, PS!ResetCombat, PS!Feed!Next
<1>3. ASSUME NEW m \in Moderators, NEW p \in Accounts,
             PS!Ban(m, p) \/ PS!Kick(m, p) \/ PS!Pardon(m, p)
      PROVE  [PS!Feed!Next]_PS!Feed!vars
  BY <1>3 DEF PS!Ban, PS!Kick, PS!Pardon
<1>4. CASE UNCHANGED PS!vars
  BY <1>4 DEF PS!vars
<1>5. QED
  BY <1>1, <1>2, <1>3, <1>4 DEF PS!Next

LEMMA PushesStep ==
  ASSUME pushes \in Nat, [PS!Feed!Next]_PS!Feed!vars
  PROVE  pushes' \in Nat
<1>1. ASSUME NEW m \in Moderators, PS!Feed!Push(m)
      PROVE  pushes' \in Nat
  BY <1>1 DEF PS!Feed!Push
<1>2. ASSUME NEW m \in Moderators, NEW p \in Accounts, PS!Feed!Draw(m, p)
      PROVE  pushes' \in Nat
  BY <1>2 DEF PS!Feed!Draw
<1>3. ASSUME NEW s \in Sessions,
             PS!Feed!Join(s) \/ PS!Feed!Poll(s) \/ PS!Feed!Handle(s) \/ PS!Feed!Leave(s)
      PROVE  pushes' \in Nat
  BY <1>3 DEF PS!Feed!Join, PS!Feed!Poll, PS!Feed!Handle, PS!Feed!Leave
<1>4. CASE PS!Feed!Clear
  BY <1>4 DEF PS!Feed!Clear
<1>5. CASE UNCHANGED PS!Feed!vars
  BY <1>5 DEF PS!Feed!vars
<1>6. QED
  BY <1>1, <1>2, <1>3, <1>4, <1>5 DEF PS!Feed!Next

\* What a step of the session s to the phase `to` may do to the transforms, or
\* to the combat states, which go from `old` to `new`: whoever is in a phase of S
\* has made one and has still to remove it.
Keeps(s, to, S, kind, old, new) ==
    /\ old \ {Account[s]} \subseteq new /\ new \subseteq old \union {Account[s]}
    /\ \A p \in Accounts \ {Account[s]} : <<p, kind>> \in restored => <<p, kind>> \in restored'
    /\ \/ to \in S
       \/ Account[s] \notin new
       \/ /\ phase[s] \notin S /\ new = old
          /\ <<Account[s], kind>> \in restored => <<Account[s], kind>> \in restored'
    /\ Account[s] \in old \ new => phase[s] \in {"unlisted", "unplaced"}
    /\ to \in S => phase[s] \in S \/ Account[s] \in new

LEMMA SameKept ==
  ASSUME NEW s \in Sessions, NEW to, NEW S, NEW kind, NEW old, UNCHANGED restored,
         to \in S <=> phase[s] \in S
  PROVE  Keeps(s, to, S, kind, old, old)
BY DEF Keeps

LEMMA KeptStep ==
  ASSUME PS!SessionInvariant, NEW s \in Sessions, NEW to, PS!Go(s, to),
         NEW S, NEW kind, NEW old \in SUBSET Accounts, NEW new,
         Keeps(s, to, S, kind, old, new),
         \A p \in old : <<p, kind>> \in restored \/ PS!Kept(p, S)
  PROVE  \A p \in new : <<p, kind>> \in restored' \/ PS!Kept(p, S)'
<1>1. phase'[s] = to /\ \A t \in Sessions : t # s => phase'[t] = phase[t]
  BY DEF PS!Go, PS!SessionInvariant, PS!TypeOK
<1>2. Account[s] \in Accounts
  BY SessionsAssumption
<1>3. ASSUME NEW p \in new, p # Account[s]
      PROVE  <<p, kind>> \in restored' \/ PS!Kept(p, S)'
  <2>1. p \in old /\ p \in Accounts \ {Account[s]}
    BY <1>3 DEF Keeps
  <2>2. CASE <<p, kind>> \in restored
    BY <2>1, <2>2 DEF Keeps
  <2>3. CASE PS!Kept(p, S)
    <3>1. PICK t \in Sessions : Account[t] = p /\ phase[t] \in S
      BY <2>3 DEF PS!Kept
    <3>2. QED
      BY <1>1, <1>3, <3>1 DEF PS!Kept
  <2>4. QED
    BY <2>1, <2>2, <2>3
<1>4. ASSUME Account[s] \in new
      PROVE  <<Account[s], kind>> \in restored' \/ PS!Kept(Account[s], S)'
  <2>1. CASE to \in S
    BY <1>1, <2>1 DEF PS!Kept
  <2>2. CASE /\ phase[s] \notin S /\ new = old
             /\ <<Account[s], kind>> \in restored => <<Account[s], kind>> \in restored'
    <3>1. CASE <<Account[s], kind>> \in restored
      BY <2>2, <3>1
    <3>2. CASE PS!Kept(Account[s], S)
      <4>1. PICK t \in Sessions : Account[t] = Account[s] /\ phase[t] \in S
        BY <3>2 DEF PS!Kept
      <4>2. QED
        BY <1>1, <2>2, <4>1 DEF PS!Kept
    <3>3. QED
      BY <1>4, <2>2, <3>1, <3>2
  <2>3. QED
    BY <1>4, <2>1, <2>2 DEF Keeps
<1>5. QED
  BY <1>3, <1>4

\* A step of the session s that neither lists nor unlists its player, and that
\* leaves the rest of what it keeps unless it is the one that has to remove it.
LEMMA PhaseStep ==
  ASSUME PS!SessionInvariant, PS!TypeOK', pushes' \in Nat,
         NEW s \in Sessions, NEW to \in PS!Phases, PS!Go(s, to),
         PS!Registered(s) <=> PS!Registered(s)', UNCHANGED <<online, disturbed>>,
         to \in {"unlisted", "unplaced"} => phase[s] \in {"unlisted", "unplaced"},
         Keeps(s, to, PS!Placing, "transform", transforms, transforms'),
         Keeps(s, to, PS!Fighting, "combat", combat, combat')
  PROVE  PS!SessionInvariant'
<1>1. phase'[s] = to /\ \A t \in Sessions : t # s => phase'[t] = phase[t]
  BY DEF PS!Go, PS!SessionInvariant, PS!TypeOK
<1>2. \A t \in Sessions : PS!Registered(t)' <=> PS!Registered(t)
  BY <1>1 DEF PS!Registered
<1>3. PS!OneSessionPerPlayer'
  BY <1>2 DEF PS!SessionInvariant, PS!OneSessionPerPlayer
<1>4. transforms \in SUBSET Accounts /\ combat \in SUBSET Accounts
  BY DEF PS!SessionInvariant, PS!TypeOK
<1>5. PS!Placed'
  <2>1. \A p \in transforms : <<p, "transform">> \in restored \/ PS!Kept(p, PS!Placing)
    BY DEF PS!SessionInvariant, PS!Placed
  <2>2. \A p \in transforms' : <<p, "transform">> \in restored' \/ PS!Kept(p, PS!Placing)'
    BY <1>4, <2>1, KeptStep
  <2>3. QED
    BY <2>2 DEF PS!Placed, PS!Placing
<1>6. PS!Armed'
  <2>1. \A p \in combat : <<p, "combat">> \in restored \/ PS!Kept(p, PS!Fighting)
    BY DEF PS!SessionInvariant, PS!Armed
  <2>2. \A p \in combat' : <<p, "combat">> \in restored' \/ PS!Kept(p, PS!Fighting)'
    BY <1>4, <2>1, KeptStep
  <2>3. QED
    BY <2>2 DEF PS!Armed, PS!Fighting
<1>7. ASSUME NEW t \in Sessions \ disturbed', PS!Registered(t)' PROVE PS!Undisturbed(t)'
  <2>1. PS!Undisturbed(t)
    BY <1>2, <1>7 DEF PS!SessionInvariant
  <2>2. ASSUME NEW u \in Sessions, Account[u] = Account[t]
        PROVE  phase'[u] \notin {"unlisted", "unplaced"}
    BY <1>1, <2>1, <2>2 DEF PS!Undisturbed
  <2>3. Account[t] = Account[s] => phase[s] \notin {"unlisted", "unplaced"}
    BY <2>1 DEF PS!Undisturbed
  <2>4. phase'[t] \in PS!Placing => Account[t] \in transforms'
    BY <1>1, <2>1, <2>3 DEF Keeps, PS!Undisturbed
  <2>5. phase'[t] \in PS!Fighting => Account[t] \in combat'
    BY <1>1, <2>1, <2>3 DEF Keeps, PS!Undisturbed
  <2>6. QED
    BY <2>2, <2>4, <2>5 DEF PS!Undisturbed, PS!Placing, PS!Fighting
<1>8. QED
  BY <1>3, <1>5, <1>6, <1>7 DEF PS!SessionInvariant

\* Steps that touch no player leave the invariant alone.
LEMMA DutyStep ==
  ASSUME PS!SessionInvariant, PS!TypeOK', pushes' \in Nat,
         UNCHANGED <<phase, online, transforms, combat, restored, disturbed>>
  PROVE  PS!SessionInvariant'
  BY DEF PS!SessionInvariant, PS!OneSessionPerPlayer, PS!Registered, PS!Kept, PS!Placed,
         PS!Armed, PS!Undisturbed, PS!Placing, PS!Fighting

LEMMA AddPlayerStep ==
  ASSUME PS!SessionInvariant, PS!TypeOK', pushes' \in Nat, NEW s \in Sessions,
         PS!AddPlayer(s), Account[s] \notin online
  PROVE  PS!SessionInvariant'
<1>1. /\ phase[s] = "configuration" /\ UNCHANGED <<transforms, combat, restored>>
      /\ phase' = [phase EXCEPT ![s] = "listed"]
      /\ online' = online \union {Account[s]}
      /\ disturbed' = IF PS!Kept(Account[s], {"unlisted", "unplaced"})
                      THEN disturbed \union {s} ELSE disturbed
  BY DEF PS!AddPlayer, PS!Go
<1>2. phase'[s] = "listed" /\ \A t \in Sessions : t # s => phase'[t] = phase[t]
  BY <1>1 DEF PS!SessionInvariant, PS!TypeOK
<1>3. \A t \in Sessions : PS!Registered(t)' <=> PS!Registered(t) \/ t = s
  BY <1>2 DEF PS!Registered
<1>4. \A t \in Sessions : PS!Registered(t) => Account[t] # Account[s]
  BY DEF PS!SessionInvariant, PS!OneSessionPerPlayer
<1>5. PS!OneSessionPerPlayer'
  BY <1>1, <1>3, <1>4 DEF PS!SessionInvariant, PS!OneSessionPerPlayer
<1>6. PS!Placed' /\ PS!Armed'
  BY <1>1, <1>2
     DEF PS!SessionInvariant, PS!Placed, PS!Armed, PS!Kept, PS!Placing, PS!Fighting
<1>7. ASSUME NEW t \in Sessions \ disturbed', PS!Registered(t)' PROVE PS!Undisturbed(t)'
  <2>1. CASE t = s
    BY <1>1, <1>2, <1>7, <2>1
       DEF PS!Undisturbed, PS!Kept, PS!Placing, PS!Fighting
  <2>2. CASE t # s
    <3>1. PS!Undisturbed(t)
      BY <1>1, <1>3, <1>7, <2>2 DEF PS!SessionInvariant
    <3>2. QED
      BY <1>1, <1>2, <2>2, <3>1 DEF PS!Undisturbed, PS!Placing, PS!Fighting
  <2>3. QED
    BY <2>1, <2>2
<1>8. QED
  BY <1>5, <1>6, <1>7 DEF PS!SessionInvariant

LEMMA RemovePlayerStep ==
  ASSUME PS!SessionInvariant, PS!TypeOK', pushes' \in Nat, NEW s \in Sessions,
      PS!RemovePlayer(s)
  PROVE  PS!SessionInvariant'
<1>1. /\ phase[s] = "leaving" /\ UNCHANGED <<transforms, combat, restored>>
      /\ phase' = [phase EXCEPT ![s] = "unlisted"]
      /\ online' = online \ {Account[s]}
      /\ disturbed' = disturbed \ {s}
  BY DEF PS!RemovePlayer, PS!Go
<1>2. phase'[s] = "unlisted" /\ \A t \in Sessions : t # s => phase'[t] = phase[t]
  BY <1>1 DEF PS!SessionInvariant, PS!TypeOK
<1>3. \A t \in Sessions : PS!Registered(t)' <=> PS!Registered(t) /\ t # s
  BY <1>2 DEF PS!Registered
<1>4. \A t \in Sessions : PS!Registered(t) /\ t # s => Account[t] # Account[s]
  BY <1>1 DEF PS!SessionInvariant, PS!OneSessionPerPlayer, PS!Registered
<1>5. PS!OneSessionPerPlayer'
  BY <1>1, <1>3, <1>4 DEF PS!SessionInvariant, PS!OneSessionPerPlayer
<1>6. PS!Placed' /\ PS!Armed'
  BY <1>1, <1>2
     DEF PS!SessionInvariant, PS!Placed, PS!Armed, PS!Kept, PS!Placing, PS!Fighting
<1>7. ASSUME NEW t \in Sessions \ disturbed', PS!Registered(t)' PROVE PS!Undisturbed(t)'
  <2>1. t # s /\ PS!Registered(t) /\ Account[t] # Account[s]
    BY <1>3, <1>4, <1>7
  <2>2. PS!Undisturbed(t)
    BY <1>1, <1>7, <2>1 DEF PS!SessionInvariant
  <2>3. QED
    BY <1>1, <1>2, <2>1, <2>2 DEF PS!Undisturbed, PS!Placing, PS!Fighting
<1>8. QED
  BY <1>5, <1>6, <1>7 DEF PS!SessionInvariant

\* A reset makes transforms for players who are gone, and keeps track of it.
LEMMA ResetTransformsStep ==
  ASSUME PS!SessionInvariant, PS!TypeOK', pushes' \in Nat, NEW m \in Moderators,
         PS!ResetTransforms(m)
  PROVE  PS!SessionInvariant'
<1>1. /\ UNCHANGED <<phase, online, combat, disturbed>>
      /\ transforms' = transforms \union caught
      /\ restored' = restored \union
            {<<p, "transform">> : p \in {q \in caught : ~PS!Kept(q, PS!Placing)}}
  BY DEF PS!ResetTransforms
<1>2. PS!OneSessionPerPlayer'
  BY <1>1 DEF PS!SessionInvariant, PS!OneSessionPerPlayer, PS!Registered
<1>3. PS!Placed' /\ PS!Armed'
  BY <1>1 DEF PS!SessionInvariant, PS!Placed, PS!Armed, PS!Kept, PS!Placing, PS!Fighting
<1>4. \A t \in Sessions \ disturbed' : PS!Registered(t)' => PS!Undisturbed(t)'
  BY <1>1 DEF PS!SessionInvariant, PS!Registered, PS!Undisturbed, PS!Placing, PS!Fighting
<1>5. QED
  BY <1>2, <1>3, <1>4 DEF PS!SessionInvariant

LEMMA ResetCombatStep ==
  ASSUME PS!SessionInvariant, PS!TypeOK', pushes' \in Nat, NEW m \in Moderators,
         PS!ResetCombat(m)
  PROVE  PS!SessionInvariant'
<1>1. /\ UNCHANGED <<phase, online, transforms>> /\ combat' = caught
      /\ restored' = restored \union
            {<<p, "combat">> : p \in {q \in caught : ~PS!Kept(q, PS!Fighting)}}
      /\ disturbed' = disturbed \union
            {s \in Sessions : /\ phase[s] \in {"loading", "play", "leaving"}
                             /\ Account[s] \notin caught}
  BY DEF PS!ResetCombat
<1>2. PS!OneSessionPerPlayer'
  BY <1>1 DEF PS!SessionInvariant, PS!OneSessionPerPlayer, PS!Registered
<1>3. PS!Placed' /\ PS!Armed'
  BY <1>1 DEF PS!SessionInvariant, PS!Placed, PS!Armed, PS!Kept, PS!Placing, PS!Fighting
<1>4. \A t \in Sessions \ disturbed' : PS!Registered(t)' => PS!Undisturbed(t)'
  BY <1>1 DEF PS!SessionInvariant, PS!Registered, PS!Undisturbed, PS!Placing, PS!Fighting
<1>5. QED
  BY <1>2, <1>3, <1>4 DEF PS!SessionInvariant

LEMMA EachSessionStep ==
  ASSUME PS!SessionInvariant, PS!TypeOK', pushes' \in Nat, NEW s \in Sessions,
         PS!Connect(s) \/ PS!Disconnect(s) \/ PS!SessionStep(s)
  PROVE  PS!SessionInvariant'
<1> USE DEF PS!Registered, PS!Phases, PS!Placing, PS!Fighting, PS!playerVars, PS!history
\* Of most steps only the phase changes, and not whether it is one of these.
<1>1. ASSUME NEW from \in PS!Phases, NEW to \in PS!Phases, phase[s] = from, PS!Go(s, to),
             UNCHANGED PS!playerVars,
             from \in PS!Placing <=> to \in PS!Placing,
             from \in PS!Fighting <=> to \in PS!Fighting,
             {from, to} \intersect {"listed", "unlisted", "unplaced"} = {}
      PROVE  PS!SessionInvariant'
  <2>1. phase'[s] = to
    BY <1>1 DEF PS!Go, PS!SessionInvariant, PS!TypeOK
  <2>2. PS!Registered(s) <=> PS!Registered(s)'
    BY <1>1, <2>1
  <2>3. /\ Keeps(s, to, PS!Placing, "transform", transforms, transforms')
        /\ Keeps(s, to, PS!Fighting, "combat", combat, combat')
    BY <1>1, SameKept
  <2>4. QED
    BY <1>1, <2>2, <2>3, PhaseStep
<1>2. CASE PS!Connect(s)
  BY <1>1, <1>2 DEF PS!Connect
<1>3. CASE PS!Disconnect(s)
  BY <1>1, <1>3 DEF PS!Disconnect
<1>4. CASE PS!LoginChecked(s)
  BY <1>1, <1>4 DEF PS!LoginChecked
<1>5. CASE PS!AddPlayer(s)
  <2>1. CASE Account[s] \in online
    BY <1>1, <1>5, <2>1 DEF PS!AddPlayer
  <2>2. QED
    BY <1>5, <2>1, AddPlayerStep
<1>6. CASE PS!AddTransform(s)
  <2>1. /\ phase[s] = "listed" /\ PS!Go(s, "placed")
        /\ transforms' = transforms \union {Account[s]}
        /\ restored' = restored \ {<<Account[s], "transform">>}
        /\ UNCHANGED <<online, combat, disturbed>>
    BY <1>6 DEF PS!AddTransform
  <2>2. phase'[s] = "placed"
    BY <2>1 DEF PS!Go, PS!SessionInvariant, PS!TypeOK
  <2>3. /\ Keeps(s, "placed", PS!Placing, "transform", transforms, transforms')
        /\ Keeps(s, "placed", PS!Fighting, "combat", combat, combat')
    BY <2>1 DEF Keeps
  <2>4. QED
    BY <2>1, <2>2, <2>3, PhaseStep
<1>7. CASE PS!AddCombat(s)
  <2>1. /\ phase[s] = "placed" /\ PS!Go(s, "loading")
        /\ combat' = combat \union {Account[s]}
        /\ restored' = restored \ {<<Account[s], "combat">>}
        /\ UNCHANGED <<online, transforms, disturbed>>
    BY <1>7 DEF PS!AddCombat
  <2>2. phase'[s] = "loading"
    BY <2>1 DEF PS!Go, PS!SessionInvariant, PS!TypeOK
  <2>3. /\ Keeps(s, "loading", PS!Placing, "transform", transforms, transforms')
        /\ Keeps(s, "loading", PS!Fighting, "combat", combat, combat')
    BY <2>1 DEF Keeps
  <2>4. QED
    BY <2>1, <2>2, <2>3, PhaseStep
<1>8. CASE PS!EnterPlay(s)
  BY <1>1, <1>8 DEF PS!EnterPlay
<1>9. CASE PS!Poll(s)
  BY <1>9, DutyStep DEF PS!Poll
<1>10. CASE PS!HandleDisconnect(s)
  <2>1. CASE PS!Go(s, "leaving")
    BY <1>1, <1>10, <2>1 DEF PS!HandleDisconnect
  <2>2. CASE UNCHANGED phase
    BY <1>10, <2>2, DutyStep DEF PS!HandleDisconnect
  <2>3. QED
    BY <1>10, <2>1, <2>2 DEF PS!HandleDisconnect
<1>11. CASE PS!RemovePlayer(s)
  BY <1>11, RemovePlayerStep
<1>12. CASE PS!RemoveTransform(s)
  <2>1. /\ phase[s] = "unlisted" /\ PS!Go(s, "unplaced")
        /\ transforms' = transforms \ {Account[s]}
        /\ UNCHANGED <<online, combat, restored, disturbed>>
    BY <1>12 DEF PS!RemoveTransform
  <2>2. phase'[s] = "unplaced"
    BY <2>1 DEF PS!Go, PS!SessionInvariant, PS!TypeOK
  <2>3. /\ Keeps(s, "unplaced", PS!Placing, "transform", transforms, transforms')
        /\ Keeps(s, "unplaced", PS!Fighting, "combat", combat, combat')
    BY <2>1 DEF Keeps
  <2>4. QED
    BY <2>1, <2>2, <2>3, PhaseStep
<1>13. CASE PS!RemoveCombat(s)
  <2>1. /\ phase[s] = "unplaced" /\ PS!Go(s, "closed")
        /\ combat' = combat \ {Account[s]}
        /\ UNCHANGED <<online, transforms, restored, disturbed>>
    BY <1>13 DEF PS!RemoveCombat
  <2>2. phase'[s] = "closed"
    BY <2>1 DEF PS!Go, PS!SessionInvariant, PS!TypeOK
  <2>3. /\ Keeps(s, "closed", PS!Placing, "transform", transforms, transforms')
        /\ Keeps(s, "closed", PS!Fighting, "combat", combat, combat')
    BY <2>1 DEF Keeps
  <2>4. QED
    BY <2>1, <2>2, <2>3, PhaseStep
<1>14. QED
  BY <1>2, <1>3, <1>4, <1>5, <1>6, <1>7, <1>8, <1>9, <1>10, <1>11, <1>12, <1>13
     DEF PS!SessionStep

LEMMA SessionsGoOn == PS!SessionInvariant /\ [PS!Next]_PS!vars => PS!SessionInvariant'
<1> SUFFICES ASSUME PS!SessionInvariant, [PS!Next]_PS!vars PROVE PS!SessionInvariant'
  OBVIOUS
<1>1. PS!TypeOK' /\ pushes' \in Nat
  BY SessionTypesStep, FeedStep, PushesStep DEF PS!SessionInvariant
<1>2. ASSUME NEW m \in Moderators, PS!ModeratorStep(m) \/ PS!RepairWorld(m)
      PROVE  PS!SessionInvariant'
  <2>1. CASE \/ PS!PushDisconnect(m) \/ PS!RepairWorld(m)
             \/ \E p \in Accounts : PS!Find(m, p) \/ PS!RequestDisconnect(m, p)
    BY <1>1, <2>1, DutyStep
       DEF PS!PushDisconnect, PS!Find, PS!RequestDisconnect, PS!RepairWorld,
           PS!playerVars, PS!history
  <2>2. QED
    BY <1>1, <1>2, <2>1, ResetTransformsStep, ResetCombatStep DEF PS!ModeratorStep
<1>3. ASSUME NEW m \in Moderators, NEW p \in Accounts,
             PS!Ban(m, p) \/ PS!Kick(m, p) \/ PS!Pardon(m, p)
      PROVE  PS!SessionInvariant'
  BY <1>1, <1>3, DutyStep DEF PS!Ban, PS!Kick, PS!Pardon, PS!playerVars, PS!history
<1>4. CASE UNCHANGED PS!vars
  BY <1>1, <1>4, DutyStep DEF PS!vars, PS!playerVars, PS!history
<1>5. QED
  BY <1>1, <1>2, <1>3, <1>4, EachSessionStep DEF PS!Next
-----------------------------------------------------------------------------
\* The two views of what the sessions promise are one.
LEMMA SamePromises ==
  /\ PS!OneSessionPerPlayer => OneSessionPerPlayer
  /\ PS!NoLeftovers => NoLeftovers
  /\ PS!PlayersKeepState => PlayersKeepState
  BY DEF PS!OneSessionPerPlayer, OneSessionPerPlayer, PS!NoLeftovers, NoLeftovers,
         PS!PlayersKeepState, PlayersKeepState,
         PS!Registered, Registered, PS!Present, Present

LEMMA SameFeedOfRequests ==
  /\ PS!Feed!Init => Feed!Init
  /\ [PS!Feed!Next]_PS!Feed!vars => [Feed!Next]_Feed!vars
<1>1. PS!Feed!vars = Feed!vars /\ PS!Feed!vars' = Feed!vars'
  BY DEF PS!Feed!vars, Feed!vars, PS!Feed!SameKind, Feed!history, PS!Feed!history
<1>2. PS!Feed!Next => Feed!Next
  BY DEF PS!Feed!Next, Feed!Next, PS!Feed!Push, Feed!Push, PS!Feed!Draw, Feed!Draw,
         PS!Feed!Join, Feed!Join, PS!Feed!Poll, Feed!Poll, PS!Feed!Handle, Feed!Handle,
         PS!Feed!Leave, Feed!Leave, PS!Feed!Clear, Feed!Clear, PS!Feed!Newest,
         Feed!Newest, PS!Feed!Pushed, Feed!Pushed, PS!Feed!Last, Feed!Last,
         PS!Feed!First, Feed!First, PS!Feed!Advanced, Feed!Advanced, PS!Feed!SameKind,
         Feed!SameKind, PS!Feed!history, Feed!history, PS!Feed!Cardinality,
         Feed!Cardinality
<1>3. QED
  BY <1>1, <1>2 DEF PS!Feed!Init, Feed!Init

\* The invariant of the sessions, for any number of them.
THEOREM SessionInvariantHolds == PS!Spec => []PS!SessionInvariant
  BY SessionsBegin, SessionsGoOn, PTL DEF PS!Spec

\* An account has one session, and the list of players shows who is there.
THEOREM OneSessionPerPlayerHolds == PS!Spec => []OneSessionPerPlayer
<1>1. PS!SessionInvariant => OneSessionPerPlayer
  BY SamePromises DEF PS!SessionInvariant
<1>2. QED
  BY <1>1, SessionInvariantHolds, PTL

\* However sessions of an account overlap, nothing is left when they are gone,
\* but what a reset of the world made of players it had listed before.
THEOREM NoLeftoversHolds == PS!Spec => []NoLeftovers
<1>1. PS!SessionInvariant => PS!NoLeftovers
  BY DEF PS!SessionInvariant, PS!NoLeftovers, PS!Placed, PS!Armed, PS!Kept, PS!Placing,
         PS!Fighting, PS!Present, PS!Registered
<1>2. PS!SessionInvariant => NoLeftovers
  BY <1>1, SamePromises
<1>3. QED
  BY <1>2, SessionInvariantHolds, PTL

\* Who plays has the transform and the combat state of the player, whatever
\* ends, is refused or is reset meanwhile, except who was added beside the
\* removal of an older session or after a reset had listed the players.
THEOREM PlayersKeepStateHolds == PS!Spec => []PlayersKeepState
<1>1. PS!SessionInvariant => PS!PlayersKeepState
  BY DEF PS!SessionInvariant, PS!PlayersKeepState, PS!Undisturbed, PS!Placing, PS!Fighting,
         PS!Registered
<1>2. PS!SessionInvariant => PlayersKeepState
  BY <1>1, SamePromises
<1>3. QED
  BY <1>2, SessionInvariantHolds, PTL

\* The disconnect requests of the composition behave as RevisionFeed says.
THEOREM FeedImplemented == PS!Spec => FeedSpec
<1>1. PS!Init => Feed!Init
  BY SameFeedOfRequests DEF PS!Init
<1>2. [PS!Next]_PS!vars => [Feed!Next]_Feed!vars
  BY FeedStep, SameFeedOfRequests
<1>3. QED
  BY <1>1, <1>2, PTL DEF PS!Spec, FeedSpec, Feed!Spec
=============================================================================
