----------------------------- MODULE StateLocks -----------------------------
(***************************************************************************)
(* The order in which the operations of ServerState take and release its   *)
(* locks (carbon-server/src/state.rs), as programs for RwLocks. A program  *)
(* is the path of its operation that takes the most locks; where the code  *)
(* takes the lock of one of two dimensions, the program takes one after    *)
(* the other. Loops over players and positions are run once. The locks of  *)
(* the access lists are never held with another and are left out.          *)
(***************************************************************************)
EXTENDS Sequences

R(l) == <<[act |-> "read", lock |-> l]>>
W(l) == <<[act |-> "write", lock |-> l]>>
Drop(l) == <<[act |-> "release", lock |-> l]>>
\* A guard that lives no longer than its statement.
Peek(l) == R(l) \o Drop(l)
Update(l) == W(l) \o Drop(l)

StateLockNames ==
    {"players", "simulation", "dimensions", "worlds", "saved_locations", "transforms",
     "vitals", "equipment", "status_effects", "inventories", "combat_states",
     "furnaces", "chests", "lava_burn_until", "feed"}

\* An order that every operation except the autosave follows. "feed" stands
\* for the deques of the revision feeds, which are taken last.
StateRank ==
    [l \in StateLockNames |->
        CASE l = "players" -> 0
          [] l \in {"simulation", "dimensions", "worlds", "saved_locations"} -> 1
          [] l = "vitals" -> 2
          [] l = "equipment" -> 3
          [] l = "status_effects" -> 4
          [] OTHER -> 5]
StateTop == 5
-----------------------------------------------------------------------------
BlockAt == Peek("simulation") \o Peek("dimensions")
PlayerEquipment == Peek("equipment") \o Peek("inventories")
DamagePlayer == Update("vitals") \o Update("feed")
DamagePlayerCombat ==
    PlayerEquipment \o Peek("status_effects") \o DamagePlayer \o Update("equipment")
UpdateWorldPlayerCounts == R("players") \o Update("worlds") \o Drop("players")

\* Four read guards live until save has written the file.
Save ==
    Peek("simulation") \o Peek("dimensions") \o Peek("players")
    \o R("saved_locations") \o R("vitals") \o R("equipment") \o R("status_effects")
    \o Peek("inventories") \o Peek("furnaces") \o Peek("chests")
    \o Drop("status_effects") \o Drop("equipment") \o Drop("vitals")
    \o Drop("saved_locations")

TickLavaHazards ==
    R("players") \o BlockAt \o Drop("players") \o Update("lava_burn_until")
    \o Peek("status_effects") \o DamagePlayer

\* The world tick keeps its read guard on the players to the end of the
\* function; every 200 ticks that end is the autosave.
AdvanceTick(ending) ==
    Update("furnaces") \o TickLavaHazards \o Update("worlds")
    \o R("players")
    \o Update("simulation") \o Update("simulation") \o Update("inventories")
    \o Update("simulation") \o Update("dimensions") \o Update("inventories")
    \o Update("dimensions") \o Peek("simulation")
    \o DamagePlayerCombat \o Update("vitals")
    \o Update("status_effects") \o DamagePlayer
    \o ending
    \o Drop("players")

AddPlayer ==
    Peek("saved_locations") \o BlockAt \o Update("players") \o Update("transforms")
    \o Update("inventories") \o Update("equipment") \o Update("combat_states")
    \o Update("vitals") \o Update("status_effects") \o UpdateWorldPlayerCounts
    \o Update("feed")

RemovePlayer_Holding == \* mutant: the counts are updated under the players' lock
    W("players") \o Update("saved_locations")
    \o Update("lava_burn_until") \o Update("transforms") \o Update("combat_states")
    \o UpdateWorldPlayerCounts \o Drop("players") \o Update("feed")

RemovePlayer ==
    W("players") \o Update("saved_locations") \o Drop("players")
    \o Update("lava_burn_until") \o Update("transforms") \o Update("combat_states")
    \o UpdateWorldPlayerCounts \o Update("feed")

UpdatePlayerPosition == Update("players") \o Update("transforms")
UpdatePlayerTransform == Update("transforms") \o Update("players")

ChangePlayerDimension ==
    Peek("worlds") \o W("players") \o Update("simulation") \o Update("dimensions")
    \o Drop("players") \o Update("transforms") \o Update("combat_states")

RespawnPlayer ==
    Update("vitals") \o Update("status_effects") \o Update("simulation")
    \o W("players") \o Peek("worlds") \o Drop("players")
    \o UpdatePlayerPosition \o Update("combat_states")

ConsumeFood_Reversed == \* mutant: the inventory is locked before the vitals
    W("inventories") \o W("vitals") \o Drop("vitals") \o Drop("inventories")
    \o Peek("players") \o Update("status_effects")

ConsumeFood ==
    W("vitals") \o W("inventories") \o Drop("inventories") \o Drop("vitals")
    \o Peek("players") \o Update("status_effects")

ClickOffHand == W("equipment") \o Update("combat_states") \o Drop("equipment")

AttackPlayer ==
    Peek("combat_states") \o PlayerEquipment \o Peek("transforms")
    \o W("equipment") \o Update("combat_states") \o Drop("equipment")

SetBlock == BlockAt \o Update("simulation") \o Update("dimensions") \o Update("feed")
ClickChestSlot == BlockAt \o BlockAt \o Update("chests")
RequestDisconnect == Peek("players") \o Update("feed")

RepairWorld ==
    Peek("worlds") \o Peek("players") \o RequestDisconnect
    \o Update("simulation") \o Update("dimensions") \o Update("worlds")
    \o Update("furnaces") \o Update("chests") \o Update("feed")
    \o Update("saved_locations") \o Update("status_effects")
    \o Update("lava_burn_until") \o Update("simulation") \o Update("players")
    \o Update("transforms") \o Update("inventories") \o Update("equipment")
    \o Update("vitals") \o Update("combat_states") \o Save
-----------------------------------------------------------------------------
StateProgram ==
    [tick |-> AdvanceTick(<<>>),
     autosave |-> AdvanceTick(Save),
     add_player |-> AddPlayer,
     remove_player |-> RemovePlayer,
     update_player_transform |-> UpdatePlayerTransform,
     change_player_dimension |-> ChangePlayerDimension,
     respawn_player |-> RespawnPlayer,
     consume_food |-> ConsumeFood,
     click_off_hand |-> ClickOffHand,
     attack_player |-> AttackPlayer,
     set_block |-> SetBlock,
     click_chest_slot |-> ClickChestSlot,
     repair_world |-> RepairWorld]
=============================================================================
