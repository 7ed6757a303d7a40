------------------------------ MODULE MCItems -------------------------------
(* Two players, two slots of storage and a few held: each scenario brings  *)
(* the kinds that some of the operations are about.                         *)
EXTENDS Items

CONSTANTS alice, bob, here
MCPlayers == {alice, bob}
MCPositions == {here}
MCStorageSlots == {0, 1}
MCHotbar == {0}
MCHandCells == {0, 2}
MCChestSlots == {0}
MCMiners == {alice}
MCGestures == {alice}
MCGifts == {<<"Apple", 1>>}

S(i) == InStorage(i)
MCDrags == {<<S(1), S(0)>>}
Of(kind) == Cell(Stack(kind, 1), 0)
Two(kind) == Cell(Stack(kind, 2), 0)
MCLoot == [i \in MCChestSlots |-> Of("Apple")]
Scenario(does, kinds, stored, block, furnace, lying) ==
    [cells |-> [p \in MCPlayers |-> [pl \in Places |->
                   IF p = alice /\ pl \in DOMAIN stored THEN stored[pl] ELSE Empty]],
     blocks |-> [p \in MCPositions |-> block], furnaces |-> [p \in MCPositions |-> furnace],
     chests |-> [p \in MCPositions |-> NoChest], ground |-> lying, kinds |-> kinds,
     scene |-> does]
Plain(does, kinds, stored) == Scenario(does, kinds, stored, "Air", EmptyFurnace, <<>>)

Crafting == Plain({"click", "screen", "craft", "move"}, {"OakLog", "OakPlanks", "Stick"}, S(0) :> Of("OakLog"))
Armed == Plain({"click", "screen", "use", "console"}, {"WoodenSword", "Shield"}, S(0) :> Of("WoodenSword"))
Moving == Plain({"move", "use", "console"}, {"WoodenSword", "Shield"}, S(0) :> Of("WoodenSword"))
Armored == Plain({"move", "use", "console", "struck"}, {"IronBoots", "Apple"}, S(0) :> Of("IronBoots"))
Shielded == Plain({"move", "attack"}, {"Shield", "Apple"}, S(0) :> Of("Shield") @@ S(1) :> Of("Apple"))
Milk == Plain({"click", "screen", "use"}, {"Bucket", "MilkBucket"}, S(0) :> Two("Bucket"))
Placing == [Plain({"click", "screen", "block"}, {"Chest"}, S(0) :> Of("Chest"))
               EXCEPT !.cells[bob][S(0)] = Of("Chest")]
Mixed == Scenario({"craft", "click", "screen", "block"}, {"Chest", "Apple"}, S(0) :> Of("Apple"),
    "Chest", EmptyFurnace, <<>>)
Smelt == Scenario({"block"}, {"Furnace", "WoodenAxe", "RawBeef", "CookedBeef", "Stick"},
    S(0) :> Of("WoodenAxe"), "Furnace",
    [EmptyFurnace EXCEPT !.input = Stack("RawBeef", 1), !.fuel = Stack("Stick", 2)], <<>>)
Full == S(0) :> Of("Apple") @@ S(1) :> Of("Shield")
Pickup == Scenario({"move"}, {"Apple", "Shield"}, Full, "Air", EmptyFurnace, <<Stack("Apple", 2)>>)
Squeeze == Scenario({"click", "craft"}, {"OakLog", "OakPlanks", "Stick", "Shield"},
    S(0) :> Of("OakLog") @@ S(1) :> Of("Shield"), "Air", EmptyFurnace, <<Stack("OakPlanks", 1)>>)
Tables == Plain({"tables"}, {"Apple"}, <<>>)
MCStarts == {Tables, Crafting, Armed, Moving, Armored, Shielded, Milk, Placing, Mixed, Smelt, Pickup, Squeeze}
=============================================================================
