------------------------------- MODULE Mining -------------------------------
(***************************************************************************)
(* Blocks and the items they are: what a block gives to a tool, how long   *)
(* it takes, which items are blocks. And what a player can come by at all, *)
(* starting with bare hands.                                               *)
(***************************************************************************)
EXTENDS Recipes, Integers

Tiers == <<"Wooden", "Stone", "Iron", "Diamond">>
ToolsOf(kind) ==
    CASE kind = "Pickaxe" -> <<"WoodenPickaxe", "StonePickaxe", "IronPickaxe", "DiamondPickaxe">>
      [] kind = "Axe" -> <<"WoodenAxe", "StoneAxe", "IronAxe", "DiamondAxe">>
      [] kind = "Shovel" -> <<"WoodenShovel", "StoneShovel", "IronShovel", "DiamondShovel">>
      [] kind = "Sword" -> <<"WoodenSword", "StoneSword", "IronSword", "DiamondSword">>
TierIn(kind, tool) ==
    LET tiers == {t \in DOMAIN Tiers : ToolsOf(kind)[t] = tool}
    IN IF tiers = {} THEN 0 ELSE CHOOSE t \in tiers : TRUE

Ground == {"Dirt", "Grass", "Sand", "Gravel", "SoulSand"}
\* The ores, with the tier of pickaxe that they ask for and what they give.
OreTier_Iron == \* mutant: iron asks for what is made of iron
    [CoalOre |-> 1, CopperOre |-> 1, IronOre |-> 3, LapisOre |-> 2,
     GoldOre |-> 3, RedstoneOre |-> 3, DiamondOre |-> 3]
OreTier == [CoalOre |-> 1, CopperOre |-> 1, IronOre |-> 2, LapisOre |-> 2,
            GoldOre |-> 3, RedstoneOre |-> 3, DiamondOre |-> 3]
OreItem == [CoalOre |-> "Coal", CopperOre |-> "RawCopper", IronOre |-> "RawIron",
            LapisOre |-> "LapisLazuli", GoldOre |-> "RawGold", RedstoneOre |-> "Redstone",
            DiamondOre |-> "Diamond"]
OreBlocks == DOMAIN OreTier
Rock == {"Sandstone", "Netherrack", "Basalt", "EndStone", "StoneBricks"}
PickaxeBlocks == OreBlocks \union Rock \union {"Stone", "Cobblestone", "Obsidian", "Furnace"}
ShovelBlocks == Ground \union {"SnowBlock"}
AxeBlocks == Logs \union {"OakPlanks", "CraftingTable", "Chest"}
Leaves == {"OakLeaves", "BirchLeaves", "SpruceLeaves"}
SurfacePlants == {"ShortGrass", "Fern", "DeadBush"}
Unbreakable == {"Air", "Water", "Lava", "Bedrock", "NetherPortal", "EndPortal"}
Blocks == PickaxeBlocks \union ShovelBlocks \union AxeBlocks \union Leaves
          \union SurfacePlants \union Unbreakable

\* The tier of pickaxe without which a block gives nothing.
TierNeeded(block) ==
    CASE block \in OreBlocks -> OreTier[block]
      [] block \in Rock \union {"Stone", "Cobblestone"} -> 1
      [] block = "Obsidian" -> 4
      [] OTHER -> 0
GivesNothing == Leaves \union SurfacePlants \union Unbreakable \union {"SnowBlock"}
DropKind(block) ==
    CASE block \in OreBlocks -> OreItem[block]
      [] block = "Stone" -> "Cobblestone"
      [] block = "Grass" -> "Dirt"
      [] OTHER -> block
Gives(block) ==
    Stack(DropKind(block), IF DropKind(block) \in {"Redstone", "LapisLazuli"} THEN Yield ELSE 1)
BlockDrop(block, tool) ==
    IF block \in GivesNothing \/ TierIn("Pickaxe", tool) < TierNeeded(block) THEN NoStack
    ELSE Gives(block)
\* Gravel gives flint one time in ten.
Drops(block, tool) ==
    IF block = "Gravel" THEN {Stack("Flint", 1), Stack("Gravel", 1)} ELSE {BlockDrop(block, tool)}

Never == 1000
MiningTicks(block, tool) ==
    LET tier(kind) == TierIn(kind, tool)
    IN CASE block \in PickaxeBlocks /\ tier("Pickaxe") > 0 -> <<8, 6, 4, 3>>[tier("Pickaxe")]
         [] block \in ShovelBlocks /\ tier("Shovel") > 0 -> <<3, 2, 1, 1>>[tier("Shovel")]
         [] block \in AxeBlocks /\ tier("Axe") > 0 -> <<8, 6, 4, 4>>[tier("Axe")]
         [] block \in SurfacePlants -> 0
         [] block \in Leaves -> 4
         [] block \in ShovelBlocks -> 12
         [] block \in Unbreakable -> Never
         [] OTHER -> 30

\* Half points of damage of a hit without enchantment, tenths of hits a second.
AttackDamage(kind, tier) ==
    CASE kind = "Sword" -> <<8, 10, 12, 14>>[tier]
      [] kind = "Axe" -> <<14, 18, 18, 18>>[tier]
      [] kind = "Pickaxe" -> <<4, 6, 8, 10>>[tier]
      [] kind = "Shovel" -> <<5, 7, 9, 11>>[tier]
AttackRate(kind, tier) ==
    CASE kind = "Sword" -> 16
      [] kind = "Axe" -> <<8, 8, 9, 10>>[tier]
      [] kind = "Pickaxe" -> 12
      [] kind = "Shovel" -> 10

\* An item is the block of its name, or none.
ItemBlock(kind) ==
    IF kind \in (Ground \ {"Grass"}) \union Rock \union Logs
                \union {"Stone", "SnowBlock", "Obsidian", "OakPlanks", "CraftingTable",
                        "Furnace", "Chest"}
    THEN kind ELSE "None"

MobDrops == {"RottenFlesh", "RawBeef", "Porkchop"}
-----------------------------------------------------------------------------
Tools == Diggers \union Axes \union {"None"}
MadeOf(S) ==
    {s.output.kind : s \in {t \in TableShapes : Range(t.entries) \subseteq S}}
    \union (IF {"IronIngot", "Flint"} \subseteq S THEN {"FlintAndSteel"} ELSE {})
SmeltedFrom(S) ==
    IF "Furnace" \in S /\ \E k \in S : FuelBurnTicks(k) > 0
    THEN {SmeltingResult(k) : k \in S \intersect Smeltable} ELSE {}
MinedWith(S) ==
    {BlockDrop(b, t).kind : b \in Blocks, t \in Tools \intersect (S \union {"None"})} \ {"None"}
MoreOf(S) ==
    S \union MinedWith(S) \union MobDrops \union SmeltedFrom(S)
      \union (IF "CraftingTable" \in S THEN MadeOf(S) ELSE MadeOf(S) \intersect
                 {"OakPlanks", "Stick", "CraftingTable", "FlintAndSteel"})
      \union (IF "Gravel" \in S THEN {"Flint"} ELSE {})
      \union (IF "Bucket" \in S THEN {"MilkBucket"} ELSE {})
Reached[n \in 0 .. 16] == IF n = 0 THEN {} ELSE MoreOf(Reached[n - 1])

\* The tables of tools, drops, recipes and fuels lead a player from bare hands
\* to every tool, weapon and piece of armor there is, and to what is smelted
\* (wooden tools lead to cobblestone, stone tools to iron, iron tools to
\* diamond: README.md:113).
ToolsProgress ==
    Wearing \union Armor \union {"Shield", "MilkBucket", "Chest", "Furnace"}
        \union {SmeltingResult(k) : k \in Smeltable} \subseteq Reached[16]

\* A better tool never does worse: it is no slower than a lesser one of its kind
\* or than bare hands, gives whatever they give, and hurts more in the long run;
\* and what a player places and mines with the best pickaxe is the item again,
\* but for stone and snow.
BetterToolsDoBetter ==
    /\ \A kind \in {"Pickaxe", "Axe", "Shovel"}, t, u \in DOMAIN Tiers, b \in Blocks :
          t <= u => LET lesser == ToolsOf(kind)[t]
                        better == ToolsOf(kind)[u]
                    IN /\ MiningTicks(b, better) <= MiningTicks(b, lesser)
                       /\ MiningTicks(b, lesser) <= MiningTicks(b, "None")
                       /\ BlockDrop(b, lesser) \in {NoStack, BlockDrop(b, better)}
    /\ \A kind \in {"Pickaxe", "Axe", "Shovel", "Sword"}, t, u \in DOMAIN Tiers :
          t < u => AttackDamage(kind, t) * AttackRate(kind, t)
                     < AttackDamage(kind, u) * AttackRate(kind, u)
    /\ \A b \in Blocks \ {"Stone", "SnowBlock"} :
          ItemBlock(b) # "None" => BlockDrop(ItemBlock(b), "DiamondPickaxe") = Stack(b, 1)
=============================================================================
