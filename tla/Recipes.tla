------------------------------ MODULE Recipes -------------------------------
(***************************************************************************)
(* The recipes of the three ways to craft: the 2x2 grid of the inventory,  *)
(* the 3x3 grid of a crafting table and the /craft commands. A grid is a   *)
(* function from its cells to kinds, "None" where a cell is empty; a       *)
(* recipe of the table is the partial function that the kinds must equal.  *)
(***************************************************************************)
EXTENDS Stacks, Functions, TLC

CONSTANT Yield \* 4: the planks of a log, the sticks of two planks, the dust of an ore
ASSUME YieldAssumption == Yield \in 1 .. FullStack

Occupied(kinds) == {c \in DOMAIN kinds : kinds[c] # "None"}
\* A recipe: the cells it consumes one item of, and what it makes.
Recipe(cells, output) == [cells |-> cells, output |-> output]
NoRecipe == Recipe({}, NoStack)

Shapeless(kinds) ==
    /\ Cardinality(Occupied(kinds)) = 2
    /\ {kinds[c] : c \in Occupied(kinds)} = {"IronIngot", "Flint"}

\* The hand's grid: cells 0 and 1 over cells 2 and 3. An empty cell of the
\* grid compares as a kind of its own.
CraftingRecipe(kinds) ==
    LET occupied == Occupied(kinds)
        column == \E top \in {0, 1} : occupied = {top, top + 2}
        all(kind) == \A c \in occupied : kinds[c] = kind
    IN CASE Cardinality(occupied) = 1 /\ all("OakLog") ->
                Recipe(occupied, Stack("OakPlanks", Yield))
         [] Shapeless(kinds) -> Recipe(occupied, Stack("FlintAndSteel", 1))
         [] column /\ all("OakPlanks") -> Recipe(occupied, Stack("Stick", Yield))
         [] occupied = 0 .. 3 /\ all("OakPlanks") ->
                Recipe(occupied, Stack("CraftingTable", 1))
         [] OTHER -> NoRecipe

Filled(cells, kind) == [c \in cells |-> kind]
Shape(entries, output) == [entries |-> entries, output |-> output]
Shapes(cells, kind, outputs) == Shape(Filled(cells, kind), outputs)

Handle_Short == Filled({4}, "Stick") \* mutant
Handle == Filled({4, 7}, "Stick")
ToolSet(material, pickaxe, axe, shovel, sword) ==
    {Shape(Filled({0, 1, 2}, material) @@ Handle, Stack(pickaxe, 1)),
     Shape(Filled({0, 1, 3}, material) @@ Handle, Stack(axe, 1)),
     Shape(Filled({0}, material) @@ Filled({3, 6}, "Stick"), Stack(shovel, 1)),
     Shape(Filled({0, 3}, material) @@ Filled({6}, "Stick"), Stack(sword, 1))}
ArmorSet(material, helmet, chestplate, leggings, boots) ==
    {Shapes({0, 1, 2, 3, 5}, material, Stack(helmet, 1)),
     Shapes({0, 2, 3, 4, 5, 6, 7, 8}, material, Stack(chestplate, 1)),
     Shapes({0, 1, 2, 3, 5, 6, 8}, material, Stack(leggings, 1)),
     Shapes({0, 2, 3, 5}, material, Stack(boots, 1))}
Ring == (0 .. 8) \ {4}
Columns == 0 .. 2
Wooden ==
    {Shape(Filled({0, 1, 2}, "OakPlanks") @@ Handle, Stack("WoodenPickaxe", 1)),
     Shape(Filled({0, 2, 3, 4, 5, 7}, "OakPlanks") @@ Filled({1}, "IronIngot"),
           Stack("Shield", 1))}
    \union {Shape(Filled(head, "OakPlanks") @@ Handle, Stack("WoodenAxe", 1)) :
               head \in {{0, 1, 3}, {1, 2, 5}}}
    \union {Shape(Filled({c, c + 3}, "OakPlanks") @@ Filled({c + 6}, "Stick"),
                  Stack("WoodenSword", 1)) : c \in Columns}
    \union {Shape(Filled({c}, "OakPlanks") @@ Filled({c + 3, c + 6}, "Stick"),
                  Stack("WoodenShovel", 1)) : c \in Columns}
    \union {Shapes({c, c + 1, c + 3, c + 4}, "OakPlanks", Stack("CraftingTable", 1)) :
               c \in {0, 1, 3, 4}}
    \union {Shapes({c, c + 3}, "OakPlanks", Stack("Stick", Yield)) : c \in 0 .. 5}
    \union {Shapes({c}, "OakLog", Stack("OakPlanks", Yield)) : c \in 0 .. 8}
TableShapes ==
    {Shapes(Ring, "Cobblestone", Stack("Furnace", 1)),
     Shapes(Ring, "OakPlanks", Stack("Chest", 1))}
    \union {Shapes(v, "IronIngot", Stack("Bucket", 1)) : v \in {{0, 2, 4}, {3, 5, 7}}}
    \union ToolSet("Cobblestone", "StonePickaxe", "StoneAxe", "StoneShovel", "StoneSword")
    \union ToolSet("IronIngot", "IronPickaxe", "IronAxe", "IronShovel", "IronSword")
    \union ToolSet("Diamond", "DiamondPickaxe", "DiamondAxe", "DiamondShovel", "DiamondSword")
    \union ArmorSet("IronIngot", "IronHelmet", "IronChestplate", "IronLeggings", "IronBoots")
    \union ArmorSet("Diamond", "DiamondHelmet", "DiamondChestplate", "DiamondLeggings",
                    "DiamondBoots")
    \union Wooden

\* The or_else chain of the code takes the first shape that matches; that no
\* two match the same grid is a property, below.
Matching(kinds) ==
    {s \in TableShapes : s.entries = Restrict(kinds, Occupied(kinds))}
CraftingTableRecipe(kinds) ==
    IF Shapeless(kinds) THEN Recipe(Occupied(kinds), Stack("FlintAndSteel", 1))
    ELSE IF Matching(kinds) = {} THEN NoRecipe
    ELSE Recipe(Occupied(kinds), (CHOOSE s \in Matching(kinds) : TRUE).output)

\* The /craft commands: how much of which kind, for what.
RecipeDefinition ==
    [craft_planks |-> [needs |-> [OakLog |-> 1], output |-> Stack("OakPlanks", Yield)],
     craft_sticks |-> [needs |-> [OakPlanks |-> 2], output |-> Stack("Stick", Yield)],
     craft_table |-> [needs |-> [OakPlanks |-> 4], output |-> Stack("CraftingTable", 1)],
     craft_pickaxe |-> [needs |-> [OakPlanks |-> 3, Stick |-> 2],
                        output |-> Stack("WoodenPickaxe", 1)],
     craft_axe |-> [needs |-> [OakPlanks |-> 3, Stick |-> 2],
                    output |-> Stack("WoodenAxe", 1)],
     craft_shovel |-> [needs |-> [OakPlanks |-> 1, Stick |-> 2],
                       output |-> Stack("WoodenShovel", 1)],
     craft_sword |-> [needs |-> [OakPlanks |-> 2, Stick |-> 1],
                      output |-> Stack("WoodenSword", 1)],
     craft_shield |-> [needs |-> [OakPlanks |-> 6, IronIngot |-> 1],
                       output |-> Stack("Shield", 1)],
     craft_flint_and_steel |-> [needs |-> [IronIngot |-> 1, Flint |-> 1],
                       output |-> Stack("FlintAndSteel", 1)]]
Recipes == DOMAIN RecipeDefinition
-----------------------------------------------------------------------------
Needs(kinds, kind) == Cardinality({c \in DOMAIN kinds : kinds[c] = kind})
Paid(kinds) == [kind \in {kinds[c] : c \in Occupied(kinds)} |-> Needs(kinds, kind)]
HandKinds == {"None", "OakLog", "OakPlanks", "IronIngot", "Flint"}
\* A grid of the hand laid in the upper left corner of the table's.
OnTable(kinds) ==
    [c \in 0 .. 8 |-> CASE c = 0 -> kinds[0] [] c = 1 -> kinds[1]
                        [] c = 3 -> kinds[2] [] c = 4 -> kinds[3] [] OTHER -> "None"]

ShapesAreDistinct == \A s, t \in TableShapes : s.entries = t.entries => s = t
GridsAgree ==
    \A kinds \in [0 .. 3 -> HandKinds] :
        CraftingTableRecipe(OnTable(kinds)).output = CraftingRecipe(kinds).output
CommandsAgree ==
    \A r \in Recipes \ {"craft_flint_and_steel"} :
        \E s \in TableShapes : /\ s.output = RecipeDefinition[r].output
                               /\ Paid(s.entries) = RecipeDefinition[r].needs
\* The three ways to craft agree: what the 2x2 grid makes the table makes of
\* the same cells, and a /craft command takes exactly the ingredients, and
\* gives exactly the output, of a recipe of the table; and no grid of the table
\* is two recipes at once, so that the order of the code's or_else chain
\* (network/mod.rs:2263) does not decide what is made.
RecipesAgree == ShapesAreDistinct /\ GridsAgree /\ CommandsAgree
=============================================================================
