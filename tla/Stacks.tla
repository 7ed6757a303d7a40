------------------------------- MODULE Stacks -------------------------------
(***************************************************************************)
(* Item stacks and what a click does to them: the pure functions under the *)
(* inventory, the chests and the furnaces. A stack has a kind, a damage    *)
(* and a count; the level of its Sharpness lives beside it, in an array of *)
(* its own, so that a slot or the cursor is a cell of both.                *)
(***************************************************************************)
EXTENDS Naturals, FiniteSetsExt

CONSTANTS FullStack,   \* 64, what most kinds stack to
          BucketStack, \* 16
          MaxDamage,   \* what breaks a tool, 59 to 1561 in the code
          SmeltTicks   \* 100: the burn of a stick; a recipe takes two of them

ASSUME StackAssumption ==
    /\ FullStack \in Nat \ {0}
    /\ BucketStack \in 1 .. FullStack
    /\ MaxDamage \in Nat \ {0}
    /\ SmeltTicks \in Nat \ {0}

Swords == {"WoodenSword", "StoneSword", "IronSword", "DiamondSword"}
Axes == {"WoodenAxe", "StoneAxe", "IronAxe", "DiamondAxe"}
Diggers == {"WoodenPickaxe", "StonePickaxe", "IronPickaxe", "DiamondPickaxe",
            "WoodenShovel", "StoneShovel", "IronShovel", "DiamondShovel"}
Boots == {"IronBoots", "DiamondBoots"}
Leggings == {"IronLeggings", "DiamondLeggings"}
Chestplates == {"IronChestplate", "DiamondChestplate"}
Helmets == {"IronHelmet", "DiamondHelmet"}
Armor == Boots \union Leggings \union Chestplates \union Helmets
Logs == {"OakLog", "BirchLog", "SpruceLog"}

\* damage_item wears these, enchant_selected_weapon takes those.
Wearing == Swords \union Axes \union Diggers \union {"FlintAndSteel"}
Weapons == Swords \union Axes
\* FINISH of a block wears a digging tool, and an axe, not a sword.
IsTool(kind) == kind \in Axes \union Diggers

Materials ==
    {"Stone", "Cobblestone", "Dirt", "Sand", "Gravel", "Sandstone", "SnowBlock",
     "Netherrack", "SoulSand", "Basalt", "EndStone", "Obsidian", "StoneBricks",
     "OakLog", "BirchLog", "SpruceLog", "OakPlanks", "Stick", "Apple", "CraftingTable",
     "Furnace", "Chest", "IronIngot", "CopperIngot", "GoldIngot", "Flint", "RawBeef",
     "Porkchop", "CookedBeef", "CookedPorkchop", "RottenFlesh", "Coal", "Charcoal",
     "RawIron", "RawCopper", "RawGold", "Redstone", "LapisLazuli", "Diamond"}
Kinds == Materials \union Wearing \union Armor \union {"Shield", "Bucket", "MilkBucket"}

MaxStackSize(kind) ==
    IF kind \in Wearing \union Armor \union {"Shield", "MilkBucket"} THEN 1
    ELSE IF kind = "Bucket" THEN BucketStack
    ELSE FullStack

ArmorSlotAccepts(slot, kind) ==
    \/ slot = 0 /\ kind \in Boots
    \/ slot = 1 /\ kind \in Leggings
    \/ slot = 2 /\ kind \in Chestplates
    \/ slot = 3 /\ kind \in Helmets

Smelted ==
    [kind \in Logs |-> "Charcoal"]
Ores == [RawIron |-> "IronIngot", RawCopper |-> "CopperIngot",
         RawGold |-> "GoldIngot", Cobblestone |-> "Stone",
         RawBeef |-> "CookedBeef", Porkchop |-> "CookedPorkchop"]
Smeltable == DOMAIN Smelted \union DOMAIN Ores
SmeltingResult(kind) == IF kind \in Logs THEN Smelted[kind] ELSE Ores[kind]

FuelBurnTicks(kind) ==
    CASE kind \in {"Coal", "Charcoal"} -> 16 * SmeltTicks
      [] kind \in Logs \union {"OakPlanks"} -> 3 * SmeltTicks
      [] kind = "Stick" -> SmeltTicks
      [] OTHER -> 0

Food == {"Apple", "RawBeef", "Porkchop", "CookedBeef", "CookedPorkchop",
         "RottenFlesh"}
-----------------------------------------------------------------------------
NoStack == [kind |-> "None", damage |-> 0, count |-> 0]
Stack(kind, count) == [kind |-> kind, damage |-> 0, count |-> count]
Some(stack, n) == IF n = 0 THEN NoStack ELSE [stack EXCEPT !.count = n]

\* A slot that becomes empty loses its level.
Cell(stack, level) ==
    [stack |-> stack, level |-> IF stack = NoStack THEN 0 ELSE level]
Empty == Cell(NoStack, 0)
IsEmpty(cell) == cell.stack = NoStack

Least(m, n) == IF m <= n THEN m ELSE n
SameItem(s, t) == s.kind = t.kind /\ s.damage = t.damage
SameCell(c, d) == SameItem(c.stack, d.stack) /\ c.level = d.level
Space(stack) == MaxStackSize(stack.kind) - stack.count

Taken(slot, cursor, n) ==
    [slot |-> Cell(Some(slot.stack, slot.stack.count - n), slot.level),
     cursor |-> [stack |-> Some(slot.stack, n), level |-> slot.level]]
Put(slot, cursor, n) ==
    [slot |-> [stack |-> Some(cursor.stack, n), level |-> cursor.level],
     cursor |-> Cell(Some(cursor.stack, cursor.stack.count - n), cursor.level)]
More(cell, n) == [cell EXCEPT !.stack.count = @ + n]
Merged(slot, cursor, n) ==
    [slot |-> More(slot, n),
     cursor |-> Cell(Some(cursor.stack, cursor.stack.count - n), cursor.level)]
Swapped_Stacks(slot, cursor) == \* mutant: the levels stay where they are
    [slot |-> Cell(cursor.stack, slot.level), cursor |-> Cell(slot.stack, cursor.level)]
Swapped(slot, cursor) == [slot |-> cursor, cursor |-> slot]
Untouched(slot, cursor) == [slot |-> slot, cursor |-> cursor]

Half(n) == (n + 1) \div 2

\* What a click on a slot does, slot and cursor; ok is whether the slot
\* takes the kind that the cursor carries.
ClickStack(slot, cursor, right, ok) ==
    LET n == IF right THEN 1 ELSE cursor.stack.count
        size == MaxStackSize(cursor.stack.kind)
    IN CASE ~IsEmpty(slot) /\ IsEmpty(cursor) ->
                Taken(slot, cursor, IF right THEN Half(slot.stack.count)
                                    ELSE slot.stack.count)
         [] IsEmpty(slot) /\ ~IsEmpty(cursor) /\ ok ->
                Put(slot, cursor, Least(n, size))
         [] ~IsEmpty(slot) /\ ~IsEmpty(cursor) /\ ok /\ SameCell(slot, cursor) ->
                Merged(slot, cursor, Least(n, Space(slot.stack)))
         [] ~IsEmpty(slot) /\ ~IsEmpty(cursor) /\ ok /\ ~SameCell(slot, cursor)
              /\ cursor.stack.count <= size -> Swapped(slot, cursor)
         [] OTHER -> Untouched(slot, cursor)

\* A cell of a crafting grid takes everything, and more than a stack of it.
ClickLocalSlot(slot, cursor, right) ==
    LET n == IF right THEN 1 ELSE cursor.stack.count
    IN CASE ~IsEmpty(slot) /\ IsEmpty(cursor) ->
                Taken(slot, cursor, IF right THEN Half(slot.stack.count)
                                    ELSE slot.stack.count)
         [] IsEmpty(slot) /\ ~IsEmpty(cursor) -> Put(slot, cursor, n)
         [] ~IsEmpty(slot) /\ ~IsEmpty(cursor) /\ SameCell(slot, cursor) ->
                Merged(slot, cursor, Least(n, Space(slot.stack)))
         [] ~IsEmpty(slot) /\ ~IsEmpty(cursor) /\ ~SameCell(slot, cursor) ->
                Swapped(slot, cursor)
         [] OTHER -> Untouched(slot, cursor)
-----------------------------------------------------------------------------
(* An array of slots, storage, is filled first where the kind already is,  *)
(* in the order of the slots, then where there is nothing.                 *)
Slots(storage) == DOMAIN storage
Mergeable(storage, i, stack) ==
    SameItem(storage[i].stack, stack) /\ Space(storage[i].stack) > 0
\* What slot i takes of a stack that is offered to it.
Takes(storage, i, stack) ==
    IF IsEmpty(storage[i]) THEN MaxStackSize(stack.kind)
    ELSE IF SameItem(storage[i].stack, stack) THEN Space(storage[i].stack) ELSE 0
\* The slots that are asked before slot i.
Before(storage, i) ==
    {j \in Slots(storage) :
        \/ ~IsEmpty(storage[j]) /\ IsEmpty(storage[i])
        \/ (IsEmpty(storage[j]) <=> IsEmpty(storage[i])) /\ j < i}
\* The units that the slots of S take, counted one by one.
TakenBy(S, storage, stack) ==
    Cardinality({u \in S \X (1 .. FullStack) : u[2] <= Takes(storage, u[1], stack)})
Capacity(storage, stack) == TakenBy(Slots(storage), storage, stack)
Given(storage, i, stack) ==
    LET before == TakenBy(Before(storage, i), storage, stack)
    IN IF before >= stack.count THEN 0
       ELSE Least(stack.count - before, Takes(storage, i, stack))
Grown(cell, stack, n) ==
    IF n = 0 THEN cell
    ELSE IF IsEmpty(cell) THEN [stack |-> Some(stack, n), level |-> 0]
    ELSE More(cell, n)
AddStack(storage, stack) ==
    [i \in Slots(storage) |-> Grown(storage[i], stack, Given(storage, i, stack))]

\* The first slots of a kind pay for an ingredient.
CountIn(cell, kind) == IF cell.stack.kind = kind THEN cell.stack.count ELSE 0
OwnedIn(S, storage, kind) ==
    Cardinality({u \in S \X (1 .. FullStack) : u[2] <= CountIn(storage[u[1]], kind)})
Owned(storage, kind) == OwnedIn(Slots(storage), storage, kind)
Pays(storage, i, kind, needed) ==
    LET before == OwnedIn({j \in Slots(storage) : j < i}, storage, kind)
    IN IF before >= needed THEN 0
       ELSE Least(needed - before, CountIn(storage[i], kind))
Minus(cell, n) == Cell(Some(cell.stack, cell.stack.count - n), cell.level)
TakeKinds(storage, needs) ==
    [i \in Slots(storage) |->
        LET kind == storage[i].stack.kind
        IN IF kind \in DOMAIN needs
           THEN Minus(storage[i], Pays(storage, i, kind, needs[kind])) ELSE storage[i]]
=============================================================================
