---------------------------- MODULE Inventories -----------------------------
(***************************************************************************)
(* The items of the players: what the gestures of the inventory screen do. *)
(* A session handles one packet at a time, but a gesture takes the lock of *)
(* the inventories, of the equipment or of the chests anew for every slot  *)
(* it touches, and the tick thread hands out pickups in between. So a      *)
(* gesture is a program: the lock-protected operations still to come.      *)
(* What the handler holds meanwhile is in its hand, a local variable; the  *)
(* cursor is the session's, and so are the cells of the crafting grids.    *)
(***************************************************************************)
EXTENDS Mining, Sequences, SequencesExt

CONSTANTS Players, Positions,
          StorageSlots, \* the 36 slots of the inventory
          Hotbar,       \* the first nine of them
          ArmorSlots,   \* the four slots of the armor
          HandCells,    \* the cells of the 2x2 grid that are clicked
          TableCells,   \* the cells of the 3x3 grid that are clicked
          ChestSlots,   \* the 27 slots of a chest
          GroundSize,   \* 4096 item entities
          ItemBound     \* how many items commands bring in, for TLC

ASSUME InventoryAssumption ==
    /\ StorageSlots \subseteq Nat /\ Hotbar \subseteq StorageSlots
    /\ IsFiniteSet(StorageSlots) /\ IsFiniteSet(ChestSlots)
    /\ ArmorSlots \subseteq 0 .. 3
    /\ HandCells \subseteq 0 .. 3 /\ TableCells \subseteq 0 .. 8
    /\ ChestSlots \subseteq Nat
    /\ GroundSize \in Nat \ {0} /\ ItemBound \in Nat

VARIABLES
    cells,    \* what each player has in storage, armor, off hand and grids
    cursor,   \* what the session carries on its cursor
    hand,     \* what the gesture under way carries
    program,  \* the operations it has still to do
    open,     \* the menu of each session, and its position
    chests,   \* the contents of the chests, where there is an entry
    furnaces, \* the contents of the furnaces
    blocks,   \* the block of each position
    edited,   \* the positions whose block is an edit
    ground,   \* the item entities, the oldest first
    picked,   \* what the tick thread took from the ground, and for whom
    owed,     \* history: how many items of each kind there should be
    scene     \* never changes: what the players of this behaviour do

containers == <<chests, furnaces, blocks, edited>>
items == <<cells, cursor, hand, containers, ground, picked, owed>>
vars == <<items, program, open, scene>>

Place(in, slot) == [in |-> in, slot |-> slot]
InStorage(i) == Place("storage", i)
OffHand == Place("offhand", 0)
PlayerSlots == {InStorage(i) : i \in StorageSlots} \union {OffHand}
               \union {Place("armor", i) : i \in ArmorSlots}
HandGrid == {Place("grid", c) : c \in HandCells}
TableGrid == {Place("table", c) : c \in TableCells}
Places == PlayerSlots \union HandGrid \union TableGrid

Storage(p) == [i \in StorageSlots |-> cells[p][InStorage(i)]]
WithStorage(p, storage) ==
    [cells EXCEPT ![p] = [pl \in Places |->
        IF pl.in = "storage" THEN storage[pl.slot] ELSE @[pl]]]
Grid(p, grid) ==
    [c \in IF grid = HandGrid THEN 0 .. 3 ELSE 0 .. 8 |->
        LET at == {pl \in grid : pl.slot = c}
        IN IF at = {} THEN "None" ELSE cells[p][CHOOSE pl \in at : TRUE].stack.kind]
\* The numbers of a set, from the least to the greatest.
InOrder(S) ==
    [i \in 1 .. Cardinality(S) |-> CHOOSE n \in S : Cardinality({m \in S : m < n}) = i - 1]
StorageOf(S) == [i \in 1 .. Cardinality(S) |-> InStorage(InOrder(S)[i])]
StorageInOrder == StorageOf(StorageSlots)

ChestPlace(i) == Place("chest", i)
ChestPlaces == {ChestPlace(i) : i \in ChestSlots}
FurnaceSlots == {"input", "fuel", "output"}
FurnacePlaces == {Place(in, 0) : in \in FurnaceSlots}
InFurnace(place) == place.in \in FurnaceSlots

Idle(p) == program[p] = <<>>
Closed == [menu |-> "none"]
At(menu, pos) == [menu |-> menu, at |-> pos]

\* What an array of the place keeps of a cell: only storage, chests and the
\* grids have levels, equipment and furnaces forget them.
Kept(place, cell) ==
    IF place.in \in {"armor", "offhand"} THEN Cell(cell.stack, 0) ELSE cell
Accepts(place, kind) ==
    CASE place.in = "armor" -> ArmorSlotAccepts(place.slot, kind)
      [] place.in = "input" -> kind \in Smeltable
      [] place.in = "fuel" -> FuelBurnTicks(kind) > 0
      [] place.in = "output" -> FALSE
      [] OTHER -> TRUE

\* What a chest holds, or is going to hold when it is first looked at.
NoChest == <<>>
EmptyFurnace == [input |-> NoStack, fuel |-> NoStack, output |-> NoStack,
                 burn |-> 0, cook |-> 0]
CONSTANTS Generated, \* the positions of generated chests
          Loot       \* what a generated chest holds
Unrolled(pos) == pos \in Generated \ edited /\ chests[pos] = NoChest
ChestAt(pos) == IF chests[pos] # NoChest THEN chests[pos]
                ELSE IF Unrolled(pos) THEN Loot ELSE [i \in ChestSlots |-> Empty]

\* A container answers only while its block stands.
Answers(p, place) ==
    CASE place.in = "chest" -> open[p].menu = "chest" /\ blocks[open[p].at] = "Chest"
      [] InFurnace(place) -> open[p].menu = "furnace" /\ blocks[open[p].at] = "Furnace"
      [] OTHER -> TRUE
Contents(p, place) ==
    CASE place.in = "chest" -> ChestAt(open[p].at)[place.slot]
      [] InFurnace(place) -> Cell(furnaces[open[p].at][place.in], 0)
      [] OTHER -> cells[p][place]
Write(p, place, cell) ==
    CASE place.in = "chest" ->
            /\ chests' = [chests EXCEPT ![open[p].at] =
                             [ChestAt(open[p].at) EXCEPT ![place.slot] = cell]]
            /\ UNCHANGED <<cells, furnaces>>
      [] InFurnace(place) ->
            /\ furnaces' = [furnaces EXCEPT ![open[p].at][place.in] = cell.stack]
            /\ UNCHANGED <<cells, chests>>
      [] OTHER ->
            /\ cells' = [cells EXCEPT ![p][place] = Kept(place, cell)]
            /\ UNCHANGED <<chests, furnaces>>
Clicked(p, place, carried, right) ==
    IF place.in \in {"grid", "table"} THEN ClickLocalSlot(Contents(p, place), carried, right)
    ELSE ClickStack(Contents(p, place), carried, right, Accepts(place, carried.stack.kind))

\* drop_item: the oldest entity makes room.
Dropped_Unlimited(stack) == Append(ground, stack) \* mutant: the limit is gone
Dropped(stack) ==
    Append(IF Len(ground) >= GroundSize THEN Tail(ground) ELSE ground, stack)
Owing(kind, n) == [k \in DOMAIN owed |-> IF k = kind THEN owed[k] + n ELSE owed[k]]
Exchanging(made, spent) ==
    [k \in DOMAIN owed |-> owed[k] + (IF made.kind = k THEN made.count ELSE 0)
                       - (IF k \in DOMAIN spent THEN spent[k] ELSE 0)]
-----------------------------------------------------------------------------
(* Packets that are one operation.                                         *)

Clickable(p) ==
    PlayerSlots \union HandGrid
    \union (IF open[p].menu = "table" THEN TableGrid ELSE {})
    \union (IF open[p].menu = "chest" THEN ChestPlaces ELSE {})
    \union (IF open[p].menu = "furnace" THEN FurnacePlaces ELSE {})

Click(p, place, right) ==
    /\ Idle(p)
    /\ Answers(p, place)
    /\ LET r == Clicked(p, place, cursor[p], right)
       IN /\ r # Untouched(Contents(p, place), cursor[p])
          /\ Write(p, place, r.slot)
          /\ cursor' = [cursor EXCEPT ![p] = r.cursor]
    /\ UNCHANGED <<hand, program, open, blocks, edited, ground, picked, owed>>

\* A click outside the window.
DropCursor(p, all) ==
    /\ Idle(p)
    /\ ~IsEmpty(cursor[p])
    /\ LET stack == cursor[p].stack
           n == IF all THEN stack.count ELSE 1
       IN /\ ground' = Dropped(Some(stack, n))
          /\ cursor' = [cursor EXCEPT ![p] = Minus(@, n)]
    /\ UNCHANGED <<cells, hand, program, open, containers, picked, owed>>

\* The output of a grid goes to the cursor where it fits.
Output(p, grid) ==
    IF grid = HandGrid THEN CraftingRecipe(Grid(p, grid)) ELSE CraftingTableRecipe(Grid(p, grid))
Fits(carried, output) ==
    \/ IsEmpty(carried)
    \/ /\ SameCell(carried, Cell(output, 0))
       /\ carried.stack.count <= MaxStackSize(output.kind) - output.count
Consumed(p, grid, recipe) ==
    [cells EXCEPT ![p] = [pl \in Places |->
        IF pl \in grid /\ pl.slot \in recipe.cells THEN Minus(@[pl], 1) ELSE @[pl]]]
Spent(p, grid, recipe) == Paid([c \in recipe.cells |-> Grid(p, grid)[c]])

Craft(p, grid) ==
    /\ Idle(p)
    /\ grid = TableGrid => open[p].menu = "table"
    /\ LET recipe == Output(p, grid)
           output == recipe.output
       IN /\ recipe # NoRecipe
          /\ Fits(cursor[p], output)
          /\ cursor' = [cursor EXCEPT ![p] = IF IsEmpty(@) THEN Cell(output, 0)
                                             ELSE More(@, output.count)]
          /\ cells' = Consumed(p, grid, recipe)
          /\ owed' = Exchanging(output, Spent(p, grid, recipe))
    /\ UNCHANGED <<hand, program, open, containers, ground, picked>>

\* The /craft commands work on the storage, under one lock.
CraftCommand(p, r) ==
    LET recipe == RecipeDefinition[r]
        kinds == DOMAIN recipe.needs
        afford == \A k \in kinds : Owned(Storage(p), k) >= recipe.needs[k]
    IN /\ Idle(p)
       /\ afford
       /\ Capacity(Storage(p), recipe.output) >= recipe.output.count
       /\ cells' = WithStorage(p, AddStack(TakeKinds(Storage(p), recipe.needs), recipe.output))
       /\ owed' = Exchanging(recipe.output, recipe.needs)
       /\ UNCHANGED <<cursor, hand, program, open, containers, ground, picked>>

\* enchant_selected_weapon: the slot selected is any of the hotbar.
Enchant(p, i) ==
    /\ Idle(p)
    /\ cells[p][InStorage(i)].stack.kind \in Weapons
    /\ cells[p][InStorage(i)].level = 0
    /\ cells' = [cells EXCEPT ![p][InStorage(i)].level = 1]
    /\ UNCHANGED <<cursor, hand, program, open, containers, ground, picked, owed>>

\* take_item: what goes may leave the slot empty, and then its level goes.
Without(p, i, n) == [cells EXCEPT ![p][InStorage(i)] = Minus(@, n)]

Eat(p, i) ==
    LET kind == cells[p][InStorage(i)].stack.kind
    IN /\ Idle(p)
       /\ kind \in Food
       /\ cells' = Without(p, i, 1)
       /\ owed' = Owing(kind, -1)
       /\ UNCHANGED <<cursor, hand, program, open, containers, ground, picked>>

\* fill_milk_bucket: one of several buckets needs an empty slot for its milk.
FillBucket(p, i) ==
    LET slot == InStorage(i)
        free == {j \in StorageSlots : IsEmpty(cells[p][InStorage(j)])}
        first == InStorage(CHOOSE j \in free : \A k \in free : j <= k)
        milk == Cell(Stack("MilkBucket", 1), 0)
    IN /\ Idle(p)
       /\ cells[p][slot].stack.kind = "Bucket"
       /\ IF cells[p][slot].stack.count = 1
          THEN cells' = [cells EXCEPT ![p][slot] = milk]
          ELSE /\ free # {}
               /\ cells' = [cells EXCEPT ![p][slot].stack.count = @ - 1, ![p][first] = milk]
       /\ owed' = Exchanging(milk.stack, [Bucket |-> 1])
       /\ UNCHANGED <<cursor, hand, program, open, containers, ground, picked>>

DrinkMilk(p, i) ==
    /\ Idle(p)
    /\ cells[p][InStorage(i)].stack.kind = "MilkBucket"
    /\ cells' = [cells EXCEPT ![p][InStorage(i)] = Cell(Stack("Bucket", 1), 0)]
    /\ owed' = Exchanging(Stack("Bucket", 1), [MilkBucket |-> 1])
    /\ UNCHANGED <<cursor, hand, program, open, containers, ground, picked>>

\* damage_item, after a hit, a block or a fire: the tool wears and breaks.
Worn(cell) ==
    IF cell.stack.kind \notin Wearing THEN cell
    ELSE IF cell.stack.damage + 1 >= MaxDamage THEN Empty
    ELSE [cell EXCEPT !.stack.damage = @ + 1]
Wear(p, i) ==
    /\ cells' = [cells EXCEPT ![p][InStorage(i)] = Worn(@)]
    /\ owed' = IF Worn(cells[p][InStorage(i)]) = Empty
               THEN Owing(cells[p][InStorage(i)].stack.kind, -cells[p][InStorage(i)].stack.count)
               ELSE owed
    /\ UNCHANGED <<cursor, hand, open, containers, ground, picked>>
Hit(p, i) ==
    /\ Idle(p)
    /\ cells[p][InStorage(i)].stack.kind \in Wearing
    /\ Wear(p, i)
    /\ UNCHANGED program
=============================================================================
