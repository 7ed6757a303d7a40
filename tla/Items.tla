------------------------------- MODULE Items --------------------------------
(***************************************************************************)
(* The items of a server: the gestures that take several steps, the chests *)
(* and furnaces that players share, their blocks, and the tick thread that *)
(* smelts, picks up and gives. Every step is what one thread does under    *)
(* one lock; the steps of the sessions and of the tick interleave freely.  *)
(***************************************************************************)
EXTENDS Inventories

CONSTANTS Starts,   \* the states of the items to begin with
          Gestures, \* the players who use their inventory and pick up; the
                    \* others come for the containers
          Miners,   \* the players who break blocks
          Gifts,    \* what the console gives
          Minable,  \* the positions they break
          Drags     \* the sequences of slots they drag over

Op(op) == [op |-> op]
Press(place, right) == [op |-> "press", place |-> place, right |-> right]
Offer(place, when, right) ==
    [op |-> "offer", place |-> place, when |-> when, right |-> right]
Offers(places, when, right) ==
    [i \in DOMAIN places |-> Offer(places[i], when, right)]
\* return_inventory_cursor: every slot of the storage in turn, then the ground.
Return_Kept == Offers(StorageInOrder, BOOLEAN, FALSE) \* mutant: the rest is not dropped
Return == Offers(StorageInOrder, BOOLEAN, FALSE) \o <<Op("drop rest")>>
Load(place) == [op |-> "load", place |-> place]
\* The cells of a grid are the session's own: the empty ones take no step, and
\* what is taken from the others is returned like the cursor (DoLoad).
Loads(p, in, S) ==
    LET order == InOrder({c \in S : ~IsEmpty(cells[p][Place(in, c)])})
    IN [i \in DOMAIN order |-> Load(Place(in, order[i]))]

Start(p, ops) ==
    /\ Idle(p)
    /\ program' = [program EXCEPT ![p] = ops]
\* The gestures that work on the session's cursor take it in hand.
FromCursor(p) ==
    /\ hand' = [hand EXCEPT ![p] = cursor[p]]
    /\ cursor' = [cursor EXCEPT ![p] = Empty]
NoItems == UNCHANGED <<cells, containers, ground, picked, owed>>
EmptyHanded(p) == IsEmpty(cursor[p]) /\ UNCHANGED <<cursor, hand>>

\* quick_move_slot, swap_player_slots, throw_from_slot, distribute_cursor and
\* collect_matching_storage.
QuickMove(p, source) ==
    /\ EmptyHanded(p)
    /\ Start(p, <<Press(source, FALSE), [op |-> "route", place |-> source]>>)
    /\ UNCHANGED open /\ NoItems

Allows(place, cell) == IsEmpty(cell) \/ Accepts(place, cell.stack.kind)
SwapSlots(p, source, target) ==
    /\ EmptyHanded(p)
    /\ source # target
    /\ Allows(source, cells[p][target]) /\ Allows(target, cells[p][source])
    /\ Start(p, <<Press(source, FALSE), Press(target, FALSE), Press(source, FALSE),
                  Op("discard")>>)
    /\ UNCHANGED open /\ NoItems

Throw(p, source, all) ==
    /\ EmptyHanded(p)
    /\ Start(p, <<Press(source, FALSE), [op |-> "toss", place |-> source, all |-> all]>>)
    /\ UNCHANGED open /\ NoItems

\* The slots dragged over are a hash set, in the order of its iteration.
Drag(p, places, oneEach) ==
    /\ ~IsEmpty(cursor[p])
    /\ FromCursor(p)
    /\ Start(p, Offers(places, BOOLEAN, TRUE)
                \o <<IF oneEach THEN Op("keep")
                     ELSE [op |-> "again", places |-> places, before |-> cursor[p]]>>)
    /\ UNCHANGED open /\ NoItems

Collect(p) ==
    /\ ~IsEmpty(cursor[p])
    /\ FromCursor(p)
    /\ Start(p, [i \in DOMAIN StorageInOrder |->
                    [op |-> "gather", place |-> StorageInOrder[i]]] \o <<Op("keep")>>)
    /\ UNCHANGED open /\ NoItems

\* Shift-clicks in a chest, in the crafting table and on its output.
ShiftChest(p, place) ==
    /\ open[p].menu = "chest" /\ Answers(p, place)
    /\ EmptyHanded(p)
    /\ \/ /\ place.in = "chest"
          /\ ~IsEmpty(Contents(p, place))
          /\ Capacity(Storage(p), Contents(p, place).stack) >= Contents(p, place).stack.count
          /\ Start(p, <<Press(place, FALSE)>> \o Return)
       \/ /\ place.in = "storage"
          /\ Start(p, <<Press(place, FALSE), [op |-> "fill", place |-> place]>>)
    /\ UNCHANGED open /\ NoItems

ShiftTable(p, place) ==
    /\ open[p].menu = "table" /\ place.in = "table"
    /\ ~IsEmpty(cells[p][place])
    /\ Capacity(Storage(p), cells[p][place].stack) >= cells[p][place].stack.count
    /\ Start(p, <<Load(place)>>)
    /\ UNCHANGED <<cursor, hand, open>> /\ NoItems

ShiftCraft(p) ==
    /\ open[p].menu = "table"
    /\ Start(p, <<Op("craft")>>)
    /\ UNCHANGED <<cursor, hand, open>> /\ NoItems

\* Closing a menu returns its cells and the cursor; so does leaving, for both
\* grids, and what follows is the next session of the player.
CloseMenu(p) ==
    /\ FromCursor(p)
    /\ Start(p, Return \o Loads(p, "table", IF open[p].menu = "table" THEN TableCells ELSE {}))
    /\ open' = [open EXCEPT ![p] = Closed]
    /\ NoItems
CloseInventory(p) ==
    /\ FromCursor(p)
    /\ Start(p, Return \o Loads(p, "grid", HandCells))
    /\ UNCHANGED open /\ NoItems
Leave(p) ==
    /\ FromCursor(p)
    /\ Start(p, Return \o Loads(p, "table", TableCells) \o Loads(p, "grid", HandCells))
    /\ open' = [open EXCEPT ![p] = Closed]
    /\ NoItems
\* Opening the table again returns what it held. A chest or a furnace that is
\* opened sets the grid of the table to None, with whatever is in it.
OpenTable(p) ==
    /\ FromCursor(p)
    /\ Start(p, IF open[p].menu = "table" THEN Return \o Loads(p, "table", TableCells)
                ELSE <<Op("keep")>>)
    /\ open' = [open EXCEPT ![p] = [menu |-> "table"]]
    /\ NoItems
OpenContainer(p, pos) ==
    /\ Idle(p)
    /\ blocks[pos] \in {"Chest", "Furnace"}
    /\ open' = [open EXCEPT ![p] = At(IF blocks[pos] = "Chest" THEN "chest" ELSE "furnace", pos)]
    /\ cells' = [cells EXCEPT ![p] =
                    [pl \in Places |-> IF pl.in = "table" THEN Empty ELSE @[pl]]]
    /\ chests' = IF blocks[pos] = "Chest" THEN [chests EXCEPT ![pos] = ChestAt(pos)] ELSE chests
    /\ UNCHANGED <<cursor, hand, program, furnaces, blocks, edited, ground, picked, owed>>
\* The poll of the session closes what is no longer there.
MenuGone(p) ==
    /\ Idle(p)
    /\ \/ open[p].menu = "chest" /\ blocks[open[p].at] # "Chest"
       \/ open[p].menu = "furnace" /\ blocks[open[p].at] # "Furnace"
    /\ open' = [open EXCEPT ![p] = Closed]
    /\ UNCHANGED <<cursor, hand, program>> /\ NoItems
-----------------------------------------------------------------------------
(* The operations of a program.                                            *)

Now(p, op) == program[p] # <<>> /\ Head(program[p]).op = op
Next1(p) == Head(program[p])
Then(p, ops) == program' = [program EXCEPT ![p] = ops \o Tail(@)]
Instead(p, ops) == program' = [program EXCEPT ![p] = ops]
Rest == UNCHANGED <<open, blocks, edited, picked>>

\* A click of the gesture; a container whose block is gone leaves the hand.
DoPress(p) ==
    LET place == Next1(p).place
        r == Clicked(p, place, hand[p], Next1(p).right)
    IN /\ Now(p, "press")
       /\ IF Answers(p, place)
          THEN Write(p, place, r.slot) /\ hand' = [hand EXCEPT ![p] = r.cursor]
          ELSE UNCHANGED <<cells, chests, furnaces, hand>>
       /\ Then(p, <<>>)
       /\ UNCHANGED <<cursor, ground, owed>> /\ Rest

\* slot_accepts_cursor: the slot is read first, and clicked under a new lock.
SlotAccepts(p, place, carried) ==
    /\ ~IsEmpty(carried)
    /\ Accepts(place, carried.stack.kind)
    /\ \/ IsEmpty(cells[p][place])
       \/ SameCell(cells[p][place], carried) /\ Space(cells[p][place].stack) > 0
DoOffer(p) ==
    LET o == Next1(p)
    IN /\ Now(p, "offer")
       /\ Then(p, IF IsEmpty(cells[p][o.place]) \in o.when /\ SlotAccepts(p, o.place, hand[p])
                  THEN <<Press(o.place, o.right)>> ELSE <<>>)
       /\ UNCHANGED <<cursor, hand, cells, chests, furnaces, ground, owed>> /\ Rest

\* Where a quick move goes: its armor slot, or the off hand for a shield, then
\* from the hotbar to the other slots and back, from equipment to both.
Equips(place, kind) ==
    IF place.in = "armor" THEN ArmorSlotAccepts(place.slot, kind)
    ELSE place = OffHand /\ kind = "Shield"
Targets(source, kind) ==
    LET equipment == SetToSeq({pl \in PlayerSlots : Equips(pl, kind)})
        hotbar == StorageOf(Hotbar)
        others == StorageOf(StorageSlots \ Hotbar)
    IN IF source.in # "storage" THEN others \o hotbar
       ELSE equipment \o (IF source.slot \in Hotbar THEN others ELSE hotbar)
DoRoute(p) ==
    LET targets == Targets(Next1(p).place, hand[p].stack.kind)
    IN /\ Now(p, "route")
       /\ IF IsEmpty(hand[p]) THEN Then(p, <<>>)
          ELSE Then(p, Offers(targets, {FALSE}, FALSE) \o Offers(targets, {TRUE}, FALSE)
                       \o <<[op |-> "restore", place |-> Next1(p).place]>>)
       /\ UNCHANGED <<cursor, hand, cells, chests, furnaces, ground, owed>> /\ Rest
DoRestore(p) ==
    /\ Now(p, "restore")
    /\ Then(p, (IF IsEmpty(hand[p]) THEN <<>> ELSE <<Press(Next1(p).place, FALSE)>>)
               \o <<Op("keep")>>)
    /\ UNCHANGED <<cursor, hand, cells, chests, furnaces, ground, owed>> /\ Rest

\* The hand becomes the cursor, or is forgotten.
DoKeep(p) ==
    /\ Now(p, "keep")
    /\ cursor' = [cursor EXCEPT ![p] = hand[p]]
    /\ hand' = [hand EXCEPT ![p] = Empty]
    /\ Then(p, <<>>)
    /\ UNCHANGED <<cells, chests, furnaces, ground, owed>> /\ Rest
DoDiscard(p) ==
    /\ Now(p, "discard")
    /\ hand' = [hand EXCEPT ![p] = Empty]
    /\ Then(p, <<>>)
    /\ UNCHANGED <<cursor, cells, chests, furnaces, ground, owed>> /\ Rest

DoToss(p) ==
    LET stack == hand[p].stack
        n == IF Next1(p).all THEN stack.count ELSE 1
    IN /\ Now(p, "toss")
       /\ IF IsEmpty(hand[p]) THEN Then(p, <<>>) /\ UNCHANGED <<hand, ground>>
          ELSE /\ ground' = Dropped(Some(stack, n))
               /\ hand' = [hand EXCEPT ![p] = Minus(@, n)]
               /\ Then(p, <<[op |-> "restore", place |-> Next1(p).place]>>)
       /\ UNCHANGED <<cursor, cells, chests, furnaces, owed>> /\ Rest
DoDropRest(p) ==
    /\ Now(p, "drop rest")
    /\ ground' = IF IsEmpty(hand[p]) THEN ground ELSE Dropped(hand[p].stack)
    /\ hand' = [hand EXCEPT ![p] = Empty]
    /\ Then(p, <<>>)
    /\ UNCHANGED <<cursor, cells, chests, furnaces, owed>> /\ Rest

\* A left drag goes round until a round places nothing.
DoAgain(p) ==
    LET a == Next1(p)
    IN /\ Now(p, "again")
       /\ Then(p, IF IsEmpty(hand[p]) \/ hand[p] = a.before THEN <<Op("keep")>>
                  ELSE Offers(a.places, BOOLEAN, TRUE)
                       \o <<[op |-> "again", places |-> a.places, before |-> hand[p]]>>)
       /\ UNCHANGED <<cursor, hand, cells, chests, furnaces, ground, owed>> /\ Rest

\* collect_matching_storage reads a slot and takes from it under a new lock;
\* only this session takes from its storage, so that the two are one step.
DoGather(p) ==
    LET slot == Next1(p).place
        n == Least(cells[p][slot].stack.count, Space(hand[p].stack))
        matches == SameCell(cells[p][slot], hand[p]) /\ Space(hand[p].stack) > 0
    IN /\ Now(p, "gather")
       /\ IF matches
          THEN /\ cells' = Without(p, slot.slot, n)
               /\ hand' = [hand EXCEPT ![p] = More(@, n)]
          ELSE UNCHANGED <<cells, hand>>
       /\ Then(p, <<>>)
       /\ UNCHANGED <<cursor, chests, furnaces, ground, owed>> /\ Rest

\* A shift-click of storage into a chest clicks the chest's slots in order,
\* which swaps where the kinds differ, until nothing is left to place.
Pours == [i \in 1 .. Cardinality(ChestSlots) |->
             [op |-> "pour", place |-> ChestPlace(InOrder(ChestSlots)[i])]]
DoFill(p) ==
    /\ Now(p, "fill")
    /\ Then(p, IF IsEmpty(hand[p]) THEN <<>>
               ELSE Pours \o <<[op |-> "settle", place |-> Next1(p).place, before |-> hand[p]]>>)
    /\ UNCHANGED <<cursor, hand, cells, chests, furnaces, ground, owed>> /\ Rest
DoPour(p) ==
    LET place == Next1(p).place
        r == ClickStack(Contents(p, place), hand[p], FALSE, TRUE)
    IN /\ Now(p, "pour")
       /\ IF ~IsEmpty(hand[p]) /\ Answers(p, place)
          THEN Write(p, place, r.slot) /\ hand' = [hand EXCEPT ![p] = r.cursor]
          ELSE UNCHANGED <<cells, chests, furnaces, hand>>
       /\ Then(p, <<>>)
       /\ UNCHANGED <<cursor, ground, owed>> /\ Rest
DoSettle(p) ==
    LET s == Next1(p)
    IN /\ Now(p, "settle")
       /\ Then(p, IF IsEmpty(hand[p]) THEN <<>>
                  ELSE <<Press(s.place, FALSE)>>
                       \o (IF hand[p] = s.before THEN <<Op("discard")>> ELSE Return))
       /\ UNCHANGED <<cursor, hand, cells, chests, furnaces, ground, owed>> /\ Rest

DoLoad(p) ==
    LET place == Next1(p).place
    IN /\ Now(p, "load")
       /\ hand' = [hand EXCEPT ![p] = cells[p][place]]
       /\ cells' = [cells EXCEPT ![p][place] = Empty]
       /\ Then(p, Return)
       /\ UNCHANGED <<cursor, chests, furnaces, ground, owed>> /\ Rest

\* shift_craft_from_table looks for room under one lock and gives the output
\* under another, which may give less of it.
DoCraft(p) ==
    LET recipe == CraftingTableRecipe(Grid(p, TableGrid))
    IN /\ Now(p, "craft")
       /\ Then(p, IF recipe # NoRecipe
                     /\ Capacity(Storage(p), recipe.output) >= recipe.output.count
                  THEN <<Op("give"), Op("craft")>> ELSE <<>>)
       /\ UNCHANGED <<cursor, hand, cells, chests, furnaces, ground, owed>> /\ Rest
DoGive(p) ==
    LET recipe == CraftingTableRecipe(Grid(p, TableGrid))
        given == AddStack(Storage(p), recipe.output)
        consumed == Consumed(p, TableGrid, recipe)
    IN /\ Now(p, "give")
       /\ IF given = Storage(p)
          THEN Instead(p, <<>>) /\ UNCHANGED <<cells, owed>>
          ELSE /\ Then(p, <<>>)
               /\ cells' = [consumed EXCEPT ![p] = [pl \in Places |->
                               IF pl.in = "storage" THEN given[pl.slot] ELSE @[pl]]]
               /\ owed' = Exchanging(recipe.output, Spent(p, TableGrid, recipe))
       /\ UNCHANGED <<cursor, hand, chests, furnaces, ground>> /\ Rest

-----------------------------------------------------------------------------
(* Blocks that hold items.                                                 *)

AllDropped(stacks) ==
    LET all == ground \o stacks
    IN IF Len(all) <= GroundSize THEN all
       ELSE SubSeq(all, Len(all) - GroundSize + 1, Len(all))

\* FINISH reads the block and what the player holds, and acts on what it read.
Mine(p, pos, i) ==
    /\ Idle(p)
    /\ blocks[pos] \notin {"Air", "Bedrock"}
    /\ LET tool == cells[p][InStorage(i)].stack.kind
       IN \E drop \in Drops(blocks[pos], tool) :
              program' = [program EXCEPT ![p] =
                  <<[op |-> "empty", at |-> pos, kind |-> blocks[pos]],
                    [op |-> "air", at |-> pos],
                    [op |-> "block drop", drop |-> drop]>>
                  \o (IF IsTool(tool) THEN <<[op |-> "wear", slot |-> i]>> ELSE <<>>)]
    /\ UNCHANGED <<cursor, hand, open>> /\ NoItems
\* take_chest_contents or take_furnace_contents, under their lock, whatever
\* stands there by now; each stack is dropped under a lock of its own, which
\* nobody tells from dropping all at once.
HeldIn(pos, kind) ==
    IF kind = "Chest" THEN [i \in ChestSlots |-> ChestAt(pos)[i].stack]
    ELSE IF kind = "Furnace" THEN [i \in FurnaceSlots |-> furnaces[pos][i]]
    ELSE <<>>
Contained(pos, kind) ==
    LET held == HeldIn(pos, kind)
        filled == SetToSeq({i \in DOMAIN held : held[i] # NoStack})
    IN [n \in DOMAIN filled |-> held[filled[n]]]
DoEmpty_Copying(p) == \* mutant: the contents are dropped and stay
    /\ Now(p, "empty")
    /\ ground' = AllDropped(Contained(Next1(p).at, Next1(p).kind))
    /\ Then(p, <<>>)
    /\ UNCHANGED <<cursor, hand, cells, chests, furnaces, owed>> /\ Rest
DoEmpty(p) ==
    LET e == Next1(p)
    IN /\ Now(p, "empty")
       /\ ground' = AllDropped(Contained(e.at, e.kind))
       /\ chests' = IF e.kind = "Chest" THEN [chests EXCEPT ![e.at] = NoChest] ELSE chests
       /\ furnaces' = IF e.kind = "Furnace" THEN [furnaces EXCEPT ![e.at] = EmptyFurnace]
                      ELSE furnaces
       /\ Then(p, <<>>)
       /\ UNCHANGED <<cursor, hand, cells, owed>> /\ Rest
SetBlock(pos, kind) ==
    /\ blocks' = [blocks EXCEPT ![pos] = kind]
    /\ edited' = edited \union {pos}
DoAir(p) ==
    /\ Now(p, "air")
    /\ SetBlock(Next1(p).at, "Air")
    /\ Then(p, <<>>)
    /\ UNCHANGED <<cursor, hand, cells, chests, furnaces, ground, owed, open, picked>>
DoBlockDrop(p) ==
    /\ Now(p, "block drop")
    /\ LET drop == Next1(p).drop
       IN ground' = IF drop = NoStack THEN ground ELSE Dropped(drop)
    /\ Then(p, <<>>)
    /\ UNCHANGED <<cursor, hand, cells, chests, furnaces, owed>> /\ Rest
DoWear(p) ==
    /\ Now(p, "wear")
    /\ Wear(p, Next1(p).slot)
    /\ Then(p, <<>>)

\* The block is set, and only where that changed something is the item taken.
PlaceBlock(p, pos, i) ==
    /\ Idle(p)
    /\ blocks[pos] = "Air"
    /\ cells[p][InStorage(i)].stack.kind \in {"Chest", "Furnace"}
    /\ program' = [program EXCEPT ![p] =
           <<[op |-> "block", at |-> pos, kind |-> cells[p][InStorage(i)].stack.kind, slot |-> i]>>]
    /\ UNCHANGED <<cursor, hand, open>> /\ NoItems
DoBlock(p) ==
    LET b == Next1(p)
    IN /\ Now(p, "block")
       /\ IF blocks[b.at] = b.kind THEN UNCHANGED <<blocks, edited>> /\ Then(p, <<>>)
          ELSE SetBlock(b.at, b.kind) /\ Then(p, <<[op |-> "take", slot |-> b.slot, kind |-> b.kind]>>)
       /\ UNCHANGED <<cursor, hand, cells, chests, furnaces, ground, owed, open, picked>>
DoTake(p) ==
    /\ Now(p, "take")
    /\ cells' = IF IsEmpty(cells[p][InStorage(Next1(p).slot)]) THEN cells
                ELSE Without(p, Next1(p).slot, 1)
    /\ Then(p, <<>>)
    /\ UNCHANGED <<cursor, hand, chests, furnaces, ground, owed>> /\ Rest
-----------------------------------------------------------------------------
(* The tick thread and the console.                                        *)

TakeOne(stack) == Some(stack, stack.count - 1)
CanAccept(slot, kind) ==
    slot = NoStack \/ (slot.kind = kind /\ slot.damage = 0 /\ slot.count < FullStack)
CanSmelt(f) == f.input.kind \in Smeltable /\ CanAccept(f.output, SmeltingResult(f.input.kind))
Lights(f) == f.burn = 0 /\ CanSmelt(f) /\ FuelBurnTicks(f.fuel.kind) > 0
Lit(f) == IF Lights(f) THEN [f EXCEPT !.fuel = TakeOne(@), !.burn = FuelBurnTicks(f.fuel.kind)]
          ELSE f
\* A recipe takes two units of ticks.
Done(f) == CanSmelt(f) /\ Lit(f).burn > 0 /\ f.cook + 1 >= 2 * SmeltTicks
Ticked(f) ==
    LET lit == Lit(f)
        burning == lit.burn > 0
        burnt == [lit EXCEPT !.burn = IF burning THEN @ - 1 ELSE 0]
        made == SmeltingResult(f.input.kind)
    IN IF ~CanSmelt(f) THEN [burnt EXCEPT !.cook = 0]
       ELSE IF ~burning THEN burnt
       ELSE IF Done(f) THEN [burnt EXCEPT !.cook = 0, !.input = TakeOne(@),
                                !.output = Stack(made, f.output.count + 1)]
       ELSE [burnt EXCEPT !.cook = @ + 1]
\* A furnace that smelts spends its input, and one that lights its fuel.
Smelting(f, k) ==
    (IF Done(f) /\ SmeltingResult(f.input.kind) = k THEN 1 ELSE 0)
    - (IF Done(f) /\ f.input.kind = k THEN 1 ELSE 0)
    - (IF Lights(f) /\ f.fuel.kind = k THEN 1 ELSE 0)
TickFurnaces ==
    /\ furnaces' = [pos \in Positions |-> Ticked(furnaces[pos])]
    /\ furnaces' # furnaces
    /\ LET smelting(k) ==
               LET of(pos) == Smelting(furnaces[pos], k) IN MapThenSumSet(of, Positions)
       IN owed' = [k \in DOMAIN owed |-> owed[k] + smelting(k)]
    /\ UNCHANGED <<cells, cursor, hand, program, open, chests, blocks, edited, ground, picked>>

\* collect_pickups takes what is near a player from the world, all at once,
\* and give_item hands it out after, a stack at a time.
Collected(near) == InOrder(DOMAIN near)
CollectPickups(near) ==
    /\ picked = <<>>
    /\ DOMAIN near # {}
    /\ picked' = [n \in 1 .. Cardinality(DOMAIN near) |->
           [player |-> near[Collected(near)[n]], stack |-> ground[Collected(near)[n]]]]
    /\ ground' = LET left == InOrder(DOMAIN ground \ DOMAIN near)
                 IN [n \in DOMAIN left |-> ground[left[n]]]
    /\ UNCHANGED <<cells, cursor, hand, program, open, containers, owed>>
\* give_item makes the stack anew, without its damage, and answers true when
\* it placed any of it; only what it placed nothing of is dropped again.
GivePickup ==
    LET p == Head(picked).player
        stack == Head(picked).stack
        given == AddStack(Storage(p), Stack(stack.kind, stack.count))
    IN /\ picked # <<>>
       /\ cells' = WithStorage(p, given)
       /\ ground' = IF given = Storage(p) THEN Dropped(stack) ELSE ground
       /\ picked' = Tail(picked)
       /\ UNCHANGED <<cursor, hand, program, open, containers, owed>>
Despawn ==
    /\ ground # <<>>
    /\ ground' = Tail(ground)
    /\ owed' = Owing(Head(ground).kind, -Head(ground).count)
    /\ UNCHANGED <<cells, cursor, hand, program, open, containers, picked>>

\* The console gives what fits; equip_shield and equip_iron set equipment,
\* whatever was there.
Owed1(k) == owed[k]
Room(n) == MapThenSumSet(Owed1, DOMAIN owed) + n <= ItemBound
GiveCommand(p, kind, n) ==
    LET given == AddStack(Storage(p), Stack(kind, n))
        placed == Least(n, Capacity(Storage(p), Stack(kind, n)))
    IN /\ Room(n) /\ kind \in DOMAIN owed
       /\ placed > 0
       /\ cells' = WithStorage(p, given)
       /\ owed' = Owing(kind, placed)
       /\ UNCHANGED <<cursor, hand, program, open, containers, ground, picked>>
IronArmor == [slot \in 0 .. 3 |-> CASE slot = 0 -> "IronBoots" [] slot = 1 -> "IronLeggings"
                                    [] slot = 2 -> "IronChestplate" [] slot = 3 -> "IronHelmet"]
Equip(p, worn) ==
    /\ Idle(p)
    /\ \E place \in DOMAIN worn : cells[p][place] # worn[place]
    /\ \A place \in DOMAIN worn : worn[place].stack.kind \in DOMAIN owed
    /\ Room(Cardinality(DOMAIN worn))
    /\ cells' = [cells EXCEPT ![p] = [pl \in Places |->
                    IF pl \in DOMAIN worn THEN worn[pl] ELSE @[pl]]]
    /\ owed' = LET worn1(k) == Cardinality({place \in DOMAIN worn : worn[place].stack.kind = k})
               IN [k \in DOMAIN owed |-> owed[k] + worn1(k)]
    /\ UNCHANGED <<cursor, hand, program, open, containers, ground, picked>>
EquipShield(p) == Equip(p, [place \in {OffHand} |-> Cell(Stack("Shield", 1), 0)])
EquipIron(p) ==
    Equip(p, [place \in {Place("armor", i) : i \in ArmorSlots} |->
                 Cell(Stack(IronArmor[place.slot], 1), 0)])
-----------------------------------------------------------------------------
(* Fights.                                                                 *)

\* damage_player_combat: whatever strikes a player wears all the armor.
WornOut(cell) == IF IsEmpty(cell) THEN cell
                 ELSE IF cell.stack.damage + 1 >= MaxDamage THEN Empty
                 ELSE [cell EXCEPT !.stack.damage = @ + 1]
Struck(p) ==
    LET armor == {place \in Places : place.in = "armor" /\ ~IsEmpty(cells[p][place])}
        broken(k) == Cardinality({place \in armor : cells[p][place].stack.kind = k
                                                    /\ IsEmpty(WornOut(cells[p][place]))})
    IN /\ armor # {}
       /\ cells' = [cells EXCEPT ![p] = [pl \in Places |->
                        IF pl \in armor THEN WornOut(@[pl]) ELSE @[pl]]]
       /\ owed' = [k \in DOMAIN owed |-> owed[k] - broken(k)]
       /\ UNCHANGED <<cursor, hand, program, open, containers, ground, picked>>
\* attack_player sees a shield in the off hand of its target, and then wears
\* what is there.
AttackPlayer(p, q) ==
    /\ p # q /\ Idle(p)
    /\ cells[q][OffHand].stack.kind = "Shield"
    /\ program' = [program EXCEPT ![p] = <<[op |-> "turn aside", target |-> q]>>]
    /\ UNCHANGED <<cursor, hand, open>> /\ NoItems
DoTurnAside(p) ==
    LET q == Next1(p).target
        held == cells[q][OffHand]
    IN /\ Now(p, "turn aside")
       /\ cells' = [cells EXCEPT ![q][OffHand] = WornOut(@)]
       /\ owed' = IF held.stack.kind = "Shield" /\ IsEmpty(WornOut(held))
                  THEN Owing("Shield", -1) ELSE owed
       /\ Then(p, <<>>)
       /\ UNCHANGED <<cursor, hand, chests, furnaces, ground>> /\ Rest
-----------------------------------------------------------------------------
Do(p) ==
    \/ DoPress(p) \/ DoOffer(p) \/ DoRoute(p) \/ DoRestore(p) \/ DoKeep(p) \/ DoDiscard(p)
    \/ DoToss(p) \/ DoDropRest(p) \/ DoAgain(p) \/ DoGather(p) \/ DoFill(p) \/ DoPour(p)
    \/ DoSettle(p) \/ DoLoad(p) \/ DoCraft(p) \/ DoGive(p) \/ DoEmpty(p) \/ DoAir(p)
    \/ DoBlockDrop(p) \/ DoWear(p) \/ DoBlock(p) \/ DoTake(p) \/ DoTurnAside(p)

\* The packets of a player, by what they are about.
Clicks(p) == \E place \in Clickable(p), right \in BOOLEAN : Click(p, place, right)
OnScreen(p) ==
    \/ \E all \in BOOLEAN : DropCursor(p, all)
    \/ \E places \in Drags, oneEach \in BOOLEAN : Drag(p, places, oneEach)
    \/ Collect(p) \/ CloseInventory(p) \/ Leave(p)
Crafts(p) ==
    \/ \E grid \in {HandGrid, TableGrid} : Craft(p, grid)
    \/ \E r \in Recipes : CraftCommand(p, r)
    \/ \E place \in Clickable(p) : ShiftTable(p, place)
    \/ ShiftCraft(p) \/ OpenTable(p) \/ CloseMenu(p)
Moves(p) ==
    \/ \E place \in PlayerSlots : QuickMove(p, place)
    \/ \E place \in PlayerSlots, target \in {InStorage(i) : i \in Hotbar} \union {OffHand} :
           SwapSlots(p, place, target)
    \/ \E place \in PlayerSlots, all \in BOOLEAN : Throw(p, place, all)
Uses(p) ==
    \E i \in Hotbar : Enchant(p, i) \/ Eat(p, i) \/ FillBucket(p, i) \/ DrinkMilk(p, i)
                          \/ Hit(p, i)
Builds(p) == \E pos \in Positions, i \in Hotbar : PlaceBlock(p, pos, i)
Visits(p) ==
    \/ \E place \in Clickable(p) :
           (place.in = "chest" \/ InFurnace(place)) /\ Click(p, place, FALSE)
    \/ \E place \in Clickable(p) : ShiftChest(p, place)
    \/ \E pos \in Positions : OpenContainer(p, pos)
    \/ CloseMenu(p) \/ MenuGone(p)
    \/ p \in Miners /\ \E pos \in Minable, i \in Hotbar : Mine(p, pos, i)
Packet(p) ==
    \/ "click" \in scene /\ Clicks(p)
    \/ "screen" \in scene /\ OnScreen(p)
    \/ "craft" \in scene /\ Crafts(p)
    \/ "move" \in scene /\ Moves(p)
    \/ "use" \in scene /\ Uses(p)

\* What is picked up at once is near one of the players.
Nearby == UNION {[near -> Gestures] : near \in SUBSET DOMAIN ground}
Tick ==
    \/ TickFurnaces \/ GivePickup \/ Despawn
    \/ \E near \in Nearby : CollectPickups(near)
Console ==
    "console" \in scene /\ \E p \in Gestures :
        \/ \E g \in Gifts : GiveCommand(p, g[1], g[2])
        \/ EquipShield(p) \/ EquipIron(p)
Fights ==
    \/ "struck" \in scene /\ \E p \in Gestures : Struck(p)
    \/ "attack" \in scene /\ \E p \in Players, q \in Gestures : AttackPlayer(p, q)

\* The units in play of some kinds. Between the air and the drop of a mined
\* block the block is on its way; a block that is placed is still in its slot
\* until it is taken from there.
Units(stacks, kinds) ==
    Cardinality({u \in (DOMAIN stacks) \X (1 .. FullStack) :
                    u[2] <= stacks[u[1]].count /\ stacks[u[1]].kind \in kinds})
Carried(p) == [place \in Places |-> cells[p][place].stack]
OnTheWay(p) == IF Now(p, "block drop") THEN Next1(p).drop ELSE NoStack
InPlay(kinds) ==
    LET with(p) == Units(Carried(p), kinds)
        inside(pos) == Units(HeldIn(pos, blocks[pos]), kinds)
    IN MapThenSumSet(with, Players) + MapThenSumSet(inside, Positions)
       + Units([p \in Players |-> cursor[p].stack], kinds)
       + Units([p \in Players |-> hand[p].stack], kinds)
       + Units(ground, kinds) + Units([n \in DOMAIN picked |-> picked[n].stack], kinds)
       + Cardinality({pos \in Positions : blocks[pos] \in kinds})
       + Units([p \in Players |-> OnTheWay(p)], kinds)
       - Cardinality({p \in Players : Now(p, "take") /\ Next1(p).kind \in kinds})

-----------------------------------------------------------------------------
(* What the items are to begin with.                                       *)

StackType == [kind : Kinds \union {"None"}, damage : 0 .. MaxDamage - 1, count : Nat]
CellType == [stack : StackType, level : 0 .. 1]
ChestType(C) == [ChestSlots -> C] \union {NoChest}
FurnaceType(S) == [input : S, fuel : S, output : S, burn : Nat, cook : Nat]
\* What a player can come by: a stack as large as its kind allows, worn only if
\* its kind is of F, and a level only on a weapon; no armor on the wrong slot.
Wears(does) ==
    IF "attack" \in does THEN Kinds ELSE Wearing \union Armor \union {"Shield"}
SoundStacks(F) ==
    {NoStack} \union {s \in StackType : /\ s.kind # "None"
                                        /\ s.count \in 1 .. MaxStackSize(s.kind)
                                        /\ s.damage > 0 => s.kind \in F}
SoundCells(F) ==
    {c \in [stack : SoundStacks(F), level : 0 .. 1] : c.level > 0 => c.stack.kind \in Weapons}
SoundInventories(F) ==
    {held \in [Places -> SoundCells(F)] :
        \A place \in Places :
            place.in = "armor" => held[place].stack.kind \in Armor \union {"None"}}

ASSUME ItemsAssumption ==
    /\ Gestures \subseteq Players /\ Minable \subseteq Positions
    /\ Drags \subseteq Seq(PlayerSlots)
    /\ Gifts \subseteq Kinds \X (Nat \ {0})
    /\ Loot \in [ChestSlots -> SoundCells({})]
    /\ \A s \in Starts :
           LET F == Wears(s.scene)
           IN /\ s.cells \in [Players -> SoundInventories(F)]
              /\ s.chests \in [Positions -> ChestType(SoundCells(F))]
              /\ s.furnaces \in [Positions -> FurnaceType(SoundStacks(F))]
              /\ s.ground \in Seq(SoundStacks(F) \ {NoStack}) /\ Len(s.ground) <= GroundSize
              /\ s.blocks \in [Positions -> Blocks]
Nobody(x) == [p \in Players |-> x]
Init ==
    \E s \in Starts :
        /\ cells = s.cells /\ blocks = s.blocks /\ furnaces = s.furnaces /\ chests = s.chests
        /\ ground = s.ground /\ scene = s.scene
        /\ cursor = Nobody(Empty) /\ hand = Nobody(Empty)
        /\ program = Nobody(<<>>) /\ open = Nobody(Closed)
        /\ edited = {} /\ picked = <<>>
        /\ owed = [k \in s.kinds |-> InPlay({k})]
\* A step that only touches what the session keeps to itself commutes with the
\* steps of everyone else: it is taken at once.
Private(p) ==
    program[p] # <<>>
    /\ Next1(p).op \in {"route", "restore", "keep", "discard", "again", "fill", "settle"}
Free == \A p \in Players : ~Private(p)
Next ==
    \/ \E p \in Players : (Private(p) \/ Free) /\ Do(p) /\ UNCHANGED scene
    \/ \E p \in Gestures : Free /\ Packet(p) /\ UNCHANGED scene
    \/ \E p \in Players : /\ Free /\ "block" \in scene
                          /\ Builds(p) \/ Visits(p)
                          /\ UNCHANGED scene
    \/ Free /\ Tick /\ UNCHANGED scene
    \/ Free /\ Console /\ UNCHANGED scene
    \/ Free /\ Fights /\ UNCHANGED scene
Spec == Init /\ [][Next]_vars
-----------------------------------------------------------------------------
\* The operations a program is made of.
Ops ==
    [op : {"drop rest", "keep", "discard", "craft", "give"}]
    \union [op : {"press"}, place : PlayerSlots \union ChestPlaces, right : BOOLEAN]
    \union [op : {"offer"}, place : PlayerSlots, when : SUBSET BOOLEAN, right : BOOLEAN]
    \union [op : {"route", "restore"}, place : PlayerSlots]
    \union [op : {"toss"}, place : PlayerSlots, all : BOOLEAN]
    \union [op : {"again"}, places : Seq(PlayerSlots), before : CellType]
    \union [op : {"gather", "fill"}, place : {InStorage(i) : i \in StorageSlots}]
    \union [op : {"settle"}, place : {InStorage(i) : i \in StorageSlots}, before : CellType]
    \union [op : {"pour"}, place : ChestPlaces]
    \union [op : {"load"}, place : HandGrid \union TableGrid]
    \union [op : {"empty"}, at : Positions, kind : Blocks]
    \union [op : {"air"}, at : Positions]
    \union [op : {"block drop"}, drop : SoundStacks({})]
    \union [op : {"wear"}, slot : StorageSlots]
    \union [op : {"block"}, at : Positions, kind : {"Chest", "Furnace"}, slot : StorageSlots]
    \union [op : {"take"}, slot : StorageSlots, kind : {"Chest", "Furnace"}]
    \union [op : {"turn aside"}, target : {q \in Players : "attack" \in scene}]
Menus == {Closed, [menu |-> "table"]} \union [menu : {"chest", "furnace"}, at : Positions]
\* What the slots hold is an inventory of I, a cell of C or a stack of S.
Holding(I, C, S) ==
    /\ cells \in [Players -> I]
    /\ cursor \in [Players -> C] /\ hand \in [Players -> C]
    /\ chests \in [Positions -> ChestType(C)]
    /\ furnaces \in [Positions -> FurnaceType(S)]
    /\ ground \in Seq(S \ {NoStack})
    /\ picked \in Seq([player : Players, stack : S \ {NoStack}])
Controls ==
    /\ program \in [Players -> Seq(Ops)]
    /\ open \in [Players -> Menus]
    /\ blocks \in [Positions -> Blocks]
    /\ Len(ground) <= GroundSize
TypeOK == Holding([Places -> CellType], CellType, StackType) /\ Controls

AllCells ==
    (UNION {{cells[p][place] : place \in Places} \union {cursor[p], hand[p]} : p \in Players})
    \union {ChestAt(pos)[i] : pos \in Positions, i \in ChestSlots}
AllStacks ==
    {c.stack : c \in AllCells}
    \union {furnaces[pos][i] : pos \in Positions, i \in FurnaceSlots}
    \union Range(ground) \union {picked[n].stack : n \in DOMAIN picked}

\* Whatever the slots, the grids and the hands went through, no stack is larger
\* than its kind allows, only what wears is worn and none to the end, and only a
\* sword or an axe is sharp: no swap, half taken or emptied slot leaves the
\* damage or the level of one item to another (click_stack, take_item,
\* damage_item, consume_crafting_recipe). Attacks are the exception: they wear
\* what took the place of the shield that they saw.
QualitiesFit ==
    /\ \A s \in AllStacks \ {NoStack} :
           /\ s.count \in 1 .. MaxStackSize(s.kind)
           /\ s.damage > 0 => s.kind \in Wears(scene)
    /\ \A c \in AllCells : c.level > 0 => c.stack.kind \in Weapons

\* Why: the cells, the stacks and the slots of armor are sound, and so are the
\* operations still to come.
QualityInvariant ==
    LET F == Wears(scene)
    IN Holding(SoundInventories(F), SoundCells(F), SoundStacks(F)) /\ Controls

\* No interleaving of two players' gestures, the tick thread and the console
\* makes an item out of nothing: of each kind there is never more than there
\* was at first, plus what recipes, furnaces and commands made, less what they
\* and the players used up. Blocks that hold items count with what they hold.
NothingFromNothing ==
    /\ \A s \in AllStacks \ {NoStack} : s.kind \in DOMAIN owed
    /\ \A k \in DOMAIN owed : InPlay({k}) <= owed[k]

\* The pure tables agree with each other (RecipesAgree, BetterToolsDoBetter,
\* ToolsProgress): formulas without variables, which one scene is for, where
\* nobody does anything.
CraftingAgrees == "tables" \in scene => RecipesAgree
MiningAgrees == "tables" \in scene => BetterToolsDoBetter /\ ToolsProgress

Missing == MapThenSumSet(Owed1, DOMAIN owed) - InPlay(DOMAIN owed)
\* The places where the code does lose items: a pickup of which only a part
\* fits; an output that no longer fits; a grid of the table that is open when a
\* container is opened; a hand that is forgotten after another thread filled
\* the slot it was to go to; a container whose block is replaced, or was
\* clicked after it was emptied; the oldest item where the ground is full;
\* equipment that a command replaces; and what takes the place of a shield.
PartlyPicked == picked # <<>> /\ picked' = Tail(picked)
PartlyCrafted(p) == Now(p, "give")
GridForgotten(p) == open[p].menu = "table" /\ open'[p].menu \in {"chest", "furnace"}
HandForgotten(p) == Now(p, "discard") /\ ~IsEmpty(hand[p])
BlockReplaced(p) == \E pos \in Positions : blocks'[pos] # blocks[pos] /\ blocks[pos] # "Air"
EquipmentReplaced(p) == \E place \in PlayerSlots :
    place.in # "storage" /\ cells[p][place] \notin {Empty, cells'[p][place]}
OldestDropped ==
    /\ Len(ground') = GroundSize
    /\ Len(ground) = GroundSize \/ \E p \in Players : Now(p, "empty")
WrongItemWorn(p) == Now(p, "turn aside") /\ cells[Next1(p).target][OffHand].stack.kind # "Shield"
NamedLoss ==
    \/ PartlyPicked \/ OldestDropped
    \/ \E p \in Players : PartlyCrafted(p) \/ GridForgotten(p) \/ HandForgotten(p)
                             \/ BlockReplaced(p) \/ EquipmentReplaced(p)
                             \/ WrongItemWorn(p)

\* An item is lost only where NamedLoss says: every other step of every
\* gesture keeps each item somewhere, though the gesture holds it in a local
\* variable between two locks and any other thread may run there.
LossesAreNamed == [][NamedLoss \/ Missing' <= Missing]_items
=============================================================================
