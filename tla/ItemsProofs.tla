----------------------------- MODULE ItemsProofs -----------------------------
(***************************************************************************)
(* QualityInvariant is inductive for any players, slots, chests, furnaces  *)
(* and gestures, and however their programs, the tick thread, the console  *)
(* and fights interleave. From the bottom up: what is done with a stack, a *)
(* cell and an array of them; what recipes and furnaces make; what a click *)
(* does to the state; and one lemma for each operation, gesture and event. *)
(* Programs carry operations that were made earlier, so that those still   *)
(* to come are part of the invariant (Ops).                                *)
(***************************************************************************)
EXTENDS Items, FiniteSetTheorems, SequenceTheorems, TLAPS

-----------------------------------------------------------------------------
(* Stacks and cells.                                                       *)

LEMMA SizeType == \A k : MaxStackSize(k) \in 1 .. FullStack
  BY StackAssumption DEF MaxStackSize

LEMMA KindFacts ==
  /\ "None" \notin Kinds
  /\ Materials \subseteq Kinds /\ Wearing \subseteq Kinds /\ Armor \subseteq Kinds
  /\ Weapons \subseteq Wearing
  /\ "Shield" \in Kinds /\ "Bucket" \in Kinds /\ "MilkBucket" \in Kinds
<1>1. "None" \notin Materials
  BY DEF Materials
<1>2. "None" \notin Wearing
  BY DEF Wearing, Swords, Axes, Diggers
<1>3. "None" \notin Armor
  BY DEF Armor, Boots, Leggings, Chestplates, Helmets
<1> QED BY <1>1, <1>2, <1>3 DEF Kinds, Weapons, Wearing

LEMMA StackParts ==
  ASSUME NEW F, NEW s \in SoundStacks(F)
  PROVE  /\ s \in StackType
         /\ s.kind \in Kinds \union {"None"} /\ s.damage \in 0 .. MaxDamage - 1
         /\ s.count \in 0 .. MaxStackSize(s.kind)
         /\ s.damage > 0 => s.kind \in F
         /\ s = NoStack <=> s.count = 0
         /\ s = NoStack <=> s.kind = "None"
<1>1. NoStack \in StackType /\ NoStack.count = 0 /\ NoStack.kind = "None" /\ NoStack.damage = 0
  BY StackAssumption DEF StackType, NoStack
<1>2. CASE s = NoStack
  BY <1>1, <1>2, SizeType DEF StackType
<1>3. CASE s # NoStack
  <2>1. /\ s \in StackType /\ s.kind # "None" /\ s.count \in 1 .. MaxStackSize(s.kind)
        /\ s.damage > 0 => s.kind \in F
    BY <1>3 DEF SoundStacks
  <2> QED BY <1>3, <2>1, SizeType DEF StackType
<1> QED BY <1>2, <1>3

LEMMA NewStackSound ==
  ASSUME NEW F, NEW s \in StackType, s.count \in 1 .. MaxStackSize(s.kind),
         s.kind # "None", s.damage > 0 => s.kind \in F
  PROVE  s \in SoundStacks(F)
  BY DEF SoundStacks

LEMMA SomeSound ==
  ASSUME NEW F, NEW s \in SoundStacks(F), NEW n \in Nat, n <= MaxStackSize(s.kind),
         n > 0 => s # NoStack
  PROVE  /\ Some(s, n) \in SoundStacks(F)
         /\ Some(s, n).count = n
         /\ Some(s, n).kind \in {s.kind, "None"}
         /\ Some(s, n) = NoStack <=> n = 0
         /\ n > 0 => SameItem(Some(s, n), s)
<1>1. CASE n = 0
  BY <1>1 DEF Some, SoundStacks, NoStack
<1>2. CASE n > 0
  <2>1. Some(s, n) = [kind |-> s.kind, damage |-> s.damage, count |-> n]
    BY <1>2, StackParts DEF Some, StackType
  <2> QED BY <1>2, <2>1, StackParts, SizeType DEF SoundStacks, StackType, NoStack, SameItem
<1> QED BY <1>1, <1>2

LEMMA CellParts ==
  ASSUME NEW F, NEW c \in SoundCells(F)
  PROVE  /\ c.stack \in SoundStacks(F) /\ c.level \in 0 .. 1
         /\ c = [stack |-> c.stack, level |-> c.level]
         /\ c.level > 0 => c.stack.kind \in Weapons
         /\ c.stack = NoStack => c.level = 0 /\ c = Empty
  BY DEF SoundCells, Empty, Cell, NoStack, Weapons, Swords, Axes

LEMMA CellSound ==
  ASSUME NEW F, NEW s \in SoundStacks(F), NEW l \in 0 .. 1,
         l > 0 => s.kind \in Weapons \union {"None"}
  PROVE  /\ Cell(s, l) \in SoundCells(F)
         /\ Cell(s, l).stack = s
         /\ s # NoStack => Cell(s, l) = [stack |-> s, level |-> l]
<1>1. Cell(s, l) = [stack |-> s, level |-> IF s = NoStack THEN 0 ELSE l] BY DEF Cell
<1> QED BY <1>1, StackParts DEF SoundCells

LEMMA EmptySound ==
  ASSUME NEW F
  PROVE  Empty \in SoundCells(F) /\ Empty.stack = NoStack /\ Empty.stack.kind = "None"
         /\ NoStack \in SoundStacks(F) /\ NoStack.kind = "None" /\ NoStack.count = 0
  BY DEF Empty, Cell, SoundCells, SoundStacks, NoStack

LEMMA PlainSound ==
  ASSUME NEW F, NEW kind \in Kinds, NEW n \in 1 .. MaxStackSize(kind)
  PROVE  /\ Stack(kind, n) \in SoundStacks(F) /\ Stack(kind, n) # NoStack
         /\ Cell(Stack(kind, n), 0) \in SoundCells(F)
         /\ Stack(kind, n).kind = kind /\ Stack(kind, n).count = n
         /\ Cell(Stack(kind, n), 0).stack = Stack(kind, n)
<1>1. Stack(kind, n) = [kind |-> kind, damage |-> 0, count |-> n] BY DEF Stack
<1>2. Stack(kind, n) \in SoundStacks(F) /\ Stack(kind, n) # NoStack
  BY KindFacts, <1>1, StackAssumption, SizeType, NewStackSound DEF StackType, NoStack
<1> QED BY <1>1, <1>2, CellSound

\* A part of a cell is a cell of the same kind, and nothing of it is empty.
LEMMA MinusSound ==
  ASSUME NEW F, NEW c \in SoundCells(F), NEW n \in Nat, n <= c.stack.count
  PROVE  /\ Minus(c, n) \in SoundCells(F)
         /\ Minus(c, n).stack.kind \in {c.stack.kind, "None"}
<1>1. c.stack.count - n \in Nat /\ c.stack.count - n <= MaxStackSize(c.stack.kind)
  BY CellParts, StackParts, SizeType
<1>2. Some(c.stack, c.stack.count - n) \in SoundStacks(F)
      /\ Some(c.stack, c.stack.count - n).kind \in {c.stack.kind, "None"}
  BY <1>1, CellParts, StackParts, SomeSound
<1> QED BY <1>2, CellParts, CellSound DEF Minus

LEMMA LeastType ==
  ASSUME NEW m \in Nat, NEW n \in Nat
  PROVE  Least(m, n) \in Nat /\ Least(m, n) <= m /\ Least(m, n) <= n
  BY DEF Least

LEMMA WithCount ==
  ASSUME NEW F, NEW c \in SoundCells(F), ~IsEmpty(c), NEW n \in Nat,
         c.stack.count + n <= MaxStackSize(c.stack.kind),
         NEW d, d = More(c, n)
  PROVE  d \in SoundCells(F) /\ d.stack.kind = c.stack.kind
<1>1. c.stack \in SoundStacks(F) /\ c.level \in 0 .. 1 /\ c = [stack |-> c.stack, level |-> c.level]
      /\ c.stack.count \in 1 .. MaxStackSize(c.stack.kind)
  BY CellParts, StackParts, SizeType DEF IsEmpty
<1>2. d = [stack |-> [c.stack EXCEPT !.count = @ + n], level |-> c.level]
  BY <1>1 DEF More
<1>3. [c.stack EXCEPT !.count = @ + n]
        = [kind |-> c.stack.kind, damage |-> c.stack.damage, count |-> c.stack.count + n]
  BY <1>1, StackParts DEF StackType
<1>4. [c.stack EXCEPT !.count = @ + n] \in SoundStacks(F)
  BY <1>1, <1>3, StackParts, SizeType, NewStackSound DEF StackType, IsEmpty
<1> QED BY <1>1, <1>2, <1>3, <1>4, CellParts DEF SoundCells

\* What a click leaves in the slot and on the cursor is sound, and the slot
\* holds what it held, nothing, or what it accepts of the cursor.
Sane(F, r, slot, cur, ok) ==
    /\ r.slot \in SoundCells(F) /\ r.cursor \in SoundCells(F)
    /\ \/ r.slot.stack.kind \in {slot.stack.kind, "None"}
       \/ ok /\ r.slot.stack.kind = cur.stack.kind

LEMMA TakenSound ==
  ASSUME NEW F, NEW slot \in SoundCells(F), NEW cur \in SoundCells(F), NEW ok,
         NEW n \in 1 .. slot.stack.count
  PROVE  Sane(F, Taken(slot, cur, n), slot, cur, ok)
<1>1. n \in Nat /\ n > 0 /\ n <= slot.stack.count /\ slot.stack # NoStack
      /\ n <= MaxStackSize(slot.stack.kind)
  BY CellParts, StackParts, SizeType
<1>2. Minus(slot, n) \in SoundCells(F) /\ Minus(slot, n).stack.kind \in {slot.stack.kind, "None"}
  BY <1>1, MinusSound
<1>3. /\ Some(slot.stack, n) \in SoundStacks(F)
      /\ Some(slot.stack, n).kind = slot.stack.kind
  BY <1>1, CellParts, StackParts, SomeSound DEF SameItem
<1>4. [stack |-> Some(slot.stack, n), level |-> slot.level] \in SoundCells(F)
  BY <1>3, CellParts DEF SoundCells
<1>5. /\ Taken(slot, cur, n).slot = Minus(slot, n)
      /\ Taken(slot, cur, n).cursor = [stack |-> Some(slot.stack, n), level |-> slot.level]
  BY DEF Taken, Minus
<1> QED BY <1>2, <1>4, <1>5 DEF Sane

LEMMA PutSound ==
  ASSUME NEW F, NEW slot \in SoundCells(F), NEW cur \in SoundCells(F), NEW ok, ok,
         NEW n \in 1 .. cur.stack.count
  PROVE  Sane(F, Put(slot, cur, n), slot, cur, ok)
<1>1. n \in Nat /\ n > 0 /\ n <= cur.stack.count /\ cur.stack # NoStack
      /\ n <= MaxStackSize(cur.stack.kind)
  BY CellParts, StackParts, SizeType
<1>2. Minus(cur, n) \in SoundCells(F)
  BY <1>1, MinusSound
<1>3. /\ Some(cur.stack, n) \in SoundStacks(F)
      /\ Some(cur.stack, n).kind = cur.stack.kind
  BY <1>1, CellParts, StackParts, SomeSound DEF SameItem
<1>4. [stack |-> Some(cur.stack, n), level |-> cur.level] \in SoundCells(F)
  BY <1>3, CellParts DEF SoundCells
<1>5. /\ Put(slot, cur, n).cursor = Minus(cur, n)
      /\ Put(slot, cur, n).slot = [stack |-> Some(cur.stack, n), level |-> cur.level]
  BY DEF Put, Minus
<1>6. Put(slot, cur, n).slot.stack.kind = cur.stack.kind
  BY <1>3, <1>5
<1> QED BY <1>2, <1>4, <1>5, <1>6 DEF Sane

LEMMA MergedSound ==
  ASSUME NEW F, NEW slot \in SoundCells(F), NEW cur \in SoundCells(F), NEW ok,
         ~IsEmpty(slot), NEW n \in Nat, n <= cur.stack.count, n <= Space(slot.stack)
  PROVE  Sane(F, Merged(slot, cur, n), slot, cur, ok)
<1>1. Minus(cur, n) \in SoundCells(F)
  BY MinusSound
<1>2. slot.stack.count + n <= MaxStackSize(slot.stack.kind)
  BY CellParts, StackParts, SizeType DEF Space
<1>3. /\ More(slot, n) \in SoundCells(F)
      /\ More(slot, n).stack.kind = slot.stack.kind
  BY <1>2, WithCount
<1>4. /\ Merged(slot, cur, n).cursor = Minus(cur, n)
      /\ Merged(slot, cur, n).slot = More(slot, n)
  BY DEF Merged, Minus
<1> QED BY <1>1, <1>3, <1>4 DEF Sane

LEMMA SpaceType ==
  ASSUME NEW F, NEW s \in SoundStacks(F)
  PROVE  Space(s) \in Nat /\ s.count + Space(s) = MaxStackSize(s.kind)
  BY StackParts, SizeType DEF Space

LEMMA HalfType ==
  ASSUME NEW n \in Nat \ {0}
  PROVE  Half(n) \in 1 .. n
  BY DEF Half

LEMMA ClickStackSound ==
  ASSUME NEW F, NEW slot \in SoundCells(F), NEW cur \in SoundCells(F),
         NEW right, NEW ok
  PROVE  Sane(F, ClickStack(slot, cur, right, ok), slot, cur, ok)
<1> DEFINE n == IF right THEN 1 ELSE cur.stack.count
           taken == IF right THEN Half(slot.stack.count) ELSE slot.stack.count
           size == MaxStackSize(cur.stack.kind)
<1>1. Sane(F, Untouched(slot, cur), slot, cur, ok)
  BY DEF Sane, Untouched
<1>2. /\ slot.stack.count \in Nat /\ cur.stack.count \in Nat
      /\ ~IsEmpty(slot) => slot.stack.count > 0
      /\ ~IsEmpty(cur) => cur.stack.count > 0
      /\ Space(slot.stack) \in Nat /\ size \in Nat \ {0}
  BY CellParts, StackParts, SizeType, SpaceType DEF IsEmpty
<1>3. CASE ~IsEmpty(slot) /\ IsEmpty(cur)
  <2>1. ClickStack(slot, cur, right, ok) = Taken(slot, cur, taken)
    BY <1>3 DEF ClickStack
  <2>2. taken \in 1 .. slot.stack.count
    BY <1>2, <1>3, HalfType
  <2> QED BY <2>1, <2>2, TakenSound
<1>4. CASE IsEmpty(slot) /\ ~IsEmpty(cur) /\ ok
  <2>1. ClickStack(slot, cur, right, ok) = Put(slot, cur, Least(n, size))
    BY <1>4 DEF ClickStack
  <2>2. n \in 1 .. cur.stack.count
    BY <1>2, <1>4
  <2>3. Least(n, size) \in 1 .. cur.stack.count
    BY <1>2, <2>2 DEF Least
  <2> QED BY <1>4, <2>1, <2>3, PutSound
<1>5. CASE ~IsEmpty(slot) /\ ~IsEmpty(cur) /\ ok /\ SameCell(slot, cur)
  <2>1. ClickStack(slot, cur, right, ok) = Merged(slot, cur, Least(n, Space(slot.stack)))
    BY <1>5 DEF ClickStack
  <2>2. n \in Nat /\ n <= cur.stack.count
    BY <1>2, <1>5
  <2>3. /\ Least(n, Space(slot.stack)) \in Nat
        /\ Least(n, Space(slot.stack)) <= cur.stack.count
        /\ Least(n, Space(slot.stack)) <= Space(slot.stack)
    BY <1>2, <2>2 DEF Least
  <2> QED BY <1>5, <2>1, <2>3, MergedSound
<1>6. CASE ~IsEmpty(slot) /\ ~IsEmpty(cur) /\ ok /\ ~SameCell(slot, cur)
           /\ cur.stack.count <= size
  <2>1. ClickStack(slot, cur, right, ok) = Swapped(slot, cur)
    BY <1>6 DEF ClickStack
  <2>2. ok BY <1>6
  <2> QED BY <2>1, <2>2 DEF Sane, Swapped
<1>7. CASE ~(~IsEmpty(slot) /\ IsEmpty(cur)) /\ ~(IsEmpty(slot) /\ ~IsEmpty(cur) /\ ok)
           /\ ~(~IsEmpty(slot) /\ ~IsEmpty(cur) /\ ok /\ SameCell(slot, cur))
           /\ ~(~IsEmpty(slot) /\ ~IsEmpty(cur) /\ ok /\ ~SameCell(slot, cur)
                /\ cur.stack.count <= size)
  <2>1. ClickStack(slot, cur, right, ok) = Untouched(slot, cur)
    BY <1>7 DEF ClickStack
  <2> QED BY <1>1, <2>1
<1> QED BY <1>3, <1>4, <1>5, <1>6, <1>7

LEMMA ClickLocalSlotSound ==
  ASSUME NEW F, NEW slot \in SoundCells(F), NEW cur \in SoundCells(F), NEW right
  PROVE  Sane(F, ClickLocalSlot(slot, cur, right), slot, cur, TRUE)
<1> DEFINE n == IF right THEN 1 ELSE cur.stack.count
           taken == IF right THEN Half(slot.stack.count) ELSE slot.stack.count
<1>1. Sane(F, Untouched(slot, cur), slot, cur, TRUE)
  BY DEF Sane, Untouched
<1>2. /\ slot.stack.count \in Nat /\ cur.stack.count \in Nat
      /\ ~IsEmpty(slot) => slot.stack.count > 0
      /\ ~IsEmpty(cur) => cur.stack.count > 0
      /\ Space(slot.stack) \in Nat
  BY CellParts, StackParts, SizeType, SpaceType DEF IsEmpty
<1>3. CASE ~IsEmpty(slot) /\ IsEmpty(cur)
  <2>1. ClickLocalSlot(slot, cur, right) = Taken(slot, cur, taken)
    BY <1>3 DEF ClickLocalSlot
  <2>2. taken \in 1 .. slot.stack.count
    BY <1>2, <1>3, HalfType
  <2> QED BY <2>1, <2>2, TakenSound
<1>4. CASE IsEmpty(slot) /\ ~IsEmpty(cur)
  <2>1. ClickLocalSlot(slot, cur, right) = Put(slot, cur, n)
    BY <1>4 DEF ClickLocalSlot
  <2>2. n \in 1 .. cur.stack.count
    BY <1>2, <1>4
  <2> QED BY <1>4, <2>1, <2>2, PutSound
<1>5. CASE ~IsEmpty(slot) /\ ~IsEmpty(cur) /\ SameCell(slot, cur)
  <2>1. ClickLocalSlot(slot, cur, right) = Merged(slot, cur, Least(n, Space(slot.stack)))
    BY <1>5 DEF ClickLocalSlot
  <2>2. n \in Nat /\ n <= cur.stack.count
    BY <1>2, <1>5
  <2>3. /\ Least(n, Space(slot.stack)) \in Nat
        /\ Least(n, Space(slot.stack)) <= cur.stack.count
        /\ Least(n, Space(slot.stack)) <= Space(slot.stack)
    BY <1>2, <2>2 DEF Least
  <2> QED BY <1>5, <2>1, <2>3, MergedSound
<1>6. CASE ~IsEmpty(slot) /\ ~IsEmpty(cur) /\ ~SameCell(slot, cur)
  <2>1. ClickLocalSlot(slot, cur, right) = Swapped(slot, cur)
    BY <1>6 DEF ClickLocalSlot
  <2> QED BY <1>6, <2>1 DEF Sane, Swapped
<1>7. CASE IsEmpty(slot) /\ IsEmpty(cur)
  <2>1. ClickLocalSlot(slot, cur, right) = Untouched(slot, cur)
    BY <1>7 DEF ClickLocalSlot
  <2> QED BY <1>1, <2>1
<1> QED BY <1>3, <1>4, <1>5, <1>6, <1>7

-----------------------------------------------------------------------------
(* Arrays of slots.                                                        *)

LEMMA CountedInNat ==
  ASSUME NEW S, IsFiniteSet(S), NEW T \in SUBSET (S \X (1 .. FullStack))
  PROVE  Cardinality(T) \in Nat
<1>1. IsFiniteSet(1 .. FullStack)
  BY StackAssumption, FS_Interval
<1>2. IsFiniteSet(S \X (1 .. FullStack))
  BY <1>1, FS_Product
<1> QED BY <1>2, FS_Subset, FS_CardinalityType

LEMMA TakenByType ==
  ASSUME NEW S, IsFiniteSet(S), NEW storage, NEW stack
  PROVE  TakenBy(S, storage, stack) \in Nat
BY CountedInNat DEF TakenBy

LEMMA OwnedInType ==
  ASSUME NEW S, IsFiniteSet(S), NEW storage, NEW kind
  PROVE  OwnedIn(S, storage, kind) \in Nat
BY CountedInNat DEF OwnedIn

\* A slot takes no more than there is room for.
LEMMA TakesType ==
  ASSUME NEW F, NEW S, NEW storage \in [S -> SoundCells(F)], NEW i \in S, NEW stack
  PROVE  /\ Takes(storage, i, stack) \in Nat
         /\ IsEmpty(storage[i]) => Takes(storage, i, stack) = MaxStackSize(stack.kind)
         /\ ~IsEmpty(storage[i]) /\ Takes(storage, i, stack) > 0 =>
                storage[i].stack.count + Takes(storage, i, stack)
                    = MaxStackSize(storage[i].stack.kind)
<1>1. storage[i].stack \in SoundStacks(F)
  BY CellParts
<1>2. MaxStackSize(stack.kind) \in Nat
  BY SizeType
<1> QED BY <1>1, <1>2, SpaceType DEF Takes

LEMMA GivenType ==
  ASSUME NEW F, NEW S, IsFiniteSet(S), NEW storage \in [S -> SoundCells(F)], NEW i \in S,
         NEW stack, stack.count \in Nat
  PROVE  /\ Given(storage, i, stack) \in Nat
         /\ Given(storage, i, stack) <= Takes(storage, i, stack)
         /\ Given(storage, i, stack) <= stack.count
<1>1. Takes(storage, i, stack) \in Nat
  BY TakesType
<1>2. TakenBy(Before(storage, i), storage, stack) \in Nat
  <2>1. IsFiniteSet(Before(storage, i))
    BY FS_Subset DEF Before, Slots
  <2> QED BY <2>1, TakenByType
<1> QED BY <1>1, <1>2 DEF Given, Least

LEMMA GrownSound ==
  ASSUME NEW F, NEW cell \in SoundCells(F), NEW stack \in StackType,
         stack.kind = "None" => stack.count = 0, stack.damage > 0 => stack.kind \in F,
         NEW n \in Nat, n <= stack.count,
         IsEmpty(cell) => n <= MaxStackSize(stack.kind),
         ~IsEmpty(cell) => cell.stack.count + n <= MaxStackSize(cell.stack.kind)
  PROVE  Grown(cell, stack, n) \in SoundCells(F)
<1>1. CASE n = 0
  BY <1>1 DEF Grown
<1>2. CASE n # 0 /\ IsEmpty(cell)
  <2>1. Grown(cell, stack, n) = [stack |-> Some(stack, n), level |-> 0]
    BY <1>2 DEF Grown
  <2>2. Some(stack, n) = [kind |-> stack.kind, damage |-> stack.damage, count |-> n]
    BY <1>2 DEF Some, StackType
  <2>3. stack.kind # "None"
    BY <1>2 DEF StackType
  <2>4. Some(stack, n) \in SoundStacks(F)
    BY <1>2, <2>2, <2>3, SizeType, NewStackSound DEF StackType
  <2> QED BY <2>1, <2>4 DEF SoundCells
<1>3. CASE n # 0 /\ ~IsEmpty(cell)
  <2>1. Grown(cell, stack, n) = More(cell, n)
    BY <1>3 DEF Grown
  <2> QED BY <1>3, <2>1, WithCount
<1> QED BY <1>1, <1>2, <1>3

LEMMA AddStackSound ==
  ASSUME NEW F, NEW S, IsFiniteSet(S), NEW storage \in [S -> SoundCells(F)],
         NEW stack \in StackType, stack.kind = "None" => stack.count = 0,
         stack.damage > 0 => stack.kind \in F
  PROVE  AddStack(storage, stack) \in [S -> SoundCells(F)]
<1>1. ASSUME NEW i \in S
      PROVE  Grown(storage[i], stack, Given(storage, i, stack)) \in SoundCells(F)
  <2> DEFINE n == Given(storage, i, stack)
  <2>1. n \in Nat /\ n <= Takes(storage, i, stack) /\ n <= stack.count
    BY GivenType DEF StackType
  <2>2. IsEmpty(storage[i]) => n <= MaxStackSize(stack.kind)
    BY <2>1, TakesType
  <2>3. ~IsEmpty(storage[i]) => storage[i].stack.count + n <= MaxStackSize(storage[i].stack.kind)
    <3> SUFFICES ASSUME ~IsEmpty(storage[i])
                 PROVE  storage[i].stack.count + n <= MaxStackSize(storage[i].stack.kind)
      OBVIOUS
    <3>1. /\ storage[i].stack.count \in Nat
          /\ storage[i].stack.count <= MaxStackSize(storage[i].stack.kind)
          /\ MaxStackSize(storage[i].stack.kind) \in Nat
      BY CellParts, StackParts, SizeType
    <3>2. /\ Takes(storage, i, stack) \in Nat
          /\ Takes(storage, i, stack) > 0 =>
                storage[i].stack.count + Takes(storage, i, stack)
                    = MaxStackSize(storage[i].stack.kind)
      BY TakesType
    <3> HIDE DEF n
    <3> QED BY <2>1, <3>1, <3>2
  <2> HIDE DEF n
  <2>4. Grown(storage[i], stack, n) \in SoundCells(F)
    BY <2>1, <2>2, <2>3, GrownSound
  <2> QED BY <2>4 DEF n
<1> QED BY <1>1 DEF AddStack, Slots

LEMMA TakeKindsSound ==
  ASSUME NEW F, NEW S \in SUBSET Nat, IsFiniteSet(S), NEW storage \in [S -> SoundCells(F)],
         NEW needs, \A kind \in DOMAIN needs : needs[kind] \in Nat
  PROVE  TakeKinds(storage, needs) \in [S -> SoundCells(F)]
<1>1. ASSUME NEW i \in S, storage[i].stack.kind \in DOMAIN needs
      PROVE  Minus(storage[i], Pays(storage, i, storage[i].stack.kind,
                                    needs[storage[i].stack.kind])) \in SoundCells(F)
  <2> DEFINE kind == storage[i].stack.kind
             before == OwnedIn({j \in S : j < i}, storage, kind)
             n == Pays(storage, i, kind, needs[kind])
  <2>1. before \in Nat
    <3>1. IsFiniteSet({j \in S : j < i})
      BY FS_Subset
    <3> QED BY <3>1, OwnedInType
  <2>2. CountIn(storage[i], kind) = storage[i].stack.count /\ storage[i].stack.count \in Nat
    BY CellParts, StackParts, SizeType DEF CountIn
  <2>3. n = IF before >= needs[kind] THEN 0
            ELSE Least(needs[kind] - before, CountIn(storage[i], kind))
    BY DEF Pays, Slots
  <2>4. needs[kind] \in Nat
    BY <1>1
  <2> HIDE DEF before, n, kind
  <2>5. n \in Nat /\ n <= storage[i].stack.count
    BY <2>1, <2>2, <2>3, <2>4 DEF Least
  <2>6. Minus(storage[i], n) \in SoundCells(F)
    BY <2>5, MinusSound
  <2> QED BY <2>6 DEF n, kind
<1>2. ASSUME NEW i \in S
      PROVE  (IF storage[i].stack.kind \in DOMAIN needs
              THEN Minus(storage[i], Pays(storage, i, storage[i].stack.kind,
                                          needs[storage[i].stack.kind]))
              ELSE storage[i]) \in SoundCells(F)
  BY <1>1
<1> QED BY <1>2 DEF TakeKinds, Slots

-----------------------------------------------------------------------------
(* The orders of slots.                                                    *)

LEMMA InOrderType ==
  ASSUME NEW S \in SUBSET Nat, IsFiniteSet(S)
  PROVE  /\ InOrder(S) \in [1 .. Cardinality(S) -> S]
         /\ Cardinality(S) \in Nat /\ InOrder(S) \in Seq(S)
         /\ DOMAIN InOrder(S) = 1 .. Cardinality(S)
         /\ S # {} => \E n \in S : \A m \in S : n <= m
<1> DEFINE below(n) == {m \in S : m < n}
           rank == [n \in S |-> Cardinality(below(n))]
           k == Cardinality(S)
<1>1. k \in Nat
  BY FS_CardinalityType
<1>2. ASSUME NEW n \in S
      PROVE  IsFiniteSet(below(n)) /\ Cardinality(below(n)) \in 0 .. k - 1
  <2>1. below(n) \in SUBSET S /\ below(n) # S
    OBVIOUS
  <2>2. /\ IsFiniteSet(below(n)) /\ Cardinality(below(n)) <= k
        /\ k = Cardinality(below(n)) => S = below(n)
    BY <2>1, FS_Subset
  <2>3. Cardinality(below(n)) \in Nat
    BY <2>2, FS_CardinalityType
  <2> QED BY <1>1, <2>1, <2>2, <2>3
<1>3. ASSUME NEW m \in S, NEW n \in S, m < n
      PROVE  Cardinality(below(m)) < Cardinality(below(n))
  <2>1. below(m) \in SUBSET below(n) /\ m \in below(n) /\ m \notin below(m)
    <3>1. \A i \in S : i \in Nat
      OBVIOUS
    <3>2. m \in Nat /\ n \in Nat
      OBVIOUS
    <3>3. \A i \in S : i < m => i < n
      BY <1>3, <3>1, <3>2
    <3>4. ~(m < m)
      BY <3>2
    <3>5. below(m) \in SUBSET below(n)
      BY <3>3
    <3> QED BY <1>3, <3>4, <3>5
  <2>2. below(m) # below(n)
    BY <2>1
  <2>3. /\ Cardinality(below(m)) <= Cardinality(below(n))
        /\ Cardinality(below(n)) = Cardinality(below(m)) => below(n) = below(m)
    BY <1>2, <2>1, FS_Subset
  <2> QED BY <1>1, <1>2, <2>2, <2>3
<1>4. rank \in [S -> 0 .. k - 1]
  BY <1>2
<1>5. rank \in Injection(S, 0 .. k - 1)
  <2>1. ASSUME NEW m \in S, NEW n \in S, m # n
        PROVE  rank[m] # rank[n]
    <3>1. m \in Nat /\ n \in Nat /\ (m < n \/ n < m)
      BY <2>1
    <3> QED BY <1>2, <1>3, <3>1
  <2> HIDE DEF rank
  <2> QED BY <1>4, <2>1 DEF Injection, IsInjective
<1>6. IsFiniteSet(0 .. k - 1) /\ Cardinality(0 .. k - 1) = k
  <2>1. 0 \in Int /\ k - 1 \in Int
    BY <1>1
  <2> HIDE DEF k
  <2>2. /\ IsFiniteSet(0 .. k - 1)
        /\ Cardinality(0 .. k - 1) = IF 0 > k - 1 THEN 0 ELSE k - 1 - 0 + 1
    BY <2>1, FS_Interval
  <2> QED BY <1>1, <2>2
<1>7. rank \in Surjection(S, 0 .. k - 1)
  BY <1>5, <1>6, FS_Injection
<1>8. ASSUME NEW i \in 1 .. k
      PROVE  \E n \in S : Cardinality(below(n)) = i - 1
  <2>1. i - 1 \in 0 .. k - 1
    BY <1>1
  <2>2. \E n \in S : rank[n] = i - 1
    BY <1>7, <2>1 DEF Surjection
  <2> QED BY <2>2
<1>9. InOrder(S) \in [1 .. k -> S]
  BY <1>8 DEF InOrder
<1>10. S # {} => \E n \in S : \A m \in S : n <= m
  <2>1. SUFFICES ASSUME S # {}
                 PROVE  \E n \in S : \A m \in S : n <= m
    OBVIOUS
  <2>2. k # 0
    BY <2>1, FS_EmptySet
  <2>3. 1 \in 1 .. k
    BY <1>1, <2>2
  <2>4. PICK n \in S : Cardinality(below(n)) = 0
    BY <1>8, <2>3
  <2>5. below(n) = {}
    BY <1>2, <2>4, FS_EmptySet
  <2>6. \A m \in S : ~(m < n)
    BY <2>5
  <2>7. S \subseteq Nat
    OBVIOUS
  <2> QED BY <2>6, <2>7
<1> QED BY <1>1, <1>9, <1>10

LEMMA SetToSeqType ==
  ASSUME NEW S, IsFiniteSet(S)
  PROVE  /\ SetToSeq(S) \in [1 .. Cardinality(S) -> S] /\ Cardinality(S) \in Nat
         /\ SetToSeq(S) \in Seq(S) /\ DOMAIN SetToSeq(S) = 1 .. Cardinality(S)
<1>1. Cardinality(S) \in Nat /\ ExistsBijection(1 .. Cardinality(S), S)
  BY FS_CardinalityType
<1>2. \E f \in [1 .. Cardinality(S) -> S] : IsInjective(f)
  BY <1>1 DEF ExistsBijection, Bijection, Injection, IsInjective
<1>3. SetToSeq(S) \in [1 .. Cardinality(S) -> S]
  BY <1>2 DEF SetToSeq
<1> QED BY <1>1, <1>3

-----------------------------------------------------------------------------
(* What recipes, furnaces and blocks make.                                 *)

LEMMA MaterialSize ==
  ASSUME NEW kind \in Materials
  PROVE  MaxStackSize(kind) = FullStack
<1>1. kind \notin Wearing
  BY DEF Materials, Wearing, Swords, Axes, Diggers
<1>2. kind \notin Armor /\ kind \notin {"Shield", "MilkBucket"} /\ kind # "Bucket"
  BY DEF Materials, Armor, Boots, Leggings, Chestplates, Helmets
<1> QED BY <1>1, <1>2 DEF MaxStackSize

\* What recipes and furnaces make: one of a kind, or the yield of a material.
Made == {Stack(kind, 1) : kind \in Kinds} \union {Stack(kind, Yield) : kind \in Materials}

LEMMA MadeSound ==
  ASSUME NEW F, NEW s \in Made
  PROVE  s \in SoundStacks(F) /\ s \in StackType /\ s.damage = 0 /\ s # NoStack /\ s.kind # "None"
<1>1. ASSUME NEW kind \in Kinds, s = Stack(kind, 1)
      PROVE  s \in SoundStacks(F)
  <2>1. 1 \in 1 .. MaxStackSize(kind)
    BY SizeType, StackAssumption
  <2> QED BY <1>1, <2>1, PlainSound
<1>2. ASSUME NEW kind \in Materials, s = Stack(kind, Yield)
      PROVE  s \in SoundStacks(F)
  <2>1. Yield \in 1 .. MaxStackSize(kind)
    BY YieldAssumption, MaterialSize
  <2> QED BY <1>2, <2>1, PlainSound, KindFacts
<1>3. s.damage = 0 /\ s.kind # "None"
  BY KindFacts DEF Made, Stack
<1> QED BY <1>1, <1>2, <1>3, StackParts DEF Made

LEMMA MadeOne == \A kind \in Kinds : Stack(kind, 1) \in Made
BY DEF Made
LEMMA MadeYield == \A kind \in Materials : Stack(kind, Yield) \in Made
BY DEF Made

LEMMA ShapesMade == \A s \in TableShapes : s.output \in Made
<1> DEFINE Good(T) == \A s \in T : s.output \in Made
<1>1. ASSUME NEW m, NEW a \in Kinds, NEW b \in Kinds, NEW c \in Kinds, NEW d \in Kinds
      PROVE  Good(ToolSet(m, a, b, c, d)) /\ Good(ArmorSet(m, a, b, c, d))
  BY MadeOne DEF ToolSet, ArmorSet, Shape, Shapes
<1>2. Good(ToolSet("Cobblestone", "StonePickaxe", "StoneAxe", "StoneShovel", "StoneSword"))
  <2>1. {"StonePickaxe", "StoneAxe", "StoneShovel", "StoneSword"} \subseteq Kinds
    BY KindFacts DEF Wearing, Swords, Axes, Diggers
  <2> HIDE DEF Good
  <2> QED BY <1>1, <2>1
<1>3. Good(ToolSet("IronIngot", "IronPickaxe", "IronAxe", "IronShovel", "IronSword"))
  <2>1. {"IronPickaxe", "IronAxe", "IronShovel", "IronSword"} \subseteq Kinds
    BY KindFacts DEF Wearing, Swords, Axes, Diggers
  <2> HIDE DEF Good
  <2> QED BY <1>1, <2>1
<1>4. Good(ToolSet("Diamond", "DiamondPickaxe", "DiamondAxe", "DiamondShovel", "DiamondSword"))
  <2>1. {"DiamondPickaxe", "DiamondAxe", "DiamondShovel", "DiamondSword"} \subseteq Kinds
    BY KindFacts DEF Wearing, Swords, Axes, Diggers
  <2> HIDE DEF Good
  <2> QED BY <1>1, <2>1
<1>5. Good(ArmorSet("IronIngot", "IronHelmet", "IronChestplate", "IronLeggings", "IronBoots"))
  <2>1. {"IronHelmet", "IronChestplate", "IronLeggings", "IronBoots"} \subseteq Kinds
    BY KindFacts DEF Armor, Boots, Leggings, Chestplates, Helmets
  <2> HIDE DEF Good
  <2> QED BY <1>1, <2>1
<1>6. Good(ArmorSet("Diamond", "DiamondHelmet", "DiamondChestplate", "DiamondLeggings",
                    "DiamondBoots"))
  <2>1. {"DiamondHelmet", "DiamondChestplate", "DiamondLeggings", "DiamondBoots"} \subseteq Kinds
    BY KindFacts DEF Armor, Boots, Leggings, Chestplates, Helmets
  <2> HIDE DEF Good
  <2> QED BY <1>1, <2>1
<1>7. {"Furnace", "Chest", "CraftingTable", "Stick", "OakPlanks"} \subseteq Materials
  BY DEF Materials
<1>8. {"WoodenPickaxe", "WoodenAxe", "WoodenShovel", "WoodenSword", "Shield", "Bucket",
       "Furnace", "Chest", "CraftingTable"} \subseteq Kinds
  BY <1>7, KindFacts DEF Wearing, Swords, Axes, Diggers
<1>9. Good(Wooden)
  <2>1. \A s \in {Stack("WoodenPickaxe", 1), Stack("Shield", 1), Stack("WoodenAxe", 1),
                  Stack("WoodenSword", 1), Stack("WoodenShovel", 1), Stack("CraftingTable", 1),
                  Stack("Stick", Yield), Stack("OakPlanks", Yield)} : s \in Made
    BY <1>7, <1>8, MadeOne, MadeYield
  <2>2. \A entries, s : Shape(entries, s).output = s
    BY DEF Shape
  <2>3. \A K, kind, s : Shapes(K, kind, s).output = s
    BY DEF Shape, Shapes
  <2>4. \A s \in Wooden : s.output \in
           {Stack("WoodenPickaxe", 1), Stack("Shield", 1), Stack("WoodenAxe", 1),
            Stack("WoodenSword", 1), Stack("WoodenShovel", 1), Stack("CraftingTable", 1),
            Stack("Stick", Yield), Stack("OakPlanks", Yield)}
    <3> SUFFICES ASSUME NEW s \in Wooden
                 PROVE  s.output \in
           {Stack("WoodenPickaxe", 1), Stack("Shield", 1), Stack("WoodenAxe", 1),
            Stack("WoodenSword", 1), Stack("WoodenShovel", 1), Stack("CraftingTable", 1),
            Stack("Stick", Yield), Stack("OakPlanks", Yield)}
      OBVIOUS
    <3>1. \/ \E entries : s \in {Shape(entries, Stack("WoodenPickaxe", 1)),
                                  Shape(entries, Stack("Shield", 1)),
                                  Shape(entries, Stack("WoodenAxe", 1)),
                                  Shape(entries, Stack("WoodenSword", 1)),
                                  Shape(entries, Stack("WoodenShovel", 1))}
          \/ \E K, kind : s \in {Shapes(K, kind, Stack("CraftingTable", 1)),
                                  Shapes(K, kind, Stack("Stick", Yield)),
                                  Shapes(K, kind, Stack("OakPlanks", Yield))}
      BY Zenon DEF Wooden
    <3> QED BY <2>2, <2>3, <3>1
  <2> QED BY <2>1, <2>4
<1>10. Good({Shapes(Ring, "Cobblestone", Stack("Furnace", 1)),
             Shapes(Ring, "OakPlanks", Stack("Chest", 1))}
            \union {Shapes(v, "IronIngot", Stack("Bucket", 1)) : v \in {{0, 2, 4}, {3, 5, 7}}})
  BY <1>8, MadeOne DEF Shape, Shapes
<1> QED BY <1>2, <1>3, <1>4, <1>5, <1>6, <1>9, <1>10 DEF TableShapes

\* A recipe consumes cells that hold something, and makes something.
SoundRecipe(recipe, kinds) ==
    /\ recipe.cells \subseteq Occupied(kinds)
    /\ recipe.output \in Made \union {NoStack}

LEMMA TableRecipeSound ==
  ASSUME NEW kinds
  PROVE  SoundRecipe(CraftingTableRecipe(kinds), kinds)
<1>1. Stack("FlintAndSteel", 1) \in Made
  BY MadeOne, KindFacts DEF Wearing
<1>2. CASE Shapeless(kinds)
  BY <1>1, <1>2 DEF CraftingTableRecipe, Recipe, SoundRecipe
<1>3. CASE ~Shapeless(kinds) /\ Matching(kinds) = {}
  BY <1>3 DEF CraftingTableRecipe, Recipe, NoRecipe, SoundRecipe
<1>4. CASE ~Shapeless(kinds) /\ Matching(kinds) # {}
  <2>1. (CHOOSE s \in Matching(kinds) : TRUE) \in Matching(kinds)
    BY <1>4
  <2>2. (CHOOSE s \in Matching(kinds) : TRUE).output \in Made
    BY <2>1, ShapesMade DEF Matching
  <2>3. CraftingTableRecipe(kinds)
          = Recipe(Occupied(kinds), (CHOOSE s \in Matching(kinds) : TRUE).output)
    BY <1>4 DEF CraftingTableRecipe
  <2> QED BY <2>2, <2>3 DEF Recipe, SoundRecipe
<1> QED BY <1>2, <1>3, <1>4

LEMMA HandRecipeSound ==
  ASSUME NEW kinds
  PROVE  SoundRecipe(CraftingRecipe(kinds), kinds)
<1> DEFINE occupied == Occupied(kinds)
<1>1. CraftingRecipe(kinds) \in
        {Recipe(occupied, Stack("OakPlanks", Yield)), Recipe(occupied, Stack("FlintAndSteel", 1)),
         Recipe(occupied, Stack("Stick", Yield)), Recipe(occupied, Stack("CraftingTable", 1)),
         NoRecipe}
  BY DEF CraftingRecipe
<1>2. {"OakPlanks", "Stick"} \subseteq Materials /\ {"FlintAndSteel", "CraftingTable"} \subseteq Kinds
  BY KindFacts DEF Materials, Wearing
<1>3. \A s \in Made : SoundRecipe(Recipe(occupied, s), kinds)
  BY DEF SoundRecipe, Recipe
<1>4. SoundRecipe(NoRecipe, kinds)
  BY DEF SoundRecipe, Recipe, NoRecipe
<1> QED BY <1>1, <1>2, <1>3, <1>4, MadeOne, MadeYield

LEMMA CommandSound ==
  ASSUME NEW r \in Recipes
  PROVE  /\ RecipeDefinition[r].output \in Made
         /\ \A kind \in DOMAIN RecipeDefinition[r].needs : RecipeDefinition[r].needs[kind] \in Nat
<1>1. {"OakPlanks", "Stick"} \subseteq Materials
      /\ {"CraftingTable", "WoodenPickaxe", "WoodenAxe", "WoodenShovel", "WoodenSword",
          "Shield", "FlintAndSteel"} \subseteq Kinds
  BY KindFacts DEF Materials, Wearing, Swords, Axes, Diggers
<1> QED BY <1>1, MadeOne, MadeYield DEF Recipes, RecipeDefinition

LEMMA SmeltedMade ==
  ASSUME NEW kind \in Smeltable
  PROVE  SmeltingResult(kind) \in Materials
<1>1. CASE kind \in Logs
  BY <1>1 DEF SmeltingResult, Smelted, Materials
<1>2. CASE kind \notin Logs
  <2>1. kind \in DOMAIN Ores
    BY <1>2 DEF Smeltable, Smelted
  <2>2. Ores[kind] \in {"IronIngot", "CopperIngot", "GoldIngot", "Stone", "CookedBeef",
                        "CookedPorkchop"}
    BY <2>1 DEF Ores
  <2> QED BY <1>2, <2>2 DEF SmeltingResult, Materials
<1> QED BY <1>1, <1>2

LEMMA BurnType == \A kind : FuelBurnTicks(kind) \in Nat
<1>1. \A kind : FuelBurnTicks(kind) \in {16 * SmeltTicks, 3 * SmeltTicks, SmeltTicks, 0}
  BY DEF FuelBurnTicks
<1> QED BY <1>1, StackAssumption

LEMMA DropSound ==
  ASSUME NEW block \in Blocks, NEW tool, NEW drop \in Drops(block, tool)
  PROVE  drop \in Made \union {NoStack}
<1>1. CASE block = "Gravel"
  <2>1. {"Flint", "Gravel"} \subseteq Kinds
    BY KindFacts DEF Materials
  <2> QED BY <1>1, <2>1, MadeOne DEF Drops
<1>2. CASE block # "Gravel" /\ block \notin GivesNothing
  <2>1. drop \in {NoStack, Gives(block)}
    BY <1>2 DEF Drops, BlockDrop
  <2>2. "Stone" \notin OreBlocks /\ "Grass" \notin OreBlocks
    BY DEF OreBlocks, OreTier
  <2>3. DropKind(block) \in Materials
    <3>1. CASE block \in OreBlocks
      <4>1. OreItem[block] \in {"Coal", "RawCopper", "RawIron", "LapisLazuli", "RawGold",
                                "Redstone", "Diamond"}
        BY <3>1 DEF OreBlocks, OreTier, OreItem
      <4>2. DropKind(block) = OreItem[block]
        BY <2>2, <3>1 DEF DropKind
      <4> QED BY <4>1, <4>2 DEF Materials
    <3>2. CASE block \notin OreBlocks /\ block \in {"Stone", "Grass"}
      <4>1. DropKind(block) \in {"Cobblestone", "Dirt"}
        BY <2>2, <3>2 DEF DropKind
      <4> QED BY <4>1 DEF Materials
    <3>3. CASE block \notin OreBlocks /\ block \notin {"Stone", "Grass"}
      <4>1. DropKind(block) = block
        BY <3>3 DEF DropKind
      <4>2. block \in Materials
        BY <1>2, <3>3 DEF Blocks, PickaxeBlocks, ShovelBlocks, AxeBlocks, GivesNothing, Rock,
                          Ground, Logs, Materials
      <4> QED BY <4>1, <4>2
    <3> QED BY <3>1, <3>2, <3>3
  <2> QED BY <2>1, <2>3, MadeOne, MadeYield, KindFacts DEF Gives
<1>3. CASE block \in GivesNothing
  <2>1. block # "Gravel"
    BY <1>3 DEF GivesNothing, Leaves, SurfacePlants, Unbreakable
  <2> QED BY <1>3, <2>1 DEF Drops, BlockDrop
<1> QED BY <1>1, <1>2, <1>3

-----------------------------------------------------------------------------
(* Furnaces.                                                               *)

LEMMA TakeOneSound ==
  ASSUME NEW F, NEW s \in SoundStacks(F), s # NoStack
  PROVE  TakeOne(s) \in SoundStacks(F)
<1>1. s.count - 1 \in Nat /\ s.count - 1 <= MaxStackSize(s.kind)
  BY StackParts, SizeType
<1> QED BY <1>1, SomeSound DEF TakeOne

LEMMA LitSound ==
  ASSUME NEW F, NEW f \in FurnaceType(SoundStacks(F))
  PROVE  /\ Lit(f) \in FurnaceType(SoundStacks(F))
         /\ Lit(f).input = f.input /\ Lit(f).output = f.output /\ Lit(f).cook = f.cook
<1>1. CASE Lights(f)
  <2>1. f.fuel # NoStack
    <3>1. FuelBurnTicks("None") = 0
      BY DEF FuelBurnTicks, Logs
    <3> QED BY <1>1, <3>1, EmptySound DEF Lights
  <2>2. TakeOne(f.fuel) \in SoundStacks(F)
    BY <2>1, TakeOneSound DEF FurnaceType
  <2>3. Lit(f) = [f EXCEPT !.fuel = TakeOne(@), !.burn = FuelBurnTicks(f.fuel.kind)]
    BY <1>1 DEF Lit
  <2>4. FuelBurnTicks(f.fuel.kind) \in Nat
    BY BurnType
  <2> QED BY <2>2, <2>3, <2>4 DEF FurnaceType
<1>2. CASE ~Lights(f)
  BY <1>2 DEF Lit
<1> QED BY <1>1, <1>2

LEMMA WithOutput ==
  ASSUME NEW S, NEW f \in FurnaceType(S), NEW x \in S, NEW y \in S
  PROVE  [f EXCEPT !.cook = 0, !.input = x, !.output = y] \in FurnaceType(S)
<1>1. [f EXCEPT !.cook = 0] \in FurnaceType(S)
  BY DEF FurnaceType
<1>2. [[f EXCEPT !.cook = 0] EXCEPT !.input = x] \in FurnaceType(S)
  BY <1>1 DEF FurnaceType
<1>3. [[[f EXCEPT !.cook = 0] EXCEPT !.input = x] EXCEPT !.output = y] \in FurnaceType(S)
  BY <1>2 DEF FurnaceType
<1> QED BY <1>3

LEMMA TickedSound ==
  ASSUME NEW F, NEW f \in FurnaceType(SoundStacks(F))
  PROVE  Ticked(f) \in FurnaceType(SoundStacks(F))
<1> DEFINE T == FurnaceType(SoundStacks(F))
           lit == Lit(f)
           burning == lit.burn > 0
           burnt == [lit EXCEPT !.burn = IF burning THEN @ - 1 ELSE 0]
           made == SmeltingResult(f.input.kind)
<1>1. /\ lit \in T /\ lit.input = f.input /\ lit.output = f.output /\ lit.cook = f.cook
  BY LitSound
<1> HIDE DEF lit
<1>2. /\ burnt \in T /\ burnt.input = f.input /\ burnt.output = f.output /\ burnt.cook = f.cook
  BY <1>1 DEF FurnaceType
<1>3. CASE ~CanSmelt(f)
  <2>1. Ticked(f) = [burnt EXCEPT !.cook = 0]
    BY <1>3 DEF Ticked, lit
  <2> HIDE DEF burnt
  <2> QED BY <1>2, <2>1 DEF FurnaceType
<1>4. CASE CanSmelt(f) /\ ~burning
  <2>1. Ticked(f) = burnt
    BY <1>4 DEF Ticked, lit
  <2> QED BY <1>2, <2>1
<1>5. CASE CanSmelt(f) /\ burning /\ Done(f)
  <2>1. Ticked(f) = [burnt EXCEPT !.cook = 0, !.input = TakeOne(@),
                                  !.output = Stack(made, f.output.count + 1)]
    BY <1>5 DEF Ticked, lit
  <2>2. f.input # NoStack /\ f.input.kind \in Smeltable
    <3>1. "None" \notin Smeltable
      BY DEF Smeltable, Smelted, Ores, Logs
    <3> QED BY <1>5, <3>1, EmptySound DEF CanSmelt
  <2>3. TakeOne(f.input) \in SoundStacks(F)
    BY <2>2, TakeOneSound DEF FurnaceType
  <2>4. made \in Materials
    BY <2>2, SmeltedMade
  <2>5. f.output = NoStack \/ f.output.count < FullStack
    BY <1>5 DEF CanSmelt, CanAccept
  <2>6. f.output.count \in Nat /\ (f.output = NoStack => f.output.count = 0)
    BY StackParts, SizeType DEF FurnaceType
  <2>7. f.output.count + 1 \in 1 .. MaxStackSize(made)
    BY <2>4, <2>5, <2>6, MaterialSize, StackAssumption
  <2>8. Stack(made, f.output.count + 1) \in SoundStacks(F)
    BY <2>4, <2>7, KindFacts, PlainSound
  <2> DEFINE input == TakeOne(burnt.input)
  <2>9. input \in SoundStacks(F)
    BY <1>2, <2>3
  <2> DEFINE output == Stack(made, f.output.count + 1)
  <2>10. output \in SoundStacks(F)
    BY <2>8
  <2>11. Ticked(f) = [burnt EXCEPT !.cook = 0, !.input = input, !.output = output]
    BY <2>1
  <2> HIDE DEF burnt, made, input, output
  <2>12. [burnt EXCEPT !.cook = 0, !.input = input, !.output = output] \in T
    BY <1>2, <2>9, <2>10, WithOutput
  <2> QED BY <2>11, <2>12
<1>6. CASE CanSmelt(f) /\ burning /\ ~Done(f)
  <2>1. Ticked(f) = [burnt EXCEPT !.cook = @ + 1]
    BY <1>6 DEF Ticked, lit
  <2> HIDE DEF burnt
  <2> QED BY <1>2, <2>1 DEF FurnaceType
<1> QED BY <1>3, <1>4, <1>5, <1>6

-----------------------------------------------------------------------------
(* Inventories.                                                            *)

LEMMA PlaceParts ==
  ASSUME NEW place \in Places
  PROVE  /\ place.in \in {"storage", "offhand", "armor", "grid", "table"}
         /\ place.in = "storage" => place.slot \in StorageSlots /\ place = InStorage(place.slot)
         /\ place.in = "offhand" <=> place = OffHand
         /\ place \in PlayerSlots <=> place.in \in {"storage", "offhand", "armor"}
         /\ place.in \notin FurnaceSlots \union {"chest"}
BY DEF Places, PlayerSlots, HandGrid, TableGrid, InStorage, OffHand, Place, FurnaceSlots

LEMMA OtherParts ==
  /\ \A i \in StorageSlots : InStorage(i) \in PlayerSlots /\ InStorage(i).in = "storage"
                             /\ InStorage(i).slot = i
  /\ OffHand \in PlayerSlots /\ OffHand.in = "offhand"
  /\ PlayerSlots \subseteq Places /\ HandGrid \subseteq Places /\ TableGrid \subseteq Places
  /\ \A place \in HandGrid : place.in = "grid"
  /\ \A place \in TableGrid : place.in = "table"
  /\ \A place \in ChestPlaces : place.in = "chest" /\ place.slot \in ChestSlots
  /\ \A place \in FurnacePlaces : place.in \in FurnaceSlots
BY DEF Places, PlayerSlots, HandGrid, TableGrid, InStorage, OffHand, Place, FurnaceSlots,
       ChestPlaces, ChestPlace, FurnacePlaces

LEMMA InventoryParts ==
  ASSUME NEW F, NEW inv \in SoundInventories(F), NEW place \in Places
  PROVE  /\ inv[place] \in SoundCells(F) /\ inv \in [Places -> SoundCells(F)]
         /\ place.in = "armor" => inv[place].stack.kind \in Armor \union {"None"}
BY DEF SoundInventories

\* What may lie on a place.
Lies(F, place, cell) ==
    /\ cell \in SoundCells(F)
    /\ place.in = "armor" => cell.stack.kind \in Armor \union {"None"}

LEMMA InventorySet ==
  ASSUME NEW F, NEW inv \in SoundInventories(F), NEW place \in Places, NEW cell,
         Lies(F, place, cell)
  PROVE  [inv EXCEPT ![place] = cell] \in SoundInventories(F)
<1> DEFINE new == [inv EXCEPT ![place] = cell]
<1>1. inv \in [Places -> SoundCells(F)]
  BY DEF SoundInventories
<1>2. new \in [Places -> SoundCells(F)]
  BY <1>1 DEF Lies
<1>3. ASSUME NEW pl \in Places, pl.in = "armor"
      PROVE  new[pl].stack.kind \in Armor \union {"None"}
  <2>1. CASE pl = place
    BY <1>1, <1>3, <2>1 DEF Lies
  <2>2. CASE pl # place
    BY <1>1, <1>3, <2>2, InventoryParts
  <2> QED BY <2>1, <2>2
<1> QED BY <1>2, <1>3 DEF SoundInventories

LEMMA InventoryMap ==
  ASSUME NEW F, NEW new, new \in [Places -> SoundCells(F)],
         \A place \in Places : Lies(F, place, new[place])
  PROVE  new \in SoundInventories(F)
BY DEF SoundInventories, Lies

LEMMA StorageMapSound ==
  ASSUME NEW F, NEW inv \in SoundInventories(F),
         NEW storage \in [StorageSlots -> SoundCells(F)]
  PROVE  [pl \in Places |-> IF pl.in = "storage" THEN storage[pl.slot] ELSE inv[pl]]
            \in SoundInventories(F)
<1> DEFINE new == [pl \in Places |-> IF pl.in = "storage" THEN storage[pl.slot] ELSE inv[pl]]
<1>1. ASSUME NEW pl \in Places
      PROVE  Lies(F, pl, new[pl])
  BY InventoryParts, PlaceParts DEF Lies
<1>2. new \in [Places -> SoundCells(F)]
  BY <1>1 DEF Lies
<1> QED BY <1>1, <1>2, InventoryMap

LEMMA WithInventory ==
  ASSUME NEW F, NEW before \in [Players -> SoundInventories(F)], NEW p \in Players,
         NEW inv \in SoundInventories(F)
  PROVE  [before EXCEPT ![p] = inv] \in [Players -> SoundInventories(F)]
OBVIOUS

LEMMA WithCell ==
  ASSUME NEW F, NEW before \in [Players -> SoundInventories(F)], NEW p \in Players,
         NEW place \in Places, NEW cell, Lies(F, place, cell)
  PROVE  [before EXCEPT ![p][place] = cell] \in [Players -> SoundInventories(F)]
BY InventorySet

-----------------------------------------------------------------------------
(* Clicks on the state.                                                    *)

\* QualityInvariant with the kinds that may be worn as a value of its own: a
\* scene does not change, and this does not have to be expanded at every step.
Quality(F) ==
    Holding(SoundInventories(F), SoundCells(F), SoundStacks(F)) /\ Controls
Touchable == Places \union ChestPlaces \union FurnacePlaces

LEMMA Monotone ==
  ASSUME NEW F, NEW c \in SoundCells({})
  PROVE  c \in SoundCells(F)
<1>1. SoundStacks({}) \subseteq SoundStacks(F)
  BY DEF SoundStacks
<1> QED BY <1>1 DEF SoundCells

LEMMA ChestSound ==
  ASSUME NEW F, Quality(F), NEW pos \in Positions
  PROVE  ChestAt(pos) \in [ChestSlots -> SoundCells(F)]
<1>1. chests[pos] # NoChest => chests[pos] \in [ChestSlots -> SoundCells(F)]
  BY DEF Quality, Holding, ChestType
<1>2. Loot \in [ChestSlots -> SoundCells(F)]
  BY ItemsAssumption, Monotone
<1>3. [i \in ChestSlots |-> Empty] \in [ChestSlots -> SoundCells(F)]
  BY EmptySound
<1> QED BY <1>1, <1>2, <1>3 DEF ChestAt

LEMMA OpenParts ==
  ASSUME NEW F, Quality(F), NEW p \in Players
  PROVE  /\ open[p] \in Menus
         /\ open[p].menu \in {"chest", "furnace"} => open[p].at \in Positions
BY DEF Quality, Controls, Menus, Closed

LEMMA FurnaceParts ==
  ASSUME NEW S, NEW f \in FurnaceType(S), NEW in \in FurnaceSlots
  PROVE  f[in] \in S /\ \A s \in S : [f EXCEPT ![in] = s] \in FurnaceType(S)
BY DEF FurnaceType, FurnaceSlots

LEMMA AnswersParts ==
  ASSUME NEW F, Quality(F), NEW p \in Players, NEW place \in Touchable, Answers(p, place)
  PROVE  /\ place.in = "chest" => open[p].at \in Positions /\ place.slot \in ChestSlots
         /\ InFurnace(place) => open[p].at \in Positions
         /\ place.in # "chest" /\ ~InFurnace(place) => place \in Places
         /\ place \in Places => place.in # "chest" /\ ~InFurnace(place)
<1>2. "chest" \notin FurnaceSlots
  BY DEF FurnaceSlots
<1>1. place.in = "chest" => open[p].menu = "chest"
  BY <1>2 DEF Answers, InFurnace
<1>3. InFurnace(place) => open[p].menu = "furnace"
  BY <1>2 DEF Answers, InFurnace
<1>4. /\ open[p].menu = "chest" => open[p].at \in Positions
      /\ open[p].menu = "furnace" => open[p].at \in Positions
  BY OpenParts
<1>5. /\ place \in Places => place.in # "chest" /\ place.in \notin FurnaceSlots
      /\ place \in ChestPlaces => place.in = "chest" /\ place.slot \in ChestSlots
      /\ place \in FurnacePlaces => place.in \in FurnaceSlots
  BY OtherParts, PlaceParts
<1>6. CASE place \in Places
  BY <1>5, <1>6 DEF InFurnace
<1>7. CASE place \in ChestPlaces
  BY <1>1, <1>2, <1>4, <1>5, <1>7 DEF InFurnace
<1>8. CASE place \in FurnacePlaces
  BY <1>2, <1>3, <1>4, <1>5, <1>8 DEF InFurnace
<1> QED BY <1>6, <1>7, <1>8 DEF Touchable

LEMMA ContentsSound ==
  ASSUME NEW F, Quality(F), NEW p \in Players, NEW place \in Touchable, Answers(p, place)
  PROVE  /\ Contents(p, place) \in SoundCells(F)
         /\ place.in = "armor" => Contents(p, place).stack.kind \in Armor \union {"None"}
<1>1. CASE place.in = "chest"
  <2>1. ~InFurnace(place)
    BY <1>1 DEF InFurnace, FurnaceSlots
  <2>2. Contents(p, place) = ChestAt(open[p].at)[place.slot]
    BY <1>1, <2>1 DEF Contents
  <2> QED BY <1>1, <2>2, AnswersParts, ChestSound
<1>2. CASE InFurnace(place)
  <2>1. place.in # "chest" /\ place.in # "armor"
    BY <1>2 DEF InFurnace, FurnaceSlots
  <2>2. Contents(p, place) = Cell(furnaces[open[p].at][place.in], 0)
    BY <1>2, <2>1 DEF Contents
  <2>3. furnaces[open[p].at] \in FurnaceType(SoundStacks(F))
    <3>1. open[p].at \in Positions
      BY <1>2, AnswersParts
    <3> QED BY <3>1 DEF Quality, Holding
  <2>4. furnaces[open[p].at][place.in] \in SoundStacks(F)
    BY <1>2, <2>3, FurnaceParts DEF InFurnace
  <2> QED BY <2>1, <2>2, <2>4, CellSound
<1>3. CASE place.in # "chest" /\ ~InFurnace(place)
  <2>1. Contents(p, place) = cells[p][place]
    BY <1>3 DEF Contents
  <2>2. cells[p] \in SoundInventories(F)
    BY DEF Quality, Holding
  <2> QED BY <1>3, <2>1, <2>2, AnswersParts, InventoryParts
<1> QED BY <1>1, <1>2, <1>3

LEMMA ClickedSound ==
  ASSUME NEW F, Quality(F), NEW p \in Players, NEW place \in Touchable, Answers(p, place),
         NEW carried \in SoundCells(F), NEW right
  PROVE  LET r == Clicked(p, place, carried, right)
         IN  /\ r.slot \in SoundCells(F) /\ r.cursor \in SoundCells(F)
             /\ place.in = "armor" => r.slot.stack.kind \in Armor \union {"None"}
<1> DEFINE slot == Contents(p, place)
           r == Clicked(p, place, carried, right)
<1>1. /\ slot \in SoundCells(F)
      /\ place.in = "armor" => slot.stack.kind \in Armor \union {"None"}
  BY ContentsSound
<1>2. CASE place.in \in {"grid", "table"}
  <2>1. r = ClickLocalSlot(slot, carried, right)
    BY <1>2 DEF Clicked
  <2>2. Sane(F, r, slot, carried, TRUE)
    BY <1>1, <2>1, ClickLocalSlotSound
  <2> QED BY <1>2, <2>2 DEF Sane
<1>3. CASE place.in \notin {"grid", "table"}
  <2>1. r = ClickStack(slot, carried, right, Accepts(place, carried.stack.kind))
    BY <1>3 DEF Clicked
  <2>2. Sane(F, r, slot, carried, Accepts(place, carried.stack.kind))
    BY <1>1, <2>1, ClickStackSound
  <2>3. place.in = "armor" /\ Accepts(place, carried.stack.kind) => carried.stack.kind \in Armor
    BY DEF Accepts, ArmorSlotAccepts, Armor
  <2> QED BY <1>1, <2>2, <2>3 DEF Sane
<1> QED BY <1>2, <1>3

LEMMA WriteSound ==
  ASSUME NEW F, Quality(F), NEW p \in Players, NEW place \in Touchable, Answers(p, place),
         NEW cell, Lies(F, place, cell), Write(p, place, cell)
  PROVE  /\ cells' \in [Players -> SoundInventories(F)]
         /\ chests' \in [Positions -> ChestType(SoundCells(F))]
         /\ furnaces' \in [Positions -> FurnaceType(SoundStacks(F))]
<1> DEFINE pos == open[p].at
<1>1. /\ cells \in [Players -> SoundInventories(F)]
      /\ chests \in [Positions -> ChestType(SoundCells(F))]
      /\ furnaces \in [Positions -> FurnaceType(SoundStacks(F))]
  BY DEF Quality, Holding
<1>2. CASE place.in = "chest"
  <2>1. /\ chests' = [chests EXCEPT ![pos] = [ChestAt(pos) EXCEPT ![place.slot] = cell]]
        /\ UNCHANGED <<cells, furnaces>>
    BY <1>2 DEF Write, InFurnace, FurnaceSlots
  <2>2. pos \in Positions /\ place.slot \in ChestSlots
    BY <1>2, AnswersParts
  <2>3. [ChestAt(pos) EXCEPT ![place.slot] = cell] \in ChestType(SoundCells(F))
    BY <2>2, ChestSound DEF ChestType, Lies
  <2> QED BY <1>1, <2>1, <2>2, <2>3
<1>3. CASE InFurnace(place)
  <2>1. place.in # "chest"
    BY <1>3 DEF InFurnace, FurnaceSlots
  <2>2. /\ furnaces' = [furnaces EXCEPT ![pos][place.in] = cell.stack]
        /\ UNCHANGED <<cells, chests>>
    BY <1>3, <2>1 DEF Write
  <2>3. pos \in Positions
    BY <1>3, AnswersParts
  <2>4. cell.stack \in SoundStacks(F)
    BY CellParts DEF Lies
  <2>5. [furnaces[pos] EXCEPT ![place.in] = cell.stack] \in FurnaceType(SoundStacks(F))
    BY <1>1, <1>3, <2>3, <2>4, FurnaceParts DEF InFurnace
  <2> QED BY <1>1, <2>2, <2>3, <2>5
<1>4. CASE place.in # "chest" /\ ~InFurnace(place)
  <2>1. /\ cells' = [cells EXCEPT ![p][place] = Kept(place, cell)]
        /\ UNCHANGED <<chests, furnaces>>
    BY <1>4 DEF Write
  <2>2. place \in Places
    BY <1>4, AnswersParts
  <2>3. Lies(F, place, Kept(place, cell))
    <3>1. cell.stack \in SoundStacks(F)
      BY CellParts DEF Lies
    <3>2. Cell(cell.stack, 0) \in SoundCells(F) /\ Cell(cell.stack, 0).stack = cell.stack
      BY <3>1, CellSound
    <3> QED BY <3>2 DEF Lies, Kept
  <2> QED BY <1>1, <2>1, <2>2, <2>3, WithCell
<1> QED BY <1>2, <1>3, <1>4

-----------------------------------------------------------------------------
(* Programs.                                                               *)

LEMMA OpIn ==
  /\ \A op \in {"drop rest", "keep", "discard", "craft", "give"} : Op(op) \in Ops
  /\ \A place \in PlayerSlots \union ChestPlaces, right \in BOOLEAN : Press(place, right) \in Ops
  /\ \A place \in PlayerSlots, when \in SUBSET BOOLEAN, right \in BOOLEAN :
         Offer(place, when, right) \in Ops
  /\ \A op \in {"route", "restore"}, place \in PlayerSlots : [op |-> op, place |-> place] \in Ops
  /\ \A place \in PlayerSlots, all \in BOOLEAN : [op |-> "toss", place |-> place, all |-> all] \in Ops
  /\ \A places \in Seq(PlayerSlots), before \in CellType :
         [op |-> "again", places |-> places, before |-> before] \in Ops
  /\ \A op \in {"gather", "fill"}, i \in StorageSlots : [op |-> op, place |-> InStorage(i)] \in Ops
  /\ \A i \in StorageSlots, before \in CellType :
         [op |-> "settle", place |-> InStorage(i), before |-> before] \in Ops
  /\ \A place \in ChestPlaces : [op |-> "pour", place |-> place] \in Ops
  /\ \A place \in HandGrid \union TableGrid : Load(place) \in Ops
BY DEF Ops, Op, Press, Offer, Load

LEMMA BlockOpIn ==
  /\ \A pos \in Positions, kind \in Blocks : [op |-> "empty", at |-> pos, kind |-> kind] \in Ops
  /\ \A pos \in Positions : [op |-> "air", at |-> pos] \in Ops
  /\ \A drop \in SoundStacks({}) : [op |-> "block drop", drop |-> drop] \in Ops
  /\ \A i \in StorageSlots : [op |-> "wear", slot |-> i] \in Ops
  /\ \A pos \in Positions, kind \in {"Chest", "Furnace"}, i \in StorageSlots :
         [op |-> "block", at |-> pos, kind |-> kind, slot |-> i] \in Ops
  /\ \A i \in StorageSlots, kind \in {"Chest", "Furnace"} :
         [op |-> "take", slot |-> i, kind |-> kind] \in Ops
  /\ \A q \in Players : "attack" \in scene => [op |-> "turn aside", target |-> q] \in Ops
BY DEF Ops

LEMMA OpParts ==
  ASSUME NEW o \in Ops
  PROVE  /\ o.op = "press" => o.place \in PlayerSlots \union ChestPlaces /\ o.right \in BOOLEAN
         /\ o.op = "offer" => o.place \in PlayerSlots /\ o.right \in BOOLEAN
         /\ o.op \in {"route", "restore", "toss"} => o.place \in PlayerSlots
         /\ o.op = "again" => o.places \in Seq(PlayerSlots)
         /\ o.op \in {"gather", "fill", "settle"} =>
                \E i \in StorageSlots : o.place = InStorage(i)
         /\ o.op = "pour" => o.place \in ChestPlaces
         /\ o.op = "load" => o.place \in HandGrid \union TableGrid
BY DEF Ops

LEMMA BlockOpParts ==
  ASSUME NEW o \in Ops
  PROVE  /\ o.op = "empty" => o.at \in Positions /\ o.kind \in Blocks
         /\ o.op = "air" => o.at \in Positions
         /\ o.op = "block drop" => o.drop \in SoundStacks({})
         /\ o.op = "wear" => o.slot \in StorageSlots
         /\ o.op = "block" => o.at \in Positions /\ o.kind \in {"Chest", "Furnace"}
                              /\ o.slot \in StorageSlots
         /\ o.op = "take" => o.slot \in StorageSlots
         /\ o.op = "turn aside" => o.target \in Players /\ "attack" \in scene
BY DEF Ops

LEMMA NowParts ==
  ASSUME NEW F, Quality(F), NEW p \in Players, NEW op, Now(p, op)
  PROVE  /\ Next1(p) \in Ops /\ Next1(p).op = op
         /\ Tail(program[p]) \in Seq(Ops) /\ program[p] \in Seq(Ops)
BY HeadTailProperties DEF Quality, Controls, Now, Next1

LEMMA ThenType ==
  ASSUME NEW F, Quality(F), NEW p \in Players, NEW op, Now(p, op), NEW ops \in Seq(Ops),
         Then(p, ops), scene' = scene
  PROVE  (program \in [Players -> Seq(Ops)])'
<1>1. Ops' = Ops
  BY DEF Ops
<1>2. ops \o Tail(program[p]) \in Seq(Ops)
  BY NowParts, ConcatProperties
<1> QED BY <1>1, <1>2 DEF Then, Quality, Controls

LEMMA StartType ==
  ASSUME NEW F, Quality(F), NEW p \in Players, NEW ops \in Seq(Ops), Start(p, ops), scene' = scene
  PROVE  (program \in [Players -> Seq(Ops)])'
<1>1. Ops' = Ops
  BY DEF Ops
<1> QED BY <1>1 DEF Start, Quality, Controls

LEMMA SameProgram ==
  ASSUME NEW F, Quality(F), UNCHANGED <<program, scene>>
  PROVE  (program \in [Players -> Seq(Ops)])'
<1>1. Ops' = Ops
  BY DEF Ops
<1> QED BY <1>1 DEF Quality, Controls

LEMMA OffersType ==
  ASSUME NEW places \in Seq(PlayerSlots), NEW when \in SUBSET BOOLEAN, NEW right \in BOOLEAN
  PROVE  Offers(places, when, right) \in Seq(Ops)
<1>1. DOMAIN places = 1 .. Len(places) /\ Len(places) \in Nat
  BY LenProperties
<1>2. ASSUME NEW i \in DOMAIN places
      PROVE  Offer(places[i], when, right) \in Ops
  <2>1. places[i] \in PlayerSlots
    BY <1>1, ElementOfSeq
  <2> QED BY <2>1, OpIn
<1> QED BY <1>1, <1>2 DEF Offers

LEMMA StorageOfType ==
  ASSUME NEW S \in SUBSET StorageSlots
  PROVE  StorageOf(S) \in Seq(PlayerSlots)
<1>1. S \in SUBSET Nat /\ IsFiniteSet(S)
  BY InventoryAssumption, FS_Subset
<1>2. /\ InOrder(S) \in [1 .. Cardinality(S) -> S] /\ Cardinality(S) \in Nat
  BY <1>1, InOrderType
<1>3. \A i \in 1 .. Cardinality(S) : InStorage(InOrder(S)[i]) \in PlayerSlots
  BY <1>2, OtherParts
<1> QED BY <1>2, <1>3 DEF StorageOf

LEMMA FewOps ==
  ASSUME NEW S, NEW x \in S, NEW y \in S, NEW z \in S
  PROVE  <<x>> \in Seq(S) /\ <<x, y>> \in Seq(S) /\ <<x, y, z>> \in Seq(S) /\ <<>> \in Seq(S)
OBVIOUS

LEMMA ReturnType == Return \in Seq(Ops) /\ StorageInOrder \in Seq(PlayerSlots)
<1>1. StorageInOrder \in Seq(PlayerSlots)
  BY StorageOfType DEF StorageInOrder
<1>2. Offers(StorageInOrder, BOOLEAN, FALSE) \in Seq(Ops)
  BY <1>1, OffersType
<1>3. <<Op("drop rest")>> \in Seq(Ops)
  <2>1. Op("drop rest") \in Ops
    BY OpIn
  <2> QED BY <2>1, FewOps
<1> QED BY <1>1, <1>2, <1>3, ConcatProperties DEF Return

LEMMA LoadsType ==
  ASSUME NEW p, NEW in, NEW S \in SUBSET (0 .. 8),
         \A c \in S : Place(in, c) \in HandGrid \union TableGrid
  PROVE  Loads(p, in, S) \in Seq(Ops)
<1> DEFINE full == {c \in S : ~IsEmpty(cells[p][Place(in, c)])}
           order == InOrder(full)
<1>1. full \in SUBSET Nat /\ IsFiniteSet(full)
  <2>1. IsFiniteSet(0 .. 8)
    BY FS_Interval, 0 \in Int, 8 \in Int
  <2>2. full \in SUBSET (0 .. 8)
    OBVIOUS
  <2> QED BY <2>1, <2>2, FS_Subset
<1>2. /\ order \in [1 .. Cardinality(full) -> full] /\ Cardinality(full) \in Nat
      /\ DOMAIN order = 1 .. Cardinality(full)
  BY <1>1, InOrderType
<1> HIDE DEF order
<1>3. \A i \in 1 .. Cardinality(full) : Load(Place(in, order[i])) \in Ops
  BY <1>2, OpIn
<1>4. Loads(p, in, S) = [i \in DOMAIN order |-> Load(Place(in, order[i]))]
  BY DEF Loads, order
<1> QED BY <1>2, <1>3, <1>4

LEMMA GridLoads ==
  ASSUME NEW p
  PROVE  /\ Loads(p, "grid", HandCells) \in Seq(Ops)
         /\ Loads(p, "table", TableCells) \in Seq(Ops)
         /\ Loads(p, "table", {}) \in Seq(Ops)
<1>1. HandCells \in SUBSET (0 .. 8) /\ TableCells \in SUBSET (0 .. 8)
  BY InventoryAssumption
<1>2. /\ \A c \in HandCells : Place("grid", c) \in HandGrid \union TableGrid
      /\ \A c \in TableCells : Place("table", c) \in HandGrid \union TableGrid
  BY DEF HandGrid, TableGrid
<1> QED BY <1>1, <1>2, LoadsType

LEMMA FinitePlaces ==
  ASSUME NEW in, NEW S, IsFiniteSet(S)
  PROVE  IsFiniteSet({Place(in, i) : i \in S})
<1> DEFINE T == {Place(in, i) : i \in S}
           f == [i \in S |-> Place(in, i)]
<1>1. f \in Surjection(S, T)
  BY DEF Surjection
<1> QED BY <1>1, FS_Surjection

LEMMA TargetsType ==
  ASSUME NEW source, NEW kind
  PROVE  Targets(source, kind) \in Seq(PlayerSlots)
<1> DEFINE equips == {pl \in PlayerSlots : Equips(pl, kind)}
<1>1. IsFiniteSet(PlayerSlots)
  <2>1. IsFiniteSet({InStorage(i) : i \in StorageSlots})
    BY InventoryAssumption, FinitePlaces DEF InStorage
  <2>2. IsFiniteSet(ArmorSlots)
    <3>1. IsFiniteSet(0 .. 3)
      BY FS_Interval, 0 \in Int, 3 \in Int
    <3> QED BY <3>1, InventoryAssumption, FS_Subset
  <2>3. IsFiniteSet({Place("armor", i) : i \in ArmorSlots})
    BY <2>2, FinitePlaces
  <2> QED BY <2>1, <2>3, FS_Union, FS_Singleton DEF PlayerSlots
<1>2. IsFiniteSet(equips)
  BY <1>1, FS_Subset
<1>3. SetToSeq(equips) \in Seq(PlayerSlots)
  BY <1>2, SetToSeqType
<1>4. StorageOf(Hotbar) \in Seq(PlayerSlots) /\ StorageOf(StorageSlots \ Hotbar) \in Seq(PlayerSlots)
  BY StorageOfType, InventoryAssumption
<1> QED BY <1>3, <1>4, ConcatProperties DEF Targets

-----------------------------------------------------------------------------
(* Gestures.                                                               *)

LEMMA QualityParts ==
  ASSUME NEW F, Quality(F)
  PROVE  /\ cells \in [Players -> SoundInventories(F)]
         /\ cursor \in [Players -> SoundCells(F)] /\ hand \in [Players -> SoundCells(F)]
         /\ chests \in [Positions -> ChestType(SoundCells(F))]
         /\ furnaces \in [Positions -> FurnaceType(SoundStacks(F))]
         /\ ground \in Seq(SoundStacks(F) \ {NoStack}) /\ Len(ground) <= GroundSize
         /\ picked \in Seq([player : Players, stack : SoundStacks(F) \ {NoStack}])
         /\ program \in [Players -> Seq(Ops)] /\ open \in [Players -> Menus]
         /\ blocks \in [Positions -> Blocks]
BY DEF Quality, Holding, Controls

LEMMA QualityNext ==
  ASSUME NEW F,
         cells' \in [Players -> SoundInventories(F)],
         cursor' \in [Players -> SoundCells(F)], hand' \in [Players -> SoundCells(F)],
         chests' \in [Positions -> ChestType(SoundCells(F))],
         furnaces' \in [Positions -> FurnaceType(SoundStacks(F))],
         ground' \in Seq(SoundStacks(F) \ {NoStack}), Len(ground') <= GroundSize,
         picked' \in Seq([player : Players, stack : SoundStacks(F) \ {NoStack}]),
         (program \in [Players -> Seq(Ops)])', open' \in [Players -> Menus],
         blocks' \in [Positions -> Blocks]
  PROVE  Quality(F)'
BY DEF Quality, Holding, Controls

LEMMA CellsAreCells ==
  ASSUME NEW F
  PROVE  SoundCells(F) \subseteq CellType
BY StackParts DEF SoundCells, CellType

LEMMA CellOf ==
  ASSUME NEW F, Quality(F), NEW p \in Players, NEW place \in Places
  PROVE  /\ cells[p] \in SoundInventories(F) /\ cells[p][place] \in SoundCells(F)
         /\ place.in = "armor" => cells[p][place].stack.kind \in Armor \union {"None"}
<1>1. cells[p] \in SoundInventories(F)
  BY QualityParts
<1> QED BY <1>1, InventoryParts

LEMMA GestureSound ==
  ASSUME NEW F, Quality(F), NEW p \in Players, NEW ops \in Seq(Ops), Start(p, ops),
         FromCursor(p) \/ UNCHANGED <<cursor, hand>>, NoItems,
         open' \in [Players -> Menus], scene' = scene
  PROVE  Quality(F)'
<1>1. (program \in [Players -> Seq(Ops)])'
  BY StartType
<1>2. cursor' \in [Players -> SoundCells(F)] /\ hand' \in [Players -> SoundCells(F)]
  <2>1. cursor \in [Players -> SoundCells(F)] /\ hand \in [Players -> SoundCells(F)]
    BY QualityParts
  <2>2. Empty \in SoundCells(F)
    BY EmptySound
  <2> QED BY <2>1, <2>2 DEF FromCursor
<1>3. UNCHANGED <<cells, chests, furnaces, blocks, ground, picked>>
  BY DEF NoItems, containers
<1> QED BY <1>1, <1>2, <1>3, QualityParts, QualityNext

LEMMA MenusParts ==
  /\ Closed \in Menus /\ [menu |-> "table"] \in Menus
  /\ \A pos \in Positions : At("chest", pos) \in Menus /\ At("furnace", pos) \in Menus
BY DEF Menus, At

LEMMA QuickMoveSound ==
  ASSUME NEW F, Quality(F), NEW p \in Players, NEW source \in PlayerSlots,
         QuickMove(p, source), scene' = scene
  PROVE  Quality(F)'
<1> DEFINE ops == <<Press(source, FALSE), [op |-> "route", place |-> source]>>
<1>1. ops \in Seq(Ops)
  <2>1. Press(source, FALSE) \in Ops /\ [op |-> "route", place |-> source] \in Ops
    BY OpIn
  <2> QED BY <2>1, FewOps
<1>2. Start(p, ops) /\ UNCHANGED <<cursor, hand, open>> /\ NoItems
  BY DEF QuickMove, EmptyHanded
<1> HIDE DEF ops
<1> QED BY <1>1, <1>2, QualityParts, GestureSound

LEMMA SwapSlotsSound ==
  ASSUME NEW F, Quality(F), NEW p \in Players, NEW source \in PlayerSlots,
         NEW target \in PlayerSlots, SwapSlots(p, source, target), scene' = scene
  PROVE  Quality(F)'
<1> DEFINE some == <<Press(source, FALSE), Press(target, FALSE), Press(source, FALSE)>>
           ops == <<Press(source, FALSE), Press(target, FALSE), Press(source, FALSE),
                    Op("discard")>>
<1>1. ops \in Seq(Ops)
  <2>1. Press(source, FALSE) \in Ops /\ Press(target, FALSE) \in Ops /\ Op("discard") \in Ops
    BY OpIn
  <2>2. \A x, y, z : <<x, y, x, z>> = <<x, y, x>> \o <<z>>
    OBVIOUS
  <2>3. ops = some \o <<Op("discard")>>
    BY <2>2
  <2>4. some \in Seq(Ops) /\ <<Op("discard")>> \in Seq(Ops)
    BY <2>1, FewOps
  <2> QED BY <2>3, <2>4, ConcatProperties
<1>2. Start(p, ops) /\ UNCHANGED <<cursor, hand, open>> /\ NoItems
  BY DEF SwapSlots, EmptyHanded
<1> HIDE DEF ops
<1> QED BY <1>1, <1>2, QualityParts, GestureSound

LEMMA ThrowSound ==
  ASSUME NEW F, Quality(F), NEW p \in Players, NEW source \in PlayerSlots,
         NEW all \in BOOLEAN, Throw(p, source, all), scene' = scene
  PROVE  Quality(F)'
<1> DEFINE ops == <<Press(source, FALSE), [op |-> "toss", place |-> source, all |-> all]>>
<1>1. ops \in Seq(Ops)
  <2>1. Press(source, FALSE) \in Ops /\ [op |-> "toss", place |-> source, all |-> all] \in Ops
    BY OpIn
  <2> QED BY <2>1, FewOps
<1>2. Start(p, ops) /\ UNCHANGED <<cursor, hand, open>> /\ NoItems
  BY DEF Throw, EmptyHanded
<1> HIDE DEF ops
<1> QED BY <1>1, <1>2, QualityParts, GestureSound

LEMMA DragSound ==
  ASSUME NEW F, Quality(F), NEW p \in Players, NEW places \in Drags,
         NEW oneEach \in BOOLEAN, Drag(p, places, oneEach), scene' = scene
  PROVE  Quality(F)'
<1> DEFINE last == IF oneEach THEN Op("keep")
                   ELSE [op |-> "again", places |-> places, before |-> cursor[p]]
           ops == Offers(places, BOOLEAN, TRUE) \o <<last>>
<1>1. places \in Seq(PlayerSlots)
  BY ItemsAssumption
<1>2. last \in Ops
  <2>1. cursor[p] \in CellType
    BY QualityParts, CellsAreCells
  <2>2. Op("keep") \in Ops
    BY OpIn
  <2>3. [op |-> "again", places |-> places, before |-> cursor[p]] \in Ops
    BY <1>1, <2>1, OpIn
  <2> QED BY <2>2, <2>3
<1> HIDE DEF last
<1>3. ops \in Seq(Ops)
  BY <1>1, <1>2, FewOps, OffersType, ConcatProperties
<1>4. Start(p, ops) /\ FromCursor(p) /\ UNCHANGED open /\ NoItems
  BY DEF Drag, last
<1> HIDE DEF ops
<1> QED BY <1>3, <1>4, QualityParts, GestureSound

LEMMA CollectSound ==
  ASSUME NEW F, Quality(F), NEW p \in Players, Collect(p), scene' = scene
  PROVE  Quality(F)'
<1> DEFINE gathers == [i \in DOMAIN StorageInOrder |->
                          [op |-> "gather", place |-> StorageInOrder[i]]]
           ops == gathers \o <<Op("keep")>>
<1>1. gathers \in Seq(Ops)
  <2> DEFINE n == Cardinality(StorageSlots)
  <2>1. StorageSlots \in SUBSET Nat /\ IsFiniteSet(StorageSlots)
    BY InventoryAssumption
  <2>2. InOrder(StorageSlots) \in [1 .. n -> StorageSlots] /\ n \in Nat
    BY <2>1, InOrderType
  <2>3. StorageInOrder = [i \in 1 .. n |-> InStorage(InOrder(StorageSlots)[i])]
    BY DEF StorageInOrder, StorageOf
  <2> HIDE DEF n
  <2>4. DOMAIN StorageInOrder = 1 .. n
    BY <2>3
  <2>5. ASSUME NEW i \in 1 .. n
        PROVE  [op |-> "gather", place |-> StorageInOrder[i]] \in Ops
    <3>1. StorageInOrder[i] = InStorage(InOrder(StorageSlots)[i])
      BY <2>3
    <3>2. InOrder(StorageSlots)[i] \in StorageSlots
      BY <2>2
    <3> QED BY <3>1, <3>2, OpIn
  <2> QED BY <2>2, <2>4, <2>5
<1>2. <<Op("keep")>> \in Seq(Ops)
  BY OpIn, FewOps
<1>3. ops \in Seq(Ops)
  BY <1>1, <1>2, ConcatProperties
<1>4. Start(p, ops) /\ FromCursor(p) /\ UNCHANGED open /\ NoItems
  BY DEF Collect
<1> HIDE DEF ops
<1> QED BY <1>3, <1>4, QualityParts, GestureSound

LEMMA ShiftChestSound ==
  ASSUME NEW F, Quality(F), NEW p \in Players, NEW place \in Touchable,
         ShiftChest(p, place), scene' = scene
  PROVE  Quality(F)'
<1>1. UNCHANGED <<cursor, hand, open>> /\ NoItems
  BY DEF ShiftChest, EmptyHanded
<1>2. PICK ops \in Seq(Ops) : Start(p, ops)
  <2>1. CASE place.in = "chest" /\ Start(p, <<Press(place, FALSE)>> \o Return)
    <3>1. place \in ChestPlaces
      BY <2>1, PlaceParts, OtherParts DEF Touchable, FurnaceSlots
    <3>2. <<Press(place, FALSE)>> \in Seq(Ops)
      BY <3>1, OpIn, FewOps
    <3>3. <<Press(place, FALSE)>> \o Return \in Seq(Ops)
      BY <3>2, ReturnType, ConcatProperties
    <3> QED BY <2>1, <3>3
  <2>2. CASE /\ place.in = "storage"
             /\ Start(p, <<Press(place, FALSE), [op |-> "fill", place |-> place]>>)
    <3>1. place \in Places
      BY <2>2, OtherParts DEF Touchable, FurnaceSlots
    <3>2. place.slot \in StorageSlots /\ place = InStorage(place.slot) /\ place \in PlayerSlots
      BY <2>2, <3>1, PlaceParts
    <3>3. Press(place, FALSE) \in Ops /\ [op |-> "fill", place |-> place] \in Ops
      BY <3>2, OpIn
    <3>4. <<Press(place, FALSE), [op |-> "fill", place |-> place]>> \in Seq(Ops)
      BY <3>3, FewOps
    <3> QED BY <2>2, <3>4
  <2> QED BY <2>1, <2>2 DEF ShiftChest
<1> QED BY <1>1, <1>2, QualityParts, GestureSound

LEMMA ShiftTableSound ==
  ASSUME NEW F, Quality(F), NEW p \in Players, NEW place \in Touchable,
         ShiftTable(p, place), scene' = scene
  PROVE  Quality(F)'
<1>1. place \in TableGrid
  <2>1. place \in Places
    BY OtherParts DEF Touchable, FurnaceSlots, ShiftTable
  <2> QED BY <2>1, OtherParts DEF Places, ShiftTable, PlayerSlots, InStorage, OffHand, Place
<1>2. <<Load(place)>> \in Seq(Ops)
  BY <1>1, OpIn, FewOps
<1>3. UNCHANGED <<cursor, hand, open>> /\ NoItems /\ Start(p, <<Load(place)>>)
  BY DEF ShiftTable
<1> QED BY <1>2, <1>3, QualityParts, GestureSound

LEMMA ShiftCraftSound ==
  ASSUME NEW F, Quality(F), NEW p \in Players, ShiftCraft(p), scene' = scene
  PROVE  Quality(F)'
<1>1. <<Op("craft")>> \in Seq(Ops)
  BY OpIn, FewOps
<1>2. UNCHANGED <<cursor, hand, open>> /\ NoItems /\ Start(p, <<Op("craft")>>)
  BY DEF ShiftCraft
<1> QED BY <1>1, <1>2, QualityParts, GestureSound

LEMMA CloseSound ==
  ASSUME NEW F, Quality(F), NEW p \in Players,
         CloseMenu(p) \/ CloseInventory(p) \/ Leave(p) \/ OpenTable(p), scene' = scene
  PROVE  Quality(F)'
<1> DEFINE table == Loads(p, "table", TableCells)
           grid == Loads(p, "grid", HandCells)
           none == Loads(p, "table", {})
<1>1. table \in Seq(Ops) /\ grid \in Seq(Ops) /\ none \in Seq(Ops)
  BY GridLoads
<1>2. PICK ops \in {Return \o table, Return \o none, Return \o grid, Return \o table \o grid,
                    <<Op("keep")>>} : Start(p, ops)
  BY DEF CloseMenu, CloseInventory, Leave, OpenTable
<1> HIDE DEF table, grid, none
<1>3. ops \in Seq(Ops)
  <2>1. <<Op("keep")>> \in Seq(Ops)
    BY OpIn, FewOps
  <2>2. /\ Return \o table \in Seq(Ops) /\ Return \o none \in Seq(Ops)
        /\ Return \o grid \in Seq(Ops)
    BY <1>1, ReturnType, ConcatProperties
  <2>3. Return \o table \o grid \in Seq(Ops)
    BY <1>1, <2>2, ConcatProperties
  <2> QED BY <2>1, <2>2, <2>3
<1>4. open' \in [Players -> Menus]
  <2>1. open \in [Players -> Menus]
    BY QualityParts
  <2>2. \E m \in Menus : open' \in {open, [open EXCEPT ![p] = m]}
    BY MenusParts DEF CloseMenu, CloseInventory, Leave, OpenTable
  <2> QED BY <2>1, <2>2
<1>5. FromCursor(p) /\ NoItems
  BY DEF CloseMenu, CloseInventory, Leave, OpenTable
<1> QED BY <1>2, <1>3, <1>4, <1>5, GestureSound

LEMMA MenuGoneSound ==
  ASSUME NEW F, Quality(F), NEW p \in Players, MenuGone(p), scene' = scene
  PROVE  Quality(F)'
<1>1. (program \in [Players -> Seq(Ops)])'
  BY SameProgram DEF MenuGone
<1>2. open' \in [Players -> Menus]
  BY QualityParts, MenusParts DEF MenuGone
<1>3. UNCHANGED <<cursor, hand, cells, chests, furnaces, blocks, ground, picked>>
  BY DEF MenuGone, NoItems, containers
<1> QED BY <1>1, <1>2, <1>3, QualityParts, QualityNext

LEMMA OpenContainerSound ==
  ASSUME NEW F, Quality(F), NEW p \in Players, NEW pos \in Positions,
         OpenContainer(p, pos), scene' = scene
  PROVE  Quality(F)'
<1>1. (program \in [Players -> Seq(Ops)])'
  BY SameProgram DEF OpenContainer
<1>2. open' \in [Players -> Menus]
  <2>1. PICK m \in Menus : open' = [open EXCEPT ![p] = m]
    BY MenusParts DEF OpenContainer
  <2> QED BY <2>1, QualityParts
<1>3. cells' \in [Players -> SoundInventories(F)]
  <2> DEFINE new == [pl \in Places |-> IF pl.in = "table" THEN Empty ELSE cells[p][pl]]
  <2>1. ASSUME NEW pl \in Places
        PROVE  Lies(F, pl, new[pl])
    <3>1. Lies(F, pl, Empty) /\ Lies(F, pl, cells[p][pl])
      BY CellOf, EmptySound DEF Lies
    <3> QED BY <3>1
  <2>2. new \in [Places -> SoundCells(F)]
    BY <2>1 DEF Lies
  <2>3. cells' = [cells EXCEPT ![p] = new]
    BY DEF OpenContainer
  <2> HIDE DEF new
  <2>4. new \in SoundInventories(F)
    BY <2>1, <2>2, InventoryMap
  <2> QED BY <2>3, <2>4, QualityParts, WithInventory
<1>4. chests' \in [Positions -> ChestType(SoundCells(F))]
  <2>1. ChestAt(pos) \in ChestType(SoundCells(F))
    BY ChestSound DEF ChestType
  <2>2. chests' \in {chests, [chests EXCEPT ![pos] = ChestAt(pos)]}
    BY DEF OpenContainer
  <2> QED BY <2>1, <2>2, QualityParts
<1>5. UNCHANGED <<cursor, hand, furnaces, blocks, ground, picked>>
  BY DEF OpenContainer
<1> QED BY <1>1, <1>2, <1>3, <1>4, <1>5, QualityParts, QualityNext

-----------------------------------------------------------------------------
(* The operations of a program.                                            *)

LEMMA DroppedSound ==
  ASSUME NEW F, Quality(F), NEW stack \in SoundStacks(F), stack # NoStack
  PROVE  /\ Dropped(stack) \in Seq(SoundStacks(F) \ {NoStack})
         /\ Len(Dropped(stack)) <= GroundSize
<1> DEFINE S == SoundStacks(F) \ {NoStack}
<1>1. ground \in Seq(S) /\ Len(ground) <= GroundSize /\ Len(ground) \in Nat
  BY QualityParts, LenProperties
<1>2. GroundSize \in Nat /\ GroundSize > 0
  BY InventoryAssumption
<1>3. stack \in S
  OBVIOUS
<1> HIDE DEF S
<1>4. CASE Len(ground) >= GroundSize
  <2>1. ground # <<>>
    BY <1>1, <1>2, <1>4, EmptySeq
  <2>2. Tail(ground) \in Seq(S) /\ Len(Tail(ground)) = Len(ground) - 1
    BY <1>1, <2>1, HeadTailProperties
  <2>3. Dropped(stack) = Append(Tail(ground), stack)
    BY <1>4 DEF Dropped
  <2>4. Dropped(stack) \in Seq(S) /\ Len(Dropped(stack)) = Len(Tail(ground)) + 1
    BY <1>3, <2>2, <2>3, AppendProperties
  <2> QED BY <1>1, <2>2, <2>4 DEF S
<1>5. CASE ~(Len(ground) >= GroundSize)
  <2>1. Dropped(stack) = Append(ground, stack)
    BY <1>5 DEF Dropped
  <2>2. Dropped(stack) \in Seq(S) /\ Len(Dropped(stack)) = Len(ground) + 1
    BY <1>1, <1>3, <2>1, AppendProperties
  <2> QED BY <1>1, <1>2, <1>5, <2>2 DEF S
<1> QED BY <1>4, <1>5

LEMMA PlanSound ==
  ASSUME NEW F, Quality(F), NEW p \in Players, NEW op, Now(p, op), NEW ops \in Seq(Ops),
         Then(p, ops), UNCHANGED <<cursor, hand, cells, chests, furnaces, ground>>, Rest,
         scene' = scene
  PROVE  Quality(F)'
<1>1. (program \in [Players -> Seq(Ops)])'
  BY ThenType
<1>2. UNCHANGED <<open, blocks, picked>>
  BY DEF Rest
<1> QED BY <1>1, <1>2, QualityParts, QualityNext

LEMMA DonePart ==
  ASSUME NEW F, Quality(F), NEW p \in Players, NEW op, Now(p, op), Then(p, <<>>),
         scene' = scene
  PROVE  (program \in [Players -> Seq(Ops)])'
<1>1. <<>> \in Seq(Ops)
  OBVIOUS
<1> QED BY <1>1, ThenType

LEMMA ClickPlace ==
  ASSUME NEW F, Quality(F), NEW p \in Players, NEW place \in Touchable, Answers(p, place),
         NEW carried \in SoundCells(F), NEW right, NEW r, r = Clicked(p, place, carried, right),
         Write(p, place, r.slot)
  PROVE  /\ cells' \in [Players -> SoundInventories(F)]
         /\ chests' \in [Positions -> ChestType(SoundCells(F))]
         /\ furnaces' \in [Positions -> FurnaceType(SoundStacks(F))]
         /\ r.cursor \in SoundCells(F)
<1>1. /\ r.slot \in SoundCells(F) /\ r.cursor \in SoundCells(F)
      /\ place.in = "armor" => r.slot.stack.kind \in Armor \union {"None"}
  BY ClickedSound
<1>2. Lies(F, place, r.slot)
  BY <1>1 DEF Lies
<1> QED BY <1>1, <1>2, WriteSound

LEMMA DoPressSound ==
  ASSUME NEW F, Quality(F), NEW p \in Players, DoPress(p), scene' = scene
  PROVE  Quality(F)'
<1> DEFINE place == Next1(p).place
           r == Clicked(p, place, hand[p], Next1(p).right)
<1>1. Now(p, "press") /\ Then(p, <<>>) /\ UNCHANGED <<cursor, ground, open, blocks, picked>>
  BY DEF DoPress, Rest
<1>2. place \in Touchable
  <2>1. Next1(p) \in Ops /\ Next1(p).op = "press"
    BY <1>1, NowParts
  <2> QED BY <2>1, OpParts, OtherParts DEF Touchable
<1>3. hand[p] \in SoundCells(F)
  BY QualityParts
<1>4. (program \in [Players -> Seq(Ops)])'
  BY <1>1, DonePart
<1>5. CASE Answers(p, place)
  <2>1. Write(p, place, r.slot) /\ hand' = [hand EXCEPT ![p] = r.cursor]
    BY <1>5 DEF DoPress
  <2>2. PICK x : x = r
    OBVIOUS
  <2>3. /\ cells' \in [Players -> SoundInventories(F)]
        /\ chests' \in [Positions -> ChestType(SoundCells(F))]
        /\ furnaces' \in [Positions -> FurnaceType(SoundStacks(F))]
        /\ x.cursor \in SoundCells(F)
    BY <1>2, <1>3, <1>5, <2>1, <2>2, ClickPlace
  <2>4. hand' \in [Players -> SoundCells(F)]
    BY <2>1, <2>2, <2>3, QualityParts
  <2> QED BY <1>1, <1>4, <2>3, <2>4, QualityParts, QualityNext
<1>6. CASE ~Answers(p, place)
  <2>1. UNCHANGED <<cells, chests, furnaces, hand>>
    BY <1>6 DEF DoPress
  <2> QED BY <1>1, <1>4, <2>1, QualityParts, QualityNext
<1> QED BY <1>5, <1>6

LEMMA ClickSound ==
  ASSUME NEW F, Quality(F), NEW p \in Players, NEW place \in Touchable, NEW right,
         Click(p, place, right), scene' = scene
  PROVE  Quality(F)'
<1>1. PICK r : r = Clicked(p, place, cursor[p], right)
  OBVIOUS
<1>2. /\ Answers(p, place) /\ Write(p, place, r.slot)
      /\ cursor' = [cursor EXCEPT ![p] = r.cursor]
      /\ UNCHANGED <<hand, program, open, blocks, ground, picked>>
  BY <1>1 DEF Click
<1>3. cursor[p] \in SoundCells(F)
  BY QualityParts
<1>4. /\ cells' \in [Players -> SoundInventories(F)]
      /\ chests' \in [Positions -> ChestType(SoundCells(F))]
      /\ furnaces' \in [Positions -> FurnaceType(SoundStacks(F))]
      /\ r.cursor \in SoundCells(F)
  BY <1>1, <1>2, <1>3, ClickPlace
<1>5. cursor' \in [Players -> SoundCells(F)]
  BY <1>2, <1>4, QualityParts
<1>6. (program \in [Players -> Seq(Ops)])'
  BY <1>2, SameProgram
<1> QED BY <1>2, <1>4, <1>5, <1>6, QualityParts, QualityNext

LEMMA DoOfferSound ==
  ASSUME NEW F, Quality(F), NEW p \in Players, DoOffer(p), scene' = scene
  PROVE  Quality(F)'
<1> DEFINE o == Next1(p)
<1>1. Now(p, "offer") /\ UNCHANGED <<cursor, hand, cells, chests, furnaces, ground>> /\ Rest
  BY DEF DoOffer
<1>2. o \in Ops /\ o.op = "offer"
  BY <1>1, NowParts
<1>3. <<Press(o.place, o.right)>> \in Seq(Ops) /\ <<>> \in Seq(Ops)
  <2>1. Press(o.place, o.right) \in Ops
    BY <1>2, OpParts, OpIn
  <2> QED BY <2>1, FewOps
<1>4. Then(p, <<Press(o.place, o.right)>>) \/ Then(p, <<>>)
  BY DEF DoOffer
<1> QED BY <1>1, <1>3, <1>4, PlanSound

LEMMA DoRouteSound ==
  ASSUME NEW F, Quality(F), NEW p \in Players, DoRoute(p), scene' = scene
  PROVE  Quality(F)'
<1> DEFINE source == Next1(p).place
           targets == Targets(source, hand[p].stack.kind)
           left == Offers(targets, {FALSE}, FALSE)
           taken == Offers(targets, {TRUE}, FALSE)
           last == <<[op |-> "restore", place |-> source]>>
<1>1. Now(p, "route") /\ UNCHANGED <<cursor, hand, cells, chests, furnaces, ground>> /\ Rest
  BY DEF DoRoute
<1>2. Next1(p) \in Ops /\ Next1(p).op = "route"
  BY <1>1, NowParts
<1>3. left \in Seq(Ops) /\ taken \in Seq(Ops)
  <2>1. targets \in Seq(PlayerSlots)
    BY TargetsType
  <2>2. {FALSE} \in SUBSET BOOLEAN /\ {TRUE} \in SUBSET BOOLEAN /\ FALSE \in BOOLEAN
    OBVIOUS
  <2> HIDE DEF targets
  <2> QED BY <2>1, <2>2, OffersType
<1>4. last \in Seq(Ops)
  <2>1. [op |-> "restore", place |-> source] \in Ops
    BY <1>2, OpParts, OpIn
  <2> QED BY <2>1, FewOps
<1>5. Then(p, <<>>) \/ Then(p, left \o taken \o last)
  BY DEF DoRoute
<1> HIDE DEF left, taken, last
<1>6. left \o taken \o last \in Seq(Ops) /\ <<>> \in Seq(Ops)
  BY <1>3, <1>4, ConcatProperties
<1> QED BY <1>1, <1>5, <1>6, PlanSound

LEMMA DoRestoreSound ==
  ASSUME NEW F, Quality(F), NEW p \in Players, DoRestore(p), scene' = scene
  PROVE  Quality(F)'
<1> DEFINE press == Press(Next1(p).place, FALSE)
           keep == Op("keep")
<1>1. Now(p, "restore") /\ UNCHANGED <<cursor, hand, cells, chests, furnaces, ground>> /\ Rest
  BY DEF DoRestore
<1>2. Next1(p) \in Ops /\ Next1(p).op = "restore"
  BY <1>1, NowParts
<1>3. press \in Ops /\ keep \in Ops
  BY <1>2, OpParts, OpIn
<1>4. Then(p, <<>> \o <<keep>>) \/ Then(p, <<press>> \o <<keep>>)
  BY DEF DoRestore
<1> HIDE DEF press, keep
<1>5. <<press>> \in Seq(Ops) /\ <<keep>> \in Seq(Ops) /\ <<>> \in Seq(Ops)
  BY <1>3, FewOps
<1>6. <<>> \o <<keep>> \in Seq(Ops) /\ <<press>> \o <<keep>> \in Seq(Ops)
  BY <1>5, ConcatProperties
<1> QED BY <1>1, <1>4, <1>6, PlanSound

LEMMA DoAgainSound ==
  ASSUME NEW F, Quality(F), NEW p \in Players, DoAgain(p), scene' = scene
  PROVE  Quality(F)'
<1> DEFINE a == Next1(p)
           keep == Op("keep")
           again == [op |-> "again", places |-> a.places, before |-> hand[p]]
           offers == Offers(a.places, BOOLEAN, TRUE)
<1>1. Now(p, "again") /\ UNCHANGED <<cursor, hand, cells, chests, furnaces, ground>> /\ Rest
  BY DEF DoAgain
<1>2. a \in Ops /\ a.op = "again"
  BY <1>1, NowParts
<1>3. a.places \in Seq(PlayerSlots)
  BY <1>2, OpParts
<1>4. keep \in Ops /\ again \in Ops
  <2>1. hand[p] \in CellType
    BY QualityParts, CellsAreCells
  <2> QED BY <1>3, <2>1, OpIn
<1>5. offers \in Seq(Ops)
  BY <1>3, OffersType
<1>6. Then(p, <<keep>>) \/ Then(p, offers \o <<again>>)
  BY DEF DoAgain
<1> HIDE DEF keep, again, offers
<1>7. <<keep>> \in Seq(Ops) /\ <<again>> \in Seq(Ops)
  BY <1>4, FewOps
<1>8. offers \o <<again>> \in Seq(Ops)
  BY <1>5, <1>7, ConcatProperties
<1> QED BY <1>1, <1>6, <1>7, <1>8, PlanSound

LEMMA PoursType == Pours \in Seq(Ops)
<1> DEFINE n == Cardinality(ChestSlots)
<1>1. ChestSlots \in SUBSET Nat /\ IsFiniteSet(ChestSlots)
  BY InventoryAssumption
<1>2. InOrder(ChestSlots) \in [1 .. n -> ChestSlots] /\ n \in Nat
  BY <1>1, InOrderType
<1>3. Pours = [i \in 1 .. n |-> [op |-> "pour", place |-> ChestPlace(InOrder(ChestSlots)[i])]]
  BY DEF Pours
<1> HIDE DEF n
<1>4. ASSUME NEW i \in 1 .. n
      PROVE  [op |-> "pour", place |-> ChestPlace(InOrder(ChestSlots)[i])] \in Ops
  <2>1. ChestPlace(InOrder(ChestSlots)[i]) \in ChestPlaces
    BY <1>2 DEF ChestPlaces
  <2> QED BY <2>1, OpIn
<1> QED BY <1>2, <1>3, <1>4

LEMMA DoFillSound ==
  ASSUME NEW F, Quality(F), NEW p \in Players, DoFill(p), scene' = scene
  PROVE  Quality(F)'
<1> DEFINE settle == [op |-> "settle", place |-> Next1(p).place, before |-> hand[p]]
<1>1. Now(p, "fill") /\ UNCHANGED <<cursor, hand, cells, chests, furnaces, ground>> /\ Rest
  BY DEF DoFill
<1>2. Next1(p) \in Ops /\ Next1(p).op = "fill"
  BY <1>1, NowParts
<1>3. settle \in Ops
  <2>1. hand[p] \in CellType
    BY QualityParts, CellsAreCells
  <2> QED BY <1>2, <2>1, OpParts, OpIn
<1>4. Then(p, <<>>) \/ Then(p, Pours \o <<settle>>)
  BY DEF DoFill
<1> HIDE DEF settle
<1>5. <<settle>> \in Seq(Ops) /\ <<>> \in Seq(Ops)
  BY <1>3, FewOps
<1>6. Pours \o <<settle>> \in Seq(Ops)
  BY <1>5, PoursType, ConcatProperties
<1> QED BY <1>1, <1>4, <1>5, <1>6, PlanSound

LEMMA DoSettleSound ==
  ASSUME NEW F, Quality(F), NEW p \in Players, DoSettle(p), scene' = scene
  PROVE  Quality(F)'
<1> DEFINE press == Press(Next1(p).place, FALSE)
           discard == Op("discard")
<1>1. Now(p, "settle") /\ UNCHANGED <<cursor, hand, cells, chests, furnaces, ground>> /\ Rest
  BY DEF DoSettle
<1>2. Next1(p) \in Ops /\ Next1(p).op = "settle"
  BY <1>1, NowParts
<1>3. press \in Ops /\ discard \in Ops
  BY <1>2, OpParts, OpIn, OtherParts
<1>4. Then(p, <<>>) \/ Then(p, <<press>> \o <<discard>>) \/ Then(p, <<press>> \o Return)
  BY DEF DoSettle
<1> HIDE DEF press, discard
<1>5. <<press>> \in Seq(Ops) /\ <<discard>> \in Seq(Ops) /\ <<>> \in Seq(Ops)
  BY <1>3, FewOps
<1>6. <<press>> \o <<discard>> \in Seq(Ops) /\ <<press>> \o Return \in Seq(Ops)
  BY <1>5, ReturnType, ConcatProperties
<1> QED BY <1>1, <1>4, <1>5, <1>6, PlanSound

LEMMA DoCraftSound ==
  ASSUME NEW F, Quality(F), NEW p \in Players, DoCraft(p), scene' = scene
  PROVE  Quality(F)'
<1>1. Now(p, "craft") /\ UNCHANGED <<cursor, hand, cells, chests, furnaces, ground>> /\ Rest
  BY DEF DoCraft
<1>2. Then(p, <<>>) \/ Then(p, <<Op("give"), Op("craft")>>)
  BY DEF DoCraft
<1>3. <<>> \in Seq(Ops) /\ <<Op("give"), Op("craft")>> \in Seq(Ops)
  BY OpIn, FewOps
<1> QED BY <1>1, <1>2, <1>3, PlanSound

LEMMA DoKeepSound ==
  ASSUME NEW F, Quality(F), NEW p \in Players, DoKeep(p) \/ DoDiscard(p), scene' = scene
  PROVE  Quality(F)'
<1>1. \E op : Now(p, op) /\ Then(p, <<>>)
  BY DEF DoKeep, DoDiscard
<1>2. /\ cursor' \in {cursor, [cursor EXCEPT ![p] = hand[p]]}
      /\ hand' = [hand EXCEPT ![p] = Empty]
      /\ UNCHANGED <<cells, chests, furnaces, ground, open, blocks, picked>>
  BY DEF DoKeep, DoDiscard, Rest
<1>3. (program \in [Players -> Seq(Ops)])'
  BY <1>1, DonePart
<1>4. cursor' \in [Players -> SoundCells(F)] /\ hand' \in [Players -> SoundCells(F)]
  <2>1. cursor \in [Players -> SoundCells(F)] /\ hand \in [Players -> SoundCells(F)]
    BY QualityParts
  <2>2. Empty \in SoundCells(F)
    BY EmptySound
  <2> QED BY <1>2, <2>1, <2>2
<1> QED BY <1>2, <1>3, <1>4, QualityParts, QualityNext

\* A part of what is carried, one of it or all of it.
LEMMA SomeOfIt ==
  ASSUME NEW F, NEW c \in SoundCells(F), ~IsEmpty(c), NEW all,
         NEW n, n = IF all THEN c.stack.count ELSE 1
  PROVE  /\ n \in Nat /\ n > 0 /\ n <= c.stack.count
         /\ Some(c.stack, n) \in SoundStacks(F) /\ Some(c.stack, n) # NoStack
         /\ Minus(c, n) \in SoundCells(F)
<1>1. c.stack \in SoundStacks(F) /\ c.stack # NoStack
  BY CellParts DEF IsEmpty
<1>2. c.stack.count \in 1 .. MaxStackSize(c.stack.kind) /\ MaxStackSize(c.stack.kind) \in Nat
  BY <1>1, StackParts, SizeType, StackAssumption
<1>3. n \in Nat /\ n > 0 /\ n <= c.stack.count /\ n <= MaxStackSize(c.stack.kind)
  BY <1>2
<1>4. Some(c.stack, n) \in SoundStacks(F) /\ Some(c.stack, n) # NoStack
  BY <1>1, <1>3, SomeSound
<1> QED BY <1>3, <1>4, MinusSound

LEMMA DropCursorSound ==
  ASSUME NEW F, Quality(F), NEW p \in Players, NEW all, DropCursor(p, all), scene' = scene
  PROVE  Quality(F)'
<1>1. PICK n : n = IF all THEN cursor[p].stack.count ELSE 1
  OBVIOUS
<1>2. /\ ~IsEmpty(cursor[p])
      /\ ground' = Dropped(Some(cursor[p].stack, n))
      /\ cursor' = [cursor EXCEPT ![p] = Minus(@, n)]
      /\ UNCHANGED <<cells, hand, program, open, containers, picked>>
  BY <1>1 DEF DropCursor
<1>3. cursor[p] \in SoundCells(F)
  BY QualityParts
<1>4. /\ Some(cursor[p].stack, n) \in SoundStacks(F) /\ Some(cursor[p].stack, n) # NoStack
      /\ Minus(cursor[p], n) \in SoundCells(F)
  BY <1>1, <1>2, <1>3, SomeOfIt
<1>5. ground' \in Seq(SoundStacks(F) \ {NoStack}) /\ Len(ground') <= GroundSize
  BY <1>2, <1>4, DroppedSound
<1>6. cursor' \in [Players -> SoundCells(F)]
  BY <1>2, <1>4, QualityParts
<1>7. (program \in [Players -> Seq(Ops)])'
  BY <1>2, SameProgram
<1>8. UNCHANGED <<cells, hand, open, chests, furnaces, blocks, picked>>
  BY <1>2 DEF containers
<1> QED BY <1>5, <1>6, <1>7, <1>8, QualityParts, QualityNext

LEMMA DoTossSound ==
  ASSUME NEW F, Quality(F), NEW p \in Players, DoToss(p), scene' = scene
  PROVE  Quality(F)'
<1>1. PICK n : n = IF Next1(p).all THEN hand[p].stack.count ELSE 1
  OBVIOUS
<1>2. Now(p, "toss") /\ UNCHANGED <<cursor, cells, chests, furnaces, open, blocks, picked>>
  BY DEF DoToss, Rest
<1>3. Next1(p) \in Ops /\ Next1(p).op = "toss"
  BY <1>2, NowParts
<1>4. CASE IsEmpty(hand[p])
  <2>1. Then(p, <<>>) /\ UNCHANGED <<hand, ground>>
    BY <1>4 DEF DoToss
  <2>2. (program \in [Players -> Seq(Ops)])'
    BY <1>2, <2>1, DonePart
  <2> QED BY <1>2, <2>1, <2>2, QualityParts, QualityNext
<1>5. CASE ~IsEmpty(hand[p])
  <2> DEFINE last == [op |-> "restore", place |-> Next1(p).place]
  <2>1. /\ ground' = Dropped(Some(hand[p].stack, n))
        /\ hand' = [hand EXCEPT ![p] = Minus(@, n)]
        /\ Then(p, <<last>>)
    BY <1>1, <1>5 DEF DoToss
  <2>2. last \in Ops
    BY <1>3, OpParts, OpIn
  <2> HIDE DEF last
  <2>3. <<last>> \in Seq(Ops)
    BY <2>2, FewOps
  <2>4. (program \in [Players -> Seq(Ops)])'
    BY <1>2, <2>1, <2>3, ThenType
  <2>5. hand[p] \in SoundCells(F)
    BY QualityParts
  <2>6. /\ Some(hand[p].stack, n) \in SoundStacks(F) /\ Some(hand[p].stack, n) # NoStack
        /\ Minus(hand[p], n) \in SoundCells(F)
    BY <1>1, <1>5, <2>5, SomeOfIt
  <2>7. ground' \in Seq(SoundStacks(F) \ {NoStack}) /\ Len(ground') <= GroundSize
    BY <2>1, <2>6, DroppedSound
  <2>8. hand' \in [Players -> SoundCells(F)]
    BY <2>1, <2>6, QualityParts
  <2> QED BY <1>2, <2>4, <2>7, <2>8, QualityParts, QualityNext
<1> QED BY <1>4, <1>5

LEMMA DoDropRestSound ==
  ASSUME NEW F, Quality(F), NEW p \in Players, DoDropRest(p), scene' = scene
  PROVE  Quality(F)'
<1>1. /\ Now(p, "drop rest") /\ Then(p, <<>>)
      /\ ground' = IF IsEmpty(hand[p]) THEN ground ELSE Dropped(hand[p].stack)
      /\ hand' = [hand EXCEPT ![p] = Empty]
      /\ UNCHANGED <<cursor, cells, chests, furnaces, open, blocks, picked>>
  BY DEF DoDropRest, Rest
<1>2. (program \in [Players -> Seq(Ops)])'
  BY <1>1, DonePart
<1>3. hand' \in [Players -> SoundCells(F)]
  <2>1. hand \in [Players -> SoundCells(F)] /\ Empty \in SoundCells(F)
    BY QualityParts, EmptySound
  <2> QED BY <1>1, <2>1
<1>4. ground' \in Seq(SoundStacks(F) \ {NoStack}) /\ Len(ground') <= GroundSize
  <2>1. CASE IsEmpty(hand[p])
    BY <1>1, <2>1, QualityParts
  <2>2. CASE ~IsEmpty(hand[p])
    <3>1. hand[p] \in SoundCells(F)
      BY QualityParts
    <3>2. hand[p].stack \in SoundStacks(F) /\ hand[p].stack # NoStack
      BY <2>2, <3>1, CellParts DEF IsEmpty
    <3> QED BY <1>1, <2>2, <3>2, DroppedSound
  <2> QED BY <2>1, <2>2
<1> QED BY <1>1, <1>2, <1>3, <1>4, QualityParts, QualityNext

LEMMA WithoutSound ==
  ASSUME NEW F, Quality(F), NEW p \in Players, NEW i \in StorageSlots, NEW n \in Nat,
         n <= cells[p][InStorage(i)].stack.count
  PROVE  Without(p, i, n) \in [Players -> SoundInventories(F)]
<1>1. InStorage(i) \in Places /\ InStorage(i).in = "storage"
  BY OtherParts
<1>2. Minus(cells[p][InStorage(i)], n) \in SoundCells(F)
  BY <1>1, CellOf, MinusSound
<1>3. Lies(F, InStorage(i), Minus(cells[p][InStorage(i)], n))
  BY <1>1, <1>2 DEF Lies
<1>4. Without(p, i, n)
        = [cells EXCEPT ![p][InStorage(i)] = Minus(cells[p][InStorage(i)], n)]
  <2>1. cells \in [Players -> SoundInventories(F)]
    BY QualityParts
  <2> QED BY <2>1 DEF Without
<1>5. PICK cell : cell = Minus(cells[p][InStorage(i)], n)
  OBVIOUS
<1>6. Lies(F, InStorage(i), cell) /\ InStorage(i) \in Places
  BY <1>1, <1>3, <1>5
<1>7. [cells EXCEPT ![p][InStorage(i)] = cell] \in [Players -> SoundInventories(F)]
  BY <1>6, QualityParts, WithCell
<1> QED BY <1>4, <1>5, <1>7

LEMMA DoGatherSound ==
  ASSUME NEW F, Quality(F), NEW p \in Players, DoGather(p), scene' = scene
  PROVE  Quality(F)'
<1> DEFINE slot == Next1(p).place
           n == Least(cells[p][slot].stack.count, Space(hand[p].stack))
           matches == SameCell(cells[p][slot], hand[p]) /\ Space(hand[p].stack) > 0
<1>1. /\ Now(p, "gather") /\ Then(p, <<>>)
      /\ UNCHANGED <<cursor, chests, furnaces, ground, open, blocks, picked>>
  BY DEF DoGather, Rest
<1>2. (program \in [Players -> Seq(Ops)])'
  BY <1>1, DonePart
<1>3. CASE ~matches
  <2>1. UNCHANGED <<cells, hand>>
    BY <1>3 DEF DoGather
  <2> QED BY <1>1, <1>2, <2>1, QualityParts, QualityNext
<1>4. CASE matches
  <2>1. PICK i \in StorageSlots : slot = InStorage(i)
    BY <1>1, NowParts, OpParts
  <2>2. slot \in Places /\ slot.slot = i
    BY <2>1, OtherParts
  <2>3. cells[p][slot] \in SoundCells(F) /\ hand[p] \in SoundCells(F)
    BY <2>2, CellOf, QualityParts
  <2>4. cells[p][slot].stack \in SoundStacks(F) /\ hand[p].stack \in SoundStacks(F)
    BY <2>3, CellParts
  <2>5. /\ Space(hand[p].stack) \in Nat /\ cells[p][slot].stack.count \in Nat
        /\ hand[p].stack.count + Space(hand[p].stack) = MaxStackSize(hand[p].stack.kind)
    BY <2>4, SpaceType, StackParts, SizeType
  <2>6. n \in Nat /\ n <= cells[p][slot].stack.count /\ n <= Space(hand[p].stack)
    BY <2>5, LeastType
  <2>7. cells' = Without(p, i, n) /\ hand' = [hand EXCEPT ![p] = More(@, n)]
    BY <1>4, <2>2 DEF DoGather
  <2> HIDE DEF n
  <2>8. cells' \in [Players -> SoundInventories(F)]
    BY <2>1, <2>6, <2>7, WithoutSound
  <2>9. hand' \in [Players -> SoundCells(F)]
    <3>1. PICK d : d = More(hand[p], n)
      OBVIOUS
    <3>2. hand' = [hand EXCEPT ![p] = d]
      BY <2>7, <3>1, QualityParts
    <3>3. d \in SoundCells(F)
      <4>1. CASE IsEmpty(hand[p])
        <5>1. cells[p][slot].stack.kind = "None" /\ hand[p] = Empty
          BY <1>4, <2>3, <4>1, CellParts DEF SameCell, SameItem, IsEmpty, Empty, Cell, NoStack
        <5>2. cells[p][slot].stack.count = 0
          BY <2>4, <5>1, StackParts
        <5>3. n = 0
          BY <2>6, <5>2
        <5>4. d = Empty
          BY <3>1, <5>1, <5>3 DEF Empty, Cell, NoStack, More
        <5> QED BY <5>4, EmptySound
      <4>2. CASE ~IsEmpty(hand[p])
        <5>1. hand[p].stack.count \in Nat /\ MaxStackSize(hand[p].stack.kind) \in Nat
          BY <2>4, StackParts, SizeType, StackAssumption
        <5>2. hand[p].stack.count + n <= MaxStackSize(hand[p].stack.kind)
          BY <2>5, <2>6, <5>1
        <5> QED BY <2>3, <2>6, <3>1, <4>2, <5>2, WithCount
      <4> QED BY <4>1, <4>2
    <3> QED BY <3>2, <3>3, QualityParts
  <2> QED BY <1>1, <1>2, <2>8, <2>9, QualityParts, QualityNext
<1> QED BY <1>3, <1>4

LEMMA DoPourSound ==
  ASSUME NEW F, Quality(F), NEW p \in Players, DoPour(p), scene' = scene
  PROVE  Quality(F)'
<1> DEFINE place == Next1(p).place
           acts == ~IsEmpty(hand[p]) /\ Answers(p, place)
<1>1. PICK r : r = ClickStack(Contents(p, place), hand[p], FALSE, TRUE)
  OBVIOUS
<1>2. /\ Now(p, "pour") /\ Then(p, <<>>)
      /\ UNCHANGED <<cursor, ground, open, blocks, picked>>
  BY DEF DoPour, Rest
<1>3. (program \in [Players -> Seq(Ops)])'
  BY <1>2, DonePart
<1>4. place \in ChestPlaces
  BY <1>2, NowParts, OpParts
<1>5. CASE ~acts
  <2>1. UNCHANGED <<cells, chests, furnaces, hand>>
    BY <1>5 DEF DoPour
  <2> QED BY <1>2, <1>3, <2>1, QualityParts, QualityNext
<1>6. CASE acts
  <2>1. Write(p, place, r.slot) /\ hand' = [hand EXCEPT ![p] = r.cursor]
    BY <1>1, <1>6 DEF DoPour
  <2>2. place \in Touchable /\ place.in = "chest"
    BY <1>4, OtherParts DEF Touchable
  <2>3. Contents(p, place) \in SoundCells(F)
    BY <1>6, <2>2, ContentsSound
  <2>4. hand[p] \in SoundCells(F)
    BY QualityParts
  <2>5. Sane(F, r, Contents(p, place), hand[p], TRUE)
    BY <1>1, <2>3, <2>4, ClickStackSound
  <2>6. Lies(F, place, r.slot) /\ r.cursor \in SoundCells(F)
    BY <2>2, <2>5 DEF Lies, Sane
  <2>7. /\ cells' \in [Players -> SoundInventories(F)]
        /\ chests' \in [Positions -> ChestType(SoundCells(F))]
        /\ furnaces' \in [Positions -> FurnaceType(SoundStacks(F))]
    BY <1>6, <2>1, <2>2, <2>6, WriteSound
  <2>8. hand' \in [Players -> SoundCells(F)]
    BY <2>1, <2>6, QualityParts
  <2> QED BY <1>2, <1>3, <2>7, <2>8, QualityParts, QualityNext
<1> QED BY <1>5, <1>6

LEMMA DoLoadSound ==
  ASSUME NEW F, Quality(F), NEW p \in Players, DoLoad(p), scene' = scene
  PROVE  Quality(F)'
<1> DEFINE place == Next1(p).place
<1>1. /\ Now(p, "load") /\ Then(p, Return)
      /\ hand' = [hand EXCEPT ![p] = cells[p][place]]
      /\ cells' = [cells EXCEPT ![p][place] = Empty]
      /\ UNCHANGED <<cursor, chests, furnaces, ground, open, blocks, picked>>
  BY DEF DoLoad, Rest
<1>2. (program \in [Players -> Seq(Ops)])'
  BY <1>1, ThenType, ReturnType
<1>3. place \in Places
  BY <1>1, NowParts, OpParts, OtherParts
<1>4. cells[p][place] \in SoundCells(F)
  BY <1>3, CellOf
<1>5. hand' \in [Players -> SoundCells(F)]
  BY <1>1, <1>4, QualityParts
<1>6. Lies(F, place, Empty)
  BY EmptySound DEF Lies
<1>7. cells' \in [Players -> SoundInventories(F)]
  <2>1. PICK c : c = Empty
    OBVIOUS
  <2> QED BY <1>1, <1>3, <1>6, <2>1, WithCell, QualityParts
<1> QED BY <1>1, <1>2, <1>5, <1>7, QualityParts, QualityNext

-----------------------------------------------------------------------------
(* Crafting and the uses of an item.                                       *)

LEMMA StorageSound ==
  ASSUME NEW F, Quality(F), NEW p \in Players
  PROVE  /\ Storage(p) \in [StorageSlots -> SoundCells(F)]
         /\ \A storage \in [StorageSlots -> SoundCells(F)] :
                WithStorage(p, storage) \in [Players -> SoundInventories(F)]
<1>1. Storage(p) \in [StorageSlots -> SoundCells(F)]
  BY CellOf, OtherParts DEF Storage
<1>2. ASSUME NEW storage \in [StorageSlots -> SoundCells(F)]
      PROVE  WithStorage(p, storage) \in [Players -> SoundInventories(F)]
  <2> DEFINE new == [pl \in Places |-> IF pl.in = "storage" THEN storage[pl.slot]
                                       ELSE cells[p][pl]]
  <2>1. cells[p] \in SoundInventories(F) /\ cells \in [Players -> SoundInventories(F)]
    BY QualityParts
  <2>2. new \in SoundInventories(F)
    BY <2>1, StorageMapSound
  <2>3. WithStorage(p, storage) = [cells EXCEPT ![p] = new]
    BY <2>1 DEF WithStorage
  <2> HIDE DEF new
  <2> QED BY <2>1, <2>2, <2>3, WithInventory
<1> QED BY <1>1, <1>2

LEMMA OutputParts ==
  ASSUME NEW F, NEW s \in Made \union {NoStack}
  PROVE  /\ s \in SoundStacks(F) /\ s \in StackType /\ s.damage = 0
         /\ s.kind = "None" => s.count = 0
         /\ s.count \in Nat
<1>1. s \in SoundStacks(F) /\ s.damage = 0
  BY MadeSound, EmptySound DEF NoStack
<1> QED BY <1>1, StackParts DEF StackType

LEMMA AddMade ==
  ASSUME NEW F, NEW storage \in [StorageSlots -> SoundCells(F)], NEW s \in Made \union {NoStack}
  PROVE  AddStack(storage, s) \in [StorageSlots -> SoundCells(F)]
<1>2. IsFiniteSet(StorageSlots)
  BY InventoryAssumption
<1>3. s \in StackType /\ (s.kind = "None" => s.count = 0) /\ ~(s.damage > 0)
  BY OutputParts
<1> QED BY <1>2, <1>3, AddStackSound

LEMMA OccupiedCell ==
  ASSUME NEW p, NEW grid \in {HandGrid, TableGrid}, NEW pl \in grid,
         pl.slot \in Occupied(Grid(p, grid))
  PROVE  cells[p][pl].stack.kind # "None"
<1> DEFINE c == pl.slot
           at == {q \in grid : q.slot = c}
<1>1. \A q \in grid : q.slot = c => q = pl
  BY DEF HandGrid, TableGrid, Place
<1>2. at = {pl}
  BY <1>1
<1>3. (CHOOSE q \in at : TRUE) = pl
  BY <1>2
<1>4. Grid(p, grid)[c] = IF at = {} THEN "None"
                         ELSE cells[p][CHOOSE q \in at : TRUE].stack.kind
  BY DEF Grid, Occupied
<1>5. Grid(p, grid)[c] # "None"
  BY DEF Occupied
<1> QED BY <1>2, <1>3, <1>4, <1>5

LEMMA ConsumedSound ==
  ASSUME NEW F, Quality(F), NEW p \in Players, NEW grid \in {HandGrid, TableGrid},
         NEW recipe, recipe.cells \subseteq Occupied(Grid(p, grid))
  PROVE  Consumed(p, grid, recipe) \in [Players -> SoundInventories(F)]
<1> DEFINE new == [pl \in Places |-> IF pl \in grid /\ pl.slot \in recipe.cells
                                     THEN Minus(cells[p][pl], 1) ELSE cells[p][pl]]
<1>1. ASSUME NEW pl \in Places
      PROVE  Lies(F, pl, new[pl])
  <2>1. cells[p][pl] \in SoundCells(F) /\ Lies(F, pl, cells[p][pl])
    BY CellOf DEF Lies
  <2>2. ASSUME pl \in grid, pl.slot \in recipe.cells
        PROVE  Lies(F, pl, Minus(cells[p][pl], 1))
    <3>1. cells[p][pl].stack.kind # "None"
      BY <2>2, OccupiedCell
    <3>2. cells[p][pl].stack \in SoundStacks(F)
      BY <2>1, CellParts
    <3>3. 1 \in Nat /\ 1 <= cells[p][pl].stack.count
      BY <3>1, <3>2, StackParts, SizeType
    <3>4. Minus(cells[p][pl], 1) \in SoundCells(F)
      BY <2>1, <3>3, MinusSound
    <3>5. pl.in # "armor"
      BY <2>2, OtherParts
    <3> QED BY <3>4, <3>5 DEF Lies
  <2> QED BY <2>1, <2>2
<1>2. new \in [Places -> SoundCells(F)]
  BY <1>1 DEF Lies
<1>3. cells \in [Players -> SoundInventories(F)]
  BY QualityParts
<1>4. Consumed(p, grid, recipe) = [cells EXCEPT ![p] = new]
  BY <1>3 DEF Consumed
<1> HIDE DEF new
<1>5. new \in SoundInventories(F)
  BY <1>1, <1>2, InventoryMap
<1> QED BY <1>3, <1>4, <1>5, WithInventory

LEMMA CraftSound ==
  ASSUME NEW F, Quality(F), NEW p \in Players, NEW grid \in {HandGrid, TableGrid},
         Craft(p, grid), scene' = scene
  PROVE  Quality(F)'
<1>1. PICK recipe : recipe = Output(p, grid)
  OBVIOUS
<1>2. PICK output : output = recipe.output
  OBVIOUS
<1>3. /\ Fits(cursor[p], output)
      /\ cursor' = [cursor EXCEPT ![p] = IF IsEmpty(@) THEN Cell(output, 0)
                                         ELSE More(@, output.count)]
      /\ cells' = Consumed(p, grid, recipe)
      /\ UNCHANGED <<hand, program, open, chests, furnaces, blocks, ground, picked>>
  BY <1>1, <1>2 DEF Craft, containers
<1>4. SoundRecipe(recipe, Grid(p, grid))
  BY <1>1, TableRecipeSound, HandRecipeSound DEF Output
<1>5. output \in Made \union {NoStack}
  BY <1>2, <1>4 DEF SoundRecipe
<1>6. cells' \in [Players -> SoundInventories(F)]
  BY <1>3, <1>4, ConsumedSound DEF SoundRecipe
<1>7. cursor' \in [Players -> SoundCells(F)]
  <2>1. cursor[p] \in SoundCells(F) /\ cursor \in [Players -> SoundCells(F)]
    BY QualityParts
  <2>2. output \in SoundStacks(F) /\ output.count \in Nat
    BY <1>5, OutputParts
  <2>3. Cell(output, 0) \in SoundCells(F) /\ Cell(output, 0).stack = output
    BY <2>2, CellSound
  <2>4. CASE IsEmpty(cursor[p])
    BY <1>3, <2>1, <2>3, <2>4
  <2>5. CASE ~IsEmpty(cursor[p])
    <3>1. PICK d : d = More(cursor[p], output.count)
      OBVIOUS
    <3>2. cursor' = [cursor EXCEPT ![p] = d]
      BY <1>3, <2>1, <2>5, <3>1
    <3>3. /\ cursor[p].stack.kind = output.kind
          /\ cursor[p].stack.count <= MaxStackSize(output.kind) - output.count
      BY <1>3, <2>3, <2>5 DEF Fits, SameCell, SameItem
    <3>4. cursor[p].stack.count \in Nat /\ MaxStackSize(output.kind) \in Nat
      BY <2>1, CellParts, StackParts, SizeType
    <3>5. cursor[p].stack.count + output.count <= MaxStackSize(cursor[p].stack.kind)
      BY <2>2, <3>3, <3>4
    <3>6. d \in SoundCells(F)
      BY <2>1, <2>2, <2>5, <3>1, <3>5, WithCount
    <3> QED BY <2>1, <3>2, <3>6
  <2> QED BY <2>4, <2>5
<1>8. (program \in [Players -> Seq(Ops)])'
  BY <1>3, SameProgram
<1> QED BY <1>3, <1>6, <1>7, <1>8, QualityParts, QualityNext

LEMMA DoGiveSound ==
  ASSUME NEW F, Quality(F), NEW p \in Players, DoGive(p), scene' = scene
  PROVE  Quality(F)'
<1>1. PICK recipe : recipe = CraftingTableRecipe(Grid(p, TableGrid))
  OBVIOUS
<1>2. PICK given : given = AddStack(Storage(p), recipe.output)
  OBVIOUS
<1>3. Now(p, "give") /\ UNCHANGED <<cursor, hand, chests, furnaces, ground, open, blocks, picked>>
  BY DEF DoGive, Rest
<1>4. SoundRecipe(recipe, Grid(p, TableGrid))
  BY <1>1, TableRecipeSound
<1>5. given \in [StorageSlots -> SoundCells(F)]
  <2>1. recipe.output \in Made \union {NoStack}
    BY <1>4 DEF SoundRecipe
  <2> QED BY <1>2, <2>1, StorageSound, AddMade
<1>6. CASE given = Storage(p)
  <2>1. Instead(p, <<>>) /\ UNCHANGED cells
    BY <1>1, <1>2, <1>6 DEF DoGive
  <2>2. (program \in [Players -> Seq(Ops)])'
    <3>1. Ops' = Ops
      BY DEF Ops
    <3>2. <<>> \in Seq(Ops)
      OBVIOUS
    <3> QED BY <2>1, <3>1, <3>2, QualityParts DEF Instead
  <2> QED BY <1>3, <2>1, <2>2, QualityParts, QualityNext
<1>7. CASE given # Storage(p)
  <2>1. PICK consumed : consumed = Consumed(p, TableGrid, recipe)
    OBVIOUS
  <2>2. /\ Then(p, <<>>)
        /\ cells' = [consumed EXCEPT ![p] = [pl \in Places |->
                        IF pl.in = "storage" THEN given[pl.slot] ELSE @[pl]]]
    BY <1>1, <1>2, <1>7, <2>1 DEF DoGive
  <2>3. consumed \in [Players -> SoundInventories(F)]
    BY <1>4, <2>1, ConsumedSound DEF SoundRecipe
  <2>4. PICK inv : inv = [pl \in Places |->
                             IF pl.in = "storage" THEN given[pl.slot] ELSE consumed[p][pl]]
    OBVIOUS
  <2>5. consumed[p] \in SoundInventories(F)
    BY <2>3
  <2>6. inv \in SoundInventories(F)
    BY <1>5, <2>4, <2>5, StorageMapSound
  <2>7. cells' = [consumed EXCEPT ![p] = inv]
    BY <2>2, <2>3, <2>4
  <2>8. cells' \in [Players -> SoundInventories(F)]
    BY <2>3, <2>6, <2>7, WithInventory
  <2>9. (program \in [Players -> Seq(Ops)])'
    BY <1>3, <2>2, DonePart
  <2> QED BY <1>3, <2>8, <2>9, QualityParts, QualityNext
<1> QED BY <1>6, <1>7

\* The steps that only change what players have.
LEMMA OnlyCells ==
  ASSUME NEW F, Quality(F), cells' \in [Players -> SoundInventories(F)],
         UNCHANGED <<cursor, hand, program, open, containers, ground, picked>>, scene' = scene
  PROVE  Quality(F)'
<1>1. (program \in [Players -> Seq(Ops)])'
  BY SameProgram
<1>2. UNCHANGED <<cursor, hand, open, chests, furnaces, blocks, ground, picked>>
  BY DEF containers
<1> QED BY <1>1, <1>2, QualityParts, QualityNext

LEMMA CraftCommandSound ==
  ASSUME NEW F, Quality(F), NEW p \in Players, NEW r \in Recipes, CraftCommand(p, r),
         scene' = scene
  PROVE  Quality(F)'
<1>1. PICK recipe : recipe = RecipeDefinition[r]
  OBVIOUS
<1>2. PICK paid : paid = TakeKinds(Storage(p), recipe.needs)
  OBVIOUS
<1>3. /\ cells' = WithStorage(p, AddStack(paid, recipe.output))
      /\ UNCHANGED <<cursor, hand, program, open, containers, ground, picked>>
  BY <1>1, <1>2 DEF CraftCommand
<1>4. /\ recipe.output \in Made
      /\ \A kind \in DOMAIN recipe.needs : recipe.needs[kind] \in Nat
  BY <1>1, CommandSound
<1>5. StorageSlots \in SUBSET Nat /\ IsFiniteSet(StorageSlots)
  BY InventoryAssumption
<1>6. paid \in [StorageSlots -> SoundCells(F)]
  BY <1>2, <1>4, <1>5, StorageSound, TakeKindsSound
<1>7. AddStack(paid, recipe.output) \in [StorageSlots -> SoundCells(F)]
  BY <1>4, <1>6, AddMade
<1>8. cells' \in [Players -> SoundInventories(F)]
  BY <1>3, <1>7, StorageSound
<1> QED BY <1>3, <1>8, OnlyCells

LEMMA SetSlot ==
  ASSUME NEW F, Quality(F), NEW p \in Players, NEW i \in StorageSlots,
         NEW cell \in SoundCells(F)
  PROVE  [cells EXCEPT ![p][InStorage(i)] = cell] \in [Players -> SoundInventories(F)]
<1>1. InStorage(i) \in Places /\ Lies(F, InStorage(i), cell)
  BY OtherParts DEF Lies
<1> QED BY <1>1, QualityParts, WithCell

LEMMA SlotOf ==
  ASSUME NEW F, Quality(F), NEW p \in Players, NEW i \in StorageSlots
  PROVE  /\ cells[p][InStorage(i)] \in SoundCells(F)
         /\ cells[p][InStorage(i)].stack \in SoundStacks(F)
         /\ cells[p][InStorage(i)].stack.count \in Nat
         /\ cells[p][InStorage(i)].stack.kind # "None" => cells[p][InStorage(i)].stack.count > 0
<1>1. InStorage(i) \in Places
  BY OtherParts
<1>2. cells[p][InStorage(i)] \in SoundCells(F)
  BY <1>1, CellOf
<1>3. cells[p][InStorage(i)].stack \in SoundStacks(F)
  BY <1>2, CellParts
<1> QED BY <1>2, <1>3, StackParts, SizeType

LEMMA EnchantSound ==
  ASSUME NEW F, Quality(F), NEW p \in Players, NEW i \in StorageSlots, Enchant(p, i),
         scene' = scene
  PROVE  Quality(F)'
<1>1. PICK c : c = cells[p][InStorage(i)]
  OBVIOUS
<1>2. PICK d : d = [c EXCEPT !.level = 1]
  OBVIOUS
<1>3. c \in SoundCells(F) /\ c.stack.kind \in Weapons
  BY <1>1, SlotOf DEF Enchant
<1>4. d \in SoundCells(F)
  BY <1>2, <1>3 DEF SoundCells
<1>5. cells' = [cells EXCEPT ![p][InStorage(i)] = d]
  <2>1. cells \in [Players -> SoundInventories(F)]
    BY QualityParts
  <2> QED BY <1>1, <1>2, <2>1 DEF Enchant
<1>6. cells' \in [Players -> SoundInventories(F)]
  BY <1>4, <1>5, SetSlot
<1> QED BY <1>6, OnlyCells DEF Enchant

LEMMA EatSound ==
  ASSUME NEW F, Quality(F), NEW p \in Players, NEW i \in StorageSlots, Eat(p, i),
         scene' = scene
  PROVE  Quality(F)'
<1>1. cells[p][InStorage(i)].stack.kind # "None"
  BY DEF Eat, Food
<1>2. 1 \in Nat /\ 1 <= cells[p][InStorage(i)].stack.count
  BY <1>1, SlotOf
<1>3. cells' = Without(p, i, 1)
  BY DEF Eat
<1> QED BY <1>2, <1>3, WithoutSound, OnlyCells DEF Eat

LEMMA DrinkMilkSound ==
  ASSUME NEW F, Quality(F), NEW p \in Players, NEW i \in StorageSlots, DrinkMilk(p, i),
         scene' = scene
  PROVE  Quality(F)'
<1>1. Cell(Stack("Bucket", 1), 0) \in SoundCells(F)
  BY KindFacts, PlainSound, SizeType, StackAssumption
<1>2. PICK c : c = Cell(Stack("Bucket", 1), 0)
  OBVIOUS
<1>3. cells' = [cells EXCEPT ![p][InStorage(i)] = c]
  BY <1>2 DEF DrinkMilk
<1> QED BY <1>1, <1>2, <1>3, SetSlot, OnlyCells DEF DrinkMilk

LEMMA FirstIn ==
  ASSUME NEW S \in SUBSET Nat, IsFiniteSet(S), S # {}
  PROVE  (CHOOSE j \in S : \A k \in S : j <= k) \in S
<1>1. \E j \in S : \A k \in S : j <= k
  BY InOrderType
<1> QED BY <1>1

LEMMA FillBucketSound ==
  ASSUME NEW F, Quality(F), NEW p \in Players, NEW i \in StorageSlots, FillBucket(p, i),
         scene' = scene
  PROVE  Quality(F)'
<1> DEFINE slot == InStorage(i)
           free == {j \in StorageSlots : IsEmpty(cells[p][InStorage(j)])}
           first == CHOOSE j \in free : \A k \in free : j <= k
<1>1. PICK milk : milk = Cell(Stack("MilkBucket", 1), 0)
  OBVIOUS
<1>2. milk \in SoundCells(F)
  BY <1>1, KindFacts, PlainSound, SizeType, StackAssumption
<1>3. CASE cells[p][slot].stack.count = 1
  <2>1. cells' = [cells EXCEPT ![p][slot] = milk]
    BY <1>1, <1>3 DEF FillBucket
  <2> QED BY <1>2, <2>1, SetSlot, OnlyCells DEF FillBucket
<1>4. CASE cells[p][slot].stack.count # 1
  <2>1. /\ free # {}
        /\ cells' = [cells EXCEPT ![p][slot].stack.count = @ - 1, ![p][InStorage(first)] = milk]
    BY <1>1, <1>4 DEF FillBucket
  <2>2. first \in StorageSlots
    <3>1. free \in SUBSET Nat /\ IsFiniteSet(free)
      BY InventoryAssumption, FS_Subset
    <3> HIDE DEF free
    <3>2. first \in free
      BY <2>1, <3>1, FirstIn
    <3> QED BY <3>2 DEF free
  <2> HIDE DEF first
  <2>3. PICK c : c = cells[p][slot]
    OBVIOUS
  <2>4. PICK d : d = [c EXCEPT !.stack.count = @ - 1]
    OBVIOUS
  <2>5. c \in SoundCells(F) /\ c.stack.kind = "Bucket" /\ c.stack \in SoundStacks(F)
    BY <2>3, SlotOf DEF FillBucket
  <2>6. c.stack.count \in Nat /\ c.stack.count > 1
    BY <1>4, <2>3, <2>5, SlotOf
  <2>7. d = Minus(c, 1)
    <3>1. c = [stack |-> c.stack, level |-> c.level]
          /\ c.stack = [kind |-> c.stack.kind, damage |-> c.stack.damage, count |-> c.stack.count]
      BY <2>5, CellParts, StackParts DEF StackType
    <3>2. Some(c.stack, c.stack.count - 1) = [c.stack EXCEPT !.count = c.stack.count - 1]
      BY <2>6 DEF Some
    <3>3. [c.stack EXCEPT !.count = c.stack.count - 1] # NoStack
      BY <2>6, <3>1 DEF NoStack
    <3>4. Minus(c, 1) = [stack |-> [c.stack EXCEPT !.count = c.stack.count - 1],
                         level |-> c.level]
      BY <3>2, <3>3 DEF Minus, Cell
    <3> QED BY <2>4, <3>1, <3>4
  <2>8. d \in SoundCells(F)
    BY <2>5, <2>6, <2>7, MinusSound
  <2>9. PICK between : between = [cells EXCEPT ![p][slot] = d]
    OBVIOUS
  <2>10. between \in [Players -> SoundInventories(F)]
    BY <2>8, <2>9, SetSlot
  <2>11. cells' = [between EXCEPT ![p][InStorage(first)] = milk]
    <3>1. cells \in [Players -> SoundInventories(F)]
      BY QualityParts
    <3> QED BY <2>1, <2>3, <2>4, <2>9, <3>1
  <2>12. InStorage(first) \in Places /\ Lies(F, InStorage(first), milk)
    BY <1>2, <2>2, OtherParts DEF Lies
  <2>13. cells' \in [Players -> SoundInventories(F)]
    BY <2>10, <2>11, <2>12, WithCell
  <2> QED BY <2>13, OnlyCells DEF FillBucket
<1> QED BY <1>3, <1>4

-----------------------------------------------------------------------------
(* Wear.                                                                   *)

LEMMA DamagedSound ==
  ASSUME NEW F, NEW c \in SoundCells(F), c.stack.kind \in F, ~IsEmpty(c),
         c.stack.damage + 1 < MaxDamage, NEW d, d = [c EXCEPT !.stack.damage = @ + 1]
  PROVE  d \in SoundCells(F) /\ d.stack.kind = c.stack.kind
<1>1. /\ c.stack \in SoundStacks(F) /\ c.level \in 0 .. 1
      /\ c = [stack |-> c.stack, level |-> c.level]
      /\ c.stack.count \in 1 .. MaxStackSize(c.stack.kind)
  BY CellParts, StackParts, SizeType DEF IsEmpty
<1>2. c.stack \in StackType /\ c.stack.kind # "None" /\ c.stack.damage \in 0 .. MaxDamage - 1
  BY <1>1, StackParts DEF IsEmpty
<1>3. PICK t : t = [c.stack EXCEPT !.damage = @ + 1]
  OBVIOUS
<1>4. t = [kind |-> c.stack.kind, damage |-> c.stack.damage + 1, count |-> c.stack.count]
  BY <1>2, <1>3 DEF StackType
<1>5. c.stack.damage + 1 \in 0 .. MaxDamage - 1
  BY <1>2, StackAssumption
<1>6. t \in StackType /\ t.kind = c.stack.kind /\ t.count = c.stack.count
  BY <1>2, <1>4, <1>5 DEF StackType
<1>7. t \in SoundStacks(F)
  BY <1>1, <1>2, <1>6, NewStackSound
<1>8. d = [stack |-> t, level |-> c.level]
  BY <1>1, <1>3
<1> QED BY <1>1, <1>6, <1>7, <1>8, CellParts DEF SoundCells

LEMMA WornSound ==
  ASSUME NEW F, NEW c \in SoundCells(F), Wearing \subseteq F
  PROVE  Worn(c) \in SoundCells(F)
<1>1. CASE c.stack.kind \in Wearing /\ ~(c.stack.damage + 1 >= MaxDamage)
  <2>1. PICK d : d = [c EXCEPT !.stack.damage = @ + 1]
    OBVIOUS
  <2>2. Worn(c) = d
    BY <1>1, <2>1 DEF Worn
  <2>3. ~IsEmpty(c)
    BY <1>1, KindFacts DEF IsEmpty, NoStack
  <2>4. c.stack.damage + 1 < MaxDamage
    BY <1>1, CellParts, StackParts, StackAssumption
  <2> QED BY <1>1, <2>1, <2>2, <2>3, <2>4, DamagedSound
<1>2. CASE ~(c.stack.kind \in Wearing /\ ~(c.stack.damage + 1 >= MaxDamage))
  BY <1>2, EmptySound DEF Worn
<1> QED BY <1>1, <1>2

LEMMA WornOutSound ==
  ASSUME NEW F, NEW c \in SoundCells(F), IsEmpty(c) \/ c.stack.kind \in F
  PROVE  /\ WornOut(c) \in SoundCells(F)
         /\ WornOut(c).stack.kind \in {c.stack.kind, "None"}
<1>1. CASE ~IsEmpty(c) /\ ~(c.stack.damage + 1 >= MaxDamage)
  <2>1. PICK d : d = [c EXCEPT !.stack.damage = @ + 1]
    OBVIOUS
  <2>2. WornOut(c) = d
    BY <1>1, <2>1 DEF WornOut
  <2>3. c.stack.damage + 1 < MaxDamage
    BY <1>1, CellParts, StackParts, StackAssumption
  <2> QED BY <1>1, <2>1, <2>2, <2>3, DamagedSound
<1>2. CASE ~(~IsEmpty(c) /\ ~(c.stack.damage + 1 >= MaxDamage))
  <2>1. WornOut(c) \in {c, Empty}
    BY <1>2 DEF WornOut
  <2> QED BY <2>1, EmptySound
<1> QED BY <1>1, <1>2

LEMMA WearSound ==
  ASSUME NEW F, Quality(F), NEW p \in Players, NEW i \in StorageSlots, Wear(p, i),
         Wearing \subseteq F
  PROVE  cells' \in [Players -> SoundInventories(F)]
<1>1. PICK d : d = Worn(cells[p][InStorage(i)])
  OBVIOUS
<1>2. d \in SoundCells(F)
  BY <1>1, SlotOf, WornSound
<1>3. cells' = [cells EXCEPT ![p][InStorage(i)] = d]
  BY <1>1, QualityParts DEF Wear
<1> QED BY <1>2, <1>3, SetSlot

LEMMA HitSound ==
  ASSUME NEW F, Quality(F), NEW p \in Players, NEW i \in StorageSlots, Hit(p, i),
         Wearing \subseteq F, scene' = scene
  PROVE  Quality(F)'
<1>1. Wear(p, i) /\ UNCHANGED program
  BY DEF Hit
<1>2. UNCHANGED <<cursor, hand, open, containers, ground, picked>>
  BY <1>1 DEF Wear
<1> QED BY <1>1, <1>2, WearSound, OnlyCells

LEMMA DoWearSound ==
  ASSUME NEW F, Quality(F), NEW p \in Players, DoWear(p), Wearing \subseteq F, scene' = scene
  PROVE  Quality(F)'
<1>1. Now(p, "wear") /\ Wear(p, Next1(p).slot) /\ Then(p, <<>>)
  BY DEF DoWear
<1>2. UNCHANGED <<cursor, hand, open, chests, furnaces, blocks, ground, picked>>
  BY <1>1 DEF Wear, containers
<1>3. (program \in [Players -> Seq(Ops)])'
  BY <1>1, DonePart
<1>4. Next1(p) \in Ops /\ Next1(p).op = "wear"
  BY <1>1, NowParts
<1>5. Next1(p).slot \in StorageSlots
  BY <1>4, BlockOpParts
<1>6. cells' \in [Players -> SoundInventories(F)]
  BY <1>1, <1>5, WearSound
<1> QED BY <1>2, <1>3, <1>6, QualityParts, QualityNext

LEMMA DoTakeSound ==
  ASSUME NEW F, Quality(F), NEW p \in Players, DoTake(p), scene' = scene
  PROVE  Quality(F)'
<1> DEFINE i == Next1(p).slot
<1>1. /\ Now(p, "take") /\ Then(p, <<>>)
      /\ cells' = IF IsEmpty(cells[p][InStorage(i)]) THEN cells ELSE Without(p, i, 1)
      /\ UNCHANGED <<cursor, hand, chests, furnaces, ground, open, blocks, picked>>
  BY DEF DoTake, Rest
<1>2. i \in StorageSlots
  BY <1>1, NowParts, BlockOpParts
<1> HIDE DEF i
<1>3. (program \in [Players -> Seq(Ops)])'
  BY <1>1, DonePart
<1>4. cells' \in [Players -> SoundInventories(F)]
  <2>1. CASE IsEmpty(cells[p][InStorage(i)])
    BY <1>1, <2>1, QualityParts
  <2>2. CASE ~IsEmpty(cells[p][InStorage(i)])
    <3>1. cells[p][InStorage(i)].stack \in SoundStacks(F)
      BY <1>2, SlotOf
    <3>2. cells[p][InStorage(i)].stack.kind # "None"
      BY <2>2, <3>1, StackParts DEF IsEmpty
    <3>3. 1 \in Nat /\ 1 <= cells[p][InStorage(i)].stack.count
      BY <1>2, <3>2, SlotOf
    <3> QED BY <1>1, <1>2, <2>2, <3>3, WithoutSound
  <2> QED BY <2>1, <2>2
<1> QED BY <1>1, <1>3, <1>4, QualityParts, QualityNext

-----------------------------------------------------------------------------
(* Blocks.                                                                 *)

LEMMA AllDroppedSound ==
  ASSUME NEW F, Quality(F), NEW stacks \in Seq(SoundStacks(F) \ {NoStack})
  PROVE  /\ AllDropped(stacks) \in Seq(SoundStacks(F) \ {NoStack})
         /\ Len(AllDropped(stacks)) <= GroundSize
<1> DEFINE S == SoundStacks(F) \ {NoStack}
           all == ground \o stacks
<1>1. ground \in Seq(S)
  BY QualityParts
<1> HIDE DEF S
<1>2. all \in Seq(S) /\ Len(all) \in Nat
  BY <1>1, ConcatProperties, LenProperties DEF S
<1>3. GroundSize \in Nat /\ GroundSize > 0
  BY InventoryAssumption
<1> HIDE DEF all
<1>4. CASE Len(all) <= GroundSize
  BY <1>2, <1>4 DEF AllDropped, all, S
<1>5. CASE ~(Len(all) <= GroundSize)
  <2>1. PICK m : m = Len(all) - GroundSize + 1
    OBVIOUS
  <2>2. m \in Int /\ Len(all) \in Int /\ m >= 1 /\ m <= Len(all)
        /\ Len(all) - m + 1 = GroundSize
    BY <1>2, <1>3, <1>5, <2>1
  <2>3. \A i \in m .. Len(all) : all[i] \in S
    <3>1. ASSUME NEW i \in m .. Len(all)
          PROVE  all[i] \in S
      <4>1. i \in 1 .. Len(all)
        BY <1>2, <2>2
      <4> QED BY <1>2, <4>1, ElementOfSeq
    <3> QED BY <3>1
  <2>4. /\ SubSeq(all, m, Len(all)) \in Seq(S)
        /\ Len(SubSeq(all, m, Len(all))) = GroundSize
    BY <2>2, <2>3, SubSeqProperties
  <2>5. AllDropped(stacks) = SubSeq(all, m, Len(all))
    BY <1>5, <2>1 DEF AllDropped, all
  <2> QED BY <1>3, <2>4, <2>5 DEF S
<1> QED BY <1>4, <1>5

LEMMA ContainedSound ==
  ASSUME NEW F, Quality(F), NEW pos \in Positions, NEW kind
  PROVE  Contained(pos, kind) \in Seq(SoundStacks(F) \ {NoStack})
<1> DEFINE S == SoundStacks(F) \ {NoStack}
           full == {i \in DOMAIN HeldIn(pos, kind) : HeldIn(pos, kind)[i] # NoStack}
<1>1. PICK held : held = HeldIn(pos, kind)
  OBVIOUS
<1>2. IsFiniteSet(DOMAIN held) /\ \A i \in DOMAIN held : held[i] \in SoundStacks(F)
  <2>1. CASE kind = "Chest"
    <3>1. held = [i \in ChestSlots |-> ChestAt(pos)[i].stack]
      BY <1>1, <2>1 DEF HeldIn
    <3>2. \A i \in ChestSlots : ChestAt(pos)[i].stack \in SoundStacks(F)
      BY ChestSound, CellParts
    <3> QED BY <3>1, <3>2, InventoryAssumption
  <2>2. CASE kind = "Furnace"
    <3>1. held = [i \in FurnaceSlots |-> furnaces[pos][i]]
      BY <1>1, <2>2 DEF HeldIn
    <3>2. \A i \in FurnaceSlots : furnaces[pos][i] \in SoundStacks(F)
      BY QualityParts, FurnaceParts
    <3>3. IsFiniteSet(FurnaceSlots)
      <4>1. FurnaceSlots = {"input"} \union {"fuel"} \union {"output"}
        BY DEF FurnaceSlots
      <4> QED BY <4>1, FS_Singleton, FS_Union
    <3> QED BY <3>1, <3>2, <3>3
  <2>3. CASE kind \notin {"Chest", "Furnace"}
    <3>1. held = <<>> /\ DOMAIN held = {}
      BY <1>1, <2>3 DEF HeldIn
    <3> QED BY <3>1, FS_EmptySet
  <2> QED BY <2>1, <2>2, <2>3
<1>3. PICK filled : filled = {i \in DOMAIN held : held[i] # NoStack}
  OBVIOUS
<1>4. IsFiniteSet(filled)
  BY <1>2, <1>3, FS_Subset
<1>5. PICK order : order = SetToSeq(filled)
  OBVIOUS
<1>6. /\ order \in [1 .. Cardinality(filled) -> filled] /\ Cardinality(filled) \in Nat
      /\ DOMAIN order = 1 .. Cardinality(filled)
  BY <1>4, <1>5, SetToSeqType
<1>7. Contained(pos, kind) = [n \in DOMAIN order |-> held[order[n]]]
  BY <1>1, <1>3, <1>5 DEF Contained
<1>8. \A n \in 1 .. Cardinality(filled) : held[order[n]] \in S
  BY <1>2, <1>3, <1>6
<1> HIDE DEF S
<1>9. [n \in 1 .. Cardinality(filled) |-> held[order[n]]] \in Seq(S)
  BY <1>6, <1>8
<1> QED BY <1>6, <1>7, <1>9 DEF S

LEMMA DoEmptySound ==
  ASSUME NEW F, Quality(F), NEW p \in Players, DoEmpty(p), scene' = scene
  PROVE  Quality(F)'
<1> DEFINE e == Next1(p)
<1>1. /\ Now(p, "empty") /\ Then(p, <<>>)
      /\ ground' = AllDropped(Contained(e.at, e.kind))
      /\ chests' \in {chests, [chests EXCEPT ![e.at] = NoChest]}
      /\ furnaces' \in {furnaces, [furnaces EXCEPT ![e.at] = EmptyFurnace]}
      /\ UNCHANGED <<cursor, hand, cells, open, blocks, picked>>
  BY DEF DoEmpty, Rest
<1>2. e.at \in Positions
  BY <1>1, NowParts, BlockOpParts
<1> HIDE DEF e
<1>3. (program \in [Players -> Seq(Ops)])'
  BY <1>1, DonePart
<1>4. ground' \in Seq(SoundStacks(F) \ {NoStack}) /\ Len(ground') <= GroundSize
  BY <1>1, <1>2, ContainedSound, AllDroppedSound
<1>5. chests' \in [Positions -> ChestType(SoundCells(F))]
  <2>1. NoChest \in ChestType(SoundCells(F))
    BY DEF ChestType
  <2> QED BY <1>1, <2>1, QualityParts
<1>6. furnaces' \in [Positions -> FurnaceType(SoundStacks(F))]
  <2>1. EmptyFurnace \in FurnaceType(SoundStacks(F))
    BY EmptySound DEF EmptyFurnace, FurnaceType
  <2> QED BY <1>1, <2>1, QualityParts
<1> QED BY <1>1, <1>3, <1>4, <1>5, <1>6, QualityParts, QualityNext

LEMMA ContainerBlocks == {"Air", "Chest", "Furnace"} \subseteq Blocks
BY DEF Blocks, Unbreakable, AxeBlocks, PickaxeBlocks

LEMMA DoAirSound ==
  ASSUME NEW F, Quality(F), NEW p \in Players, DoAir(p), scene' = scene
  PROVE  Quality(F)'
<1>1. /\ Now(p, "air") /\ Then(p, <<>>)
      /\ blocks' = [blocks EXCEPT ![Next1(p).at] = "Air"]
      /\ UNCHANGED <<cursor, hand, cells, chests, furnaces, ground, open, picked>>
  BY DEF DoAir, SetBlock
<1>2. (program \in [Players -> Seq(Ops)])'
  BY <1>1, DonePart
<1>3. blocks' \in [Positions -> Blocks]
  BY <1>1, ContainerBlocks, QualityParts
<1> QED BY <1>1, <1>2, <1>3, QualityParts, QualityNext

LEMMA MonotoneStacks ==
  ASSUME NEW F
  PROVE  SoundStacks({}) \subseteq SoundStacks(F)
BY DEF SoundStacks

LEMMA DoBlockDropSound ==
  ASSUME NEW F, Quality(F), NEW p \in Players, DoBlockDrop(p), scene' = scene
  PROVE  Quality(F)'
<1> DEFINE drop == Next1(p).drop
<1>1. /\ Now(p, "block drop") /\ Then(p, <<>>)
      /\ ground' = IF drop = NoStack THEN ground ELSE Dropped(drop)
      /\ UNCHANGED <<cursor, hand, cells, chests, furnaces, open, blocks, picked>>
  BY DEF DoBlockDrop, Rest
<1>2. drop \in SoundStacks(F)
  BY <1>1, NowParts, BlockOpParts, MonotoneStacks
<1> HIDE DEF drop
<1>3. (program \in [Players -> Seq(Ops)])'
  BY <1>1, DonePart
<1>4. ground' \in Seq(SoundStacks(F) \ {NoStack}) /\ Len(ground') <= GroundSize
  <2>1. CASE drop = NoStack
    BY <1>1, <2>1, QualityParts
  <2>2. CASE drop # NoStack
    BY <1>1, <1>2, <2>2, DroppedSound
  <2> QED BY <2>1, <2>2
<1> QED BY <1>1, <1>3, <1>4, QualityParts, QualityNext

LEMMA DoBlockSound ==
  ASSUME NEW F, Quality(F), NEW p \in Players, DoBlock(p), scene' = scene
  PROVE  Quality(F)'
<1> DEFINE b == Next1(p)
           take == [op |-> "take", slot |-> b.slot, kind |-> b.kind]
<1>1. Now(p, "block") /\ UNCHANGED <<cursor, hand, cells, chests, furnaces, ground, open, picked>>
  BY DEF DoBlock
<1>2. b \in Ops /\ b.op = "block"
  BY <1>1, NowParts
<1>3. /\ b.at \in Positions /\ b.kind \in {"Chest", "Furnace"} /\ b.slot \in StorageSlots
  BY <1>2, BlockOpParts
<1>4. <<take>> \in Seq(Ops) /\ <<>> \in Seq(Ops)
  <2>1. take \in Ops
    BY <1>3, BlockOpIn
  <2> HIDE DEF take
  <2> QED BY <2>1, FewOps
<1>5. /\ Then(p, <<>>) \/ Then(p, <<take>>)
      /\ blocks' \in {blocks, [blocks EXCEPT ![b.at] = b.kind]}
  BY DEF DoBlock, SetBlock
<1> HIDE DEF take
<1>6. (program \in [Players -> Seq(Ops)])'
  BY <1>1, <1>4, <1>5, ThenType
<1>7. blocks' \in [Positions -> Blocks]
  BY <1>3, <1>5, ContainerBlocks, QualityParts
<1> QED BY <1>1, <1>6, <1>7, QualityParts, QualityNext

\* The gestures of the blocks start a program of the session.
LEMMA ProgramSet ==
  ASSUME NEW F, Quality(F), NEW p \in Players, NEW ops \in Seq(Ops),
         program' = [program EXCEPT ![p] = ops],
         UNCHANGED <<cursor, hand, open>>, NoItems, scene' = scene
  PROVE  Quality(F)'
<1>1. (program \in [Players -> Seq(Ops)])'
  <2>1. Ops' = Ops
    BY DEF Ops
  <2> QED BY <2>1, QualityParts
<1>2. UNCHANGED <<cells, chests, furnaces, blocks, ground, picked>>
  BY DEF NoItems, containers
<1> QED BY <1>1, <1>2, QualityParts, QualityNext

LEMMA MineSound ==
  ASSUME NEW F, Quality(F), NEW p \in Players, NEW pos \in Positions, NEW i \in StorageSlots,
         Mine(p, pos, i), scene' = scene
  PROVE  Quality(F)'
<1>1. PICK tool : tool = cells[p][InStorage(i)].stack.kind
  OBVIOUS
<1>2. PICK drop \in Drops(blocks[pos], tool) :
          program' = [program EXCEPT ![p] =
                  <<[op |-> "empty", at |-> pos, kind |-> blocks[pos]],
                    [op |-> "air", at |-> pos],
                    [op |-> "block drop", drop |-> drop]>>
                  \o (IF IsTool(tool) THEN <<[op |-> "wear", slot |-> i]>> ELSE <<>>)]
  BY <1>1 DEF Mine
<1>3. blocks[pos] \in Blocks
  BY QualityParts
<1>4. drop \in SoundStacks({})
  BY <1>3, DropSound, OutputParts
<1> DEFINE empty == [op |-> "empty", at |-> pos, kind |-> blocks[pos]]
           air == [op |-> "air", at |-> pos]
           falls == [op |-> "block drop", drop |-> drop]
           wear == [op |-> "wear", slot |-> i]
           worn == IF IsTool(tool) THEN <<wear>> ELSE <<>>
<1>5. empty \in Ops /\ air \in Ops /\ falls \in Ops /\ wear \in Ops
  BY <1>3, <1>4, BlockOpIn
<1>6. program' = [program EXCEPT ![p] = <<empty, air, falls>> \o worn]
  BY <1>2
<1> HIDE DEF empty, air, falls, wear
<1>7. <<empty, air, falls>> \in Seq(Ops) /\ worn \in Seq(Ops)
  BY <1>5, FewOps
<1> HIDE DEF worn
<1>8. <<empty, air, falls>> \o worn \in Seq(Ops)
  BY <1>7, ConcatProperties
<1>9. UNCHANGED <<cursor, hand, open>> /\ NoItems
  BY DEF Mine
<1> QED BY <1>6, <1>8, <1>9, ProgramSet

LEMMA PlaceBlockSound ==
  ASSUME NEW F, Quality(F), NEW p \in Players, NEW pos \in Positions, NEW i \in StorageSlots,
         PlaceBlock(p, pos, i), scene' = scene
  PROVE  Quality(F)'
<1> DEFINE block == [op |-> "block", at |-> pos, kind |-> cells[p][InStorage(i)].stack.kind,
                     slot |-> i]
<1>1. cells[p][InStorage(i)].stack.kind \in {"Chest", "Furnace"}
      /\ program' = [program EXCEPT ![p] = <<block>>]
      /\ UNCHANGED <<cursor, hand, open>> /\ NoItems
  BY DEF PlaceBlock
<1>2. block \in Ops
  BY <1>1, BlockOpIn
<1> HIDE DEF block
<1>3. <<block>> \in Seq(Ops)
  BY <1>2, FewOps
<1> QED BY <1>1, <1>3, ProgramSet

-----------------------------------------------------------------------------
(* The tick thread.                                                        *)

LEMMA TickFurnacesSound ==
  ASSUME NEW F, Quality(F), TickFurnaces, scene' = scene
  PROVE  Quality(F)'
<1>1. /\ furnaces' = [pos \in Positions |-> Ticked(furnaces[pos])]
      /\ UNCHANGED <<cells, cursor, hand, program, open, chests, blocks, ground, picked>>
  BY DEF TickFurnaces
<1>2. furnaces' \in [Positions -> FurnaceType(SoundStacks(F))]
  BY <1>1, TickedSound, QualityParts
<1>3. (program \in [Players -> Seq(Ops)])'
  BY <1>1, SameProgram
<1> QED BY <1>1, <1>2, <1>3, QualityParts, QualityNext

LEMMA CollectPickupsSound ==
  ASSUME NEW F, Quality(F), NEW S \in SUBSET DOMAIN ground, NEW near \in [S -> Gestures],
         CollectPickups(near), scene' = scene
  PROVE  Quality(F)'
<1> DEFINE G == SoundStacks(F) \ {NoStack}
           P == [player : Players, stack : G]
<1>1. ground \in Seq(G) /\ DOMAIN ground = 1 .. Len(ground) /\ Len(ground) \in Nat
      /\ Len(ground) <= GroundSize
  BY QualityParts, LenProperties
<1> HIDE DEF G
<1>2. \A n \in DOMAIN ground : ground[n] \in G
  BY <1>1, ElementOfSeq
<1>3. IsFiniteSet(DOMAIN ground) /\ Cardinality(DOMAIN ground) = Len(ground)
      /\ DOMAIN ground \in SUBSET Nat
  <2>1. 1 \in Int /\ Len(ground) \in Int
    BY <1>1
  <2>2. /\ IsFiniteSet(1 .. Len(ground))
        /\ Cardinality(1 .. Len(ground)) = IF 1 > Len(ground) THEN 0 ELSE Len(ground) - 1 + 1
    BY <2>1, FS_Interval
  <2> QED BY <1>1, <2>2
<1>4. DOMAIN near = S /\ S \in SUBSET Nat /\ IsFiniteSet(S)
  BY <1>3, FS_Subset
<1>5. PICK order : order = InOrder(S)
  OBVIOUS
<1>6. order \in [1 .. Cardinality(S) -> S] /\ Cardinality(S) \in Nat
  BY <1>4, <1>5, InOrderType
<1>7. picked' \in Seq(P)
  <2>1. picked' = [n \in 1 .. Cardinality(S) |->
                      [player |-> near[order[n]], stack |-> ground[order[n]]]]
    BY <1>4, <1>5 DEF CollectPickups, Collected
  <2>2. ASSUME NEW n \in 1 .. Cardinality(S)
        PROVE  [player |-> near[order[n]], stack |-> ground[order[n]]] \in P
    <3>1. order[n] \in S /\ order[n] \in DOMAIN ground
      BY <1>6
    <3>2. near[order[n]] \in Players
      BY <3>1, ItemsAssumption
    <3>3. ground[order[n]] \in G
      BY <1>2, <3>1
    <3> QED BY <3>2, <3>3
  <2> HIDE DEF P
  <2> QED BY <1>6, <2>1, <2>2
<1>8. PICK rest : rest = DOMAIN ground \ S
  OBVIOUS
<1>9. rest \in SUBSET Nat /\ IsFiniteSet(rest) /\ Cardinality(rest) <= Len(ground)
  BY <1>3, <1>8, FS_Subset
<1>10. PICK left : left = InOrder(rest)
  OBVIOUS
<1>11. /\ left \in [1 .. Cardinality(rest) -> rest] /\ Cardinality(rest) \in Nat
       /\ DOMAIN left = 1 .. Cardinality(rest)
  BY <1>9, <1>10, InOrderType
<1>12. ground' = [n \in 1 .. Cardinality(rest) |-> ground[left[n]]]
  BY <1>4, <1>8, <1>10, <1>11 DEF CollectPickups
<1>13. ground' \in Seq(G) /\ Len(ground') <= GroundSize
  <2>1. \A n \in 1 .. Cardinality(rest) : ground[left[n]] \in G
    BY <1>2, <1>8, <1>11
  <2>2. PICK m : m = Cardinality(rest)
    OBVIOUS
  <2>3. m \in Nat /\ m <= Len(ground) /\ ground' \in [1 .. m -> G]
    BY <1>9, <1>11, <1>12, <2>1, <2>2
  <2>4. ground' \in Seq(G) /\ Len(ground') = m
    BY <2>3
  <2>5. GroundSize \in Nat
    BY InventoryAssumption
  <2> QED BY <1>1, <2>3, <2>4, <2>5
<1>14. UNCHANGED <<cells, cursor, hand, program, open, chests, furnaces, blocks>>
  BY DEF CollectPickups, containers
<1>15. (program \in [Players -> Seq(Ops)])'
  BY <1>14, SameProgram
<1> QED BY <1>7, <1>13, <1>14, <1>15, QualityParts, QualityNext DEF G

LEMMA AddPlain ==
  ASSUME NEW F, Quality(F), NEW p \in Players, NEW kind \in Kinds, NEW n \in Nat
  PROVE  WithStorage(p, AddStack(Storage(p), Stack(kind, n))) \in [Players -> SoundInventories(F)]
<1>1. PICK s : s = Stack(kind, n)
  OBVIOUS
<1>2. s = [kind |-> kind, damage |-> 0, count |-> n]
  BY <1>1 DEF Stack
<1>3. 0 \in 0 .. MaxDamage - 1
  BY StackAssumption
<1>4. s \in StackType /\ s.kind = kind /\ ~(s.damage > 0)
  BY <1>2, <1>3 DEF StackType
<1>5. s.kind # "None"
  BY <1>4, KindFacts
<1>6. IsFiniteSet(StorageSlots)
  BY InventoryAssumption
<1>7. AddStack(Storage(p), s) \in [StorageSlots -> SoundCells(F)]
  BY <1>4, <1>5, <1>6, StorageSound, AddStackSound
<1> QED BY <1>1, <1>7, StorageSound

LEMMA GivePickupSound ==
  ASSUME NEW F, Quality(F), GivePickup, scene' = scene
  PROVE  Quality(F)'
<1> DEFINE G == SoundStacks(F) \ {NoStack}
           P == [player : Players, stack : G]
<1>1. PICK p : p = Head(picked).player
  OBVIOUS
<1>2. PICK stack : stack = Head(picked).stack
  OBVIOUS
<1>3. picked \in Seq(P) /\ picked # <<>>
  BY QualityParts DEF GivePickup
<1> HIDE DEF P
<1>4. Head(picked) \in P /\ Tail(picked) \in Seq(P)
  BY <1>3, HeadTailProperties
<1>5. p \in Players /\ stack \in G
  BY <1>1, <1>2, <1>4 DEF P
<1>6. stack \in SoundStacks(F) /\ stack # NoStack /\ stack.kind \in Kinds /\ stack.count \in Nat
  BY <1>5, StackParts, SizeType
<1>7. /\ cells' = WithStorage(p, AddStack(Storage(p), Stack(stack.kind, stack.count)))
      /\ ground' \in {ground, Dropped(stack)}
      /\ picked' = Tail(picked)
      /\ UNCHANGED <<cursor, hand, program, open, chests, furnaces, blocks>>
  BY <1>1, <1>2 DEF GivePickup, containers
<1>8. cells' \in [Players -> SoundInventories(F)]
  BY <1>5, <1>6, <1>7, AddPlain
<1>9. ground' \in Seq(G) /\ Len(ground') <= GroundSize
  BY <1>6, <1>7, DroppedSound, QualityParts
<1>10. picked' \in Seq(P)
  BY <1>4, <1>7
<1>11. (program \in [Players -> Seq(Ops)])'
  BY <1>7, SameProgram
<1> QED BY <1>7, <1>8, <1>9, <1>10, <1>11, QualityParts, QualityNext DEF P

LEMMA DespawnSound ==
  ASSUME NEW F, Quality(F), Despawn, scene' = scene
  PROVE  Quality(F)'
<1> DEFINE G == SoundStacks(F) \ {NoStack}
<1>1. /\ ground # <<>> /\ ground' = Tail(ground)
      /\ UNCHANGED <<cells, cursor, hand, program, open, chests, furnaces, blocks, picked>>
  BY DEF Despawn, containers
<1>2. ground \in Seq(G) /\ Len(ground) <= GroundSize
  BY QualityParts
<1> HIDE DEF G
<1>3. Tail(ground) \in Seq(G) /\ Len(Tail(ground)) = Len(ground) - 1 /\ Len(ground) \in Nat
  BY <1>1, <1>2, HeadTailProperties, LenProperties
<1>4. GroundSize \in Nat
  BY InventoryAssumption
<1>5. ground' \in Seq(G) /\ Len(ground') <= GroundSize
  BY <1>1, <1>2, <1>3, <1>4
<1>6. (program \in [Players -> Seq(Ops)])'
  BY <1>1, SameProgram
<1> QED BY <1>1, <1>5, <1>6, QualityParts, QualityNext DEF G

-----------------------------------------------------------------------------
(* The console.                                                            *)

LEMMA GiveCommandSound ==
  ASSUME NEW F, Quality(F), NEW p \in Players, NEW g \in Gifts, GiveCommand(p, g[1], g[2]),
         scene' = scene
  PROVE  Quality(F)'
<1>1. g[1] \in Kinds /\ g[2] \in Nat
  BY ItemsAssumption
<1>2. cells' = WithStorage(p, AddStack(Storage(p), Stack(g[1], g[2])))
  BY DEF GiveCommand
<1>3. cells' \in [Players -> SoundInventories(F)]
  BY <1>1, <1>2, AddPlain
<1> QED BY <1>3, OnlyCells DEF GiveCommand

LEMMA EquipSound ==
  ASSUME NEW F, Quality(F), NEW p \in Players, NEW S \in SUBSET Places,
         NEW worn, worn \in [S -> SoundCells(F)],
         \A place \in S : Lies(F, place, worn[place]), Equip(p, worn), scene' = scene
  PROVE  Quality(F)'
<1> DEFINE inv == [pl \in Places |-> IF pl \in DOMAIN worn THEN worn[pl] ELSE cells[p][pl]]
<1>1. DOMAIN worn = S
  OBVIOUS
<1>2. inv = [pl \in Places |-> IF pl \in S THEN worn[pl] ELSE cells[p][pl]]
  BY <1>1
<1>3. cells' = [cells EXCEPT ![p] = inv]
  BY QualityParts DEF Equip
<1> HIDE DEF inv
<1>4. \A pl \in Places : Lies(F, pl, inv[pl])
  BY <1>2, CellOf DEF Lies
<1>5. inv \in [Places -> SoundCells(F)]
  BY <1>2, <1>4 DEF Lies
<1>6. inv \in SoundInventories(F)
  BY <1>4, <1>5, InventoryMap
<1>7. cells' \in [Players -> SoundInventories(F)]
  BY <1>3, <1>6, QualityParts
<1> QED BY <1>7, OnlyCells DEF Equip

LEMMA EquipShieldSound ==
  ASSUME NEW F, Quality(F), NEW p \in Players, EquipShield(p), scene' = scene
  PROVE  Quality(F)'
<1>1. PICK shield : shield = Cell(Stack("Shield", 1), 0)
  OBVIOUS
<1>2. shield \in SoundCells(F)
  BY <1>1, KindFacts, PlainSound, SizeType, StackAssumption
<1>3. PICK worn : worn = [place \in {OffHand} |-> shield]
  OBVIOUS
<1>5. OffHand \in Places /\ OffHand.in # "armor"
  BY OtherParts
<1>6. worn \in [{OffHand} -> SoundCells(F)] /\ \A place \in {OffHand} : Lies(F, place, worn[place])
  BY <1>2, <1>3, <1>5 DEF Lies
<1>7. Equip(p, worn)
  BY <1>1, <1>3 DEF EquipShield
<1> QED BY <1>5, <1>6, <1>7, EquipSound

LEMMA EquipIronSound ==
  ASSUME NEW F, Quality(F), NEW p \in Players, EquipIron(p), scene' = scene
  PROVE  Quality(F)'
<1> DEFINE S == {Place("armor", i) : i \in ArmorSlots}
<1>1. PICK worn : worn = [place \in S |-> Cell(Stack(IronArmor[place.slot], 1), 0)]
  OBVIOUS
<1>2. ASSUME NEW place \in S
      PROVE  Lies(F, place, worn[place])
  <2>1. place.slot \in 0 .. 3 /\ place.slot \in {0, 1, 2, 3}
    BY InventoryAssumption DEF Place
  <2>2. IronArmor[place.slot] \in {"IronBoots", "IronLeggings", "IronChestplate", "IronHelmet"}
    BY <2>1 DEF IronArmor
  <2>3. IronArmor[place.slot] \in Armor
    BY <2>2 DEF Armor, Boots, Leggings, Chestplates, Helmets
  <2>4. PICK kind : kind = IronArmor[place.slot]
    OBVIOUS
  <2>5. kind \in Kinds /\ kind \in Armor /\ 1 \in 1 .. MaxStackSize(kind)
    BY <2>3, <2>4, KindFacts, SizeType, StackAssumption
  <2>6. Cell(Stack(kind, 1), 0) \in SoundCells(F) /\ Cell(Stack(kind, 1), 0).stack.kind = kind
    <3>1. Cell(Stack(kind, 1), 0) \in SoundCells(F)
      BY <2>5, PlainSound
    <3>2. Cell(Stack(kind, 1), 0).stack = Stack(kind, 1) /\ Stack(kind, 1).kind = kind
      BY <2>5, PlainSound
    <3> QED BY <3>1, <3>2
  <2>7. worn[place] = Cell(Stack(kind, 1), 0)
    BY <1>1, <2>4
  <2> QED BY <2>5, <2>6, <2>7 DEF Lies
<1>3. S \in SUBSET Places
  BY DEF Places, PlayerSlots
<1>4. worn \in [S -> SoundCells(F)]
  BY <1>1, <1>2 DEF Lies
<1>5. Equip(p, worn)
  BY <1>1 DEF EquipIron
<1> HIDE DEF S
<1> QED BY <1>2, <1>3, <1>4, <1>5, EquipSound

-----------------------------------------------------------------------------
(* Fights.                                                                 *)

LEMMA StruckSound ==
  ASSUME NEW F, Quality(F), Armor \subseteq F, NEW p \in Players, Struck(p), scene' = scene
  PROVE  Quality(F)'
<1>1. PICK armor : armor = {place \in Places : place.in = "armor" /\ ~IsEmpty(cells[p][place])}
  OBVIOUS
<1>2. PICK inv : inv = [pl \in Places |-> IF pl \in armor THEN WornOut(cells[p][pl])
                                          ELSE cells[p][pl]]
  OBVIOUS
<1>3. cells' = [cells EXCEPT ![p] = inv]
  BY <1>1, <1>2, QualityParts DEF Struck
<1>4. ASSUME NEW pl \in Places
      PROVE  Lies(F, pl, inv[pl])
  <2>1. Lies(F, pl, cells[p][pl]) /\ cells[p][pl] \in SoundCells(F)
    BY CellOf DEF Lies
  <2>2. CASE pl \in armor
    <3>1. cells[p][pl].stack.kind \in Armor
      <4>1. cells[p][pl].stack \in SoundStacks(F) /\ cells[p][pl].stack # NoStack
        BY <1>1, <2>1, <2>2, CellParts DEF IsEmpty
      <4> QED BY <1>1, <2>1, <2>2, <4>1, StackParts DEF Lies
    <3>2. /\ WornOut(cells[p][pl]) \in SoundCells(F)
          /\ WornOut(cells[p][pl]).stack.kind \in {cells[p][pl].stack.kind, "None"}
      BY <2>1, <3>1, WornOutSound
    <3> QED BY <1>2, <2>2, <3>1, <3>2 DEF Lies
  <2>3. CASE pl \notin armor
    BY <1>2, <2>1, <2>3
  <2> QED BY <2>2, <2>3
<1>5. inv \in [Places -> SoundCells(F)]
  BY <1>2, <1>4 DEF Lies
<1>6. inv \in SoundInventories(F)
  BY <1>4, <1>5, InventoryMap
<1>7. cells' \in [Players -> SoundInventories(F)]
  BY <1>3, <1>6, QualityParts
<1> QED BY <1>7, OnlyCells DEF Struck

LEMMA AttackPlayerSound ==
  ASSUME NEW F, Quality(F), NEW p \in Players, NEW q \in Players, "attack" \in scene,
         AttackPlayer(p, q), scene' = scene
  PROVE  Quality(F)'
<1> DEFINE aside == [op |-> "turn aside", target |-> q]
<1>1. program' = [program EXCEPT ![p] = <<aside>>] /\ UNCHANGED <<cursor, hand, open>> /\ NoItems
  BY DEF AttackPlayer
<1>2. aside \in Ops
  BY BlockOpIn
<1> HIDE DEF aside
<1>3. <<aside>> \in Seq(Ops)
  BY <1>2, FewOps
<1> QED BY <1>1, <1>3, ProgramSet

LEMMA DoTurnAsideSound ==
  ASSUME NEW F, Quality(F), NEW p \in Players, DoTurnAside(p),
         "attack" \in scene => Kinds \subseteq F, scene' = scene
  PROVE  Quality(F)'
<1>1. PICK q : q = Next1(p).target
  OBVIOUS
<1>2. /\ Now(p, "turn aside") /\ Then(p, <<>>)
      /\ cells' = [cells EXCEPT ![q][OffHand] = WornOut(@)]
      /\ UNCHANGED <<cursor, hand, chests, furnaces, ground, open, blocks, picked>>
  BY <1>1 DEF DoTurnAside, Rest
<1>3. Next1(p) \in Ops /\ Next1(p).op = "turn aside"
  BY <1>2, NowParts
<1>4. q \in Players /\ Kinds \subseteq F
  BY <1>1, <1>3, BlockOpParts
<1>5. (program \in [Players -> Seq(Ops)])'
  BY <1>2, DonePart
<1>6. PICK d : d = WornOut(cells[q][OffHand])
  OBVIOUS
<1>7. OffHand \in Places /\ OffHand.in # "armor"
  BY OtherParts
<1>8. cells[q][OffHand] \in SoundCells(F)
  BY <1>4, <1>7, CellOf
<1>9. IsEmpty(cells[q][OffHand]) \/ cells[q][OffHand].stack.kind \in F
  <2>1. cells[q][OffHand].stack \in SoundStacks(F)
    BY <1>8, CellParts
  <2> QED BY <1>4, <2>1, StackParts DEF IsEmpty
<1>10. Lies(F, OffHand, d)
  BY <1>6, <1>7, <1>8, <1>9, WornOutSound DEF Lies
<1>11. cells' = [cells EXCEPT ![q][OffHand] = d]
  BY <1>2, <1>6, QualityParts
<1>12. cells' \in [Players -> SoundInventories(F)]
  BY <1>4, <1>7, <1>10, <1>11, WithCell, QualityParts
<1> QED BY <1>2, <1>5, <1>12, QualityParts, QualityNext

-----------------------------------------------------------------------------
(* The invariant.                                                          *)

\* Whatever operation a program of the session goes on with.
LEMMA DoSound ==
  ASSUME NEW F, Quality(F), Wearing \subseteq F, "attack" \in scene => Kinds \subseteq F,
         NEW p \in Players, Do(p), scene' = scene
  PROVE  Quality(F)'
<1>1. CASE DoPress(p) \/ DoOffer(p) \/ DoRoute(p) \/ DoRestore(p) \/ DoKeep(p) \/ DoDiscard(p)
  BY <1>1, DoPressSound, DoOfferSound, DoRouteSound, DoRestoreSound, DoKeepSound
<1>2. CASE DoToss(p) \/ DoDropRest(p) \/ DoAgain(p) \/ DoGather(p) \/ DoFill(p) \/ DoPour(p)
  BY <1>2, DoTossSound, DoDropRestSound, DoAgainSound, DoGatherSound, DoFillSound, DoPourSound
<1>3. CASE DoSettle(p) \/ DoLoad(p) \/ DoCraft(p) \/ DoGive(p) \/ DoEmpty(p) \/ DoAir(p)
  BY <1>3, DoSettleSound, DoLoadSound, DoCraftSound, DoGiveSound, DoEmptySound, DoAirSound
<1>4. CASE DoBlockDrop(p) \/ DoWear(p) \/ DoBlock(p) \/ DoTake(p) \/ DoTurnAside(p)
  BY <1>4, DoBlockDropSound, DoWearSound, DoBlockSound, DoTakeSound, DoTurnAsideSound
<1> QED BY <1>1, <1>2, <1>3, <1>4 DEF Do

LEMMA ClickableParts == \A p : Clickable(p) \subseteq Touchable
BY DEF Clickable, Touchable, Places

\* Whatever a packet of the client begins.
LEMMA PacketSound ==
  ASSUME NEW F, Quality(F), Wearing \subseteq F, NEW p \in Players, Packet(p), scene' = scene
  PROVE  Quality(F)'
<1>1. CASE Clicks(p)
  BY <1>1, ClickSound, ClickableParts DEF Clicks
<1>2. CASE OnScreen(p)
  BY <1>2, DropCursorSound, DragSound, CollectSound, CloseSound DEF OnScreen
<1>3. CASE Crafts(p)
  BY <1>3, CraftSound, CraftCommandSound, ShiftTableSound, ShiftCraftSound, CloseSound,
     ClickableParts DEF Crafts
<1>4. CASE Moves(p)
  <2>1. {InStorage(i) : i \in Hotbar} \union {OffHand} \subseteq PlayerSlots
    BY InventoryAssumption, OtherParts
  <2> QED BY <1>4, <2>1, QuickMoveSound, SwapSlotsSound, ThrowSound DEF Moves
<1>5. CASE Uses(p)
  BY <1>5, InventoryAssumption, EnchantSound, EatSound, FillBucketSound, DrinkMilkSound, HitSound
     DEF Uses
<1> QED BY <1>1, <1>2, <1>3, <1>4, <1>5 DEF Packet

\* Whatever the players build, open and take apart.
LEMMA BlocksSound ==
  ASSUME NEW F, Quality(F), NEW p \in Players, Builds(p) \/ Visits(p), scene' = scene
  PROVE  Quality(F)'
<1>1. CASE Builds(p)
  BY <1>1, PlaceBlockSound, InventoryAssumption DEF Builds
<1>2. CASE Visits(p)
  <2>1. CASE \E place \in Clickable(p) : Click(p, place, FALSE)
    BY <2>1, ClickSound, ClickableParts
  <2>2. CASE \E place \in Clickable(p) : ShiftChest(p, place)
    BY <2>2, ShiftChestSound, ClickableParts
  <2>3. CASE \E pos \in Positions : OpenContainer(p, pos)
    BY <2>3, OpenContainerSound
  <2>4. CASE CloseMenu(p) \/ MenuGone(p)
    BY <2>4, CloseSound, MenuGoneSound
  <2>5. CASE \E pos \in Minable, i \in Hotbar : Mine(p, pos, i)
    BY <2>5, MineSound, ItemsAssumption, InventoryAssumption
  <2> QED BY <1>2, <2>1, <2>2, <2>3, <2>4, <2>5 DEF Visits
<1> QED BY <1>1, <1>2

\* Whatever the tick thread, the console and a fight do.
LEMMA WorldSound ==
  ASSUME NEW F, Quality(F), Armor \subseteq F, Tick \/ Console \/ Fights, scene' = scene
  PROVE  Quality(F)'
<1>1. Gestures \subseteq Players
  BY ItemsAssumption
<1>2. CASE Tick
  <2>1. CASE \E near \in Nearby : CollectPickups(near)
    <3>1. PICK S \in SUBSET DOMAIN ground : \E near \in [S -> Gestures] : CollectPickups(near)
      BY <2>1 DEF Nearby
    <3>2. PICK near \in [S -> Gestures] : CollectPickups(near)
      BY <3>1
    <3> QED BY <3>2, CollectPickupsSound
  <2> QED BY <1>2, <2>1, TickFurnacesSound, GivePickupSound, DespawnSound DEF Tick
<1>3. CASE Console
  BY <1>1, <1>3, GiveCommandSound, EquipShieldSound, EquipIronSound DEF Console
<1>4. CASE Fights
  BY <1>1, <1>4, StruckSound, AttackPlayerSound DEF Fights
<1> QED BY <1>2, <1>3, <1>4

\* What wears, in every scene.
LEMMA WearsParts ==
  /\ Wearing \subseteq Wears(scene) /\ Armor \subseteq Wears(scene)
  /\ "attack" \in scene => Kinds \subseteq Wears(scene)
BY KindFacts DEF Wears

LEMMA QualityIs == QualityInvariant <=> Quality(Wears(scene))
BY DEF QualityInvariant, Quality

LEMMA QualityInit == Init => QualityInvariant
<1> SUFFICES ASSUME Init PROVE QualityInvariant
  OBVIOUS
<1>1. PICK s \in Starts :
        /\ cells = s.cells /\ blocks = s.blocks /\ furnaces = s.furnaces /\ chests = s.chests
        /\ ground = s.ground /\ scene = s.scene
        /\ cursor = Nobody(Empty) /\ hand = Nobody(Empty)
        /\ program = Nobody(<<>>) /\ open = Nobody(Closed)
        /\ edited = {} /\ picked = <<>>
  BY DEF Init
<1>2. PICK F : F = Wears(scene)
  OBVIOUS
<1>3. /\ cells \in [Players -> SoundInventories(F)]
      /\ chests \in [Positions -> ChestType(SoundCells(F))]
      /\ furnaces \in [Positions -> FurnaceType(SoundStacks(F))]
      /\ ground \in Seq(SoundStacks(F) \ {NoStack}) /\ Len(ground) <= GroundSize
      /\ blocks \in [Positions -> Blocks]
  BY <1>1, <1>2, ItemsAssumption
<1>4. cursor \in [Players -> SoundCells(F)] /\ hand \in [Players -> SoundCells(F)]
  BY <1>1, EmptySound DEF Nobody
<1>5. picked \in Seq([player : Players, stack : SoundStacks(F) \ {NoStack}])
  BY <1>1
<1>6. program \in [Players -> Seq(Ops)] /\ open \in [Players -> Menus]
  <2>1. <<>> \in Seq(Ops)
    OBVIOUS
  <2> QED BY <1>1, <2>1, MenusParts DEF Nobody
<1>7. Quality(F)
  BY <1>3, <1>4, <1>5, <1>6 DEF Quality, Holding, Controls
<1> QED BY <1>2, <1>7, QualityIs

LEMMA QualityStep == QualityInvariant /\ [Next]_vars => QualityInvariant'
<1> SUFFICES ASSUME QualityInvariant, [Next]_vars PROVE QualityInvariant'
  OBVIOUS
<1>1. PICK F : F = Wears(scene)
  OBVIOUS
<1>2. Quality(F)
  BY <1>1, QualityIs
<1>3. scene' = scene
  BY DEF Next, vars
<1>4. Quality(F)' => QualityInvariant'
  <2>1. F = Wears(scene')
    BY <1>1, <1>3
  <2> QED BY <2>1 DEF QualityInvariant, Quality
<1>5. /\ Wearing \subseteq F /\ Armor \subseteq F
      /\ "attack" \in scene => Kinds \subseteq F
  BY <1>1, WearsParts
<1>6. Gestures \subseteq Players
  BY ItemsAssumption
<1>7. CASE \E p \in Players : Do(p)
  BY <1>2, <1>3, <1>5, <1>7, DoSound, <1>4
<1>8. CASE \E p \in Gestures : Packet(p)
  BY <1>2, <1>3, <1>5, <1>6, <1>8, PacketSound, <1>4
<1>9. CASE \E p \in Players : Builds(p) \/ Visits(p)
  BY <1>2, <1>3, <1>9, BlocksSound, <1>4
<1>10. CASE Tick \/ Console \/ Fights
  BY <1>2, <1>3, <1>5, <1>10, WorldSound, <1>4
<1>11. CASE UNCHANGED vars
  <2>1. UNCHANGED <<cells, cursor, hand, chests, furnaces, blocks, ground, picked, program, open,
                    scene>>
    BY <1>11 DEF vars, items, containers
  <2>2. (program \in [Players -> Seq(Ops)])'
    BY <1>2, <2>1, SameProgram
  <2>3. Quality(F)'
    BY <1>2, <2>1, <2>2, QualityParts, QualityNext
  <2> QED BY <1>4, <2>3
<1> QED BY <1>7, <1>8, <1>9, <1>10, <1>11 DEF Next

\* The inductive invariant of the items: sound cells, stacks and slots of armor,
\* and sound operations still to come in every program of a session, for any
\* players, slots, chests, furnaces, loot and bounds of the ground.
THEOREM QualitySafe == Spec => []QualityInvariant
BY QualityInit, QualityStep, PTL DEF Spec

LEMMA SoundIsTyped ==
  ASSUME NEW F
  PROVE  /\ SoundStacks(F) \subseteq StackType
         /\ SoundCells(F) \subseteq CellType
         /\ SoundInventories(F) \subseteq [Places -> CellType]
<1>1. SoundStacks(F) \subseteq StackType
  BY StackParts
<1>2. SoundCells(F) \subseteq CellType
  BY CellsAreCells
<1> QED BY <1>1, <1>2 DEF SoundInventories

\* The type invariant: what a slot, a furnace, the ground or a program holds is
\* a stack, a cell or an operation the code has, in every reachable state.
THEOREM ItemsTyped == Spec => []TypeOK
<1>1. QualityInvariant => TypeOK
  <2> SUFFICES ASSUME QualityInvariant PROVE TypeOK
    OBVIOUS
  <2>1. PICK F : F = Wears(scene)
    OBVIOUS
  <2>2. Quality(F)
    BY <2>1, QualityIs
  <2>3. /\ cells \in [Players -> [Places -> CellType]]
        /\ cursor \in [Players -> CellType] /\ hand \in [Players -> CellType]
    BY <2>2, QualityParts, SoundIsTyped
  <2>4. chests \in [Positions -> ChestType(CellType)]
    <3>1. ChestType(SoundCells(F)) \subseteq ChestType(CellType)
      BY SoundIsTyped DEF ChestType
    <3> QED BY <2>2, <3>1, QualityParts
  <2>5. furnaces \in [Positions -> FurnaceType(StackType)]
    <3>1. FurnaceType(SoundStacks(F)) \subseteq FurnaceType(StackType)
      BY SoundIsTyped DEF FurnaceType
    <3> QED BY <2>2, <3>1, QualityParts
  <2>6. ground \in Seq(StackType \ {NoStack})
    <3>1. SoundStacks(F) \ {NoStack} \subseteq StackType \ {NoStack}
      BY SoundIsTyped
    <3>2. ground \in Seq(SoundStacks(F) \ {NoStack})
      BY <2>2, QualityParts
    <3> QED BY <3>1, <3>2, SeqMonotonic
  <2>7. picked \in Seq([player : Players, stack : StackType \ {NoStack}])
    <3> DEFINE P == [player : Players, stack : SoundStacks(F) \ {NoStack}]
               T == [player : Players, stack : StackType \ {NoStack}]
    <3>1. P \subseteq T
      BY SoundIsTyped
    <3>2. picked \in Seq(P)
      BY <2>2, QualityParts
    <3> HIDE DEF P, T
    <3>3. picked \in Seq(T)
      BY <3>1, <3>2, SeqMonotonic
    <3> QED BY <3>3 DEF T
  <2>8. Controls
    BY <2>2 DEF Quality
  <2> QED BY <2>3, <2>4, <2>5, <2>6, <2>7, <2>8 DEF TypeOK, Holding
<1> QED BY <1>1, QualitySafe, PTL

\* No stack is larger than its kind allows, none is worn that does not wear or
\* to the end, and only weapons are sharp, wherever items went: click_stack,
\* take_item, damage_item, consume_crafting_recipe and all that calls them, with
\* every player's programs and the tick thread interleaved.
THEOREM QualitiesAlwaysFit == Spec => []QualitiesFit
<1>1. QualityInvariant => QualitiesFit
  <2> SUFFICES ASSUME QualityInvariant PROVE QualitiesFit
    OBVIOUS
  <2>1. PICK F : F = Wears(scene)
    OBVIOUS
  <2>2. Quality(F)
    BY <2>1, QualityIs
  <2>3. AllCells \subseteq SoundCells(F)
    <3>1. \A p \in Players, place \in Places : cells[p][place] \in SoundCells(F)
      BY <2>2, CellOf
    <3>2. \A p \in Players : cursor[p] \in SoundCells(F) /\ hand[p] \in SoundCells(F)
      <4>1. cursor \in [Players -> SoundCells(F)] /\ hand \in [Players -> SoundCells(F)]
        BY <2>2, QualityParts
      <4> QED BY <4>1
    <3>3. \A pos \in Positions, i \in ChestSlots : ChestAt(pos)[i] \in SoundCells(F)
      BY <2>2, ChestSound
    <3>4. ASSUME NEW c \in AllCells
          PROVE  \/ \E p \in Players : \/ \E place \in Places : c = cells[p][place]
                                      \/ c = cursor[p] \/ c = hand[p]
                 \/ \E pos \in Positions, i \in ChestSlots : c = ChestAt(pos)[i]
      <4> DEFINE Own(p) == {cells[p][place] : place \in Places} \union {cursor[p], hand[p]}
      <4>1. CASE c \in UNION {Own(p) : p \in Players}
        <5>1. PICK p \in Players : c \in Own(p)
          BY <4>1
        <5> QED BY <5>1
      <4>2. CASE c \in {ChestAt(pos)[i] : pos \in Positions, i \in ChestSlots}
        BY <4>2
      <4>3. AllCells = (UNION {Own(p) : p \in Players})
                       \union {ChestAt(pos)[i] : pos \in Positions, i \in ChestSlots}
        BY DEF AllCells
      <4> HIDE DEF Own
      <4> QED BY <4>1, <4>2, <4>3
    <3> QED BY <3>1, <3>2, <3>3, <3>4
  <2>4. AllStacks \subseteq SoundStacks(F)
    <3>1. {c.stack : c \in AllCells} \subseteq SoundStacks(F)
      BY <2>3, CellParts
    <3>2. {furnaces[pos][i] : pos \in Positions, i \in FurnaceSlots} \subseteq SoundStacks(F)
      <4>1. furnaces \in [Positions -> FurnaceType(SoundStacks(F))]
        BY <2>2, QualityParts
      <4>2. ASSUME NEW x \in {furnaces[pos][i] : pos \in Positions, i \in FurnaceSlots}
            PROVE  x \in SoundStacks(F)
        <5>1. PICK pos \in Positions, i \in FurnaceSlots : x = furnaces[pos][i]
          OBVIOUS
        <5>2. PICK furnace : furnace = furnaces[pos]
          OBVIOUS
        <5>3. furnace \in FurnaceType(SoundStacks(F)) /\ x = furnace[i]
          BY <4>1, <5>1, <5>2
        <5> QED BY <5>3, FurnaceParts
      <4> QED BY <4>2
    <3>3. Range(ground) \subseteq SoundStacks(F)
      <4>1. ground \in Seq(SoundStacks(F) \ {NoStack}) /\ DOMAIN ground = 1 .. Len(ground)
        BY <2>2, QualityParts, LenProperties
      <4>2. \A n \in DOMAIN ground : ground[n] \in SoundStacks(F) \ {NoStack}
        BY <4>1, ElementOfSeq
      <4> QED BY <4>2 DEF Range
    <3>4. {picked[n].stack : n \in DOMAIN picked} \subseteq SoundStacks(F)
      <4> DEFINE P == [player : Players, stack : SoundStacks(F) \ {NoStack}]
      <4>1. picked \in Seq(P)
        BY <2>2, QualityParts
      <4> HIDE DEF P
      <4>2. DOMAIN picked = 1 .. Len(picked)
        BY <4>1, LenProperties
      <4>3. \A n \in DOMAIN picked : picked[n] \in P
        BY <4>1, <4>2, ElementOfSeq
      <4> QED BY <4>3 DEF P
    <3> QED BY <3>1, <3>2, <3>3, <3>4 DEF AllStacks
  <2>5. ASSUME NEW s \in AllStacks \ {NoStack}
        PROVE  s.count \in 1 .. MaxStackSize(s.kind) /\ (s.damage > 0 => s.kind \in Wears(scene))
    BY <2>1, <2>4, <2>5, StackParts, SizeType
  <2>6. ASSUME NEW c \in AllCells
        PROVE  c.level > 0 => c.stack.kind \in Weapons
    BY <2>3, <2>6, CellParts
  <2> QED BY <2>5, <2>6 DEF QualitiesFit
<1> QED BY <1>1, QualitySafe, PTL
=============================================================================
