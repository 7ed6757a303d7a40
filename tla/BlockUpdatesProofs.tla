------------------------- MODULE BlockUpdatesProofs -------------------------
(***************************************************************************)
(* Every step of BlockUpdates is a step of its feed or leaves it alone, so *)
(* what is proved of RevisionFeed holds of block changes. BlockInvariant   *)
(* is inductive beside it, for any number of sessions and positions: a     *)
(* plant without its support always has a session on its way to it.        *)
(***************************************************************************)
EXTENDS BlockUpdates, FiniteSetTheorems, SequenceTheorems, TLAPS

FeedFacts == INSTANCE RevisionFeedProofs
    WITH Writers <- Sessions, Readers <- Sessions, Subjects <- Changes,
         highest <- FALSE

LEMMA TaskTypes ==
  ASSUME NEW p \in Positions, NEW k \in Kinds
  PROVE  /\ Reply(p, k) \in Later
         /\ k # "plant" => SetBlock(p, k) \in Later
  BY DEF Reply, SetBlock, Task, Later, Tasks, Steps, Kinds

LEMMA LaterAreTasks ==
  ASSUME NEW q \in Seq(Later)
  PROVE  /\ q \in Lists
         /\ q # <<>> => Tail(q) \in Seq(Later) /\ Head(q) \in Later /\ Head(q).step # "push"
<1>1. q \in Seq(Tasks)
  BY DEF Later
<1>2. q # <<>> => Tail(q) \in Seq(Later) /\ Head(q) \in Later
  BY HeadTailProperties
<1>3. \A task \in Later : task.step # "push"
  BY DEF Later
<1>4. QED
  BY <1>1, <1>2, <1>3 DEF Lists

\* One task in front of some that wait.
LEMMA OneTask ==
  ASSUME NEW x \in Tasks, NEW q \in Seq(Later)
  PROVE  /\ <<x>> \o q \in Lists
         /\ <<x>> \o q # <<>>
         /\ Head(<<x>> \o q) = x
<1>1. q \in Seq(Tasks) /\ <<x>> \in Seq(Tasks)
  BY DEF Later
<1>2. <<x>> \o q \in Seq(Tasks) /\ Len(<<x>> \o q) = 1 + Len(q) /\ (<<x>> \o q)[1] = x
  BY <1>1, ConcatProperties
<1>3. <<x>> \o q # <<>> /\ Head(<<x>> \o q) = x
  BY <1>1, <1>2
<1>4. Tail(<<x>> \o q) = q
  BY <1>1
<1>5. QED
  BY <1>2, <1>3, <1>4 DEF Lists

LEMMA HeadStays ==
  ASSUME NEW x \in Later, NEW q \in Seq(Later), NEW r \in Seq(Later)
  PROVE  /\ (<<x>> \o q) \o r # <<>>
         /\ Head((<<x>> \o q) \o r) = x
<1>1. <<x>> \o q \in Seq(Later) /\ Len(<<x>> \o q) = 1 + Len(q) /\ (<<x>> \o q)[1] = x
  BY ConcatProperties
<1>2. /\ (<<x>> \o q) \o r \in Seq(Later)
      /\ Len((<<x>> \o q) \o r) = 1 + Len(q) + Len(r)
      /\ ((<<x>> \o q) \o r)[1] = x
  BY <1>1, ConcatProperties
<1>3. QED
  BY <1>2

\* set_block for all positions of a finite set.
LEMMA ManyTasks ==
  ASSUME NEW P \in SUBSET Positions, IsFiniteSet(P), NEW k \in Kinds \ {"plant"}
  PROVE  SetBlocks(P, k) \in Seq(Later)
<1> DEFINE order == SetToSeq(P)
<1>1. \E f \in [1..Cardinality(P) -> P] : IsInjective(f)
  BY FS_CardinalityType DEF ExistsBijection, Bijection, Injection, IsInjective
<1>2. order \in [1..Cardinality(P) -> P] /\ Cardinality(P) \in Nat
  BY <1>1, FS_CardinalityType DEF SetToSeq
<1>3. order \in Seq(P) /\ \A i \in 1..Len(order) : order[i] \in Positions
  BY <1>2
<1>4. \A i \in 1..Len(order) : SetBlock(order[i], k) \in Later
  BY <1>3, TaskTypes
<1>5. QED
  BY <1>3, <1>4 DEF SetBlocks

\* What is known of the task that a session comes to.
LEMMA CurrentTask ==
  ASSUME TypeOK, NEW s \in Sessions, work[s] # <<>>
  PROVE  /\ Current(s) \in Tasks
         /\ Tail(work[s]) \in Seq(Later)
         /\ Tail(work[s]) \in Lists
<1>1. work[s] \in Seq(Tasks) /\ Tail(work[s]) \in Seq(Later)
  BY DEF TypeOK, Lists
<1>2. Current(s) \in Tasks
  BY <1>1, HeadTailProperties DEF Current
<1>3. QED
  BY <1>1, <1>2, LaterAreTasks

LEMMA ThenOne ==
  ASSUME TypeOK, NEW s \in Sessions, work[s] # <<>>, NEW x \in Tasks, Then(s, <<x>>)
  PROVE  /\ work' \in [Sessions -> Lists]
         /\ work'[s] # <<>> /\ Current(s)' = x
         /\ \A t \in Sessions : t # s => work'[t] = work[t]
<1>1. work' = [work EXCEPT ![s] = <<x>> \o Tail(work[s])]
  BY DEF Then
<1>2. /\ <<x>> \o Tail(work[s]) \in Lists
      /\ <<x>> \o Tail(work[s]) # <<>>
      /\ Head(<<x>> \o Tail(work[s])) = x
  BY CurrentTask, OneTask
<1>3. QED
  BY <1>1, <1>2 DEF TypeOK, Current

LEMMA ThenMany ==
  ASSUME TypeOK, NEW s \in Sessions, work[s] # <<>>, NEW q \in Seq(Later), Then(s, q)
  PROVE  /\ work' \in [Sessions -> Lists]
         /\ ~At(s, "push")'
         /\ work'[s] = q \o Tail(work[s])
         /\ \A t \in Sessions : t # s => work'[t] = work[t]
<1> DEFINE tasks == q \o Tail(work[s])
<1>1. work' = [work EXCEPT ![s] = tasks]
  BY DEF Then
<1>2. tasks \in Seq(Later)
  BY CurrentTask, ConcatProperties
<1>3. tasks # <<>> => Head(tasks).step # "push"
  BY <1>2, LaterAreTasks
<1>4. work' \in [Sessions -> Lists] /\ work'[s] = tasks
  BY <1>1, <1>2, LaterAreTasks DEF TypeOK
<1>5. QED
  BY <1>1, <1>3, <1>4 DEF TypeOK, At
-----------------------------------------------------------------------------
\* Every step is a step of the feed or leaves it alone.
LEMMA FeedStep == TypeOK /\ [Next]_vars => [Feed!Next]_Feed!vars
<1> SUFFICES ASSUME TypeOK, [Next]_vars PROVE [Feed!Next]_Feed!vars
  OBVIOUS
<1> USE DEF feedVars, Feed!vars, Feed!SameKind, Feed!history
<1>1. ASSUME NEW s \in Sessions,
             Join(s) \/ Load(s) \/ Poll(s) \/ HandleChange(s) \/ Leave(s)
      PROVE  [Feed!Next]_Feed!vars
  BY <1>1 DEF Join, Load, Poll, HandleChange, Leave, Feed!Next
<1>2. ASSUME NEW s \in Sessions, Packet(s)
      PROVE  [Feed!Next]_Feed!vars
  BY <1>2 DEF Packet, Ignite, Mine, Refuse, Place, Begin
<1>3. ASSUME NEW s \in Sessions, Number(s)
      PROVE  [Feed!Next]_Feed!vars
  <2> DEFINE change == [position |-> Current(s).position, kind |-> Current(s).kind]
  <2>1. change \in Changes
    BY <1>3, CurrentTask DEF Number, At, Tasks, Changes
  <2>2. Feed!Draw(s, change)
    BY <1>3 DEF Number
  <2>3. QED
    BY <2>1, <2>2 DEF Feed!Next
<1>4. ASSUME NEW s \in Sessions, Push(s)
      PROVE  [Feed!Next]_Feed!vars
  BY <1>4 DEF Push, Feed!Next
<1>5. ASSUME NEW s \in Sessions,
             Look(s) \/ Unchanged(s) \/ Apply(s) \/ Plant(s) \/ Collapse(s) \/ Answer(s)
      PROVE  [Feed!Next]_Feed!vars
  BY <1>5 DEF Look, Unchanged, Apply, Plant, Collapse, Answer
<1>6. CASE UNCHANGED vars
  BY <1>6 DEF vars
<1>7. QED
  BY <1>1, <1>2, <1>3, <1>4, <1>5, <1>6 DEF Next

\* The two instances of RevisionFeed say the same.
LEMMA SameFeed ==
  /\ Feed!Init => FeedFacts!Init
  /\ [Feed!Next]_Feed!vars => [FeedFacts!Next]_FeedFacts!vars
<1>1. Feed!Init => FeedFacts!Init
  BY DEF Feed!Init, FeedFacts!Init
<1>2. Feed!vars = FeedFacts!vars /\ Feed!vars' = FeedFacts!vars'
  BY DEF Feed!vars, FeedFacts!vars, Feed!SameKind, Feed!history, FeedFacts!history
<1>3. Feed!Next => FeedFacts!Next
  BY DEF Feed!Next, FeedFacts!Next, Feed!Push, FeedFacts!Push, Feed!Draw, FeedFacts!Draw,
         Feed!Join, FeedFacts!Join, Feed!Poll, FeedFacts!Poll, Feed!Handle,
         FeedFacts!Handle, Feed!Leave, FeedFacts!Leave, Feed!Clear, FeedFacts!Clear,
         Feed!Newest, FeedFacts!Newest, Feed!Pushed, FeedFacts!Pushed, Feed!Last,
         FeedFacts!Last, Feed!First, FeedFacts!First, Feed!Advanced,
         FeedFacts!Advanced, Feed!SameKind, FeedFacts!SameKind, Feed!history, FeedFacts!history,
         Feed!Cardinality, FeedFacts!Cardinality
<1>4. QED
  BY <1>1, <1>2, <1>3

LEMMA FeedKept ==
  ASSUME FeedFacts!FeedInvariant, TypeOK, [Next]_vars
  PROVE  FeedFacts!FeedInvariant'
<1>1. QED
  BY FeedStep, SameFeed, BlockAssumption, FeedFacts!StepInvariant

\* What the proofs below need of the feed.
LEMMA FeedTypes ==
  ASSUME FeedFacts!FeedInvariant
  PROVE  /\ drawn \in [Sessions -> SUBSET Feed!Drafts]
         /\ batch \in [Sessions -> SUBSET Feed!Entries]
         /\ \A s \in Sessions : batch[s] # {} => Feed!First(batch[s]).subject \in Changes
<1>1. /\ drawn \in [Sessions -> SUBSET FeedFacts!Drafts]
      /\ batch \in [Sessions -> SUBSET FeedFacts!Entries]
  BY DEF FeedFacts!FeedInvariant, FeedFacts!TypeOK
<1>2. \A s \in Sessions : batch[s] # {} => FeedFacts!First(batch[s]) \in batch[s]
  BY <1>1, BlockAssumption, FeedFacts!FirstProperties
<1>3. QED
  BY <1>1, <1>2 DEF Feed!Drafts, FeedFacts!Drafts, Feed!Entries, FeedFacts!Entries,
                    Feed!First, FeedFacts!First
-----------------------------------------------------------------------------
LEMMA InitInvariant == Init => BlockInvariant
<1> SUFFICES ASSUME Init PROVE BlockInvariant
  OBVIOUS
<1>1. TypeOK
  <2>1. <<>> \in Lists
    BY DEF Lists
  <2>2. QED
    BY <2>1, BlockAssumption DEF Init, TypeOK
<1>2. HandlersNest
  BY DEF Init, HandlersNest, Nested, At, Feed!Init
<1>3. PlantsAreOwed
  BY BlockAssumption DEF Init, PlantsAreOwed
<1>4. QED
  BY <1>1, <1>2, <1>3 DEF BlockInvariant

\* A step of the handler of s, its connection included, leaves the others alone.
LEMMA OthersNest ==
  ASSUME HandlersNest, NEW s \in Sessions, Nested(s)',
         joined \ {s} \subseteq joined',
         \A t \in Sessions : t # s => /\ work'[t] = work[t]
                                      /\ view'[t] = view[t]
                                      /\ batch'[t] = batch[t]
                                      /\ drawn'[t] = drawn[t]
  PROVE  HandlersNest'
<1>1. \A t \in Sessions : t # s => (Nested(t) => Nested(t)')
  BY DEF Nested, At, Current
<1>2. QED
  BY <1>1 DEF HandlersNest

\* As long as no block changes, only s can neglect a plant.
LEMMA StillOwed ==
  ASSUME PlantsAreOwed, UNCHANGED world, NEW s \in Sessions,
         \A t \in Sessions : t # s => work'[t] = work[t],
         \A p \in DOMAIN Above :
            world[Above[p]] = "plant" /\ Clears(s, p) => Clears(s, p)'
  PROVE  PlantsAreOwed'
<1>1. \A t \in Sessions, p \in DOMAIN Above : t # s => (Clears(t, p) => Clears(t, p)')
  BY DEF Clears, Current
<1>2. QED
  BY <1>1 DEF PlantsAreOwed

\* Joining, leaving, sending the chunk and handling what was polled.
LEMMA ConnectionStep ==
  ASSUME BlockInvariant, FeedFacts!FeedInvariant, NEW s \in Sessions,
         Join(s) \/ Load(s) \/ Poll(s) \/ HandleChange(s) \/ Leave(s)
  PROVE  BlockInvariant'
<1> USE DEF BlockInvariant
<1>1. /\ \A t \in Sessions : t # s => work'[t] = work[t]
      /\ UNCHANGED <<world, packets, contested, raced>>
      /\ \A p \in DOMAIN Above : Clears(s, p) => Clears(s, p)'
  <2>1. CASE Leave(s)
    BY <2>1 DEF Leave, Clears, Current, TypeOK, Lists
  <2>2. CASE UNCHANGED work
    BY <2>2 DEF Join, Load, Poll, HandleChange, Leave, Clears, Current
  <2>3. QED
    BY <2>1, <2>2 DEF Join, Load, Poll, HandleChange
<1>2. PlantsAreOwed'
  BY <1>1, StillOwed
<1>3. TypeOK' /\ HandlersNest'
  <2>1. Nested(s) /\ drawn \in [Sessions -> SUBSET Feed!Drafts]
        /\ batch \in [Sessions -> SUBSET Feed!Entries]
    BY FeedTypes DEF HandlersNest
  <2> USE DEF TypeOK
  <2>2. CASE Join(s)
    BY <2>1, <2>2, <1>1, OthersNest DEF Join, Feed!Join, Nested, At, Current
  <2>3. CASE Load(s)
    BY <2>1, <2>3, <1>1, OthersNest DEF Load, feedVars, Nested, At, Current
  <2>4. CASE Poll(s)
    BY <2>1, <2>4, <1>1, OthersNest
       DEF Poll, Waiting, Feed!Poll, Feed!SameKind, Feed!history, Nested, At, Current
  <2>5. CASE HandleChange(s)
    <3> DEFINE change == Feed!First(batch[s]).subject
    <3>1. change \in Changes
      BY <2>5, FeedTypes DEF HandleChange, Feed!Handle
    <3>2. view' = [view EXCEPT ![s][change.position] = change.kind]
      BY <2>5 DEF HandleChange
    <3>3. TypeOK'
      BY <3>1, <3>2, <2>5 DEF HandleChange, Changes, Unseen
    <3>4. QED
      BY <2>1, <2>5, <3>2, <3>3, <1>1, OthersNest
         DEF HandleChange, Feed!Handle, Nested, At, Current
  <2>6. CASE Leave(s)
    <3>1. <<>> \in Lists
      BY DEF Lists
    <3>2. TypeOK'
      BY <2>6, <3>1 DEF Leave
    <3>3. ~At(s, "push")
      BY <2>6 DEF Leave, At, Lists
    <3>4. /\ work'[s] = <<>> /\ batch'[s] = {} /\ UNCHANGED <<drawn, view>>
          /\ joined' = joined \ {s}
          /\ \A t \in Sessions : t # s => batch'[t] = batch[t]
      BY <2>1, <2>6 DEF Leave, Feed!Leave, Feed!SameKind, Feed!history
    <3>5. Nested(s)'
      BY <2>1, <3>3, <3>4 DEF Nested, At
    <3>6. QED
      BY <1>1, <3>2, <3>4, <3>5, OthersNest
  <2>7. QED
    BY <2>2, <2>3, <2>4, <2>5, <2>6
<1>4. QED
  BY <1>2, <1>3

LEMMA PacketStep ==
  ASSUME BlockInvariant, NEW s \in Sessions, Packet(s)
  PROVE  BlockInvariant'
<1> USE DEF BlockInvariant
<1>1. ASSUME NEW tasks \in Seq(Later), Begin(s, tasks)
      PROVE  BlockInvariant'
  <2>1. /\ work[s] = <<>> /\ Waiting(s)
        /\ UNCHANGED <<world, view, contested, raced, feedVars>>
        /\ work'[s] = tasks
        /\ \A t \in Sessions : t # s => work'[t] = work[t]
    BY <1>1 DEF Begin, Waiting, TypeOK
  <2>2. TypeOK'
    BY <1>1, LaterAreTasks DEF Begin, TypeOK
  <2>3. tasks # <<>> => Head(tasks).step # "push"
    BY HeadTailProperties DEF Later
  <2>4. Nested(s)'
    BY <2>1, <2>3 DEF Nested, HandlersNest, At, Waiting, feedVars
  <2>5. HandlersNest'
    BY <2>1, <2>4, OthersNest DEF feedVars
  <2>6. PlantsAreOwed'
    BY <2>1, StillOwed DEF Clears
  <2>7. QED
    BY <2>2, <2>5, <2>6
<1>2. <<>> \in Seq(Later)
  OBVIOUS
<1>3. CASE Ignite(s)
  <2>1. SetBlocks(Portal, "portal") \in Seq(Later)
    BY ManyTasks, BlockAssumption DEF Kinds
  <2>2. QED
    BY <1>1, <2>1, <1>3 DEF Ignite
<1>4. ASSUME NEW p \in Positions, Mine(s, p)
      PROVE  BlockInvariant'
  <2>1. <<SetBlock(p, "air"), Reply(p, "air")>> \in Seq(Later)
    BY TaskTypes DEF Kinds
  <2>2. QED
    BY <1>1, <1>4, <2>1 DEF Mine
<1>5. ASSUME NEW p \in Positions, Refuse(s, p)
      PROVE  BlockInvariant'
  <2>1. world[p] \in Kinds
    BY DEF TypeOK
  <2>2. Reply(p, world[p]) \in Later
    BY <2>1, TaskTypes
  <2>3. <<Reply(p, world[p])>> \in Seq(Later)
    BY <2>2
  <2>4. QED
    BY <1>1, <1>5, <2>3 DEF Refuse
<1>6. ASSUME NEW p \in Positions, NEW k \in Placeable, Place(s, p, k)
      PROVE  BlockInvariant'
  <2>1. k \in Kinds /\ k # "plant"
    BY BlockAssumption
  <2>2. SetBlock(p, k) \in Later /\ Reply(p, k) \in Later
    BY <2>1, TaskTypes
  <2>3. <<SetBlock(p, k), Reply(p, k)>> \in Seq(Later)
    BY <2>2
  <2>4. QED
    BY <1>1, <1>6, <2>3 DEF Place
<1>7. QED
  BY <1>3, <1>4, <1>5, <1>6 DEF Packet

\* A step of a handler that leaves the world and the feed alone.
LEMMA HandlerStep ==
  ASSUME BlockInvariant, TypeOK', NEW s \in Sessions, work[s] # <<>>,
         Current(s).step # "push", ~At(s, "push")', UNCHANGED <<world, feedVars>>,
         view'[s] # Unseen,
         \A t \in Sessions : t # s => work'[t] = work[t] /\ view'[t] = view[t],
         \A p \in DOMAIN Above :
            world[Above[p]] = "plant" /\ Clears(s, p) => Clears(s, p)'
  PROVE  BlockInvariant'
<1>1. Nested(s)'
  BY DEF BlockInvariant, HandlersNest, Nested, At, Current, feedVars
<1>2. HandlersNest'
  BY <1>1, OthersNest DEF BlockInvariant, feedVars
<1>3. PlantsAreOwed'
  BY StillOwed DEF BlockInvariant
<1>4. QED
  BY <1>2, <1>3 DEF BlockInvariant

LEMMA LookStep ==
  ASSUME BlockInvariant, NEW s \in Sessions, Look(s)
  PROVE  BlockInvariant'
<1> DEFINE task == [Current(s) EXCEPT !.step = "apply", !.previous = world[Current(s).position]]
<1>1. TypeOK /\ work[s] # <<>> /\ Current(s).step = "look" /\ view[s] # Unseen
      /\ UNCHANGED <<world, view, packets, contested, raced, feedVars>>
  BY DEF BlockInvariant, HandlersNest, Nested, Look, At, Current
<1>2. task \in Tasks
  BY <1>1, CurrentTask DEF Tasks, Steps, TypeOK
<1>3. /\ work' \in [Sessions -> Lists] /\ work'[s] # <<>> /\ Current(s)' = task
      /\ \A t \in Sessions : t # s => work'[t] = work[t]
  BY <1>1, <1>2, ThenOne DEF Look
<1>4. TypeOK'
  BY <1>1, <1>3 DEF TypeOK
<1>5. /\ task.step = "apply" /\ task.kind = Current(s).kind
      /\ task.position = Current(s).position
  BY <1>1, CurrentTask DEF Tasks
<1>6. ~At(s, "push")' /\ view'[s] # Unseen
  BY <1>1, <1>3, <1>5 DEF At, Current
<1>7. ASSUME NEW p \in DOMAIN Above, Clears(s, p)
      PROVE  Clears(s, p)'
  BY <1>1, <1>3, <1>5, <1>7 DEF Clears
<1>8. QED
  BY <1>1, <1>3, <1>4, <1>6, <1>7, HandlerStep

LEMMA UnchangedStep ==
  ASSUME BlockInvariant, NEW s \in Sessions, Unchanged(s)
  PROVE  BlockInvariant'
<1>1. /\ TypeOK /\ work[s] # <<>> /\ Current(s).step = "apply" /\ view[s] # Unseen
      /\ world[Current(s).position] = Current(s).kind
      /\ UNCHANGED <<world, view, packets, contested, raced, feedVars>>
  BY DEF BlockInvariant, HandlersNest, Nested, Unchanged, At, Current
<1>2. Tail(work[s]) \in Seq(Later) /\ Unanswered(Tail(work[s])) \in Seq(Later)
  BY <1>1, CurrentTask, HeadTailProperties DEF Unanswered
<1>3. PICK q \in Seq(Later) : work' = [work EXCEPT ![s] = q]
  BY <1>2 DEF Unchanged
<1>4. q \in Lists /\ (q # <<>> => Head(q).step # "push")
  BY LaterAreTasks
<1>5. TypeOK' /\ work'[s] = q /\ \A t \in Sessions : t # s => work'[t] = work[t]
  BY <1>1, <1>3, <1>4 DEF TypeOK
<1>6. ~At(s, "push")'
  BY <1>4, <1>5 DEF At
<1>7. ASSUME NEW p \in DOMAIN Above, world[Above[p]] = "plant"
      PROVE  ~Clears(s, p)
  BY <1>1, <1>7 DEF Clears
<1>8. QED
  BY <1>1, <1>5, <1>6, <1>7, HandlerStep

\* What a changed block leaves to do on the plant above it and on a portal.
LEMMA PlantTasks ==
  ASSUME TypeOK, NEW s \in Sessions, Plant(s)
  PROVE  \E clearing, falls \in Seq(Later) :
           /\ Then(s, clearing \o falls) /\ clearing \o falls \in Seq(Later)
           /\ \A i \in DOMAIN clearing : clearing[i].step = "look"
           /\ \A i \in DOMAIN falls : falls[i].step = "portal"
<1> DEFINE p == Current(s).position
           dies == /\ p \in DOMAIN Above
                   /\ world[Above[p]] = "plant"
                   /\ Current(s).kind \notin Supports
           clearing == IF dies THEN <<SetBlock(Above[p], "air")>> ELSE <<>>
           falls == Falls(Current(s))
<1>1. work[s] # <<>> /\ Current(s).step = "plant" /\ Then(s, clearing \o falls)
  BY DEF Plant, At, Current
<1>2. Current(s) \in Tasks /\ Current(s).kind # "plant"
  BY <1>1, CurrentTask DEF Tasks
<1>3. [Current(s) EXCEPT !.step = "portal"] \in Later
  BY <1>2 DEF Later, Tasks, Steps
<1>4. falls \in Seq(Later) /\ \A i \in DOMAIN falls : falls[i].step = "portal"
  BY <1>2, <1>3 DEF Falls, Tasks
<1>5. clearing \in Seq(Later) /\ \A i \in DOMAIN clearing : clearing[i].step = "look"
  <2>1. CASE dies
    <3> DEFINE set == SetBlock(Above[p], "air")
    <3>1. set \in Later /\ set.step = "look"
      BY <2>1, BlockAssumption, TaskTypes DEF Kinds, SetBlock, Task
    <3> HIDE DEF set
    <3>2. <<set>> \in Seq(Later) /\ \A i \in DOMAIN <<set>> : <<set>>[i].step = "look"
      BY <3>1
    <3>3. QED
      BY <2>1, <3>2 DEF set
  <2>2. CASE ~dies
    BY <2>2
  <2>3. QED
    BY <2>1, <2>2
<1> HIDE DEF clearing, falls
<1>6. clearing \o falls \in Seq(Later)
  BY <1>4, <1>5, ConcatProperties
<1>7. QED
  BY <1>1, <1>4, <1>5, <1>6

LEMMA PlantStep ==
  ASSUME BlockInvariant, NEW s \in Sessions, Plant(s)
  PROVE  BlockInvariant'
<1> DEFINE p == Current(s).position
           dies == /\ p \in DOMAIN Above
                   /\ world[Above[p]] = "plant"
                   /\ Current(s).kind \notin Supports
           clearing == IF dies THEN <<SetBlock(Above[p], "air")>> ELSE <<>>
           falls == Falls(Current(s))
<1>1. /\ TypeOK /\ work[s] # <<>> /\ Current(s).step = "plant" /\ view[s] # Unseen
      /\ UNCHANGED <<world, view, packets, contested, raced, feedVars>>
      /\ Then(s, clearing \o falls)
  BY DEF BlockInvariant, HandlersNest, Nested, Plant, At, Current
<1>2. falls \in Seq(Later)
  <2>1. Current(s) \in Tasks /\ Current(s).kind # "plant"
    BY <1>1, CurrentTask DEF Tasks
  <2>2. [Current(s) EXCEPT !.step = "portal"] \in Later
    BY <2>1 DEF Later, Tasks, Steps
  <2>3. QED
    BY <2>2 DEF Falls
<1>3. clearing \in Seq(Later)
  BY BlockAssumption, TaskTypes DEF Kinds
<1>4. clearing \o falls \in Seq(Later)
  BY <1>2, <1>3, ConcatProperties
<1>5. /\ work' \in [Sessions -> Lists] /\ ~At(s, "push")'
      /\ work'[s] = (clearing \o falls) \o Tail(work[s])
      /\ \A t \in Sessions : t # s => work'[t] = work[t]
  BY <1>1, <1>4, ThenMany
<1>6. TypeOK'
  BY <1>1, <1>5 DEF TypeOK
<1>7. ASSUME NEW b \in DOMAIN Above, world[Above[b]] = "plant", Clears(s, b)
      PROVE  Clears(s, b)'
  <2>1. p = b /\ dies
    BY <1>1, <1>7 DEF Clears
  <2>2. clearing = <<SetBlock(Above[b], "air")>> /\ SetBlock(Above[b], "air") \in Later
    BY <2>1, BlockAssumption, TaskTypes DEF Kinds
  <2>3. work'[s] = (<<SetBlock(Above[b], "air")>> \o falls) \o Tail(work[s])
    BY <1>5, <2>2
  <2>4. work'[s] # <<>> /\ Head(work'[s]) = SetBlock(Above[b], "air")
    <3>1. Tail(work[s]) \in Seq(Later)
      BY <1>1, CurrentTask
    <3> HIDE DEF falls
    <3>2. /\ (<<SetBlock(Above[b], "air")>> \o falls) \o Tail(work[s]) # <<>>
          /\ Head((<<SetBlock(Above[b], "air")>> \o falls) \o Tail(work[s]))
               = SetBlock(Above[b], "air")
      BY <1>2, <2>2, <3>1, HeadStays
    <3>3. QED
      BY <2>3, <3>2
  <2>5. QED
    BY <2>4 DEF Clears, Current, SetBlock, Task
<1>8. QED
  BY <1>1, <1>5, <1>6, <1>7, HandlerStep

LEMMA CollapseStep ==
  ASSUME BlockInvariant, NEW s \in Sessions, Collapse(s)
  PROVE  BlockInvariant'
<1> DEFINE q == IF Framed THEN <<>> ELSE SetBlocks(Lit, "air")
<1>1. /\ TypeOK /\ work[s] # <<>> /\ Current(s).step = "portal" /\ view[s] # Unseen
      /\ UNCHANGED <<world, view, packets, contested, raced, feedVars>>
      /\ Then(s, q)
  BY DEF BlockInvariant, HandlersNest, Nested, Collapse, At, Current
<1>2. Lit \in SUBSET Positions /\ IsFiniteSet(Lit)
  BY BlockAssumption, FS_Subset DEF Lit
<1>3. q \in Seq(Later)
  BY <1>2, ManyTasks DEF Kinds
<1>4. /\ work' \in [Sessions -> Lists] /\ ~At(s, "push")'
      /\ \A t \in Sessions : t # s => work'[t] = work[t]
  BY <1>1, <1>3, ThenMany
<1>5. TypeOK'
  BY <1>1, <1>4 DEF TypeOK
<1>6. \A p \in DOMAIN Above : ~Clears(s, p)
  BY <1>1 DEF Clears
<1>7. QED
  BY <1>1, <1>4, <1>5, <1>6, HandlerStep

LEMMA AnswerStep ==
  ASSUME BlockInvariant, NEW s \in Sessions, Answer(s)
  PROVE  BlockInvariant'
<1>1. /\ TypeOK /\ work[s] # <<>> /\ Current(s).step = "reply" /\ view[s] # Unseen
      /\ view' = [view EXCEPT ![s][Current(s).position] = Current(s).kind]
      /\ UNCHANGED <<world, packets, contested, raced, feedVars>>
      /\ Then(s, <<>>)
  BY DEF BlockInvariant, HandlersNest, Nested, Answer, At, Current
<1>2. Current(s).position \in Positions /\ Current(s).kind \in Kinds
  BY <1>1, CurrentTask DEF Tasks
<1>3. /\ work' \in [Sessions -> Lists] /\ ~At(s, "push")'
      /\ \A t \in Sessions : t # s => work'[t] = work[t]
  <2>1. <<>> \in Seq(Later)
    OBVIOUS
  <2>2. QED
    BY <1>1, <2>1, ThenMany
<1>4. /\ view'[s] \in [Positions -> Kinds]
      /\ view' \in [Sessions -> [Positions -> Kinds] \union {Unseen}]
      /\ \A t \in Sessions : t # s => view'[t] = view[t]
  BY <1>1, <1>2 DEF TypeOK
<1>5. view'[s] # Unseen
  BY <1>2, <1>4 DEF Unseen
<1>6. TypeOK'
  BY <1>1, <1>3, <1>4 DEF TypeOK
<1>7. \A p \in DOMAIN Above : ~Clears(s, p)
  BY <1>1 DEF Clears
<1>8. QED
  BY <1>1, <1>3, <1>4, <1>5, <1>6, <1>7, HandlerStep

\* The step of a task becomes another one of the same position and kind.
LEMMA OnStep ==
  ASSUME TypeOK, NEW s \in Sessions, work[s] # <<>>, Current(s).step # "reply",
         NEW step \in Steps, On(s, step)
  PROVE  /\ work' \in [Sessions -> Lists]
         /\ work'[s] # <<>> /\ Current(s)' \in Tasks
         /\ Current(s)'.step = step
         /\ Current(s)'.position = Current(s).position
         /\ Current(s)'.kind = Current(s).kind
         /\ \A t \in Sessions : t # s => work'[t] = work[t]
<1> DEFINE task == [Current(s) EXCEPT !.step = step]
<1>1. task \in Tasks /\ Then(s, <<task>>)
  BY CurrentTask DEF Tasks, On
<1>2. /\ work' \in [Sessions -> Lists] /\ work'[s] # <<>> /\ Current(s)' = task
      /\ \A t \in Sessions : t # s => work'[t] = work[t]
  BY <1>1, ThenOne
<1>3. task.step = step /\ task.position = Current(s).position /\ task.kind = Current(s).kind
  BY CurrentTask DEF Tasks
<1>4. QED
  BY <1>1, <1>2, <1>3

LEMMA ApplyStep ==
  ASSUME BlockInvariant, NEW s \in Sessions, Apply(s)
  PROVE  BlockInvariant'
<1> DEFINE q == Current(s).position
           k == Current(s).kind
<1>1. /\ TypeOK /\ work[s] # <<>> /\ Current(s).step = "apply" /\ Nested(s)
      /\ world' = [world EXCEPT ![q] = k]
      /\ contested' = IF Unpublished(s) = {} THEN contested
                      ELSE contested \union {Current(t).position : t \in Unpublished(s) \union {s}}
      /\ raced' = (raced \/ Unnoticed(s))
      /\ On(s, "number")
      /\ UNCHANGED <<view, packets, feedVars>>
  BY DEF BlockInvariant, HandlersNest, Apply, At, Current
<1>2. /\ work' \in [Sessions -> Lists] /\ work'[s] # <<>>
      /\ Current(s)'.step = "number" /\ Current(s)'.position = q /\ Current(s)'.kind = k
      /\ \A t \in Sessions : t # s => work'[t] = work[t]
  BY <1>1, OnStep DEF Steps
<1>3. q \in Positions /\ k \in Kinds /\ k # "plant"
  BY <1>1, CurrentTask DEF Tasks
<1>4. TypeOK'
  <2>1. \A t \in Unpublished(s) \union {s} : Current(t).position \in Positions
    BY <1>1, CurrentTask DEF Unpublished, Publishing, At, Tasks
  <2>2. contested' \in SUBSET Positions
    BY <1>1, <2>1 DEF TypeOK
  <2>3. raced' \in BOOLEAN
    BY <1>1
  <2>4. world' \in [Positions -> Kinds]
    BY <1>1, <1>3 DEF TypeOK
  <2>5. QED
    BY <1>1, <1>2, <2>2, <2>3, <2>4 DEF TypeOK
<1>5. HandlersNest'
  <2>1. ~At(s, "push") /\ ~At(s, "push")'
    BY <1>1, <1>2 DEF At, Current
  <2>2. Nested(s)'
    BY <1>1, <2>1 DEF Nested, feedVars
  <2>3. QED
    BY <1>1, <1>2, <2>2, OthersNest DEF BlockInvariant, feedVars
<1>6. PlantsAreOwed'
  <2> SUFFICES ASSUME NEW p \in DOMAIN Above,
                      world'[Above[p]] = "plant", world'[p] \notin Supports
               PROVE  \E t \in Sessions : Clears(t, p)'
    BY DEF PlantsAreOwed
  <2>1. p \in Positions /\ Above[p] \in Positions
    BY BlockAssumption
  <2>2. Above[p] # q /\ world[Above[p]] = "plant"
    BY <1>1, <1>3, <2>1 DEF TypeOK
  <2>3. CASE p = q
    BY <1>1, <1>2, <2>1, <2>3 DEF Clears, TypeOK
  <2>4. CASE p # q
    <3>1. world[p] \notin Supports
      BY <1>1, <2>1, <2>4 DEF TypeOK
    <3>2. PICK t \in Sessions : Clears(t, p)
      BY <2>2, <3>1 DEF BlockInvariant, PlantsAreOwed
    <3>3. t # s
      BY <1>1, <2>2, <3>2 DEF Clears
    <3>4. QED
      BY <1>2, <3>2, <3>3 DEF Clears, Current
  <2>5. QED
    BY <2>3, <2>4
<1>7. QED
  BY <1>4, <1>5, <1>6 DEF BlockInvariant

LEMMA NumberStep ==
  ASSUME BlockInvariant, FeedFacts!FeedInvariant, NEW s \in Sessions, Number(s)
  PROVE  BlockInvariant'
<1> DEFINE change == [position |-> Current(s).position, kind |-> Current(s).kind]
<1>1. /\ TypeOK /\ work[s] # <<>> /\ Current(s).step = "number" /\ Nested(s)
      /\ Feed!Draw(s, change)
      /\ On(s, "push")
      /\ UNCHANGED <<world, view, packets, contested, raced>>
  BY DEF BlockInvariant, HandlersNest, Number, At, Current
<1>2. /\ work' \in [Sessions -> Lists] /\ work'[s] # <<>>
      /\ Current(s)'.step = "push"
      /\ Current(s)'.position = Current(s).position /\ Current(s)'.kind = Current(s).kind
      /\ \A t \in Sessions : t # s => work'[t] = work[t]
  BY <1>1, OnStep DEF Steps
<1>3. /\ drawn'[s] = {[revision |-> revision + 1, subject |-> change]}
      /\ \A t \in Sessions : t # s => drawn'[t] = drawn[t]
      /\ UNCHANGED <<joined, batch>>
  BY <1>1, FeedTypes DEF Feed!Draw
<1>4. TypeOK'
  BY <1>1, <1>2 DEF TypeOK
<1>5. Nested(s)'
  <2>1. At(s, "push")'
    BY <1>2 DEF At, Current
  <2>2. QED
    BY <1>1, <1>2, <1>3, <2>1 DEF Nested
<1>6. HandlersNest'
  BY <1>1, <1>2, <1>3, <1>5, OthersNest DEF BlockInvariant
<1>7. PlantsAreOwed'
  <2>1. ASSUME NEW p \in DOMAIN Above, Clears(s, p)
        PROVE  Clears(s, p)'
    BY <1>1, <1>2, <2>1 DEF Clears
  <2>2. QED
    BY <1>1, <1>2, <2>1, StillOwed DEF BlockInvariant
<1>8. QED
  BY <1>4, <1>6, <1>7 DEF BlockInvariant

LEMMA PushStep ==
  ASSUME BlockInvariant, FeedFacts!FeedInvariant, NEW s \in Sessions, Push(s)
  PROVE  BlockInvariant'
<1>1. /\ TypeOK /\ work[s] # <<>> /\ Current(s).step = "push" /\ Nested(s)
      /\ Feed!Push(s)
      /\ Then(s, Follows(Current(s)))
      /\ UNCHANGED <<world, view, packets, contested, raced>>
      /\ Current(s) \in Tasks
  BY CurrentTask DEF BlockInvariant, HandlersNest, Push, At, Current
<1>2. /\ drawn'[s] = {}
      /\ \A t \in Sessions : t # s => drawn'[t] = drawn[t]
      /\ UNCHANGED <<joined, batch>>
  BY <1>1, FeedTypes DEF Feed!Push
<1>3. /\ work' \in [Sessions -> Lists] /\ ~At(s, "push")'
      /\ \A t \in Sessions : t # s => work'[t] = work[t]
      /\ \A p \in DOMAIN Above : Clears(s, p) => Clears(s, p)'
  <2>1. CASE Current(s).position \in DOMAIN Above
    <3>1. On(s, "plant")
      BY <1>1, <2>1 DEF Follows, On
    <3>2. /\ work' \in [Sessions -> Lists] /\ work'[s] # <<>>
          /\ Current(s)'.step = "plant"
          /\ Current(s)'.position = Current(s).position /\ Current(s)'.kind = Current(s).kind
          /\ \A t \in Sessions : t # s => work'[t] = work[t]
      BY <1>1, <3>1, OnStep DEF Steps
    <3>3. QED
      BY <1>1, <3>2 DEF At, Clears, Current
  <2>2. CASE Current(s).position \notin DOMAIN Above
    <3>1. [Current(s) EXCEPT !.step = "portal"] \in Later
      BY <1>1 DEF Later, Tasks, Steps
    <3>2. Follows(Current(s)) \in Seq(Later)
      BY <2>2, <3>1 DEF Follows, Falls
    <3>3. \A p \in DOMAIN Above : ~Clears(s, p)
      BY <1>1, <2>2 DEF Clears
    <3>4. QED
      BY <1>1, <3>2, <3>3, ThenMany
  <2>3. QED
    BY <2>1, <2>2
<1>4. TypeOK'
  BY <1>1, <1>3 DEF TypeOK
<1>5. Nested(s)'
  BY <1>1, <1>2, <1>3 DEF Nested
<1>6. HandlersNest'
  BY <1>1, <1>2, <1>3, <1>5, OthersNest DEF BlockInvariant
<1>7. PlantsAreOwed'
  BY <1>1, <1>3, StillOwed DEF BlockInvariant
<1>8. QED
  BY <1>4, <1>6, <1>7 DEF BlockInvariant

LEMMA StutterStep == BlockInvariant /\ UNCHANGED vars => BlockInvariant'
  BY DEF vars, feedVars, BlockInvariant, TypeOK, HandlersNest, Nested, At, Current,
         PlantsAreOwed, Clears

LEMMA StepInvariant ==
  BlockInvariant /\ FeedFacts!FeedInvariant /\ [Next]_vars
  => (BlockInvariant /\ FeedFacts!FeedInvariant)'
<1>1. BlockInvariant /\ FeedFacts!FeedInvariant /\ [Next]_vars => BlockInvariant'
  BY ConnectionStep, PacketStep, LookStep, UnchangedStep, ApplyStep, NumberStep, PushStep,
     PlantStep, CollapseStep, AnswerStep, StutterStep DEF Next
<1>2. QED
  BY <1>1, FeedKept DEF BlockInvariant
-----------------------------------------------------------------------------
LEMMA RangeOfOne ==
  ASSUME NEW x \in Tasks
  PROVE  <<x>> \in Seq(Tasks) /\ Range(<<x>>) = {x}
<1>1. <<x>> \in Seq(Tasks)
  OBVIOUS
<1>2. Len(<<x>>) = 1 /\ <<x>>[1] = x /\ 1..1 = {1}
  OBVIOUS
<1>3. Range(<<x>>) = {<<x>>[i] : i \in 1..Len(<<x>>)}
  BY <1>1, RangeEquality
<1>4. {<<x>>[i] : i \in {1}} = {x}
  BY <1>2
<1>5. QED
  BY <1>1, <1>2, <1>3, <1>4

LEMMA RangeOfFirst ==
  ASSUME NEW x \in Tasks, NEW q \in Seq(Tasks)
  PROVE  Range(<<x>> \o q) = {x} \union Range(q)
<1> DEFINE one == <<x>>
<1>1. one \in Seq(Tasks) /\ Range(one) = {x}
  BY RangeOfOne
<1> HIDE DEF one
<1>2. Range(one \o q) = Range(one) \union Range(q)
  BY <1>1, RangeConcatenation
<1>3. QED
  BY <1>1, <1>2 DEF one

\* The tasks of a sequence, whatever their order.
LEMMA RangeOfTasks ==
  ASSUME TypeOK, NEW s \in Sessions
  PROVE  /\ Range(work[s]) \subseteq Tasks
         /\ work[s] # <<>> => Range(work[s]) = {Current(s)} \union Range(Tail(work[s]))
         /\ Lights(s) <=> \E task \in Range(work[s]) :
                            task.kind = "portal" /\ task.step \in {"look", "apply"}
<1>1. work[s] \in Seq(Tasks)
  BY DEF TypeOK, Lists
<1>2. Range(work[s]) = {work[s][i] : i \in 1..Len(work[s])} /\ DOMAIN work[s] = 1..Len(work[s])
  BY <1>1, RangeEquality
<1>3. Range(work[s]) \subseteq Tasks
  BY <1>1, RangeOfSeq
<1>4. ASSUME work[s] # <<>>
      PROVE  Range(work[s]) = {Current(s)} \union Range(Tail(work[s]))
  <2>1. work[s] = <<Current(s)>> \o Tail(work[s])
    BY <1>1, <1>4 DEF Current
  <2>2. Current(s) \in Tasks /\ Tail(work[s]) \in Seq(Tasks)
    BY <1>1, <1>4, HeadTailProperties DEF Current
  <2>3. QED
    BY <2>1, <2>2, RangeOfFirst
<1>5. QED
  BY <1>2, <1>3, <1>4 DEF Lights

\* What follows for the task that the handler of s comes to.
LEMMA ThenRange ==
  ASSUME TypeOK, NEW s \in Sessions, work[s] # <<>>, NEW q \in Seq(Tasks), Then(s, q)
  PROVE  Range(work'[s]) = Range(q) \union Range(Tail(work[s]))
<1>1. Tail(work[s]) \in Seq(Tasks)
  BY CurrentTask DEF Lists
<1>2. work'[s] = q \o Tail(work[s])
  BY DEF Then, TypeOK
<1>3. QED
  BY <1>1, <1>2, RangeConcatenation

\* A collapse comes to every position that is lit.
LEMMA SetBlocksRange ==
  ASSUME NEW P \in SUBSET Positions, IsFiniteSet(P), NEW k \in Kinds \ {"plant"}
  PROVE  Range(SetBlocks(P, k)) = {SetBlock(p, k) : p \in P}
<1> DEFINE order == SetToSeq(P)
           n == Cardinality(P)
<1>1. \E f \in [1..n -> P] : IsInjective(f)
  BY FS_CardinalityType DEF ExistsBijection, Bijection, Injection, IsInjective
<1>2. order \in [1..n -> P] /\ IsInjective(order) /\ n \in Nat
  BY <1>1, FS_CardinalityType DEF SetToSeq
<1>3. order \in Injection(1..n, P)
  BY <1>2 DEF Injection
<1>4. Cardinality(1..n) = n
  BY <1>2, FS_Interval
<1>5. order \in Surjection(1..n, P)
  BY <1>3, <1>4, FS_Injection
<1>6. \A p \in P : \E i \in 1..n : order[i] = p
  BY <1>5 DEF Surjection
<1>7. Len(order) = n
  BY <1>2
<1>8. SetBlocks(P, k) \in Seq(Later) /\ SetBlocks(P, k) = [i \in 1..n |-> SetBlock(order[i], k)]
  BY <1>7, ManyTasks DEF SetBlocks
<1>9. Len(SetBlocks(P, k)) = n
  BY <1>2, <1>8
<1>10. Range(SetBlocks(P, k)) = {SetBlocks(P, k)[i] : i \in 1..Len(SetBlocks(P, k))}
  BY <1>8, RangeEquality
<1>11. \A i \in 1..n : order[i] \in P /\ SetBlocks(P, k)[i] = SetBlock(order[i], k)
  BY <1>2, <1>8
<1> HIDE DEF order, n
<1>12. QED
  BY <1>6, <1>9, <1>10, <1>11

\* Darkens, said of the task that a session comes to and those that wait.
LEMMA DarkensRange ==
  ASSUME TypeOK, NEW s \in Sessions, NEW p
  PROVE  Darkens(s, p) <=>
           \/ /\ work[s] # <<>> /\ Current(s).step \in {"number", "push", "plant"}
              /\ Current(s).previous = "obsidian" /\ Current(s).kind # "obsidian"
           \/ \E task \in Range(work[s]) :
                \/ task.step = "portal"
                \/ task.step \in {"look", "apply"} /\ task.position = p /\ task.kind = "air"
<1>1. work[s] \in Seq(Tasks)
  BY DEF TypeOK, Lists
<1>2. Range(work[s]) = {work[s][i] : i \in 1..Len(work[s])} /\ DOMAIN work[s] = 1..Len(work[s])
  BY <1>1, RangeEquality
<1>3. QED
  BY <1>2 DEF Darkens

\* The portals stay owed where no block changes and the handler of s, alone,
\* neither begins to light a field nor forgets to put one out.
LEMMA StillDark ==
  ASSUME PortalsAreOwed, UNCHANGED <<world, raced>>, NEW s \in Sessions,
         \A t \in Sessions : t # s => work'[t] = work[t],
         ~Lights(s) /\ ~FrameStands => ~Lights(s)',
         \A p \in Lit : Darkens(s, p) /\ ~FrameStands => Darkens(s, p)'
  PROVE  PortalsAreOwed'
<1>1. Lit' = Lit /\ FrameStands' = FrameStands
  BY DEF Lit, FrameStands
<1>2. \A t \in Sessions : t # s => Lights(t)' = Lights(t)
  BY DEF Lights
<1>3. \A t \in Sessions, p \in Lit : t # s => Darkens(t, p)' = Darkens(t, p)
  BY DEF Darkens, Current
<1>4. QED
  BY <1>1, <1>2, <1>3 DEF PortalsAreOwed

\* The same for a handler that goes on with the tasks q.
LEMMA StillDarkThen ==
  ASSUME TypeOK, TypeOK', PortalsAreOwed, UNCHANGED <<world, raced>>, NEW s \in Sessions,
         work[s] # <<>>, NEW q \in Seq(Tasks), Then(s, q),
         \A task \in Range(q) :
            task.kind = "portal" /\ task.step \in {"look", "apply"}
            => Current(s).kind = "portal" /\ Current(s).step \in {"look", "apply"},
         \A p \in Lit : ~FrameStands =>
            /\ /\ Current(s).step \in {"number", "push", "plant"}
               /\ Current(s).previous = "obsidian" /\ Current(s).kind # "obsidian"
               => Darkens(s, p)'
            /\ Current(s).step = "portal" => Darkens(s, p)'
            /\ /\ Current(s).step \in {"look", "apply"}
               /\ Current(s).position = p /\ Current(s).kind = "air"
               => Darkens(s, p)'
  PROVE  PortalsAreOwed'
<1>1. \A t \in Sessions : t # s => work'[t] = work[t]
  BY DEF Then, TypeOK
<1>2. /\ Range(work'[s]) = Range(q) \union Range(Tail(work[s]))
      /\ Range(work[s]) = {Current(s)} \union Range(Tail(work[s]))
  BY ThenRange, RangeOfTasks
<1>3. Lights(s)' <=> \E task \in Range(work'[s]) :
                        task.kind = "portal" /\ task.step \in {"look", "apply"}
  <2>1. work'[s] \in Seq(Tasks)
    BY DEF TypeOK, Lists
  <2>2. Range(work'[s]) = {work'[s][i] : i \in 1..Len(work'[s])} /\ DOMAIN work'[s] = 1..Len(work'[s])
    BY <2>1, RangeEquality
  <2>3. QED
    BY <2>2 DEF Lights
<1>4. ~Lights(s) => ~Lights(s)'
  BY <1>2, <1>3, RangeOfTasks
<1>5. ASSUME NEW p \in Lit, Darkens(s, p), ~FrameStands
      PROVE  Darkens(s, p)'
  <2>1. ASSUME NEW task \in Range(Tail(work[s])),
               \/ task.step = "portal"
               \/ task.step \in {"look", "apply"} /\ task.position = p /\ task.kind = "air"
        PROVE  Darkens(s, p)'
    <3>1. work'[s] \in Seq(Tasks) /\ task \in Range(work'[s])
      BY <1>2, <2>1 DEF TypeOK, Lists
    <3>2. \E i \in DOMAIN work'[s] : work'[s][i] = task
      BY <3>1, RangeEquality
    <3>3. QED
      BY <2>1, <3>2 DEF Darkens
  <2>2. QED
    BY <1>2, <1>5, <2>1, DarkensRange
<1>6. QED
  BY <1>1, <1>4, <1>5, StillDark

LEMMA DarkConnectionStep ==
  ASSUME TypeOK, TypeOK', PortalsAreOwed, NEW s \in Sessions,
         Join(s) \/ Load(s) \/ Poll(s) \/ HandleChange(s) \/ Leave(s)
  PROVE  PortalsAreOwed'
<1>1. UNCHANGED <<world, raced>>
  BY DEF Join, Load, Poll, HandleChange, Leave
<1>2. CASE UNCHANGED work
  BY <1>1, <1>2, StillDark DEF Lights, Darkens, Current
<1>3. CASE Leave(s)
  <2>1. work'[s] = <<>> /\ \A t \in Sessions : t # s => work'[t] = work[t]
    BY <1>3 DEF Leave, TypeOK
  <2>2. ~Lights(s)'
    BY <2>1 DEF Lights
  <2>3. \A i \in DOMAIN work[s] : work[s][i].step = "reply"
    BY <1>3 DEF Leave
  <2>4. work[s] # <<>> => Current(s).step = "reply"
    BY <2>3 DEF Current, TypeOK, Lists
  <2>5. ASSUME NEW p \in Lit
        PROVE  ~Darkens(s, p)
    BY <2>3, <2>4 DEF Darkens
  <2>6. QED
    BY <1>1, <2>1, <2>2, <2>5, StillDark
<1>4. QED
  BY <1>2, <1>3 DEF Join, Load, Poll, HandleChange

\* A field is lit in a frame that stands, and by nothing else.
LEMMA DarkPacketStep ==
  ASSUME TypeOK, PortalsAreOwed, NEW s \in Sessions, Packet(s)
  PROVE  PortalsAreOwed'
<1>1. work[s] = <<>> /\ UNCHANGED <<world, raced>>
      /\ \A t \in Sessions : t # s => work'[t] = work[t]
  BY DEF Packet, Ignite, Mine, Refuse, Place, Begin, Waiting, TypeOK
<1>2. \A p \in Lit : ~Darkens(s, p)
  BY <1>1 DEF Darkens
<1>3. ASSUME ~FrameStands
      PROVE  ~Lights(s)'
  <2>1. CASE Ignite(s)
    BY <1>3, <2>1 DEF Ignite
  <2>2. ASSUME NEW p \in Positions, Mine(s, p)
        PROVE  ~Lights(s)'
    <3>1. work'[s] = <<SetBlock(p, "air"), Reply(p, "air")>>
      BY <2>2 DEF Mine, Begin, TypeOK
    <3>2. QED
      BY <3>1 DEF Lights, SetBlock, Reply, Task
  <2>3. ASSUME NEW p \in Positions, Refuse(s, p)
        PROVE  ~Lights(s)'
    <3>1. work'[s] = <<Reply(p, world[p])>>
      BY <2>3 DEF Refuse, Begin, TypeOK
    <3>2. QED
      BY <3>1 DEF Lights, Reply, Task
  <2>4. ASSUME NEW p \in Positions, NEW k \in Placeable, Place(s, p, k)
        PROVE  ~Lights(s)'
    <3>1. work'[s] = <<SetBlock(p, k), Reply(p, k)>> /\ k # "portal"
      BY <2>4, BlockAssumption DEF Place, Begin, TypeOK
    <3>2. QED
      BY <3>1 DEF Lights, SetBlock, Reply, Task
  <2>5. QED
    BY <2>1, <2>2, <2>3, <2>4 DEF Packet
<1>4. QED
  BY <1>1, <1>2, <1>3, StillDark

LEMMA DarkLookStep ==
  ASSUME TypeOK, TypeOK', PortalsAreOwed, NEW s \in Sessions, Look(s)
  PROVE  PortalsAreOwed'
<1> DEFINE task == [Current(s) EXCEPT !.step = "apply", !.previous = world[Current(s).position]]
<1>1. work[s] # <<>> /\ Current(s).step = "look" /\ UNCHANGED <<world, raced>>
      /\ Then(s, <<task>>)
  BY DEF Look, At, Current
<1>2. task \in Tasks /\ task.kind = Current(s).kind /\ task.position = Current(s).position
      /\ task.step = "apply"
  BY <1>1, CurrentTask DEF Tasks, Steps, TypeOK
<1> HIDE DEF task
<1>3. <<task>> \in Seq(Tasks) /\ Range(<<task>>) = {task} /\ Range(work'[s]) = {task} \union Range(Tail(work[s]))
  BY <1>1, <1>2, RangeOfOne, ThenRange
<1>4. ASSUME NEW p \in Lit, Current(s).position = p, Current(s).kind = "air"
      PROVE  Darkens(s, p)'
  <2>1. work'[s] \in Seq(Tasks) /\ task \in Range(work'[s])
    BY <1>3 DEF TypeOK, Lists
  <2>2. \E i \in DOMAIN work'[s] : work'[s][i] = task
    BY <2>1, RangeEquality
  <2>3. QED
    BY <1>2, <1>4, <2>2 DEF Darkens
<1>5. QED
  BY <1>1, <1>2, <1>3, <1>4, StillDarkThen

\* Where nothing changes a portal block is not put out.
LEMMA DarkUnchangedStep ==
  ASSUME TypeOK, PortalsAreOwed, NEW s \in Sessions, Unchanged(s)
  PROVE  PortalsAreOwed'
<1>1. /\ work[s] # <<>> /\ Current(s).step = "apply" /\ UNCHANGED <<world, raced>>
      /\ world[Current(s).position] = Current(s).kind
      /\ \A t \in Sessions : t # s => work'[t] = work[t]
      /\ work'[s] = IF Current(s).kind = "air" THEN Tail(work[s]) ELSE Unanswered(Tail(work[s]))
  BY DEF Unchanged, At, Current, TypeOK
<1>2. PICK q \in Seq(Tasks) : q = work'[s] /\ Range(q) \subseteq Range(Tail(work[s]))
                /\ \A task \in Range(Tail(work[s])) : task.step # "reply" => task \in Range(q)
  <2> DEFINE r == Tail(work[s])
  <2>1. r \in Seq(Tasks)
    BY <1>1, CurrentTask DEF Lists
  <2>2. CASE work'[s] = r
    BY <2>1, <2>2
  <2>3. CASE r # <<>> /\ Head(r).step = "reply" /\ work'[s] = Tail(r)
    <3> HIDE DEF r
    <3>1. r = <<Head(r)>> \o Tail(r) /\ Head(r) \in Tasks /\ Tail(r) \in Seq(Tasks)
      BY <2>1, <2>3, HeadTailProperties
    <3>2. Range(r) = {Head(r)} \union Range(Tail(r))
      BY <3>1, RangeOfFirst
    <3>3. \A task \in Range(r) : task.step # "reply" => task \in Range(Tail(r))
      BY <2>3, <3>2
    <3>4. QED
      BY <2>3, <3>1, <3>2, <3>3 DEF r
  <2>4. QED
    BY <1>1, <2>2, <2>3 DEF Unanswered
<1>3. Range(work[s]) = {Current(s)} \union Range(Tail(work[s]))
  BY <1>1, RangeOfTasks
<1>4. Range(q) = {work'[s][i] : i \in DOMAIN work'[s]}
  BY <1>2, RangeEquality
<1>5. ~Lights(s) => ~Lights(s)'
  <2>1. Lights(s)' => \E task \in Range(q) :
                        task.kind = "portal" /\ task.step \in {"look", "apply"}
    BY <1>4 DEF Lights
  <2>2. QED
    BY <1>2, <1>3, <2>1, RangeOfTasks
<1>6. ASSUME NEW p \in Lit, Darkens(s, p)
      PROVE  Darkens(s, p)'
  <2>1. world[p] = "portal"
    BY DEF Lit
  <2>2. PICK task \in Range(Tail(work[s])) :
           \/ task.step = "portal"
           \/ task.step \in {"look", "apply"} /\ task.position = p /\ task.kind = "air"
    BY <1>1, <1>3, <1>6, <2>1, DarkensRange
  <2>3. \E i \in DOMAIN work'[s] : work'[s][i] = task
    BY <1>2, <1>4, <2>2
  <2>4. QED
    BY <2>2, <2>3 DEF Darkens
<1>7. QED
  BY <1>1, <1>5, <1>6, StillDark

\* A task of s that puts out what is lit at p.
LEMMA DarkensBy ==
  ASSUME TypeOK', NEW s \in Sessions, NEW p, NEW task \in Range(work'[s]),
         \/ task.step = "portal"
         \/ task.step \in {"look", "apply"} /\ task.position = p /\ task.kind = "air"
  PROVE  Darkens(s, p)'
<1>1. work'[s] \in Seq(Tasks)
  BY DEF TypeOK, Lists
<1>2. \E i \in DOMAIN work'[s] : work'[s][i] = task
  BY <1>1, RangeEquality
<1>3. QED
  BY <1>2 DEF Darkens

\* Who takes obsidian away in a frame that nobody lights puts out what is lit.
LEMMA DarkApplyStep ==
  ASSUME TypeOK, TypeOK', PortalsAreOwed, NEW s \in Sessions, Apply(s)
  PROVE  PortalsAreOwed'
<1> DEFINE q == Current(s).position
           k == Current(s).kind
           task == [Current(s) EXCEPT !.step = "number"]
<1>1. /\ work[s] # <<>> /\ Current(s).step = "apply" /\ Current(s) \in Tasks
      /\ world' = [world EXCEPT ![q] = k]
      /\ raced' = (raced \/ Unnoticed(s))
      /\ Then(s, <<task>>)
  BY CurrentTask DEF Apply, At, Current, On
<1>2. /\ task \in Tasks /\ task.step = "number" /\ task.kind = k
      /\ task.previous = Current(s).previous
  BY <1>1 DEF Tasks, Steps
<1>3. q \in Positions
  BY <1>1 DEF Tasks
<1>4. /\ work'[s] # <<>> /\ Current(s)' = task
      /\ \A t \in Sessions : t # s => work'[t] = work[t]
  BY <1>1, <1>2, ThenOne
<1>5. Range(work'[s]) = {task} \union Range(Tail(work[s]))
  BY <1>1, <1>2, RangeOfOne, ThenRange
<1>6. Range(work[s]) = {Current(s)} \union Range(Tail(work[s]))
  BY <1>1, RangeOfTasks
<1>7. ASSUME \A t \in Sessions : ~Lights(t)
      PROVE  \A t \in Sessions : ~Lights(t)'
  <2>1. \A t \in Sessions : t # s => ~Lights(t)'
    BY <1>4, <1>7 DEF Lights
  <2>2. work'[s] \in Seq(Tasks)
    BY DEF TypeOK, Lists
  <2>3. Range(work'[s]) = {work'[s][i] : i \in DOMAIN work'[s]}
    BY <2>2, RangeEquality
  <2>4. Lights(s)' => \E other \in Range(work'[s]) :
                         other.kind = "portal" /\ other.step \in {"look", "apply"}
    BY <2>3 DEF Lights
  <2>5. \A other \in Range(Tail(work[s])) :
           ~(other.kind = "portal" /\ other.step \in {"look", "apply"})
    BY <1>6, <1>7, RangeOfTasks
  <2>6. ~Lights(s)'
    BY <1>2, <1>5, <2>4, <2>5
  <2>7. QED
    BY <2>1, <2>6
<1>8. ASSUME ~FrameStands, ~raced
      PROVE  PortalsAreOwed'
  <2>1. \A t \in Sessions : ~Lights(t)
    BY <1>8 DEF PortalsAreOwed
  <2>2. k # "portal"
    BY <1>1, <1>6, <2>1, RangeOfTasks
  <2>3. ASSUME NEW p \in Lit'
        PROVE  \E t \in Sessions : Darkens(t, p)'
    <3>1. p \in Positions /\ p # q /\ p \in Lit
      BY <1>1, <1>3, <2>2, <2>3, BlockAssumption DEF Lit, TypeOK
    <3>2. PICK t \in Sessions : Darkens(t, p)
      BY <1>8, <3>1 DEF PortalsAreOwed
    <3>3. CASE t # s
      BY <1>4, <3>2, <3>3 DEF Darkens, Current
    <3>4. CASE t = s
      <4>1. PICK other \in Range(Tail(work[s])) :
               \/ other.step = "portal"
               \/ other.step \in {"look", "apply"} /\ other.position = p /\ other.kind = "air"
        BY <1>1, <1>6, <3>1, <3>2, <3>4, DarkensRange
      <4>2. QED
        BY <1>5, <4>1, DarkensBy
    <3>5. QED
      BY <3>3, <3>4
  <2>4. QED
    BY <1>7, <2>1, <2>3 DEF PortalsAreOwed
<1>9. ASSUME FrameStands, ~FrameStands', ~raced'
      PROVE  PortalsAreOwed'
  <2>1. PICK p \in Frame : world'[p] # "obsidian"
    BY <1>9 DEF FrameStands
  <2>2. p = q /\ world[p] = "obsidian" /\ k # "obsidian"
    BY <1>1, <1>3, <1>9, <2>1, BlockAssumption DEF FrameStands, TypeOK
  <2>3. Current(s).previous = "obsidian" /\ \A t \in Sessions : ~Lights(t)
    BY <1>1, <1>9, <2>2 DEF Unnoticed
  <2>4. \A b \in Lit' : Darkens(s, b)'
    BY <1>2, <1>4, <2>2, <2>3 DEF Darkens
  <2>5. QED
    BY <1>7, <2>3, <2>4 DEF PortalsAreOwed
<1>10. QED
  BY <1>1, <1>8, <1>9 DEF PortalsAreOwed

LEMMA DarkNumberStep ==
  ASSUME TypeOK, TypeOK', PortalsAreOwed, NEW s \in Sessions, Number(s)
  PROVE  PortalsAreOwed'
<1> DEFINE task == [Current(s) EXCEPT !.step = "push"]
<1>1. /\ work[s] # <<>> /\ Current(s).step = "number" /\ Current(s) \in Tasks
      /\ UNCHANGED <<world, raced>> /\ Then(s, <<task>>)
  BY CurrentTask DEF Number, At, Current, On
<1>2. /\ task \in Tasks /\ task.step = "push" /\ task.kind = Current(s).kind
      /\ task.previous = Current(s).previous
  BY <1>1 DEF Tasks, Steps
<1> HIDE DEF task
<1>3. work'[s] # <<>> /\ Current(s)' = task
  BY <1>1, <1>2, ThenOne
<1>4. <<task>> \in Seq(Tasks) /\ Range(<<task>>) = {task}
  BY <1>2, RangeOfOne
<1>5. Current(s).previous = "obsidian" /\ Current(s).kind # "obsidian"
      => \A p \in Lit : Darkens(s, p)'
  BY <1>2, <1>3 DEF Darkens
<1>6. QED
  BY <1>1, <1>2, <1>4, <1>5, StillDarkThen

LEMMA FallsRange ==
  ASSUME NEW task \in Tasks, task.kind # "plant"
  PROVE  /\ Falls(task) \in Seq(Tasks)
         /\ \A other \in Range(Falls(task)) : other.step = "portal"
         /\ task.previous = "obsidian" /\ task.kind # "obsidian"
            => \E other \in Range(Falls(task)) : other.step = "portal"
<1> DEFINE other == [task EXCEPT !.step = "portal"]
<1>1. other \in Tasks /\ other.step = "portal"
  BY DEF Tasks, Steps
<1>2. <<other>> \in Seq(Tasks) /\ Range(<<other>>) = {other}
  BY <1>1, RangeOfOne
<1>3. <<>> \in Seq(Tasks) /\ Range(<<>>) = {}
  BY DEF Range
<1>4. QED
  BY <1>1, <1>2, <1>3 DEF Falls

LEMMA DarkPushStep ==
  ASSUME TypeOK, TypeOK', PortalsAreOwed, NEW s \in Sessions, Push(s)
  PROVE  PortalsAreOwed'
<1>1. /\ work[s] # <<>> /\ Current(s).step = "push" /\ Current(s) \in Tasks
      /\ Current(s).kind # "plant"
      /\ UNCHANGED <<world, raced>> /\ Then(s, Follows(Current(s)))
  BY CurrentTask DEF Push, At, Current, Tasks
<1>2. CASE Current(s).position \in DOMAIN Above
  <2> DEFINE task == [Current(s) EXCEPT !.step = "plant"]
  <2>1. /\ task \in Tasks /\ task.step = "plant" /\ task.kind = Current(s).kind
        /\ task.previous = Current(s).previous /\ Then(s, <<task>>)
    BY <1>1, <1>2 DEF Tasks, Steps, Follows
  <2> HIDE DEF task
  <2>2. work'[s] # <<>> /\ Current(s)' = task
    BY <1>1, <2>1, ThenOne
  <2>3. <<task>> \in Seq(Tasks) /\ Range(<<task>>) = {task}
    BY <2>1, RangeOfOne
  <2>4. Current(s).previous = "obsidian" /\ Current(s).kind # "obsidian"
        => \A p \in Lit : Darkens(s, p)'
    BY <2>1, <2>2 DEF Darkens
  <2>5. QED
    BY <1>1, <2>1, <2>3, <2>4, StillDarkThen
<1>3. CASE Current(s).position \notin DOMAIN Above
  <2> DEFINE q == Falls(Current(s))
  <2>1. q \in Seq(Tasks) /\ Then(s, q) /\ \A other \in Range(q) : other.step = "portal"
    BY <1>1, <1>3, FallsRange DEF Follows
  <2>2. Current(s).previous = "obsidian" /\ Current(s).kind # "obsidian"
        => \A p \in Lit : Darkens(s, p)'
    <3>1. Range(work'[s]) = Range(q) \union Range(Tail(work[s]))
      BY <1>1, <2>1, ThenRange
    <3>2. QED
      BY <1>1, <3>1, FallsRange, DarkensBy
  <2> HIDE DEF q
  <2>3. QED
    BY <1>1, <2>1, <2>2, StillDarkThen
<1>4. QED
  BY <1>2, <1>3

LEMMA DarkPlantStep ==
  ASSUME TypeOK, TypeOK', PortalsAreOwed, NEW s \in Sessions, Plant(s)
  PROVE  PortalsAreOwed'
<1> DEFINE p == Current(s).position
           dies == /\ p \in DOMAIN Above
                   /\ world[Above[p]] = "plant"
                   /\ Current(s).kind \notin Supports
           clearing == IF dies THEN <<SetBlock(Above[p], "air")>> ELSE <<>>
           falls == Falls(Current(s))
           q == clearing \o falls
<1>1. /\ work[s] # <<>> /\ Current(s).step = "plant" /\ Current(s) \in Tasks
      /\ Current(s).kind # "plant"
      /\ UNCHANGED <<world, raced>> /\ Then(s, q)
  BY CurrentTask DEF Plant, At, Current, Tasks
<1>2. clearing \in Seq(Tasks) /\ \A other \in Range(clearing) : other.kind = "air"
  <2>1. CASE dies
    <3> DEFINE set == SetBlock(Above[p], "air")
    <3>1. set \in Tasks /\ set.kind = "air"
      BY <2>1, BlockAssumption, TaskTypes DEF Later, Kinds, SetBlock, Task
    <3>2. <<set>> \in Seq(Tasks) /\ Range(<<set>>) = {set}
      BY <3>1, RangeOfOne
    <3>3. QED
      BY <2>1, <3>1, <3>2
  <2>2. CASE ~dies
    BY <2>2 DEF Range
  <2>3. QED
    BY <2>1, <2>2
<1>3. /\ falls \in Seq(Tasks)
      /\ \A other \in Range(falls) : other.step = "portal"
      /\ Current(s).previous = "obsidian" /\ Current(s).kind # "obsidian"
         => \E other \in Range(falls) : other.step = "portal"
  BY <1>1, FallsRange
<1> HIDE DEF clearing, falls
<1>4. q \in Seq(Tasks) /\ Range(q) = Range(clearing) \union Range(falls)
  BY <1>2, <1>3, ConcatProperties, RangeConcatenation
<1>5. Range(work'[s]) = Range(q) \union Range(Tail(work[s]))
  BY <1>1, <1>4, ThenRange
<1>6. Current(s).previous = "obsidian" /\ Current(s).kind # "obsidian"
      => \A b \in Lit : Darkens(s, b)'
  BY <1>3, <1>4, <1>5, DarkensBy
<1> HIDE DEF q
<1>7. QED
  BY <1>1, <1>2, <1>3, <1>4, <1>6, StillDarkThen

\* A collapse in a frame that is broken comes to everything that is lit.
LEMMA DarkCollapseStep ==
  ASSUME TypeOK, TypeOK', PortalsAreOwed, NEW s \in Sessions, Collapse(s)
  PROVE  PortalsAreOwed'
<1> DEFINE q == IF Framed THEN <<>> ELSE SetBlocks(Lit, "air")
<1>1. /\ work[s] # <<>> /\ Current(s).step = "portal"
      /\ UNCHANGED <<world, raced>> /\ Then(s, q)
  BY DEF Collapse, At, Current
<1>2. Lit \in SUBSET Positions /\ IsFiniteSet(Lit) /\ "air" \in Kinds \ {"plant"}
  BY BlockAssumption, FS_Subset DEF Lit, Kinds
<1>3. /\ SetBlocks(Lit, "air") \in Seq(Tasks)
      /\ Range(SetBlocks(Lit, "air")) = {SetBlock(p, "air") : p \in Lit}
  <2>1. SetBlocks(Lit, "air") \in Seq(Later)
    BY <1>2, ManyTasks
  <2>2. Range(SetBlocks(Lit, "air")) = {SetBlock(p, "air") : p \in Lit}
    BY <1>2, SetBlocksRange
  <2>3. SetBlocks(Lit, "air") \in Seq(Tasks)
    BY <2>1, LaterAreTasks DEF Lists
  <2>4. QED
    BY <2>2, <2>3
<1>4. q \in Seq(Tasks) /\ \A task \in Range(q) : task.kind = "air"
  <2>1. <<>> \in Seq(Tasks) /\ Range(<<>>) = {}
    BY DEF Range
  <2>2. \A task \in Range(SetBlocks(Lit, "air")) : task.kind = "air"
    BY <1>3 DEF SetBlock, Task
  <2>3. QED
    BY <1>3, <2>1, <2>2
<1>5. ASSUME NEW p \in Lit, ~FrameStands
      PROVE  Darkens(s, p)'
  <2>1. q = SetBlocks(Lit, "air")
    BY <1>5 DEF Framed
  <2> HIDE DEF q
  <2>2. Range(work'[s]) = Range(q) \union Range(Tail(work[s]))
    BY <1>1, <1>4, ThenRange
  <2>3. SetBlock(p, "air") \in Range(work'[s])
    BY <1>3, <2>1, <2>2
  <2>4. QED
    BY <2>3, DarkensBy DEF SetBlock, Task
<1> HIDE DEF q
<1>6. QED
  BY <1>1, <1>4, <1>5, StillDarkThen

LEMMA DarkAnswerStep ==
  ASSUME TypeOK, TypeOK', PortalsAreOwed, NEW s \in Sessions, Answer(s)
  PROVE  PortalsAreOwed'
<1>1. /\ work[s] # <<>> /\ Current(s).step = "reply"
      /\ UNCHANGED <<world, raced>> /\ Then(s, <<>>)
  BY DEF Answer, At, Current
<1>2. <<>> \in Seq(Tasks) /\ Range(<<>>) = {}
  BY DEF Range
<1>3. QED
  BY <1>1, <1>2, StillDarkThen

LEMMA PortalStep ==
  BlockInvariant /\ FeedFacts!FeedInvariant /\ PortalsAreOwed /\ [Next]_vars
  => PortalsAreOwed'
<1> SUFFICES ASSUME BlockInvariant, FeedFacts!FeedInvariant, PortalsAreOwed, [Next]_vars
             PROVE  PortalsAreOwed'
  OBVIOUS
<1>1. TypeOK /\ TypeOK'
  BY StepInvariant DEF BlockInvariant
<1>2. CASE UNCHANGED vars
  BY <1>2 DEF vars, PortalsAreOwed, Lights, Darkens, Lit, FrameStands, Current
<1>3. CASE Next
  BY <1>1, <1>3, DarkConnectionStep, DarkPacketStep, DarkLookStep, DarkUnchangedStep,
     DarkApplyStep, DarkNumberStep, DarkPushStep, DarkPlantStep, DarkCollapseStep,
     DarkAnswerStep DEF Next
<1>4. QED
  BY <1>2, <1>3

\* What the chunk was generated with stands in its frame.
LEMMA PortalInit == Init => PortalsAreOwed
BY BlockAssumption DEF Init, PortalsAreOwed, FrameStands, Lights, Lit
-----------------------------------------------------------------------------
\* Tasks that wait do not publish.
LEMMA LaterPublishNothing ==
  ASSUME NEW s \in Sessions, work[s] \in Seq(Later)
  PROVE  ~Publishing(s)
<1>1. work[s] # <<>> => Head(work[s]) \in Later
  BY LaterAreTasks
<1>2. \A task \in Later : task.step # "push" /\ task.step # "number"
  BY DEF Later
<1>3. QED
  BY <1>1, <1>2 DEF Publishing, At

\* A step that neither writes the world nor publishes: whoever publishes goes on.
Calm == /\ UNCHANGED <<world, contested, revision, drawn, feed, pushes, published>>
        /\ \A t \in Sessions : /\ Publishing(t)' <=> Publishing(t)
                               /\ Publishing(t) => Current(t)' = Current(t)

LEMMA CalmAlone ==
  ASSUME NEW s \in Sessions, \A t \in Sessions : t # s => work'[t] = work[t],
         UNCHANGED <<world, contested, revision, drawn, feed, pushes, published>>,
         ~Publishing(s), ~Publishing(s)'
  PROVE  Calm
<1>1. ASSUME NEW t \in Sessions, t # s
      PROVE  (Publishing(t)' <=> Publishing(t)) /\ Current(t)' = Current(t)
  BY <1>1 DEF Publishing, At, Current
<1>2. QED
  BY <1>1 DEF Calm

LEMMA CalmConnection ==
  ASSUME TypeOK, NEW s \in Sessions,
         Join(s) \/ Load(s) \/ Poll(s) \/ HandleChange(s) \/ Leave(s)
  PROVE  Calm
<1>1. UNCHANGED <<world, contested, revision, drawn, feed, pushes, published>>
  BY DEF Join, Load, Poll, HandleChange, Leave, Feed!Join, Feed!Poll, Feed!Handle,
         Feed!Leave, Feed!SameKind, Feed!history, feedVars
<1>2. CASE UNCHANGED work
  BY <1>1, <1>2 DEF Calm, Publishing, At, Current
<1>3. CASE Leave(s)
  <2>1. work'[s] = <<>> /\ \A t \in Sessions : t # s => work'[t] = work[t]
    BY <1>3 DEF Leave, TypeOK
  <2>2. work[s] # <<>> => Current(s).step = "reply"
    BY <1>3 DEF Leave, Current, TypeOK, Lists
  <2>3. ~Publishing(s) /\ ~Publishing(s)'
    BY <2>1, <2>2 DEF Publishing, At, Current
  <2>4. QED
    BY <1>1, <2>1, <2>3, CalmAlone
<1>4. QED
  BY <1>2, <1>3 DEF Join, Load, Poll, HandleChange

LEMMA CalmPacket ==
  ASSUME TypeOK, NEW s \in Sessions, Packet(s)
  PROVE  /\ Calm
         /\ UNCHANGED <<view, joined, cursor, batch, since, handled>>
         /\ work[s] = <<>> /\ \A t \in Sessions : t # s => work'[t] = work[t]
<1>1. PICK tasks \in Seq(Later) : Begin(s, tasks)
  <2>1. SetBlocks(Portal, "portal") \in Seq(Later)
    BY ManyTasks, BlockAssumption DEF Kinds
  <2>2. ASSUME NEW p \in Positions, NEW k \in Kinds, k # "plant"
        PROVE  <<SetBlock(p, k), Reply(p, k)>> \in Seq(Later)
    BY <2>2, TaskTypes
  <2>3. ASSUME NEW p \in Positions
        PROVE  <<Reply(p, world[p])>> \in Seq(Later)
    <3>1. world[p] \in Kinds
      BY DEF TypeOK
    <3>2. Reply(p, world[p]) \in Later
      BY <3>1, TaskTypes
    <3>3. QED
      BY <3>2
  <2>4. "air" \in Kinds /\ \A k \in Placeable : k \in Kinds /\ k # "plant"
    BY BlockAssumption DEF Kinds
  <2>5. QED
    BY <2>1, <2>2, <2>3, <2>4 DEF Packet, Ignite, Mine, Refuse, Place
<1>2. /\ work[s] = <<>> /\ work'[s] = tasks
      /\ \A t \in Sessions : t # s => work'[t] = work[t]
      /\ UNCHANGED <<world, view, contested, feedVars>>
  BY <1>1 DEF Begin, Waiting, TypeOK
<1>3. ~Publishing(s) /\ ~Publishing(s)'
  <2>1. tasks # <<>> => Head(tasks) \in Later
    BY LaterAreTasks
  <2>2. \A task \in Later : task.step # "push" /\ task.step # "number"
    BY DEF Later
  <2>3. QED
    BY <1>2, <2>1, <2>2 DEF Publishing, At
<1>4. QED
  BY <1>2, <1>3, CalmAlone DEF feedVars

LEMMA CalmHandler ==
  ASSUME TypeOK, NEW s \in Sessions,
         Look(s) \/ Unchanged(s) \/ Plant(s) \/ Collapse(s) \/ Answer(s), TypeOK'
  PROVE  /\ Calm
         /\ UNCHANGED <<joined, cursor, batch, since, handled>>
         /\ \A t \in Sessions : t # s => work'[t] = work[t]
<1>1. /\ UNCHANGED <<world, contested, feedVars>>
      /\ work[s] # <<>>
      /\ \A t \in Sessions : t # s => work'[t] = work[t]
  BY DEF Look, Unchanged, Plant, Collapse, Answer, At, Then, TypeOK
<1>2. Tail(work[s]) \in Seq(Later) /\ Current(s) \in Tasks
  BY <1>1, CurrentTask
<1>3. ~Publishing(s)
  BY DEF Look, Unchanged, Plant, Collapse, Answer, Publishing, At
<1>4. CASE work'[s] \in Seq(Later)
  <2>1. work'[s] # <<>> => Head(work'[s]) \in Later
    BY <1>4, LaterAreTasks
  <2>2. \A task \in Later : task.step # "push" /\ task.step # "number"
    BY DEF Later
  <2>3. ~Publishing(s)'
    BY <2>1, <2>2 DEF Publishing, At
  <2>4. QED
    BY <1>1, <1>3, <2>3, CalmAlone DEF feedVars
<1>5. CASE Look(s)
  <2> DEFINE task == [Current(s) EXCEPT !.step = "apply", !.previous = world[Current(s).position]]
  <2>1. task \in Tasks /\ task.step = "apply" /\ Then(s, <<task>>)
    BY <1>2, <1>5 DEF Tasks, Steps, TypeOK, Look, At, Current
  <2> HIDE DEF task
  <2>2. work'[s] # <<>> /\ Current(s)' = task
    BY <1>1, <2>1, ThenOne
  <2>3. ~Publishing(s)'
    BY <2>1, <2>2 DEF Publishing, At, Current
  <2>4. QED
    BY <1>1, <1>3, <2>3, CalmAlone DEF feedVars
<1>6. CASE Unchanged(s)
  <2>1. Unanswered(Tail(work[s])) \in Seq(Later)
    BY <1>2, HeadTailProperties DEF Unanswered
  <2>2. work'[s] \in Seq(Later)
    BY <1>2, <1>6, <2>1 DEF Unchanged, TypeOK
  <2>3. QED
    BY <1>4, <2>2
<1>7. CASE Plant(s) \/ Collapse(s) \/ Answer(s)
  <2>1. PICK q \in Seq(Later) : Then(s, q)
    <3> <<>> \in Seq(Later)
      OBVIOUS
    <3>1. CASE Answer(s)
      <4>1. Then(s, <<>>)
        BY <3>1 DEF Answer
      <4>2. QED
        BY <4>1
    <3>2. CASE Collapse(s)
      <4>1. Lit \in SUBSET Positions /\ IsFiniteSet(Lit) /\ "air" \in Kinds \ {"plant"}
        BY BlockAssumption, FS_Subset DEF Lit, Kinds
      <4>2. SetBlocks(Lit, "air") \in Seq(Later)
        BY <4>1, ManyTasks
      <4>3. Then(s, <<>>) \/ Then(s, SetBlocks(Lit, "air"))
        BY <3>2 DEF Collapse
      <4>4. QED
        BY <4>2, <4>3
    <3>3. CASE Plant(s)
      BY <1>1, <3>3, PlantTasks DEF Plant
    <3>4. QED
      BY <1>7, <3>1, <3>2, <3>3
  <2>2. work'[s] = q \o Tail(work[s])
    BY <2>1 DEF Then, TypeOK
  <2>3. work'[s] \in Seq(Later)
    BY <1>2, <2>2, ConcatProperties
  <2>4. QED
    BY <1>4, <2>3
<1>8. QED
  BY <1>5, <1>6, <1>7

\* Who writes the world while others have not published contests their blocks.
LEMMA ApplyFacts ==
  ASSUME BlockInvariant, NEW s \in Sessions, Apply(s)
  PROVE  /\ work[s] # <<>> /\ Current(s).step = "apply" /\ Current(s).position \in Positions
         /\ ~Publishing(s) /\ Publishing(s)'
         /\ Current(s)'.position = Current(s).position /\ Current(s)'.kind = Current(s).kind
         /\ \A t \in Sessions : t # s => /\ work'[t] = work[t]
                                         /\ Publishing(t)' <=> Publishing(t)
                                         /\ Current(t)' = Current(t)
         /\ world' = [world EXCEPT ![Current(s).position] = Current(s).kind]
         /\ contested \subseteq contested'
         /\ \A t \in Sessions : t # s /\ Publishing(t) =>
               {Current(s).position, Current(t).position} \subseteq contested'
         /\ UNCHANGED <<view, feedVars>>
<1>1. /\ TypeOK /\ work[s] # <<>> /\ Current(s).step = "apply"
      /\ world' = [world EXCEPT ![Current(s).position] = Current(s).kind]
      /\ contested' = IF Unpublished(s) = {} THEN contested
                      ELSE contested \union {Current(t).position : t \in Unpublished(s) \union {s}}
      /\ On(s, "number")
      /\ UNCHANGED <<view, feedVars>>
  BY DEF BlockInvariant, Apply, At, Current
<1>2. /\ work'[s] # <<>> /\ Current(s)'.step = "number"
      /\ Current(s)'.position = Current(s).position /\ Current(s)'.kind = Current(s).kind
      /\ \A t \in Sessions : t # s => work'[t] = work[t]
  BY <1>1, OnStep DEF Steps
<1>3. Current(s).position \in Positions
  BY <1>1, CurrentTask DEF Tasks
<1>4. ~Publishing(s) /\ Publishing(s)'
  BY <1>1, <1>2 DEF Publishing, At, Current
<1>5. \A t \in Sessions : t # s => (Publishing(t)' <=> Publishing(t)) /\ Current(t)' = Current(t)
  BY <1>2 DEF Publishing, At, Current
<1>6. ASSUME NEW t \in Sessions, t # s, Publishing(t)
      PROVE  {Current(s).position, Current(t).position} \subseteq contested'
  BY <1>1, <1>6 DEF Unpublished
<1>7. QED
  BY <1>1, <1>2, <1>3, <1>4, <1>5, <1>6

LEMMA NumberFacts ==
  ASSUME BlockInvariant, FeedFacts!FeedInvariant, NEW s \in Sessions, Number(s)
  PROVE  /\ work[s] # <<>> /\ Current(s).step = "number"
         /\ Publishing(s) /\ Publishing(s)'
         /\ Current(s)'.position = Current(s).position /\ Current(s)'.kind = Current(s).kind
         /\ \A t \in Sessions : t # s => /\ work'[t] = work[t] /\ drawn'[t] = drawn[t]
                                         /\ Publishing(t)' <=> Publishing(t)
                                         /\ Current(t)' = Current(t)
         /\ \A d \in drawn'[s] : d.revision = revision + 1
         /\ UNCHANGED <<world, view, contested, feed, pushes, joined, cursor, batch,
                        published, since, handled>>
<1>1. /\ TypeOK /\ work[s] # <<>> /\ Current(s).step = "number"
      /\ On(s, "push") /\ UNCHANGED <<world, view, contested>>
      /\ Feed!Draw(s, [position |-> Current(s).position, kind |-> Current(s).kind])
  BY DEF BlockInvariant, Number, At, Current
<1>2. /\ work'[s] # <<>> /\ Current(s)'.step = "push"
      /\ Current(s)'.position = Current(s).position /\ Current(s)'.kind = Current(s).kind
      /\ \A t \in Sessions : t # s => work'[t] = work[t]
  BY <1>1, OnStep DEF Steps
<1>3. Publishing(s) /\ Publishing(s)'
  BY <1>1, <1>2 DEF Publishing, At, Current
<1>4. \A t \in Sessions : t # s => (Publishing(t)' <=> Publishing(t)) /\ Current(t)' = Current(t)
  BY <1>2 DEF Publishing, At, Current
<1>5. /\ \A d \in drawn'[s] : d.revision = revision + 1
      /\ \A t \in Sessions : t # s => drawn'[t] = drawn[t]
      /\ UNCHANGED <<feed, pushes, joined, cursor, batch, published, since, handled>>
  BY <1>1, FeedTypes DEF Feed!Draw, Feed!history
<1>6. QED
  BY <1>1, <1>2, <1>3, <1>4, <1>5

\* What is pushed is the newest of the feed, which keeps what is newer than
\* anything it keeps.
LEMMA PushFacts ==
  ASSUME BlockInvariant, FeedFacts!FeedInvariant, FeedFacts!Bounded,
         NEW s \in Sessions, Push(s)
  PROVE  /\ work[s] # <<>> /\ Current(s).step = "push"
         /\ Publishing(s) /\ ~Publishing(s)'
         /\ drawn'[s] = {}
         /\ \A t \in Sessions : t # s => /\ work'[t] = work[t] /\ drawn'[t] = drawn[t]
                                         /\ Publishing(t)' <=> Publishing(t)
                                         /\ Current(t)' = Current(t)
         /\ UNCHANGED <<world, view, contested, joined, cursor, batch, since, handled>>
         /\ pushes' = pushes + 1
         /\ \E new \in Feed!Entries :
              /\ new.place = pushes
              /\ new.subject.position = Current(s).position
              /\ new.subject.kind = Current(s).kind
              /\ \E d \in drawn[s] : d.revision = new.revision /\ d.subject = new.subject
              /\ published' = published \union {new}
              /\ feed' \subseteq feed \union {new} /\ new \in feed'
              /\ \A e \in feed', f \in feed \union {new} : f.place > e.place => f \in feed'
<1>1. /\ TypeOK /\ work[s] # <<>> /\ Current(s).step = "push" /\ Nested(s)
      /\ Feed!Push(s)
      /\ Then(s, Follows(Current(s)))
      /\ UNCHANGED <<world, view, packets, contested, raced>>
      /\ Current(s) \in Tasks
  BY CurrentTask DEF BlockInvariant, HandlersNest, Push, At, Current
<1>2. /\ ~Publishing(s)' /\ \A t \in Sessions : t # s => work'[t] = work[t]
  <2>1. CASE Current(s).position \in DOMAIN Above
    <3>1. On(s, "plant")
      BY <1>1, <2>1 DEF Follows, On
    <3>2. /\ work'[s] # <<>> /\ Current(s)'.step = "plant"
          /\ \A t \in Sessions : t # s => work'[t] = work[t]
      BY <1>1, <3>1, OnStep DEF Steps
    <3>3. QED
      BY <3>2 DEF Publishing, At, Current
  <2>2. CASE Current(s).position \notin DOMAIN Above
    <3>1. [Current(s) EXCEPT !.step = "portal"] \in Later
      BY <1>1 DEF Later, Tasks, Steps
    <3>2. Follows(Current(s)) \in Seq(Later)
      BY <2>2, <3>1 DEF Follows, Falls
    <3>3. /\ work'[s] = Follows(Current(s)) \o Tail(work[s])
          /\ \A t \in Sessions : t # s => work'[t] = work[t]
      BY <1>1, <3>2, ThenMany
    <3>4. work'[s] \in Seq(Later)
      BY <1>1, <3>2, <3>3, CurrentTask, ConcatProperties
    <3>5. work'[s] # <<>> => Head(work'[s]) \in Later
      BY <3>4, LaterAreTasks
    <3>6. \A task \in Later : task.step # "push" /\ task.step # "number"
      BY DEF Later
    <3>7. QED
      BY <3>3, <3>5, <3>6 DEF Publishing, At
  <2>3. QED
    BY <2>1, <2>2
<1>3. \A t \in Sessions : t # s => (Publishing(t)' <=> Publishing(t)) /\ Current(t)' = Current(t)
  BY <1>2 DEF Publishing, At, Current
<1>4. Publishing(s)
  BY <1>1 DEF Publishing, At, Current
<1>5. FeedFacts!Push(s)
  BY <1>1 DEF Feed!Push, FeedFacts!Push, Feed!Newest, FeedFacts!Newest, Feed!Pushed,
              FeedFacts!Pushed, Feed!SameKind, FeedFacts!SameKind,
              Feed!Cardinality, FeedFacts!Cardinality
<1>6. PICK d \in drawn[s] :
        /\ feed' = FeedFacts!Newest(feed \union {FeedFacts!Pushed(d)})
        /\ pushes' = pushes + 1
        /\ published' = published \union {FeedFacts!Pushed(d)}
        /\ drawn' = [drawn EXCEPT ![s] = {}]
        /\ UNCHANGED <<joined, cursor, batch, since, handled>>
  BY <1>5 DEF FeedFacts!Push
<1> DEFINE new == FeedFacts!Pushed(d)
           S == feed \union {new}
<1>7. /\ drawn \in [Sessions -> SUBSET FeedFacts!Drafts] /\ pushes \in Nat
      /\ feed \in SUBSET FeedFacts!Entries
      /\ \A e \in feed : e.place < pushes
  BY DEF FeedFacts!FeedInvariant, FeedFacts!TypeOK, FeedFacts!Numbered, FeedFacts!FromPublished
<1>8. /\ new \in FeedFacts!Entries /\ new.place = pushes
      /\ new.revision = d.revision /\ new.subject = d.subject
  BY <1>7 DEF FeedFacts!Pushed, FeedFacts!Entries, FeedFacts!Drafts
<1>9. new.subject.position = Current(s).position /\ new.subject.kind = Current(s).kind
  BY <1>1, <1>8 DEF Nested
<1> HIDE DEF new
<1>10. S \in SUBSET FeedFacts!Entries /\ FeedFacts!IsFiniteSet(S)
  <2>1. IsFiniteSet(feed)
    BY DEF FeedFacts!Bounded, FeedFacts!IsFiniteSet, IsFiniteSet
  <2>2. IsFiniteSet(S)
    BY <2>1, FS_AddElement
  <2>3. QED
    BY <1>7, <1>8, <2>2 DEF FeedFacts!IsFiniteSet, IsFiniteSet
<1> HIDE DEF S
<1>11. /\ feed' \subseteq S
       /\ \A e \in feed', f \in S : f.place > e.place => f \in feed'
       /\ \A e \in S : (\A f \in S : f.place <= e.place) => e \in feed'
  BY <1>6, <1>10, BlockAssumption, FeedFacts!NewestUpward DEF S, new
<1>12. new \in feed'
  <2>1. \A f \in S : f.place <= new.place
    BY <1>7, <1>8 DEF S, FeedFacts!Entries
  <2>2. new \in S
    BY DEF S
  <2>3. QED
    BY <1>11, <2>1, <2>2
<1>13. \E x \in Feed!Entries :
         /\ x.place = pushes
         /\ x.subject.position = Current(s).position
         /\ x.subject.kind = Current(s).kind
         /\ \E c \in drawn[s] : c.revision = x.revision /\ c.subject = x.subject
         /\ published' = published \union {x}
         /\ feed' \subseteq feed \union {x} /\ x \in feed'
         /\ \A e \in feed', f \in feed \union {x} : f.place > e.place => f \in feed'
  <2>1. new \in Feed!Entries
    BY <1>8 DEF Feed!Entries, FeedFacts!Entries
  <2>2. published' = published \union {new}
    BY <1>6 DEF new
  <2> WITNESS new \in Feed!Entries
  <2>3. QED
    BY <1>8, <1>9, <1>11, <1>12, <2>2 DEF S
<1>14. /\ drawn'[s] = {} /\ \A t \in Sessions : t # s => drawn'[t] = drawn[t]
       /\ pushes' = pushes + 1
       /\ UNCHANGED <<joined, cursor, batch, since, handled>>
  BY <1>6, <1>7
<1>15. QED
  BY <1>1, <1>2, <1>3, <1>4, <1>13, <1>14

\* What is known of the entries of the feed and of the drafts.
LEMMA FeedKnown ==
  ASSUME FeedFacts!FeedInvariant
  PROVE  /\ pushes \in Nat /\ revision \in Nat
         /\ \A e \in published : /\ e.place \in Nat /\ e.revision \in Nat
                                 /\ e.subject.position \in Positions
                                 /\ e.subject.kind \in Kinds
                                 /\ e.place < pushes /\ e.revision <= revision
         /\ \A e, f \in published : e.revision = f.revision \/ e.place = f.place => e = f
         /\ \A s \in Sessions : \A d \in drawn[s] :
               d.revision \in Nat /\ \A e \in published : e.revision # d.revision
         /\ feed \subseteq published
         /\ \A s \in Sessions : /\ cursor[s] \in Nat /\ since[s] \in Nat
                                /\ batch[s] \subseteq published
                                /\ handled[s] \subseteq published
                                /\ s \notin joined => batch[s] = {}
<1>1. /\ published \in SUBSET FeedFacts!Entries /\ pushes \in Nat /\ revision \in Nat
      /\ drawn \in [Sessions -> SUBSET FeedFacts!Drafts]
      /\ cursor \in [Sessions -> Nat] /\ since \in [Sessions -> Nat]
  BY DEF FeedFacts!FeedInvariant, FeedFacts!TypeOK
<1>2. \A e \in published : /\ e.place \in Nat /\ e.revision \in Nat
                           /\ e.subject.position \in Positions
                           /\ e.subject.kind \in Kinds
  BY <1>1 DEF FeedFacts!Entries, Changes
<1>3. /\ \A e \in published : e.place < pushes /\ e.revision <= revision
      /\ \A e, f \in published : e.revision = f.revision \/ e.place = f.place => e = f
      /\ \A s \in Sessions : \A d \in drawn[s] : \A e \in published : e.revision # d.revision
  BY <1>1 DEF FeedFacts!FeedInvariant, FeedFacts!Numbered
<1>4. \A s \in Sessions : \A d \in drawn[s] : d.revision \in Nat
  BY <1>1 DEF FeedFacts!Drafts
<1>5. QED
  BY <1>1, <1>2, <1>3, <1>4 DEF FeedFacts!FeedInvariant, FeedFacts!FromPublished

LEMMA OverlapsStep ==
  ASSUME BlockInvariant, FeedFacts!FeedInvariant, FeedFacts!Bounded, OverlapsContested,
         NEW s \in Sessions, Calm \/ Apply(s) \/ Number(s) \/ Push(s)
  PROVE  OverlapsContested'
<1>1. CASE Calm
  <2>1. \A t \in Sessions : Publishing(t)' => Publishing(t) /\ Current(t)' = Current(t)
    BY <1>1 DEF Calm
  <2>2. UNCHANGED <<contested, drawn, published>>
    BY <1>1 DEF Calm
  <2>3. QED
    BY <2>1, <2>2 DEF OverlapsContested
<1>2. CASE Apply(s)
  <2>1. contested \subseteq contested' /\ UNCHANGED <<drawn, published>>
    BY <1>2, ApplyFacts DEF feedVars
  <2>2. ASSUME NEW t \in Sessions, NEW u \in Sessions, t # u, Publishing(t)', Publishing(u)'
        PROVE  Current(t)'.position \in contested'
    BY <1>2, <2>1, <2>2, ApplyFacts DEF OverlapsContested
  <2>3. QED
    BY <2>1, <2>2 DEF OverlapsContested
<1>3. CASE Number(s)
  <2>1. UNCHANGED <<contested, published>>
    BY <1>3, NumberFacts
  <2>2. ASSUME NEW t \in Sessions, NEW u \in Sessions, t # u, Publishing(t)', Publishing(u)'
        PROVE  Current(t)'.position \in contested'
    BY <1>3, <2>1, <2>2, NumberFacts DEF OverlapsContested
  <2>3. ASSUME NEW t \in Sessions, NEW d \in drawn'[t], NEW e \in published,
               e.revision > d.revision
        PROVE  {d.subject.position, e.subject.position} \subseteq contested
    <3>1. e.revision <= revision /\ e.revision \in Nat /\ revision \in Nat
      BY FeedKnown
    <3>2. t # s
      BY <1>3, <2>3, <3>1, NumberFacts
    <3>3. QED
      BY <1>3, <2>3, <3>2, NumberFacts DEF OverlapsContested
  <2>4. QED
    BY <2>1, <2>2, <2>3 DEF OverlapsContested
<1>4. CASE Push(s)
  <2>1. PICK new \in Feed!Entries :
              /\ new.place = pushes
              /\ new.subject.position = Current(s).position
              /\ \E d \in drawn[s] : d.revision = new.revision /\ d.subject = new.subject
              /\ published' = published \union {new}
    BY <1>4, PushFacts
  <2>2. contested' = contested
    BY <1>4, PushFacts
  <2>3. ASSUME NEW t \in Sessions, NEW u \in Sessions, t # u, Publishing(t)', Publishing(u)'
        PROVE  Current(t)'.position \in contested
    BY <1>4, <2>3, PushFacts DEF OverlapsContested
  <2>4. ASSUME NEW t \in Sessions, NEW d \in drawn'[t], NEW e \in published',
               e.revision > d.revision
        PROVE  {d.subject.position, e.subject.position} \subseteq contested
    <3>1. t # s /\ d \in drawn[t]
      BY <1>4, <2>4, PushFacts
    <3>2. CASE e \in published
      BY <2>4, <3>1, <3>2 DEF OverlapsContested
    <3>3. CASE e = new
      <4>1. Publishing(t) /\ Publishing(s) /\ d.subject.position = Current(t).position
        BY <1>4, <3>1, PushFacts DEF BlockInvariant, HandlersNest, Nested, Publishing
      <4>2. QED
        BY <2>1, <3>1, <3>3, <4>1 DEF OverlapsContested
    <3>4. QED
      BY <2>1, <3>2, <3>3
  <2>5. ASSUME NEW e \in published', NEW f \in published', Inverted(e, f)
        PROVE  {e.subject.position, f.subject.position} \subseteq contested
    <3>1. CASE e \in published /\ f \in published
      BY <2>5, <3>1 DEF OverlapsContested
    <3>2. CASE e = new
      <4>1. f = new \/ (f.place < pushes /\ f.place \in Nat)
        BY <2>1, FeedKnown
      <4>2. QED
        BY <2>1, <2>5, <3>2, <4>1, FeedKnown DEF Inverted
    <3>3. CASE e \in published /\ f = new
      BY <2>1, <2>5, <3>3 DEF Inverted, OverlapsContested
    <3>4. QED
      BY <2>1, <3>1, <3>2, <3>3
  <2>6. QED
    BY <2>2, <2>3, <2>4, <2>5 DEF OverlapsContested, Inverted
<1>5. QED
  BY <1>1, <1>2, <1>3, <1>4

LEMMA WorldStep ==
  ASSUME BlockInvariant, FeedFacts!FeedInvariant, FeedFacts!Bounded,
         OverlapsContested, WorldPublished,
         NEW s \in Sessions, Calm \/ Apply(s) \/ Number(s) \/ Push(s)
  PROVE  WorldPublished'
<1>1. CASE Calm
  <2>1. \A t \in Sessions : /\ Publishing(t)' => Publishing(t) /\ Current(t)' = Current(t)
                            /\ Publishing(t) => Publishing(t)' /\ Current(t)' = Current(t)
    BY <1>1 DEF Calm
  <2>2. UNCHANGED <<world, contested, published>>
    BY <1>1 DEF Calm
  <2>3. \A p : Open(p) => Open(p)'
    BY <2>1 DEF Open
  <2>4. QED
    BY <2>1, <2>2, <2>3 DEF WorldPublished
<1>2. CASE Apply(s)
  <2> DEFINE q == Current(s).position
             k == Current(s).kind
  <2>1. /\ world' = [world EXCEPT ![q] = k] /\ q \in Positions
        /\ contested \subseteq contested' /\ UNCHANGED published
        /\ Publishing(s)' /\ Current(s)'.position = q /\ Current(s)'.kind = k
        /\ world \in [Positions -> Kinds]
    BY <1>2, ApplyFacts DEF feedVars, BlockInvariant, TypeOK
  <2>2. ASSUME NEW t \in Sessions, Publishing(t)', Current(t)'.position \notin contested'
        PROVE  world'[Current(t)'.position] = Current(t)'.kind
    <3>1. t = s
      BY <1>2, <2>2, ApplyFacts
    <3>2. QED
      BY <2>1, <3>1
  <2>3. ASSUME NEW e \in published, e.subject.position \notin contested',
               ~Open(e.subject.position)',
               \A f \in published : f.subject.position = e.subject.position => f.place <= e.place
        PROVE  world'[e.subject.position] = e.subject.kind
    <3>1. e.subject.position # q
      BY <2>1, <2>3 DEF Open
    <3>2. ~Open(e.subject.position)
      BY <1>2, <2>3, ApplyFacts DEF Open
    <3>3. world[e.subject.position] = e.subject.kind
      BY <2>1, <2>3, <3>2 DEF WorldPublished
    <3>4. QED
      BY <2>1, <3>1, <3>3, FeedKnown
  <2>4. QED
    BY <2>1, <2>2, <2>3 DEF WorldPublished
<1>3. CASE Number(s)
  <2>1. \A t \in Sessions : /\ Publishing(t)' <=> Publishing(t)
                            /\ Current(t)'.position = Current(t).position
                            /\ Current(t)'.kind = Current(t).kind
    BY <1>3, NumberFacts
  <2>2. UNCHANGED <<world, contested, published>>
    BY <1>3, NumberFacts
  <2>3. \A p : Open(p) => Open(p)'
    BY <2>1 DEF Open
  <2>4. QED
    BY <2>1, <2>2, <2>3 DEF WorldPublished
<1>4. CASE Push(s)
  <2>1. PICK new \in Feed!Entries :
              /\ new.place = pushes
              /\ new.subject.position = Current(s).position
              /\ new.subject.kind = Current(s).kind
              /\ published' = published \union {new}
    BY <1>4, PushFacts
  <2>2. UNCHANGED <<world, contested>>
    BY <1>4, PushFacts
  <2>3. ASSUME NEW t \in Sessions, Publishing(t)', Current(t)'.position \notin contested
        PROVE  world[Current(t)'.position] = Current(t)'.kind
    BY <1>4, <2>3, PushFacts DEF WorldPublished
  <2>4. ASSUME NEW e \in published', e.subject.position \notin contested,
               ~Open(e.subject.position)',
               \A f \in published' : f.subject.position = e.subject.position => f.place <= e.place
        PROVE  world[e.subject.position] = e.subject.kind
    <3>1. CASE e = new
      BY <1>4, <2>1, <2>4, <3>1, PushFacts DEF WorldPublished
    <3>2. CASE e \in published
      <4>1. e.subject.position # new.subject.position
        <5>1. e.place < pushes /\ e.place \in Nat /\ pushes \in Nat
          BY <3>2, FeedKnown
        <5>2. QED
          BY <2>1, <2>4, <5>1
      <4>2. ~Open(e.subject.position)
        BY <1>4, <2>1, <2>4, <4>1, PushFacts DEF Open
      <4>3. QED
        BY <2>1, <2>4, <3>2, <4>2 DEF WorldPublished
    <3>3. QED
      BY <2>1, <3>1, <3>2
  <2>5. QED
    BY <2>2, <2>3, <2>4 DEF WorldPublished
<1>5. QED
  BY <1>1, <1>2, <1>3, <1>4

LEMMA CursorsStill ==
  ASSUME CursorsFollow, contested \subseteq contested',
         UNCHANGED <<feed, pushes, published, joined, cursor, batch, since, handled>>
  PROVE  CursorsFollow'
<1>1. FeedIsNewest'
  BY DEF CursorsFollow, FeedIsNewest
<1>2. NothingOld'
  BY DEF CursorsFollow, NothingOld
<1>3. NothingAlone'
  BY DEF CursorsFollow, NothingAlone
<1>4. QED
  BY <1>1, <1>2, <1>3 DEF CursorsFollow

LEMMA CursorsPush ==
  ASSUME BlockInvariant, FeedFacts!FeedInvariant, FeedFacts!Bounded, CursorsFollow,
         NEW s \in Sessions, Push(s)
  PROVE  CursorsFollow'
<1>1. PICK new \in Feed!Entries :
        /\ new.place = pushes
        /\ published' = published \union {new}
        /\ feed' \subseteq feed \union {new} /\ new \in feed'
        /\ \A e \in feed', f \in feed \union {new} : f.place > e.place => f \in feed'
  BY PushFacts
<1>2. /\ UNCHANGED <<contested, joined, cursor, batch, since, handled>>
      /\ pushes' = pushes + 1
  BY PushFacts
<1>3. pushes \in Nat /\ \A e \in published : e.place < pushes /\ e.place \in Nat
  BY FeedKnown
<1>4. FeedIsNewest'
  <2>1. \A t \in Sessions : since[t] <= pushes + 1
    BY <1>3, FeedKnown DEF CursorsFollow, FeedIsNewest
  <2>2. ASSUME NEW e \in feed', NEW f \in published', f.place > e.place
        PROVE  f \in feed'
    <3>1. CASE f = new
      BY <1>1, <3>1
    <3>2. CASE f \in published
      <4>1. e # new
        BY <1>1, <1>3, <2>2, <3>2
      <4>2. f \in feed
        BY <1>1, <2>2, <3>2, <4>1 DEF CursorsFollow, FeedIsNewest
      <4>3. QED
        BY <1>1, <2>2, <4>2
    <3>3. QED
      BY <1>1, <3>1, <3>2
  <2>3. QED
    BY <1>1, <1>2, <2>1, <2>2 DEF FeedIsNewest
<1>5. NothingOld'
  <2> SUFFICES ASSUME NEW t \in joined, NEW e \in published',
                      e.place < since[t],
                      \/ e.revision > cursor[t]
                      \/ e \in batch[t]
                      \/ \E b \in batch[t] : b.place < since[t] /\ e.revision > b.revision
               PROVE  e.subject.position \in contested
    BY <1>2 DEF NothingOld
  <2>1. t \in Sessions
    BY DEF FeedFacts!FeedInvariant, FeedFacts!TypeOK
  <2>2. since[t] <= pushes /\ since[t] \in Nat
    BY <2>1, FeedKnown DEF CursorsFollow, FeedIsNewest
  <2>3. e \in published
    BY <1>1, <1>3, <2>2
  <2>4. QED
    BY <2>3 DEF CursorsFollow, NothingOld
<1>6. NothingAlone'
  BY <1>2 DEF CursorsFollow, NothingAlone
<1>7. QED
  BY <1>4, <1>5, <1>6 DEF CursorsFollow

\* The cursor of who joins is the number of the newest change: what has a higher
\* number was published before it, out of order.
LEMMA CursorsJoin ==
  ASSUME FeedFacts!FeedInvariant, OverlapsContested, CursorsFollow,
         NEW s \in Sessions, Join(s)
  PROVE  CursorsFollow'
<1>1. FeedFacts!Join(s) /\ UNCHANGED contested
  BY DEF Join, Feed!Join, FeedFacts!Join, Feed!Last, FeedFacts!Last, Feed!SameKind,
         FeedFacts!SameKind
<1>2. /\ joined \subseteq Sessions /\ feed \in SUBSET FeedFacts!Entries
      /\ cursor \in [Sessions -> Nat] /\ since \in [Sessions -> Nat]
      /\ handled \in [Sessions -> SUBSET FeedFacts!Entries]
      /\ feed \subseteq published
  BY DEF FeedFacts!FeedInvariant, FeedFacts!TypeOK, FeedFacts!FromPublished
<1>3. /\ s \notin joined /\ joined' = joined \union {s}
      /\ cursor'[s] = (IF feed = {} THEN 0 ELSE FeedFacts!Last(feed).revision)
      /\ since'[s] = pushes
      /\ handled'[s] = {} /\ batch[s] = {}
      /\ \A t \in Sessions : t # s => /\ cursor'[t] = cursor[t] /\ since'[t] = since[t]
                                      /\ handled'[t] = handled[t]
      /\ UNCHANGED <<feed, pushes, batch, published>>
  BY <1>1, <1>2, FeedKnown DEF FeedFacts!Join
<1>4. pushes \in Nat /\ \A e \in published : e.place < pushes /\ e.place \in Nat
  BY FeedKnown
<1>5. FeedIsNewest'
  <2>1. \A t \in Sessions : since'[t] <= pushes
    BY <1>3, <1>4 DEF CursorsFollow, FeedIsNewest
  <2>2. QED
    BY <1>3, <2>1 DEF CursorsFollow, FeedIsNewest
<1>6. NothingOld'
  <2> SUFFICES ASSUME NEW t \in joined', NEW e \in published,
                      e.place < since'[t],
                      \/ e.revision > cursor'[t]
                      \/ e \in batch[t]
                      \/ \E b \in batch[t] : b.place < since'[t] /\ e.revision > b.revision
               PROVE  e.subject.position \in contested
    BY <1>1, <1>3 DEF NothingOld
  <2>1. CASE t # s
    BY <1>2, <1>3, <2>1 DEF CursorsFollow, NothingOld
  <2>2. CASE t = s
    <3>1. e.revision > cursor'[s] /\ feed # {}
      BY <1>3, <2>2 DEF CursorsFollow, FeedIsNewest
    <3> DEFINE last == FeedFacts!Last(feed)
    <3>2. last \in feed /\ \A f \in feed : last.place >= f.place
      BY <1>2, <1>4, <3>1, BlockAssumption, FeedFacts!LastProperties
    <3> HIDE DEF last
    <3>3. ~(e.place > last.place)
      BY <1>4, <1>2, <3>2 DEF CursorsFollow, FeedIsNewest
    <3>4. e.revision > last.revision
      BY <1>3, <3>1 DEF last
    <3>5. e.place # last.place
      BY <1>2, <3>2, <3>4, FeedKnown
    <3>6. Inverted(e, last)
      BY <1>2, <1>4, <3>2, <3>3, <3>4, <3>5 DEF Inverted
    <3>7. QED
      BY <1>2, <3>2, <3>6 DEF OverlapsContested
  <2>3. QED
    BY <2>1, <2>2
<1>7. NothingAlone'
  BY <1>2, <1>3 DEF CursorsFollow, NothingAlone
<1>8. QED
  BY <1>5, <1>6, <1>7 DEF CursorsFollow

LEMMA CursorsPoll ==
  ASSUME FeedFacts!FeedInvariant, CursorsFollow, NEW s \in Sessions, Poll(s)
  PROVE  CursorsFollow'
<1>1. /\ joined \subseteq Sessions /\ batch \in [Sessions -> SUBSET FeedFacts!Entries]
      /\ feed \subseteq published
  BY DEF FeedFacts!FeedInvariant, FeedFacts!TypeOK, FeedFacts!FromPublished
<1>2. /\ batch'[s] = {e \in feed : e.revision > cursor[s]}
      /\ \A t \in Sessions : t # s => batch'[t] = batch[t]
      /\ UNCHANGED <<contested, feed, pushes, published, joined, cursor, since, handled>>
  BY <1>1 DEF Poll, Feed!Poll, Feed!history
<1>3. FeedIsNewest'
  BY <1>2 DEF CursorsFollow, FeedIsNewest
<1>4. NothingOld'
  <2> SUFFICES ASSUME NEW t \in joined, NEW e \in published,
                      e.place < since[t],
                      \/ e.revision > cursor[t]
                      \/ e \in batch'[t]
                      \/ \E b \in batch'[t] : b.place < since[t] /\ e.revision > b.revision
               PROVE  e.subject.position \in contested
    BY <1>2 DEF NothingOld
  <2>1. CASE t # s
    BY <1>1, <1>2, <2>1 DEF CursorsFollow, NothingOld
  <2>2. CASE t = s
    <3>1. e.revision > cursor[s]
      BY <1>1, <1>2, <2>2, FeedKnown
    <3>2. QED
      BY <2>2, <3>1 DEF CursorsFollow, NothingOld
  <2>3. QED
    BY <2>1, <2>2
<1>5. NothingAlone'
  <2> SUFFICES ASSUME NEW t \in joined, NEW b \in batch'[t], NEW e \in handled[t],
                      e.place > b.place, e.revision > b.revision
               PROVE  e \in batch'[t]
    BY <1>2 DEF NothingAlone
  <2>1. CASE t # s
    BY <1>1, <1>2, <2>1 DEF CursorsFollow, NothingAlone
  <2>2. CASE t = s
    <3>1. b \in feed /\ b.revision > cursor[s] /\ e \in published
      BY <1>2, <2>2, FeedKnown
    <3>2. e \in feed
      BY <3>1 DEF CursorsFollow, FeedIsNewest
    <3>3. e.revision > cursor[s]
      BY <1>1, <3>1, <3>2, FeedKnown
    <3>4. QED
      BY <1>2, <2>2, <3>2, <3>3
  <2>3. QED
    BY <2>1, <2>2
<1>6. QED
  BY <1>3, <1>4, <1>5 DEF CursorsFollow

\* A session handles the oldest change of its batch.
LEMMA HandleFacts ==
  ASSUME FeedFacts!FeedInvariant, NEW s \in Sessions, HandleChange(s)
  PROVE  /\ s \in joined
         /\ \A t \in Sessions : t # s => /\ batch'[t] = batch[t] /\ cursor'[t] = cursor[t]
                                         /\ handled'[t] = handled[t]
         /\ UNCHANGED <<world, work, contested, feed, pushes, published, joined, since>>
         /\ \E y \in batch[s] :
              /\ y \in published /\ \A f \in batch[s] : y.place <= f.place
              /\ batch'[s] = batch[s] \ {y}
              /\ cursor'[s] = y.revision
              /\ handled'[s] = handled[s] \union {y}
              /\ view' = [view EXCEPT ![s][y.subject.position] = y.subject.kind]
<1>1. /\ batch \in [Sessions -> SUBSET FeedFacts!Entries]
      /\ cursor \in [Sessions -> Nat]
      /\ handled \in [Sessions -> SUBSET FeedFacts!Entries]
  BY DEF FeedFacts!FeedInvariant, FeedFacts!TypeOK
<1> DEFINE y == FeedFacts!First(batch[s])
<1>2. /\ s \in joined /\ batch[s] # {}
      /\ batch' = [batch EXCEPT ![s] = @ \ {y}]
      /\ cursor' = [cursor EXCEPT ![s] = y.revision]
      /\ handled' = [handled EXCEPT ![s] = @ \union {y}]
      /\ view' = [view EXCEPT ![s][y.subject.position] = y.subject.kind]
      /\ UNCHANGED <<world, work, contested, feed, pushes, published, joined, since>>
  BY DEF HandleChange, Feed!Handle, Feed!First, FeedFacts!First, Feed!Advanced
<1>3. y \in batch[s] /\ \A f \in batch[s] : y.place <= f.place
  BY <1>1, <1>2, BlockAssumption, FeedFacts!FirstProperties
<1>4. y \in published
  BY <1>3, FeedKnown
<1> HIDE DEF y
<1>5. QED
  BY <1>1, <1>2, <1>3, <1>4

LEMMA CursorsHandle ==
  ASSUME FeedFacts!FeedInvariant, OverlapsContested, CursorsFollow,
         NEW s \in Sessions, HandleChange(s)
  PROVE  CursorsFollow'
<1>1. joined \subseteq Sessions
  BY DEF FeedFacts!FeedInvariant, FeedFacts!TypeOK
<1>2. PICK y \in batch[s] :
        /\ y \in published /\ \A f \in batch[s] : y.place <= f.place
        /\ batch'[s] = batch[s] \ {y}
        /\ cursor'[s] = y.revision
        /\ handled'[s] = handled[s] \union {y}
  BY HandleFacts
<1>3. /\ \A t \in Sessions : t # s => /\ batch'[t] = batch[t] /\ cursor'[t] = cursor[t]
                                      /\ handled'[t] = handled[t]
      /\ UNCHANGED <<contested, feed, pushes, published, joined, since>>
      /\ s \in joined
  BY HandleFacts
<1>4. FeedIsNewest'
  BY <1>3 DEF CursorsFollow, FeedIsNewest
<1>5. NothingOld'
  <2> SUFFICES ASSUME NEW t \in joined, NEW e \in published,
                      e.place < since[t],
                      \/ e.revision > cursor'[t]
                      \/ e \in batch'[t]
                      \/ \E b \in batch'[t] : b.place < since[t] /\ e.revision > b.revision
               PROVE  e.subject.position \in contested
    BY <1>3 DEF NothingOld
  <2>1. CASE t # s
    BY <1>1, <1>3, <2>1 DEF CursorsFollow, NothingOld
  <2>2. CASE t = s /\ e.revision > y.revision
    <3>1. CASE y.place < since[s]
      BY <1>2, <2>2, <3>1 DEF CursorsFollow, NothingOld
    <3>2. CASE ~(y.place < since[s])
      <4>1. e.place < y.place
        BY <1>2, <2>2, <3>2, FeedKnown
      <4>2. Inverted(e, y)
        BY <2>2, <4>1 DEF Inverted
      <4>3. QED
        BY <1>2, <4>2 DEF OverlapsContested
    <3>3. QED
      BY <3>1, <3>2
  <2>3. CASE /\ t = s
             /\ \/ e \in batch[s]
                \/ \E b \in batch[s] : b.place < since[s] /\ e.revision > b.revision
    BY <2>3 DEF CursorsFollow, NothingOld
  <2>4. QED
    BY <1>2, <2>1, <2>2, <2>3
<1>6. NothingAlone'
  <2> SUFFICES ASSUME NEW t \in joined, NEW b \in batch'[t], NEW e \in handled'[t],
                      e.place > b.place, e.revision > b.revision
               PROVE  e \in batch'[t]
    BY <1>3 DEF NothingAlone
  <2>1. CASE t # s
    BY <1>1, <1>3, <2>1 DEF CursorsFollow, NothingAlone
  <2>2. CASE t = s
    <3>1. b \in batch[s] /\ b \in published /\ y.place <= b.place
      BY <1>2, <2>2, FeedKnown
    <3>2. e # y
      BY <1>2, <3>1, FeedKnown
    <3>3. e \in handled[s]
      BY <1>2, <2>2, <3>2
    <3>4. e \in batch[s]
      BY <1>3, <3>1, <3>3 DEF CursorsFollow, NothingAlone
    <3>5. QED
      BY <1>2, <2>2, <3>2, <3>4
  <2>3. QED
    BY <2>1, <2>2
<1>7. QED
  BY <1>4, <1>5, <1>6 DEF CursorsFollow

LEMMA CursorsLeave ==
  ASSUME FeedFacts!FeedInvariant, CursorsFollow, NEW s \in Sessions, Leave(s)
  PROVE  CursorsFollow'
<1>1. /\ joined \subseteq Sessions /\ batch \in [Sessions -> SUBSET FeedFacts!Entries]
  BY DEF FeedFacts!FeedInvariant, FeedFacts!TypeOK
<1>2. /\ joined' = joined \ {s}
      /\ \A t \in Sessions : t # s => batch'[t] = batch[t]
      /\ UNCHANGED <<contested, feed, pushes, published, cursor, since, handled>>
  BY <1>1 DEF Leave, Feed!Leave, Feed!history
<1>3. FeedIsNewest'
  BY <1>2 DEF CursorsFollow, FeedIsNewest
<1>4. NothingOld'
  BY <1>1, <1>2 DEF CursorsFollow, NothingOld
<1>5. NothingAlone'
  BY <1>1, <1>2 DEF CursorsFollow, NothingAlone
<1>6. QED
  BY <1>3, <1>4, <1>5 DEF CursorsFollow

\* What is settled after a step was settled before it, unless the step is about it.
LEMMA SettledBefore ==
  ASSUME NEW t \in Sessions, NEW p, contested \subseteq contested',
         Open(p) => Open(p)', Coming(t, p) => Coming(t, p)' \/ p \in Missed(t)',
         p \in Missed(t) => p \in Missed(t)'
  PROVE  Settled(t, p)' => Settled(t, p)
BY DEF Settled

LEMMA SettledCalm ==
  ASSUME Calm, NEW t \in Sessions, NEW p,
         batch'[t] = batch[t], since'[t] = since[t], handled'[t] = handled[t]
  PROVE  Settled(t, p)' <=> Settled(t, p)
<1>1. UNCHANGED <<world, contested, feed, published>>
  BY DEF Calm
<1>2. Open(p)' <=> Open(p)
  BY DEF Calm, Open
<1>3. \A e : Feed!Unhandled(t, e)' <=> Feed!Unhandled(t, e)
  BY DEF Feed!Unhandled
<1>4. Coming(t, p)' <=> Coming(t, p)
  BY <1>1, <1>3 DEF Coming
<1>5. Missed(t)' = Missed(t)
  BY <1>1, <1>3 DEF Missed
<1>6. QED
  BY <1>1, <1>2, <1>4, <1>5 DEF Settled

LEMMA ShowsStay ==
  ASSUME NEW t \in Sessions, Shows(t), view'[t] = view[t], t \in joined' => t \in joined,
         \A p \in Positions : Settled(t, p)' => Settled(t, p) /\ world'[p] = world[p]
  PROVE  Shows(t)'
BY DEF Shows

LEMMA AnswersStay ==
  ASSUME TypeOK, NEW t \in Sessions, Answers(t), work'[t] = work[t],
         \A p \in Positions : Settled(t, p)' => Settled(t, p) /\ world'[p] = world[p]
  PROVE  Answers(t)'
<1>1. \A i \in DOMAIN work[t] : work[t][i].position \in Positions
  <2>1. work[t] \in Seq(Tasks)
    BY DEF TypeOK, Lists
  <2>2. \A i \in DOMAIN work[t] : work[t][i] \in Tasks
    BY <2>1
  <2>3. QED
    BY <2>2 DEF Tasks
<1> SUFFICES ASSUME NEW i \in DOMAIN work[t], work[t][i].step = "reply"
             PROVE  i = Len(work[t]) /\ ((i = 2 /\ Pending(t, work[t][i])') \/ Truthful(t, work[t][i])')
  BY DEF Answers, Pending, Truthful, Current
<1>2. i = Len(work[t]) /\ ((i = 2 /\ Pending(t, work[t][i])) \/ Truthful(t, work[t][i]))
  BY DEF Answers
<1>3. CASE i = 2 /\ Pending(t, work[t][i])
  BY <1>2, <1>3 DEF Pending, Current
<1>4. CASE Truthful(t, work[t][i])
  BY <1>1, <1>2, <1>4 DEF Truthful
<1>5. QED
  BY <1>2, <1>3, <1>4

\* A handler that goes on with the tasks q still answers last.
LEMMA RepliesKept ==
  ASSUME TypeOK, NEW s \in Sessions, Answers(s), work[s] # <<>>,
         NEW q \in Seq(Tasks), \A i \in DOMAIN q : q[i].step # "reply",
         work'[s] = q \o Tail(work[s]),
         NEW j \in DOMAIN work'[s], work'[s][j].step = "reply"
  PROVE  /\ j = Len(work'[s])
         /\ work'[s][j].position \in Positions
         /\ \/ j = Len(q) + 1 /\ Pending(s, work'[s][j])
            \/ Truthful(s, work'[s][j])
<1> DEFINE r == Tail(work[s])
           i == (j - Len(q)) + 1
<1>1. work[s] \in Seq(Tasks) /\ Len(work[s]) \in Nat
  BY DEF TypeOK, Lists
<1>2. /\ r \in Seq(Tasks) /\ Len(r) = Len(work[s]) - 1
      /\ \A k \in 1..Len(r) : r[k] = work[s][k + 1]
  BY <1>1, HeadTailProperties
<1> HIDE DEF r
<1>3. work'[s] = q \o r
  BY DEF r
<1>4. /\ Len(q) \in Nat /\ Len(r) \in Nat
      /\ Len(work'[s]) = Len(q) + Len(r)
      /\ DOMAIN work'[s] = 1..(Len(q) + Len(r)) /\ DOMAIN q = 1..Len(q)
      /\ \A k \in 1..(Len(q) + Len(r)) :
            work'[s][k] = IF k <= Len(q) THEN q[k] ELSE r[k - Len(q)]
  <2>1. Len(q) \in Nat /\ Len(r) \in Nat /\ DOMAIN q = 1..Len(q)
    BY <1>2
  <2>2. /\ q \o r \in Seq(Tasks) /\ Len(q \o r) = Len(q) + Len(r)
        /\ \A k \in 1..(Len(q) + Len(r)) :
              (q \o r)[k] = IF k <= Len(q) THEN q[k] ELSE r[k - Len(q)]
    BY <1>2, ConcatProperties
  <2>3. DOMAIN (q \o r) = 1..(Len(q) + Len(r))
    BY <2>2
  <2>4. QED
    BY <1>3, <2>1, <2>2, <2>3
<1>5. j \in Nat /\ j > Len(q) /\ j <= Len(q) + Len(r)
  BY <1>4
<1>6. work'[s][j] = r[j - Len(q)] /\ j - Len(q) \in 1..Len(r)
  BY <1>4, <1>5
<1>7. work'[s][j] = work[s][i] /\ i \in 1..Len(work[s]) /\ DOMAIN work[s] = 1..Len(work[s])
  BY <1>1, <1>2, <1>4, <1>5, <1>6
<1>8. work[s][i] \in Tasks
  BY <1>1, <1>7
<1>9. i = Len(work[s]) /\ ((i = 2 /\ Pending(s, work[s][i])) \/ Truthful(s, work[s][i]))
  BY <1>7 DEF Answers
<1>10. j = Len(work'[s]) /\ (i = 2 => j = Len(q) + 1)
  <2>1. /\ Len(q) \in Nat /\ Len(r) \in Nat /\ Len(work'[s]) = Len(q) + Len(r)
        /\ j \in Nat /\ Len(work[s]) \in Nat /\ Len(r) = Len(work[s]) - 1
        /\ (j - Len(q)) + 1 = Len(work[s])
    BY <1>1, <1>2, <1>4, <1>5, <1>9
  <2>2. QED
    BY <2>1
<1>11. QED
  BY <1>7, <1>8, <1>9, <1>10 DEF Tasks

\* The same where the world and what is settled stay as they are.
LEMMA AnswersThen ==
  ASSUME TypeOK, NEW s \in Sessions, Answers(s), work[s] # <<>>,
         NEW q \in Seq(Tasks), \A i \in DOMAIN q : q[i].step # "reply",
         work'[s] = q \o Tail(work[s]), UNCHANGED world,
         \A p \in Positions : Settled(s, p)' => Settled(s, p),
         \A task \in Tasks : Pending(s, task) =>
            \/ Len(q) = 1 /\ Pending(s, task)'
            \/ Truthful(s, task)'
  PROVE  Answers(s)'
<1> SUFFICES ASSUME NEW j \in DOMAIN work'[s], NEW task, task = work'[s][j], task.step = "reply"
             PROVE  /\ j = Len(work'[s])
                    /\ \/ j = 2 /\ Pending(s, task)'
                       \/ Truthful(s, task)'
  BY DEF Answers, Pending, Truthful, Current
<1>1. /\ j = Len(work'[s])
      /\ task.position \in Positions
      /\ \/ j = Len(q) + 1 /\ Pending(s, task)
         \/ Truthful(s, task)
  BY RepliesKept
<1>2. task \in Tasks
  <2>1. Tail(work[s]) \in Seq(Tasks)
    BY CurrentTask DEF Lists
  <2>2. work'[s] \in Seq(Tasks)
    BY <2>1, ConcatProperties
  <2>3. QED
    BY <2>2
<1>3. CASE Truthful(s, task)
  BY <1>1, <1>3 DEF Truthful
<1>4. CASE j = Len(q) + 1 /\ Pending(s, task)
  <2>1. CASE Len(q) = 1 /\ Pending(s, task)'
    <3>1. j = 2
      BY <1>4, <2>1
    <3>2. QED
      BY <1>1, <2>1, <3>1
  <2>2. CASE Truthful(s, task)'
    BY <1>1, <2>2
  <2>3. QED
    BY <1>2, <1>4, <2>1, <2>2
<1>5. QED
  BY <1>1, <1>3, <1>4

\* Nobody but s notices a step of the handler or the connection of s.
LEMMA FollowCalm ==
  ASSUME TypeOK, ClientsFollow, Calm, NEW s \in Sessions,
         \A t \in Sessions : t # s => /\ work'[t] = work[t] /\ view'[t] = view[t]
                                      /\ t \in joined' => t \in joined
                                      /\ batch'[t] = batch[t] /\ since'[t] = since[t]
                                      /\ handled'[t] = handled[t],
         Shows(s)', Answers(s)'
  PROVE  ClientsFollow'
<1>1. ASSUME NEW t \in Sessions, t # s
      PROVE  Shows(t)' /\ Answers(t)'
  <2>1. \A p \in Positions : Settled(t, p)' => Settled(t, p) /\ world'[p] = world[p]
    BY <1>1, SettledCalm DEF Calm
  <2>2. Shows(t) /\ Answers(t)
    BY DEF ClientsFollow
  <2>3. QED
    BY <1>1, <2>1, <2>2, ShowsStay, AnswersStay
<1>2. QED
  BY <1>1 DEF ClientsFollow

LEMMA FollowConnection ==
  ASSUME BlockInvariant, FeedFacts!FeedInvariant, ClientsFollow, NEW s \in Sessions,
         Join(s) \/ Load(s) \/ Poll(s) \/ Leave(s)
  PROVE  ClientsFollow'
<1>1. TypeOK /\ Calm
  BY CalmConnection DEF BlockInvariant
<1>2. /\ batch \in [Sessions -> SUBSET FeedFacts!Entries] /\ since \in [Sessions -> Nat]
      /\ handled \in [Sessions -> SUBSET FeedFacts!Entries]
      /\ joined \subseteq Sessions
  BY DEF FeedFacts!FeedInvariant, FeedFacts!TypeOK
<1>3. Shows(s) /\ Answers(s) /\ Nested(s)
  BY DEF ClientsFollow, BlockInvariant, HandlersNest
<1>4. CASE Join(s)
  <2>1. /\ view'[s] = Unseen /\ UNCHANGED <<work, batch>> /\ s \notin joined
        /\ \A t \in Sessions : t # s => /\ view'[t] = view[t] /\ since'[t] = since[t]
                                        /\ handled'[t] = handled[t]
                                        /\ t \in joined' => t \in joined
    BY <1>1, <1>2, <1>4 DEF Join, Feed!Join, TypeOK
  <2>2. work'[s] = <<>>
    BY <1>3, <2>1 DEF Nested
  <2>3. Shows(s)' /\ Answers(s)'
    BY <2>1, <2>2 DEF Shows, Answers
  <2>4. QED
    BY <1>1, <2>1, <2>3, FollowCalm
<1>5. CASE Load(s)
  <2>1. /\ view'[s] = world /\ UNCHANGED <<world, work, joined, batch, since, handled>>
        /\ \A t \in Sessions : t # s => view'[t] = view[t]
        /\ work'[s] = <<>>
    BY <1>1, <1>5 DEF Load, TypeOK, feedVars
  <2>2. Shows(s)' /\ Answers(s)'
    BY <2>1 DEF Shows, Answers
  <2>3. QED
    BY <1>1, <2>1, <2>2, FollowCalm
<1>6. CASE Poll(s)
  <2>1. /\ UNCHANGED <<world, contested, work, view, joined, since, handled, feed, published>>
        /\ \A t \in Sessions : t # s => batch'[t] = batch[t]
        /\ work'[s] = <<>> /\ batch[s] = {}
    BY <1>2, <1>6 DEF Poll, Waiting, Feed!Poll, Feed!history
  <2>2. \A e : Feed!Unhandled(s, e)' <=> Feed!Unhandled(s, e)
    BY <2>1 DEF Feed!Unhandled
  <2>3. ASSUME NEW p \in Positions, Settled(s, p)'
        PROVE  Settled(s, p)
    <3>1. Open(p) => Open(p)'
      BY <2>1 DEF Open, Publishing, At, Current
    <3>2. Coming(s, p) => Coming(s, p)'
      BY <2>1, <2>2 DEF Coming
    <3>3. Missed(s)' = Missed(s)
      BY <2>1, <2>2 DEF Missed
    <3>4. QED
      BY <2>1, <2>3, <3>1, <3>2, <3>3, SettledBefore
  <2>4. Shows(s)'
    BY <1>3, <2>1, <2>3, ShowsStay
  <2>5. Answers(s)'
    BY <2>1 DEF Answers
  <2>6. QED
    BY <1>1, <2>1, <2>4, <2>5, FollowCalm
<1>7. CASE Leave(s)
  <2>1. /\ UNCHANGED <<view, since, handled>> /\ s \notin joined'
        /\ \A t \in Sessions : t # s => /\ batch'[t] = batch[t] /\ work'[t] = work[t]
                                        /\ t \in joined' => t \in joined
        /\ work'[s] = <<>>
    BY <1>1, <1>2, <1>7 DEF Leave, Feed!Leave, Feed!history, TypeOK
  <2>2. Shows(s)' /\ Answers(s)'
    BY <2>1 DEF Shows, Answers
  <2>3. QED
    BY <1>1, <2>1, <2>2, FollowCalm
<1>8. QED
  BY <1>4, <1>5, <1>6, <1>7

\* A handler that changes nothing its client shows.
LEMMA FollowUnseen ==
  ASSUME BlockInvariant, ClientsFollow, Calm, NEW s \in Sessions,
         UNCHANGED <<view, joined, batch, since, handled>>,
         \A t \in Sessions : t # s => work'[t] = work[t],
         Answers(s)'
  PROVE  ClientsFollow'
<1>1. \A p \in Positions : Settled(s, p)' => Settled(s, p) /\ world'[p] = world[p]
  BY SettledCalm DEF Calm
<1>2. Shows(s)'
  BY <1>1, ShowsStay DEF ClientsFollow
<1>3. QED
  BY <1>2, FollowCalm DEF BlockInvariant

LEMMA FollowPacket ==
  ASSUME BlockInvariant, ClientsFollow, NEW s \in Sessions, Packet(s)
  PROVE  ClientsFollow'
<1>1. /\ Calm /\ TypeOK
      /\ UNCHANGED <<view, joined, cursor, batch, since, handled>>
      /\ work[s] = <<>> /\ \A t \in Sessions : t # s => work'[t] = work[t]
  BY CalmPacket DEF BlockInvariant
<1>2. CASE Ignite(s)
  <2>1. work'[s] = SetBlocks(Portal, "portal")
    BY <1>1, <1>2 DEF Ignite, Begin, TypeOK
  <2>2. SetBlocks(Portal, "portal") \in Seq(Later)
        /\ Range(SetBlocks(Portal, "portal")) = {SetBlock(p, "portal") : p \in Portal}
    BY ManyTasks, SetBlocksRange, BlockAssumption DEF Kinds
  <2>3. \A i \in DOMAIN work'[s] : work'[s][i] \in Range(work'[s])
    BY DEF Range
  <2>4. \A i \in DOMAIN work'[s] : work'[s][i].step # "reply"
    BY <2>1, <2>2, <2>3 DEF SetBlock, Task
  <2>5. Answers(s)'
    BY <2>4 DEF Answers
  <2>6. QED
    BY <1>1, <2>5, FollowUnseen
<1>3. ASSUME NEW p \in Positions, NEW k, work'[s] = <<SetBlock(p, k), Reply(p, k)>>
      PROVE  ClientsFollow'
  <2>1. /\ work'[s][1] = SetBlock(p, k) /\ work'[s][2] = Reply(p, k)
        /\ Len(work'[s]) = 2 /\ DOMAIN work'[s] = {1, 2} /\ Head(work'[s]) = SetBlock(p, k)
    BY <1>3
  <2>2. Pending(s, Reply(p, k))'
    BY <2>1 DEF Pending, Current, SetBlock, Reply, Task
  <2>3. Answers(s)'
    BY <2>1, <2>2 DEF Answers, SetBlock, Reply, Task
  <2>4. QED
    BY <1>1, <2>3, FollowUnseen
<1>4. ASSUME NEW p \in Positions, work'[s] = <<Reply(p, world[p])>>
      PROVE  ClientsFollow'
  <2>1. /\ work'[s][1] = Reply(p, world[p])
        /\ Len(work'[s]) = 1 /\ DOMAIN work'[s] = {1} /\ world' = world
    BY <1>1, <1>4 DEF Calm
  <2>2. Truthful(s, Reply(p, world[p]))'
    BY <2>1 DEF Truthful, Reply, Task
  <2>3. Answers(s)'
    BY <2>1, <2>2 DEF Answers
  <2>4. QED
    BY <1>1, <2>3, FollowUnseen
<1>5. QED
  BY <1>1, <1>2, <1>3, <1>4 DEF Packet, Mine, Refuse, Place, Begin, TypeOK

LEMMA FollowHandler ==
  ASSUME BlockInvariant, TypeOK', ClientsFollow, NEW s \in Sessions,
         Look(s) \/ Unchanged(s) \/ Plant(s) \/ Collapse(s)
  PROVE  ClientsFollow'
<1>1. /\ Calm /\ TypeOK /\ Answers(s)
      /\ UNCHANGED <<world, view, joined, batch, since, handled>>
      /\ \A t \in Sessions : t # s => work'[t] = work[t]
      /\ work[s] # <<>>
      /\ \A p \in Positions : Settled(s, p)' => Settled(s, p)
  <2>1. Calm /\ UNCHANGED <<joined, cursor, batch, since, handled>>
        /\ \A t \in Sessions : t # s => work'[t] = work[t]
    BY CalmHandler DEF BlockInvariant
  <2>2. \A p \in Positions : Settled(s, p)' => Settled(s, p)
    BY <2>1, SettledCalm
  <2>3. QED
    BY <2>1, <2>2 DEF Look, Unchanged, Plant, Collapse, At, BlockInvariant, ClientsFollow, Calm
<1>2. Current(s) \in Tasks
  BY <1>1, CurrentTask
<1>3. CASE Look(s)
  <2> DEFINE task == [Current(s) EXCEPT !.step = "apply", !.previous = world[Current(s).position]]
  <2>1. /\ task \in Tasks /\ task.step = "apply" /\ Then(s, <<task>>)
        /\ task.position = Current(s).position /\ task.kind = Current(s).kind
    BY <1>1, <1>2, <1>3 DEF Tasks, Steps, TypeOK, Look, At, Current
  <2> HIDE DEF task
  <2>2. /\ <<task>> \in Seq(Tasks) /\ Len(<<task>>) = 1
        /\ \A i \in DOMAIN <<task>> : <<task>>[i].step # "reply"
    BY <2>1
  <2>3. work'[s] = <<task>> \o Tail(work[s])
    BY <1>1, <2>1 DEF Then, TypeOK
  <2>4. Current(s)' = task
    BY <1>1, <2>1, ThenOne
  <2>5. ASSUME NEW other \in Tasks, Pending(s, other)
        PROVE  Pending(s, other)'
    BY <2>1, <2>4, <2>5 DEF Pending
  <2>6. Answers(s)'
    BY <1>1, <2>2, <2>3, <2>5, AnswersThen
  <2>7. QED
    BY <1>1, <2>6, FollowUnseen
<1>4. CASE Plant(s) \/ Collapse(s)
  <2>1. PICK q \in Seq(Later) : Then(s, q) /\ \A i \in DOMAIN q : q[i].step # "reply"
    <3>1. CASE Plant(s)
      <4>1. PICK clearing \in Seq(Later), falls \in Seq(Later) :
               /\ Then(s, clearing \o falls) /\ clearing \o falls \in Seq(Later)
               /\ \A i \in DOMAIN clearing : clearing[i].step = "look"
               /\ \A i \in DOMAIN falls : falls[i].step = "portal"
        BY <1>1, <3>1, PlantTasks
      <4>2. \A i \in DOMAIN (clearing \o falls) : (clearing \o falls)[i].step # "reply"
        <5>1. Range(clearing \o falls) = Range(clearing) \union Range(falls)
          BY RangeConcatenation
        <5>2. \A x \in Range(clearing) \union Range(falls) : x.step # "reply"
          BY <4>1 DEF Range
        <5>3. QED
          BY <5>1, <5>2 DEF Range
      <4>3. QED
        BY <4>1, <4>2
    <3>2. CASE Collapse(s)
      <4>1. Lit \in SUBSET Positions /\ IsFiniteSet(Lit) /\ "air" \in Kinds \ {"plant"}
        BY BlockAssumption, FS_Subset DEF Lit, Kinds
      <4>2. SetBlocks(Lit, "air") \in Seq(Later)
            /\ Range(SetBlocks(Lit, "air")) = {SetBlock(p, "air") : p \in Lit}
        BY <4>1, ManyTasks, SetBlocksRange
      <4>3. \A i \in DOMAIN SetBlocks(Lit, "air") :
               SetBlocks(Lit, "air")[i] \in Range(SetBlocks(Lit, "air"))
        BY DEF Range
      <4>4. \A i \in DOMAIN SetBlocks(Lit, "air") : SetBlocks(Lit, "air")[i].step # "reply"
        BY <4>2, <4>3 DEF SetBlock, Task
      <4>5. <<>> \in Seq(Later) /\ \A i \in DOMAIN <<>> : <<>>[i].step # "reply"
        OBVIOUS
      <4>6. Then(s, <<>>) \/ Then(s, SetBlocks(Lit, "air"))
        BY <3>2 DEF Collapse
      <4>7. QED
        BY <4>2, <4>4, <4>5, <4>6
    <3>3. QED
      BY <1>4, <3>1, <3>2
  <2>2. q \in Seq(Tasks) /\ work'[s] = q \o Tail(work[s])
    BY <1>1, <2>1, LaterAreTasks DEF Then, TypeOK, Lists
  <2>3. \A other \in Tasks : ~Pending(s, other)
    BY <1>4 DEF Plant, Collapse, At, Pending, Current
  <2>4. Answers(s)'
    BY <1>1, <2>1, <2>2, <2>3, AnswersThen
  <2>5. QED
    BY <1>1, <2>4, FollowUnseen
<1>5. CASE Unchanged(s)
  <2>1. Current(s).step = "apply" /\ world[Current(s).position] = Current(s).kind
    BY <1>5 DEF Unchanged, At, Current
  <2>2. CASE work'[s] = Tail(work[s])
    <3> DEFINE none == <<>>
    <3>1. Tail(work[s]) \in Seq(Tasks)
      BY <1>1, CurrentTask DEF Lists
    <3>2. none \in Seq(Tasks) /\ (\A i \in DOMAIN none : none[i].step # "reply")
          /\ work'[s] = none \o Tail(work[s])
      BY <2>2, <3>1
    <3>3. \A other \in Tasks : Pending(s, other) => Truthful(s, other)'
      BY <1>1, <2>1 DEF Pending, Truthful
    <3> HIDE DEF none
    <3>4. Answers(s)'
      BY <1>1, <3>2, <3>3, AnswersThen
    <3>5. QED
      BY <1>1, <3>4, FollowUnseen
  <2>3. CASE work'[s] # Tail(work[s])
    <3>1. /\ Tail(work[s]) # <<>> /\ Head(Tail(work[s])).step = "reply"
          /\ work'[s] = Tail(Tail(work[s]))
      BY <1>1, <1>5, <2>3 DEF Unchanged, Unanswered, TypeOK
    <3>2. /\ work[s] \in Seq(Tasks) /\ Tail(work[s]) \in Seq(Tasks)
          /\ Len(Tail(work[s])) = Len(work[s]) - 1
          /\ \A k \in 1..Len(Tail(work[s])) : Tail(work[s])[k] = work[s][k + 1]
      BY <1>1, HeadTailProperties DEF TypeOK, Lists
    <3>3. Len(Tail(work[s])) >= 1 /\ work[s][2].step = "reply" /\ 2 \in DOMAIN work[s]
      BY <3>1, <3>2
    <3>4. Len(work[s]) = 2
      BY <1>1, <3>3 DEF Answers
    <3>5. Len(work'[s]) = 0 /\ work'[s] \in Seq(Tasks)
      <4> DEFINE r == Tail(work[s])
      <4>1. r \in Seq(Tasks) /\ r # <<>> /\ Len(r) = 1 /\ work'[s] = Tail(r)
        BY <3>1, <3>2, <3>4
      <4> HIDE DEF r
      <4>2. Tail(r) \in Seq(Tasks) /\ Len(Tail(r)) = 0
        BY <4>1, HeadTailProperties
      <4>3. QED
        BY <4>1, <4>2
    <3>6. DOMAIN work'[s] = {}
      BY <3>5
    <3>7. Answers(s)'
      BY <3>6 DEF Answers
    <3>8. QED
      BY <1>1, <3>7, FollowUnseen
  <2>4. QED
    BY <2>2, <2>3
<1>6. QED
  BY <1>3, <1>4, <1>5

\* The client that is answered is told the truth.
LEMMA FollowAnswer ==
  ASSUME BlockInvariant, TypeOK', ClientsFollow, NEW s \in Sessions, Answer(s)
  PROVE  ClientsFollow'
<1>1. /\ TypeOK /\ work[s] # <<>> /\ Current(s).step = "reply" /\ view[s] # Unseen
      /\ view' = [view EXCEPT ![s][Current(s).position] = Current(s).kind]
      /\ Then(s, <<>>) /\ Answers(s) /\ Shows(s)
  BY DEF Answer, At, Current, BlockInvariant, HandlersNest, Nested, ClientsFollow
<1>2. /\ Calm /\ UNCHANGED <<joined, cursor, batch, since, handled>>
      /\ \A t \in Sessions : t # s => work'[t] = work[t]
  BY <1>1, CalmHandler
<1>3. /\ work[s] \in Seq(Tasks) /\ Current(s) = work[s][1] /\ 1 \in DOMAIN work[s]
      /\ Current(s) \in Tasks
  BY <1>1, CurrentTask DEF TypeOK, Lists, Current
<1>4. Len(work[s]) = 1 /\ Truthful(s, Current(s))
  <2>1. work[s][1].step = "reply"
    BY <1>1, <1>3
  <2>2. 1 = Len(work[s]) /\ ((1 = 2 /\ Pending(s, work[s][1])) \/ Truthful(s, work[s][1]))
    BY <1>1, <1>3, <2>1 DEF Answers
  <2>3. QED
    BY <1>3, <2>2
<1>5. work'[s] = <<>>
  <2>1. Tail(work[s]) \in Seq(Tasks) /\ Len(Tail(work[s])) = 0
    BY <1>1, <1>3, <1>4, HeadTailProperties
  <2>2. work'[s] = <<>> \o Tail(work[s])
    BY <1>1 DEF Then, TypeOK
  <2>3. Tail(work[s]) = <<>>
    BY <2>1, EmptySeq
  <2>4. QED
    BY <2>2, <2>3
<1>6. Answers(s)'
  BY <1>5 DEF Answers
<1>7. Shows(s)'
  <2> SUFFICES ASSUME s \in joined, NEW p \in Positions, Settled(s, p)'
               PROVE  view'[s][p] = world[p]
    BY <1>2 DEF Shows, Calm
  <2>1. Settled(s, p)
    BY <1>2, SettledCalm
  <2>2. view[s] \in [Positions -> Kinds]
    BY <1>1 DEF TypeOK
  <2>3. CASE p = Current(s).position
    BY <1>1, <1>4, <2>1, <2>2, <2>3 DEF Truthful, TypeOK
  <2>4. CASE p # Current(s).position
    BY <1>1, <2>1, <2>2, <2>4 DEF Shows, TypeOK
  <2>5. QED
    BY <2>3, <2>4
<1>8. \A t \in Sessions : t # s => view'[t] = view[t]
  BY <1>1 DEF TypeOK
<1>9. QED
  BY <1>1, <1>2, <1>6, <1>7, <1>8, FollowCalm

\* Of what a session is handling, the newest change of a block is what the
\* block is, and the others are still followed by a newer one.
LEMMA FollowHandle ==
  ASSUME BlockInvariant, FeedFacts!FeedInvariant, OverlapsContested, WorldPublished,
         CursorsFollow, ClientsFollow, NEW s \in Sessions, HandleChange(s)
  PROVE  ClientsFollow'
<1>1. /\ TypeOK /\ Calm /\ s \in joined /\ Nested(s) /\ Shows(s)
      /\ \A t \in Sessions : t # s => /\ batch'[t] = batch[t] /\ cursor'[t] = cursor[t]
                                      /\ handled'[t] = handled[t]
      /\ UNCHANGED <<world, work, contested, feed, pushes, published, joined, since>>
  BY CalmConnection, HandleFacts DEF BlockInvariant, HandlersNest, ClientsFollow
<1>2. PICK y \in batch[s] :
        /\ y \in published /\ \A f \in batch[s] : y.place <= f.place
        /\ batch'[s] = batch[s] \ {y}
        /\ handled'[s] = handled[s] \union {y}
        /\ view' = [view EXCEPT ![s][y.subject.position] = y.subject.kind]
  BY HandleFacts
<1>3. Answers(s)'
  <2>1. work'[s] = <<>>
    BY <1>1, <1>2 DEF Nested
  <2>2. QED
    BY <2>1 DEF Answers
<1>4. \A e : Feed!Unhandled(s, e)' <=> Feed!Unhandled(s, e) /\ e # y
  BY <1>1, <1>2 DEF Feed!Unhandled
<1>5. Shows(s)'
  <2> DEFINE q == y.subject.position
  <2> SUFFICES ASSUME view'[s] # Unseen, NEW p \in Positions, Settled(s, p)'
               PROVE  view'[s][p] = world[p]
    BY <1>1 DEF Shows
  <2>1. q \in Positions /\ y.subject.kind \in Kinds
    BY <1>2, FeedKnown
  <2>2. view[s] \in [Positions -> Kinds] /\ view[s] # Unseen
    <3>1. view[s] \in [Positions -> Kinds] \union {Unseen}
      BY <1>1 DEF TypeOK
    <3>2. CASE view[s] = Unseen
      <4>1. view'[s] = [Unseen EXCEPT ![q] = y.subject.kind]
        BY <1>1, <1>2, <3>2 DEF TypeOK
      <4>2. view'[s] = Unseen
        BY <4>1 DEF Unseen
      <4>3. QED
        BY <4>2 DEF Unseen
    <3>3. QED
      BY <3>1, <3>2 DEF Unseen
  <2>3. CASE p # q
    <3>1. Open(p) => Open(p)'
      BY <1>1 DEF Open, Calm
    <3>2. Coming(s, p) => Coming(s, p)'
      BY <1>1, <1>2, <1>4, <2>3 DEF Coming
    <3>3. p \in Missed(s) => p \in Missed(s)'
      BY <1>1, <1>4, <2>3 DEF Missed
    <3>4. Settled(s, p)
      BY <1>1, <3>1, <3>2, <3>3, SettledBefore
    <3>5. QED
      BY <1>1, <1>2, <2>2, <2>3, <3>4 DEF Shows, TypeOK
  <2>4. CASE p = q
    <3>1. q \notin contested /\ ~Open(q)
      BY <1>1, <2>4 DEF Settled, Open, Calm
    <3>2. ASSUME NEW f \in published, f.subject.position = q, f.place > y.place
          PROVE  FALSE
      <4>1. ~Feed!Unhandled(s, f)' /\ f \notin batch'[s]
        <5>1. p \notin Missed(s)' /\ ~Coming(s, p)'
          BY DEF Settled
        <5>2. f \notin batch'[s] /\ (f \in feed => ~Feed!Unhandled(s, f)')
          BY <1>1, <2>4, <3>2, <5>1 DEF Coming
        <5>3. f \notin feed => ~Feed!Unhandled(s, f)'
          BY <1>1, <2>4, <3>2, <5>1 DEF Missed
        <5>4. QED
          BY <5>2, <5>3
      <4>2. f # y
        BY <1>2, <3>2, FeedKnown
      <4>3. f.place < since[s] \/ f \in handled[s]
        BY <1>4, <4>1, <4>2, <3>2, FeedKnown DEF Feed!Unhandled
      <4>4. CASE f.place < since[s]
        <5>1. y.place < since[s]
          BY <1>2, <3>2, <4>4, FeedKnown
        <5>2. QED
          BY <1>1, <1>2, <3>1, <5>1 DEF CursorsFollow, NothingOld
      <4>5. CASE f \in handled[s]
        <5>1. f \notin batch[s]
          BY <1>2, <4>1, <4>2
        <5>2. ~(f.revision > y.revision)
          BY <1>1, <1>2, <3>2, <4>5, <5>1 DEF CursorsFollow, NothingAlone
        <5>3. Inverted(y, f)
          BY <1>2, <3>2, <4>2, <5>2, FeedKnown DEF Inverted
        <5>4. QED
          BY <1>2, <3>1, <5>3 DEF OverlapsContested
      <4>6. QED
        BY <4>3, <4>4, <4>5
    <3>3. \A f \in published : f.subject.position = q => f.place <= y.place
      BY <1>2, <3>2, FeedKnown
    <3>4. world[q] = y.subject.kind
      BY <1>2, <3>1, <3>3 DEF WorldPublished
    <3>5. QED
      BY <1>1, <1>2, <2>1, <2>2, <2>4, <3>4 DEF TypeOK
  <2>5. QED
    BY <2>3, <2>4
<1>6. \A t \in Sessions : t # s => view'[t] = view[t]
  BY <1>1, <1>2 DEF TypeOK
<1>7. QED
  BY <1>1, <1>3, <1>5, <1>6, FollowCalm

\* A step of s that publishes, or begins to.
LEMMA FollowPublishing ==
  ASSUME TypeOK, ClientsFollow, NEW s \in Sessions, UNCHANGED <<view, joined>>,
         \A t \in Sessions : t # s => work'[t] = work[t],
         \A t \in Sessions, p \in Positions :
            Settled(t, p)' => Settled(t, p) /\ world'[p] = world[p],
         Answers(s)'
  PROVE  ClientsFollow'
<1>1. ASSUME NEW t \in Sessions
      PROVE  Shows(t)' /\ Answers(t)'
  <2>1. Shows(t) /\ Answers(t)
    BY DEF ClientsFollow
  <2>2. Shows(t)'
    BY <2>1, ShowsStay
  <2>3. t # s => Answers(t)'
    BY <2>1, AnswersStay
  <2>4. QED
    BY <2>2, <2>3
<1>2. QED
  BY <1>1 DEF ClientsFollow

\* What On says of the tasks of a handler.
LEMMA OnRange ==
  ASSUME TypeOK, NEW s \in Sessions, work[s] # <<>>, NEW step \in Steps \ {"reply"},
         Current(s).step # "reply", On(s, step)
  PROVE  \E q \in Seq(Tasks) : /\ work'[s] = q \o Tail(work[s])
                               /\ \A i \in DOMAIN q : q[i].step # "reply"
<1> DEFINE x == [Current(s) EXCEPT !.step = step]
<1>1. x \in Tasks /\ x.step # "reply" /\ Then(s, <<x>>)
  BY CurrentTask DEF On, Tasks
<1>2. work'[s] = <<x>> \o Tail(work[s])
  BY <1>1 DEF Then, TypeOK
<1> HIDE DEF x
<1>3. <<x>> \in Seq(Tasks) /\ \A i \in DOMAIN <<x>> : <<x>>[i].step # "reply"
  BY <1>1
<1>4. QED
  BY <1>2, <1>3

LEMMA FollowApply ==
  ASSUME BlockInvariant, ClientsFollow, NEW s \in Sessions, Apply(s)
  PROVE  ClientsFollow'
<1> DEFINE q == Current(s).position
           k == Current(s).kind
<1>1. /\ TypeOK /\ Answers(s) /\ work[s] # <<>> /\ Current(s).step = "apply"
      /\ q \in Positions /\ world' = [world EXCEPT ![q] = k]
      /\ Publishing(s)' /\ Current(s)'.position = q
      /\ ~Publishing(s)
      /\ \A t \in Sessions : t # s => /\ work'[t] = work[t]
                                      /\ Publishing(t)' <=> Publishing(t)
                                      /\ Current(t)' = Current(t)
      /\ contested \subseteq contested'
      /\ UNCHANGED <<view, feedVars>>
  BY ApplyFacts DEF BlockInvariant, ClientsFollow
<1>2. \A p : p = q => Open(p)'
  BY <1>1 DEF Open
<1>3. ASSUME NEW t \in Sessions, NEW p \in Positions, Settled(t, p)'
      PROVE  Settled(t, p) /\ world'[p] = world[p] /\ p # q
  <2>1. p # q
    BY <1>2, <1>3 DEF Settled
  <2>2. Open(p) => Open(p)'
    BY <1>1 DEF Open
  <2>3. \A e : Feed!Unhandled(t, e)' <=> Feed!Unhandled(t, e)
    BY <1>1 DEF Feed!Unhandled, feedVars
  <2>4. Coming(t, p) => Coming(t, p)'
    BY <1>1, <2>3 DEF Coming, feedVars
  <2>5. Missed(t)' = Missed(t)
    BY <1>1, <2>3 DEF Missed, feedVars
  <2>6. Settled(t, p)
    BY <1>1, <1>3, <2>2, <2>4, <2>5, SettledBefore
  <2>7. QED
    BY <1>1, <2>1, <2>6 DEF TypeOK
<1>4. PICK r \in Seq(Tasks) : /\ work'[s] = r \o Tail(work[s])
                              /\ \A i \in DOMAIN r : r[i].step # "reply"
  <2>1. On(s, "number") /\ "number" \in Steps \ {"reply"}
    BY DEF Apply, Steps
  <2>2. QED
    BY <1>1, <2>1, OnRange
<1>5. Answers(s)'
  <2> SUFFICES ASSUME NEW j \in DOMAIN work'[s], NEW task, task = work'[s][j],
                      task.step = "reply"
               PROVE  j = Len(work'[s]) /\ Truthful(s, task)'
    BY DEF Answers, Pending, Truthful, Current
  <2>1. /\ j = Len(work'[s]) /\ task.position \in Positions
        /\ Pending(s, task) \/ Truthful(s, task)
    BY <1>1, <1>4, RepliesKept
  <2>2. CASE Pending(s, task)
    BY <1>2, <2>1, <2>2 DEF Pending, Truthful, Settled
  <2>3. CASE Truthful(s, task)
    BY <1>3, <2>1, <2>3 DEF Truthful
  <2>4. QED
    BY <2>1, <2>2, <2>3
<1>6. UNCHANGED joined
  BY <1>1 DEF feedVars
<1>7. QED
  BY <1>1, <1>3, <1>5, <1>6, FollowPublishing

LEMMA FollowNumber ==
  ASSUME BlockInvariant, FeedFacts!FeedInvariant, ClientsFollow, NEW s \in Sessions, Number(s)
  PROVE  ClientsFollow'
<1>1. /\ TypeOK /\ Answers(s) /\ work[s] # <<>> /\ Current(s).step = "number"
      /\ \A t \in Sessions : /\ Publishing(t)' <=> Publishing(t)
                             /\ Current(t)'.position = Current(t).position
      /\ \A t \in Sessions : t # s => work'[t] = work[t]
      /\ UNCHANGED <<world, view, contested, feed, joined, batch, published, since, handled>>
  BY NumberFacts DEF BlockInvariant, ClientsFollow
<1>2. ASSUME NEW t \in Sessions, NEW p \in Positions, Settled(t, p)'
      PROVE  Settled(t, p)
  <2>1. Open(p) => Open(p)'
    BY <1>1 DEF Open
  <2>2. \A e : Feed!Unhandled(t, e)' <=> Feed!Unhandled(t, e)
    BY <1>1 DEF Feed!Unhandled
  <2>3. Coming(t, p) => Coming(t, p)'
    BY <1>1, <2>2 DEF Coming
  <2>4. Missed(t)' = Missed(t)
    BY <1>1, <2>2 DEF Missed
  <2>5. QED
    BY <1>1, <1>2, <2>1, <2>3, <2>4, SettledBefore
<1>3. PICK q \in Seq(Tasks) : /\ work'[s] = q \o Tail(work[s])
                              /\ \A i \in DOMAIN q : q[i].step # "reply"
  <2>1. On(s, "push") /\ "push" \in Steps \ {"reply"}
    BY DEF Number, Steps
  <2>2. QED
    BY <1>1, <2>1, OnRange
<1>4. \A task \in Tasks : ~Pending(s, task)
  BY <1>1 DEF Pending
<1>5. Answers(s)'
  BY <1>1, <1>2, <1>3, <1>4, AnswersThen
<1>6. QED
  BY <1>1, <1>2, <1>5, FollowPublishing

\* What is pushed comes to everybody; nothing else is on its way less than before.
LEMMA FollowPush ==
  ASSUME BlockInvariant, FeedFacts!FeedInvariant, FeedFacts!Bounded, CursorsFollow,
         ClientsFollow, NEW s \in Sessions, Push(s)
  PROVE  ClientsFollow'
<1>1. /\ TypeOK /\ Answers(s) /\ work[s] # <<>> /\ Current(s).step = "push"
      /\ ~Publishing(s)'
      /\ \A t \in Sessions : t # s => /\ work'[t] = work[t]
                                      /\ Publishing(t)' <=> Publishing(t)
                                      /\ Current(t)' = Current(t)
      /\ UNCHANGED <<world, view, contested, joined, batch, since, handled>>
  BY PushFacts DEF BlockInvariant, ClientsFollow
<1>2. PICK new \in Feed!Entries :
        /\ new.place = pushes
        /\ new.subject.position = Current(s).position
        /\ published' = published \union {new}
        /\ feed' \subseteq feed \union {new} /\ new \in feed'
  BY PushFacts
<1>3. new \notin published
  BY <1>2, FeedKnown
<1>4. ASSUME NEW t \in Sessions, NEW p \in Positions, Settled(t, p)'
      PROVE  Settled(t, p)
  <2>1. \A e : Feed!Unhandled(t, e)' <=> Feed!Unhandled(t, e)
    BY <1>1 DEF Feed!Unhandled
  <2>2. p # new.subject.position
    <3>1. since[t] <= pushes /\ new \notin handled[t]
      BY <1>3, FeedKnown DEF CursorsFollow, FeedIsNewest
    <3>2. Feed!Unhandled(t, new)
      BY <1>2, <3>1, FeedKnown DEF Feed!Unhandled
    <3>3. Coming(t, new.subject.position)'
      BY <1>2, <2>1, <3>2 DEF Coming
    <3>4. QED
      BY <1>4, <3>3 DEF Settled
  <2>3. Open(p) => Open(p)'
    BY <1>1, <1>2, <2>2 DEF Open
  <2>4. Coming(t, p) => Coming(t, p)' \/ p \in Missed(t)'
    BY <1>1, <1>2, <2>1 DEF Coming, Missed
  <2>5. p \in Missed(t) => p \in Missed(t)'
    BY <1>1, <1>2, <1>3, <2>1 DEF Missed
  <2>6. QED
    BY <1>1, <1>4, <2>3, <2>4, <2>5, SettledBefore
<1>5. PICK q \in Seq(Tasks) : /\ work'[s] = q \o Tail(work[s])
                              /\ \A i \in DOMAIN q : q[i].step # "reply"
  <2>1. Then(s, Follows(Current(s))) /\ Current(s) \in Tasks /\ Current(s).kind # "plant"
    BY <1>1, CurrentTask DEF Push, Tasks
  <2>2. CASE Current(s).position \in DOMAIN Above
    <3>1. On(s, "plant") /\ "plant" \in Steps \ {"reply"}
      BY <2>1, <2>2 DEF Follows, On, Steps
    <3>2. QED
      BY <1>1, <3>1, OnRange
  <2>3. CASE Current(s).position \notin DOMAIN Above
    <3> DEFINE falls == Falls(Current(s))
    <3>1. falls \in Seq(Tasks) /\ \A other \in Range(falls) : other.step = "portal"
      BY <2>1, FallsRange
    <3>2. work'[s] = falls \o Tail(work[s])
      BY <1>1, <2>1, <2>3 DEF Follows, Then, TypeOK
    <3> HIDE DEF falls
    <3>3. \A i \in DOMAIN falls : falls[i] \in Range(falls)
      BY DEF Range
    <3>4. QED
      BY <3>1, <3>2, <3>3
  <2>4. QED
    BY <2>2, <2>3
<1>6. \A task \in Tasks : ~Pending(s, task)
  BY <1>1 DEF Pending
<1>7. Answers(s)'
  BY <1>1, <1>4, <1>5, <1>6, AnswersThen
<1>8. QED
  BY <1>1, <1>4, <1>7, FollowPublishing

ClientFacts == /\ BlockInvariant /\ FeedFacts!FeedInvariant /\ FeedFacts!Bounded
               /\ OverlapsContested /\ WorldPublished /\ CursorsFollow /\ ClientsFollow

LEMMA ClientInit == Init => ClientFacts
<1> SUFFICES ASSUME Init PROVE ClientFacts
  OBVIOUS
<1>1. BlockInvariant /\ FeedFacts!FeedInvariant
  BY InitInvariant, SameFeed, BlockAssumption, FeedFacts!InitInvariant DEF Init
<1>2. FeedFacts!Bounded
  <2>1. feed = {}
    BY DEF Init, Feed!Init
  <2>2. IsFiniteSet(feed) /\ Cardinality(feed) = 0
    BY <2>1, FS_EmptySet
  <2>3. QED
    BY <2>2, BlockAssumption DEF FeedFacts!Bounded, FeedFacts!IsFiniteSet, IsFiniteSet,
                                 FeedFacts!Cardinality, Cardinality
<1>3. /\ \A t \in Sessions : ~Publishing(t) /\ work[t] = <<>> /\ drawn[t] = {}
      /\ published = {} /\ feed = {} /\ joined = {} /\ pushes = 0
      /\ \A t \in Sessions : since[t] = 0
  BY DEF Init, Feed!Init, Publishing, At
<1>4. OverlapsContested /\ WorldPublished
  BY <1>3 DEF OverlapsContested, WorldPublished
<1>5. CursorsFollow
  BY <1>3 DEF CursorsFollow, FeedIsNewest, NothingOld, NothingAlone
<1>6. ClientsFollow
  BY <1>3 DEF ClientsFollow, Shows, Answers
<1>7. QED
  BY <1>1, <1>2, <1>4, <1>5, <1>6 DEF ClientFacts

LEMMA ClientStep == ClientFacts /\ [Next]_vars => ClientFacts'
<1> SUFFICES ASSUME ClientFacts, [Next]_vars PROVE ClientFacts'
  OBVIOUS
<1> USE DEF ClientFacts
<1>1. BlockInvariant' /\ FeedFacts!FeedInvariant' /\ TypeOK /\ TypeOK'
  BY StepInvariant DEF BlockInvariant
<1>2. FeedFacts!Bounded'
  BY <1>1, FeedStep, SameFeed, BlockAssumption, FeedFacts!BoundedStep
<1>3. CASE UNCHANGED vars
  <2>1. Calm
    BY <1>3 DEF vars, feedVars, Calm, Publishing, At, Current
  <2>2. UNCHANGED <<world, contested, view, work, feed, pushes, published, joined, cursor,
                    batch, since, handled>>
    BY <1>3 DEF vars, feedVars
  <2>3. OverlapsContested'
    BY <2>1, <2>2 DEF OverlapsContested, Calm
  <2>4. WorldPublished'
    BY <2>2 DEF WorldPublished, Open, Publishing, At, Current
  <2>5. CursorsFollow'
    BY <2>2, CursorsStill
  <2>6. ASSUME NEW t \in Sessions
        PROVE  Shows(t)' /\ Answers(t)'
    <3>1. \A p \in Positions : Settled(t, p)' => Settled(t, p) /\ world'[p] = world[p]
      BY <2>1, <2>2, SettledCalm
    <3>2. QED
      BY <1>1, <2>2, <3>1, ShowsStay, AnswersStay DEF ClientsFollow
  <2>7. QED
    BY <1>1, <1>2, <2>3, <2>4, <2>5, <2>6 DEF ClientsFollow
<1>4. ASSUME NEW s \in Sessions,
             Join(s) \/ Load(s) \/ Poll(s) \/ HandleChange(s) \/ Leave(s)
      PROVE  ClientFacts'
  <2>1. Calm
    BY <1>1, <1>4, CalmConnection
  <2>2. OverlapsContested' /\ WorldPublished'
    BY <2>1, OverlapsStep, WorldStep
  <2>3. CASE Load(s)
    <3>1. UNCHANGED <<contested, feed, pushes, published, joined, cursor, batch, since, handled>>
      BY <2>3 DEF Load, feedVars
    <3>2. CursorsFollow'
      BY <3>1, CursorsStill
    <3>3. QED
      BY <1>1, <1>2, <2>2, <2>3, <3>2, FollowConnection
  <2>4. CASE Join(s) \/ Poll(s) \/ Leave(s)
    BY <1>1, <1>2, <2>2, <2>4, CursorsJoin, CursorsPoll, CursorsLeave, FollowConnection
  <2>5. CASE HandleChange(s)
    BY <1>1, <1>2, <2>2, <2>5, CursorsHandle, FollowHandle
  <2>6. QED
    BY <1>4, <2>3, <2>4, <2>5
<1>5. ASSUME NEW s \in Sessions,
             Packet(s) \/ Look(s) \/ Unchanged(s) \/ Plant(s) \/ Collapse(s) \/ Answer(s)
      PROVE  ClientFacts'
  <2>1. Calm /\ UNCHANGED <<joined, cursor, batch, since, handled>>
    BY <1>1, <1>5, CalmPacket, CalmHandler
  <2>2. OverlapsContested' /\ WorldPublished'
    BY <2>1, OverlapsStep, WorldStep
  <2>3. CursorsFollow'
    BY <2>1, CursorsStill DEF Calm
  <2>4. ClientsFollow'
    BY <1>1, <1>5, FollowPacket, FollowHandler, FollowAnswer
  <2>5. QED
    BY <1>1, <1>2, <2>2, <2>3, <2>4
<1>6. ASSUME NEW s \in Sessions, Apply(s)
      PROVE  ClientFacts'
  <2>1. contested \subseteq contested'
        /\ UNCHANGED <<feed, pushes, published, joined, cursor, batch, since, handled>>
    BY <1>6, ApplyFacts DEF feedVars
  <2>2. QED
    BY <1>1, <1>2, <1>6, <2>1, OverlapsStep, WorldStep, CursorsStill, FollowApply
<1>7. ASSUME NEW s \in Sessions, Number(s)
      PROVE  ClientFacts'
  <2>1. UNCHANGED <<contested, feed, pushes, published, joined, cursor, batch, since, handled>>
    BY <1>7, NumberFacts
  <2>2. QED
    BY <1>1, <1>2, <1>7, <2>1, OverlapsStep, WorldStep, CursorsStill, FollowNumber
<1>8. ASSUME NEW s \in Sessions, Push(s)
      PROVE  ClientFacts'
  BY <1>1, <1>2, <1>8, OverlapsStep, WorldStep, CursorsPush, FollowPush
<1>9. QED
  BY <1>3, <1>4, <1>5, <1>6, <1>7, <1>8 DEF Next
-----------------------------------------------------------------------------
\* Whatever sessions do to blocks at once, their handlers nest and a plant
\* without its support has a session on its way to it.
THEOREM BlockInvariantHolds == Spec => []BlockInvariant
<1>1. Init => BlockInvariant /\ FeedFacts!FeedInvariant
  BY InitInvariant, SameFeed, BlockAssumption, FeedFacts!InitInvariant DEF Init
<1>2. QED
  BY <1>1, StepInvariant, PTL DEF Spec

\* When all handlers have finished no plant floats, for any number of sessions,
\* blocks and edits at once.
THEOREM PlantsStandHolds == Spec => []PlantsStand
<1>1. BlockInvariant => PlantsStand
  <2> SUFFICES ASSUME BlockInvariant, Quiet, NEW p \in DOMAIN Above, world[Above[p]] = "plant"
               PROVE  world[p] \in Supports
    BY DEF PlantsStand
  <2>1. \A s \in Sessions : ~Clears(s, p)
    BY DEF Quiet, Clears
  <2>2. QED
    BY <2>1 DEF BlockInvariant, PlantsAreOwed
<1>2. QED
  BY <1>1, BlockInvariantHolds, PTL

\* Where a frame is broken somebody who has read that obsidian stood there is
\* on the way to what is lit, for any number of sessions, blocks and edits.
THEOREM PortalInvariantHolds == Spec => []PortalInvariant
<1>1. Init => BlockInvariant /\ FeedFacts!FeedInvariant /\ PortalsAreOwed
  BY InitInvariant, PortalInit, SameFeed, BlockAssumption, FeedFacts!InitInvariant DEF Init
<1>2. BlockInvariant /\ FeedFacts!FeedInvariant /\ PortalsAreOwed /\ [Next]_vars
      => (BlockInvariant /\ FeedFacts!FeedInvariant /\ PortalsAreOwed)'
  BY StepInvariant, PortalStep
<1>3. BlockInvariant /\ PortalsAreOwed => PortalInvariant
  BY DEF PortalInvariant
<1>4. QED
  BY <1>1, <1>2, <1>3, PTL DEF Spec

\* When all handlers have finished no portal is lit in a broken frame, but
\* where a collapse could not notice that it broke.
THEOREM PortalsAreFramedHolds == Spec => []PortalsAreFramed
<1>1. PortalInvariant => PortalsAreFramed
  <2> SUFFICES ASSUME PortalInvariant, Quiet, ~raced, ~FrameStands, NEW p \in Lit
               PROVE  FALSE
    BY DEF PortalsAreFramed
  <2>1. \A s \in Sessions : ~Darkens(s, p)
    BY DEF Quiet, Darkens
  <2>2. QED
    BY <2>1 DEF PortalInvariant, PortalsAreOwed
<1>2. QED
  BY <1>1, PortalInvariantHolds, PTL

\* A client shows what the world shows of every block that no two sessions
\* changed at once and that nothing of the feed is still to say of, however
\* sessions come, go, publish, poll and are answered in between.
THEOREM ClientInvariantHolds == Spec => []ClientInvariant
<1>1. ClientFacts => ClientInvariant
  BY DEF ClientFacts, ClientInvariant
<1>2. QED
  BY <1>1, ClientInit, ClientStep, PTL DEF Spec

\* When all is quiet a client that has handled what there is shows the world,
\* for any number of sessions, blocks, edits and kept changes.
THEOREM ClientsAgreeHolds == Spec => []ClientsAgree
<1>1. ClientFacts => ClientsAgree
  <2> SUFFICES ASSUME ClientFacts, Quiet, NEW s \in Sessions, UpToDate(s),
                      NEW p \in Positions \ (contested \union Missed(s))
               PROVE  view[s][p] = world[p]
    BY DEF ClientsAgree
  <2>1. s \in joined /\ view[s] # Unseen /\ batch[s] = {}
        /\ \A e \in feed : e.revision <= cursor[s]
    BY DEF UpToDate, Waiting
  <2>2. ~Open(p)
    BY DEF Quiet, Open, Publishing, At
  <2>3. ASSUME NEW e \in feed, e.subject.position = p, Feed!Unhandled(s, e)
        PROVE  FALSE
    <3>1. e \in published /\ ~(e.revision > cursor[s]) /\ e \notin batch[s]
      BY <2>1, FeedKnown DEF ClientFacts
    <3>2. FeedFacts!Overtaken(e)
      BY <2>1, <2>3, <3>1 DEF ClientFacts, FeedFacts!FeedInvariant, FeedFacts!Ahead,
                              FeedFacts!Unhandled, Feed!Unhandled
    <3>3. PICK f \in published : Inverted(f, e)
      BY <3>2 DEF FeedFacts!Overtaken, Inverted
    <3>4. QED
      BY <2>3, <3>1, <3>3 DEF ClientFacts, OverlapsContested
  <2>4. ~Coming(s, p)
    BY <2>1, <2>3 DEF Coming
  <2>5. Settled(s, p)
    BY <2>2, <2>4 DEF Settled
  <2>6. QED
    BY <2>1, <2>5 DEF ClientFacts, ClientsFollow, Shows
<1>2. QED
  BY <1>1, ClientInit, ClientStep, PTL DEF Spec

\* The block changes of the composition behave as RevisionFeed says.
THEOREM FeedImplemented == Spec => FeedSpec
<1>1. Init => Feed!Init
  BY DEF Init
<1>2. BlockInvariant => TypeOK
  BY DEF BlockInvariant
<1>3. QED
  BY <1>1, <1>2, FeedStep, BlockInvariantHolds, PTL DEF Spec, FeedSpec, Feed!Spec
=============================================================================
