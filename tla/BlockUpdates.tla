---------------------------- MODULE BlockUpdates ----------------------------
(***************************************************************************)
(* Blocks that sessions mine, place and light, and what their clients show *)
(* of them (set_block, set_dimension_block and the portals of              *)
(* carbon-server/src/state.rs, the handlers of network/mod.rs). A change   *)
(* is written to the world, numbered and pushed to a revision feed, here   *)
(* the instance Feed, under one lock after the other; plants and portals   *)
(* that lose their support are changed by the same call, in the same way.  *)
(*                                                                         *)
(* A session handles one packet or one tick of its timer at a time. What   *)
(* its handler has still to do is work[s], the next step first.            *)
(***************************************************************************)
EXTENDS Naturals, FiniteSets, SequencesExt

CONSTANTS Sessions,  \* the sessions in one dimension
          Positions, \* the positions of one chunk
          Above,     \* the position of a plant, by the position it stands on
          Frame,     \* the edge of a portal frame, its corners left out
          Portal,    \* the positions inside that frame
          Generated, \* the blocks the chunk was generated with
          Placeable, \* the kinds of blocks players carry
          Packets,   \* the number of packets that are handled, for TLC
          History,   \* the number of changes that are kept
          Bound      \* the number of changes, for TLC

Kinds == {"air", "dirt", "stone", "plant", "obsidian", "portal"}
Replaceable == {"air", "plant"}
Supports == {"dirt"}

ASSUME BlockAssumption ==
    /\ DOMAIN Above \subseteq Positions
    /\ \A p \in DOMAIN Above : Above[p] \in Positions
    /\ Frame \subseteq Positions
    /\ Portal \subseteq Positions /\ IsFiniteSet(Portal)
    /\ Generated \in [Positions -> Kinds]
    /\ \A p \in DOMAIN Above : Generated[Above[p]] = "plant" => Generated[p] \in Supports
    /\ (\E p \in Portal : Generated[p] = "portal") => \A p \in Frame : Generated[p] = "obsidian"
    /\ Placeable \subseteq Kinds \ {"plant", "portal"}
    /\ Packets \in Nat
    /\ History \in Nat \ {0}
    /\ Bound \in Nat

VARIABLES world,     \* the blocks
          work,      \* what the handler of each session has still to do
          view,      \* the blocks the client of each session shows
          packets,   \* how many packets were handled
          contested, \* history: positions whose changes overlapped another's
          raced,     \* history: the frame broke where no collapse can notice
          revision, drawn, feed, pushes, joined, cursor, batch,
          published, since, handled, repeated

Changes == [position: Positions, kind: Kinds]

Feed == INSTANCE RevisionFeed
    WITH Writers <- Sessions, Readers <- Sessions, Subjects <- Changes,
         highest <- FALSE

feedVars == <<revision, drawn, feed, pushes, joined, cursor, batch,
              published, since, handled, repeated>>
vars == <<world, work, view, packets, contested, raced, feedVars>>

Steps == {"look", "apply", "number", "push", "plant", "portal", "reply"}
\* No handler sets a block to a plant.
Tasks == {task \in [step: Steps, position: Positions, kind: Kinds, previous: Kinds] :
            task.step # "reply" => task.kind # "plant"}

Task(step, p, k) == [step |-> step, position |-> p, kind |-> k, previous |-> "air"]
SetBlock(p, k) == Task("look", p, k)
Reply(p, k) == Task("reply", p, k)
\* set_block for the positions of P, one after the other.
SetBlocks(P, k) == LET order == SetToSeq(P)
                   IN  [i \in 1..Len(order) |-> SetBlock(order[i], k)]

\* The tasks that wait for another of their handler.
Later == {task \in Tasks : task.step \in {"look", "portal", "reply"}}

\* The client shows nothing of the chunk.
Unseen == [p \in {} |-> "air"]

Init ==
    /\ world = Generated
    /\ work = [s \in Sessions |-> <<>>]
    /\ view = [s \in Sessions |-> Unseen]
    /\ packets = 0
    /\ contested = {}
    /\ raced = FALSE
    /\ Feed!Init
-----------------------------------------------------------------------------
\* The cursor is taken before the chunks are sent.
Join(s) ==
    /\ Feed!Join(s)
    /\ view' = [view EXCEPT ![s] = Unseen]
    /\ UNCHANGED <<world, work, packets, contested, raced>>

\* The chunk is sent, when the session starts and whenever it comes near again.
Load(s) ==
    /\ s \in joined
    /\ work[s] = <<>>
    /\ batch[s] = {}
    /\ view' = [view EXCEPT ![s] = world]
    /\ UNCHANGED <<world, work, packets, contested, raced, feedVars>>

\* In its loop, with no packet or tick being handled.
Waiting(s) ==
    /\ s \in joined
    /\ view[s] # Unseen
    /\ work[s] = <<>>
    /\ batch[s] = {}

Poll(s) ==
    /\ Waiting(s)
    /\ Feed!Poll(s)
    /\ UNCHANGED <<world, work, view, packets, contested, raced>>

HandleChange(s) ==
    /\ Feed!Handle(s)
    /\ LET change == Feed!First(batch[s]).subject
       IN  view' = [view EXCEPT ![s][change.position] = change.kind]
    /\ UNCHANGED <<world, work, packets, contested, raced>>

Leave_CutOff(s) == \* mutant: a session that ends drops its handler anywhere
    /\ Feed!Leave(s)
    /\ work' = [work EXCEPT ![s] = <<>>]
    /\ UNCHANGED <<world, view, packets, contested, raced>>

\* A session ends where it awaits its connection, never between two locks.
Leave(s) ==
    /\ \A i \in DOMAIN work[s] : work[s][i].step = "reply"
    /\ Feed!Leave(s)
    /\ work' = [work EXCEPT ![s] = <<>>]
    /\ UNCHANGED <<world, view, packets, contested, raced>>
-----------------------------------------------------------------------------
Begin(s, tasks) ==
    /\ Waiting(s)
    /\ packets < Packets
    /\ packets' = packets + 1
    /\ work' = [work EXCEPT ![s] = tasks]
    /\ UNCHANGED <<world, view, contested, raced, feedVars>>

\* The block was mined for long enough.
Mine(s, p) ==
    /\ world[p] # "air"
    /\ Begin(s, <<SetBlock(p, "air"), Reply(p, "air")>>)

\* It was not, or it is gone: the client is told what was there.
Refuse(s, p) == Begin(s, <<Reply(p, world[p])>>)

Place(s, p, k) ==
    /\ world[p] \in Replaceable
    /\ Begin(s, <<SetBlock(p, k), Reply(p, k)>>)

FrameStands == \A p \in Frame : world[p] = "obsidian"

\* A complete frame with nothing in it, lit row by row.
Ignite(s) ==
    /\ FrameStands
    /\ \A p \in Portal : world[p] = "air"
    /\ Begin(s, SetBlocks(Portal, "portal"))
-----------------------------------------------------------------------------
\* s comes to its next task, which is at this step.
At(s, step) == work[s] # <<>> /\ Head(work[s]).step = step
Current(s) == Head(work[s])
Then(s, tasks) == work' = [work EXCEPT ![s] = tasks \o Tail(@)]
On(s, step) == Then(s, <<[Current(s) EXCEPT !.step = step]>>)

\* set_block reads what it replaces under a lock of its own.
Look(s) ==
    /\ At(s, "look")
    /\ Then(s, <<[Current(s) EXCEPT !.step = "apply", !.previous = world[Current(s).position]]>>)
    /\ UNCHANGED <<world, view, packets, contested, raced, feedVars>>

\* Whoever has written the world and not pushed the change yet.
Publishing(s) == At(s, "number") \/ At(s, "push")
Unpublished(s) == {t \in Sessions \ {s} : Publishing(t)}

\* s is lighting a field.
Lights(s) == \E i \in DOMAIN work[s] :
                work[s][i].kind = "portal" /\ work[s][i].step \in {"look", "apply"}

\* The collapse of the portal is due to who takes away the obsidian it read
\* before, and finds what is lit by then.
Unnoticed(s) ==
    /\ Current(s).position \in Frame
    /\ world[Current(s).position] = "obsidian"
    /\ \/ Current(s).previous # "obsidian"
       \/ \E t \in Sessions : Lights(t)

Unanswered(tasks) ==
    IF tasks # <<>> /\ Head(tasks).step = "reply" THEN Tail(tasks) ELSE tasks

\* Where nothing changes, a miner is still told that the block is gone, and
\* who placed it is told nothing.
Unchanged(s) ==
    /\ At(s, "apply")
    /\ world[Current(s).position] = Current(s).kind
    /\ work' = [work EXCEPT ![s] = IF Current(s).kind = "air" THEN Tail(@)
                                  ELSE Unanswered(Tail(@))]
    /\ UNCHANGED <<world, view, packets, contested, raced, feedVars>>

Apply(s) ==
    /\ At(s, "apply")
    /\ world[Current(s).position] # Current(s).kind
    /\ world' = [world EXCEPT ![Current(s).position] = Current(s).kind]
    /\ contested' = IF Unpublished(s) = {} THEN contested
                    ELSE contested \union {Current(t).position : t \in Unpublished(s) \union {s}}
    /\ raced' = (raced \/ Unnoticed(s))
    /\ On(s, "number")
    /\ UNCHANGED <<view, packets, feedVars>>

Number(s) ==
    /\ At(s, "number")
    /\ Feed!Draw(s, [position |-> Current(s).position, kind |-> Current(s).kind])
    /\ On(s, "push")
    /\ UNCHANGED <<world, view, packets, contested, raced>>

\* What a published change has still to look at: a plant above it, and a
\* portal if it took obsidian away. A step that could find nothing is left out.
Falls(task) == IF task.previous = "obsidian" /\ task.kind # "obsidian"
               THEN <<[task EXCEPT !.step = "portal"]>> ELSE <<>>
Follows(task) == IF task.position \in DOMAIN Above
                 THEN <<[task EXCEPT !.step = "plant"]>> ELSE Falls(task)

Push(s) ==
    /\ At(s, "push")
    /\ Feed!Push(s)
    /\ Then(s, Follows(Current(s)))
    /\ UNCHANGED <<world, view, packets, contested, raced>>

\* A plant that does not survive on the new block goes first.
Plant(s) ==
    /\ At(s, "plant")
    /\ LET p == Current(s).position
           dies == /\ p \in DOMAIN Above
                   /\ world[Above[p]] = "plant"
                   /\ Current(s).kind \notin Supports
       IN  Then(s, (IF dies THEN <<SetBlock(Above[p], "air")>> ELSE <<>>)
                   \o Falls(Current(s)))
    /\ UNCHANGED <<world, view, packets, contested, raced, feedVars>>

Lit == {p \in Portal : world[p] = "portal"}

Framed_ByShape == Lit = Portal \* mutant: the field is whole, its frame unread

\* A field that fills its frame.
Framed == Lit = Portal /\ FrameStands

Collapse_Silent(s) == \* mutant: the collapse bypasses the feed
    /\ At(s, "portal")
    /\ world' = [p \in Positions |-> IF p \in Lit /\ ~Framed THEN "air" ELSE world[p]]
    /\ Then(s, <<>>)
    /\ UNCHANGED <<view, packets, contested, raced, feedVars>>

\* Where obsidian went, a lit field that has no frame goes too.
Collapse(s) ==
    /\ At(s, "portal")
    /\ Then(s, IF Framed THEN <<>> ELSE SetBlocks(Lit, "air"))
    /\ UNCHANGED <<world, view, packets, contested, raced, feedVars>>

\* The client that asked is answered directly, beside the feed.
Answer(s) ==
    /\ At(s, "reply")
    /\ view' = [view EXCEPT ![s][Current(s).position] = Current(s).kind]
    /\ Then(s, <<>>)
    /\ UNCHANGED <<world, packets, contested, raced, feedVars>>
-----------------------------------------------------------------------------
Packet(s) ==
    \/ Ignite(s)
    \/ \E p \in Positions :
         Mine(s, p) \/ Refuse(s, p) \/ \E k \in Placeable : Place(s, p, k)

Next ==
    \E s \in Sessions :
        \/ Join(s) \/ Load(s) \/ Poll(s) \/ HandleChange(s) \/ Leave(s)
        \/ Packet(s)
        \/ Look(s) \/ Unchanged(s) \/ Apply(s) \/ Number(s) \/ Push(s)
        \/ Plant(s) \/ Collapse(s) \/ Answer(s)

Spec == Init /\ [][Next]_vars
-----------------------------------------------------------------------------
\* Where a change is written, numbered and pushed, the other tasks of its
\* handler wait for it.
Lists == {q \in Seq(Tasks) : q # <<>> => Tail(q) \in Seq(Later)}

TypeOK ==
    /\ world \in [Positions -> Kinds]
    /\ work \in [Sessions -> Lists]
    /\ view \in [Sessions -> [Positions -> Kinds] \union {Unseen}]
    /\ packets \in Nat
    /\ contested \in SUBSET Positions
    /\ raced \in BOOLEAN

\* A handler never overlaps another of its session or the handling of a batch
\* of changes, and numbers a change only between writing the world and pushing it.
Nested(s) ==
    /\ work[s] # <<>> => s \in joined /\ view[s] # Unseen /\ batch[s] = {}
    /\ drawn[s] # {} <=> At(s, "push")
    /\ \A d \in drawn[s] : /\ d.subject.position = Current(s).position
                           /\ d.subject.kind = Current(s).kind

HandlersNest == \A s \in Sessions : Nested(s)

\* s is on its way to take away what stands on p: it has changed p and not
\* looked at the plant yet, or has seen it.
Clears(s, p) ==
    /\ work[s] # <<>>
    /\ \/ /\ Current(s).step \in {"number", "push", "plant"}
          /\ Current(s).position = p
          /\ Current(s).kind \notin Supports
       \/ /\ Current(s).step \in {"look", "apply"}
          /\ Current(s).position = Above[p]
          /\ Current(s).kind = "air"

\* Whoever leaves a plant without its support is on its way to it.
PlantsAreOwed ==
    \A p \in DOMAIN Above :
        world[Above[p]] = "plant" /\ world[p] \notin Supports
        => \E s \in Sessions : Clears(s, p)

BlockInvariant == TypeOK /\ HandlersNest /\ PlantsAreOwed

\* Every handler has finished.
Quiet == \A s \in Sessions : work[s] = <<>>

\* s has handled all there is for it.
UpToDate(s) == Waiting(s) /\ \A e \in feed : e.revision <= cursor[s]

\* Positions of changes that the feed dropped before s polled them.
Missed(s) ==
    {e.subject.position : e \in {e \in published \ feed : Feed!Unhandled(s, e)}}

\* When all is quiet a client shows the world, whenever it came and whatever
\* it was answered directly. Only where the changes of two sessions
\* overlapped, or the feed dropped one, it may show something else.
ClientsAgree ==
    Quiet => \A s \in Sessions : UpToDate(s) =>
        \A p \in Positions \ (contested \union Missed(s)) : view[s][p] = world[p]

\* When all is quiet a portal is lit only in a frame that stands, unless the
\* frame broke while the field was being lit, or by a call that had read what
\* it replaced before the obsidian was there.
PortalsAreFramed == Quiet /\ ~raced => Lit = {} \/ FrameStands

\* However edits overlap, when all is quiet no plant stands on a block it
\* does not survive on.
PlantsStand ==
    Quiet => \A p \in DOMAIN Above :
        world[Above[p]] = "plant" => world[p] \in Supports

\* Changes are numbered, pushed and handled as RevisionFeed says.
FeedSpec == Feed!Spec
-----------------------------------------------------------------------------
\* What makes PortalsAreFramed true. s is on its way to put out what is lit at
\* p: it took obsidian away and has not looked for a portal yet, or has found it.
Darkens(s, p) ==
    \/ /\ work[s] # <<>> /\ Current(s).step \in {"number", "push", "plant"}
       /\ Current(s).previous = "obsidian" /\ Current(s).kind # "obsidian"
    \/ \E i \in DOMAIN work[s] :
         \/ work[s][i].step = "portal"
         \/ /\ work[s][i].step \in {"look", "apply"}
            /\ work[s][i].position = p /\ work[s][i].kind = "air"

\* Where a frame is broken nobody is lighting it, and somebody puts it out.
PortalsAreOwed ==
    \/ raced
    \/ FrameStands
    \/ /\ \A s \in Sessions : ~Lights(s)
       /\ \A p \in Lit : \E s \in Sessions : Darkens(s, p)

PortalInvariant == BlockInvariant /\ PortalsAreOwed
-----------------------------------------------------------------------------
\* What makes ClientsAgree true. Changes that are published out of the order of
\* their numbers were published by sessions that overlapped.
Inverted(e, f) == e.place < f.place /\ e.revision > f.revision
OverlapsContested ==
    /\ \A t, u \in Sessions :
          t # u /\ Publishing(t) /\ Publishing(u) => Current(t).position \in contested
    /\ \A t \in Sessions : \A d \in drawn[t], e \in published :
          e.revision > d.revision => {d.subject.position, e.subject.position} \subseteq contested
    /\ \A e, f \in published :
          Inverted(e, f) => {e.subject.position, f.subject.position} \subseteq contested

\* A block is what its change is going to be published as, or what its last
\* change was published as.
Open(p) == \E t \in Sessions : Publishing(t) /\ Current(t).position = p
WorldPublished ==
    /\ \A t \in Sessions :
          Publishing(t) /\ Current(t).position \notin contested
          => world[Current(t).position] = Current(t).kind
    /\ \A e \in published :
          LET p == e.subject.position
          IN  /\ p \notin contested /\ ~Open(p)
              /\ \A f \in published : f.subject.position = p => f.place <= e.place
              => world[p] = e.subject.kind

\* The feed holds the newest changes.
FeedIsNewest ==
    /\ \A s \in Sessions : since[s] <= pushes
    /\ published # {} => feed # {}
    /\ \A e \in feed, f \in published : f.place > e.place => f \in feed

\* What was published before a session joined comes to it only where changes
\* overlapped: it is not above the cursor, nor will be as the batch is handled.
NothingOld ==
    \A s \in joined : \A e \in published :
        /\ e.place < since[s]
        /\ \/ e.revision > cursor[s]
           \/ e \in batch[s]
           \/ \E b \in batch[s] : b.place < since[s] /\ e.revision > b.revision
        => e.subject.position \in contested

\* A change that is handled again is followed by those handled after it.
NothingAlone ==
    \A s \in joined : \A b \in batch[s], e \in handled[s] :
        e.place > b.place /\ e.revision > b.revision => e \in batch[s]

CursorsFollow == FeedIsNewest /\ NothingOld /\ NothingAlone

\* Nothing is on its way to s that concerns p, nor was lost.
Coming(s, p) ==
    \E e \in published : /\ e.subject.position = p
                         /\ e \in batch[s] \/ (e \in feed /\ Feed!Unhandled(s, e))
Settled(s, p) == p \notin contested \union Missed(s) /\ ~Open(p) /\ ~Coming(s, p)

Shows(s) ==
    s \in joined /\ view[s] # Unseen =>
        \A p \in Positions : Settled(s, p) => view[s][p] = world[p]

\* A handler answers last: what the world shows, or what it is about to set.
Pending(s, task) ==
    /\ Current(s).step \in {"look", "apply"}
    /\ Current(s).position = task.position
    /\ Current(s).kind = task.kind
Truthful(s, task) == Settled(s, task.position) => task.kind = world[task.position]
Answers(s) ==
    \A i \in DOMAIN work[s] :
        LET task == work[s][i]
        IN  task.step = "reply" =>
              i = Len(work[s]) /\ ((i = 2 /\ Pending(s, task)) \/ Truthful(s, task))

\* A client shows, and is answered, what the world shows, where nothing about
\* it is still to come.
ClientsFollow == \A s \in Sessions : Shows(s) /\ Answers(s)

ClientInvariant ==
    /\ BlockInvariant
    /\ OverlapsContested /\ WorldPublished
    /\ CursorsFollow /\ ClientsFollow
=============================================================================
