---------------------------- MODULE RevisionFeed ----------------------------
(***************************************************************************)
(* A revision feed of ServerState: chat, player events, impulses and       *)
(* disconnect requests all reach the sessions through one of these. Who    *)
(* publishes draws a number from an atomic counter and only then takes the *)
(* lock of the deque to push its entry; every session polls the deque for  *)
(* numbers above its cursor and handles what it got one by one, awaiting   *)
(* the connection in between.                                              *)
(*                                                                         *)
(* The deque is a set of entries: their place is their order in it.        *)
(***************************************************************************)
EXTENDS Naturals, FiniteSets

CONSTANTS Writers,      \* the threads that publish
          Readers,      \* the sessions
          Subjects,     \* what an entry is about
          History,      \* the number of entries the deque keeps
          Bound         \* the number of entries published, for TLC

ASSUME FeedAssumption ==
    /\ History \in Nat \ {0}
    /\ Bound \in Nat

Entries == [revision: Nat, subject: Subjects, place: Nat]
Drafts == [revision: Nat, subject: Subjects]

VARIABLES revision, \* the atomic counter
          drawn,    \* what a writer has numbered and not pushed yet
          feed,     \* the deque
          pushes,   \* how many entries were pushed
          joined,   \* the sessions that poll
          cursor,   \* the cursor of each session
          batch,    \* what a session has polled and not handled yet
          highest,  \* whether the cursors of this feed keep the highest revision
          \* The rest is history, for the properties only.
          published, \* every entry pushed so far
          since,    \* pushes at the time a session joined
          handled,  \* what a session has handled since it joined
          repeated  \* what it has handled more than once

history == <<published, since, handled, repeated>>
vars == <<revision, drawn, feed, pushes, joined, cursor, batch, highest, history>>

SameKind == highest' = highest

Init ==
    /\ revision = 0
    /\ drawn = [w \in Writers |-> {}]
    /\ feed = {}
    /\ pushes = 0
    /\ joined = {}
    /\ cursor = [r \in Readers |-> 0]
    /\ batch = [r \in Readers |-> {}]
    /\ highest \in BOOLEAN
    /\ published = {}
    /\ since = [r \in Readers |-> 0]
    /\ handled = [r \in Readers |-> {}]
    /\ repeated = [r \in Readers |-> {}]
-----------------------------------------------------------------------------
First(S) == CHOOSE e \in S : \A f \in S : e.place <= f.place
Last(S) == CHOOSE e \in S : \A f \in S : e.place >= f.place
Newest(S) == {e \in S : Cardinality({f \in S : f.place > e.place}) < History}

\* fetch_add, before the lock of the deque is taken.
Draw(w, s) ==
    /\ drawn[w] = {}
    /\ revision < Bound
    /\ revision' = revision + 1
    /\ drawn' = [drawn EXCEPT ![w] = {[revision |-> revision + 1, subject |-> s]}]
    /\ SameKind /\ UNCHANGED <<feed, pushes, joined, cursor, batch, history>>

Pushed(d) == [revision |-> d.revision, subject |-> d.subject, place |-> pushes]

Push_Untrimmed(w) == \* mutant: the deque grows without bound
    \E d \in drawn[w] :
        /\ feed' = feed \union {Pushed(d)}
        /\ pushes' = pushes + 1
        /\ published' = published \union {Pushed(d)}
        /\ drawn' = [drawn EXCEPT ![w] = {}]
        /\ SameKind /\ UNCHANGED <<revision, joined, cursor, batch, since, handled, repeated>>

\* push_back, then pop_front until the deque is short enough.
Push(w) ==
    \E d \in drawn[w] :
        /\ feed' = Newest(feed \union {Pushed(d)})
        /\ pushes' = pushes + 1
        /\ published' = published \union {Pushed(d)}
        /\ drawn' = [drawn EXCEPT ![w] = {}]
        /\ SameKind /\ UNCHANGED <<revision, joined, cursor, batch, since, handled, repeated>>

\* A reset of the world empties the two feeds whose cursors keep the highest
\* revision, player events and impulses. Their counters go on.
Clear ==
    /\ highest
    /\ feed' = {}
    /\ SameKind /\ UNCHANGED <<revision, drawn, pushes, joined, cursor, batch, history>>

Join_AtCounter(r) == \* mutant: a session starts from the counter
    /\ r \notin joined
    /\ joined' = joined \union {r}
    /\ cursor' = [cursor EXCEPT ![r] = revision]
    /\ since' = [since EXCEPT ![r] = pushes]
    /\ handled' = [handled EXCEPT ![r] = {}]
    /\ repeated' = [repeated EXCEPT ![r] = {}]
    /\ SameKind /\ UNCHANGED <<revision, drawn, feed, pushes, batch, published>>

\* A session starts from the last entry of the deque.
Join(r) ==
    /\ r \notin joined
    /\ joined' = joined \union {r}
    /\ cursor' = [cursor EXCEPT ![r] = IF feed = {} THEN 0 ELSE Last(feed).revision]
    /\ since' = [since EXCEPT ![r] = pushes]
    /\ handled' = [handled EXCEPT ![r] = {}]
    /\ repeated' = [repeated EXCEPT ![r] = {}]
    /\ SameKind /\ UNCHANGED <<revision, drawn, feed, pushes, batch, published>>

Poll_Batching(r) == \* mutant: a session waits until several entries are new
    /\ r \in joined
    /\ batch[r] = {}
    /\ Cardinality({e \in feed : e.revision > cursor[r]}) > 1
    /\ batch' = [batch EXCEPT ![r] = {e \in feed : e.revision > cursor[r]}]
    /\ SameKind /\ UNCHANGED <<revision, drawn, feed, pushes, joined, cursor, history>>

Poll(r) ==
    /\ r \in joined
    /\ batch[r] = {}
    /\ batch' = [batch EXCEPT ![r] = {e \in feed : e.revision > cursor[r]}]
    /\ SameKind /\ UNCHANGED <<revision, drawn, feed, pushes, joined, cursor, history>>

Handle_KeepingCursor(r) == \* mutant: an entry of no interest skips the cursor
    /\ r \in joined
    /\ batch[r] # {}
    /\ LET e == First(batch[r]) IN
         /\ batch' = [batch EXCEPT ![r] = @ \ {e}]
         /\ handled' = [handled EXCEPT ![r] = @ \union {e}]
         /\ repeated' = [repeated EXCEPT ![r] = @ \union ({e} \intersect handled[r])]
    /\ SameKind /\ UNCHANGED <<revision, drawn, feed, pushes, joined, cursor, published, since>>

\* Chat and disconnects take the last revision handled, the others the highest.
Advanced(from, to) == IF highest /\ from > to THEN from ELSE to

\* The oldest entry of the batch.
Handle(r) ==
    /\ r \in joined
    /\ batch[r] # {}
    /\ LET e == First(batch[r]) IN
         /\ batch' = [batch EXCEPT ![r] = @ \ {e}]
         /\ cursor' = [cursor EXCEPT ![r] = Advanced(@, e.revision)]
         /\ handled' = [handled EXCEPT ![r] = @ \union {e}]
         /\ repeated' = [repeated EXCEPT ![r] = @ \union ({e} \intersect handled[r])]
    /\ SameKind /\ UNCHANGED <<revision, drawn, feed, pushes, joined, published, since>>

\* A session may end at any await.
Leave(r) ==
    /\ r \in joined
    /\ joined' = joined \ {r}
    /\ batch' = [batch EXCEPT ![r] = {}]
    /\ SameKind /\ UNCHANGED <<revision, drawn, feed, pushes, cursor, history>>

Next ==
    \/ \E w \in Writers : Push(w) \/ \E s \in Subjects : Draw(w, s)
    \/ \E r \in Readers : Join(r) \/ Poll(r) \/ Handle(r) \/ Leave(r)
    \/ Clear

Spec == Init /\ [][Next]_vars

\* A writer finishes what it began and a session polls on every tick of its
\* timer; what it polled it handles, unless the connection fails.
FairSpec ==
    /\ Spec
    /\ \A w \in Writers : WF_vars(Push(w))
    /\ \A r \in Readers : WF_vars(Poll(r)) /\ WF_vars(Handle(r))
-----------------------------------------------------------------------------
TypeOK ==
    /\ revision \in Nat
    /\ drawn \in [Writers -> SUBSET Drafts]
    /\ feed \in SUBSET Entries
    /\ pushes \in Nat
    /\ joined \in SUBSET Readers
    /\ cursor \in [Readers -> Nat]
    /\ batch \in [Readers -> SUBSET Entries]
    /\ highest \in BOOLEAN
    /\ published \in SUBSET Entries
    /\ since \in [Readers -> Nat]
    /\ handled \in [Readers -> SUBSET Entries]
    /\ repeated \in [Readers -> SUBSET Entries]

\* The deque never holds more than its history, however many publish at once.
Bounded == IsFiniteSet(feed) /\ Cardinality(feed) <= History

\* The entry was pushed after one with a higher number.
Overtaken(e) ==
    \E f \in published : f.place < e.place /\ f.revision > e.revision

\* e is an entry r should know: published since it joined, not handled yet.
Unhandled(r, e) == e.place >= since[r] /\ e \notin handled[r]

\* A session that has not handled an entry published since it joined, and has
\* not polled it either, still will: the entry is above its cursor. Only an
\* entry that was overtaken may be below; that one is never seen.
NothingSkipped ==
    \A r \in joined : \A e \in feed :
        Unhandled(r, e) /\ ~Overtaken(e)
        => e.revision > cursor[r] \/ e \in batch[r]

\* What excuses handling an entry again: cursors go back, and one did, when a
\* lower entry that had been overtaken was handled.
Excused(r, e) ==
    ~highest /\ \E f \in handled[r] : Overtaken(f) /\ f.revision < e.revision

\* A session handles an entry again only where cursors go back and only after
\* it handled a lower one that had been overtaken: a message is shown once, a
\* player is hurt once.
HandledOnce == \A r \in joined : \A e \in repeated[r] : Excused(r, e)

\* Whoever joined before an entry was pushed handles it in the end, unless the
\* entry was overtaken, the session leaves, or so much is published that the
\* deque drops the entry first.
Delivered ==
    \A r \in Readers, n \in 0..(Bound - 1) :
        (/\ r \in joined
         /\ \E e \in feed : e.place = n /\ n >= since[r] /\ ~Overtaken(e))
        ~> (\/ r \notin joined
            \/ \E e \in handled[r] : e.place = n
            \/ \A e \in feed : e.place # n)
-----------------------------------------------------------------------------
\* Numbers are drawn once and pushed at most once, at a place of their own.
Numbered ==
    /\ \A w \in Writers : \A d \in drawn[w] :
         /\ d.revision \in 1..revision
         /\ \A e \in published : e.revision # d.revision
         /\ \A v \in Writers : \A f \in drawn[v] :
              f.revision = d.revision => v = w /\ f = d
    /\ \A e \in published :
         /\ e.revision \in 1..revision
         /\ e.place < pushes
         /\ \A f \in published :
              e.revision = f.revision \/ e.place = f.place => e = f

\* The deque, the batches and the cursors come from what was published.
FromPublished ==
    /\ feed \subseteq published
    /\ \A r \in Readers :
         /\ batch[r] \subseteq published
         /\ handled[r] \subseteq published
         /\ r \notin joined => batch[r] = {}
         /\ cursor[r] = 0 \/ \E e \in published : e.revision = cursor[r]

\* NothingSkipped, and that what comes is above all a session has polled.
Ahead ==
    \A r \in joined : \A e \in feed :
        Unhandled(r, e) /\ ~Overtaken(e) /\ e \notin batch[r]
        => /\ e.revision > cursor[r]
           /\ \A f \in batch[r] : e.revision > f.revision

\* HandledOnce, and what a session has handled seen from its cursor and batch.
Behind ==
    \A r \in joined :
        /\ \A e \in repeated[r] : Excused(r, e)
        /\ \A e \in handled[r] :
             /\ e.revision <= cursor[r] \/ Excused(r, e)
             /\ e \in batch[r] => Excused(r, e)
             /\ \A f \in batch[r] :
                  e.revision <= f.revision \/ e.place < f.place \/ Excused(r, e)

FeedInvariant == TypeOK /\ Numbered /\ FromPublished /\ Ahead /\ Behind
=============================================================================
