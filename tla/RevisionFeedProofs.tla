------------------------- MODULE RevisionFeedProofs -------------------------
(***************************************************************************)
(* FeedInvariant is inductive, for any number of writers, sessions and     *)
(* entries. NothingSkipped and HandledOnce are parts of it: what they say  *)
(* of one step of a session has to be known of its whole batch before.     *)
(***************************************************************************)
EXTENDS RevisionFeed, WellFoundedInduction, FiniteSetTheorems, TLAPS

LEMMA LeastNumber ==
  ASSUME NEW S \in SUBSET Nat, S # {}
  PROVE  \E n \in S : \A m \in S : n <= m
<1>1. IsWellFoundedOn(OpToRel(<, Nat), Nat)
  BY NatLessThanWellFounded
<1>2. PICK n \in S : \A m \in S : <<m, n>> \notin OpToRel(<, Nat)
  BY <1>1, WFMin
<1>3. \A m \in S : ~(m < n)
  BY <1>2 DEF OpToRel
<1>4. QED
  BY <1>3

\* The oldest entry of a batch is one of it, and older than the others.
LEMMA FirstProperties ==
  ASSUME NEW S \in SUBSET Entries, S # {}
  PROVE  First(S) \in S /\ \A e \in S : First(S).place <= e.place
<1> DEFINE Places == {e.place : e \in S}
<1>1. Places \in SUBSET Nat /\ Places # {}
  BY DEF Entries
<1>2. \E n \in Places : \A m \in Places : n <= m
  BY <1>1, LeastNumber
<1>3. \E e \in S : \A f \in S : e.place <= f.place
  BY <1>2
<1>4. QED
  BY <1>3 DEF First

\* The last entry of the deque is one of it, at the highest place; places stay
\* below pushes.
LEMMA LastProperties ==
  ASSUME NEW S \in SUBSET Entries, S # {}, NEW n \in Nat, \A e \in S : e.place < n
  PROVE  Last(S) \in S /\ \A e \in S : Last(S).place >= e.place
<1> DEFINE Distances == {n - e.place : e \in S}
<1>1. Distances \in SUBSET Nat /\ Distances # {}
  BY DEF Entries
<1>2. \E d \in Distances : \A m \in Distances : d <= m
  BY <1>1, LeastNumber
<1>3. PICK e \in S : \A f \in S : n - e.place <= n - f.place
  BY <1>2
<1>4. \A f \in S : e.place >= f.place
  BY <1>3 DEF Entries
<1>5. QED
  BY <1>4 DEF Last
-----------------------------------------------------------------------------
LEMMA InitInvariant == Init => FeedInvariant
  BY FeedAssumption
     DEF Init, FeedInvariant, TypeOK, Numbered, FromPublished, Ahead, Behind,
         Entries, Drafts

LEMMA DrawStep ==
  ASSUME FeedInvariant, NEW w \in Writers, NEW s \in Subjects, Draw(w, s)
  PROVE  FeedInvariant'
<1>1. TypeOK'
  BY DEF Draw, SameKind, history, FeedInvariant, TypeOK, Drafts
<1>2. Numbered'
  <2>1. \A v \in Writers : v # w => drawn'[v] = drawn[v]
    BY DEF Draw, FeedInvariant, TypeOK
  <2>2. drawn'[w] = {[revision |-> revision + 1, subject |-> s]}
    BY DEF Draw, FeedInvariant, TypeOK
  <2>3. /\ revision' = revision + 1 /\ revision \in Nat
        /\ published' = published /\ pushes' = pushes
    BY DEF Draw, SameKind, history, FeedInvariant, TypeOK
  <2>4. \A v \in Writers : \A d \in drawn'[v] :
           \/ v # w /\ d \in drawn[v] /\ d.revision \in 1..revision
           \/ v = w /\ d = [revision |-> revision + 1, subject |-> s]
    BY <2>1, <2>2 DEF FeedInvariant, Numbered
  <2>5. \A e \in published : e.revision \in 1..revision
    BY DEF FeedInvariant, Numbered
  <2>6. ASSUME NEW v \in Writers, NEW d \in drawn'[v]
        PROVE  /\ d.revision \in 1..revision'
               /\ \A e \in published : e.revision # d.revision
               /\ \A u \in Writers : \A f \in drawn'[u] :
                     f.revision = d.revision => u = v /\ f = d
    BY <2>3, <2>4, <2>5 DEF FeedInvariant, Numbered
  <2>7. \A e \in published :
           /\ e.revision \in 1..revision'
           /\ e.place < pushes
           /\ \A f \in published :
                e.revision = f.revision \/ e.place = f.place => e = f
    BY <2>3 DEF FeedInvariant, Numbered
  <2>8. QED
    BY <2>3, <2>6, <2>7 DEF Numbered
<1>3. FromPublished' /\ Ahead' /\ Behind'
  BY DEF Draw, SameKind, history, FeedInvariant, FromPublished, Ahead, Behind,
         Unhandled, Overtaken, Excused
<1>4. QED
  BY <1>1, <1>2, <1>3 DEF FeedInvariant

LEMMA PushStep ==
  ASSUME FeedInvariant, NEW w \in Writers, Push(w)
  PROVE  FeedInvariant'
<1>1. PICK d \in drawn[w] :
        /\ feed' = Newest(feed \union {Pushed(d)})
        /\ pushes' = pushes + 1
        /\ published' = published \union {Pushed(d)}
        /\ drawn' = [drawn EXCEPT ![w] = {}]
        /\ UNCHANGED <<revision, joined, cursor, batch, highest, since, handled, repeated>>
  BY DEF Push, SameKind
<1> DEFINE new == Pushed(d)
<1>2. /\ new \in Entries /\ new.revision = d.revision /\ new.place = pushes
      /\ d.revision \in 1..revision /\ pushes \in Nat
  BY DEF Pushed, FeedInvariant, TypeOK, Numbered, Drafts, Entries
<1>3. feed' \subseteq feed \union {new}
  BY <1>1 DEF Newest
<1>4. \A e \in published : /\ e.place < pushes /\ e.place \in Nat
                           /\ e.revision # new.revision /\ e.revision \in Nat
  BY <1>2 DEF FeedInvariant, Numbered, TypeOK, Entries
<1> HIDE DEF new
<1>5. TypeOK'
  <2>1. drawn' \in [Writers -> SUBSET Drafts]
    BY <1>1 DEF FeedInvariant, TypeOK
  <2>2. feed' \in SUBSET Entries /\ published' \in SUBSET Entries
    BY <1>1, <1>2, <1>3 DEF FeedInvariant, TypeOK, new
  <2>3. pushes' \in Nat
    BY <1>1, <1>2
  <2>4. QED
    BY <1>1, <2>1, <2>2, <2>3 DEF FeedInvariant, TypeOK
<1>6. Numbered'
  <2>1. \A v \in Writers : drawn'[v] \subseteq drawn[v]
    BY <1>1 DEF FeedInvariant, TypeOK
  <2>2. drawn'[w] = {}
    BY <1>1 DEF FeedInvariant, TypeOK
  <2>3. ASSUME NEW v \in Writers, NEW c \in drawn'[v]
        PROVE  /\ c.revision \in 1..revision
               /\ \A e \in published' : e.revision # c.revision
               /\ \A u \in Writers : \A f \in drawn'[u] :
                     f.revision = c.revision => u = v /\ f = c
    <3>1. c \in drawn[v] /\ v # w
      BY <2>1, <2>2, <2>3
    <3>2. new.revision # c.revision
      BY <1>2, <3>1 DEF FeedInvariant, Numbered
    <3>3. QED
      BY <1>1, <2>1, <3>1, <3>2 DEF FeedInvariant, Numbered, new
  <2>4. \A e \in published' :
           /\ e.revision \in 1..revision
           /\ e.place < pushes'
           /\ \A f \in published' :
                e.revision = f.revision \/ e.place = f.place => e = f
    <3>1. \A e \in published : e.revision \in 1..revision
             /\ \A f \in published :
                  e.revision = f.revision \/ e.place = f.place => e = f
      BY DEF FeedInvariant, Numbered
    <3>2. published' = published \union {new} /\ pushes' = pushes + 1
      BY <1>1 DEF new
    <3>3. QED
      BY <1>2, <1>4, <3>1, <3>2
  <2>5. QED
    BY <1>1, <2>3, <2>4 DEF Numbered
<1>7. FromPublished'
  BY <1>1, <1>3 DEF FeedInvariant, FromPublished, new
<1>8. \A e \in published : Overtaken(e)' <=> Overtaken(e)
  BY <1>1, <1>2, <1>4 DEF Overtaken, new
<1>9. Ahead'
  <2> SUFFICES ASSUME NEW r \in joined, NEW e \in feed',
                      Unhandled(r, e)', ~Overtaken(e)', e \notin batch[r]
               PROVE  /\ e.revision > cursor[r]
                      /\ \A f \in batch[r] : e.revision > f.revision
    BY <1>1 DEF Ahead
  <2>1. CASE e = new
    <3>1. \A f \in published : f.revision < new.revision
      BY <1>1, <1>2, <1>4, <2>1 DEF Overtaken, new
    <3>2. r \in Readers /\ batch[r] \subseteq published
      BY DEF FeedInvariant, TypeOK, FromPublished
    <3>3. cursor[r] = 0 \/ \E f \in published : f.revision = cursor[r]
      BY <3>2 DEF FeedInvariant, FromPublished
    <3>4. QED
      BY <1>2, <1>4, <2>1, <3>1, <3>2, <3>3 DEF FeedInvariant, TypeOK
  <2>2. CASE e # new
    <3>1. e \in feed /\ e \in published
      BY <1>3, <2>2 DEF FeedInvariant, FromPublished
    <3>2. Unhandled(r, e) /\ ~Overtaken(e)
      BY <1>1, <1>8, <3>1 DEF Unhandled
    <3>3. QED
      BY <3>1, <3>2 DEF FeedInvariant, Ahead
  <2>3. QED
    BY <2>1, <2>2
<1>10. Behind'
  <2>1. \A r \in Readers : handled[r] \subseteq published
    BY DEF FeedInvariant, FromPublished
  <2>2. \A r \in Readers : \A e : Excused(r, e) => Excused(r, e)'
    BY <1>1, <1>8, <2>1 DEF Excused
  <2>3. joined \subseteq Readers
    BY DEF FeedInvariant, TypeOK
  <2>4. QED
    BY <1>1, <2>2, <2>3 DEF FeedInvariant, Behind
<1>11. QED
  BY <1>5, <1>6, <1>7, <1>9, <1>10 DEF FeedInvariant

LEMMA JoinStep ==
  ASSUME FeedInvariant, NEW r \in Readers, Join(r)
  PROVE  FeedInvariant'
<1>1. cursor'[r] \in Nat /\ (cursor'[r] = 0 \/ \E e \in published : e.revision = cursor'[r])
  <2>1. CASE feed = {}
    BY <2>1 DEF Join, SameKind, FeedInvariant, TypeOK
  <2>2. CASE feed # {}
    <3>1. feed \in SUBSET Entries /\ \A e \in feed : e.place < pushes
      BY DEF FeedInvariant, TypeOK, FromPublished, Numbered
    <3>2. Last(feed) \in feed
      BY <2>2, <3>1, LastProperties DEF FeedInvariant, TypeOK
    <3>3. QED
      BY <2>2, <3>1, <3>2 DEF Join, SameKind, FeedInvariant, TypeOK, FromPublished, Entries
  <2>3. QED
    BY <2>1, <2>2
<1>2. \A q \in Readers : q # r =>
         /\ cursor'[q] = cursor[q] /\ since'[q] = since[q]
         /\ handled'[q] = handled[q] /\ repeated'[q] = repeated[q]
         /\ (q \in joined' <=> q \in joined)
  BY DEF Join, SameKind, FeedInvariant, TypeOK
<1>3. /\ handled'[r] = {} /\ repeated'[r] = {} /\ since'[r] = pushes
      /\ joined' = joined \union {r} /\ batch[r] = {}
      /\ UNCHANGED <<revision, drawn, feed, pushes, batch, highest, published>>
  BY DEF Join, SameKind, FeedInvariant, TypeOK, FromPublished
<1>4. TypeOK'
  BY <1>1, <1>3 DEF Join, SameKind, FeedInvariant, TypeOK
<1>5. Numbered'
  BY <1>3 DEF FeedInvariant, Numbered
<1>6. FromPublished'
  BY <1>1, <1>2, <1>3 DEF FeedInvariant, FromPublished, TypeOK
<1>7. \A e : Overtaken(e)' <=> Overtaken(e)
  BY <1>3 DEF Overtaken
<1>8. Ahead'
  <2>1. \A e \in feed : e.place < pushes /\ e.place \in Nat /\ pushes \in Nat
    BY DEF FeedInvariant, FromPublished, Numbered, TypeOK, Entries
  <2>2. \A e \in feed : ~Unhandled(r, e)'
    BY <1>3, <2>1 DEF Unhandled
  <2>3. QED
    BY <1>2, <1>3, <1>7, <2>2 DEF FeedInvariant, Ahead, Unhandled, TypeOK
<1>9. Behind'
  BY <1>2, <1>3, <1>7 DEF FeedInvariant, Behind, Excused, TypeOK
<1>10. QED
  BY <1>4, <1>5, <1>6, <1>8, <1>9 DEF FeedInvariant

LEMMA PollStep ==
  ASSUME FeedInvariant, NEW r \in Readers, Poll(r)
  PROVE  FeedInvariant'
<1>1. /\ UNCHANGED <<revision, drawn, feed, pushes, joined, cursor, highest, history>>
      /\ r \in joined
      /\ batch'[r] = {e \in feed : e.revision > cursor[r]}
      /\ \A q \in Readers : q # r => batch'[q] = batch[q]
  BY DEF Poll, SameKind, FeedInvariant, TypeOK
<1>2. TypeOK'
  BY DEF Poll, SameKind, history, FeedInvariant, TypeOK
<1>3. Numbered' /\ FromPublished'
  BY <1>1 DEF SameKind, history, FeedInvariant, Numbered, FromPublished
<1>4. \A q, e : /\ Overtaken(e)' <=> Overtaken(e)
                /\ Unhandled(q, e)' <=> Unhandled(q, e)
                /\ Excused(q, e)' <=> Excused(q, e)
  BY <1>1 DEF SameKind, history, Overtaken, Unhandled, Excused
<1>5. Ahead'
  <2>1. \A e \in feed : Unhandled(r, e) /\ ~Overtaken(e) /\ batch[r] = {}
                        => e.revision > cursor[r]
    BY <1>1 DEF FeedInvariant, Ahead
  <2>2. batch[r] = {}
    BY DEF Poll
  <2>3. QED
    BY <1>1, <1>4, <2>1, <2>2 DEF FeedInvariant, Ahead, TypeOK
<1>6. Behind'
  <2>1. ASSUME NEW e \in handled[r]
        PROVE  /\ e \in batch'[r] => Excused(r, e)
               /\ \A f \in batch'[r] : e.revision <= f.revision \/ Excused(r, e)
    <3>1. e.revision <= cursor[r] \/ Excused(r, e)
      BY <1>1 DEF FeedInvariant, Behind
    <3>2. e.revision \in Nat /\ cursor[r] \in Nat
      BY DEF FeedInvariant, TypeOK, Entries
    <3>3. \A f \in batch'[r] : f.revision \in Nat /\ f.revision > cursor[r]
      BY <1>1 DEF FeedInvariant, TypeOK, Entries
    <3>4. QED
      BY <3>1, <3>2, <3>3
  <2>2. QED
    BY <1>1, <1>4, <2>1 DEF SameKind, history, FeedInvariant, Behind, TypeOK
<1>7. QED
  BY <1>2, <1>3, <1>5, <1>6 DEF FeedInvariant

LEMMA HandleStep ==
  ASSUME FeedInvariant, NEW r \in Readers, Handle(r)
  PROVE  FeedInvariant'
<1>1. /\ batch[r] \in SUBSET Entries /\ batch[r] \subseteq published
      /\ handled[r] \in SUBSET Entries /\ handled[r] \subseteq published
      /\ cursor[r] \in Nat
  BY DEF FeedInvariant, TypeOK, FromPublished
<1>2. PICK y \in batch[r] :
        /\ y = First(batch[r]) /\ y \in Entries /\ y \in published
        /\ \A e \in batch[r] : y.place <= e.place
  BY <1>1, FirstProperties DEF Handle
<1>3. /\ r \in joined
      /\ UNCHANGED <<revision, drawn, feed, pushes, joined, highest, published, since>>
      /\ batch'[r] = batch[r] \ {y}
      /\ cursor'[r] = Advanced(cursor[r], y.revision)
      /\ handled'[r] = handled[r] \union {y}
      /\ repeated'[r] = repeated[r] \union ({y} \intersect handled[r])
  BY <1>2 DEF Handle, SameKind, FeedInvariant, TypeOK
<1>4. \A q \in Readers : q # r =>
         /\ batch'[q] = batch[q] /\ cursor'[q] = cursor[q]
         /\ handled'[q] = handled[q] /\ repeated'[q] = repeated[q]
  BY DEF Handle, FeedInvariant, TypeOK
<1>5. /\ cursor'[r] \in Nat
      /\ cursor'[r] = y.revision \/ cursor'[r] = cursor[r]
      /\ highest => cursor'[r] >= cursor[r] /\ cursor'[r] >= y.revision
      /\ ~highest => cursor'[r] = y.revision
  BY <1>1, <1>2, <1>3 DEF Advanced, Entries
<1>6. TypeOK'
  <2>1. /\ batch' \in [Readers -> SUBSET Entries]
        /\ handled' \in [Readers -> SUBSET Entries]
        /\ repeated' \in [Readers -> SUBSET Entries]
    BY <1>2 DEF Handle, SameKind, FeedInvariant, TypeOK
  <2>2. cursor' \in [Readers -> Nat]
    BY <1>5 DEF Handle, FeedInvariant, TypeOK
  <2>3. QED
    BY <1>3, <2>1, <2>2 DEF FeedInvariant, TypeOK
<1>7. Numbered'
  BY <1>3 DEF FeedInvariant, Numbered
<1>8. FromPublished'
  BY <1>1, <1>2, <1>3, <1>4, <1>5 DEF FeedInvariant, FromPublished
<1>9. \A e : Overtaken(e)' <=> Overtaken(e)
  BY <1>3 DEF Overtaken
<1>10. Ahead'
  <2>1. ASSUME NEW e \in feed, Unhandled(r, e)', ~Overtaken(e), e \notin batch'[r]
        PROVE  /\ e.revision > cursor'[r]
               /\ \A f \in batch'[r] : e.revision > f.revision
    <3>1. e # y /\ Unhandled(r, e) /\ e \notin batch[r]
      BY <1>3, <2>1 DEF Unhandled
    <3>2. e.revision > cursor[r] /\ \A f \in batch[r] : e.revision > f.revision
      BY <1>3, <2>1, <3>1 DEF FeedInvariant, Ahead
    <3>3. QED
      BY <1>2, <1>3, <1>5, <3>2
  <2>2. \A q \in Readers : q # r => \A e : Unhandled(q, e)' <=> Unhandled(q, e)
    BY <1>3, <1>4 DEF Unhandled
  <2>3. QED
    BY <1>3, <1>4, <1>9, <2>1, <2>2 DEF FeedInvariant, Ahead, TypeOK
<1>11. Behind'
  <2>1. \A e : Excused(r, e) => Excused(r, e)'
    BY <1>3, <1>9 DEF Excused
  <2>2. \A q \in Readers : q # r => \A e : Excused(q, e) => Excused(q, e)'
    BY <1>3, <1>4, <1>9 DEF Excused
  <2>3. \A e \in handled[r] :
           /\ e.revision <= cursor[r] \/ Excused(r, e)
           /\ e \in batch[r] => Excused(r, e)
           /\ \A f \in batch[r] :
                e.revision <= f.revision \/ e.place < f.place \/ Excused(r, e)
    BY <1>3 DEF FeedInvariant, Behind
  <2>4. \A e \in repeated[r] : Excused(r, e)
    BY <1>3 DEF FeedInvariant, Behind
  <2>5. \A e \in repeated'[r] : Excused(r, e)'
    BY <1>2, <1>3, <2>1, <2>3, <2>4
  <2>6. ASSUME NEW e \in handled'[r]
        PROVE  e.revision <= cursor'[r] \/ Excused(r, e)'
    <3>1. CASE e = y
      BY <1>2, <1>5, <3>1 DEF Entries
    <3>2. CASE e # y /\ highest
      <4>1. e.revision <= cursor[r]
        BY <1>3, <2>3, <3>2 DEF Excused
      <4>2. QED
        BY <1>1, <1>3, <1>5, <3>2, <4>1 DEF Entries
    <3>3. CASE e # y /\ ~highest /\ e.revision > y.revision /\ ~Excused(r, e)
      <4>1. e.place < y.place
        BY <1>1, <1>2, <1>3, <2>3, <3>3 DEF Entries
      <4>2. e \in published
        BY <1>1, <1>3, <3>3
      <4>3. Overtaken(y)
        <5>1. e.place < y.place /\ e.revision > y.revision
          BY <3>3, <4>1
        <5>2. QED
          BY <4>2, <5>1 DEF Overtaken
      <4>4. Overtaken(y)' /\ y \in handled'[r]
        BY <1>3, <1>9, <4>3
      <4>5. y.revision < e.revision
        <5>1. e.revision \in Nat /\ y.revision \in Nat
          BY <1>2, <4>2 DEF FeedInvariant, TypeOK, Entries
        <5>2. QED
          BY <3>3, <5>1
      <4>6. Excused(r, e)'
        BY <1>3, <3>3, <4>4, <4>5 DEF Excused, Overtaken
      <4>7. QED
        BY <4>6
    <3>4. QED
      BY <1>1, <1>2, <1>3, <1>5, <2>1, <3>1, <3>2, <3>3 DEF Entries
  <2>7. ASSUME NEW e \in handled'[r], e \in batch'[r]
        PROVE  Excused(r, e)'
    BY <1>3, <2>1, <2>3, <2>7
  <2>8. ASSUME NEW e \in handled'[r], NEW f \in batch'[r]
        PROVE  e.revision <= f.revision \/ e.place < f.place \/ Excused(r, e)'
    <3>1. CASE e = y
      <4>1. f # y /\ f \in published /\ f \in Entries /\ y.place <= f.place
        BY <1>1, <1>2, <1>3
      <4>2. y.place # f.place
        BY <1>2, <4>1 DEF FeedInvariant, Numbered
      <4>3. QED
        BY <1>2, <3>1, <4>1, <4>2 DEF Entries
    <3>2. CASE e # y
      BY <1>3, <2>1, <2>3, <3>2
    <3>3. QED
      BY <3>1, <3>2
  <2>9. QED
    BY <1>3, <1>4, <2>2, <2>5, <2>6, <2>7, <2>8 DEF FeedInvariant, Behind, TypeOK
<1>12. QED
  BY <1>6, <1>7, <1>8, <1>10, <1>11 DEF FeedInvariant

LEMMA LeaveStep ==
  ASSUME FeedInvariant, NEW r \in Readers, Leave(r)
  PROVE  FeedInvariant'
<1>1. /\ UNCHANGED <<revision, drawn, feed, pushes, cursor, highest, history>>
      /\ joined' = joined \ {r}
      /\ batch'[r] = {}
      /\ \A q \in Readers : q # r => batch'[q] = batch[q]
  BY DEF Leave, SameKind, FeedInvariant, TypeOK
<1>2. TypeOK'
  BY DEF Leave, SameKind, history, FeedInvariant, TypeOK
<1>3. Numbered' /\ FromPublished'
  BY <1>1 DEF SameKind, history, FeedInvariant, Numbered, FromPublished
<1>4. \A q, e : /\ Overtaken(e)' <=> Overtaken(e)
                /\ Unhandled(q, e)' <=> Unhandled(q, e)
                /\ Excused(q, e)' <=> Excused(q, e)
  BY <1>1 DEF SameKind, history, Overtaken, Unhandled, Excused
<1>5. Ahead' /\ Behind'
  BY <1>1, <1>4 DEF SameKind, history, FeedInvariant, Ahead, Behind, TypeOK
<1>6. QED
  BY <1>2, <1>3, <1>5 DEF FeedInvariant

LEMMA ClearStep == FeedInvariant /\ Clear => FeedInvariant'
  BY DEF Clear, SameKind, history, FeedInvariant, TypeOK, Numbered, FromPublished, Ahead,
         Behind, Unhandled, Overtaken, Excused

LEMMA StutterStep == FeedInvariant /\ UNCHANGED vars => FeedInvariant'
  BY DEF vars, SameKind, history, FeedInvariant, TypeOK, Numbered, FromPublished, Ahead,
         Behind, Unhandled, Overtaken, Excused

LEMMA StepInvariant == FeedInvariant /\ [Next]_vars => FeedInvariant'
  BY DrawStep, PushStep, JoinStep, PollStep, HandleStep, LeaveStep, ClearStep,
     StutterStep DEF Next
-----------------------------------------------------------------------------
\* What is kept of a finite deque is never more than its history: below the
\* oldest entry that is kept there are too few newer ones.
LEMMA NewestBounded ==
  ASSUME NEW S \in SUBSET Entries, IsFiniteSet(S),
         \A e, f \in S : e.place = f.place => e = f
  PROVE  /\ IsFiniteSet(Newest(S))
         /\ Cardinality(Newest(S)) <= History
<1> DEFINE kept == Newest(S)
<1>1. kept \subseteq S
  BY DEF Newest
<1>2. IsFiniteSet(kept) /\ Cardinality(kept) \in Nat
  BY <1>1, FS_Subset, FS_CardinalityType
<1>3. CASE kept = {}
  BY <1>3, FS_EmptySet, FeedAssumption
<1>4. CASE kept # {}
  <2> DEFINE e == First(kept)
             newer == {f \in S : f.place > e.place}
  <2>1. e \in kept /\ \A f \in kept : e.place <= f.place
    BY <1>1, <1>4, FirstProperties
  <2>2. Cardinality(newer) < History
    BY <2>1 DEF Newest
  <2>3. kept \ {e} \subseteq newer
    <3>1. ASSUME NEW f \in kept, f # e
          PROVE  f.place > e.place
      <4>1. f \in S /\ e \in S /\ f.place \in Nat /\ e.place \in Nat
        BY <1>1, <2>1 DEF Entries
      <4>2. f.place # e.place
        BY <3>1, <4>1
      <4>3. QED
        BY <2>1, <4>1, <4>2
    <3>2. QED
      BY <1>1, <3>1
  <2>4. IsFiniteSet(newer) /\ Cardinality(newer) \in Nat
    <3>1. newer \subseteq S
      OBVIOUS
    <3>2. QED
      BY <3>1, FS_Subset, FS_CardinalityType
  <2>5. Cardinality(kept \ {e}) <= Cardinality(newer)
    BY <2>3, <2>4, FS_Subset
  <2>6. Cardinality(kept \ {e}) = Cardinality(kept) - 1
    BY <1>2, <2>1, FS_RemoveElement
  <2>7. QED
    BY <1>2, <2>2, <2>4, <2>5, <2>6, FeedAssumption
<1>5. QED
  BY <1>2, <1>3, <1>4

\* The deque drops from its front: what is kept is kept with all that is newer.
LEMMA NewestUpward ==
  ASSUME NEW S \in SUBSET Entries, IsFiniteSet(S)
  PROVE  /\ Newest(S) \subseteq S
         /\ \A e \in Newest(S), f \in S : f.place > e.place => f \in Newest(S)
         /\ \A e \in S : (\A f \in S : f.place <= e.place) => e \in Newest(S)
<1> DEFINE Newer(e) == {f \in S : f.place > e.place}
<1>1. \A e \in S : Newer(e) \subseteq S
  OBVIOUS
<1>2. ASSUME NEW e \in Newest(S), NEW f \in S, f.place > e.place
      PROVE  f \in Newest(S)
  <2>1. e \in S /\ Cardinality(Newer(e)) < History
    BY <1>2 DEF Newest
  <2>2. Newer(f) \subseteq Newer(e)
    BY <1>2, <2>1 DEF Entries
  <2>3. IsFiniteSet(Newer(e)) /\ IsFiniteSet(Newer(f))
    BY <1>1, <2>1, FS_Subset
  <2>4. /\ Cardinality(Newer(f)) <= Cardinality(Newer(e))
        /\ Cardinality(Newer(f)) \in Nat /\ Cardinality(Newer(e)) \in Nat
    BY <2>2, <2>3, FS_Subset, FS_CardinalityType
  <2>5. QED
    BY <2>1, <2>4, FeedAssumption DEF Newest
<1>3. ASSUME NEW e \in S, \A f \in S : f.place <= e.place
      PROVE  e \in Newest(S)
  <2>1. Newer(e) = {}
    BY <1>3 DEF Entries
  <2>2. Cardinality(Newer(e)) = 0
    BY <2>1, FS_EmptySet
  <2>3. QED
    BY <2>2, FeedAssumption DEF Newest
<1>4. QED
  BY <1>2, <1>3 DEF Newest

LEMMA BoundedStep ==
  ASSUME FeedInvariant, Bounded, [Next]_vars
  PROVE  Bounded'
<1>1. ASSUME NEW w \in Writers, Push(w)
      PROVE  Bounded'
  <2>1. PICK d \in drawn[w] : /\ feed' = Newest(feed \union {Pushed(d)})
                             /\ published' = published \union {Pushed(d)}
    BY <1>1 DEF Push
  <2> DEFINE S == feed \union {Pushed(d)}
  <2>2. IsFiniteSet(S)
    BY FS_AddElement DEF Bounded
  <2>3. /\ S \subseteq published' /\ published' \in SUBSET Entries
        /\ \A e, f \in published' : e.place = f.place => e = f
    BY <1>1, <2>1, PushStep DEF FeedInvariant, FromPublished, Numbered, TypeOK
  <2>4. QED
    BY <2>1, <2>2, <2>3, NewestBounded DEF Bounded
<1>2. CASE Clear
  BY <1>2, FS_EmptySet, FeedAssumption DEF Clear, Bounded
<1>3. ASSUME NEW w \in Writers, NEW s \in Subjects, Draw(w, s)
      PROVE  Bounded'
  BY <1>3 DEF Draw, Bounded
<1>4. ASSUME NEW r \in Readers, Join(r) \/ Poll(r) \/ Handle(r) \/ Leave(r)
      PROVE  Bounded'
  BY <1>4 DEF Join, Poll, Handle, Leave, Bounded
<1>5. CASE UNCHANGED vars
  BY <1>5 DEF vars, Bounded
<1>6. QED
  BY <1>1, <1>2, <1>3, <1>4, <1>5 DEF Next
-----------------------------------------------------------------------------
\* Every feed of the server keeps FeedInvariant, whoever publishes and polls.
THEOREM FeedInvariantHolds == Spec => []FeedInvariant
<1>1. QED
  BY InitInvariant, StepInvariant, PTL DEF Spec

\* No feed outgrows its history, however many publish at once.
THEOREM BoundedHolds == Spec => []Bounded
<1>1. Init => Bounded
  BY FS_EmptySet, FeedAssumption DEF Init, Bounded
<1>2. QED
  BY <1>1, BoundedStep, FeedInvariantHolds, PTL DEF Spec

\* A session that polls a feed misses only what was overtaken or dropped.
THEOREM NothingSkippedHolds == Spec => []NothingSkipped
<1>1. FeedInvariant => NothingSkipped
  BY DEF FeedInvariant, Ahead, NothingSkipped
<1>2. QED
  BY <1>1, FeedInvariantHolds, PTL

\* A session handles an entry of a feed once, except after an overtaken one
\* where its cursor may go back.
THEOREM HandledOnceHolds == Spec => []HandledOnce
<1>1. FeedInvariant => HandledOnce
  BY DEF FeedInvariant, Behind, HandledOnce
<1>2. QED
  BY <1>1, FeedInvariantHolds, PTL
=============================================================================
