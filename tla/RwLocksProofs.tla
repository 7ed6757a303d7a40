---------------------------- MODULE RwLocksProofs ----------------------------
(***************************************************************************)
(* Threads that take locks in the order of their ranks cannot deadlock:    *)
(* for any number of threads, any locks and any ordered programs. The      *)
(* invariant ties what a thread holds to its place in its program; then    *)
(* every waiting thread waits for a lock of a higher rank than all it      *)
(* holds, and a set of threads that wait for each other would have no      *)
(* member that waits for the highest lock. The second half proves that the *)
(* programs of StateLocks, all but the autosave, are ordered.              *)
(***************************************************************************)
EXTENDS RwLocks, StateLocks, WellFoundedInduction, TLAPS

\* What the next step of a program does to the locks it holds.
LEMMA HeldAtStart == \A p : Held(p, 1) = {}
  BY DEF Held

LEMMA HeldStep ==
  ASSUME NEW p \in Seq(Steps), NEW i \in 1..Len(p)
  PROVE  /\ p[i].act # "release" => Held(p, i + 1) = Held(p, i) \union {p[i].lock}
         /\ p[i].act = "release" => Held(p, i + 1) = Held(p, i) \ {p[i].lock}
<1>1. p[i] \in Steps /\ i \in Nat /\ (i + 1) - 1 = i /\ i - 1 \in Int
  OBVIOUS
<1>2. \A j : j \in 1..i <=> j \in 1..(i - 1) \/ j = i
  OBVIOUS
<1>3. \A j \in 1..(i - 1) : \A k : k \in (j + 1)..i <=> k \in (j + 1)..(i - 1) \/ k = i
  OBVIOUS
<1>4. \A k : k \notin (i + 1)..i
  OBVIOUS
<1>5. \A l \in Locks : l \in Held(p, i + 1) <=>
        \/ p[i].lock = l /\ p[i].act # "release"
        \/ l \in Held(p, i) /\ ~(p[i].lock = l /\ p[i].act = "release")
  BY <1>1, <1>2, <1>3, <1>4 DEF Held
<1>6. p[i].lock \in Locks
  BY <1>1 DEF Steps
<1>7. Held(p, i) \subseteq Locks /\ Held(p, i + 1) \subseteq Locks
  BY DEF Held
<1>8. QED
  BY <1>5, <1>6, <1>7
-----------------------------------------------------------------------------
\* What an ordered operation holds and does at each of its steps.
LEMMA OrderedOperation ==
  ASSUME AllOrdered, NEW t \in Threads, NEW o \in May[t]
  PROVE  /\ o \in Operations
         /\ Program[o] \in Seq(Steps)
         /\ \A i \in 1..Len(Program[o]) :
              LET s == Program[o][i] IN
              /\ s.lock \in Locks
              /\ s.act = "release" =>
                   /\ s.lock \in HeldBefore[o][i]
                   /\ HeldBefore[o][i + 1] = HeldBefore[o][i] \ {s.lock}
              /\ s.act # "release" =>
                   /\ \A l \in HeldBefore[o][i] : Rank[l] < Rank[s.lock]
                   /\ HeldBefore[o][i + 1] = HeldBefore[o][i] \union {s.lock}
         /\ HeldBefore[o][1] = {}
         /\ HeldBefore[o][Len(Program[o]) + 1] = {}
<1>1. o \in Operations /\ Ordered(Program[o])
  BY RwLocksAssumption DEF AllOrdered, OrderedOperations
<1>2. Program[o] \in Seq(Steps) /\ Len(Program[o]) \in Nat
  BY <1>1, RwLocksAssumption
<1>3. \A i \in 1..(Len(Program[o]) + 1) : HeldBefore[o][i] = Held(Program[o], i)
  BY <1>1 DEF HeldBefore
<1>4. ASSUME NEW i \in 1..Len(Program[o])
      PROVE  LET s == Program[o][i] IN
              /\ s.lock \in Locks
              /\ s.act = "release" =>
                   /\ s.lock \in HeldBefore[o][i]
                   /\ HeldBefore[o][i + 1] = HeldBefore[o][i] \ {s.lock}
              /\ s.act # "release" =>
                   /\ \A l \in HeldBefore[o][i] : Rank[l] < Rank[s.lock]
                   /\ HeldBefore[o][i + 1] = HeldBefore[o][i] \union {s.lock}
  <2>1. Program[o][i] \in Steps
    BY <1>2
  <2>2. HeldBefore[o][i] = Held(Program[o], i) /\ HeldBefore[o][i + 1] = Held(Program[o], i + 1)
    BY <1>2, <1>3
  <2>3. QED
    BY <1>1, <1>2, <2>1, <2>2, HeldStep DEF Ordered, Steps
<1>5. HeldBefore[o][1] = {} /\ HeldBefore[o][Len(Program[o]) + 1] = {}
  BY <1>1, <1>2, <1>3, HeldAtStart DEF Ordered
<1>6. QED
  BY <1>1, <1>2, <1>4, <1>5
-----------------------------------------------------------------------------
LEMMA InitInvariant == Init => LockInvariant
  BY RwLocksAssumption
     DEF Init, LockInvariant, TypeOK, Exclusive, NoReader, HeldInvariant, Holds,
         QueuedInvariant

\* A thread before a step: where it is and what the step does.
LEMMA AtStep ==
  ASSUME AllOrdered, LockInvariant, NEW t \in Threads, NEW act, Before(t, act)
  PROVE  /\ running[t] \in May[t] /\ running[t] \in Operations
         /\ at[t] \in 1..Len(Program[running[t]])
         /\ LockOf(t) \in Locks
         /\ at[t] + 1 <= Len(Program[running[t]]) + 1
         /\ \A l \in Locks : Holds(t, l) <=> l \in HeldBefore[running[t]][at[t]]
         /\ act = "release" =>
              HeldBefore[running[t]][at[t] + 1] = HeldBefore[running[t]][at[t]] \ {LockOf(t)}
         /\ act # "release" =>
              /\ HeldBefore[running[t]][at[t] + 1] =
                   HeldBefore[running[t]][at[t]] \union {LockOf(t)}
              /\ \A l \in Locks : Holds(t, l) => Rank[l] < Rank[LockOf(t)]
<1>1. running[t] \in May[t] /\ \A l \in Locks : Holds(t, l) <=> l \in HeldBefore[running[t]][at[t]]
  BY DEF LockInvariant, HeldInvariant, Before
<1>2. Program[running[t]] \in Seq(Steps) /\ running[t] \in Operations
  BY <1>1, OrderedOperation
<1>3. at[t] \in 1..Len(Program[running[t]])
  BY <1>2 DEF Before, LockInvariant, TypeOK
<1>4. Program[running[t]][at[t]].act = act
  BY DEF Before
<1>5. QED
  BY <1>1, <1>2, <1>3, <1>4, OrderedOperation DEF LockOf

\* A thread that did a step of its program holds what it should.
LEMMA AdvanceHeld ==
  ASSUME AllOrdered, LockInvariant, NEW t \in Threads, NEW act, Before(t, act),
         running'[t] = running[t], at'[t] = at[t] + 1,
         \A l \in Locks : readers'[l][t] <= 1,
         \A l \in Locks : Holds(t, l)' <=>
            IF act = "release" THEN Holds(t, l) /\ l # LockOf(t)
                               ELSE Holds(t, l) \/ l = LockOf(t)
  PROVE  HeldInvariant(t)'
<1>1. running[t] # "none"
  BY DEF Before
<1>2. /\ running[t] \in May[t]
      /\ at[t] + 1 <= Len(Program[running[t]]) + 1
      /\ \A l \in Locks : Holds(t, l) <=> l \in HeldBefore[running[t]][at[t]]
  BY AtStep
<1>3. CASE act = "release"
  <2>1. HeldBefore[running[t]][at[t] + 1] = HeldBefore[running[t]][at[t]] \ {LockOf(t)}
    BY <1>3, AtStep
  <2>2. \A l \in Locks : Holds(t, l)' <=> l \in HeldBefore[running[t]][at[t] + 1]
    BY <1>2, <1>3, <2>1
  <2>3. QED
    BY <1>1, <1>2, <2>2 DEF HeldInvariant
<1>4. CASE act # "release"
  <2>1. HeldBefore[running[t]][at[t] + 1] =
          HeldBefore[running[t]][at[t]] \union {LockOf(t)}
    BY <1>4, AtStep
  <2>2. \A l \in Locks : Holds(t, l)' <=> l \in HeldBefore[running[t]][at[t] + 1]
    BY <1>2, <1>4, <2>1
  <2>3. QED
    BY <1>1, <1>2, <2>2 DEF HeldInvariant
<1>5. QED
  BY <1>3, <1>4

LEMMA StepInvariant ==
  ASSUME AllOrdered, LockInvariant, [Next]_vars
  PROVE  LockInvariant'
<1> USE RwLocksAssumption
<1>1. ASSUME NEW t \in Threads, NEW o \in Operations, Begin(t, o)
      PROVE  LockInvariant'
  <2>1. Program[o] \in Seq(Steps) /\ HeldBefore[o][1] = {} /\ o # "none" /\ o \in May[t]
    BY <1>1, OrderedOperation DEF Begin
  <2>2. TypeOK' /\ Exclusive'
    BY <1>1 DEF Begin, LockInvariant, TypeOK, Exclusive, NoReader
  <2>3. ASSUME NEW u \in Threads PROVE HeldInvariant(u)'
    <3>1. CASE u = t
      <4>1. running'[t] = o /\ at'[t] = 1 /\ Len(Program[o]) \in Nat
        BY <1>1, <2>1 DEF Begin, LockInvariant, TypeOK
      <4>2. \A l \in Locks : ~Holds(t, l)
        BY <1>1 DEF Begin, LockInvariant, HeldInvariant
      <4>3. QED
        BY <1>1, <2>1, <3>1, <4>1, <4>2 DEF Begin, LockInvariant, HeldInvariant, Holds
    <3>2. CASE u # t
      BY <1>1, <3>2 DEF Begin, LockInvariant, TypeOK, HeldInvariant, Holds
    <3>3. QED
      BY <3>1, <3>2
  <2>4. QueuedInvariant'
    BY <1>1 DEF Begin, LockInvariant, TypeOK, QueuedInvariant, Before, LockOf
  <2>5. QED
    BY <2>2, <2>3, <2>4 DEF LockInvariant
<1>2. ASSUME NEW t \in Threads, Read(t) PROVE LockInvariant'
  <2>0. Before(t, "read")
    BY <1>2 DEF Read
  <2>1. LockOf(t) \in Locks /\ ~Holds(t, LockOf(t))
    BY <2>0, AtStep
  <2>2. readers[LockOf(t)][t] = 0
    BY <2>1 DEF Holds, LockInvariant, TypeOK
  <2>3. readers' = [readers EXCEPT ![LockOf(t)] = [readers[LockOf(t)] EXCEPT ![t] = 1]]
    BY <1>2, <2>1, <2>2 DEF Read, LockInvariant, TypeOK
  <2>4. TypeOK' /\ Exclusive'
    BY <1>2, <2>1, <2>3 DEF Read, Advance, LockInvariant, TypeOK, Exclusive, NoReader
  <2>5. ASSUME NEW u \in Threads PROVE HeldInvariant(u)'
    <3>1. CASE u = t
      <4>1. \A l \in Locks : Holds(t, l)' <=> Holds(t, l) \/ l = LockOf(t)
        BY <1>2, <2>1, <2>2, <2>3 DEF Read, Holds, LockInvariant, TypeOK
      <4>2. running'[t] = running[t] /\ at'[t] = at[t] + 1 /\ running[t] # "none"
        BY <1>2, <2>0 DEF Read, Advance, Before, LockInvariant, TypeOK
      <4>3. \A l \in Locks : readers'[l][t] <= 1
        BY <2>1, <2>3 DEF LockInvariant, HeldInvariant, TypeOK
      <4>4. QED
        BY <2>0, <3>1, <4>1, <4>2, <4>3, AdvanceHeld
    <3>2. CASE u # t
      <4>1. \A l \in Locks : readers'[l][u] = readers[l][u]
        BY <2>1, <2>3, <3>2 DEF LockInvariant, TypeOK
      <4>2. running'[u] = running[u] /\ at'[u] = at[u] /\ writer' = writer
        BY <1>2, <3>2 DEF Read, Advance, LockInvariant, TypeOK
      <4>3. QED
        BY <4>1, <4>2 DEF LockInvariant, HeldInvariant, Holds
    <3>3. QED
      BY <3>1, <3>2
  <2>6. QueuedInvariant'
    BY <1>2, <2>0 DEF Read, Advance, LockInvariant, TypeOK, QueuedInvariant, Before, LockOf
  <2>7. QED
    BY <2>4, <2>5, <2>6 DEF LockInvariant
<1>3. ASSUME NEW t \in Threads, Write(t) PROVE LockInvariant'
  <2>0. Before(t, "write")
    BY <1>3 DEF Write
  <2>1. LockOf(t) \in Locks
    BY <2>0, AtStep
  <2>2. TypeOK' /\ Exclusive'
    BY <1>3, <2>1 DEF Write, Advance, LockInvariant, TypeOK, Exclusive, NoReader
  <2>3. ASSUME NEW u \in Threads PROVE HeldInvariant(u)'
    <3>1. CASE u = t
      <4>1. \A l \in Locks : Holds(t, l)' <=> Holds(t, l) \/ l = LockOf(t)
        BY <1>3, <2>1 DEF Write, Holds, LockInvariant, TypeOK
      <4>2. running'[t] = running[t] /\ at'[t] = at[t] + 1 /\ running[t] # "none"
        BY <1>3, <2>0 DEF Write, Advance, Before, LockInvariant, TypeOK
      <4>3. \A l \in Locks : readers'[l][t] <= 1
        BY <1>3 DEF Write, LockInvariant, HeldInvariant
      <4>4. QED
        BY <2>0, <3>1, <4>1, <4>2, <4>3, AdvanceHeld
    <3>2. CASE u # t
      <4>1. \A l \in Locks : writer'[l] = u <=> writer[l] = u
        BY <1>3, <2>1, <3>2 DEF Write, LockInvariant, TypeOK
      <4>2. running'[u] = running[u] /\ at'[u] = at[u] /\ readers' = readers
        BY <1>3, <3>2 DEF Write, Advance, LockInvariant, TypeOK
      <4>3. QED
        BY <4>1, <4>2 DEF LockInvariant, HeldInvariant, Holds
    <3>3. QED
      BY <3>1, <3>2
  <2>4. QueuedInvariant'
    <3>1. SUFFICES ASSUME NEW l \in Locks, NEW u \in queued'[l]
                   PROVE  Before(u, "write")' /\ LockOf(u)' = l
      BY DEF QueuedInvariant
    <3>2. u \in queued[l] /\ u # t /\ u \in Threads
      BY <1>3, <2>0, <2>1 DEF Write, LockInvariant, QueuedInvariant, TypeOK
    <3>3. running'[u] = running[u] /\ at'[u] = at[u]
      BY <1>3, <3>2 DEF Write, Advance, LockInvariant, TypeOK
    <3>4. QED
      BY <3>2, <3>3 DEF LockInvariant, QueuedInvariant, Before, LockOf
  <2>5. QED
    BY <2>2, <2>3, <2>4 DEF LockInvariant
<1>4. ASSUME NEW t \in Threads, Queue(t) PROVE LockInvariant'
  <2>1. Before(t, "write")
    BY <1>4 DEF Queue
  <2>2. LockOf(t) \in Locks
    BY <2>1, AtStep
  <2>3. TypeOK' /\ Exclusive' /\ \A u \in Threads : HeldInvariant(u)'
    BY <1>4, <2>2
       DEF Queue, LockInvariant, TypeOK, Exclusive, NoReader, HeldInvariant, Holds
  <2>4. QueuedInvariant'
    BY <1>4, <2>1, <2>2
       DEF Queue, LockInvariant, TypeOK, QueuedInvariant, Before, LockOf
  <2>5. QED
    BY <2>3, <2>4 DEF LockInvariant
<1>5. ASSUME NEW t \in Threads, Release(t) PROVE LockInvariant'
  <2>0. Before(t, "release")
    BY <1>5 DEF Release
  <2>1. LockOf(t) \in Locks
    BY <2>0, AtStep
  <2>2. /\ readers' \in [Locks -> [Threads -> Nat]]
        /\ writer' \in [Locks -> Threads \union {"none"}]
        /\ \A l \in Locks, u \in Threads :
             /\ readers'[l][u] = IF l = LockOf(t) /\ u = t THEN 0 ELSE readers[l][u]
             /\ writer'[l] = u <=> writer[l] = u /\ ~(l = LockOf(t) /\ u = t)
    <3>1. CASE writer[LockOf(t)] = t
      <4>1. writer' = [writer EXCEPT ![LockOf(t)] = "none"] /\ readers' = readers
        BY <1>5, <3>1 DEF Release
      <4>2. readers[LockOf(t)][t] = 0
        BY <2>1, <3>1, RwLocksAssumption DEF LockInvariant, Exclusive, NoReader
      <4>3. QED
        BY <2>1, <3>1, <4>1, <4>2, RwLocksAssumption DEF LockInvariant, TypeOK
    <3>2. CASE writer[LockOf(t)] # t
      <4>1. writer' = writer /\ readers[LockOf(t)][t] > 0
            /\ readers' = [readers EXCEPT ![LockOf(t)][t] = @ - 1]
        BY <1>5, <3>2 DEF Release, Holds
      <4>2. readers[LockOf(t)][t] = 1
        BY <2>1, <4>1 DEF LockInvariant, TypeOK, HeldInvariant
      <4>3. readers' = [readers EXCEPT ![LockOf(t)] = [readers[LockOf(t)] EXCEPT ![t] = 0]]
        BY <2>1, <4>1, <4>2 DEF LockInvariant, TypeOK
      <4>4. QED
        BY <2>1, <3>2, <4>1, <4>3 DEF LockInvariant, TypeOK
    <3>3. QED
      BY <3>1, <3>2
  <2>3. queued' \in [Locks -> SUBSET Threads]
        /\ \A l \in Locks : queued'[l] \subseteq queued[l]
    BY <1>5, <2>1 DEF Release, LockInvariant, TypeOK
  <2>4. TypeOK' /\ Exclusive'
    <3>1. TypeOK'
      BY <1>5, <2>1, <2>2, <2>3 DEF Release, Advance, LockInvariant, TypeOK
    <3>2. ASSUME NEW l \in Locks, writer'[l] # "none", NEW u \in Threads
          PROVE  readers'[l][u] = 0
      <4>1. writer'[l] \in Threads
        BY <2>2, <3>2
      <4>2. writer[l] # "none"
        BY <2>2, <4>1, RwLocksAssumption
      <4>3. readers[l][u] = 0
        BY <4>2 DEF LockInvariant, Exclusive, NoReader
      <4>4. QED
        BY <2>2, <4>3
    <3>3. QED
      BY <3>1, <3>2 DEF Exclusive, NoReader
  <2>5. ASSUME NEW u \in Threads PROVE HeldInvariant(u)'
    <3>1. CASE u = t
      <4>1. \A l \in Locks : Holds(t, l)' <=> Holds(t, l) /\ l # LockOf(t)
        BY <2>2 DEF Holds
      <4>2. running'[t] = running[t] /\ at'[t] = at[t] + 1
        BY <1>5 DEF Release, Advance, LockInvariant, TypeOK
      <4>3. ASSUME NEW l \in Locks PROVE readers'[l][t] <= 1
        <5>1. readers[l][t] <= 1 /\ readers[l][t] \in Nat
          BY DEF LockInvariant, HeldInvariant, TypeOK
        <5>2. QED
          BY <2>2, <5>1
      <4>4. QED
        BY <2>0, <3>1, <4>1, <4>2, <4>3, AdvanceHeld
    <3>2. CASE u # t
      <4>1. \A l \in Locks : readers'[l][u] = readers[l][u]
                            /\ (writer'[l] = u <=> writer[l] = u)
        BY <2>2, <3>2
      <4>2. running'[u] = running[u] /\ at'[u] = at[u]
        BY <1>5, <3>2 DEF Release, Advance, LockInvariant, TypeOK
      <4>3. QED
        BY <4>1, <4>2 DEF LockInvariant, HeldInvariant, Holds
    <3>3. QED
      BY <3>1, <3>2
  <2>6. QueuedInvariant'
    <3>1. SUFFICES ASSUME NEW l \in Locks, NEW u \in queued'[l]
                   PROVE  Before(u, "write")' /\ LockOf(u)' = l
      BY DEF QueuedInvariant
    <3>2. u \in queued[l] /\ u \in Threads
      BY <2>3 DEF LockInvariant, TypeOK
    <3>3. u # t
      BY <2>0, <3>2 DEF LockInvariant, QueuedInvariant, Before
    <3>4. running'[u] = running[u] /\ at'[u] = at[u]
      BY <1>5, <3>2, <3>3 DEF Release, Advance, LockInvariant, TypeOK
    <3>5. QED
      BY <3>2, <3>4 DEF LockInvariant, QueuedInvariant, Before, LockOf
  <2>7. QED
    BY <2>4, <2>5, <2>6 DEF LockInvariant
<1>6. ASSUME NEW t \in Threads, Return(t) PROVE LockInvariant'
  <2>1. running[t] \in May[t] /\ running[t] # "none"
        /\ at[t] \in Nat /\ at[t] > Len(Program[running[t]])
        /\ at[t] <= Len(Program[running[t]]) + 1
    BY <1>6 DEF Return, LockInvariant, HeldInvariant, TypeOK
  <2>2. Len(Program[running[t]]) \in Nat
        /\ HeldBefore[running[t]][Len(Program[running[t]]) + 1] = {}
    <3>1. Program[running[t]] \in Seq(Steps)
      BY <2>1, OrderedOperation
    <3>2. HeldBefore[running[t]][Len(Program[running[t]]) + 1] = {}
      BY <2>1, OrderedOperation
    <3>3. QED
      BY <3>1, <3>2
  <2>3. at[t] = Len(Program[running[t]]) + 1
    BY <2>1, <2>2
  <2>4. \A l \in Locks : ~Holds(t, l)
    BY <2>1, <2>2, <2>3 DEF LockInvariant, HeldInvariant
  <2>5. TypeOK' /\ Exclusive'
    BY <1>6 DEF Return, LockInvariant, TypeOK, Exclusive, NoReader
  <2>6. ASSUME NEW u \in Threads PROVE HeldInvariant(u)'
    BY <1>6, <2>4 DEF Return, LockInvariant, TypeOK, HeldInvariant, Holds
  <2>7. QueuedInvariant'
    BY <1>6, <2>1, <2>2 DEF Return, LockInvariant, TypeOK, QueuedInvariant, Before, LockOf
  <2>8. QED
    BY <2>5, <2>6, <2>7 DEF LockInvariant
<1>7. CASE UNCHANGED vars
  BY <1>7 DEF vars, LockInvariant, TypeOK, Exclusive, NoReader, HeldInvariant, Holds,
              QueuedInvariant, Before, LockOf
<1>8. QED
  BY <1>1, <1>2, <1>3, <1>4, <1>5, <1>6, <1>7 DEF Next, Step

\* Every thread holds what its program holds at its place, and locks exclude.
THEOREM LockInvariantHolds ==
  ASSUME AllOrdered
  PROVE  Spec => []LockInvariant
<1>1. LockInvariant /\ [Next]_vars => LockInvariant'
  BY StepInvariant
<1>2. QED
  BY InitInvariant, <1>1, PTL DEF Spec
-----------------------------------------------------------------------------
\* A waiting thread waits for a lock above all that it holds.
LEMMA WaitsUp ==
  ASSUME AllOrdered, LockInvariant, NEW t \in Threads, NEW u \in Threads,
         Blocks(t, u), NEW v \in Threads, Blocks(v, t)
  PROVE  /\ LockOf(t) \in Locks /\ LockOf(u) \in Locks
         /\ Holds(t, LockOf(u)) => Rank[LockOf(u)] < Rank[LockOf(t)]
         /\ ~Holds(t, LockOf(u)) =>
              Before(t, "write") /\ LockOf(t) = LockOf(u) /\ Holds(v, LockOf(u))
<1>1. Before(t, "read") \/ Before(t, "write")
  BY DEF Blocks
<1>2. Before(u, "read") \/ Before(u, "write")
  BY DEF Blocks
<1>3. LockOf(t) \in Locks /\ \A l \in Locks : Holds(t, l) => Rank[l] < Rank[LockOf(t)]
  BY <1>1, AtStep
<1>4. LockOf(u) \in Locks
  BY <1>2, AtStep
<1>5. ASSUME ~Holds(t, LockOf(u))
      PROVE  Before(t, "write") /\ LockOf(t) = LockOf(u) /\ Holds(v, LockOf(u))
  <2>1. t \in queued[LockOf(u)]
    BY <1>5 DEF Blocks, Holds
  <2>2. Before(t, "write") /\ LockOf(t) = LockOf(u)
    BY <1>4, <2>1 DEF LockInvariant, QueuedInvariant
  <2>3. QED
    BY <2>2 DEF Blocks, Before
<1>6. QED
  BY <1>3, <1>4, <1>5

LEMMA LeastElement ==
  ASSUME NEW S \in SUBSET Nat, S # {}
  PROVE  \E n \in S : \A m \in S : n <= m
<1>1. IsWellFoundedOn(OpToRel(<, Nat), Nat)
  BY NatLessThanWellFounded
<1>2. PICK n \in S : \A m \in S : <<m, n>> \notin OpToRel(<, Nat)
  BY <1>1, WFMin
<1>3. \A m \in S : ~(m < n)
  BY <1>2 DEF OpToRel
<1>4. \A m \in S : n <= m
  BY <1>3
<1>5. QED
  BY <1>4

LEMMA NoCycle ==
  ASSUME AllOrdered, LockInvariant
  PROVE  NoWaitCycle
<1>1. SUFFICES ASSUME NEW D \in SUBSET Threads, D # {},
                      \A t \in D : \E u \in D : Blocks(u, t)
               PROVE  FALSE
  BY DEF NoWaitCycle
<1> DEFINE Height(t) == Top - Rank[LockOf(t)]
           Heights == {Height(t) : t \in D}
<1>2. \A t \in D : LockOf(t) \in Locks /\ Height(t) \in Nat
  <2>1. SUFFICES ASSUME NEW t \in D PROVE LockOf(t) \in Locks /\ Height(t) \in Nat
    OBVIOUS
  <2>2. Before(t, "read") \/ Before(t, "write")
    BY <1>1 DEF Blocks
  <2>3. LockOf(t) \in Locks
    BY <2>2, AtStep
  <2>4. QED
    BY <2>3, RwLocksAssumption
<1>3. \E n \in Heights : \A m \in Heights : n <= m
  <2>1. Heights \in SUBSET Nat /\ Heights # {}
    BY <1>1, <1>2
  <2>2. QED
    BY <2>1, LeastElement
<1>4. PICK t \in D : \A u \in D : Height(t) <= Height(u)
  BY <1>3
<1>5. PICK u \in D : Blocks(u, t)
  BY <1>1
<1>6. PICK v \in D : Blocks(v, u)
  BY <1>1
<1>7. \A x, y \in D : Blocks(x, y) /\ Holds(x, LockOf(y)) => Rank[LockOf(y)] < Rank[LockOf(x)]
  BY <1>1, WaitsUp
<1>8. CASE Holds(u, LockOf(t))
  BY <1>2, <1>4, <1>5, <1>7, <1>8, RwLocksAssumption
<1>9. CASE ~Holds(u, LockOf(t))
  <2>1. LockOf(u) = LockOf(t) /\ Holds(v, LockOf(u))
    BY <1>5, <1>6, <1>9, WaitsUp
  <2>2. Rank[LockOf(u)] < Rank[LockOf(v)]
    BY <1>6, <1>7, <2>1
  <2>3. QED
    BY <1>2, <1>4, <2>1, <2>2, RwLocksAssumption
<1>10. QED
  BY <1>8, <1>9

\* Ordered programs never deadlock.
THEOREM DeadlockFree ==
  ASSUME AllOrdered
  PROVE  Spec => []NoWaitCycle
<1>1. LockInvariant => NoWaitCycle
  BY NoCycle
<1>2. QED
  BY <1>1, LockInvariantHolds, PTL
-----------------------------------------------------------------------------
(***************************************************************************)
(* The programs of ServerState are ordered. They are put together from     *)
(* pieces, and so is the proof: Does(S, p, T) says that p, begun with the  *)
(* locks S held, takes locks in the order of their ranks, releases only    *)
(* what is held, and ends with T held. Pieces follow one another (Chain).  *)
(***************************************************************************)

Releases(step, l) == step.lock = l /\ step.act = "release"
HeldFrom(S, p, i) ==
    Held(p, i) \union {l \in S : \A k \in 1 .. (i - 1) : ~Releases(p[k], l)}
Does(S, p, T) ==
    /\ S \subseteq Locks /\ p \in Seq(Steps)
    /\ \A i \in 1 .. Len(p) :
         IF p[i].act = "release"
         THEN p[i].lock \in HeldFrom(S, p, i)
         ELSE \A l \in HeldFrom(S, p, i) : Rank[l] < Rank[p[i].lock]
    /\ HeldFrom(S, p, Len(p) + 1) = T

LEMMA Joined ==
  ASSUME NEW p \in Seq(Steps), NEW q \in Seq(Steps)
  PROVE  /\ p \o q \in Seq(Steps) /\ Len(p \o q) = Len(p) + Len(q)
         /\ Len(p) \in Nat /\ Len(q) \in Nat
         /\ \A i \in 1 .. Len(p) : (p \o q)[i] = p[i]
         /\ \A i \in 1 .. Len(q) : (p \o q)[Len(p) + i] = q[i]
<1>1. p \o q \in Seq(Steps) /\ Len(p \o q) = Len(p) + Len(q)
  OBVIOUS
<1>2. Len(p) \in Nat /\ Len(q) \in Nat
  OBVIOUS
<1>3. \A i \in 1 .. Len(p) : (p \o q)[i] = p[i]
  OBVIOUS
<1>4. ASSUME NEW i \in 1 .. Len(q) PROVE (p \o q)[Len(p) + i] = q[i]
  <2>1. Len(p) + i \in 1 .. (Len(p) + Len(q)) /\ Len(p) + i > Len(p) /\ (Len(p) + i) - Len(p) = i
    BY <1>2
  <2>2. QED
    BY <1>2, <2>1
<1>5. QED
  BY <1>1, <1>2, <1>3, <1>4

\* Up to the end of the first piece the second makes no difference.
LEMMA HeldInFirst ==
  ASSUME NEW p \in Seq(Steps), NEW q \in Seq(Steps), NEW S,
         NEW i \in 1 .. (Len(p) + 1)
  PROVE  HeldFrom(S, p \o q, i) = HeldFrom(S, p, i)
<1> DEFINE c == p \o q
<1>1. Len(p) \in Nat /\ \A j \in 1 .. Len(p) : c[j] = p[j]
  BY Joined
<1>2. \A j \in 1 .. (i - 1) : c[j] = p[j]
  BY <1>1
<1>3. \A j \in 1 .. (i - 1) : \A k \in (j + 1) .. (i - 1) : c[k] = p[k]
  BY <1>2
<1> HIDE DEF c
<1>4. Held(c, i) = Held(p, i)
  BY <1>2, <1>3 DEF Held
<1>5. {l \in S : \A k \in 1 .. (i - 1) : ~Releases(c[k], l)}
        = {l \in S : \A k \in 1 .. (i - 1) : ~Releases(p[k], l)}
  BY <1>2
<1>6. QED
  BY <1>4, <1>5 DEF HeldFrom, c

\* The second piece goes on with what the first one holds at its end.
LEMMA HeldInSecond ==
  ASSUME NEW p \in Seq(Steps), NEW q \in Seq(Steps), NEW S \in SUBSET Locks,
         NEW i \in 1 .. (Len(q) + 1)
  PROVE  HeldFrom(S, p \o q, Len(p) + i) = HeldFrom(HeldFrom(S, p, Len(p) + 1), q, i)
<1> DEFINE c == p \o q
           m == Len(p)
           T == HeldFrom(S, p, m + 1)
<1>1. /\ m \in Nat /\ Len(q) \in Nat /\ i \in Nat \ {0}
      /\ \A j \in 1 .. m : c[j] = p[j]
      /\ \A j \in 1 .. Len(q) : c[m + j] = q[j]
  BY Joined
<1> HIDE DEF c, m
<1>2. \A j \in 1 .. (i - 1) : c[m + j] = q[j]
  BY <1>1
<1>3. T = Held(p, m + 1) \union {l \in S : \A k \in 1 .. m : ~Releases(p[k], l)}
  BY <1>1 DEF HeldFrom
<1>4. T \subseteq Locks
  BY <1>3 DEF Held
<1> DEFINE Kept(l) == \A k \in 1 .. (i - 1) : ~Releases(q[k], l)
<1>5. \A l : Kept(l) <=> \A k \in (m + 1) .. ((m + i) - 1) : ~Releases(c[k], l)
  <2>1. ASSUME NEW k \in (m + 1) .. ((m + i) - 1)
        PROVE  k - m \in 1 .. (i - 1) /\ c[k] = q[k - m]
    <3>1. k - m \in 1 .. (i - 1) /\ k = m + (k - m)
      BY <1>1
    <3>2. QED
      BY <1>2, <3>1
  <2>2. ASSUME NEW k \in 1 .. (i - 1)
        PROVE  m + k \in (m + 1) .. ((m + i) - 1) /\ c[m + k] = q[k]
    BY <1>1, <1>2
  <2> QED
    BY <2>1, <2>2
<1>6. \A l \in Locks : l \in Held(q, i) <=>
        \E j \in (m + 1) .. ((m + i) - 1) :
           /\ c[j].lock = l /\ c[j].act # "release"
           /\ \A k \in (j + 1) .. ((m + i) - 1) : ~Releases(c[k], l)
  <2> SUFFICES ASSUME NEW l \in Locks
      PROVE  l \in Held(q, i) <=>
               \E j \in (m + 1) .. ((m + i) - 1) :
                 /\ c[j].lock = l /\ c[j].act # "release"
                 /\ \A k \in (j + 1) .. ((m + i) - 1) : ~Releases(c[k], l)
    OBVIOUS
  <2>1. ASSUME l \in Held(q, i)
        PROVE  \E j \in (m + 1) .. ((m + i) - 1) :
                 /\ c[j].lock = l /\ c[j].act # "release"
                 /\ \A k \in (j + 1) .. ((m + i) - 1) : ~Releases(c[k], l)
    <3>1. PICK j \in 1 .. (i - 1) :
             /\ q[j].lock = l /\ q[j].act # "release"
             /\ \A k \in (j + 1) .. (i - 1) : ~Releases(q[k], l)
      BY <2>1 DEF Held, Releases
    <3>2. m + j \in (m + 1) .. ((m + i) - 1) /\ c[m + j] = q[j]
      BY <1>1, <1>2
    <3>3. ASSUME NEW k \in ((m + j) + 1) .. ((m + i) - 1) PROVE ~Releases(c[k], l)
      <4>1. k - m \in (j + 1) .. (i - 1) /\ k - m \in 1 .. (i - 1) /\ k = m + (k - m)
        BY <1>1
      <4>2. c[k] = q[k - m]
        BY <1>2, <4>1
      <4>3. QED
        BY <3>1, <4>1, <4>2
    <3>4. QED
      BY <3>1, <3>2, <3>3
  <2>2. ASSUME NEW j \in (m + 1) .. ((m + i) - 1), c[j].lock = l, c[j].act # "release",
               \A k \in (j + 1) .. ((m + i) - 1) : ~Releases(c[k], l)
        PROVE  l \in Held(q, i)
    <3>1. j - m \in 1 .. (i - 1) /\ j = m + (j - m)
      BY <1>1
    <3>2. c[j] = q[j - m]
      BY <1>2, <3>1
    <3>3. ASSUME NEW k \in ((j - m) + 1) .. (i - 1) PROVE ~Releases(q[k], l)
      <4>1. m + k \in (j + 1) .. ((m + i) - 1) /\ k \in 1 .. (i - 1)
        BY <1>1
      <4>2. c[m + k] = q[k]
        BY <1>2, <4>1
      <4>3. QED
        BY <2>2, <4>1, <4>2
    <3>4. QED
      BY <2>2, <3>1, <3>2, <3>3 DEF Held, Releases
  <2>3. QED
    BY <2>1, <2>2
<1>7. \A l \in Locks : l \in Held(p, m + 1) <=>
        \E j \in 1 .. m : /\ c[j].lock = l /\ c[j].act # "release"
                          /\ \A k \in (j + 1) .. m : ~Releases(c[k], l)
  <2>1. (m + 1) - 1 = m /\ \A j \in 1 .. m : \A k \in (j + 1) .. m : c[k] = p[k]
    BY <1>1
  <2>2. QED
    BY <1>1, <2>1 DEF Held, Releases
<1>8. \A j \in 1 .. m : \A k : k \in (j + 1) .. ((m + i) - 1) <=>
        k \in (j + 1) .. m \/ k \in (m + 1) .. ((m + i) - 1)
  BY <1>1
<1>9. \A k : k \in 1 .. ((m + i) - 1) <=> k \in 1 .. m \/ k \in (m + 1) .. ((m + i) - 1)
  BY <1>1
<1>10. \A l \in Locks : l \in Held(c, m + i) <=> l \in Held(q, i) \/ (l \in Held(p, m + 1) /\ Kept(l))
  <2> SUFFICES ASSUME NEW l \in Locks
               PROVE  l \in Held(c, m + i) <=> l \in Held(q, i) \/ (l \in Held(p, m + 1) /\ Kept(l))
    OBVIOUS
  <2>1. l \in Held(c, m + i) <=>
          \E j \in 1 .. ((m + i) - 1) :
             /\ c[j].lock = l /\ c[j].act # "release"
             /\ \A k \in (j + 1) .. ((m + i) - 1) : ~Releases(c[k], l)
    BY DEF Held, Releases
  <2> HIDE DEF Kept
  <2>2. QED
    BY <1>5, <1>6, <1>7, <1>8, <1>9, <2>1
<1>11. \A l \in S : (\A k \in 1 .. ((m + i) - 1) : ~Releases(c[k], l))
                      <=> (\A k \in 1 .. m : ~Releases(p[k], l)) /\ Kept(l)
  BY <1>1, <1>5, <1>9
<1>12. Held(c, m + i) \subseteq Locks /\ Held(q, i) \subseteq Locks /\ Held(p, m + 1) \subseteq Locks
  BY DEF Held
<1>13. \A l : l \in HeldFrom(S, c, m + i) <=>
          l \in Held(c, m + i) \/ (l \in S /\ \A k \in 1 .. ((m + i) - 1) : ~Releases(c[k], l))
  BY DEF HeldFrom
<1>14. \A l : l \in HeldFrom(T, q, i) <=> l \in Held(q, i) \/ (l \in T /\ Kept(l))
  BY DEF HeldFrom
<1>15. \A l : l \in T <=> l \in Held(p, m + 1) \/ (l \in S /\ \A k \in 1 .. m : ~Releases(p[k], l))
  BY <1>3
<1> HIDE DEF T, Kept
<1>16. \A l : l \in HeldFrom(S, c, m + i) <=> l \in HeldFrom(T, q, i)
  BY <1>10, <1>11, <1>12, <1>13, <1>14, <1>15
<1>17. HeldFrom(S, c, m + i) = HeldFrom(T, q, i)
  BY <1>16
<1>18. QED
  BY <1>17 DEF c, m, T

LEMMA Chain ==
  ASSUME NEW S, NEW T, NEW U, NEW p, NEW q, Does(S, p, T), Does(T, q, U)
  PROVE  Does(S, p \o q, U)
<1> DEFINE c == p \o q
           m == Len(p)
<1>1. /\ S \subseteq Locks /\ p \in Seq(Steps) /\ q \in Seq(Steps)
      /\ T = HeldFrom(S, p, m + 1) /\ U = HeldFrom(T, q, Len(q) + 1)
  BY DEF Does
<1>2. /\ c \in Seq(Steps) /\ Len(c) = m + Len(q) /\ m \in Nat /\ Len(q) \in Nat
      /\ \A i \in 1 .. m : c[i] = p[i]
      /\ \A i \in 1 .. Len(q) : c[m + i] = q[i]
  BY <1>1, Joined
<1>3. \A i \in 1 .. (m + 1) : HeldFrom(S, c, i) = HeldFrom(S, p, i)
  BY <1>1, HeldInFirst
<1>4. \A i \in 1 .. (Len(q) + 1) : HeldFrom(S, c, m + i) = HeldFrom(T, q, i)
  BY <1>1, HeldInSecond
<1> HIDE DEF c, m
<1>5. ASSUME NEW i \in 1 .. Len(c)
      PROVE  IF c[i].act = "release"
             THEN c[i].lock \in HeldFrom(S, c, i)
             ELSE \A l \in HeldFrom(S, c, i) : Rank[l] < Rank[c[i].lock]
  <2>1. CASE i \in 1 .. m
    <3>1. c[i] = p[i] /\ HeldFrom(S, c, i) = HeldFrom(S, p, i)
      BY <1>2, <1>3, <2>1
    <3>2. QED
      BY <2>1, <3>1 DEF Does, m
  <2>2. CASE i \notin 1 .. m
    <3>1. i - m \in 1 .. Len(q) /\ i - m \in 1 .. (Len(q) + 1) /\ m + (i - m) = i
      BY <1>2, <2>2
    <3>2. c[i] = q[i - m] /\ HeldFrom(S, c, i) = HeldFrom(T, q, i - m)
      BY <1>2, <1>4, <3>1
    <3>3. QED
      BY <3>1, <3>2 DEF Does
  <2>3. QED
    BY <2>1, <2>2
<1>6. HeldFrom(S, c, Len(c) + 1) = U
  <2>1. Len(q) + 1 \in 1 .. (Len(q) + 1) /\ m + (Len(q) + 1) = Len(c) + 1
    BY <1>2
  <2>2. HeldFrom(S, c, m + (Len(q) + 1)) = HeldFrom(T, q, Len(q) + 1)
    BY <1>4, <2>1
  <2>3. QED
    BY <1>1, <2>1, <2>2
<1>7. QED
  BY <1>1, <1>2, <1>5, <1>6 DEF Does, c

\* A program that begins and ends with nothing held is ordered.
LEMMA DoesOrdered ==
  ASSUME NEW p, Does({}, p, {})
  PROVE  Ordered(p)
<1>1. \A i : HeldFrom({}, p, i) = Held(p, i)
  BY DEF HeldFrom
<1>2. QED
  BY <1>1 DEF Does, Ordered

\* A single step.
LEMMA SingleDoes ==
  ASSUME NEW S \in SUBSET Locks, NEW s \in Steps,
         s.act # "release" => \A l \in S : Rank[l] < Rank[s.lock],
         s.act = "release" => s.lock \in S
  PROVE  Does(S, <<s>>, IF s.act = "release" THEN S \ {s.lock} ELSE S \union {s.lock})
<1> DEFINE p == <<s>>
<1>1. p \in Seq(Steps) /\ Len(p) = 1 /\ p[1] = s /\ 1 \in 1 .. Len(p) /\ 1 + 1 = Len(p) + 1
  OBVIOUS
<1>2. \A i \in 1 .. Len(p) : i = 1
  BY <1>1
<1>3. Held(p, 1) = {} /\ (\A k \in 1 .. 1 : k = 1) /\ \A k : k \notin 1 .. (1 - 1)
  BY HeldAtStart
<1>4. HeldFrom(S, p, 1) = S
  BY <1>3 DEF HeldFrom
<1>5. Held(p, 1 + 1) = IF s.act = "release" THEN {} ELSE {s.lock}
  <2>1. /\ p[1].act # "release" => Held(p, 1 + 1) = Held(p, 1) \union {p[1].lock}
        /\ p[1].act = "release" => Held(p, 1 + 1) = Held(p, 1) \ {p[1].lock}
    BY <1>1, HeldStep
  <2>2. QED
    BY <1>1, <1>3, <2>1
<1>6. \A k : k \in 1 .. ((1 + 1) - 1) <=> k = 1
  OBVIOUS
<1> HIDE DEF p
<1>7. HeldFrom(S, p, 1 + 1) = IF s.act = "release" THEN S \ {s.lock} ELSE S \union {s.lock}
  <2>1. \A l : l \in HeldFrom(S, p, 1 + 1) <=>
                 l \in Held(p, 1 + 1) \/ (l \in S /\ ~Releases(s, l))
    BY <1>1, <1>6 DEF HeldFrom
  <2>2. QED
    BY <1>5, <2>1 DEF Releases
<1>8. QED
  BY <1>1, <1>2, <1>4, <1>7 DEF Does, p

\* The pieces of StateLocks.
LEMMA TakeDoes ==
  ASSUME NEW S \in SUBSET Locks, NEW l \in Locks, \A k \in S : Rank[k] < Rank[l]
  PROVE  Does(S, R(l), S \union {l}) /\ Does(S, W(l), S \union {l})
<1>1. ASSUME NEW act \in {"read", "write"}
      PROVE  Does(S, <<[act |-> act, lock |-> l]>>, S \union {l})
  <2> DEFINE s == [act |-> act, lock |-> l]
  <2>1. s \in Steps /\ s.act # "release" /\ s.lock = l
    BY DEF Steps
  <2> HIDE DEF s
  <2>2. Does(S, <<s>>, IF s.act = "release" THEN S \ {s.lock} ELSE S \union {s.lock})
    BY <2>1, SingleDoes
  <2>3. QED
    BY <2>1, <2>2 DEF s
<1>2. QED
  BY <1>1 DEF R, W

LEMMA DropDoes ==
  ASSUME NEW S \in SUBSET Locks, NEW l \in S
  PROVE  Does(S, Drop(l), S \ {l})
<1> DEFINE s == [act |-> "release", lock |-> l]
<1>1. s \in Steps /\ s.act = "release" /\ s.lock = l
  BY DEF Steps
<1> HIDE DEF s
<1>2. Does(S, <<s>>, IF s.act = "release" THEN S \ {s.lock} ELSE S \union {s.lock})
  BY <1>1, SingleDoes
<1>3. QED
  BY <1>1, <1>2 DEF s, Drop

LEMMA BriefDoes ==
  ASSUME NEW S \in SUBSET Locks, NEW l \in Locks, \A k \in S : Rank[k] < Rank[l]
  PROVE  Does(S, Peek(l), S) /\ Does(S, Update(l), S)
<1>1. l \notin S
  BY RwLocksAssumption
<1>2. S \union {l} \in SUBSET Locks /\ l \in S \union {l} /\ (S \union {l}) \ {l} = S
  BY <1>1
<1>3. Does(S \union {l}, Drop(l), S)
  BY <1>2, DropDoes
<1>4. Does(S, R(l), S \union {l}) /\ Does(S, W(l), S \union {l})
  BY TakeDoes
<1>5. QED
  BY <1>3, <1>4, Chain DEF Peek, Update
-----------------------------------------------------------------------------
\* The locks of the server and their order.
ServerLocks == Locks = StateLockNames /\ Rank = StateRank

\* A piece that neither begins nor ends with a lock held, one that ends with
\* the players held, and one that runs while they are.
Calm(p) == Does({}, p, {})
Enters(p) == Does({}, p, {"players"})
Inside(p) == Does({"players"}, p, {"players"})

LEMMA ServerRanks ==
  ASSUME ServerLocks
  PROVE  /\ {"players", "simulation", "dimensions", "worlds", "saved_locations",
             "transforms", "vitals", "equipment", "status_effects", "inventories",
             "combat_states", "furnaces", "chests", "lava_burn_until", "feed"} = Locks
         /\ Rank["players"] = 0
         /\ \A l \in Locks : l # "players" => 0 < Rank[l]
         /\ Rank["saved_locations"] = 1 /\ Rank["vitals"] = 2
         /\ Rank["equipment"] = 3 /\ Rank["status_effects"] = 4
         /\ Rank["inventories"] = 5 /\ Rank["combat_states"] = 5
         /\ Rank["furnaces"] = 5 /\ Rank["chests"] = 5
<1>1. \A l \in Locks : Rank[l] =
         CASE l = "players" -> 0
           [] l \in {"simulation", "dimensions", "worlds", "saved_locations"} -> 1
           [] l = "vitals" -> 2
           [] l = "equipment" -> 3
           [] l = "status_effects" -> 4
           [] OTHER -> 5
  BY DEF ServerLocks, StateRank
<1>2. QED
  BY <1>1 DEF ServerLocks, StateLockNames

LEMMA CalmPieces ==
  ASSUME ServerLocks
  PROVE  /\ \A l \in Locks : Calm(Peek(l)) /\ Calm(Update(l))
         /\ \A l \in Locks \ {"players"} : Inside(Peek(l)) /\ Inside(Update(l))
         /\ Enters(R("players")) /\ Enters(W("players"))
         /\ Does({"players"}, Drop("players"), {})
         /\ Inside(<<>>)
<1>1. \A l \in Locks : Calm(Peek(l)) /\ Calm(Update(l))
  BY BriefDoes DEF Calm
<1>2. ASSUME NEW l \in Locks \ {"players"} PROVE Inside(Peek(l)) /\ Inside(Update(l))
  <2>1. {"players"} \in SUBSET Locks /\ \A k \in {"players"} : Rank[k] < Rank[l]
    BY ServerRanks
  <2>2. QED
    BY <2>1, BriefDoes DEF Inside
<1>3. Enters(R("players")) /\ Enters(W("players"))
  <2>1. "players" \in Locks /\ {} \union {"players"} = {"players"}
    BY ServerRanks
  <2>2. Does({}, R("players"), {} \union {"players"}) /\ Does({}, W("players"), {} \union {"players"})
    BY <2>1, TakeDoes
  <2>3. QED
    BY <2>1, <2>2 DEF Enters
<1>4. Does({"players"}, Drop("players"), {})
  <2>1. {"players"} \in SUBSET Locks /\ "players" \in {"players"}
        /\ {"players"} \ {"players"} = {}
    BY ServerRanks
  <2>2. Does({"players"}, Drop("players"), {"players"} \ {"players"})
    BY <2>1, DropDoes
  <2>3. QED
    BY <2>1, <2>2
<1>5. Inside(<<>>)
  <2>1. "players" \in Locks
    BY ServerRanks
  <2>2. HeldFrom({"players"}, <<>>, 1) = {"players"}
    BY HeldAtStart DEF HeldFrom
  <2>3. <<>> \in Seq(Steps) /\ Len(<<>>) = 0 /\ Len(<<>>) + 1 = 1
    OBVIOUS
  <2>4. QED
    BY <2>1, <2>2, <2>3 DEF Inside, Does
<1>6. QED
  BY <1>1, <1>2, <1>3, <1>4, <1>5

\* How such pieces go on in each other.
LEMMA CalmChains ==
  /\ \A p, q : Calm(p) /\ Calm(q) => Calm(p \o q)
  /\ \A p, q : Calm(p) /\ Enters(q) => Enters(p \o q)
  /\ \A p, q : Enters(p) /\ Inside(q) => Enters(p \o q)
  /\ \A p, q : Enters(p) /\ Does({"players"}, q, {}) => Calm(p \o q)
  /\ \A p, q : Inside(p) /\ Inside(q) => Inside(p \o q)
  BY Chain DEF Calm, Enters, Inside
-----------------------------------------------------------------------------
\* The operations that do not hold more than the players, piece by piece.
LEMMA SharedPieces ==
  ASSUME ServerLocks
  PROVE  /\ Calm(BlockAt) /\ Inside(BlockAt)
         /\ Calm(PlayerEquipment) /\ Inside(PlayerEquipment)
         /\ Calm(DamagePlayer) /\ Inside(DamagePlayer)
         /\ Inside(DamagePlayerCombat)
         /\ Calm(UpdateWorldPlayerCounts) /\ Calm(TickLavaHazards)
         /\ Calm(UpdatePlayerPosition)
<1>1. Calm(BlockAt) /\ Inside(BlockAt)
  BY ServerRanks, CalmPieces, CalmChains DEF BlockAt
<1>2. Calm(PlayerEquipment) /\ Inside(PlayerEquipment)
  BY ServerRanks, CalmPieces, CalmChains DEF PlayerEquipment
<1>3. Calm(DamagePlayer) /\ Inside(DamagePlayer)
  BY ServerRanks, CalmPieces, CalmChains DEF DamagePlayer
<1>4. Inside(DamagePlayerCombat)
  BY <1>2, <1>3, ServerRanks, CalmPieces, CalmChains DEF DamagePlayerCombat
<1>5. Calm(UpdateWorldPlayerCounts)
  BY ServerRanks, CalmPieces, CalmChains DEF UpdateWorldPlayerCounts
<1>6. Calm(TickLavaHazards)
  BY <1>1, <1>3, ServerRanks, CalmPieces, CalmChains DEF TickLavaHazards
<1>7. Calm(UpdatePlayerPosition)
  BY ServerRanks, CalmPieces, CalmChains DEF UpdatePlayerPosition
<1>8. QED
  BY <1>1, <1>2, <1>3, <1>4, <1>5, <1>6, <1>7

LEMMA PlainOperations ==
  ASSUME ServerLocks
  PROVE  /\ Calm(AdvanceTick(<<>>)) /\ Calm(AddPlayer) /\ Calm(RemovePlayer)
         /\ Calm(UpdatePlayerTransform) /\ Calm(ChangePlayerDimension)
         /\ Calm(RespawnPlayer) /\ Calm(SetBlock) /\ Calm(ClickChestSlot)
         /\ Calm(RequestDisconnect)
<1>1. Calm(AdvanceTick(<<>>))
  BY SharedPieces, ServerRanks, CalmPieces, CalmChains DEF AdvanceTick
<1>2. Calm(AddPlayer)
  BY SharedPieces, ServerRanks, CalmPieces, CalmChains DEF AddPlayer
<1>3. Calm(RemovePlayer)
  BY SharedPieces, ServerRanks, CalmPieces, CalmChains DEF RemovePlayer
<1>4. Calm(UpdatePlayerTransform)
  BY SharedPieces, ServerRanks, CalmPieces, CalmChains DEF UpdatePlayerTransform
<1>5. Calm(ChangePlayerDimension)
  BY SharedPieces, ServerRanks, CalmPieces, CalmChains DEF ChangePlayerDimension
<1>6. Calm(RespawnPlayer)
  BY SharedPieces, ServerRanks, CalmPieces, CalmChains DEF RespawnPlayer
<1>7. Calm(SetBlock) /\ Calm(ClickChestSlot) /\ Calm(RequestDisconnect)
  BY SharedPieces, ServerRanks, CalmPieces, CalmChains
     DEF SetBlock, ClickChestSlot, RequestDisconnect
<1>8. QED
  BY <1>1, <1>2, <1>3, <1>4, <1>5, <1>6, <1>7

\* A guard held over pieces that only take locks above it.
LEMMA HoldingEquipment ==
  ASSUME ServerLocks
  PROVE  Calm(ClickOffHand) /\ Calm(AttackPlayer)
<1> DEFINE E == {"equipment"}
<1>1. /\ {"equipment", "combat_states"} \subseteq Locks /\ E \subseteq Locks
      /\ {} \union E = E /\ E \ E = {}
      /\ \A k \in E : Rank[k] < Rank["combat_states"]
  BY ServerRanks
<1>2. Does({}, W("equipment"), E)
  <2>1. Does({}, W("equipment"), {} \union {"equipment"})
    BY <1>1, TakeDoes
  <2>2. QED
    BY <1>1, <2>1
<1>3. Does(E, Update("combat_states"), E)
  BY <1>1, BriefDoes
<1>4. Does(E, Drop("equipment"), {})
  <2>1. Does(E, Drop("equipment"), E \ {"equipment"})
    BY <1>1, DropDoes
  <2>2. QED
    BY <1>1, <2>1
<1> HIDE DEF E
<1>5. Calm(ClickOffHand)
  <2>1. Does({}, W("equipment") \o Update("combat_states"), E)
    BY <1>2, <1>3, Chain
  <2>2. QED
    BY <1>4, <2>1, Chain DEF ClickOffHand, Calm
<1>6. Calm(AttackPlayer)
  <2> DEFINE before == Peek("combat_states") \o PlayerEquipment \o Peek("transforms")
  <2>1. Does({}, before, {})
    BY SharedPieces, ServerRanks, CalmPieces, CalmChains DEF Calm
  <2> HIDE DEF before
  <2>2. Does({}, before \o W("equipment"), E)
    BY <1>2, <2>1, Chain
  <2>3. Does({}, before \o W("equipment") \o Update("combat_states"), E)
    BY <1>3, <2>2, Chain
  <2>4. Does({}, before \o W("equipment") \o Update("combat_states") \o Drop("equipment"), {})
    BY <1>4, <2>3, Chain
  <2>5. QED
    BY <2>4 DEF AttackPlayer, Calm, before
<1>7. QED
  BY <1>5, <1>6

LEMMA HoldingVitals ==
  ASSUME ServerLocks
  PROVE  Calm(ConsumeFood)
<1> DEFINE V == {"vitals"}
           I == {"vitals", "inventories"}
<1>1. /\ {"vitals", "inventories"} \subseteq Locks /\ V \in SUBSET Locks /\ I \in SUBSET Locks
      /\ {} \union {"vitals"} = V /\ V \union {"inventories"} = I
      /\ I \ {"inventories"} = V /\ V \ {"vitals"} = {}
      /\ "inventories" \in I /\ "vitals" \in V
      /\ \A k \in V : Rank[k] < Rank["inventories"]
  BY ServerRanks
<1> HIDE DEF V, I
<1>2. Does({}, W("vitals"), V) /\ Does(V, W("inventories"), I)
  <2>1. Does({}, W("vitals"), {} \union {"vitals"})
    BY <1>1, TakeDoes
  <2>2. Does(V, W("inventories"), V \union {"inventories"})
    BY <1>1, TakeDoes
  <2>3. QED
    BY <1>1, <2>1, <2>2
<1>3. Does(I, Drop("inventories"), V) /\ Does(V, Drop("vitals"), {})
  <2>1. Does(I, Drop("inventories"), I \ {"inventories"})
    BY <1>1, DropDoes
  <2>2. Does(V, Drop("vitals"), V \ {"vitals"})
    BY <1>1, DropDoes
  <2>3. QED
    BY <1>1, <2>1, <2>2
<1>4. Calm(W("vitals") \o W("inventories") \o Drop("inventories") \o Drop("vitals"))
  <2>1. Does({}, W("vitals") \o W("inventories"), I)
    BY <1>2, Chain
  <2>2. Does({}, W("vitals") \o W("inventories") \o Drop("inventories"), V)
    BY <1>3, <2>1, Chain
  <2>3. QED
    BY <1>3, <2>2, Chain DEF Calm
<1>5. QED
  BY <1>4, ServerRanks, CalmPieces, CalmChains DEF ConsumeFood

\* The four guards of save, each of a higher rank than those before it.
LEMMA HoldingSave ==
  ASSUME ServerLocks
  PROVE  Calm(Save)
<1> DEFINE A == {"saved_locations"}
           B == {"saved_locations", "vitals"}
           C == {"saved_locations", "vitals", "equipment"}
           D == {"saved_locations", "vitals", "equipment", "status_effects"}
           before == Peek("simulation") \o Peek("dimensions") \o Peek("players")
<1>1. /\ {"saved_locations", "vitals", "equipment", "status_effects",
          "inventories", "furnaces", "chests"} \subseteq Locks
      /\ A \in SUBSET Locks /\ B \in SUBSET Locks /\ C \in SUBSET Locks /\ D \in SUBSET Locks
  BY ServerRanks
<1>2. /\ {} \union {"saved_locations"} = A /\ A \union {"vitals"} = B
      /\ B \union {"equipment"} = C /\ C \union {"status_effects"} = D
      /\ A \ {"saved_locations"} = {} /\ B \ {"vitals"} = A
      /\ C \ {"equipment"} = B /\ D \ {"status_effects"} = C
      /\ "saved_locations" \in A /\ "vitals" \in B /\ "equipment" \in C /\ "status_effects" \in D
  OBVIOUS
<1>3. /\ \A k \in A : Rank[k] < Rank["vitals"]
      /\ \A k \in B : Rank[k] < Rank["equipment"]
      /\ \A k \in C : Rank[k] < Rank["status_effects"]
      /\ \A k \in D : /\ Rank[k] < Rank["inventories"]
                      /\ Rank[k] < Rank["furnaces"]
                      /\ Rank[k] < Rank["chests"]
  BY ServerRanks
<1>4. Does({}, before, {})
  BY ServerRanks, CalmPieces, CalmChains DEF Calm
<1> HIDE DEF A, B, C, D, before
<1>5. /\ Does({}, R("saved_locations"), A) /\ Does(A, R("vitals"), B)
      /\ Does(B, R("equipment"), C) /\ Does(C, R("status_effects"), D)
  <2>1. Does({}, R("saved_locations"), {} \union {"saved_locations"})
    BY <1>1, TakeDoes
  <2>2. Does(A, R("vitals"), A \union {"vitals"})
    BY <1>1, <1>3, TakeDoes
  <2>3. Does(B, R("equipment"), B \union {"equipment"})
    BY <1>1, <1>3, TakeDoes
  <2>4. Does(C, R("status_effects"), C \union {"status_effects"})
    BY <1>1, <1>3, TakeDoes
  <2>5. QED
    BY <1>2, <2>1, <2>2, <2>3, <2>4
<1>6. /\ Does(D, Peek("inventories"), D) /\ Does(D, Peek("furnaces"), D)
      /\ Does(D, Peek("chests"), D)
  BY <1>1, <1>3, BriefDoes
<1>7. /\ Does(D, Drop("status_effects"), C) /\ Does(C, Drop("equipment"), B)
      /\ Does(B, Drop("vitals"), A) /\ Does(A, Drop("saved_locations"), {})
  <2>1. Does(D, Drop("status_effects"), D \ {"status_effects"})
    BY <1>1, <1>2, DropDoes
  <2>2. Does(C, Drop("equipment"), C \ {"equipment"})
    BY <1>1, <1>2, DropDoes
  <2>3. Does(B, Drop("vitals"), B \ {"vitals"})
    BY <1>1, <1>2, DropDoes
  <2>4. Does(A, Drop("saved_locations"), A \ {"saved_locations"})
    BY <1>1, <1>2, DropDoes
  <2>5. QED
    BY <1>2, <2>1, <2>2, <2>3, <2>4
<1> DEFINE taken == before \o R("saved_locations") \o R("vitals") \o R("equipment")
                      \o R("status_effects")
           copied == taken \o Peek("inventories") \o Peek("furnaces") \o Peek("chests")
<1>8. Does({}, taken, D)
  <2>1. Does({}, before \o R("saved_locations"), A)
    BY <1>4, <1>5, Chain
  <2>2. Does({}, before \o R("saved_locations") \o R("vitals"), B)
    BY <1>5, <2>1, Chain
  <2>3. Does({}, before \o R("saved_locations") \o R("vitals") \o R("equipment"), C)
    BY <1>5, <2>2, Chain
  <2>4. QED
    BY <1>5, <2>3, Chain
<1> HIDE DEF taken
<1>9. Does({}, copied, D)
  <2>1. Does({}, taken \o Peek("inventories"), D)
    BY <1>6, <1>8, Chain
  <2>2. Does({}, taken \o Peek("inventories") \o Peek("furnaces"), D)
    BY <1>6, <2>1, Chain
  <2>3. QED
    BY <1>6, <2>2, Chain
<1> HIDE DEF copied
<1>10. Does({}, copied \o Drop("status_effects") \o Drop("equipment") \o Drop("vitals")
                  \o Drop("saved_locations"), {})
  <2>1. Does({}, copied \o Drop("status_effects"), C)
    BY <1>7, <1>9, Chain
  <2>2. Does({}, copied \o Drop("status_effects") \o Drop("equipment"), B)
    BY <1>7, <2>1, Chain
  <2>3. Does({}, copied \o Drop("status_effects") \o Drop("equipment") \o Drop("vitals"), A)
    BY <1>7, <2>2, Chain
  <2>4. QED
    BY <1>7, <2>3, Chain
<1>11. QED
  BY <1>10 DEF Save, Calm, before, taken, copied

\* Every operation of the server but the autosave takes its locks in the order
\* of StateRank, releases what it holds and ends with nothing held.
THEOREM StateProgramsOrdered ==
  ASSUME ServerLocks
  PROVE  \A o \in DOMAIN StateProgram \ {"autosave"} : Ordered(StateProgram[o])
<1>1. Calm(RepairWorld)
  BY HoldingSave, PlainOperations, ServerRanks, CalmPieces, CalmChains DEF RepairWorld
<1>2. \A o \in DOMAIN StateProgram \ {"autosave"} : Calm(StateProgram[o])
  <2>1. DOMAIN StateProgram =
          {"tick", "autosave", "add_player", "remove_player", "update_player_transform",
           "change_player_dimension", "respawn_player", "consume_food", "click_off_hand",
           "attack_player", "set_block", "click_chest_slot", "repair_world"}
    BY DEF StateProgram
  <2>2. /\ Calm(StateProgram["tick"]) /\ Calm(StateProgram["add_player"])
        /\ Calm(StateProgram["remove_player"])
        /\ Calm(StateProgram["update_player_transform"])
        /\ Calm(StateProgram["change_player_dimension"])
        /\ Calm(StateProgram["respawn_player"]) /\ Calm(StateProgram["set_block"])
        /\ Calm(StateProgram["click_chest_slot"])
    BY PlainOperations DEF StateProgram
  <2>3. /\ Calm(StateProgram["consume_food"]) /\ Calm(StateProgram["click_off_hand"])
        /\ Calm(StateProgram["attack_player"]) /\ Calm(StateProgram["repair_world"])
    BY <1>1, HoldingVitals, HoldingEquipment DEF StateProgram
  <2>4. QED
    BY <2>1, <2>2, <2>3
<1>3. QED
  BY <1>2, DoesOrdered DEF Calm

\* Threads that run the operations of the server, any number of them, each with
\* any of the operations but the autosave.
ServerThreads ==
    /\ ServerLocks
    /\ Operations = DOMAIN StateProgram
    /\ Program = StateProgram
    /\ \A t \in Threads : "autosave" \notin May[t]

LEMMA ServerOrdered == ASSUME ServerThreads PROVE AllOrdered
<1>1. \A o \in DOMAIN StateProgram \ {"autosave"} : Ordered(StateProgram[o])
  BY StateProgramsOrdered DEF ServerThreads
<1>2. ASSUME NEW t \in Threads, NEW o \in May[t] PROVE o \in OrderedOperations
  <2>1. o \in Operations /\ o # "autosave"
    BY RwLocksAssumption DEF ServerThreads
  <2>2. QED
    BY <1>1, <2>1 DEF ServerThreads, OrderedOperations
<1>3. QED
  BY <1>2 DEF AllOrdered

\* Whatever its threads run at a moment takes the locks of ServerState in order.
THEOREM StartsOrderedHolds == ASSUME ServerThreads PROVE Spec => []StartsOrdered
<1>1. AllOrdered
  BY ServerOrdered
<1>2. LockInvariant => StartsOrdered
  BY <1>1 DEF LockInvariant, HeldInvariant, StartsOrdered, AllOrdered
<1>3. Spec => []LockInvariant
  BY <1>1, LockInvariantHolds
<1>4. QED
  BY <1>2, <1>3, PTL

\* The server without its autosave cannot deadlock on the locks of ServerState,
\* with any number of sessions beside the tick and the console.
THEOREM ServerDeadlockFree == ASSUME ServerThreads PROVE Spec => []NoWaitCycle
<1>1. AllOrdered
  BY ServerOrdered
<1>2. QED
  BY <1>1, DeadlockFree
=============================================================================
