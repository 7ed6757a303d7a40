------------------------------- MODULE RwLocks -------------------------------
(***************************************************************************)
(* Threads that run programs of lock operations over readers-writer locks  *)
(* as std::sync::RwLock grants them: a write excludes everybody, a writer  *)
(* that has to wait keeps new readers out, and nothing notices that a      *)
(* reader already holds the lock it asks for. Which operations a program   *)
(* consists of is a parameter; those of the server are in StateLocks.      *)
(***************************************************************************)
EXTENDS Naturals, Sequences

CONSTANTS Threads,    \* the threads of the process
          Operations, \* the calls a thread may be running
          Locks,      \* the locks
          Program,    \* the steps of each operation
          May,        \* the operations each thread runs
          Rank,       \* a place for each lock in an order of acquisition
          Top         \* the last place of that order

Steps == [act: {"read", "write", "release"}, lock: Locks]

ASSUME RwLocksAssumption ==
    /\ Program \in [Operations -> Seq(Steps)]
    /\ May \in [Threads -> SUBSET Operations]
    /\ Rank \in [Locks -> 0..Top]
    /\ Top \in Nat
    /\ "none" \notin Operations \union Threads

VARIABLES running, \* the operation of each thread, or "none"
          at,      \* the position of each thread in its program
          readers, \* how often each thread holds each lock for reading
          writer,  \* who holds each lock for writing, or "none"
          queued   \* the writers that wait for each lock

vars == <<running, at, readers, writer, queued>>

TypeOK ==
    /\ running \in [Threads -> Operations \union {"none"}]
    /\ at \in [Threads -> Nat \ {0}]
    /\ readers \in [Locks -> [Threads -> Nat]]
    /\ writer \in [Locks -> Threads \union {"none"}]
    /\ queued \in [Locks -> SUBSET Threads]

Init ==
    /\ running = [t \in Threads |-> "none"]
    /\ at = [t \in Threads |-> 1]
    /\ readers = [l \in Locks |-> [t \in Threads |-> 0]]
    /\ writer = [l \in Locks |-> "none"]
    /\ queued = [l \in Locks |-> {}]
-----------------------------------------------------------------------------
\* The thread is before a step that does act.
Before(t, act) ==
    /\ running[t] # "none"
    /\ at[t] <= Len(Program[running[t]])
    /\ Program[running[t]][at[t]].act = act

LockOf(t) == Program[running[t]][at[t]].lock
NoReader(l) == \A t \in Threads : readers[l][t] = 0
Holds(t, l) == writer[l] = t \/ readers[l][t] > 0

Begin(t, o) ==
    /\ running[t] = "none"
    /\ o \in May[t]
    /\ running' = [running EXCEPT ![t] = o]
    /\ at' = [at EXCEPT ![t] = 1]
    /\ UNCHANGED <<readers, writer, queued>>

Advance(t) ==
    /\ at' = [at EXCEPT ![t] = at[t] + 1]
    /\ UNCHANGED running

Read_IgnoringWriter(t) == \* mutant: a reader does not wait for the writer
    /\ Before(t, "read")
    /\ readers' = [readers EXCEPT ![LockOf(t)][t] = @ + 1]
    /\ writer' = [writer EXCEPT ![LockOf(t)] = "none"]
    /\ Advance(t)
    /\ UNCHANGED queued

Read(t) ==
    /\ Before(t, "read")
    /\ writer[LockOf(t)] = "none"
    /\ queued[LockOf(t)] = {}
    /\ readers' = [readers EXCEPT ![LockOf(t)][t] = @ + 1]
    /\ Advance(t)
    /\ UNCHANGED <<writer, queued>>

Write(t) ==
    /\ Before(t, "write")
    /\ writer[LockOf(t)] = "none"
    /\ NoReader(LockOf(t))
    /\ writer' = [writer EXCEPT ![LockOf(t)] = t]
    /\ queued' = [queued EXCEPT ![LockOf(t)] = @ \ {t}]
    /\ Advance(t)
    /\ UNCHANGED readers

\* A writer that cannot enter marks the lock; from then on readers wait too.
Queue(t) ==
    /\ Before(t, "write")
    /\ writer[LockOf(t)] # "none" \/ ~NoReader(LockOf(t))
    /\ t \notin queued[LockOf(t)]
    /\ queued' = [queued EXCEPT ![LockOf(t)] = @ \union {t}]
    /\ UNCHANGED <<running, at, readers, writer>>

\* Who leaves a lock free clears the mark and wakes a waiter, which then
\* competes for the lock with everybody else.
Release(t) ==
    LET l == LockOf(t) IN
    /\ Before(t, "release")
    /\ Holds(t, l)
    /\ IF writer[l] = t
       THEN writer' = [writer EXCEPT ![l] = "none"] /\ UNCHANGED readers
       ELSE readers' = [readers EXCEPT ![l][t] = @ - 1] /\ UNCHANGED writer
    /\ queued' = IF \A u \in Threads : readers'[l][u] = 0
                 THEN [queued EXCEPT ![l] = {}] ELSE queued
    /\ Advance(t)

Return(t) ==
    /\ running[t] # "none"
    /\ at[t] > Len(Program[running[t]])
    /\ running' = [running EXCEPT ![t] = "none"]
    /\ at' = [at EXCEPT ![t] = 1]
    /\ UNCHANGED <<readers, writer, queued>>

Step(t) == Read(t) \/ Write(t) \/ Queue(t) \/ Release(t) \/ Return(t)

Next == \E t \in Threads : Step(t) \/ \E o \in Operations : Begin(t, o)

Spec == Init /\ [][Next]_vars
-----------------------------------------------------------------------------
\* u has or has asked for what t is waiting for.
Blocks(u, t) ==
    \/ /\ Before(t, "read")
       /\ writer[LockOf(t)] = u \/ u \in queued[LockOf(t)]
    \/ /\ Before(t, "write")
       /\ Holds(u, LockOf(t))

\* No set of threads waits for its own members: every set has a thread that
\* nobody in the set keeps from going on. A violation is a deadlock, which
\* stops the tick or a session for good and with it everything behind it.
NoWaitCycle ==
    \A D \in SUBSET Threads :
        D # {} => \E t \in D : \A u \in D : ~Blocks(u, t)

\* Whoever writes is alone.
Exclusive ==
    \A l \in Locks : writer[l] # "none" => NoReader(l)
-----------------------------------------------------------------------------
\* What a program holds before its step i.
Held(p, i) ==
    {l \in Locks : \E j \in 1..(i - 1) :
        /\ p[j].lock = l
        /\ p[j].act # "release"
        /\ \A k \in (j + 1)..(i - 1) : ~(p[k].lock = l /\ p[k].act = "release")}

\* A program takes locks in the order of their ranks, releases what it holds
\* and ends with nothing held. In particular it never takes a lock it holds.
Ordered(p) ==
    /\ \A i \in 1..Len(p) :
         IF p[i].act = "release"
         THEN p[i].lock \in Held(p, i)
         ELSE \A l \in Held(p, i) : Rank[l] < Rank[p[i].lock]
    /\ Held(p, Len(p) + 1) = {}

\* These are evaluated once, as they depend on the programs only.
HeldBefore ==
    [o \in Operations |-> [i \in 1..(Len(Program[o]) + 1) |-> Held(Program[o], i)]]
OrderedOperations == {o \in Operations : Ordered(Program[o])}

AllOrdered == \A t \in Threads : May[t] \subseteq OrderedOperations

\* Every operation a thread starts takes its locks in that order, so that an
\* edit which takes them in another one is seen even where no deadlock is near.
StartsOrdered ==
    \A t \in Threads :
        running[t] # "none" => running[t] \in OrderedOperations

\* What makes NoWaitCycle true of ordered programs: each thread holds what its
\* program holds there, readers and the writer exclude each other, and whoever
\* is queued for a lock is before a write of it. Inductive under AllOrdered.
HeldInvariant(t) ==
    /\ running[t] = "none" => \A l \in Locks : ~Holds(t, l)
    /\ running[t] # "none" =>
         /\ running[t] \in May[t]
         /\ at[t] <= Len(Program[running[t]]) + 1
         /\ \A l \in Locks : Holds(t, l) <=> l \in HeldBefore[running[t]][at[t]]
    /\ \A l \in Locks : readers[l][t] <= 1

QueuedInvariant ==
    \A l \in Locks : \A t \in queued[l] : Before(t, "write") /\ LockOf(t) = l

LockInvariant ==
    /\ TypeOK
    /\ Exclusive
    /\ \A t \in Threads : HeldInvariant(t)
    /\ QueuedInvariant
=============================================================================
