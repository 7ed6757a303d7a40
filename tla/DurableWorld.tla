---------------------------- MODULE DurableWorld ----------------------------
(***************************************************************************)
(* What world-save.json and its backup promise, whatever files implement   *)
(* it: a server that starts loads one well-defined world, that world is    *)
(* replaced only by a snapshot a save was writing, in one step, a save     *)
(* that reports success has replaced it, one that reports failure has not  *)
(* (except the reset of the world, whose last step follows the             *)
(* replacement), and a crash changes nothing.                              *)
(***************************************************************************)
CONSTANTS Savers,     \* the threads that call ServerState::save
          Resetters,  \* those among them that reset the world (repair)
          Worlds,     \* the values a snapshot of the world can take
          FreshWorld  \* the world generated from the configured seed

VARIABLES up,       \* the server process runs
          world,    \* the world in memory
          stored,   \* what a start would load: a world, "fresh" or "refused"
          history,  \* every world a save has put in place
          attempt,  \* how far the save of each saver is
          snapshot, \* the world each saver is writing
          outcome   \* what the last save of each saver returned

vars == <<up, world, stored, history, attempt, snapshot, outcome>>

Startable(s) == IF s = "fresh" THEN FreshWorld ELSE s

Init ==
    /\ up = FALSE
    /\ world = FreshWorld
    /\ stored = "fresh"
    /\ history = {}
    /\ attempt = [w \in Savers |-> "none"]
    /\ snapshot = [w \in Savers |-> FreshWorld]
    /\ outcome = [w \in Savers |-> "none"]

\* The server starts from what is stored, and refuses to start otherwise.
Start ==
    /\ ~up
    /\ stored # "refused"
    /\ up' = TRUE
    /\ world' = Startable(stored)
    /\ UNCHANGED <<stored, history, attempt, snapshot, outcome>>

Play(v) ==
    /\ up
    /\ world' = v
    /\ UNCHANGED <<up, stored, history, attempt, snapshot, outcome>>

\* A save begins: it takes the world as it is in memory.
Begin(w) ==
    /\ up
    /\ attempt[w] = "none"
    /\ attempt' = [attempt EXCEPT ![w] = "begun"]
    /\ snapshot' = [snapshot EXCEPT ![w] = world]
    /\ outcome' = [outcome EXCEPT ![w] = "none"]
    /\ UNCHANGED <<up, world, stored, history>>

\* The snapshot replaces what is stored, all at once, and never replaces
\* files a start would refuse.
Replace(w) ==
    /\ stored # "refused"
    /\ stored' = snapshot[w]
    /\ history' = history \union {snapshot[w]}

Commit(w) ==
    /\ up
    /\ attempt[w] = "begun"
    /\ Replace(w)
    /\ attempt' = [attempt EXCEPT ![w] = "written"]
    /\ UNCHANGED <<up, world, snapshot, outcome>>

\* The save reports success, possibly in the very step that commits.
Succeed(w) ==
    /\ up
    /\ \/ attempt[w] = "written" /\ UNCHANGED <<stored, history>>
       \/ attempt[w] = "begun" /\ Replace(w)
    /\ attempt' = [attempt EXCEPT ![w] = "none"]
    /\ outcome' = [outcome EXCEPT ![w] = "ok"]
    /\ UNCHANGED <<up, world, snapshot>>

\* The save reports failure, before it has replaced anything or, for a reset,
\* when the old backup could not be removed afterwards.
Fail(w) ==
    /\ up
    /\ \/ attempt[w] \in {"none", "begun"}
       \/ attempt[w] = "written" /\ w \in Resetters
    /\ attempt' = [attempt EXCEPT ![w] = "none"]
    /\ outcome' = [outcome EXCEPT ![w] = "failed"]
    /\ UNCHANGED <<up, world, stored, history, snapshot>>

Crash ==
    /\ up' = FALSE
    /\ world' = FreshWorld
    /\ attempt' = [w \in Savers |-> "none"]
    /\ outcome' = [w \in Savers |-> "none"]
    /\ snapshot' = [w \in Savers |-> FreshWorld]
    /\ UNCHANGED <<stored, history>>

\* Someone outside the server damages the files while nothing is being saved:
\* a start then loads a world saved earlier, or refuses.
Tamper ==
    /\ \A w \in Savers : attempt[w] = "none"
    /\ stored' \in history \union {"refused"}
    /\ UNCHANGED <<up, world, history, attempt, snapshot, outcome>>

Next ==
    \/ Start
    \/ \E v \in Worlds : Play(v)
    \/ \E w \in Savers : Begin(w) \/ Commit(w) \/ Succeed(w) \/ Fail(w)
    \/ Crash
    \/ Tamper

Spec == Init /\ [][Next]_vars
=============================================================================
