---------------------------- MODULE MCStateLocks ----------------------------
(***************************************************************************)
(* The programs of ServerState on the locks of RwLocks. StateLocks.cfg:    *)
(* the tick loop without its autosave, a session with every operation, and *)
(* the console, which may reset the world or remove a player.              *)
(* StateLocksAutosave.cfg: the tick loop autosaves beside one session.     *)
(***************************************************************************)
EXTENDS RwLocks, StateLocks, TLC

CONSTANTS tick, session, console

SomeThreads == {tick, session, console}
SessionOperations == DOMAIN StateProgram \ {"tick", "autosave", "repair_world"}
SomeMay ==
    [t \in SomeThreads |-> CASE t = tick -> {"tick"}
                             [] t = session -> SessionOperations
                             [] OTHER -> {"repair_world", "remove_player"}]
AutosaveMay == [SomeMay EXCEPT ![tick] = {"tick", "autosave"}, ![console] = {}]
SomeOperations == DOMAIN StateProgram

\* A definition that a .cfg names is evaluated at every use, one that it
\* reaches through another only once.
ThreadsValue == SomeThreads
OperationsValue == SomeOperations
LocksValue == StateLockNames
ProgramValue == StateProgram
MayValue == SomeMay
AutosaveMayValue == AutosaveMay
=============================================================================
