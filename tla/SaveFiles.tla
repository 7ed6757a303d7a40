------------------------------ MODULE SaveFiles ------------------------------
(***************************************************************************)
(* The files of the world save and the code that reads and replaces them   *)
(* (carbon-server/src/state.rs): load_save_file, write_world_save,         *)
(* atomic_write, the part of repair_world that saves, and the kill of the  *)
(* process between any two file operations. A save is a program of file    *)
(* operations, one action each; any of them may fail, which ends the save. *)
(*                                                                         *)
(* Abstractions: a world is one value, its snapshot is taken in one step;  *)
(* a file holds a world, some damaged text, or something a start refuses;  *)
(* the file operations that completed survive a kill of the process (the   *)
(* loss of power is not modelled).                                         *)
(***************************************************************************)
CONSTANTS Autosavers, \* the threads that save the world as it is
          Resetters,  \* the threads that reset the world and save it (repair)
          Worlds,     \* the values a snapshot of the world can take
          FreshWorld, \* the world generated from the configured seed
          Garbage     \* the damaged texts someone may leave in a file

Savers == Autosavers \union Resetters

\* A readable header of another version, and a file that cannot be read or is
\* larger than the limit: neither is ever replaced by the backup.
Foreign == {"incompatible", "unreadable"}
\* Text that does not decode: planted damage, or the file of an unfinished save.
Malformed == Garbage \union {"torn"}
Contents == Worlds \union Malformed \union Foreign \union {"absent"}

ASSUME SaveFilesAssumption ==
    /\ FreshWorld \in Worlds
    /\ Worlds \intersect Garbage = {}
    /\ (Worlds \union Garbage) \intersect
         {"torn", "absent", "fresh", "refused", "incompatible", "unreadable"} = {}

VARIABLES up,        \* the server process runs
          world,     \* the world in memory
          primary,   \* content of world-save.json
          backup,    \* content of world-save.json.bak
          temporary, \* content of world-save.json.tmp
          evidence,  \* contents of the world-save.json.corrupt-<uuid> files
          resetting, \* the savers whose save ends a reset of the world
          pc,        \* the next file operation of each saver
          data,      \* the encoded world each saver writes
          handle,    \* the name under which each saver's open file now is
          outcome,   \* what the last save of each saver returned
          committed, \* history: every world renamed into place
          planted    \* history: every content put there from outside

files == <<primary, backup, temporary, evidence>>
vars == <<up, world, files, resetting, pc, data, handle, outcome, committed, planted>>

Steps == {"idle", "reset", "recheck", "inspect", "quarantine", "open", "write",
          "rotate", "unlink", "move", "commit", "forget"}
Names == {"primary", "backup", "temporary", "gone"}

TypeOK ==
    /\ up \in BOOLEAN
    /\ world \in Worlds
    /\ primary \in Contents
    /\ backup \in Contents
    /\ temporary \in Worlds \union {"torn", "absent"}
    /\ evidence \subseteq Contents
    /\ resetting \subseteq Resetters
    /\ pc \in [Savers -> Steps]
    /\ data \in [Savers -> Worlds]
    /\ handle \in [Savers -> Names]
    /\ outcome \in [Savers -> {"none", "ok", "failed"}]
    /\ committed \subseteq Worlds
    /\ planted \subseteq Garbage \union Foreign

Exists(content) == content # "absent"

\* load_save_file: what the two files are worth. A primary that decodes wins;
\* one that is damaged or missing leaves it to the backup; anything else is an
\* error, whatever the backup holds.
FromBackup(b) == IF b \in Worlds THEN b ELSE "refused"
Load(p, b) ==
    CASE p \in Worlds -> p
      [] p \in Malformed -> FromBackup(b)
      [] p = "absent" -> IF Exists(b) THEN FromBackup(b) ELSE "fresh"
      [] OTHER -> "refused"

Stored == Load(primary, backup)

Init ==
    /\ up = FALSE
    /\ world = FreshWorld
    /\ primary = "absent"
    /\ backup = "absent"
    /\ temporary = "absent"
    /\ evidence = {}
    /\ resetting = {}
    /\ pc = [w \in Savers |-> "idle"]
    /\ data = [w \in Savers |-> FreshWorld]
    /\ handle = [w \in Savers |-> "gone"]
    /\ outcome = [w \in Savers |-> "none"]
    /\ committed = {}
    /\ planted = {}
-----------------------------------------------------------------------------
\* with_operator_file calls load_save_file; an error ends the start.
Start ==
    /\ ~up
    /\ Stored # "refused"
    /\ up' = TRUE
    /\ world' = IF Stored = "fresh" THEN FreshWorld ELSE Stored
    /\ UNCHANGED <<files, resetting, pc, data, handle, outcome, committed, planted>>

Play(v) ==
    /\ up
    /\ world' = v
    /\ UNCHANGED <<up, files, resetting, pc, data, handle, outcome, committed, planted>>

\* repair_world replaces the world in memory before it saves.
Reset(w) ==
    /\ up
    /\ pc[w] = "idle"
    /\ world' = FreshWorld
    /\ resetting' = resetting \union {w}
    /\ pc' = [pc EXCEPT ![w] = "reset"]
    /\ UNCHANGED <<up, files, data, handle, outcome, committed, planted>>

\* save collects and encodes the world, then calls write_world_save.
TakeSnapshot(w) ==
    /\ up
    /\ pc[w] = "reset" \/ (pc[w] = "idle" /\ w \in Autosavers)
    /\ data' = [data EXCEPT ![w] = world]
    /\ outcome' = [outcome EXCEPT ![w] = "none"]
    /\ pc' = [pc EXCEPT ![w] = "recheck"]
    /\ UNCHANGED <<up, world, files, resetting, handle, committed, planted>>

\* A saver goes from one operation of its program to the next.
Goto(w, from, to) ==
    /\ pc[w] = from
    /\ pc' = [pc EXCEPT ![w] = to]

\* save, or repair_world, returns.
Return(w, result) ==
    /\ pc' = [pc EXCEPT ![w] = "idle"]
    /\ resetting' = resetting \ {w}
    /\ outcome' = [outcome EXCEPT ![w] = result]

Unchanged(w) == UNCHANGED <<resetting, data, outcome, committed, planted, up, world>>

\* The names of the open files after a file is renamed: the handle follows its
\* file, and a file that was replaced keeps its handle but loses its name.
Renamed(from, to) ==
    [w \in Savers |-> CASE handle[w] = from -> to
                       [] handle[w] = to -> "gone"
                       [] OTHER -> handle[w]]
-----------------------------------------------------------------------------
\* write_world_save starts by loading the files again; the save fails (Fail)
\* where a start would.
Recheck_Skipped(w) == \* mutant: the save does not load the files first
    /\ Goto(w, "recheck", "inspect")
    /\ UNCHANGED <<files, handle>> /\ Unchanged(w)

Recheck(w) ==
    /\ Goto(w, "recheck", "inspect")
    /\ Stored # "refused"
    /\ UNCHANGED <<files, handle>> /\ Unchanged(w)

\* It reads the primary once more: only one that does not decode is set aside.
Inspect_Trusting(w) == \* mutant: a primary that does not decode is rotated too
    /\ Goto(w, "inspect", "open")
    /\ UNCHANGED <<files, handle>> /\ Unchanged(w)

Inspect(w) ==
    /\ primary # "unreadable"
    /\ Goto(w, "inspect", IF primary \in Worlds \union {"absent"} THEN "open"
                                                                ELSE "quarantine")
    /\ UNCHANGED <<files, handle>> /\ Unchanged(w)

\* The damaged primary is kept under a unique name.
Quarantine_Deleting(w) == \* mutant: the damaged primary is removed
    /\ Goto(w, "quarantine", "open")
    /\ primary' = "absent"
    /\ handle' = Renamed("primary", "gone")
    /\ UNCHANGED <<backup, temporary, evidence>> /\ Unchanged(w)

Quarantine(w) ==
    /\ Goto(w, "quarantine", "open")
    /\ Exists(primary)
    /\ evidence' = evidence \union {primary}
    /\ primary' = "absent"
    /\ handle' = Renamed("primary", "gone")
    /\ UNCHANGED <<backup, temporary>> /\ Unchanged(w)

\* atomic_write creates or truncates the temporary file ...
OpenTemporary(w) ==
    /\ Goto(w, "open", "write")
    /\ temporary' = "torn"
    /\ handle' = [handle EXCEPT ![w] = "temporary"]
    /\ UNCHANGED <<primary, backup, evidence>> /\ Unchanged(w)

\* ... writes and syncs it, under whatever name it now has; two savers that
\* have the same file open may leave a mixture of their texts ...
Written(w, name, old) ==
    IF handle[w] # name THEN {old}
    ELSE {data[w]} \union (IF \E v \in Savers \ {w} : handle[v] = name
                           THEN {"torn"} ELSE {})

WriteTemporary(w) ==
    /\ Goto(w, "write", "rotate")
    /\ temporary' \in Written(w, "temporary", temporary)
    /\ primary' \in Written(w, "primary", primary)
    /\ backup' \in Written(w, "backup", backup)
    /\ handle' = [handle EXCEPT ![w] = "gone"]
    /\ UNCHANGED evidence /\ Unchanged(w)

\* ... looks whether there is a primary to keep, and an older backup in its way ...
Rotate_OverBackup(w) == \* mutant: the older backup is not removed first
    /\ \/ ~Exists(primary) /\ Goto(w, "rotate", "commit")
       \/ Exists(primary) /\ Goto(w, "rotate", "move")
    /\ UNCHANGED <<files, handle>> /\ Unchanged(w)

Rotate(w) ==
    /\ \/ ~Exists(primary) /\ Goto(w, "rotate", "commit")
       \/ Exists(primary) /\ Exists(backup) /\ Goto(w, "rotate", "unlink")
       \/ Exists(primary) /\ ~Exists(backup) /\ Goto(w, "rotate", "move")
    /\ UNCHANGED <<files, handle>> /\ Unchanged(w)

\* ... removes the older backup ...
RemoveBackup(w) ==
    /\ Goto(w, "unlink", "move")
    /\ Exists(backup)
    /\ backup' = "absent"
    /\ handle' = Renamed("backup", "gone")
    /\ UNCHANGED <<primary, temporary, evidence>> /\ Unchanged(w)

\* ... makes the primary the backup ...
MoveAside_Removing(w) == \* mutant: the primary is removed, not made the backup
    /\ Goto(w, "move", "commit")
    /\ primary' = "absent"
    /\ handle' = Renamed("primary", "gone")
    /\ UNCHANGED <<backup, temporary, evidence>> /\ Unchanged(w)

MoveAside(w) ==
    /\ Goto(w, "move", "commit")
    /\ Exists(primary)
    /\ backup' = primary
    /\ primary' = "absent"
    /\ handle' = Renamed("primary", "backup")
    /\ UNCHANGED <<temporary, evidence>> /\ Unchanged(w)

\* ... and renames the temporary file into place. A reset goes on.
Commit(w) ==
    /\ pc[w] = "commit"
    /\ Exists(temporary)
    /\ primary' = temporary
    /\ temporary' = "absent"
    /\ committed' = committed \union {data[w]}
    /\ handle' = Renamed("temporary", "primary")
    /\ IF w \in resetting
       THEN Goto(w, "commit", "forget") /\ UNCHANGED outcome
       ELSE Goto(w, "commit", "idle") /\ outcome' = [outcome EXCEPT ![w] = "ok"]
    /\ UNCHANGED <<backup, evidence, resetting, data, planted, up, world>>

\* repair_world removes the backup of the world it replaced.
Forget(w) ==
    /\ pc[w] = "forget"
    /\ backup' = "absent"
    /\ handle' = Renamed("backup", "gone")
    /\ Return(w, "ok")
    /\ UNCHANGED <<primary, temporary, evidence, data, committed, planted, up, world>>

\* A file operation fails, or a check refuses, and save returns the error.
\* When the last rename fails the backup is put back, if that succeeds.
Fail_RollingBack(w) == \* mutant: every failure puts the backup back
    /\ pc[w] \notin {"idle", "reset"}
    /\ Return(w, "failed")
    /\ IF Exists(backup)
       THEN primary' = backup /\ backup' = "absent"
       ELSE UNCHANGED <<primary, backup>>
    /\ handle' = [handle EXCEPT ![w] = "gone"]
    /\ UNCHANGED <<temporary, evidence, data, committed, planted, up, world>>

Fail(w) ==
    /\ pc[w] \notin {"idle", "reset"}
    /\ Return(w, "failed")
    /\ \/ /\ handle' = [handle EXCEPT ![w] = "gone"]
          /\ UNCHANGED <<primary, backup>>
       \/ /\ pc[w] = "commit" /\ Exists(backup) /\ ~Exists(primary)
          /\ primary' = backup
          /\ backup' = "absent"
          /\ handle' = Renamed("backup", "primary")
    /\ UNCHANGED <<temporary, evidence, data, committed, planted, up, world>>
-----------------------------------------------------------------------------
\* The process is killed; the files stay as the completed operations left them.
Crash ==
    /\ up
    /\ up' = FALSE
    /\ world' = FreshWorld
    /\ resetting' = {}
    /\ pc' = [w \in Savers |-> "idle"]
    /\ data' = [w \in Savers |-> FreshWorld]
    /\ handle' = [w \in Savers |-> "gone"]
    /\ outcome' = [w \in Savers |-> "none"]
    /\ UNCHANGED <<files, committed, planted>>

\* From outside, while nothing is being saved, a good file is damaged or
\* replaced by one this server does not read.
Damage(content) ==
    /\ \A w \in Savers : pc[w] \in {"idle", "reset"}
    /\ Stored # "refused"
    /\ content \notin planted
    /\ planted' = planted \union {content}
    /\ \/ primary \in Worlds /\ primary' = content /\ UNCHANGED backup
       \/ backup \in Worlds /\ backup' = content /\ UNCHANGED primary
    /\ UNCHANGED <<up, world, temporary, evidence, resetting, pc, data, handle,
                   outcome, committed>>

SaveStep(w) ==
    \/ Recheck(w) \/ Inspect(w) \/ Quarantine(w)
    \/ OpenTemporary(w) \/ WriteTemporary(w) \/ Rotate(w)
    \/ RemoveBackup(w) \/ MoveAside(w) \/ Commit(w) \/ Forget(w)
    \/ Fail(w)

Next ==
    \/ Start
    \/ \E v \in Worlds : Play(v)
    \/ \E w \in Resetters : Reset(w)
    \/ \E w \in Savers : TakeSnapshot(w) \/ SaveStep(w)
    \/ Crash
    \/ \E content \in Garbage \union Foreign : Damage(content)

Spec == Init /\ [][Next]_vars
-----------------------------------------------------------------------------
\* As long as nobody damages the files, a start finds a world that a save put
\* in place, or the fresh world before the first save: a kill of the process
\* between any two operations of write_world_save and atomic_write, or the
\* failure of any of them, neither loses the world nor makes a start refuse.
Recoverable ==
    planted = {} => IF committed = {} THEN Stored = "fresh"
                                      ELSE Stored \in committed

\* No operation of a save leaves the directory without a world that decodes
\* when there was one: the older backup goes only while the primary is good,
\* and a damaged primary is never rotated over the good backup.
GoodCopyRemains ==
    [][(primary \in Worlds \/ backup \in Worlds) /\ planted' = planted
         => (primary' \in Worlds \/ backup' \in Worlds)]_vars

\* A damaged primary never disappears: what takes its place does so after the
\* damaged file got a quarantine name (write_world_save).
EvidenceKept ==
    [][(primary \in Garbage /\ primary' # primary) => primary \in evidence']_vars

\* Files a start would refuse (a version this server does not know, a file that
\* cannot be read, damage without a usable backup) are left as they are by a
\* running server too, whatever it tries to save.
RefusedUntouched == [][Stored = "refused" => UNCHANGED files]_vars

\* Why the above holds when saves do not overlap: what each saver relies on
\* at its next operation, and what undamaged files hold. It is inductive under SingleSaver.
SingleSaver == \A v, w \in Savers : v = w

PhaseInvariant(w) ==
    /\ pc[w] # "idle" => up
    /\ handle[w] = IF pc[w] = "write" THEN "temporary" ELSE "gone"
    /\ pc[w] = "inspect" => Stored # "refused"
    /\ pc[w] = "quarantine" => primary \in Malformed /\ backup \in Worlds
    /\ pc[w] \in {"open", "write", "rotate"} =>
         \/ primary \in Worlds
         \/ primary = "absent" /\ backup \in Worlds \union {"absent"}
    /\ pc[w] \in {"rotate", "unlink", "move", "commit"} => temporary = data[w]
    /\ pc[w] \in {"unlink", "move"} => primary \in Worlds
    /\ pc[w] = "move" => backup = "absent"
    /\ pc[w] = "commit" => primary = "absent" /\ backup \in Worlds \union {"absent"}
    /\ pc[w] = "forget" => primary = data[w] /\ w \in resetting

FilesInvariant ==
    /\ {primary, backup} \intersect Worlds \subseteq committed
    /\ planted = {} => /\ {primary, backup} \subseteq Worlds \union {"absent"}
                       /\ committed # {} => primary # "absent" \/ backup # "absent"

SaveInvariant ==
    /\ TypeOK
    /\ \A w \in Savers : PhaseInvariant(w)
    /\ FilesInvariant

\* How far each save is, for a reader of the files: nothing replaced yet, or
\* the snapshot in place.
Attempt == [w \in Savers |-> IF pc[w] \in {"idle", "reset"} THEN "none"
                             ELSE IF pc[w] = "forget" THEN "written" ELSE "begun"]

Durable == INSTANCE DurableWorld WITH
    stored <- Stored, history <- committed, snapshot <- data, attempt <- Attempt

\* save behaves as one atomic replacement of the stored world: a start loads
\* the world of the last save that reached the last rename, a save that
\* returned an error left the stored world alone, and a crash changes nothing.
ImplementsDurableWorld == Durable!Spec
=============================================================================
