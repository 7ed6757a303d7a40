-------------------------- MODULE SaveFilesProofs --------------------------
(***************************************************************************)
(* What is proved of what the server keeps, in two parts.                  *)
(*                                                                         *)
(* The files of a save (SaveFiles), for every set of worlds and of damaged *)
(* texts, as long as saves do not overlap (SingleSaver). The inductive     *)
(* invariant is SaveInvariant of SaveFiles.                                *)
(*                                                                         *)
(* The tasks of the process (Serving), the last of whose acts is the final *)
(* save: ServingInvariant is inductive for any number of clients,          *)
(* addresses and slots and for any limits. The connections are followed    *)
(* one by one: what a step does to the connection of one client leaves the *)
(* others as they are, so the counts of the admissions change with it by   *)
(* one, and the slot of a login is nobody else's.                          *)
(***************************************************************************)
EXTENDS SaveFiles, Tasks, FiniteSetTheorems, TLAPS

USE DEF Foreign, Malformed, Contents, Steps, Names

\* The initial directory is empty and no save runs.
LEMMA InitInvariant == Init => SaveInvariant
  BY SaveFilesAssumption
  DEF Init, SaveInvariant, TypeOK, PhaseInvariant, FilesInvariant

\* A file load_save_file accepts is a world, or leaves it to a good backup.
LEMMA LoadCases ==
  ASSUME primary \in Contents, backup \in Contents
  PROVE  /\ primary \in Worlds => Stored = primary
         /\ primary \in Malformed /\ backup \in Worlds => Stored = backup
         /\ primary \in Malformed /\ backup \notin Worlds => Stored = "refused"
         /\ primary = "absent" /\ backup \in Worlds => Stored = backup
         /\ primary = "absent" /\ backup = "absent" => Stored = "fresh"
         /\ primary = "absent" /\ backup \notin Worlds \union {"absent"}
              => Stored = "refused"
         /\ primary \in Foreign => Stored = "refused"
  BY SaveFilesAssumption DEF Stored, Load, FromBackup, Exists

\* Types are kept by every step, whoever saves.
LEMMA TypeStep == TypeOK /\ [Next]_vars => TypeOK'
<1> SUFFICES ASSUME TypeOK, [Next]_vars PROVE TypeOK'
  OBVIOUS
<1> USE SaveFilesAssumption DEF TypeOK, files
<1>1. CASE Start
  BY <1>1 DEF Start, Stored, Load, FromBackup, Exists
<1>2. ASSUME NEW v \in Worlds, Play(v) PROVE TypeOK'
  BY <1>2 DEF Play
<1>3. ASSUME NEW w \in Resetters, Reset(w) PROVE TypeOK'
  BY <1>3 DEF Reset, Savers
<1>4. ASSUME NEW w \in Savers, TakeSnapshot(w) PROVE TypeOK'
  BY <1>4 DEF TakeSnapshot
<1>5. ASSUME NEW w \in Savers, SaveStep(w) PROVE TypeOK'
  <2> USE DEF Goto, Unchanged, Renamed
  <2>1. CASE Recheck(w)
    BY <2>1 DEF Recheck
  <2>2. CASE Inspect(w)
    BY <2>2 DEF Inspect
  <2>3. CASE Quarantine(w)
    BY <2>3 DEF Quarantine
  <2>4. CASE OpenTemporary(w)
    BY <2>4 DEF OpenTemporary
  <2>5. CASE WriteTemporary(w)
    BY <2>5 DEF WriteTemporary, Written
  <2>6. CASE Rotate(w)
    BY <2>6 DEF Rotate
  <2>7. CASE RemoveBackup(w)
    BY <2>7 DEF RemoveBackup
  <2>8. CASE MoveAside(w)
    BY <2>8 DEF MoveAside
  <2>9. CASE Commit(w)
    BY <2>9 DEF Commit, Exists
  <2>10. CASE Forget(w)
    BY <2>10 DEF Forget, Return
  <2>11. CASE Fail(w)
    BY <2>11 DEF Fail, Return
  <2>12. QED
    BY <1>5, <2>1, <2>2, <2>3, <2>4, <2>5, <2>6, <2>7, <2>8, <2>9, <2>10, <2>11
    DEF SaveStep
<1>6. CASE Crash
  BY <1>6 DEF Crash
<1>7. ASSUME NEW c \in Garbage \union Foreign, Damage(c) PROVE TypeOK'
  BY <1>7 DEF Damage
<1>8. CASE UNCHANGED vars
  BY <1>8 DEF vars
<1>9. QED
  BY <1>1, <1>2, <1>3, <1>4, <1>5, <1>6, <1>7, <1>8 DEF Next

\* The steps of a save keep what the phases rely on. Without another saver the
\* facts about the saver that steps are all there is to show.
LEMMA SaveStepInvariant ==
  ASSUME SingleSaver, SaveInvariant, TypeOK', NEW w \in Savers, SaveStep(w)
  PROVE  SaveInvariant'
<1> USE SaveFilesAssumption DEF SaveInvariant, TypeOK, files
<1> SUFFICES PhaseInvariant(w)' /\ FilesInvariant'
  BY DEF SingleSaver
<1>0. PhaseInvariant(w) /\ FilesInvariant
  OBVIOUS
<1> USE DEF PhaseInvariant, FilesInvariant, Goto, Unchanged, Renamed, Exists
<1>1. CASE Recheck(w)
  BY <1>0, <1>1 DEF Recheck, Stored
<1>2. CASE Inspect(w)
  BY <1>0, <1>2, LoadCases DEF Inspect
<1>3. CASE Quarantine(w)
  BY <1>0, <1>3 DEF Quarantine
<1>4. CASE OpenTemporary(w)
  BY <1>0, <1>4 DEF OpenTemporary
<1>5. CASE WriteTemporary(w)
  BY <1>0, <1>5 DEF WriteTemporary, Written, SingleSaver
<1>6. CASE Rotate(w)
  BY <1>0, <1>6 DEF Rotate
<1>7. CASE RemoveBackup(w)
  BY <1>0, <1>7 DEF RemoveBackup
<1>8. CASE MoveAside(w)
  BY <1>0, <1>8 DEF MoveAside
<1>9. CASE Commit(w)
  BY <1>0, <1>9 DEF Commit
<1>10. CASE Forget(w)
  BY <1>0, <1>10 DEF Forget, Return
<1>11. CASE Fail(w)
  BY <1>0, <1>11 DEF Fail, Return
<1>12. QED
  BY <1>1, <1>2, <1>3, <1>4, <1>5, <1>6, <1>7, <1>8, <1>9, <1>10, <1>11
  DEF SaveStep

\* Every step keeps the invariant.
LEMMA InvariantStep ==
  ASSUME SingleSaver
  PROVE  SaveInvariant /\ [Next]_vars => SaveInvariant'
<1> SUFFICES ASSUME SaveInvariant, [Next]_vars PROVE SaveInvariant'
  OBVIOUS
<1> USE SaveFilesAssumption
<1>t. TypeOK'
  BY TypeStep DEF SaveInvariant
<1> USE DEF SaveInvariant, files
<1>1. CASE Start
  BY <1>1, <1>t DEF Start, PhaseInvariant, FilesInvariant, Stored
<1>2. ASSUME NEW v \in Worlds, Play(v) PROVE SaveInvariant'
  BY <1>2, <1>t DEF Play, PhaseInvariant, FilesInvariant, Stored
<1>3. ASSUME NEW w \in Resetters, Reset(w) PROVE SaveInvariant'
  BY <1>3, <1>t DEF Reset, PhaseInvariant, FilesInvariant, Stored, SingleSaver,
                    Savers, TypeOK
<1>4. ASSUME NEW w \in Savers, TakeSnapshot(w) PROVE SaveInvariant'
  BY <1>4, <1>t DEF TakeSnapshot, PhaseInvariant, FilesInvariant, Stored,
                    SingleSaver, TypeOK
<1>5. ASSUME NEW w \in Savers, SaveStep(w) PROVE SaveInvariant'
  BY <1>5, <1>t, SaveStepInvariant
<1>6. CASE Crash
  BY <1>6, <1>t DEF Crash, PhaseInvariant, FilesInvariant, TypeOK
<1>7. ASSUME NEW c \in Garbage \union Foreign, Damage(c) PROVE SaveInvariant'
  BY <1>7, <1>t DEF Damage, PhaseInvariant, FilesInvariant, TypeOK
<1>8. CASE UNCHANGED vars
  BY <1>8, <1>t DEF vars, PhaseInvariant, FilesInvariant, Stored
<1>9. QED
  BY <1>1, <1>2, <1>3, <1>4, <1>5, <1>6, <1>7, <1>8 DEF Next

\* Every variable keeps its type, however many savers overlap.
THEOREM TypeCorrect == Spec => []TypeOK
<1>1. Init => TypeOK
  BY InitInvariant DEF SaveInvariant
<1>2. QED
  BY <1>1, TypeStep, PTL DEF Spec

\* What a save relies on at each of its operations, and what the files hold,
\* is so in every state as long as saves do not overlap.
THEOREM SaveInvariantHolds ==
  ASSUME SingleSaver
  PROVE  Spec => []SaveInvariant
  BY InitInvariant, InvariantStep, PTL DEF Spec

\* The invariant gives what a start finds.
THEOREM RecoverableHolds ==
  ASSUME SingleSaver
  PROVE  Spec => []Recoverable
<1>1. SaveInvariant => Recoverable
  BY LoadCases, SaveFilesAssumption
  DEF SaveInvariant, FilesInvariant, Recoverable, TypeOK
<1>2. QED
  BY <1>1, SaveInvariantHolds, PTL

-----------------------------------------------------------------------------
(***************************************************************************)
(* What no operation does to the files. The phase of the saver says which  *)
(* of the two files is good when the other one goes.                       *)
(***************************************************************************)

\* The operations of a save, each with what it does to the files.
LEMMA SaveStepFiles ==
  ASSUME SaveInvariant, TypeOK', NEW w \in Savers, SaveStep(w)
  PROVE  /\ primary \in Worlds \/ backup \in Worlds => primary' \in Worlds \/ backup' \in Worlds
         /\ primary \in Garbage /\ primary' # primary => primary \in evidence'
         /\ Stored = "refused" => UNCHANGED files
<1> USE SaveFilesAssumption DEF SaveInvariant, TypeOK, files, PhaseInvariant, Exists
<1>0. PhaseInvariant(w)
  OBVIOUS
<1> USE LoadCases, <1>0 DEF Goto, Unchanged
<1>1. CASE Recheck(w)
  BY <1>1 DEF Recheck
<1>2. CASE Inspect(w)
  BY <1>2 DEF Inspect
<1>3. CASE Quarantine(w)
  BY <1>3 DEF Quarantine
<1>4. CASE OpenTemporary(w)
  BY <1>4 DEF OpenTemporary
<1>5. CASE WriteTemporary(w)
  BY <1>5 DEF WriteTemporary, Written
<1>6. CASE Rotate(w)
  BY <1>6 DEF Rotate
<1>7. CASE RemoveBackup(w)
  BY <1>7 DEF RemoveBackup
<1>8. CASE MoveAside(w)
  BY <1>8 DEF MoveAside
<1>9. CASE Commit(w)
  BY <1>9 DEF Commit
<1>10. CASE Forget(w)
  BY <1>10 DEF Forget
<1>11. CASE Fail(w)
  BY <1>11 DEF Fail
<1>12. QED
  BY <1>1, <1>2, <1>3, <1>4, <1>5, <1>6, <1>7, <1>8, <1>9, <1>10, <1>11 DEF SaveStep

\* Every step. Only a save and damage change the primary or the backup.
LEMMA StepFiles ==
  ASSUME SaveInvariant, TypeOK', [Next]_vars
  PROVE  /\ \/ UNCHANGED files
            \/ \E w \in Savers : SaveStep(w)
            \/ \E c \in Garbage \union Foreign : Damage(c)
         /\ (\E c \in Garbage \union Foreign : Damage(c)) =>
                planted' # planted /\ Stored # "refused" /\ (primary \in Garbage => primary' = primary)
<1>1. \/ UNCHANGED files
      \/ \E w \in Savers : SaveStep(w)
      \/ \E c \in Garbage \union Foreign : Damage(c)
  BY DEF Next, Start, Play, Reset, TakeSnapshot, Crash, vars, files
<1>2. ASSUME NEW c \in Garbage \union Foreign, Damage(c)
      PROVE  planted' # planted /\ Stored # "refused" /\ (primary \in Garbage => primary' = primary)
  BY <1>2, SaveFilesAssumption DEF Damage
<1>3. QED
  BY <1>1, <1>2

\* No operation of a save takes the last world that decodes.
THEOREM GoodCopyRemainsAlways ==
  ASSUME SingleSaver
  PROVE  Spec => GoodCopyRemains
<1>1. ASSUME SaveInvariant, TypeOK', [Next]_vars
      PROVE  [(primary \in Worlds \/ backup \in Worlds) /\ planted' = planted
              => (primary' \in Worlds \/ backup' \in Worlds)]_vars
  BY <1>1, StepFiles, SaveStepFiles DEF files
<1>2. SaveInvariant => TypeOK
  BY DEF SaveInvariant
<1>3. QED
  BY <1>1, <1>2, SaveInvariantHolds, PTL DEF Spec, GoodCopyRemains

\* A damaged primary is replaced only after it got a quarantine name.
THEOREM EvidenceKeptAlways ==
  ASSUME SingleSaver
  PROVE  Spec => EvidenceKept
<1>1. ASSUME SaveInvariant, TypeOK', [Next]_vars
      PROVE  [(primary \in Garbage /\ primary' # primary) => primary \in evidence']_vars
  BY <1>1, StepFiles, SaveStepFiles DEF files
<1>2. SaveInvariant => TypeOK
  BY DEF SaveInvariant
<1>3. QED
  BY <1>1, <1>2, SaveInvariantHolds, PTL DEF Spec, EvidenceKept

\* Files that a start would refuse are left as they are.
THEOREM RefusedUntouchedAlways ==
  ASSUME SingleSaver
  PROVE  Spec => RefusedUntouched
<1>1. ASSUME SaveInvariant, TypeOK', [Next]_vars
      PROVE  [Stored = "refused" => UNCHANGED files]_vars
  BY <1>1, StepFiles, SaveStepFiles
<1>2. SaveInvariant => TypeOK
  BY DEF SaveInvariant
<1>3. QED
  BY <1>1, <1>2, SaveInvariantHolds, PTL DEF Spec, RefusedUntouched

-----------------------------------------------------------------------------
(***************************************************************************)
(* The files implement DurableWorld: Stored changes only when the last     *)
(* rename of a save puts the snapshot in place.                            *)
(***************************************************************************)

LEMMA InitRefines == Init => Durable!Init
  BY SaveFilesAssumption
  DEF Init, Durable!Init, Stored, Load, Exists, Attempt

\* A step that moves one saver from one phase to another moves its attempt only.
LEMMA AttemptStep ==
  ASSUME TypeOK, NEW w \in Savers, NEW to \in Steps,
         pc' = [pc EXCEPT ![w] = to]
  PROVE  Attempt' = [Attempt EXCEPT ![w] =
             IF to \in {"idle", "reset"} THEN "none"
             ELSE IF to = "forget" THEN "written" ELSE "begun"]
  BY DEF TypeOK, Attempt

\* The operations before the last rename, and those of a failed save, leave
\* what a start loads as it is.
LEMMA StoredStep ==
  ASSUME SaveInvariant, TypeOK', NEW w \in Savers, SaveStep(w), ~Commit(w)
  PROVE  Stored' = Stored
<1> USE SaveFilesAssumption DEF SaveInvariant, TypeOK, files, PhaseInvariant
<1>0. PhaseInvariant(w)
  OBVIOUS
<1>l. /\ primary' \in Worlds => Stored' = primary'
      /\ primary' = "absent" /\ backup' \in Worlds => Stored' = backup'
      /\ primary' = "absent" /\ backup' = "absent" => Stored' = "fresh"
  BY DEF Stored, Load, FromBackup, Exists
<1> USE LoadCases, <1>0, <1>l DEF Goto, Unchanged, Exists
<1>1. CASE UNCHANGED <<primary, backup>>
  BY <1>1 DEF Stored
<1>2. CASE Quarantine(w)
  BY <1>2 DEF Quarantine
<1>3. CASE WriteTemporary(w)
  BY <1>3, <1>1 DEF WriteTemporary, Written
<1>4. CASE RemoveBackup(w)
  BY <1>4 DEF RemoveBackup
<1>5. CASE MoveAside(w)
  BY <1>5 DEF MoveAside
<1>6. CASE Forget(w)
  BY <1>6 DEF Forget
<1>7. CASE Fail(w)
  BY <1>7, <1>1 DEF Fail
<1>8. QED
  BY <1>1, <1>2, <1>3, <1>4, <1>5, <1>6, <1>7
  DEF SaveStep, Recheck, Inspect, OpenTemporary, Rotate

LEMMA SaveStepRefines ==
  ASSUME SaveInvariant, TypeOK', NEW w \in Savers, SaveStep(w)
  PROVE  \/ UNCHANGED <<up, world, Stored, committed, Attempt, data, outcome>>
         \/ Durable!Commit(w) \/ Durable!Succeed(w) \/ Durable!Fail(w)
<1> USE SaveFilesAssumption DEF SaveInvariant
<1>0. PhaseInvariant(w) /\ TypeOK
  OBVIOUS
<1>u. up
  BY <1>0 DEF PhaseInvariant, SaveStep, Goto, Recheck, Inspect, Quarantine,
         OpenTemporary, WriteTemporary, Rotate, RemoveBackup, MoveAside, Commit,
         Forget, Fail
<1>1. CASE Commit(w)
  <2>1. /\ primary' = data[w] /\ data[w] \in Worlds
        /\ Stored # "refused" /\ pc[w] = "commit" /\ Attempt[w] = "begun"
    BY <1>0, <1>1, LoadCases DEF Commit, PhaseInvariant, TypeOK, Attempt
  <2>2. Stored' = data[w]
    BY <2>1 DEF Stored, Load
  <2>3. CASE w \in resetting
    <3>1. Attempt' = [Attempt EXCEPT ![w] = "written"]
      BY <1>0, <1>1, <2>3, AttemptStep DEF Commit, Goto
    <3>2. Durable!Commit(w)
      BY <1>u, <1>1, <2>1, <2>2, <2>3, <3>1 DEF Commit, Durable!Commit, Durable!Replace
    <3>3. QED
      BY <3>2
  <2>4. CASE w \notin resetting
    <3>1. Attempt' = [Attempt EXCEPT ![w] = "none"]
      BY <1>0, <1>1, <2>4, AttemptStep DEF Commit, Goto
    <3>2. Durable!Succeed(w)
      BY <1>u, <1>1, <2>1, <2>2, <2>4, <3>1 DEF Commit, Durable!Succeed, Durable!Replace
    <3>3. QED
      BY <3>2
  <2>5. QED
    BY <2>3, <2>4
<1>2. CASE ~Commit(w)
  <2>1. Stored' = Stored
    BY <1>2, StoredStep
  <2>2. CASE Forget(w)
    <3>1. Attempt' = [Attempt EXCEPT ![w] = "none"] /\ Attempt[w] = "written"
      BY <1>0, <2>2, AttemptStep DEF Forget, Return, Attempt
    <3>2. QED
      BY <1>u, <2>1, <2>2, <3>1 DEF Forget, Return, Durable!Succeed
  <2>3. CASE Fail(w)
    <3>1. Attempt' = [Attempt EXCEPT ![w] = "none"]
      BY <1>0, <2>3, AttemptStep DEF Fail, Return
    <3>2. \/ Attempt[w] = "begun"
          \/ Attempt[w] = "written" /\ w \in Resetters
      BY <1>0, <2>3 DEF Fail, Attempt, PhaseInvariant, TypeOK
    <3>3. QED
      BY <1>u, <2>1, <2>3, <3>1, <3>2 DEF Fail, Return, Durable!Fail
  <2>4. CASE ~Forget(w) /\ ~Fail(w)
    <3> USE DEF Goto
    <3>1. PICK to \in Steps \ {"idle", "reset", "forget"} :
             pc' = [pc EXCEPT ![w] = to] /\ pc[w] \notin {"idle", "reset", "forget"}
      BY <1>2, <2>4 DEF SaveStep, Recheck, Inspect, Quarantine, OpenTemporary,
                        WriteTemporary, Rotate, RemoveBackup, MoveAside
    <3>2. Attempt' = [Attempt EXCEPT ![w] = "begun"] /\ Attempt[w] = "begun"
      BY <1>0, <3>1, AttemptStep DEF Attempt
    <3>3. Attempt' = Attempt
      BY <3>2 DEF Attempt
    <3>4. UNCHANGED <<up, world, committed, data, outcome>>
      BY <1>2, <2>4 DEF Unchanged, SaveStep, Recheck, Inspect, Quarantine,
                OpenTemporary, WriteTemporary, Rotate, RemoveBackup, MoveAside
    <3>5. QED
      BY <2>1, <3>3, <3>4
  <2>5. QED
    BY <2>2, <2>3, <2>4
<1>3. QED
  BY <1>1, <1>2

\* Every step of the files is a step of the durable world or changes nothing
\* of it.
LEMMA StepRefines ==
  SaveInvariant /\ TypeOK' /\ [Next]_vars => [Durable!Next]_(Durable!vars)
<1> SUFFICES ASSUME SaveInvariant, TypeOK', [Next]_vars
             PROVE  Durable!Next \/ UNCHANGED Durable!vars
  OBVIOUS
<1> USE SaveFilesAssumption DEF files
<1>0. TypeOK
  BY DEF SaveInvariant
<1>s. UNCHANGED <<primary, backup>> => Stored' = Stored
  BY DEF Stored
<1>p. UNCHANGED pc => Attempt' = Attempt
  BY DEF Attempt
<1>1. CASE Start
  BY <1>1, <1>s, <1>p DEF Start, Durable!Start, Durable!Next, Durable!Startable
<1>2. ASSUME NEW v \in Worlds, Play(v) PROVE Durable!Next
  BY <1>2, <1>s, <1>p DEF Play, Durable!Play, Durable!Next
<1>3. ASSUME NEW w \in Resetters, Reset(w) PROVE Durable!Next
  <2>1. Attempt' = Attempt
    BY <1>0, <1>3 DEF Reset, Attempt, TypeOK, Savers
  <2>2. Durable!Play(FreshWorld)
    BY <1>3, <1>s, <2>1 DEF Reset, Durable!Play
  <2>3. QED
    BY <2>2 DEF Durable!Next
<1>4. ASSUME NEW w \in Savers, TakeSnapshot(w) PROVE Durable!Next
  <2>1. Attempt[w] = "none" /\ Attempt' = [Attempt EXCEPT ![w] = "begun"]
    BY <1>0, <1>4, AttemptStep DEF TakeSnapshot, Attempt
  <2>2. Durable!Begin(w)
    BY <1>4, <1>s, <2>1 DEF TakeSnapshot, Durable!Begin
  <2>3. QED
    BY <2>2 DEF Durable!Next
<1>5. ASSUME NEW w \in Savers, SaveStep(w)
      PROVE Durable!Next \/ UNCHANGED Durable!vars
  BY <1>5, SaveStepRefines DEF Durable!Next, Durable!vars
<1>6. CASE Crash
  BY <1>6, <1>s DEF Crash, Attempt, Durable!Crash, Durable!Next
<1>7. ASSUME NEW c \in Garbage \union Foreign, Damage(c) PROVE Durable!Next
  <2>1. \A w \in Savers : Attempt[w] = "none"
    BY <1>7 DEF Damage, Attempt
  <2>2. Stored' \in committed \union {"refused"}
    BY <1>0, <1>7, LoadCases DEF Damage, SaveInvariant, FilesInvariant, TypeOK,
                                   Stored, Load, FromBackup, Exists
  <2>3. Durable!Tamper
    BY <1>7, <1>p, <2>1, <2>2 DEF Damage, Durable!Tamper
  <2>4. QED
    BY <2>3 DEF Durable!Next
<1>8. CASE UNCHANGED vars
  BY <1>8, <1>s, <1>p DEF vars, Durable!vars
<1>9. QED
  BY <1>1, <1>2, <1>3, <1>4, <1>5, <1>6, <1>7, <1>8 DEF Next

\* The save files implement the durable world.
THEOREM DurableWorldImplemented ==
  ASSUME SingleSaver
  PROVE  Spec => ImplementsDurableWorld
<1>1. SaveInvariant => TypeOK
  BY DEF SaveInvariant
<1>2. QED
  BY <1>1, InitRefines, StepRefines, SaveInvariantHolds, PTL
  DEF Spec, ImplementsDurableWorld, Durable!Spec
-----------------------------------------------------------------------------
\* The definitions of SaveFiles are not needed below.
HIDE DEF Foreign, Malformed, Contents, Steps, Names

(* From here on: Serving, whose definitions have the prefix Sv.            *)
Sv == INSTANCE Serving

\* A library operator has a second name in the instance.
LEMMA SameCardinality == \A S : Sv!Cardinality(S) = Cardinality(S)
  BY DEF Sv!Cardinality, Cardinality

LEMMA TasksBegin == Sv!Init => Sv!ServingInvariant
<1> SUFFICES ASSUME Sv!Init PROVE Sv!ServingInvariant
  OBVIOUS
<1>1. Sv!TypeOK
  <2>1. conn \in [Clients -> Sv!Connections]
    <3>1. Sv!None \in Sv!Connections
      BY DEF Sv!Connections, Sv!Settled, Sv!None
    <3>2. QED
      BY <3>1 DEF Sv!Init
  <2>2. counts \in [total: Nat, ips: [Sv!Ips -> Nat]]
    <3>1. [i \in Sv!Ips |-> 0] \in [Sv!Ips -> Nat]
      OBVIOUS
    <3>2. QED
      BY <3>1 DEF Sv!Init
  <2>3. permits \in [Slots -> SUBSET {"login", "job"}] /\ jobs \in [Slots -> Nat]
    BY DEF Sv!Init
  <2>4. events \in 0 .. MaxEvents /\ hand \subseteq Clients
    BY ServingAssumption DEF Sv!Init
  <2>5. QED
    BY <2>1, <2>2, <2>3, <2>4 DEF Sv!Init, Sv!TypeOK
<1>2. Sv!LiveClients = {} /\ \A i \in Sv!Ips : Sv!LiveFrom(i) = {}
  BY DEF Sv!Init, Sv!LiveClients, Sv!LiveFrom, Sv!Live, Sv!None
<1>3. counts.total = 0 /\ \A i \in Sv!Ips : counts.ips[i] = 0
  BY DEF Sv!Init
<1>4. Sv!AdmissionsExact
  BY <1>2, <1>3, FS_EmptySet, ServingAssumption, SameCardinality DEF Sv!AdmissionsExact
<1>5. Sv!PermitsKept /\ Sv!TasksJoined
  BY DEF Sv!Init, Sv!PermitsKept, Sv!TasksJoined, Sv!InLogin, Sv!Waits, Sv!None
<1>6. QED
  BY <1>1, <1>4, <1>5 DEF Sv!ServingInvariant
-----------------------------------------------------------------------------
(* What the steps do to a connection.                                      *)

LEMMA LoginSlot ==
  ASSUME Sv!TypeOK, NEW c \in Clients
  PROVE  /\ conn[c].at \in Sv!Settled \union Sv!InLogin
         /\ conn[c].at \in Sv!InLogin => conn[c].slot \in Slots
  BY DEF Sv!TypeOK, Sv!Connections, Sv!InLogin, Sv!Settled

LEMMA GoesStep ==
  ASSUME Sv!TypeOK, NEW c \in Clients, NEW to, Sv!Goes(c, to),
         \/ conn[c].at \in Sv!Settled /\ to \in Sv!Settled
         \/ conn[c].at \in Sv!InLogin /\ to \in Sv!InLogin
  PROVE  /\ conn' \in [Clients -> Sv!Connections]
         /\ conn'[c].at = to
         /\ conn[c].at \in Sv!InLogin => conn'[c].slot = conn[c].slot
         /\ \A d \in Clients : d # c => conn'[d] = conn[d]
<1>1. conn[c] \in Sv!Connections
  BY DEF Sv!TypeOK
<1>2. [conn[c] EXCEPT !.at = to] \in Sv!Connections
  BY <1>1 DEF Sv!Connections, Sv!Settled, Sv!InLogin
<1>3. conn' = [conn EXCEPT ![c] = [conn[c] EXCEPT !.at = to]]
  BY DEF Sv!Goes
<1>4. [conn[c] EXCEPT !.at = to].at = to
  BY <1>1 DEF Sv!Connections
<1>5. conn[c].at \in Sv!InLogin => [conn[c] EXCEPT !.at = to].slot = conn[c].slot
  BY <1>1 DEF Sv!Connections, Sv!InLogin, Sv!Settled
<1>6. QED
  BY <1>2, <1>3, <1>4, <1>5 DEF Sv!TypeOK

\* A connection that becomes what the step says, the others as they are.
LEMMA SettlesStep ==
  ASSUME Sv!TypeOK, NEW c \in Clients, NEW to \in Sv!Settled,
         conn' = [conn EXCEPT ![c] = [at |-> to]]
  PROVE  /\ conn' \in [Clients -> Sv!Connections]
         /\ conn'[c].at = to
         /\ \A d \in Clients : d # c => conn'[d] = conn[d]
<1>1. [at |-> to] \in Sv!Connections
  BY DEF Sv!Connections
<1>2. QED
  BY <1>1 DEF Sv!TypeOK

LEMMA ChallengedStep ==
  ASSUME Sv!TypeOK, NEW c \in Clients, NEW s \in Slots,
         conn' = [conn EXCEPT ![c] = [at |-> "challenged", slot |-> s]]
  PROVE  /\ conn' \in [Clients -> Sv!Connections]
         /\ conn'[c].at = "challenged" /\ conn'[c].slot = s
         /\ \A d \in Clients : d # c => conn'[d] = conn[d]
<1>1. [at |-> "challenged", slot |-> s] \in Sv!Connections
  BY DEF Sv!Connections, Sv!InLogin
<1>2. QED
  BY <1>1 DEF Sv!TypeOK
-----------------------------------------------------------------------------
(* The admissions are counted.                                             *)

CountsOK == counts \in [total: Nat, ips: [Sv!Ips -> Nat]]

LEMMA LiveFinite ==
  /\ IsFiniteSet(Sv!LiveClients) /\ Cardinality(Sv!LiveClients) \in Nat
  /\ \A i \in Sv!Ips : IsFiniteSet(Sv!LiveFrom(i)) /\ Cardinality(Sv!LiveFrom(i)) \in Nat
<1>1. Sv!LiveClients \subseteq Clients /\ \A i \in Sv!Ips : Sv!LiveFrom(i) \subseteq Clients
  BY DEF Sv!LiveClients, Sv!LiveFrom
<1>2. QED
  BY <1>1, ServingAssumption, FS_Subset, FS_CardinalityType

LEMMA SameLive ==
  ASSUME Sv!AdmissionsExact, CountsOK, UNCHANGED counts,
         \A c \in Clients : Sv!Live(c)' <=> Sv!Live(c)
  PROVE  Sv!AdmissionsExact' /\ CountsOK'
<1>1. Sv!LiveClients' = Sv!LiveClients
  BY DEF Sv!LiveClients
<1>2. \A i \in Sv!Ips : Sv!LiveFrom(i)' = Sv!LiveFrom(i)
  BY <1>1 DEF Sv!LiveFrom
<1>3. QED
  BY <1>1, <1>2, SameCardinality DEF Sv!AdmissionsExact, CountsOK

LEMMA OneMore ==
  ASSUME Sv!AdmissionsExact, CountsOK, NEW c \in Clients, ~Sv!Live(c), Sv!Live(c)',
         \A d \in Clients : d # c => (Sv!Live(d)' <=> Sv!Live(d)), Sv!Admits(c),
         counts' = [total |-> counts.total + 1,
         ips |-> [counts.ips EXCEPT ![Ip(c)] = @ + 1]]
  PROVE  Sv!AdmissionsExact' /\ CountsOK'
<1>1. Ip(c) \in Sv!Ips
  BY DEF Sv!Ips
<1>2. Sv!LiveClients' = Sv!LiveClients \union {c} /\ c \notin Sv!LiveClients
  BY DEF Sv!LiveClients
<1>3. /\ Sv!LiveFrom(Ip(c))' = Sv!LiveFrom(Ip(c)) \union {c} /\ c \notin Sv!LiveFrom(Ip(c))
      /\ \A i \in Sv!Ips : i # Ip(c) => Sv!LiveFrom(i)' = Sv!LiveFrom(i)
  BY <1>2 DEF Sv!LiveFrom
<1>4. /\ Cardinality(Sv!LiveClients)' = Cardinality(Sv!LiveClients) + 1
      /\ Cardinality(Sv!LiveFrom(Ip(c)))' = Cardinality(Sv!LiveFrom(Ip(c))) + 1
  BY <1>1, <1>2, <1>3, LiveFinite, FS_AddElement
<1>5. /\ CountsOK' /\ counts'.total = counts.total + 1
      /\ counts'.ips[Ip(c)] = counts.ips[Ip(c)] + 1
      /\ \A i \in Sv!Ips : i # Ip(c) => counts'.ips[i] = counts.ips[i]
  BY <1>1 DEF CountsOK
<1>6. counts.total + 1 <= MaxConnections /\ counts.ips[Ip(c)] + 1 <= PerIp
  BY <1>1, ServingAssumption DEF Sv!Admits, CountsOK
<1>7. QED
  BY <1>1, <1>3, <1>4, <1>5, <1>6, SameCardinality DEF Sv!AdmissionsExact

LEMMA OneLess ==
  ASSUME Sv!AdmissionsExact, CountsOK, NEW c \in Clients, Sv!Live(c), ~Sv!Live(c)',
         \A d \in Clients : d # c => (Sv!Live(d)' <=> Sv!Live(d)),
         counts' = [total |-> counts.total - 1,
         ips |-> [counts.ips EXCEPT ![Ip(c)] = @ - 1]]
  PROVE  Sv!AdmissionsExact' /\ CountsOK'
<1>1. Ip(c) \in Sv!Ips
  BY DEF Sv!Ips
<1>2. Sv!LiveClients' = Sv!LiveClients \ {c} /\ c \in Sv!LiveClients
  BY DEF Sv!LiveClients
<1>3. /\ Sv!LiveFrom(Ip(c))' = Sv!LiveFrom(Ip(c)) \ {c} /\ c \in Sv!LiveFrom(Ip(c))
      /\ \A i \in Sv!Ips : i # Ip(c) => Sv!LiveFrom(i)' = Sv!LiveFrom(i)
  BY <1>2 DEF Sv!LiveFrom
<1>4. /\ Cardinality(Sv!LiveClients)' = Cardinality(Sv!LiveClients) - 1
      /\ Cardinality(Sv!LiveFrom(Ip(c)))' = Cardinality(Sv!LiveFrom(Ip(c))) - 1
      /\ Cardinality(Sv!LiveClients)' \in Nat /\ Cardinality(Sv!LiveFrom(Ip(c)))' \in Nat
  <2>1. /\ Cardinality(Sv!LiveClients)' = Cardinality(Sv!LiveClients) - 1
        /\ Cardinality(Sv!LiveFrom(Ip(c)))' = Cardinality(Sv!LiveFrom(Ip(c))) - 1
    BY <1>1, <1>2, <1>3, LiveFinite, FS_RemoveElement
  <2>2. Cardinality(Sv!LiveClients) # 0 /\ Cardinality(Sv!LiveFrom(Ip(c))) # 0
    BY <1>1, <1>2, <1>3, LiveFinite, FS_EmptySet
  <2>3. QED
    BY <1>1, <2>1, <2>2, LiveFinite
<1>5. /\ counts'.total = counts.total - 1
      /\ counts'.ips[Ip(c)] = counts.ips[Ip(c)] - 1
      /\ \A i \in Sv!Ips : i # Ip(c) => counts'.ips[i] = counts.ips[i]
  BY <1>1 DEF CountsOK
<1>6. Sv!AdmissionsExact'
  <2>1. counts'.total = Cardinality(Sv!LiveClients)' /\ counts'.total <= MaxConnections
    BY <1>4, <1>5, ServingAssumption, SameCardinality DEF Sv!AdmissionsExact, CountsOK
  <2>2. ASSUME NEW i \in Sv!Ips
        PROVE  counts'.ips[i] = Cardinality(Sv!LiveFrom(i))' /\ counts'.ips[i] <= PerIp
    <3>1. /\ counts.ips[i] = Cardinality(Sv!LiveFrom(i)) /\ counts.ips[i] <= PerIp
          /\ counts.ips[i] \in Nat /\ PerIp \in Nat
      BY ServingAssumption, SameCardinality DEF Sv!AdmissionsExact, CountsOK
    <3>2. CASE i = Ip(c)
      BY <1>4, <1>5, <3>1, <3>2
    <3>3. CASE i # Ip(c)
      BY <1>3, <1>5, <3>1, <3>3
    <3>4. QED
      BY <3>2, <3>3
  <2>3. QED
    BY <2>1, <2>2, SameCardinality DEF Sv!AdmissionsExact
<1>7. CountsOK'
  <2>1. counts.total - 1 \in Nat /\ counts.ips[Ip(c)] - 1 \in Nat
    BY <1>1, <1>4, SameCardinality DEF Sv!AdmissionsExact
  <2>2. [counts.ips EXCEPT ![Ip(c)] = @ - 1] \in [Sv!Ips -> Nat]
    BY <2>1 DEF CountsOK
  <2>3. QED
    BY <2>1, <2>2 DEF CountsOK
<1>8. QED
  BY <1>6, <1>7
-----------------------------------------------------------------------------
(* The steps of the tasks that leave the connections alone.                *)

RuntimeOK ==
    /\ stopping \in BOOLEAN /\ online \in BOOLEAN
    /\ main \in {"running", "disabling", "network task", "tick task", "console task",
                 "saving", "saved", "failed", "gone"}
    /\ ticker \in {"waiting", "hung", "ended"}
    /\ input \in {"none", "pending", "line"} /\ console \in {"reading", "confirming", "ended"}
    /\ network \in {"starting", "serving", "draining", "ended", "failed"}
    /\ events \in 0 .. MaxEvents
SessionsOK ==
    /\ conn \in [Clients -> Sv!Connections]
    /\ CountsOK
    /\ permits \in [Slots -> SUBSET {"login", "job"}]
    /\ jobs \in [Slots -> Nat]
    /\ hand \subseteq Clients
    /\ lost \in BOOLEAN

LEMMA TypeParts == Sv!TypeOK <=> RuntimeOK /\ SessionsOK
  BY DEF Sv!TypeOK, RuntimeOK, SessionsOK, CountsOK

LEMMA TypePartsNext == RuntimeOK' /\ SessionsOK' => Sv!TypeOK'
  BY DEF Sv!TypeOK, RuntimeOK, SessionsOK, CountsOK

LEMMA SessionsKept ==
  ASSUME Sv!ServingInvariant, Sv!Sessions, RuntimeOK', Sv!TasksJoined'
  PROVE  Sv!ServingInvariant'
<1>1. SessionsOK'
  BY TypeParts DEF Sv!Sessions, SessionsOK, CountsOK, Sv!ServingInvariant
<1>2. Sv!AdmissionsExact'
  BY SameLive, TypeParts DEF Sv!Sessions, SessionsOK, Sv!ServingInvariant, Sv!Live
<1>3. Sv!PermitsKept'
  BY DEF Sv!Sessions, Sv!ServingInvariant, Sv!PermitsKept, Sv!Waits
<1>4. QED
  BY <1>1, <1>2, <1>3, TypePartsNext DEF Sv!ServingInvariant

LEMMA MainStep ==
  ASSUME Sv!ServingInvariant, Sv!MainTask
  PROVE  Sv!ServingInvariant'
<1> USE DEF Sv!Main
<1>1. Sv!Sessions /\ UNCHANGED <<stopping, ticker, console, input, network>>
  BY DEF Sv!MainTask, Sv!EmitTick, Sv!BreakLoop, Sv!DisableAll, Sv!JoinNetwork,
         Sv!JoinTick, Sv!JoinConsole, Sv!Save, Sv!Exit
<1>2. RuntimeOK'
  <2>1. RuntimeOK
    BY TypeParts DEF Sv!ServingInvariant
  <2>2. events' \in 0 .. MaxEvents
    <3>1. events' = events \/ (events > 0 /\ events' = events - 1)
      BY DEF Sv!MainTask, Sv!EmitTick, Sv!BreakLoop, Sv!DisableAll, Sv!JoinNetwork,
             Sv!JoinTick, Sv!JoinConsole, Sv!Save, Sv!Exit
    <3>2. events \in 0 .. MaxEvents /\ MaxEvents \in Nat
      BY <2>1, ServingAssumption DEF RuntimeOK
    <3>3. QED
      BY <3>1, <3>2
  <2>3. main' \in {"running", "disabling", "network task", "tick task", "console task",
                  "saving", "saved", "failed", "gone"}
    BY <2>1 DEF RuntimeOK, Sv!MainTask, Sv!EmitTick, Sv!BreakLoop, Sv!DisableAll,
       Sv!JoinNetwork, Sv!JoinTick, Sv!JoinConsole, Sv!Save, Sv!Exit
  <2>4. online' = online
    BY <1>1 DEF Sv!Sessions
  <2>5. QED
    BY <1>1, <2>1, <2>2, <2>3, <2>4 DEF RuntimeOK
<1>3. Sv!TasksJoined'
  BY <1>1 DEF Sv!ServingInvariant, Sv!TasksJoined, Sv!Sessions, Sv!Waits,
     Sv!MainTask, Sv!EmitTick, Sv!BreakLoop, Sv!DisableAll, Sv!JoinNetwork, Sv!JoinTick,
     Sv!JoinConsole, Sv!Save, Sv!Exit
<1>4. QED
  BY <1>1, <1>2, <1>3, SessionsKept

LEMMA OtherTaskStep ==
  ASSUME Sv!ServingInvariant,
         \/ Sv!Interrupt \/ Sv!AdvanceTick \/ Sv!HangInAutosave \/ Sv!StopTicks
         \/ Sv!NextLine \/ Sv!LineTyped \/ Sv!ReadLine \/ Sv!StopConsole
  PROVE  Sv!ServingInvariant'
<1> USE DEF Sv!Interrupt, Sv!AdvanceTick, Sv!HangInAutosave, Sv!StopTicks,
            Sv!NextLine, Sv!LineTyped, Sv!ReadLine, Sv!StopConsole
<1>1. Sv!Sessions /\ UNCHANGED <<main, network>>
  BY DEF Sv!Runtime
<1>2. RuntimeOK'
  <2>1. RuntimeOK
    BY TypeParts DEF Sv!ServingInvariant
  <2>2. events' \in 0 .. MaxEvents
    <3>1. events' = events \/ (events < MaxEvents /\ events' = events + 1)
      BY DEF Sv!Runtime
    <3>2. events \in 0 .. MaxEvents /\ MaxEvents \in Nat
      BY <2>1, ServingAssumption DEF RuntimeOK
    <3>3. QED
      BY <3>1, <3>2
  <2>3. stopping' \in BOOLEAN
    BY <2>1 DEF RuntimeOK, Sv!RequestShutdown
  <2>4. /\ ticker' \in {"waiting", "hung", "ended"} /\ input' \in {"none", "pending", "line"}
        /\ console' \in {"reading", "confirming", "ended"}
    BY <2>1 DEF RuntimeOK, Sv!Runtime
  <2>5. online' = online
    BY <1>1 DEF Sv!Sessions
  <2>6. QED
    BY <1>1, <2>1, <2>2, <2>3, <2>4, <2>5 DEF RuntimeOK
<1>3. Sv!TasksJoined'
  <2>1. ticker = "ended" => ticker' = "ended"
    BY DEF Sv!Runtime
  <2>2. console = "ended" => console' = "ended"
    BY DEF Sv!Runtime
  <2>3. QED
    BY <1>1, <2>1, <2>2 DEF Sv!ServingInvariant, Sv!TasksJoined, Sv!Sessions, Sv!Waits
<1>4. QED
  BY <1>1, <1>2, <1>3, SessionsKept

LEMMA NetworkStep ==
  ASSUME Sv!ServingInvariant, Sv!Authenticated \/ Sv!AcceptFails \/ Sv!StopAccepting
      \/ Sv!Drained
  PROVE  Sv!ServingInvariant'
<1>1. Sv!Sessions /\ Sv!Runtime
  BY DEF Sv!Authenticated, Sv!AcceptFails, Sv!StopAccepting, Sv!Drained
<1>2. RuntimeOK'
  <2>1. RuntimeOK
    BY TypeParts DEF Sv!ServingInvariant
  <2>2. stopping' \in BOOLEAN
    BY <2>1 DEF RuntimeOK, Sv!RequestShutdown, Sv!Authenticated, Sv!AcceptFails,
                Sv!StopAccepting, Sv!Drained
  <2>3. network' \in {"starting", "serving", "draining", "ended", "failed"}
    BY DEF Sv!Authenticated, Sv!AcceptFails, Sv!StopAccepting, Sv!Drained
  <2>4. QED
    BY <1>1, <2>1, <2>2, <2>3 DEF RuntimeOK, Sv!Runtime
<1>3. Sv!TasksJoined'
  BY <1>1 DEF Sv!ServingInvariant, Sv!TasksJoined, Sv!Sessions, Sv!Runtime, Sv!Waits,
     Sv!Authenticated, Sv!AcceptFails, Sv!StopAccepting, Sv!Drained
<1>4. QED
  BY <1>1, <1>2, <1>3, SessionsKept
-----------------------------------------------------------------------------
(* The steps of the connection of one client.                              *)

LEMMA SessionsChanged ==
  ASSUME Sv!ServingInvariant, UNCHANGED network, Sv!Runtime, stopping' = stopping,
         SessionsOK', Sv!AdmissionsExact', Sv!PermitsKept', Sv!TasksJoined'
  PROVE  Sv!ServingInvariant'
<1>1. RuntimeOK'
  BY TypeParts DEF Sv!ServingInvariant, Sv!Runtime, RuntimeOK
<1>2. QED
  BY <1>1, TypePartsNext DEF Sv!ServingInvariant

LEMMA StillJoined ==
  ASSUME Sv!ServingInvariant, UNCHANGED network, Sv!Runtime,
         NEW c \in Clients, ~Sv!Waits(c, "none") \/ network # "ended",
         \A d \in Clients : d # c => conn'[d] = conn[d],
         hand' \subseteq hand \union {c}, c \in hand' => conn'[c].at = "play",
         lost' => lost \/ network = "failed"
  PROVE  Sv!TasksJoined'
<1>1. Sv!TasksJoined /\ network # "ended"
  BY DEF Sv!ServingInvariant, Sv!TasksJoined
<1>2. hand' \subseteq {d \in Clients : Sv!Waits(d, "play")'}
  BY <1>1 DEF Sv!TasksJoined, Sv!Waits
<1>3. QED
  BY <1>1, <1>2 DEF Sv!TasksJoined, Sv!Runtime

\* A step outside of a login.
LEMMA NoLogin ==
  ASSUME Sv!PermitsKept, UNCHANGED <<permits, jobs>>, NEW c \in Clients,
         conn'[c].at \notin Sv!InLogin,
         \A d \in Clients : d # c => conn'[d] = conn[d]
  PROVE  Sv!PermitsKept'
  BY DEF Sv!PermitsKept, Sv!Waits

\* The end of a login, however it ends.
LEMMA LoginOver ==
  ASSUME Sv!TypeOK, Sv!PermitsKept, UNCHANGED jobs, NEW c \in Clients,
         conn[c].at \in Sv!InLogin, conn'[c].at \notin Sv!InLogin,
         permits' = [permits EXCEPT ![conn[c].slot] = @ \ {"login"}],
         \A d \in Clients : d # c => conn'[d] = conn[d]
  PROVE  Sv!PermitsKept' /\ permits' \in [Slots -> SUBSET {"login", "job"}]
<1>1. conn[c].slot \in Slots /\ permits \in [Slots -> SUBSET {"login", "job"}]
  BY LoginSlot DEF Sv!TypeOK
<1>2. /\ \A s \in Slots : "job" \in permits'[s] <=> "job" \in permits[s]
      /\ \A s \in Slots : s # conn[c].slot => permits'[s] = permits[s]
      /\ permits' \in [Slots -> SUBSET {"login", "job"}]
  BY <1>1
<1>3. \A s \in Slots : jobs'[s] = IF "job" \in permits'[s] THEN 1 ELSE 0
  BY <1>2 DEF Sv!PermitsKept
<1>4. ASSUME NEW d \in Clients, conn'[d].at \in Sv!InLogin
      PROVE  /\ "login" \in permits'[conn'[d].slot]
             /\ \A e \in Clients :
                  conn'[e].at \in Sv!InLogin /\ conn'[e].slot = conn'[d].slot => e = d
             /\ conn'[d].at = "challenged" => "job" \notin permits'[conn'[d].slot]
  <2>1. d # c /\ conn'[d] = conn[d] /\ conn[d].slot \in Slots
    BY <1>4, LoginSlot
  <2>2. conn[d].slot # conn[c].slot
    BY <1>4, <2>1 DEF Sv!PermitsKept
  <2>3. QED
    BY <1>2, <1>4, <2>1, <2>2 DEF Sv!PermitsKept, Sv!Waits
<1>5. QED
  BY <1>2, <1>3, <1>4 DEF Sv!PermitsKept, Sv!Waits

\* A connection moves on outside of a login.
LEMMA MoveStep ==
  ASSUME Sv!ServingInvariant, Sv!Network, NEW c \in Clients,
      NEW to \in Sv!Settled \ {"none", "done"},
         Sv!Live(c), conn'[c].at = to, conn' \in [Clients -> Sv!Connections],
         \A d \in Clients : d # c => conn'[d] = conn[d],
         UNCHANGED <<counts, permits, jobs, lost>>,
         hand' \subseteq hand \union {c}, c \in hand' => to = "play"
  PROVE  Sv!ServingInvariant'
<1>1. SessionsOK /\ Sv!AdmissionsExact /\ Sv!PermitsKept
  BY TypeParts DEF Sv!ServingInvariant
<1>2. \A d \in Clients : Sv!Live(d)' <=> Sv!Live(d)
  BY DEF Sv!Live
<1>3. Sv!AdmissionsExact' /\ CountsOK'
  BY <1>1, <1>2, SameLive DEF SessionsOK
<1>4. SessionsOK'
  BY <1>1, <1>3 DEF SessionsOK
<1>5. Sv!PermitsKept'
  BY <1>1, NoLogin DEF Sv!Settled, Sv!InLogin
<1>6. Sv!TasksJoined'
  BY StillJoined DEF Sv!Network, Sv!Live, Sv!Waits
<1>7. QED
  BY <1>3, <1>4, <1>5, <1>6, SessionsChanged DEF Sv!Network

LEMMA DropsStep ==
  ASSUME Sv!ServingInvariant, Sv!Network, NEW c \in Clients, Sv!Live(c), Sv!Drops(c),
      UNCHANGED jobs,
         hand' = hand \ {c}, lost' \in BOOLEAN, lost' => lost \/ network = "failed"
  PROVE  Sv!ServingInvariant'
<1>1. SessionsOK /\ Sv!AdmissionsExact /\ Sv!PermitsKept /\ Sv!TypeOK
  BY TypeParts DEF Sv!ServingInvariant
<1>2. /\ conn' \in [Clients -> Sv!Connections] /\ conn'[c].at = "done"
      /\ \A d \in Clients : d # c => conn'[d] = conn[d]
  BY <1>1, SettlesStep DEF Sv!Drops, Sv!Settled
<1>3. Sv!AdmissionsExact' /\ CountsOK'
  BY <1>1, <1>2, OneLess DEF SessionsOK, Sv!Drops, Sv!Live
<1>4. Sv!PermitsKept' /\ permits' \in [Slots -> SUBSET {"login", "job"}]
  <2>1. CASE conn[c].at \in Sv!InLogin
    BY <1>1, <1>2, <2>1, LoginOver DEF Sv!Drops, Sv!InLogin
  <2>2. CASE conn[c].at \notin Sv!InLogin
    BY <1>1, <1>2, <2>2, NoLogin DEF Sv!Drops, Sv!InLogin, SessionsOK
  <2>3. QED
    BY <2>1, <2>2
<1>5. SessionsOK'
  BY <1>1, <1>2, <1>3, <1>4 DEF SessionsOK
<1>6. Sv!TasksJoined'
  BY <1>2, StillJoined DEF Sv!Network, Sv!Live, Sv!Waits
<1>7. QED
  BY <1>3, <1>4, <1>5, <1>6, SessionsChanged DEF Sv!Network

LEMMA AcceptStep ==
  ASSUME Sv!ServingInvariant, NEW c \in Clients, Sv!Accept(c)
  PROVE  Sv!ServingInvariant'
<1>1. SessionsOK /\ Sv!AdmissionsExact /\ Sv!PermitsKept /\ Sv!TypeOK
  BY TypeParts DEF Sv!ServingInvariant
<1>2. /\ conn' \in [Clients -> Sv!Connections] /\ conn'[c].at = "handshake"
      /\ \A d \in Clients : d # c => conn'[d] = conn[d]
  BY <1>1, SettlesStep DEF Sv!Accept, Sv!Settled
<1>3. Sv!AdmissionsExact' /\ CountsOK'
  BY <1>1, <1>2, OneMore DEF Sv!Accept, SessionsOK, Sv!Live
<1>4. Sv!PermitsKept'
  BY <1>1, <1>2, NoLogin DEF Sv!Accept, Sv!InLogin
<1>5. SessionsOK'
  BY <1>1, <1>2, <1>3 DEF Sv!Accept, SessionsOK
<1>6. Sv!TasksJoined'
  <2>1. c \notin hand
    BY DEF Sv!ServingInvariant, Sv!TasksJoined, Sv!Accept, Sv!Waits
  <2>2. QED
    BY <1>2, <2>1, StillJoined DEF Sv!Accept
<1>7. QED
  BY <1>3, <1>4, <1>5, <1>6, SessionsChanged DEF Sv!Accept

LEMMA ReapStep ==
  ASSUME Sv!ServingInvariant, NEW c \in Clients, Sv!Reap(c)
  PROVE  Sv!ServingInvariant'
<1>1. SessionsOK /\ Sv!AdmissionsExact /\ Sv!PermitsKept /\ Sv!TypeOK
  BY TypeParts DEF Sv!ServingInvariant
<1>2. /\ conn' \in [Clients -> Sv!Connections] /\ conn'[c].at = "none"
      /\ \A d \in Clients : d # c => conn'[d] = conn[d]
  BY <1>1, SettlesStep DEF Sv!Reap, Sv!Settled, Sv!None
<1>3. Sv!AdmissionsExact' /\ CountsOK'
  <2>1. \A d \in Clients : Sv!Live(d)' <=> Sv!Live(d)
    BY <1>2 DEF Sv!Reap, Sv!Live
  <2>2. QED
    BY <1>1, <2>1, SameLive DEF Sv!Reap, SessionsOK
<1>4. Sv!PermitsKept'
  BY <1>1, <1>2, NoLogin DEF Sv!Reap, Sv!InLogin
<1>5. SessionsOK'
  BY <1>1, <1>2, <1>3 DEF Sv!Reap, SessionsOK
<1>6. Sv!TasksJoined'
  <2>1. c \notin hand
    BY DEF Sv!ServingInvariant, Sv!TasksJoined, Sv!Reap, Sv!Waits
  <2>2. QED
    BY <1>2, <2>1, StillJoined DEF Sv!Reap
<1>7. QED
  BY <1>3, <1>4, <1>5, <1>6, SessionsChanged DEF Sv!Reap

LEMMA FrameStep ==
  ASSUME Sv!ServingInvariant, NEW c \in Clients,
         Sv!Handshake(c) \/ Sv!Configured(c) \/ Sv!LoginOffline(c)
  PROVE  Sv!ServingInvariant'
<1>1. Sv!TypeOK /\ Sv!TasksJoined
  BY DEF Sv!ServingInvariant
<1>2. PICK to \in Sv!Settled \ {"none", "done"} :
        Sv!Goes(c, to) /\ Sv!Network /\ UNCHANGED <<counts, permits, jobs, hand, lost>>
  BY DEF Sv!Handshake, Sv!Configured, Sv!LoginOffline, Sv!Takes, Sv!Settled
<1>3. conn[c].at \in Sv!Settled \ {"none", "done"} /\ Sv!Live(c) /\ c \notin hand
  BY <1>1 DEF Sv!Handshake, Sv!Configured, Sv!LoginOffline, Sv!Takes, Sv!Waits, Sv!Settled,
              Sv!Live, Sv!TasksJoined
<1>4. QED
  BY <1>1, <1>2, <1>3, GoesStep, MoveStep

LEMMA ClickStep ==
  ASSUME Sv!ServingInvariant, NEW c \in Clients, Sv!Click(c)
  PROVE  Sv!ServingInvariant'
<1>1. conn \in [Clients -> Sv!Connections]
  BY DEF Sv!ServingInvariant, Sv!TypeOK
<1>2. QED
  BY <1>1, MoveStep DEF Sv!Click, Sv!Waits, Sv!Live, Sv!Settled

LEMMA LoginStartStep ==
  ASSUME Sv!ServingInvariant, NEW c \in Clients, Sv!LoginStart(c)
  PROVE  Sv!ServingInvariant'
<1>1. SessionsOK /\ Sv!AdmissionsExact /\ Sv!PermitsKept /\ Sv!TypeOK /\ Sv!TasksJoined
  BY TypeParts DEF Sv!ServingInvariant
<1>2. PICK s \in Slots : /\ permits[s] = {} /\ permits' = [permits EXCEPT ![s] = {"login"}]
                        /\ conn' = [conn EXCEPT ![c] = [at |-> "challenged", slot |-> s]]
  BY DEF Sv!LoginStart, Sv!Free
<1>3. /\ conn' \in [Clients -> Sv!Connections]
      /\ conn'[c].at = "challenged" /\ conn'[c].slot = s
      /\ \A d \in Clients : d # c => conn'[d] = conn[d]
  BY <1>1, <1>2, ChallengedStep
<1>4. Sv!AdmissionsExact' /\ CountsOK'
  <2>1. \A d \in Clients : Sv!Live(d)' <=> Sv!Live(d)
    BY <1>3 DEF Sv!LoginStart, Sv!Waits, Sv!Live
  <2>2. QED
    BY <1>1, <2>1, SameLive DEF Sv!LoginStart, SessionsOK
<1>5. /\ permits' \in [Slots -> SUBSET {"login", "job"}] /\ permits'[s] = {"login"}
      /\ \A z \in Slots : z # s => permits'[z] = permits[z]
  BY <1>1, <1>2 DEF SessionsOK
<1>6. Sv!PermitsKept'
  <2>1. \A z \in Slots : jobs'[z] = IF "job" \in permits'[z] THEN 1 ELSE 0
    BY <1>1, <1>2, <1>5 DEF Sv!PermitsKept, Sv!LoginStart
  <2>2. \A d \in Clients : d # c
      /\ conn[d].at \in Sv!InLogin => conn[d].slot \in Slots \ {s}
    BY <1>1, <1>2, LoginSlot DEF Sv!PermitsKept
  <2>3. QED
    BY <1>1, <1>3, <1>5, <2>1, <2>2 DEF Sv!PermitsKept, Sv!Waits
<1>7. SessionsOK'
  BY <1>1, <1>3, <1>4, <1>5 DEF Sv!LoginStart, SessionsOK
<1>8. Sv!TasksJoined'
  <2>1. c \notin hand
    BY <1>1 DEF Sv!TasksJoined, Sv!LoginStart, Sv!Waits
  <2>2. QED
    BY <1>3, <2>1, StillJoined DEF Sv!LoginStart, Sv!Network, Sv!Waits
<1>9. QED
  BY <1>4, <1>6, <1>7, <1>8, SessionsChanged DEF Sv!LoginStart, Sv!Network

LEMMA ResponseStep ==
  ASSUME Sv!ServingInvariant, NEW c \in Clients, Sv!Response(c)
  PROVE  Sv!ServingInvariant'
<1> DEFINE s == conn[c].slot
<1>1. SessionsOK /\ Sv!AdmissionsExact /\ Sv!PermitsKept /\ Sv!TypeOK /\ Sv!TasksJoined
  BY TypeParts DEF Sv!ServingInvariant
<1>2. conn[c].at = "challenged" /\ s \in Slots /\ Sv!Goes(c, "deciphering")
  BY <1>1, LoginSlot DEF Sv!Response, Sv!Takes, Sv!Waits, Sv!InLogin
<1>3. /\ conn' \in [Clients -> Sv!Connections]
      /\ conn'[c].at = "deciphering" /\ conn'[c].slot = s
      /\ \A d \in Clients : d # c => conn'[d] = conn[d]
  BY <1>1, <1>2, GoesStep DEF Sv!InLogin
<1>4. Sv!AdmissionsExact' /\ CountsOK'
  <2>1. \A d \in Clients : Sv!Live(d)' <=> Sv!Live(d)
    BY <1>2, <1>3 DEF Sv!Live
  <2>2. QED
    BY <1>1, <2>1, SameLive DEF Sv!Response, SessionsOK
<1>5. jobs[s] = 0
  BY <1>1, <1>2 DEF Sv!PermitsKept, Sv!InLogin, Sv!Waits
<1>6. /\ permits' = [permits EXCEPT ![s] = @ \union {"job"}]
      /\ jobs' = [jobs EXCEPT ![s] = @ + 1]
  BY DEF Sv!Response, Sv!SpawnJob
<1>7. /\ permits' \in [Slots -> SUBSET {"login", "job"}]
      /\ permits'[s] = permits[s] \union {"job"}
      /\ \A z \in Slots : z # s => permits'[z] = permits[z]
  BY <1>1, <1>2, <1>6 DEF SessionsOK
<1>8. jobs' \in [Slots -> Nat] /\ jobs'[s] = 1
    /\ \A z \in Slots : z # s => jobs'[z] = jobs[z]
  BY <1>1, <1>2, <1>5, <1>6 DEF SessionsOK
<1>9. Sv!PermitsKept'
  <2>1. \A z \in Slots : jobs'[z] = IF "job" \in permits'[z] THEN 1 ELSE 0
    BY <1>1, <1>7, <1>8 DEF Sv!PermitsKept
  <2>2. \A d \in Clients : d # c
      /\ conn[d].at \in Sv!InLogin => conn[d].slot \in Slots \ {s}
    BY <1>1, <1>2, LoginSlot DEF Sv!PermitsKept, Sv!InLogin
  <2>3. "login" \in permits[s]
    BY <1>1, <1>2 DEF Sv!PermitsKept, Sv!InLogin
  <2>4. QED
    BY <1>1, <1>3, <1>7, <2>1, <2>2, <2>3 DEF Sv!PermitsKept, Sv!Waits
<1>10. SessionsOK'
  BY <1>1, <1>3, <1>4, <1>7, <1>8 DEF Sv!Response, SessionsOK
<1>11. Sv!TasksJoined'
  <2>1. c \notin hand
    BY <1>1, <1>2 DEF Sv!TasksJoined, Sv!Waits
  <2>2. QED
    BY <1>2, <1>3, <2>1, StillJoined DEF Sv!Response, Sv!Network, Sv!Waits
<1>12. QED
  BY <1>4, <1>9, <1>10, <1>11, SessionsChanged DEF Sv!Response, Sv!Network

LEMMA VerifiedStep ==
  ASSUME Sv!ServingInvariant, NEW c \in Clients, Sv!Verified(c)
  PROVE  Sv!ServingInvariant'
<1>1. SessionsOK /\ Sv!AdmissionsExact /\ Sv!PermitsKept /\ Sv!TypeOK /\ Sv!TasksJoined
  BY TypeParts DEF Sv!ServingInvariant
<1>2. PICK to \in {"configuration", "denied"} : conn' = [conn EXCEPT ![c] = [at |-> to]]
  BY DEF Sv!Verified
<1>3. /\ conn' \in [Clients -> Sv!Connections] /\ conn'[c].at = to
      /\ \A d \in Clients : d # c => conn'[d] = conn[d]
  BY <1>1, <1>2, SettlesStep DEF Sv!Settled
<1>4. Sv!AdmissionsExact' /\ CountsOK'
  <2>1. \A d \in Clients : Sv!Live(d)' <=> Sv!Live(d)
    BY <1>3 DEF Sv!Verified, Sv!Waits, Sv!Live
  <2>2. QED
    BY <1>1, <2>1, SameLive DEF Sv!Verified, SessionsOK
<1>5. Sv!PermitsKept' /\ permits' \in [Slots -> SUBSET {"login", "job"}]
  BY <1>1, <1>3, LoginOver DEF Sv!Verified, Sv!Waits, Sv!InLogin
<1>6. SessionsOK'
  BY <1>1, <1>3, <1>4, <1>5 DEF Sv!Verified, SessionsOK
<1>7. Sv!TasksJoined'
  <2>1. c \notin hand
    BY <1>1 DEF Sv!TasksJoined, Sv!Verified, Sv!Waits
  <2>2. QED
    BY <1>3, <2>1, StillJoined DEF Sv!Verified, Sv!Network, Sv!Waits
<1>8. QED
  BY <1>4, <1>5, <1>6, <1>7, SessionsChanged DEF Sv!Verified, Sv!Network

\* A job ends whether or not the login that asked for it waits for the answer.
LEMMA JobEndsStep ==
  ASSUME Sv!ServingInvariant, NEW s \in Slots, Sv!JobEnds(s)
  PROVE  Sv!ServingInvariant'
<1>1. SessionsOK /\ Sv!AdmissionsExact /\ Sv!PermitsKept /\ Sv!TypeOK /\ Sv!TasksJoined
  BY TypeParts DEF Sv!ServingInvariant
<1>2. /\ conn' \in [Clients -> Sv!Connections]
      /\ \A c \in Clients :
            \/ conn'[c] = conn[c]
            \/ conn[c].at = "deciphering" /\ conn'[c].at = "verifying"
                /\ conn'[c].slot = conn[c].slot
  <2>1. CASE UNCHANGED conn
    BY <1>1, <2>1 DEF SessionsOK
  <2>2. CASE \E c \in Clients : Sv!Waits(c, "deciphering") /\ Sv!Goes(c, "verifying")
    <3>1. PICK c \in Clients : Sv!Waits(c, "deciphering") /\ Sv!Goes(c, "verifying")
      BY <2>2
    <3>2. QED
      BY <1>1, <3>1, GoesStep DEF Sv!Waits, Sv!InLogin
  <2>3. QED
    BY <2>1, <2>2 DEF Sv!JobEnds
<1>3. Sv!AdmissionsExact' /\ CountsOK'
  <2>1. \A c \in Clients : Sv!Live(c)' <=> Sv!Live(c)
    BY <1>2 DEF Sv!Live
  <2>2. QED
    BY <1>1, <2>1, SameLive DEF Sv!JobEnds, SessionsOK
<1>4. /\ permits' = [permits EXCEPT ![s] = @ \ {"job"}]
      /\ jobs' = [jobs EXCEPT ![s] = @ - 1] /\ jobs[s] > 0
  BY DEF Sv!JobEnds
<1>5. /\ permits' \in [Slots -> SUBSET {"login", "job"}]
      /\ "job" \notin permits'[s] /\ ("login" \in permits'[s] <=> "login" \in permits[s])
      /\ \A z \in Slots : z # s => permits'[z] = permits[z]
  BY <1>1, <1>4 DEF SessionsOK
<1>6. jobs' \in [Slots -> Nat] /\ jobs'[s] = 0
    /\ \A z \in Slots : z # s => jobs'[z] = jobs[z]
  BY <1>1, <1>4 DEF SessionsOK, Sv!PermitsKept
<1>7. Sv!PermitsKept'
  <2>1. \A z \in Slots : jobs'[z] = IF "job" \in permits'[z] THEN 1 ELSE 0
    BY <1>1, <1>5, <1>6 DEF Sv!PermitsKept
  <2>2. \A c \in Clients : conn'[c].at \in Sv!InLogin =>
            conn[c].at \in Sv!InLogin /\ conn'[c].slot = conn[c].slot
                /\ conn[c].slot \in Slots
    BY <1>1, <1>2, LoginSlot DEF Sv!InLogin
  <2>3. \A c \in Clients : conn'[c].at = "challenged" => conn[c].at = "challenged"
    BY <1>2
  <2>4. \A z \in Slots : /\ "login" \in permits[z] => "login" \in permits'[z]
                         /\ "job" \notin permits[z] => "job" \notin permits'[z]
    BY <1>5
  <2>5. ASSUME NEW c \in Clients, conn'[c].at \in Sv!InLogin
        PROVE  /\ "login" \in permits'[conn'[c].slot]
               /\ \A d \in Clients :
                    conn'[d].at \in Sv!InLogin /\ conn'[d].slot = conn'[c].slot => d = c
               /\ conn'[c].at = "challenged" => "job" \notin permits'[conn'[c].slot]
    <3>1. /\ conn[c].at \in Sv!InLogin /\ conn'[c].slot = conn[c].slot
          /\ conn[c].slot \in Slots
      BY <2>2, <2>5
    <3>2. /\ "login" \in permits[conn[c].slot]
          /\ \A d \in Clients :
               conn[d].at \in Sv!InLogin /\ conn[d].slot = conn[c].slot => d = c
          /\ conn[c].at = "challenged" => "job" \notin permits[conn[c].slot]
      BY <1>1, <3>1 DEF Sv!PermitsKept, Sv!Waits
    <3>3. \A d \in Clients :
             conn'[d].at \in Sv!InLogin /\ conn'[d].slot = conn'[c].slot => d = c
      BY <2>2, <3>1, <3>2
    <3>4. QED
      BY <2>3, <2>4, <3>1, <3>2, <3>3
  <2>6. QED
    BY <2>1, <2>5 DEF Sv!PermitsKept, Sv!Waits
<1>8. SessionsOK'
  BY <1>1, <1>2, <1>3, <1>5, <1>6 DEF Sv!JobEnds, SessionsOK
<1>9. Sv!TasksJoined'
  <2>1. network = "ended" => \A c \in Clients : conn'[c].at = "none"
    BY <1>1, <1>2 DEF Sv!TasksJoined, Sv!Waits
  <2>2. hand' \subseteq {c \in Clients : conn'[c].at = "play"}
    BY <1>1, <1>2 DEF Sv!TasksJoined, Sv!Waits, Sv!JobEnds
  <2>3. QED
    BY <1>1, <2>1, <2>2 DEF Sv!TasksJoined, Sv!JobEnds, Sv!Network, Sv!Runtime, Sv!Waits
<1>10. QED
  BY <1>3, <1>7, <1>8, <1>9, SessionsChanged DEF Sv!JobEnds, Sv!Network

\* A connection ends by itself, or is aborted with the task that served it.
LEMMA EndStep ==
  ASSUME Sv!ServingInvariant, NEW c \in Clients,
         \/ Sv!StatusAnswered(c) \/ Sv!Refused(c) \/ Sv!ReadFails(c) \/ Sv!WriteFails(c)
         \/ Sv!VerifyFails(c) \/ Sv!SetupExpires(c) \/ Sv!Stopped(c) \/ Sv!Abort(c)
  PROVE  Sv!ServingInvariant'
<1>1. Sv!Live(c) /\ Sv!Drops(c) /\ Sv!Network /\ UNCHANGED jobs /\ hand' = hand \ {c}
  BY DEF Sv!StatusAnswered, Sv!Refused, Sv!ReadFails, Sv!WriteFails, Sv!VerifyFails,
         Sv!SetupExpires,
         Sv!Stopped, Sv!Abort, Sv!Ends, Sv!Live, Sv!Waits, Sv!InLogin
<1>2. lost' \in BOOLEAN /\ (lost' => lost \/ network = "failed")
  <2>1. CASE Sv!Abort(c)
    BY <2>1 DEF Sv!Abort
  <2>2. CASE lost' = lost
    BY <2>2 DEF Sv!ServingInvariant, Sv!TypeOK
  <2>3. QED
    BY <2>1, <2>2
       DEF Sv!StatusAnswered, Sv!Refused, Sv!ReadFails, Sv!WriteFails, Sv!VerifyFails,
           Sv!SetupExpires,
           Sv!Stopped, Sv!Ends
<1>3. QED
  BY <1>1, <1>2, DropsStep

LEMMA TasksGoOn == Sv!ServingInvariant /\ [Sv!Next]_Sv!vars => Sv!ServingInvariant'
<1> SUFFICES ASSUME Sv!ServingInvariant, [Sv!Next]_Sv!vars PROVE Sv!ServingInvariant'
  OBVIOUS
<1>1. ASSUME NEW c \in Clients, Sv!Connection(c)
      PROVE  Sv!ServingInvariant'
  BY <1>1, FrameStep, ClickStep, LoginStartStep, ResponseStep, VerifiedStep, EndStep
     DEF Sv!Connection
<1>2. CASE UNCHANGED Sv!vars
  <2>1. RuntimeOK' /\ Sv!Sessions
    BY <1>2, TypeParts DEF Sv!vars, Sv!Sessions, RuntimeOK, Sv!ServingInvariant
  <2>2. Sv!TasksJoined'
    BY <1>2 DEF Sv!vars, Sv!TasksJoined, Sv!Waits, Sv!ServingInvariant
  <2>3. QED
    BY <2>1, <2>2, SessionsKept
<1>3. QED
  BY <1>1, <1>2, MainStep, OtherTaskStep, NetworkStep, AcceptStep, ReapStep, JobEndsStep
     DEF Sv!Next
-----------------------------------------------------------------------------
\* The two views of what the admissions promise are one.
LEMMA SameAdmissions == Sv!AdmissionsExact <=> AdmissionsExact
<1>1. Sv!LiveClients = LiveClients /\ \A i : Sv!LiveFrom(i) = LiveFrom(i)
  BY DEF Sv!LiveClients, LiveClients, Sv!Live, Live, Sv!LiveFrom, LiveFrom
<1>2. QED
  BY <1>1, SameCardinality DEF Sv!AdmissionsExact, AdmissionsExact, Sv!Ips, Ips

\* The invariant of the process, for any clients, addresses, slots and limits.
THEOREM ServingInvariantHolds == Sv!Spec => []Sv!ServingInvariant
<1>1. QED
  BY TasksBegin, TasksGoOn, PTL DEF Sv!Spec

\* The final save comes after everything that it has to save: no session is
\* left, nothing is held outside of an inventory, and every task has ended.
THEOREM SavedLastHolds == Sv!Spec => []SavedLast
<1>1. Sv!ServingInvariant => SavedLast
  BY DEF Sv!ServingInvariant, Sv!TasksJoined, SavedLast, Live, Sv!Waits
<1>2. QED
  BY <1>1, ServingInvariantHolds, PTL

\* The counts of the admissions are those of the connections, and the limits
\* hold, whatever ends a connection.
THEOREM AdmissionsExactHolds == Sv!Spec => []AdmissionsExact
<1>1. Sv!ServingInvariant => AdmissionsExact
  BY SameAdmissions DEF Sv!ServingInvariant
<1>2. QED
  BY <1>1, ServingInvariantHolds, PTL

\* A slot never runs two jobs, nor one whose permit is free again.
THEOREM JobsBoundedHolds == Sv!Spec => []JobsBounded
<1>1. Sv!ServingInvariant => JobsBounded
  <2> SUFFICES ASSUME Sv!ServingInvariant, NEW s \in Slots
               PROVE  jobs[s] <= (IF Free(s) THEN 0 ELSE 1)
    BY DEF JobsBounded
  <2>1. jobs[s] = IF "job" \in permits[s] THEN 1 ELSE 0
    BY DEF Sv!ServingInvariant, Sv!PermitsKept
  <2>2. QED
    BY <2>1 DEF Free
<1>2. QED
  BY <1>1, ServingInvariantHolds, PTL
=============================================================================
