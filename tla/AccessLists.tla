----------------------------- MODULE AccessLists ----------------------------
(***************************************************************************)
(* The operators, bans, allowlist and permissions of carbon-server: the    *)
(* commands that change them, one file of names for each, and the audit of *)
(* every command. A change is made in memory and then written to the file, *)
(* under the lock of the list; nothing undoes it when the write fails. The *)
(* file is replaced as world-save.json is (atomic_write), but a start only *)
(* reads the file itself, and takes a missing one for an empty list.       *)
(***************************************************************************)
EXTENDS AuditLog, FiniteSets

CONSTANTS Players,
          Console,  \* the actor that may do everything
          Attempts, \* the commands that each actor tries
          Stored,   \* the lists in the files to begin with
          MaxTime   \* the last second of the clock, for TLC

Lists == {"operators", "bans", "allowlist", "permissions"}
Names == {"op", "deop", "ban", "tempban", "pardon", "allow", "disallow", "grantperm", "revokeperm"}
\* What each list may have of a player: rules, seconds, or that it is listed.
Rules == [path: Seq(STRING), all: BOOLEAN, denied: BOOLEAN]
Entries(l) == IF l = "permissions" THEN Rules ELSE IF l = "bans" THEN Nat ELSE {"listed"}
Listing(l) == [Players -> SUBSET Entries(l)]
\* The arguments of a command: rules are granted and revoked.
Fits(name, value) ==
    IF name \in {"grantperm", "revokeperm"} THEN value \in Rules ELSE value \in Nat

ASSUME ListsAssumption ==
    /\ Actors \subseteq Players \union {Console} /\ MaxTime \in Nat
    /\ \A a \in Actors : \A c \in Attempts[a] :
          c.name \in Names /\ c.player \in Players /\ Fits(c.name, c.value)
    /\ \A s \in Stored : DOMAIN s = Lists /\ \A l \in Lists : s[l] \in Listing(l)

VARIABLES up,      \* the server runs
          clock,   \* unix_now
          lists,   \* in memory, for each list what it has of each player
          files,   \* the file of each list, its backup and its temporary
          job,     \* the command of each actor, and its next operation
          stored,  \* history: what was last put in place of each list
          unsaved, \* history: the lists that changed since, or were overlooked
          trusted  \* history: who got to manage rights from one who did

vars == <<up, clock, lists, files, job, stored, unsaved, trusted, auditVars>>

Nobody == [p \in Players |-> {}]
\* Bans are kept with the second they expire, this one for those that do not.
Forever == MaxTime + 1

\* A rule names a permission by its path, or with all everything under it.
Rule(path, all, denied) == [path |-> path, all |-> all, denied |-> denied]
PermissionMatches(rule, permission) ==
    IF rule.all THEN IsStrictPrefix(rule.path, permission) ELSE rule.path = permission
IsOperator(p) == lists["operators"][p] # {}
Explicit(p, permission) ==
    LET matching == {r \in lists["permissions"][p] : PermissionMatches(r, permission)}
    IN matching # {} /\ \A r \in matching : ~r.denied
HasPermission(p, permission) == IsOperator(p) \/ Explicit(p, permission)

Command(name) == <<"carbon", "command", name>>
Needs_ByName(name) == Command(name) \* mutant: the name of the command, always
Needs(name) ==
    Command(IF name \in {"grantperm", "revokeperm"} THEN "permissions"
            ELSE IF name \in {"allow", "disallow"} THEN "allowlist" ELSE name)
CommandAllowed(a, name) == a = Console \/ HasPermission(a, Needs(name))

Expired(p, now) == \E e \in lists["bans"][p] : e <= now
Banned(p) == lists["bans"][p] # {} /\ ~Expired(p, clock)
Manages(p) == \E right \in {"permissions", "op"} : HasPermission(p, Command(right))
-----------------------------------------------------------------------------
Absent == [is |-> "absent"]
Torn == [is |-> "torn"]
Whole(list) == [is |-> "whole", list |-> list]
Exists(file) == file.is # "absent"
Loaded(l) == IF Exists(files[l].primary) THEN files[l].primary.list ELSE Nobody

Idle == [at |-> "idle"]
At(a, step) == job[a].at = step
Saving == {"open", "write", "unlink", "move", "commit"}
Locked(l) == \E a \in Actors : job[a].at \in Saving /\ job[a].list = l

Init ==
    /\ up = TRUE
    /\ clock = 0
    /\ stored \in Stored
    /\ lists = stored
    /\ files = [l \in Lists |-> [primary |-> Whole(stored[l]), backup |-> Absent,
                                 temporary |-> Absent]]
    /\ job = [a \in Actors |-> Idle]
    /\ unsaved = {}
    /\ trusted = {p \in Players : Manages(p)}
    /\ AuditInit
-----------------------------------------------------------------------------
(* Commands. What the arguments are and how they are refused is left out.  *)

\* A command that is denied is audited too; one that is allowed goes on.
Dispatch(a) ==
    /\ up /\ job[a] = Idle /\ writing[a] = Nothing
    /\ \E c \in Attempts[a] :
        IF CommandAllowed(a, c.name)
        THEN /\ job' = [job EXCEPT ![a] = [at |-> "execute", name |-> c.name, player |-> c.player,
                    value |-> IF c.name = "tempban" THEN clock + c.value ELSE c.value]]
             /\ UNCHANGED auditVars
        ELSE Audited(a) /\ UNCHANGED job
    /\ UNCHANGED <<up, clock, lists, files, stored, unsaved, trusted>>

ListOf(name) ==
    CASE name \in {"op", "deop"} -> "operators"
      [] name \in {"ban", "tempban", "pardon", "login"} -> "bans"
      [] name \in {"allow", "disallow"} -> "allowlist"
      [] name \in {"grantperm", "revokeperm"} -> "permissions"
\* What a list has of the player afterwards.
Has(c) == lists[ListOf(c.name)][c.player]
SetOperator(c) == IF c.name = "op" THEN {"listed"} ELSE {}
SetAllowlisted(c) == IF c.name = "allow" THEN {"listed"} ELSE {}
BanPlayer(c, now) ==
    IF c.name = "ban" THEN {Forever} ELSE IF c.value <= now THEN Has(c) ELSE {c.value}
SetBanned(c, now) == IF c.name \in {"pardon", "login"} THEN {} ELSE BanPlayer(c, now)
GrantPermission(c) == Has(c) \union {c.value}
RevokePermission(c) == Has(c) \ {c.value}
Changed(c, now) ==
    CASE ListOf(c.name) = "operators" -> SetOperator(c)
      [] ListOf(c.name) = "allowlist" -> SetAllowlisted(c)
      [] ListOf(c.name) = "bans" -> SetBanned(c, now)
      [] c.name = "grantperm" -> GrantPermission(c)
      [] c.name = "revokeperm" -> RevokePermission(c)

\* The change in memory, and the beginning of its write.
Change(a, c) ==
    LET l == ListOf(c.name)
    IN /\ lists' = [lists EXCEPT ![l][c.player] = Changed(c, clock)]
       /\ job' = [job EXCEPT ![a] = [at |-> "open", list |-> l, name |-> c.name]]
       /\ unsaved' = unsaved \union {l}
       /\ trusted' = IF a = Console \/ a \in trusted
                     THEN trusted \union {p \in Players : Manages(p)'} ELSE trusted
Execute(a) ==
    /\ up /\ At(a, "execute")
    /\ ~Locked(ListOf(job[a].name))
    /\ IF Changed(job[a], clock) = Has(job[a])
       THEN job' = [job EXCEPT ![a] = Idle] /\ Audited(a)
            /\ UNCHANGED <<lists, unsaved, trusted>>
       ELSE Change(a, job[a]) /\ UNCHANGED auditVars
    /\ UNCHANGED <<up, clock, files, stored>>

\* active_ban, when a player logs in: the first who finds a ban expired
\* removes it, still under the lock that it looked under.
ActiveBan_Early(a, p) == \* mutant: a ban is removed in its last second
    /\ up /\ job[a] = Idle /\ writing[a] = Nothing
    /\ ~Locked("bans")
    /\ Expired(p, clock + 1)
    /\ Change(a, [name |-> "login", player |-> p])
    /\ UNCHANGED <<up, clock, files, stored, auditVars>>
ActiveBan(a, p) ==
    /\ up /\ job[a] = Idle /\ writing[a] = Nothing
    /\ ~Locked("bans")
    /\ Expired(p, clock)
    /\ Change(a, [name |-> "login", player |-> p])
    /\ UNCHANGED <<up, clock, files, stored, auditVars>>
-----------------------------------------------------------------------------
(* atomic_write, under the lock of the list.                               *)

Goto(a, step) == job' = [job EXCEPT ![a].at = step]
\* The lock is released, and the command, which a login is not, is audited.
Return(a) ==
    /\ job' = [job EXCEPT ![a] = Idle]
    /\ IF job[a].name = "login" THEN UNCHANGED auditVars ELSE Audited(a)
Unaudited == UNCHANGED <<up, clock, lists, trusted, auditVars>>

OpenTemporary(a) ==
    /\ up /\ At(a, "open")
    /\ files' = [files EXCEPT ![job[a].list].temporary = Torn]
    /\ Goto(a, "write")
    /\ UNCHANGED <<stored, unsaved>> /\ Unaudited
AfterWrite_Unlinking(f) == \* mutant: the backup goes even without a primary
    IF Exists(f.backup) THEN "unlink" ELSE IF Exists(f.primary) THEN "move" ELSE "commit"
AfterWrite(f) ==
    IF ~Exists(f.primary) THEN "commit" ELSE IF Exists(f.backup) THEN "unlink" ELSE "move"
WriteTemporary(a) ==
    /\ up /\ At(a, "write")
    /\ files' = [files EXCEPT ![job[a].list].temporary = Whole(lists[job[a].list])]
    /\ Goto(a, AfterWrite(files[job[a].list]))
    /\ UNCHANGED <<stored, unsaved>> /\ Unaudited
RemoveBackup(a) ==
    /\ up /\ At(a, "unlink")
    /\ files' = [files EXCEPT ![job[a].list].backup = Absent]
    /\ Goto(a, IF Exists(files[job[a].list].primary) THEN "move" ELSE "commit")
    /\ UNCHANGED <<stored, unsaved>> /\ Unaudited
MoveAside(a) ==
    /\ up /\ At(a, "move")
    /\ files' = [files EXCEPT ![job[a].list].backup = files[job[a].list].primary,
                              ![job[a].list].primary = Absent]
    /\ Goto(a, "commit")
    /\ UNCHANGED <<stored, unsaved>> /\ Unaudited
Commit(a) ==
    LET l == job[a].list
    IN /\ up /\ At(a, "commit")
       /\ files' = [files EXCEPT ![l].primary = files[l].temporary, ![l].temporary = Absent]
       /\ stored' = [stored EXCEPT ![l] = files[l].temporary.list]
       /\ unsaved' = unsaved \ {l}
       /\ Return(a)
       /\ UNCHANGED <<up, clock, lists, trusted>>
\* An operation fails. Where there is no primary by then the backup is renamed
\* back, which may fail as well.
Fail(a) ==
    LET f == files[job[a].list]
    IN /\ up /\ job[a].at \in Saving
       /\ \/ UNCHANGED files
          \/ /\ At(a, "commit") /\ Exists(f.backup) /\ ~Exists(f.primary)
             /\ files' = [files EXCEPT ![job[a].list].primary = f.backup,
                                       ![job[a].list].backup = Absent]
       /\ Return(a)
       /\ UNCHANGED <<up, clock, lists, stored, unsaved, trusted>>
-----------------------------------------------------------------------------
SecondPasses ==
    /\ clock < MaxTime
    /\ clock' = clock + 1
    /\ UNCHANGED <<up, lists, files, job, stored, unsaved, trusted, auditVars>>

\* What was in memory is kept here to compare it with what is loaded.
Kill ==
    /\ up
    /\ up' = FALSE
    /\ job' = [a \in Actors |-> Idle]
    /\ AuditKilled
    /\ UNCHANGED <<clock, lists, files, stored, unsaved, trusted>>

\* with_operator_file; a list whose file is missing is empty, whatever its
\* backup holds. A start may give back a right whose removal was not stored.
Overlooked(l) == ~Exists(files[l].primary) /\ stored[l] # Nobody
Start ==
    /\ ~up
    /\ \A l \in Lists : files[l].primary # Torn
    /\ up' = TRUE
    /\ lists' = [l \in Lists |-> Loaded(l)]
    /\ unsaved' = {l \in Lists : Overlooked(l)}
    /\ trusted' = IF {"operators", "permissions"} \intersect unsaved = {} THEN trusted
                  ELSE trusted \union {p \in Players : Manages(p)'}
    /\ LoadModerationRecords
    /\ UNCHANGED <<clock, files, job, stored>>

Lists1(a) ==
    \/ Dispatch(a) \/ Execute(a) \/ \E p \in Players : ActiveBan(a, p)
    \/ OpenTemporary(a) \/ WriteTemporary(a) \/ RemoveBackup(a) \/ MoveAside(a)
    \/ Commit(a) \/ Fail(a)
Audits(a) ==
    /\ up
    /\ AppendPiece(a) \/ AppendFails(a) \/ PushRecord(a)
    /\ UNCHANGED <<up, clock, lists, files, job, stored, unsaved, trusted>>
Next ==
    \/ \E a \in Actors : Lists1(a) \/ Audits(a)
    \/ SecondPasses \/ Kill \/ Start
Spec == Init /\ [][Next]_vars
-----------------------------------------------------------------------------
\* Whatever operation of a write is the last, the list that was put in place
\* last is in its file, or that file is missing and the list in the backup;
\* and unless a write is under way, failed or was overlooked, memory has it.
ListsStored ==
    \A l \in Lists :
        /\ \/ files[l].primary = Whole(stored[l])
           \/ files[l].primary = Absent /\ files[l].backup = Whole(stored[l])
        /\ l \notin unsaved => lists[l] = stored[l]

\* Nobody comes to manage rights but through the console or through somebody
\* who managed them: no sequence of commands that are denied, interleaved,
\* cut short or retried gives a right to make operators or to grant.
NoEscalation == \A p \in Players : Manages(p) => p \in trusted

\* A ban in force stays in force, through logins and commands about others,
\* failed writes, kills and starts, until it expires or a moderator changes it;
\* except that a start forgets what was not stored, or not in its place.
ByModerator(p) ==
    \E a \in Actors : At(a, "execute") /\ job[a].player = p /\ ListOf(job[a].name) = "bans"
Forgotten == ~up /\ ("bans" \in unsaved \/ Overlooked("bans"))
BansHold ==
    [][\A p \in Players :
        Banned(p) /\ ~Banned(p)' => Expired(p, clock') \/ ByModerator(p) \/ Forgotten]_<<lists, clock>>
-----------------------------------------------------------------------------
File(l) == {Absent, Torn} \union [is: {"whole"}, list: Listing(l)]
JobOK(j) ==
    \/ j = Idle
    \/ /\ j.at = "execute"
       /\ j = [at |-> "execute", name |-> j.name, player |-> j.player, value |-> j.value]
       /\ j.name \in Names /\ j.player \in Players /\ Fits(j.name, j.value)
    \/ j \in [at: Saving, list: Lists, name: Names \union {"login"}]
TypeOK ==
    /\ up \in BOOLEAN /\ clock \in Nat
    /\ DOMAIN lists = Lists /\ DOMAIN stored = Lists /\ DOMAIN files = Lists
    /\ \A l \in Lists :
          /\ lists[l] \in Listing(l) /\ stored[l] \in Listing(l)
          /\ files[l] \in [primary: File(l), backup: File(l), temporary: File(l)]
    /\ DOMAIN job = Actors /\ \A a \in Actors : JobOK(job[a])
    /\ unsaved \subseteq Lists /\ trusted \subseteq Players

\* What makes ListsStored true. A list is written by one actor at a time, and
\* not when the server is down.
OneSaver ==
    \A a, b \in Actors :
        job[a].at \in Saving /\ job[b].at \in Saving /\ job[a].list = job[b].list => a = b
DownIdle == up \/ \A a \in Actors : job[a] = Idle
\* From the write on, the temporary has the list as it is in memory, and what
\* is unlinked or moved aside has a primary in front of it.
SavesInOrder ==
    \A a \in Actors :
        /\ job[a].at \in {"unlink", "move"} => Exists(files[job[a].list].primary)
        /\ job[a].at \in {"unlink", "move", "commit"} =>
              files[job[a].list].temporary = Whole(lists[job[a].list])
\* What makes NoEscalation true: whoever is about to give rights has had them.
ByTrusted ==
    \A a \in Actors :
        At(a, "execute") /\ job[a].name \in {"op", "grantperm", "revokeperm"} =>
            a = Console \/ a \in trusted

ListsInvariant ==
    /\ TypeOK /\ OneSaver /\ DownIdle /\ SavesInOrder /\ ListsStored
    /\ ByTrusted /\ NoEscalation
=============================================================================
