-------------------------- MODULE AccessListsProofs --------------------------
(***************************************************************************)
(* ListsInvariant is inductive for any players, any actors, any commands   *)
(* that they try and any rules. A list is changed and written by the one   *)
(* actor that has its lock, so a write is followed alone (SaveStep), and   *)
(* a change in memory is either by somebody who is trusted or leaves the   *)
(* rights to manage no larger than they were (FewerManage).                *)
(***************************************************************************)
EXTENDS AccessLists, FiniteSetTheorems, TLAPS

LEMMA InitInvariant == Init => ListsInvariant
<1> SUFFICES ASSUME Init PROVE ListsInvariant
  OBVIOUS
<1>1. /\ DOMAIN stored = Lists /\ \A l \in Lists : stored[l] \in Listing(l)
      /\ lists = stored
  BY ListsAssumption DEF Init
<1>2. ASSUME NEW l \in Lists
      PROVE  /\ files[l] \in [primary: File(l), backup: File(l), temporary: File(l)]
             /\ files[l].primary = Whole(stored[l])
  <2>1. files[l] = [primary |-> Whole(stored[l]), backup |-> Absent, temporary |-> Absent]
    BY DEF Init
  <2>2. Whole(stored[l]) \in File(l) /\ Absent \in File(l)
    BY <1>1 DEF Whole, File
  <2>3. QED
    BY <2>1, <2>2
<1>3. DOMAIN files = Lists /\ DOMAIN job = Actors /\ \A a \in Actors : job[a] = Idle
  BY DEF Init
<1>4. TypeOK
  BY <1>1, <1>2, <1>3 DEF Init, TypeOK, JobOK
<1>5. OneSaver /\ DownIdle /\ SavesInOrder /\ ByTrusted
  BY <1>3 DEF OneSaver, DownIdle, SavesInOrder, ByTrusted, Idle, Saving, At
<1>6. ListsStored
  BY <1>1, <1>2 DEF ListsStored
<1>7. NoEscalation
  BY DEF Init, NoEscalation
<1>8. QED
  BY <1>4, <1>5, <1>6, <1>7 DEF ListsInvariant
-----------------------------------------------------------------------------
(* What a command does to its list.                                        *)

LEMMA JobOf ==
  ASSUME TypeOK, NEW a \in Actors
  PROVE  /\ job[a].at = "execute" =>
              job[a].name \in Names /\ job[a].player \in Players /\ Fits(job[a].name, job[a].value)
         /\ job[a].at \in Saving =>
              /\ job[a] \in [at: Saving, list: Lists, name: Names \union {"login"}]
              /\ job[a].list \in Lists
         /\ job[a] = Idle => job[a].at \notin Saving /\ job[a].at # "execute"
BY DEF TypeOK, JobOK, Idle, Saving

LEMMA ListOfCommand ==
  ASSUME NEW name \in Names \union {"login"}
  PROVE  /\ ListOf(name) \in Lists
         /\ ListOf(name) = "permissions" <=> name \in {"grantperm", "revokeperm"}
         /\ ListOf(name) = "operators" <=> name \in {"op", "deop"}
         /\ ListOf(name) = "bans" <=> name \in {"ban", "tempban", "pardon", "login"}
BY DEF ListOf, Names, Lists

LEMMA ChangedFits ==
  ASSUME TypeOK, NEW c, c.name \in Names \union {"login"}, c.player \in Players,
         c.name # "login" => Fits(c.name, c.value)
  PROVE  Changed(c, clock) \in SUBSET Entries(ListOf(c.name))
<1> DEFINE l == ListOf(c.name)
<1>1. l \in Lists /\ Has(c) \in SUBSET Entries(l)
  BY ListOfCommand DEF TypeOK, Listing, Has
<1>2. l # "permissions" => c.name # "grantperm" /\ c.name # "revokeperm"
  BY ListOfCommand
<1>3. CASE l = "operators"
  <2>1. Changed(c, clock) = SetOperator(c)
    BY <1>2, <1>3 DEF Changed
  <2>2. Entries(l) = {"listed"}
    BY <1>3 DEF Entries
  <2>3. QED
    BY <2>1, <2>2 DEF SetOperator
<1>4. CASE l = "allowlist"
  <2>1. Changed(c, clock) = SetAllowlisted(c)
    BY <1>2, <1>4 DEF Changed
  <2>2. Entries(l) = {"listed"}
    BY <1>4 DEF Entries
  <2>3. QED
    BY <2>1, <2>2 DEF SetAllowlisted
<1>5. CASE l = "bans"
  <2>1. Changed(c, clock) = SetBanned(c, clock) /\ Entries(l) = Nat
    BY <1>2, <1>5 DEF Changed, Entries
  <2>2. Forever \in Nat
    BY ListsAssumption DEF Forever
  <2>3. c.name = "tempban" => c.value \in Nat
    BY DEF Fits
  <2>4. c.name \in {"ban", "tempban", "pardon", "login"}
    BY <1>5, ListOfCommand
  <2>5. QED
    BY <1>1, <2>1, <2>2, <2>3, <2>4 DEF SetBanned, BanPlayer
<1>6. CASE l = "permissions"
  <2>1. Entries(l) = Rules /\ c.value \in Rules /\ c.name \in {"grantperm", "revokeperm"}
    BY <1>6, ListOfCommand DEF Entries, Fits
  <2>2. Changed(c, clock) \in {GrantPermission(c), RevokePermission(c)}
    BY <1>6, <2>1 DEF Changed
  <2>3. QED
    BY <1>1, <2>1, <2>2 DEF GrantPermission, RevokePermission
<1>7. QED
  BY <1>1, <1>3, <1>4, <1>5, <1>6 DEF Lists

\* Who loses what the lists have of them comes by no right.
LEMMA FewerManage ==
  ASSUME \A p \in Players : lists'["operators"][p] \in {lists["operators"][p], {}},
         \A p \in Players : lists'["permissions"][p] \in {lists["permissions"][p], {}}
  PROVE  \A p \in Players : Manages(p)' => Manages(p)
<1> SUFFICES ASSUME NEW p \in Players, NEW right \in {"permissions", "op"},
                    HasPermission(p, Command(right))'
             PROVE  HasPermission(p, Command(right))
  BY DEF Manages
<1>1. CASE lists'["operators"][p] # {}
  BY <1>1 DEF HasPermission, IsOperator
<1>2. CASE lists'["operators"][p] = {}
  <2>1. Explicit(p, Command(right))'
    BY <1>2 DEF HasPermission, IsOperator
  <2>2. lists'["permissions"][p] # {}
    BY <2>1 DEF Explicit
  <2>3. lists'["permissions"][p] = lists["permissions"][p]
    BY <2>2
  <2>4. Explicit(p, Command(right))
    BY <2>1, <2>3 DEF Explicit, Command, PermissionMatches
  <2>5. QED
    BY <2>4 DEF HasPermission
<1>3. QED
  BY <1>1, <1>2

\* Whoever may use the commands that give rights manages rights.
LEMMA AllowedManages ==
  ASSUME NEW a \in Actors, NEW name \in {"op", "grantperm", "revokeperm"},
         CommandAllowed(a, name), a # Console
  PROVE  Manages(a)
<1>1. Needs(name) \in {Command("permissions"), Command("op")}
  BY DEF Needs
<1>2. QED
  BY <1>1 DEF CommandAllowed, Manages

LEMMA ChangeStep ==
  ASSUME ListsInvariant, up, NEW a \in Actors, job[a].at \notin Saving,
         NEW c, c.name \in Names \union {"login"}, c.player \in Players,
         c.name # "login" => Fits(c.name, c.value),
         ~Locked(ListOf(c.name)),
         c.name \in {"op", "grantperm", "revokeperm"} => a = Console \/ a \in trusted,
         Change(a, c), UNCHANGED <<up, clock, files, stored>>
  PROVE  ListsInvariant'
<1> DEFINE l == ListOf(c.name)
           new == Changed(c, clock)
           j == [at |-> "open", list |-> l, name |-> c.name]
<1>1. TypeOK /\ l \in Lists /\ new \in SUBSET Entries(l)
  BY ListOfCommand, ChangedFits DEF ListsInvariant
<1>2. /\ lists' = [lists EXCEPT ![l] = [lists[l] EXCEPT ![c.player] = new]]
      /\ job' = [job EXCEPT ![a] = j]
      /\ unsaved' = unsaved \union {l}
  BY DEF Change
<1>3. trusted' = IF a = Console \/ a \in trusted
                 THEN trusted \union {p \in Players : Manages(p)'} ELSE trusted
  BY DEF Change
<1>4. \A b \in Actors : job[b].at \in Saving => job[b].list # l
  BY DEF Locked
<1>5. \A k \in Lists : lists'[k] = IF k = l THEN [lists[l] EXCEPT ![c.player] = new] ELSE lists[k]
  BY <1>1, <1>2 DEF TypeOK
<1>6. \A b \in Actors : job'[b] = IF b = a THEN j ELSE job[b]
  BY <1>1, <1>2 DEF TypeOK
<1>7. j.at = "open" /\ j.at \in Saving /\ j.list = l /\ JobOK(j)
  BY <1>1 DEF JobOK, Saving
<1> HIDE DEF l, new, j
<1>8. TypeOK'
  <2>1. \A k \in Lists : lists'[k] \in Listing(k)
    BY <1>1, <1>5 DEF TypeOK, Listing
  <2>2. \A b \in Actors : JobOK(job'[b])
    BY <1>1, <1>6, <1>7 DEF TypeOK
  <2>3. trusted' \subseteq Players
    BY <1>1, <1>3 DEF TypeOK
  <2>4. DOMAIN lists' = Lists /\ DOMAIN job' = Actors /\ unsaved' \subseteq Lists
    BY <1>1, <1>2 DEF TypeOK
  <2>5. QED
    BY <1>1, <2>1, <2>2, <2>3, <2>4 DEF TypeOK
<1>9. OneSaver' /\ DownIdle'
  BY <1>4, <1>6, <1>7 DEF ListsInvariant, OneSaver, DownIdle
<1>10. SavesInOrder'
  <2> SUFFICES ASSUME NEW b \in Actors
               PROVE  /\ job'[b].at \in {"unlink", "move"} => Exists(files'[job'[b].list].primary)
                      /\ job'[b].at \in {"unlink", "move", "commit"} =>
                            files'[job'[b].list].temporary = Whole(lists'[job'[b].list])
    BY DEF SavesInOrder
  <2>1. CASE b = a
    BY <1>6, <1>7, <2>1
  <2>2. CASE b # a /\ job[b].at \in Saving
    <3>1. job'[b] = job[b] /\ job[b].list # l /\ job[b].list \in Lists
      BY <1>1, <1>4, <1>6, <2>2, JobOf
    <3>2. lists'[job[b].list] = lists[job[b].list] /\ files' = files
      BY <1>5, <3>1
    <3>3. QED
      BY <3>1, <3>2 DEF ListsInvariant, SavesInOrder
  <2>3. CASE b # a /\ job[b].at \notin Saving
    BY <1>6, <2>3 DEF Saving
  <2>4. QED
    BY <2>1, <2>2, <2>3
<1>11. ListsStored'
  BY <1>2, <1>5 DEF ListsInvariant, ListsStored
<1>12. ByTrusted'
  <2>1. trusted \subseteq trusted'
    BY <1>3
  <2>2. QED
    BY <1>6, <1>7, <2>1 DEF ListsInvariant, ByTrusted, At
<1>13. NoEscalation'
  <2>1. CASE a = Console \/ a \in trusted
    BY <1>3, <2>1 DEF NoEscalation
  <2>2. CASE ~(a = Console \/ a \in trusted)
    <3>1. c.name \notin {"op", "grantperm", "revokeperm"}
      BY <2>2
    <3>2. l # "permissions" /\ (l = "operators" => c.name = "deop")
      BY <3>1, ListOfCommand DEF l
    <3>3. l = "operators" => new = {}
      BY <3>2 DEF l, new, Changed, SetOperator
    <3>4. \A p \in Players : lists'["operators"][p] \in {lists["operators"][p], {}}
      BY <1>1, <1>5, <3>3 DEF TypeOK, Listing, Lists
    <3>5. \A p \in Players : lists'["permissions"][p] \in {lists["permissions"][p], {}}
      BY <1>5, <3>2 DEF Lists
    <3>6. \A p \in Players : Manages(p)' => Manages(p)
      BY <3>4, <3>5, FewerManage
    <3>7. QED
      BY <1>3, <2>2, <3>6 DEF ListsInvariant, NoEscalation
  <2>3. QED
    BY <2>1, <2>2
<1>14. QED
  BY <1>8, <1>9, <1>10, <1>11, <1>12, <1>13 DEF ListsInvariant
-----------------------------------------------------------------------------
(* Commands and logins.                                                    *)

\* An actor that is not saving takes up a command or ends one.
LEMMA TakesUp ==
  ASSUME ListsInvariant, up, NEW a \in Actors,
         NEW j, JobOK(j), j.at \notin Saving, job' = [job EXCEPT ![a] = j],
         j.at = "execute" /\ j.name \in {"op", "grantperm", "revokeperm"} =>
            a = Console \/ a \in trusted,
         UNCHANGED <<up, clock, lists, files, stored, unsaved, trusted>>
  PROVE  ListsInvariant'
<1>1. \A b \in Actors : job'[b] = IF b = a THEN j ELSE job[b]
  BY DEF ListsInvariant, TypeOK
<1>2. TypeOK'
  BY <1>1 DEF ListsInvariant, TypeOK
<1>3. OneSaver' /\ DownIdle'
  BY <1>1 DEF ListsInvariant, OneSaver, DownIdle
<1>4. SavesInOrder'
  BY <1>1 DEF ListsInvariant, SavesInOrder, Saving
<1>5. ListsStored'
  BY DEF ListsInvariant, ListsStored
<1>6. ByTrusted'
  BY <1>1 DEF ListsInvariant, ByTrusted, At
<1>7. NoEscalation'
  BY FewerManage DEF ListsInvariant, NoEscalation
<1>8. QED
  BY <1>2, <1>3, <1>4, <1>5, <1>6, <1>7 DEF ListsInvariant

\* The audit and the clock leave the lists and their files as they are.
LEMMA SameLists ==
  ASSUME ListsInvariant, clock' \in Nat,
         UNCHANGED <<up, lists, files, job, stored, unsaved, trusted>>
  PROVE  ListsInvariant'
<1>1. TypeOK'
  BY DEF ListsInvariant, TypeOK
<1>2. OneSaver' /\ DownIdle' /\ SavesInOrder' /\ ListsStored'
  BY DEF ListsInvariant, OneSaver, DownIdle, SavesInOrder, ListsStored
<1>3. ByTrusted'
  BY DEF ListsInvariant, ByTrusted, At
<1>4. NoEscalation'
  BY FewerManage DEF ListsInvariant, NoEscalation
<1>5. QED
  BY <1>1, <1>2, <1>3, <1>4 DEF ListsInvariant

LEMMA DispatchStep ==
  ASSUME ListsInvariant, NEW a \in Actors, Dispatch(a)
  PROVE  ListsInvariant'
<1>1. PICK c \in Attempts[a] :
        IF CommandAllowed(a, c.name)
        THEN /\ job' = [job EXCEPT ![a] = [at |-> "execute", name |-> c.name, player |-> c.player,
                    value |-> IF c.name = "tempban" THEN clock + c.value ELSE c.value]]
             /\ UNCHANGED auditVars
        ELSE Audited(a) /\ UNCHANGED job
  BY DEF Dispatch
<1>2. up /\ UNCHANGED <<up, clock, lists, files, stored, unsaved, trusted>>
  BY DEF Dispatch
<1>3. CASE CommandAllowed(a, c.name)
  <2> DEFINE value == IF c.name = "tempban" THEN clock + c.value ELSE c.value
             j == [at |-> "execute", name |-> c.name, player |-> c.player, value |-> value]
  <2>1. c.name \in Names /\ c.player \in Players /\ Fits(c.name, c.value)
    BY ListsAssumption
  <2>2. Fits(c.name, value)
    <3>1. clock \in Nat
      BY DEF ListsInvariant, TypeOK
    <3>2. CASE c.name = "tempban"
      BY <2>1, <3>1, <3>2 DEF Fits
    <3>3. CASE c.name # "tempban"
      BY <2>1, <3>3
    <3>4. QED
      BY <3>2, <3>3
  <2>3. job' = [job EXCEPT ![a] = j]
    BY <1>1, <1>3
  <2> HIDE DEF value
  <2>4. JobOK(j) /\ j.at = "execute" /\ j.at \notin Saving /\ j.name = c.name
    BY <2>1, <2>2 DEF JobOK, Saving
  <2>5. c.name \in {"op", "grantperm", "revokeperm"} => a = Console \/ a \in trusted
    <3> SUFFICES ASSUME c.name \in {"op", "grantperm", "revokeperm"}, a # Console
                 PROVE  a \in trusted
      OBVIOUS
    <3>1. a \in Players
      BY ListsAssumption
    <3>2. Manages(a)
      BY <1>3, AllowedManages
    <3>3. QED
      BY <3>1, <3>2 DEF ListsInvariant, NoEscalation
  <2>6. QED
    <3> HIDE DEF j
    <3> QED
      BY <1>2, <2>3, <2>4, <2>5, TakesUp
<1>4. CASE ~CommandAllowed(a, c.name)
  <2>1. UNCHANGED job /\ clock \in Nat
    BY <1>1, <1>4 DEF ListsInvariant, TypeOK
  <2>2. QED
    BY <1>2, <2>1, SameLists
<1>5. QED
  BY <1>3, <1>4

LEMMA IdleJob == JobOK(Idle) /\ Idle.at \notin Saving /\ Idle.at # "execute"
BY DEF JobOK, Idle, Saving

LEMMA ExecuteStep ==
  ASSUME ListsInvariant, NEW a \in Actors, Execute(a)
  PROVE  ListsInvariant'
<1>1. /\ up /\ At(a, "execute") /\ ~Locked(ListOf(job[a].name))
      /\ UNCHANGED <<up, clock, files, stored>>
  BY DEF Execute
<1>2. CASE Changed(job[a], clock) = Has(job[a])
  <2>1. job' = [job EXCEPT ![a] = Idle] /\ UNCHANGED <<lists, unsaved, trusted>>
    BY <1>2 DEF Execute
  <2>2. QED
    BY <1>1, <2>1, IdleJob, TakesUp
<1>3. CASE Changed(job[a], clock) # Has(job[a])
  <2>1. Change(a, job[a])
    BY <1>3 DEF Execute
  <2>2. /\ job[a].name \in Names /\ job[a].player \in Players
        /\ Fits(job[a].name, job[a].value)
        /\ job[a].at \notin Saving
    BY <1>1, JobOf DEF ListsInvariant, At, Saving
  <2>3. job[a].name \in {"op", "grantperm", "revokeperm"} => a = Console \/ a \in trusted
    BY <1>1 DEF ListsInvariant, ByTrusted
  <2>4. QED
    BY <1>1, <2>1, <2>2, <2>3, ChangeStep
<1>4. QED
  BY <1>2, <1>3

LEMMA ActiveBanStep ==
  ASSUME ListsInvariant, NEW a \in Actors, NEW p \in Players, ActiveBan(a, p)
  PROVE  ListsInvariant'
<1> DEFINE c == [name |-> "login", player |-> p]
<1>1. /\ up /\ job[a] = Idle /\ ~Locked("bans") /\ Change(a, c)
      /\ UNCHANGED <<up, clock, files, stored>>
  BY DEF ActiveBan
<1>2. /\ c.name = "login" /\ c.player = p /\ ListOf(c.name) = "bans"
      /\ job[a].at \notin Saving
  BY <1>1, IdleJob DEF ListOf
<1>3. QED
  <2> HIDE DEF c
  <2> QED
    BY <1>1, <1>2, ChangeStep
-----------------------------------------------------------------------------
(* Writes.                                                                 *)

\* One operation of the write of one list: what it leaves to the others, and
\* what it has to show of its own file.
LEMMA SaveStep ==
  ASSUME ListsInvariant, up, NEW a \in Actors, NEW l \in Lists,
         job[a].at \in Saving, job[a].list = l,
         NEW j, JobOK(j), j = Idle \/ (j.at \in Saving /\ j.list = l),
         job' = [job EXCEPT ![a] = j],
         NEW f \in [primary: File(l), backup: File(l), temporary: File(l)],
         files' = [files EXCEPT ![l] = f] \/ (UNCHANGED files /\ f = files[l]),
         NEW s \in Listing(l),
         stored' = [stored EXCEPT ![l] = s] \/ (UNCHANGED stored /\ s = stored[l]),
         unsaved' \in {unsaved, unsaved \ {l}},
         l \notin unsaved' => lists[l] = s,
         f.primary = Whole(s) \/ (f.primary = Absent /\ f.backup = Whole(s)),
         j.at \in {"unlink", "move"} => Exists(f.primary),
         j.at \in {"unlink", "move", "commit"} => f.temporary = Whole(lists[l]),
         UNCHANGED <<up, clock, lists, trusted>>
  PROVE  ListsInvariant'
<1>1. /\ \A b \in Actors : job'[b] = IF b = a THEN j ELSE job[b]
      /\ \A k \in Lists : files'[k] = IF k = l THEN f ELSE files[k]
      /\ \A k \in Lists : stored'[k] = IF k = l THEN s ELSE stored[k]
      /\ DOMAIN job' = Actors /\ DOMAIN files' = Lists /\ DOMAIN stored' = Lists
  BY DEF ListsInvariant, TypeOK
<1>2. \A b \in Actors : b # a /\ job[b].at \in Saving => job[b].list # l /\ job[b].list \in Lists
  BY JobOf DEF ListsInvariant, OneSaver
<1>3. TypeOK'
  <2>1. \A b \in Actors : JobOK(job'[b])
    BY <1>1 DEF ListsInvariant, TypeOK
  <2>2. ASSUME NEW k \in Lists
        PROVE  /\ lists'[k] \in Listing(k) /\ stored'[k] \in Listing(k)
               /\ files'[k] \in [primary: File(k), backup: File(k), temporary: File(k)]
    BY <1>1 DEF ListsInvariant, TypeOK
  <2>3. QED
    BY <1>1, <2>1, <2>2 DEF ListsInvariant, TypeOK
<1>4. OneSaver'
  BY <1>1, <1>2, IdleJob DEF ListsInvariant, OneSaver
<1>5. DownIdle'
  BY DEF DownIdle
<1>6. SavesInOrder'
  <2> SUFFICES ASSUME NEW b \in Actors
               PROVE  /\ job'[b].at \in {"unlink", "move"} => Exists(files'[job'[b].list].primary)
                      /\ job'[b].at \in {"unlink", "move", "commit"} =>
                            files'[job'[b].list].temporary = Whole(lists'[job'[b].list])
    BY DEF SavesInOrder
  <2>1. CASE b = a /\ j = Idle
    BY <1>1, <2>1 DEF Idle
  <2>2. CASE b = a /\ j # Idle
    <3>1. job'[b] = j /\ j.list = l /\ files'[l] = f /\ lists' = lists
      BY <1>1, <2>2
    <3>2. QED
      BY <3>1
  <2>3. CASE b # a /\ job[b].at \in Saving
    <3>1. job'[b] = job[b] /\ files'[job[b].list] = files[job[b].list] /\ lists' = lists
      BY <1>1, <1>2, <2>3
    <3>2. QED
      BY <3>1 DEF ListsInvariant, SavesInOrder
  <2>4. CASE b # a /\ job[b].at \notin Saving
    BY <1>1, <2>4 DEF Saving
  <2>5. QED
    BY <2>1, <2>2, <2>3, <2>4
<1>7. ListsStored'
  <2> SUFFICES ASSUME NEW k \in Lists
               PROVE  /\ \/ files'[k].primary = Whole(stored'[k])
                         \/ files'[k].primary = Absent /\ files'[k].backup = Whole(stored'[k])
                      /\ k \notin unsaved' => lists'[k] = stored'[k]
    BY DEF ListsStored
  <2>1. CASE k = l
    BY <1>1, <2>1
  <2>2. CASE k # l
    <3>1. files'[k] = files[k] /\ stored'[k] = stored[k] /\ (k \in unsaved' <=> k \in unsaved)
      BY <1>1, <2>2
    <3>2. QED
      BY <3>1 DEF ListsInvariant, ListsStored
  <2>3. QED
    BY <2>1, <2>2
<1>8. ByTrusted'
  BY <1>1, IdleJob DEF ListsInvariant, ByTrusted, At, Saving
<1>9. NoEscalation'
  BY FewerManage DEF ListsInvariant, NoEscalation
<1>10. QED
  BY <1>3, <1>4, <1>5, <1>6, <1>7, <1>8, <1>9 DEF ListsInvariant

LEMMA SaverOf ==
  ASSUME ListsInvariant, NEW a \in Actors, job[a].at \in Saving
  PROVE  /\ job[a].list \in Lists /\ job[a].name \in Names \union {"login"}
         /\ files[job[a].list] \in [primary: File(job[a].list), backup: File(job[a].list),
                                     temporary: File(job[a].list)]
         /\ lists[job[a].list] \in Listing(job[a].list)
         /\ stored[job[a].list] \in Listing(job[a].list)
<1>1. /\ job[a] \in [at: Saving, list: Lists, name: Names \union {"login"}]
      /\ job[a].list \in Lists
  BY JobOf DEF ListsInvariant
<1>2. job[a].name \in Names \union {"login"}
  BY <1>1
<1>3. QED
  BY <1>1, <1>2 DEF ListsInvariant, TypeOK

LEMMA GotoStep ==
  ASSUME ListsInvariant, NEW a \in Actors, job[a].at \in Saving,
         NEW step \in Saving, Goto(a, step)
  PROVE  \E j : /\ job' = [job EXCEPT ![a] = j] /\ JobOK(j)
                /\ j.at = step /\ j.list = job[a].list
<1>1. job[a] \in [at: Saving, list: Lists, name: Names \union {"login"}]
  BY JobOf DEF ListsInvariant
<1>2. [job[a] EXCEPT !.at = step] \in [at: Saving, list: Lists, name: Names \union {"login"}]
  BY <1>1
<1>3. job' = [job EXCEPT ![a] = [job[a] EXCEPT !.at = step]]
  BY DEF Goto
<1>4. JobOK([job[a] EXCEPT !.at = step])
  BY <1>2 DEF JobOK
<1>5. [job[a] EXCEPT !.at = step].at = step /\ [job[a] EXCEPT !.at = step].list = job[a].list
  BY <1>1
<1>6. QED
  BY <1>3, <1>4, <1>5

LEMMA OpenTemporaryStep ==
  ASSUME ListsInvariant, NEW a \in Actors, OpenTemporary(a)
  PROVE  ListsInvariant'
<1> DEFINE l == job[a].list
           f == [files[l] EXCEPT !.temporary = Torn]
<1>1. /\ up /\ job[a].at \in Saving /\ Goto(a, "write") /\ "write" \in Saving
      /\ UNCHANGED <<up, clock, lists, trusted, stored, unsaved>>
      /\ files' = [files EXCEPT ![l] = f]
  BY DEF OpenTemporary, At, Saving, Unaudited
<1>2. l \in Lists /\ Torn \in File(l)
  BY <1>1, SaverOf DEF File
<1>3. /\ f \in [primary: File(l), backup: File(l), temporary: File(l)]
      /\ f.primary = files[l].primary /\ f.backup = files[l].backup
  BY <1>1, <1>2, SaverOf
<1>4. PICK j : /\ job' = [job EXCEPT ![a] = j] /\ JobOK(j) /\ j.at = "write" /\ j.list = l
  BY <1>1, GotoStep
<1>5. /\ f.primary = Whole(stored[l]) \/ (f.primary = Absent /\ f.backup = Whole(stored[l]))
      /\ l \notin unsaved => lists[l] = stored[l]
  BY <1>2, <1>3 DEF ListsInvariant, ListsStored
<1>6. QED
  <2>1. l \in Lists /\ stored[l] \in Listing(l) /\ UNCHANGED stored
    BY <1>1, SaverOf
  <2> HIDE DEF f
  <2>2. QED
    BY <1>1, <1>3, <1>4, <1>5, <2>1, SaveStep

LEMMA WriteTemporaryStep ==
  ASSUME ListsInvariant, NEW a \in Actors, WriteTemporary(a)
  PROVE  ListsInvariant'
<1> DEFINE l == job[a].list
           f == [files[l] EXCEPT !.temporary = Whole(lists[l])]
           step == AfterWrite(files[l])
<1>1. /\ up /\ job[a].at \in Saving /\ Goto(a, step)
      /\ UNCHANGED <<up, clock, lists, trusted, stored, unsaved>>
      /\ files' = [files EXCEPT ![l] = f]
  BY DEF WriteTemporary, At, Saving, Unaudited
<1>2. l \in Lists /\ Whole(lists[l]) \in File(l)
  BY <1>1, SaverOf DEF File, Whole
<1>3. /\ f \in [primary: File(l), backup: File(l), temporary: File(l)]
      /\ f.primary = files[l].primary /\ f.backup = files[l].backup
      /\ f.temporary = Whole(lists[l])
  BY <1>1, <1>2, SaverOf
<1>4. /\ step \in {"commit", "unlink", "move"} /\ step \in Saving
      /\ step \in {"unlink", "move"} => Exists(files[l].primary)
  BY DEF AfterWrite, Saving
<1>5. PICK j : /\ job' = [job EXCEPT ![a] = j] /\ JobOK(j) /\ j.at = step /\ j.list = l
  BY <1>1, <1>4, GotoStep
<1>6. /\ f.primary = Whole(stored[l]) \/ (f.primary = Absent /\ f.backup = Whole(stored[l]))
      /\ l \notin unsaved => lists[l] = stored[l]
  BY <1>2, <1>3 DEF ListsInvariant, ListsStored
<1>7. QED
  <2>1. l \in Lists /\ stored[l] \in Listing(l) /\ UNCHANGED stored
    BY <1>1, SaverOf
  <2> HIDE DEF f, step
  <2>2. QED
    BY <1>1, <1>3, <1>4, <1>5, <1>6, <2>1, SaveStep

LEMMA RemoveBackupStep ==
  ASSUME ListsInvariant, NEW a \in Actors, RemoveBackup(a)
  PROVE  ListsInvariant'
<1> DEFINE l == job[a].list
           f == [files[l] EXCEPT !.backup = Absent]
<1>1. /\ up /\ job[a].at = "unlink" /\ job[a].at \in Saving
      /\ UNCHANGED <<up, clock, lists, trusted, stored, unsaved>>
      /\ files' = [files EXCEPT ![l] = f]
  BY DEF RemoveBackup, At, Saving, Unaudited
<1>2. Exists(files[l].primary) /\ files[l].temporary = Whole(lists[l])
  BY <1>1 DEF ListsInvariant, SavesInOrder
<1>3. Goto(a, "move") /\ "move" \in Saving
  BY <1>2 DEF RemoveBackup, Saving
<1>4. l \in Lists /\ Absent \in File(l)
  BY <1>1, SaverOf DEF File
<1>5. /\ f \in [primary: File(l), backup: File(l), temporary: File(l)]
      /\ f.primary = files[l].primary /\ f.temporary = files[l].temporary
  BY <1>1, <1>4, SaverOf
<1>6. PICK j : /\ job' = [job EXCEPT ![a] = j] /\ JobOK(j) /\ j.at = "move" /\ j.list = l
  BY <1>1, <1>3, GotoStep
<1>7. f.primary = Whole(stored[l]) /\ (l \notin unsaved => lists[l] = stored[l])
  BY <1>2, <1>4, <1>5 DEF ListsInvariant, ListsStored, Exists, Absent
<1>8. QED
  <2>1. l \in Lists /\ stored[l] \in Listing(l) /\ UNCHANGED stored
    BY <1>1, SaverOf
  <2> HIDE DEF f
  <2>2. QED
    BY <1>1, <1>2, <1>3, <1>5, <1>6, <1>7, <2>1, SaveStep

LEMMA MoveAsideStep ==
  ASSUME ListsInvariant, NEW a \in Actors, MoveAside(a)
  PROVE  ListsInvariant'
<1> DEFINE l == job[a].list
           f == [files[l] EXCEPT !.backup = files[l].primary, !.primary = Absent]
<1>1. /\ up /\ job[a].at = "move" /\ job[a].at \in Saving
      /\ Goto(a, "commit") /\ "commit" \in Saving
      /\ UNCHANGED <<up, clock, lists, trusted, stored, unsaved>>
  BY DEF MoveAside, At, Saving, Unaudited
<1>2. Exists(files[l].primary) /\ files[l].temporary = Whole(lists[l])
  BY <1>1 DEF ListsInvariant, SavesInOrder
<1>3. l \in Lists /\ Absent \in File(l)
  BY <1>1, SaverOf DEF File
<1>4. files' = [files EXCEPT ![l] = f]
  BY <1>1, <1>3, SaverOf DEF MoveAside, ListsInvariant, TypeOK
<1>5. /\ f \in [primary: File(l), backup: File(l), temporary: File(l)]
      /\ f.primary = Absent /\ f.backup = files[l].primary /\ f.temporary = files[l].temporary
  BY <1>1, <1>3, SaverOf
<1>6. PICK j : /\ job' = [job EXCEPT ![a] = j] /\ JobOK(j) /\ j.at = "commit" /\ j.list = l
  BY <1>1, GotoStep
<1>7. files[l].primary = Whole(stored[l]) /\ (l \notin unsaved => lists[l] = stored[l])
  BY <1>2, <1>3 DEF ListsInvariant, ListsStored, Exists, Absent
<1>8. QED
  <2>1. l \in Lists /\ stored[l] \in Listing(l) /\ UNCHANGED stored
    BY <1>1, SaverOf
  <2> HIDE DEF f
  <2>2. QED
    BY <1>1, <1>2, <1>4, <1>5, <1>6, <1>7, <2>1, SaveStep

LEMMA CommitStep ==
  ASSUME ListsInvariant, NEW a \in Actors, Commit(a)
  PROVE  ListsInvariant'
<1> DEFINE l == job[a].list
           f == [files[l] EXCEPT !.primary = files[l].temporary, !.temporary = Absent]
<1>1. /\ up /\ job[a].at = "commit" /\ job[a].at \in Saving
      /\ job' = [job EXCEPT ![a] = Idle] /\ unsaved' = unsaved \ {l}
      /\ UNCHANGED <<up, clock, lists, trusted>>
      /\ stored' = [stored EXCEPT ![l] = files[l].temporary.list]
  BY DEF Commit, At, Saving, Return
<1>2. files[l].temporary = Whole(lists[l]) /\ files[l].temporary.list = lists[l]
  BY <1>1 DEF ListsInvariant, SavesInOrder, Whole
<1>3. l \in Lists /\ Absent \in File(l) /\ lists[l] \in Listing(l)
  BY <1>1, SaverOf DEF File
<1>4. files' = [files EXCEPT ![l] = f]
  BY <1>1, <1>3, SaverOf DEF Commit, ListsInvariant, TypeOK
<1>5. /\ f \in [primary: File(l), backup: File(l), temporary: File(l)]
      /\ f.primary = Whole(lists[l])
  BY <1>1, <1>2, <1>3, SaverOf
<1>6. QED
  <2> HIDE DEF f
  <2> QED
    BY <1>1, <1>2, <1>3, <1>4, <1>5, IdleJob, SaveStep DEF Saving

LEMMA FailStep ==
  ASSUME ListsInvariant, NEW a \in Actors, Fail(a)
  PROVE  ListsInvariant'
<1> DEFINE l == job[a].list
<1>1. /\ up /\ job[a].at \in Saving /\ job' = [job EXCEPT ![a] = Idle]
      /\ UNCHANGED <<up, clock, lists, stored, unsaved, trusted>>
  BY DEF Fail, Return
<1>2. /\ l \in Lists /\ stored[l] \in Listing(l) /\ Absent \in File(l)
      /\ UNCHANGED stored
      /\ files[l] \in [primary: File(l), backup: File(l), temporary: File(l)]
  BY <1>1, SaverOf DEF File
<1>3. /\ \/ files[l].primary = Whole(stored[l])
         \/ files[l].primary = Absent /\ files[l].backup = Whole(stored[l])
      /\ l \notin unsaved => lists[l] = stored[l]
  BY <1>2 DEF ListsInvariant, ListsStored
<1>4. CASE UNCHANGED files
  BY <1>1, <1>2, <1>3, <1>4, IdleJob, SaveStep DEF Saving
<1>5. CASE /\ Exists(files[l].backup) /\ ~Exists(files[l].primary)
           /\ files' = [files EXCEPT ![l].primary = files[l].backup, ![l].backup = Absent]
  <2> DEFINE f == [files[l] EXCEPT !.primary = files[l].backup, !.backup = Absent]
  <2>1. files' = [files EXCEPT ![l] = f]
    BY <1>2, <1>5 DEF ListsInvariant, TypeOK
  <2>2. files[l].backup = Whole(stored[l])
    BY <1>3, <1>5 DEF Exists, Whole
  <2>3. /\ f \in [primary: File(l), backup: File(l), temporary: File(l)]
        /\ f.primary = Whole(stored[l])
    BY <1>2, <2>2
  <2>4. QED
    <3> HIDE DEF f
    <3> QED
      BY <1>1, <1>2, <1>3, <2>1, <2>3, IdleJob, SaveStep DEF Saving
<1>6. QED
  BY <1>4, <1>5 DEF Fail
-----------------------------------------------------------------------------
(* Kills and starts.                                                       *)

LEMMA KillStep ==
  ASSUME ListsInvariant, Kill
  PROVE  ListsInvariant'
<1>1. /\ up' = FALSE /\ job' = [a \in Actors |-> Idle]
      /\ UNCHANGED <<clock, lists, files, stored, unsaved, trusted>>
  BY DEF Kill
<1>2. \A a \in Actors : job'[a] = Idle
  BY <1>1
<1>3. TypeOK'
  BY <1>1, <1>2, IdleJob DEF ListsInvariant, TypeOK
<1>4. OneSaver' /\ DownIdle' /\ SavesInOrder' /\ ByTrusted'
  BY <1>2, IdleJob DEF OneSaver, DownIdle, SavesInOrder, ByTrusted, At, Saving
<1>5. ListsStored'
  BY <1>1 DEF ListsInvariant, ListsStored
<1>6. NoEscalation'
  BY <1>1, FewerManage DEF ListsInvariant, NoEscalation
<1>7. QED
  BY <1>3, <1>4, <1>5, <1>6 DEF ListsInvariant

\* A start loads what was stored last, or nothing where the file is missing.
LEMMA LoadedLists ==
  ASSUME TypeOK, ListsStored, NEW l \in Lists
  PROVE  /\ Loaded(l) \in {stored[l], Nobody} /\ Loaded(l) \in Listing(l)
         /\ ~Overlooked(l) => Loaded(l) = stored[l]
<1>1. stored[l] \in Listing(l) /\ Nobody \in Listing(l)
  BY DEF TypeOK, Nobody, Listing
<1>2. CASE files[l].primary = Whole(stored[l])
  <2>1. Exists(files[l].primary) /\ files[l].primary.list = stored[l]
    BY <1>2 DEF Exists, Whole
  <2>2. QED
    BY <1>1, <2>1 DEF Loaded, Overlooked
<1>3. CASE files[l].primary = Absent
  <2>1. ~Exists(files[l].primary)
    BY <1>3 DEF Exists, Absent
  <2>2. QED
    BY <1>1, <2>1 DEF Loaded, Overlooked
<1>4. QED
  BY <1>2, <1>3 DEF ListsStored

LEMMA StartStep ==
  ASSUME ListsInvariant, Start
  PROVE  ListsInvariant'
<1>1. /\ ~up /\ up' = TRUE /\ lists' = [l \in Lists |-> Loaded(l)]
      /\ unsaved' = {l \in Lists : Overlooked(l)}
      /\ UNCHANGED <<clock, files, job, stored>>
  BY DEF Start
<1>2. trusted' = IF {"operators", "permissions"} \intersect unsaved = {} THEN trusted
                 ELSE trusted \union {p \in Players : Manages(p)'}
  BY DEF Start
<1>3. \A a \in Actors : job'[a] = Idle
  BY <1>1 DEF ListsInvariant, DownIdle
<1>4. /\ \A l \in Lists : lists'[l] \in {stored[l], Nobody} /\ lists'[l] \in Listing(l)
      /\ \A l \in Lists : l \notin unsaved' => lists'[l] = stored[l]
  BY <1>1, LoadedLists DEF ListsInvariant
<1>5. TypeOK'
  BY <1>1, <1>2, <1>3, <1>4, IdleJob DEF ListsInvariant, TypeOK
<1>6. OneSaver' /\ DownIdle' /\ SavesInOrder' /\ ByTrusted'
  BY <1>3, IdleJob DEF OneSaver, DownIdle, SavesInOrder, ByTrusted, At, Saving
<1>7. ListsStored'
  BY <1>1, <1>4 DEF ListsInvariant, ListsStored
<1>8. NoEscalation'
  <2>1. CASE {"operators", "permissions"} \intersect unsaved # {}
    BY <1>2, <2>1 DEF NoEscalation
  <2>2. CASE {"operators", "permissions"} \intersect unsaved = {}
    <3>1. /\ lists["operators"] = stored["operators"] /\ lists["permissions"] = stored["permissions"]
          /\ "operators" \in Lists /\ "permissions" \in Lists
      BY <2>2 DEF ListsInvariant, ListsStored, Lists
    <3>2. \A p \in Players : Nobody[p] = {}
      BY DEF Nobody
    <3>3. /\ \A p \in Players : lists'["operators"][p] \in {lists["operators"][p], {}}
          /\ \A p \in Players : lists'["permissions"][p] \in {lists["permissions"][p], {}}
      BY <1>4, <3>1, <3>2
    <3>4. \A p \in Players : Manages(p)' => Manages(p)
      BY <3>3, FewerManage
    <3>5. QED
      BY <1>2, <2>2, <3>4 DEF ListsInvariant, NoEscalation
  <2>3. QED
    BY <2>1, <2>2
<1>9. QED
  BY <1>5, <1>6, <1>7, <1>8 DEF ListsInvariant
-----------------------------------------------------------------------------
LEMMA NextInvariant ==
  ASSUME ListsInvariant, [Next]_vars
  PROVE  ListsInvariant'
<1>1. clock \in Nat
  BY DEF ListsInvariant, TypeOK
<1>2. ASSUME NEW a \in Actors, Lists1(a) PROVE ListsInvariant'
  BY <1>2, DispatchStep, ExecuteStep, ActiveBanStep, OpenTemporaryStep, WriteTemporaryStep,
     RemoveBackupStep, MoveAsideStep, CommitStep, FailStep DEF Lists1
<1>3. ASSUME NEW a \in Actors, Audits(a) PROVE ListsInvariant'
  BY <1>1, <1>3, SameLists DEF Audits
<1>4. CASE SecondPasses
  <2>1. clock' \in Nat
    BY <1>1, <1>4 DEF SecondPasses
  <2>2. QED
    BY <1>4, <2>1, SameLists DEF SecondPasses
<1>5. CASE UNCHANGED vars
  BY <1>1, <1>5, SameLists DEF vars
<1>6. QED
  BY <1>2, <1>3, <1>4, <1>5, KillStep, StartStep DEF Next

\* In every state of every behaviour of the commands, the logins, the writes,
\* kills and starts, the parts of the inductive invariant hold.
THEOREM ListsInvariantHolds == Spec => []ListsInvariant
<1>1. Init => ListsInvariant
  BY InitInvariant
<1>2. ListsInvariant /\ [Next]_vars => ListsInvariant'
  BY NextInvariant
<1>3. QED
  BY <1>1, <1>2, PTL DEF Spec

\* What was put in place last of a list is in its file or, that file missing,
\* in the backup, whatever operation of atomic_write was the last; memory has
\* it too unless a write is under way, failed or was overlooked.
THEOREM ListsStoredHolds == Spec => []ListsStored
<1>1. ListsInvariant => ListsStored
  BY DEF ListsInvariant
<1>2. QED
  BY <1>1, ListsInvariantHolds, PTL

\* No sequence of commands (execute of commands/mod.rs and the handlers of
\* builtins.rs) gives the right to manage rights to anybody but through the
\* console or somebody who had it.
THEOREM NoEscalationHolds == Spec => []NoEscalation
<1>1. ListsInvariant => NoEscalation
  BY DEF ListsInvariant
<1>2. QED
  BY <1>1, ListsInvariantHolds, PTL
-----------------------------------------------------------------------------
(* Bans.                                                                   *)

BanHolds(p) ==
    Banned(p) /\ ~Banned(p)' => Expired(p, clock') \/ ByModerator(p) \/ Forgotten

\* A ban that a step leaves in the list ends only when it expires.
LEMMA SameBan ==
  ASSUME NEW p \in Players, lists'["bans"][p] = lists["bans"][p]
  PROVE  BanHolds(p)
BY DEF BanHolds, Banned, Expired

\* A change in memory is about the bans of one player, or about none.
LEMMA ChangeBans ==
  ASSUME TypeOK, NEW a \in Actors, NEW c, c.name \in Names \union {"login"},
         Change(a, c), NEW p \in Players, ~(ListOf(c.name) = "bans" /\ c.player = p)
  PROVE  BanHolds(p)
<1>1. lists' = [lists EXCEPT ![ListOf(c.name)][c.player] = Changed(c, clock)]
  BY DEF Change
<1>2. "bans" \in DOMAIN lists /\ p \in DOMAIN lists["bans"]
  BY DEF TypeOK, Listing, Lists
<1>3. lists'["bans"][p] = lists["bans"][p]
  BY <1>1, <1>2
<1>4. QED
  BY <1>3, SameBan

LEMMA BansStep ==
  ASSUME ListsInvariant, [Next]_vars
  PROVE  \A p \in Players : BanHolds(p)
<1> SUFFICES ASSUME NEW p \in Players PROVE BanHolds(p)
  OBVIOUS
<1>1. CASE UNCHANGED lists
  BY <1>1, SameBan
<1>2. ASSUME NEW a \in Actors, Execute(a) PROVE BanHolds(p)
  <2>1. CASE UNCHANGED lists
    BY <2>1, SameBan
  <2>2. CASE Change(a, job[a])
    <3>1. At(a, "execute") /\ job[a].name \in Names
      BY <1>2, JobOf DEF Execute, At, ListsInvariant
    <3>2. CASE ListOf(job[a].name) = "bans" /\ job[a].player = p
      BY <3>1, <3>2 DEF BanHolds, ByModerator
    <3>3. CASE ~(ListOf(job[a].name) = "bans" /\ job[a].player = p)
      BY <2>2, <3>1, <3>3, ChangeBans DEF ListsInvariant
    <3>4. QED
      BY <3>2, <3>3
  <2>3. QED
    BY <1>2, <2>1, <2>2 DEF Execute
<1>3. ASSUME NEW a \in Actors, NEW q \in Players, ActiveBan(a, q) PROVE BanHolds(p)
  <2> DEFINE c == [name |-> "login", player |-> q]
  <2>1. Change(a, c) /\ Expired(q, clock) /\ c.name = "login" /\ c.player = q
    BY <1>3 DEF ActiveBan
  <2>2. CASE p = q
    BY <2>1, <2>2 DEF BanHolds, Banned
  <2>3. CASE p # q
    <3> HIDE DEF c
    <3> QED
      BY <2>1, <2>3, ChangeBans DEF ListsInvariant
  <2>4. QED
    BY <2>2, <2>3
<1>4. CASE Start
  <2>1. CASE Forgotten
    BY <2>1 DEF BanHolds
  <2>2. CASE ~Forgotten
    <3>1. /\ "bans" \in Lists /\ lists["bans"] = stored["bans"] /\ ~Overlooked("bans")
          /\ lists'["bans"] = Loaded("bans")
      BY <1>4, <2>2 DEF Start, Forgotten, ListsInvariant, ListsStored, Lists
    <3>2. lists'["bans"] = lists["bans"]
      BY <3>1, LoadedLists DEF ListsInvariant
    <3>3. QED
      BY <3>2, SameBan
  <2>3. QED
    BY <2>1, <2>2
<1>5. ASSUME NEW a \in Actors,
             \/ Dispatch(a) \/ OpenTemporary(a) \/ WriteTemporary(a) \/ RemoveBackup(a)
             \/ MoveAside(a) \/ Commit(a) \/ Fail(a) \/ Audits(a)
      PROVE  UNCHANGED lists
  BY <1>5 DEF Dispatch, OpenTemporary, WriteTemporary, RemoveBackup, MoveAside, Commit, Fail,
     Audits, Unaudited
<1>6. CASE SecondPasses \/ Kill \/ UNCHANGED vars
  BY <1>1, <1>6 DEF SecondPasses, Kill, vars
<1>7. QED
  BY <1>1, <1>2, <1>3, <1>4, <1>5, <1>6 DEF Next, Lists1

\* A ban in force (active_ban) stays in force through everything that is not
\* about it: it expires, a moderator changes it, or a start forgets a list
\* that was not stored or not in its place.
THEOREM BansHoldAlways == Spec => BansHold
<1>1. ListsInvariant /\ [Next]_vars =>
        [\A p \in Players : BanHolds(p)]_<<lists, clock>>
  BY BansStep
<1>2. QED
  BY <1>1, ListsInvariantHolds, PTL DEF Spec, BansHold, BanHolds
-----------------------------------------------------------------------------
(***************************************************************************)
(* The audit. A record that nobody wrote into is in one piece, so a start  *)
(* finds it unless it begins in the middle of a line. Then the piece before *)
(* it is the last one of a record that broke off, and as that one has only *)
(* one last piece, no more records are lost than were broken off           *)
(* (GluedToBroken, BrokenCounted).                                         *)
(***************************************************************************)

USE DEF Newline, Pushing

LEMMA AuditInitInvariant == AuditInit => AuditInvariant
<1> SUFFICES ASSUME AuditInit PROVE AuditInvariant
  OBVIOUS
<1>1. log = <<>> /\ DOMAIN log = {} /\ Len(log) = 0
  BY DEF AuditInit
<1>2. /\ writing = [a \in Actors |-> Nothing] /\ Nothing.part = 0 /\ Nothing.id = 0
      /\ taken = 0 /\ done = {} /\ crossed = {} /\ torn = 0
  BY DEF AuditInit, Nothing, Piece
<1>3. AuditTypeOK
  BY <1>1, <1>2 DEF AuditTypeOK
<1>4. OwnRecord /\ KnownCrossed /\ InOnePiece /\ Ended /\ GluedToBroken
  BY <1>1, <1>2 DEF OwnRecord, KnownCrossed, InOnePiece, Ended, GluedToBroken, Appending, InLine
<1>5. Broken = {}
  BY <1>1 DEF Broken
<1>6. BrokenCounted
  BY <1>2, <1>5, FS_EmptySet DEF BrokenCounted
<1>7. QED
  BY <1>3, <1>4, <1>6 DEF AuditInvariant

\* What an actor is writing.
LEMMA WritingOf ==
  ASSUME AuditTypeOK, NEW a \in Actors
  PROVE  /\ \/ writing[a] = Nothing /\ writing[a].id = 0 /\ writing[a].part = 0
            \/ /\ writing[a] # Nothing /\ writing[a] \in [id: 1 .. taken, part: 1 .. Pushing]
               /\ writing[a].id \in 1 .. taken /\ writing[a].part \in 1 .. Pushing
         /\ writing[a].id \in Nat /\ writing[a].part \in Nat /\ taken \in Nat
<1>1. writing[a] \in {Nothing} \union [id: 1 .. taken, part: 1 .. Pushing] /\ taken \in Nat
  BY DEF AuditTypeOK
<1>2. Nothing.id = 0 /\ Nothing.part = 0
  BY DEF Nothing, Piece
<1>3. QED
  BY <1>1, <1>2

\* What the file has.
LEMMA LogOf ==
  ASSUME AuditTypeOK
  PROVE  /\ Len(log) \in Nat /\ DOMAIN log = 1 .. Len(log)
         /\ \A i \in 1 .. Len(log) : /\ log[i] = Piece(log[i].id, log[i].part)
                                     /\ log[i].id \in 1 .. taken /\ log[i].part \in 1 .. Newline
<1>1. Len(log) \in Nat /\ DOMAIN log = 1 .. Len(log)
  BY DEF AuditTypeOK
<1>2. ASSUME NEW i \in 1 .. Len(log)
      PROVE  /\ log[i] = Piece(log[i].id, log[i].part)
             /\ log[i].id \in 1 .. taken /\ log[i].part \in 1 .. Newline
  <2>1. log[i] \in [id: Nat, part: 1 .. Newline]
    <3> DEFINE S == [id: Nat, part: 1 .. Newline]
    <3>1. log \in Seq(S)
      BY DEF AuditTypeOK
    <3> HIDE DEF S
    <3>2. log[i] \in S
      BY <1>1, <3>1
    <3>3. QED
      BY <3>2 DEF S
  <2>2. ASSUME NEW A, NEW B, NEW r \in [id: A, part: B] PROVE r = [id |-> r.id, part |-> r.part]
    OBVIOUS
  <2>3. QED
    BY <1>1, <2>1, <2>2 DEF AuditTypeOK, Piece
<1>3. QED
  BY <1>1, <1>2

LEMMA BrokenFinite ==
  ASSUME AuditTypeOK
  PROVE  IsFiniteSet(Broken) /\ Broken \subseteq 1 .. taken
<1>1. Broken \subseteq 1 .. taken
  BY DEF Broken
<1>2. IsFiniteSet(1 .. taken)
  BY FS_Interval DEF AuditTypeOK
<1>3. QED
  BY <1>1, <1>2, FS_Subset

\* A set that grows by no more than a finite set has.
LEMMA GrowsBy ==
  ASSUME NEW S, IsFiniteSet(S), NEW T, IsFiniteSet(T), NEW K, IsFiniteSet(K),
         NEW f \in Injection(T \ S, K)
  PROVE  Cardinality(T) <= Cardinality(S) + Cardinality(K)
<1>1. Cardinality(T \ S) <= Cardinality(K)
  BY FS_Injection
<1>2. Cardinality(T \ S) = Cardinality(T) - Cardinality(T \cap S)
  BY FS_Difference
<1>3. Cardinality(T \cap S) <= Cardinality(S) /\ IsFiniteSet(T \cap S)
  BY FS_Intersection
<1>4. /\ Cardinality(T) \in Nat /\ Cardinality(S) \in Nat /\ Cardinality(K) \in Nat
      /\ Cardinality(T \cap S) \in Nat
  BY <1>3, FS_CardinalityType
<1>5. QED
  BY <1>1, <1>2, <1>3, <1>4
-----------------------------------------------------------------------------
LEMMA RecordStep ==
  ASSUME AuditInvariant, NEW a \in Actors, RecordModeration(a)
  PROVE  AuditInvariant'
<1> DEFINE others == {b \in Actors \ {a} : Appending(b)}
           new == taken + 1
<1>1. /\ writing[a] = Nothing /\ taken' = new /\ writing' = [writing EXCEPT ![a] = Piece(new, 1)]
      /\ UNCHANGED <<log, records, done, torn>>
      /\ crossed' = IF others = {} THEN crossed
                    ELSE crossed \union {new} \union {writing[b].id : b \in others}
  BY DEF RecordModeration
<1>2. AuditTypeOK /\ taken \in Nat /\ new \in Nat /\ new \notin 1 .. taken
  BY DEF AuditInvariant, AuditTypeOK
<1>3. /\ \A b \in Actors : writing'[b] = IF b = a THEN Piece(new, 1) ELSE writing[b]
      /\ Piece(new, 1).id = new /\ Piece(new, 1).part = 1 /\ Piece(new, 1) # Nothing
      /\ Piece(new, 1) \in [id: 1 .. new, part: 1 .. Pushing]
  BY <1>1, <1>2 DEF AuditTypeOK, Piece, Nothing
<1>4. /\ \A b \in others : writing[b].id \in 1 .. taken
      /\ crossed \subseteq crossed' /\ crossed' \subseteq 1 .. new
  <2>1. ASSUME NEW b \in others PROVE writing[b].id \in 1 .. taken
    BY <1>2, <2>1, WritingOf DEF Appending
  <2>2. crossed \subseteq 1 .. taken
    BY <1>2 DEF AuditTypeOK
  <2>3. \A n \in 1 .. taken : n \in 1 .. new
    BY <1>2
  <2>4. new \in 1 .. new
    BY <1>2
  <2>5. CASE others = {}
    BY <1>1, <2>1, <2>2, <2>3, <2>5
  <2>6. CASE others # {}
    <3>1. crossed' = crossed \union {new} \union {writing[b].id : b \in others}
      BY <1>1, <2>6
    <3> HIDE DEF others, new
    <3>2. QED
      BY <2>1, <2>2, <2>3, <2>4, <3>1
  <2>7. QED
    BY <2>1, <2>5, <2>6
<1>5. AuditTypeOK'
  <2>1. [id: 1 .. taken, part: 1 .. Pushing] \subseteq [id: 1 .. new, part: 1 .. Pushing]
    BY <1>2
  <2>2. writing' \in [Actors -> {Nothing} \union [id: 1 .. new, part: 1 .. Pushing]]
    BY <1>1, <1>2, <1>3, <2>1 DEF AuditTypeOK
  <2>3. QED
    BY <1>1, <1>2, <1>4, <2>2 DEF AuditTypeOK
<1>6. OwnRecord'
  <2>1. \A i \in DOMAIN log : log[i].id # new /\ (\A b \in Actors : writing[b].id # new)
    BY <1>2, LogOf, WritingOf
  <2>2. \A b \in Actors : writing[b].id # new
    BY <1>2, WritingOf
  <2>3. QED
    BY <1>1, <1>3, <2>1, <2>2 DEF AuditInvariant, OwnRecord
<1>7. KnownCrossed'
  <2> SUFFICES ASSUME NEW b \in Actors, NEW c \in Actors, b # c, Appending(b)', Appending(c)'
               PROVE  writing'[b].id \in crossed'
    BY DEF KnownCrossed
  <2>1. \A d \in Actors \ {a} : Appending(d)' <=> Appending(d)
    BY <1>3 DEF Appending
  <2>2. CASE b = a
    <3>1. c \in others
      BY <2>1, <2>2
    <3>2. QED
      BY <1>1, <1>3, <2>2, <3>1
  <2>3. CASE c = a
    <3>1. b \in others
      BY <2>1, <2>3
    <3>2. QED
      BY <1>1, <1>3, <3>1
  <2>4. CASE b # a /\ c # a
    BY <1>3, <1>4, <2>1, <2>4 DEF AuditInvariant, KnownCrossed
  <2>5. QED
    BY <2>2, <2>3, <2>4
<1>8. InOnePiece'
  <2>1. \A b \in Actors : InLine(b)' => b # a /\ InLine(b) /\ writing'[b] = writing[b]
    BY <1>3 DEF InLine
  <2>2. QED
    BY <1>1, <1>4, <2>1 DEF AuditInvariant, InOnePiece
<1>9. Ended'
  BY <1>1, <1>3 DEF AuditInvariant, Ended, Wrote
<1>10. Broken' = Broken
  <2>1. \A i \in DOMAIN log : log[i].id # new
    BY <1>2, LogOf
  <2>2. \A id \in 1 .. taken : (\A b \in Actors : writing'[b].id # id) <=> \A b \in Actors : writing[b].id # id
    <3>1. writing[a].id = 0
      BY <1>1, <1>2, WritingOf
    <3>2. QED
      BY <1>2, <1>3, <3>1
  <2>3. \A id \in 1 .. new : id \in 1 .. taken \/ id = new
    BY <1>2
  <2>4. \A id \in 1 .. taken : id \in 1 .. new
    BY <1>2
  <2>5. \A id : id \in Broken' <=> id \in Broken
    BY <1>1, <2>1, <2>2, <2>3, <2>4 DEF Broken, Wrote
  <2>6. QED
    BY <2>5
<1>11. BrokenCounted' /\ GluedToBroken'
  BY <1>1, <1>4, <1>10 DEF AuditInvariant, BrokenCounted, GluedToBroken
<1>12. QED
  BY <1>5, <1>6, <1>7, <1>8, <1>9, <1>11 DEF AuditInvariant

LEMMA AppendStep ==
  ASSUME AuditInvariant, NEW a \in Actors, AppendPiece(a)
  PROVE  AuditInvariant'
<1> DEFINE w == writing[a]
           n == Len(log)
<1>1. /\ Appending(a) /\ log' = Append(log, w)
      /\ writing' = [writing EXCEPT ![a].part = writing[a].part + 1]
      /\ UNCHANGED <<taken, done, crossed, torn>>
  BY DEF AppendPiece
<1>2. AuditTypeOK /\ taken \in Nat /\ n \in Nat
  BY DEF AuditInvariant, AuditTypeOK
<1>3. /\ w # Nothing /\ w \in [id: 1 .. taken, part: 1 .. Pushing]
      /\ w.id \in 1 .. taken /\ w.part \in 1 .. Newline /\ w = Piece(w.id, w.part)
  <2>1. w.part \in 1 .. Newline
    BY <1>1 DEF Appending
  <2>2. w # Nothing /\ w \in [id: 1 .. taken, part: 1 .. Pushing]
    BY <1>2, <2>1, WritingOf
  <2>3. ASSUME NEW A, NEW B, NEW r \in [id: A, part: B] PROVE r = [id |-> r.id, part |-> r.part]
    OBVIOUS
  <2>4. QED
    BY <2>1, <2>2, <2>3 DEF Piece
<1>4. \A b \in Actors :
        writing'[b] = IF b = a THEN Piece(w.id, w.part + 1) ELSE writing[b]
  <2>1. writing'[a] = [w EXCEPT !.part = w.part + 1]
    BY <1>1, <1>2 DEF AuditTypeOK
  <2>2. [w EXCEPT !.part = w.part + 1] = Piece(w.id, w.part + 1)
    BY <1>3 DEF Piece
  <2>3. \A b \in Actors \ {a} : writing'[b] = writing[b]
    BY <1>1, <1>2 DEF AuditTypeOK
  <2>4. QED
    BY <2>1, <2>2, <2>3
<1>5. /\ Piece(w.id, w.part + 1).id = w.id /\ Piece(w.id, w.part + 1).part = w.part + 1
      /\ Piece(w.id, w.part + 1) \in [id: 1 .. taken, part: 1 .. Pushing]
      /\ Piece(w.id, w.part + 1) # Nothing
  BY <1>3 DEF Piece, Nothing
<1>6. /\ \A b \in Actors : writing'[b].id = writing[b].id
      /\ \A b \in Actors : writing'[b] # Nothing => writing[b] # Nothing
  BY <1>3, <1>4, <1>5
<1>7. /\ DOMAIN log = 1 .. n /\ DOMAIN log' = 1 .. (n + 1) /\ Len(log') = n + 1
      /\ \A i \in 1 .. n : log'[i] = log[i]
      /\ log'[n + 1] = w
      /\ log' \in Seq([id: Nat, part: 1 .. Newline])
  <2> DEFINE S == [id: Nat, part: 1 .. Newline]
  <2>1. log \in Seq(S)
    BY <1>2 DEF AuditTypeOK
  <2>2. w \in S
    BY <1>2, <1>3
  <2> HIDE DEF S, w
  <2>3. /\ log' \in Seq(S) /\ Len(log') = n + 1 /\ log'[n + 1] = w
        /\ \A i \in 1 .. n : log'[i] = log[i]
    BY <1>1, <2>1, <2>2
  <2>4. DOMAIN log = 1 .. n /\ DOMAIN log' = 1 .. Len(log')
    BY <2>1, <2>3
  <2>5. QED
    BY <2>3, <2>4 DEF S
<1>8. \A i \in 1 .. n : log[i].id \in 1 .. taken /\ log[i].part \in 1 .. Newline
  BY <1>2, LogOf
<1>9. \A i : i \in 1 .. (n + 1) <=> i \in 1 .. n \/ i = n + 1
  BY <1>2
<1> HIDE DEF w, n
<1>10. AuditTypeOK'
  <2>1. \A i \in DOMAIN log' : log'[i].id \in 1 .. taken
    BY <1>3, <1>7, <1>8, <1>9
  <2>2. writing' \in [Actors -> {Nothing} \union [id: 1 .. taken, part: 1 .. Pushing]]
    <3>1. writing' = [b \in Actors |-> writing'[b]]
      BY <1>1, <1>2 DEF AuditTypeOK
    <3>2. \A b \in Actors : writing'[b] \in {Nothing} \union [id: 1 .. taken, part: 1 .. Pushing]
      BY <1>2, <1>4, <1>5 DEF AuditTypeOK
    <3>3. QED
      BY <3>1, <3>2
  <2>3. QED
    BY <1>1, <1>2, <1>7, <2>1, <2>2 DEF AuditTypeOK
<1>11. /\ \A i \in 1 .. n : log[i].id = w.id => log[i].part < w.part
       /\ \A b \in Actors : writing[b].id = w.id => a = b
  BY <1>3, <1>7 DEF AuditInvariant, OwnRecord, w
<1>12. OwnRecord'
  <2>1. \A b, c \in Actors : writing'[b] # Nothing /\ writing'[b].id = writing'[c].id => b = c
    BY <1>6 DEF AuditInvariant, OwnRecord
  <2>2. ASSUME NEW b \in Actors, NEW i \in DOMAIN log', log'[i].id = writing'[b].id
        PROVE  log'[i].part < writing'[b].part
    <3>1. CASE i \in 1 .. n /\ b = a
      <4>1. log[i].part < w.part /\ log[i].part \in 1 .. Newline /\ w.part \in 1 .. Newline
        BY <1>3, <1>4, <1>5, <1>7, <1>8, <1>11, <2>2, <3>1
      <4>2. QED
        BY <1>4, <1>5, <1>7, <3>1, <4>1
    <3>2. CASE i \in 1 .. n /\ b # a
      BY <1>4, <1>7, <2>2, <3>2 DEF AuditInvariant, OwnRecord
    <3>3. CASE i = n + 1
      BY <1>3, <1>4, <1>5, <1>6, <1>7, <1>11, <2>2, <3>3
    <3>4. QED
      BY <1>7, <1>9, <2>2, <3>1, <3>2, <3>3
  <2>3. ASSUME NEW i \in DOMAIN log', NEW j \in DOMAIN log', i < j, log'[i].id = log'[j].id
        PROVE  log'[i].part < log'[j].part
    <3>1. i \in 1 .. n
      BY <1>2, <1>7, <2>3
    <3>2. CASE j \in 1 .. n
      BY <1>7, <2>3, <3>1, <3>2 DEF AuditInvariant, OwnRecord
    <3>3. CASE j = n + 1
      BY <1>7, <1>11, <2>3, <3>1, <3>3
    <3>4. QED
      BY <1>7, <1>9, <3>2, <3>3
  <2>4. QED
    BY <2>1, <2>2, <2>3 DEF OwnRecord
<1>13. \A b \in Actors : Appending(b)' => Appending(b)
  BY <1>1, <1>4 DEF Appending
<1>14. KnownCrossed'
  BY <1>1, <1>6, <1>13 DEF AuditInvariant, KnownCrossed
<1>15. InOnePiece'
  <2>1. ASSUME NEW i \in DOMAIN log', log'[i].id \notin crossed', log'[i].part > 1
        PROVE  i > 1 /\ log'[i - 1] = Piece(log'[i].id, log'[i].part - 1)
    <3>1. CASE i \in 1 .. n
      <4>1. i > 1 /\ log[i - 1] = Piece(log[i].id, log[i].part - 1)
        BY <1>1, <1>7, <2>1, <3>1 DEF AuditInvariant, InOnePiece
      <4>2. i - 1 \in 1 .. n
        BY <1>2, <3>1, <4>1
      <4>3. QED
        BY <1>7, <3>1, <4>1, <4>2
    <3>2. CASE i = n + 1
      <4>1. InLine(a) /\ w.id \notin crossed
        BY <1>1, <1>3, <1>7, <2>1, <3>2 DEF InLine, w
      <4>2. n > 0 /\ log[n] = Piece(w.id, w.part - 1)
        BY <4>1 DEF AuditInvariant, InOnePiece, w, n
      <4>3. n \in 1 .. n /\ i - 1 = n /\ i > 1
        BY <1>2, <3>2, <4>2
      <4>4. QED
        BY <1>7, <3>2, <4>2, <4>3
    <3>3. QED
      BY <1>7, <1>9, <3>1, <3>2
  <2>2. ASSUME NEW b \in Actors, InLine(b)', writing'[b].id \notin crossed'
        PROVE  Len(log') > 0 /\ log'[Len(log')] = Piece(writing'[b].id, writing'[b].part - 1)
    <3>1. b = a
      <4>1. Appending(b)'
        BY <2>2 DEF InLine, Appending
      <4>2. QED
        BY <1>1, <1>6, <1>13, <2>2, <4>1 DEF AuditInvariant, KnownCrossed
    <3>2. writing'[b].id = w.id /\ writing'[b].part - 1 = w.part
      BY <1>3, <1>4, <1>5, <3>1
    <3>3. QED
      BY <1>2, <1>3, <1>7, <3>2
  <2>3. QED
    BY <2>1, <2>2 DEF InOnePiece
<1>16. \A p : Wrote(p)' <=> Wrote(p) \/ p = w
  <2>1. 1 .. n \subseteq 1 .. (n + 1) /\ n + 1 \in 1 .. (n + 1)
    BY <1>2
  <2>2. QED
    BY <1>7, <1>9, <2>1 DEF Wrote
<1>17. Ended'
  <2>1. ASSUME NEW b \in Actors, writing'[b].part = Pushing
        PROVE  \E i \in DOMAIN log' : log'[i] = Piece(writing'[b].id, Newline)
    <3>1. CASE b = a
      <4>1. w.part = Newline /\ writing'[b].id = w.id
        BY <1>3, <1>4, <1>5, <2>1, <3>1
      <4>2. w = Piece(writing'[b].id, Newline)
        BY <1>3, <4>1
      <4>3. n + 1 \in DOMAIN log' /\ log'[n + 1] = w
        BY <1>7, <1>9
      <4>4. QED
        BY <4>2, <4>3
    <3>2. CASE b # a
      <4>1. PICK i \in DOMAIN log : log[i] = Piece(writing[b].id, Newline)
        BY <1>4, <2>1, <3>2 DEF AuditInvariant, Ended, Wrote
      <4>2. i \in DOMAIN log' /\ log'[i] = log[i]
        BY <1>7, <1>9, <4>1
      <4>3. QED
        BY <1>6, <4>1, <4>2
    <3>3. QED
      BY <3>1, <3>2
  <2>2. ASSUME NEW id \in done PROVE Wrote(Piece(id, Newline))'
    BY <1>16, <2>2 DEF AuditInvariant, Ended
  <2>3. QED
    BY <1>1, <2>1, <2>2 DEF Ended, Wrote
<1>18. Broken' = Broken
  <2>1. ASSUME NEW id \in 1 .. taken, \A b \in Actors : writing[b].id # id
        PROVE  /\ (\E i \in DOMAIN log' : log'[i].id = id) <=> \E i \in DOMAIN log : log[i].id = id
               /\ Wrote(Piece(id, Newline))' <=> Wrote(Piece(id, Newline))
    <3>1. w.id # id
      BY <2>1 DEF w
    <3>2. (\E i \in DOMAIN log' : log'[i].id = id) <=> \E i \in DOMAIN log : log[i].id = id
      BY <1>7, <1>9, <3>1
    <3>3. Piece(id, Newline) # w
      BY <3>1 DEF Piece
    <3>4. QED
      BY <1>16, <3>2, <3>3
  <2>2. taken' = taken
    BY <1>1
  <2>3. \A id : id \in Broken' <=> id \in Broken
    BY <1>6, <2>1, <2>2 DEF Broken
  <2>4. QED
    BY <2>3
<1>19. GluedToBroken'
  <2> SUFFICES ASSUME NEW i \in DOMAIN log', log'[i].part = 1, log'[i].id \notin crossed', i > 1,
                      log'[i - 1].part # Newline
               PROVE  /\ log'[i - 1].id \in Broken
                      /\ \A j \in DOMAIN log' : i <= j => log'[j].id # log'[i - 1].id
    BY <1>18 DEF GluedToBroken
  <2>1. i - 1 \in 1 .. n /\ log'[i - 1] = log[i - 1]
    BY <1>2, <1>7
  <2>2. CASE i \in 1 .. n
    <3>1. /\ log[i - 1].id \in Broken
          /\ \A j \in DOMAIN log : i <= j => log[j].id # log[i - 1].id
      BY <1>1, <1>7, <2>1, <2>2 DEF AuditInvariant, GluedToBroken
    <3>2. w.id # log[i - 1].id
      BY <3>1 DEF Broken, w
    <3>3. QED
      BY <1>7, <1>9, <2>1, <3>1, <3>2
  <2>3. CASE i = n + 1
    <3> DEFINE x == log[n].id
    <3>1. /\ n \in 1 .. n /\ i - 1 = n /\ w.part = 1 /\ w.id \notin crossed
          /\ log[n].part \in 1 .. Newline /\ log[n].part # Newline /\ x \in 1 .. taken
      BY <1>1, <1>2, <1>7, <1>8, <2>1, <2>3
    <3>2. w.id # x
      BY <1>11, <3>1
    <3>3. ~Wrote(Piece(x, Newline))
      <4> SUFFICES ASSUME NEW k \in 1 .. n, log[k] = Piece(x, Newline) PROVE FALSE
        BY <1>7 DEF Wrote
      <4>1. log[k].id = x /\ log[k].part = Newline
        BY DEF Piece
      <4>2. k < n
        BY <1>2, <3>1, <4>1
      <4>3. log[k].part < log[n].part
        BY <1>7, <3>1, <4>1, <4>2 DEF AuditInvariant, OwnRecord
      <4>4. QED
        BY <3>1, <4>1, <4>3
    <3>4. ASSUME NEW b \in Actors, writing[b].id = x PROVE FALSE
      <4>1. b # a
        BY <3>2, <3>4 DEF w
      <4>2. log[n].part < writing[b].part
        BY <1>7, <3>1, <3>4 DEF AuditInvariant, OwnRecord
      <4>3. ~Appending(b)
        BY <1>1, <3>1, <4>1 DEF AuditInvariant, KnownCrossed, w
      <4>4. writing[b].part = Pushing
        BY <1>2, <3>1, <4>2, <4>3, WritingOf DEF Appending
      <4>5. Wrote(Piece(x, Newline))
        BY <3>4, <4>4 DEF AuditInvariant, Ended
      <4>6. QED
        BY <3>3, <4>5
    <3>5. x \in Broken
      BY <1>7, <3>1, <3>3, <3>4 DEF Broken
    <3>6. \A j \in DOMAIN log' : i <= j => j = n + 1
      BY <1>2, <1>7, <2>3
    <3>7. QED
      BY <1>7, <2>1, <3>1, <3>2, <3>5, <3>6
  <2>4. QED
    BY <1>7, <1>9, <2>2, <2>3
<1>20. BrokenCounted'
  BY <1>1, <1>18 DEF AuditInvariant, BrokenCounted
<1>21. QED
  BY <1>10, <1>12, <1>14, <1>15, <1>17, <1>19, <1>20 DEF AuditInvariant

\* Actors that stop leave their records as they are; those inside of a line
\* are broken from then on.
LEMMA StopStep ==
  ASSUME AuditInvariant, NEW K \in SUBSET Actors,
         writing' = [b \in Actors |-> IF b \in K THEN Nothing ELSE writing[b]],
         UNCHANGED <<log, taken, crossed>>,
         done' \subseteq 1 .. taken, \A id \in done' : Wrote(Piece(id, Newline)),
         torn' = torn + Cardinality({b \in K : InLine(b)})
  PROVE  AuditInvariant'
<1> DEFINE S == {b \in K : InLine(b)}
<1>1. AuditTypeOK /\ taken \in Nat /\ torn \in Nat
  BY DEF AuditInvariant, AuditTypeOK
<1>2. Nothing.id = 0 /\ Nothing.part = 0
  BY DEF Nothing, Piece
<1>3. /\ \A b \in Actors : writing'[b] = Nothing \/ writing'[b] = writing[b]
      /\ \A b \in Actors \ K : writing'[b] = writing[b]
      /\ \A b \in K : writing'[b] = Nothing
  OBVIOUS
<1>4. \A b \in S : writing[b].id \in 1 .. taken /\ writing[b] # Nothing
  BY <1>1, <1>2, WritingOf DEF InLine
<1>5. IsFiniteSet(S)
  <2> DEFINE g == [b \in S |-> writing[b].id]
  <2>1. \A b, c \in S : writing[b].id = writing[c].id => b = c
    BY <1>4 DEF AuditInvariant, OwnRecord
  <2>2. g \in Injection(S, 1 .. taken)
    BY <1>4, <2>1 DEF Injection, IsInjective
  <2>3. IsFiniteSet(1 .. taken)
    BY <1>1, FS_Interval
  <2> HIDE DEF g, S
  <2>4. QED
    BY <2>2, <2>3, FS_Injection
<1>6. Cardinality(S) \in Nat
  BY <1>5, FS_CardinalityType
<1>7. AuditTypeOK'
  <2>1. writing' \in [Actors -> {Nothing} \union [id: 1 .. taken, part: 1 .. Pushing]]
    BY <1>1 DEF AuditTypeOK
  <2>2. torn' \in Nat
    BY <1>1, <1>6
  <2>3. QED
    BY <1>1, <2>1, <2>2 DEF AuditTypeOK
<1>8. OwnRecord'
  <2>1. \A b, c \in Actors : writing'[b] # Nothing /\ writing'[b].id = writing'[c].id => b = c
    <3> SUFFICES ASSUME NEW b \in Actors, NEW c \in Actors, writing'[b] # Nothing,
                        writing'[b].id = writing'[c].id
                 PROVE  b = c
      OBVIOUS
    <3>1. writing'[b] = writing[b] /\ writing[b] # Nothing
      BY <1>3
    <3>2. writing[b].id # 0
      BY <1>1, <3>1, WritingOf
    <3>3. writing'[c] = writing[c]
      BY <1>2, <1>3, <3>1, <3>2
    <3>4. QED
      BY <3>1, <3>3 DEF AuditInvariant, OwnRecord
  <2>2. \A b \in Actors : \A i \in DOMAIN log :
           log[i].id = writing'[b].id => log[i].part < writing'[b].part
    <3> SUFFICES ASSUME NEW b \in Actors, NEW i \in DOMAIN log, log[i].id = writing'[b].id
                 PROVE  log[i].part < writing'[b].part
      OBVIOUS
    <3>1. log[i].id # 0
      BY <1>1, LogOf
    <3>2. writing'[b] = writing[b]
      BY <1>2, <1>3, <3>1
    <3>3. QED
      BY <3>2 DEF AuditInvariant, OwnRecord
  <2>3. QED
    BY <2>1, <2>2 DEF AuditInvariant, OwnRecord
<1>9. \A b \in Actors : /\ Appending(b)' => Appending(b) /\ writing'[b] = writing[b]
                        /\ InLine(b)' => InLine(b) /\ writing'[b] = writing[b]
  BY <1>2, <1>3 DEF Appending, InLine
<1>10. KnownCrossed'
  BY <1>9 DEF AuditInvariant, KnownCrossed
<1>11. InOnePiece'
  BY <1>9 DEF AuditInvariant, InOnePiece
<1>12. Ended'
  <2>1. ASSUME NEW b \in Actors, writing'[b].part = Pushing
        PROVE  \E i \in DOMAIN log : log[i] = Piece(writing'[b].id, Newline)
    <3>1. writing'[b] = writing[b]
      BY <1>2, <1>3, <2>1
    <3>2. QED
      BY <2>1, <3>1 DEF AuditInvariant, Ended, Wrote
  <2>2. QED
    BY <2>1 DEF Ended, Wrote
<1>13. Broken \subseteq Broken'
  <2> SUFFICES ASSUME NEW id \in Broken PROVE id \in Broken'
    OBVIOUS
  <2>1. id # 0
    BY DEF Broken
  <2>2. \A b \in Actors : writing'[b].id # id
    BY <1>2, <1>3, <2>1 DEF Broken
  <2>3. QED
    BY <2>2 DEF Broken, Wrote
<1>14. ASSUME NEW id \in Broken' \ Broken PROVE \E b \in S : writing[b].id = id
  <2>1. /\ id \in 1 .. taken /\ (\E i \in DOMAIN log : log[i].id = id)
        /\ ~Wrote(Piece(id, Newline)) /\ \A b \in Actors : writing'[b].id # id
    BY <1>14 DEF Broken, Wrote
  <2>2. PICK b \in Actors : writing[b].id = id
    BY <1>14, <2>1 DEF Broken
  <2>3. b \in K
    BY <1>3, <2>1, <2>2
  <2>4. PICK i \in DOMAIN log : log[i].id = writing[b].id
    BY <2>1, <2>2
  <2>5. log[i].part < writing[b].part /\ log[i].part \in 1 .. Newline
    BY <1>1, <2>4, LogOf DEF AuditInvariant, OwnRecord
  <2>6. writing[b].part # Pushing
    BY <2>1, <2>2 DEF AuditInvariant, Ended
  <2>7. writing[b].part \in 1 .. Pushing
    BY <1>1, <2>1, <2>2, WritingOf
  <2>8. InLine(b)
    BY <2>5, <2>6, <2>7 DEF InLine
  <2>9. QED
    BY <2>2, <2>3, <2>8
<1>15. BrokenCounted'
  <2> DEFINE T == Broken'
             f == [id \in T \ Broken |-> CHOOSE b \in S : writing[b].id = id]
  <2>1. \A id \in T \ Broken : f[id] \in S /\ writing[f[id]].id = id
    BY <1>14
  <2>2. f \in Injection(T \ Broken, S)
    BY <2>1 DEF Injection, IsInjective
  <2>3. IsFiniteSet(Broken) /\ IsFiniteSet(T)
    <3>1. T \subseteq 1 .. taken
      BY DEF Broken
    <3>2. IsFiniteSet(1 .. taken)
      BY <1>1, FS_Interval
    <3> HIDE DEF T
    <3>3. QED
      BY <1>1, <3>1, <3>2, BrokenFinite, FS_Subset
  <2>4. Cardinality(Broken) <= torn
    BY DEF AuditInvariant, BrokenCounted
  <2>5. Cardinality(Broken) \in Nat /\ Cardinality(T) \in Nat
    BY <2>3, FS_CardinalityType
  <2>7. Cardinality(T) <= Cardinality(Broken) + Cardinality(S)
    <3> HIDE DEF f, S, T
    <3>1. QED
      BY <1>5, <2>2, <2>3, GrowsBy
  <2>8. torn' = torn + Cardinality(S)
    BY DEF S
  <2>9. Cardinality(T) <= torn'
    BY <1>1, <1>6, <2>4, <2>5, <2>7, <2>8
  <2>10. QED
    BY <2>9 DEF BrokenCounted
<1>16. GluedToBroken'
  BY <1>13 DEF AuditInvariant, GluedToBroken
<1>17. QED
  BY <1>7, <1>8, <1>10, <1>11, <1>12, <1>15, <1>16 DEF AuditInvariant

LEMMA FailsStep ==
  ASSUME AuditInvariant, NEW a \in Actors, AppendFails(a)
  PROVE  AuditInvariant'
<1>1. /\ writing' = [writing EXCEPT ![a] = Nothing] /\ UNCHANGED <<log, taken, done, crossed>>
      /\ torn' = IF InLine(a) THEN torn + 1 ELSE torn
  BY DEF AppendFails
<1>2. writing' = [b \in Actors |-> IF b \in {a} THEN Nothing ELSE writing[b]]
  BY <1>1 DEF AuditInvariant, AuditTypeOK
<1>3. torn' = torn + Cardinality({b \in {a} : InLine(b)})
  <2>1. CASE InLine(a)
    <3>1. {b \in {a} : InLine(b)} = {a}
      BY <2>1
    <3>2. QED
      BY <1>1, <2>1, <3>1, FS_Singleton
  <2>2. CASE ~InLine(a)
    <3>1. {b \in {a} : InLine(b)} = {}
      BY <2>2
    <3>2. torn \in Nat
      BY DEF AuditInvariant, AuditTypeOK
    <3>3. QED
      BY <1>1, <2>2, <3>1, <3>2, FS_EmptySet
  <2>3. QED
    BY <2>1, <2>2
<1>4. done' \subseteq 1 .. taken /\ \A id \in done' : Wrote(Piece(id, Newline))
  BY <1>1 DEF AuditInvariant, AuditTypeOK, Ended
<1>5. QED
  BY <1>1, <1>2, <1>3, <1>4, StopStep

LEMMA PushRecordStep ==
  ASSUME AuditInvariant, NEW a \in Actors, PushRecord(a)
  PROVE  AuditInvariant'
<1>1. /\ writing[a].part = Pushing
      /\ writing' = [writing EXCEPT ![a] = Nothing] /\ UNCHANGED <<log, taken, crossed, torn>>
      /\ done' = done \union {writing[a].id}
  BY DEF PushRecord
<1>2. writing' = [b \in Actors |-> IF b \in {a} THEN Nothing ELSE writing[b]]
  BY <1>1 DEF AuditInvariant, AuditTypeOK
<1>3. torn' = torn + Cardinality({b \in {a} : InLine(b)})
  <2>1. {b \in {a} : InLine(b)} = {}
    BY <1>1 DEF InLine
  <2>2. torn \in Nat
    BY DEF AuditInvariant, AuditTypeOK
  <2>3. QED
    BY <1>1, <2>1, <2>2, FS_EmptySet
<1>4. done' \subseteq 1 .. taken /\ \A id \in done' : Wrote(Piece(id, Newline))
  <2>1. writing[a].id \in 1 .. taken
    BY <1>1, WritingOf DEF AuditInvariant
  <2>2. Wrote(Piece(writing[a].id, Newline))
    BY <1>1 DEF AuditInvariant, Ended
  <2>3. \A id \in done' : id \in done \/ id = writing[a].id
    BY <1>1
  <2>4. QED
    BY <2>1, <2>2, <2>3 DEF AuditInvariant, AuditTypeOK, Ended
<1>5. QED
  BY <1>1, <1>2, <1>3, <1>4, StopStep

LEMMA AuditKilledStep ==
  ASSUME AuditInvariant, AuditKilled
  PROVE  AuditInvariant'
<1>1. /\ writing' = [b \in Actors |-> IF b \in Actors THEN Nothing ELSE writing[b]]
      /\ UNCHANGED <<log, taken, done, crossed>>
      /\ torn' = torn + Cardinality({b \in Actors : InLine(b)})
  BY DEF AuditKilled
<1>2. done' \subseteq 1 .. taken /\ \A id \in done' : Wrote(Piece(id, Newline))
  BY <1>1 DEF AuditInvariant, AuditTypeOK, Ended
<1>3. QED
  BY <1>1, <1>2, StopStep

LEMMA SameAudit ==
  ASSUME AuditInvariant, UNCHANGED <<log, writing, taken, done, crossed, torn>>
  PROVE  AuditInvariant'
BY DEF AuditInvariant, AuditTypeOK, OwnRecord, KnownCrossed, InOnePiece, Ended, BrokenCounted,
       GluedToBroken, Broken, Wrote, Appending, InLine

LEMMA AuditedStep ==
  ASSUME AuditInvariant, NEW a \in Actors, Audited(a)
  PROVE  AuditInvariant'
BY RecordStep, SameAudit DEF Audited, auditVars

\* Whatever the lists do, the audit keeps its invariant.
LEMMA AuditNext ==
  ASSUME AuditInvariant, [Next]_vars
  PROVE  AuditInvariant'
<1>1. ASSUME NEW a \in Actors, Lists1(a) PROVE AuditInvariant'
  <2>1. UNCHANGED auditVars \/ Audited(a)
    BY <1>1 DEF Lists1, Dispatch, Execute, ActiveBan, OpenTemporary, WriteTemporary,
       RemoveBackup, MoveAside, Commit, Fail, Return, Unaudited
  <2>2. QED
    BY <2>1, AuditedStep, SameAudit DEF auditVars
<1>2. ASSUME NEW a \in Actors, Audits(a) PROVE AuditInvariant'
  BY <1>2, AppendStep, FailsStep, PushRecordStep DEF Audits
<1>3. CASE SecondPasses
  BY <1>3, SameAudit DEF SecondPasses, auditVars
<1>4. CASE Kill
  BY <1>4, AuditKilledStep DEF Kill
<1>5. CASE Start
  BY <1>5, SameAudit DEF Start, LoadModerationRecords
<1>6. CASE UNCHANGED vars
  BY <1>6, SameAudit DEF vars, auditVars
<1>7. QED
  BY <1>1, <1>2, <1>3, <1>4, <1>5, <1>6 DEF Next

\* A record that nobody wrote into ends at each of its newlines, after its
\* other pieces.
LEMMA DoneInOnePiece ==
  ASSUME AuditInvariant, NEW i \in DOMAIN log, log[i].id \notin crossed, log[i].part = Newline
  PROVE  /\ i - 2 \in DOMAIN log /\ i - 1 \in DOMAIN log /\ i > 2
         /\ log[i - 1] = Piece(log[i].id, 2) /\ log[i - 2] = Piece(log[i].id, 1)
         /\ log[i] = Piece(log[i].id, Newline)
<1>1. Len(log) \in Nat /\ DOMAIN log = 1 .. Len(log) /\ log[i] = Piece(log[i].id, Newline)
  BY LogOf DEF AuditInvariant
<1>2. i > 1 /\ log[i - 1] = Piece(log[i].id, 2)
  BY DEF AuditInvariant, InOnePiece
<1>3. i - 1 \in DOMAIN log /\ log[i - 1].id = log[i].id /\ log[i - 1].part = 2
  BY <1>1, <1>2 DEF Piece
<1>4. i - 1 > 1 /\ log[(i - 1) - 1] = Piece(log[i].id, 1)
  BY <1>3 DEF AuditInvariant, InOnePiece
<1>5. (i - 1) - 1 = i - 2 /\ i - 2 \in DOMAIN log /\ i > 2
  BY <1>1, <1>4
<1>6. QED
  BY <1>1, <1>2, <1>3, <1>4, <1>5

\* A record that no start finds is glued to a broken one, another for each.
LEMMA InvariantKeepsAudit == AuditInvariant => AuditKept
<1> SUFFICES ASSUME AuditInvariant PROVE AuditKept
  OBVIOUS
<1> DEFINE found == {log[i].id : i \in {j \in DOMAIN log : Decodes(j)}}
           missing == done \ (crossed \union found)
           end == [id \in missing |-> CHOOSE i \in DOMAIN log : log[i] = Piece(id, Newline)]
           glue == [id \in missing |-> log[end[id] - 3].id]
<1>1. /\ AuditTypeOK /\ taken \in Nat /\ torn \in Nat
      /\ Len(log) \in Nat /\ DOMAIN log = 1 .. Len(log)
  BY LogOf DEF AuditInvariant, AuditTypeOK
<1>2. ASSUME NEW id \in missing
      PROVE  /\ end[id] \in DOMAIN log /\ log[end[id]].id = id /\ id \notin crossed
             /\ end[id] - 2 \in DOMAIN log /\ end[id] - 1 \in DOMAIN log
             /\ log[end[id] - 2].id = id /\ log[end[id] - 2].part = 1
             /\ end[id] - 2 > 1 /\ log[end[id] - 3].part # Newline
             /\ (end[id] - 2) - 1 = end[id] - 3
  <2> DEFINE e == end[id]
  <2>1. e \in DOMAIN log /\ log[e] = Piece(id, Newline)
    BY DEF AuditInvariant, Ended, Wrote
  <2> HIDE DEF e
  <2>2. log[e].id = id /\ log[e].part = Newline /\ id \notin crossed
    BY <2>1 DEF Piece
  <2>3. /\ e - 2 \in DOMAIN log /\ e - 1 \in DOMAIN log /\ e > 2
        /\ log[e - 1] = Piece(id, 2) /\ log[e - 2] = Piece(id, 1)
    BY <2>1, <2>2, DoneInOnePiece
  <2>4. log[e - 2].id = id /\ log[e - 2].part = 1
    BY <2>3 DEF Piece
  <2>5. ~Decodes(e - 2)
    BY <2>3, <2>4
  <2>6. /\ (e - 2) + 1 = e - 1 /\ (e - 2) + 2 = e /\ e - 1 <= Len(log)
        /\ (e - 2) - 1 = e - 3 /\ (e - 2 = 1 \/ e - 2 > 1)
    BY <1>1, <2>1, <2>3
  <2>7. e - 2 # 1 /\ log[e - 3].part # Newline
    BY <2>2, <2>3, <2>4, <2>5, <2>6 DEF Decodes
  <2>8. QED
    BY <2>1, <2>2, <2>3, <2>4, <2>6, <2>7 DEF e
<1>3. ASSUME NEW id \in missing
      PROVE  /\ glue[id] \in Broken
             /\ \A j \in DOMAIN log : end[id] - 2 <= j => log[j].id # glue[id]
  <2> HIDE DEF end
  <2>1. glue[id] = log[(end[id] - 2) - 1].id
    BY <1>2
  <2> HIDE DEF glue
  <2>2. QED
    BY <1>2, <2>1 DEF AuditInvariant, GluedToBroken
<1>4. ASSUME NEW id \in missing, NEW other \in missing, glue[id] = glue[other]
      PROVE  id = other
  <2> DEFINE e == end[id]
             o == end[other]
  <2> HIDE DEF end
  <2>1. glue[id] = log[e - 3].id /\ glue[other] = log[o - 3].id
    OBVIOUS
  <2>2. /\ e \in 1 .. Len(log) /\ e - 2 > 1 /\ log[e].id = id
        /\ o \in 1 .. Len(log) /\ o - 2 > 1 /\ log[o].id = other
    BY <1>1, <1>2
  <2>3. /\ \A j \in 1 .. Len(log) : e - 2 <= j => log[j].id # glue[id]
        /\ \A j \in 1 .. Len(log) : o - 2 <= j => log[j].id # glue[id]
    BY <1>1, <1>3, <1>4
  <2> HIDE DEF e, o, glue
  <2>4. CASE e < o
    <3>1. e - 2 <= o - 3 /\ o - 3 \in 1 .. Len(log)
      BY <1>1, <2>2, <2>4
    <3>2. QED
      BY <1>4, <2>1, <2>3, <3>1
  <2>5. CASE o < e
    <3>1. o - 2 <= e - 3 /\ e - 3 \in 1 .. Len(log)
      BY <1>1, <2>2, <2>5
    <3>2. QED
      BY <2>1, <2>3, <3>1
  <2>6. e < o \/ o < e \/ e = o
    BY <2>2
  <2>7. QED
    BY <2>2, <2>4, <2>5, <2>6
<1>5. glue \in Injection(missing, Broken)
  BY <1>3, <1>4 DEF Injection, IsInjective
<1>6. IsFiniteSet(Broken) /\ IsFiniteSet(missing)
  <2>1. missing \subseteq 1 .. taken
    BY <1>1 DEF AuditTypeOK
  <2>2. IsFiniteSet(1 .. taken)
    BY <1>1, FS_Interval
  <2> HIDE DEF missing
  <2>3. QED
    BY <1>1, <2>1, <2>2, BrokenFinite, FS_Subset
<1>7. Cardinality(missing) <= Cardinality(Broken)
  <2> HIDE DEF missing, glue
  <2>1. QED
    BY <1>5, <1>6, FS_Injection
<1>8. Cardinality(missing) \in Nat /\ Cardinality(Broken) \in Nat
  BY <1>6, FS_CardinalityType
<1>9. Cardinality(missing) <= torn
  BY <1>1, <1>7, <1>8 DEF AuditInvariant, BrokenCounted
<1>10. QED
  BY <1>9 DEF AuditKept

\* In every state of every behaviour of the actors that write, fail, are killed
\* and start again, a record that nobody wrote into is in one piece and what is
\* before it in its line is broken and counted.
THEOREM AuditInvariantHolds == Spec => []AuditInvariant
<1>1. Init => AuditInvariant
  BY AuditInitInvariant DEF Init
<1>2. QED
  BY <1>1, AuditNext, PTL DEF Spec

\* A start finds every record that record_moderation reported as kept, unless
\* another actor wrote into it, or one that broke off is glued to it.
THEOREM AuditKeptHolds == Spec => []AuditKept
<1>1. QED
  BY InvariantKeepsAudit, AuditInvariantHolds, PTL
=============================================================================
