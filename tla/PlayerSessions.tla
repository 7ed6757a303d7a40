--------------------------- MODULE PlayerSessions ---------------------------
(***************************************************************************)
(* A connection from its login to the removal of its player, and the       *)
(* moderators who ban and kick and reset the world                         *)
(* (carbon-server/src/network/mod.rs, state.rs and commands/builtins.rs).  *)
(* Requests to disconnect a player reach its session through a revision    *)
(* feed, here the instance Feed.                                           *)
(*                                                                         *)
(* add_player, remove_player and repair_world take one lock after the      *)
(* other; what other threads can see in between is an action of its own.   *)
(***************************************************************************)
EXTENDS Registrations, FiniteSets

feedVars == <<revision, drawn, feed, pushes, joined, cursor, batch,
              published, since, handled, repeated>>
history == <<restored, disturbed>>
playerVars == <<banned, online, transforms, combat, caught, history>>
vars == <<phase, playerVars, duty, feedVars>>

Phases == {"closed", "login", "configuration", "listed", "placed", "loading",
           "play", "leaving", "unlisted", "unplaced"}
\* From making a transform or a combat state to removing it.
Placing == {"placed", "loading", "play", "leaving", "unlisted"}
Fighting == {"loading", "play", "leaving", "unlisted", "unplaced"}
Kept(p, S) == \E s \in Sessions : Account[s] = p /\ phase[s] \in S
Idle == [doing |-> "nothing", target |-> {}]

TypeOK ==
    /\ phase \in [Sessions -> Phases]
    /\ banned \in SUBSET Accounts
    /\ online \in SUBSET Accounts
    /\ transforms \in SUBSET Accounts
    /\ combat \in SUBSET Accounts
    /\ duty \in [Moderators -> [doing: {"nothing", "find", "request", "push",
                                         "ask", "tell", "fight"},
                                target: SUBSET Accounts]]
    /\ caught \in SUBSET Accounts
    /\ restored \in SUBSET (Accounts \X {"transform", "combat"})
    /\ disturbed \in SUBSET Sessions

Init ==
    /\ phase = [s \in Sessions |-> "closed"]
    /\ banned = {}
    /\ online = {}
    /\ transforms = {}
    /\ combat = {}
    /\ duty = [m \in Moderators |-> Idle]
    /\ caught = {} /\ restored = {} /\ disturbed = {}
    /\ Feed!Init
-----------------------------------------------------------------------------
Go(s, to) == phase' = [phase EXCEPT ![s] = to]

Connect(s) ==
    /\ phase[s] = "closed"
    /\ Go(s, "login")
    /\ UNCHANGED <<playerVars, duty, feedVars>>

\* login_denial: a banned account, or a full server and not an operator.
Denied(p) ==
    \/ p \in banned
    \/ p \notin Operators /\ Cardinality(online) >= MaxPlayers

LoginChecked(s) ==
    /\ phase[s] = "login"
    /\ Go(s, IF Denied(Account[s]) THEN "closed" ELSE "configuration")
    /\ UNCHANGED <<playerVars, duty, feedVars>>

AddPlayer_GuardFirst(s) == \* mutant: the refused session removes the player too
    /\ phase[s] = "configuration"
    /\ Go(s, IF Account[s] \in online THEN "leaving" ELSE "listed")
    /\ online' = online \union {Account[s]}
    /\ UNCHANGED <<banned, transforms, combat, caught, history, duty, feedVars>>

\* After the configuration and the first chunks: add_player under the lock of
\* the players, and the end of a session whose account is already there.
AddPlayer(s) ==
    /\ phase[s] = "configuration"
    /\ IF Account[s] \in online
       THEN Go(s, "closed") /\ UNCHANGED <<online, disturbed>>
       ELSE /\ Go(s, "listed")
            /\ online' = online \union {Account[s]}
            /\ disturbed' = IF Kept(Account[s], {"unlisted", "unplaced"})
                            THEN disturbed \union {s} ELSE disturbed
    /\ UNCHANGED <<banned, transforms, combat, caught, restored, duty, feedVars>>

AddTransform(s) ==
    /\ phase[s] = "listed"
    /\ transforms' = transforms \union {Account[s]}
    /\ restored' = restored \ {<<Account[s], "transform">>}
    /\ Go(s, "placed")
    /\ UNCHANGED <<banned, online, combat, caught, disturbed, duty, feedVars>>

AddCombat(s) ==
    /\ phase[s] = "placed"
    /\ combat' = combat \union {Account[s]}
    /\ restored' = restored \ {<<Account[s], "combat">>}
    /\ Go(s, "loading")
    /\ UNCHANGED <<banned, online, transforms, caught, disturbed, duty, feedVars>>

\* More chunks, entities and vitals are sent before the session takes its
\* cursors from the feeds.
EnterPlay(s) ==
    /\ phase[s] = "loading"
    /\ Feed!Join(s)
    /\ Go(s, "play")
    /\ UNCHANGED <<playerVars, duty>>

Poll(s) ==
    /\ phase[s] = "play"
    /\ Feed!Poll(s)
    /\ UNCHANGED <<phase, playerVars, duty>>

HandleDisconnect_Ignoring(s) == \* mutant: the request is sent and the loop goes on
    /\ phase[s] = "play"
    /\ Feed!Handle(s)
    /\ UNCHANGED <<phase, playerVars, duty>>

\* A request for the session's own player ends the session.
HandleDisconnect(s) ==
    /\ phase[s] = "play"
    /\ Feed!Handle(s)
    /\ IF Feed!First(batch[s]).subject = Account[s]
       THEN Go(s, "leaving") ELSE UNCHANGED phase
    /\ UNCHANGED <<playerVars, duty>>

\* The client quits, times out or sends what cannot be decoded.
Disconnect(s) ==
    /\ phase[s] \in {"login", "configuration", "loading", "play"}
    /\ Go(s, IF Registered(s) THEN "leaving" ELSE "closed")
    /\ UNCHANGED <<playerVars, duty, feedVars>>

RemovePlayer_Returning(s) == \* mutant: remove_player forgets the rest
    /\ phase[s] = "leaving"
    /\ online' = online \ {Account[s]}
    /\ disturbed' = disturbed \ {s}
    /\ IF s \in joined THEN Feed!Leave(s) ELSE UNCHANGED feedVars
    /\ Go(s, "closed")
    /\ UNCHANGED <<banned, transforms, combat, caught, restored, duty>>

RemovePlayer_Polling(s) == \* mutant: the cursor of the session outlives it
    /\ phase[s] = "leaving"
    /\ online' = online \ {Account[s]}
    /\ disturbed' = disturbed \ {s}
    /\ batch' = [batch EXCEPT ![s] = {}]
    /\ Go(s, "unlisted")
    /\ UNCHANGED <<banned, transforms, combat, caught, restored, duty, revision, drawn,
                   feed, pushes, joined, cursor, published, since, handled, repeated>>

\* The registration is dropped: remove_player, under the lock of the players.
RemovePlayer(s) ==
    /\ phase[s] = "leaving"
    /\ online' = online \ {Account[s]}
    /\ disturbed' = disturbed \ {s}
    /\ IF s \in joined THEN Feed!Leave(s) ELSE UNCHANGED feedVars
    /\ Go(s, "unlisted")
    /\ UNCHANGED <<banned, transforms, combat, caught, restored, duty>>

RemoveTransform(s) ==
    /\ phase[s] = "unlisted"
    /\ transforms' = transforms \ {Account[s]}
    /\ Go(s, "unplaced")
    /\ UNCHANGED <<banned, online, combat, caught, history, duty, feedVars>>

RemoveCombat(s) ==
    /\ phase[s] = "unplaced"
    /\ combat' = combat \ {Account[s]}
    /\ Go(s, "closed")
    /\ UNCHANGED <<banned, online, transforms, caught, history, duty, feedVars>>

SessionStep(s) ==
    \/ LoginChecked(s) \/ AddPlayer(s) \/ AddTransform(s) \/ AddCombat(s)
    \/ EnterPlay(s) \/ Poll(s) \/ HandleDisconnect(s)
    \/ RemovePlayer(s) \/ RemoveTransform(s) \/ RemoveCombat(s)
-----------------------------------------------------------------------------
Turn(m, doing, S) == duty' = [duty EXCEPT ![m] = [doing |-> doing, target |-> S]]
Finish(m) == duty' = [duty EXCEPT ![m] = Idle]

\* The ban command: the list of bans first, then whoever is online.
Ban(m, p) ==
    /\ duty[m] = Idle
    /\ banned' = banned \union {p}
    /\ Turn(m, "find", {p})
    /\ UNCHANGED <<phase, online, transforms, combat, caught, history, feedVars>>

\* The kick command looks for the player only.
Kick(m, p) ==
    /\ duty[m] = Idle
    /\ Turn(m, "find", {p})
    /\ UNCHANGED <<phase, playerVars, feedVars>>

Pardon(m, p) ==
    /\ duty[m] = Idle
    /\ banned' = banned \ {p}
    /\ UNCHANGED <<phase, online, transforms, combat, caught, history, duty, feedVars>>

Find(m, p) ==
    /\ duty[m] = [doing |-> "find", target |-> {p}]
    /\ IF p \in online THEN Turn(m, "request", {p}) ELSE Finish(m)
    /\ UNCHANGED <<phase, playerVars, feedVars>>

\* request_disconnect looks again, then draws the number of its entry. A
\* command asks one player to go, a reset all it has listed.
RequestDisconnect(m, p) ==
    LET rest == duty[m].target \ {p}
        command == duty[m].doing = "request"
    IN /\ duty[m].doing \in {"request", "ask"} /\ p \in duty[m].target
       /\ \/ /\ p \notin online
             /\ Turn(m, IF command THEN "nothing" ELSE "ask", rest)
             /\ UNCHANGED feedVars
          \/ /\ p \in online
             /\ Feed!Draw(m, p)
             /\ Turn(m, IF command THEN "push" ELSE "tell", rest)
       /\ UNCHANGED <<phase, playerVars>>

PushDisconnect(m) ==
    /\ duty[m].doing \in {"push", "tell"}
    /\ Feed!Push(m)
    /\ IF duty[m].doing = "tell" THEN Turn(m, "ask", duty[m].target) ELSE Finish(m)
    /\ UNCHANGED <<phase, playerVars>>

\* repair_world lists the players first, and asks each of them to disconnect.
RepairWorld(m) ==
    /\ m = Console /\ duty[m] = Idle
    /\ caught' = online
    /\ Turn(m, "ask", online)
    /\ UNCHANGED <<phase, banned, online, transforms, combat, history, feedVars>>

ResetTransforms_Replacing(m) == \* mutant: the map is replaced, as the others are
    /\ duty[m] = [doing |-> "ask", target |-> {}]
    /\ transforms' = caught
    /\ restored' = restored \union
            {<<p, "transform">> : p \in {q \in caught : ~Kept(q, Placing)}}
    /\ Turn(m, "fight", {})
    /\ UNCHANGED <<phase, banned, online, combat, caught, disturbed, feedVars>>

\* When it has renewed the worlds it inserts a transform for all it had listed,
\* whether their sessions are still there or not, ...
ResetTransforms(m) ==
    /\ duty[m] = [doing |-> "ask", target |-> {}]
    /\ transforms' = transforms \union caught
    /\ restored' = restored \union
            {<<p, "transform">> : p \in {q \in caught : ~Kept(q, Placing)}}
    /\ Turn(m, "fight", {})
    /\ UNCHANGED <<phase, banned, online, combat, caught, disturbed, feedVars>>

\* ... and replaces the combat states by new ones for these.
ResetCombat(m) ==
    /\ duty[m].doing = "fight"
    /\ combat' = caught
    /\ restored' = restored \union
            {<<p, "combat">> : p \in {q \in caught : ~Kept(q, Fighting)}}
    /\ disturbed' = disturbed \union
            {s \in Sessions : /\ phase[s] \in {"loading", "play", "leaving"}
                             /\ Account[s] \notin caught}
    /\ caught' = {}
    /\ Finish(m)
    /\ UNCHANGED <<phase, banned, online, transforms, feedVars>>

ModeratorStep(m) ==
    \/ PushDisconnect(m) \/ ResetTransforms(m) \/ ResetCombat(m)
    \/ \E p \in Accounts : Find(m, p) \/ RequestDisconnect(m, p)
-----------------------------------------------------------------------------
Next ==
    \/ \E s \in Sessions : Connect(s) \/ Disconnect(s) \/ SessionStep(s)
    \/ \E m \in Moderators :
         \/ ModeratorStep(m) \/ RepairWorld(m)
         \/ \E p \in Accounts : Ban(m, p) \/ Kick(m, p) \/ Pardon(m, p)

Spec == Init /\ [][Next]_vars

\* A session polls on every tick of its timer, and commands and resets run to
\* their end; nobody has to connect, to quit, to ban or to reset.
FairSpec ==
    /\ Spec
    /\ \A s \in Sessions : WF_vars(SessionStep(s))
    /\ \A m \in Moderators : WF_vars(ModeratorStep(m))
-----------------------------------------------------------------------------
\* What makes them inductive: whoever made the transform or the combat state of
\* a player has still to remove it, ...
Placed == \A p \in transforms : <<p, "transform">> \in restored \/ Kept(p, Placing)
Armed == \A p \in combat : <<p, "combat">> \in restored \/ Kept(p, Fighting)

\* ... and where nobody is about to remove those of a session, they are there.
Undisturbed(s) ==
    /\ \A t \in Sessions : Account[t] = Account[s] => phase[t] \notin {"unlisted", "unplaced"}
    /\ phase[s] \in Placing => Account[s] \in transforms
    /\ phase[s] \in Fighting => Account[s] \in combat

SessionInvariant ==
    /\ TypeOK
    /\ pushes \in Nat
    /\ OneSessionPerPlayer
    /\ Placed /\ Armed
    /\ \A s \in Sessions \ disturbed : Registered(s) => Undisturbed(s)
=============================================================================
