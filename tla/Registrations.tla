---------------------------- MODULE Registrations ----------------------------
(***************************************************************************)
(* The state of the sessions and what they promise, apart from how they go *)
(* about it: the registration of a player, from add_player to              *)
(* remove_player (carbon-server/src/network/mod.rs, state.rs), and the     *)
(* feed of the requests to disconnect one. PlayerSessions has the steps.   *)
(***************************************************************************)
EXTENDS Naturals

CONSTANTS Sessions,   \* the connections
          Accounts,   \* the accounts
          Account,    \* the account of each connection
          Operators,  \* the accounts that may join a full server
          MaxPlayers, \* the capacity of the server
          Moderators, \* the console and the operators who ban and kick
          Console,    \* the one of them that may reset the world
          History,    \* the number of disconnect requests that are kept
          Bound       \* the number of disconnect requests, for TLC

ASSUME SessionsAssumption ==
    /\ Account \in [Sessions -> Accounts]
    /\ Operators \subseteq Accounts
    /\ MaxPlayers \in Nat
    /\ Console \in Moderators
    /\ History \in Nat \ {0}
    /\ Bound \in Nat

VARIABLES phase,      \* where each connection is
          banned,     \* the banned accounts
          online,     \* the accounts in the list of players
          transforms, \* the accounts with a transform
          combat,     \* the accounts with a combat state
          duty,       \* what each moderator is doing
          caught,     \* the accounts that a reset of the world has listed
          restored,   \* history: what a reset made for players who were gone
          disturbed,  \* history: sessions that began beside the removal of an
                      \* older one, or whose combat state a reset forgot
          revision, drawn, feed, pushes, joined, cursor, batch,
          published, since, handled, repeated

Feed == INSTANCE RevisionFeed
    WITH Writers <- Moderators, Readers <- Sessions, Subjects <- Accounts,
         highest <- FALSE

\* From the insertion into the list of players to the removal from it.
Registered(s) == phase[s] \in {"listed", "placed", "loading", "play", "leaving"}
\* add_player or remove_player may still touch what it keeps of the player.
Present(s) == Registered(s) \/ phase[s] \in {"unlisted", "unplaced"}

-----------------------------------------------------------------------------
\* The list of players holds exactly the accounts of the sessions that were
\* added to it, one session for each: a second login with an account is
\* refused and does not take the first one's player away.
OneSessionPerPlayer ==
    /\ online = {Account[s] : s \in {t \in Sessions : Registered(t)}}
    /\ \A s, t \in Sessions :
         Registered(s) /\ Registered(t) /\ Account[s] = Account[t] => s = t

\* Once the sessions of an account are gone, however they overlapped, nothing
\* that was made for its player is left, but what a reset of the world made of
\* players it had listed and who were gone by then: that stays until the
\* account plays again.
NoLeftovers ==
    \A p \in Accounts :
        \/ p \in transforms /\ <<p, "transform">> \notin restored
        \/ p \in combat /\ <<p, "combat">> \notin restored
        => \E s \in Sessions : Account[s] = p /\ Present(s)

\* A session that plays has the transform and the combat state of its player,
\* without which its movement, its shield and what others see of it are
\* dropped; whatever ends, is refused or is reset meanwhile. Two are not so
\* lucky: who was added while an older session of the account was still being
\* removed, and who was added after a reset had listed the players.
PlayersKeepState ==
    \A s \in Sessions \ disturbed :
        phase[s] \in {"loading", "play"} => Account[s] \in transforms \intersect combat

\* What the sessions and moderators do to the feed of disconnect requests is
\* what RevisionFeed says, so that what is shown of a feed holds here.
FeedSpec == Feed!Spec

\* A moderator whose request was pushed after the session took its cursor, and
\* was not overtaken, gets the session out of play, unless so many requests
\* follow that the feed drops it.
RequestsTakeEffect ==
    \A s \in Sessions, n \in 0..(Bound - 1) :
        (/\ phase[s] = "play"
         /\ \E e \in feed : /\ e.place = n /\ e.subject = Account[s]
                            /\ Feed!Unhandled(s, e) /\ ~Feed!Overtaken(e))
        ~> (phase[s] # "play" \/ \A e \in feed : e.place # n)
=============================================================================
