-------------------------- MODULE MCPlayerSessions --------------------------
(***************************************************************************)
(* Connections named for what they show: an old and a new one of the same  *)
(* account, alice's, so that she reconnects while her old session is being *)
(* removed, and one of another account, bob's.                             *)
(***************************************************************************)
EXTENDS PlayerSessions, TLC

CONSTANTS old, new, other, alice, bob

AccountOfOne == old :> alice
AccountOfTwo == AccountOfOne @@ new :> alice
AccountOfOthers == AccountOfOne @@ other :> bob
AccountOfAll == AccountOfTwo @@ other :> bob
\* A definition that a .cfg names is evaluated at every use, one that it
\* reaches through another only once.
Alone == AccountOfOne
Reconnects == AccountOfTwo
Others == AccountOfOthers
Everyone == AccountOfAll
=============================================================================
