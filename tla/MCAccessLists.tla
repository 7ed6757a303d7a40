---------------------------- MODULE MCAccessLists ---------------------------
(***************************************************************************)
(* The console, a helper who may do everything under carbon.command but    *)
(* what is denied, and what they try: the helper to get the rest, the      *)
(* console to ban the helper for ever, for a second, and to take it back.  *)
(***************************************************************************)
EXTENDS AccessLists

CONSTANTS console, helper

MCActors == {console, helper}
Try(name, player, value) == [name |-> name, player |-> player, value |-> value]
Grant == Rule(Command("permissions"), FALSE, FALSE)
Deny(name) == Rule(Command(name), FALSE, TRUE)
MCAttempts ==
    console :> {Try("ban", helper, 0), Try("tempban", helper, 1)}
    @@ helper :> {Try("grantperm", helper, Grant), Try("revokeperm", helper, Deny("op")),
                  Try("op", helper, 0), Try("pardon", helper, 0)}
Everything == Rule(<<"carbon", "command">>, TRUE, FALSE)
FewLists == [l \in Lists |-> [p \in Players |->
    CASE l = "permissions" -> {Everything, Deny("permissions"), Deny("op")}
      [] l = "bans" -> {1}
      [] OTHER -> {}]]
MCStored == {FewLists}
=============================================================================
