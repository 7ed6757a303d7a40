----------------------------- MODULE MCPresence -----------------------------
(***************************************************************************)
(* Two players in two dimensions, with the mob the Overworld begins with   *)
(* and a few items. The actor is followed through everything; the visitor  *)
(* comes and goes, alive, while there was no reset and few entities.       *)
(***************************************************************************)
EXTENDS Presence

CONSTANTS alice, bob

\* A bound for TLC.
FewWithVisitors == at[bob] # "out" => resets = 0 /\ bob \notin dead /\ \A d \in Dims : sims[d].next <= 2
=============================================================================
