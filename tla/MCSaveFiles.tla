---------------------------- MODULE MCSaveFiles ----------------------------
(***************************************************************************)
(* One thread saves and resets, as long as the tick loop, the console and  *)
(* the shutdown do not save at the same time. Three worlds tell a stale    *)
(* snapshot from the current one and from the fresh world; two damaged     *)
(* texts let a second damage follow a recovery.                            *)
(***************************************************************************)
EXTENDS SaveFiles, TLC

CONSTANTS tick, fresh, w1, w2, g1, g2

OneSaver == {tick}
SmallWorlds == {fresh, w1, w2}
TwoTexts == {g1, g2}

\* The worlds other than the fresh one, and the damaged texts, are alike.
Alike == Permutations({w1, w2}) \union Permutations({g1, g2})
=============================================================================
