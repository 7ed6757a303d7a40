------------------------------ MODULE MCVitals ------------------------------
(***************************************************************************)
(* A player with two points of health and one who attacks, for a few ticks *)
(* in which everything periodic happens: in lava, water and near a zombie; *)
(* under effects; behind a shield; and in a reset of the world.            *)
(***************************************************************************)
EXTENDS Vitals, TLC

CONSTANTS victim, attacker, console

MCPeriods == [k \in Kinds \ {"fire resistance"} |-> IF k = "hunger" THEN 2 ELSE 1]
MCGifts == {[kind |-> k, left |-> 1] : k \in {"regeneration", "poison"}}
Scene(one, other, all) == victim :> one @@ attacker :> other @@ console :> all
MCScenes == {
    Scene({"move", "respawn", "sync"}, {"attack"}, {}),
    Scene({"effect", "eat", "respawn", "sync"}, {"attack"}, {}),
    Scene({"block", "move", "respawn"}, {"attack"}, {}),
    Scene({"respawn", "sync"}, {}, {"reset"}),
    Scene({"sync"}, {"attack"}, {"reset"})}
=============================================================================
