--------------------------- MODULE MCBlockUpdates ---------------------------
(***************************************************************************)
(* A plant on dirt, and a frame of one obsidian block around two blocks    *)
(* of air: enough for a plant to die, for a portal to be half lit, to      *)
(* collapse and to be lit again.                                           *)
(***************************************************************************)
EXTENDS BlockUpdates, TLC

CONSTANTS ground, grown, edge, lower, upper

PlantOnGround == ground :> grown
PlantAndFrame == ground :> "dirt" @@ grown :> "plant" @@ edge :> "obsidian"
                 @@ lower :> "air" @@ upper :> "air"

TheAbove == PlantOnGround
TheGenerated == PlantAndFrame
Interchangeable == Permutations(Sessions)
=============================================================================
