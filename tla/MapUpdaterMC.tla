---------------------------- MODULE MapUpdaterMC ----------------------------
(***************************************************************************)
(* Small instance of MapUpdater: two workers, one dungeon map with two     *)
(* instances and one continent.                                            *)
(***************************************************************************)
EXTENDS MapUpdater, TLC

CONSTANTS w1, w2, continent, dungeon, i1, i2

MCBaseMaps == {continent, dungeon}
MCInstances == {i1, i2}
MCParent == i1 :> dungeon @@ i2 :> dungeon
MCUpdateStep == continent :> 0 @@ dungeon :> 2

=============================================================================
