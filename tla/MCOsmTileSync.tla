--------------------------- MODULE MCOsmTileSync ----------------------------
(* Two tiles that share a manifest, and a tile of another group.           *)
EXTENDS OsmTileSync, TLC
MCTiles == {1, 2, 3}
MCGroupOf == (1 :> "a") @@ (2 :> "a") @@ (3 :> "b")
=============================================================================
