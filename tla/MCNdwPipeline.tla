--------------------------- MODULE MCNdwPipeline ----------------------------
(* The last position of one tile and of the next; the gantry at 7 is in    *)
(* range of the second and outside the first tile's padding.               *)
EXTENDS NdwPipeline
MCRoad == {2, 5}
MCFeed == <<{4}, {4, 7}>>
=============================================================================
