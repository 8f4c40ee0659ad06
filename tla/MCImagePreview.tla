---------------------------- MODULE MCImagePreview ----------------------------
(* Two tracks, the first of them without a chunk; two boxes of the page.   *)
EXTENDS ImagePreview

MCBlank     == {1}
MCBoxes     == {"APPLE"}
MCRemovable == {1}
MCPages     == {"p1", "p2"}
MCLeaving   == {"p2"}
MCBoxesNew  == {"C64", "ISOMFM"}

===============================================================================
