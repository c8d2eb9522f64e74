-------------------------- MODULE MCCompositeVideo --------------------------
(***************************************************************************)
(* CompositeVideo for TLC: a raster of four lines, which like 262 leaves   *)
(* one over when divided by the three colour phases; two rows through a    *)
(* queue of one, smaller than a frame as on the board; and frames enough   *)
(* for the menu, the start of a copy, its warning and one afterwards.      *)
(***************************************************************************)
EXTENDS CompositeVideo

MCLines == [y : 0 .. Rows - 1, frame : 0 .. LastFrame]
=============================================================================
