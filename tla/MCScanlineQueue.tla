--------------------------- MODULE MCScanlineQueue ---------------------------
(***************************************************************************)
(* ScanlineQueue for TLC: a ring of two slots whose counters wrap at four, *)
(* so that every alignment of the slot index with the wrap occurs.         *)
(***************************************************************************)
EXTENDS ScanlineQueue
=============================================================================
