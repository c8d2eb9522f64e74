------------------------------ MODULE MCFat32 ------------------------------
(***************************************************************************)
(* Fat32 for TLC: six clusters, two files and a subdirectory of which each *)
(* directory can hold two before it must grow, so that the card gets full. *)
(* The names of the files are interchangeable.                             *)
(***************************************************************************)
EXTENDS Fat32

CONSTANTS a, b

MCFiles == {a, b}
MCDirs == {"S"}
Interchangeable == Permutations(MCFiles)
=============================================================================
