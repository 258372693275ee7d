---------------------------- MODULE MC_Dispatch -----------------------------
(***************************************************************************)
(* The sizes of the accessories: all different, and together more than the *)
(* queue holds once a device is added.                                     *)
(***************************************************************************)
EXTENDS Dispatch

MCChars == [p \in Plugin |-> IF p = "bme" THEN 2 ELSE 1]
=============================================================================
