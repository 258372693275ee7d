---------------------------- MODULE MC_HAPServer ----------------------------
(***************************************************************************)
(* Symmetry for the runs that check safety only: Init, Next and the        *)
(* properties treat the members of each set alike.                         *)
(***************************************************************************)
EXTENDS HAPServer, TLC

Symmetry == UNION {Permutations(S) : S \in {Client, Controller, Key}}
=============================================================================
