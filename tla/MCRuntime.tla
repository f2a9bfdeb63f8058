----------------------------- MODULE MCRuntime -----------------------------
(***************************************************************************)
(* Instances of Runtime for TLC.  Addresses are interchangeable in the     *)
(* runs that check safety properties only.                                 *)
(***************************************************************************)
EXTENDS Runtime, TLC

Symmetry == Permutations(Addr)
=============================================================================
