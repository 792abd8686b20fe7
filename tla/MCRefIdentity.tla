---------------------------- MODULE MCRefIdentity ----------------------------
(***************************************************************************)
(* Instances of RefIdentity for TLC.                                       *)
(***************************************************************************)
EXTENDS RefIdentity, TLC

\* Looks are only compared.
LookSymmetry == Permutations(Look)
=============================================================================
