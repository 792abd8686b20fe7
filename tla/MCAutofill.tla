------------------------------ MODULE MCAutofill ------------------------------
(***************************************************************************)
(* Instances of Autofill for TLC.                                          *)
(***************************************************************************)
EXTENDS AutofillKeepsRelease, TLC

\* Step keys and secrets are opaque.
KeySymmetry == Permutations(Step) \cup Permutations(Alias)
=============================================================================
