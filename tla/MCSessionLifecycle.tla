-------------------------- MODULE MCSessionLifecycle --------------------------
(***************************************************************************)
(* Instances of SessionLifecycle for TLC.  Times are in units of about     *)
(* five minutes.                                                           *)
(***************************************************************************)
EXTENDS SessionRefinesLease, TLC

\* Tokens are interchangeable: sound for the safety runs.
TokenSymmetry == Permutations(Tokens)
=============================================================================
