------------------------------ MODULE MCJarProbe ------------------------------
(***************************************************************************)
(* Instances of JarProbe for TLC.                                          *)
(***************************************************************************)
EXTENDS JarProbe, TLC

\* Requests are interchangeable.
ProberSymmetry == Permutations(Prober)
=============================================================================
