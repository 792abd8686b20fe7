------------------------------ MODULE MCJarStore ------------------------------
(***************************************************************************)
(* Instances of JarStore for TLC.                                          *)
(***************************************************************************)
EXTENDS JarStoreKeepsPromise, TLC

\* The processes of the deployment run the same program.
ProcessSymmetry == Permutations(Process)
=============================================================================
