----------------------------- MODULE MCJarSession -----------------------------
(***************************************************************************)
(* Instances of JarSession for TLC.                                        *)
(***************************************************************************)
EXTENDS JarSessionKeepsPromise
=============================================================================
