------------------------------ MODULE RefClaims ------------------------------
(***************************************************************************)
(* What runtime.py and the README say of refs over a whole conversation,   *)
(* against RefIdentity with a caller that threads its counter.             *)
(***************************************************************************)
EXTENDS RefIdentity

\* runtime.py:279 "A ref names one node and is never issued for another node
\* in the same conversation" and README.md:59, for a caller that passes the
\* next_ref of its last snapshot to its next one.
NeverReissuedInConversation == \A e \in shown : e.ref \notin past
=============================================================================
