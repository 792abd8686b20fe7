------------------------------ MODULE NovncClaims ------------------------------
(***************************************************************************)
(* What the code says of a revocation that a noVNC stream notices.         *)
(***************************************************************************)
EXTENDS NovncBridge

(***************************************************************************)
(* registry.py:1254-1257: "close the session and its worker and raise.     *)
(* Called from every path that keeps an authenticated context alive ... so *)
(* the kill-switch also tears down a live human-driven browser".  The task *)
(* that closes the worker is the stream's own, and is cancelled with it    *)
(* when the viewer leaves; what enforces a revocation passes over a        *)
(* session that is already terminal, and the browser is left to somebody's *)
(* explicit close or to the service's shutdown.                            *)
(***************************************************************************)
EnforcedMeansClosed == ~live /\ lock = "free" => ~browser
=============================================================================
