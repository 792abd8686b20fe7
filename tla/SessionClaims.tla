----------------------------- MODULE SessionClaims -----------------------------
(***************************************************************************)
(* What the documents say of a session and the code does not do.           *)
(***************************************************************************)
EXTENDS SessionLifecycle

(***************************************************************************)
(* Plan, line 181: cleanup_completed_at marks "that browser, display,      *)
(* websocket proxy, and scratch files are gone".  A session closed while   *)
(* create_session awaits worker.start is marked before its browser exists. *)
(***************************************************************************)
CleanedUpHasNoBrowser == cleanup = "completed" => browser # "running"
=============================================================================
