-------------------------- MODULE SessionRefinesLease --------------------------
(***************************************************************************)
(* SessionLifecycle implements Lease: what a reader of the lease's promise *)
(* sees of the session's fields.                                           *)
(***************************************************************************)
EXTENDS SessionLifecycle

driver == IF Registered THEN owner ELSE "unborn"

parkedFor ==
  CASE state = "handoff_requested" -> "human"
    [] state \in {"handover_requested", "sanitize_pending"} -> "agent"
    [] OTHER -> "nobody"

L == INSTANCE Lease WITH
  driver <- driver,
  parkedFor <- parkedFor,
  widened <- ~confined,
  sensitive <- state = "human_sensitive"

(***************************************************************************)
(* Every step of the session, the unlocked ones of create_session          *)
(* included, is a step of the abstract lease or changes nothing it shows.  *)
(***************************************************************************)
ImplementsLease == L!Spec
=============================================================================
