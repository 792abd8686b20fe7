----------------------------- MODULE Transitions -----------------------------
(***************************************************************************)
(* The state machine library of browser_handoff_service: the session       *)
(* states and lease owners of models.py and the table and checks of        *)
(* transitions.py.  Pure definitions, shared by every session module.      *)
(***************************************************************************)

TERMINAL_STATES == {"completed", "cancelled", "expired", "failed"}

AGENT_COMMAND_STATES == {"agent_active", "agent_resumable"}

HUMAN_STATES == {"human_active", "human_sensitive"}

SessionState ==
  AGENT_COMMAND_STATES \cup HUMAN_STATES \cup TERMINAL_STATES
    \cup {"handoff_requested", "handover_requested", "sanitize_pending"}

LeaseOwner == {"agent", "human", "service", "none"}

\* <<from, to, owner after>>, the rows of the source's dictionary.
ALLOWED_TRANSITIONS ==
  { <<"agent_active",       "handoff_requested",  "service">>,
    <<"agent_resumable",    "handoff_requested",  "service">>,
    <<"handoff_requested",  "human_active",       "human">>,
    <<"human_active",       "human_sensitive",    "human">>,
    <<"human_active",       "handover_requested", "service">>,
    <<"handover_requested", "agent_active",       "agent">>,
    <<"handover_requested", "cancelled",          "none">>,
    <<"human_active",       "completed",          "none">>,
    <<"human_sensitive",    "completed",          "none">>,
    <<"handoff_requested",  "cancelled",          "none">>,
    <<"human_active",       "cancelled",          "none">>,
    <<"human_sensitive",    "cancelled",          "none">>,
    <<"human_active",       "sanitize_pending",   "service">>,
    <<"sanitize_pending",   "agent_resumable",    "agent">> }

(***************************************************************************)
(* transition(state, owner, to) returns next.  When no next satisfies this *)
(* the call raises TransitionError and the caller's assignments do not run.*)
(***************************************************************************)
Transition(state, owner, to, next) ==
  /\ state \notin TERMINAL_STATES
  /\ \/ /\ to \in {"expired", "failed"}
        /\ next = "none"
     \/ /\ to \notin {"expired", "failed"}
        /\ <<state, to, next>> \in ALLOWED_TRANSITIONS
        /\ state \in AGENT_COMMAND_STATES => owner = "agent"
        /\ state \in HUMAN_STATES => owner = "human"
        /\ state \in {"handoff_requested", "handover_requested"} => owner = "service"

=============================================================================
