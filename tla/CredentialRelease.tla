--------------------------- MODULE CredentialRelease ---------------------------
(***************************************************************************)
(* What a session promises whoever approves the release of a secret: the   *)
(* request is made once and on the agent's turn; an approval releases the  *)
(* secret once, into one pair of hands; until these let go of it, it only  *)
(* reaches the document it was asked for from, at the origin the request   *)
(* names, and nobody else is given the session; and a session that is over *)
(* asks, releases and types nothing again.                                 *)
(***************************************************************************)
CONSTANTS
  Key,      \* the requests there may be: each of a step, from an origin
  Document,
  Nowhere   \* the document of what was not asked for

VARIABLES
  stage,  \* of every request: what has become of it
  source, \* the document each was asked for from
  mode,   \* who drives the session: "agent", "away", or for good "over"
  filled  \* what was typed where

vars == <<stage, source, mode, filled>>

InHand == \E k \in Key : stage[k] = "released"

Init ==
  /\ stage = [k \in Key |-> "none"]
  /\ source = [k \in Key |-> Nowhere]
  /\ mode = "agent"
  /\ filled = {}

\* One request goes from one stage to another, and only that one.
Moves(k, from, to) ==
  /\ stage[k] = from /\ stage'[k] \in to
  /\ stage' = [stage EXCEPT ![k] = stage'[k]]

\* A step has one open request.
Ask(k) ==
  /\ Moves(k, "none", {"open"})
  /\ mode = "agent" /\ ~InHand
  /\ \A l \in Key : l.step = k.step => stage[l] # "open"
  /\ \E d \in Document : source' = [source EXCEPT ![k] = d]
  /\ UNCHANGED <<mode, filled>>

Decide(k) ==
  /\ Moves(k, "open", {"approved", "refused"})
  /\ UNCHANGED <<source, mode, filled>>

\* To be used now, or lost at once.
Release(k) ==
  /\ Moves(k, "approved", {"released", "done"})
  /\ mode = "agent" /\ ~InHand
  /\ UNCHANGED <<source, mode, filled>>

\* A field of the form; after the last one nothing is kept.
Fill(k) ==
  /\ Moves(k, "released", {"released", "done"})
  /\ mode = "agent"
  /\ filled' = filled \cup {[key |-> k, nonce |-> source[k], origin |-> k.origin]}
  /\ UNCHANGED <<source, mode>>

\* It is given up, which may be because the session ends.
GiveUp(k) ==
  /\ Moves(k, "released", {"done"})
  /\ mode' \in {mode, "over"}
  /\ UNCHANGED <<source, filled>>

ChangeHands ==
  /\ mode # "over" /\ mode' \in {"agent", "away", "over"} \ {mode}
  /\ ~InHand
  /\ UNCHANGED <<stage, source, filled>>

Next ==
  \/ \E k \in Key : Ask(k) \/ Decide(k) \/ Release(k) \/ Fill(k) \/ GiveUp(k)
  \/ ChangeHands

Spec == Init /\ [][Next]_vars
=============================================================================
