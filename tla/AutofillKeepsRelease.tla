-------------------------- MODULE AutofillKeepsRelease --------------------------
(***************************************************************************)
(* Autofill implements CredentialRelease: what the broker's book and the   *)
(* call under way amount to for the human who approves.                    *)
(***************************************************************************)
EXTENDS Autofill

\* Requests from inside the confinement; there are no others.
Asking == [step : Step, alias : Alias, origin : Allowed]

\* The call has the secret of this request and may still type it.
Holds(k) == at \in {"fill", "place", "type"} /\ KeyOf(job) = k

\* The service cannot tell an approval that has lapsed: to refuse its read is
\* the broker's business.
Answer(r) ==
  IF r.state = "pending" THEN "open" ELSE IF r.covers THEN "approved" ELSE "refused"

Stage(k) ==
  LET r == request[k]
  IN CASE r = NoRequest -> "none"
       [] r # NoRequest /\ r.reads = 0 -> Answer(r)
       [] r # NoRequest /\ r.reads = 1 -> IF Holds(k) THEN "released" ELSE "done"
       [] OTHER -> "replayed"

Source(k) == IF request[k] = NoRequest THEN 0 ELSE request[k].nonce

Mode == IF bad \/ turn = "closed" THEN "over" ELSE IF turn = "agent" THEN "agent" ELSE "away"

R == INSTANCE CredentialRelease WITH
  Key <- Asking,
  Document <- Nonce,
  Nowhere <- 0,
  stage <- [k \in Asking |-> Stage(k)],
  source <- [k \in Asking |-> Source(k)],
  mode <- Mode,
  filled <- typed

(***************************************************************************)
(* Whatever answers are lost, whatever the page does between two awaits    *)
(* and however often a step is retried, every step of the call is a step   *)
(* of the release's promise or changes nothing it shows: no approval is    *)
(* replayed or used for another document, and the session does not change  *)
(* hands, or end for the agent, while a secret is about to be typed        *)
(* (registry.py, _autofill_locked and record_autofill_outcome; runtime.py, *)
(* autofill_fill).                                                         *)
(***************************************************************************)
KeepsRelease == R!Spec
=============================================================================
