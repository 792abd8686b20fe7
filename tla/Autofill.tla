------------------------------- MODULE Autofill -------------------------------
(***************************************************************************)
(* Filling a login form with a credential the agent never sees, in one     *)
(* session.  A call pins the document it finds with a nonce, asks the      *)
(* broker for the release of one secret to that document's origin, waits   *)
(* for a decision, compares the grant and the page with what was asked,    *)
(* spends the grant's single read and types the values.  The call holds    *)
(* the session's lock throughout, but the page, the broker, the clocks and *)
(* the jar's revocation do not wait for locks, and a call that ends before *)
(* the release is resumed, under the same step key, by a later one.        *)
(*                                                                         *)
(* The broker is external, and modelled from what keychute.py asks of it:  *)
(* one request per idempotency key, replayed to whoever repeats the key,   *)
(* and a grant whose read is replayed likewise.  A page does not forge     *)
(* nonces or target markers.  A configured site's session, bound to one    *)
(* alias, is the instance with one Alias.  A definition followed at once   *)
(* by the one it varies is a mutant (PROJECT.json).                        *)
(***************************************************************************)
EXTENDS Naturals, FiniteSets

CONSTANTS
  Step,     \* step keys the agent uses
  Alias,    \* the secrets it may name
  Origin,   \* origins the page can be at
  Allowed,  \* those inside the confinement and on HTTPS
  Kind,     \* kinds of login field
  Cap,      \* AUTOFILL_FILL_CAP
  MaxNonce, \* documents pinned: bounds the behaviours
  Faults    \* "call": an answer of the broker is lost

ASSUME AutofillAssumption ==
  /\ Allowed \subseteq Origin
  /\ Cap \in Nat /\ MaxNonce \in Nat
  /\ Faults \subseteq {"call"}

VARIABLES
  page,    \* the main frame's document: its origin, its nonce, the kinds whose
           \* targets are marked, and those of them that take no fill now
  nonces,  \* nonces minted so far
  pending, \* autofill_pending
  fills,   \* autofill_fill_count
  bad,     \* autofill_bad_password
  turn,    \* who drives the session
  due,     \* "expired": a limit has passed.  "revoked": its jar is tombstoned
  at,      \* where the call in progress is
  job,     \* what it is about
  request, \* the broker's requests, by idempotency key
  typed    \* history: what was typed where

session == <<fills, bad, turn, due>>
vars == <<page, nonces, pending, session, at, job, request, typed>>

Key == [step : Step, alias : Alias, origin : Origin]
Nonce == 0 .. MaxNonce \* 0: the document was never pinned
Pin == [alias : Alias, origin : Origin, nonce : Nonce, kinds : SUBSET Kind]
NoPin == [alias |-> "none"]
NoJob == [step |-> "none"]
NoRequest == [state |-> "none"]

TypeOK ==
  /\ page \in [origin : Origin, nonce : Nonce, marked : SUBSET Kind, hidden : SUBSET Kind]
  /\ nonces \in Nonce
  /\ pending \in [Step -> Pin \cup {NoPin}]
  /\ fills \in 0 .. Cap
  /\ bad \in BOOLEAN /\ due \in {"no", "expired", "revoked"}
  /\ turn \in {"agent", "human", "closed"}
  /\ at \in {"idle", "create", "wait", "info", "verify", "read", "fill", "place", "type"}
  /\ IF at = "idle" THEN job = NoJob
     ELSE job \in [step : Step, pin : Pin, todo : SUBSET Kind, now : Kind \cup {"none"}]
  /\ request \in [Key -> {NoRequest} \cup
       [state : {"pending", "approved", "refused"}, covers : BOOLEAN,
        valid : BOOLEAN, uses : 0 .. 1, reads : Nat, nonce : Nonce]]
  /\ typed \subseteq [key : Key, nonce : Nonce, origin : Origin]

Init ==
  /\ page \in [origin : Origin, nonce : {0}, marked : {{}}, hidden : {{}}]
  /\ nonces = 0
  /\ pending = [s \in Step |-> NoPin]
  /\ fills = 0 /\ bad = FALSE
  /\ turn = "agent" /\ due = "no"
  /\ at = "idle" /\ job = NoJob
  /\ request = [k \in Key |-> NoRequest]
  /\ typed = {}
-----------------------------------------------------------------------------
(* Helpers.                                                                *)

\* The session's lock is free.
Unlocked == at = "idle"

\* What _autofill_locked and its callers require before anything else.
UnderCap == fills < Cap
ServesUnlatched == Unlocked /\ turn = "agent" /\ due = "no" /\ UnderCap
Serves == Unlocked /\ turn = "agent" /\ due = "no" /\ ~bad /\ UnderCap

\* AUTOFILL_PREPARE_JS: the nonce goes to the document, the markers to the
\* targets, and nothing is left of the markers of an earlier step.
Prepared(n, kinds) == [page EXCEPT !.nonce = n, !.marked = kinds]

\* A step that is pending keeps the document it was asked for.
NeedsPin(s) == pending[s] = NoPin

\* The idempotency key: the request's scope.
KeyOf(j) == [step |-> j.step, alias |-> j.pin.alias, origin |-> j.pin.origin]
AskedFor == request[KeyOf(job)]

\* grant_info, as raised against the request: autofill's mechanism, not
\* revoked, in time, read less than max_uses times, for the origin asked for.
UsableAnywhere(g) == g.valid /\ g.uses < 1
Usable(g) == g.valid /\ g.covers /\ g.uses < 1

\* AUTOFILL_VERIFY_JS, for the targets of the kinds in todo.
Fillable == page.marked \ page.hidden
SamePage(p, todo) ==
  page.nonce = p.nonce /\ page.origin = p.origin /\ todo \subseteq Fillable

\* The entry survives the call: written before the request is created, and
\* again with the request's id.
RemembersNothing(s, p) == UNCHANGED pending
Remembers(s, p) == pending' = [pending EXCEPT ![s] = p]

\* The call goes on to the broker with a pin.
Asks(s, p) ==
  at' = "create" /\ job' = [step |-> s, pin |-> p, todo |-> p.kinds, now |-> "none"]

\* The call answers, which restarts the idle clock; or raises.
Ends == at' = "idle" /\ job' = NoJob
Restarts == due' \in {due} \cup (IF due = "expired" THEN {"no"} ELSE {})
Answers == Ends /\ Restarts /\ UNCHANGED <<fills, bad, turn>>
Goes(to) == at' = to /\ UNCHANGED <<job, session>>

\* create_access_request at the broker: idempotent.
Opened(k, nonce) ==
  IF request[k] # NoRequest THEN request
  ELSE [request EXCEPT ![k] = [state |-> "pending", covers |-> FALSE, valid |-> FALSE,
                               uses |-> 0, reads |-> 0, nonce |-> nonce]]

\* read_grant at the broker: the same idempotency key is served again.
Served(k) == [request EXCEPT ![k].uses = 1, ![k].reads = @ + 1]
-----------------------------------------------------------------------------
(* The call.  Its refusals that change nothing are left out.               *)

\* The first call for a step: pin the document and choose its targets.
AskFirst(s, a, kinds) ==
  LET n == nonces + 1
      p == [alias |-> a, origin |-> page.origin, nonce |-> n, kinds |-> kinds]
  IN /\ Serves /\ NeedsPin(s) /\ n \in Nonce /\ kinds \cap page.hidden = {}
     /\ nonces' = n
     /\ page' = Prepared(n, kinds)
     /\ IF page.origin \in Allowed
        THEN Remembers(s, p) /\ Asks(s, p)
        ELSE UNCHANGED <<pending, at, job>>
     /\ UNCHANGED <<session, request, typed>>

\* Some target cannot take the fill: the old markers are gone, those before it
\* may be marked again, and the nonce stays.
PrepareFails(s) ==
  /\ Serves /\ NeedsPin(s)
  /\ \E got \in SUBSET (Kind \ page.hidden) :
       got # Kind /\ page' = [page EXCEPT !.marked = got]
  /\ UNCHANGED <<nonces, pending, session, at, job, request, typed>>

\* A retry: what was pinned, wherever the page is now.
AskAgain(s, a) ==
  /\ Serves /\ ~NeedsPin(s) /\ pending[s].alias = a
  /\ Asks(s, pending[s])
  /\ UNCHANGED <<page, nonces, pending, session, request, typed>>

Create ==
  /\ at = "create"
  /\ request' = Opened(KeyOf(job), job.pin.nonce)
  /\ Remembers(job.step, job.pin)
  /\ Goes("wait")
  /\ UNCHANGED <<page, nonces, typed>>

CreateLost ==
  /\ at = "create" /\ "call" \in Faults
  /\ request' \in {request, Opened(KeyOf(job), job.pin.nonce)}
  /\ Answers
  /\ UNCHANGED <<page, nonces, pending, typed>>

\* The decision, or that there is none yet, by create's own answer or wait's.
Approved ==
  /\ at = "wait" /\ AskedFor.state = "approved"
  /\ Goes("info")
  /\ UNCHANGED <<page, nonces, pending, request, typed>>

NotApproved ==
  /\ at = "wait"
  /\ AskedFor.state # "approved" \/ "call" \in Faults
  /\ Answers
  /\ UNCHANGED <<page, nonces, pending, request, typed>>

GrantFits ==
  /\ at = "info" /\ Usable(AskedFor)
  /\ Goes("verify")
  /\ UNCHANGED <<page, nonces, pending, request, typed>>

GrantDoesNot ==
  /\ at = "info"
  /\ ~Usable(AskedFor) \/ "call" \in Faults
  /\ Answers
  /\ UNCHANGED <<page, nonces, pending, request, typed>>

\* autofill_fill with no values: look before the read is spent.
PageFits ==
  /\ at = "verify" /\ SamePage(job.pin, job.pin.kinds)
  /\ Goes("read")
  /\ UNCHANGED <<page, nonces, pending, request, typed>>

PageMoved ==
  /\ at \in {"verify", "fill"} /\ ~SamePage(job.pin, job.pin.kinds)
  /\ Answers
  /\ UNCHANGED <<page, nonces, pending, request, typed>>

\* _raise_if_expired and _enforce_jar_not_revoked_locked, before the read
\* and before the fill; the latter ends the session.
Stopped ==
  /\ at \in {"read", "fill"} /\ due # "no"
  /\ Ends
  /\ turn' = IF due = "revoked" THEN "closed" ELSE turn
  /\ UNCHANGED <<page, nonces, pending, fills, bad, due, request, typed>>

\* The secret is in the service's hands.  It may lack a kind (_parse_secret).
Read ==
  /\ at = "read" /\ due = "no"
  /\ request' = Served(KeyOf(job))
  /\ fills' = fills + 1
  /\ pending' = [pending EXCEPT ![job.step] = NoPin]
  /\ \/ at' = "fill" /\ UNCHANGED <<job, due>>
     \/ Ends /\ Restarts
  /\ UNCHANGED <<page, nonces, bad, turn, typed>>

\* Refused by the broker, or read there and the answer lost.
ReadLost ==
  /\ at = "read" /\ due = "no" /\ "call" \in Faults
  /\ request' \in {request, Served(KeyOf(job))}
  /\ Answers
  /\ UNCHANGED <<page, nonces, pending, typed>>

\* autofill_fill with the values: everything once, then target by target.
Fill ==
  /\ at = "fill" /\ due = "no" /\ SamePage(job.pin, job.pin.kinds)
  /\ Goes("place")
  /\ UNCHANGED <<page, nonces, pending, request, typed>>

Place(kind) ==
  /\ at = "place" /\ kind \in job.todo /\ SamePage(job.pin, {kind})
  /\ at' = "type" /\ job' = [job EXCEPT !.todo = @ \ {kind}, !.now = kind]
  /\ UNCHANGED <<page, nonces, pending, session, request, typed>>

PlaceFails ==
  /\ at \in {"place", "type"}
  /\ at = "place" => \E kind \in job.todo : ~SamePage(job.pin, {kind})
  /\ Answers
  /\ UNCHANGED <<page, nonces, pending, request, typed>>

\* locator.fill finds the control by its marker alone.
Type ==
  /\ at = "type" /\ job.now \in Fillable
  /\ typed' = typed \cup {[key |-> KeyOf(job), nonce |-> page.nonce, origin |-> page.origin]}
  /\ IF job.todo = {} THEN Answers ELSE Goes("place")
  /\ UNCHANGED <<page, nonces, pending, request>>
-----------------------------------------------------------------------------
(* Around it.                                                              *)

\* record_autofill_outcome.
ReportBadUnlocked ==
  /\ turn = "agent" /\ due # "expired" /\ ~bad
  /\ bad' = TRUE
  /\ UNCHANGED <<page, nonces, pending, fills, turn, due, at, job, request, typed>>
ReportBadPassword ==
  /\ Unlocked
  /\ turn = "agent" /\ due # "expired" /\ ~bad
  /\ bad' = TRUE
  /\ UNCHANGED <<page, nonces, pending, fills, turn, due, at, job, request, typed>>

\* Handed to a human and back, or closed, by handlers that take the lock.
Handover(to) ==
  /\ Unlocked /\ turn # "closed" /\ turn' = to
  /\ UNCHANGED <<page, nonces, pending, fills, bad, due, at, job, request, typed>>

\* A limit passes, or the jar is revoked, for good; the reaper and the sweep
\* that end the session then are among Handover's handlers.
FallsDue ==
  /\ turn # "closed" /\ due # "revoked" /\ due' \in {"expired", "revoked"}
  /\ UNCHANGED <<page, nonces, pending, fills, bad, turn, at, job, request, typed>>

\* The page goes elsewhere, or reloads: another document.
Navigate(o) ==
  /\ turn # "closed"
  /\ page' = [origin |-> o, nonce |-> 0, marked |-> {}, hidden |-> {}]
  /\ UNCHANGED <<nonces, pending, session, at, job, request, typed>>

\* It hides, disables, relabels or removes a control, or undoes that.
Disturb(kind) ==
  /\ turn # "closed"
  /\ page' = [page EXCEPT !.hidden = IF kind \in @ THEN @ \ {kind} ELSE @ \cup {kind}]
  /\ UNCHANGED <<nonces, pending, session, at, job, request, typed>>

\* The broker's decision, which may narrow what was asked for; "refused" is
\* denied, or expired.
Decide(k, verdict, covers) ==
  /\ request[k].state = "pending" /\ (covers => verdict = "approved")
  /\ request' = [request EXCEPT ![k].state = verdict, ![k].covers = covers,
                                ![k].valid = verdict = "approved"]
  /\ UNCHANGED <<page, nonces, pending, session, at, job, typed>>

\* The grant is revoked, or its time is up (once it is spent, nobody can tell).
GrantEnds(k) ==
  /\ request[k].state = "approved" /\ request[k].uses = 0
  /\ request' = [request EXCEPT ![k].valid = FALSE]
  /\ UNCHANGED <<page, nonces, pending, session, at, job, typed>>

Call ==
  \/ \E s \in Step, a \in Alias :
       AskAgain(s, a) \/ \E kinds \in SUBSET Kind \ {{}} : AskFirst(s, a, kinds)
  \/ \E s \in Step : PrepareFails(s)
  \/ Create \/ CreateLost \/ Approved \/ NotApproved
  \/ GrantFits \/ GrantDoesNot \/ PageFits \/ PageMoved \/ Stopped
  \/ Read \/ ReadLost \/ Fill \/ Type \/ PlaceFails
  \/ \E kind \in Kind : Place(kind)

Environment ==
  \/ ReportBadPassword \/ FallsDue
  \/ \E to \in {"agent", "human", "closed"} : Handover(to)
  \/ \E o \in Origin : Navigate(o)
  \/ \E kind \in Kind : Disturb(kind)
  \/ \E k \in Key : GrantEnds(k) \/
       \E verdict \in {"approved", "refused"}, covers \in BOOLEAN :
         Decide(k, verdict, covers)

Next == Call \/ Environment

Spec == Init /\ [][Next]_vars
-----------------------------------------------------------------------------
(* Properties.                                                             *)

\* The secret typed is the one released for the document it is typed into:
\* the approval covers that document's origin, and was asked for from that
\* very document.  An approval that arrives after the page moved on, reloaded,
\* or was pinned for another step, is spent nowhere.
TypedWhereReleased ==
  \A t \in typed :
    /\ request[t.key].covers
    /\ t.origin = t.key.origin
    /\ t.nonce = request[t.key].nonce

\* Nobody approves a step twice: whatever was lost, and wherever the page
\* went meanwhile, the retries of a step lead to the request that is open.
OneOpenRequest ==
  \A k, l \in Key :
    k.step = l.step /\ request[k].state = "pending" /\ request[l].state = "pending" => k = l

\* One approval, one release: a step key that is retried after a lost answer,
\* or used again after a fill, never has the broker replay the secret.
OneReleasePerApproval ==
  \A k \in Key : request[k] # NoRequest => request[k].reads <= 1

\* Nothing is typed into the page of a session whose agent has reported a bad
\* password, has handed it over or has closed it, although the call that
\* types may have begun long before.
NothingTypedAfterwards == [][typed' # typed => turn = "agent" /\ ~bad]_vars
=============================================================================
