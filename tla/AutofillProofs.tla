---------------------------- MODULE AutofillProofs ----------------------------
(***************************************************************************)
(* What holds of Autofill for every number of steps, secrets, origins,     *)
(* documents and fills, and with or without answers that are lost.         *)
(***************************************************************************)
EXTENDS AutofillKeepsRelease, TLAPS

At == {"idle", "create", "wait", "info", "verify", "read", "fill", "place", "type"}
Job == [step : Step, pin : Pin, todo : SUBSET Kind, now : Kind \cup {"none"}]
Document == [origin : Origin, nonce : Nonce, marked : SUBSET Kind, hidden : SUBSET Kind]
Request == [state : {"pending", "approved", "refused"}, covers : BOOLEAN,
            valid : BOOLEAN, uses : 0 .. 1, reads : Nat, nonce : Nonce]
Typed == [key : Key, nonce : Nonce, origin : Origin]

(***************************************************************************)
(* A request that is read is a request.                                    *)
(***************************************************************************)
LEMMA ReadAgain ==
  ASSUME NEW r \in Request, NEW n \in Nat
  PROVE  [r EXCEPT !.uses = 1, !.reads = n] \in Request
<1>1. ASSUME NEW q \in Request  PROVE [q EXCEPT !.reads = n] \in Request
  BY DEF Request
<1>2. [r EXCEPT !.uses = 1] \in Request
  BY DEF Request
<1>3. [r EXCEPT !.uses = 1, !.reads = n] = [[r EXCEPT !.uses = 1] EXCEPT !.reads = n]
  OBVIOUS
<1>. QED
  BY <1>1, <1>2, <1>3

USE AutofillAssumption

(***************************************************************************)
(* The types; and a call that may still read began under the cap.          *)
(***************************************************************************)
Types ==
  /\ page \in Document
  /\ nonces \in Nonce
  /\ pending \in [Step -> Pin \cup {NoPin}]
  /\ fills \in 0 .. Cap
  /\ bad \in BOOLEAN /\ due \in {"no", "expired", "revoked"}
  /\ turn \in {"agent", "human", "closed"}
  /\ at \in At
  /\ at = "idle" => job = NoJob
  /\ at # "idle" => job \in Job
  /\ at \in {"create", "wait", "info", "verify", "read"} => fills < Cap
  /\ request \in [Key -> {NoRequest} \cup Request]
  /\ typed \subseteq Typed

jobState == <<at, job>>

(***************************************************************************)
(* No step is pinned by the absence of a pin.                              *)
(***************************************************************************)
LEMMA NoPinIsNone == NoPin \notin Pin
<1>1. SUFFICES ASSUME NoPin \in Pin  PROVE FALSE
  OBVIOUS
<1>2. DOMAIN NoPin = {"alias"}
  BY DEF NoPin
<1>3. \A p \in Pin : "origin" \in DOMAIN p
  BY DEF Pin
<1>. QED
  BY <1>1, <1>2, <1>3

(***************************************************************************)
(* The one that asks is in the broker's book under a key.                  *)
(***************************************************************************)
LEMMA KeyOfJob ==
  ASSUME NEW j \in Job
  PROVE  KeyOf(j) \in Key /\ j.step \in Step /\ j.pin \in Pin
BY DEF Job, KeyOf, Key, Pin

LEMMA Endings ==
  ASSUME Types
  PROVE  /\ Ends => at' = "idle" /\ job' = NoJob
         /\ Answers => /\ at' = "idle" /\ job' = NoJob /\ UNCHANGED <<fills, bad, turn>>
                       /\ due' \in {"no", "expired", "revoked"}
BY DEF Types, Ends, Answers, Restarts

LEMMA OpenedType ==
  ASSUME Types, NEW k \in Key, NEW n \in Nonce
  PROVE  Opened(k, n) \in [Key -> {NoRequest} \cup Request]
BY DEF Types, Opened, Request

LEMMA ServedType ==
  ASSUME Types, NEW k \in Key, request[k] # NoRequest
  PROVE  Served(k) \in [Key -> {NoRequest} \cup Request]
<1>1. request[k] \in Request
  BY DEF Types
<1>2. [request[k] EXCEPT !.uses = 1, !.reads = @ + 1] \in Request
  <2>1. request[k].reads + 1 \in Nat
    BY <1>1 DEF Request
  <2>. QED
    BY <1>1, <2>1, ReadAgain
<1>3. Served(k) = [request EXCEPT ![k] = [request[k] EXCEPT !.uses = 1, !.reads = @ + 1]]
  BY DEF Served, Types
<1>. QED
  BY <1>2, <1>3 DEF Types

(***************************************************************************)
(* A call that has passed the grant's check has a request.                 *)
(***************************************************************************)
Known == at \in {"verify", "read"} => AskedFor # NoRequest

LEMMA TypeStep ==
  ASSUME Types, Known, [Next]_vars
  PROVE  Types'
<1> USE DEF session
<1>1. ASSUME NEW s \in Step, NEW a \in Alias, NEW kinds \in SUBSET Kind, AskFirst(s, a, kinds)
      PROVE  Types'
  <2> DEFINE n == nonces + 1
             p == [alias |-> a, origin |-> page.origin, nonce |-> n, kinds |-> kinds]
  <2>1. n \in Nonce /\ nonces' = n /\ page' = [page EXCEPT !.nonce = n, !.marked = kinds]
    BY <1>1 DEF AskFirst, Prepared
  <2>2. p \in Pin /\ page' \in Document
    BY <2>1 DEF Types, Pin, Document
  <2>3. at = "idle" /\ fills < Cap /\ UNCHANGED <<fills, bad, turn, due, request, typed>>
    BY <1>1 DEF AskFirst, Serves, Unlocked, UnderCap
  <2>4. CASE page.origin \in Allowed
    <3>1. /\ pending' = [pending EXCEPT ![s] = p]
          /\ at' = "create" /\ job' = [step |-> s, pin |-> p, todo |-> p.kinds, now |-> "none"]
      BY <1>1, <2>4 DEF AskFirst, Remembers, Asks
    <3>2. job' \in Job
      BY <2>2, <3>1 DEF Job
    <3>. QED
      BY <2>1, <2>2, <2>3, <3>1, <3>2 DEF Types, At
  <2>5. CASE page.origin \notin Allowed
    <3>1. UNCHANGED <<pending, at, job>>
      BY <1>1, <2>5 DEF AskFirst
    <3>. QED
      BY <2>1, <2>2, <2>3, <3>1 DEF Types
  <2>. QED
    BY <2>4, <2>5
<1>2. ASSUME NEW s \in Step, PrepareFails(s)  PROVE Types'
  <2>1. page' \in Document
    BY <1>2 DEF PrepareFails, Types, Document
  <2>. QED
    BY <1>2, <2>1 DEF PrepareFails, Types
<1>3. ASSUME NEW s \in Step, NEW a \in Alias, AskAgain(s, a)  PROVE Types'
  <2>1. pending[s] \in Pin
    BY <1>3 DEF AskAgain, NeedsPin, Types
  <2>2. /\ at' = "create" /\ fills < Cap
        /\ job' = [step |-> s, pin |-> pending[s], todo |-> pending[s].kinds, now |-> "none"]
    BY <1>3 DEF AskAgain, Asks, Serves, UnderCap
  <2>3. job' \in Job
    BY <2>1, <2>2 DEF Job, Pin
  <2>. QED
    BY <1>3, <2>2, <2>3 DEF AskAgain, Types, At
<1>4. CASE Create
  <2>1. job \in Job /\ job.pin.nonce \in Nonce
    BY <1>4 DEF Create, Types, Job, Pin
  <2>2. request' \in [Key -> {NoRequest} \cup Request]
    BY <1>4, <2>1, OpenedType, KeyOfJob DEF Create
  <2>3. pending' \in [Step -> Pin \cup {NoPin}]
    BY <1>4, <2>1, KeyOfJob DEF Create, Remembers, Types
  <2>. QED
    BY <1>4, <2>1, <2>2, <2>3 DEF Create, Goes, Types, At
<1>5. CASE CreateLost
  <2>1. job \in Job /\ job.pin.nonce \in Nonce
    BY <1>5 DEF CreateLost, Types, Job, Pin
  <2>2. request' \in [Key -> {NoRequest} \cup Request]
    BY <1>5, <2>1, OpenedType, KeyOfJob DEF CreateLost, Types
  <2>. QED
    BY <1>5, <2>2, Endings DEF CreateLost, Types, At
<1>6. CASE Approved \/ GrantFits
  BY <1>6 DEF Approved, GrantFits, Goes, Types, At
<1>7. CASE NotApproved \/ GrantDoesNot \/ PageMoved
  BY <1>7, Endings DEF NotApproved, GrantDoesNot, PageMoved, Types, At
<1>8. CASE PageFits
  BY <1>8 DEF PageFits, Goes, Types, At
<1>9. CASE Stopped
  BY <1>9, Endings DEF Stopped, Types, At
<1>10. CASE Read
  <2>1. job \in Job /\ fills < Cap /\ AskedFor # NoRequest
    BY <1>10 DEF Read, Types, Known
  <2>2. request' \in [Key -> {NoRequest} \cup Request]
    BY <1>10, <2>1, ServedType, KeyOfJob DEF Read, AskedFor
  <2>3. fills' \in 0 .. Cap
    BY <1>10, <2>1 DEF Read, Types
  <2>4. pending' \in [Step -> Pin \cup {NoPin}]
    BY <1>10 DEF Read, Types
  <2>5. CASE at' = "fill" /\ UNCHANGED <<job, due>>
    BY <1>10, <2>1, <2>2, <2>3, <2>4, <2>5 DEF Read, Types, At
  <2>6. CASE Ends /\ Restarts
    BY <1>10, <2>2, <2>3, <2>4, <2>6, Endings DEF Read, Restarts, Types, At
  <2>. QED
    BY <1>10, <2>5, <2>6 DEF Read
<1>11. CASE ReadLost
  <2>1. job \in Job /\ AskedFor # NoRequest
    BY <1>11 DEF ReadLost, Types, Known
  <2>2. request' \in [Key -> {NoRequest} \cup Request]
    BY <1>11, <2>1, ServedType, KeyOfJob DEF ReadLost, AskedFor, Types
  <2>. QED
    BY <1>11, <2>2, Endings DEF ReadLost, Types, At
<1>12. CASE Fill
  BY <1>12 DEF Fill, Goes, Types, At
<1>13. ASSUME NEW kind \in Kind, Place(kind)  PROVE Types'
  <2>1. job \in Job
    BY <1>13 DEF Place, Types
  <2>2. job' \in Job
    BY <1>13, <2>1 DEF Place, Job
  <2>. QED
    BY <1>13, <2>2 DEF Place, Types, At
<1>14. CASE PlaceFails
  BY <1>14, Endings DEF PlaceFails, Types, At
<1>15. CASE Type
  <2>1. job \in Job
    BY <1>15 DEF Type, Types
  <2>2. page.nonce \in Nonce /\ page.origin \in Origin
    BY DEF Types, Document
  <2>3. typed' \subseteq Typed
    BY <1>15, <2>1, <2>2, KeyOfJob DEF Type, Types, Typed
  <2>4. CASE job.todo = {}
    BY <1>15, <2>3, <2>4, Endings DEF Type, Types, At
  <2>5. CASE job.todo # {}
    BY <1>15, <2>3, <2>5 DEF Type, Goes, Types, At
  <2>. QED
    BY <2>4, <2>5
<1>16. CASE ReportBadPassword
  BY <1>16 DEF ReportBadPassword, Types
<1>17. CASE FallsDue
  BY <1>17 DEF FallsDue, Types
<1>18. ASSUME NEW to \in {"agent", "human", "closed"}, Handover(to)  PROVE Types'
  BY <1>18 DEF Handover, Types
<1>19. ASSUME NEW o \in Origin, Navigate(o)  PROVE Types'
  <2>1. page' \in Document
    BY <1>19 DEF Navigate, Document, Nonce
  <2>. QED
    BY <1>19, <2>1 DEF Navigate, Types
<1>20. ASSUME NEW kind \in Kind, Disturb(kind)  PROVE Types'
  <2>1. page' \in Document
    BY <1>20 DEF Disturb, Types, Document
  <2>. QED
    BY <1>20, <2>1 DEF Disturb, Types
<1>21. ASSUME NEW k \in Key, GrantEnds(k)  PROVE Types'
  <2>1. request[k] \in Request
    BY <1>21 DEF GrantEnds, Types, NoRequest
  <2>2. request' = [request EXCEPT ![k] = [request[k] EXCEPT !.valid = FALSE]]
    BY <1>21 DEF GrantEnds, Types
  <2>3. request' \in [Key -> {NoRequest} \cup Request]
    BY <2>1, <2>2 DEF Types, Request
  <2>. QED
    BY <1>21, <2>3 DEF GrantEnds, Types
<1>22. ASSUME NEW k \in Key, NEW verdict \in {"approved", "refused"}, NEW covers \in BOOLEAN,
              Decide(k, verdict, covers)
       PROVE  Types'
  <2>1. request[k] \in Request
    BY <1>22 DEF Decide, Types, NoRequest
  <2>2. PICK valid \in BOOLEAN :
          request' = [request EXCEPT ![k] = [request[k] EXCEPT !.state = verdict,
                                               !.covers = covers, !.valid = valid]]
    BY <1>22 DEF Decide, Types
  <2>3. request' \in [Key -> {NoRequest} \cup Request]
    BY <2>1, <2>2 DEF Types, Request
  <2>. QED
    BY <1>22, <2>3 DEF Decide, Types
<1>23. CASE UNCHANGED vars
  BY <1>23 DEF vars, Types
<1>. QED
  BY <1>1, <1>2, <1>3, <1>4, <1>5, <1>6, <1>7, <1>8, <1>9, <1>10, <1>11, <1>12, <1>13, <1>14,
     <1>15, <1>16, <1>17, <1>18, <1>19, <1>20, <1>21, <1>22, <1>23 DEF Next, Call, Environment
-----------------------------------------------------------------------------
(***************************************************************************)
(* Until its answer is read, a request belongs to its step's pin: the      *)
(* document that it was asked for from.                                    *)
(***************************************************************************)
Pinned(k) ==
  /\ pending[k.step] \in Pin
  /\ pending[k.step].alias = k.alias /\ pending[k.step].origin = k.origin
  /\ pending[k.step].nonce = request[k].nonce

PinInv ==
  /\ at \in {"create", "wait", "info", "verify", "read"} => pending[job.step] = job.pin
  /\ \A k \in Key : request[k] # NoRequest /\ request[k].uses = 0 => Pinned(k)

(***************************************************************************)
(* Served at most once, and only when it was approved.                     *)
(***************************************************************************)
Spent(r) == r.reads <= r.uses /\ (r.uses # 0 => r.state = "approved")

(***************************************************************************)
(* What the call has found out about the request, it can rely on: only the *)
(* call spends it, and a decision is not taken back.                       *)
(***************************************************************************)
GrantInv ==
  /\ at \in {"info", "verify", "read", "fill", "place", "type"} =>
       AskedFor # NoRequest /\ AskedFor.state = "approved"
  /\ at \in {"verify", "read"} => AskedFor.uses = 0
  /\ at \in {"verify", "read", "fill", "place", "type"} =>
       AskedFor.covers /\ AskedFor.nonce = job.pin.nonce
  /\ \A k \in Key : request[k] # NoRequest => Spent(request[k])

BookInv == PinInv /\ GrantInv

LEMMA KnownByGrant == GrantInv => Known
BY DEF GrantInv, Known

(***************************************************************************)
(* The call ends, or does not move, and leaves the book alone.             *)
(***************************************************************************)
LEMMA BookStill ==
  ASSUME BookInv, UNCHANGED <<request, pending>>, at' = "idle" \/ UNCHANGED jobState
  PROVE  BookInv'
BY DEF BookInv, PinInv, GrantInv, Pinned, AskedFor, jobState

(***************************************************************************)
(* The key of a request is the key its step's pin gives.                   *)
(***************************************************************************)
LEMMA KeyOfPin ==
  ASSUME NEW j \in Job, NEW k \in Key,
         k.step = j.step, k.alias = j.pin.alias, k.origin = j.pin.origin
  PROVE  k = KeyOf(j)
BY DEF Key, KeyOf, Job, Pin

LEMMA OpenedBook ==
  ASSUME Types, BookInv, at = "create", request' = Opened(KeyOf(job), job.pin.nonce),
         UNCHANGED pending
  PROVE  /\ \A k \in Key : request'[k] # NoRequest /\ request'[k].uses = 0 => Pinned(k)'
         /\ \A k \in Key : request'[k] # NoRequest => Spent(request'[k])
<1>1. job \in Job /\ KeyOf(job) \in Key /\ job.pin \in Pin /\ pending[job.step] = job.pin
  BY KeyOfJob DEF Types, BookInv, PinInv
<1> DEFINE new == [state |-> "pending", covers |-> FALSE, valid |-> FALSE,
                   uses |-> 0, reads |-> 0, nonce |-> job.pin.nonce]
<1>2. \/ request' = request
      \/ request' = [request EXCEPT ![KeyOf(job)] = new]
  BY DEF Opened
<1>3. ASSUME NEW k \in Key, request'[k] = request[k]
      PROVE  /\ request'[k] # NoRequest /\ request'[k].uses = 0 => Pinned(k)'
             /\ request'[k] # NoRequest => Spent(request'[k])
  BY <1>3 DEF BookInv, PinInv, GrantInv, Pinned
<1>4. ASSUME NEW k \in Key, k = KeyOf(job), request'[k] = new
      PROVE  Pinned(k)' /\ Spent(request'[k])
  <2>1. k.step = job.step /\ k.alias = job.pin.alias /\ k.origin = job.pin.origin
    BY <1>4 DEF KeyOf
  <2>2. request'[k].nonce = job.pin.nonce /\ request'[k].reads = 0 /\ request'[k].uses = 0
    BY <1>4
  <2>3. pending'[job.step] = job.pin
    BY <1>1
  <2>. QED
    BY <1>1, <2>1, <2>2, <2>3 DEF Pinned, Spent
<1>5. ASSUME NEW k \in Key, request'[k] # request[k]
      PROVE  k = KeyOf(job) /\ request'[k] = new
  BY <1>1, <1>2, <1>5 DEF Types
<1> HIDE DEF new
<1>. QED
  BY <1>3, <1>4, <1>5

LEMMA ServedBook ==
  ASSUME Types, BookInv, at = "read", request' = Served(KeyOf(job)),
         \A s \in Step : s # job.step => pending'[s] = pending[s]
  PROVE  /\ \A k \in Key : request'[k] # NoRequest /\ request'[k].uses = 0 => Pinned(k)'
         /\ \A k \in Key : request'[k] # NoRequest => Spent(request'[k])
         /\ request'[KeyOf(job)] # NoRequest /\ request'[KeyOf(job)].state = "approved"
         /\ request'[KeyOf(job)].covers /\ request'[KeyOf(job)].nonce = job.pin.nonce
<1>1. /\ job \in Job /\ KeyOf(job) \in Key /\ pending[job.step] = job.pin
      /\ request[KeyOf(job)] # NoRequest
      /\ request[KeyOf(job)].state = "approved" /\ request[KeyOf(job)].uses = 0
      /\ request[KeyOf(job)].covers /\ request[KeyOf(job)].nonce = job.pin.nonce
  BY KeyOfJob DEF Types, BookInv, PinInv, GrantInv, AskedFor
<1>2. request[KeyOf(job)] \in Request
  BY <1>1 DEF Types
<1>3. /\ request'[KeyOf(job)] = [request[KeyOf(job)] EXCEPT !.uses = 1, !.reads = @ + 1]
      /\ \A k \in Key : k # KeyOf(job) => request'[k] = request[k]
  BY <1>1 DEF Served, Types
<1>4. /\ request'[KeyOf(job)].uses = 1 /\ request'[KeyOf(job)].state = "approved"
      /\ request'[KeyOf(job)].covers /\ request'[KeyOf(job)].nonce = job.pin.nonce
      /\ request'[KeyOf(job)].reads = request[KeyOf(job)].reads + 1
  BY <1>1, <1>2, <1>3 DEF Request
<1>5. request[KeyOf(job)].reads <= 0 /\ request[KeyOf(job)].reads \in Nat
  BY <1>1, <1>2 DEF BookInv, GrantInv, Request, Spent
<1>6. request'[KeyOf(job)] # NoRequest
  BY <1>4 DEF NoRequest
\* No other unread request is of this step: it would be the same.
<1>7. ASSUME NEW k \in Key, request'[k] # NoRequest, request'[k].uses = 0  PROVE Pinned(k)'
  <2>1. k # KeyOf(job)
    BY <1>4, <1>7
  <2>2. Pinned(k) /\ request'[k] = request[k]
    BY <1>3, <1>7, <2>1 DEF BookInv, PinInv
  <2>3. k.step # job.step
    BY <1>1, <2>1, <2>2, KeyOfPin DEF Pinned
  <2>4. k.step \in Step
    BY DEF Key
  <2>. QED
    BY <2>2, <2>3, <2>4 DEF Pinned
<1>8. ASSUME NEW k \in Key, request'[k] # NoRequest
      PROVE  Spent(request'[k])
  <2>1. CASE k = KeyOf(job)
    BY <1>4, <1>5, <2>1 DEF Spent
  <2>2. CASE k # KeyOf(job)
    BY <1>3, <1>8, <2>2 DEF BookInv, GrantInv
  <2>. QED
    BY <2>1, <2>2
<1>. QED
  BY <1>4, <1>6, <1>7, <1>8

LEMMA BookStep ==
  ASSUME Types, BookInv, [Next]_vars
  PROVE  BookInv'
<1> USE DEF session
<1>1. ASSUME NEW s \in Step, NEW a \in Alias, NEW kinds \in SUBSET Kind, AskFirst(s, a, kinds)
      PROVE  BookInv'
  <2> DEFINE p == [alias |-> a, origin |-> page.origin, nonce |-> nonces + 1, kinds |-> kinds]
  <2>1. at = "idle" /\ pending[s] = NoPin /\ request' = request
    BY <1>1 DEF AskFirst, Serves, Unlocked, NeedsPin
  <2>2. CASE page.origin \in Allowed
    <3>1. /\ pending' = [pending EXCEPT ![s] = p]
          /\ at' = "create" /\ job' = [step |-> s, pin |-> p, todo |-> kinds, now |-> "none"]
      BY <1>1, <2>2 DEF AskFirst, Remembers, Asks
    <3>2. pending'[job'.step] = job'.pin
      BY <3>1 DEF Types
    <3>3. ASSUME NEW k \in Key, request[k] # NoRequest, request[k].uses = 0
          PROVE  Pinned(k)'
      <4>1. Pinned(k)
        BY <3>3 DEF BookInv, PinInv
      <4>2. k.step # s /\ k.step \in Step
        BY <2>1, <4>1, NoPinIsNone DEF Pinned, Key
      <4>. QED
        BY <2>1, <3>1, <4>1, <4>2 DEF Pinned, Types
    <3>. QED
      BY <2>1, <3>1, <3>2, <3>3 DEF BookInv, PinInv, GrantInv
  <2>3. CASE page.origin \notin Allowed
    BY <1>1, <2>3, BookStill DEF AskFirst, jobState
  <2>. QED
    BY <2>2, <2>3
<1>2. ASSUME NEW s \in Step, PrepareFails(s)  PROVE BookInv'
  BY <1>2, BookStill DEF PrepareFails, jobState
<1>3. ASSUME NEW s \in Step, NEW a \in Alias, AskAgain(s, a)  PROVE BookInv'
  <2>1. /\ at' = "create" /\ UNCHANGED <<pending, request>>
        /\ job' = [step |-> s, pin |-> pending[s], todo |-> pending[s].kinds, now |-> "none"]
    BY <1>3 DEF AskAgain, Asks
  <2>. QED
    BY <2>1 DEF BookInv, PinInv, GrantInv, Pinned
<1>4. CASE Create
  <2>1. at = "create" /\ at' = "wait" /\ UNCHANGED job
        /\ request' = Opened(KeyOf(job), job.pin.nonce)
    BY <1>4 DEF Create, Goes
  <2>2. pending[job.step] = job.pin /\ job.step \in Step
    BY <2>1, KeyOfJob DEF BookInv, PinInv, Types
  <2>3. UNCHANGED pending
    BY <1>4, <2>2 DEF Create, Remembers, Types
  <2>. QED
    BY <2>1, <2>2, <2>3, OpenedBook DEF BookInv, PinInv, GrantInv
<1>5. CASE CreateLost
  <2>1. at = "create" /\ at' = "idle" /\ UNCHANGED pending
        /\ request' \in {request, Opened(KeyOf(job), job.pin.nonce)}
    BY <1>5, Endings DEF CreateLost
  <2>2. CASE request' = request
    BY <2>1, <2>2, BookStill
  <2>3. CASE request' = Opened(KeyOf(job), job.pin.nonce)
    BY <2>1, <2>3, OpenedBook DEF BookInv, PinInv, GrantInv
  <2>. QED
    BY <2>1, <2>2, <2>3
<1>6. CASE Approved
  <2>1. /\ at = "wait" /\ at' = "info" /\ AskedFor.state = "approved"
        /\ UNCHANGED <<job, request, pending>>
    BY <1>6 DEF Approved, Goes
  <2>2. AskedFor # NoRequest
    BY <2>1 DEF NoRequest
  <2>. QED
    BY <2>1, <2>2 DEF BookInv, PinInv, GrantInv, Pinned, AskedFor
\* Unspent, the request is the pin's.
<1>7. CASE GrantFits
  <2>1. /\ at = "info" /\ at' = "verify" /\ UNCHANGED <<job, request, pending>>
        /\ AskedFor.covers /\ AskedFor.uses < 1
    BY <1>7 DEF GrantFits, Goes, Usable
  <2>2. /\ job \in Job /\ KeyOf(job) \in Key /\ pending[job.step] = job.pin
        /\ request[KeyOf(job)] # NoRequest /\ request[KeyOf(job)].state = "approved"
    BY <2>1, KeyOfJob DEF Types, BookInv, PinInv, GrantInv, AskedFor
  <2>3. request[KeyOf(job)].uses = 0
    BY <2>1, <2>2 DEF Types, Request, AskedFor
  <2>4. request[KeyOf(job)].nonce = job.pin.nonce
    <3>1. Pinned(KeyOf(job))
      BY <2>2, <2>3 DEF BookInv, PinInv
    <3>2. KeyOf(job).step = job.step
      BY DEF KeyOf
    <3>. QED
      BY <2>2, <3>1, <3>2 DEF Pinned
  <2>. QED
    BY <2>1, <2>2, <2>3, <2>4 DEF BookInv, PinInv, GrantInv, Pinned, AskedFor
<1>8. CASE NotApproved \/ GrantDoesNot \/ PageMoved \/ PlaceFails
  BY <1>8, BookStill, Endings DEF NotApproved, GrantDoesNot, PageMoved, PlaceFails
<1>9. CASE Stopped
  BY <1>9, BookStill, Endings DEF Stopped
<1>10. CASE PageFits
  BY <1>10 DEF PageFits, Goes, BookInv, PinInv, GrantInv, Pinned, AskedFor
<1>11. CASE Read
  <2>1. /\ at = "read" /\ request' = Served(KeyOf(job))
        /\ pending' = [pending EXCEPT ![job.step] = NoPin]
        /\ at' = "idle" \/ (at' = "fill" /\ UNCHANGED job)
    BY <1>11, Endings DEF Read
  <2>2. \A s \in Step : s # job.step => pending'[s] = pending[s]
    BY <2>1 DEF Types
  <2>. QED
    BY <2>1, <2>2, ServedBook DEF BookInv, PinInv, GrantInv, AskedFor
<1>12. CASE ReadLost
  <2>1. /\ at = "read" /\ at' = "idle" /\ UNCHANGED pending
        /\ request' \in {request, Served(KeyOf(job))}
    BY <1>12, Endings DEF ReadLost
  <2>2. CASE request' = request
    BY <2>1, <2>2, BookStill
  <2>3. CASE request' = Served(KeyOf(job))
    BY <2>1, <2>3, ServedBook DEF BookInv, PinInv, GrantInv
  <2>. QED
    BY <2>1, <2>2, <2>3
<1>13. CASE Fill
  BY <1>13 DEF Fill, Goes, BookInv, PinInv, GrantInv, Pinned, AskedFor
<1>14. ASSUME NEW kind \in Kind, Place(kind)  PROVE BookInv'
  <2>1. /\ at = "place" /\ at' = "type" /\ UNCHANGED <<request, pending>>
        /\ job' = [job EXCEPT !.todo = @ \ {kind}, !.now = kind]
    BY <1>14 DEF Place
  <2>2. job \in Job
    BY <2>1 DEF Types
  <2>3. KeyOf(job') = KeyOf(job) /\ job'.pin = job.pin
    BY <2>1, <2>2 DEF Job, KeyOf
  <2>. QED
    BY <2>1, <2>3 DEF BookInv, PinInv, GrantInv, Pinned, AskedFor
<1>15. CASE Type
  <2>1. UNCHANGED <<request, pending>> /\ at = "type"
    BY <1>15 DEF Type
  <2>2. CASE job.todo = {}
    BY <1>15, <2>1, <2>2, BookStill, Endings DEF Type
  <2>3. CASE job.todo # {}
    <3>1. at' = "place" /\ job' = job
      BY <1>15, <2>3 DEF Type, Goes
    <3>. QED
      BY <2>1, <3>1 DEF BookInv, PinInv, GrantInv, Pinned, AskedFor
  <2>. QED
    BY <2>2, <2>3
<1>16. CASE ReportBadPassword \/ FallsDue
  BY <1>16, BookStill DEF ReportBadPassword, FallsDue, jobState
<1>17. ASSUME NEW to \in {"agent", "human", "closed"}, Handover(to)  PROVE BookInv'
  BY <1>17, BookStill DEF Handover, jobState
<1>18. ASSUME NEW o \in Origin, Navigate(o)  PROVE BookInv'
  BY <1>18, BookStill DEF Navigate, jobState
<1>19. ASSUME NEW kind \in Kind, Disturb(kind)  PROVE BookInv'
  BY <1>19, BookStill DEF Disturb, jobState
\* The broker's own steps leave everything the call relies on.
<1>20. ASSUME NEW k \in Key, UNCHANGED <<pending, at, job>>,
              request[k] # NoRequest,
              \A l \in Key : l # k => request'[l] = request[l],
              /\ request'[k] # NoRequest
              /\ request'[k].uses = request[k].uses /\ request'[k].reads = request[k].reads
              /\ request'[k].nonce = request[k].nonce
              /\ request[k].state = "approved" =>
                   request'[k].state = "approved" /\ request'[k].covers = request[k].covers
       PROVE  BookInv'
  <2>1. ASSUME NEW l \in Key
        PROVE  /\ request'[l] # NoRequest <=> request[l] # NoRequest
               /\ request'[l] # NoRequest =>
                    /\ request'[l].uses = request[l].uses /\ request'[l].reads = request[l].reads
                    /\ request'[l].nonce = request[l].nonce
                    /\ request[l].state = "approved" =>
                         request'[l].state = "approved" /\ request'[l].covers = request[l].covers
    BY <1>20
  <2>2. at # "idle" => KeyOf(job) \in Key
    BY KeyOfJob DEF Types
  <2>3. PinInv'
    BY <1>20, <2>1 DEF BookInv, PinInv, Pinned
  <2>4. GrantInv'
    <3>1. \A l \in Key : request'[l] # NoRequest => Spent(request'[l])
      BY <2>1 DEF BookInv, GrantInv, Spent
    <3>2. CASE at = "idle"
      BY <1>20, <3>1, <3>2 DEF GrantInv
    <3>3. CASE at # "idle"
      BY <1>20, <2>1, <2>2, <3>1, <3>3 DEF BookInv, GrantInv, AskedFor
    <3>. QED
      BY <3>2, <3>3
  <2>. QED
    BY <2>3, <2>4 DEF BookInv
<1>21. ASSUME NEW k \in Key, GrantEnds(k)  PROVE BookInv'
  <2>1. request[k] # NoRequest /\ request[k] \in Request
    BY <1>21 DEF GrantEnds, NoRequest, Types
  <2>2. /\ request'[k] = [request[k] EXCEPT !.valid = FALSE]
        /\ \A l \in Key : l # k => request'[l] = request[l]
    BY <1>21 DEF GrantEnds, Types
  <2>3. /\ request'[k].uses = request[k].uses /\ request'[k].reads = request[k].reads
        /\ request'[k].nonce = request[k].nonce
        /\ request'[k].state = request[k].state /\ request'[k].covers = request[k].covers
        /\ request[k].state = "approved"
    BY <1>21, <2>1, <2>2 DEF Request, GrantEnds
  <2>4. request'[k] # NoRequest
    BY <2>3 DEF NoRequest
  <2>. QED
    BY <1>20, <1>21, <2>1, <2>2, <2>3, <2>4 DEF GrantEnds
<1>22. ASSUME NEW k \in Key, NEW verdict \in {"approved", "refused"}, NEW covers \in BOOLEAN,
              Decide(k, verdict, covers)
       PROVE  BookInv'
  <2>1. request[k] # NoRequest /\ request[k] \in Request /\ request[k].state = "pending"
    BY <1>22 DEF Decide, NoRequest, Types
  <2>2. /\ request'[k] = [request[k] EXCEPT !.state = verdict, !.covers = covers,
                                            !.valid = verdict = "approved"]
        /\ \A l \in Key : l # k => request'[l] = request[l]
    BY <1>22 DEF Decide, Types
  <2>3. /\ request'[k].uses = request[k].uses /\ request'[k].reads = request[k].reads
        /\ request'[k].nonce = request[k].nonce /\ request'[k].state = verdict
    BY <2>1, <2>2 DEF Request
  <2>4. request'[k] # NoRequest
    BY <2>3 DEF NoRequest
  <2>. QED
    BY <1>20, <1>22, <2>1, <2>2, <2>3, <2>4 DEF Decide
<1>23. CASE UNCHANGED vars
  BY <1>23, BookStill DEF vars, jobState
<1>. QED
  BY <1>1, <1>2, <1>3, <1>4, <1>5, <1>6, <1>7, <1>8, <1>9, <1>10, <1>11, <1>12, <1>13, <1>14,
     <1>15, <1>16, <1>17, <1>18, <1>19, <1>21, <1>22, <1>23 DEF Next, Call, Environment

(***************************************************************************)
(* The types of all variables, by way of what the call knows.              *)
(***************************************************************************)
LEMMA BookHolds == Spec => [](Types /\ BookInv)
<1>1. ASSUME Init  PROVE Types
  <2>1. page \in Document /\ nonces \in Nonce
    BY <1>1 DEF Init, Document, Nonce
  <2>2. /\ pending \in [Step -> Pin \cup {NoPin}]
        /\ request \in [Key -> {NoRequest} \cup Request]
        /\ typed \subseteq Typed /\ fills \in 0 .. Cap
    BY <1>1 DEF Init
  <2>3. at = "idle" /\ job = NoJob /\ bad = FALSE /\ turn = "agent" /\ due = "no"
    BY <1>1 DEF Init
  <2>. QED
    BY <2>1, <2>2, <2>3 DEF Types, At
<1>2. Init => BookInv
  BY DEF Init, BookInv, PinInv, GrantInv
<1>3. Types /\ BookInv /\ [Next]_vars => Types' /\ BookInv'
  BY TypeStep, BookStep, KnownByGrant DEF BookInv
<1>. QED
  BY <1>1, <1>2, <1>3, PTL DEF Spec

(***************************************************************************)
(* The page, the call and the broker's book stay in their types, and a     *)
(* session's fills within their cap.                                       *)
(***************************************************************************)
THEOREM TypeCorrect == Spec => []TypeOK
<1>1. ASSUME Types  PROVE TypeOK
  BY <1>1 DEF Types, TypeOK, Document, Job, Request, Typed, At
<1>. QED
  BY <1>1, BookHolds, PTL

(***************************************************************************)
(* Two open requests of a step would both be its pin's.                    *)
(***************************************************************************)
THEOREM OpenRequestCorrect == Spec => []OneOpenRequest
<1>1. ASSUME Types, BookInv, NEW k \in Key, request[k].state = "pending"
      PROVE  Pinned(k)
  <2>1. request[k] # NoRequest
    BY <1>1 DEF NoRequest
  <2>2. request[k].uses = 0
    BY <1>1, <2>1 DEF BookInv, GrantInv, Spent
  <2>. QED
    BY <1>1, <2>1, <2>2 DEF BookInv, PinInv
<1>2. Types /\ BookInv => OneOpenRequest
  BY <1>1 DEF OneOpenRequest, Pinned, Key
<1>. QED
  BY <1>2, BookHolds, PTL

(***************************************************************************)
(* No approval is spent twice.                                             *)
(***************************************************************************)
THEOREM ReleaseCorrect == Spec => []OneReleasePerApproval
<1>1. ASSUME Types, BookInv, NEW k \in Key, request[k] # NoRequest
      PROVE  request[k].reads <= 1
  <2>1. request[k] \in Request
    BY <1>1 DEF Types
  <2>. QED
    BY <1>1, <2>1 DEF BookInv, GrantInv, Spent, Request
<1>2. Types /\ BookInv => OneReleasePerApproval
  BY <1>1 DEF OneReleasePerApproval
<1>. QED
  BY <1>2, BookHolds, PTL
-----------------------------------------------------------------------------
(***************************************************************************)
(* While a value is being typed the page is the pinned document, or has no *)
(* marked control; what was typed went where its request was asked for.    *)
(***************************************************************************)
TypedInv ==
  /\ at = "type" /\ page.marked # {} =>
       page.nonce = job.pin.nonce /\ page.origin = job.pin.origin
  /\ \A t \in typed :
       /\ request[t.key] # NoRequest
       /\ request[t.key].state = "approved" /\ request[t.key].covers
       /\ t.origin = t.key.origin /\ t.nonce = request[t.key].nonce

(***************************************************************************)
(* An approved request stays approved for what it was.                     *)
(***************************************************************************)
LEMMA ApprovedStays ==
  ASSUME Types, BookInv, [Next]_vars, NEW k \in Key,
         request[k] # NoRequest, request[k].state = "approved"
  PROVE  /\ request'[k] # NoRequest /\ request'[k].state = "approved"
         /\ request'[k].covers = request[k].covers /\ request'[k].nonce = request[k].nonce
<1>1. request[k] \in Request
  BY DEF Types
<1>2. CASE request' = request
  BY <1>2
<1>3. CASE request' = Opened(KeyOf(job), job.pin.nonce)
  BY <1>3 DEF Opened, Types
<1>4. CASE at = "read" /\ request' = Served(KeyOf(job))
  <2>1. job \in Job /\ KeyOf(job) \in Key
    BY <1>4, KeyOfJob DEF Types
  <2>2. \/ request'[k] = request[k]
        \/ request'[k] = [request[k] EXCEPT !.uses = 1, !.reads = @ + 1]
    BY <1>4, <2>1 DEF Served, Types
  <2>3. /\ request'[k].state = request[k].state /\ request'[k].covers = request[k].covers
        /\ request'[k].nonce = request[k].nonce
    BY <1>1, <2>2 DEF Request
  <2>. QED
    BY <2>3 DEF NoRequest
<1>5. ASSUME NEW l \in Key, GrantEnds(l)
      PROVE  /\ request'[k] # NoRequest /\ request'[k].state = "approved"
             /\ request'[k].covers = request[k].covers /\ request'[k].nonce = request[k].nonce
  <2>1. request'[k] = request[k] \/ request'[k] = [request[k] EXCEPT !.valid = FALSE]
    BY <1>5 DEF GrantEnds, Types
  <2>2. /\ request'[k].state = request[k].state /\ request'[k].covers = request[k].covers
        /\ request'[k].nonce = request[k].nonce
    BY <1>1, <2>1 DEF Request
  <2>. QED
    BY <2>2 DEF NoRequest
<1>6. ASSUME NEW l \in Key, NEW verdict \in {"approved", "refused"}, NEW covers \in BOOLEAN,
             Decide(l, verdict, covers)
      PROVE  request'[k] = request[k]
  BY <1>6 DEF Decide, Types
<1>7. CASE Create \/ CreateLost
  BY <1>2, <1>3, <1>7 DEF Create, CreateLost
<1>8. CASE Read \/ ReadLost
  BY <1>2, <1>4, <1>8 DEF Read, ReadLost
<1>9. CASE Approved \/ NotApproved \/ GrantFits \/ GrantDoesNot \/ PageFits \/ PageMoved
        \/ Stopped \/ Fill \/ Type \/ PlaceFails \/ ReportBadPassword \/ FallsDue
  BY <1>2, <1>9 DEF Approved, NotApproved, GrantFits, GrantDoesNot, PageFits, PageMoved, Stopped,
     Fill, Type, PlaceFails, ReportBadPassword, FallsDue
<1>10. ASSUME NEW s \in Step, NEW a \in Alias, NEW kinds \in SUBSET Kind,
              AskFirst(s, a, kinds) \/ AskAgain(s, a) \/ PrepareFails(s)
       PROVE  request' = request
  BY <1>10 DEF AskFirst, AskAgain, PrepareFails
<1>11. ASSUME NEW kind \in Kind, Place(kind) \/ Disturb(kind)  PROVE request' = request
  BY <1>11 DEF Place, Disturb
<1>12. ASSUME NEW to \in {"agent", "human", "closed"}, Handover(to)  PROVE request' = request
  BY <1>12 DEF Handover
<1>13. ASSUME NEW o \in Origin, Navigate(o)  PROVE request' = request
  BY <1>13 DEF Navigate
<1>14. CASE UNCHANGED vars
  BY <1>2, <1>14 DEF vars
<1>15. CASE Call
  <2>1. ASSUME NEW s \in Step, PrepareFails(s)  PROVE request' = request
    BY <2>1 DEF PrepareFails
  <2>. QED
    BY <1>2, <1>7, <1>8, <1>9, <1>10, <1>11, <1>15, <2>1 DEF Call
<1>16. CASE Environment
  BY <1>2, <1>5, <1>6, <1>9, <1>11, <1>12, <1>13, <1>16 DEF Environment
<1>. QED
  BY <1>14, <1>15, <1>16 DEF Next

(***************************************************************************)
(* Nothing but Type adds to what was typed; nothing but Place begins it.   *)
(***************************************************************************)
LEMMA TypingSteps ==
  ASSUME Types, [Next]_vars
  PROVE  \/ Type
         \/ \E kind \in Kind : Place(kind)
         \/ /\ typed' = typed
            /\ at' = "type" => at = "type" /\ job' = job
            /\ at' = "type" => \/ page'.marked = {}
                               \/ /\ page'.marked = page.marked /\ page'.nonce = page.nonce
                                  /\ page'.origin = page.origin
<1> USE DEF session
<1> DEFINE Other == /\ typed' = typed
                    /\ at' = "type" => at = "type" /\ job' = job
                    /\ at' = "type" => \/ page'.marked = {}
                                       \/ /\ page'.marked = page.marked
                                          /\ page'.nonce = page.nonce
                                          /\ page'.origin = page.origin
<1>1. ASSUME typed' = typed, at' # "type"  PROVE Other
  BY <1>1
<1>2. ASSUME NEW s \in Step, NEW a \in Alias, NEW kinds \in SUBSET Kind,
             AskFirst(s, a, kinds) \/ AskAgain(s, a)
      PROVE  Other
  <2>1. typed' = typed /\ at = "idle"
    BY <1>2 DEF AskFirst, AskAgain, Serves, Unlocked
  <2>2. at' \in {"create", "idle"}
    BY <1>2, <2>1 DEF AskFirst, AskAgain, Asks
  <2>. QED
    BY <1>1, <2>1, <2>2
<1>3. ASSUME NEW s \in Step, PrepareFails(s)  PROVE Other
  BY <1>1, <1>3 DEF PrepareFails, Serves, Unlocked
<1>4. CASE Create \/ CreateLost \/ Approved \/ NotApproved \/ GrantFits \/ GrantDoesNot
  BY <1>1, <1>4, Endings DEF Create, CreateLost, Approved, NotApproved, GrantFits, GrantDoesNot,
     Goes
<1>5. CASE PageFits \/ PageMoved \/ Stopped \/ Read \/ ReadLost \/ Fill \/ PlaceFails
  BY <1>1, <1>5, Endings DEF PageFits, PageMoved, Stopped, Read, ReadLost, Fill, PlaceFails, Goes
<1>6. CASE ReportBadPassword \/ FallsDue
  BY <1>6 DEF ReportBadPassword, FallsDue
<1>7. ASSUME NEW to \in {"agent", "human", "closed"}, Handover(to)  PROVE Other
  BY <1>7 DEF Handover
<1>8. ASSUME NEW o \in Origin, Navigate(o)  PROVE Other
  BY <1>8 DEF Navigate
<1>9. ASSUME NEW kind \in Kind, Disturb(kind)  PROVE Other
  BY <1>9 DEF Disturb, Types, Document
<1>10. ASSUME NEW k \in Key, GrantEnds(k)  PROVE Other
  BY <1>10 DEF GrantEnds
<1>11. ASSUME NEW k \in Key, NEW verdict \in {"approved", "refused"}, NEW covers \in BOOLEAN,
              Decide(k, verdict, covers)
       PROVE  Other
  BY <1>11 DEF Decide
<1>12. CASE UNCHANGED vars
  BY <1>12 DEF vars
<1> HIDE DEF Other
<1>13. CASE Call
  BY <1>2, <1>3, <1>4, <1>5, <1>13 DEF Call, Other
<1>14. CASE Environment
  BY <1>6, <1>7, <1>8, <1>9, <1>10, <1>11, <1>14 DEF Environment, Other
<1>. QED
  BY <1>12, <1>13, <1>14 DEF Next, Other

LEMMA TypedStep ==
  ASSUME Types, BookInv, TypedInv, [Next]_vars
  PROVE  TypedInv'
<1>1. ASSUME NEW t \in typed
      PROVE  /\ request'[t.key] # NoRequest
             /\ request'[t.key].state = "approved" /\ request'[t.key].covers
             /\ t.origin = t.key.origin /\ t.nonce = request'[t.key].nonce
  <2>1. t.key \in Key
    BY DEF Types, Typed
  <2>. QED
    BY <1>1, <2>1, ApprovedStays DEF TypedInv
<1>2. CASE Type
  <2> DEFINE new == [key |-> KeyOf(job), nonce |-> page.nonce, origin |-> page.origin]
  <2>1. /\ at = "type" /\ page.marked # {} /\ typed' = typed \cup {new} /\ request' = request
        /\ at' # "type"
    BY <1>2, Endings DEF Type, Fillable, Goes
  <2>2. page.nonce = job.pin.nonce /\ page.origin = job.pin.origin
    BY <2>1 DEF TypedInv
  <2>3. /\ request[KeyOf(job)] # NoRequest /\ request[KeyOf(job)].state = "approved"
        /\ request[KeyOf(job)].covers /\ request[KeyOf(job)].nonce = job.pin.nonce
    BY <2>1 DEF BookInv, GrantInv, AskedFor
  <2>4. KeyOf(job).origin = job.pin.origin
    BY DEF KeyOf
  <2>5. /\ request'[new.key] # NoRequest /\ request'[new.key].state = "approved"
        /\ request'[new.key].covers
        /\ new.origin = new.key.origin /\ new.nonce = request'[new.key].nonce
    BY <2>1, <2>2, <2>3, <2>4
  <2>6. \A t \in typed' : t \in typed \/ t = new
    BY <2>1
  <2> HIDE DEF new
  <2>. QED
    BY <1>1, <2>1, <2>5, <2>6 DEF TypedInv
<1>3. ASSUME NEW kind \in Kind, Place(kind)  PROVE TypedInv'
  <2>1. /\ page.nonce = job.pin.nonce /\ page.origin = job.pin.origin
        /\ job' = [job EXCEPT !.todo = @ \ {kind}, !.now = kind] /\ job \in Job
        /\ UNCHANGED <<page, typed>>
    BY <1>3 DEF Place, SamePage, Types
  <2>2. job'.pin = job.pin
    BY <2>1 DEF Job
  <2>. QED
    BY <1>1, <2>1, <2>2 DEF TypedInv
<1>4. ASSUME typed' = typed,
             at' = "type" => at = "type" /\ job' = job,
             at' = "type" => \/ page'.marked = {}
                             \/ /\ page'.marked = page.marked /\ page'.nonce = page.nonce
                                /\ page'.origin = page.origin
      PROVE  TypedInv'
  BY <1>1, <1>4 DEF TypedInv
<1>. QED
  BY <1>2, <1>3, <1>4, TypingSteps

(***************************************************************************)
(* Whatever the page, the broker and the clock do, a secret is typed only  *)
(* into the document its release was asked for and approved for.           *)
(***************************************************************************)
THEOREM TypedCorrect == Spec => []TypedWhereReleased
<1>1. Init => TypedInv
  BY DEF Init, TypedInv
<1>2. TypedInv => TypedWhereReleased
  BY DEF TypedInv, TypedWhereReleased
<1>3. Types /\ BookInv /\ TypedInv /\ [Next]_vars => TypedInv'
  BY TypedStep
<1>. QED
  BY <1>1, <1>2, <1>3, BookHolds, PTL DEF Spec
-----------------------------------------------------------------------------
(***************************************************************************)
(* The call holds the session's lock, and with it the agent's turn.        *)
(***************************************************************************)
TurnInv == at # "idle" => turn = "agent" /\ ~bad

LEMMA TurnStep ==
  ASSUME Types, TurnInv, [Next]_vars
  PROVE  TurnInv'
<1> USE DEF session, TurnInv
<1>1. ASSUME NEW s \in Step, NEW a \in Alias, NEW kinds \in SUBSET Kind,
             AskFirst(s, a, kinds) \/ AskAgain(s, a)
      PROVE  TurnInv'
  BY <1>1 DEF AskFirst, AskAgain, Serves
<1>2. ASSUME NEW s \in Step, PrepareFails(s)  PROVE TurnInv'
  BY <1>2 DEF PrepareFails
<1>3. CASE Create \/ CreateLost \/ Approved \/ NotApproved \/ GrantFits \/ GrantDoesNot
  BY <1>3, Endings DEF Create, CreateLost, Approved, NotApproved, GrantFits, GrantDoesNot, Goes
<1>4. CASE PageFits \/ PageMoved \/ Stopped \/ Read \/ ReadLost
  BY <1>4, Endings DEF PageFits, PageMoved, Stopped, Read, ReadLost, Goes
<1>5. CASE Fill \/ PlaceFails \/ Type
  BY <1>5, Endings DEF Fill, PlaceFails, Type, Goes
<1>6. ASSUME NEW kind \in Kind, Place(kind) \/ Disturb(kind)  PROVE TurnInv'
  BY <1>6 DEF Place, Disturb
<1>7. CASE ReportBadPassword \/ FallsDue
  BY <1>7 DEF ReportBadPassword, FallsDue, Unlocked
<1>8. ASSUME NEW to \in {"agent", "human", "closed"}, Handover(to)  PROVE TurnInv'
  BY <1>8 DEF Handover, Unlocked
<1>9. ASSUME NEW o \in Origin, Navigate(o)  PROVE TurnInv'
  BY <1>9 DEF Navigate
<1>10. ASSUME NEW k \in Key, GrantEnds(k)  PROVE TurnInv'
  BY <1>10 DEF GrantEnds
<1>11. ASSUME NEW k \in Key, NEW verdict \in {"approved", "refused"}, NEW covers \in BOOLEAN,
              Decide(k, verdict, covers)
       PROVE  TurnInv'
  BY <1>11 DEF Decide
<1>12. CASE UNCHANGED vars
  BY <1>12 DEF vars
<1>13. CASE Call
  BY <1>1, <1>2, <1>3, <1>4, <1>5, <1>6, <1>13 DEF Call
<1>14. CASE Environment
  BY <1>6, <1>7, <1>8, <1>9, <1>10, <1>11, <1>14 DEF Environment
<1>. QED
  BY <1>12, <1>13, <1>14 DEF Next

(***************************************************************************)
(* A report of a bad password, a handover and a close wait for a fill that *)
(* is under way, and nothing is typed after them.                          *)
(***************************************************************************)
THEOREM TurnCorrect == Spec => NothingTypedAfterwards
<1>1. Init => TurnInv
  BY DEF Init, TurnInv
<1>2. ASSUME Types, TurnInv, [Next]_vars  PROVE [typed' # typed => turn = "agent" /\ ~bad]_vars
  <2>1. ASSUME typed' # typed  PROVE turn = "agent" /\ ~bad
    <3>1. at # "idle"
      BY <1>2, <2>1, TypingSteps DEF Type, Place
    <3>. QED
      BY <1>2, <3>1 DEF TurnInv
  <2>. QED
    BY <2>1
<1>. QED
  BY <1>1, <1>2, TurnStep, BookHolds, PTL DEF Spec, NothingTypedAfterwards
-----------------------------------------------------------------------------
(***************************************************************************)
(* Nothing is asked for from outside the confinement: a pin is only kept   *)
(* for a document inside, and a retry asks from where its pin was.         *)
(***************************************************************************)
AskedInside == \A k \in Key : request[k] # NoRequest => k.origin \in Allowed

InsideInv ==
  /\ \A s \in Step : pending[s] \in Pin => pending[s].origin \in Allowed
  /\ at # "idle" => job.pin.origin \in Allowed
  /\ AskedInside

LEMMA InsideStill ==
  ASSUME InsideInv, UNCHANGED pending,
         at' = "idle" \/ (at # "idle" /\ job'.pin = job.pin),
         \A k \in Key : request'[k] # NoRequest => request[k] # NoRequest
  PROVE  InsideInv'
BY DEF InsideInv, AskedInside

LEMMA InsideStep ==
  ASSUME Types, BookInv, InsideInv, [Next]_vars
  PROVE  InsideInv'
<1> USE DEF session
<1>1. ASSUME NEW s \in Step, NEW a \in Alias, NEW kinds \in SUBSET Kind, AskFirst(s, a, kinds)
      PROVE  InsideInv'
  <2> DEFINE p == [alias |-> a, origin |-> page.origin, nonce |-> nonces + 1, kinds |-> kinds]
  <2>1. at = "idle" /\ request' = request
    BY <1>1 DEF AskFirst, Serves, Unlocked
  <2>2. CASE page.origin \in Allowed
    <3>1. /\ pending' = [pending EXCEPT ![s] = p]
          /\ at' = "create" /\ job' = [step |-> s, pin |-> p, todo |-> kinds, now |-> "none"]
      BY <1>1, <2>2 DEF AskFirst, Remembers, Asks
    <3>. QED
      BY <2>1, <2>2, <3>1 DEF InsideInv, AskedInside, Types
  <2>3. CASE page.origin \notin Allowed
    BY <1>1, <2>1, <2>3 DEF AskFirst, InsideInv, AskedInside
  <2>. QED
    BY <2>2, <2>3
<1>2. ASSUME NEW s \in Step, PrepareFails(s)  PROVE InsideInv'
  BY <1>2 DEF PrepareFails, InsideInv, AskedInside
<1>3. ASSUME NEW s \in Step, NEW a \in Alias, AskAgain(s, a)  PROVE InsideInv'
  <2>1. pending[s] \in Pin
    BY <1>3 DEF AskAgain, NeedsPin, Types
  <2>. QED
    BY <1>3, <2>1 DEF AskAgain, Asks, InsideInv, AskedInside
<1>4. CASE Create \/ CreateLost
  <2>1. job \in Job /\ KeyOf(job) \in Key /\ at = "create"
    BY <1>4, KeyOfJob DEF Create, CreateLost, Types
  <2>2. KeyOf(job).origin \in Allowed
    BY <2>1 DEF KeyOf, InsideInv
  <2>3. \A k \in Key : request'[k] # NoRequest => request[k] # NoRequest \/ k = KeyOf(job)
    BY <1>4, <2>1 DEF Create, CreateLost, Opened, Types
  <2>4. UNCHANGED pending
    <3>1. pending[job.step] = job.pin /\ job.step \in Step
      BY <2>1, KeyOfJob DEF BookInv, PinInv
    <3>. QED
      BY <1>4, <3>1 DEF Create, CreateLost, Remembers, Types
  <2>5. at' = "idle" \/ job' = job
    BY <1>4, Endings DEF Create, CreateLost, Goes
  <2>. QED
    BY <2>1, <2>2, <2>3, <2>4, <2>5 DEF InsideInv, AskedInside
<1>5. CASE Approved \/ NotApproved \/ GrantFits \/ GrantDoesNot
  BY <1>5, Endings, InsideStill DEF Approved, NotApproved, GrantFits, GrantDoesNot, Goes
<1>6. CASE PageFits \/ PageMoved \/ Stopped \/ Fill \/ PlaceFails
  BY <1>6, Endings, InsideStill DEF PageFits, PageMoved, Stopped, Fill, PlaceFails, Goes
<1>7. CASE Read \/ ReadLost
  <2>1. at = "read" /\ KeyOf(job) \in Key /\ job.step \in Step
    BY <1>7, KeyOfJob DEF Read, ReadLost, Types
  <2>2. \A s \in Step : pending'[s] \in Pin => pending[s] \in Pin /\ pending'[s] = pending[s]
    BY <1>7, NoPinIsNone DEF Read, ReadLost, Types
  <2>3. \A k \in Key : request'[k] # NoRequest => request[k] # NoRequest
    <3>1. request[KeyOf(job)] # NoRequest
      BY <2>1 DEF BookInv, GrantInv, AskedFor
    <3>. QED
      BY <1>7, <2>1, <3>1 DEF Read, ReadLost, Served, Types
  <2>4. at' = "idle" \/ job' = job
    BY <1>7, Endings DEF Read, ReadLost
  <2>. QED
    BY <2>1, <2>2, <2>3, <2>4 DEF InsideInv, AskedInside
<1>8. ASSUME NEW kind \in Kind, Place(kind)  PROVE InsideInv'
  <2>1. job \in Job
    BY <1>8 DEF Place, Types
  <2>2. job'.pin = job.pin
    BY <1>8, <2>1 DEF Place, Job
  <2>. QED
    BY <1>8, <2>2, InsideStill DEF Place
<1>9. CASE Type
  BY <1>9, Endings, InsideStill DEF Type, Goes
<1>10. ASSUME UNCHANGED <<pending, at, job>>,
              \A k \in Key : request'[k] # NoRequest => request[k] # NoRequest
       PROVE  InsideInv'
  BY <1>10 DEF InsideInv, AskedInside
<1>11. CASE ReportBadPassword \/ FallsDue \/ UNCHANGED vars
  BY <1>10, <1>11 DEF ReportBadPassword, FallsDue, vars
<1>12. ASSUME NEW to \in {"agent", "human", "closed"}, Handover(to)  PROVE InsideInv'
  BY <1>10, <1>12 DEF Handover
<1>13. ASSUME NEW o \in Origin, Navigate(o)  PROVE InsideInv'
  BY <1>10, <1>13 DEF Navigate
<1>14. ASSUME NEW kind \in Kind, Disturb(kind)  PROVE InsideInv'
  BY <1>10, <1>14 DEF Disturb
<1>15. ASSUME NEW k \in Key, GrantEnds(k)  PROVE InsideInv'
  BY <1>10, <1>15 DEF GrantEnds, Types, NoRequest
<1>16. ASSUME NEW k \in Key, NEW verdict \in {"approved", "refused"}, NEW covers \in BOOLEAN,
              Decide(k, verdict, covers)
       PROVE  InsideInv'
  BY <1>10, <1>16 DEF Decide, Types, NoRequest
<1>17. CASE Call
  BY <1>1, <1>2, <1>3, <1>4, <1>5, <1>6, <1>7, <1>8, <1>9, <1>17 DEF Call
<1>18. CASE Environment
  BY <1>11, <1>12, <1>13, <1>14, <1>15, <1>16, <1>18 DEF Environment
<1>. QED
  BY <1>11, <1>17, <1>18 DEF Next

(***************************************************************************)
(* The broker is only ever asked for secrets of origins inside the         *)
(* confinement (_autofill_locked's origin check).                          *)
(***************************************************************************)
THEOREM AskedInsideCorrect == Spec => []AskedInside
<1>1. Init => InsideInv
  <2>. QED
    BY NoPinIsNone DEF Init, InsideInv, AskedInside
<1>2. InsideInv => AskedInside
  BY DEF InsideInv
<1>. QED
  BY <1>1, <1>2, InsideStep, BookHolds, PTL DEF Spec
-----------------------------------------------------------------------------
(***************************************************************************)
(* The steps, by what they do to a secret in the call's hands: most leave  *)
(* it there, give it up, or happen while there is none.                    *)
(***************************************************************************)
Hands == {"fill", "place", "type"}

GoesOn ==
  /\ at \in Hands /\ at' \in Hands /\ KeyOf(job') = KeyOf(job)
  /\ UNCHANGED <<request, typed, bad, turn>>

LetsGo ==
  /\ at \in Hands /\ at' = "idle" /\ turn' \in {turn, "closed"}
  /\ UNCHANGED <<request, typed, bad>>

Elsewhere ==
  /\ at \notin Hands /\ at' \notin Hands
  /\ bad => bad'
  /\ turn = "closed" => turn' = "closed"
  /\ UNCHANGED <<request, typed>>

LEMMA HandSteps ==
  ASSUME Types, [Next]_vars
  PROVE  \/ Create \/ CreateLost \/ Read \/ ReadLost \/ Type
         \/ \E k \in Key : GrantEnds(k)
         \/ \E k \in Key, verdict \in {"approved", "refused"}, covers \in BOOLEAN :
              Decide(k, verdict, covers)
         \/ GoesOn \/ LetsGo \/ Elsewhere
<1> USE DEF session, Hands
<1> DEFINE Other == GoesOn \/ LetsGo \/ Elsewhere
<1>1. ASSUME UNCHANGED <<request, typed, bad, turn, at, job>>  PROVE Other
  BY <1>1 DEF GoesOn, Elsewhere
<1>2. ASSUME at \notin Hands, at' \notin Hands, UNCHANGED <<request, typed, bad, turn>>
      PROVE  Other
  BY <1>2 DEF Elsewhere
<1>3. ASSUME at \in Hands, at' = "idle", UNCHANGED <<request, typed, bad, turn>>
      PROVE  Other
  BY <1>3 DEF LetsGo
<1>4. ASSUME NEW s \in Step, NEW a \in Alias, NEW kinds \in SUBSET Kind, AskFirst(s, a, kinds)
      PROVE  Other
  <2>1. at = "idle" /\ at' \in {"idle", "create"} /\ UNCHANGED <<request, typed, bad, turn>>
    BY <1>4 DEF AskFirst, Serves, Unlocked, Asks
  <2>. QED
    BY <1>2, <2>1
<1>5. ASSUME NEW s \in Step, NEW a \in Alias, AskAgain(s, a)  PROVE Other
  BY <1>2, <1>5 DEF AskAgain, Serves, Unlocked, Asks
<1>6. ASSUME NEW s \in Step, PrepareFails(s)  PROVE Other
  BY <1>1, <1>6 DEF PrepareFails
<1>7. CASE Approved \/ NotApproved \/ GrantFits \/ GrantDoesNot \/ PageFits
  BY <1>2, <1>7, Endings DEF Approved, NotApproved, GrantFits, GrantDoesNot, PageFits, Goes
<1>8. CASE PageMoved \/ PlaceFails
  BY <1>2, <1>3, <1>8, Endings DEF PageMoved, PlaceFails
<1>9. CASE Stopped
  BY <1>9, Endings DEF Stopped, LetsGo, Elsewhere
<1>10. CASE Fill
  BY <1>10 DEF Fill, Goes, GoesOn
<1>11. ASSUME NEW kind \in Kind, Place(kind)  PROVE Other
  <2>1. job \in Job /\ job' = [job EXCEPT !.todo = @ \ {kind}, !.now = kind]
    BY <1>11 DEF Place, Types
  <2>2. KeyOf(job') = KeyOf(job)
    BY <2>1 DEF Job, KeyOf
  <2>. QED
    BY <1>11, <2>2 DEF Place, GoesOn
<1>12. CASE ReportBadPassword
  BY <1>12 DEF ReportBadPassword, Unlocked, Elsewhere
<1>13. ASSUME NEW to \in {"agent", "human", "closed"}, Handover(to)  PROVE Other
  BY <1>13 DEF Handover, Unlocked, Elsewhere
<1>14. CASE FallsDue \/ UNCHANGED vars
  BY <1>1, <1>14 DEF FallsDue, vars
<1>15. ASSUME NEW o \in Origin, Navigate(o)  PROVE Other
  BY <1>1, <1>15 DEF Navigate
<1>16. ASSUME NEW kind \in Kind, Disturb(kind)  PROVE Other
  BY <1>1, <1>16 DEF Disturb
<1> HIDE DEF Other
<1>17. CASE Call
  BY <1>4, <1>5, <1>6, <1>7, <1>8, <1>9, <1>10, <1>11, <1>17 DEF Call, Other
<1>18. CASE Environment
  BY <1>12, <1>13, <1>14, <1>15, <1>16, <1>18 DEF Environment, Other
<1>. QED
  BY <1>14, <1>17, <1>18 DEF Next, Other

(***************************************************************************)
(* What is in the call's hands was read, once.                             *)
(***************************************************************************)
HandInv ==
  /\ \A k \in Key : request[k] # NoRequest => request[k].reads = request[k].uses
  /\ at \in Hands => AskedFor.uses = 1

LEMMA HandStep ==
  ASSUME Types, BookInv, HandInv, [Next]_vars
  PROVE  HandInv'
<1>1. CASE Create \/ CreateLost
  <2>1. at = "create" /\ at' \in {"wait", "idle"}
    BY <1>1, Endings DEF Create, CreateLost, Goes
  <2>2. request' \in {request, Opened(KeyOf(job), job.pin.nonce)}
    BY <1>1 DEF Create, CreateLost
  <2>3. ASSUME NEW k \in Key, request'[k] # request[k]
        PROVE  request'[k].reads = 0 /\ request'[k].uses = 0
    BY <2>2, <2>3 DEF Opened, Types
  <2>4. \A k \in Key : request'[k] # NoRequest => request'[k].reads = request'[k].uses
    BY <2>3 DEF HandInv
  <2>. QED
    BY <2>1, <2>4 DEF HandInv, Hands
<1>2. CASE Read \/ ReadLost
  <2>1. /\ at = "read" /\ KeyOf(job) \in Key /\ AskedFor # NoRequest /\ AskedFor.uses = 0
        /\ at' = "idle" \/ (at' = "fill" /\ job' = job /\ request' = Served(KeyOf(job)))
        /\ request' \in {request, Served(KeyOf(job))}
    BY <1>2, KeyOfJob, Endings DEF Read, ReadLost, Types, BookInv, GrantInv
  <2>2. AskedFor \in Request /\ AskedFor.reads = 0
    BY <2>1 DEF AskedFor, Types, HandInv
  <2>3. CASE at' = "idle" /\ request' = request
    BY <2>3 DEF HandInv, Hands
  <2>4. CASE request' = Served(KeyOf(job))
    <3>1. /\ request'[KeyOf(job)] = [AskedFor EXCEPT !.uses = 1, !.reads = @ + 1]
          /\ \A k \in Key : k # KeyOf(job) => request'[k] = request[k]
      BY <2>1, <2>4 DEF Served, Types, AskedFor
    <3>2. request'[KeyOf(job)].uses = 1 /\ request'[KeyOf(job)].reads = 1
      BY <2>2, <3>1 DEF Request
    <3>3. \A k \in Key : request'[k] # NoRequest => request'[k].reads = request'[k].uses
      BY <3>1, <3>2 DEF HandInv
    <3>. QED
      BY <2>1, <3>2, <3>3 DEF HandInv, Hands, AskedFor
  <2>. QED
    BY <2>1, <2>3, <2>4
<1>3. CASE Type
  <2>1. at = "type" /\ request' = request /\ (at' = "idle" \/ (at' = "place" /\ job' = job))
    BY <1>3, Endings DEF Type, Goes
  <2>. QED
    BY <2>1 DEF HandInv, Hands, AskedFor
\* The broker's own steps leave the counts alone.
<1>4. ASSUME NEW k \in Key, UNCHANGED <<at, job>>,
             \A l \in Key : l # k => request'[l] = request[l],
             request[k] # NoRequest,
             request'[k].uses = request[k].uses /\ request'[k].reads = request[k].reads
      PROVE  HandInv'
  <2>1. at \in Hands => KeyOf(job) \in Key
    BY KeyOfJob DEF Types, Hands
  <2>. QED
    BY <1>4, <2>1 DEF HandInv, AskedFor
<1>5. ASSUME NEW k \in Key, GrantEnds(k)  PROVE HandInv'
  <2>1. request[k] # NoRequest /\ request[k] \in Request
    BY <1>5 DEF GrantEnds, NoRequest, Types
  <2>2. /\ request'[k] = [request[k] EXCEPT !.valid = FALSE]
        /\ \A l \in Key : l # k => request'[l] = request[l]
    BY <1>5 DEF GrantEnds, Types
  <2>3. request'[k].uses = request[k].uses /\ request'[k].reads = request[k].reads
    BY <2>1, <2>2 DEF Request
  <2>. QED
    BY <1>4, <1>5, <2>1, <2>2, <2>3 DEF GrantEnds
<1>6. ASSUME NEW k \in Key, NEW verdict \in {"approved", "refused"}, NEW covers \in BOOLEAN,
             Decide(k, verdict, covers)
      PROVE  HandInv'
  <2>1. request[k] # NoRequest /\ request[k] \in Request
    BY <1>6 DEF Decide, NoRequest, Types
  <2>2. /\ request'[k] = [request[k] EXCEPT !.state = verdict, !.covers = covers,
                                            !.valid = verdict = "approved"]
        /\ \A l \in Key : l # k => request'[l] = request[l]
    BY <1>6 DEF Decide, Types
  <2>3. request'[k].uses = request[k].uses /\ request'[k].reads = request[k].reads
    BY <2>1, <2>2 DEF Request
  <2>. QED
    BY <1>4, <1>6, <2>1, <2>2, <2>3 DEF Decide
<1>7. CASE GoesOn \/ LetsGo \/ Elsewhere
  BY <1>7 DEF GoesOn, LetsGo, Elsewhere, HandInv, Hands, AskedFor
<1>. QED
  BY <1>1, <1>2, <1>3, <1>5, <1>6, <1>7, HandSteps
-----------------------------------------------------------------------------
(***************************************************************************)
(* The mapping: what changes a request's stage, and what does not.         *)
(***************************************************************************)
LEMMA AskingKeys == Asking \subseteq Key
BY DEF Asking, Key

LEMMA StageKept ==
  ASSUME NEW k, request'[k] = request[k], Holds(k)' <=> Holds(k)
  PROVE  Stage(k)' = Stage(k) /\ Source(k)' = Source(k)
BY DEF Stage, Source

LEMMA StageMoves ==
  ASSUME NEW k \in Asking, NEW from, NEW to, Stage(k) = from, Stage(k)' \in to,
         \A l \in Asking : l # k => Stage(l)' = Stage(l)
  PROVE  R!Moves(k, from, to)
BY DEF R!Moves

LEMMA AllKept ==
  ASSUME \A k \in Asking : Stage(k)' = Stage(k) /\ Source(k)' = Source(k)
  PROVE  UNCHANGED <<[k \in Asking |-> Stage(k)], [k \in Asking |-> Source(k)]>>
OBVIOUS

LEMMA EmptyHands ==
  ASSUME at \notin Hands
  PROVE  ~R!InHand /\ \A k : ~Holds(k)
BY DEF R!InHand, Stage, Holds, Answer, Hands

LEMMA FullHands ==
  ASSUME Types, BookInv, InsideInv, HandInv, at \in Hands
  PROVE  /\ KeyOf(job) \in Asking /\ Stage(KeyOf(job)) = "released"
         /\ request[KeyOf(job)] # NoRequest /\ request[KeyOf(job)].reads = 1
<1>1. job \in Job /\ KeyOf(job) \in Key /\ job.pin.origin \in Allowed
  BY KeyOfJob DEF Types, Hands, InsideInv
<1>2. KeyOf(job) \in Asking
  BY <1>1 DEF Asking, KeyOf, Job, Pin
<1>3. request[KeyOf(job)] # NoRequest /\ request[KeyOf(job)].reads = 1
  BY <1>1 DEF BookInv, GrantInv, HandInv, Hands, AskedFor
<1>4. Stage(KeyOf(job)) = "released"
  BY <1>3 DEF Stage, Holds, Hands
<1>. QED
  BY <1>2, <1>3, <1>4

(***************************************************************************)
(* The call's own turn, as its mode.                                       *)
(***************************************************************************)
LEMMA CallsMode ==
  ASSUME TurnInv, at # "idle"
  PROVE  Mode = "agent"
BY DEF TurnInv, Mode

LEMMA ModeKept ==
  ASSUME UNCHANGED <<bad, turn>>
  PROVE  Mode' = Mode
BY DEF Mode

(***************************************************************************)
(* A new request of the call's step is the only open one.                  *)
(***************************************************************************)
LEMMA AskStep ==
  ASSUME Types, BookInv, InsideInv, TurnInv, [Next]_vars, Create \/ CreateLost
  PROVE  R!Next \/ UNCHANGED R!vars
<1>0. PICK k \in Key : k = KeyOf(job)
  BY KeyOfJob DEF Create, CreateLost, Types
<1> DEFINE new == [state |-> "pending", covers |-> FALSE, valid |-> FALSE,
                   uses |-> 0, reads |-> 0, nonce |-> job.pin.nonce]
<1>1. /\ at = "create" /\ at' \in {"wait", "idle"} /\ UNCHANGED <<bad, turn, typed>>
      /\ request' \in {request, Opened(k, job.pin.nonce)}
  BY <1>0, Endings DEF Create, CreateLost, Goes, session
<1>2. /\ job \in Job /\ k \in Asking /\ job.pin.nonce \in Nonce
      /\ pending[job.step] = job.pin
  BY <1>0, <1>1, KeyOfJob DEF Types, InsideInv, Asking, KeyOf, Job, Pin, BookInv, PinInv
<1>3. /\ Mode = "agent" /\ Mode' = "agent" /\ ~R!InHand
      /\ \A l : Holds(l)' <=> Holds(l)
  BY <1>1, CallsMode, ModeKept, EmptyHands DEF Hands, Holds
<1>4. CASE request' = request
  <2>1. \A l \in Asking : Stage(l)' = Stage(l) /\ Source(l)' = Source(l)
    BY <1>3, <1>4, StageKept
  <2>. QED
    BY <1>1, <1>3, <2>1, AllKept DEF R!vars
<1>5. CASE request' # request
  <2>1. request[k] = NoRequest /\ request' = [request EXCEPT ![k] = new]
    BY <1>1, <1>5 DEF Opened
  <2>2. \A l \in Asking : l # k => Stage(l)' = Stage(l) /\ Source(l)' = Source(l)
    BY <1>3, <2>1, AskingKeys, StageKept DEF Types
  <2>3. request'[k] = new
    BY <1>2, <2>1 DEF Types
  <2>4. Stage(k) = "none" /\ Stage(k)' = "open" /\ Source(k)' = job.pin.nonce
    <3>1. request'[k] # NoRequest /\ request'[k].reads = 0 /\ request'[k].state = "pending"
          /\ request'[k].nonce = job.pin.nonce
      BY <2>3 DEF NoRequest
    <3>. QED
      BY <2>1, <3>1 DEF Stage, Source, Answer
  <2>5. R!Moves(k, "none", {"open"})
    BY <1>2, <2>2, <2>4, StageMoves
  <2>6. ASSUME NEW l \in Asking, l.step = k.step  PROVE Stage(l) # "open"
    <3>1. SUFFICES ASSUME Stage(l) = "open"  PROVE FALSE
      OBVIOUS
    <3>2. l \in Key /\ request[l] # NoRequest /\ request[l].reads = 0
          /\ request[l].state = "pending"
      BY <3>1, AskingKeys DEF Stage, Answer
    <3>3. request[l].uses = 0
      BY <3>2 DEF BookInv, GrantInv, Spent
    <3>4. Pinned(l)
      BY <3>2, <3>3 DEF BookInv, PinInv
    <3>5. l.step = job.step
      BY <1>0, <2>6 DEF KeyOf
    <3>6. l = k
      BY <1>0, <1>2, <3>2, <3>4, <3>5, KeyOfPin DEF Pinned
    <3>. QED
      BY <2>1, <3>2, <3>6
  <2>7. \E d \in Nonce : [l \in Asking |-> Source(l)]' =
          [[l \in Asking |-> Source(l)] EXCEPT ![k] = d]
    BY <1>2, <2>2, <2>4
  <2>8. R!Ask(k)
    BY <1>1, <1>3, <2>5, <2>6, <2>7 DEF R!Ask
  <2>. QED
    BY <1>2, <2>8 DEF R!Next
<1>. QED
  BY <1>4, <1>5

(***************************************************************************)
(* The read of an approved, unspent request, whose secret the call takes   *)
(* or loses.                                                               *)
(***************************************************************************)
LEMMA ReadStep ==
  ASSUME Types, BookInv, InsideInv, HandInv, TurnInv, Read \/ ReadLost
  PROVE  R!Next \/ UNCHANGED R!vars
<1>0. PICK k \in Key : k = KeyOf(job)
  BY KeyOfJob DEF Read, ReadLost, Types
<1>1. /\ at = "read" /\ UNCHANGED <<bad, turn, typed>>
      /\ at' = "idle" \/ (at' = "fill" /\ job' = job /\ request' = Served(k))
      /\ request' \in {request, Served(k)}
  BY <1>0, Endings DEF Read, ReadLost
<1>2. /\ k \in Asking
      /\ request[k] # NoRequest /\ request[k].state = "approved" /\ request[k].covers
      /\ request[k].uses = 0
  BY <1>0, <1>1, KeyOfJob
     DEF Types, InsideInv, Asking, KeyOf, Job, Pin, BookInv, GrantInv, AskedFor
<1>3. Mode = "agent" /\ Mode' = "agent" /\ ~R!InHand /\ \A l : ~Holds(l)
  BY <1>1, CallsMode, ModeKept, EmptyHands DEF Hands
<1>4. \A l : Holds(l)' => l = k
  BY <1>0, <1>1 DEF Holds
<1>5. CASE at' = "idle" /\ request' = request
  <2>1. \A l : ~Holds(l)'
    BY <1>5 DEF Holds
  <2>2. \A l \in Asking : Stage(l)' = Stage(l) /\ Source(l)' = Source(l)
    BY <1>3, <1>5, <2>1, StageKept
  <2>. QED
    BY <1>1, <1>3, <2>2, AllKept DEF R!vars
<1>6. CASE request' = Served(k)
  <2>1. /\ request'[k] = [request[k] EXCEPT !.uses = 1, !.reads = @ + 1]
        /\ \A l \in Key : l # k => request'[l] = request[l]
    BY <1>2, <1>6 DEF Served, Types
  <2>2. request[k] \in Request /\ request[k].reads = 0
    BY <1>2 DEF Types, HandInv
  <2>3. request'[k].reads = 1 /\ request'[k].uses = 1 /\ request'[k].nonce = request[k].nonce
    BY <2>1, <2>2 DEF Request
  <2>4. request'[k] # NoRequest
    BY <2>1, <2>2 DEF Request, NoRequest
  <2>5. Stage(k) = "approved"
    BY <1>2, <2>2 DEF Stage, Answer
  <2>6. Stage(k)' \in {"released", "done"} /\ Source(k)' = Source(k)
    BY <1>2, <2>3, <2>4 DEF Stage, Source
  <2>7. \A l \in Asking : l # k => Stage(l)' = Stage(l) /\ Source(l)' = Source(l)
    BY <1>3, <1>4, <2>1, AskingKeys, StageKept
  <2>8. R!Moves(k, "approved", {"released", "done"})
    BY <1>2, <2>5, <2>6, <2>7, StageMoves
  <2>9. R!Release(k)
    BY <1>1, <1>3, <2>6, <2>7, <2>8 DEF R!Release
  <2>. QED
    BY <1>2, <2>9 DEF R!Next
<1>. QED
  BY <1>1, <1>5, <1>6

(***************************************************************************)
(* A field typed: into the document, at the origin, of the request.        *)
(***************************************************************************)
LEMMA FillStep ==
  ASSUME Types, BookInv, InsideInv, HandInv, TypedInv, TurnInv, Type
  PROVE  R!Next
<1>0. PICK k \in Key : k = KeyOf(job)
  BY KeyOfJob DEF Type, Types
<1>1. /\ at = "type" /\ UNCHANGED <<bad, turn, request>>
      /\ at' = "idle" \/ (at' = "place" /\ job' = job)
      /\ typed' = typed \cup {[key |-> k, nonce |-> page.nonce, origin |-> page.origin]}
      /\ page.marked # {}
  BY <1>0, Endings DEF Type, Goes, Fillable, session
<1>2. /\ k \in Asking /\ Stage(k) = "released"
      /\ request[k] # NoRequest /\ request[k].reads = 1
  BY <1>0, <1>1, FullHands DEF Hands
<1>3. /\ page.nonce = job.pin.nonce /\ page.origin = job.pin.origin
      /\ request[k].nonce = job.pin.nonce
  BY <1>0, <1>1 DEF TypedInv, BookInv, GrantInv, AskedFor
<1>4. Source(k) = page.nonce /\ k.origin = page.origin
  BY <1>0, <1>2, <1>3 DEF Source, KeyOf
<1>5. Stage(k)' \in {"released", "done"} /\ Source(k)' = Source(k)
  BY <1>1, <1>2 DEF Stage, Source
<1>6. ASSUME NEW l \in Asking, l # k
      PROVE  Stage(l)' = Stage(l) /\ Source(l)' = Source(l)
  <2>1. ~Holds(l) /\ ~Holds(l)'
    BY <1>0, <1>1, <1>6 DEF Holds
  <2>. QED
    BY <1>1, <2>1, StageKept
<1>7. R!Moves(k, "released", {"released", "done"})
  BY <1>2, <1>5, <1>6, StageMoves
<1>8. Mode = "agent" /\ Mode' = "agent"
  BY <1>1, CallsMode, ModeKept
<1>9. R!Fill(k)
  BY <1>1, <1>2, <1>4, <1>5, <1>6, <1>7, <1>8 DEF R!Fill
<1>. QED
  BY <1>2, <1>9 DEF R!Next

(***************************************************************************)
(* That a grant ends shows in no stage.                                    *)
(***************************************************************************)
LEMMA GrantStep ==
  ASSUME Types, NEW k \in Key, GrantEnds(k)
  PROVE  UNCHANGED R!vars
<1>1. UNCHANGED <<bad, turn, typed, at, job>> /\ Mode' = Mode
  BY ModeKept DEF GrantEnds, session
<1>2. \A l : Holds(l)' <=> Holds(l)
  BY <1>1 DEF Holds, KeyOf
<1>3. request[k] # NoRequest /\ request[k] \in Request
  BY DEF GrantEnds, NoRequest, Types
<1>4. /\ request'[k] = [request[k] EXCEPT !.valid = FALSE]
      /\ \A l \in Key : l # k => request'[l] = request[l]
  BY DEF GrantEnds, Types
<1>5. /\ request'[k].reads = request[k].reads /\ request'[k].state = request[k].state
      /\ request'[k].covers = request[k].covers /\ request'[k].nonce = request[k].nonce
      /\ request[k].state = "approved"
  BY <1>3, <1>4 DEF Request, GrantEnds
<1>6. request'[k] # NoRequest
  BY <1>5 DEF NoRequest
<1>7. Stage(k)' = Stage(k) /\ Source(k)' = Source(k)
  BY <1>2, <1>3, <1>5, <1>6 DEF Stage, Source, Answer
<1>8. \A l \in Asking : Stage(l)' = Stage(l) /\ Source(l)' = Source(l)
  BY <1>2, <1>4, <1>7, AskingKeys, StageKept
<1>. QED
  BY <1>1, <1>8, AllKept DEF R!vars

(***************************************************************************)
(* The broker's decision.                                                  *)
(***************************************************************************)
LEMMA DecideStep ==
  ASSUME Types, BookInv, InsideInv, NEW k \in Key,
         NEW verdict \in {"approved", "refused"}, NEW covers \in BOOLEAN,
         Decide(k, verdict, covers)
  PROVE  R!Next
<1>1. UNCHANGED <<bad, turn, typed, at, job>> /\ Mode' = Mode
  BY ModeKept DEF Decide, session
<1>2. \A l : Holds(l)' <=> Holds(l)
  BY <1>1 DEF Holds, KeyOf
<1>3. request[k] # NoRequest /\ request[k] \in Request /\ request[k].state = "pending"
  BY DEF Decide, NoRequest, Types
<1>4. /\ request'[k] = [request[k] EXCEPT !.state = verdict, !.covers = covers,
                                          !.valid = verdict = "approved"]
      /\ \A l \in Key : l # k => request'[l] = request[l]
  BY DEF Decide, Types
<1>5. /\ request'[k].reads = request[k].reads /\ request'[k].state = verdict
      /\ request'[k].covers = covers /\ request'[k].nonce = request[k].nonce
  BY <1>3, <1>4 DEF Request
<1>6. request'[k] # NoRequest
  BY <1>5 DEF NoRequest
<1>7. request[k].reads = 0
  BY <1>3 DEF BookInv, GrantInv, Spent, Request
<1>8. Stage(k) = "open" /\ Stage(k)' \in {"approved", "refused"} /\ Source(k)' = Source(k)
  BY <1>3, <1>5, <1>6, <1>7 DEF Stage, Source, Answer
<1>9. \A l \in Asking : l # k => Stage(l)' = Stage(l) /\ Source(l)' = Source(l)
  BY <1>2, <1>4, AskingKeys, StageKept
<1>10. k \in Asking
  BY <1>3 DEF InsideInv, AskedInside, Asking, Key
<1>11. R!Moves(k, "open", {"approved", "refused"})
  BY <1>8, <1>9, <1>10, StageMoves
<1>12. R!Decide(k)
  BY <1>1, <1>8, <1>9, <1>11 DEF R!Decide
<1>. QED
  BY <1>10, <1>12 DEF R!Next

(***************************************************************************)
(* The other steps: the secret stays in the call's hands, or leaves them,  *)
(* or there is none and the session may change its own.                    *)
(***************************************************************************)
LEMMA OtherStep ==
  ASSUME Types, BookInv, InsideInv, HandInv, TurnInv, GoesOn \/ LetsGo \/ Elsewhere
  PROVE  R!Next \/ UNCHANGED R!vars
<1>1. CASE GoesOn
  <2>1. \A k : Holds(k)' <=> Holds(k)
    BY <1>1 DEF GoesOn, Holds, Hands
  <2>2. \A k \in Asking : Stage(k)' = Stage(k) /\ Source(k)' = Source(k)
    BY <1>1, <2>1, StageKept DEF GoesOn
  <2>. QED
    BY <1>1, <2>2, AllKept, ModeKept DEF GoesOn, R!vars
<1>2. CASE LetsGo
  <2>0. PICK k \in Asking : k = KeyOf(job)
    BY <1>2, FullHands DEF LetsGo
  <2>1. /\ Stage(k) = "released" /\ request[k] # NoRequest /\ request[k].reads = 1
        /\ request' = request
    BY <1>2, <2>0, FullHands DEF LetsGo
  <2>2. \A l : ~Holds(l)'
    BY <1>2 DEF LetsGo, Holds
  <2>3. Stage(k)' = "done" /\ Source(k)' = Source(k)
    BY <2>1, <2>2 DEF Stage, Source
  <2>4. ASSUME NEW l \in Asking, l # k
        PROVE  Stage(l)' = Stage(l) /\ Source(l)' = Source(l)
    <3>1. ~Holds(l)
      BY <2>0, <2>4 DEF Holds
    <3>. QED
      BY <2>1, <2>2, <3>1, StageKept
  <2>5. R!Moves(k, "released", {"done"})
    BY <2>1, <2>3, <2>4, StageMoves
  <2>6. Mode' \in {Mode, "over"}
    BY <1>2 DEF LetsGo, Mode
  <2>7. R!GiveUp(k)
    BY <1>2, <2>3, <2>4, <2>5, <2>6 DEF R!GiveUp, LetsGo
  <2>. QED
    BY <2>7 DEF R!Next
<1>3. CASE Elsewhere
  <2>1. \A k : ~Holds(k) /\ ~Holds(k)'
    BY <1>3 DEF Elsewhere, Holds, Hands
  <2>2. \A k \in Asking : Stage(k)' = Stage(k) /\ Source(k)' = Source(k)
    BY <1>3, <2>1, StageKept DEF Elsewhere
  <2>3. CASE Mode' = Mode
    BY <1>3, <2>2, <2>3, AllKept DEF Elsewhere, R!vars
  <2>4. CASE Mode' # Mode
    <3>1. Mode # "over" /\ Mode' \in {"agent", "away", "over"}
      BY <1>3, <2>4 DEF Elsewhere, Mode
    <3>2. R!ChangeHands
      BY <1>3, <2>2, <2>4, <3>1, AllKept, EmptyHands DEF Elsewhere, R!ChangeHands
    <3>. QED
      BY <3>2 DEF R!Next
  <2>. QED
    BY <2>3, <2>4
<1>. QED
  BY <1>1, <1>2, <1>3

(***************************************************************************)
(* The calls of a session, with whatever page and broker they meet,        *)
(* implement what the human who approves is promised.                      *)
(***************************************************************************)
THEOREM AutofillKeepsItsPromise == Spec => KeepsRelease
<1> DEFINE IInv == BookInv /\ InsideInv /\ HandInv /\ TypedInv /\ TurnInv
<1>1. Init => IInv
  BY NoPinIsNone DEF Init, BookInv, PinInv, GrantInv, InsideInv, AskedInside, HandInv, Hands,
     TypedInv, TurnInv
<1>2. Types /\ IInv /\ [Next]_vars => IInv'
  BY BookStep, InsideStep, HandStep, TypedStep, TurnStep
<1>3. Init => R!Init
  <2>1. SUFFICES ASSUME Init  PROVE R!Init
    OBVIOUS
  <2>2. \A k \in Asking : Stage(k) = "none" /\ Source(k) = 0
    BY <2>1, AskingKeys DEF Init, Stage, Source
  <2>3. Mode = "agent" /\ typed = {}
    BY <2>1 DEF Init, Mode
  <2>. QED
    BY <2>2, <2>3 DEF R!Init
<1>4. Types /\ IInv /\ [Next]_vars => [R!Next]_(R!vars)
  BY AskStep, ReadStep, FillStep, GrantStep, DecideStep, OtherStep, HandSteps
<1>. QED
  BY <1>1, <1>2, <1>3, <1>4, BookHolds, PTL DEF Spec, KeepsRelease, R!Spec
-----------------------------------------------------------------------------
(***************************************************************************)
(* What the promise is worth: whatever keeps it has typed only what was    *)
(* released, where it was asked for from, and has at most one secret in    *)
(* hand, on the agent's turn.                                              *)
(***************************************************************************)
Accounted ==
  /\ \A t \in typed : /\ t.key \in Asking /\ Stage(t.key) \in {"released", "done"}
                      /\ t.nonce = Source(t.key) /\ t.origin = t.key.origin
  /\ \A k, l \in Asking : Stage(k) = "released" /\ Stage(l) = "released" => k = l
  /\ \A k \in Asking : Stage(k) = "released" => Mode = "agent"

LEMMA MovesMeans ==
  ASSUME NEW k \in Asking, NEW from, NEW to, R!Moves(k, from, to)
  PROVE  /\ Stage(k) = from /\ Stage(k)' \in to
         /\ \A l \in Asking : l # k => Stage(l)' = Stage(l)
<1> DEFINE St == [l \in Asking |-> Stage(l)]
<1>1. St[k] = from /\ St'[k] \in to /\ St' = [St EXCEPT ![k] = St'[k]]
  BY DEF R!Moves
<1>2. \A l \in Asking : St[l] = Stage(l) /\ St'[l] = Stage(l)'
  OBVIOUS
<1>3. \A l \in Asking : l # k => St'[l] = St[l]
  BY <1>1
<1>. QED
  BY <1>1, <1>2, <1>3

THEOREM ReleaseMeans == KeepsRelease => []Accounted
<1> DEFINE St == [k \in Asking |-> Stage(k)]
           So == [k \in Asking |-> Source(k)]
<1>0. \A k \in Asking : /\ St[k] = Stage(k) /\ St'[k] = Stage(k)'
                        /\ So[k] = Source(k) /\ So'[k] = Source(k)'
  OBVIOUS
<1>1. R!Init => Accounted
  <2>1. ASSUME R!Init  PROVE typed = {} /\ St = [k \in Asking |-> "none"]
    BY <2>1 DEF R!Init
  <2>2. ASSUME R!Init, NEW k \in Asking  PROVE Stage(k) = "none"
    BY <1>0, <2>1, <2>2
  <2>. QED
    BY <2>1, <2>2 DEF Accounted
\* A step of one request, which leaves where the others were asked from.
<1>2. ASSUME Accounted, NEW k \in Asking,
             \A l \in Asking : l # k => Stage(l)' = Stage(l),
             \A l \in Asking : Source(l)' = Source(l),
             Stage(k) \in {"released", "done"} => Stage(k)' \in {"released", "done"},
             Stage(k)' = "released" => Mode' = "agent" /\ (Stage(k) = "released" \/ ~R!InHand),
             Mode' # Mode => Stage(k) = "released" /\ Stage(k)' # "released",
             \A t \in typed' :
               \/ t \in typed
               \/ /\ t = [key |-> k, nonce |-> Source(k), origin |-> k.origin]
                  /\ Stage(k) = "released"
      PROVE  Accounted'
  <2>1. ASSUME NEW t \in typed'
        PROVE  /\ t.key \in Asking /\ Stage(t.key)' \in {"released", "done"}
               /\ t.nonce = Source(t.key)' /\ t.origin = t.key.origin
    BY <1>2, <2>1 DEF Accounted
  <2>2. \A l \in Asking : Stage(l) = "released" => R!InHand
    BY <1>0 DEF R!InHand
  <2>3. \A l, n \in Asking : Stage(l)' = "released" /\ Stage(n)' = "released" => l = n
    BY <1>2, <2>2 DEF Accounted
  <2>4. \A l \in Asking : Stage(l)' = "released" => Mode' = "agent"
    BY <1>2 DEF Accounted
  <2>. QED
    BY <2>1, <2>3, <2>4 DEF Accounted
<1>3. ASSUME Accounted, NEW k \in Asking, R!Ask(k)  PROVE Accounted'
  <2>1. Stage(k) = "none" /\ Stage(k)' = "open" /\ \A l \in Asking : l # k => Stage(l)' = Stage(l)
    BY <1>3, MovesMeans DEF R!Ask
  <2>2. /\ \E d : So' = [So EXCEPT ![k] = d]
        /\ Mode' = Mode /\ typed' = typed
    BY <1>3 DEF R!Ask
  <2>3. \A l \in Asking : l # k => Source(l)' = Source(l)
    BY <1>0, <2>2
  <2>4. ASSUME NEW t \in typed
        PROVE  /\ t.key \in Asking /\ Stage(t.key)' \in {"released", "done"}
               /\ t.nonce = Source(t.key)' /\ t.origin = t.key.origin
    BY <1>3, <2>1, <2>3 DEF Accounted
  <2>. QED
    BY <1>3, <2>1, <2>2, <2>4 DEF Accounted
<1>4. ASSUME Accounted, NEW k \in Asking, R!Decide(k) \/ R!Release(k)  PROVE Accounted'
  <2>1. /\ So' = So /\ Mode' = Mode /\ typed' = typed
        /\ \/ R!Moves(k, "open", {"approved", "refused"})
           \/ R!Moves(k, "approved", {"released", "done"}) /\ Mode = "agent" /\ ~R!InHand
    BY <1>4 DEF R!Decide, R!Release
  <2>2. \A l \in Asking : Source(l)' = Source(l)
    BY <1>0, <2>1
  <2>. QED
    BY <1>2, <1>4, <2>1, <2>2, MovesMeans
<1>5. ASSUME Accounted, NEW k \in Asking, R!Fill(k) \/ R!GiveUp(k)  PROVE Accounted'
  <2>1. So' = So
    BY <1>5 DEF R!Fill, R!GiveUp
  <2>2. \A l \in Asking : Source(l)' = Source(l)
    BY <1>0, <2>1
  <2>3. CASE R!Fill(k)
    <3>1. /\ R!Moves(k, "released", {"released", "done"}) /\ Mode = "agent" /\ Mode' = Mode
          /\ typed' = typed \cup {[key |-> k, nonce |-> So[k], origin |-> k.origin]}
      BY <2>3 DEF R!Fill
    <3>. QED
      BY <1>0, <1>2, <1>5, <2>2, <3>1, MovesMeans
  <2>4. CASE R!GiveUp(k)
    <3>1. R!Moves(k, "released", {"done"}) /\ typed' = typed
      BY <2>4 DEF R!GiveUp
    <3>. QED
      BY <1>2, <1>5, <2>2, <3>1, MovesMeans
  <2>. QED
    BY <1>5, <2>3, <2>4
<1>6. ASSUME Accounted, R!ChangeHands \/ UNCHANGED R!vars  PROVE Accounted'
  <2>1. /\ St' = St /\ So' = So /\ typed' = typed
        /\ Mode' = Mode \/ ~R!InHand
    BY <1>6 DEF R!ChangeHands, R!vars
  <2>2. \A k \in Asking : Stage(k)' = Stage(k) /\ Source(k)' = Source(k)
    BY <1>0, <2>1
  <2>3. \A k \in Asking : Stage(k) = "released" => R!InHand
    BY <1>0 DEF R!InHand
  <2>. QED
    BY <1>6, <2>1, <2>2, <2>3 DEF Accounted
<1>7. Accounted /\ [R!Next]_(R!vars) => Accounted'
  BY <1>3, <1>4, <1>5, <1>6 DEF R!Next
<1>. QED
  BY <1>1, <1>7, PTL DEF KeepsRelease, R!Spec
=============================================================================
