------------------------------ MODULE RefIdentity ------------------------------
(***************************************************************************)
(* The numbers by which an agent names the elements of a page.  A snapshot *)
(* stamps every element it lists with a ref, and with the role and name it *)
(* was listed under; a later snapshot lets an element keep its ref while   *)
(* those agree and no other element carries it, and issues numbers above   *)
(* every one it knows of otherwise.  An action on a ref checks that it     *)
(* resolves, and afterwards finds the element by its number alone, each    *)
(* time it touches it; the page goes on meanwhile.  The stamps live in the *)
(* document, which the page rewrites and replaces as it likes; the numbers *)
(* in use are known to the worker, which a new session replaces, and to    *)
(* the caller, who lasts as long as the conversation but is not told of    *)
(* the snapshots autofill takes.                                           *)
(*                                                                         *)
(* An element is a slot in document order; its look stands for role and    *)
(* name.  A page copies elements, with their stamps, and does not forge    *)
(* stamps.  A definition followed at once by the one it varies is a mutant *)
(* (PROJECT.json).                                                         *)
(***************************************************************************)
EXTENDS Naturals, FiniteSets

CONSTANTS
  Slots,     \* elements a document has room for
  Look,      \* the roles and names they can have
  MaxRef,    \* refs ever issued: bounds the behaviours
  MaxMade,   \* elements ever made: likewise
  MaxWorker, \* sessions of the conversation: likewise
  Faults     \* "rewind": the caller may pass next_ref = 1 at any time

ASSUME RefAssumption ==
  /\ Slots \in Nat /\ MaxRef \in Nat /\ MaxMade \in Nat /\ MaxWorker \in Nat \ {0}
  /\ Faults \subseteq {"rewind"}

Slot == 1 .. Slots
Ref == 1 .. MaxRef

VARIABLES
  dom,     \* the main frame's document
  made,    \* elements made so far: an element's identity, shared by its copies
  counter, \* the worker's _next_ref
  caller,  \* the next_ref of the last snapshot the caller saw
  worker,  \* which session of the conversation this is
  target,  \* history: the ref an action is under way on, and what it was at the check
  shown,   \* history: every listing entry the caller was given in it
  past     \* history: the refs it was given in earlier ones

vars == <<dom, made, counter, caller, worker, target, shown, past>>

Gone == [kin |-> 0]
NoTarget == [ref |-> 0, kin |-> 0, look |-> "none"]
Element == [kin : 1 .. MaxMade, listed : BOOLEAN, look : Look, stamp : 0 .. MaxRef,
            seen : Look \cup {"none"}]

TypeOK ==
  /\ dom \in [Slot -> Element \cup {Gone}]
  /\ made \in 0 .. MaxMade
  /\ counter \in 1 .. MaxRef + 1 /\ caller \in 1 .. MaxRef + 1
  /\ worker \in 1 .. MaxWorker
  /\ target \in [ref : 0 .. MaxRef, kin : 0 .. MaxMade, look : Look \cup {"none"}]
  /\ shown \subseteq [ref : Ref, kin : 1 .. MaxMade, look : Look]
  /\ past \subseteq Ref

\* An element as it arrives, without stamps.
Fresh(kin, look) == [kin |-> kin, listed |-> TRUE, look |-> look, stamp |-> 0, seen |-> "none"]

Init ==
  /\ dom = [n \in Slot |-> Gone]
  /\ made = 0
  /\ counter = 1 /\ caller = 1
  /\ worker = 1
  /\ target = NoTarget
  /\ shown = {} /\ past = {}
-----------------------------------------------------------------------------
(* The walker.                                                             *)

Here == {n \in Slot : dom[n] # Gone}

\* Shown on the page, with a role: what a walk lists (isVisible, interesting).
Listed == {n \in Here : dom[n].listed}

Carriers(r) == {n \in Here : dom[n].stamp = r}

\* roleFor and accName against what was stamped.
SameLookAlways(n) == TRUE
SameLook(n) == dom[n].look = dom[n].seen

\* ineligible() is null.
Eligible(n) == dom[n].listed /\ SameLook(n)

\* CHECK_REF_JS: n alone carries the ref.
Sole(r, n) == Carriers(r) = {n}

\* What an action on a ref asks of the page before it starts.
Resolves(r, n) == Sole(r, n) /\ Eligible(n)

\* refFor: the element keeps the ref it has.
Keeps(n) == dom[n].stamp # 0 /\ Sole(dom[n].stamp, n) /\ SameLook(n)

Restamped == {n \in Listed : ~Keeps(n)}

\* The first number issued: the caller's, the worker's, or the next above
\* every stamp of the document.
Highest == LET stamps == {dom[n].stamp : n \in Here} \cup {0}
           IN CHOOSE h \in stamps : \A r \in stamps : r <= h
StartFromCaller(given) ==
  CHOOSE c \in {given, Highest + 1} : given <= c /\ Highest + 1 <= c
Start(given) ==
  CHOOSE c \in {given, counter, Highest + 1} : given <= c /\ counter <= c /\ Highest + 1 <= c

\* The document order decides who gets which.
Number(given, n) == Start(given) + Cardinality({m \in Restamped : m < n})
NextRef(given) == Start(given) + Cardinality(Restamped)
Walked(given) ==
  [n \in Slot |-> IF n \in Restamped
                  THEN [dom[n] EXCEPT !.stamp = Number(given, n), !.seen = dom[n].look]
                  ELSE dom[n]]

\* _snapshot_document.
Walk(given) ==
  /\ NextRef(given) <= MaxRef + 1
  /\ dom' = Walked(given)
  /\ counter' = NextRef(given)
-----------------------------------------------------------------------------
(* The service's operations, one at a time under the session's lock.       *)

Unlocked == target = NoTarget

\* What a diligent caller passes, or a careless one.
Passes(given) == given = caller \/ ("rewind" \in Faults /\ given = 1)

Snapshot(given) ==
  /\ Unlocked /\ Passes(given)
  /\ Walk(given)
  /\ caller' = counter'
  /\ shown' = shown \cup
       {[ref |-> dom'[n].stamp, kin |-> dom[n].kin, look |-> dom[n].look] : n \in Listed}
  /\ UNCHANGED <<made, worker, target, past>>

\* The document was replaced under every attempt at the walk: an empty
\* listing that reports the counter it was given.
PartialSnapshot(given) ==
  /\ Unlocked /\ Passes(given)
  /\ caller' = given
  /\ UNCHANGED <<dom, made, counter, worker, target, shown, past>>

\* autofill_prepare's, for auto-detection: nobody is told.
AutofillSnapshot ==
  /\ Unlocked
  /\ Walk(1)
  /\ UNCHANGED <<made, caller, worker, target, shown, past>>

\* A session of the same conversation, with a browser of its own.
NewSession ==
  /\ Unlocked /\ worker < MaxWorker
  /\ worker' = worker + 1
  /\ counter' = 1
  /\ dom' = [n \in Slot |-> Gone]
  /\ past' = past \cup {e.ref : e \in shown} /\ shown' = {}
  /\ UNCHANGED <<made, caller, target>>

\* click, type_text and select: the check passes, and what follows waits, for
\* the human pause, for the element to be actionable, between keys ...
Resolve(r) ==
  /\ Unlocked
  /\ \E n \in Slot :
       /\ Resolves(r, n)
       /\ target' = [ref |-> r, kin |-> dom[n].kin, look |-> dom[n].look]
  /\ UNCHANGED <<dom, made, counter, caller, worker, shown, past>>

\* ... and what it touches, whenever it does, is the one carrier of the ref.
Hits(n) == Sole(target.ref, n)

ActionEnds ==
  /\ ~Unlocked
  /\ target' = NoTarget
  /\ UNCHANGED <<dom, made, counter, caller, worker, shown, past>>
-----------------------------------------------------------------------------
(* The page's doings, at any time.                                         *)

Navigate(looks) ==
  /\ made + Slots <= MaxMade
  /\ dom' = [n \in Slot |-> Fresh(made + n, looks[n])]
  /\ made' = made + Slots
  /\ UNCHANGED <<counter, caller, worker, target, shown, past>>

Relabel(n, look) ==
  /\ n \in Here
  /\ dom' = [dom EXCEPT ![n].look = look]
  /\ UNCHANGED <<made, counter, caller, worker, target, shown, past>>

\* Hidden, disconnected from its role, or shown again.
Toggle(n) ==
  /\ n \in Here
  /\ dom' = [dom EXCEPT ![n].listed = ~@]
  /\ UNCHANGED <<made, counter, caller, worker, target, shown, past>>

Remove(n) ==
  /\ n \in Here
  /\ dom' = [dom EXCEPT ![n] = Gone]
  /\ UNCHANGED <<made, counter, caller, worker, target, shown, past>>

Insert(n, look) ==
  /\ n \notin Here /\ made < MaxMade
  /\ made' = made + 1
  /\ dom' = [dom EXCEPT ![n] = Fresh(made', look)]
  /\ UNCHANGED <<counter, caller, worker, target, shown, past>>

\* cloneNode copies the stamps.
Clone(n, m) ==
  /\ n \in Here /\ m \notin Here
  /\ dom' = [dom EXCEPT ![m] = dom[n]]
  /\ UNCHANGED <<made, counter, caller, worker, target, shown, past>>

Page ==
  \/ \E looks \in [Slot -> Look] : Navigate(looks)
  \/ \E n \in Slot :
       \/ Toggle(n) \/ Remove(n)
       \/ \E look \in Look : Relabel(n, look) \/ Insert(n, look)
       \/ \E m \in Slot : Clone(n, m)

Service ==
  \/ \E given \in {1, caller} : Snapshot(given) \/ PartialSnapshot(given)
  \/ AutofillSnapshot \/ NewSession
  \/ ActionEnds \/ \E r \in Ref : Resolve(r)

Next == Service \/ Page

Spec == Init /\ [][Next]_vars
-----------------------------------------------------------------------------
(* Properties.                                                             *)

\* In one session no number is listed for two elements (copies apart, which
\* nothing tells from the original), nor for one under two looks: whatever the
\* caller passes, and whichever documents autofill walked in between.
NeverReissued ==
  \A e, f \in shown :
    e.ref = f.ref => e.kin = f.kin /\ e.look = f.look

\* A ref the agent was given and that resolves now names the element it was
\* given for, as it was then: a relabelled element, or one of another document,
\* does not pass an action's check by an old listing of this session.
ResolvesAsSeen ==
  \A e \in shown : \A n \in Slot :
    Resolves(e.ref, n) => dom[n].kin = e.kin /\ dom[n].look = e.look

\* Between its check and its last touch an action acts on no other element than
\* the one it checked, which was the listed one, as listed: whatever the page
\* navigates to, copies or inserts while the action waits.  (Not: that the
\* element still looks as it did at the check.  The page may relabel it.)
ActsOnChecked ==
  \A e \in shown :
    target.ref = e.ref =>
      /\ target.kin = e.kin /\ target.look = e.look
      /\ \A n \in Slot : Hits(n) => dom[n].kin = target.kin
=============================================================================
