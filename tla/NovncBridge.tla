------------------------------ MODULE NovncBridge ------------------------------
(***************************************************************************)
(* One viewer's noVNC stream to a session a human drives.  Three tasks     *)
(* serve it: the pump carries the viewer's input to the display and asks   *)
(* for authorization before each message, the reader carries the display   *)
(* back and asks for none, and the watchdog asks every five seconds.  The  *)
(* right to the stream ends under them: the session ends or changes hands, *)
(* the token or the lease runs out, the jar is revoked anywhere.  When it  *)
(* was the jar, whoever notices first closes the session and its browser,  *)
(* holding the session's lock.  The first of pump and reader to finish     *)
(* ends the bridge, which cancels what is left, wherever that is.          *)
(*                                                                         *)
(* The viewer, the display and the websocket library are external.  A      *)
(* definition followed at once by the one it varies is a mutant            *)
(* (PROJECT.json).                                                         *)
(***************************************************************************)
EXTENDS Naturals

CONSTANTS
  MaxLate, \* bounds the count of late messages
  Faults   \* "close": closing the browser raises.  "hang": a lock's holder
           \* never returns

ASSUME NovncAssumption ==
  /\ MaxLate \in Nat /\ MaxLate > 1
  /\ Faults \subseteq {"close", "hang"}

VARIABLES
  right,    \* the token, the session's state and its clocks allow the stream
  revoked,  \* the jar behind the session is tombstoned
  live,     \* the session's state is not terminal
  browser,  \* its browser and display are there
  lock,     \* who holds the session's lock
  pump,     \* client_to_upstream
  reader,   \* upstream_to_client
  dog,      \* _novnc_revocation_watchdog
  bridge,   \* _bridge_websockets is running
  upstream, \* the connection to the display is open
  viewer,   \* the viewer's connection is open
  late      \* history: messages sent to the display since the right ended

session == <<right, revoked, live, browser, lock>>
tasks == <<pump, reader, dog, bridge>>
vars == <<session, tasks, upstream, viewer, late>>

TypeOK ==
  /\ right \in BOOLEAN /\ revoked \in BOOLEAN /\ live \in BOOLEAN /\ browser \in BOOLEAN
  /\ lock \in {"free", "pump", "dog", "other", "hung"}
  /\ pump \in {"receive", "ask", "close", "hung", "refused", "send", "raised", "done"}
  /\ reader \in {"read", "done"}
  /\ dog \in {"sleep", "ask", "close", "hung", "refused", "raised", "done"}
  /\ bridge \in BOOLEAN /\ upstream \in BOOLEAN /\ viewer \in BOOLEAN
  /\ late \in 0 .. MaxLate

\* The viewer was authorized, and the display accepted the connection.
Init ==
  /\ right = TRUE /\ revoked = FALSE /\ live = TRUE /\ browser = TRUE
  /\ lock = "free"
  /\ pump = "receive" /\ reader = "read" /\ dog = "sleep" /\ bridge = TRUE
  /\ upstream = TRUE /\ viewer = TRUE /\ late = 0

Allowed == right /\ ~revoked

Pump(to) == pump' = to /\ UNCHANGED <<reader, dog, bridge>>
Dog(to) == dog' = to /\ UNCHANGED <<reader, pump, bridge>>
-----------------------------------------------------------------------------
(* authorize_remote, for the task that asks, which goes on at `to'.         *)

\* Under the lock: the stream is refused; or the session is ended for its jar,
\* and its browser is about to be closed under the same lock; or it goes on.
Asks(task, to, on) ==
  /\ lock = "free"
  /\ \/ ~right /\ to = "refused" /\ UNCHANGED session
     \/ /\ right /\ revoked /\ to = "close"
        /\ live' = FALSE /\ right' = FALSE /\ lock' = task
        /\ UNCHANGED <<revoked, browser>>
     \/ Allowed /\ to = on /\ UNCHANGED session

\* The browser is closed, and the refusal raised; or closing it raises; or it
\* never returns, and the lock is kept.
Closes(task, to) ==
  /\ lock = task
  /\ \/ to = "refused" /\ browser' = FALSE /\ lock' = "free"
     \/ "close" \in Faults /\ to = "raised" /\ lock' = "free" /\ UNCHANGED browser
     \/ "hang" \in Faults /\ to = "hung" /\ UNCHANGED <<browser, lock>>
  /\ UNCHANGED <<right, revoked, live>>
-----------------------------------------------------------------------------
(* The pump.                                                               *)

\* A message is there; each is authorized by itself.
AfterReceiptUnasked == "send"
AfterReceipt == "ask"
PumpReceives ==
  /\ pump = "receive" /\ viewer
  /\ Pump(AfterReceipt)
  /\ UNCHANGED <<session, upstream, viewer, late>>

\* The viewer is gone: the connection to the display is closed.
PumpDisconnects ==
  /\ pump = "receive" /\ ~viewer
  /\ Pump("done") /\ upstream' = FALSE
  /\ UNCHANGED <<session, viewer, late>>

PumpAsks ==
  /\ pump = "ask"
  /\ \E to \in {"refused", "close", "send"} : Pump(to) /\ Asks("pump", to, "send")
  /\ UNCHANGED <<upstream, viewer, late>>

PumpCloses ==
  /\ pump = "close"
  /\ \E to \in {"refused", "raised", "hung"} : Pump(to) /\ Closes("pump", to)
  /\ UNCHANGED <<upstream, viewer, late>>

\* A message authorized is sent, also when the right has just ended.
PumpSends ==
  /\ pump = "send"
  /\ Pump(IF upstream THEN "receive" ELSE "raised")
  /\ late' = IF upstream /\ ~Allowed /\ late < MaxLate THEN late + 1 ELSE late
  /\ UNCHANGED <<session, upstream, viewer>>

\* A refusal closes the connection to the display.
PumpRefused ==
  /\ pump = "refused"
  /\ Pump("done") /\ upstream' = FALSE
  /\ UNCHANGED <<session, viewer, late>>
-----------------------------------------------------------------------------
(* The reader ends with the display's connection, or at the first frame    *)
(* the viewer is not there to take.                                        *)

ReaderEnds ==
  /\ reader = "read" /\ (~upstream \/ ~viewer)
  /\ reader' = "done"
  /\ UNCHANGED <<session, pump, dog, bridge, upstream, viewer, late>>
-----------------------------------------------------------------------------
(* The watchdog.                                                           *)

DogWakes ==
  /\ dog = "sleep" /\ Dog("ask")
  /\ UNCHANGED <<session, upstream, viewer, late>>

AfterCheckOnce == "done"
AfterCheck == "sleep"
DogAsks ==
  /\ dog = "ask"
  /\ \E to \in {"refused", "close", AfterCheck} : Dog(to) /\ Asks("dog", to, AfterCheck)
  /\ UNCHANGED <<upstream, viewer, late>>

DogCloses ==
  /\ dog = "close"
  /\ \E to \in {"refused", "raised", "hung"} : Dog(to) /\ Closes("dog", to)
  /\ UNCHANGED <<upstream, viewer, late>>

DogRefused ==
  /\ dog = "refused"
  /\ Dog("done") /\ upstream' = FALSE
  /\ UNCHANGED <<session, viewer, late>>
-----------------------------------------------------------------------------
\* The first of pump and reader to end ends the bridge: the other is cancelled,
\* then the watchdog, each wherever it is and with the lock it may hold, and
\* both connections are closed.
BridgeEnds ==
  /\ bridge /\ (pump \in {"done", "raised"} \/ reader = "done")
  /\ bridge' = FALSE
  /\ pump' = "done" /\ reader' = "done" /\ dog' = "done"
  /\ lock' = IF lock \in {"pump", "dog"} THEN "free" ELSE lock
  /\ upstream' = FALSE /\ viewer' = FALSE
  /\ UNCHANGED <<right, revoked, live, browser, late>>
-----------------------------------------------------------------------------
(* Around the stream.                                                      *)

ViewerLeaves ==
  /\ viewer /\ viewer' = FALSE
  /\ UNCHANGED <<session, tasks, upstream, late>>

\* The display goes with the browser, and its connection with it.
DisplayDrops ==
  /\ upstream /\ ~browser
  /\ upstream' = FALSE
  /\ UNCHANGED <<session, tasks, viewer, late>>

\* A clock runs out, or another request ends the viewer's control.
RightEnds ==
  /\ right /\ right' = FALSE
  /\ UNCHANGED <<revoked, live, browser, lock, tasks, upstream, viewer, late>>

\* A resumed session is handed to a human again, and the earlier control token
\* was never consumed.
RightReturns ==
  /\ ~right /\ live
  /\ right' = TRUE
  /\ late' = IF revoked THEN late ELSE 0
  /\ UNCHANGED <<revoked, live, browser, lock, tasks, upstream, viewer>>

\* In this process or another.
JarRevoked ==
  /\ ~revoked /\ revoked' = TRUE
  /\ UNCHANGED <<right, live, browser, lock, tasks, upstream, viewer, late>>

OtherLocks ==
  /\ lock = "free" /\ lock' = "other"
  /\ UNCHANGED <<right, revoked, live, browser, tasks, upstream, viewer, late>>

\* Another holder is done; it may have closed the session.
OtherDone ==
  /\ lock = "other" /\ lock' = "free"
  /\ \/ UNCHANGED <<right, live, browser>>
     \/ /\ live /\ live' = FALSE /\ right' = FALSE
        /\ browser' \in {FALSE} \cup (IF "close" \in Faults THEN {browser} ELSE {})
  /\ UNCHANGED <<revoked, tasks, upstream, viewer, late>>

OtherHangs ==
  /\ "hang" \in Faults
  /\ lock = "other" /\ lock' = "hung"
  /\ UNCHANGED <<right, revoked, live, browser, tasks, upstream, viewer, late>>

PumpStep == PumpDisconnects \/ PumpCloses \/ PumpSends \/ PumpRefused
DogStep == DogWakes \/ DogCloses \/ DogRefused

Next ==
  \/ PumpReceives \/ PumpDisconnects \/ PumpAsks \/ PumpCloses \/ PumpSends \/ PumpRefused
  \/ ReaderEnds
  \/ DogWakes \/ DogAsks \/ DogCloses \/ DogRefused
  \/ BridgeEnds
  \/ ViewerLeaves \/ DisplayDrops
  \/ RightEnds \/ RightReturns \/ JarRevoked
  \/ OtherLocks \/ OtherDone \/ OtherHangs

Spec == Init /\ [][Next]_vars

\* The event loop runs what can run, the timer fires, a lock goes to its
\* waiters in turn, and its other holders return.
Fairness ==
  /\ WF_vars(PumpStep) /\ SF_vars(PumpAsks)
  /\ WF_vars(DogStep) /\ SF_vars(DogAsks)
  /\ WF_vars(BridgeEnds) /\ WF_vars(OtherDone)

FairSpec == Spec /\ Fairness
-----------------------------------------------------------------------------
\* Of a viewer whose right has ended, at most the one message that was being
\* sent then still reaches the display (client_to_upstream, "authorized" before
\* each message).
OneLateMessage == late <= 1

\* Nothing cuts the stream any more: the lock's holder never returns, or the
\* watchdog died of a close that raised.
Unwatched == lock = "hung" \/ "hung" \in {pump, dog} \/ dog = "raised"

\* A stream whose right has ended, with no message to notice it by, is cut, and
\* the display no longer shown, unless the right comes back first
\* (_novnc_revocation_watchdog, "Recheck idle streams as well as traffic").
StreamCut == ~Allowed ~> Allowed \/ ~upstream \/ Unwatched
=============================================================================
