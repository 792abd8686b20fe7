------------------------------- MODULE Teardown -------------------------------
(***************************************************************************)
(* The three loops that end sessions in bulk, over all the sessions of one *)
(* process: the expiry task of main.py, the sweep of a jar's revocation,   *)
(* and the shutdown of the lifespan.  Each takes a snapshot of the         *)
(* registry and visits it in order, waiting for one session's lock at a    *)
(* time and awaiting one worker's close at a time, so a session that is    *)
(* slow, stuck or failing stands in the way of the sessions after it.      *)
(*                                                                         *)
(* A session is what SessionLifecycle makes of it, reduced to whether it   *)
(* is alive, whether it is due, who holds its lock, and its browser;       *)
(* sessions still in worker.start are left to that module.  A definition   *)
(* followed at once by the one it varies is a mutant (PROJECT.json).       *)
(***************************************************************************)
EXTENDS Naturals

CONSTANTS
  MaxSessions, \* sessions ever created: bounds the behaviours
  Faults       \* "close": a worker.close raises.  "hang": a command never returns

ASSUME TeardownAssumption ==
  MaxSessions \in Nat \ {0} /\ Faults \subseteq {"close", "hang"}

\* Sessions are numbered in the order the registry's dict lists them.
Session == 1 .. MaxSessions

VARIABLES
  count,      \* sessions registered so far
  live,       \* the session's state is not terminal
  due,        \* which limit has passed: "no", "idle", "hard"
  lock,       \* the holder of the session's lock
  browser,    \* the session's browser
  jarBacked,  \* seeded from the jar, or produced it
  jarRevoked, \* the jar is tombstoned
  phase,      \* where each loop is
  at,         \* the session it is visiting, of its snapshot
  upTo        \* the last session of its snapshot

sessions == <<count, live, due, lock, browser, jarBacked>>
loops == <<phase, at, upTo>>
vars == <<sessions, jarRevoked, loops>>

\* _expiry_loop, _close_sessions_for_jar, and the exit of lifespan.
Loop == {"reaper", "sweep", "shutdown"}
Phase == {"idle", "walking", "cleaning", "done", "dead"}
Holder == {"free", "request", "closing", "hung"} \cup Loop

TypeOK ==
  /\ count \in 0 .. MaxSessions
  /\ live \in [Session -> BOOLEAN]
  /\ due \in [Session -> {"no", "idle", "hard"}]
  /\ lock \in [Session -> Holder]
  /\ browser \in [Session -> {"none", "running", "gone"}]
  /\ jarBacked \in [Session -> BOOLEAN]
  /\ jarRevoked \in BOOLEAN
  /\ phase \in [Loop -> Phase]
  /\ at \in [Loop -> Nat \ {0}]
  /\ upTo \in [Loop -> 0 .. MaxSessions]

Init ==
  /\ count = 0
  /\ live = [s \in Session |-> FALSE]
  /\ due = [s \in Session |-> "no"]
  /\ lock = [s \in Session |-> "free"]
  /\ browser = [s \in Session |-> "none"]
  /\ jarBacked = [s \in Session |-> FALSE]
  /\ jarRevoked = FALSE
  /\ phase = [l \in Loop |-> "idle"]
  /\ at = [l \in Loop |-> 1]
  /\ upTo = [l \in Loop |-> 0]
-----------------------------------------------------------------------------
(* Helpers.                                                                *)

Walking(l) == phase[l] = "walking" /\ at[l] <= upTo[l]
Finished(l) == phase[l] = "walking" /\ at[l] > upTo[l]
CleaningUp(l, s) == phase[l] = "cleaning" /\ at[l] = s

\* Take the snapshot and start.
Begin(l) ==
  /\ phase' = [phase EXCEPT ![l] = "walking"]
  /\ at' = [at EXCEPT ![l] = 1]
  /\ upTo' = [upTo EXCEPT ![l] = count]

AdvanceNowhere(l) == phase' = [phase EXCEPT ![l] = "walking"] /\ UNCHANGED <<at, upTo>>
Advance(l) ==
  /\ phase' = [phase EXCEPT ![l] = "walking"]
  /\ at' = [at EXCEPT ![l] = at[l] + 1]
  /\ UNCHANGED upTo

Stop(l, how) ==
  /\ phase' = [phase EXCEPT ![l] = how]
  /\ UNCHANGED <<at, upTo>>

\* Take the lock, end session s and suspend in its worker's close.
EndAndCloseUnlocked(s, holder) ==
  /\ live' = [live EXCEPT ![s] = FALSE]
  /\ lock' = [lock EXCEPT ![s] = holder]
EndAndClose(s, holder) ==
  /\ lock[s] = "free"
  /\ live' = [live EXCEPT ![s] = FALSE]
  /\ lock' = [lock EXCEPT ![s] = holder]

Release(s) == lock' = [lock EXCEPT ![s] = "free"]

\* worker.close returned.
Closed(s) == browser' = [browser EXCEPT ![s] = "gone"]

Serving == phase["shutdown"] = "idle"
-----------------------------------------------------------------------------
(* Requests on one session.                                                *)

Create(fromJar) ==
  /\ Serving /\ count < MaxSessions
  /\ fromJar => ~jarRevoked
  /\ count' = count + 1
  /\ live' = [live EXCEPT ![count'] = TRUE]
  /\ browser' = [browser EXCEPT ![count'] = "running"]
  /\ jarBacked' = [jarBacked EXCEPT ![count'] = fromJar]
  /\ UNCHANGED <<due, lock, jarRevoked, loops>>

\* The clocks: idle_expires_at passes, or expires_at does.
Expires(s) ==
  /\ live[s]
  /\ \/ due[s] = "no" /\ due' = [due EXCEPT ![s] = "idle"]
     \/ due[s] # "hard" /\ due' = [due EXCEPT ![s] = "hard"]
  /\ UNCHANGED <<count, live, lock, browser, jarBacked, jarRevoked, loops>>

\* A command of the agent, of a session that is not due.
Command(s) ==
  /\ Serving
  /\ live[s] /\ due[s] = "no" /\ lock[s] = "free"
  /\ lock' = [lock EXCEPT ![s] = "request"]
  /\ UNCHANGED <<count, live, due, browser, jarBacked, jarRevoked, loops>>

\* It returns and restarts the idle clock, also one that ran out meanwhile;
\* it raises and does not; or it never returns.
CommandEnds(s) ==
  /\ lock[s] = "request"
  /\ Release(s)
  /\ due' \in {due, [due EXCEPT ![s] = IF @ = "idle" THEN "no" ELSE @]}
  /\ UNCHANGED <<count, live, browser, jarBacked, jarRevoked, loops>>

CommandHangs(s) ==
  /\ "hang" \in Faults
  /\ lock[s] = "request"
  /\ lock' = [lock EXCEPT ![s] = "hung"]
  /\ UNCHANGED <<count, live, due, browser, jarBacked, jarRevoked, loops>>

\* Any request that ends the session (close, human_complete, human_cancel).
Close(s) ==
  /\ Serving /\ s <= count
  /\ EndAndClose(s, "closing")
  /\ UNCHANGED <<count, due, browser, jarBacked, jarRevoked, loops>>

CloseEnds(s) ==
  /\ lock[s] = "closing"
  /\ Release(s)
  /\ \/ Closed(s)
     \/ "close" \in Faults /\ UNCHANGED browser
  /\ UNCHANGED <<count, live, due, jarBacked, jarRevoked, loops>>
-----------------------------------------------------------------------------
(* The loops.                                                              *)

ReaperWakes ==
  /\ phase["reaper"] = "idle" /\ Serving
  /\ Begin("reaper")
  /\ UNCHANGED <<sessions, jarRevoked>>

\* invalidate_jar, delete_jar: tombstone, then sweep under the jar's lock.
Revoke ==
  /\ Serving /\ phase["sweep"] \notin {"walking", "cleaning"}
  /\ jarRevoked' = TRUE
  /\ Begin("sweep")
  /\ UNCHANGED sessions

\* The server has drained its requests.  reaper.cancel() raises inside the
\* close it may be awaiting: the lock is released, the browser left as it is.
ShutDown ==
  /\ Serving
  /\ \A s \in Session : lock[s] \in {"free", "reaper"}
  /\ phase["sweep"] \notin {"walking", "cleaning"}
  /\ phase' = [phase EXCEPT !["shutdown"] = "walking", !["reaper"] = "dead"]
  /\ at' = [at EXCEPT !["shutdown"] = 1]
  /\ upTo' = [upTo EXCEPT !["shutdown"] = count]
  /\ lock' = [s \in Session |-> "free"]
  /\ UNCHANGED <<count, live, due, browser, jarBacked, jarRevoked>>

\* Whom the loop tears down, looked at with the lock held.
WantedIdleOnly(l, s) ==
  CASE l = "reaper" -> live[s] /\ due[s] = "idle"
    [] l = "sweep" -> live[s] /\ jarBacked[s]
    [] l = "shutdown" -> TRUE
WantedUnlocked(l, s) ==
  CASE l = "reaper" -> live[s] /\ due[s] # "no"
    [] l = "sweep" -> live[s] /\ jarBacked[s] /\ lock[s] = "free"
    [] l = "shutdown" -> TRUE
WantedLive(l, s) ==
  CASE l = "reaper" -> live[s] /\ due[s] # "no"
    [] l = "sweep" -> live[s] /\ jarBacked[s]
    [] l = "shutdown" -> live[s]
Wanted(l, s) ==
  CASE l = "reaper" -> live[s] /\ due[s] # "no"
    [] l = "sweep" -> live[s] /\ jarBacked[s]
    [] l = "shutdown" -> TRUE

\* The reaper queues for the lock of every session; the sweep passes those it
\* does not want without.
Visit(l) ==
  /\ Walking(l)
  /\ \/ /\ Wanted(l, at[l])
        /\ EndAndClose(at[l], l)
        /\ Stop(l, "cleaning")
     \/ /\ ~Wanted(l, at[l])
        /\ l = "sweep" \/ lock[at[l]] = "free"
        /\ Advance(l)
        /\ UNCHANGED <<live, lock>>
  /\ UNCHANGED <<count, due, browser, jarBacked, jarRevoked>>

\* The close returns and the loop goes on; or it raises, which ends the loop:
\* for the reaper, the task that would have woken again.
Cleaned(l) ==
  /\ phase[l] = "cleaning"
  /\ Release(at[l])
  /\ \/ Closed(at[l]) /\ Advance(l)
     \/ "close" \in Faults /\ Stop(l, "dead") /\ UNCHANGED browser
  /\ UNCHANGED <<count, live, due, jarBacked, jarRevoked>>

\* The reaper goes back to sleep, the others return.
Return(l) ==
  /\ Finished(l)
  /\ Stop(l, IF l = "reaper" THEN "idle" ELSE "done")
  /\ UNCHANGED <<sessions, jarRevoked>>
-----------------------------------------------------------------------------
RequestStep(s) == CommandEnds(s) \/ CloseEnds(s)
LoopStep(l) == Visit(l) \/ Cleaned(l) \/ Return(l)

Next ==
  \/ \E fromJar \in BOOLEAN : Create(fromJar)
  \/ \E s \in Session :
       Expires(s) \/ Command(s) \/ CommandHangs(s) \/ Close(s) \/ RequestStep(s)
  \/ ReaperWakes \/ Revoke \/ ShutDown
  \/ \E l \in Loop : LoopStep(l)

(***************************************************************************)
(* Commands and closes end unless they hang; the loops run, and get a lock *)
(* they queue for (asyncio.Lock is FIFO) although requests keep taking it. *)
(***************************************************************************)
Fairness ==
  /\ \A s \in Session : WF_vars(RequestStep(s))
  /\ WF_vars(ReaperWakes)
  /\ \A l \in Loop : SF_vars(LoopStep(l))

Spec == Init /\ [][Next]_vars
FairSpec == Spec /\ Fairness
-----------------------------------------------------------------------------
(* Safety.                                                                 *)

(***************************************************************************)
(* When the revocation returns, no session of the jar is alive: neither    *)
(* one a request or the reaper held when the sweep came by, nor one that   *)
(* was created while the sweep was under way.                              *)
(***************************************************************************)
RevokedNoneLive ==
  phase["sweep"] = "done" => \A s \in Session : jarBacked[s] => ~live[s]

(***************************************************************************)
(* When the shutdown returns, every session has ended and its browser is   *)
(* gone, also the one whose close the cancelled reaper was awaiting.       *)
(***************************************************************************)
ShutdownLeavesNothing ==
  phase["shutdown"] = "done" =>
    \A s \in Session : ~live[s] /\ browser[s] # "running"

(***************************************************************************)
(* One teardown of a session at a time: no two of the loops and requests   *)
(* are inside the same worker's close.                                     *)
(***************************************************************************)
OneCleaner ==
  \A s \in Session, l \in Loop : CleaningUp(l, s) <=> lock[s] = l
-----------------------------------------------------------------------------
(* Liveness, under Fairness.                                               *)

\* A command that never returns keeps its session's lock, and a close that
\* raises in a loop ends the loop: what a loop owes holds until then.
Stuck(l) == phase[l] = "dead" \/ \E s \in Session : lock[s] = "hung"

(***************************************************************************)
(* A session past its hard limit ends, wherever it stands in the registry  *)
(* and whoever holds the locks before it.                                  *)
(***************************************************************************)
DueSessionsEnd ==
  \A s \in Session :
    (live[s] /\ due[s] = "hard") ~> (~live[s] \/ ~Serving \/ Stuck("reaper"))

(***************************************************************************)
(* A revocation comes to an end.                                           *)
(***************************************************************************)
RevocationReturns ==
  (phase["sweep"] = "walking") ~> (phase["sweep"] = "done" \/ Stuck("sweep"))
=============================================================================
