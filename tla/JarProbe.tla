------------------------------- MODULE JarProbe -------------------------------
(***************************************************************************)
(* Freshness probes of one jar, asked for in any process that shares its   *)
(* volume.  A probe loads the jar, reserves its slot by stamping the       *)
(* record, runs a browser for as long as that takes, and then records a    *)
(* verdict, unless the jar was revoked or refreshed meanwhile.             *)
(*                                                                         *)
(* In one process the load and the reservation run without a suspension;   *)
(* between processes only the store's own operations are atomic, so        *)
(* anything may happen at each step of a probe here.  All processes read   *)
(* the same clock.  A definition followed at once by the one it varies is  *)
(* a mutant (PROJECT.json).                                                *)
(***************************************************************************)
EXTENDS Naturals, Sequences

CONSTANTS
  Prober,        \* probe requests in flight, in any process
  Interval,      \* PROBE_MIN_INTERVAL
  MaxNow,        \* bounds the clock
  MaxGeneration, \* bounds the refreshes
  Faults         \* "crash": a probe dies where it stands

ASSUME ProbeAssumption ==
  /\ Interval \in Nat \ {0} /\ MaxNow \in Nat /\ MaxGeneration \in Nat \ {0}
  /\ Faults \subseteq {"crash"}

VARIABLES
  now,     \* the clock
  record,  \* the jar's metadata; its generation is 0 once it is deleted
  blocked, \* generations up to here are tombstoned
  at,      \* where each probe is
  held,    \* the generation it loaded
  result,  \* what it saw
  started, \* history: the slots reserved, in order
  seen     \* history: generations whose logged-in signal a probe saw

vars == <<now, record, blocked, at, held, result, started, seen>>

Generation == 0 .. MaxGeneration
Never == MaxNow + Interval \* no stamp
Verdict == {"none", "fresh", "stale", "error", "uncertain"}

TypeOK ==
  /\ now \in 0 .. MaxNow
  /\ record \in [generation : Generation, invalidated : BOOLEAN,
                 probed : (0 .. MaxNow) \cup {Never}, verdict : Verdict]
  /\ blocked \in Generation
  /\ at \in [Prober -> {"idle", "loaded", "running", "ran", "checked"}]
  /\ held \in [Prober -> Generation]
  /\ result \in [Prober -> Verdict]
  /\ started \in Seq([generation : Generation, at : 0 .. MaxNow])
  /\ seen \subseteq Generation

Published(g) == [generation |-> g, invalidated |-> FALSE, probed |-> Never, verdict |-> "none"]

Init ==
  /\ now = 0 /\ blocked = 0
  /\ record = Published(1)
  /\ at = [p \in Prober |-> "idle"]
  /\ held = [p \in Prober |-> 0]
  /\ result = [p \in Prober |-> "none"]
  /\ started = <<>> /\ seen = {}
-----------------------------------------------------------------------------
\* is_revoked_generation; a deleted id is blocked whatever its generation.
Revoked(g) == record.generation = 0 \/ g <= blocked

\* probe_allowed_at: nothing stamped, or long enough ago.
RateAllows == record.probed = Never \/ now >= record.probed + Interval

\* load succeeds.
Loadable == record.generation # 0 /\ ~record.invalidated /\ ~Revoked(record.generation)

\* What _probe_candidate makes of a run: whether the browser started, the
\* probe has a target, its navigation failed or was turned away, it ended on
\* the logged-out page, and whether its selector is there ("none": it has
\* none; "failed": it could not be evaluated).
Run == [started : BOOLEAN, target : BOOLEAN, failed : BOOLEAN, away : BOOLEAN,
        loggedOut : BOOLEAN, selector : {"none", "failed", "absent", "present"}]
Classified(r) ==
  IF ~r.started THEN "error"
  ELSE IF ~r.target THEN "uncertain"
  ELSE IF r.failed THEN "error"
  ELSE IF r.away \/ r.loggedOut THEN "stale"
  ELSE [none |-> "uncertain", failed |-> "error",
        absent |-> "stale", present |-> "fresh"][r.selector]

\* The signal itself: the selector is there, in scope, not logged out.
Signal(r) ==
  r.started /\ r.target /\ ~r.failed /\ ~r.away /\ ~r.loggedOut /\ r.selector = "present"

Goes(p, to) == at' = [at EXCEPT ![p] = to]
Ends(p) ==
  /\ Goes(p, "idle")
  /\ held' = [held EXCEPT ![p] = 0]
  /\ result' = [result EXCEPT ![p] = "none"]

\* probe_jar begins: load raises unless the jar may be loaded.
Load(p) ==
  /\ at[p] = "idle" /\ Loadable
  /\ Goes(p, "loaded")
  /\ held' = [held EXCEPT ![p] = record.generation]
  /\ UNCHANGED <<now, record, blocked, result, started, seen>>

\* reserve_probe, one step under the ops lock.  Refused, the call answers.
MayReserve(p) ==
  record.generation = held[p] /\ ~record.invalidated /\ ~Revoked(held[p]) /\ RateAllows
Unstamped == record
Stamped == [record EXCEPT !.probed = now]
Reserve(p) ==
  /\ at[p] = "loaded"
  /\ IF MayReserve(p)
     THEN /\ Goes(p, "running")
          /\ record' = Stamped
          /\ started' = Append(started, [generation |-> held[p], at |-> now])
          /\ UNCHANGED <<held, result>>
     ELSE Ends(p) /\ UNCHANGED <<record, started>>
  /\ UNCHANGED <<now, blocked, seen>>

\* The throwaway browser has run; nothing of it remains but the verdict.
Runs(p) ==
  /\ at[p] = "running"
  /\ Goes(p, "ran")
  /\ \E r \in Run :
       /\ result' = [result EXCEPT ![p] = Classified(r)]
       /\ seen' = IF Signal(r) THEN seen \cup {held[p]} ELSE seen
  /\ UNCHANGED <<now, record, blocked, held, started>>

\* A verdict on a revoked generation is dropped.
Check(p) ==
  /\ at[p] = "ran"
  /\ IF Revoked(held[p]) THEN Ends(p) ELSE Goes(p, "checked") /\ UNCHANGED <<held, result>>
  /\ UNCHANGED <<now, record, blocked, started, seen>>

\* record_probe, one step under the ops lock: on the generation probed only.
\* A record deleted since the check raises.
SameGenerationUnchecked(p) == record.generation # 0
SameGeneration(p) == record.generation # 0 /\ record.generation = held[p]
Record(p) ==
  /\ at[p] = "checked"
  /\ Ends(p)
  /\ record' = IF SameGeneration(p)
               THEN [record EXCEPT !.probed = now, !.verdict = result[p]] ELSE record
  /\ UNCHANGED <<now, blocked, started, seen>>
-----------------------------------------------------------------------------
(* The rest of the store, whoever uses it (JarStore has its steps).        *)

\* A refresh: the old generation is tombstoned and the new one published.  One
\* that fails, or dies, in between leaves the tombstone.
Refreshed(g) == Published(g)
Refresh ==
  /\ record.generation # 0
  /\ LET old == record.generation
         new == (IF old > blocked THEN old ELSE blocked) + 1
     IN /\ new \in Generation
        /\ record' \in {Refreshed(new), record}
        /\ blocked' = IF old > blocked THEN old ELSE blocked
  /\ UNCHANGED <<now, at, held, result, started, seen>>

\* invalidate tombstones the generation, and then marks the record if it can.
Invalidate ==
  /\ record.generation # 0
  /\ blocked' = IF record.generation > blocked THEN record.generation ELSE blocked
  /\ record' \in {[record EXCEPT !.invalidated = TRUE], record}
  /\ UNCHANGED <<now, at, held, result, started, seen>>

Delete ==
  /\ record.generation # 0
  /\ record' = [record EXCEPT !.generation = 0]
  /\ UNCHANGED <<now, blocked, at, held, result, started, seen>>

Crash(p) ==
  /\ "crash" \in Faults /\ at[p] # "idle"
  /\ Ends(p)
  /\ UNCHANGED <<now, record, blocked, started, seen>>

Tick ==
  /\ now < MaxNow
  /\ now' = now + 1
  /\ UNCHANGED <<record, blocked, at, held, result, started, seen>>

Next ==
  \/ \E p \in Prober : Load(p) \/ Reserve(p) \/ Runs(p) \/ Check(p) \/ Record(p) \/ Crash(p)
  \/ Refresh \/ Invalidate \/ Delete \/ Tick

Spec == Init /\ [][Next]_vars
-----------------------------------------------------------------------------
\* However many processes are asked, and whatever a probe in flight writes or
\* fails to write, two authenticated probes of one generation start at least
\* an interval apart (reserve_probe: "a second pod ... will not run a duplicate
\* authenticated freshness navigation").
OneProbePerInterval ==
  \A i, j \in 1 .. Len(started) :
    i < j /\ started[i].generation = started[j].generation =>
      started[j].at >= started[i].at + Interval

\* A jar reads fresh only because a probe saw the logged-in signal of the very
\* generation it now holds: not of a login since replaced, however late the
\* probe of that one answers (record_probe's expected_generation).
FreshIsEarned == record.verdict = "fresh" => record.generation \in seen \cup {0}
=============================================================================
