---------------------------- MODULE JarProbeProofs ----------------------------
(***************************************************************************)
(* What holds of JarProbe for every number of probes in flight, every      *)
(* interval, and however long the clock runs and the jar is refreshed.     *)
(***************************************************************************)
EXTENDS JarProbe, SequenceTheorems, TLAPS

USE ProbeAssumption

(***************************************************************************)
(* A run is classified as one of the verdicts, and as fresh only on the    *)
(* logged-in signal.                                                       *)
(***************************************************************************)
LEMMA ClassifiedFits ==
  ASSUME NEW r \in Run
  PROVE  /\ Classified(r) \in Verdict
         /\ Classified(r) = "fresh" => Signal(r)
<1>1. r.selector \in {"none", "failed", "absent", "present"}
  BY DEF Run
<1>2. Classified(r) \in Verdict
  BY <1>1 DEF Classified, Verdict
<1>3. Classified(r) = "fresh" => Signal(r)
  BY <1>1 DEF Classified, Signal
<1>. QED
  BY <1>2, <1>3

(***************************************************************************)
(* A probe that moves, or is over, is still somewhere.                     *)
(***************************************************************************)
LEMMA ProbeMoves ==
  ASSUME TypeOK, NEW p \in Prober
  PROVE  /\ \A to \in {"idle", "loaded", "running", "ran", "checked"} :
              Goes(p, to) =>
                at' \in [Prober -> {"idle", "loaded", "running", "ran", "checked"}]
         /\ Ends(p) => /\ at' \in [Prober -> {"idle", "loaded", "running", "ran", "checked"}]
                       /\ held' \in [Prober -> Generation]
                       /\ result' \in [Prober -> Verdict]
<1>1. at \in [Prober -> {"idle", "loaded", "running", "ran", "checked"}]
      /\ held \in [Prober -> Generation] /\ result \in [Prober -> Verdict]
  BY DEF TypeOK
<1>2. 0 \in Generation /\ "none" \in Verdict
  BY DEF Generation, Verdict
<1>. QED
  BY <1>1, <1>2 DEF Goes, Ends

(***************************************************************************)
(* Every action keeps the types.                                           *)
(***************************************************************************)
LEMMA TypeStep ==
  ASSUME TypeOK, [Next]_vars
  PROVE  TypeOK'
<1> USE DEF TypeOK
<1>a. record.generation \in Generation /\ record.verdict \in Verdict
      /\ now \in Nat /\ Generation \subseteq Nat /\ 0 \in Generation
  BY DEF Generation
<1>1. ASSUME NEW p \in Prober, Load(p)  PROVE TypeOK'
  <2>1. held' \in [Prober -> Generation]
    BY <1>1, <1>a DEF Load
  <2>. QED
    BY <1>1, <2>1, ProbeMoves DEF Load
<1>2. ASSUME NEW p \in Prober, Reserve(p)  PROVE TypeOK'
  <2>1. CASE MayReserve(p)
    <3>1. started' = Append(started, [generation |-> held[p], at |-> now])
      BY <1>2, <2>1 DEF Reserve
    <3>2. [generation |-> held[p], at |-> now] \in [generation : Generation, at : 0 .. MaxNow]
      OBVIOUS
    <3>3. started' \in Seq([generation : Generation, at : 0 .. MaxNow])
      BY <3>1, <3>2, AppendProperties
    <3>4. record' = [record EXCEPT !.probed = now]
      BY <1>2, <2>1 DEF Reserve, Stamped
    <3>5. record' \in [generation : Generation, invalidated : BOOLEAN,
                       probed : (0 .. MaxNow) \cup {Never}, verdict : Verdict]
      BY <3>4
    <3>6. at' \in [Prober -> {"idle", "loaded", "running", "ran", "checked"}]
      BY <1>2, <2>1, ProbeMoves DEF Reserve
    <3>. QED
      BY <1>2, <2>1, <3>3, <3>5, <3>6 DEF Reserve
  <2>2. CASE ~MayReserve(p)
    BY <1>2, <2>2, ProbeMoves DEF Reserve
  <2>. QED
    BY <2>1, <2>2
<1>3. ASSUME NEW p \in Prober, Runs(p)  PROVE TypeOK'
  <2>1. PICK r \in Run : /\ result' = [result EXCEPT ![p] = Classified(r)]
                         /\ seen' = IF Signal(r) THEN seen \cup {held[p]} ELSE seen
    BY <1>3 DEF Runs
  <2>2. result' \in [Prober -> Verdict]
    BY <2>1, ClassifiedFits
  <2>3. seen' \subseteq Generation
    BY <2>1
  <2>. QED
    BY <1>3, <2>2, <2>3, ProbeMoves DEF Runs
<1>4. ASSUME NEW p \in Prober, Check(p)  PROVE TypeOK'
  BY <1>4, ProbeMoves DEF Check
<1>5. ASSUME NEW p \in Prober, Record(p)  PROVE TypeOK'
  <2>1. record' \in {record, [record EXCEPT !.probed = now, !.verdict = result[p]]}
    BY <1>5 DEF Record
  <2>2. result[p] \in Verdict
    OBVIOUS
  <2>3. record' \in [generation : Generation, invalidated : BOOLEAN,
                     probed : (0 .. MaxNow) \cup {Never}, verdict : Verdict]
    BY <2>1, <2>2
  <2>. QED
    BY <1>5, <2>3, ProbeMoves DEF Record
<1>6. ASSUME NEW p \in Prober, Crash(p)  PROVE TypeOK'
  BY <1>6, ProbeMoves DEF Crash
<1>7. CASE Refresh
  <2>1. PICK new \in Generation : record' \in {Published(new), record}
    BY <1>7 DEF Refresh, Refreshed
  <2>2. Published(new) \in [generation : Generation, invalidated : BOOLEAN,
                            probed : (0 .. MaxNow) \cup {Never}, verdict : Verdict]
    BY DEF Published, Verdict
  <2>3. blocked' \in Generation
    BY <1>7, <1>a DEF Refresh
  <2>. QED
    BY <1>7, <2>1, <2>2, <2>3 DEF Refresh
<1>8. CASE Invalidate
  BY <1>8, <1>a DEF Invalidate
<1>9. CASE Delete
  BY <1>9, <1>a DEF Delete
<1>10. CASE Tick
  BY <1>10 DEF Tick
<1>11. CASE UNCHANGED vars
  BY <1>11 DEF vars
<1>. QED
  BY <1>1, <1>2, <1>3, <1>4, <1>5, <1>6, <1>7, <1>8, <1>9, <1>10, <1>11 DEF Next

(***************************************************************************)
(* The record, the mark and the probes in flight stay in their types.      *)
(***************************************************************************)
THEOREM TypeCorrect == Spec => []TypeOK
<1>1. Init => TypeOK
  BY DEF Init, TypeOK, Published, Verdict, Generation, Never
<1>. QED
  BY <1>1, TypeStep, PTL DEF Spec
-----------------------------------------------------------------------------
(***************************************************************************)
(* The numbers of the model are numbers.                                   *)
(***************************************************************************)
LEMMA Numbers ==
  ASSUME TypeOK
  PROVE  /\ now \in Nat /\ Never \in Nat /\ now < Never /\ blocked \in Nat
         /\ record.generation \in Nat /\ record.probed \in Nat
         /\ \A p \in Prober : held[p] \in Nat
         /\ Len(started) \in Nat
         /\ \A i \in 1 .. Len(started) : started[i].generation \in Nat /\ started[i].at \in Nat
<1>1. Generation \subseteq Nat /\ Never \in Nat /\ now < Never /\ 0 .. MaxNow \subseteq Nat
  BY DEF TypeOK, Generation, Never
<1>2. now \in Nat /\ blocked \in Nat /\ Len(started) \in Nat
  BY <1>1, LenProperties DEF TypeOK
<1>3. record.generation \in Nat /\ record.probed \in Nat
  <2>1. record.generation \in Generation /\ record.probed \in (0 .. MaxNow) \cup {Never}
    BY DEF TypeOK
  <2>. QED
    BY <1>1, <2>1
<1>4. ASSUME NEW p \in Prober  PROVE held[p] \in Nat
  <2>1. held[p] \in Generation
    BY DEF TypeOK
  <2>. QED
    BY <1>1, <2>1
<1>5. ASSUME NEW i \in 1 .. Len(started)
      PROVE  started[i].generation \in Nat /\ started[i].at \in Nat
  <2>1. started[i] \in [generation : Generation, at : 0 .. MaxNow]
    BY ElementOfSeq DEF TypeOK
  <2>. QED
    BY <1>1, <2>1
<1>. QED
  BY <1>1, <1>2, <1>3, <1>4, <1>5

(***************************************************************************)
(* The record remembers every reservation of its generation: its stamp is  *)
(* as late as any of them, whichever of the probes has answered since, and *)
(* no reservation is of a generation still to come.                        *)
(***************************************************************************)
Stamps ==
  /\ record.probed # Never => record.probed <= now
  /\ record.generation # 0 =>
       \A i \in 1 .. Len(started) :
         /\ started[i].generation <= record.generation
         /\ started[i].generation = record.generation =>
              record.probed # Never /\ started[i].at <= record.probed

LEMMA IntervalStep ==
  ASSUME TypeOK, Stamps, OneProbePerInterval, [Next]_vars
  PROVE  Stamps' /\ OneProbePerInterval'
<1> USE Numbers DEF Stamps, OneProbePerInterval, Ends, Goes
<1>1. ASSUME NEW p \in Prober, Reserve(p), MayReserve(p)  PROVE Stamps' /\ OneProbePerInterval'
  <2> DEFINE new == [generation |-> held[p], at |-> now]
  <2>1. /\ started' = Append(started, new) /\ record' = [record EXCEPT !.probed = now]
        /\ now' = now
    BY <1>1 DEF Reserve, Stamped
  <2>2. record.generation = held[p] /\ record.generation # 0
    BY <1>1 DEF MayReserve, Revoked
  <2>3. record.probed = Never \/ now >= record.probed + Interval
    BY <1>1 DEF MayReserve, RateAllows
  <2>4. /\ Len(started') = Len(started) + 1
        /\ \A i \in 1 .. Len(started) : started'[i] = started[i]
        /\ started'[Len(started) + 1] = new
    BY <2>1, AppendProperties DEF TypeOK
  \* An earlier probe of this generation has stamped the record.
  <2>6. ASSUME NEW i \in 1 .. Len(started), started[i].generation = held[p]
        PROVE  now >= started[i].at + Interval
    BY <2>2, <2>3, <2>6
  <2>7. Stamps'
    <3>1. record'.probed = now /\ record'.generation = held[p]
      BY <2>1, <2>2
    <3>2. ASSUME NEW i \in 1 .. Len(started')
          PROVE  /\ started'[i].generation <= held[p]
                 /\ started'[i].generation = held[p] => started'[i].at <= now
      <4>1. CASE i \in 1 .. Len(started)
        BY <2>2, <2>4, <2>6, <4>1
      <4>2. CASE i = Len(started) + 1
        BY <2>4, <4>2
      <4>. QED
        BY <2>4, <4>1, <4>2
    <3>. QED
      BY <2>1, <3>1, <3>2
  <2>8. ASSUME NEW i \in 1 .. Len(started'), NEW j \in 1 .. Len(started'),
               i < j, started'[i].generation = started'[j].generation
        PROVE  started'[j].at >= started'[i].at + Interval
    <3>1. CASE j \in 1 .. Len(started)
      <4>1. i \in 1 .. Len(started)
        BY <2>8, <3>1
      <4>. QED
        BY <2>4, <2>8, <3>1, <4>1
    <3>2. CASE j = Len(started) + 1
      <4>1. i \in 1 .. Len(started)
        BY <2>8, <3>2
      <4>. QED
        BY <2>4, <2>6, <2>8, <3>2, <4>1
    <3>. QED
      BY <2>4, <3>1, <3>2
  <2>. QED
    BY <2>7, <2>8
<1>2. ASSUME NEW p \in Prober, Reserve(p), ~MayReserve(p)  PROVE Stamps' /\ OneProbePerInterval'
  BY <1>2 DEF Reserve
\* A verdict stamps the record again, later.
<1>3. ASSUME NEW p \in Prober, Record(p)  PROVE Stamps' /\ OneProbePerInterval'
  <2>1. started' = started /\ now' = now /\ record'.generation = record.generation
    BY <1>3 DEF Record
  <2>2. record'.probed = record.probed \/ record'.probed = now
    BY <1>3 DEF Record
  <2>3. CASE record'.probed = record.probed
    BY <2>1, <2>3
  <2>4. CASE record'.probed = now
    <3>1. ASSUME NEW i \in 1 .. Len(started), started[i].generation = record.generation,
                 record.generation # 0
          PROVE  started[i].at <= now
      BY <3>1
    <3>. QED
      BY <2>1, <2>4, <3>1
  <2>. QED
    BY <2>2, <2>3, <2>4
<1>4. CASE Refresh
  <2>1. started' = started /\ now' = now
    BY <1>4 DEF Refresh
  <2>2. CASE record' = record
    BY <2>1, <2>2
  <2>3. CASE record' # record
    <3>1. PICK new \in Generation : new > record.generation /\ record' = Published(new)
      BY <1>4, <2>3 DEF Refresh, Refreshed
    <3>2. record.generation # 0
      BY <1>4 DEF Refresh
    <3>3. record'.generation = new /\ record'.probed = Never
      BY <3>1 DEF Published
    <3>4. new \in Nat
      BY DEF Generation
    <3>. QED
      BY <2>1, <3>1, <3>2, <3>3, <3>4
  <2>. QED
    BY <2>2, <2>3
<1>5. CASE Invalidate \/ Delete
  <2>1. /\ started' = started /\ now' = now /\ record'.probed = record.probed
        /\ record'.generation \in {0, record.generation}
    BY <1>5 DEF Invalidate, Delete, TypeOK
  <2>. QED
    BY <2>1
<1>6. CASE Tick
  BY <1>6 DEF Tick
<1>7. ASSUME NEW p \in Prober, Load(p) \/ Runs(p) \/ Check(p) \/ Crash(p)
      PROVE  Stamps' /\ OneProbePerInterval'
  BY <1>7 DEF Load, Runs, Check, Crash
<1>8. CASE UNCHANGED vars
  BY <1>8 DEF vars
<1>. QED
  BY <1>1, <1>2, <1>3, <1>4, <1>5, <1>6, <1>7, <1>8 DEF Next

(***************************************************************************)
(* However many probes there are, two of one generation start at least an  *)
(* interval apart.                                                         *)
(***************************************************************************)
THEOREM IntervalCorrect == Spec => []OneProbePerInterval
<1>1. Init => Stamps /\ OneProbePerInterval
  BY DEF Init, Stamps, OneProbePerInterval, Published
<1>. QED
  BY <1>1, IntervalStep, TypeCorrect, PTL DEF Spec
-----------------------------------------------------------------------------
(***************************************************************************)
(* A probe that will say fresh has seen the signal of what it holds.       *)
(***************************************************************************)
Earned ==
  /\ FreshIsEarned
  /\ \A p \in Prober :
       /\ at[p] \in {"idle", "loaded", "running"} => result[p] = "none"
       /\ result[p] = "fresh" => held[p] \in seen

LEMMA EarnedStep ==
  ASSUME TypeOK, Earned, [Next]_vars
  PROVE  Earned'
<1> USE DEF TypeOK, Earned, FreshIsEarned, Goes, Ends
<1>1. ASSUME NEW p \in Prober, Load(p)  PROVE Earned'
  <2>1. at[p] = "idle"
    BY <1>1 DEF Load
  <2>. QED
    BY <1>1, <2>1 DEF Load
<1>2. ASSUME NEW p \in Prober, Reserve(p)  PROVE Earned'
  BY <1>2 DEF Reserve, Stamped
<1>3. ASSUME NEW p \in Prober, Runs(p)  PROVE Earned'
  <2>1. PICK r \in Run : /\ result' = [result EXCEPT ![p] = Classified(r)]
                         /\ seen' = IF Signal(r) THEN seen \cup {held[p]} ELSE seen
    BY <1>3 DEF Runs
  <2>2. UNCHANGED <<record, held>> /\ at' = [at EXCEPT ![p] = "ran"]
    BY <1>3 DEF Runs
  <2>3. Classified(r) = "fresh" => held[p] \in seen'
    BY <2>1, ClassifiedFits
  <2>4. seen \subseteq seen'
    BY <2>1
  <2>. QED
    BY <2>1, <2>2, <2>3, <2>4
<1>4. ASSUME NEW p \in Prober, Check(p)  PROVE Earned'
  BY <1>4 DEF Check
<1>5. ASSUME NEW p \in Prober, Record(p)  PROVE Earned'
  <2>1. CASE SameGeneration(p)
    BY <1>5, <2>1 DEF Record, SameGeneration
  <2>2. CASE ~SameGeneration(p)
    BY <1>5, <2>2 DEF Record
  <2>. QED
    BY <2>1, <2>2
<1>6. ASSUME NEW p \in Prober, Crash(p)  PROVE Earned'
  BY <1>6 DEF Crash
<1>7. CASE Refresh
  BY <1>7 DEF Refresh, Refreshed, Published
<1>8. CASE Invalidate \/ Delete \/ Tick
  BY <1>8 DEF Invalidate, Delete, Tick
<1>9. CASE UNCHANGED vars
  BY <1>9 DEF vars
<1>. QED
  BY <1>1, <1>2, <1>3, <1>4, <1>5, <1>6, <1>7, <1>8, <1>9 DEF Next

(***************************************************************************)
(* A jar reads fresh only by a signal seen with its present generation.    *)
(***************************************************************************)
THEOREM FreshnessCorrect == Spec => []FreshIsEarned
<1>1. Init => Earned
  BY DEF Init, Earned, FreshIsEarned, Published
<1>2. Earned => FreshIsEarned
  BY DEF Earned
<1>. QED
  BY <1>1, <1>2, EarnedStep, TypeCorrect, PTL DEF Spec
=============================================================================
