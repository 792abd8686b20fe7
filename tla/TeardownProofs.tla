---------------------------- MODULE TeardownProofs ----------------------------
(***************************************************************************)
(* What holds of Teardown for every number of sessions and every choice of *)
(* faults.                                                                 *)
(***************************************************************************)
EXTENDS Teardown, TLAPS

USE TeardownAssumption DEF Session

(***************************************************************************)
(* Every action keeps the types; in particular a walking loop is at a      *)
(* session that exists.                                                    *)
(***************************************************************************)
LEMMA TypeStep ==
  ASSUME TypeOK, [Next]_vars
  PROVE  TypeOK'
<1> USE DEF sessions, loops, Loop, Begin, Advance, Stop, EndAndClose, Closed, Release, Serving,
            TypeOK, Phase, Holder, Walking
<1>1. ASSUME NEW fromJar \in BOOLEAN, Create(fromJar)  PROVE TypeOK'
  BY <1>1 DEF Create
<1>2. ASSUME NEW s \in Session, Expires(s)  PROVE TypeOK'
  BY <1>2 DEF Expires
<1>3. ASSUME NEW s \in Session, Command(s)  PROVE TypeOK'
  BY <1>3 DEF Command
<1>4. ASSUME NEW s \in Session, CommandHangs(s)  PROVE TypeOK'
  BY <1>4 DEF CommandHangs
<1>5. ASSUME NEW s \in Session, Close(s)  PROVE TypeOK'
  BY <1>5 DEF Close
<1>6. ASSUME NEW s \in Session, CommandEnds(s)  PROVE TypeOK'
  BY <1>6 DEF CommandEnds
<1>7. ASSUME NEW s \in Session, CloseEnds(s)  PROVE TypeOK'
  BY <1>7 DEF CloseEnds
<1>8. CASE ReaperWakes
  BY <1>8 DEF ReaperWakes
<1>9. CASE Revoke
  BY <1>9 DEF Revoke
<1>10. CASE ShutDown
  BY <1>10 DEF ShutDown
<1>11. ASSUME NEW l \in Loop, Visit(l)  PROVE TypeOK'
  <2>1. at[l] \in Session /\ l \in Holder
    BY <1>11 DEF Visit
  <2>2. live' \in [Session -> BOOLEAN] /\ lock' \in [Session -> Holder]
    <3>1. CASE EndAndClose(at[l], l)
      BY <2>1, <3>1
    <3>2. CASE UNCHANGED <<live, lock>>
      BY <3>2
    <3>. QED
      BY <1>11, <3>1, <3>2 DEF Visit
  <2>3. phase' \in [Loop -> Phase] /\ at' \in [Loop -> Nat \ {0}] /\ upTo' = upTo
    BY <1>11 DEF Visit
  <2>. QED
    BY <1>11, <2>2, <2>3 DEF Visit
<1>12. ASSUME NEW l \in Loop, Cleaned(l)  PROVE TypeOK'
  <2>1. lock' \in [Session -> Holder] /\ browser' \in [Session -> {"none", "running", "gone"}]
    BY <1>12 DEF Cleaned
  <2>. QED
    BY <1>12, <2>1 DEF Cleaned
<1>13. ASSUME NEW l \in Loop, Return(l)  PROVE TypeOK'
  BY <1>13 DEF Return
<1>14. CASE UNCHANGED vars
  BY <1>14 DEF vars
<1>. QED
  BY <1>1, <1>2, <1>3, <1>4, <1>5, <1>6, <1>7, <1>8, <1>9, <1>10, <1>11, <1>12, <1>13,
     <1>14 DEF Next, RequestStep, LoopStep

(***************************************************************************)
(* The registry's sessions, their locks and the loops' positions stay in   *)
(* their types for every number of sessions.                               *)
(***************************************************************************)
THEOREM TypeCorrect == Spec => []TypeOK
<1>1. ASSUME Init  PROVE TypeOK
  <2> USE DEF Init, Phase, Holder, Loop
  <2>1. upTo \in [Loop -> 0 .. MaxSessions] /\ count \in 0 .. MaxSessions
    BY <1>1
  <2>2. phase \in [Loop -> Phase] /\ at \in [Loop -> Nat \ {0}] /\ lock \in [Session -> Holder]
    BY <1>1
  <2>. QED
    BY <1>1, <2>1, <2>2 DEF TypeOK
<1>. QED
  BY <1>1, TypeStep, PTL DEF Spec

(***************************************************************************)
(* Every action keeps OneCleaner.                                          *)
(***************************************************************************)
LEMMA CleanerStep ==
  ASSUME TypeOK, OneCleaner, [Next]_vars
  PROVE  OneCleaner'
<1> USE DEF sessions, loops, Loop, Begin, Advance, Stop, EndAndClose, Closed, Release, Serving,
            TypeOK, Walking, Finished, Holder, OneCleaner, CleaningUp
<1>1. ASSUME NEW fromJar \in BOOLEAN, Create(fromJar)  PROVE OneCleaner'
  BY <1>1 DEF Create
<1>2. ASSUME NEW s \in Session, Expires(s)  PROVE OneCleaner'
  BY <1>2 DEF Expires
<1>3. ASSUME NEW s \in Session, Command(s)  PROVE OneCleaner'
  BY <1>3 DEF Command
<1>4. ASSUME NEW s \in Session, CommandHangs(s)  PROVE OneCleaner'
  BY <1>4 DEF CommandHangs
<1>5. ASSUME NEW s \in Session, Close(s)  PROVE OneCleaner'
  BY <1>5 DEF Close
<1>6. ASSUME NEW s \in Session, CommandEnds(s)  PROVE OneCleaner'
  BY <1>6 DEF CommandEnds
<1>7. ASSUME NEW s \in Session, CloseEnds(s)  PROVE OneCleaner'
  BY <1>7 DEF CloseEnds
<1>8. CASE ReaperWakes
  BY <1>8 DEF ReaperWakes
<1>9. CASE Revoke
  BY <1>9 DEF Revoke
<1>10. CASE ShutDown
  BY <1>10 DEF ShutDown
<1>11. ASSUME NEW l \in Loop, Visit(l)  PROVE OneCleaner'
  BY <1>11 DEF Visit
<1>12. ASSUME NEW l \in Loop, Cleaned(l)  PROVE OneCleaner'
  BY <1>12 DEF Cleaned
<1>13. ASSUME NEW l \in Loop, Return(l)  PROVE OneCleaner'
  BY <1>13 DEF Return
<1>14. CASE UNCHANGED vars
  BY <1>14 DEF vars
<1>. QED
  BY <1>1, <1>2, <1>3, <1>4, <1>5, <1>6, <1>7, <1>8, <1>9, <1>10, <1>11, <1>12, <1>13,
     <1>14 DEF Next, RequestStep, LoopStep

(***************************************************************************)
(* A session's lock is held by the expiry task, the sweep or the shutdown  *)
(* exactly while that loop awaits the session's close: no two of them are  *)
(* in one close.                                                           *)
(***************************************************************************)
THEOREM OneCleanerCorrect == Spec => []OneCleaner
<1>1. Init => OneCleaner
  BY DEF Init, OneCleaner, CleaningUp, Loop
<1>. QED
  BY <1>1, CleanerStep, TypeCorrect, PTL DEF Spec

(***************************************************************************)
(* The strengthening of RevokedNoneLive: what the sweep has passed, and    *)
(* what was registered after its snapshot, is not alive with the jar's     *)
(* state in it.                                                            *)
(***************************************************************************)
RevokeInv ==
  /\ \A s \in Session : live[s] => s <= count
  /\ phase["sweep"] \in {"walking", "cleaning", "done"} =>
       /\ jarRevoked
       /\ \A s \in Session : s < at["sweep"] \/ s > upTo["sweep"] => ~(live[s] /\ jarBacked[s])
  /\ upTo["sweep"] <= count
  /\ phase["sweep"] = "cleaning" =>
       at["sweep"] <= upTo["sweep"] /\ \A s \in Session : s = at["sweep"] => ~live[s]
  /\ phase["sweep"] = "done" => at["sweep"] > upTo["sweep"]

(***************************************************************************)
(* Every action keeps RevokeInv. A session created during the sweep is     *)
(* beyond the snapshot, and the tombstone has refused it the jar.          *)
(***************************************************************************)
LEMMA RevokeStep ==
  ASSUME TypeOK, RevokeInv, [Next]_vars
  PROVE  RevokeInv'
<1> USE DEF sessions, loops, Loop, Begin, Advance, Stop, EndAndClose, Closed, Release, Serving,
            TypeOK, RevokeInv, Walking, Finished, Wanted
<1>1. ASSUME NEW fromJar \in BOOLEAN, Create(fromJar)  PROVE RevokeInv'
  <2>1. count' \in Session /\ count' = count + 1
    BY <1>1 DEF Create
  <2>2. live'[count'] = TRUE /\ jarBacked'[count'] = fromJar /\ (jarRevoked => ~fromJar)
    BY <1>1, <2>1 DEF Create
  <2>3. \A s \in Session \ {count'} : live'[s] = live[s] /\ jarBacked'[s] = jarBacked[s]
    BY <1>1, <2>1 DEF Create
  <2>. QED
    BY <1>1, <2>1, <2>2, <2>3 DEF Create
<1>2. ASSUME NEW s \in Session, Expires(s)  PROVE RevokeInv'
  BY <1>2 DEF Expires
<1>3. ASSUME NEW s \in Session, Command(s)  PROVE RevokeInv'
  BY <1>3 DEF Command
<1>4. ASSUME NEW s \in Session, CommandHangs(s)  PROVE RevokeInv'
  BY <1>4 DEF CommandHangs
<1>5. ASSUME NEW s \in Session, Close(s)  PROVE RevokeInv'
  BY <1>5 DEF Close
<1>6. ASSUME NEW s \in Session, CommandEnds(s)  PROVE RevokeInv'
  BY <1>6 DEF CommandEnds
<1>7. ASSUME NEW s \in Session, CloseEnds(s)  PROVE RevokeInv'
  BY <1>7 DEF CloseEnds
<1>8. CASE ReaperWakes
  BY <1>8 DEF ReaperWakes
<1>9. CASE Revoke
  BY <1>9 DEF Revoke
<1>10. CASE ShutDown
  BY <1>10 DEF ShutDown
<1>11. ASSUME NEW l \in Loop, Visit(l)  PROVE RevokeInv'
  <2>1. at[l] \in Session
    BY <1>11 DEF Visit
  <2>2. \A s \in Session : live'[s] => live[s]
    BY <1>11, <2>1 DEF Visit
  <2>3. CASE l = "sweep" /\ Wanted(l, at[l])
    <3>1. ~live'[at[l]]
      BY <1>11, <2>1, <2>3 DEF Visit
    <3>. QED
      BY <1>11, <2>1, <2>2, <2>3, <3>1 DEF Visit
  <2>4. CASE l = "sweep" /\ ~Wanted(l, at[l])
    BY <1>11, <2>1, <2>2, <2>4 DEF Visit
  <2>5. CASE l # "sweep"
    <3>1. /\ phase'["sweep"] = phase["sweep"] /\ at'["sweep"] = at["sweep"]
          /\ upTo'["sweep"] = upTo["sweep"]
      BY <1>11, <2>5 DEF Visit
    <3>. QED
      BY <1>11, <2>2, <3>1 DEF Visit
  <2>. QED
    BY <2>3, <2>4, <2>5
<1>12. ASSUME NEW l \in Loop, Cleaned(l)  PROVE RevokeInv'
  BY <1>12 DEF Cleaned
<1>13. ASSUME NEW l \in Loop, Return(l)  PROVE RevokeInv'
  BY <1>13 DEF Return
<1>14. CASE UNCHANGED vars
  BY <1>14 DEF vars
<1>. QED
  BY <1>1, <1>2, <1>3, <1>4, <1>5, <1>6, <1>7, <1>8, <1>9, <1>10, <1>11, <1>12, <1>13,
     <1>14 DEF Next, RequestStep, LoopStep

(***************************************************************************)
(* When _close_sessions_for_jar returns, no session of the jar is alive,   *)
(* however requests and the expiry task interleave with it.                *)
(***************************************************************************)
THEOREM RevocationCorrect == Spec => []RevokedNoneLive
<1>1. Init => RevokeInv
  BY DEF Init, RevokeInv, Loop
<1>2. TypeOK /\ RevokeInv => RevokedNoneLive
  BY DEF TypeOK, RevokeInv, RevokedNoneLive, Loop
<1>. QED
  BY <1>1, <1>2, RevokeStep, TypeCorrect, PTL DEF Spec

(***************************************************************************)
(* The strengthening of ShutdownLeavesNothing: nothing is created any      *)
(* more, and what the walk has passed is over and has no browser.          *)
(***************************************************************************)
ShutdownInv ==
  /\ \A s \in Session : s > count => ~live[s] /\ browser[s] # "running"
  /\ ~Serving =>
       /\ upTo["shutdown"] = count
       /\ \A s \in Session : s < at["shutdown"] => ~live[s] /\ browser[s] # "running"
  /\ phase["shutdown"] = "cleaning" => \A s \in Session : s = at["shutdown"] => ~live[s]
  /\ phase["shutdown"] = "done" => at["shutdown"] > upTo["shutdown"]

(***************************************************************************)
(* Every action keeps ShutdownInv.                                         *)
(***************************************************************************)
LEMMA ShutdownStep ==
  ASSUME TypeOK, ShutdownInv, [Next]_vars
  PROVE  ShutdownInv'
<1> USE DEF sessions, loops, Loop, Begin, Advance, Stop, EndAndClose, Closed, Release, Serving,
            TypeOK, ShutdownInv, Walking, Finished, Wanted
<1>1. ASSUME NEW fromJar \in BOOLEAN, Create(fromJar)  PROVE ShutdownInv'
  BY <1>1 DEF Create
<1>2. ASSUME NEW s \in Session, Expires(s)  PROVE ShutdownInv'
  BY <1>2 DEF Expires
<1>3. ASSUME NEW s \in Session, Command(s)  PROVE ShutdownInv'
  BY <1>3 DEF Command
<1>4. ASSUME NEW s \in Session, CommandHangs(s)  PROVE ShutdownInv'
  BY <1>4 DEF CommandHangs
<1>5. ASSUME NEW s \in Session, Close(s)  PROVE ShutdownInv'
  BY <1>5 DEF Close
<1>6. ASSUME NEW s \in Session, CommandEnds(s)  PROVE ShutdownInv'
  BY <1>6 DEF CommandEnds
<1>7. ASSUME NEW s \in Session, CloseEnds(s)  PROVE ShutdownInv'
  <2>1. \A r \in Session : browser'[r] # "running" \/ browser'[r] = browser[r]
    BY <1>7 DEF CloseEnds
  <2>. QED
    BY <1>7, <2>1 DEF CloseEnds
<1>8. CASE ReaperWakes
  BY <1>8 DEF ReaperWakes
<1>9. CASE Revoke
  BY <1>9 DEF Revoke
<1>10. CASE ShutDown
  BY <1>10 DEF ShutDown
<1>11. ASSUME NEW l \in Loop, Visit(l)  PROVE ShutdownInv'
  <2>1. at[l] \in Session
    BY <1>11 DEF Visit
  <2>2. \A s \in Session : live'[s] => live[s]
    BY <1>11, <2>1 DEF Visit
  <2>3. CASE l = "shutdown"
    <3>1. ~live'[at[l]] /\ phase'[l] = "cleaning" /\ at' = at /\ upTo' = upTo
      BY <1>11, <2>1, <2>3 DEF Visit
    <3>. QED
      BY <1>11, <2>1, <2>2, <2>3, <3>1 DEF Visit
  <2>4. CASE l # "shutdown"
    <3>1. /\ phase'["shutdown"] = phase["shutdown"] /\ at'["shutdown"] = at["shutdown"]
          /\ upTo'["shutdown"] = upTo["shutdown"]
      BY <1>11, <2>4 DEF Visit
    <3>. QED
      BY <1>11, <2>2, <3>1 DEF Visit
  <2>. QED
    BY <2>3, <2>4
<1>12. ASSUME NEW l \in Loop, Cleaned(l)  PROVE ShutdownInv'
  <2>1. at[l] \in Nat \ {0}
    BY <1>12
  <2>2. \A s \in Session : browser'[s] # "running" \/ browser'[s] = browser[s]
    BY <1>12, <2>1 DEF Cleaned
  <2>3. CASE l = "shutdown"
    <3>1. CASE Advance(l) /\ Closed(at[l])
      <4>1. at'[l] = at[l] + 1 /\ phase'[l] = "walking" /\ upTo' = upTo
        BY <1>12, <2>3, <3>1
      <4>2. \A s \in Session : s = at[l] => browser'[s] = "gone"
        BY <3>1
      <4>. QED
        BY <1>12, <2>1, <2>2, <2>3, <4>1, <4>2 DEF Cleaned
    <3>2. CASE Stop(l, "dead") /\ UNCHANGED browser
      BY <1>12, <2>3, <3>2 DEF Cleaned
    <3>. QED
      BY <1>12, <3>1, <3>2 DEF Cleaned
  <2>4. CASE l # "shutdown"
    <3>1. /\ phase'["shutdown"] = phase["shutdown"] /\ at'["shutdown"] = at["shutdown"]
          /\ upTo'["shutdown"] = upTo["shutdown"]
      BY <1>12, <2>4 DEF Cleaned
    <3>. QED
      BY <1>12, <2>2, <3>1 DEF Cleaned
  <2>. QED
    BY <2>3, <2>4
<1>13. ASSUME NEW l \in Loop, Return(l)  PROVE ShutdownInv'
  BY <1>13 DEF Return
<1>14. CASE UNCHANGED vars
  BY <1>14 DEF vars
<1>. QED
  BY <1>1, <1>2, <1>3, <1>4, <1>5, <1>6, <1>7, <1>8, <1>9, <1>10, <1>11, <1>12, <1>13,
     <1>14 DEF Next, RequestStep, LoopStep

(***************************************************************************)
(* When the lifespan's exit returns, every session has ended and no        *)
(* browser runs, the one the cancelled expiry task was closing included.   *)
(***************************************************************************)
THEOREM ShutdownCorrect == Spec => []ShutdownLeavesNothing
<1>1. Init => ShutdownInv
  BY DEF Init, ShutdownInv, Serving, Loop
<1>2. TypeOK /\ ShutdownInv => ShutdownLeavesNothing
  BY DEF TypeOK, ShutdownInv, ShutdownLeavesNothing, Serving, Loop
<1>. QED
  BY <1>1, <1>2, ShutdownStep, TypeCorrect, PTL DEF Spec
=============================================================================
