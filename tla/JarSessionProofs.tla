--------------------------- MODULE JarSessionProofs ---------------------------
(***************************************************************************)
(* What holds of JarSession for every set of origins, every scope, every   *)
(* number of refreshes, and every choice of faults.                        *)
(***************************************************************************)
EXTENDS JarSessionKeepsPromise, TLAPS

USE JarSessionAssumption

(***************************************************************************)
(* The locks a save has still to take, where it is.                        *)
(***************************************************************************)
Needs == {<<>>, <<"jar">>, <<"session">>, <<"jar", "session">>}
Saving == [at : {"locks", "begin", "export", "publish", "evict"}, needs : Needs,
           wants : SUBSET Wide]
SaveOK ==
  /\ save \in {NoSave} \cup Saving
  /\ save.at = "locks" => save.needs \in {<<"session">>, <<"jar", "session">>}

(***************************************************************************)
(* The types, a save's among them: it always knows its next lock.          *)
(***************************************************************************)
Types ==
  /\ record \in [generation : Generation, scope : SUBSET Origin, login : Login]
  /\ blocked \in Generation
  /\ kind \in {"loaded", "source"}
  /\ phase \in {"agent", "human", "ended"}
  /\ gen \in Generation
  /\ scope \subseteq Origin /\ guard \in BOOLEAN
  /\ page \in [at : Origin \cup {Nowhere}, late : BOOLEAN]
  /\ nav \in {NoNav} \cup [to : Origin, under : SUBSET Origin]
  /\ jarLock \in Holder /\ lock \in Holder
  /\ SaveOK
  /\ sweep \in {"idle", "jar", "sweep"}
  /\ revoked \subseteq Login /\ others \in BOOLEAN

(***************************************************************************)
(* What the steps of a save do to it.                                      *)
(***************************************************************************)
LEMMA SaveSteps ==
  ASSUME Types
  PROVE  /\ SaveEnds => SaveOK' /\ lock' \in Holder /\ jarLock' \in Holder
         /\ \A to \in {"export", "publish", "evict"} :
              save # NoSave /\ save.at # "locks" /\ SaveGoes(to) => SaveOK' /\ save'.at = to
<1>1. SaveEnds => SaveOK' /\ lock' \in Holder /\ jarLock' \in Holder
  BY DEF Types, SaveEnds, Release, SaveOK, NoSave, Holder
<1>2. ASSUME NEW to \in {"export", "publish", "evict"}, save # NoSave, SaveGoes(to)
      PROVE  SaveOK' /\ save'.at = to
  <2>1. save \in Saving
    BY <1>2 DEF Types, SaveOK
  <2>2. save' = [save EXCEPT !.at = to]
    BY <1>2 DEF SaveGoes
  <2>. QED
    BY <2>1, <2>2 DEF Saving, SaveOK
<1>. QED
  BY <1>1, <1>2

LEMMA Generations ==
  ASSUME Types
  PROVE  /\ Generation \subseteq Nat /\ 0 \in Generation /\ Seeded \in Generation
         /\ record.generation \in Generation /\ record.login \in Login
         /\ record.scope \subseteq Origin
         /\ Highest(record.generation, blocked) \in Generation
         /\ Highest(record.generation, blocked) >= record.generation
         /\ Highest(record.generation, blocked) >= blocked
         /\ NextGeneration \in Nat /\ NextGeneration # 0
         /\ record.generation # 0 =>
              NextGeneration > record.generation /\ NextGeneration > blocked
<1>1. Generation \subseteq Nat /\ 0 \in Generation /\ Seeded \in Generation
  BY DEF Generation, Seeded
<1>2. /\ record.generation \in Generation /\ record.login \in Login
      /\ record.scope \subseteq Origin /\ blocked \in Generation
  BY DEF Types
<1>3. record.generation \in Nat /\ blocked \in Nat
  BY <1>1, <1>2
<1>. QED
  BY <1>1, <1>2, <1>3 DEF Highest, NextGeneration

(***************************************************************************)
(* Every action keeps the types.                                           *)
(***************************************************************************)
LEMMA TypeStep ==
  ASSUME Types, [Next]_vars
  PROVE  Types'
<1> USE DEF store, browser, session, history
<1> DEFINE Sets == /\ Holder = {"free", "save", "revoke", "command"}
                   /\ NoNav \in {NoNav} \cup [to : Origin, under : SUBSET Origin]
                   /\ Blank \in [at : Origin \cup {Nowhere}, late : BOOLEAN]
<1>a. Sets
  BY DEF Holder, Blank
<1>1. CASE Started
  BY <1>1, <1>a DEF Started, SessionEnds, Types, SaveOK
<1>2. CASE HandsOver
  BY <1>2 DEF HandsOver, Types, SaveOK
<1>3. ASSUME NEW o \in Origin, PageNavigates(o)  PROVE Types'
  <2>1. nav' \in {NoNav} \cup [to : Origin, under : SUBSET Origin]
    BY <1>3 DEF PageNavigates, Requests, Under, Types
  <2>. QED
    BY <1>3, <2>1 DEF PageNavigates, Types, SaveOK
<1>4. ASSUME NEW o \in Origin, CommandStarts(o)  PROVE Types'
  <2>1. /\ nav' \in {NoNav} \cup [to : Origin, under : SUBSET Origin]
        /\ page' \in [at : Origin \cup {Nowhere}, late : BOOLEAN]
        /\ phase' \in {"agent", "human", "ended"}
        /\ lock' \in Holder /\ jarLock' = jarLock
    <3>1. CASE Revoked
      BY <1>4, <1>a, <3>1 DEF CommandStarts, SessionEnds, Types
    <3>2. CASE ~Revoked
      BY <1>4, <1>a, <3>2 DEF CommandStarts, Requests, Under, Types
    <3>. QED
      BY <3>1, <3>2
  <2>. QED
    BY <1>4, <2>1 DEF CommandStarts, Types, SaveOK
<1>5. CASE Arrives
  <2>1. nav \in [to : Origin, under : SUBSET Origin]
    BY <1>5 DEF Arrives, Types
  <2>2. page' \in [at : Origin \cup {Nowhere}, late : BOOLEAN]
    BY <1>5, <2>1 DEF Arrives
  <2>. QED
    BY <1>5, <2>2 DEF Arrives, Types, SaveOK
<1>6. CASE CommandEnds
  BY <1>6, <1>a DEF CommandEnds, Release, Types, SaveOK
<1>7. CASE SaveAsks
  <2>1. PICK w \in SUBSET Wide : save' = [at |-> "locks", needs |-> Locks, wants |-> w]
    BY <1>7 DEF SaveAsks
  <2>2. Locks \in {<<"session">>, <<"jar", "session">>}
    BY DEF Locks
  <2>3. SaveOK'
    BY <2>1, <2>2 DEF SaveOK, Saving, Needs
  <2>. QED
    BY <1>7, <2>3 DEF SaveAsks, Types
<1>8. CASE SaveLocks
  <2>1. save \in Saving /\ save.needs \in {<<"session">>, <<"jar", "session">>}
    BY <1>8 DEF SaveLocks, Types, SaveOK, NoSave
  <2>2. SaveOK'
    <3>1. CASE save.needs = <<"session">>
      <4>1. Tail(save.needs) = <<>>
        BY <3>1
      <4>2. save' = [save EXCEPT !.needs = <<>>, !.at = "begin"]
        BY <1>8, <4>1 DEF SaveLocks
      <4>. QED
        BY <2>1, <4>2 DEF SaveOK, Saving, Needs
    <3>2. CASE save.needs = <<"jar", "session">>
      <4>1. Tail(save.needs) = <<"session">> /\ <<"session">> # <<>>
        BY <3>2
      <4>2. save' = [save EXCEPT !.needs = <<"session">>, !.at = "locks"]
        BY <1>8, <4>1 DEF SaveLocks
      <4>. QED
        BY <2>1, <4>2 DEF SaveOK, Saving, Needs
    <3>. QED
      BY <2>1, <3>1, <3>2
  <2>3. lock' \in Holder /\ jarLock' \in Holder
    BY <1>8, <1>a DEF SaveLocks, Types
  <2>. QED
    BY <1>8, <2>2, <2>3 DEF SaveLocks, Types
<1>9. CASE SaveBegins
  <2>1. save # NoSave /\ save.at # "locks"
    BY <1>9 DEF SaveBegins, NoSave
  <2>2. SaveOK' /\ lock' \in Holder /\ jarLock' \in Holder
    BY <1>9, <2>1, SaveSteps DEF SaveBegins, Types
  <2>3. /\ phase' \in {"agent", "human", "ended"}
        /\ nav' \in {NoNav} \cup [to : Origin, under : SUBSET Origin]
        /\ page' \in [at : Origin \cup {Nowhere}, late : BOOLEAN]
    BY <1>9, <1>a DEF SaveBegins, SessionEnds, Types
  <2>. QED
    BY <1>9, <2>2, <2>3 DEF SaveBegins, Types
<1>10. CASE SaveExported
  <2>1. save # NoSave /\ save.at # "locks"
    BY <1>10 DEF SaveExported, NoSave
  <2>2. SaveOK' /\ lock' \in Holder /\ jarLock' \in Holder
    BY <1>10, <2>1, SaveSteps DEF SaveExported, Types
  <2>3. /\ phase' \in {"agent", "human", "ended"}
        /\ nav' \in {NoNav} \cup [to : Origin, under : SUBSET Origin]
        /\ page' \in [at : Origin \cup {Nowhere}, late : BOOLEAN]
    BY <1>10, <1>a DEF SaveExported, SessionEnds, Types
  <2>. QED
    BY <1>10, <2>2, <2>3 DEF SaveExported, Types
<1>11. CASE SavePublishes
  <2>1. save # NoSave /\ save.at # "locks"
    BY <1>11 DEF SavePublishes, NoSave
  <2>2. SaveOK' /\ lock' \in Holder /\ jarLock' \in Holder
    BY <1>11, <2>1, SaveSteps DEF SavePublishes, Types
  <2>3. save.wants \subseteq Wide
    BY <2>1 DEF Types, SaveOK, Saving
  <2>4. Resolved(save.wants) \subseteq Origin
    BY <2>3, Generations DEF Resolved
  <2>5. NextGeneration \in Generation
    BY <1>11 DEF SavePublishes, Fits
  <2>6. record' \in [generation : Generation, scope : SUBSET Origin, login : Login]
    BY <1>11, <2>4, <2>5 DEF SavePublishes, Login
  <2>7. scope' \subseteq Origin /\ gen' \in Generation /\ blocked' \in Generation
        /\ others' \in BOOLEAN
    BY <1>11, <2>4, <2>5, Generations DEF SavePublishes, AdvancedTo, Types
  <2>. QED
    BY <1>11, <2>2, <2>6, <2>7 DEF SavePublishes, Types
<1>12. CASE SaveRefused
  BY <1>12, SaveSteps DEF SaveRefused, Types
<1>13. CASE SaveFails
  BY <1>13, SaveSteps, Generations DEF SaveFails, Types
<1>14. CASE SaveEvicts
  <2>1. page' \in [at : Origin \cup {Nowhere}, late : BOOLEAN]
    BY <1>14, <1>a DEF SaveEvicts, Types
  <2>. QED
    BY <1>14, <2>1, SaveSteps DEF SaveEvicts, Types
<1>15. CASE RevokeStarts
  BY <1>15 DEF RevokeStarts, Types, SaveOK
<1>16. ASSUME JarRevoked
       PROVE  /\ record' \in [generation : Generation, scope : SUBSET Origin, login : Login]
              /\ blocked' \in Generation /\ revoked' \subseteq Login /\ others' = TRUE
  BY <1>16, Generations DEF JarRevoked, Types
<1>17. CASE RevokeLocks
  BY <1>16, <1>17, <1>a DEF RevokeLocks, Types, SaveOK
<1>18. CASE RevokeSweeps
  BY <1>18, <1>a DEF RevokeSweeps, Release, SessionEnds, Types, SaveOK
<1>19. CASE RemoteRevoke
  BY <1>16, <1>19 DEF RemoteRevoke, Types, SaveOK
<1>20. CASE RemoteRefresh
  <2>1. record' \in [generation : Generation, scope : SUBSET Origin, login : Login]
    BY <1>20, Generations DEF RemoteRefresh, Login
  <2>. QED
    BY <1>20, <2>1, Generations DEF RemoteRefresh, Types, SaveOK
<1>21. CASE UNCHANGED vars
  BY <1>21 DEF vars, Types, SaveOK
<1>. QED
  BY <1>1, <1>2, <1>3, <1>4, <1>5, <1>6, <1>7, <1>8, <1>9, <1>10, <1>11, <1>12, <1>13, <1>14,
     <1>15, <1>17, <1>18, <1>19, <1>20, <1>21 DEF Next

LEMMA TypesHold == Spec => []Types
<1>1. ASSUME Init  PROVE Types
  <2>1. record \in [generation : Generation, scope : SUBSET Origin, login : Login]
        /\ gen \in Generation /\ blocked \in Generation
    BY <1>1 DEF Init, Generation, Seeded, Login
  <2>2. SaveOK
    BY <1>1 DEF Init, SaveOK, NoSave
  <2>. QED
    BY <1>1, <2>1, <2>2 DEF Init, Types, Blank, Holder
<1>. QED
  BY <1>1, TypeStep, PTL DEF Spec

(***************************************************************************)
(* The session, the jar, the locks and the save stay in their types.       *)
(***************************************************************************)
THEOREM TypeCorrect == Spec => []TypeOK
<1>1. ASSUME Types  PROVE TypeOK
  <2>1. Needs \subseteq Seq({"jar", "session"})
    BY DEF Needs
  <2>2. save \in {NoSave} \cup
          [at : {"locks", "begin", "export", "publish", "evict"},
           needs : Seq({"jar", "session"}), wants : SUBSET Wide]
    BY <1>1, <2>1 DEF Types, SaveOK, Saving
  <2>. QED
    BY <1>1, <2>2 DEF Types, TypeOK
<1>. QED
  BY <1>1, TypesHold, PTL
-----------------------------------------------------------------------------
(***************************************************************************)
(* Before its first save a session that logs in has no jar.  After it, the *)
(* generation held is not ahead of the record's, and once the login held   *)
(* was revoked it is under the mark: that is what a save checks.           *)
(***************************************************************************)
LoginInv ==
  /\ gen = 0 => record.generation = 0 /\ blocked = 0 /\ revoked = {}
  /\ record.generation # 0 => gen <= record.generation
  /\ Own \in revoked => RevokedAt(gen)
  /\ RevokedLoginStaysOut

(***************************************************************************)
(* While nobody else revoked or refreshed the login, the session holds the *)
(* record's generation, which is above the mark, and has not ended.        *)
(***************************************************************************)
AloneInv ==
  /\ kind = "loaded" => gen # 0
  /\ ~others =>
       /\ gen # 0 => record.generation = gen /\ gen > blocked
       /\ Starting => gen = Seeded
       /\ sweep # "sweep" /\ phase # "ended"

jarState == <<record, blocked, kind, gen, revoked, others>>

(***************************************************************************)
(* Every other step leaves the store, the generation held and the history  *)
(* alone.                                                                  *)
(***************************************************************************)
LEMMA JarSteps ==
  ASSUME Types, [Next]_vars
  PROVE  \/ UNCHANGED jarState
         \/ SavePublishes \/ SaveFails \/ RemoteRefresh
         \/ JarRevoked /\ UNCHANGED <<kind, gen>>
<1> USE DEF jarState, store, session, history
<1>1. CASE Started \/ HandsOver \/ Arrives \/ CommandEnds
  BY <1>1 DEF Started, HandsOver, Arrives, CommandEnds
<1>2. ASSUME NEW o \in Origin, PageNavigates(o) \/ CommandStarts(o)
      PROVE  UNCHANGED jarState
  BY <1>2 DEF PageNavigates, CommandStarts
<1>3. CASE SaveAsks \/ SaveLocks \/ SaveBegins \/ SaveExported \/ SaveRefused \/ SaveEvicts
  BY <1>3 DEF SaveAsks, SaveLocks, SaveBegins, SaveExported, SaveRefused, SaveEvicts
<1>4. CASE RevokeStarts \/ RevokeSweeps
  BY <1>4 DEF RevokeStarts, RevokeSweeps
<1>5. CASE RevokeLocks
  BY <1>5 DEF RevokeLocks
<1>6. CASE RemoteRevoke
  BY <1>6 DEF RemoteRevoke
<1>7. CASE UNCHANGED vars
  BY <1>7 DEF vars
<1>. QED
  BY <1>1, <1>2, <1>3, <1>4, <1>5, <1>6, <1>7 DEF Next

LEMMA LoginStep ==
  ASSUME Types, LoginInv, [Next]_vars
  PROVE  LoginInv'
<1>1. gen \in Nat /\ blocked \in Nat /\ record.generation \in Nat
  BY Generations DEF Types
<1>2. CASE UNCHANGED jarState
  BY <1>2 DEF jarState, LoginInv, Own, RevokedAt, RevokedLoginStaysOut
\* Publishing is refused to a login that was revoked.
<1>3. CASE SavePublishes
  <2>1. Own \notin revoked
    BY <1>1, <1>3 DEF SavePublishes, StillHeld, LoginInv, RevokedAt
  <2>2. /\ record'.generation = NextGeneration /\ record'.login = Own
        /\ gen' = NextGeneration
    BY <1>3 DEF SavePublishes, Own, AdvancedTo
  <2>3. kind' = kind /\ revoked' = revoked
    BY <1>3 DEF SavePublishes
  <2>4. NextGeneration \in Nat /\ NextGeneration # 0
    BY Generations
  <2>. QED
    BY <2>1, <2>2, <2>3, <2>4 DEF LoginInv, Own, RevokedLoginStaysOut
<1>4. CASE SaveFails
  <2>1. /\ blocked' = Highest(record.generation, blocked) /\ record.generation # 0
        /\ UNCHANGED <<record, kind, gen, revoked>>
    BY <1>4 DEF SaveFails, session
  <2>2. blocked' >= blocked /\ blocked' \in Nat
    BY <2>1, Generations
  <2>. QED
    BY <1>1, <2>1, <2>2 DEF LoginInv, Own, RevokedAt, RevokedLoginStaysOut
\* The mark rises to the record's generation, and so to the one held.
<1>5. CASE JarRevoked /\ UNCHANGED <<kind, gen>>
  <2>1. /\ blocked' = Highest(record.generation, blocked) /\ record.generation # 0
        /\ record'.generation \in {record.generation, 0}
        /\ UNCHANGED <<kind, gen>>
    BY <1>5 DEF JarRevoked, Types
  <2>2. blocked' >= record.generation /\ blocked' \in Nat
    BY <2>1, Generations
  <2>3. gen # 0 /\ gen <= record.generation
    BY <2>1 DEF LoginInv
  <2>4. (RevokedAt(gen))'
    BY <1>1, <2>1, <2>2, <2>3 DEF RevokedAt
  <2>5. RevokedLoginStaysOut'
    BY <1>1, <2>1, <2>2 DEF RevokedLoginStaysOut
  <2>6. record'.generation # 0 => gen' <= record'.generation
    BY <2>1, <2>3
  <2>. QED
    BY <2>1, <2>3, <2>4, <2>5, <2>6 DEF LoginInv
<1>6. CASE RemoteRefresh
  <2>1. /\ record.generation # 0 /\ record'.generation = NextGeneration
        /\ record'.login \notin revoked
        /\ blocked' = Highest(record.generation, blocked)
    BY <1>6 DEF RemoteRefresh
  <2>2. UNCHANGED <<kind, gen, revoked>>
    BY <1>6 DEF RemoteRefresh, session
  <2>3. /\ NextGeneration \in Nat /\ NextGeneration > record.generation
        /\ blocked' \in Nat /\ blocked' >= blocked
    BY <2>1, Generations
  <2>4. gen # 0 /\ gen <= record.generation
    BY <2>1 DEF LoginInv
  <2>5. Own \in revoked => gen <= blocked
    BY <2>1 DEF LoginInv, RevokedAt
  <2>6. Own' = Own
    BY <2>2 DEF Own
  <2>. QED
    BY <1>1, <2>1, <2>2, <2>3, <2>4, <2>5, <2>6 DEF LoginInv, RevokedAt, RevokedLoginStaysOut
<1>. QED
  BY <1>2, <1>3, <1>4, <1>5, <1>6, JarSteps

LEMMA LoginHolds == Spec => [](Types /\ LoginInv)
<1>1. Init => LoginInv
  BY DEF Init, LoginInv, Own, RevokedAt, RevokedLoginStaysOut, Seeded
<1>. QED
  BY <1>1, LoginStep, TypesHold, PTL DEF Spec

(***************************************************************************)
(* No save brings a revoked login back, whoever holds it and however late. *)
(***************************************************************************)
THEOREM LoginCorrect == Spec => []RevokedLoginStaysOut
<1>1. LoginInv => RevokedLoginStaysOut
  BY DEF LoginInv
<1>. QED
  BY <1>1, LoginHolds, PTL
-----------------------------------------------------------------------------
LEMMA AloneStep ==
  ASSUME Types, LoginInv, AloneInv, [Next]_vars
  PROVE  AloneInv'
<1>1. gen \in Nat /\ blocked \in Nat /\ record.generation \in Nat
  BY Generations DEF Types
\* A session that is alone is not revoked, so nothing that looks ends it.
<1>2. ~others => ~Revoked /\ (Starting => ~RevokedAt(Seeded) /\ ~RevokedAt(record.generation))
  BY <1>1 DEF AloneInv, Revoked, RevokedAt, Starting, Seeded
<1>3. ASSUME UNCHANGED <<record, blocked, kind, gen, others>>,
             Starting' => Starting,
             sweep' = "sweep" => sweep = "sweep",
             ~others /\ phase' = "ended" => phase = "ended"
      PROVE  AloneInv'
  BY <1>3 DEF AloneInv, Starting, Seeded
<1>4. CASE Started
  BY <1>2, <1>3, <1>4 DEF Started, store, browser, history, Starting
<1>5. CASE HandsOver
  BY <1>3, <1>5 DEF HandsOver, store, history, Starting
<1>6. ASSUME NEW o \in Origin, PageNavigates(o)  PROVE AloneInv'
  BY <1>3, <1>6 DEF PageNavigates, store, session, history, Starting
<1>7. ASSUME NEW o \in Origin, CommandStarts(o)  PROVE AloneInv'
  BY <1>2, <1>3, <1>7 DEF CommandStarts, store, history, Starting
<1>8. CASE Arrives \/ CommandEnds \/ SaveAsks \/ SaveLocks
  BY <1>3, <1>8 DEF Arrives, CommandEnds, SaveAsks, SaveLocks, store, session, history, Starting
<1>9. CASE SaveBegins
  BY <1>2, <1>3, <1>9 DEF SaveBegins, store, history, Starting
<1>10. CASE SaveExported
  BY <1>2, <1>3, <1>10 DEF SaveExported, store, history, Starting
<1>11. CASE SavePublishes
  <2>1. /\ record'.generation = NextGeneration /\ gen' = NextGeneration
        /\ blocked' = Highest(record.generation, blocked)
        /\ others' = (others \/ Starting)
        /\ UNCHANGED <<kind, phase, guard, sweep>>
    BY <1>11 DEF SavePublishes, AdvancedTo
  <2>2. NextGeneration \in Nat /\ NextGeneration # 0
    BY Generations
  <2>3. NextGeneration > blocked'
    <3>1. CASE record.generation = 0
      <4>1. blocked = 0
        BY <1>11, <3>1 DEF SavePublishes, StillHeld, LoginInv
      <4>. QED
        BY <2>1, <2>2, <3>1, <4>1 DEF Highest
    <3>2. CASE record.generation # 0
      BY <1>1, <2>1, <3>2 DEF Highest, NextGeneration
    <3>. QED
      BY <3>1, <3>2
  <2>. QED
    BY <2>1, <2>2, <2>3 DEF AloneInv, Starting
<1>12. CASE SaveRefused \/ SaveEvicts
  BY <1>3, <1>12 DEF SaveRefused, SaveEvicts, store, session, history, Starting
<1>13. CASE SaveFails
  BY <1>13 DEF SaveFails, session, AloneInv
<1>14. CASE RevokeStarts
  BY <1>3, <1>14 DEF RevokeStarts, store, session, history, Starting
<1>15. CASE RevokeLocks
  <2>1. CASE record.generation = 0
    BY <1>3, <1>15, <2>1 DEF RevokeLocks, store, session, history, Starting
  <2>2. CASE record.generation # 0
    BY <1>15, <2>2 DEF RevokeLocks, JarRevoked, session, AloneInv
  <2>. QED
    BY <2>1, <2>2
\* The sweep follows a revocation of this process.
<1>16. CASE RevokeSweeps
  <2>1. others
    BY <1>16 DEF RevokeSweeps, AloneInv
  <2>. QED
    BY <1>16, <2>1 DEF RevokeSweeps, history, AloneInv
<1>17. CASE RemoteRevoke
  BY <1>17 DEF RemoteRevoke, JarRevoked, session, AloneInv
<1>18. CASE RemoteRefresh
  BY <1>18 DEF RemoteRefresh, session, AloneInv
<1>19. CASE UNCHANGED vars
  BY <1>3, <1>19 DEF vars, store, session, history, Starting
<1>. QED
  BY <1>4, <1>5, <1>6, <1>7, <1>8, <1>9, <1>10, <1>11, <1>12, <1>13, <1>14, <1>15, <1>16, <1>17,
     <1>18, <1>19 DEF Next

(***************************************************************************)
(* A session's own refreshes never end it.                                 *)
(***************************************************************************)
THEOREM OwnRefreshCorrect == Spec => []OwnRefreshKeepsSession
<1>1. Init => LoginInv /\ AloneInv
  BY DEF Init, LoginInv, AloneInv, Own, RevokedAt, RevokedLoginStaysOut, Seeded, Starting
<1>2. AloneInv => OwnRefreshKeepsSession
  BY DEF AloneInv, OwnRefreshKeepsSession
<1>. QED
  BY <1>1, <1>2, LoginStep, AloneStep, TypesHold, PTL DEF Spec
-----------------------------------------------------------------------------
(***************************************************************************)
(* A request is under way only to where it was let go to; a page that has  *)
(* no excuse is in the scope, or about to be evicted by a save that holds  *)
(* the session's lock until it is.                                         *)
(***************************************************************************)
ScopeInv ==
  /\ save.at \in {"begin", "export", "publish", "evict"} => lock = "save"
  /\ Confined /\ nav # NoNav => nav.to \in nav.under
  /\ Confined /\ save.at # "evict" => InScope \/ page.late

LEMMA ScopeStep ==
  ASSUME Types, ScopeInv, [Next]_vars
  PROVE  ScopeInv'
<1> USE DEF ScopeInv, Confined, InScope, store, browser, session
<1>1. CASE Started
  BY <1>1 DEF Started, SessionEnds
<1>2. CASE HandsOver
  BY <1>2 DEF HandsOver
<1>3. ASSUME NEW o \in Origin, Requests(o), Confined
      PROVE  nav' # NoNav => nav'.to \in nav'.under
  BY <1>3 DEF Requests, Admitted, Under
<1>4. ASSUME NEW o \in Origin, PageNavigates(o)  PROVE ScopeInv'
  BY <1>3, <1>4 DEF PageNavigates
<1>5. ASSUME NEW o \in Origin, CommandStarts(o)  PROVE ScopeInv'
  <2>1. CASE Revoked
    BY <1>5, <2>1 DEF CommandStarts, SessionEnds
  <2>2. CASE ~Revoked
    BY <1>3, <1>5, <2>2 DEF CommandStarts
  <2>. QED
    BY <2>1, <2>2
<1>6. CASE Arrives
  <2>1. page' = [at |-> nav.to, late |-> nav.under # scope] /\ nav' = NoNav /\ nav # NoNav
    BY <1>6 DEF Arrives
  <2>2. UNCHANGED <<kind, phase, scope, save, lock>>
    BY <1>6 DEF Arrives
  <2>. QED
    BY <2>1, <2>2
<1>7. CASE CommandEnds
  BY <1>7 DEF CommandEnds, Release
<1>8. CASE SaveAsks
  BY <1>8 DEF SaveAsks, NoSave
\* The session's lock is the last a save takes.
<1>9. CASE SaveLocks
  <2>1. save \in Saving /\ save.needs \in {<<"session">>, <<"jar", "session">>}
    BY <1>9 DEF SaveLocks, Types, SaveOK, NoSave
  <2>2. save'.at \in {"begin", "locks"} /\ (save'.at = "begin" => lock' = "save")
    <3>1. CASE save.needs = <<"session">>
      <4>1. Head(save.needs) = "session" /\ save'.at \in {"begin", "locks"}
        BY <1>9, <2>1, <3>1 DEF SaveLocks, Saving
      <4>. QED
        BY <1>9, <4>1 DEF SaveLocks
    <3>2. CASE save.needs = <<"jar", "session">>
      <4>1. Tail(save.needs) = <<"session">> /\ <<"session">> # <<>>
        BY <3>2
      <4>2. save' = [save EXCEPT !.needs = <<"session">>, !.at = "locks"]
        BY <1>9, <4>1 DEF SaveLocks
      <4>. QED
        BY <2>1, <4>2 DEF Saving
    <3>. QED
      BY <2>1, <3>1, <3>2
  <2>3. save.at = "locks" /\ UNCHANGED <<kind, phase, scope, page, nav>>
    BY <1>9 DEF SaveLocks
  <2>. QED
    BY <2>2, <2>3
<1>10. ASSUME NEW to \in {"export", "publish", "evict"}, save.at \in {"begin", "export", "publish"},
              SaveGoes(to)
       PROVE  save'.at = to
  BY <1>10, SaveSteps DEF NoSave
<1>11. SaveEnds => save'.at = "idle"
  BY DEF SaveEnds, NoSave
<1>12. CASE SaveBegins
  BY <1>10, <1>11, <1>12 DEF SaveBegins, SessionEnds
<1>13. CASE SaveExported
  BY <1>10, <1>11, <1>13 DEF SaveExported, SessionEnds
\* A page the new scope leaves outside is evicted under the same lock.
<1>14. CASE SavePublishes
  <2> DEFINE w == Resolved(save.wants)
  <2>1. /\ save.at = "publish" /\ UNCHANGED <<kind, phase, page, nav>>
        /\ scope' = IF kind = "loaded" THEN w ELSE scope
    BY <1>14 DEF SavePublishes
  <2>2. CASE MustEvict(w)
    <3>1. save'.at = "evict" /\ lock' = lock
      BY <1>10, <1>14, <2>2 DEF SavePublishes
    <3>. QED
      BY <2>1, <3>1
  <2>3. CASE ~MustEvict(w)
    <3>1. save'.at = "idle"
      BY <1>11, <1>14, <2>3 DEF SavePublishes
    <3>2. Confined => page.at \in w
      BY <2>3 DEF MustEvict
    <3>. QED
      BY <2>1, <3>1, <3>2
  <2>. QED
    BY <2>2, <2>3
<1>15. CASE SaveRefused \/ SaveFails
  BY <1>11, <1>15 DEF SaveRefused, SaveFails
<1>16. CASE SaveEvicts
  <2>1. save'.at = "idle" /\ UNCHANGED <<kind, phase, scope>>
    BY <1>11, <1>16 DEF SaveEvicts
  <2>2. \/ page' = Blank /\ nav' = NoNav
        \/ page' = [page EXCEPT !.late = TRUE] /\ nav' = nav
    BY <1>16 DEF SaveEvicts
  <2>3. page \in [at : Origin \cup {Nowhere}, late : BOOLEAN]
    BY DEF Types
  <2>. QED
    BY <2>1, <2>2, <2>3 DEF Blank
<1>17. CASE RevokeStarts \/ RemoteRevoke \/ RemoteRefresh \/ RevokeLocks
  BY <1>17 DEF RevokeStarts, RemoteRevoke, RemoteRefresh, RevokeLocks
<1>18. CASE RevokeSweeps
  BY <1>18 DEF RevokeSweeps, SessionEnds
<1>19. CASE UNCHANGED vars
  BY <1>19 DEF vars
<1>. QED
  BY <1>1, <1>2, <1>4, <1>5, <1>6, <1>7, <1>8, <1>9, <1>12, <1>13, <1>14, <1>15, <1>16, <1>17,
     <1>18, <1>19 DEF Next

(***************************************************************************)
(* A confined page is inside the confinement through every narrowing of    *)
(* the scope, unless it was let go before it and came after.               *)
(***************************************************************************)
THEOREM ScopeCorrect == Spec => []ScopeHolds
<1>1. Init => ScopeInv
  BY DEF Init, ScopeInv, NoSave, Blank, InScope
<1>2. ScopeInv => ScopeHolds
  BY DEF ScopeInv, ScopeHolds
<1>. QED
  BY <1>1, <1>2, ScopeStep, TypesHold, PTL DEF Spec
-----------------------------------------------------------------------------
(***************************************************************************)
(* A session that has ended stays so: it holds nothing any more.           *)
(***************************************************************************)
LEMMA EndedStays ==
  ASSUME [Next]_vars
  PROVE  /\ UNCHANGED kind
         /\ phase = "ended" => phase' = "ended"
<1> USE DEF store, session, browser, history
<1>1. CASE Started \/ HandsOver \/ Arrives \/ CommandEnds
  BY <1>1 DEF Started, HandsOver, Arrives, CommandEnds, SessionEnds
<1>2. ASSUME NEW o \in Origin, PageNavigates(o) \/ CommandStarts(o)
      PROVE  UNCHANGED kind /\ (phase = "ended" => phase' = "ended")
  BY <1>2 DEF PageNavigates, CommandStarts, SessionEnds, Live
<1>3. CASE SaveAsks \/ SaveLocks \/ SaveBegins \/ SaveExported \/ SaveRefused \/ SaveEvicts
  BY <1>3 DEF SaveAsks, SaveLocks, SaveBegins, SaveExported, SaveRefused, SaveEvicts, SessionEnds
<1>4. CASE SavePublishes \/ SaveFails
  BY <1>4 DEF SavePublishes, SaveFails
<1>5. CASE RevokeStarts \/ RevokeLocks \/ RevokeSweeps
  BY <1>5 DEF RevokeStarts, RevokeLocks, RevokeSweeps, SessionEnds
<1>6. CASE RemoteRevoke \/ RemoteRefresh
  BY <1>6 DEF RemoteRevoke, RemoteRefresh
<1>7. CASE UNCHANGED vars
  BY <1>7 DEF vars
<1>. QED
  BY <1>1, <1>2, <1>3, <1>4, <1>5, <1>6, <1>7 DEF Next

(***************************************************************************)
(* When the generation it holds is under the mark, the session is cut off. *)
(***************************************************************************)
LEMMA CutOff ==
  ASSUME RevokedAt(gen)' \/ (gen = 0)'
  PROVE  Held' = "nothing"
BY DEF Held, Revoked

(***************************************************************************)
(* Every step of the session, and every step somebody else takes on its    *)
(* jar, keeps the jar's promise: the refresh that publishes has not been   *)
(* revoked meanwhile, and what others publish or revoke cuts this session  *)
(* off in the same step.                                                   *)
(***************************************************************************)
THEOREM SessionKeepsPromise == Spec => KeepsPromise
<1> USE DEF P!Nobody, P!OnlyPublisher
<1>1. ASSUME Init  PROVE P!Init
  <2>1. offered \in Login \cup {"nothing"} /\ Held \in {"nothing", offered}
    BY <1>1 DEF Init, offered, Held, Own, Revoked, RevokedAt, Seeded, Login
  <2>. QED
    BY <1>1, <2>1 DEF P!Init, Init
<1>2. ASSUME Types, LoginInv, LoginInv', [Next]_vars
      PROVE  [P!Next]_(P!vars)
  <2>1. gen \in Nat /\ blocked \in Nat /\ record.generation \in Nat /\ record.login \in Login
    BY <1>2, Generations DEF Types
  <2>2. Own' = Own /\ Own \in Login
    BY <1>2, EndedStays DEF Own, Login
  \* The session may end, and forgets the login.
  <2>3. CASE UNCHANGED jarState
    <3>1. UNCHANGED <<offered, revoked>> /\ Held' \in {Held, "nothing"}
      BY <1>2, <2>2, <2>3, EndedStays DEF jarState, offered, Held, Revoked, RevokedAt
    <3>2. CASE Held' = Held
      BY <3>1, <3>2 DEF P!vars
    <3>3. CASE Held' = "nothing"
      BY <3>1, <3>3 DEF P!Next, P!Keep, P!Forget
    <3>. QED
      BY <3>1, <3>2, <3>3
  <2>4. CASE SavePublishes
    <3>1. /\ record'.generation = NextGeneration /\ record'.login = Own
          /\ blocked' = Highest(record.generation, blocked) /\ revoked' = revoked
      BY <2>4 DEF SavePublishes, Own
    <3>2. NextGeneration # 0 /\ NextGeneration > blocked'
      <4>1. CASE record.generation # 0
        BY <1>2, <2>1, <3>1, <4>1, Generations DEF Highest
      <4>2. CASE record.generation = 0
        <5>1. blocked = 0
          BY <1>2, <2>4, <4>2 DEF SavePublishes, StillHeld, LoginInv
        <5>. QED
          BY <1>2, <3>1, <4>2, <5>1 DEF Highest, NextGeneration
      <4>. QED
        BY <4>1, <4>2
    <3>3. offered' = Own
      BY <1>2, <3>1, <3>2, <2>1, Generations DEF offered, RevokedAt
    <3>4. Own \notin revoked
      BY <1>2, <3>1, <3>2 DEF LoginInv, RevokedLoginStaysOut
    <3>5. Held' \in {"nothing", Own}
      BY <2>2 DEF Held
    <3>. QED
      BY <2>2, <3>1, <3>3, <3>4, <3>5 DEF P!Next, P!Keep, P!Publish
  \* The mark has moved past the generation it held, and the record has not.
  <2>5. CASE SaveFails
    <3>1. /\ record' = record /\ gen' = gen /\ revoked' = revoked /\ record.generation # 0
          /\ blocked' = Highest(record.generation, blocked)
      BY <2>5 DEF SaveFails, session
    <3>2. record.generation <= blocked' /\ gen <= blocked'
      BY <1>2, <2>1, <3>1, Generations DEF LoginInv, Highest
    <3>3. offered' = "nothing" /\ Held' = "nothing"
      BY <3>1, <3>2, CutOff DEF offered, RevokedAt
    <3>. QED
      BY <3>1, <3>3 DEF P!Next, P!Keep, P!Withdraw
  <2>6. CASE RemoteRefresh
    <3>1. /\ record'.generation = NextGeneration /\ record'.login \in {record.login, "other"}
          /\ record'.login \notin revoked /\ record.generation # 0
          /\ gen' = gen /\ revoked' = revoked
          /\ blocked' = Highest(record.generation, blocked)
      BY <2>6 DEF RemoteRefresh, session
    <3>2. gen <= blocked' /\ NextGeneration # 0 /\ NextGeneration > blocked'
      BY <1>2, <2>1, <3>1, Generations DEF LoginInv, Highest
    <3>3. Held' = "nothing"
      BY <3>1, <3>2, CutOff DEF RevokedAt
    <3>4. offered' = record'.login
      BY <1>2, <2>1, <3>1, <3>2, Generations DEF offered, RevokedAt
    <3>5. record'.login \in Login
      BY <2>1, <3>1 DEF Login
    <3>. QED
      BY <3>1, <3>3, <3>4, <3>5 DEF P!Next, P!Keep, P!Publish
  <2>7. CASE JarRevoked /\ UNCHANGED <<kind, gen>>
    <3>1. /\ record.generation # 0 /\ record'.generation \in {record.generation, 0}
          /\ blocked' = Highest(record.generation, blocked)
          /\ revoked' = revoked \cup {record.login} /\ gen' = gen
      BY <1>2, <2>7 DEF JarRevoked, Types
    <3>2. record.generation <= blocked' /\ gen <= blocked'
      BY <1>2, <2>1, <3>1, Generations DEF LoginInv, Highest
    <3>3. offered' = "nothing" /\ Held' = "nothing"
      BY <3>1, <3>2, CutOff DEF offered, RevokedAt
    <3>4. {offered} \ {"nothing"} \subseteq {record.login}
      BY DEF offered
    <3>. QED
      BY <3>1, <3>3, <3>4 DEF P!Next, P!Keep, P!Revoke
  <2>. QED
    BY <1>2, <2>3, <2>4, <2>5, <2>6, <2>7, JarSteps
<1>. QED
  BY <1>1, <1>2, LoginHolds, PTL DEF Spec, KeepsPromise, P!Spec
=============================================================================
