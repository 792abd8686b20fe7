--------------------------- MODULE NovncBridgeProofs ---------------------------
(***************************************************************************)
(* What holds of NovncBridge for every choice of faults.                   *)
(***************************************************************************)
EXTENDS NovncBridge, TLAPS

(***************************************************************************)
(* TypeOK in three parts.                                                  *)
(***************************************************************************)
Flags ==
  /\ right \in BOOLEAN /\ revoked \in BOOLEAN /\ live \in BOOLEAN /\ browser \in BOOLEAN
  /\ bridge \in BOOLEAN /\ upstream \in BOOLEAN /\ viewer \in BOOLEAN

Places ==
  /\ lock \in {"free", "pump", "dog", "other", "hung"}
  /\ pump \in {"receive", "ask", "close", "hung", "refused", "send", "raised", "done"}
  /\ reader \in {"read", "done"}
  /\ dog \in {"sleep", "ask", "close", "hung", "refused", "raised", "done"}

Counted == late \in 0 .. MaxLate

LEMMA Parts == TypeOK <=> Flags /\ Places /\ Counted
BY DEF TypeOK, Flags, Places, Counted

USE DEF vars, session, tasks, Allowed, Pump, Dog

(***************************************************************************)
(* Every action keeps the types.                                           *)
(***************************************************************************)
LEMMA TypeStep ==
  ASSUME TypeOK, [Next]_vars
  PROVE  TypeOK'
<1> SUFFICES ASSUME Flags, Places, Counted  PROVE Flags' /\ Places' /\ Counted'
  BY DEF TypeOK, Flags, Places, Counted
<1>1. CASE PumpReceives
  <2>1. Flags'
    BY <1>1 DEF Flags, PumpReceives, AfterReceipt
  <2>2. Places'
    BY <1>1 DEF Places, PumpReceives, AfterReceipt
  <2>3. Counted'
    BY <1>1 DEF Counted, PumpReceives, AfterReceipt
  <2>. QED
    BY <2>1, <2>2, <2>3
<1>2. CASE PumpDisconnects
  <2>1. Flags'
    BY <1>2 DEF Flags, PumpDisconnects
  <2>2. Places'
    BY <1>2 DEF Places, PumpDisconnects
  <2>3. Counted'
    BY <1>2 DEF Counted, PumpDisconnects
  <2>. QED
    BY <2>1, <2>2, <2>3
<1>3. CASE PumpAsks
  <2>1. Flags'
    BY <1>3 DEF Flags, PumpAsks, Asks
  <2>2. Places'
    BY <1>3 DEF Places, PumpAsks, Asks
  <2>3. Counted'
    BY <1>3 DEF Counted, PumpAsks, Asks
  <2>. QED
    BY <2>1, <2>2, <2>3
<1>4. CASE PumpCloses
  <2>1. Flags'
    BY <1>4 DEF Flags, PumpCloses, Closes
  <2>2. Places'
    BY <1>4 DEF Places, PumpCloses, Closes
  <2>3. Counted'
    BY <1>4 DEF Counted, PumpCloses, Closes
  <2>. QED
    BY <2>1, <2>2, <2>3
<1>5. CASE PumpSends
  <2>1. Flags'
    BY <1>5 DEF Flags, PumpSends
  <2>2. Places'
    BY <1>5 DEF Places, PumpSends
  <2>3. Counted'
    BY <1>5, NovncAssumption DEF Counted, PumpSends
  <2>. QED
    BY <2>1, <2>2, <2>3
<1>6. CASE PumpRefused
  <2>1. Flags'
    BY <1>6 DEF Flags, PumpRefused
  <2>2. Places'
    BY <1>6 DEF Places, PumpRefused
  <2>3. Counted'
    BY <1>6 DEF Counted, PumpRefused
  <2>. QED
    BY <2>1, <2>2, <2>3
<1>7. CASE ReaderEnds
  <2>1. Flags'
    BY <1>7 DEF Flags, ReaderEnds
  <2>2. Places'
    BY <1>7 DEF Places, ReaderEnds
  <2>3. Counted'
    BY <1>7 DEF Counted, ReaderEnds
  <2>. QED
    BY <2>1, <2>2, <2>3
<1>8. CASE DogWakes
  <2>1. Flags'
    BY <1>8 DEF Flags, DogWakes
  <2>2. Places'
    BY <1>8 DEF Places, DogWakes
  <2>3. Counted'
    BY <1>8 DEF Counted, DogWakes
  <2>. QED
    BY <2>1, <2>2, <2>3
<1>9. CASE DogAsks
  <2>1. Flags'
    BY <1>9 DEF Flags, DogAsks, Asks, AfterCheck
  <2>2. Places'
    BY <1>9 DEF Places, DogAsks, Asks, AfterCheck
  <2>3. Counted'
    BY <1>9 DEF Counted, DogAsks, Asks, AfterCheck
  <2>. QED
    BY <2>1, <2>2, <2>3
<1>10. CASE DogCloses
  <2>1. Flags'
    BY <1>10 DEF Flags, DogCloses, Closes
  <2>2. Places'
    BY <1>10 DEF Places, DogCloses, Closes
  <2>3. Counted'
    BY <1>10 DEF Counted, DogCloses, Closes
  <2>. QED
    BY <2>1, <2>2, <2>3
<1>11. CASE DogRefused
  <2>1. Flags'
    BY <1>11 DEF Flags, DogRefused
  <2>2. Places'
    BY <1>11 DEF Places, DogRefused
  <2>3. Counted'
    BY <1>11 DEF Counted, DogRefused
  <2>. QED
    BY <2>1, <2>2, <2>3
<1>12. CASE BridgeEnds
  <2>1. Flags'
    BY <1>12 DEF Flags, BridgeEnds
  <2>2. Places'
    BY <1>12 DEF Places, BridgeEnds
  <2>3. Counted'
    BY <1>12 DEF Counted, BridgeEnds
  <2>. QED
    BY <2>1, <2>2, <2>3
<1>13. CASE ViewerLeaves
  <2>1. Flags'
    BY <1>13 DEF Flags, ViewerLeaves
  <2>2. Places'
    BY <1>13 DEF Places, ViewerLeaves
  <2>3. Counted'
    BY <1>13 DEF Counted, ViewerLeaves
  <2>. QED
    BY <2>1, <2>2, <2>3
<1>17. CASE DisplayDrops
  <2>1. Flags'
    BY <1>17 DEF Flags, DisplayDrops
  <2>2. Places'
    BY <1>17 DEF Places, DisplayDrops
  <2>3. Counted'
    BY <1>17 DEF Counted, DisplayDrops
  <2>. QED
    BY <2>1, <2>2, <2>3
<1>14. CASE RightEnds \/ RightReturns \/ JarRevoked
  <2>1. Flags'
    BY <1>14 DEF Flags, RightEnds, RightReturns, JarRevoked
  <2>2. Places'
    BY <1>14 DEF Places, RightEnds, RightReturns, JarRevoked
  <2>3. Counted'
    BY <1>14, NovncAssumption DEF Counted, RightEnds, RightReturns, JarRevoked
  <2>. QED
    BY <2>1, <2>2, <2>3
<1>15. CASE OtherLocks \/ OtherDone \/ OtherHangs
  <2>1. Flags'
    BY <1>15 DEF Flags, OtherLocks, OtherDone, OtherHangs
  <2>2. Places'
    BY <1>15 DEF Places, OtherLocks, OtherDone, OtherHangs
  <2>3. Counted'
    BY <1>15 DEF Counted, OtherLocks, OtherDone, OtherHangs
  <2>. QED
    BY <2>1, <2>2, <2>3
<1>16. CASE UNCHANGED vars
  <2>1. Flags'
    BY <1>16 DEF Flags
  <2>2. Places'
    BY <1>16 DEF Places
  <2>3. Counted'
    BY <1>16 DEF Counted
  <2>. QED
    BY <2>1, <2>2, <2>3
<1>. QED
  BY <1>1, <1>2, <1>3, <1>4, <1>5, <1>6, <1>7, <1>8, <1>9, <1>10, <1>11, <1>12, <1>13, <1>14,
     <1>15, <1>16, <1>17 DEF Next

(***************************************************************************)
(* The three tasks, the lock and the connections stay in their types.      *)
(***************************************************************************)
THEOREM TypeCorrect == Spec => []TypeOK
<1>1. Init => TypeOK
  <2>1. Init => Flags
    BY DEF Init, Flags
  <2>2. Init => Places /\ Counted
    BY NovncAssumption DEF Init, Places, Counted
  <2>. QED
    BY <2>1, <2>2, Parts
<1>. QED
  BY <1>1, TypeStep, PTL DEF Spec

(***************************************************************************)
(* The message that was authorized before the right ended is not sent      *)
(* twice, and none is authorized after.  The right may come back, unless   *)
(* it was the jar; the count then begins anew.                             *)
(***************************************************************************)
LateInv == late = 0 \/ (late = 1 /\ pump # "send" /\ ~Allowed)

LEMMA LateStep ==
  ASSUME TypeOK, LateInv, [Next]_vars
  PROVE  LateInv'
<1> USE DEF LateInv
\* Sending is entered only by asking, and asking lets only the right pass.
<1>1. CASE PumpAsks
  <2>1. late' = late
    BY <1>1 DEF PumpAsks
  <2>2. pump' = "send" => Allowed /\ Allowed'
    BY <1>1 DEF PumpAsks, Asks
  <2>3. ~Allowed => ~Allowed'
    BY <1>1 DEF PumpAsks, Asks, TypeOK
  <2>. QED
    BY <2>1, <2>2, <2>3
<1>2. CASE PumpSends
  BY <1>2 DEF PumpSends
\* What the other steps of the stream do to the right can only end it.
<1>3. ASSUME ~PumpAsks, ~PumpSends, ~RightReturns  PROVE LateInv'
  <2>1. late' = late /\ (~Allowed => ~Allowed') /\ (pump' = "send" => pump = "send")
    <3>1. CASE PumpReceives \/ PumpDisconnects \/ PumpRefused
      BY <3>1 DEF PumpReceives, PumpDisconnects, PumpRefused, AfterReceipt
    <3>2. CASE PumpCloses
      BY <3>2 DEF PumpCloses, Closes
    <3>3. CASE ReaderEnds \/ DogWakes \/ DogRefused \/ BridgeEnds
      BY <3>3 DEF ReaderEnds, DogWakes, DogRefused, BridgeEnds
    <3>4. CASE DogAsks
      BY <3>4 DEF DogAsks, Asks, TypeOK
    <3>5. CASE DogCloses
      BY <3>5 DEF DogCloses, Closes
    <3>6. CASE ViewerLeaves \/ DisplayDrops \/ RightEnds \/ JarRevoked
      BY <3>6 DEF ViewerLeaves, DisplayDrops, RightEnds, JarRevoked, TypeOK
    <3>7. CASE OtherLocks \/ OtherHangs
      BY <3>7 DEF OtherLocks, OtherHangs
    <3>9. CASE OtherDone
      <4>1. late' = late /\ revoked' = revoked /\ pump' = pump
        BY <3>9 DEF OtherDone
      <4>2. right' = right \/ right' = FALSE
        BY <3>9 DEF OtherDone
      <4>. QED
        BY <4>1, <4>2
    <3>8. CASE UNCHANGED vars
      BY <3>8
    <3>. QED
      BY <1>3, <3>1, <3>2, <3>3, <3>4, <3>5, <3>6, <3>7, <3>8, <3>9 DEF Next
  <2>. QED
    BY <2>1
<1>4. CASE RightReturns
  BY <1>4 DEF RightReturns
<1>. QED
  BY <1>1, <1>2, <1>3, <1>4

(***************************************************************************)
(* Whoever ends the viewer's right, and whichever task notices first, at   *)
(* most one more message reaches the display.                              *)
(***************************************************************************)
THEOREM LateCorrect == Spec => []OneLateMessage
<1>1. Init => LateInv
  BY DEF Init, LateInv
<1>2. LateInv => OneLateMessage
  BY DEF LateInv, OneLateMessage
<1>. QED
  BY <1>1, <1>2, LateStep, TypeCorrect, PTL DEF Spec
=============================================================================
