--------------------------- MODULE RefIdentityProofs ---------------------------
(***************************************************************************)
(* What holds of RefIdentity for documents of any size, every set of       *)
(* looks, and however many refs are issued.                                *)
(***************************************************************************)
EXTENDS RefIdentity, FiniteSetTheorems, WellFoundedInduction, TLAPS

(***************************************************************************)
(* A bounded set of numbers has a greatest.                                *)
(***************************************************************************)
LEMMA Greatest ==
  ASSUME NEW b \in Nat, NEW S \in SUBSET (0 .. b), S # {}
  PROVE  \E h \in S : \A r \in S : r <= h
<1> DEFINE R == {p \in Nat \X Nat : p[1] < p[2]}
           T == {i \in 0 .. b : b - i \in S}
<1>1. IsWellFoundedOn(R, Nat)
  BY NatLessThanWellFounded DEF OpToRel
<1>2. T \subseteq Nat /\ T # {}
  <2>1. PICK h \in S : h \in 0 .. b
    OBVIOUS
  <2>2. b - h \in 0 .. b /\ b - (b - h) = h
    BY <2>1
  <2>. QED
    BY <2>2
<1>3. PICK x \in T : \A y \in T : <<y, x>> \notin R
  <2> HIDE DEF R, T
  <2>. QED
    BY <1>1, <1>2, WFMin
<1>4. b - x \in S /\ x \in 0 .. b
  OBVIOUS
<1>5. ASSUME NEW r \in S  PROVE r <= b - x
  <2>1. r \in 0 .. b /\ b - r \in 0 .. b /\ b - (b - r) = r
    OBVIOUS
  <2>2. b - r \in T
    BY <2>1
  <2>3. <<b - r, x>> \notin R
    <3> HIDE DEF R, T
    <3>. QED
      BY <1>3, <2>2
  <2>4. ~(b - r < x)
    BY <1>4, <2>1, <2>3
  <2>. QED
    BY <1>4, <2>1, <2>4
<1>. QED
  BY <1>4, <1>5

USE RefAssumption DEF Slot, Ref

(***************************************************************************)
(* The types, without the histories' bounds.                               *)
(***************************************************************************)
LEMMA Elements ==
  ASSUME TypeOK, NEW n \in Here
  PROVE  /\ n \in Slot /\ dom[n] \in Element
         /\ dom[n].kin \in 1 .. MaxMade /\ dom[n].listed \in BOOLEAN /\ dom[n].look \in Look
         /\ dom[n].stamp \in 0 .. MaxRef /\ dom[n].seen \in Look \cup {"none"}
<1>1. n \in Slot /\ dom[n] \in Element
  BY DEF TypeOK, Here
<1>. QED
  BY <1>1 DEF Element

LEMMA GoneIsNone == Gone \notin Element
BY DEF Gone, Element

(***************************************************************************)
(* A walk begins above every number the worker has issued.                 *)
(***************************************************************************)
LEMMA StartsAbove ==
  ASSUME TypeOK, NEW given \in 1 .. MaxRef + 1
  PROVE  Start(given) \in Nat /\ Start(given) >= counter /\ Start(given) >= 1
<1> DEFINE stamps == {dom[n].stamp : n \in Here} \cup {0}
<1>1. stamps \in SUBSET (0 .. MaxRef) /\ stamps # {}
  BY Elements
<1>2. \E h \in stamps : \A r \in stamps : r <= h
  <2> HIDE DEF stamps
  <2>. QED
    BY <1>1, Greatest
<1>3. Highest \in stamps
  BY <1>2 DEF Highest
<1>4. Highest \in Nat
  BY <1>1, <1>3
<1>5. counter \in Nat /\ counter >= 1 /\ given \in Nat
  BY DEF TypeOK
<1>6. \E c \in {given, counter, Highest + 1} : given <= c /\ counter <= c /\ Highest + 1 <= c
  BY <1>4, <1>5
<1>7. /\ Start(given) \in {given, counter, Highest + 1}
      /\ counter <= Start(given)
  BY <1>6 DEF Start
<1>. QED
  BY <1>4, <1>5, <1>7

(***************************************************************************)
(* The numbers issued in a walk are new, differ, and are below the next.   *)
(***************************************************************************)
LEMMA NumbersIssued ==
  ASSUME TypeOK, NEW given \in 1 .. MaxRef + 1
  PROVE  /\ NextRef(given) \in Nat /\ NextRef(given) >= counter
         /\ \A n \in Restamped : /\ Number(given, n) \in Nat
                                 /\ counter <= Number(given, n)
                                 /\ Number(given, n) < NextRef(given)
         /\ \A n, m \in Restamped : Number(given, n) = Number(given, m) => n = m
<1> DEFINE Before(n) == {m \in Restamped : m < n}
<1>1. Restamped \subseteq Slot /\ IsFiniteSet(Restamped)
  <2>1. IsFiniteSet(Slot)
    BY FS_Interval
  <2>2. Restamped \subseteq Slot
    BY DEF Restamped, Listed, Here
  <2>. QED
    BY <2>1, <2>2, FS_Subset
<1>2. Cardinality(Restamped) \in Nat
  BY <1>1, FS_CardinalityType
<1>3. ASSUME NEW n \in Restamped
      PROVE  /\ IsFiniteSet(Before(n)) /\ Cardinality(Before(n)) \in Nat
             /\ Cardinality(Before(n) \cup {n}) = Cardinality(Before(n)) + 1
  <2>1. Before(n) \in SUBSET Restamped
    OBVIOUS
  <2>2. IsFiniteSet(Before(n))
    BY <1>1, <2>1, FS_Subset
  <2>3. n \notin Before(n)
    BY <1>1
  <2> HIDE DEF Before
  <2>. QED
    BY <2>2, <2>3, FS_CardinalityType, FS_AddElement
<1>4. ASSUME NEW n \in Restamped, NEW T \in SUBSET Restamped, Before(n) \cup {n} \subseteq T
      PROVE  Cardinality(Before(n)) < Cardinality(T) /\ Cardinality(T) \in Nat
  <2>1. IsFiniteSet(T)
    BY <1>1, FS_Subset
  <2>2. Cardinality(Before(n) \cup {n}) <= Cardinality(T) /\ Cardinality(T) \in Nat
    BY <1>4, <2>1, FS_Subset, FS_CardinalityType
  <2>3. /\ Cardinality(Before(n)) \in Nat
        /\ Cardinality(Before(n) \cup {n}) = Cardinality(Before(n)) + 1
    BY <1>3
  <2>4. \A a, b, c \in Nat : b = a + 1 /\ b <= c => a < c
    OBVIOUS
  <2>5. Cardinality(Before(n) \cup {n}) \in Nat
    BY <2>3
  <2> HIDE DEF Before
  <2>. QED
    BY <2>2, <2>3, <2>4, <2>5, Zenon
<1>5. ASSUME NEW n \in Restamped
      PROVE  Cardinality(Before(n)) < Cardinality(Restamped)
  <2>1. Before(n) \cup {n} \subseteq Restamped
    OBVIOUS
  <2>. QED
    BY <1>4, <2>1
<1>6. ASSUME NEW n \in Restamped, NEW m \in Restamped, n < m
      PROVE  Cardinality(Before(n)) < Cardinality(Before(m))
  <2>1. \A k \in Before(n) : k \in Restamped /\ k < m
    <3> TAKE k \in Before(n)
    <3>1. k \in Restamped /\ k < n
      OBVIOUS
    <3>2. k \in Int /\ n \in Int /\ m \in Int
      BY <1>1, <3>1
    <3>. QED
      BY <1>6, <3>1, <3>2
  <2>2. Before(n) \cup {n} \subseteq Before(m) /\ Before(m) \in SUBSET Restamped
    BY <1>6, <2>1
  <2>. QED
    BY <1>4, <2>2
<1>7. Start(given) \in Nat /\ Start(given) >= counter /\ counter \in Nat
  BY StartsAbove DEF TypeOK
<1>8. /\ NextRef(given) = Start(given) + Cardinality(Restamped)
      /\ \A n \in Restamped : Number(given, n) = Start(given) + Cardinality(Before(n))
  BY DEF NextRef, Number
<1> HIDE DEF Before
<1>9. ASSUME NEW n \in Restamped, NEW m \in Restamped, Number(given, n) = Number(given, m)
      PROVE  n = m
  <2>1. /\ Number(given, n) = Start(given) + Cardinality(Before(n))
        /\ Number(given, m) = Start(given) + Cardinality(Before(m))
    BY <1>8
  <2>2. Cardinality(Before(n)) \in Nat /\ Cardinality(Before(m)) \in Nat
    BY <1>3
  <2>3. Cardinality(Before(n)) = Cardinality(Before(m))
    <3>1. \A s, a, b \in Nat : s + a = s + b => a = b
      OBVIOUS
    <3>2. Start(given) + Cardinality(Before(n)) = Start(given) + Cardinality(Before(m))
      BY <1>9, <2>1
    <3> HIDE <2>1
    <3>. QED
      BY <1>7, <2>2, <3>1, <3>2, Zenon
  <2>4. n \in Int /\ m \in Int
    BY <1>1
  <2>5. ~(n < m) /\ ~(m < n)
    BY <1>6, <2>2, <2>3
  <2>. QED
    BY <2>4, <2>5
<1>10. ASSUME NEW n \in Restamped
       PROVE  /\ Number(given, n) \in Nat /\ counter <= Number(given, n)
              /\ Number(given, n) < NextRef(given)
  <2>1. Number(given, n) = Start(given) + Cardinality(Before(n))
    BY <1>8
  <2>2. Cardinality(Before(n)) \in Nat /\ Cardinality(Before(n)) < Cardinality(Restamped)
    BY <1>3, <1>5
  <2>. QED
    BY <1>2, <1>7, <1>8, <2>1, <2>2
<1>11. NextRef(given) \in Nat /\ NextRef(given) >= counter
  BY <1>2, <1>7, <1>8
<1>. QED
  BY <1>9, <1>10, <1>11

(***************************************************************************)
(* The stamps.  Those of the document and of every listing are below the   *)
(* counter; elements with one stamp are copies, stamped under one look;    *)
(* and an element that carries a listed ref is a copy of the listed one,   *)
(* stamped under the look it was listed with.                              *)
(***************************************************************************)
Below ==
  /\ \A n \in Here : dom[n].stamp < counter
  /\ \A e \in shown : 0 < e.ref /\ e.ref < counter

Copies ==
  \A n, m \in Here :
    dom[n].stamp = dom[m].stamp /\ dom[n].stamp # 0 =>
      dom[n].kin = dom[m].kin /\ dom[n].seen = dom[m].seen

AsListed ==
  \A e \in shown : \A n \in Here :
    dom[n].stamp = e.ref => dom[n].kin = e.kin /\ dom[n].seen = e.look

StampInv == Below /\ Copies /\ AsListed /\ NeverReissued

LEMMA TypeInit == Init => TypeOK
BY DEF Init, TypeOK, NoTarget

(***************************************************************************)
(* What a walk does to the document.                                       *)
(***************************************************************************)
LEMMA WalkEffect ==
  ASSUME TypeOK, NEW given \in 1 .. MaxRef + 1, Walk(given)
  PROVE  /\ dom' \in [Slot -> Element \cup {Gone}]
         /\ counter' \in 1 .. MaxRef + 1 /\ counter <= counter'
         /\ Here' = Here /\ Restamped \subseteq Listed /\ Listed \subseteq Here
         /\ \A n \in Restamped :
              /\ dom'[n].kin = dom[n].kin /\ dom'[n].seen = dom[n].look
              /\ dom'[n].stamp \in Nat /\ counter <= dom'[n].stamp /\ dom'[n].stamp < counter'
         /\ \A n, m \in Restamped : dom'[n].stamp = dom'[m].stamp => n = m
         /\ \A n \in Here \ Restamped : dom'[n] = dom[n]
<1>1. Restamped \subseteq Listed /\ Listed \subseteq Here /\ Here \subseteq Slot
  BY DEF Restamped, Listed, Here
<1>2. dom' = Walked(given) /\ counter' = NextRef(given) /\ NextRef(given) <= MaxRef + 1
  BY DEF Walk
<1>3. /\ NextRef(given) \in Nat /\ NextRef(given) >= counter
      /\ \A n \in Restamped : /\ Number(given, n) \in Nat
                              /\ counter <= Number(given, n)
                              /\ Number(given, n) < NextRef(given)
      /\ \A n, m \in Restamped : Number(given, n) = Number(given, m) => n = m
  BY NumbersIssued
<1>4. counter \in 1 .. MaxRef + 1
  BY DEF TypeOK
<1>5. counter' \in 1 .. MaxRef + 1 /\ counter <= counter'
  BY <1>2, <1>3, <1>4
<1>6. \A n \in Restamped : Number(given, n) \in 1 .. MaxRef
  BY <1>2, <1>3, <1>4
<1>7. ASSUME NEW n \in Restamped
      PROVE  /\ dom'[n] \in Element
             /\ dom'[n].kin = dom[n].kin /\ dom'[n].seen = dom[n].look
             /\ dom'[n].stamp = Number(given, n)
  <2>1. n \in Slot /\ dom[n] \in Element /\ dom[n].look \in Look
    BY <1>1, Elements
  <2>2. dom'[n] = [dom[n] EXCEPT !.stamp = Number(given, n), !.seen = dom[n].look]
    BY <1>2, <2>1 DEF Walked
  <2>3. Number(given, n) \in 0 .. MaxRef
    BY <1>6
  <2> HIDE DEF Slot, Ref
  <2>. QED
    BY <2>1, <2>2, <2>3 DEF Element
<1>8. ASSUME NEW n \in Slot \ Restamped
      PROVE  dom'[n] = dom[n]
  BY <1>2 DEF Walked
<1>9. dom' \in [Slot -> Element \cup {Gone}]
  <2>1. \A n \in Slot : dom'[n] \in Element \cup {Gone}
    BY <1>7, <1>8 DEF TypeOK
  <2>2. dom' = [n \in Slot |-> dom'[n]]
    BY <1>2 DEF Walked
  <2>. QED
    BY <2>1, <2>2
<1>10. Here' = Here
  <2>1. \A n \in Slot : dom'[n] # Gone <=> dom[n] # Gone
    <3> TAKE n \in Slot
    <3>1. CASE n \in Restamped
      BY <1>1, <1>7, <3>1, GoneIsNone DEF Here
    <3>2. CASE n \notin Restamped
      BY <1>8, <3>2
    <3>. QED
      BY <3>1, <3>2
  <2>. QED
    BY <2>1 DEF Here
<1>11. \A n \in Restamped :
         /\ dom'[n].stamp \in Nat /\ counter <= dom'[n].stamp /\ dom'[n].stamp < counter'
  BY <1>2, <1>3, <1>7
<1>12. \A n, m \in Restamped : dom'[n].stamp = dom'[m].stamp => n = m
  BY <1>3, <1>7
<1>. QED
  BY <1>1, <1>5, <1>7, <1>8, <1>9, <1>10, <1>11, <1>12

(***************************************************************************)
(* Every element a walk lists carries a ref afterwards.                    *)
(***************************************************************************)
LEMMA ListedIsStamped ==
  ASSUME TypeOK, NEW given \in 1 .. MaxRef + 1, Walk(given), NEW n \in Listed
  PROVE  dom'[n].stamp \in 1 .. MaxRef
<1>1. n \in Here /\ n \in Slot /\ dom'[n] \in Element \cup {Gone} /\ Here' = Here
  BY WalkEffect DEF Listed, Here
<1>2. dom'[n] \in Element /\ dom'[n].stamp \in 0 .. MaxRef
  <2>1. dom'[n] # Gone
    BY <1>1 DEF Here
  <2>. QED
    BY <1>1, <2>1 DEF Element
<1>3. dom'[n].stamp # 0
  <2>1. CASE n \in Restamped
    <3>1. counter <= dom'[n].stamp /\ dom'[n].stamp \in Nat /\ counter \in 1 .. MaxRef + 1
      BY <2>1, WalkEffect DEF TypeOK
    <3>. QED
      BY <3>1
  <2>2. CASE n \notin Restamped
    BY <1>1, <2>2, WalkEffect DEF Restamped, Keeps
  <2>. QED
    BY <2>1, <2>2
<1>. QED
  BY <1>2, <1>3

LEMMA ElementKinds ==
  /\ \A kin \in 1 .. MaxMade, look \in Look : Fresh(kin, look) \in Element
  /\ \A e \in Element, look \in Look : [e EXCEPT !.look = look] \in Element
  /\ \A e \in Element : [e EXCEPT !.listed = ~@] \in Element
<1>1. \A kin \in 1 .. MaxMade, look \in Look : Fresh(kin, look) \in Element
  BY DEF Fresh, Element
<1>2. \A e \in Element, look \in Look : [e EXCEPT !.look = look] \in Element
  BY DEF Element
<1>3. ASSUME NEW e \in Element  PROVE [e EXCEPT !.listed = ~@] \in Element
  <2>1. ASSUME NEW b \in BOOLEAN  PROVE [e EXCEPT !.listed = b] \in Element
    BY DEF Element
  <2>2. (~e.listed) \in BOOLEAN
    OBVIOUS
  <2> HIDE DEF Element
  <2>. QED
    BY <2>1, <2>2
<1>. QED
  BY <1>1, <1>2, <1>3

(***************************************************************************)
(* The page's steps keep the types.                                        *)
(***************************************************************************)
LEMMA PageTypes == TypeOK /\ Page => TypeOK'
<1> SUFFICES ASSUME TypeOK, Page PROVE TypeOK'
  OBVIOUS
<1> USE GoneIsNone
<1>1. dom \in [Slot -> Element \cup {Gone}] /\ made \in 0 .. MaxMade
  BY DEF TypeOK
<1>2. ASSUME dom' \in [Slot -> Element \cup {Gone}], made' \in 0 .. MaxMade,
             UNCHANGED <<counter, caller, worker, target, shown, past>>
      PROVE  TypeOK'
  BY <1>2 DEF TypeOK
<1>3. ASSUME NEW looks \in [Slot -> Look], Navigate(looks)
      PROVE  TypeOK'
  <2>1. made' \in 0 .. MaxMade /\ \A n \in Slot : made + n \in 1 .. MaxMade
    BY <1>1, <1>3 DEF Navigate
  <2>2. dom' \in [Slot -> Element \cup {Gone}]
    <3>1. \A n \in Slot : Fresh(made + n, looks[n]) \in Element
      BY <2>1, ElementKinds
    <3>. QED
      BY <1>3, <3>1 DEF Navigate
  <2>. QED
    BY <1>2, <1>3, <2>1, <2>2 DEF Navigate
<1>4. ASSUME NEW n \in Slot, Toggle(n)
      PROVE  TypeOK'
  <2>1. dom[n] \in Element
    BY <1>1, <1>4 DEF Toggle, Here
  <2>2. dom' = [dom EXCEPT ![n] = [dom[n] EXCEPT !.listed = ~@]]
    BY <1>4 DEF Toggle
  <2>3. [dom[n] EXCEPT !.listed = ~@] \in Element
    BY <2>1, ElementKinds
  <2>4. dom' \in [Slot -> Element \cup {Gone}]
    BY <1>1, <2>2, <2>3
  <2>. QED
    BY <1>1, <1>2, <1>4, <2>4 DEF Toggle
<1>5. ASSUME NEW n \in Slot, Remove(n)
      PROVE  TypeOK'
  <2>1. dom' \in [Slot -> Element \cup {Gone}]
    BY <1>1, <1>5 DEF Remove
  <2>. QED
    BY <1>1, <1>2, <1>5, <2>1 DEF Remove
<1>6. ASSUME NEW n \in Slot, NEW look \in Look, Relabel(n, look)
      PROVE  TypeOK'
  <2>1. dom[n] \in Element
    BY <1>1, <1>6 DEF Relabel, Here
  <2>2. dom' = [dom EXCEPT ![n] = [dom[n] EXCEPT !.look = look]]
    BY <1>6 DEF Relabel
  <2>3. [dom[n] EXCEPT !.look = look] \in Element
    BY <2>1, ElementKinds
  <2>4. dom' \in [Slot -> Element \cup {Gone}]
    BY <1>1, <2>2, <2>3
  <2>. QED
    BY <1>1, <1>2, <1>6, <2>4 DEF Relabel
<1>7. ASSUME NEW n \in Slot, NEW look \in Look, Insert(n, look)
      PROVE  TypeOK'
  <2>1. made' \in 1 .. MaxMade
    BY <1>1, <1>7 DEF Insert
  <2>2. Fresh(made', look) \in Element
    BY <2>1, ElementKinds
  <2>3. dom' \in [Slot -> Element \cup {Gone}]
    BY <1>1, <1>7, <2>2 DEF Insert
  <2>. QED
    BY <1>2, <1>7, <2>1, <2>3 DEF Insert
<1>8. ASSUME NEW n \in Slot, NEW m \in Slot, Clone(n, m)
      PROVE  TypeOK'
  <2>1. dom' \in [Slot -> Element \cup {Gone}]
    BY <1>1, <1>8 DEF Clone
  <2>. QED
    BY <1>1, <1>2, <1>8, <2>1 DEF Clone
<1>. QED
  BY <1>3, <1>4, <1>5, <1>6, <1>7, <1>8 DEF Page

LEMMA ServiceTypes == TypeOK /\ Service => TypeOK'
<1> SUFFICES ASSUME TypeOK, Service PROVE TypeOK'
  OBVIOUS
<1>1. 1 \in 1 .. MaxRef + 1 /\ caller \in 1 .. MaxRef + 1
  BY DEF TypeOK
<1>2. ASSUME NEW given \in {1, caller}, Snapshot(given)
      PROVE  TypeOK'
  <2>1. Walk(given) /\ given \in 1 .. MaxRef + 1
    BY <1>1, <1>2 DEF Snapshot
  <2>2. dom' \in [Slot -> Element \cup {Gone}] /\ counter' \in 1 .. MaxRef + 1
    BY <2>1, WalkEffect
  <2>3. \A n \in Listed :
          /\ dom'[n].stamp \in Ref /\ dom[n].kin \in 1 .. MaxMade /\ dom[n].look \in Look
    BY <2>1, ListedIsStamped, Elements DEF Listed
  <2>4. shown' \subseteq [ref : Ref, kin : 1 .. MaxMade, look : Look]
    <3>1. \A n \in Listed :
            [ref |-> dom'[n].stamp, kin |-> dom[n].kin, look |-> dom[n].look]
              \in [ref : Ref, kin : 1 .. MaxMade, look : Look]
      BY <2>3
    <3>. QED
      BY <1>2, <3>1 DEF Snapshot, TypeOK
  <2>. QED
    BY <1>2, <2>2, <2>4 DEF Snapshot, TypeOK
<1>3. ASSUME NEW given \in {1, caller}, PartialSnapshot(given)
      PROVE  TypeOK'
  BY <1>1, <1>3 DEF PartialSnapshot, TypeOK
<1>4. CASE AutofillSnapshot
  BY <1>1, <1>4, WalkEffect DEF AutofillSnapshot, TypeOK
<1>5. CASE NewSession
  <2>1. dom' \in [Slot -> Element \cup {Gone}]
    BY <1>5 DEF NewSession
  <2>2. worker' \in 1 .. MaxWorker /\ counter' \in 1 .. MaxRef + 1
    BY <1>5 DEF NewSession, TypeOK
  <2>3. past' \subseteq Ref
    BY <1>5 DEF NewSession, TypeOK
  <2>. QED
    BY <1>5, <2>1, <2>2, <2>3 DEF NewSession, TypeOK
<1>6. ASSUME NEW r \in Ref, Resolve(r)
      PROVE  TypeOK'
  <2>1. PICK n \in Slot :
          Resolves(r, n) /\ target' = [ref |-> r, kin |-> dom[n].kin, look |-> dom[n].look]
    BY <1>6 DEF Resolve
  <2>2. dom[n].kin \in 1 .. MaxMade /\ dom[n].look \in Look
    BY <2>1, Elements DEF Resolves, Sole, Carriers
  <2>3. target' \in [ref : 0 .. MaxRef, kin : 0 .. MaxMade, look : Look \cup {"none"}]
    BY <2>1, <2>2
  <2>. QED
    BY <1>6, <2>3 DEF Resolve, TypeOK
<1>7. CASE ActionEnds
  BY <1>7 DEF ActionEnds, NoTarget, TypeOK
<1>. QED
  BY <1>2, <1>3, <1>4, <1>5, <1>6, <1>7 DEF Service

(***************************************************************************)
(* TypeOK, for documents of any size and any number of refs.               *)
(***************************************************************************)
THEOREM TypeCorrect == Spec => []TypeOK
<1>1. TypeOK /\ [Next]_vars => TypeOK'
  <2>1. TypeOK /\ UNCHANGED vars => TypeOK'
    BY DEF TypeOK, vars
  <2>. QED
    BY <2>1, PageTypes, ServiceTypes DEF Next
<1>. QED
  BY <1>1, TypeInit, PTL DEF Spec

(***************************************************************************)
(* A walk, when the listings are those of before.                          *)
(***************************************************************************)
LEMMA WalkStamps ==
  ASSUME TypeOK, StampInv, NEW given \in 1 .. MaxRef + 1, Walk(given)
  PROVE  /\ \A n \in Here : dom'[n].stamp < counter'
         /\ \A e \in shown : 0 < e.ref /\ e.ref < counter'
         /\ Copies'
         /\ \A e \in shown : \A n \in Here' :
              dom'[n].stamp = e.ref => dom'[n].kin = e.kin /\ dom'[n].seen = e.look
<1>1. /\ Here' = Here /\ Restamped \subseteq Here
      /\ counter \in Nat /\ counter' \in Nat /\ counter <= counter'
  BY WalkEffect DEF TypeOK
<1>2. \A n \in Restamped :
        /\ dom'[n].kin = dom[n].kin /\ dom'[n].seen = dom[n].look
        /\ dom'[n].stamp \in Nat /\ counter <= dom'[n].stamp /\ dom'[n].stamp < counter'
  BY WalkEffect
<1>3. \A n \in Here \ Restamped :
        dom'[n] = dom[n] /\ dom[n].stamp \in Nat /\ dom[n].stamp < counter
  BY WalkEffect, Elements DEF StampInv, Below
<1>4. \A n \in Here : dom'[n].stamp < counter'
  <2> TAKE n \in Here
  <2>1. CASE n \in Restamped
    BY <1>2, <2>1
  <2>2. CASE n \notin Restamped
    BY <1>1, <1>3, <2>2
  <2>. QED
    BY <2>1, <2>2
<1>5. \A e \in shown : e.ref \in Nat /\ 0 < e.ref /\ e.ref < counter /\ e.ref < counter'
  BY <1>1 DEF TypeOK, StampInv, Below
<1>6. ASSUME NEW n \in Restamped, NEW m \in Here \ Restamped
      PROVE  dom'[n].stamp # dom'[m].stamp
  BY <1>1, <1>2, <1>3
<1>7. Copies'
  <2> SUFFICES ASSUME NEW n \in Here, NEW m \in Here,
                      dom'[n].stamp = dom'[m].stamp, dom'[n].stamp # 0
               PROVE  dom'[n].kin = dom'[m].kin /\ dom'[n].seen = dom'[m].seen
    BY <1>1 DEF Copies
  <2>1. CASE n \in Restamped /\ m \in Restamped
    BY <2>1, WalkEffect
  <2>2. CASE n \notin Restamped /\ m \notin Restamped
    BY <1>3, <2>2 DEF StampInv, Copies
  <2>. QED
    BY <1>6, <2>1, <2>2
<1>8. ASSUME NEW e \in shown, NEW n \in Here, dom'[n].stamp = e.ref
      PROVE  dom'[n].kin = e.kin /\ dom'[n].seen = e.look
  <2>1. n \notin Restamped
    BY <1>1, <1>2, <1>5, <1>8
  <2>. QED
    BY <1>3, <1>8, <2>1 DEF StampInv, AsListed
<1>. QED
  BY <1>1, <1>4, <1>5, <1>7, <1>8

(***************************************************************************)
(* A listed element's entry is what its stamp says, before and after.      *)
(***************************************************************************)
LEMMA EntryAsStamped ==
  ASSUME TypeOK, StampInv, NEW given \in 1 .. MaxRef + 1, Walk(given), NEW n \in Listed
  PROVE  /\ n \in Here /\ dom'[n].kin = dom[n].kin /\ dom'[n].seen = dom[n].look
         /\ dom'[n].stamp # 0
<1>1. n \in Here /\ dom'[n].stamp \in 1 .. MaxRef
  BY ListedIsStamped DEF Listed
<1>2. CASE n \in Restamped
  BY <1>1, <1>2, WalkEffect
<1>3. CASE n \notin Restamped
  BY <1>1, <1>3, WalkEffect DEF Restamped, Keeps, SameLook
<1>. QED
  BY <1>1, <1>2, <1>3

LEMMA SnapshotStamps ==
  ASSUME TypeOK, StampInv, NEW given \in {1, caller}, Snapshot(given)
  PROVE  StampInv'
<1>1. Walk(given) /\ given \in 1 .. MaxRef + 1
  BY DEF Snapshot, TypeOK
<1> DEFINE Entry(n) == [ref |-> dom'[n].stamp, kin |-> dom[n].kin, look |-> dom[n].look]
<1>2. shown' = shown \cup {Entry(n) : n \in Listed}
  BY DEF Snapshot
<1>3. /\ Here' = Here
      /\ \A n \in Here : dom'[n].stamp \in Nat /\ dom'[n].stamp < counter'
      /\ \A e \in shown : 0 < e.ref /\ e.ref < counter'
      /\ Copies'
      /\ \A e \in shown : \A n \in Here :
           dom'[n].stamp = e.ref => dom'[n].kin = e.kin /\ dom'[n].seen = e.look
  <2>1. Here' = Here
    BY <1>1, WalkEffect
  <2>2. \A n \in Here : dom'[n].stamp \in Nat
    <3> TAKE n \in Here
    <3>1. CASE n \in Restamped
      BY <1>1, <3>1, WalkEffect
    <3>2. CASE n \notin Restamped
      BY <1>1, <3>2, WalkEffect, Elements
    <3>. QED
      BY <3>1, <3>2
  <2>. QED
    BY <1>1, <2>1, <2>2, WalkStamps
<1>4. ASSUME NEW n \in Listed
      PROVE  /\ n \in Here /\ dom'[n].kin = Entry(n).kin /\ dom'[n].seen = Entry(n).look
             /\ Entry(n).ref = dom'[n].stamp /\ dom'[n].stamp # 0
  BY <1>1, EntryAsStamped
<1>5. Below'
  <2>1. \A n \in Listed : 0 < Entry(n).ref /\ Entry(n).ref < counter'
    BY <1>3, <1>4
  <2> HIDE DEF Entry
  <2>. QED
    BY <1>2, <1>3, <2>1 DEF Below
<1>6. ASSUME NEW n \in Listed, NEW m \in Here, dom'[m].stamp = Entry(n).ref
      PROVE  dom'[m].kin = Entry(n).kin /\ dom'[m].seen = Entry(n).look
  <2>1. dom'[m].stamp = dom'[n].stamp /\ dom'[m].stamp # 0
    BY <1>4, <1>6
  <2>2. dom'[m].kin = dom'[n].kin /\ dom'[m].seen = dom'[n].seen
    BY <1>3, <1>4, <2>1 DEF Copies
  <2>. QED
    BY <1>4, <2>2
<1> HIDE DEF Entry
<1>7. AsListed'
  BY <1>2, <1>3, <1>6 DEF AsListed
<1>8. NeverReissued'
  <2>1. ASSUME NEW e \in shown', NEW n \in Listed, e.ref = Entry(n).ref
        PROVE  e.kin = Entry(n).kin /\ e.look = Entry(n).look
    <3>1. n \in Here' /\ dom'[n].stamp = e.ref
      BY <1>3, <1>4, <2>1
    <3>2. dom'[n].kin = e.kin /\ dom'[n].seen = e.look
      BY <1>7, <3>1 DEF AsListed
    <3>. QED
      BY <1>4, <3>2
  <2>2. ASSUME NEW e \in shown, NEW f \in shown, e.ref = f.ref
        PROVE  e.kin = f.kin /\ e.look = f.look
    BY <2>2 DEF StampInv, NeverReissued
  <2>3. ASSUME NEW e \in shown', NEW f \in shown', e.ref = f.ref
        PROVE  e.kin = f.kin /\ e.look = f.look
    <3>1. CASE e \in shown /\ f \in shown
      BY <2>2, <2>3, <3>1
    <3>2. CASE f \notin shown
      <4>1. PICK n \in Listed : f = Entry(n)
        BY <1>2, <3>2
      <4>. QED
        BY <2>1, <2>3, <4>1
    <3>3. CASE e \notin shown
      <4>1. PICK n \in Listed : e = Entry(n)
        BY <1>2, <3>3
      <4>. QED
        BY <2>1, <2>3, <4>1
    <3>. QED
      BY <3>1, <3>2, <3>3
  <2>. QED
    BY <2>3 DEF NeverReissued
<1>. QED
  BY <1>3, <1>5, <1>7, <1>8 DEF StampInv

LEMMA ServiceStamps == TypeOK /\ StampInv /\ Service => StampInv'
<1> SUFFICES ASSUME TypeOK, StampInv, Service PROVE StampInv'
  OBVIOUS
<1>1. ASSUME NEW given \in {1, caller}, PartialSnapshot(given)
      PROVE  StampInv'
  BY <1>1 DEF PartialSnapshot, StampInv, Below, Copies, AsListed, NeverReissued, Here
<1>2. CASE AutofillSnapshot
  <2>1. Walk(1) /\ 1 \in 1 .. MaxRef + 1 /\ shown' = shown
    BY <1>2 DEF AutofillSnapshot
  <2>2. Here' = Here
    BY <2>1, WalkEffect
  <2>. QED
    BY <2>1, <2>2, WalkStamps DEF StampInv, Below, AsListed, NeverReissued
<1>3. CASE NewSession
  <2>1. Here' = {} /\ shown' = {}
    BY <1>3 DEF NewSession, Here
  <2>. QED
    BY <2>1 DEF StampInv, Below, Copies, AsListed, NeverReissued
<1>4. ASSUME ActionEnds \/ \E r \in Ref : Resolve(r)
      PROVE  StampInv'
  BY <1>4 DEF ActionEnds, Resolve, StampInv, Below, Copies, AsListed, NeverReissued, Here
<1>. QED
  BY <1>1, <1>2, <1>3, <1>4, SnapshotStamps DEF Service

(***************************************************************************)
(* Whatever the page does, each of its elements is as before but for its   *)
(* look, is a copy of one there was, or carries no stamp.                  *)
(***************************************************************************)
LEMMA PageKeepsStamps ==
  ASSUME TypeOK, Page
  PROVE  /\ UNCHANGED <<counter, shown, target>>
         /\ \A n \in Here' :
              \/ dom'[n].stamp = 0
              \/ \E k \in Here : /\ dom'[n].stamp = dom[k].stamp
                                /\ dom'[n].kin = dom[k].kin /\ dom'[n].seen = dom[k].seen
<1> DEFINE Kept(n) == \/ dom'[n].stamp = 0
                      \/ \E k \in Here : /\ dom'[n].stamp = dom[k].stamp
                                        /\ dom'[n].kin = dom[k].kin
                                        /\ dom'[n].seen = dom[k].seen
<1>1. dom \in [Slot -> Element \cup {Gone}]
  BY DEF TypeOK
<1>2. ASSUME NEW n \in Slot, dom'[n] = dom[n], n \in Here'
      PROVE  Kept(n)
  BY <1>2 DEF Here
<1>3. ASSUME NEW looks \in [Slot -> Look], Navigate(looks)
      PROVE  \A n \in Here' : Kept(n)
  BY <1>3 DEF Navigate, Fresh, Here
<1>4. ASSUME NEW n \in Slot, Toggle(n)
      PROVE  \A m \in Here' : Kept(m)
  <2>1. n \in Here /\ dom[n] \in Element
    BY <1>1, <1>4 DEF Toggle, Here
  <2>2. /\ dom'[n].stamp = dom[n].stamp
        /\ dom'[n].kin = dom[n].kin /\ dom'[n].seen = dom[n].seen
        /\ \A m \in Slot \ {n} : dom'[m] = dom[m]
    BY <1>1, <1>4, <2>1 DEF Toggle, Element
  <2>. QED
    BY <1>2, <2>1, <2>2 DEF Here
<1>5. ASSUME NEW n \in Slot, Remove(n)
      PROVE  \A m \in Here' : Kept(m)
  <2>1. dom'[n] = Gone /\ \A m \in Slot \ {n} : dom'[m] = dom[m]
    BY <1>1, <1>5 DEF Remove
  <2>. QED
    BY <1>2, <2>1 DEF Here
<1>6. ASSUME NEW n \in Slot, NEW look \in Look, Relabel(n, look)
      PROVE  \A m \in Here' : Kept(m)
  <2>1. n \in Here /\ dom[n] \in Element
    BY <1>1, <1>6 DEF Relabel, Here
  <2>2. /\ dom'[n].stamp = dom[n].stamp
        /\ dom'[n].kin = dom[n].kin /\ dom'[n].seen = dom[n].seen
        /\ \A m \in Slot \ {n} : dom'[m] = dom[m]
    BY <1>1, <1>6, <2>1 DEF Relabel, Element
  <2>. QED
    BY <1>2, <2>1, <2>2 DEF Here
<1>7. ASSUME NEW n \in Slot, NEW look \in Look, Insert(n, look)
      PROVE  \A m \in Here' : Kept(m)
  <2>1. dom'[n].stamp = 0 /\ \A m \in Slot \ {n} : dom'[m] = dom[m]
    BY <1>1, <1>7 DEF Insert, Fresh
  <2>. QED
    BY <1>2, <2>1 DEF Here
<1>8. ASSUME NEW n \in Slot, NEW m \in Slot, Clone(n, m)
      PROVE  \A k \in Here' : Kept(k)
  <2>1. /\ n \in Here /\ dom'[m] = dom[n]
        /\ \A k \in Slot \ {m} : dom'[k] = dom[k]
    BY <1>1, <1>8 DEF Clone
  <2>. QED
    BY <1>2, <2>1 DEF Here
<1>9. UNCHANGED <<counter, shown, target>>
  BY DEF Page, Navigate, Toggle, Remove, Relabel, Insert, Clone
<1>10. \A n \in Here' : Kept(n)
  <2> HIDE DEF Kept
  <2>. QED
    BY <1>3, <1>4, <1>5, <1>6, <1>7, <1>8 DEF Page
<1>. QED
  BY <1>9, <1>10

LEMMA PageStamps == TypeOK /\ StampInv /\ Page => StampInv'
<1> SUFFICES ASSUME TypeOK, StampInv, Page PROVE StampInv'
  OBVIOUS
<1>1. counter' = counter /\ shown' = shown /\ counter \in Nat /\ 0 < counter
  BY PageKeepsStamps DEF TypeOK
<1>2. ASSUME NEW n \in Here', dom'[n].stamp # 0
      PROVE  \E k \in Here : /\ dom'[n].stamp = dom[k].stamp
                            /\ dom'[n].kin = dom[k].kin /\ dom'[n].seen = dom[k].seen
  BY <1>2, PageKeepsStamps
<1>3. Below'
  <2>1. ASSUME NEW n \in Here' PROVE dom'[n].stamp < counter
    BY <1>1, <1>2 DEF StampInv, Below
  <2>. QED
    BY <1>1, <2>1 DEF StampInv, Below
<1>4. Copies'
  <2> SUFFICES ASSUME NEW n \in Here', NEW m \in Here',
                      dom'[n].stamp = dom'[m].stamp, dom'[n].stamp # 0
               PROVE  dom'[n].kin = dom'[m].kin /\ dom'[n].seen = dom'[m].seen
    BY DEF Copies
  <2>1. PICK k \in Here : /\ dom'[n].stamp = dom[k].stamp
                          /\ dom'[n].kin = dom[k].kin /\ dom'[n].seen = dom[k].seen
    BY <1>2
  <2>2. PICK l \in Here : /\ dom'[m].stamp = dom[l].stamp
                          /\ dom'[m].kin = dom[l].kin /\ dom'[m].seen = dom[l].seen
    BY <1>2
  <2>. QED
    BY <2>1, <2>2 DEF StampInv, Copies
<1>5. AsListed'
  <2> SUFFICES ASSUME NEW e \in shown, NEW n \in Here', dom'[n].stamp = e.ref
               PROVE  dom'[n].kin = e.kin /\ dom'[n].seen = e.look
    BY <1>1 DEF AsListed
  <2>1. dom'[n].stamp # 0
    BY DEF StampInv, Below
  <2>. QED
    BY <1>2, <2>1 DEF StampInv, AsListed
<1>6. NeverReissued'
  BY <1>1 DEF StampInv, NeverReissued
<1>. QED
  BY <1>3, <1>4, <1>5, <1>6 DEF StampInv

LEMMA StampCorrect == Spec => []StampInv
<1>1. Init => StampInv
  BY DEF Init, StampInv, Below, Copies, AsListed, NeverReissued, Here
<1>2. TypeOK /\ StampInv /\ [Next]_vars => StampInv'
  <2>1. StampInv /\ UNCHANGED vars => StampInv'
    BY DEF StampInv, Below, Copies, AsListed, NeverReissued, Here, vars
  <2>. QED
    BY <2>1, ServiceStamps, PageStamps DEF Next
<1>. QED
  BY <1>1, <1>2, TypeCorrect, PTL DEF Spec

(***************************************************************************)
(* NeverReissued: in one session a ref the caller is given stands for one  *)
(* element under one look, whichever next_ref the caller passes and        *)
(* whatever autofill walks in between (_snapshot_document).                *)
(***************************************************************************)
THEOREM ReissueCorrect == Spec => []NeverReissued
<1>1. StampInv => NeverReissued
  BY DEF StampInv
<1>. QED
  BY <1>1, StampCorrect, PTL

(***************************************************************************)
(* ResolvesAsSeen: a ref that resolves is carried by one element alone, a  *)
(* copy of the one listed, and has the look it was listed under.           *)
(***************************************************************************)
THEOREM ResolveCorrect == Spec => []ResolvesAsSeen
<1>1. TypeOK /\ StampInv => ResolvesAsSeen
  <2> SUFFICES ASSUME TypeOK, StampInv, NEW e \in shown, NEW n \in Slot, Resolves(e.ref, n)
               PROVE  dom[n].kin = e.kin /\ dom[n].look = e.look
    BY DEF ResolvesAsSeen
  <2>1. n \in Here /\ dom[n].stamp = e.ref /\ dom[n].look = dom[n].seen
    BY DEF Resolves, Sole, Carriers, Eligible, SameLook
  <2>. QED
    BY <2>1 DEF StampInv, AsListed
<1>. QED
  BY <1>1, TypeCorrect, StampCorrect, PTL

(***************************************************************************)
(* While an action is under way, its ref was stamped on what it checked,   *)
(* under the look it had: so every carrier of the ref is a copy of that,   *)
(* and every listing of the ref is of that.                                *)
(***************************************************************************)
Checked ==
  /\ target.ref # 0 => target.ref < counter
  /\ \A n \in Here : target.ref # 0 /\ dom[n].stamp = target.ref => dom[n].kin = target.kin
  /\ \A e \in shown : target.ref = e.ref => target.kin = e.kin /\ target.look = e.look

LEMMA CheckedNext == TypeOK /\ StampInv /\ Checked /\ [Next]_vars => Checked'
<1> SUFFICES ASSUME TypeOK, StampInv, Checked, [Next]_vars  PROVE Checked'
  OBVIOUS
<1>1. ASSUME NEW r \in Ref, Resolve(r)
      PROVE  Checked'
  <2>1. PICK n \in Slot :
          Resolves(r, n) /\ target' = [ref |-> r, kin |-> dom[n].kin, look |-> dom[n].look]
    BY <1>1 DEF Resolve
  <2>2. /\ UNCHANGED <<dom, counter, shown>> /\ Here' = Here
        /\ n \in Here /\ dom[n].stamp = r /\ dom[n].look = dom[n].seen
        /\ \A m \in Here : dom[m].stamp = r => m = n
    BY <1>1, <2>1 DEF Resolve, Here, Resolves, Sole, Carriers, Eligible, SameLook
  <2>3. r < counter /\ \A e \in shown : e.ref = r => dom[n].kin = e.kin /\ dom[n].seen = e.look
    BY <2>2 DEF StampInv, Below, AsListed
  <2>4. target'.ref = r /\ target'.kin = dom[n].kin /\ target'.look = dom[n].look
    BY <2>1
  <2>. QED
    BY <2>2, <2>3, <2>4 DEF Checked
<1>2. CASE Page
  <2>1. UNCHANGED <<counter, shown, target>>
    BY <1>2, PageKeepsStamps
  <2>2. \A n \in Here' : dom'[n].stamp # 0 =>
          \E k \in Here : dom'[n].stamp = dom[k].stamp /\ dom'[n].kin = dom[k].kin
    BY <1>2, PageKeepsStamps
  <2>. QED
    BY <2>1, <2>2 DEF Checked
<1>3. CASE Service /\ target' = NoTarget
  <2>1. \A e \in shown' : 0 < e.ref
    BY <1>3, ServiceStamps DEF StampInv, Below
  <2>. QED
    BY <1>3, <2>1 DEF Checked, NoTarget
<1>4. ASSUME Service
      PROVE  target' = NoTarget \/ \E r \in Ref : Resolve(r)
  BY <1>4 DEF Service, Snapshot, PartialSnapshot, AutofillSnapshot, NewSession, Unlocked, ActionEnds
<1>5. CASE UNCHANGED vars
  BY <1>5 DEF vars, Checked, Here
<1>. QED
  BY <1>1, <1>2, <1>3, <1>4, <1>5 DEF Next

(***************************************************************************)
(* ActsOnChecked: between its check and its last touch an action acts on   *)
(* no element but the one it checked, which was the listed one, as listed. *)
(***************************************************************************)
THEOREM ActionCorrect == Spec => []ActsOnChecked
<1>1. TypeOK /\ StampInv /\ Checked => ActsOnChecked
  <2> SUFFICES ASSUME TypeOK, StampInv, Checked, NEW e \in shown, target.ref = e.ref
               PROVE  /\ target.kin = e.kin /\ target.look = e.look
                      /\ \A n \in Slot : Hits(n) => dom[n].kin = target.kin
    BY DEF ActsOnChecked
  <2>1. target.ref # 0
    BY DEF StampInv, Below
  <2>2. \A n \in Slot : Hits(n) => n \in Here /\ dom[n].stamp = target.ref
    BY DEF Hits, Sole, Carriers
  <2>. QED
    BY <2>1, <2>2 DEF Checked
<1>2. Init => Checked
  BY DEF Init, Checked, NoTarget, Here
<1>. QED
  BY <1>1, <1>2, CheckedNext, TypeCorrect, StampCorrect, PTL DEF Spec
=============================================================================
