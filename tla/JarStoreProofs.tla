---------------------------- MODULE JarStoreProofs ----------------------------
(***************************************************************************)
(* Proofs about JarStore, for every deployment, every bound and every      *)
(* pattern of faults.                                                      *)
(***************************************************************************)
EXTENDS JarStoreKeepsPromise, TLAPS

USE DEF Top, Highest

\* Mark m blocks at least what mark n blocks.
Covers(m, n) == m.gen >= n.gen /\ (n.deleted => m.deleted)

LEMMA FoldType ==
  ASSUME NEW a \in Mark, NEW b \in Mark
  PROVE  Fold(a, b) \in Mark /\ Covers(Fold(a, b), a) /\ Covers(Fold(a, b), b)
BY JarAssumption DEF Mark, Fold, Larger, Covers

LEMMA CoversBlocks ==
  ASSUME NEW m \in Mark, NEW n \in Mark, Covers(m, n), NEW g \in Nat, Blocks(n, g)
  PROVE  Blocks(m, g)
BY JarAssumption DEF Mark, Covers, Blocks

LEMMA CoversTransitive ==
  ASSUME NEW l \in Mark, NEW m \in Mark, NEW n \in Mark, Covers(l, m), Covers(m, n)
  PROVE  Covers(l, n)
BY JarAssumption DEF Mark, Covers

LEMMA FoldGrows ==
  ASSUME NEW a \in Mark, NEW b \in Mark, NEW c \in Mark, NEW d \in Mark,
         Covers(c, a), Covers(d, b)
  PROVE  Covers(Fold(c, d), Fold(a, b))
BY JarAssumption DEF Mark, Fold, Larger, Covers

LEMMA RevokingType ==
  ASSUME NEW c \in Content, NEW d \in BOOLEAN
  PROVE  Revoking(c, d) \in Mark
BY JarAssumption DEF Content, Mark, Revoking

LEMMA SealedType ==
  ASSUME NEW g \in 0 .. Highest, NEW l \in 0 .. MaxLogins
  PROVE  Sealed(g, l) \in Content
BY DEF Sealed, Content

LEMMA Constants ==
  /\ NoFile \in Content /\ NoMark \in Mark /\ NoJob \in Job /\ NoSession \in Session
BY JarAssumption DEF NoFile, NoMark, NoJob, NoSession, Content, Mark, Job, Session, Operation,
                     Generation

LEMMA InForceType == TypeOK => InForce \in Mark
BY FoldType DEF TypeOK, InForce
-----------------------------------------------------------------------------
(* Type correctness.                                                       *)

LEMMA InitType == Init => TypeOK
<1> SUFFICES ASSUME Init PROVE TypeOK
  OBVIOUS
<1>1. faults \in FaultPatterns /\ logins \in 0 .. MaxLogins /\ restored \in 0 .. MaxRestores
  BY JarAssumption DEF Init
<1>2. file \in Content /\ backups \subseteq Content /\ log \in Mark /\ anchor \in Mark
  BY Constants DEF Init
<1>3. job \in [Process -> Job] /\ session \in [Process -> Session]
  BY Constants DEF Init
<1>4. pc \in [Process -> Progress] /\ tornTail \in BOOLEAN /\ lock \in Process \cup {"free"}
  BY DEF Init, Progress
<1>5. acked \subseteq Generation /\ dropped \subseteq 0 .. MaxLogins
  BY DEF Init
<1> QED
  BY <1>1, <1>2, <1>3, <1>4, <1>5 DEF TypeOK

\* What a store operation's entry and exit do to the type.
LEMMA BeginType ==
  ASSUME TypeOK, NEW p \in Process, NEW where \in Progress, NEW j \in Job, Begin(p, where, j)
  PROVE  pc' \in [Process -> Progress] /\ job' \in [Process -> Job] /\ lock' \in Process \cup {"free"}
BY DEF TypeOK, Begin, Goto, Idle

LEMMA LeaveType ==
  ASSUME TypeOK, NEW p \in Process, Leave(p)
  PROVE  pc' \in [Process -> Progress] /\ job' \in [Process -> Job] /\ lock' \in Process \cup {"free"}
BY Constants DEF TypeOK, Leave, Goto, Progress

LEMMA GotoType ==
  ASSUME TypeOK, NEW p \in Process, NEW where \in Progress, Goto(p, where)
  PROVE  pc' \in [Process -> Progress]
BY DEF TypeOK, Goto

LEMMA WriteType ==
  ASSUME TypeOK, NEW c \in Content, Write(c)
  PROVE  file' \in Content /\ backups' \subseteq Content
BY DEF TypeOK, Write

LEMMA JobTyped ==
  ASSUME TypeOK, NEW p \in Process
  PROVE  /\ job[p] \in Job /\ job[p].content \in Content /\ job[p].mark \in Mark
         /\ job[p].seen \subseteq Generation /\ job[p].op \in Operation
         /\ session[p] \in Session
BY DEF TypeOK, Job

\* Numbering a refresh raises its content above what it was and above the mark.
LEMMA Numbers ==
  ASSUME TypeOK, NEW p \in Process, Number(p)
  PROVE  /\ pc[p] = "number" /\ pc'[p] = "append" /\ job' \in [Process -> Job]
         /\ job'[p].op = job[p].op /\ job'[p].mark = job[p].mark
         /\ job'[p].content.kind = job[p].content.kind
         /\ job'[p].content.login = job[p].content.login
         /\ job'[p].content.invalidated = job[p].content.invalidated
         /\ job'[p].content.gen \in Published /\ job'[p].content.gen > job[p].content.gen
         /\ InForce.gen <= Top => job'[p].content.gen > InForce.gen
         /\ "unreadable" \notin faults =>
              job'[p].content.gen = NextGeneration(job[p].content, InForce)
         /\ UNCHANGED <<faults, logins, volume, lock, session, history>>
<1>1. PICK m \in HighWater :
        /\ NextGeneration(job[p].content, m) \in Published
        /\ job' = [job EXCEPT ![p].content.gen = NextGeneration(job[p].content, m)]
  BY DEF Number
<1>2. /\ job[p] \in Job /\ job[p].content \in Content /\ InForce \in Mark
      /\ job \in [Process -> Job] /\ pc \in [Process -> Progress]
  BY JobTyped, InForceType DEF TypeOK
<1> DEFINE g == NextGeneration(job[p].content, m)
<1>3. /\ m.gen = InForce.gen \/ m.gen = Top
      /\ "unreadable" \notin faults => m = InForce
  BY DEF HighWater
<1>4. g > job[p].content.gen /\ g > m.gen
  BY <1>2, <1>3, JarAssumption DEF NextGeneration, Larger, Content, Mark
<1>5. InForce.gen <= Top => g > InForce.gen
  BY <1>2, <1>3, <1>4, JarAssumption
  DEF NextGeneration, Larger, Content, Mark
<1>6. [job[p].content EXCEPT !.gen = g] \in Content
  BY <1>1, <1>2, JarAssumption DEF Content, Published, Generation, Highest
<1>7. job'[p] = [job[p] EXCEPT !.content = [job[p].content EXCEPT !.gen = g]]
  BY <1>1, <1>2
<1>8. job'[p] \in Job
  BY <1>2, <1>6, <1>7 DEF Job
<1>9. job' \in [Process -> Job]
  BY <1>1, <1>2, <1>8
<1>10. job'[p].content = [job[p].content EXCEPT !.gen = g]
  BY <1>2, <1>7 DEF Job
<1>11. /\ job'[p].content.gen = g /\ job'[p].content.kind = job[p].content.kind
       /\ job'[p].content.login = job[p].content.login
       /\ job'[p].content.invalidated = job[p].content.invalidated
  BY <1>2, <1>10 DEF Content
<1>12. job'[p].op = job[p].op /\ job'[p].mark = job[p].mark
  BY <1>2, <1>7 DEF Job
<1>13. /\ pc[p] = "number" /\ pc'[p] = "append"
       /\ UNCHANGED <<faults, logins, volume, lock, session, history>>
  BY <1>2 DEF Number, Goto
<1> HIDE DEF g
<1>14. g \in Published /\ ("unreadable" \notin faults => g = NextGeneration(job[p].content, InForce))
  BY <1>1, <1>3 DEF g
<1> QED
  BY <1>4, <1>5, <1>9, <1>11, <1>12, <1>13, <1>14

USE DEF Progress
LEMMA NextType == TypeOK /\ [Next]_vars => TypeOK'
<1> SUFFICES ASSUME TypeOK, [Next]_vars PROVE TypeOK'
  OBVIOUS
<1> USE DEF volume, local, history
<1>a. CASE UNCHANGED vars
  BY <1>a DEF vars, TypeOK
<1>b. CASE Garble
  <2>1. [NoFile EXCEPT !.kind = "garbled"] \in Content
    BY Constants DEF Content
  <2> QED BY <1>b, <2>1 DEF Garble, TypeOK
<1>c. CASE Restore
  BY <1>c, JarAssumption DEF Restore, TypeOK
<1>d. ASSUME NEW p \in Process,
             Request(p) \/ Record(p) \/ Store(p) \/ Load(p) \/ Enforce(p) \/ Crash(p)
      PROVE  TypeOK'
  <2> /\ job[p] \in Job /\ job[p].content \in Content /\ job[p].mark \in Mark
      /\ job[p].seen \subseteq Generation /\ job[p].op \in Operation
      /\ session[p] \in Session
    BY JobTyped
  <2> /\ file \in Content /\ InForce \in Mark
    BY InForceType DEF TypeOK
  <2>1. CASE SignIn(p)
    BY <2>1, JarAssumption DEF SignIn, TypeOK, Session, NoSession
  <2>2. CASE EndSession(p)
    BY <2>2, Constants DEF EndSession, TypeOK
  <2>3. CASE SaveNew(p)
    <3>1. Sealed(1, session[p].login) \in Content
      BY JarAssumption DEF Sealed, Content, Session
    <3>2. file' \in Content /\ backups' \subseteq Content
      BY <2>3, <3>1, WriteType DEF SaveNew
    <3>3. session' \in [Process -> Session]
      BY <2>3, JarAssumption DEF SaveNew, TypeOK, Session
    <3> QED BY <2>3, <3>2, <3>3 DEF SaveNew, TypeOK
  <2>4. CASE BeginRefresh(p)
    <3>1. Sealed(file.gen, session[p].login) \in Content
      BY DEF Sealed, Content, Session
    <3>2. Revoking(file, FALSE) \in Mark
      BY RevokingType
    <3>3. [NoJob EXCEPT !.op = "refresh",
                        !.content = Sealed(file.gen, session[p].login),
                        !.mark = Revoking(file, FALSE)] \in Job
      BY <3>1, <3>2, Constants DEF Job, Operation
    <3>4. /\ pc' \in [Process -> Progress] /\ job' \in [Process -> Job]
          /\ lock' \in Process \cup {"free"}
      BY <2>4, <3>3, BeginType DEF BeginRefresh, StageRefresh
    <3> QED BY <2>4, <3>4 DEF BeginRefresh, StageRefresh, TypeOK
  <2>5. CASE BeginInvalidate(p)
    <3>1. [file EXCEPT !.invalidated = (file.kind = "sealed")] \in Content
      BY DEF Content
    <3>2. Revoking(file, FALSE) \in Mark
      BY RevokingType
    <3>3. [NoJob EXCEPT !.op = "invalidate",
                        !.content = [file EXCEPT !.invalidated = (file.kind = "sealed")],
                        !.mark = Revoking(file, FALSE)] \in Job
      BY <3>1, <3>2, Constants DEF Job, Operation
    <3>4. /\ pc' \in [Process -> Progress] /\ job' \in [Process -> Job]
          /\ lock' \in Process \cup {"free"}
      BY <2>5, <3>3, BeginType DEF BeginInvalidate
    <3> QED BY <2>5, <3>4 DEF BeginInvalidate, TypeOK
  <2>6. CASE BeginDelete(p)
    <3>1. Revoking(file, TRUE) \in Mark
      BY RevokingType
    <3>2. [NoJob EXCEPT !.op = "delete", !.mark = Revoking(file, TRUE)] \in Job
      BY <3>1, Constants DEF Job, Operation
    <3>3. /\ pc' \in [Process -> Progress] /\ job' \in [Process -> Job]
          /\ lock' \in Process \cup {"free"}
      BY <2>6, <3>2, BeginType DEF BeginDelete
    <3> QED BY <2>6, <3>3 DEF BeginDelete, TypeOK
  <2>7. CASE BeginTouch(p)
    <3>1. [NoJob EXCEPT !.op = "touch", !.content = file] \in Job
      BY Constants DEF Job, Operation
    <3>2. /\ pc' \in [Process -> Progress] /\ job' \in [Process -> Job]
          /\ lock' \in Process \cup {"free"}
      BY <2>7, <3>1, BeginType DEF BeginTouch
    <3> QED BY <2>7, <3>2 DEF BeginTouch, TypeOK
  <2>8. CASE Append(p)
    <3>1. log' \in Mark
      BY <2>8, FoldType DEF Append, TypeOK
    <3> QED BY <2>8, <3>1, GotoType DEF Append, TypeOK
  <2>9. CASE TornAppend(p)
    BY <2>9, LeaveType DEF TornAppend, TypeOK
  <2>10. CASE WriteAnchor(p)
    <3>1. anchor' \in Mark
      BY <2>10, FoldType DEF WriteAnchor, TypeOK
    <3> QED BY <2>10, <3>1, GotoType DEF WriteAnchor, TypeOK
  <2>11. CASE RecordRaises(p)
    BY <2>11, LeaveType DEF RecordRaises, TypeOK
  <2>12. CASE Publish(p)
    <3>1. file' \in Content /\ backups' \subseteq Content
      BY <2>12, WriteType, Constants DEF Publish, TypeOK
    <3> QED BY <2>12, <3>1, GotoType DEF Publish, TypeOK
  <2>13. CASE PublishFails(p)
    BY <2>13, LeaveType, GotoType DEF PublishFails, TypeOK
  <2>14. CASE RefreshReturns(p)
    <3>1. session' \in [Process -> Session]
      BY <2>14 DEF RefreshReturns, TypeOK, Session, Content
    <3> QED BY <2>14, <3>1, LeaveType DEF RefreshReturns, TypeOK
  <2>15. CASE RevocationReturns(p)
    <3>1. session' \in [Process -> Session]
      BY <2>15, Constants DEF RevocationReturns, TypeOK
    <3>2. acked' \subseteq Generation
      BY <2>15 DEF RevocationReturns, TypeOK
    <3>3. dropped' \subseteq 0 .. MaxLogins
      <4>1. \A c \in backups : c.login \in 0 .. MaxLogins
        BY DEF TypeOK, Content
      <4> QED BY <2>15, <4>1 DEF RevocationReturns, TypeOK
    <3> QED BY <2>15, <3>1, <3>2, <3>3, LeaveType DEF RevocationReturns, TypeOK
  <2>16. CASE LoadFile(p)
    <3>1. [NoJob EXCEPT !.op = "load", !.content = file, !.seen = acked] \in Job
      BY Constants DEF Job, Operation, TypeOK
    <3> QED BY <2>16, <3>1, GotoType DEF LoadFile, TypeOK
  <2>17. CASE LoadLog(p)
    <3>1. CASE job' = [job EXCEPT ![p].mark = log] /\ Goto(p, "load_anchor") /\ UNCHANGED lock
      <4>1. [job[p] EXCEPT !.mark = log] \in Job
        BY DEF Job, TypeOK
      <4>2. job' \in [Process -> Job]
        BY <3>1, <4>1 DEF TypeOK
      <4> QED BY <2>17, <3>1, <4>2, GotoType DEF LoadLog, TypeOK
    <3>2. CASE Leave(p)
      BY <2>17, <3>2, LeaveType DEF LoadLog, TypeOK
    <3> QED BY <2>17, <3>1, <3>2 DEF LoadLog
  <2>18. CASE LoadReturns(p)
    <3>1. [gen |-> job[p].content.gen, login |-> job[p].content.login] \in Session
      BY DEF Session, Content
    <3>2. session' \in [Process -> Session]
      BY <2>18, <3>1 DEF LoadReturns, TypeOK
    <3> QED BY <2>18, <3>2, LeaveType DEF LoadReturns, TypeOK
  <2>19. CASE Enforce(p)
    BY <2>19, Constants DEF Enforce, TypeOK
  <2>20. CASE Crash(p)
    BY <2>20, Constants, LeaveType DEF Crash, TypeOK
  <2>21. CASE Number(p)
    BY <2>21, Numbers, GotoType DEF Number, TypeOK
  <2> QED
    BY <1>d, <2>1, <2>2, <2>3, <2>4, <2>5, <2>6, <2>7, <2>8, <2>9, <2>10, <2>11, <2>12, <2>13,
       <2>14, <2>15, <2>16, <2>17, <2>18, <2>19, <2>20, <2>21 DEF Request, Record, Store, Load
<1> QED
  BY <1>a, <1>b, <1>c, <1>d DEF Next

(***************************************************************************)
(* The file, both marks, the lock and every process stay in their types.   *)
(***************************************************************************)
THEOREM TypeCorrect == Spec => []TypeOK
BY InitType, NextType, PTL DEF Spec
-----------------------------------------------------------------------------
(* The mark only grows.                                                    *)

MarksGrow == Covers(log', log) /\ Covers(anchor', anchor) /\ faults' = faults

LEMMA MarksStep ==
  ASSUME TypeOK, [Next]_vars
  PROVE  MarksGrow
<1> /\ log \in Mark /\ anchor \in Mark /\ InForce \in Mark
    /\ Covers(log, log) /\ Covers(anchor, anchor)
  BY InForceType, JarAssumption DEF TypeOK, Mark, Covers
<1> USE DEF volume, local, history, MarksGrow
<1>1. CASE UNCHANGED <<log, anchor, faults>>
  BY <1>1
<1>2. ASSUME NEW p \in Process, Append(p)
      PROVE  MarksGrow
  <2>1. job[p].mark \in Mark
    BY JobTyped
  <2> QED BY <1>2, <2>1, FoldType DEF Append
<1>3. ASSUME NEW p \in Process, WriteAnchor(p)
      PROVE  MarksGrow
  <2>1. job[p].mark \in Mark
    BY JobTyped
  <2>2. Fold(InForce, job[p].mark) \in Mark /\ Covers(Fold(InForce, job[p].mark), InForce)
    BY <2>1, FoldType
  <2>3. Covers(InForce, anchor)
    BY FoldType DEF InForce
  <2>4. Covers(Fold(InForce, job[p].mark), anchor)
    BY <2>2, <2>3, CoversTransitive
  <2> QED BY <1>3, <2>4 DEF WriteAnchor
<1>4. ASSUME NEW p \in Process, Request(p)
      PROVE  UNCHANGED <<log, anchor, faults>>
  BY <1>4 DEF Request, SignIn, EndSession, SaveNew, BeginRefresh, StageRefresh, BeginInvalidate,
              BeginDelete, BeginTouch
<1>5. ASSUME NEW p \in Process, TornAppend(p) \/ RecordRaises(p)
      PROVE  UNCHANGED <<log, anchor, faults>>
  BY <1>5 DEF TornAppend, RecordRaises
<1>6. ASSUME NEW p \in Process, Store(p) \/ Load(p) \/ Enforce(p) \/ Crash(p)
      PROVE  UNCHANGED <<log, anchor, faults>>
  BY <1>6 DEF Store, Number, Publish, PublishFails, RefreshReturns, RevocationReturns, Load,
              LoadFile, LoadLog, LoadReturns, Enforce, Crash
<1>7. ASSUME Garble \/ Restore \/ UNCHANGED vars
      PROVE  UNCHANGED <<log, anchor, faults>>
  BY <1>7 DEF Garble, Restore, vars
<1> QED
  BY <1>1, <1>2, <1>3, <1>4, <1>5, <1>6, <1>7 DEF Next, Record

LEMMA InForceGrows ==
  ASSUME TypeOK, TypeOK', MarksGrow
  PROVE  Covers(InForce', InForce) /\ InForce \in Mark /\ InForce' \in Mark
<1>1. log \in Mark /\ anchor \in Mark /\ log' \in Mark /\ anchor' \in Mark
  BY DEF TypeOK
<1> QED
  BY <1>1, FoldGrows, FoldType DEF MarksGrow, InForce
-----------------------------------------------------------------------------
(* Revocations stay in force.                                              *)

\* A process's own steps leave every other process where it is.
LEMMA OthersStay ==
  ASSUME TypeOK, NEW p \in Process, NEW q \in Process, q # p,
         Request(p) \/ Record(p) \/ Store(p) \/ Load(p) \/ Enforce(p) \/ Crash(p)
  PROVE  pc'[q] = pc[q] /\ job'[q] = job[q] /\ session'[q] = session[q]
<1> USE DEF TypeOK, Leave, Goto, Begin
<1>1. CASE Request(p)
  BY <1>1 DEF Request, SignIn, EndSession, SaveNew, BeginRefresh, StageRefresh, BeginInvalidate,
              BeginDelete, BeginTouch
<1>2. CASE Record(p)
  BY <1>2 DEF Record, Append, TornAppend, WriteAnchor, RecordRaises
<1>3. CASE Store(p)
  BY <1>3 DEF Store, Number, Publish, PublishFails, RefreshReturns, RevocationReturns
<1>4. CASE Load(p)
  BY <1>4 DEF Load, LoadFile, LoadLog, LoadReturns
<1>5. CASE Enforce(p) \/ Crash(p)
  BY <1>5 DEF Enforce, Crash
<1> QED
  BY <1>1, <1>2, <1>3, <1>4, <1>5

\* An incomplete line is a fault of its own; without it an appended mark is in
\* the log, and with one copy safe what an operation has recorded is in force.
TornOnlyByFault == tornTail => "torn" \in faults
Logged(q) == pc[q] = "anchor" /\ "torn" \notin faults => Covers(log, job[q].mark)
Marks(q) ==
  pc[q] \in {"publish", "finish"} /\ job[q].op \in {"refresh", "invalidate", "delete"}
Recorded(q) == OneCopyHolds /\ Marks(q) => Covers(InForce, job[q].mark)
RevocationInv ==
  /\ TornOnlyByFault
  /\ \A q \in Process : Logged(q) /\ Recorded(q)
  /\ RevokedStaysBlocked

LEMMA RevocationInit == Init => RevocationInv
BY DEF Init, RevocationInv, TornOnlyByFault, Logged, Marks, Recorded, RevokedStaysBlocked

LEMMA RevocationNext ==
  ASSUME TypeOK, TypeOK', RevocationInv, [Next]_vars
  PROVE  RevocationInv'
<1> USE DEF volume, local, history
<1> DEFINE Step(p) == Request(p) \/ Record(p) \/ Store(p) \/ Load(p) \/ Enforce(p) \/ Crash(p)
<1>a. MarksGrow
  BY MarksStep
<1>b. Covers(InForce', InForce) /\ InForce \in Mark /\ InForce' \in Mark
  BY <1>a, InForceGrows
<1>c. /\ log \in Mark /\ log' \in Mark /\ anchor \in Mark /\ anchor' \in Mark
      /\ Covers(InForce', log') /\ Covers(InForce', anchor') /\ faults' = faults
      /\ Covers(log', log)
  BY <1>a, FoldType DEF TypeOK, InForce, MarksGrow
<1>d. \A q \in Process : job[q].mark \in Mark
  BY JobTyped
<1>1. TornOnlyByFault'
  <2>1. CASE UNCHANGED tornTail
    BY <2>1, <1>c DEF RevocationInv, TornOnlyByFault
  <2>2. ASSUME NEW p \in Process, Append(p) \/ TornAppend(p)
        PROVE  TornOnlyByFault'
    BY <2>2, <1>c DEF Append, TornAppend, TornOnlyByFault
  <2>3. ASSUME NEW p \in Process, Request(p) \/ WriteAnchor(p) \/ RecordRaises(p)
        PROVE  UNCHANGED tornTail
    BY <2>3 DEF WriteAnchor, RecordRaises, Request, SignIn, EndSession, SaveNew, BeginRefresh,
                StageRefresh, BeginInvalidate, BeginDelete, BeginTouch
  <2>4. ASSUME NEW p \in Process, Store(p) \/ Load(p) \/ Enforce(p) \/ Crash(p)
        PROVE  UNCHANGED tornTail
    BY <2>4 DEF Store, Number, Publish, PublishFails, RefreshReturns, RevocationReturns, Load,
                LoadFile, LoadLog, LoadReturns, Enforce, Crash
  <2>5. ASSUME Garble \/ Restore \/ UNCHANGED vars
        PROVE  UNCHANGED tornTail
    BY <2>5 DEF Garble, Restore, vars
  <2> QED
    BY <2>1, <2>2, <2>3, <2>4, <2>5 DEF Next, Record
<1>2. ASSUME NEW q \in Process, pc'[q] = pc[q], job'[q] = job[q]
      PROVE  Logged(q)' /\ Recorded(q)'
  <2>1. Logged(q)'
    BY <1>2, <1>c, <1>d, CoversTransitive DEF RevocationInv, Logged
  <2>2. Recorded(q)'
    BY <1>2, <1>b, <1>c, <1>d, CoversTransitive DEF RevocationInv, Recorded, Marks, OneCopyHolds
  <2> QED BY <2>1, <2>2
<1>3. ASSUME NEW p \in Process, Step(p)
      PROVE  Logged(p)' /\ Recorded(p)'
  <2>1. CASE Append(p)
    <3>1. pc'[p] = "anchor" /\ job' = job
      BY <2>1 DEF Append, Goto, TypeOK
    <3>2. "torn" \notin faults => log' = Fold(log, job[p].mark)
      BY <2>1 DEF Append, RevocationInv, TornOnlyByFault
    <3>3. Logged(p)'
      BY <3>1, <3>2, <1>c, <1>d, FoldType DEF Logged
    <3> QED BY <3>1, <3>3 DEF Recorded, Marks
  <2>2. CASE WriteAnchor(p)
    <3>1. pc[p] = "anchor" /\ pc'[p] = "publish" /\ job' = job /\ log' = log
      BY <2>2 DEF WriteAnchor, Goto, TypeOK
    <3>2. CASE anchor' = Fold(InForce, job[p].mark)
      <4>1. Covers(anchor', job[p].mark)
        BY <3>2, <1>b, <1>d, FoldType
      <4>2. Covers(InForce', job[p].mark)
        BY <4>1, <1>b, <1>c, <1>d, CoversTransitive
      <4> QED BY <3>1, <4>2 DEF Logged, Recorded
    <3>3. CASE "anchor" \in faults
      <4>1. OneCopyHolds' => "torn" \notin faults
        BY <3>3, <1>c DEF OneCopyHolds
      <4>2. OneCopyHolds' => Covers(log', job[p].mark)
        BY <4>1, <3>1 DEF RevocationInv, Logged
      <4>3. OneCopyHolds' => Covers(InForce', job[p].mark)
        BY <4>2, <1>b, <1>c, <1>d, CoversTransitive
      <4> QED BY <3>1, <4>3 DEF Logged, Recorded
    <3> QED BY <2>2, <3>2, <3>3 DEF WriteAnchor
  <2>3. CASE pc[p] = "publish" /\ pc'[p] = "finish" /\ job' = job
    BY <2>3, <1>b, <1>c, <1>d, CoversTransitive
    DEF RevocationInv, Logged, Recorded, Marks, OneCopyHolds
  <2>4. CASE pc'[p] \in {"idle", "number", "append", "load_log", "load_anchor"}
    BY <2>4 DEF Logged, Recorded, Marks
  <2>5. CASE BeginTouch(p)
    <3>1. job'[p].op = "touch" /\ pc'[p] = "publish"
      BY <2>5, Constants DEF BeginTouch, Begin, Goto, TypeOK, Job
    <3> QED BY <3>1 DEF Logged, Recorded, Marks
  <2>6. CASE pc'[p] = pc[p] /\ job'[p] = job[p]
    BY <2>6, <1>2
  <2>7. ASSUME Request(p)
        PROVE  \/ BeginTouch(p) \/ pc'[p] \in {"number", "append"}
               \/ (pc'[p] = pc[p] /\ job'[p] = job[p])
    BY <2>7 DEF Request, SignIn, EndSession, SaveNew, BeginRefresh, StageRefresh, BeginInvalidate,
                BeginDelete, Begin, Goto, TypeOK
  <2>8. ASSUME Record(p)
        PROVE  Append(p) \/ WriteAnchor(p) \/ pc'[p] = "idle"
    BY <2>8 DEF Record, TornAppend, RecordRaises, Leave, Goto, TypeOK
  <2>9. ASSUME Store(p)
        PROVE  \/ pc[p] = "publish" /\ pc'[p] = "finish" /\ job' = job
               \/ pc'[p] \in {"idle", "append"}
    BY <2>9 DEF Store, Number, Publish, PublishFails, RefreshReturns, RevocationReturns, Leave,
                Goto, TypeOK
  <2>10. ASSUME Load(p) \/ Crash(p)
         PROVE  pc'[p] \in {"idle", "load_log", "load_anchor"}
    BY <2>10 DEF Load, LoadFile, LoadLog, LoadReturns, Crash, Leave, Goto, TypeOK
  <2>11. ASSUME Enforce(p)
         PROVE  pc'[p] = pc[p] /\ job'[p] = job[p]
    BY <2>11 DEF Enforce
  <2> QED
    BY <1>3, <2>1, <2>2, <2>3, <2>4, <2>5, <2>6, <2>7, <2>8, <2>9, <2>10, <2>11
<1>4. \A q \in Process : Logged(q)' /\ Recorded(q)'
  <2>1. CASE \E p \in Process : Step(p)
    BY <2>1, <1>2, <1>3, OthersStay
  <2>2. CASE Garble \/ Restore \/ UNCHANGED vars
    BY <2>2, <1>2 DEF Garble, Restore, vars
  <2> QED
    BY <2>1, <2>2 DEF Next
<1>5. RevokedStaysBlocked'
  <2>1. ASSUME OneCopyHolds', NEW g \in acked
        PROVE  Blocks(InForce', g)
    <3>1. OneCopyHolds /\ g \in Nat /\ Blocks(InForce, g)
      BY <2>1, <1>c, JarAssumption
      DEF RevocationInv, RevokedStaysBlocked, OneCopyHolds, TypeOK, Generation
    <3> QED BY <3>1, <1>b, CoversBlocks
  <2>2. ASSUME OneCopyHolds', NEW p \in Process, RevocationReturns(p), NEW g \in acked' \ acked
        PROVE  Blocks(InForce', g)
    <3>1. g \in Nat /\ Blocks(job[p].mark, g) /\ Marks(p) /\ OneCopyHolds
      BY <2>2, <1>c, JarAssumption DEF RevocationReturns, Generation, Marks, OneCopyHolds
    <3>2. Covers(InForce, job[p].mark)
      BY <3>1 DEF RevocationInv, Recorded
    <3> QED BY <3>1, <3>2, <1>b, <1>d, CoversBlocks
  <2>3. ASSUME NEW p \in Process, Request(p) \/ Record(p)
        PROVE  acked' = acked
    BY <2>3 DEF Request, SignIn, EndSession, SaveNew, BeginRefresh, StageRefresh, BeginInvalidate,
                BeginDelete, BeginTouch, Record, Append, TornAppend, WriteAnchor, RecordRaises
  <2>4. ASSUME NEW p \in Process,
               \/ Number(p) \/ Publish(p) \/ PublishFails(p) \/ RefreshReturns(p)
               \/ Load(p) \/ Enforce(p) \/ Crash(p)
        PROVE  acked' = acked
    BY <2>4 DEF Number, Publish, PublishFails, RefreshReturns, Load, LoadFile, LoadLog,
                LoadReturns, Enforce, Crash
  <2>5. ASSUME Garble \/ Restore \/ UNCHANGED vars
        PROVE  acked' = acked
    BY <2>5 DEF Garble, Restore, vars
  <2> QED
    BY <2>1, <2>2, <2>3, <2>4, <2>5 DEF Next, Store, RevokedStaysBlocked
<1> QED
  BY <1>1, <1>4, <1>5 DEF RevocationInv

LEMMA RevocationInvariant == Spec => [](TypeOK /\ RevocationInv)
<1>1. Init => TypeOK /\ RevocationInv
  BY InitType, RevocationInit
<1>2. TypeOK /\ RevocationInv /\ [Next]_vars => (TypeOK /\ RevocationInv)'
  BY NextType, RevocationNext
<1> QED
  BY <1>1, <1>2, PTL DEF Spec

(***************************************************************************)
(* An acknowledged revocation stays in force, in whatever order processes, *)
(* crashes and the other faults meet, while one copy of the mark is safe.  *)
(***************************************************************************)
THEOREM RevocationCorrect == Spec => []RevokedStaysBlocked
<1>1. RevocationInv => RevokedStaysBlocked
  BY DEF RevocationInv
<1> QED
  BY <1>1, RevocationInvariant, PTL
-----------------------------------------------------------------------------
(* Loads honour revocations.                                               *)

\* What load has seen so far: it serves no session yet, and once it has read
\* the log, that and whatever the anchor says later block all it must refuse.
Loading(q) ==
  /\ pc[q] \in {"load_log", "load_anchor"} => session[q] = NoSession
  /\ pc[q] = "load_log" => job[q].seen \subseteq acked
  /\ OneCopyHolds /\ pc[q] = "load_anchor" =>
       \A g \in job[q].seen : Blocks(Fold(job[q].mark, anchor), g)
LoadInv == \A q \in Process : Loading(q)

LEMMA LoadInit == Init => LoadInv
BY DEF Init, LoadInv, Loading

LEMMA LoadNext ==
  ASSUME TypeOK, TypeOK', RevocationInv, LoadInv, [Next]_vars
  PROVE  LoadInv'
<1> USE DEF volume, local, history
<1> DEFINE Step(p) == Request(p) \/ Record(p) \/ Store(p) \/ Load(p) \/ Enforce(p) \/ Crash(p)
<1>a. /\ log \in Mark /\ anchor \in Mark /\ anchor' \in Mark
      /\ Covers(anchor', anchor) /\ faults' = faults
  BY MarksStep DEF TypeOK, MarksGrow
<1>b. \A q \in Process : job[q].mark \in Mark /\ job[q].seen \subseteq Generation
  BY JobTyped
<1>c. acked \subseteq acked'
  <2>1. \A p \in Process : Request(p) => acked' = acked
    BY DEF Request, SignIn, EndSession, SaveNew, BeginRefresh, StageRefresh, BeginInvalidate,
           BeginDelete, BeginTouch
  <2>2. \A p \in Process : Record(p) => acked' = acked
    BY DEF Record, Append, TornAppend, WriteAnchor, RecordRaises
  <2>3. \A p \in Process : Store(p) => acked \subseteq acked'
    BY DEF Store, Number, Publish, PublishFails, RefreshReturns, RevocationReturns
  <2>4. \A p \in Process : Load(p) \/ Enforce(p) \/ Crash(p) => acked' = acked
    BY DEF Load, LoadFile, LoadLog, LoadReturns, Enforce, Crash
  <2> QED
    BY <2>1, <2>2, <2>3, <2>4 DEF Next, Garble, Restore, vars
<1>1. ASSUME NEW q \in Process, pc'[q] = pc[q], job'[q] = job[q], session'[q] = session[q]
      PROVE  Loading(q)'
  <2>1. ASSUME OneCopyHolds', pc'[q] = "load_anchor", NEW g \in job'[q].seen
        PROVE  Blocks(Fold(job[q].mark, anchor'), g)
    <3>a. g \in job[q].seen /\ pc[q] = "load_anchor" /\ OneCopyHolds
      BY <1>1, <2>1, <1>a DEF OneCopyHolds
    <3>b. g \in Nat
      BY <3>a, <1>b, JarAssumption DEF Generation
    <3>c. Loading(q)
      BY DEF LoadInv
    <3>1. Blocks(Fold(job[q].mark, anchor), g) /\ g \in Nat
      BY <3>a, <3>b, <3>c DEF Loading
    <3>2. Covers(job[q].mark, job[q].mark)
      BY <1>b, JarAssumption DEF Covers, Mark
    <3>3. /\ Fold(job[q].mark, anchor) \in Mark /\ Fold(job[q].mark, anchor') \in Mark
          /\ Covers(Fold(job[q].mark, anchor'), Fold(job[q].mark, anchor))
      BY <3>2, <1>a, <1>b, FoldType, FoldGrows
    <3> QED BY <3>1, <3>3, CoversBlocks
  <2> QED BY <1>1, <1>c, <2>1 DEF LoadInv, Loading
<1>2. ASSUME NEW p \in Process, Step(p)
      PROVE  Loading(p)'
  <2>1. CASE LoadFile(p)
    <3>1. /\ pc'[p] = "load_log" /\ session'[p] = NoSession /\ job'[p].seen = acked
      BY <2>1, Constants DEF LoadFile, Goto, TypeOK, Job
    <3> QED BY <3>1, <1>c DEF Loading
  <2>2. CASE LoadLog(p) /\ pc'[p] = "load_anchor"
    <3>1. /\ pc[p] = "load_log" /\ session'[p] = session[p] /\ anchor' = anchor
      BY <2>2 DEF LoadLog
    <3>2. job' = [job EXCEPT ![p].mark = log]
      BY <2>2 DEF LoadLog, Leave, Goto, TypeOK
    <3>3. job'[p].mark = log /\ job'[p].seen = job[p].seen
      BY <3>2, JobTyped DEF TypeOK, Job
    <3>4. session[p] = NoSession /\ job[p].seen \subseteq acked
      BY <3>1 DEF LoadInv, Loading
    <3>5. OneCopyHolds' => \A g \in acked : Blocks(Fold(log, anchor), g)
      BY <1>a DEF RevocationInv, RevokedStaysBlocked, OneCopyHolds, InForce
    <3> QED BY <2>2, <3>1, <3>3, <3>4, <3>5 DEF Loading
  <2>3. CASE pc'[p] \in {"idle", "number", "append", "anchor", "publish", "finish"}
    BY <2>3 DEF Loading
  <2>4. CASE pc[p] = "idle" /\ pc'[p] = pc[p]
    BY <2>4 DEF Loading
  <2>5. ASSUME Request(p) \/ Enforce(p)
        PROVE  pc'[p] \in {"number", "append", "publish"} \/ (pc[p] = "idle" /\ pc'[p] = pc[p])
    BY <2>5 DEF Request, SignIn, EndSession, SaveNew, BeginRefresh, StageRefresh, BeginInvalidate,
                BeginDelete, BeginTouch, Begin, Goto, TypeOK, Enforce, Idle
  <2>6. ASSUME Record(p) \/ Store(p) \/ Crash(p) \/ LoadReturns(p)
        PROVE  pc'[p] \in {"idle", "append", "anchor", "publish", "finish"}
    BY <2>6 DEF Record, Append, TornAppend, WriteAnchor, RecordRaises, Store, Number, Publish,
                PublishFails, RefreshReturns, RevocationReturns, LoadReturns, Crash, Leave, Goto,
                TypeOK
  <2>7. ASSUME LoadLog(p)
        PROVE  pc'[p] \in {"idle", "load_anchor"}
    BY <2>7 DEF LoadLog, Leave, Goto, TypeOK
  <2> QED
    BY <1>2, <2>1, <2>2, <2>3, <2>4, <2>5, <2>6, <2>7 DEF Load
<1>3. CASE \E p \in Process : Step(p)
  BY <1>3, <1>1, <1>2, OthersStay DEF LoadInv
<1>4. CASE Garble \/ Restore \/ UNCHANGED vars
  BY <1>4, <1>1 DEF Garble, Restore, vars, LoadInv
<1> QED
  BY <1>3, <1>4 DEF Next

LEMMA LoadStep ==
  ASSUME TypeOK, LoadInv, [Next]_vars, NEW p \in Process,
         OneCopyHolds, pc[p] = "load_anchor", session'[p] # NoSession
  PROVE  session'[p].gen \notin job[p].seen
<1> USE DEF volume, local, history
<1>1. session[p] = NoSession /\ \A g \in job[p].seen : Blocks(Fold(job[p].mark, anchor), g)
  BY DEF LoadInv, Loading
<1>2. CASE LoadReturns(p)
  BY <1>1, <1>2, JobTyped DEF LoadReturns, TypeOK
<1>3. ASSUME Request(p) \/ Record(p) \/ Store(p) \/ Enforce(p) \/ LoadFile(p) \/ LoadLog(p)
      PROVE  FALSE
  BY <1>3 DEF Request, SignIn, EndSession, SaveNew, BeginRefresh, StageRefresh, BeginInvalidate,
              BeginDelete, BeginTouch, Begin, Idle, Record, Append, TornAppend, WriteAnchor,
              RecordRaises, Store, Number, Publish, PublishFails, RefreshReturns,
              RevocationReturns, Enforce, LoadFile, LoadLog
<1>4. CASE Crash(p)
  BY <1>4 DEF Crash, TypeOK
<1>5. ASSUME NEW q \in Process, q # p,
             Request(q) \/ Record(q) \/ Store(q) \/ Load(q) \/ Enforce(q) \/ Crash(q)
      PROVE  FALSE
  BY <1>1, <1>5, OthersStay
<1>6. CASE Garble \/ Restore \/ UNCHANGED vars
  BY <1>1, <1>6 DEF Garble, Restore, vars
<1> QED
  BY <1>2, <1>3, <1>4, <1>5, <1>6 DEF Next, Load

(***************************************************************************)
(* A load reads file, log and anchor one after the other and without the   *)
(* lock; it returns no generation whose revocation was acknowledged before *)
(* it began.                                                               *)
(***************************************************************************)
THEOREM LoadCorrect == Spec => LoadHonoursRevocation
<1>1. Init => TypeOK /\ RevocationInv /\ LoadInv
  BY InitType, RevocationInit, LoadInit
<1>2. TypeOK /\ RevocationInv /\ LoadInv /\ [Next]_vars => (TypeOK /\ RevocationInv /\ LoadInv)'
  BY NextType, RevocationNext, LoadNext
<1>3. TypeOK /\ LoadInv /\ [Next]_vars =>
        [\A p \in Process :
           OneCopyHolds /\ pc[p] = "load_anchor" /\ session'[p] # NoSession =>
             session'[p].gen \notin job[p].seen]_vars
  BY LoadStep
<1> QED
  BY <1>1, <1>2, <1>3, PTL DEF Spec, LoadHonoursRevocation
-----------------------------------------------------------------------------
(* The lock, refreshes and generations.                                    *)

\* A process between entering and leaving a locked operation holds the lock;
\* what it is about to publish is then newer than, or as new as, all it replaces.
LocksHeld == \A q \in Process : Locked(q) => lock = q
Numbering(q) == pc[q] = "number" => job[q].op = "refresh"
Refreshing(q) ==
  Locked(q) /\ job[q].op = "refresh" =>
    /\ ~InForce.deleted /\ ~job[q].mark.deleted
    /\ pc[q] = "number" => InForce.gen < Top /\ job[q].mark.gen = job[q].content.gen
    /\ pc[q] # "number" =>
         InForce.gen < job[q].content.gen /\ job[q].mark.gen < job[q].content.gen
Publishing(q) ==
  restored = 0 /\ Locked(q) /\ file.kind = "sealed" /\ job[q].content.kind = "sealed" =>
    job[q].content.gen >= file.gen
FileBacked == file.kind = "sealed" => file \in backups
StoreInv ==
  /\ LocksHeld /\ FileBacked
  /\ \A q \in Process : Numbering(q) /\ Refreshing(q) /\ Publishing(q)

LEMMA StoreInit == Init => StoreInv
BY DEF Init, StoreInv, LocksHeld, Numbering, Refreshing, Publishing, Locked, FileBacked, NoFile

\* While one process is in a locked operation no other writes the volume.
LEMMA LockedOut ==
  ASSUME TypeOK, LocksHeld, NEW p \in Process, NEW q \in Process, q # p, Locked(q),
         Request(p) \/ Record(p) \/ Store(p) \/ Load(p) \/ Enforce(p) \/ Crash(p)
  PROVE  lock' = q /\ UNCHANGED <<file, log, anchor, restored>>
<1> USE DEF volume, local, history
<1>1. lock = q /\ lock # "free" /\ lock # p /\ ~Locked(p)
  BY JarAssumption DEF LocksHeld
<1> USE <1>1 DEF Locked, Leave, Begin
<1>2. CASE Request(p)
  BY <1>2 DEF Request, SignIn, EndSession, SaveNew, BeginRefresh, StageRefresh, BeginInvalidate,
              BeginDelete, BeginTouch
<1>3. CASE Record(p)
  BY <1>3 DEF Record, Append, TornAppend, WriteAnchor, RecordRaises
<1>4. CASE Store(p)
  BY <1>4 DEF Store, Number, Publish, PublishFails, RefreshReturns, RevocationReturns
<1>5. CASE Load(p)
  BY <1>5 DEF Load, LoadFile, LoadLog, LoadReturns
<1>6. CASE Enforce(p) \/ Crash(p)
  BY <1>6 DEF Enforce, Crash
<1> QED
  BY <1>2, <1>3, <1>4, <1>5, <1>6

\* Recording the superseded generation leaves the new one above the mark.
LEMMA RefreshStaysAbove ==
  ASSUME NEW a \in Mark, NEW b \in Mark, NEW m \in Mark, NEW g \in Nat,
         ~Fold(a, b).deleted, Fold(a, b).gen < g, ~m.deleted, m.gen < g
  PROVE  /\ ~Fold(Fold(a, m), b).deleted /\ Fold(Fold(a, m), b).gen < g
         /\ ~Fold(a, Fold(Fold(a, b), m)).deleted /\ Fold(a, Fold(Fold(a, b), m)).gen < g
BY JarAssumption DEF Fold, Larger, Mark

LEMMA StoreNext ==
  ASSUME TypeOK, StoreInv, [Next]_vars
  PROVE  StoreInv'
<1> USE DEF volume, local, history
<1> DEFINE Step(p) == Request(p) \/ Record(p) \/ Store(p) \/ Load(p) \/ Enforce(p) \/ Crash(p)
<1>a. /\ log \in Mark /\ anchor \in Mark /\ InForce \in Mark /\ file \in Content
      /\ lock \in Process \cup {"free"} /\ pc \in [Process -> Progress] /\ job \in [Process -> Job]
      /\ restored \in Nat
  BY InForceType, JarAssumption DEF TypeOK
<1>b. \A q \in Process :
        /\ job[q] \in Job /\ job[q].content \in Content /\ job[q].mark \in Mark
        /\ job[q].content.gen \in Nat
  BY JobTyped, JarAssumption DEF Content
<1>1. FileBacked'
  <2>1. CASE UNCHANGED <<file, backups>>
    BY <2>1 DEF StoreInv, FileBacked
  <2>2. ASSUME NEW p \in Process, SaveNew(p) \/ Publish(p)
        PROVE  FileBacked'
    BY <2>2, <1>a, <1>b DEF SaveNew, Publish, Write, FileBacked, NoFile, StoreInv
  <2>3. CASE Garble \/ Restore
    BY <2>3, Constants DEF Garble, Restore, FileBacked, Content
  <2>4. ASSUME NEW p \in Process, Record(p) \/ Load(p) \/ Enforce(p) \/ Crash(p)
        PROVE  UNCHANGED <<file, backups>>
    BY <2>4 DEF Record, Append, TornAppend, WriteAnchor, RecordRaises, Load, LoadFile, LoadLog,
                LoadReturns, Enforce, Crash
  <2>5. ASSUME NEW p \in Process, Request(p) \/ Store(p), ~SaveNew(p), ~Publish(p)
        PROVE  UNCHANGED <<file, backups>>
    <3>1. Number(p) => UNCHANGED <<file, backups>>
      BY DEF Number
    <3> QED
      BY <2>5, <3>1 DEF Request, SignIn, EndSession, BeginRefresh, StageRefresh, BeginInvalidate,
                  BeginDelete, BeginTouch, Store, PublishFails, RefreshReturns, RevocationReturns
  <2> QED
    BY <2>1, <2>2, <2>3, <2>4, <2>5 DEF Next, vars
<1>2. ASSUME NEW q \in Process, pc'[q] = pc[q], job'[q] = job[q], Locked(q) => lock' = q,
             Locked(q) => UNCHANGED <<file, log, anchor, restored>>
      PROVE  (Locked(q)' => lock' = q) /\ Numbering(q)' /\ Refreshing(q)' /\ Publishing(q)'
  BY <1>2 DEF StoreInv, Numbering, Refreshing, Publishing, Locked, InForce
<1>3. ASSUME NEW p \in Process, Step(p)
      PROVE  (Locked(p)' => lock' = p) /\ Numbering(p)' /\ Refreshing(p)' /\ Publishing(p)'
  <2>0. Locked(p) => lock = p
    BY DEF StoreInv, LocksHeld
  <2>1. CASE BeginRefresh(p)
    <3>1. /\ lock' = p /\ pc'[p] = "number" /\ job'[p].op = "refresh"
          /\ job'[p].content = Sealed(file.gen, session[p].login)
          /\ job'[p].mark = Revoking(file, FALSE)
          /\ UNCHANGED <<file, log, anchor>> /\ file.kind = "sealed"
          /\ ~InForce.deleted /\ InForce.gen < Top
      BY <2>1, <1>a, Constants DEF BeginRefresh, StageRefresh, Begin, Goto, Job
    <3>2. /\ job'[p].content.gen = file.gen /\ job'[p].mark.gen = file.gen
          /\ ~job'[p].mark.deleted
      BY <3>1 DEF Sealed, Revoking
    <3>3. InForce' = InForce
      BY <3>1 DEF InForce
    <3>4. file.gen >= file.gen
      BY <1>a, JarAssumption DEF Content
    <3> QED BY <3>1, <3>2, <3>3, <3>4 DEF Numbering, Refreshing, Publishing
  <2>2. CASE BeginInvalidate(p)
    <3>1. /\ lock' = p /\ job'[p].op = "invalidate" /\ UNCHANGED file /\ pc'[p] = "append"
          /\ job'[p].content = [file EXCEPT !.invalidated = (file.kind = "sealed")]
      BY <2>2, <1>a, Constants DEF BeginInvalidate, Begin, Goto, Job
    <3>2. job'[p].content.gen >= file.gen
      BY <3>1, <1>a, JarAssumption DEF Content
    <3> QED BY <3>1, <3>2 DEF Numbering, Refreshing, Publishing
  <2>3. CASE BeginDelete(p)
    <3>1. lock' = p /\ job'[p].op = "delete" /\ job'[p].content = NoFile /\ pc'[p] = "append"
      BY <2>3, <1>a, Constants DEF BeginDelete, Begin, Goto, Job, NoJob
    <3> QED BY <3>1 DEF Numbering, Refreshing, Publishing, NoFile
  <2>4. CASE BeginTouch(p)
    <3>1. /\ lock' = p /\ job'[p].op = "touch" /\ job'[p].content = file /\ UNCHANGED file
          /\ pc'[p] = "publish"
      BY <2>4, <1>a, Constants DEF BeginTouch, Begin, Goto, Job
    <3> QED BY <3>1, <1>a, JarAssumption DEF Numbering, Refreshing, Publishing, Content
  <2>5. CASE Append(p)
    <3>1. /\ Locked(p) /\ UNCHANGED <<lock, job, file, restored, anchor>>
          /\ log' = log \/ log' = Fold(log, job[p].mark)
          /\ pc[p] # "number" /\ pc'[p] # "number"
      BY <2>5, <1>a DEF Append, Locked, Goto
    <3>2. ASSUME job[p].op = "refresh"
          PROVE  ~InForce'.deleted /\ InForce'.gen < job[p].content.gen
      BY <3>1, <3>2, <1>a, <1>b, RefreshStaysAbove DEF StoreInv, Refreshing, InForce
    <3> QED BY <2>0, <3>1, <3>2 DEF StoreInv, Numbering, Refreshing, Publishing
  <2>6. CASE WriteAnchor(p)
    <3>1. /\ Locked(p) /\ UNCHANGED <<lock, job, file, restored, log>>
          /\ anchor' = anchor \/ anchor' = Fold(InForce, job[p].mark)
          /\ pc[p] # "number" /\ pc'[p] # "number"
      BY <2>6, <1>a DEF WriteAnchor, Locked, Goto
    <3>2. ASSUME job[p].op = "refresh"
          PROVE  ~InForce'.deleted /\ InForce'.gen < job[p].content.gen
      BY <3>1, <3>2, <1>a, <1>b, RefreshStaysAbove DEF StoreInv, Refreshing, InForce
    <3> QED BY <2>0, <3>1, <3>2 DEF StoreInv, Numbering, Refreshing, Publishing
  <2>7. CASE Publish(p)
    <3>1. /\ Locked(p) /\ UNCHANGED <<lock, job, restored, log, anchor>>
          /\ pc[p] # "number" /\ pc'[p] # "number"
      BY <2>7, <1>a DEF Publish, Locked, Goto
    <3>2. \/ file' = NoFile \/ file' = job[p].content
          \/ job[p].content = NoFile
      BY <2>7 DEF Publish, Write
    <3>3. Publishing(p)'
      BY <3>1, <3>2, <1>b DEF Publishing, NoFile
    <3> QED BY <2>0, <3>1, <3>3 DEF StoreInv, Numbering, Refreshing, InForce
  <2>8. CASE PublishFails(p) /\ pc'[p] = "finish"
    <3>1. /\ Locked(p) /\ UNCHANGED <<lock, job, restored, file, log, anchor>>
          /\ pc[p] # "number" /\ pc'[p] # "number"
      BY <2>8, <1>a DEF PublishFails, Locked, Leave, Goto
    <3> QED BY <2>0, <3>1 DEF StoreInv, Numbering, Refreshing, Publishing, InForce
  <2>13. CASE Number(p)
    <3>1. /\ pc[p] = "number" /\ pc'[p] = "append" /\ Locked(p)
          /\ job'[p].op = job[p].op /\ job'[p].mark = job[p].mark
          /\ job'[p].content.kind = job[p].content.kind
          /\ job'[p].content.gen \in Nat /\ job'[p].content.gen > job[p].content.gen
          /\ InForce.gen <= Top => job'[p].content.gen > InForce.gen
          /\ UNCHANGED <<volume, lock, restored>>
      BY <2>13, Numbers DEF Locked, Published, Generation
    <3>2. InForce' = InForce
      BY <3>1 DEF InForce
    <3>3. job[p].op = "refresh" =>
            /\ ~InForce.deleted /\ ~job[p].mark.deleted /\ InForce.gen < Top
            /\ job[p].mark.gen = job[p].content.gen
      BY <3>1 DEF StoreInv, Refreshing
    <3>4. Refreshing(p)'
      BY <3>1, <3>2, <3>3, <1>a, JarAssumption DEF Refreshing, Mark
    <3>5. Publishing(p)'
      <4>1. file.gen \in Nat /\ job[p].content.gen \in Nat
        BY <1>a, <1>b, JarAssumption DEF Content
      <4>2. Publishing(p) /\ file' = file
        BY <3>1 DEF StoreInv
      <4> QED BY <3>1, <4>1, <4>2 DEF Publishing
    <3> QED BY <2>0, <3>1, <3>4, <3>5 DEF Numbering
  <2>9. CASE pc'[p] \in {"idle", "load_log", "load_anchor"}
    BY <2>9 DEF Numbering, Refreshing, Publishing, Locked
  <2>10. ASSUME Request(p)
         PROVE  \/ BeginRefresh(p) \/ BeginInvalidate(p) \/ BeginDelete(p) \/ BeginTouch(p)
                \/ pc'[p] = "idle"
    BY <2>10 DEF Request, SignIn, EndSession, SaveNew, Idle
  <2>11. ASSUME Record(p) \/ Store(p)
         PROVE  \/ Append(p) \/ WriteAnchor(p) \/ Publish(p)
                \/ (PublishFails(p) /\ pc'[p] = "finish") \/ Number(p) \/ pc'[p] = "idle"
    BY <2>11, <1>a DEF Record, TornAppend, RecordRaises, Store, PublishFails, RefreshReturns,
                       RevocationReturns, Leave, Goto
  <2>12. ASSUME Load(p) \/ Enforce(p) \/ Crash(p)
         PROVE  pc'[p] \in {"idle", "load_log", "load_anchor"}
    BY <2>12, <1>a DEF Load, LoadFile, LoadLog, LoadReturns, Enforce, Idle, Crash, Leave, Goto
  <2> QED
    BY <1>3, <2>1, <2>2, <2>3, <2>4, <2>5, <2>6, <2>7, <2>8, <2>9, <2>10, <2>11, <2>12,
       <2>13
<1>4. \A q \in Process : (Locked(q)' => lock' = q) /\ Numbering(q)' /\ Refreshing(q)' /\ Publishing(q)'
  <2>1. CASE \E p \in Process : Step(p)
    BY <2>1, <1>2, <1>3, OthersStay, LockedOut DEF StoreInv
  <2>2. CASE UNCHANGED vars
    BY <2>2, <1>2 DEF vars, StoreInv, LocksHeld
  <2>3. CASE Garble
    <3>1. file'.kind = "garbled"
      BY <2>3, Constants DEF Garble, Content
    <3> QED
      BY <2>3, <3>1 DEF Garble, StoreInv, LocksHeld, Numbering, Refreshing, Publishing, Locked,
                        InForce
  <2>4. CASE Restore
    BY <2>4, <1>a DEF Restore, StoreInv, LocksHeld, Numbering, Refreshing, Publishing, Locked,
                      InForce
  <2> QED
    BY <2>1, <2>2, <2>3, <2>4 DEF Next
<1> QED
  BY <1>1, <1>4 DEF StoreInv, LocksHeld

LEMMA StoreInvariant == Spec => [](TypeOK /\ StoreInv)
<1>1. Init => TypeOK /\ StoreInv
  BY InitType, StoreInit
<1>2. TypeOK /\ StoreInv /\ [Next]_vars => (TypeOK /\ StoreInv)'
  BY NextType, StoreNext
<1> QED
  BY <1>1, <1>2, PTL DEF Spec

(***************************************************************************)
(* But for a restored file, the jar's generation never goes back: what a   *)
(* locked operation read of the file still holds when it replaces it.      *)
(***************************************************************************)
THEOREM GenerationsCorrect == Spec => GenerationsGrow
<1>1. ASSUME TypeOK, StoreInv, [Next]_vars,
             file.kind = "sealed", file'.kind = "sealed", restored' = 0
      PROVE  file'.gen >= file.gen
  <2> USE DEF volume, local, history
  <2>a. file \in Content /\ file.gen >= file.gen
    BY <1>1, JarAssumption DEF TypeOK, Content
  <2>1. CASE UNCHANGED file
    BY <2>1, <2>a
  <2>2. ASSUME NEW p \in Process, SaveNew(p)
        PROVE  FALSE
    BY <1>1, <2>2 DEF SaveNew, StoreInv, FileBacked
  <2>3. ASSUME NEW p \in Process, Publish(p)
        PROVE  file'.gen >= file.gen
    BY <1>1, <2>3, <2>a DEF Publish, Write, StoreInv, Publishing, Locked, NoFile
  <2>4. CASE Garble
    BY <1>1, <2>4, Constants DEF Garble, Content
  <2>5. CASE Restore
    BY <1>1, <2>5, JarAssumption DEF Restore, TypeOK
  <2>6. ASSUME NEW p \in Process, Record(p) \/ Load(p) \/ Enforce(p) \/ Crash(p)
        PROVE  UNCHANGED file
    BY <2>6 DEF Record, Append, TornAppend, WriteAnchor, RecordRaises, Load, LoadFile, LoadLog,
                LoadReturns, Enforce, Crash
  <2>7. ASSUME NEW p \in Process, Request(p) \/ Store(p), ~SaveNew(p), ~Publish(p)
        PROVE  UNCHANGED file
    <3>1. Number(p) => UNCHANGED file
      BY DEF Number
    <3> QED
      BY <2>7, <3>1 DEF Request, SignIn, EndSession, BeginRefresh, StageRefresh, BeginInvalidate,
                  BeginDelete, BeginTouch, Store, PublishFails, RefreshReturns, RevocationReturns
  <2> QED
    BY <1>1, <2>1, <2>2, <2>3, <2>4, <2>5, <2>6, <2>7 DEF Next, vars
<1>2. TypeOK /\ StoreInv /\ [Next]_vars =>
        [file.kind = "sealed" /\ file'.kind = "sealed" /\ restored' = 0 =>
           file'.gen >= file.gen]_vars
  BY <1>1
<1> QED
  BY <1>2, StoreInvariant, PTL DEF Spec, GenerationsGrow
-----------------------------------------------------------------------------
(***************************************************************************)
(* The logins a revocation drops stay out: of the jar's file, and of every *)
(* session that holds one.                                                 *)
(***************************************************************************)
USE DEF volume, local, history

Calm == OneCopyHolds /\ restored = 0

\* A session that signed in and has not published its login.
Fresh(q) ==
  /\ session[q].gen = 0 /\ session[q].login # 0
  /\ ~(pc[q] = "finish" /\ job[q].op = "refresh")

\* Logins are counted, so that a new one is nobody's; generations start at 1.
Bounded ==
  /\ file.login <= logins
  /\ \A c \in backups : c.login <= logins /\ c.gen > 0
  /\ \A l \in dropped : l <= logins
  /\ \A q \in Process : session[q].login <= logins /\ job[q].content.login <= logins

\* An unpublished login is nowhere else.
Unsaved(q) ==
  Fresh(q) =>
    /\ session[q].login \notin dropped
    /\ file.login # session[q].login
    /\ \A c \in backups : c.login # session[q].login
    /\ \A r \in Process : r # q => session[r].login # session[q].login
    /\ \A r \in Process : r # q \/ job[r].op # "refresh" => job[r].content.login # session[q].login

\* Sessions with a generation hold a content the file once had, and operations
\* write what their kind says.
Seeded(q) ==
  /\ session[q].gen # 0 =>
       \E c \in backups : c.gen = session[q].gen /\ c.login = session[q].login
  /\ pc[q] \in {"load_log", "load_anchor"} => job[q].content \in backups
  /\ Locked(q) =>
       /\ job[q].op \in {"touch", "refresh", "invalidate", "delete"}
       /\ job[q].content.kind = "sealed" => job[q].content.gen > 0
       /\ job[q].op = "touch" /\ job[q].content.kind = "sealed" => job[q].content \in backups
       /\ job[q].op = "refresh" =>
            job[q].content.kind = "sealed" /\ job[q].content.login = session[q].login
       /\ job[q].op = "refresh" /\ pc[q] = "finish" => job[q].content \in backups

\* While nothing is restored, what is about to be published is the newest there
\* is, a refresh covers all that is published and has no dropped login, and a
\* revocation covers all that is published, unless the file it found was lost.
Replacing(q) ==
  Calm /\ Locked(q) =>
    /\ job[q].content.kind = "sealed" => \A c \in backups : c.gen <= job[q].content.gen
    /\ job[q].op \in {"invalidate", "delete"} =>
         /\ Lost \/ \A c \in backups : Blocks(job[q].mark, c.gen)
         /\ job[q].content.kind = "sealed" => Blocks(job[q].mark, job[q].content.gen)
    /\ job[q].op = "refresh" => job[q].content.login \notin dropped
    /\ job[q].op = "refresh" /\ pc[q] # "finish" =>
         \A c \in backups : Blocks(job[q].mark, c.gen)

Newest == Calm /\ file.kind = "sealed" => \A c \in backups : c.gen <= file.gen
Kept == Calm => Lost \/ \A c \in backups : c.login \in dropped => Blocks(InForce, c.gen)

DroppedInv ==
  /\ Bounded /\ Newest /\ Kept
  /\ \A q \in Process : Unsaved(q) /\ Seeded(q) /\ Replacing(q)

LEMMA DroppedInit == Init => DroppedInv
BY Constants DEF Init, DroppedInv, Bounded, Newest, Kept, Unsaved, Fresh, Seeded, Locked, Replacing,
                 NoFile, NoSession, NoJob
-----------------------------------------------------------------------------
(* What the entries leave in a process's job.                              *)

LEMMA Shapes ==
  ASSUME TypeOK
  PROVE  /\ log \in Mark /\ anchor \in Mark /\ InForce \in Mark
         /\ file \in Content /\ file.gen \in Nat /\ file.login \in Nat /\ backups \subseteq Content
         /\ \A c \in backups : c.gen \in Nat /\ c.login \in Nat /\ c.gen <= Highest
         /\ file.gen <= Highest
         /\ logins \in Nat /\ restored \in Nat /\ dropped \subseteq Nat
         /\ pc \in [Process -> Progress] /\ job \in [Process -> Job] /\ session \in [Process -> Session]
         /\ \A q \in Process :
              /\ job[q] \in Job /\ job[q].mark \in Mark /\ job[q].content \in Content
              /\ job[q].content.gen \in Nat /\ job[q].content.login \in Nat
              /\ session[q].gen \in Nat /\ session[q].login \in Nat
<1>1. /\ log \in Mark /\ anchor \in Mark /\ InForce \in Mark
      /\ file \in Content /\ backups \subseteq Content
      /\ pc \in [Process -> Progress] /\ job \in [Process -> Job] /\ session \in [Process -> Session]
  BY InForceType DEF TypeOK
<1>2. \A c \in Content : c.gen \in Nat /\ c.login \in Nat /\ c.gen <= Highest
  BY JarAssumption DEF Content
<1>3. \A x \in Session : x.gen \in Nat /\ x.login \in Nat
  BY JarAssumption DEF Session
<1>4. logins \in Nat /\ restored \in Nat /\ dropped \subseteq Nat
  BY JarAssumption DEF TypeOK
<1> QED
  BY <1>1, <1>2, <1>3, <1>4, JobTyped

LEMMA RefreshBegins ==
  ASSUME TypeOK, NEW p \in Process, BeginRefresh(p)
  PROVE  /\ pc[p] = "idle" /\ pc'[p] = "number" /\ lock = "free"
         /\ job'[p].op = "refresh" /\ job'[p].content.kind = "sealed"
         /\ job'[p].mark = Revoking(file, FALSE) /\ ~job'[p].content.invalidated
         /\ job'[p].content.gen = file.gen /\ job'[p].content.login = session[p].login
         /\ file.kind = "sealed"
         /\ UNCHANGED <<faults, logins, volume, session, history>>
<1>1. /\ pc[p] = "idle" /\ pc'[p] = "number" /\ lock = "free" /\ file.kind = "sealed"
      /\ job'[p].op = "refresh" /\ job'[p].mark = Revoking(file, FALSE)
      /\ job'[p].content = Sealed(file.gen, session[p].login)
      /\ UNCHANGED <<faults, logins, volume, session, history>>
  BY Shapes, Constants DEF BeginRefresh, StageRefresh, Begin, Goto, Idle, Job
<1> QED
  BY <1>1 DEF Sealed

LEMMA InvalidateBegins ==
  ASSUME TypeOK, NEW p \in Process, BeginInvalidate(p)
  PROVE  /\ pc[p] = "idle" /\ pc'[p] = "append" /\ lock = "free"
         /\ job'[p].op = "invalidate" /\ job'[p].mark = Revoking(file, FALSE)
         /\ job'[p].content.kind = file.kind /\ job'[p].content.gen = file.gen
         /\ job'[p].content.login = file.login
         /\ UNCHANGED <<faults, logins, volume, session, history>>
<1>1. /\ pc[p] = "idle" /\ pc'[p] = "append" /\ lock = "free"
      /\ job'[p].op = "invalidate" /\ job'[p].mark = Revoking(file, FALSE)
      /\ job'[p].content = [file EXCEPT !.invalidated = (file.kind = "sealed")]
      /\ UNCHANGED <<faults, logins, volume, session, history>>
  BY Shapes, Constants DEF BeginInvalidate, Begin, Goto, Idle, Job
<1> QED
  BY <1>1, Shapes DEF Content

LEMMA DeleteBegins ==
  ASSUME TypeOK, NEW p \in Process, BeginDelete(p)
  PROVE  /\ pc[p] = "idle" /\ pc'[p] = "append" /\ lock = "free"
         /\ job'[p].op = "delete" /\ job'[p].mark = Revoking(file, TRUE)
         /\ job'[p].content.kind = "none" /\ job'[p].content.login = 0
         /\ job'[p].content.gen = 0
         /\ UNCHANGED <<faults, logins, volume, session, history>>
<1>1. /\ pc[p] = "idle" /\ pc'[p] = "append" /\ lock = "free"
      /\ job'[p].op = "delete" /\ job'[p].mark = Revoking(file, TRUE)
      /\ job'[p].content = NoJob.content
      /\ UNCHANGED <<faults, logins, volume, session, history>>
  BY Shapes, Constants DEF BeginDelete, Begin, Goto, Idle, Job
<1> QED
  BY <1>1 DEF NoJob, NoFile

LEMMA TouchBegins ==
  ASSUME TypeOK, NEW p \in Process, BeginTouch(p)
  PROVE  /\ pc[p] = "idle" /\ pc'[p] = "publish" /\ lock = "free"
         /\ job'[p].op = "touch" /\ job'[p].content = file /\ session[p].gen # 0
         /\ UNCHANGED <<faults, logins, volume, session, history>>
BY Shapes, Constants DEF BeginTouch, Begin, Goto, Idle, Job

LEMMA Leaves ==
  ASSUME TypeOK, NEW p \in Process, Leave(p)
  PROVE  /\ pc'[p] = "idle" /\ job'[p] = NoJob /\ job'[p].op = "none"
         /\ job'[p].content.login = 0 /\ job'[p].content.gen = 0
BY Shapes DEF Leave, Goto, NoJob, NoFile
-----------------------------------------------------------------------------
(* What a process's step does, by what it touches.                         *)

Act(p) == Request(p) \/ Record(p) \/ Store(p) \/ Load(p) \/ Enforce(p) \/ Crash(p)

LEMMA VolumeEffect ==
  ASSUME NEW p \in Process, Act(p)
  PROVE  /\ UNCHANGED <<file, backups>> \/ SaveNew(p) \/ Publish(p)
         /\ UNCHANGED dropped \/ RevocationReturns(p)
         /\ UNCHANGED logins \/ SignIn(p)
         /\ UNCHANGED <<faults, restored>>
<1>1. CASE Request(p)
  BY <1>1 DEF Request, SignIn, EndSession, SaveNew, BeginRefresh, StageRefresh, BeginInvalidate,
              BeginDelete, BeginTouch
<1>2. CASE Record(p)
  BY <1>2 DEF Record, Append, TornAppend, WriteAnchor, RecordRaises
<1>3. CASE Store(p)
  BY <1>3 DEF Store, Number, Publish, PublishFails, RefreshReturns, RevocationReturns
<1>4. CASE Load(p)
  BY <1>4 DEF Load, LoadFile, LoadLog, LoadReturns
<1>5. CASE Enforce(p) \/ Crash(p)
  BY <1>5 DEF Enforce, Crash
<1> QED
  BY <1>1, <1>2, <1>3, <1>4, <1>5 DEF Act

LEMMA MarkEffect ==
  ASSUME NEW p \in Process, Act(p)
  PROVE  UNCHANGED <<log, anchor>> \/ Append(p) \/ WriteAnchor(p)
<1>1. CASE Request(p)
  BY <1>1 DEF Request, SignIn, EndSession, SaveNew, BeginRefresh, StageRefresh, BeginInvalidate,
              BeginDelete, BeginTouch
<1>2. CASE Record(p)
  BY <1>2 DEF Record, TornAppend, RecordRaises
<1>3. CASE Store(p)
  BY <1>3 DEF Store, Number, Publish, PublishFails, RefreshReturns, RevocationReturns
<1>4. CASE Load(p) \/ Enforce(p) \/ Crash(p)
  BY <1>4 DEF Load, LoadFile, LoadLog, LoadReturns, Enforce, Crash
<1> QED
  BY <1>1, <1>2, <1>3, <1>4 DEF Act

LEMMA SessionEffect ==
  ASSUME TypeOK, NEW p \in Process, Act(p)
  PROVE  \/ session'[p] = session[p]
            /\ (pc[p] = "finish" /\ job[p].op = "refresh" => FALSE)
         \/ session'[p].gen = 0 /\ session'[p].login = 0
         \/ SignIn(p) /\ session'[p].gen = 0 /\ session'[p].login = logins + 1 /\ logins' = logins + 1
         \/ SaveNew(p) /\ session'[p].gen = 1 /\ session'[p].login = session[p].login
         \/ RefreshReturns(p) /\ pc[p] = "finish" /\ job[p].op = "refresh"
            /\ session'[p].gen = job[p].content.gen /\ session'[p].login = session[p].login
         \/ LoadReturns(p) /\ pc[p] = "load_anchor"
            /\ session'[p].gen = job[p].content.gen /\ session'[p].login = job[p].content.login
<1> USE Shapes
<1>1. CASE SignIn(p)
  BY <1>1 DEF SignIn
<1>2. CASE SaveNew(p)
  BY <1>2 DEF SaveNew, Session
<1>3. CASE RefreshReturns(p)
  BY <1>3 DEF RefreshReturns, Session
<1>4. CASE LoadReturns(p)
  BY <1>4 DEF LoadReturns
<1>5. CASE EndSession(p) \/ Enforce(p) \/ Crash(p)
  BY <1>5 DEF EndSession, Enforce, Crash, NoSession
<1>6. CASE RevocationReturns(p)
  BY <1>6 DEF RevocationReturns, NoSession
<1>7. CASE BeginRefresh(p) \/ BeginInvalidate(p) \/ BeginDelete(p) \/ BeginTouch(p) \/ LoadFile(p)
  BY <1>7 DEF BeginRefresh, StageRefresh, BeginInvalidate, BeginDelete, BeginTouch, LoadFile,
              Begin, Idle
<1>8. CASE Record(p) \/ Number(p) \/ Publish(p) \/ PublishFails(p) \/ LoadLog(p)
  BY <1>8 DEF Record, Append, TornAppend, WriteAnchor, RecordRaises, Number, Publish,
              PublishFails, LoadLog
<1> QED
  BY <1>1, <1>2, <1>3, <1>4, <1>5, <1>6, <1>7, <1>8 DEF Act, Request, Store, Load

LEMMA JobEffect ==
  ASSUME TypeOK, NEW p \in Process, Act(p)
  PROVE  \/ job'[p].content = job[p].content /\ job'[p].op = job[p].op
         \/ /\ pc'[p] = "idle" /\ job'[p].op = "none"
            /\ job'[p].content.login = 0 /\ job'[p].content.gen = 0
         \/ BeginRefresh(p) \/ BeginInvalidate(p) \/ BeginDelete(p) \/ BeginTouch(p) \/ Number(p)
         \/ LoadFile(p) /\ pc'[p] = "load_log" /\ job'[p].op = "load" /\ job'[p].content = file
<1> USE Shapes
<1>1. CASE LoadFile(p)
  BY <1>1, Constants DEF LoadFile, Goto, Job
<1>2. CASE LoadLog(p)
  <2>1. CASE Leave(p)
    BY <2>1, Leaves
  <2>2. CASE job' = [job EXCEPT ![p].mark = log]
    BY <2>2 DEF Job
  <2> QED BY <1>2, <2>1, <2>2 DEF LoadLog
<1>3. CASE Leave(p)
  BY <1>3, Leaves
<1>4. CASE job' = job
  BY <1>4
<1>5. ASSUME Request(p)
      PROVE  job' = job \/ BeginRefresh(p) \/ BeginInvalidate(p) \/ BeginDelete(p) \/ BeginTouch(p)
  BY <1>5 DEF Request, SignIn, EndSession, SaveNew
<1>6. ASSUME Record(p) \/ Store(p) \/ LoadReturns(p) \/ Enforce(p) \/ Crash(p)
      PROVE  job' = job \/ Leave(p) \/ Number(p)
  BY <1>6 DEF Record, Append, TornAppend, WriteAnchor, RecordRaises, Store, Number, Publish,
              PublishFails, RefreshReturns, RevocationReturns, LoadReturns, Enforce, Crash
<1> QED
  BY <1>1, <1>2, <1>3, <1>4, <1>5, <1>6 DEF Act, Load

\* What a step leaves in the jar's file and its copies.
LEMMA WriteEffect ==
  ASSUME TypeOK, NEW p \in Process, Act(p)
  PROVE  \/ UNCHANGED <<file, backups>>
         \/ SaveNew(p) /\ backups = {} /\ backups' = {file'} /\ pc[p] = "idle" /\ lock = "free"
            /\ file'.gen = 1 /\ file'.login = session[p].login /\ file'.kind = "sealed"
         \/ Publish(p) /\ file' = NoFile /\ UNCHANGED backups
         \/ Publish(p) /\ file' = job[p].content /\ job[p].op # "delete"
            /\ backups' = backups \cup {c \in {job[p].content} : c.kind = "sealed"}
<1>1. CASE SaveNew(p)
  BY <1>1 DEF SaveNew, Write, Sealed, Idle
<1>2. CASE Publish(p)
  BY <1>2 DEF Publish, Write
<1> QED
  BY <1>1, <1>2, VolumeEffect

(***************************************************************************)
(* While the log can be read, generations are counted: each is below the   *)
(* terminal marker.                                                        *)
(***************************************************************************)
Counted ==
  "unreadable" \notin faults =>
    /\ file.gen < Top /\ \A c \in backups : c.gen < Top
    /\ \A q \in Process : job[q].content.gen < Top

LEMMA CountedInit == Init => Counted
BY JarAssumption DEF Init, Counted, NoFile, NoJob

LEMMA CountedStep ==
  ASSUME TypeOK, StoreInv, Counted, [Next]_vars
  PROVE  Counted'
<1> SUFFICES ASSUME "unreadable" \notin faults'
             PROVE  /\ file'.gen < Top /\ \A c \in backups' : c.gen < Top
                    /\ \A q \in Process : job'[q].content.gen < Top
  BY DEF Counted
<1>1. faults' = faults
  BY MarksStep DEF MarksGrow
<1>2. /\ file.gen < Top /\ \A c \in backups : c.gen < Top
      /\ \A q \in Process : job[q].content.gen < Top
  BY <1>1 DEF Counted
<1>3. 1 < Top /\ 0 < Top /\ NoFile.gen = 0
  BY JarAssumption DEF NoFile
<1>4. ASSUME NEW p \in Process, Act(p)
      PROVE  /\ file'.gen < Top /\ \A c \in backups' : c.gen < Top
             /\ \A q \in Process : job'[q].content.gen < Top
  <2>1. file'.gen < Top /\ \A c \in backups' : c.gen < Top
    BY <1>2, <1>3, <1>4, WriteEffect
  <2>2. job'[p].content.gen < Top
    <3>1. CASE Number(p)
      <4>1. /\ job'[p].content.gen \in Published
            /\ job'[p].content.gen = NextGeneration(job[p].content, InForce)
        BY <1>1, <3>1, Numbers
      <4>2. InForce.gen < Top /\ job[p].content.gen < Top
        BY <1>2, <3>1, Numbers DEF StoreInv, Numbering, Refreshing, Locked
      <4>3. job'[p].content.gen <= Top
        BY <4>1, <4>2, Shapes, JarAssumption DEF NextGeneration, Larger, Mark
      <4> QED BY <4>1, <4>3, JarAssumption DEF Published, Generation
    <3>2. CASE BeginRefresh(p) \/ BeginInvalidate(p) \/ BeginTouch(p)
      BY <1>2, <3>2, RefreshBegins, InvalidateBegins, TouchBegins
    <3>3. CASE job'[p].content.gen = job[p].content.gen \/ job'[p].content.gen = 0
      BY <1>2, <1>3, <3>3
    <3>4. CASE LoadFile(p)
      BY <1>2, <3>4, Shapes, Constants DEF LoadFile, Job
    <3>5. BeginDelete(p) => job'[p].content.gen = 0
      BY DeleteBegins
    <3> QED BY <1>4, <3>1, <3>2, <3>3, <3>4, <3>5, JobEffect
  <2>3. \A q \in Process : q # p => job'[q] = job[q]
    BY <1>4, OthersStay DEF Act
  <2> QED BY <1>2, <2>1, <2>2, <2>3
<1>5. Restore \/ Garble => file'.gen < Top /\ UNCHANGED <<backups, job>>
  BY <1>2, <1>3 DEF Restore, Garble, NoFile
<1>6. UNCHANGED vars => UNCHANGED <<file, backups, job>>
  BY DEF vars
<1> QED
  BY <1>2, <1>4, <1>5, <1>6 DEF Next, Act

(***************************************************************************)
(* A refresh that is about to report success has published a generation    *)
(* above every mark, whatever file it started from and whatever it read of *)
(* the log; and one below the terminal marker, unless the log could not be *)
(* read.                                                                   *)
(***************************************************************************)
THEOREM RefreshCorrect == Spec => []RefreshIsLoadable
<1>1. TypeOK /\ StoreInv /\ Counted => RefreshIsLoadable
  <2> SUFFICES ASSUME TypeOK, StoreInv, Counted, NEW p \in Process,
                      pc[p] = "finish", job[p].op = "refresh"
               PROVE  /\ ~Blocks(InForce, job[p].content.gen)
                      /\ job[p].content.gen > Top => "unreadable" \in faults
    BY DEF RefreshIsLoadable
  <2>1. ~InForce.deleted /\ InForce.gen < job[p].content.gen
    BY DEF StoreInv, Refreshing, Locked
  <2>2. ~Blocks(InForce, job[p].content.gen)
    BY <2>1, Shapes, JarAssumption DEF Blocks, Mark
  <2>3. "unreadable" \notin faults => job[p].content.gen < Top
    BY DEF Counted
  <2> QED
    BY <2>2, <2>3, Shapes, JarAssumption
<1>2. Init => TypeOK /\ StoreInv /\ Counted
  BY InitType, StoreInit, CountedInit
<1>3. TypeOK /\ StoreInv /\ Counted /\ [Next]_vars => (TypeOK /\ StoreInv /\ Counted)'
  BY NextType, StoreNext, CountedStep
<1> QED
  BY <1>1, <1>2, <1>3, PTL DEF Spec

LEMMA BoundedStep ==
  ASSUME TypeOK, StoreInv, DroppedInv, [Next]_vars
  PROVE  Bounded'
<1> USE Shapes DEF Bounded
<1>0. Bounded
  BY DEF DroppedInv
<1>1. ASSUME NEW p \in Process, Act(p)
      PROVE  Bounded'
  <2>1. logins' \in Nat /\ logins <= logins'
    BY <1>1, VolumeEffect DEF SignIn
  <2>2. file'.login <= logins /\ \A c \in backups' : c.login <= logins /\ c.gen > 0
    <3>1. CASE UNCHANGED <<file, backups>>
      BY <1>0, <3>1
    <3>2. CASE SaveNew(p) /\ backups' = {file'} /\ file'.gen = 1 /\ file'.login = session[p].login
      BY <1>0, <3>2
    <3>3. CASE Publish(p) /\ file' = NoFile /\ UNCHANGED backups
      BY <1>0, <3>3 DEF NoFile
    <3>4. CASE Publish(p) /\ file' = job[p].content
               /\ backups' = backups \cup {c \in {job[p].content} : c.kind = "sealed"}
      <4>1. job[p].content.kind = "sealed" => job[p].content.gen > 0
        BY <3>4 DEF Publish, DroppedInv, Seeded, Locked
      <4> QED BY <1>0, <3>4, <4>1
    <3> QED BY <1>1, <3>1, <3>2, <3>3, <3>4, WriteEffect
  <2>3. \A l \in dropped' : l <= logins
    BY <1>0, <1>1, VolumeEffect DEF RevocationReturns
  <2>4. session'[p].login <= logins'
    BY <1>0, <1>1, <2>1, SessionEffect
  <2>5. job'[p].content.login <= logins
    <3>1. CASE job'[p].content = job[p].content \/ job'[p].content.login = 0
      BY <1>0, <3>1
    <3>2. CASE BeginRefresh(p)
      BY <1>0, <3>2, RefreshBegins
    <3>3. CASE BeginInvalidate(p)
      BY <1>0, <3>3, InvalidateBegins
    <3>4. CASE BeginDelete(p)
      <4>1. job'[p].content.login = 0
        BY <3>4, DeleteBegins
      <4>2. logins \in Nat
        BY Shapes
      <4> QED BY <4>1, <4>2
    <3>5. CASE BeginTouch(p)
      BY <1>0, <3>5, TouchBegins
    <3>6. CASE job'[p].content = file
      BY <1>0, <3>6
    <3>7. CASE Number(p)
      BY <1>0, <3>7, Numbers
    <3> QED BY <1>1, <3>1, <3>2, <3>3, <3>4, <3>5, <3>6, <3>7, JobEffect
  <2>6. \A q \in Process \ {p} : session'[q] = session[q] /\ job'[q] = job[q]
    BY <1>1, OthersStay DEF Act
  <2>7. /\ file'.login \in Nat /\ \A l \in dropped' : l \in Nat
        /\ \A c \in backups' : c.login \in Nat
        /\ job'[p].content.login \in Nat
    <3>1. TypeOK'
      BY NextType
    <3>2. /\ file' \in Content /\ backups' \subseteq Content /\ dropped' \subseteq 0 .. MaxLogins
          /\ job' \in [Process -> Job]
      BY <3>1 DEF TypeOK
    <3>3. job'[p].content \in Content
      BY <3>2 DEF Job
    <3> QED BY <3>2, <3>3, JarAssumption DEF Content
  <2> QED
    BY <1>0, <2>1, <2>2, <2>3, <2>4, <2>5, <2>6, <2>7
<1>2. CASE Garble
  BY <1>0, <1>2 DEF Garble, NoFile
<1>3. CASE Restore
  BY <1>0, <1>3 DEF Restore
<1>4. CASE UNCHANGED vars
  BY <1>0, <1>4 DEF vars
<1> QED
  BY <1>1, <1>2, <1>3, <1>4 DEF Next, Act

\* The login of the content a step leaves in a job comes from that process's
\* session, its job or the file.
LEMMA ContentLogin ==
  ASSUME TypeOK, NEW p \in Process, Act(p)
  PROVE  \/ job'[p].content.login \in {0, file.login}
         \/ job'[p].content.login = job[p].content.login /\ job'[p].op = job[p].op
         \/ job'[p].content.login = session[p].login /\ job'[p].op = "refresh"
<1>1. CASE BeginRefresh(p)
  BY <1>1, RefreshBegins
<1>2. CASE BeginInvalidate(p)
  BY <1>2, InvalidateBegins
<1>3. CASE BeginDelete(p)
  BY <1>3, DeleteBegins
<1>4. CASE BeginTouch(p)
  BY <1>4, TouchBegins
<1>5. CASE Number(p)
  BY <1>5, Numbers
<1> QED
  BY <1>1, <1>2, <1>3, <1>4, <1>5, JobEffect

LEMMA UnsavedStep ==
  ASSUME TypeOK, StoreInv, DroppedInv, [Next]_vars, NEW q \in Process
  PROVE  Unsaved(q)'
<1>0. /\ Unsaved(q) /\ Bounded
      /\ \A r \in Process : Seeded(r)
  BY DEF DroppedInv
<1> DEFINE me == session[q].login
<1>1. ASSUME NEW p \in Process, Act(p), p # q, Fresh(q)'
      PROVE  Unsaved(q)'
  <2>1. session'[q] = session[q] /\ pc'[q] = pc[q] /\ job'[q] = job[q]
    BY <1>1, OthersStay DEF Act
  <2>2. Fresh(q)
    BY <1>1, <2>1 DEF Fresh
  <2>3. /\ me \notin dropped /\ file.login # me /\ \A c \in backups : c.login # me
        /\ session[p].login # me /\ job[p].content.login # me /\ me # 0
        /\ \A r \in Process : r # q => session[r].login # me
        /\ \A r \in Process : r # q \/ job[r].op # "refresh" => job[r].content.login # me
    BY <1>0, <1>1, <2>2 DEF Unsaved, Fresh
  <2>4. me \notin dropped'
    BY <1>1, <2>3, VolumeEffect DEF RevocationReturns
  <2>5. file'.login # me /\ \A c \in backups' : c.login # me
    BY <1>1, <2>3, WriteEffect DEF NoFile
  <2>6. session'[p].login # me
    BY <1>0, <1>1, <2>3, SessionEffect, Shapes DEF Bounded
  <2>7. job'[p].content.login # me
    BY <1>1, <2>3, ContentLogin
  <2>8. \A r \in Process \ {p} : session'[r] = session[r] /\ job'[r] = job[r]
    BY <1>1, OthersStay DEF Act
  <2> QED
    BY <2>1, <2>3, <2>4, <2>5, <2>6, <2>7, <2>8 DEF Unsaved
<1>2. ASSUME Act(q), Fresh(q)'
      PROVE  Unsaved(q)'
  <2>1. \A r \in Process \ {q} : session'[r] = session[r] /\ job'[r] = job[r]
    BY <1>2, OthersStay DEF Act
  <2>2. CASE SignIn(q)
    <3>1. /\ session'[q].login = logins + 1 /\ job' = job
          /\ UNCHANGED <<file, backups, dropped>>
      BY <2>2, Shapes DEF SignIn
    <3> QED BY <1>0, <2>1, <3>1, Shapes DEF Unsaved, Bounded
  <2>3. CASE session'[q] = session[q] /\ ~(pc[q] = "finish" /\ job[q].op = "refresh")
    <3>1. Fresh(q)
      BY <1>2, <2>3 DEF Fresh
    <3>2. /\ me \notin dropped /\ file.login # me /\ \A c \in backups : c.login # me
          /\ me # 0 /\ me \in Nat
          /\ \A r \in Process : r # q => session[r].login # me
          /\ \A r \in Process : r # q \/ job[r].op # "refresh" => job[r].content.login # me
      BY <1>0, <3>1, Shapes DEF Unsaved, Fresh
    <3>3. me \notin dropped'
      BY <1>2, <3>2, VolumeEffect DEF RevocationReturns
    <3>4. ~(Publish(q) /\ job[q].op = "refresh")
      BY <1>2, Shapes DEF Publish, Fresh, Goto
    <3>5. ~SaveNew(q)
      <4>1. ASSUME SaveNew(q)
            PROVE  session'[q].gen = 1
        BY <4>1, Shapes DEF SaveNew, Session
      <4> QED BY <4>1, <1>2 DEF Fresh
    <3>6. file'.login # me /\ \A c \in backups' : c.login # me
      <4>1. job[q].op # "refresh" => job[q].content.login # me
        BY <3>2
      <4>2. CASE file' = job[q].content /\ Publish(q)
                 /\ backups' = backups \cup {c \in {job[q].content} : c.kind = "sealed"}
        BY <3>2, <3>4, <4>1, <4>2
      <4>3. CASE file' = NoFile /\ UNCHANGED backups
        <5>1. file'.login = 0
          BY <4>3 DEF NoFile
        <5> QED BY <3>2, <4>3, <5>1
      <4> QED BY <1>2, <3>2, <3>5, <4>2, <4>3, WriteEffect
    <3>7. job'[q].op # "refresh" => job'[q].content.login # me
      <4>1. job[q].op # "refresh" => job[q].content.login # me
        BY <3>2
      <4> QED BY <1>2, <3>2, <4>1, ContentLogin
    <3> QED
      BY <2>1, <2>3, <3>2, <3>3, <3>6, <3>7 DEF Unsaved
  <2>4. session'[q].gen = 0 /\ session'[q].login # 0
    BY <1>2 DEF Fresh
  <2>5. ASSUME RefreshReturns(q), pc[q] = "finish", job[q].op = "refresh",
               session'[q].gen = job[q].content.gen
        PROVE  FALSE
    BY <1>0, <2>4, <2>5, Shapes DEF Seeded, Locked
  <2>6. ASSUME LoadReturns(q), pc[q] = "load_anchor", session'[q].gen = job[q].content.gen
        PROVE  FALSE
    BY <1>0, <2>4, <2>6, Shapes DEF Seeded, Bounded
  <2> QED
    BY <1>2, <2>2, <2>3, <2>4, <2>5, <2>6, SessionEffect
<1>3. CASE Garble \/ Restore
  BY <1>0, <1>3 DEF Garble, Restore, Unsaved, Fresh, NoFile
<1>4. CASE UNCHANGED vars
  BY <1>0, <1>4 DEF vars, Unsaved, Fresh
<1> QED
  BY <1>1, <1>2, <1>3, <1>4 DEF Next, Act, Unsaved

LEMMA BackupsGrow ==
  ASSUME TypeOK, [Next]_vars
  PROVE  backups \subseteq backups'
<1>1. ASSUME NEW p \in Process, Act(p)
      PROVE  backups \subseteq backups'
  BY <1>1, WriteEffect
<1>2. ASSUME Garble \/ Restore \/ UNCHANGED vars
      PROVE  backups \subseteq backups'
  BY <1>2 DEF Garble, Restore, vars
<1> QED
  BY <1>1, <1>2 DEF Next, Act

\* Where a process is after its step: an entry to a locked operation, a move
\* within one with its job and its session kept, or outside.
LEMMA Moves ==
  ASSUME TypeOK, NEW p \in Process, Act(p)
  PROVE  \/ BeginRefresh(p) \/ BeginInvalidate(p) \/ BeginDelete(p) \/ BeginTouch(p)
         \/ Number(p)
         \/ /\ Locked(p) /\ Locked(p)' /\ job'[p] = job[p] /\ session'[p] = session[p]
            /\ pc[p] # "finish" /\ pc'[p] # "number"
            /\ (pc'[p] = "finish" => Publish(p) \/ PublishFails(p))
            /\ \/ Publish(p)
               \/ UNCHANGED <<file, backups, dropped>>
         \/ ~Locked(p)'
<1> USE Shapes DEF Locked, Goto
<1>1. ASSUME Request(p)
      PROVE  BeginRefresh(p) \/ BeginInvalidate(p) \/ BeginDelete(p) \/ BeginTouch(p) \/ ~Locked(p)'
  BY <1>1 DEF Request, SignIn, EndSession, SaveNew, Idle
<1>2. CASE Leave(p)
  BY <1>2 DEF Leave
<1>3. CASE Append(p) \/ WriteAnchor(p) \/ Publish(p)
  BY <1>3 DEF Append, WriteAnchor, Publish
<1>4. CASE PublishFails(p)
  BY <1>2, <1>4 DEF PublishFails
<1>5. CASE Load(p) \/ Enforce(p) \/ Crash(p)
  BY <1>2, <1>5 DEF Load, LoadFile, LoadLog, LoadReturns, Enforce, Crash, Idle
<1>6. ASSUME Record(p) \/ Store(p)
      PROVE  Leave(p) \/ Number(p) \/ Append(p) \/ WriteAnchor(p) \/ Publish(p) \/ PublishFails(p)
  BY <1>6 DEF Record, TornAppend, RecordRaises, Store, RefreshReturns, RevocationReturns
<1> QED
  BY <1>1, <1>2, <1>3, <1>4, <1>5, <1>6 DEF Act

LEMMA SeededStep ==
  ASSUME TypeOK, StoreInv, DroppedInv, [Next]_vars, NEW q \in Process
  PROVE  Seeded(q)'
<1>0. Seeded(q) /\ FileBacked /\ backups \subseteq backups'
  BY BackupsGrow DEF DroppedInv, StoreInv
<1>1. CASE session'[q] = session[q] /\ pc'[q] = pc[q] /\ job'[q] = job[q]
  BY <1>0, <1>1 DEF Seeded, Locked
<1>2. ASSUME Act(q)
      PROVE  Seeded(q)'
  <2>1. ASSUME session'[q].gen # 0
        PROVE  \E c \in backups' : c.gen = session'[q].gen /\ c.login = session'[q].login
    <3>1. CASE session'[q] = session[q]
      BY <1>0, <2>1, <3>1 DEF Seeded
    <3>2. CASE SaveNew(q) /\ session'[q].gen = 1 /\ session'[q].login = session[q].login
      <4>1. file' \in backups' /\ file'.gen = 1 /\ file'.login = session[q].login
        BY <3>2 DEF SaveNew, Write, Sealed
      <4> QED BY <3>2, <4>1
    <3>3. CASE /\ pc[q] = "finish" /\ job[q].op = "refresh"
               /\ session'[q].gen = job[q].content.gen /\ session'[q].login = session[q].login
      BY <1>0, <3>3 DEF Seeded, Locked
    <3>4. CASE /\ pc[q] = "load_anchor"
               /\ session'[q].gen = job[q].content.gen /\ session'[q].login = job[q].content.login
      BY <1>0, <3>4 DEF Seeded
    <3> QED BY <1>2, <2>1, <3>1, <3>2, <3>3, <3>4, SessionEffect
  <2>2. ASSUME pc'[q] \in {"load_log", "load_anchor"}
        PROVE  job'[q].content \in backups'
    <3>1. CASE LoadFile(q)
      <4>1. job'[q].content = file /\ file.kind = "sealed"
        BY <3>1, Shapes, Constants DEF LoadFile, Job
      <4> QED BY <1>0, <4>1 DEF FileBacked
    <3>2. ASSUME ~LoadFile(q)
          PROVE  LoadLog(q) /\ pc[q] = "load_log"
      <4> USE Shapes DEF Goto, Leave
      <4>1. ASSUME Request(q) \/ Enforce(q) \/ Crash(q)
            PROVE  pc'[q] \in {"idle", "number", "append", "publish"}
        BY <4>1 DEF Request, SignIn, EndSession, SaveNew, BeginRefresh, StageRefresh,
                    BeginInvalidate, BeginDelete, BeginTouch, Begin, Enforce, Idle, Crash
      <4>2. ASSUME Record(q) \/ Store(q) \/ LoadReturns(q)
            PROVE  pc'[q] \in {"idle", "append", "anchor", "publish", "finish"}
        BY <4>2 DEF Record, Append, TornAppend, WriteAnchor, RecordRaises, Store, Number, Publish,
                    PublishFails, RefreshReturns, RevocationReturns, LoadReturns
      <4> QED BY <1>2, <2>2, <3>2, <4>1, <4>2 DEF Act, Load, LoadLog
    <3>3. CASE LoadLog(q) /\ pc[q] = "load_log"
      <4>1. job' = [job EXCEPT ![q].mark = log]
        BY <2>2, <3>3, Leaves DEF LoadLog
      <4>2. job'[q].content = job[q].content
        BY <4>1, Shapes DEF Job
      <4> QED BY <1>0, <3>3, <4>2 DEF Seeded
    <3> QED BY <3>1, <3>2, <3>3
  <2>3. ASSUME Locked(q)'
        PROVE  /\ job'[q].op \in {"touch", "refresh", "invalidate", "delete"}
               /\ job'[q].content.kind = "sealed" => job'[q].content.gen > 0
               /\ job'[q].op = "touch" /\ job'[q].content.kind = "sealed" =>
                    job'[q].content \in backups'
               /\ job'[q].op = "refresh" =>
                    job'[q].content.kind = "sealed" /\ job'[q].content.login = session'[q].login
               /\ job'[q].op = "refresh" /\ pc'[q] = "finish" => job'[q].content \in backups'
    <3>0. file.kind = "sealed" => file \in backups /\ file.gen > 0
      BY <1>0 DEF FileBacked, DroppedInv, Bounded
    <3>1. CASE BeginRefresh(q)
      BY <3>0, <3>1, RefreshBegins
    <3>2. CASE BeginInvalidate(q)
      BY <3>0, <3>2, InvalidateBegins
    <3>3. CASE BeginDelete(q)
      BY <3>3, DeleteBegins
    <3>4. CASE BeginTouch(q)
      BY <1>0, <3>0, <3>4, TouchBegins
    <3>5. CASE /\ Locked(q) /\ job'[q] = job[q] /\ session'[q] = session[q]
               /\ (pc'[q] = "finish" => Publish(q) \/ PublishFails(q))
      <4>1. ASSUME job[q].op = "refresh", pc'[q] = "finish"
            PROVE  job[q].content \in backups'
        <5>1. CASE Publish(q)
          BY <1>0, <3>5, <4>1, <5>1 DEF Publish, Write, Seeded, NoFile
        <5>2. CASE PublishFails(q)
          BY <4>1, <5>2, Leaves DEF PublishFails
        <5> QED BY <3>5, <4>1, <5>1, <5>2
      <4> QED BY <1>0, <3>5, <4>1 DEF Seeded
    <3>6. CASE Number(q)
      <4>1. /\ job[q].op = "refresh" /\ Locked(q) /\ pc'[q] # "finish"
            /\ job'[q].op = job[q].op /\ session'[q] = session[q]
            /\ job'[q].content.kind = job[q].content.kind
            /\ job'[q].content.login = job[q].content.login
            /\ job'[q].content.gen > 0
        BY <3>6, Numbers, JarAssumption
        DEF StoreInv, Numbering, Locked, Published, Generation
      <4> QED BY <1>0, <4>1 DEF Seeded
    <3> QED BY <1>2, <2>3, <3>1, <3>2, <3>3, <3>4, <3>5, <3>6, Moves
  <2> QED BY <2>1, <2>2, <2>3 DEF Seeded
<1>3. ASSUME NEW p \in Process, Act(p), p # q
      PROVE  session'[q] = session[q] /\ pc'[q] = pc[q] /\ job'[q] = job[q]
  BY <1>3, OthersStay DEF Act
<1>4. ASSUME Garble \/ Restore \/ UNCHANGED vars
      PROVE  session'[q] = session[q] /\ pc'[q] = pc[q] /\ job'[q] = job[q]
  BY <1>4 DEF Garble, Restore, vars
<1> QED
  BY <1>1, <1>2, <1>3, <1>4 DEF Next, Act

LEMMA CalmBefore ==
  ASSUME TypeOK, [Next]_vars
  PROVE  Calm' => Calm /\ ~Restore
<1>1. ASSUME NEW p \in Process, Act(p)
      PROVE  UNCHANGED <<faults, restored>>
  BY <1>1, VolumeEffect
<1>2. Restore => restored' # 0
  BY Shapes DEF Restore
<1>3. Garble \/ UNCHANGED vars => UNCHANGED <<faults, restored>>
  BY DEF Garble, vars
<1> QED
  BY <1>1, <1>2, <1>3 DEF Next, Act, Calm, OneCopyHolds

\* A lost file is nobody's to write back: only a first save follows it.
LEMMA LostStays ==
  ASSUME TypeOK, StoreInv, [Next]_vars, Calm', Lost
  PROVE  Lost' \/ \E p \in Process : SaveNew(p)
<1>0. ~Restore
  BY CalmBefore
<1>1. ASSUME NEW q \in Process, Locked(q)'
      PROVE  job'[q].content.kind # "sealed"
  <2>1. CASE Locked(q) /\ job'[q] = job[q]
    BY <2>1 DEF Lost
  <2>2. ASSUME Act(q)
        PROVE  job'[q].content.kind # "sealed"
    <3>1. ~BeginRefresh(q)
      BY DEF BeginRefresh, StageRefresh, Lost
    <3>2. BeginInvalidate(q) \/ BeginDelete(q) \/ BeginTouch(q) => job'[q].content.kind # "sealed"
      BY InvalidateBegins, DeleteBegins, TouchBegins DEF Lost, NoFile
    <3>3. CASE Number(q)
      BY <3>3, Numbers DEF Lost, Locked
    <3> QED BY <1>1, <2>1, <2>2, <3>1, <3>2, <3>3, Moves
  <2>3. ASSUME NEW p \in Process, Act(p), p # q
        PROVE  Locked(q) /\ job'[q] = job[q]
    BY <1>1, <2>3, OthersStay DEF Act, Locked
  <2>4. Garble \/ UNCHANGED vars => Locked(q) /\ job'[q] = job[q]
    BY <1>1 DEF Garble, vars, Locked
  <2> QED
    BY <1>0, <2>1, <2>2, <2>3, <2>4 DEF Next, Act
<1>2. ASSUME NEW p \in Process, Act(p), ~SaveNew(p)
      PROVE  file'.kind # "sealed"
  BY <1>2, WriteEffect DEF Lost, NoFile, Publish, Locked
<1>3. Garble => file'.kind = "garbled"
  BY Constants DEF Garble, Content
<1>4. UNCHANGED vars => file'.kind # "sealed"
  BY DEF vars, Lost
<1> QED
  BY <1>0, <1>1, <1>2, <1>3, <1>4 DEF Next, Act, Lost

LEMMA ReplacingStep ==
  ASSUME TypeOK, StoreInv, DroppedInv, [Next]_vars, NEW q \in Process
  PROVE  Replacing(q)'
<1> SUFFICES ASSUME Calm', Locked(q)'
    PROVE  /\ job'[q].content.kind = "sealed" => \A c \in backups' : c.gen <= job'[q].content.gen
           /\ job'[q].op \in {"invalidate", "delete"} =>
                /\ Lost' \/ \A c \in backups' : Blocks(job'[q].mark, c.gen)
                /\ job'[q].content.kind = "sealed" => Blocks(job'[q].mark, job'[q].content.gen)
           /\ job'[q].op = "refresh" => job'[q].content.login \notin dropped'
           /\ job'[q].op = "refresh" /\ pc'[q] # "finish" =>
                \A c \in backups' : Blocks(job'[q].mark, c.gen)
  BY DEF Replacing
<1>0. Calm /\ ~Restore /\ Replacing(q) /\ Seeded(q) /\ Unsaved(q) /\ Newest /\ Kept
  BY CalmBefore DEF DroppedInv
<1>l. Locked(q) /\ Lost => Lost'
  BY LostStays, JarAssumption DEF StoreInv, LocksHeld, SaveNew
<1>1. CASE Locked(q) /\ pc'[q] = pc[q] /\ job'[q] = job[q] /\ UNCHANGED <<backups, dropped>>
  BY <1>0, <1>1, <1>l DEF Replacing
<1>2. ASSUME Act(q)
      PROVE  Replacing(q)'
  <2>1. CASE BeginRefresh(q)
    <3>1. session[q].login \notin dropped
      <4>1. CASE session[q].gen = 0
        <5>1. session[q].login # 0
          BY <2>1 DEF BeginRefresh, StageRefresh
        <5>2. pc[q] = "idle"
          BY <2>1, RefreshBegins
        <5> QED BY <1>0, <4>1, <5>1, <5>2 DEF Unsaved, Fresh
      <4>2. CASE session[q].gen # 0
        <5>1. PICK c \in backups : c.gen = session[q].gen /\ c.login = session[q].login
          BY <1>0, <4>2 DEF Seeded
        <5>2. ~Blocks(InForce, session[q].gen)
          BY <2>1, <4>2 DEF BeginRefresh
        <5>3. ~Lost
          BY <2>1 DEF BeginRefresh, StageRefresh, Lost
        <5> QED BY <1>0, <5>1, <5>2, <5>3 DEF Kept
      <4> QED BY <4>1, <4>2
    <3>3. file.kind = "sealed" /\ \A c \in backups : c.gen <= file.gen
      BY <1>0, <2>1, RefreshBegins DEF Newest
    <3>4. \A c \in backups : Blocks(Revoking(file, FALSE), c.gen)
      BY <3>3 DEF Blocks, Revoking
    <3>5. /\ job'[q].op = "refresh" /\ job'[q].mark = Revoking(file, FALSE)
          /\ job'[q].content.gen = file.gen /\ job'[q].content.login = session[q].login
          /\ backups' = backups /\ dropped' = dropped
      BY <2>1, RefreshBegins
    <3> QED BY <3>1, <3>3, <3>4, <3>5 DEF Replacing
  <2>2. CASE BeginInvalidate(q)
    <3>1. file.kind = "sealed" => \A c \in backups : c.gen <= file.gen
      BY <1>0 DEF Newest
    <3>2. Lost' \/ \A c \in backups : Blocks(Revoking(file, FALSE), c.gen)
      <4>1. CASE file.kind = "sealed"
        BY <3>1, <4>1 DEF Blocks, Revoking
      <4>2. CASE file.kind # "sealed"
        <5>1. lock = "free"
          BY <2>2 DEF BeginInvalidate, Begin
        <5>2. Lost
          BY <4>2, <5>1, JarAssumption DEF Lost, StoreInv, LocksHeld
        <5> QED BY <2>2, <5>2, LostStays, JarAssumption DEF BeginInvalidate, SaveNew
      <4> QED BY <4>1, <4>2
    <3>3. file.kind = "sealed" => Blocks(Revoking(file, FALSE), file.gen)
      BY Shapes DEF Blocks, Revoking
    <3> QED BY <2>2, <3>1, <3>2, <3>3, InvalidateBegins DEF Replacing
  <2>3. CASE BeginDelete(q)
    <3>1. \A g : Blocks(Revoking(file, TRUE), g)
      BY DEF Blocks, Revoking
    <3> QED BY <2>3, <3>1, DeleteBegins DEF Replacing
  <2>4. CASE BeginTouch(q)
    BY <1>0, <2>4, TouchBegins DEF Replacing, Newest
  <2>5. CASE Locked(q) /\ job'[q] = job[q] /\ Publish(q)
    <3>1. dropped' = dropped /\ pc'[q] = "finish"
      BY <2>5, Shapes DEF Publish, Goto
    <3>2. \A c \in backups' : c \in backups \/ (c = job[q].content /\ c.kind = "sealed")
      BY <2>5 DEF Publish, Write
    <3> QED BY <1>0, <1>l, <2>5, <3>1, <3>2, Shapes DEF Replacing
  <2>6. CASE /\ Locked(q) /\ pc[q] # "finish" /\ job'[q] = job[q]
             /\ UNCHANGED <<file, backups, dropped>>
    BY <1>0, <1>l, <2>6 DEF Replacing
  <2>7. CASE Number(q)
    <3>1. /\ job[q].op = "refresh" /\ Locked(q) /\ pc[q] # "finish"
          /\ job'[q].op = job[q].op /\ job'[q].mark = job[q].mark
          /\ job'[q].content.kind = job[q].content.kind
          /\ job'[q].content.login = job[q].content.login
          /\ job'[q].content.gen > job[q].content.gen
          /\ job'[q].content.gen \in Nat
          /\ backups' = backups /\ dropped' = dropped
      BY <2>7, Numbers, JarAssumption
      DEF StoreInv, Numbering, Locked, Published, Generation
    <3>2. job[q].content.kind = "sealed" => \A c \in backups : c.gen <= job'[q].content.gen
      BY <1>0, <3>1, Shapes DEF Replacing
    <3> QED BY <1>0, <3>1, <3>2 DEF Replacing
  <2> QED BY <1>2, <2>1, <2>2, <2>3, <2>4, <2>5, <2>6, <2>7, Moves
<1>3. ASSUME NEW p \in Process, Act(p), p # q
      PROVE  Locked(q) /\ pc'[q] = pc[q] /\ job'[q] = job[q] /\ UNCHANGED <<backups, dropped>>
  <2>1. pc'[q] = pc[q] /\ job'[q] = job[q] /\ Locked(q)
    BY <1>3, OthersStay DEF Act, Locked
  <2>2. lock = q /\ lock # "free" /\ ~Locked(p)
    BY <1>3, <2>1, JarAssumption DEF StoreInv, LocksHeld
  <2>3. UNCHANGED <<backups, dropped>>
    BY <1>3, <2>2, VolumeEffect DEF SaveNew, Publish, RevocationReturns, Locked
  <2> QED BY <2>1, <2>3
<1>4. ASSUME Garble \/ UNCHANGED vars
      PROVE  Locked(q) /\ pc'[q] = pc[q] /\ job'[q] = job[q] /\ UNCHANGED <<backups, dropped>>
  BY <1>4 DEF Garble, vars, Locked
<1>5. CASE Replacing(q)'
  BY <1>5 DEF Replacing
<1> QED
  BY <1>0, <1>1, <1>2, <1>3, <1>4, <1>5 DEF Next, Act

LEMMA NewestStep ==
  ASSUME TypeOK, StoreInv, DroppedInv, [Next]_vars
  PROVE  Newest'
<1> SUFFICES ASSUME Calm', file'.kind = "sealed", NEW c \in backups'
    PROVE  c.gen <= file'.gen
  BY DEF Newest
<1>0. Calm /\ ~Restore /\ Newest
  BY CalmBefore DEF DroppedInv
<1>1. CASE UNCHANGED <<file, backups>>
  BY <1>0, <1>1 DEF Newest
<1>2. ASSUME NEW p \in Process, Act(p)
      PROVE  c.gen <= file'.gen
  <2>1. CASE backups' = {file'} /\ file'.gen = 1
    BY <2>1
  <2>2. CASE file' = NoFile
    BY <2>2 DEF NoFile
  <2>3. CASE /\ Publish(p) /\ file' = job[p].content
             /\ backups' = backups \cup {d \in {job[p].content} : d.kind = "sealed"}
    <3>1. \A d \in backups : d.gen <= job[p].content.gen
      BY <1>0, <2>3 DEF DroppedInv, Replacing, Publish, Locked
    <3>2. c \in backups \/ c = job[p].content
      BY <2>3
    <3> QED BY <2>3, <3>1, <3>2, Shapes
  <2> QED BY <1>1, <1>2, <2>1, <2>2, <2>3, WriteEffect
<1>3. Garble => file'.kind = "garbled"
  BY Constants DEF Garble, Content
<1>4. UNCHANGED vars => UNCHANGED <<file, backups>>
  BY DEF vars
<1> QED
  BY <1>0, <1>1, <1>2, <1>3, <1>4 DEF Next, Act

LEMMA KeptStep ==
  ASSUME TypeOK, TypeOK', RevocationInv, StoreInv, DroppedInv, [Next]_vars
  PROVE  Kept'
<1> SUFFICES ASSUME Calm', ~Lost', NEW c \in backups', c.login \in dropped'
    PROVE  Blocks(InForce', c.gen)
  BY DEF Kept
<1>0. Calm /\ ~Restore /\ Kept /\ OneCopyHolds
  BY CalmBefore DEF DroppedInv, Calm
<1>l. Lost => \E p \in Process : SaveNew(p)
  BY LostStays
<1>a. InForce \in Mark /\ InForce' \in Mark /\ Covers(InForce', InForce)
  BY MarksStep, InForceGrows
<1>b. c.gen \in Nat
  BY JarAssumption DEF TypeOK, Content
<1>s. ASSUME NEW p \in Process, SaveNew(p)
      PROVE  FALSE
  <2>0. Unsaved(p) /\ Seeded(p)
    BY DEF DroppedInv
  <2>1. c.login = session[p].login /\ backups = {} /\ dropped' = dropped /\ pc[p] = "idle"
        /\ session[p].login # 0
    BY <1>s DEF SaveNew, Write, Sealed, Idle
  <2>2. session[p].gen = 0
    BY <2>0, <2>1 DEF Seeded
  <2>3. session[p].login \notin dropped
    BY <2>0, <2>1, <2>2 DEF Unsaved, Fresh
  <2> QED BY <2>1, <2>3
<1>n. ~Lost
  BY <1>l, <1>s
<1>1. ASSUME Blocks(InForce, c.gen)
      PROVE  Blocks(InForce', c.gen)
  BY <1>1, <1>a, <1>b, CoversBlocks
<1>2. CASE c \in backups /\ c.login \in dropped
  BY <1>0, <1>1, <1>2, <1>n DEF Kept
<1>3. ASSUME NEW p \in Process, Act(p)
      PROVE  Blocks(InForce', c.gen)
  <2>0. Unsaved(p) /\ Seeded(p) /\ Replacing(p) /\ Recorded(p)
    BY DEF DroppedInv, RevocationInv
  <2>2. CASE Publish(p)
    <3>0. Locked(p) /\ pc[p] = "publish" /\ dropped' = dropped
      BY <2>2 DEF Publish, Locked
    <3>1. CASE c = job[p].content /\ c.kind = "sealed" /\ job[p].op = "touch"
      BY <1>2, <2>0, <3>0, <3>1 DEF Seeded
    <3>2. CASE c = job[p].content /\ job[p].op = "refresh"
      BY <1>0, <2>0, <3>0, <3>2 DEF Replacing
    <3>3. CASE c = job[p].content /\ c.kind = "sealed" /\ job[p].op = "invalidate"
      <4>1. Blocks(job[p].mark, c.gen)
        BY <1>0, <2>0, <3>0, <3>3 DEF Replacing
      <4>2. Covers(InForce, job[p].mark)
        BY <1>0, <2>0, <3>0, <3>3 DEF Recorded, Marks
      <4> QED BY <1>1, <1>a, <1>b, <4>1, <4>2, CoversBlocks, JobTyped
    <3>4. c \in backups \/ (c = job[p].content /\ c.kind = "sealed" /\ job[p].op # "delete")
      BY <2>2 DEF Publish, Write
    <3>5. job[p].op \in {"touch", "refresh", "invalidate", "delete"}
      BY <2>0, <3>0 DEF Seeded
    <3> QED BY <1>2, <3>0, <3>1, <3>2, <3>3, <3>4, <3>5
  <2>3. CASE RevocationReturns(p)
    <3>1. /\ c \in backups /\ Locked(p) /\ pc[p] = "finish" /\ job[p].op \in {"invalidate", "delete"}
      BY <2>3 DEF RevocationReturns, Locked
    <3>2. Blocks(job[p].mark, c.gen)
      BY <1>0, <1>n, <2>0, <3>1 DEF Replacing
    <3>3. Covers(InForce, job[p].mark)
      BY <1>0, <2>0, <3>1 DEF Recorded, Marks
    <3> QED BY <1>1, <1>a, <1>b, <3>2, <3>3, CoversBlocks, JobTyped
  <2> QED BY <1>2, <1>3, <1>s, <2>2, <2>3, VolumeEffect
<1>4. ASSUME Garble \/ UNCHANGED vars
      PROVE  c \in backups /\ c.login \in dropped
  BY <1>4 DEF Garble, vars
<1> QED
  BY <1>0, <1>2, <1>3, <1>4 DEF Next, Act
-----------------------------------------------------------------------------
LEMMA DroppedInvariant == Spec => [](TypeOK /\ StoreInv /\ DroppedInv)
<1>1. Init => TypeOK /\ RevocationInv /\ StoreInv /\ DroppedInv
  BY InitType, RevocationInit, StoreInit, DroppedInit
<1>2. TypeOK /\ RevocationInv /\ StoreInv /\ DroppedInv /\ [Next]_vars =>
        (TypeOK /\ RevocationInv /\ StoreInv /\ DroppedInv)'
  <2> SUFFICES ASSUME TypeOK, RevocationInv, StoreInv, DroppedInv, [Next]_vars
               PROVE  (TypeOK /\ RevocationInv /\ StoreInv /\ DroppedInv)'
    OBVIOUS
  <2>1. TypeOK' /\ RevocationInv' /\ StoreInv'
    BY NextType, RevocationNext, StoreNext
  <2>2. DroppedInv'
    BY <2>1, BoundedStep, NewestStep, KeptStep, UnsavedStep, SeededStep, ReplacingStep
    DEF DroppedInv
  <2> QED BY <2>1, <2>2
<1> QED
  BY <1>1, <1>2, PTL DEF Spec

(***************************************************************************)
(* A login that a revocation found in the jar is not in a loadable file    *)
(* again, although sessions of other processes that hold it may be in the  *)
(* middle of a load, a touch or a refresh.                                 *)
(***************************************************************************)
THEOREM ResurrectionCorrect == Spec => []NoResurrection
<1>1. TypeOK /\ StoreInv /\ DroppedInv => NoResurrection
  BY DEF StoreInv, FileBacked, DroppedInv, Kept, Lost, Calm, NoResurrection, Loadable
<1> QED
  BY <1>1, DroppedInvariant, PTL

(***************************************************************************)
(* Every session that holds a dropped login and a generation, in whatever  *)
(* process, is ended by its next check: the mark blocks it, or the jar's   *)
(* file is lost.                                                           *)
(***************************************************************************)
THEOREM DroppedSessionsCorrect == Spec => []DroppedSessionsBlocked
<1>1. DroppedInv => DroppedSessionsBlocked
  <2> SUFFICES ASSUME DroppedInv, Calm, NEW p \in Process,
                      session[p].gen # 0, session[p].login \in dropped
               PROVE  Blocks(InForce, session[p].gen) \/ file.kind # "sealed"
    BY DEF DroppedSessionsBlocked, Calm
  <2>1. PICK c \in backups : c.gen = session[p].gen /\ c.login = session[p].login
    BY DEF DroppedInv, Seeded
  <2> QED
    BY <2>1 DEF DroppedInv, Kept, Lost
<1> QED
  BY <1>1, DroppedInvariant, PTL
-----------------------------------------------------------------------------
(***************************************************************************)
(* The store keeps the jar's promise.  What the mapping needs besides the  *)
(* invariants above: a touch rewrites what is there, a refresh publishes a *)
(* content that loads, only operations with a mark record one, and a load  *)
(* is for a session that holds nothing yet.                                *)
(***************************************************************************)
Touching(q) ==
  Calm /\ Locked(q) /\ job[q].op = "touch" => file = job[q].content \/ file.kind = "garbled"
Plain(q) == Locked(q) /\ job[q].op = "refresh" => ~job[q].content.invalidated
Recording(q) == pc[q] \in {"number", "append", "anchor"} => job[q].op # "touch"
Fetching(q) == pc[q] \in {"load_log", "load_anchor"} => session[q].gen = 0
PromiseInv == \A q \in Process : Touching(q) /\ Plain(q) /\ Recording(q) /\ Fetching(q)

LEMMA PromiseInit == Init => PromiseInv
BY DEF Init, PromiseInv, Touching, Plain, Recording, Fetching, Locked

LEMMA Loads ==
  ASSUME TypeOK, NEW p \in Process, Act(p), pc'[p] \in {"load_log", "load_anchor"}
  PROVE  \/ LoadFile(p)
         \/ /\ LoadLog(p) /\ pc[p] = "load_log"
            /\ job'[p].content = job[p].content /\ session'[p] = session[p]
<1> USE Shapes DEF Goto, Leave
<1>1. ASSUME Request(p) \/ Enforce(p) \/ Crash(p)
      PROVE  pc'[p] \in {"idle", "number", "append", "publish"}
  BY <1>1 DEF Request, SignIn, EndSession, SaveNew, BeginRefresh, StageRefresh, BeginInvalidate,
              BeginDelete, BeginTouch, Begin, Enforce, Idle, Crash
<1>2. ASSUME Record(p) \/ Store(p) \/ LoadReturns(p)
      PROVE  pc'[p] \in {"idle", "append", "anchor", "publish", "finish"}
  BY <1>2 DEF Record, Append, TornAppend, WriteAnchor, RecordRaises, Store, Number, Publish,
              PublishFails, RefreshReturns, RevocationReturns, LoadReturns
<1>3. CASE LoadLog(p)
  BY <1>3 DEF LoadLog, Job
<1> QED
  BY <1>1, <1>2, <1>3 DEF Act, Load

\* A load enters with no session, and keeps it so until it returns.
LEMMA FetchingStep ==
  ASSUME TypeOK, PromiseInv, [Next]_vars, NEW q \in Process
  PROVE  Fetching(q)'
<1>0. Fetching(q)
  BY DEF PromiseInv
<1>1. CASE pc'[q] = pc[q] /\ session'[q] = session[q]
  BY <1>0, <1>1 DEF Fetching
<1>2. ASSUME Act(q), pc'[q] \in {"load_log", "load_anchor"}
      PROVE  session'[q].gen = 0
  <2>1. CASE LoadFile(q)
    BY <2>1 DEF LoadFile, NoSession
  <2> QED BY <1>0, <1>2, <2>1, Loads DEF Fetching
<1>3. ASSUME NEW p \in Process, Act(p), p # q
      PROVE  pc'[q] = pc[q] /\ session'[q] = session[q]
  BY <1>3, OthersStay DEF Act
<1>4. ASSUME Garble \/ Restore \/ UNCHANGED vars
      PROVE  pc'[q] = pc[q] /\ session'[q] = session[q]
  BY <1>4 DEF Garble, Restore, vars
<1> QED
  BY <1>1, <1>2, <1>3, <1>4 DEF Next, Act, Fetching

\* Operations that record a mark are entered at the append, a touch is not.
LEMMA RecordingStep ==
  ASSUME TypeOK, PromiseInv, [Next]_vars, NEW q \in Process
  PROVE  Recording(q)' /\ Plain(q)'
<1>0. Recording(q) /\ Plain(q)
  BY DEF PromiseInv
<1>1. CASE pc'[q] = pc[q] /\ job'[q] = job[q]
  BY <1>0, <1>1 DEF Recording, Plain, Locked
<1>2. ASSUME Act(q)
      PROVE  Recording(q)' /\ Plain(q)'
  <2>1. CASE BeginRefresh(q)
    BY <2>1, RefreshBegins DEF Recording, Plain
  <2>2. CASE BeginInvalidate(q)
    BY <2>2, InvalidateBegins DEF Recording, Plain
  <2>3. CASE BeginDelete(q)
    BY <2>3, DeleteBegins DEF Recording, Plain
  <2>4. CASE BeginTouch(q)
    BY <2>4, TouchBegins DEF Recording, Plain
  <2>5. CASE Locked(q) /\ job'[q] = job[q]
    <3>1. Plain(q)'
      BY <1>0, <2>5 DEF Plain
    <3>2. ASSUME pc'[q] \in {"number", "append", "anchor"}
          PROVE  pc[q] \in {"number", "append", "anchor"}
      <4> USE Shapes DEF Goto, Leave
      <4>1. ASSUME Request(q) \/ Load(q) \/ Enforce(q)
            PROVE  FALSE
        BY <2>5, <4>1 DEF Request, SignIn, EndSession, SaveNew, BeginRefresh, StageRefresh,
                          BeginInvalidate, BeginDelete, BeginTouch, Begin, Idle, Load, LoadFile,
                          LoadLog, LoadReturns, Enforce, Locked
      <4>2. ASSUME Record(q)
            PROVE  pc[q] \in {"append", "anchor"}
        BY <4>2 DEF Record, Append, TornAppend, WriteAnchor, RecordRaises
      <4>3. ASSUME Store(q) \/ Crash(q)
            PROVE  pc'[q] \in {"idle", "finish"} \/ pc[q] = "number"
        BY <4>3 DEF Store, Number, Publish, PublishFails, RefreshReturns, RevocationReturns, Crash
      <4> QED BY <1>2, <3>2, <4>1, <4>2, <4>3 DEF Act
    <3> QED BY <1>0, <2>5, <3>1, <3>2 DEF Recording
  <2>6. CASE ~Locked(q)'
    BY <2>6 DEF Recording, Plain, Locked
  <2>7. CASE Number(q)
    BY <1>0, <2>7, Numbers DEF Recording, Plain, Locked
  <2> QED BY <1>2, <2>1, <2>2, <2>3, <2>4, <2>5, <2>6, <2>7, Moves
<1>3. ASSUME NEW p \in Process, Act(p), p # q
      PROVE  pc'[q] = pc[q] /\ job'[q] = job[q]
  BY <1>3, OthersStay DEF Act
<1>4. ASSUME Garble \/ Restore \/ UNCHANGED vars
      PROVE  pc'[q] = pc[q] /\ job'[q] = job[q]
  BY <1>4 DEF Garble, Restore, vars
<1> QED
  BY <1>1, <1>2, <1>3, <1>4 DEF Next, Act

\* Under the lock the file a touch has read is not replaced; it may be garbled.
LEMMA TouchingStep ==
  ASSUME TypeOK, StoreInv, PromiseInv, [Next]_vars, NEW q \in Process
  PROVE  Touching(q)'
<1> SUFFICES ASSUME Calm', Locked(q)', job'[q].op = "touch"
    PROVE  file' = job'[q].content \/ file'.kind = "garbled"
  BY DEF Touching
<1>0. Calm /\ ~Restore /\ Touching(q)
  BY CalmBefore DEF PromiseInv
<1>1. CASE Locked(q) /\ job'[q] = job[q] /\ file' = file
  BY <1>0, <1>1 DEF Touching
<1>2. ASSUME Act(q)
      PROVE  file' = job'[q].content \/ file'.kind = "garbled"
  <2>1. CASE BeginRefresh(q) \/ BeginInvalidate(q) \/ BeginDelete(q)
    BY <1>2, <2>1, RefreshBegins, InvalidateBegins, DeleteBegins
  <2>2. CASE BeginTouch(q)
    BY <2>2, TouchBegins
  <2>3. CASE Locked(q) /\ job'[q] = job[q] /\ Publish(q)
    BY <2>3 DEF Publish, Write
  <2>4. CASE Number(q)
    BY <2>4, Numbers DEF StoreInv, Numbering
  <2> QED BY <1>1, <1>2, <2>1, <2>2, <2>3, <2>4, Moves
<1>3. ASSUME NEW p \in Process, Act(p), p # q
      PROVE  Locked(q) /\ job'[q] = job[q] /\ file' = file
  <2>1. Locked(q) /\ job'[q] = job[q]
    BY <1>3, OthersStay DEF Act, Locked
  <2>2. file' = file
    BY <1>3, <2>1, LockedOut DEF StoreInv, Act
  <2> QED BY <2>1, <2>2
<1>4. Garble => file'.kind = "garbled"
  BY Constants DEF Garble, Content
<1>5. UNCHANGED vars => Locked(q) /\ job'[q] = job[q] /\ file' = file
  BY DEF vars, Locked
<1> QED
  BY <1>0, <1>1, <1>2, <1>3, <1>4, <1>5 DEF Next, Act
-----------------------------------------------------------------------------
(* What a step shows of the jar.                                           *)

\* Whoever has a generation in hand got it with the login it was sealed with.
LEMMA HandBacked ==
  ASSUME NEW q \in Process, Seeded(q), InHand(q).gen # 0
  PROVE  \E c \in backups : c.gen = InHand(q).gen /\ c.login = InHand(q).login
BY DEF Seeded, InHand, Locked

\* When the mark covers all the file was ever sealed with, the jar shows nothing.
CutAll == \A c \in backups : Blocks(InForce, c.gen)
Silent == offered = 0 /\ \A q \in Process : Held(q) = 0

LEMMA AllCut == FileBacked /\ (\A q \in Process : Seeded(q)) /\ CutAll => Silent
<1> SUFFICES ASSUME FileBacked, \A q \in Process : Seeded(q), CutAll  PROVE Silent
  OBVIOUS
<1>1. offered = 0
  BY DEF FileBacked, CutAll, offered, Loadable
<1>2. ASSUME NEW q \in Process  PROVE Held(q) = 0
  BY HandBacked DEF CutAll, Held, Stands
<1> QED
  BY <1>1, <1>2 DEF Silent

LEMMA AllCutNext == FileBacked' /\ (\A q \in Process : Seeded(q))' /\ CutAll' => Silent'
BY AllCut, PTL

\* Neither does it when its file is lost.
LEMMA LostSilent == Lost => Silent
BY DEF Lost, Silent, offered, Loadable, Held, Stands

LEMMA LostSilentNext == Lost' => Silent'
BY LostSilent, PTL

\* What an operation with a mark replaces is cut off once the mark is recorded.
LEMMA MarkCuts ==
  ASSUME TypeOK, DroppedInv, Calm, ~Lost, NEW p \in Process, Locked(p),
         job[p].op \in {"refresh", "invalidate", "delete"},
         job[p].op = "refresh" => pc[p] # "finish",
         NEW m \in Mark, Covers(m, job[p].mark)
  PROVE  \A c \in backups : Blocks(m, c.gen)
<1>1. \A c \in backups : Blocks(job[p].mark, c.gen)
  BY DEF DroppedInv, Replacing
<1> QED
  BY <1>1, Shapes, CoversBlocks

\* A step that leaves file and marks alone shows at most that the process has
\* obtained what is offered, or has nothing in hand any more.
LEMMA QuietStep ==
  ASSUME TypeOK, DroppedInv, PromiseInv, ~Lost, ~Lost', NEW p \in Process, Act(p),
         ~SaveNew(p), Publish(p) => job[p].op # "refresh",
         UNCHANGED <<file, log, anchor>>
  PROVE  /\ offered' = offered /\ Held(p)' \in {Held(p), 0, offered}
         /\ \A q \in Process : q # p => Held(q)' = Held(q)
<1>1. InForce' = InForce
  BY DEF InForce
<1>2. offered' = offered
  BY <1>1 DEF offered, Loadable, Blocks
<1>3. ASSUME NEW q \in Process, q # p
      PROVE  Held(q)' = Held(q)
  BY <1>1, <1>3, OthersStay DEF Act, Held, InHand, Stands, Blocks
<1>4. \/ InHand(p)'.gen = 0
      \/ InHand(p)'.gen = InHand(p).gen /\ InHand(p)'.login = InHand(p).login
      \/ /\ file.kind = "sealed" /\ ~file.invalidated
         /\ InHand(p)'.gen = file.gen /\ InHand(p)'.login = file.login
  <2>0. Seeded(p) /\ Fetching(p)
    BY DEF DroppedInv, PromiseInv
  <2>1. CASE pc'[p] \in {"load_log", "load_anchor"}
    <3>1. InHand(p)'.gen = job'[p].content.gen /\ InHand(p)'.login = job'[p].content.login
      BY <2>1 DEF InHand
    <3>2. CASE LoadFile(p)
      BY <3>1, <3>2, Shapes, Constants DEF LoadFile, Job
    <3>3. CASE pc[p] = "load_log" /\ job'[p].content = job[p].content
      BY <3>1, <3>3 DEF InHand
    <3> QED BY <2>1, <3>2, <3>3, Loads
  <2>2. CASE pc'[p] = "finish" /\ job'[p].op = "refresh"
    <3>1. Locked(p)'
      BY <2>2 DEF Locked
    <3>2. Locked(p) /\ job'[p] = job[p] /\ (Publish(p) \/ PublishFails(p))
      BY <2>2, <3>1, Moves, RefreshBegins, InvalidateBegins, DeleteBegins, TouchBegins, Numbers
    <3> QED BY <2>2, <3>2, Leaves DEF PublishFails
  <2>3. CASE ~(pc'[p] \in {"load_log", "load_anchor"}) /\ ~(pc'[p] = "finish" /\ job'[p].op = "refresh")
    <3>1. InHand(p)' = session'[p]
      BY <2>3 DEF InHand
    <3>2. CASE session'[p] = session[p] /\ ~(pc[p] = "finish" /\ job[p].op = "refresh")
      BY <2>0, <3>1, <3>2 DEF InHand, Fetching
    <3>3. CASE /\ pc[p] = "finish" /\ job[p].op = "refresh"
               /\ session'[p].gen = job[p].content.gen /\ session'[p].login = session[p].login
      BY <2>0, <3>1, <3>3 DEF InHand, Seeded, Locked
    <3>4. CASE /\ pc[p] = "load_anchor"
               /\ session'[p].gen = job[p].content.gen /\ session'[p].login = job[p].content.login
      BY <3>1, <3>4 DEF InHand
    <3> QED BY <3>1, <3>2, <3>3, <3>4, SessionEffect
  <2> QED BY <2>1, <2>2, <2>3
<1>5. Held(p)' \in {Held(p), 0, offered}
  BY <1>1, <1>4 DEF Held, Stands, offered, Loadable, Blocks
<1> QED
  BY <1>2, <1>3, <1>5

LEMMA HolderStep ==
  ASSUME Calm, Calm', NEW p \in Process, offered' = offered, dropped' = dropped,
         Held(p)' \in {Held(p), 0, offered},
         \A q \in Process : q # p => Held(q)' = Held(q)
  PROVE  [P!Next]_(P!vars)
<1> DEFINE H == [q \in Process |-> Held(q)]
<1>0. (OneCopyHolds /\ restored = 0)' = (OneCopyHolds /\ restored = 0)
  BY DEF Calm
<1>1. CASE Held(p)' = Held(p)
  <2>1. H' = H
    BY <1>1
  <2> QED BY <1>0, <2>1 DEF P!vars
<1>2. CASE Held(p)' = 0
  <2>1. H' = [H EXCEPT ![p] = 0]
    BY <1>2
  <2> QED BY <1>0, <2>1 DEF P!Next, P!Keep, P!Forget
<1>3. CASE Held(p)' = offered /\ offered # 0
  <2>1. H' = [H EXCEPT ![p] = offered]
    BY <1>3
  <2> QED BY <1>0, <1>3, <2>1 DEF P!Next, P!Keep, P!Obtain
<1> QED
  BY <1>1, <1>2, <1>3

LEMMA SilentStep ==
  ASSUME Calm, Calm', Silent', UNCHANGED dropped
  PROVE  [P!Next]_(P!vars)
<1>1. (OneCopyHolds /\ restored = 0)' = (OneCopyHolds /\ restored = 0)
  BY DEF Calm
<1>2. offered' = 0 /\ [q \in Process |-> Held(q)]' = [q \in Process |-> 0]
  BY DEF Silent
<1> QED
  BY <1>1, <1>2 DEF P!Next, P!Keep, P!Withdraw, P!Nobody

LEMMA OffersStep ==
  ASSUME Calm, Calm', UNCHANGED dropped, NEW p \in Process,
         offered' \in (1 .. MaxLogins) \ dropped, Held(p)' = offered',
         \A q \in Process : q # p => Held(q)' = 0
  PROVE  [P!Next]_(P!vars)
<1>1. (OneCopyHolds /\ restored = 0)' = (OneCopyHolds /\ restored = 0)
  BY DEF Calm
<1>2. [q \in Process |-> Held(q)]' = [[q \in Process |-> 0] EXCEPT ![p] = offered']
  OBVIOUS
<1> QED
  BY <1>1, <1>2 DEF P!Next, P!Keep, P!Publish, P!OnlyPublisher, P!Nobody

\* The first save: nobody holds anything of the jar yet.
LEMMA SaveKeeps ==
  ASSUME TypeOK, TypeOK', StoreInv, DroppedInv, DroppedInv', StoreInv',
         Calm, Calm', NEW p \in Process, SaveNew(p)
  PROVE  [P!Next]_(P!vars)
<1>1. /\ backups = {} /\ backups' = {file'} /\ file' = Sealed(1, session[p].login)
      /\ pc[p] = "idle" /\ session[p].login # 0 /\ session'[p].gen = 1
      /\ session'[p].login = session[p].login
      /\ UNCHANGED <<log, anchor, pc, job, dropped>>
  BY Shapes DEF SaveNew, Write, Sealed, Idle, Session
<1>2. session[p].gen = 0
  BY <1>1 DEF DroppedInv, Seeded
<1>3. session[p].login \notin dropped
  BY <1>1, <1>2 DEF DroppedInv, Unsaved, Fresh
<1>4. ASSUME NEW q \in Process, q # p
      PROVE  Held(q)' = 0
  <2>1. InHand(q)' = InHand(q)
    BY <1>1, <1>4 DEF SaveNew, InHand
  <2>2. InHand(q).gen = 0
    BY <1>1, HandBacked DEF DroppedInv
  <2> QED BY <2>1, <2>2 DEF Held
<1>5. InHand(p)' = session'[p]
  BY <1>1 DEF InHand
<1>6. CASE Blocks(InForce', 1)
  <2>1. CutAll'
    BY <1>1, <1>6 DEF CutAll, Sealed
  <2>2. Silent'
    BY <2>1, AllCutNext DEF StoreInv, DroppedInv
  <2> QED BY <1>1, <2>2, SilentStep
<1>7. CASE ~Blocks(InForce', 1)
  <2>1. offered' = session[p].login
    BY <1>1, <1>7 DEF offered, Loadable, Sealed, Blocks
  <2>2. Held(p)' = session[p].login
    BY <1>1, <1>5, <1>7 DEF Held, Stands, Blocks, Lost, Sealed
  <2>3. session[p].login \in 1 .. MaxLogins
    BY <1>1, JarAssumption DEF TypeOK, Session
  <2> QED BY <1>1, <1>3, <1>4, <2>1, <2>2, <2>3, OffersStep
<1> QED
  BY <1>6, <1>7

\* A refresh that publishes: its mark has cut off everybody else.
LEMMA RefreshKeeps ==
  ASSUME TypeOK, TypeOK', RevocationInv, StoreInv, StoreInv', DroppedInv, PromiseInv,
         Calm, Calm', NEW p \in Process, Publish(p), job[p].op = "refresh"
  PROVE  [P!Next]_(P!vars)
<1>1. /\ Locked(p) /\ pc[p] = "publish" /\ pc'[p] = "finish"
      /\ UNCHANGED <<log, anchor, job, session, dropped>>
      /\ \A q \in Process : q # p => pc'[q] = pc[q]
  BY Shapes DEF Publish, Goto, Locked
<1>2. /\ file' = job[p].content /\ file'.kind = "sealed" /\ ~file'.invalidated
      /\ file'.login \notin dropped
  <2>1. job[p].content.kind = "sealed" /\ job[p].content.login \notin dropped
    BY <1>1 DEF DroppedInv, Seeded, Replacing
  <2>2. ~job[p].content.invalidated
    BY <1>1 DEF PromiseInv, Plain
  <2> QED BY <2>1, <2>2 DEF Publish, Write, NoFile
<1>l. ~Lost /\ ~Lost'
  BY <1>1, <1>2 DEF Lost, DroppedInv, Seeded
<1>3. InForce' = InForce
  BY <1>1 DEF InForce
<1>4. CutAll
  <2>1. Covers(InForce, job[p].mark)
    BY <1>1 DEF RevocationInv, Recorded, Marks, Calm
  <2> QED BY <1>1, <1>l, <2>1, MarkCuts, Shapes DEF CutAll
<1>5. ~Blocks(InForce, job[p].content.gen)
  <2>1. ~InForce.deleted /\ InForce.gen < job[p].content.gen
    BY <1>1 DEF StoreInv, Refreshing
  <2> QED BY <2>1, Shapes, JarAssumption DEF Blocks, Mark
<1>6. offered' = file'.login
  BY <1>2, <1>3, <1>5 DEF offered, Loadable, Blocks
<1>7. Held(p)' = file'.login
  <2>1. job[p].content.gen # 0
    BY <1>1, <1>2 DEF DroppedInv, Seeded
  <2>2. InHand(p)'.gen = job[p].content.gen /\ InHand(p)'.login = job[p].content.login
    BY <1>1 DEF InHand
  <2>3. Stands(InHand(p).gen)'
    BY <1>3, <1>5, <1>l, <2>2 DEF Stands, Blocks
  <2> QED BY <1>2, <2>1, <2>2, <2>3 DEF Held
<1>8. ASSUME NEW q \in Process, q # p
      PROVE  Held(q)' = 0
  <2>1. InHand(q)' = InHand(q)
    BY <1>1, <1>8 DEF InHand
  <2>2. Held(q) = 0
    BY <1>4, AllCut DEF StoreInv, DroppedInv, Silent
  <2> QED BY <1>3, <1>l, <2>1, <2>2 DEF Held, Stands, Blocks
<1>9. CASE file'.login = 0
  <2>1. Silent'
    BY <1>6, <1>7, <1>8, <1>9 DEF Silent
  <2> QED BY <1>1, <2>1, SilentStep
<1>10. CASE file'.login # 0
  <2>1. file'.login \in 1 .. MaxLogins
    BY <1>10, JarAssumption DEF TypeOK, Content
  <2> QED BY <1>1, <1>2, <1>6, <1>7, <1>8, <2>1, OffersStep
<1> QED
  BY <1>9, <1>10

\* A touch rewrites the file as it is, or brings a garbled one back.
LEMMA TouchKeeps ==
  ASSUME TypeOK, TypeOK', DroppedInv, DroppedInv', StoreInv, StoreInv', PromiseInv,
         Calm, Calm', ~Lost, ~Lost', NEW p \in Process, Publish(p), job[p].op = "touch"
  PROVE  [P!Next]_(P!vars)
<1>1. /\ Locked(p) /\ pc[p] = "publish" /\ pc'[p] = "finish"
      /\ UNCHANGED <<log, anchor, job, session, dropped>>
      /\ \A q \in Process : q # p => pc'[q] = pc[q]
      /\ file' = job[p].content
  BY Shapes DEF Publish, Goto, Locked, Write
<1>2. InForce' = InForce
  BY <1>1 DEF InForce
<1>3. \A q \in Process : Held(q)' = Held(q)
  BY <1>1, <1>2 DEF Held, InHand, Stands, Blocks
<1>4. CASE file' = file
  <2>1. offered' = offered
    BY <1>2, <1>4 DEF offered, Loadable, Blocks
  <2> QED BY <1>1, <1>3, <2>1, HolderStep
<1>5. CASE file.kind = "garbled"
  <2>1. offered = 0
    BY <1>5 DEF offered, Loadable
  <2>2. CASE offered' = 0
    BY <1>1, <1>3, <2>1, <2>2, HolderStep
  <2>3. CASE offered' # 0
    <3>1. offered' = file'.login /\ file'.kind = "sealed" /\ ~Blocks(InForce, file'.gen)
      BY <1>2, <2>3 DEF offered, Loadable, Blocks
    <3>2. file' \in backups
      BY <1>1, <3>1 DEF DroppedInv, Seeded
    <3>3. file'.login \notin dropped
      BY <3>1, <3>2 DEF DroppedInv, Kept
    <3>4. offered' \in 1 .. MaxLogins
      BY <2>3, <3>1, JarAssumption DEF TypeOK, Content
    <3>5. (OneCopyHolds /\ restored = 0)' = (OneCopyHolds /\ restored = 0)
      BY DEF Calm
    <3>6. [q \in Process |-> Held(q)]' = [q \in Process |-> Held(q)]
      BY <1>3
    <3> QED BY <1>1, <2>1, <3>1, <3>3, <3>4, <3>5, <3>6 DEF P!Next, P!Keep, P!Reappear
  <2> QED BY <2>2, <2>3
<1> QED
  BY <1>1, <1>4, <1>5 DEF PromiseInv, Touching

\* A revocation that rewrites or removes the file: its mark has cut off all.
LEMMA RevocationKeeps ==
  ASSUME TypeOK, RevocationInv, StoreInv', DroppedInv, DroppedInv',
         Calm, Calm', ~Lost, NEW p \in Process, Publish(p), job[p].op \in {"invalidate", "delete"}
  PROVE  [P!Next]_(P!vars)
<1>1. /\ Locked(p) /\ pc[p] = "publish" /\ UNCHANGED <<log, anchor, dropped>>
      /\ \A c \in backups' : c \in backups \/ (c = job[p].content /\ c.kind = "sealed")
  BY DEF Publish, Locked, Write
<1>2. Covers(InForce, job[p].mark)
  BY <1>1 DEF RevocationInv, Recorded, Marks, Calm
<1>3. \A c \in backups : Blocks(InForce, c.gen)
  BY <1>1, <1>2, MarkCuts, Shapes
<1>4. job[p].content.kind = "sealed" => Blocks(InForce, job[p].content.gen)
  <2>1. job[p].content.kind = "sealed" => Blocks(job[p].mark, job[p].content.gen)
    BY <1>1 DEF DroppedInv, Replacing
  <2> QED BY <1>2, <2>1, CoversBlocks, Shapes
<1>5. InForce' = InForce
  BY <1>1 DEF InForce
<1>6. CutAll'
  BY <1>1, <1>3, <1>4, <1>5 DEF CutAll
<1>7. Silent'
  BY <1>6, AllCutNext DEF StoreInv, DroppedInv
<1> QED
  BY <1>1, <1>7, SilentStep

\* The mark is recorded: what it covers is cut off in every process at once.
LEMMA RecordKeeps ==
  ASSUME TypeOK, TypeOK', StoreInv', DroppedInv, DroppedInv', PromiseInv,
         Calm, Calm', ~Lost, ~Lost', NEW p \in Process, Append(p) \/ WriteAnchor(p)
  PROVE  [P!Next]_(P!vars)
<1>0. Act(p) /\ ~SaveNew(p) /\ ~Publish(p)
  BY DEF Act, Record, Append, WriteAnchor, SaveNew, Publish, Idle
<1>1. /\ pc[p] \in {"append", "anchor"} /\ Locked(p)
      /\ UNCHANGED <<file, backups, dropped, job>>
  BY DEF Append, WriteAnchor, Locked
<1>2. CASE UNCHANGED <<log, anchor>>
  BY <1>0, <1>1, <1>2, QuietStep, HolderStep
<1>3. CASE Covers(InForce', job[p].mark)
  <2>1. job[p].op \in {"refresh", "invalidate", "delete"}
    BY <1>1 DEF PromiseInv, Recording, DroppedInv, Seeded
  <2>2. InForce' \in Mark
    BY FoldType DEF TypeOK, InForce
  <2>3. CutAll'
    BY <1>1, <1>3, <2>1, <2>2, MarkCuts DEF CutAll
  <2>4. Silent'
    BY <2>3, AllCutNext DEF StoreInv, DroppedInv
  <2> QED BY <1>1, <2>4, SilentStep
<1>4. ASSUME ~UNCHANGED <<log, anchor>>
      PROVE  Covers(InForce', job[p].mark)
  <2>0. /\ log' \in Mark /\ anchor' \in Mark /\ InForce' \in Mark /\ InForce \in Mark
        /\ job[p].mark \in Mark
    BY Shapes, FoldType DEF TypeOK, InForce
  <2>1. log' = Fold(log, job[p].mark) \/ anchor' = Fold(InForce, job[p].mark)
    BY <1>4 DEF Append, WriteAnchor
  <2>2. Covers(log', job[p].mark) \/ Covers(anchor', job[p].mark)
    BY <2>0, <2>1, Shapes, FoldType
  <2>3. Covers(InForce', log') /\ Covers(InForce', anchor')
    BY <2>0, FoldType DEF InForce
  <2> QED BY <2>0, <2>2, <2>3, CoversTransitive
<1> QED
  BY <1>2, <1>3, <1>4

\* The revocation is acknowledged: what it drops is offered to nobody.
LEMMA AcknowledgedKeeps ==
  ASSUME TypeOK, RevocationInv, StoreInv, StoreInv', DroppedInv, DroppedInv',
         Calm, Calm', ~Lost, NEW p \in Process, RevocationReturns(p)
  PROVE  [P!Next]_(P!vars)
<1>1. /\ pc[p] = "finish" /\ Locked(p) /\ job[p].op \in {"invalidate", "delete"}
      /\ UNCHANGED <<log, anchor, backups>> /\ dropped \subseteq dropped'
  BY DEF RevocationReturns, Locked
<1>2. Covers(InForce, job[p].mark)
  BY <1>1 DEF RevocationInv, Recorded, Marks, Calm
<1>3. InForce' = InForce
  BY <1>1 DEF InForce
<1>4. CutAll
  BY <1>1, <1>2, MarkCuts, Shapes DEF CutAll
<1>5. CutAll'
  BY <1>1, <1>3, <1>4 DEF CutAll
<1>6. offered = 0 /\ Silent'
  BY <1>4, <1>5, AllCut, AllCutNext DEF StoreInv, DroppedInv, Silent
<1>7. (OneCopyHolds /\ restored = 0)' = (OneCopyHolds /\ restored = 0)
  BY DEF Calm
<1>8. offered' = 0 /\ [q \in Process |-> Held(q)]' = [q \in Process |-> 0]
  BY <1>6 DEF Silent
<1> QED
  BY <1>1, <1>6, <1>7, <1>8 DEF P!Next, P!Keep, P!Revoke, P!Nobody

LEMMA GarbleKeeps ==
  ASSUME Calm, Calm', ~Lost, ~Lost', Garble
  PROVE  [P!Next]_(P!vars)
<1>1. file'.kind = "garbled" /\ UNCHANGED <<log, anchor, dropped, pc, job, session>>
  BY Constants DEF Garble, Content
<1>2. offered' = 0
  BY <1>1 DEF offered, Loadable
<1>3. [q \in Process |-> Held(q)]' = [q \in Process |-> Held(q)]
  BY <1>1 DEF Held, InHand, Stands, Blocks, InForce
<1>4. (OneCopyHolds /\ restored = 0)' = (OneCopyHolds /\ restored = 0)
  BY DEF Calm
<1> QED
  BY <1>1, <1>2, <1>3, <1>4 DEF P!Next, P!Keep, P!Fade

LEMMA LostRevocationKeeps ==
  ASSUME Calm, Calm', Lost', NEW p \in Process, RevocationReturns(p)
  PROVE  [P!Next]_(P!vars)
<1>1. offered = 0
  BY DEF RevocationReturns, Lost, offered, Loadable
<1>2. offered' = 0 /\ [q \in Process |-> Held(q)]' = [q \in Process |-> 0]
  BY LostSilentNext DEF Silent
<1>3. (OneCopyHolds /\ restored = 0)' = (OneCopyHolds /\ restored = 0)
  BY DEF Calm
<1>4. dropped \subseteq dropped'
  BY DEF RevocationReturns
<1> QED
  BY <1>1, <1>2, <1>3, <1>4 DEF P!Next, P!Keep, P!Revoke, P!Nobody

\* A process's step, while the file is not lost.
LEMMA ActKeeps ==
  ASSUME TypeOK, TypeOK', RevocationInv, StoreInv, StoreInv', DroppedInv, DroppedInv', PromiseInv,
         Calm, Calm', ~Lost, ~Lost', NEW p \in Process, Act(p)
  PROVE  [P!Next]_(P!vars)
<1>1. CASE SaveNew(p)
  BY <1>1, SaveKeeps
<1>2. CASE Publish(p)
  <2>1. job[p].op \in {"touch", "refresh", "invalidate", "delete"}
    BY <1>2 DEF Publish, DroppedInv, Seeded, Locked
  <2> QED
    BY <1>2, <2>1, RefreshKeeps, TouchKeeps, RevocationKeeps
<1>3. CASE Append(p) \/ WriteAnchor(p)
  BY <1>3, RecordKeeps
<1>4. CASE RevocationReturns(p)
  BY <1>4, AcknowledgedKeeps
<1>5. ASSUME ~SaveNew(p), ~Publish(p), ~Append(p), ~WriteAnchor(p), ~RevocationReturns(p)
      PROVE  [P!Next]_(P!vars)
  <2>1. UNCHANGED <<file, dropped>>
    BY <1>5, VolumeEffect
  <2>2. UNCHANGED <<log, anchor>>
    BY <1>5, MarkEffect
  <2> QED BY <1>5, <2>1, <2>2, QuietStep, HolderStep
<1> QED
  BY <1>1, <1>2, <1>3, <1>4, <1>5

(***************************************************************************)
(* Every access to the volume is a step of the jar's promise, or shows     *)
(* nothing: in whatever order processes, crashes and the other faults      *)
(* meet, a refresh or a revocation cuts off every other holder in one      *)
(* step, and no step offers a login that was revoked.                      *)
(***************************************************************************)
THEOREM StoreKeepsPromise == Spec => KeepsPromise
<1>1. ASSUME Init  PROVE P!Init
  <2>1. offered = 0 /\ \A q \in Process : Held(q) = 0
    BY <1>1 DEF Init, offered, Loadable, NoFile, Held, InHand, NoSession
  <2>2. [q \in Process |-> Held(q)] = P!Nobody
    BY <2>1 DEF P!Nobody
  <2>3. P!Nobody \in P!OnlyPublisher(offered)
    BY Zenon DEF P!OnlyPublisher
  <2>4. dropped = {}
    BY <1>1 DEF Init
  <2> QED BY <2>1, <2>2, <2>3, <2>4 DEF P!Init
<1> DEFINE IInv == TypeOK /\ RevocationInv /\ StoreInv /\ DroppedInv /\ PromiseInv
<1>2. IInv /\ [Next]_vars => IInv'
  <2> SUFFICES ASSUME IInv, [Next]_vars  PROVE IInv'
    OBVIOUS
  <2>1. TypeOK' /\ RevocationInv' /\ StoreInv'
    BY NextType, RevocationNext, StoreNext
  <2>2. DroppedInv'
    BY <2>1, BoundedStep, NewestStep, KeptStep, UnsavedStep, SeededStep, ReplacingStep
    DEF DroppedInv
  <2>3. PromiseInv'
    BY FetchingStep, RecordingStep, TouchingStep DEF PromiseInv
  <2> QED BY <2>1, <2>2, <2>3
<1>3. IInv /\ IInv' /\ [Next]_vars => [P!Next]_(P!vars)
  <2> SUFFICES ASSUME IInv, IInv', [Next]_vars  PROVE [P!Next]_(P!vars)
    OBVIOUS
  <2>1. CASE ~Calm'
    BY <2>1 DEF Calm, P!Next
  <2>2. CASE Calm' /\ Lost'
    <3>1. Calm /\ ~Restore
      BY <2>2, CalmBefore
    <3>2. CASE dropped' = dropped
      BY <2>2, <3>1, <3>2, LostSilentNext, SilentStep
    <3>3. ASSUME NEW p \in Process, RevocationReturns(p)
          PROVE  [P!Next]_(P!vars)
      BY <2>2, <3>1, <3>3, LostRevocationKeeps
    <3>4. ASSUME NEW p \in Process, Act(p), ~RevocationReturns(p)
          PROVE  dropped' = dropped
      BY <3>4, VolumeEffect
    <3> QED BY <3>1, <3>2, <3>3, <3>4 DEF Next, Act, Garble, vars
  <2>3. CASE Calm' /\ ~Lost'
    <3>1. Calm /\ ~Restore /\ (Lost => \E p \in Process : SaveNew(p))
      BY <2>3, CalmBefore, LostStays
    <3>2. ASSUME NEW p \in Process, SaveNew(p)
          PROVE  [P!Next]_(P!vars)
      BY <2>3, <3>1, <3>2, SaveKeeps
    <3>3. ASSUME ~Lost, NEW p \in Process, Act(p)
          PROVE  [P!Next]_(P!vars)
      BY <2>3, <3>1, <3>2, <3>3, ActKeeps
    <3>4. CASE ~Lost /\ Garble
      BY <2>3, <3>1, <3>4, GarbleKeeps
    <3>5. CASE ~Lost /\ UNCHANGED vars
      <4>1. [q \in Process |-> Held(q)]' = [q \in Process |-> Held(q)]
        BY <2>3, <3>5 DEF vars, Held, InHand, Stands, Blocks, InForce
      <4>2. offered' = offered
        BY <3>5 DEF vars, offered, Loadable, Blocks, InForce
      <4>3. (OneCopyHolds /\ restored = 0)' = (OneCopyHolds /\ restored = 0)
        BY <2>3, <3>1 DEF Calm
      <4> QED BY <3>5, <4>1, <4>2, <4>3 DEF vars, P!vars
    <3> QED BY <3>1, <3>2, <3>3, <3>4, <3>5 DEF Next, Act
  <2> QED BY <2>1, <2>2, <2>3
<1>4. Init => IInv
  BY InitType, RevocationInit, StoreInit, DroppedInit, PromiseInit
<1> QED
  BY <1>1, <1>2, <1>3, <1>4, PTL DEF Spec, KeepsPromise, P!Spec

(***************************************************************************)
(* What the promise is worth: whoever keeps it offers no revoked login,    *)
(* and leaves none with anybody, on a volume that has not gone back.       *)
(***************************************************************************)
NothingRevoked ==
  Calm =>
    /\ offered # 0 => offered \notin dropped
    /\ \A q \in Process : Held(q) # 0 => Held(q) \notin dropped

THEOREM PromiseMeans == KeepsPromise => []NothingRevoked
<1> DEFINE H == [q \in Process |-> Held(q)]
           Trusted == OneCopyHolds /\ restored = 0
<1>1. P!Init => NothingRevoked
  <2> SUFFICES ASSUME P!Init  PROVE NothingRevoked
    OBVIOUS
  <2>1. dropped = {}
    BY DEF P!Init
  <2> QED BY <2>1 DEF NothingRevoked
<1>2. NothingRevoked /\ [P!Next]_(P!vars) => NothingRevoked'
  <2> SUFFICES ASSUME NothingRevoked, [P!Next]_(P!vars), Calm'
               PROVE  /\ offered' # 0 => offered' \notin dropped'
                      /\ \A q \in Process : Held(q)' # 0 => Held(q)' \notin dropped'
    BY DEF NothingRevoked
  <2>0. \A q \in Process : H[q] = Held(q) /\ H'[q] = Held(q)'
    OBVIOUS
  <2>1. CASE UNCHANGED P!vars
    <3>1. offered' = offered /\ dropped' = dropped /\ H' = H /\ Trusted' = Trusted
      BY <2>1 DEF P!vars
    <3>2. Calm
      BY <3>1 DEF Calm
    <3>3. \A q \in Process : Held(q)' = Held(q)
      BY <2>0, <3>1
    <3> QED BY <3>1, <3>2, <3>3 DEF NothingRevoked
  <2>2. CASE P!Next
    <3>1. Calm /\ P!Keep
      BY <2>2 DEF P!Next, Calm
    <3>2. /\ offered # 0 => offered \notin dropped
          /\ \A q \in Process : Held(q) # 0 => Held(q) \notin dropped
      BY <3>1 DEF NothingRevoked
    <3>3. CASE P!Publish
      <4>1. offered' \notin dropped' /\ dropped' = dropped /\ H' \in P!OnlyPublisher(offered')
        BY <3>3 DEF P!Publish
      <4>2. \A q \in Process : H'[q] \in {0, offered'}
        BY <4>1 DEF P!OnlyPublisher, P!Nobody
      <4> QED BY <2>0, <4>1, <4>2
    <3>4. CASE P!Withdraw \/ P!Revoke
      <4>1. offered' = 0 /\ H' = P!Nobody
        BY <3>4 DEF P!Withdraw, P!Revoke
      <4>2. \A q \in Process : H'[q] = 0
        BY <4>1 DEF P!Nobody
      <4> QED BY <2>0, <4>1, <4>2
    <3>5. CASE P!Fade \/ P!Reappear
      <4>1. H' = H /\ dropped' = dropped /\ (offered' # 0 => offered' \notin dropped)
        BY <3>5 DEF P!Fade, P!Reappear
      <4> QED BY <2>0, <3>2, <4>1
    <3>6. ASSUME NEW p \in Process, P!Obtain(p) \/ P!Forget(p)
          PROVE  /\ offered' # 0 => offered' \notin dropped'
                 /\ \A q \in Process : Held(q)' # 0 => Held(q)' \notin dropped'
      <4>1. /\ offered' = offered /\ dropped' = dropped
            /\ \/ H' = [H EXCEPT ![p] = offered] /\ offered # 0
               \/ H' = [H EXCEPT ![p] = 0]
        BY <3>6 DEF P!Obtain, P!Forget
      <4>2. \A q \in Process : H'[q] = H[q] \/ H'[q] = 0 \/ (H'[q] = offered /\ offered # 0)
        BY <4>1
      <4> QED BY <2>0, <3>2, <4>1, <4>2
    <3> QED BY <3>1, <3>3, <3>4, <3>5, <3>6 DEF P!Keep
  <2> QED BY <2>1, <2>2
<1> QED
  BY <1>1, <1>2, PTL DEF KeepsPromise, P!Spec
=============================================================================
