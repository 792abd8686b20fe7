------------------------------- MODULE JarStore -------------------------------
(***************************************************************************)
(* One cookie jar on the volume several processes share: its file, the two *)
(* authenticated copies of its revocation high-water mark (the append-only *)
(* tombstone log and the signed anchor), the lock file around the          *)
(* operations that write, and the session each process seeds from the jar  *)
(* or captures into it.                                                    *)
(*                                                                         *)
(* A store operation is synchronous, so a process runs one at a time and   *)
(* pc is where the process is; what interleaves is other processes,        *)
(* crashes, and the volume.  An action is one access to the volume.  load  *)
(* takes no lock.                                                          *)
(*                                                                         *)
(* The log is what its replay yields, and whether its last line is torn: a *)
(* line appended to a torn one is unparsable with it, and lost.  A         *)
(* definition followed at once by the one it varies is a mutant.           *)
(***************************************************************************)
EXTENDS Naturals

CONSTANTS
  Process,       \* the processes of the deployment
  MaxGeneration, \* generations published: bounds the refreshes
  MaxPast,       \* generations published past the terminal marker: bounds these too
  MaxLogins,     \* fresh logins: bounds the sessions that sign in
  MaxRestores,   \* restored files: bounds that fault
  FaultPatterns  \* the sets of faults a behaviour may meet

(***************************************************************************)
(* "crash": a process dies.  "torn": an append is cut short.  "anchor":    *)
(* the anchor cannot be written.  "rename": the jar's file cannot be       *)
(* replaced.  "unreadable": the log cannot be read.  "garbled": the jar's  *)
(* file no longer authenticates.  "restore": an older jar file comes back. *)
(***************************************************************************)
FaultKinds == {"crash", "torn", "anchor", "rename", "unreadable", "garbled", "restore"}

ASSUME JarAssumption ==
  /\ MaxGeneration \in Nat \ {0} /\ MaxPast \in Nat
  /\ MaxLogins \in Nat /\ MaxRestores \in Nat
  /\ FaultPatterns \subseteq SUBSET FaultKinds
  /\ "free" \notin Process

VARIABLES
  faults,   \* the faults of this behaviour, constant
  logins,   \* fresh logins so far
  file,     \* jar_<id>.json
  backups,  \* every content the file was sealed with
  log,      \* the mark jar-tombstones.jsonl replays to
  tornTail, \* its last line is incomplete
  anchor,   \* the mark of jar-anchor.json
  lock,     \* who holds jar-ops.lock
  pc, job,  \* where each process is in an operation, and its local data
  session,  \* each process's session of this jar: the generation and login it holds
  acked,    \* history: generations whose revocation was acknowledged
  dropped,  \* history: logins the jar held when a revocation was acknowledged
  restored  \* history: how often an older file came back

volume == <<file, backups, log, tornTail, anchor>>
local == <<pc, job, session>>
history == <<acked, dropped, restored>>
vars == <<faults, logins, volume, lock, local, history>>

\* _MAX_GENERATION, the terminal marker: no count of refreshes comes to it.
Top == MaxGeneration + 1
Highest == Top + MaxPast
Generation == 1 .. Highest
Published == Generation \ {Top}
Content ==
  [kind : {"none", "sealed", "garbled"}, gen : 0 .. Highest,
   login : 0 .. MaxLogins, invalidated : BOOLEAN]
Mark == [gen : 0 .. Highest, deleted : BOOLEAN]
Operation == {"none", "load", "touch", "refresh", "invalidate", "delete"}
Progress ==
  {"idle", "load_log", "load_anchor", "number", "append", "anchor", "publish", "finish"}
Job == [op : Operation, content : Content, mark : Mark, seen : SUBSET Generation]
Session == [gen : 0 .. Highest, login : 0 .. MaxLogins]

NoFile == [kind |-> "none", gen |-> 0, login |-> 0, invalidated |-> FALSE]
NoMark == [gen |-> 0, deleted |-> FALSE]
NoJob == [op |-> "none", content |-> NoFile, mark |-> NoMark, seen |-> {}]
NoSession == [gen |-> 0, login |-> 0]

TypeOK ==
  /\ faults \in FaultPatterns
  /\ logins \in 0 .. MaxLogins
  /\ file \in Content /\ backups \subseteq Content
  /\ log \in Mark /\ tornTail \in BOOLEAN /\ anchor \in Mark
  /\ lock \in Process \cup {"free"}
  /\ pc \in [Process -> Progress]
  /\ job \in [Process -> Job]
  /\ session \in [Process -> Session]
  /\ acked \subseteq Generation
  /\ dropped \subseteq 0 .. MaxLogins
  /\ restored \in 0 .. MaxRestores

Init ==
  /\ faults \in FaultPatterns
  /\ logins = 0
  /\ file = NoFile /\ backups = {}
  /\ log = NoMark /\ tornTail = FALSE /\ anchor = NoMark
  /\ lock = "free"
  /\ pc = [p \in Process |-> "idle"]
  /\ job = [p \in Process |-> NoJob]
  /\ session = [p \in Process |-> NoSession]
  /\ acked = {} /\ dropped = {} /\ restored = 0
-----------------------------------------------------------------------------
(* The high-water mark.                                                    *)

Larger(a, b) == IF a >= b THEN a ELSE b

\* TombstoneStore._fold
Fold(a, b) == [gen |-> Larger(a.gen, b.gen), deleted |-> a.deleted \/ b.deleted]

InForce == Fold(log, anchor)

BlocksBelow(m, g) == m.deleted \/ g < m.gen
Blocks(m, g) == m.deleted \/ g <= m.gen

\* The mark a revocation of file content c records.
Revoking(c, deleted) ==
  [gen |-> IF c.kind = "sealed" THEN c.gen ELSE Top, deleted |-> deleted]

Sealed(g, l) == [kind |-> "sealed", gen |-> g, login |-> l, invalidated |-> FALSE]

\* What high_water answers when a refresh asks for the mark once more.
HighWater ==
  {InForce} \cup (IF "unreadable" \in faults THEN {[gen |-> Top, deleted |-> FALSE]} ELSE {})

\* The generation a refresh of content c publishes over mark m.
NextAfterFile(c, m) == c.gen + 1
NextGeneration(c, m) == Larger(c.gen, m.gen) + 1
-----------------------------------------------------------------------------
(* Processes.                                                              *)

Idle(p) == pc[p] = "idle"
Goto(p, where) == pc' = [pc EXCEPT ![p] = where]

\* Enter a locked operation.
BeginUnlocked(p, where, j) ==
  /\ Idle(p)
  /\ Goto(p, where)
  /\ job' = [job EXCEPT ![p] = j]
  /\ lock' = p
Begin(p, where, j) ==
  /\ Idle(p) /\ lock = "free"
  /\ Goto(p, where)
  /\ job' = [job EXCEPT ![p] = j]
  /\ lock' = p

\* Leave an operation, by return or exception.
Leave(p) ==
  /\ Goto(p, "idle")
  /\ job' = [job EXCEPT ![p] = NoJob]
  /\ lock' = IF lock = p THEN "free" ELSE lock

Write(content) ==
  /\ file' = content
  /\ backups' = backups \cup {c \in {content} : c.kind = "sealed"}

\* A user signs in, in a session without a jar.
SignIn(p) ==
  /\ Idle(p) /\ session[p] = NoSession /\ logins < MaxLogins
  /\ logins' = logins + 1
  /\ session' = [session EXCEPT ![p] = [gen |-> 0, login |-> logins']]
  /\ UNCHANGED <<faults, volume, lock, pc, job, history>>

EndSession(p) ==
  /\ Idle(p) /\ session[p] # NoSession
  /\ session' = [session EXCEPT ![p] = NoSession]
  /\ UNCHANGED <<faults, logins, volume, lock, pc, job, history>>

\* save without jar_id: nobody else knows the id it draws before it returns.
SaveNew(p) ==
  /\ Idle(p) /\ lock = "free"
  /\ backups = {}
  /\ session[p].login # 0
  /\ Write(Sealed(1, session[p].login))
  /\ session' = [session EXCEPT ![p].gen = 1]
  /\ UNCHANGED <<faults, logins, log, tornTail, anchor, lock, pc, job, history>>

\* save with jar_id, up to the record it has authenticated.  Its three checks of
\* the mark and its read of the file are one step: the lock keeps other writers
\* out, and a mark that cannot be read refuses the save with nothing changed.
StageRefresh(p) ==
  /\ session[p].login # 0
  /\ file.kind = "sealed"
  /\ ~InForce.deleted /\ InForce.gen < Top
  /\ NextGeneration(file, InForce) \in Published
  /\ Begin(p, "number",
       [NoJob EXCEPT !.op = "refresh",
                     !.content = Sealed(file.gen, session[p].login),
                     !.mark = Revoking(file, FALSE)])
  /\ UNCHANGED <<faults, logins, volume, session, history>>

\* The precondition is the generation the session holds; a session that signed in
\* afresh has none.
BeginRefreshUnconditionally(p) == StageRefresh(p)
BeginRefresh(p) ==
  /\ session[p].gen # 0 => ~Blocks(InForce, session[p].gen)
  /\ StageRefresh(p)

\* The generation to publish, over the mark read once more, and the staged file:
\* a log that cannot be read just now answers the terminal marker.
NumberUnrecorded(p) ==
  /\ pc[p] = "number"
  /\ \E m \in HighWater :
       /\ NextGeneration(job[p].content, m) \in Published
       /\ job' = [job EXCEPT ![p].content.gen = NextGeneration(job[p].content, m)]
  /\ Goto(p, "publish")
  /\ UNCHANGED <<faults, logins, volume, lock, session, history>>
Number(p) ==
  /\ pc[p] = "number"
  /\ \E m \in HighWater :
       /\ NextGeneration(job[p].content, m) \in Published
       /\ job' = [job EXCEPT ![p].content.gen = NextGeneration(job[p].content, m)]
  /\ Goto(p, "append")
  /\ UNCHANGED <<faults, logins, volume, lock, session, history>>

\* invalidate: a file that does not authenticate revokes all up to the marker.
BeginInvalidate(p) ==
  /\ backups # {}
  /\ Begin(p, "append",
       [NoJob EXCEPT !.op = "invalidate",
                     !.content = [file EXCEPT !.invalidated = (file.kind = "sealed")],
                     !.mark = Revoking(file, FALSE)])
  /\ UNCHANGED <<faults, logins, volume, session, history>>

BeginDelete(p) ==
  /\ backups # {}
  /\ Begin(p, "append", [NoJob EXCEPT !.op = "delete", !.mark = Revoking(file, TRUE)])
  /\ UNCHANGED <<faults, logins, volume, session, history>>

\* touch_loaded rewrites what it read.
BeginTouch(p) ==
  /\ session[p].gen # 0 /\ file.kind # "none"
  /\ Begin(p, "publish", [NoJob EXCEPT !.op = "touch", !.content = file])
  /\ UNCHANGED <<faults, logins, volume, session, history>>

\* TombstoneStore.record: append and fsync ...
Append(p) ==
  /\ pc[p] = "append"
  /\ log' = IF tornTail THEN log ELSE Fold(log, job[p].mark)
  /\ tornTail' = FALSE
  /\ Goto(p, "anchor")
  /\ UNCHANGED <<faults, logins, file, backups, anchor, lock, job, session, history>>

\* ... which the disk may cut short ...
TornAppend(p) ==
  /\ "torn" \in faults
  /\ pc[p] = "append"
  /\ tornTail' = TRUE
  /\ Leave(p)
  /\ UNCHANGED <<faults, logins, file, backups, log, anchor, session, history>>

\* ... and then write the anchor, as a best effort.
WriteAnchorFromLog(p) ==
  /\ pc[p] = "anchor"
  /\ \/ anchor' = Fold(log, job[p].mark)
     \/ "anchor" \in faults /\ UNCHANGED anchor
  /\ Goto(p, "publish")
  /\ UNCHANGED <<faults, logins, file, backups, log, tornTail, lock, job, session, history>>
WriteAnchor(p) ==
  /\ pc[p] = "anchor"
  /\ \/ anchor' = Fold(InForce, job[p].mark)
     \/ "anchor" \in faults /\ UNCHANGED anchor
  /\ Goto(p, "publish")
  /\ UNCHANGED <<faults, logins, file, backups, log, tornTail, lock, job, session, history>>

\* The log cannot be read, before the append or, for the anchor, after it.
RecordRaises(p) ==
  /\ "unreadable" \in faults
  /\ pc[p] \in {"append", "anchor"}
  /\ Leave(p)
  /\ UNCHANGED <<faults, logins, volume, session, history>>

\* Replace or unlink the file; an invalidation that found none writes none.
Publish(p) ==
  /\ pc[p] = "publish"
  /\ \/ job[p].op = "delete" /\ file' = NoFile /\ UNCHANGED backups
     \/ job[p].op = "invalidate" /\ job[p].content = NoFile /\ UNCHANGED <<file, backups>>
     \/ job[p].op # "delete" /\ job[p].content # NoFile /\ Write(job[p].content)
  /\ Goto(p, "finish")
  /\ UNCHANGED <<faults, logins, log, tornTail, anchor, lock, job, session, history>>

\* A revocation ignores that it could not: the tombstone is what counts.
PublishFails(p) ==
  /\ "rename" \in faults
  /\ pc[p] = "publish"
  /\ IF job[p].op \in {"invalidate", "delete"}
       THEN Goto(p, "finish") /\ UNCHANGED <<lock, job>>
       ELSE Leave(p)
  /\ UNCHANGED <<faults, logins, volume, session, history>>

\* A refresh's session now holds the new generation.
RefreshReturns(p) ==
  /\ pc[p] = "finish" /\ job[p].op \in {"refresh", "touch"}
  /\ session' = IF job[p].op = "refresh"
                  THEN [session EXCEPT ![p].gen = job[p].content.gen] ELSE session
  /\ Leave(p)
  /\ UNCHANGED <<faults, logins, volume, history>>

\* A revocation sweeps its own process's session and is acknowledged.
RevocationReturns(p) ==
  /\ pc[p] = "finish" /\ job[p].op \in {"invalidate", "delete"}
  /\ session' = IF session[p].gen # 0 THEN [session EXCEPT ![p] = NoSession] ELSE session
  /\ acked' = acked \cup {g \in Generation : Blocks(job[p].mark, g)}
  /\ dropped' = dropped \cup {c.login : c \in backups}
  /\ Leave(p)
  /\ UNCHANGED <<faults, logins, volume, restored>>
-----------------------------------------------------------------------------
(* load, and the kill-switch of running sessions.                           *)

LoadFile(p) ==
  /\ Idle(p) /\ session[p] = NoSession
  /\ file.kind = "sealed" /\ ~file.invalidated
  /\ job' = [job EXCEPT ![p] = [NoJob EXCEPT !.op = "load", !.content = file, !.seen = acked]]
  /\ Goto(p, "load_log")
  /\ UNCHANGED <<faults, logins, volume, lock, session, history>>

\* The log is read first; one that cannot be read blocks.
LoadLog(p) ==
  /\ pc[p] = "load_log"
  /\ \/ job' = [job EXCEPT ![p].mark = log] /\ Goto(p, "load_anchor") /\ UNCHANGED lock
     \/ "unreadable" \in faults /\ Leave(p)
  /\ UNCHANGED <<faults, logins, volume, session, history>>

LoadIgnoringLog(p) ==
  /\ pc[p] = "load_anchor"
  /\ session' = IF Blocks(anchor, job[p].content.gen)
                  THEN session
                  ELSE [session EXCEPT ![p] = [gen |-> job[p].content.gen,
                                               login |-> job[p].content.login]]
  /\ Leave(p)
  /\ UNCHANGED <<faults, logins, volume, history>>
LoadReturns(p) ==
  /\ pc[p] = "load_anchor"
  /\ session' = IF Blocks(Fold(job[p].mark, anchor), job[p].content.gen)
                  THEN session
                  ELSE [session EXCEPT ![p] = [gen |-> job[p].content.gen,
                                               login |-> job[p].content.login]]
  /\ Leave(p)
  /\ UNCHANGED <<faults, logins, volume, history>>

\* _enforce_jar_not_revoked_locked, also after worker.start, and by the bridge.
Enforce(p) ==
  /\ Idle(p) /\ session[p].gen # 0
  /\ \/ Blocks(InForce, session[p].gen)
     \/ file.kind # "sealed"
     \/ "unreadable" \in faults
  /\ session' = [session EXCEPT ![p] = NoSession]
  /\ UNCHANGED <<faults, logins, volume, lock, pc, job, history>>
-----------------------------------------------------------------------------
(* The processes' and the volume's mishaps.                                 *)

Crash(p) ==
  /\ "crash" \in faults
  /\ Leave(p)
  /\ session' = [session EXCEPT ![p] = NoSession]
  /\ UNCHANGED <<faults, logins, volume, history>>

Garble ==
  /\ "garbled" \in faults
  /\ file.kind = "sealed"
  /\ file' = [NoFile EXCEPT !.kind = "garbled"]
  /\ UNCHANGED <<faults, logins, backups, log, tornTail, anchor, lock, local, history>>

Restore ==
  /\ "restore" \in faults /\ restored < MaxRestores
  /\ file' \in backups
  /\ restored' = restored + 1
  /\ UNCHANGED <<faults, logins, backups, log, tornTail, anchor, lock, local, acked, dropped>>

Record(p) == Append(p) \/ TornAppend(p) \/ WriteAnchor(p) \/ RecordRaises(p)
Store(p) ==
  \/ Number(p) \/ Publish(p) \/ PublishFails(p) \/ RefreshReturns(p) \/ RevocationReturns(p)
Load(p) == LoadFile(p) \/ LoadLog(p) \/ LoadReturns(p)
Request(p) ==
  \/ SignIn(p) \/ EndSession(p) \/ SaveNew(p)
  \/ BeginRefresh(p) \/ BeginInvalidate(p) \/ BeginDelete(p) \/ BeginTouch(p)

Next ==
  \/ \E p \in Process : Request(p) \/ Record(p) \/ Store(p) \/ Load(p) \/ Enforce(p) \/ Crash(p)
  \/ Garble \/ Restore

Spec == Init /\ [][Next]_vars
-----------------------------------------------------------------------------
(* Safety.                                                                 *)

\* At most one of the two copies of the mark is subject to loss.
OneCopyHolds == ~({"torn", "anchor"} \subseteq faults)

(***************************************************************************)
(* An acknowledged revocation stays in force: no crash, cut-short append,  *)
(* failed anchor, restored file or later refresh lowers the mark below it. *)
(***************************************************************************)
RevokedStaysBlocked == OneCopyHolds => \A g \in acked : Blocks(InForce, g)

(***************************************************************************)
(* load takes no lock and reads file, log and anchor one after the other;  *)
(* still it never hands out a generation whose revocation was acknowledged *)
(* before it began.                                                        *)
(***************************************************************************)
LoadHonoursRevocation ==
  [][\A p \in Process :
       OneCopyHolds /\ pc[p] = "load_anchor" /\ session'[p] # NoSession =>
         session'[p].gen \notin job[p].seen]_vars

(***************************************************************************)
(* A login the jar held when its revocation was acknowledged is not in a   *)
(* loadable file again: a session that still holds it cannot publish it    *)
(* under a higher generation.  (Only while no older file is restored: a    *)
(* revocation of a restored file covers that file's generation.)           *)
(***************************************************************************)
Loadable == file.kind = "sealed" /\ ~file.invalidated /\ ~Blocks(InForce, file.gen)
NoResurrection == OneCopyHolds /\ restored = 0 /\ Loadable => file.login \notin dropped

(***************************************************************************)
(* A running session with a dropped login, in whatever process, is ended   *)
(* by its next check (Enforce): the mark covers the generation it holds,   *)
(* or the jar's file does not authenticate.  A refresh that is under way   *)
(* when its own jar is revoked elsewhere does not carry the session past   *)
(* the revocation.  (The second case is needed for a generation past the   *)
(* terminal marker, which the revocation of a garbled file does not cover.)*)
(***************************************************************************)
DroppedSessionsBlocked ==
  OneCopyHolds /\ restored = 0 =>
    \A p \in Process :
      session[p].gen # 0 /\ session[p].login \in dropped =>
        Blocks(InForce, session[p].gen) \/ file.kind # "sealed"

(***************************************************************************)
(* A refresh that reports success has published a generation that loads,   *)
(* also over a restored file behind the mark; and it is one the terminal   *)
(* marker covers, unless the log could not be read when high_water was     *)
(* asked for it (jars.py:1167): then it lies past the marker, although     *)
(* high_water answers the marker so that no refresh can (jars.py:608).     *)
(***************************************************************************)
RefreshIsLoadable ==
  \A p \in Process :
    pc[p] = "finish" /\ job[p].op = "refresh" =>
      /\ ~Blocks(InForce, job[p].content.gen)
      /\ job[p].content.gen > Top => "unreadable" \in faults

(***************************************************************************)
(* But for a restored file, the jar's generation never goes back: no       *)
(* rewrite by one process undoes a refresh by another.                     *)
(***************************************************************************)
GenerationsGrow ==
  [][file.kind = "sealed" /\ file'.kind = "sealed" /\ restored' = 0 =>
       file'.gen >= file.gen]_vars
=============================================================================
