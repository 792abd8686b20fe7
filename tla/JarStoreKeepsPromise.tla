-------------------------- MODULE JarStoreKeepsPromise --------------------------
(***************************************************************************)
(* JarStore implements JarPromise: what its files, marks and sessions      *)
(* amount to for a reader of the promise.                                  *)
(***************************************************************************)
EXTENDS JarStore

\* A process between entering and leaving a locked operation.
Locked(q) == pc[q] \in {"number", "append", "anchor", "publish", "finish"}

\* The jar's file does not authenticate and nobody is about to write it back:
\* every check of a session of the jar ends it.
Lost ==
  /\ file.kind # "sealed"
  /\ \A q \in Process : Locked(q) => job[q].content.kind # "sealed"

Stands(g) == ~Blocks(InForce, g) /\ ~Lost

offered == IF Loadable THEN file.login ELSE 0

\* A load under way has what it read in hand; a refresh that is about to return
\* what it has published.
InHand(p) ==
  IF \/ pc[p] \in {"load_log", "load_anchor"}
     \/ pc[p] = "finish" /\ job[p].op = "refresh"
  THEN [gen |-> job[p].content.gen, login |-> job[p].content.login]
  ELSE session[p]

Held(p) == IF InHand(p).gen # 0 /\ Stands(InHand(p).gen) THEN InHand(p).login ELSE 0

P == INSTANCE JarPromise WITH
  Login <- 1 .. MaxLogins,
  Holder <- Process,
  Nothing <- 0,
  held <- [p \in Process |-> Held(p)],
  trusted <- OneCopyHolds /\ restored = 0

(***************************************************************************)
(* Every access to the volume, in whatever order processes, crashes and    *)
(* the other faults meet, is a step of the jar's promise or changes        *)
(* nothing it shows: a refresh or a revocation cuts every other session    *)
(* and load off in one step, whichever process they are in, and no step    *)
(* offers a revoked login (JarStore.save, load, invalidate, delete,        *)
(* touch_loaded and TombstoneStore.record, jars.py).                       *)
(***************************************************************************)
KeepsPromise == P!Spec
=============================================================================
