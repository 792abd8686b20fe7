------------------------- MODULE JarSessionKeepsPromise -------------------------
(***************************************************************************)
(* JarSession implements JarPromise, for its one session as the holder.    *)
(***************************************************************************)
EXTENDS JarSession

offered == IF RevokedAt(record.generation) THEN "nothing" ELSE record.login

\* The login this session holds, and so what its saves put into the jar.
Own == IF kind = "loaded" THEN "seeded" ELSE "own"
Held == IF phase = "ended" \/ gen = 0 \/ Revoked THEN "nothing" ELSE Own

P == INSTANCE JarPromise WITH
  Holder <- {"session"},
  Nothing <- "nothing",
  held <- [h \in {"session"} |-> Held],
  dropped <- revoked,
  trusted <- TRUE

(***************************************************************************)
(* The session, its browser, the saves and sweeps of this process and what *)
(* other processes do to the jar are steps of the jar's promise: whoever   *)
(* publishes or revokes, this session is cut off unless it is the one that *)
(* publishes, and its save never offers a login that was revoked while it  *)
(* was on its way (registry.py, _save_jar_locked).                         *)
(***************************************************************************)
KeepsPromise == P!Spec
=============================================================================
