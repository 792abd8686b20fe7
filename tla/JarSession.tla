------------------------------ MODULE JarSession ------------------------------
(***************************************************************************)
(* One session and the jar behind it: saving the session's login into the  *)
(* jar, revoking the jar, and the confinement that follows the jar's       *)
(* scope.  In this process a save, a revocation and the agent's commands   *)
(* meet at two locks, the jar's and then the session's; the browser goes   *)
(* its own way between them; and other processes refresh and revoke the    *)
(* same jar without either lock.                                           *)
(*                                                                         *)
(* The store's own operations are single steps here (JarStore opens them). *)
(* The browser is external: it asks the route guard about every document   *)
(* it is about to request.  A definition followed at once by the one it    *)
(* varies is a mutant (PROJECT.json).                                      *)
(***************************************************************************)
EXTENDS Naturals, Sequences

CONSTANTS
  Origin,        \* origins a page can be at
  Wide,          \* the jar's scope at first
  MaxGeneration, \* bounds the refreshes
  Kinds,         \* "loaded": seeded from the jar.  "source": it logs in and saves
  Faults         \* "publish": a refresh fails after its tombstone.
                 \* "evict": the eviction's navigation fails

ASSUME JarSessionAssumption ==
  /\ Wide \subseteq Origin /\ Wide # {}
  /\ MaxGeneration \in Nat \ {0}
  /\ Kinds \subseteq {"loaded", "source"}
  /\ Faults \subseteq {"publish", "evict"}

VARIABLES
  record,  \* the published jar: its generation, 0 if there is none, its
           \* scope, and (history) the login it holds
  blocked, \* generations up to here are tombstoned
  kind,    \* what the session is to the jar
  phase,   \* who drives it, then "ended"
  gen,     \* jar_generation, or the generation it produced; 0 before that
  scope,   \* the worker's confine_origins
  guard,   \* the route guard is installed: create_session has returned
  page,    \* the document: where it is, and whether it was let in too late
  nav,     \* the request in flight, and the scope it was let through under
  jarLock, \* who holds the jar's lock in this process
  lock,    \* who holds the session's
  save,    \* where the save in progress is, the locks it still has to take,
           \* and the scope it asks for
  sweep,   \* where the revocation in progress is
  revoked, \* history: logins that were in the jar when it was revoked
  others   \* history: someone else revoked or refreshed this login, or a
           \* refresh of its own failed between its two writes, or came before
           \* create_session had looked at the generation it loaded

store == <<record, blocked>>
browser == <<page, nav>>
session == <<kind, phase, gen, scope, guard>>
history == <<revoked, others>>
vars == <<store, session, browser, jarLock, lock, save, sweep, history>>

Generation == 0 .. MaxGeneration
Nowhere == "blank"
NoNav == [to |-> Nowhere]
NoSave == [at |-> "idle"]
Login == {"seeded", "own", "other"}
Holder == {"free", "save", "revoke", "command"}

TypeOK ==
  /\ record \in [generation : Generation, scope : SUBSET Origin, login : Login]
  /\ blocked \in Generation
  /\ kind \in {"loaded", "source"}
  /\ phase \in {"agent", "human", "ended"}
  /\ gen \in Generation
  /\ scope \subseteq Origin /\ guard \in BOOLEAN
  /\ page \in [at : Origin \cup {Nowhere}, late : BOOLEAN]
  /\ nav \in {NoNav} \cup [to : Origin, under : SUBSET Origin]
  /\ jarLock \in Holder /\ lock \in Holder
  /\ save \in {NoSave} \cup
       [at : {"locks", "begin", "export", "publish", "evict"},
        needs : Seq({"jar", "session"}), wants : SUBSET Wide]
  /\ sweep \in {"idle", "jar", "sweep"}
  /\ revoked \subseteq Login /\ others \in BOOLEAN

Blank == [at |-> Nowhere, late |-> FALSE]

\* The generation create_session loads.
Seeded == 1

\* The session is registered and its page is there.  One that is loaded for a
\* human is one handed over at once.
Init ==
  /\ kind \in Kinds
  /\ blocked = 0 /\ others = FALSE /\ revoked = {}
  /\ IF kind = "loaded"
     THEN /\ record = [generation |-> Seeded, scope |-> Wide, login |-> "seeded"]
          /\ gen = Seeded /\ scope = Wide /\ phase = "agent"
     ELSE /\ record = [generation |-> 0, scope |-> {}, login |-> "own"]
          /\ gen = 0 /\ scope = {} /\ phase = "human"
  /\ guard = FALSE
  /\ page = Blank /\ nav = NoNav
  /\ jarLock = "free" /\ lock = "free" /\ save = NoSave /\ sweep = "idle"
-----------------------------------------------------------------------------
(* Helpers.                                                                *)

\* _revoked_jar_for: the generation the session holds is tombstoned, or the
\* jar's record is gone.
RevokedBelow(g) == g < blocked \/ record.generation = 0
RevokedAt(g) == g <= blocked \/ record.generation = 0
Revoked == gen # 0 /\ RevokedAt(gen)

\* The worker confines documents while the agent drives a loaded session.
Confined == kind = "loaded" /\ phase = "agent"
Starting == kind = "loaded" /\ ~guard

\* The route guard's answer: let through, under the scope of that moment.
Admitted(o) == Confined /\ guard => o \in scope
Under == IF guard THEN scope ELSE Origin

\* The session ends, and its browser with it (_cleanup_locked).
SessionEnds == phase' = "ended" /\ page' = Blank /\ nav' = NoNav

\* save's tombstone and the generation it publishes.
Highest(a, b) == IF a > b THEN a ELSE b
NextGeneration == IF record.generation = 0 THEN 1 ELSE Highest(record.generation, blocked) + 1

\* resolve_refresh_scope: what is asked for, within the stored scope; nothing
\* asked for keeps it.
Narrows(w) == w \subseteq record.scope
Resolved(w) == IF record.generation = 0 THEN Wide ELSE IF w = {} THEN record.scope ELSE w
\* The locks a save takes, in order: a refresh has the jar's before the
\* session's, as creation and revocation do.
LocksOfSessionFirst == IF gen = 0 THEN <<"session">> ELSE <<"session", "jar">>
Locks == IF gen = 0 THEN <<"session">> ELSE <<"jar", "session">>
Release(l) == l' = "free"
-----------------------------------------------------------------------------
(* Creation, which holds no lock while the browser starts.                 *)

\* The page is there already; the guard goes in, and the jar is checked: it may
\* be loaded still, and the generation that was loaded stands.
Started ==
  /\ Starting
  /\ guard' = TRUE
  /\ IF RevokedAt(Seeded) \/ RevokedAt(record.generation) THEN SessionEnds
     ELSE UNCHANGED <<phase, browser>>
  /\ UNCHANGED <<store, kind, gen, scope, jarLock, lock, save, sweep, history>>

\* The agent hands over to the human.  Such a session never comes back.
HandsOver ==
  /\ phase = "agent" /\ lock = "free"
  /\ phase' = "human"
  /\ UNCHANGED <<store, kind, gen, scope, guard, browser, jarLock, lock, save, sweep, history>>
-----------------------------------------------------------------------------
(* The browser and the agent's commands.                                   *)

Live == phase # "ended"

\* The page, or a command in progress, asks for a document.
Requests(o) ==
  IF Admitted(o) THEN nav' = [to |-> o, under |-> Under] ELSE UNCHANGED nav

PageNavigates(o) ==
  /\ Live /\ page.at # Nowhere
  /\ Requests(o)
  /\ UNCHANGED <<store, session, page, jarLock, lock, save, sweep, history>>

\* The document asked for arrives, whatever the scope has become since.
Arrives ==
  /\ nav # NoNav
  /\ page' = [at |-> nav.to, late |-> nav.under # scope]
  /\ nav' = NoNav
  /\ UNCHANGED <<store, session, jarLock, lock, save, sweep, history>>

\* The agent, or the human, sends the page somewhere.  An agent's command
\* enforces revocation first and refuses what is off scope.
CommandStarts(o) ==
  /\ Live /\ lock = "free"
  /\ IF Revoked
     THEN SessionEnds /\ UNCHANGED <<lock, jarLock>>
     ELSE /\ Confined => o \in scope
          /\ Requests(o)
          /\ lock' = "command"
          /\ UNCHANGED <<phase, page, jarLock>>
  /\ UNCHANGED <<store, kind, gen, scope, guard, save, sweep, history>>

CommandEnds ==
  /\ lock = "command"
  /\ Release(lock)
  /\ UNCHANGED <<store, session, browser, jarLock, save, sweep, history>>
-----------------------------------------------------------------------------
(* save_jar.                                                               *)

SaveGoes(to) == save' = [save EXCEPT !.at = to]
SaveEnds ==
  /\ save' = NoSave /\ Release(lock)
  /\ jarLock' = IF jarLock = "save" THEN "free" ELSE jarLock

\* Asking for an origin the jar never had is one of the widenings.
SaveAsks ==
  /\ save = NoSave /\ phase \in {"agent", "human"}
  /\ \E w \in SUBSET Wide : save' = [at |-> "locks", needs |-> Locks, wants |-> w]
  /\ UNCHANGED <<store, session, browser, jarLock, lock, sweep, history>>

\* The next lock, when it is free; with the last of them the save begins.
SaveLocks ==
  /\ save.at = "locks"
  /\ LET rest == Tail(save.needs)
     IN save' = [save EXCEPT !.needs = rest, !.at = IF rest = <<>> THEN "begin" ELSE "locks"]
  /\ \/ Head(save.needs) = "jar" /\ jarLock = "free" /\ jarLock' = "save" /\ UNCHANGED lock
     \/ Head(save.needs) = "session" /\ lock = "free" /\ lock' = "save" /\ UNCHANGED jarLock
  /\ UNCHANGED <<store, session, browser, sweep, history>>

\* Under both locks: a session that ended is refused, one whose jar was
\* revoked is closed, and a scope that would widen the jar's is refused.
SaveBegins ==
  /\ save.at = "begin"
  /\ \/ phase = "ended" /\ SaveEnds /\ UNCHANGED <<phase, browser>>
     \/ phase # "ended" /\ Revoked /\ SaveEnds /\ SessionEnds
     \/ /\ phase # "ended" /\ ~Revoked
        /\ IF gen = 0 \/ Narrows(save.wants)
           THEN SaveGoes("export") /\ UNCHANGED <<lock, jarLock>> ELSE SaveEnds
        /\ UNCHANGED <<phase, browser>>
  /\ UNCHANGED <<store, kind, gen, scope, guard, sweep, history>>

\* The state is exported; the jar may have been revoked while it was.
SaveExported ==
  /\ save.at = "export"
  /\ IF Revoked
     THEN SaveEnds /\ SessionEnds
     ELSE SaveGoes("publish") /\ UNCHANGED <<lock, jarLock, phase, browser>>
  /\ UNCHANGED <<store, kind, gen, scope, guard, sweep, history>>

\* The store publishes, unless the generation the session holds is blocked by
\* now, the record gone, the scope too wide for it, or the record too large;
\* with it the session moves to the new generation and, if it was seeded from
\* the jar, to the new scope.  A page left outside that is to be evicted.
StillHeldUnchecked == TRUE
StillHeld == gen = 0 \/ (gen > blocked /\ record.generation # 0)
Fits(g) == g \in Generation
KeepsGeneration(g) == IF kind = "loaded" THEN gen ELSE g
AdvancedTo(g) == g
LeavesPage(w) == FALSE
MustEvict(w) == Confined /\ page.at \notin w
SavePublishes ==
  /\ save.at = "publish"
  /\ StillHeld /\ Fits(NextGeneration) /\ Narrows(save.wants)
  /\ LET w == Resolved(save.wants)
     IN /\ record' = [generation |-> NextGeneration, scope |-> w,
                      login |-> IF kind = "loaded" THEN "seeded" ELSE "own"]
        /\ blocked' = Highest(record.generation, blocked)
        /\ gen' = AdvancedTo(NextGeneration)
        /\ scope' = IF kind = "loaded" THEN w ELSE scope
        /\ IF MustEvict(w)
           THEN SaveGoes("evict") /\ UNCHANGED <<lock, jarLock>> ELSE SaveEnds
        /\ others' = (others \/ Starting)
  /\ UNCHANGED <<kind, phase, guard, browser, sweep, revoked>>

SaveRefused ==
  /\ save.at = "publish"
  /\ SaveEnds
  /\ UNCHANGED <<store, session, browser, sweep, history>>

\* The old generation is tombstoned, and the record not replaced.
SaveFails ==
  /\ "publish" \in Faults
  /\ save.at = "publish" /\ StillHeld /\ record.generation # 0
  /\ blocked' = Highest(record.generation, blocked)
  /\ SaveEnds
  /\ others' = TRUE
  /\ UNCHANGED <<record, session, browser, sweep, revoked>>

\* evict_off_scope_page leaves for about:blank; its failure is swallowed.
SaveEvicts ==
  /\ save.at = "evict"
  /\ SaveEnds
  /\ \/ page' = Blank /\ nav' = NoNav
     \/ "evict" \in Faults /\ page' = [page EXCEPT !.late = TRUE] /\ UNCHANGED nav
  /\ UNCHANGED <<store, session, sweep, history>>
-----------------------------------------------------------------------------
(* Revocation, here and elsewhere.                                         *)

\* invalidate blocks the generation; delete removes the record as well.
JarRevoked ==
  /\ record.generation # 0
  /\ blocked' = Highest(record.generation, blocked)
  /\ record' \in {record, [record EXCEPT !.generation = 0]}
  /\ revoked' = revoked \cup {record.login}
  /\ others' = TRUE

\* invalidate_jar, delete_jar: the store, then the sweep, under the jar's lock.
RevokeStarts ==
  /\ sweep = "idle" /\ record.generation # 0
  /\ sweep' = "jar"
  /\ UNCHANGED <<store, session, browser, jarLock, lock, save, history>>

RevokeLocks ==
  /\ sweep = "jar" /\ jarLock = "free"
  /\ IF record.generation = 0
     THEN sweep' = "idle" /\ UNCHANGED <<store, jarLock, history>>
     ELSE sweep' = "sweep" /\ jarLock' = "revoke" /\ JarRevoked
  /\ UNCHANGED <<session, browser, lock, save>>

\* A live session seeded from the jar, or that produced it, is closed under
\* its own lock.
RevokeSweeps ==
  /\ sweep = "sweep"
  /\ sweep' = "idle" /\ Release(jarLock)
  /\ IF Live /\ gen # 0
     THEN lock = "free" /\ SessionEnds ELSE UNCHANGED <<phase, browser>>
  /\ UNCHANGED <<store, kind, gen, scope, guard, lock, save, history>>

RemoteRevoke ==
  /\ JarRevoked
  /\ UNCHANGED <<session, browser, jarLock, lock, save, sweep>>

\* Another session refreshes: with the same login if its generation stands,
\* with one of its own if it logged in anew.
RemoteRefresh ==
  /\ record.generation # 0 /\ NextGeneration \in Generation
  /\ \E w \in SUBSET record.scope \ {{}}, l \in {record.login, "other"} :
       /\ l \notin revoked
       /\ l = record.login => record.generation > blocked
       /\ record' = [generation |-> NextGeneration, scope |-> w, login |-> l]
  /\ blocked' = Highest(record.generation, blocked)
  /\ others' = TRUE
  /\ UNCHANGED <<session, browser, jarLock, lock, save, sweep, revoked>>

SaveStep == SaveBegins \/ SaveExported \/ SavePublishes \/ SaveRefused \/ SaveFails \/ SaveEvicts
RevokeStep == RevokeLocks \/ RevokeSweeps

Next ==
  \/ Started \/ HandsOver
  \/ \E o \in Origin : PageNavigates(o) \/ CommandStarts(o)
  \/ Arrives \/ CommandEnds
  \/ SaveAsks \/ SaveLocks
  \/ SaveBegins \/ SaveExported \/ SavePublishes \/ SaveRefused \/ SaveFails \/ SaveEvicts
  \/ RevokeStarts \/ RevokeLocks \/ RevokeSweeps
  \/ RemoteRevoke \/ RemoteRefresh

Spec == Init /\ [][Next]_vars

\* The event loop runs what can run, the browser and the store answer, and a
\* lock goes to its waiters in turn.  Nobody is bound to ask for anything.
Fairness ==
  /\ WF_vars(CommandEnds) /\ WF_vars(SaveStep)
  /\ SF_vars(SaveLocks) /\ SF_vars(RevokeStep)

FairSpec == Spec /\ Fairness
-----------------------------------------------------------------------------
\* While the agent drives a confined session and no save or command is at work
\* in it, the page is inside the confinement, through every narrowing of the
\* scope it was reached under; except one whose request was let through before
\* the guard or the narrowing and that came after, or that would not leave
\* (registry.py, _save_jar_locked, "evict the CURRENT page").
InScope == page.at \in scope \cup {Nowhere}
ScopeHolds == Confined /\ guard /\ lock = "free" => InScope \/ page.late

\* A session is never ended by its own refresh: only by somebody else's
\* revocation or refresh, because a refresh failed between its tombstone and
\* its record, or because one preceded create_session's own check
\* (_save_jar_locked, "Advance the loaded generation").
OwnRefreshKeepsSession == phase = "ended" => others

\* A login that was in the jar when it was revoked is never loadable from it
\* again, whatever sessions still hold that login and however far their saves
\* had come (save's revoke_precondition, "undo the remote kill-switch").
RevokedLoginStaysOut ==
  record.generation # 0 /\ record.generation > blocked => record.login \notin revoked

\* Saves, revocations, creations and commands do not block each other for
\* good: each lock is free again and again (save_jar, "jar lock BEFORE the
\* session lock").
LocksComeBack == []<>(jarLock = "free") /\ []<>(lock = "free")
=============================================================================
