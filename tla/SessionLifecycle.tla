--------------------------- MODULE SessionLifecycle ---------------------------
(***************************************************************************)
(* One browser session of the SessionRegistry, from create_session to its  *)
(* teardown: the lease state machine, the human's and the agent's tokens,  *)
(* the two expiry clocks, the worker behind it, and the revocation of the  *)
(* cookie jar it was loaded from.                                          *)
(*                                                                         *)
(* Every operation but create_session holds the session's asyncio.Lock;    *)
(* pc is "free" when nobody holds it and otherwise names the await the     *)
(* holder is suspended at.  create_session registers the session and then  *)
(* awaits worker.start() without the lock: start is its own program        *)
(* counter, and its steps interleave with the lock holder's.  An action    *)
(* runs from one await to the next.  Calls that change nothing (a refused  *)
(* request, an authorization that succeeds) are stuttering steps.          *)
(*                                                                         *)
(* A definition followed at once by the one it is a variation of is a      *)
(* mutant of it: the slip the properties must catch (PROJECT.json).        *)
(***************************************************************************)
EXTENDS Integers, Transitions

CONSTANTS
  Tokens,       \* identities of the tokens that may be minted: bounds the handoffs
  Faults,       \* the awaits that may fail, a subset of FaultKinds
  AgentIdle,    \* 15 minutes: idle limit under the agent's lease
  HumanIdle,    \* 10 minutes: idle limit while parked or under the human's lease
  ShortIdle,    \*  5 minutes: idle limit in human_sensitive and agent_resumable
  HardLimit,    \* 60 minutes: expires_at, counted from creation
  ExtendLimit,  \* 10 minutes: the most one extend call asks for
  MaxNow        \* where the clock stops: bounds the behaviours

(***************************************************************************)
(* "command": a worker command raises.  "close": worker.close raises.      *)
(* "hang": a worker command never returns (page.evaluate has no timeout).  *)
(***************************************************************************)
FaultKinds == {"command", "close", "hang"}

ASSUME ConstantsAssumption ==
  /\ Faults \subseteq FaultKinds
  /\ {AgentIdle, HumanIdle, ShortIdle, HardLimit, ExtendLimit, MaxNow} \subseteq Nat \ {0}
  /\ AgentIdle <= HardLimit

\* What a create_session request fixes: is a jar loaded, is it an
\* authenticated-site session, who drives first (initial_owner).
Request == [jar : BOOLEAN, site : BOOLEAN, first : {"agent", "human"}]

VARIABLES
  request,      \* the create_session request, constant
  state, owner, \* session.state and session.lease_owner
  resume,       \* session.allowed_resume
  asked,        \* history: the allowed_resume the last handoff asked for
  tokens,       \* the registry's TokenRecords of this session
  now,          \* now_utc()
  idle, hard,   \* session.idle_expires_at and session.expires_at
  start,        \* progress of create_session
  pc,           \* progress of the session lock's holder
  browser,      \* the worker's Chromium context and page
  workerClosed, \* worker.closed
  confined,     \* worker._confinement_active
  cleanup,      \* cleanup_started_at and cleanup_completed_at
  jarRevoked,   \* the tombstone covers the generation the session was seeded from
  sweep         \* progress of this process's _close_sessions_for_jar

lease  == <<state, owner, resume, asked>>
clock  == <<now, idle, hard>>
worker == <<browser, workerClosed, confined>>
jar    == <<jarRevoked, sweep>>
vars   == <<request, lease, tokens, clock, start, pc, worker, cleanup, jar>>

TokenType == {"unminted", "control", "handoff", "handover"}
TokenRecord == [type : TokenType, expires : Nat, consumed : BOOLEAN]
Resume == {"never", "after_sanitize"}
Cleaning == {"cleanup_request", "cleanup_reap", "cleanup_sweep"}
Progress == Cleaning \cup
  {"free", "command", "hung", "sanitize", "handover_sanitize", "handover_reopen"}

TypeOK ==
  /\ request \in Request
  /\ state \in SessionState \cup {"unregistered"}
  /\ owner \in LeaseOwner
  /\ resume \in Resume /\ asked \in Resume
  /\ tokens \in [Tokens -> TokenRecord]
  /\ now \in Nat /\ idle \in Nat /\ hard \in Nat
  /\ start \in {"none", "awaiting", "failing", "recheck", "done"}
  /\ pc \in Progress
  /\ browser \in {"none", "running", "gone"}
  /\ workerClosed \in BOOLEAN /\ confined \in BOOLEAN
  /\ cleanup \in {"none", "started", "completed"}
  /\ jarRevoked \in BOOLEAN
  /\ sweep \in {"none", "pending", "done", "aborted"}

Init ==
  /\ request \in Request
  /\ state = "unregistered" /\ owner = "none"
  /\ resume = "never" /\ asked = "never"
  /\ tokens = [t \in Tokens |-> [type |-> "unminted", expires |-> 0, consumed |-> FALSE]]
  /\ now = 0 /\ idle = 0 /\ hard = 0
  /\ start = "none" /\ pc = "free"
  /\ browser = "none" /\ workerClosed = FALSE /\ confined = TRUE
  /\ cleanup = "none"
  /\ jarRevoked = FALSE /\ sweep = "none"
-----------------------------------------------------------------------------
(* Helpers.                                                                *)

Registered == state # "unregistered"
Terminal == state \in TERMINAL_STATES
Earlier(a, b) == IF a <= b THEN a ELSE b
Later(a, b) == IF a >= b THEN a ELSE b

\* _raise_if_expired raises, reap_expired ends the session.
ExpiredUnlessSanitizing ==
  ~Terminal /\ state # "sanitize_pending" /\ (idle <= now \/ hard <= now)
Expired == ~Terminal /\ (idle <= now \/ hard <= now)

\* _authorize_token_locked returns.
Usable(t, type) ==
  tokens[t].type = type /\ ~tokens[t].consumed /\ now < tokens[t].expires

\* _authorize_human_token_locked returns.
HumanAuthorized(t, allowPending) ==
  \/ state \in HUMAN_STATES /\ Usable(t, "control")
  \/ allowPending /\ state = "handover_requested" /\ Usable(t, "control")
  \/ allowPending /\ state = "handoff_requested" /\ Usable(t, "handoff")

Fresh(t) == tokens[t].type = "unminted"
Minted(type, expires) == [type |-> type, expires |-> expires, consumed |-> FALSE]

\* The records after a claim consumed u and minted t.
ClaimedNotConsumed(u, t) == [tokens EXCEPT ![t] = Minted("control", hard)]
Claimed(u, t) == [tokens EXCEPT ![u].consumed = TRUE, ![t] = Minted("control", hard)]

\* _revoke_session_tokens_locked, for the records of the given types.
RevokedUnlessExpired(types) ==
  [t \in Tokens |-> IF tokens[t].type \in types /\ now < tokens[t].expires
                    THEN [tokens[t] EXCEPT !.consumed = TRUE] ELSE tokens[t]]
WithRevoked(types) ==
  [t \in Tokens |-> IF tokens[t].type \in types
                    THEN [tokens[t] EXCEPT !.consumed = TRUE] ELSE tokens[t]]

MoveTo(to) ==
  \E next \in LeaseOwner : Transition(state, owner, to, next) /\ state' = to /\ owner' = next

EndKeepingOwner(to) == state' = to /\ owner' = owner
End(to) == state' = to /\ owner' = "none"

\* _cleanup_locked up to its await of worker.close().
StartCleanup ==
  /\ cleanup' = IF cleanup = "none" THEN "started" ELSE cleanup
  /\ tokens' = WithRevoked({"control", "handoff", "handover"})
  /\ workerClosed' = TRUE

\* A session of this jar lost its backing: _revoked_jar_for returns the jar.
JarGone == request.jar /\ jarRevoked

\* A jar-loaded context may not be asked back.
AnyResume(r) == r \in Resume
ResumeAllowed(r) == request.jar => r = "never"

\* set_confinement_active(False) when the browser is o's to drive.
WidensForAnyone(o) == request.jar /\ ~request.site
WidensFor(o) == o = "human" /\ request.jar /\ ~request.site

\* A handler that takes the lock.
HandlerUnlocked == Registered
Handler == pc = "free" /\ Registered

\* _enforce_jar_not_revoked_locked closes the session and raises.
CloseRevoked ==
  /\ JarGone
  /\ End("cancelled")
  /\ StartCleanup
  /\ pc' = "cleanup_request"
  /\ UNCHANGED <<request, resume, asked, clock, start, browser, confined, jar>>
-----------------------------------------------------------------------------
(* create_session.                                                         *)

\* Load the jar (refused when it is revoked), register the session, make the
\* worker and suspend in worker.start().
Create ==
  /\ ~Registered
  /\ ~JarGone
  /\ state' = IF request.first = "human" THEN "human_active" ELSE "agent_active"
  /\ owner' = request.first
  /\ idle' = now + AgentIdle
  /\ hard' = now + HardLimit
  /\ start' = "awaiting"
  /\ UNCHANGED <<request, resume, asked, tokens, now, pc, worker, cleanup, jar>>

\* PlaywrightBrowserWorker.start assigns the browser, the context and the page.
\* A close() that ran before found nothing to close and does not stop this.
Launch ==
  /\ start = "awaiting" /\ browser = "none"
  /\ browser' = "running"
  /\ UNCHANGED <<request, lease, tokens, clock, start, pc, workerClosed, confined, cleanup, jar>>

\* worker.start() returned and the jar, if any, is still good.
Started ==
  /\ start = "awaiting" /\ browser # "none"
  /\ ~JarGone
  /\ start' = "done"
  /\ confined' = (confined /\ ~WidensFor(owner))
  /\ IF owner = "human"
       THEN \E t \in Tokens : Fresh(t) /\ tokens' = [tokens EXCEPT ![t] = Minted("control", hard)]
       ELSE UNCHANGED tokens
  /\ UNCHANGED <<request, lease, clock, pc, browser, workerClosed, cleanup, jar>>

\* The post-start recheck finds the seeded generation revoked: cancel and
\* clean up, without the session lock.
StartedRevoked ==
  /\ start = "awaiting" /\ browser # "none"
  /\ JarGone
  /\ End("cancelled")
  /\ StartCleanup
  /\ start' = "recheck"
  /\ UNCHANGED <<request, resume, asked, clock, pc, browser, confined, jar>>

RecheckCleaned ==
  /\ start = "recheck"
  /\ start' = "done"
  /\ \/ browser' = "gone" /\ cleanup' = "completed"
     \/ "close" \in Faults /\ UNCHANGED <<browser, cleanup>>
  /\ UNCHANGED <<request, lease, tokens, clock, pc, workerClosed, confined, jar>>

\* Something in start() raised: its except clause closes the worker ...
StartRaises ==
  /\ start = "awaiting"
  /\ start' = "failing"
  /\ workerClosed' = TRUE
  /\ UNCHANGED <<request, lease, tokens, clock, pc, browser, confined, cleanup, jar>>

\* ... and create_session turns RuntimeUnavailable into FAILED, whatever the
\* state has become meanwhile.
StartFailed ==
  /\ start = "failing"
  /\ browser' = "gone"
  /\ End("failed")
  /\ start' = "done"
  /\ UNCHANGED <<request, resume, asked, tokens, clock, pc, workerClosed, confined, cleanup, jar>>

\* The close in that except clause raises itself: create_session propagates it.
StartCloseRaises ==
  /\ "close" \in Faults
  /\ start = "failing"
  /\ start' = "done"
  /\ UNCHANGED <<request, lease, tokens, clock, pc, worker, cleanup, jar>>
-----------------------------------------------------------------------------
(* Parking with the human and the claim.                                   *)

HandoffKeepingResume(r) ==
  /\ Handler /\ ~Expired
  /\ ResumeAllowed(r)
  /\ MoveTo("handoff_requested")
  /\ resume' = (IF r = "never" THEN resume ELSE r) /\ asked' = r
  /\ confined' = (confined /\ ~WidensFor("human"))
  /\ idle' = Earlier(now + HumanIdle, hard)
  /\ \E t \in Tokens : Fresh(t) /\ tokens' = [tokens EXCEPT ![t] = Minted("handoff", idle')]
  /\ UNCHANGED <<request, now, hard, start, pc, browser, workerClosed, cleanup, jar>>
Handoff(r) ==
  /\ Handler /\ ~Expired
  /\ ResumeAllowed(r)
  /\ MoveTo("handoff_requested")
  /\ resume' = r /\ asked' = r
  /\ confined' = (confined /\ ~WidensFor("human"))
  /\ idle' = Earlier(now + HumanIdle, hard)
  /\ \E t \in Tokens : Fresh(t) /\ tokens' = [tokens EXCEPT ![t] = Minted("handoff", idle')]
  /\ UNCHANGED <<request, now, hard, start, pc, browser, workerClosed, cleanup, jar>>

Claim(u) ==
  /\ Handler /\ ~Expired
  /\ Usable(u, "handoff")
  /\ MoveTo("human_active")
  /\ idle' = Earlier(now + HumanIdle, hard)
  /\ \E t \in Tokens : Fresh(t) /\ tokens' = Claimed(u, t)
  /\ UNCHANGED <<request, resume, asked, now, hard, start, pc, worker, cleanup, jar>>

\* authorize_remote, authorize_handoff_page: they only ever enforce the revocation.
AuthorizeHuman(t) ==
  /\ Handler /\ ~Expired
  /\ HumanAuthorized(t, TRUE)
  /\ CloseRevoked

ExtendedUncapped(minutes) == Later(idle, now + minutes)
Extended(minutes) == Later(idle, Earlier(now + minutes, hard))

ExtendWakes(t, minutes) ==
  /\ Handler /\ ~Expired
  /\ HumanAuthorized(t, FALSE)
  /\ idle' = Extended(minutes)
  /\ state' = "human_active"
  /\ UNCHANGED <<request, owner, resume, asked, tokens, now, hard, start, pc, worker, cleanup, jar>>
Extend(t, minutes) ==
  /\ Handler /\ ~Expired
  /\ HumanAuthorized(t, FALSE)
  /\ idle' = Extended(minutes)
  /\ UNCHANGED <<request, lease, tokens, now, hard, start, pc, worker, cleanup, jar>>

MarkSensitive(t) ==
  /\ Handler /\ ~Expired
  /\ HumanAuthorized(t, FALSE)
  /\ MoveTo("human_sensitive")
  /\ idle' = Earlier(now + ShortIdle, hard)
  /\ UNCHANGED <<request, resume, asked, tokens, now, hard, start, pc, worker, cleanup, jar>>

HumanCancel(t) ==
  /\ Handler /\ ~Expired
  /\ HumanAuthorized(t, TRUE)
  /\ MoveTo("cancelled")
  /\ StartCleanup
  /\ pc' = "cleanup_request"
  /\ UNCHANGED <<request, resume, asked, clock, start, browser, confined, jar>>
-----------------------------------------------------------------------------
(* Giving the session back: human_complete, handover, agent_claim.          *)

\* _sanitize_for_resume_locked finds the worker closed, fails the session and raises.
SanitizeImpossible ==
  /\ workerClosed
  /\ End("failed")
  /\ UNCHANGED pc

Complete(t) ==
  /\ Handler /\ ~Expired
  /\ HumanAuthorized(t, FALSE)
  /\ ~(resume = "after_sanitize" /\ state = "human_active")
  /\ MoveTo("completed")
  /\ StartCleanup
  /\ pc' = "cleanup_request"
  /\ UNCHANGED <<request, resume, asked, clock, start, browser, confined, jar>>

CompleteResumable(t) ==
  /\ Handler /\ ~Expired
  /\ HumanAuthorized(t, FALSE)
  /\ resume = "after_sanitize" /\ state = "human_active"
  /\ \/ SanitizeImpossible
     \/ ~workerClosed /\ MoveTo("sanitize_pending") /\ pc' = "sanitize"
  /\ UNCHANGED <<request, resume, asked, tokens, clock, start, worker, cleanup, jar>>

\* close_page returned, which takes a page to close.  The transition raises when
\* create_session has ended the session meanwhile.
Sanitized ==
  /\ pc = "sanitize"
  /\ browser # "none"
  /\ IF Terminal
       THEN UNCHANGED <<state, owner, idle>>
       ELSE MoveTo("agent_resumable") /\ idle' = Earlier(now + ShortIdle, hard)
  /\ pc' = "free"
  /\ UNCHANGED <<request, resume, asked, tokens, now, hard, start, worker, cleanup, jar>>

Handover(t) ==
  /\ Handler /\ ~Expired
  /\ Usable(t, "control") /\ state = "human_active"
  /\ ~request.jar /\ ~request.site
  /\ MoveTo("handover_requested")
  /\ resume' = "never"
  /\ idle' = Earlier(now + HumanIdle, hard)
  /\ \E u \in Tokens : Fresh(u) /\ tokens' = [tokens EXCEPT ![u] = Minted("handover", idle')]
  /\ UNCHANGED <<request, asked, now, hard, start, pc, worker, cleanup, jar>>

\* An authenticated-site session is sanitized and reopened before it is published.
HandoverSite(t) ==
  /\ Handler /\ ~Expired
  /\ Usable(t, "control") /\ state = "human_active"
  /\ request.site
  /\ resume' = "after_sanitize"
  /\ \/ SanitizeImpossible
     \/ ~workerClosed /\ pc' = "handover_sanitize" /\ UNCHANGED <<state, owner>>
  /\ UNCHANGED <<request, asked, tokens, clock, start, worker, cleanup, jar>>

HandoverSanitized ==
  /\ pc = "handover_sanitize"
  /\ browser # "none" /\ ~workerClosed
  /\ pc' = "handover_reopen"
  /\ UNCHANGED <<request, lease, tokens, clock, start, worker, cleanup, jar>>

\* The page is reopened (or could not be, the worker being closed by now).
HandoverPublished ==
  /\ pc = "handover_reopen" \/ (pc = "handover_sanitize" /\ workerClosed)
  /\ browser # "none"
  /\ IF Terminal
       THEN UNCHANGED <<state, owner, idle>>
       ELSE MoveTo("handover_requested") /\ idle' = Earlier(now + HumanIdle, hard)
  /\ pc' = "free"
  /\ UNCHANGED <<request, resume, asked, tokens, now, hard, start, worker, cleanup, jar>>

\* The service token alone is the authority for an authenticated-site session,
\* which mints no handover token; any other session must present its token.
AgentClaim ==
  /\ Handler /\ ~Expired
  /\ state = "handover_requested"
  /\ \/ CloseRevoked
     \/ /\ ~JarGone
        /\ MoveTo("agent_active")
        /\ idle' = Earlier(now + AgentIdle, hard)
        /\ \/ request.site /\ tokens' = WithRevoked({"handover", "control"})
           \/ \E t \in Tokens :
                /\ Usable(t, "handover")
                /\ tokens' = [WithRevoked({"control"}) EXCEPT ![t].consumed = TRUE]
        /\ confined' = (confined \/ request.site)
        /\ UNCHANGED <<request, resume, asked, now, hard, start, pc, browser, workerClosed,
                       cleanup, jar>>
-----------------------------------------------------------------------------
(* The agent's commands, close, expiry, revocation, and teardown.           *)

AgentCommand ==
  /\ Handler /\ ~Expired
  /\ state \in AGENT_COMMAND_STATES /\ owner = "agent"
  /\ \/ CloseRevoked
     \/ /\ ~JarGone /\ workerClosed
        /\ End("failed")
        /\ UNCHANGED <<request, resume, asked, tokens, clock, start, pc, worker, cleanup, jar>>
     \/ /\ ~JarGone /\ ~workerClosed /\ browser = "running"
        /\ pc' = "command"
        /\ UNCHANGED <<request, lease, tokens, clock, start, worker, cleanup, jar>>

CommandReturns ==
  /\ pc = "command"
  /\ idle' = Earlier(now + AgentIdle, hard)
  /\ pc' = "free"
  /\ UNCHANGED <<request, lease, tokens, now, hard, start, worker, cleanup, jar>>

\* worker.command raises: by fault, or because the page is not there.  The
\* exception leaves the handler, which has nothing to undo its assignments.
CommandRaises ==
  /\ pc \in {"command", "sanitize", "handover_sanitize", "handover_reopen"}
  /\ "command" \in Faults \/ workerClosed \/ browser # "running"
  /\ pc' = "free"
  /\ UNCHANGED <<request, lease, tokens, clock, start, worker, cleanup, jar>>

CommandHangs ==
  /\ "hang" \in Faults
  /\ pc = "command"
  /\ pc' = "hung"
  /\ UNCHANGED <<request, lease, tokens, clock, start, worker, cleanup, jar>>

Close ==
  /\ Handler
  /\ IF Terminal THEN UNCHANGED <<state, owner>> ELSE End("cancelled")
  /\ StartCleanup
  /\ pc' = "cleanup_request"
  /\ UNCHANGED <<request, resume, asked, clock, start, browser, confined, jar>>

\* reap_expired, at this session.
Reap ==
  /\ Handler
  /\ Expired
  /\ End("expired")
  /\ StartCleanup
  /\ pc' = "cleanup_reap"
  /\ UNCHANGED <<request, resume, asked, clock, start, browser, confined, jar>>

\* worker.close() returned: it closed the browser it found.
CleanupOnce ==
  /\ pc \in Cleaning
  /\ cleanup' = "completed"
  /\ pc' = "free"
  /\ sweep' = IF pc = "cleanup_sweep" THEN "done" ELSE sweep
  /\ UNCHANGED <<request, lease, tokens, clock, start, worker, jarRevoked>>
CleanupReturns ==
  /\ pc \in Cleaning
  /\ browser' = IF browser = "running" THEN "gone" ELSE browser
  /\ cleanup' = "completed"
  /\ pc' = "free"
  /\ sweep' = IF pc = "cleanup_sweep" THEN "done" ELSE sweep
  /\ UNCHANGED <<request, lease, tokens, clock, start, workerClosed, confined, jarRevoked>>

CleanupRaises ==
  /\ "close" \in Faults
  /\ pc \in Cleaning
  /\ pc' = "free"
  /\ sweep' = IF pc = "cleanup_sweep" THEN "aborted" ELSE sweep
  /\ UNCHANGED <<request, lease, tokens, clock, start, worker, cleanup, jarRevoked>>

\* Another process of the deployment revokes the jar.
RevokeElsewhere ==
  /\ Registered /\ request.jar
  /\ jarRevoked' = TRUE
  /\ UNCHANGED <<request, lease, tokens, clock, start, pc, worker, cleanup, sweep>>

\* invalidate_jar or delete_jar in this process, up to its sweep.
RevokeHere ==
  /\ Registered /\ request.jar
  /\ sweep # "pending"
  /\ jarRevoked' = TRUE
  /\ sweep' = "pending"
  /\ UNCHANGED <<request, lease, tokens, clock, start, pc, worker, cleanup>>

SweepCloses ==
  /\ Handler
  /\ sweep = "pending" /\ ~Terminal
  /\ End("cancelled")
  /\ StartCleanup
  /\ pc' = "cleanup_sweep"
  /\ UNCHANGED <<request, resume, asked, clock, start, browser, confined, jar>>

\* The session is already terminal; or closing a session the sweep visited
\* before this one raised, which ends the sweep.
SweepPassesLocked ==
  /\ sweep = "pending" /\ pc # "cleanup_sweep"
  /\ Terminal \/ pc # "free"
  /\ sweep' = "done"
  /\ UNCHANGED <<request, lease, tokens, clock, start, pc, worker, cleanup, jarRevoked>>
SweepPasses ==
  /\ sweep = "pending" /\ pc # "cleanup_sweep"
  /\ \/ Terminal /\ sweep' = "done"
     \/ "close" \in Faults /\ sweep' = "aborted"
  /\ UNCHANGED <<request, lease, tokens, clock, start, pc, worker, cleanup, jarRevoked>>

Tick ==
  /\ Registered /\ now < MaxNow
  /\ now' = now + 1
  /\ UNCHANGED <<request, lease, tokens, idle, hard, start, pc, worker, cleanup, jar>>
-----------------------------------------------------------------------------
StartStep ==
  \/ Launch \/ Started \/ StartedRevoked \/ RecheckCleaned
  \/ StartRaises \/ StartFailed \/ StartCloseRaises

HumanRequest ==
  \/ \E t \in Tokens :
       \/ Claim(t) \/ AuthorizeHuman(t) \/ MarkSensitive(t) \/ HumanCancel(t)
       \/ Complete(t) \/ CompleteResumable(t) \/ Handover(t) \/ HandoverSite(t)
  \/ \E t \in Tokens, minutes \in 1 .. ExtendLimit : Extend(t, minutes)

AgentRequest ==
  \/ \E r \in Resume : Handoff(r)
  \/ AgentClaim \/ AgentCommand

\* The lock holder's await ends.
Resumption ==
  \/ Sanitized \/ HandoverSanitized \/ HandoverPublished
  \/ CommandReturns \/ CommandRaises \/ CleanupReturns \/ CleanupRaises

Sweep == SweepCloses \/ SweepPasses

Next ==
  \/ Create \/ StartStep
  \/ HumanRequest \/ AgentRequest \/ Close
  \/ Resumption \/ CommandHangs
  \/ Reap \/ RevokeElsewhere \/ RevokeHere \/ Sweep \/ Tick

(***************************************************************************)
(* Time passes; every await but a hung one ends (the driver's own          *)
(* timeouts); the reaper's loop and the sweep, which queue on the FIFO     *)
(* lock, get it in the end.                                                *)
(***************************************************************************)
Fairness ==
  /\ WF_vars(Tick)
  /\ WF_vars(StartStep)
  /\ WF_vars(Resumption)
  /\ SF_vars(Reap)
  /\ SF_vars(Sweep)

Spec == Init /\ [][Next]_vars
FairSpec == Spec /\ Fairness
-----------------------------------------------------------------------------
(* Safety.                                                                 *)

Outstanding(t, type) == tokens[t].type = type /\ ~tokens[t].consumed

(***************************************************************************)
(* The lease names the driver the state says: registry.py assigns the two  *)
(* fields separately in a dozen places, under the lock and (create_session)*)
(* outside it, and every authorization reads one or the other.             *)
(***************************************************************************)
LeaseMatchesState ==
  /\ owner = "agent" <=> state \in AGENT_COMMAND_STATES
  /\ owner = "human" <=> state \in HUMAN_STATES
  /\ owner = "none" <=> Terminal \/ ~Registered

(***************************************************************************)
(* An agent never drives a jar-loaded context whose confinement was lifted *)
(* for a human, whatever chain of handoffs, handovers and resumes brought  *)
(* the lease back to it; an authenticated-site session is never widened.   *)
(***************************************************************************)
WidenedNeverReturns ==
  /\ request.jar /\ owner = "agent" => confined
  /\ request.site => confined

(***************************************************************************)
(* An unconsumed one-time token exists only while the invitation it stands *)
(* for is open, and no control token survives into agent_active: claim,    *)
(* agent_claim and every teardown consume what they must.  A failed        *)
(* session is the exception: its tokens are left unconsumed.               *)
(***************************************************************************)
OutstandingTokensFitState ==
  \A t \in Tokens :
    /\ Outstanding(t, "handoff") => state \in {"handoff_requested", "failed"}
    /\ Outstanding(t, "handover") => state \in {"handover_requested", "failed"}
    /\ Outstanding(t, "control") =>
         state \notin {"agent_active", "completed", "cancelled", "expired"}

(***************************************************************************)
(* At most one invitation is open: two holders of unconsumed handoff (or   *)
(* handover) tokens could each claim the session.                          *)
(***************************************************************************)
OneInvitation ==
  \A t, u \in Tokens, type \in {"handoff", "handover"} :
    Outstanding(t, type) /\ Outstanding(u, type) => t = u

(***************************************************************************)
(* No activity, extension or hand-back pushes the idle deadline past the   *)
(* hard one, so passing expires_at always expires the session.             *)
(***************************************************************************)
IdleWithinHard == idle <= hard

(***************************************************************************)
(* While the worker executes an agent command nobody else is given the     *)
(* browser: neither the human nor the service takes the lease under it.    *)
(***************************************************************************)
CommandExcludesHuman ==
  pc \in {"command", "hung"} => owner \in {"agent", "none"}

(***************************************************************************)
(* When this process's revocation sweep has passed the session, the        *)
(* session is terminal, also if it was still starting or another handler   *)
(* held the lock when the sweep began.                                     *)
(***************************************************************************)
SweptIsTerminal == sweep = "done" => Terminal

(***************************************************************************)
(* No step takes a session out of its terminal states.                     *)
(***************************************************************************)
TerminalNeverRevived == [][Terminal => state' \in TERMINAL_STATES]_vars

(***************************************************************************)
(* A session marked sensitive ends with the human: it is never parked for, *)
(* resumed by or handed to the agent (the plan's human_sensitive rule).    *)
(***************************************************************************)
SensitiveNeverReturned ==
  [][state = "human_sensitive" =>
       state' \in TERMINAL_STATES \cup {"human_sensitive"}]_vars

(***************************************************************************)
(* The agent resumes the human's context only if its last handoff asked    *)
(* for that.  An authenticated-site session is the exception: a handover   *)
(* that fails has already overwritten allowed_resume, and the completion   *)
(* that follows resumes what the handoff said should end.                  *)
(***************************************************************************)
ResumeAsAsked ==
  [][state # "agent_resumable" /\ state' = "agent_resumable" =>
       asked = "after_sanitize" \/ request.site]_vars
-----------------------------------------------------------------------------
(* Liveness, under Fairness.                                               *)

(***************************************************************************)
(* Every session ends: however it is extended, parked, handed back or left *)
(* alone by a failed command, its hard limit passes and the reaper ends it.*)
(***************************************************************************)
ReachesTerminal == Registered ~> Terminal

(***************************************************************************)
(* The browser of a session that outlived its own start-up is released,    *)
(* whichever of the reaper, a request or a revocation's sweep ends the     *)
(* session.  (One ended during worker.start may leak its browser:          *)
(* SessionClaims.CleanedUpHasNoBrowser.)                                   *)
(***************************************************************************)
BrowserReleased ==
  (start = "done" /\ ~Terminal) ~> (Terminal /\ browser # "running")
=============================================================================
