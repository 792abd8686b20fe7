# Browser handoff service: a verified model

TLA+ modules for `browser_handoff_service`, the service that lends one real
browser to an agent and a human in turn. TLC checks the modules on small
instances and TLAPS proves the most important properties for every value of the
constants. File names are relative to `src/browser_handoff_service/`;
"the plan" is `src/browser-handoff-standalone-service-plan.md`.

## 1. Inventory

| component | code | state it keeps | operations | hard behaviour | what makes it correct |
|---|---|---|---|---|---|
| state machine library | `transitions.py`, `models.py` | none: states, owners, transition table | `transition` | | a table entry exists for the move; owner and state change together |
| session registry | `registry.py` | per session: state, lease owner, `allowed_resume`, the two expiry clocks, cleanup marks, the worker; all token records; one `asyncio.Lock` per session | `create`, `handoff`, `claim`, `extend`, `mark_sensitive`, `human_complete`, `human_cancel`, `handover`, `agent_claim`, `agent_command`, `close`, `reap_expired` | `create` awaits the worker without the lock; awaits inside the lock that raise or never return; state assigned before an await and not restored after it; two fields assigned separately | one driver at a time; a terminal session stays terminal; tokens fit the state; idle limit within the hard limit; confinement back before the agent |
| bulk teardown | `registry.py` (`reap_expired`, `_close_sessions_for_jar`), `main.py` (`_expiry_loop`, and the loop over `registry.close` in `lifespan`) | a snapshot of the registry and a position in it | the expiry task, the revocation's sweep, the shutdown | one lock and one close at a time; cancellation inside a close; an exception ends the loop | what a loop reports finished is finished; nothing due lives for ever |
| browser worker | `runtime.py` | Playwright context and pages, `closed`, confinement flag and origins, snapshot and ref counters | `start`, `command`, `close`, `set_confinement_active`, `evict_off_scope_page`, `autofill_prepare`, `autofill_fill` | `start` publishes the page before its route guard; pages navigate by themselves; commands with no timeout | a confined page never shows an off-scope origin to an agent; a ref names the node it was issued for |
| jar store and tombstones | `jars.py` | encrypted files, tombstone log and signed anchor, generations, probe records | `save`, `load`, `invalidate`, `delete`, `recheck_loadable`, `touch_loaded`, `reserve_probe`, `record_probe` | several processes on one volume; a crash between tombstone and file; torn log lines; rolled-back files | a revoked generation is never loaded again; generations are monotone |
| save and refresh | `registry.py` (`save_jar` 925-1127) | `jar_generation` and `produced_jar_generations` of a session, its worker's scope | `save_jar` | jar lock before session lock; save racing revoke; documents on their way while the scope narrows | a refresh neither widens a jar nor resurrects a login, does not end its own session, and leaves the page inside the new scope |
| probes | `registry.py` (`probe_jar`) | probe reservation in the jar record | `probe_jar` | two processes probing one jar | one probe per interval; a stale verdict is dropped |
| autofill, broker client | `registry.py` (`_autofill_locked`), `runtime.py`, `keychute.py` | pins of pending steps, count of credential reads, bad-password latch | `autofill`, `record_autofill_outcome` | answers that are lost; the page changing between prepare and fill; grants narrowed, expired or used up | one open request a step, one release an approval; a secret only reaches the document it was granted for |
| snapshots and refs | `runtime.py` (`SNAPSHOT_JS`, `_snapshot_document`, ref resolution) | stamps in the document, `_next_ref`, the caller's `next_ref` | `snapshot`, actions on a ref | the page copies, relabels and replaces elements; snapshots the caller is not told of | a ref names the element it was listed for, as it was |
| noVNC bridge | `main.py` 1335-1386, 1478-1536 | a WebSocket pair and three tasks | pump, reader, watchdog | authorization that ends while a stream is idle; the task that closes a session is cancelled with its stream | no input passes after authorization ended; an idle stream is cut by the watchdog |
| HTTP API, pages | `main.py` | none of its own | request validation, exceptions to status codes | | |
| UCP detection, stealth input, displays | `ucp.py`, `runtime.py` | none the rest reads | | | |

Interactions. Every HTTP handler calls one registry operation. The registry
takes the session's lock and, holding it, calls the worker, the jar store
(`session_jar_revoked`) and the broker. The expiry task, started by `lifespan`,
calls `reap_expired` every second. `invalidate_jar` and `delete_jar` take the
jar's lock, write the tombstone and then sweep the sessions, taking their locks
one after the other. The process's shutdown cancels the expiry task and closes
every session. Everything runs on one event loop: code between two awaits is
atomic, and asyncio's locks are FIFO.

`PROJECT.json` lists the hazards, each at its line and with the properties that
watch it.

## 2. Modules

| module | role |
|---|---|
| `Transitions` | states, owners, the transition table, `transition()` |
| `SessionLifecycle` | one session: every registry operation on it, from one await to the next |
| `Lease` | abstract: what the service promises about who drives the browser |
| `SessionRefinesLease` | the refinement mapping, `ImplementsLease` |
| `MCSessionLifecycle` | symmetry set of the tokens for TLC |
| `SessionClaims` | sentences of the documents that the code of one session contradicts |
| `SessionLifecycleProofs` | TLAPS proofs about `SessionLifecycle` and the refinement |
| `Teardown` | several sessions: expiry task, sweep and shutdown |
| `TeardownProofs` | TLAPS proofs about `Teardown` |
| `JarStore` | one jar on a volume several processes share: file, tombstone log, anchor, lock, and each process's session of it |
| `JarPromise` | abstract: what a jar promises about the login in it |
| `JarStoreKeepsPromise`, `JarSessionKeepsPromise` | the refinement mappings of `JarStore` and `JarSession`, each with its `KeepsPromise` |
| `MCJarStore` | symmetry set of the processes for TLC |
| `JarStoreProofs` | TLAPS proofs about `JarStore` and its refinement |
| `JarSession`, `MCJarSession` | one session and the jar behind it: save, refresh, revocation and the confinement that follows the jar's scope |
| `JarSessionProofs` | TLAPS proofs about `JarSession` and its refinement |
| `JarProbe`, `MCJarProbe` | freshness probes of one jar in several processes |
| `JarProbeProofs` | TLAPS proofs about `JarProbe` |
| `Autofill`, `MCAutofill` | one session's autofill calls, with the page and the broker as environment |
| `CredentialRelease` | abstract: what whoever approves the release of a secret is promised |
| `AutofillKeepsRelease` | the refinement mapping of `Autofill`, `KeepsRelease` |
| `AutofillProofs` | TLAPS proofs about `Autofill` and the refinement |
| `RefIdentity`, `MCRefIdentity` | refs of the elements of one document over snapshots, page changes and sessions |
| `RefClaims` | what the README says of refs over a whole conversation |
| `RefIdentityProofs` | TLAPS proofs about `RefIdentity` |
| `NovncBridge` | one viewer's stream: pump, reader and watchdog around `authorize_remote` |
| `NovncClaims` | what the code says of a revocation that a stream notices |
| `NovncBridgeProofs` | TLAPS proofs about `NovncBridge` |

The modules meet at the registry's operations. `SessionLifecycle` is one session
under all its handlers, with the jar reduced to revoked or not; `JarSession` opens
that abstraction for `save_jar` and takes the store's operations as single steps;
`JarStore` opens those. `Autofill` and `NovncBridge` reduce the other handlers of
the session to what they change of who drives it.

### SessionLifecycle

The lock. `pc = "free"` when nobody holds the session's lock; otherwise `pc`
names the await its holder is suspended at. A handler with no await between
taking and releasing the lock is one action (`Handoff`, `Claim`, `Extend`,
`MarkSensitive`, `Handover`, `AgentClaim`, ...); one with awaits is one action
up to the first await and one per resumption (`AgentCommand` / `CommandReturns`
/ `CommandRaises` / `CommandHangs`; `CompleteResumable` / `Sanitized`;
`HandoverSite` / `HandoverSanitized` / `HandoverPublished`; `Close`, `Reap`,
`SweepCloses`, `CloseRevoked` / `CleanupReturns` / `CleanupRaises`). A handler's
`_raise_if_expired`, token authorization and state checks are conjuncts of the
action's guard. A refused request changes nothing and is a stuttering step.

`create_session` registers the session and then awaits `worker.start()`
*without* the lock. It has a program counter of its own, `start`, and its steps
(`Launch`, `Started`, `StartedRevoked`, `RecheckCleaned`, `StartRaises`,
`StartFailed`, `StartCloseRaises`) interleave with the lock holder's at any
point, including inside another handler's await.

| variable | code |
|---|---|
| `state`, `owner`, `resume` | `BrowserSession.state`, `.lease_owner`, `.allowed_resume` |
| `asked` | history: the `allowed_resume` of the last handoff request |
| `tokens` | the registry's `TokenRecord`s of this session (type, expiry, consumed) |
| `now`, `idle`, `hard` | `now_utc()`, `idle_expires_at`, `expires_at` |
| `browser`, `workerClosed`, `confined` | the worker's context and page, `closed`, `_confinement_active` |
| `cleanup` | `cleanup_started_at`, `cleanup_completed_at` |
| `jarRevoked` | the tombstones cover the generation the session was seeded from |
| `sweep` | where this process's `_close_sessions_for_jar` is with this session |
| `request` | what the create request fixed: jar, authenticated site, first driver |

### Teardown

A session is reduced to alive or not, due or not, its lock's holder and its
browser. Each loop is a snapshot (`upTo`), a position (`at`) and a `phase`.
`Visit` waits for one lock; `Cleaned` ends one close, or is the exception that
ends the loop. `ShutDown` waits until no request holds a lock (the ASGI server
drains requests before it runs the lifespan's exit, an assumption about
uvicorn) and cancels the expiry task, perhaps inside a close: the lock is
released and the browser is still there for the shutdown's loop.

### JarStore

Sessions live in one process; jars outlive them on a volume that several
processes mount. A store operation is synchronous (`jars.py` 787-797), so each
process has one `pc` and one `job`, and each action is one access to the
volume. `save`, `invalidate`, `delete` and `touch_loaded` enter under
`jar-ops.lock` (`Begin`) and leave it by returning, raising or dying (`Leave`);
`load` and the kill-switch take no lock. A refresh is `BeginRefresh` (its
checks), `Number` (the generation and the staged file), `Append`, `WriteAnchor`
(the hook that tombstones the superseded generation before the rename), `Publish`,
`RefreshReturns`; a revocation is the same path with another first and last
step.

| variable | code |
|---|---|
| `file` | `<jar_id>.json`: absent, sealed with a generation and a login, or no longer authentic |
| `backups` | every content the file was ever sealed with |
| `log`, `tornTail` | what `_replay_log` makes of `jar-tombstones.jsonl`; its last line is incomplete |
| `anchor` | what `_read_signed_anchor` makes of `jar-anchor.json` |
| `lock` | the `fcntl` lock on `jar-ops.lock`, released when its holder dies |
| `pc`, `job` | where a process is in `record`, `_atomic_write` or `load`, and its locals |
| `session` | `session.jar_generation` or `produced_jar_generations[jar_id]`, and which login the browser context holds |
| `acked`, `dropped`, `restored` | history: generations whose revocation returned, logins in the jar's files by then, files put back |

A *login* names one signing-in of a user. A generation says how new a file is;
what a revocation is for is that the login in it stays out, also when a session
of another process still holds it and would save it under a new generation.

The faults are grouped in `FaultPatterns`: a behaviour picks one pattern and may
meet its faults at any moment, any number of times.

| fault | meaning |
|---|---|
| `crash` | a process dies between any two accesses |
| `torn` | an append ends in an incomplete line and raises |
| `anchor` | the anchor cannot be written (a warning in the code) |
| `unreadable` | a read of the log raises: `load`, the kill-switch and a save's checks fail closed, `record` raises, and the sum that gives a refresh its generation takes the terminal marker |
| `rename` | `os.replace` fails three times |
| `garbled` | the file stops authenticating |
| `restore` | an older file is put back |

`OneCopyHolds` is the condition under which the mark can be promised: an
incomplete line swallows the line appended after it, and the anchor is then
that revocation's only copy, so both faults in one behaviour lose it.
`NoResurrection` and `DroppedSessionsBlocked` hold until a file
is restored: a revocation covers the generation of the file it finds.

A refresh asks for the mark four times under the lock. The first three
(`jars.py` 1122, 1127, 1134) and the read of the file (1136) are one step,
`StageRefresh`: no other process writes meanwhile, and a read that fails there
refuses the save before anything has changed. The fourth (1167) is `Number`: it is
not a check but a summand, and on an unreadable log `high_water` answers
`_MAX_GENERATION`, so that the refresh publishes a generation above the terminal
marker. `Top` is that marker, `MaxPast` the number of generations beyond it.
`RefreshIsLoadable` says what is left of the comment at line 608 ("no refresh can
publish above the terminal marker"): none does unless the log was unreadable there.
An `invalidate` of a file that no longer authenticates records the marker and does
not reach such a generation. A running session that holds it is ended all the
same, because its jar's file does not authenticate, which is why
`DroppedSessionsBlocked` and the refinement (`Lost`) say so.

### JarSession

| variable | code |
|---|---|
| `record`, `blocked` | the published jar and the generations under its tombstone |
| `kind`, `phase`, `gen` | whether the session was seeded from the jar or produced it, who drives it, and the generation it holds |
| `scope`, `guard` | the worker's `confine_origins`; `create_session` has returned, with the route guard in place |
| `page`, `nav` | the document, and a request that was let through and has not been answered |
| `jarLock`, `lock` | the registry's lock of the jar id, and the session's |
| `save`, `sweep` | where `save_jar` and `invalidate_jar`/`delete_jar` stand |
| `revoked`, `others` | history: logins in the jar when it was revoked; the session's end may be somebody else's doing |

`SaveAsks` and `SaveLocks` take the locks in the code's order, the jar's and then
the session's (a first save needs the session's only, the jar's id being new).
`SaveBegins`, `SaveExported`, `SavePublishes` and `SaveEvicts` are the four
stretches between the awaits of `_save_jar_locked`: the checks, the exported
state, the store's `save` with its `revoke_precondition`, the advance of the
generation and the narrowing, and `evict_off_scope_page`. Beside them run the
agent's commands, the page's own navigation, a revocation in this process
(`RevokeStarts`, `RevokeLocks`, `RevokeSweeps`) and revocations and refreshes in
others (`RemoteRevoke`, `RemoteRefresh`), which respect neither lock.

### JarProbe

Each `Prober` is one `probe_jar` in flight in some process: `loaded` after the
store's `load`, `running` after `reserve_probe`, `ran` with the browser's verdict,
`checked` when `record_probe` has looked at the tombstones and not yet at the
record. `record` has the jar's generation, invalidation, probe stamp and verdict.
Between any two steps of a probe the clock runs, the jar is refreshed, revoked or
deleted, and another probe starts; a process may die.

### Autofill

| variable | code |
|---|---|
| `page` | the main frame's document: origin, nonce, marked targets, and those that take no fill at the moment |
| `pending` | `autofill_pending`: what a step key was pinned to |
| `fills`, `bad` | `autofill_fill_count`, `autofill_bad_password` |
| `turn`, `due` | who drives the session; a limit has passed or the jar is revoked |
| `at`, `job` | the await `_autofill_locked` is suspended at, and its locals |
| `request` | the broker's access requests and their grants, by idempotency key |
| `typed` | history: under which request, into which document, at which origin something was typed |

The call is one chain of actions: prepare and pin (`AskFirst`, or `AskAgain` for
a step that is pending), `Create`, the decision (`Approved`, `NotApproved`),
`grant_info` (`GrantFits`), the look at the page (`PageFits`), the read (`Read`),
the fill (`Fill`, then `Place` and `Type` for each field). Each has its refusals
and, with the fault `"call"`, its lost answer. At any await the page may
navigate, reload, or disturb a control, the broker decide, narrow or end the
grant, a limit pass and the jar be revoked. The handlers that take the session's
lock (`ReportBadPassword`, `Handover`) wait for the call.

### RefIdentity

`dom` is the document as a sequence of slots; an element has an identity (`kin`,
shared with its copies), a look (role and name), whether a walk lists it, its
stamp and the look it was stamped under. `Walk` is `_snapshot_document`: who keeps
its ref (`Keeps`), where the numbers start (`Start`) and who gets which (`Number`).
`Snapshot` is the caller's, `AutofillSnapshot` that of `autofill_prepare`, whose
counter the caller is not told, `PartialSnapshot` the empty listing after a
document that would not hold still. `counter` is the worker's `_next_ref`, `caller`
what the caller threads. The page navigates, relabels, hides, removes, inserts and
clones elements at any time. An action on a ref is `Resolve`, the check, and later
`ActionEnds`; in between (the human pause, Playwright's wait, the keys one by one)
it holds the session's lock, so that no walk happens, but the page goes on, and each
touch takes whatever is then the one carrier of the number (`Hits`). `target`
remembers what was checked.

### NovncBridge

`pump`, `reader` and `dog` are the program counters of `client_to_upstream`,
`upstream_to_client` and `_novnc_revocation_watchdog`; `bridge` that of
`_bridge_websockets`, which ends when the pump or the reader does and cancels
what is left. `authorize_remote` takes the session's lock; when the jar was
revoked it ends the session and closes its browser under that lock, in the task
that asked, which can be cancelled there.

### Lease and the refinement

`Lease` has four variables: who drives, whom the browser is parked for, whether
confinement was lifted, whether privacy was asked for. Its promise is that the
browser passes from one party to the other only through the service and only to
the party it was parked for, that it is never parked for the agent once widened
or sensitive, and that an ended lease stays ended. `SessionRefinesLease` reads
these off the session's fields; every step of the session, those of the unlocked
`create_session` included, is a step of `Lease` or stutters.

### JarPromise and its two refinements

`JarPromise` says what a jar is for in four variables: the login a load hands out
now (`offered`), the login of each holder that is not cut off (`held`), the logins
that were revoked (`dropped`), and whether the volume has kept what was written to
it (`trusted`). To publish a login or to revoke the jar cuts everybody off in one
step, except the publisher; a dropped login is not published and does not
reappear; a file that cannot be read may fade and come back. On a volume that goes
back in time nothing is promised.

`JarStoreKeepsPromise` has the processes as holders. What a process holds is its
session's login, or what its load has read so far, or what its refresh is about to
return, as long as the tombstone does not block its generation; the file's login is
offered as long as it is loadable. The cut is thus one step although
nobody tells the other processes: it is the append to the log, or the write of the
anchor, that raises the mark. `JarSessionKeepsPromise` reads the same promise off
the one session of `JarSession`: two levels of the model, one specification.

### CredentialRelease and its refinement

For every request there could be, from inside the confinement, `CredentialRelease`
has the stage it is in: none, open, approved or refused, released (the call has
the secret and may type it), done. A step has one request open, an approval
releases once, one secret is in hand at a time, it is typed only into the document
the request was made from and at its origin, and the session neither changes hands
nor asks again once it is over (`mode`). `AutofillKeepsRelease` reads the stages off
the broker's book and the await the call is suspended at; an answer replayed a
second time would be a stage the specification never reaches. The service
cannot tell an approval that has lapsed between its check and the read from one
that has not, so a lapse shows in no stage.

## 3. Runs

| run | bounds | what it shows |
|---|---|---|
| `session_safety` | 4 tokens, every fault, clock to 5 with limits 3, 2, 1 and 4 | nine safety and action properties, and that the session implements `Lease` |
| `session_liveness` | 2 tokens, raising commands | every session ends, and its browser is released |
| `teardown` | 2 sessions, raising closes and hung commands | what a loop reports finished is finished; due sessions end and revocations return until a command hangs or a close raises |
| `jar_safety` | 2 processes, 3 generations and 2 past the terminal marker, 2 logins, 1 restored file; patterns {crash, torn}, {anchor, unreadable, rename}, {garbled, unreadable}, {torn, restore} | a revocation stays in force, is honoured by an unlocked load and not undone by a refresh; a successful refresh loads and is past the terminal marker only after an unreadable log; generations grow; all of it implements `JarPromise` |
| `jar_session` | 3 origins of which 2 in the jar's scope, 3 generations, both kinds of session, failing refreshes and evictions | the page stays in the confinement through narrowings; a session survives its own refresh; a revoked login is not saved again; the two locks come back; all of it implements `JarPromise` |
| `jar_probe` | 2 probes, clock to 4 with an interval of 2, 3 generations, crashes | one probe per interval and generation; a fresh verdict is of the generation seen |
| `autofill` | 2 step keys, 2 aliases, 2 origins of which 1 allowed, 2 fields, 2 pins, 1 read, lost answers | a secret is typed only where it was released for; one open request a step; nothing typed after the agent's turn; all of it implements `CredentialRelease` |
| `refs` | 2 slots, 2 looks, 3 refs, 3 elements made, 2 sessions, callers that rewind | a ref is listed for one element under one look and resolves to nothing else; an action touches only the element it checked |
| `novnc` | closes that raise, locks never released | at most the message being sent passes after the right ended; an idle stream is cut |
| `cleaned_up_leak`, `kill_switch`, `refs_unique` | the constants of their module's run, no or fewer faults | TLC's counterexample to one sentence each (section 5) |

Bounds. `Tokens` bounds the number of invitations: four are enough for a
control token of the human who starts, a handover token, and after the agent's
claim a second handoff with its token and the control token its claim mints, so
tokens of two rounds coexist. The limits are small but keep the order of the
code's minutes (short < agent and human idle < hard), so that each limit can
pass before, at and after each of the others; `MaxNow` exceeds `HardLimit`.
One extension can ask for more than the time left, as in the
code. The proofs leave the limits unconstrained. Two sessions are what a loop needs to be stuck at
one and owe the other; the loops treat all others alike.

Two processes are one that revokes and one that loads, refreshes or writes
beside it; three generations are a first file, the refresh that supersedes it
and one that lands above a revoked or restored one; two past the terminal marker
are one that an unreadable log led to and a refresh of it; two logins tell a session
that re-captures the old login from a user who signs in again.

For `JarSession`, three generations are the one loaded, a refresh of it, and one
that a revocation may fall before or after; two origins in scope are what a
narrowing can tell apart, and the third is off scope from the start. For
`JarProbe`, two probes are the one that holds the slot and the one that is asked
while it does, and the clock runs for two intervals. For `Autofill`, two step
keys let a marker of one step meet the pin of another; two aliases let a step ask
for something else than it is pinned to; the page moves to the other origin or to
another document of its own (two allowed origins do nothing the two aliases do not,
and the proofs have any number of both); two pins let a document be
pinned twice; a cap of one makes the cap bite. For `RefIdentity`, a slot is
enough to be the original and a second its copy or its successor; with three
refs a rewound counter meets stamps issued before, and two sessions are what the
counter is threaded across. `NovncBridge` has no bound but that on its history
counter.

Symmetry is used only in runs whose properties are safety properties that treat
the values alike: `session_safety` (tokens), `jar_safety` (processes),
`jar_probe` (probes), `autofill` (step keys, aliases) and `refs` (looks). The
runs with a liveness property have none.

Deadlock is checked wherever the system may not stop. It is off in runs with
`"hang"`, where a session held by a hung command at the end of time really
stops, in `Teardown`'s run, where a shutdown that returned is the end, in
`NovncBridge`'s, where a stream that was cut is, and in those of `JarStore`,
`JarSession`, `JarProbe`, `Autofill` and `RefIdentity`, where a closed session is
the end or generations, nonces, refs or time run out.

Mutants. A definition immediately followed by the one it varies
(`EndAndCloseUnlocked` before `EndAndClose`, say) is a plausible slip in that
code; nothing in the specification uses it. Substituting it for the original
must make TLC report the property it is listed with in `PROJECT.json`.

### Fairness

`SessionLifecycle`: time passes (`WF(Tick)`); `create_session`'s awaits and the
lock holder's awaits end (`WF(StartStep)`, `WF(Resumption)`), which is what the
driver's own timeouts give, unless a command hangs, a fault of its own;
`reap_expired` wakes every second and queues for the lock, and
`asyncio.Lock` is FIFO, so it gets the lock although requests keep taking it:
`SF(Reap)`, and likewise `SF(Sweep)`. No client is fair: no human claims,
completes or closes anything, no agent returns.

`SF(Reap)` describes one session and presupposes that the loop comes round to
it. That holds while no close raises and no command hangs, so
`session_liveness` has neither fault; `Teardown` models the loop itself, with both.
There, each loop's steps are strongly fair for the same FIFO reason, and requests
end unless they hang. `Stuck` names the only two ways in which a loop is excused:
a command that never returned holds a lock, or a close that raised has ended the
loop. Both are disagreements of section 5, not assumptions of the model.

`JarSession`: commands end and a save's awaits return (`WF(CommandEnds)`,
`WF(SaveStep)`), and the two locks are FIFO (`SF(SaveLocks)`, `SF(RevokeStep)`).
Nobody is bound to ask for a save, a revocation or a command. `LocksComeBack`
would fail for a lock order by which a save and a revocation can wait for each
other, and its mutant is that order.

`NovncBridge`: the tasks run when they can and the timer fires (`WF(PumpStep)`,
`WF(DogStep)`, `WF(BridgeEnds)`), the lock is FIFO (`SF(PumpAsks)`, `SF(DogAsks)`) and
its other holders return (`WF(OtherDone)`). The viewer is bound to nothing.
`StreamCut` excuses a lock that is never released and a watchdog that died of a
close that raised (`Unwatched`).

## 4. Proofs

`SessionLifecycleProofs` assumes only `ConstantsAssumption` (the limits are
positive naturals, the idle limit under the agent's lease is at most the hard
limit, `Faults` is a set of known faults); `TeardownProofs` only
`TeardownAssumption`; the other proof modules only the named assumption of the
module they are about: the bounds are naturals, the faults known ones, the
allowed origins origins, the interval positive, no process is called `"free"`.
`Tokens`, `Process`, `Prober`, `Origin`, `Step`, `Alias`, `Kind` and `Look` may be any
sets, the number of sessions, slots, refs, generations and nonces any number,
and every fault may be enabled in any combination.

About sessions and loops:

* `TypeCorrect`, of every module: the type invariant is inductive; the other
  proofs stand on it. Being proved, the type invariants are not checked by the runs.
* `LeaseCorrect`, `TerminalStays`, `SensitiveStays`: each step is first
  classified by what it does to state and owner (`LeaseStep` lemmas); the three
  properties then follow from the classification and not from thirty actions
  each. That no step leaves a terminal state also follows from the refinement of
  `Lease`, which the run checks.
* `WidenedStaysAway`: `WidenedNeverReturns` is not inductive, because nothing in
  it says that an agent cannot be *resumed* into a widened jar context.
  `Confinement` adds what the code relies on: a jar session that is not of an
  authenticated site never has `resume = "after_sanitize"` and never reaches
  the states parked for the agent, and a site session is never widened.
* `CommandCorrect`: strengthened with what every value of `pc` says of the
  state (`CommandInv`), since the unlocked `create_session` may end the session
  while a handler is suspended.
* `SweepCorrect`: a suspended `cleanup_sweep` is in a terminal session.
* `ClocksCorrect`: every assignment of the idle limit is capped by `hard`.
* `TokensCorrect`, `InvitationCorrect`: `OutstandingTokensFitState` and
  `OneInvitation` need each other: a claim consumes *the* handoff token, which leaves none behind only if
  there was one.
* `SessionImplementsLease`: `Init` maps to `Lease`'s, and each class of step to
  one step of `Lease` or to a stutter, under the invariants above (that a widened or
  sensitive session is not parked for the agent is where `Confinement` is used).
* `LeaseMeans`: whatever implements `Lease` lets no agent drive, or be parked for, a
  widened context, and gives a sensitive session to nobody but its human: the
  abstract specification says what it is meant to say.
* `ResumeCorrect`: `ResumeAsAsked` needs that an `allowed_resume` of
  `after_sanitize` is what the last handoff asked for, site sessions apart (there a
  handover has overwritten it), and that a session is only being sanitized under it
  (`ResumeInv`).
* `OneCleanerCorrect`: a loop in its cleaning phase holds the lock of the
  session it is at, and nobody else holds it for that loop.
* `RevocationCorrect`: while the sweep walks, every live session of the jar is
  within the snapshot and not before the position, because the tombstone precedes
  the snapshot and `Create` from the jar is refused after it.
* `ShutdownCorrect`: sessions before the shutdown's position are ended and their
  browsers gone, and nothing is created or locked by a request any more.

About the store:

* `RevocationCorrect`: both copies of the mark only grow. A process past
  `record` with a revocation finds its mark in force (`Recorded`): the anchor has
  it, or the anchor failed, then no line can be torn and the log has it.
* `LoadCorrect`: once `load` has read the log, what it read together with
  *any later* anchor blocks all it must refuse, because the anchor only grows.
* `GenerationsCorrect`: between entering and leaving a locked
  operation nobody else writes the volume (`LockedOut`), so that what was read
  at entry is still what is replaced, and `NextGeneration` stays above the mark.
* `RefreshCorrect`: above the mark by the same argument, whichever answer
  `high_water` gave at the sum. For the marker, `Counted`: while no log is
  unreadable, the generations in the file, its past contents and the jobs stay below
  it; only a mark comes to it, and `StageRefresh` refuses to start under such a mark.
* `ResurrectionCorrect`, `DroppedSessionsCorrect`: the heart is `Kept`: every
  content the file ever had whose login was dropped is under the mark, or the file
  does not authenticate and nobody is about to write it back (`Lost`, which only a
  jar's first save or a restored file ends: `LostStays`). A revocation establishes it because the file it finds is the newest
  (`Newest`); a refresh keeps it because its session's login is either nowhere
  else yet (`Unsaved`) or that of a content under the generation the
  precondition checks (`Seeded`); a load that lost the race keeps it because
  what it returns is one of those contents. TLC checked this invariant on the
  instance of `jar_safety` before it was proved.
* `StoreKeepsPromise`: besides the invariants above it needs `PromiseInv`. While the
  volume can be trusted a touch finds under the lock the file it entered with, or a
  garbled one (`Touching`); a refresh never has an invalidated content in hand
  (`Plain`); a touch is never in `record` (`Recording`); and a process that is
  loading holds no session yet (`Fetching`). With it, every access is
  classified by what it does to marks and file (`MarkEffect`): one that raises the
  marks cuts off everybody it should at once (`AllCut`), and one that does not
  offers nothing that was dropped (`OffersStep`). A jar that is `Lost` holds and
  offers nothing whatever its marks are (`LostSilent`).
* `PromiseMeans`: whatever implements `JarPromise` offers no dropped login and leaves
  none with a holder that is not cut off, on a volume that can be trusted.

About a session and its jar:

* `LoginCorrect`: a revoked login is only published by a session that holds it,
  and such a session holds a generation at or below the mark (`LoginInv`): a save
  that passed its own two checks before the revocation is stopped by the store's
  precondition, which compares the generation the session holds, not the newest.
* `SessionKeepsPromise`: from the same invariant: a save publishes what the session
  holds unless a revocation has cut it off, and everybody else's refresh or
  revocation raises the mark to the generation this session holds (`CutOff`).
* `OwnRefreshCorrect`: as long as nobody else touched the jar (`AloneInv`), the
  session holds the published generation, which is above the mark, although its
  own refresh raised the mark to the generation it was seeded from.
* `ScopeCorrect`: `ScopeInv` follows the page while a save is about to evict it: in
  between, the page may be off the new scope, but the lock is held.

About probes:

* `IntervalCorrect`: `Stamps` says that every slot reserved for the record's
  present generation was reserved no later than the record's stamp; a verdict,
  however late, is written on its own generation only and moves the stamp forward.
* `FreshnessCorrect`: a probe past its run has its verdict about the generation it
  holds (`Earned`), which is what `record_probe` compares with the record's.

About autofill:

* `OpenRequestCorrect`, `ReleaseCorrect`: `BookInv`. A request that is pending is the
  one its step's pin names (`Pinned`), because the pin is written before the
  request is created and survives every failure but a completed read; and a
  request that was read is used up (`Spent`), so that `Usable` refuses it before a
  second read, whoever asks.
* `TypedCorrect`: `TypedInv` carries what was compared at each await to the typing:
  the nonce identifies a document, so the document that has it now has the
  origin of the request.
* `AskedInsideCorrect`: a pin is only kept for a document inside the confinement
  (`InsideInv`), and retries ask from the pin.
* `AutofillKeepsItsPromise`: the steps are sorted by what they do to a secret in the
  call's hands (`HandSteps`); the stages follow from the invariants above and
  `HandInv` (what is in hand was read, once). That a step's new request is its only
  open one is `Pinned` again.
* `ReleaseMeans`: whatever implements `CredentialRelease` has typed only what was
  released, where it was asked for from, and has at most one secret in hand, on the
  agent's turn.
* `TurnCorrect`: `TurnInv`: while a call is under way the lock keeps everybody else
  out, so that the turn read at the start still holds.

About refs and streams:

* `ReissueCorrect`, `ResolveCorrect`: `StampInv`. Stamps and listed refs are below the
  counter; elements with one stamp are copies of each other stamped under one
  look; an element that carries a listed ref is a copy of the one listed. A walk
  keeps this because its numbers start at or above the counter and differ
  (`NumbersIssued`, from facts about cardinalities), and what it keeps has the look
  it was stamped under; whatever the page does, it only copies stamps or drops
  them (`PageKeepsStamps`).
* `ActionCorrect`: `Checked`. While an action is under way no walk issues a number, so
  every carrier of the one it holds is the element checked or a copy of it.
* `LateCorrect`: a message in the pump's hands was authorized (`LateInv`), so that
  only one can be late.

Only model-checked: the liveness properties `ReachesTerminal`, `BrowserReleased`,
`DueSessionsEnd`, `RevocationReturns`, `LocksComeBack` and `StreamCut` (fairness and
`ENABLED` are out of the proof system's reach). Every other property of a passing
run is proved.

## 5. Where the code and its documents disagree

Each of these has a run whose counterexample is the scenario:

* `cleaned_up_leak`: a close while `worker.start()` is under way finds no
  browser, marks the cleanup complete, and the browser starts afterwards. Only
  another explicit close or the shutdown closes it.
* `kill_switch`: the task of a noVNC stream that notices a revocation ends the
  session and awaits the close of its browser; when the viewer leaves meanwhile
  the task is cancelled there. The session is over by then, and what enforces a
  revocation, the expiry task and the sweep pass over sessions that are over: the
  browser runs until somebody closes the session explicitly (`registry.py` 692-698)
  or the service shuts down (`main.py` 660-661).
* `refs_unique`: `autofill_prepare` takes a snapshot from 1, and a new session's
  worker counts from 1, so that in a conversation's second session a number of
  the first is stamped again; the caller's next snapshot, its counter threaded,
  keeps and lists it.

These are plain in the code and have no run:

* A handover of an authenticated-site session overwrites `allowed_resume`
  (`registry.py` 535) before the step that may fail; completing the failed one
  resumes the agent although the handoff asked for `never`: `ResumeAsAsked` excuses
  these sessions (`request.site`) and holds for all others.
* A close that raises ends the expiry task for good, and likewise the
  revocation's sweep; sessions after it live on until their own next check.
* `record` reads the log again after its append; when that read raises, a refresh
  fails with the prior file in place and already revoked.
* A log that is unreadable exactly when a refresh computes its generation
  (`jars.py` 1167) makes it publish one above the terminal marker, which the comment
  at 608 rules out. `RefreshIsLoadable` holds with that exception. An invalidation
  that has to block every version (1385-1405) records the marker and does not block
  such a generation: its sessions are ended because the jar's file does not
  authenticate, but a copy of the good file, put back, would load.
* Between the check of a ref and the last touch of the action (`runtime.py` 1552 and
  1577-1629) the page may relabel the very element: `ActsOnChecked` says that it is
  the same element, not that it still looks the same.
* A tombstone appended to an incomplete line is not read, and when the anchor
  cannot be written either, its revocation returns all the same.
* Invalidating a restored older file leaves newer generations loadable, and
  sessions that hold them running.
* The README (lines 231-232) gives a cap of six credential reads a session; a read
  whose answer is lost is not counted (`registry.py` 883-884), though the broker
  replays it under its key and `OneReleasePerApproval` (proved) still holds.
* A document that was requested before a narrowing, or before the route guard was
  installed, arrives after the eviction (`registry.py` 1116-1119): `ScopeHolds`
  excuses it (`late`), the agent's next command does not look at it.
* `record_probe` looks at the tombstones before it writes, without holding off
  another process's revocation; the verdict is then of a blocked jar, which no
  load returns.
* A refresh by the agent while `create_session` has not returned makes its own
  recheck (`registry.py` 349) find the loaded generation tombstoned, and the session
  is closed: `OwnRefreshKeepsSession` excuses it (`others`).
* `human_complete` takes the lease for the service before it awaits
  `close_page`; when that raises, neither party can act until expiry, although
  the plan (line 162) says a failed mutation leaves the lease unchanged.
* The README (line 49) says the human's control token is revoked at handover;
  the code keeps it until the agent claims, so that the human can cancel.
* The plan (line 240) names a cleanup reaper that retries; none exists, and a
  cleanup that raised stays started.
* A command that does not return (`page.evaluate` has no timeout) holds the lock
  the reaper waits for, so that session, and those after it in the registry,
  outlive both limits.

## 6. Abstractions and what is not modelled

In the modelled parts:

* Events, notes, page metadata and viewport are left out, and `expected_origin`,
  which can only refuse a handoff.
* A jar is revoked or not. Its `confine_navigation=False` opt-out is left out
  (jar sessions are confined), and a revoked session does not become good again
  by a later save.
* The immediate refusal of a persistent browser profile is one of the failures
  `StartRaises` stands for.
* In `Teardown`, sessions in `worker.start` are left to `SessionLifecycle`, and
  a session that became terminal while the sweep queued for its lock is passed
  without the lock being taken.
* In `JarSession`, the store's operations are atomic and there is one jar. Who may
  save is left open, so the model allows more than the code. A session that was
  loaded for a human is one that was handed over at once. Popups are left out:
  they are confined by the same guard.
* In `JarProbe`, what the browser saw of a page is one of the outcomes
  `_probe_candidate` distinguishes; the probe's own browser is not modelled.
* In `Autofill`, an approval is one grant with one read, as the requests ask for.
  Field detection is a choice of kinds; the values are opaque; a malformed answer
  counts as a lost one. A page does not forge the nonce or the markers, which are
  random. The idle clock is the bit `due`.
* In `RefIdentity`, one frame is modelled, and a page does not forge stamps. A number
  the page would forge is parsed up to 2^53 - 2^32 and ignored above it; that edge
  is left out.
* In `NovncBridge`, one viewer; the registry's other holders of the lock are one
  step.
* In `JarStore`, one jar is modelled: operations on others only share the lock
  and the log. A session's login does not change while it lives. Scope filters,
  ownership, listings, size caps and the retention of session cookies are left
  out (each can only refuse), as is the audit (a failure refuses a save and is
  logged otherwise). An incomplete line never verifies; a deletion of a file that
  does not authenticate records the largest generation where the code may use the
  cleartext one, which makes no difference because a deletion blocks all.
* Time is a counter; several ticks may pass in any await.

Not to be modelled: the HTTP layer's request validation and its status codes,
HTML and templates, OIDC and JWT verification (a library's), display and Chromium
launch, stealth input, UCP probing: I/O, parsing or layout without state the rest
of the system reads.

## 7. Plan

Modelled, checked and proved: everything of sections 2 to 4. What is left, in
this order:

1. Abstract specifications for the probes (one verdict a reservation) and for the
   stream (input while authorized), with `JarProbe` and `NovncBridge` shown to
   implement them, and for refs, which `RefIdentity` would.
2. Popups in `JarSession`: a page opened by another, its guard and its eviction.
3. The scope and cookie filters (`jars.py`) as pure operators against reference
   definitions, and the retention of session cookies.
4. `JarStore` with two jars in one log, for what a torn line of one does to the
   other.
