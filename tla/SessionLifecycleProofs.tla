------------------------ MODULE SessionLifecycleProofs ------------------------
(***************************************************************************)
(* What holds of SessionLifecycle for every set of tokens, every choice of *)
(* faults and every choice of limits: the safety properties of that module *)
(* and the refinement of Lease.  The lease, the confinement and the token  *)
(* records each need a strengthening; it is defined next to its proof.     *)
(***************************************************************************)
EXTENDS SessionRefinesLease, TLAPS

-----------------------------------------------------------------------------
(* Type correctness.                                                       *)

(***************************************************************************)
(* Revoking tokens, and minting one, keep the token records well formed.   *)
(***************************************************************************)
LEMMA RevokedType ==
  ASSUME TypeOK, NEW types
  PROVE  WithRevoked(types) \in [Tokens -> TokenRecord]
  BY DEF TypeOK, WithRevoked, TokenRecord

(***************************************************************************)
(* Minting keeps the token records well formed.                            *)
(***************************************************************************)
LEMMA MintedType ==
  ASSUME TypeOK, NEW t \in Tokens, NEW type \in TokenType, NEW e \in Nat
  PROVE  [tokens EXCEPT ![t] = Minted(type, e)] \in [Tokens -> TokenRecord]
  BY DEF TypeOK, Minted, TokenRecord

(***************************************************************************)
(* So does marking one record consumed.                                    *)
(***************************************************************************)
LEMMA ConsumedType ==
  ASSUME NEW f \in [Tokens -> TokenRecord], NEW t \in Tokens
  PROVE  [f EXCEPT ![t].consumed = TRUE] \in [Tokens -> TokenRecord]
  BY DEF TokenRecord

(***************************************************************************)
(* The limits are naturals, and a session is not born past its hard limit. *)
(***************************************************************************)
LEMMA LimitsNat ==
  /\ AgentIdle \in Nat /\ HumanIdle \in Nat /\ ShortIdle \in Nat
  /\ HardLimit \in Nat /\ ExtendLimit \in Nat
  /\ AgentIdle <= HardLimit
  BY ConstantsAssumption

(***************************************************************************)
(* Closing a session whose jar was revoked                                 *)
(* (_enforce_jar_not_revoked_locked) keeps the types.                      *)
(***************************************************************************)
LEMMA CloseRevokedType ==
  ASSUME TypeOK, CloseRevoked
  PROVE  TypeOK'
  BY RevokedType DEF TypeOK, CloseRevoked, End, StartCleanup, clock, jar, SessionState,
     LeaseOwner, TERMINAL_STATES, Progress, Cleaning

(***************************************************************************)
(* Every action keeps the types.                                           *)
(***************************************************************************)
LEMMA TypeStep ==
  ASSUME TypeOK, [Next]_vars
  PROVE  TypeOK'
<1> USE DEF TypeOK, lease, clock, worker, jar, SessionState, LeaseOwner, TERMINAL_STATES,
            AGENT_COMMAND_STATES, HUMAN_STATES, Progress, Cleaning, TokenType,
            Resume, MoveTo, End, StartCleanup, Earlier, Later
<1>1. CASE Create
  BY <1>1, LimitsNat DEF Create, Request
<1>2. CASE Launch
  BY <1>2 DEF Launch
<1>3. CASE Started
  BY <1>3, MintedType DEF Started, WidensFor
<1>4. CASE StartedRevoked
  BY <1>4, RevokedType DEF StartedRevoked
<1>5. CASE RecheckCleaned
  BY <1>5 DEF RecheckCleaned
<1>6. CASE StartRaises
  BY <1>6 DEF StartRaises
<1>7. CASE StartFailed
  BY <1>7 DEF StartFailed
<1>8. CASE StartCloseRaises
  BY <1>8 DEF StartCloseRaises
<1>9. ASSUME NEW t \in Tokens, Claim(t)  PROVE TypeOK'
  BY <1>9, LimitsNat, MintedType, ConsumedType DEF Claim, Claimed
<1>10. ASSUME NEW t \in Tokens, AuthorizeHuman(t)  PROVE TypeOK'
  BY <1>10, CloseRevokedType DEF AuthorizeHuman
<1>11. ASSUME NEW t \in Tokens, MarkSensitive(t)  PROVE TypeOK'
  BY <1>11, LimitsNat DEF MarkSensitive
<1>12. ASSUME NEW t \in Tokens, HumanCancel(t)  PROVE TypeOK'
  BY <1>12, RevokedType DEF HumanCancel
<1>13. ASSUME NEW t \in Tokens, Complete(t)  PROVE TypeOK'
  BY <1>13, RevokedType DEF Complete
<1>14. ASSUME NEW t \in Tokens, CompleteResumable(t)  PROVE TypeOK'
  BY <1>14 DEF CompleteResumable, SanitizeImpossible
<1>15. ASSUME NEW t \in Tokens, Handover(t)  PROVE TypeOK'
  BY <1>15, LimitsNat, MintedType DEF Handover
<1>16. ASSUME NEW t \in Tokens, HandoverSite(t)  PROVE TypeOK'
  BY <1>16 DEF HandoverSite, SanitizeImpossible
<1>17. ASSUME NEW t \in Tokens, NEW minutes \in 1 .. ExtendLimit, Extend(t, minutes)
      PROVE  TypeOK'
  BY <1>17, LimitsNat DEF Extend, Extended
<1>18. ASSUME NEW r \in Resume, Handoff(r)  PROVE TypeOK'
  BY <1>18, LimitsNat, MintedType DEF Handoff, ResumeAllowed, WidensFor
<1>19. CASE AgentClaim
  <2>1. CASE CloseRevoked
    BY <2>1, CloseRevokedType
  <2>2. CASE ~CloseRevoked
    <3>1. tokens' \in [Tokens -> TokenRecord]
      BY <1>19, <2>2, RevokedType, ConsumedType DEF AgentClaim
    <3>. QED
      BY <1>19, <2>2, <3>1, LimitsNat DEF AgentClaim, Request
  <2>. QED
    BY <2>1, <2>2
<1>20. CASE AgentCommand
  BY <1>20, CloseRevokedType DEF AgentCommand
<1>21. CASE Close
  BY <1>21, RevokedType DEF Close
<1>22. CASE Sanitized
  BY <1>22, LimitsNat DEF Sanitized
<1>23. CASE HandoverSanitized
  BY <1>23 DEF HandoverSanitized
<1>24. CASE HandoverPublished
  BY <1>24, LimitsNat DEF HandoverPublished
<1>25. CASE CommandReturns
  BY <1>25, LimitsNat DEF CommandReturns
<1>26. CASE CommandRaises
  BY <1>26 DEF CommandRaises
<1>27. CASE CleanupReturns
  BY <1>27 DEF CleanupReturns
<1>28. CASE CleanupRaises
  BY <1>28 DEF CleanupRaises
<1>29. CASE CommandHangs
  BY <1>29 DEF CommandHangs
<1>30. CASE Reap
  BY <1>30, RevokedType DEF Reap
<1>31. CASE RevokeElsewhere
  BY <1>31 DEF RevokeElsewhere
<1>32. CASE RevokeHere
  BY <1>32 DEF RevokeHere
<1>33. CASE SweepCloses
  BY <1>33, RevokedType DEF SweepCloses
<1>34. CASE SweepPasses
  BY <1>34 DEF SweepPasses
<1>35. CASE Tick
  BY <1>35 DEF Tick
<1>36. CASE UNCHANGED vars
  BY <1>36 DEF vars
<1>. QED
  BY <1>1, <1>2, <1>3, <1>4, <1>5, <1>6, <1>7, <1>8, <1>9, <1>10, <1>11, <1>12, <1>13, <1>14,
       <1>15, <1>16, <1>17, <1>18, <1>19, <1>20, <1>21, <1>22, <1>23, <1>24, <1>25, <1>26,
          <1>27, <1>28, <1>29, <1>30, <1>31, <1>32, <1>33, <1>34, <1>35, <1>36 DEF Next,
             StartStep, HumanRequest, AgentRequest, Resumption, Sweep

(***************************************************************************)
(* Every field of the session stays in its type, for every number of       *)
(* tokens and every setting of the limits.                                 *)
(***************************************************************************)
THEOREM TypeCorrect == Spec => []TypeOK
<1>1. ASSUME Init  PROVE TypeOK
  <2>1. tokens \in [Tokens -> TokenRecord]
    BY <1>1 DEF Init, TokenRecord, TokenType
  <2>. QED
    BY <1>1, <2>1 DEF Init, TypeOK, LeaseOwner, Resume, Progress
<1>2. TypeOK /\ [Next]_vars => TypeOK'
  BY TypeStep
<1>. QED
  BY <1>1, <1>2, PTL DEF Spec

-----------------------------------------------------------------------------
(* The lease.                                                              *)

(***************************************************************************)
(* What one step does to (state, lease_owner): nothing, the creation, a    *)
(* row of the transition table, or one of the direct assignments that end  *)
(* a session.                                                              *)
(***************************************************************************)
LeaseStep ==
  \/ UNCHANGED <<state, owner>>
  \/ /\ ~Registered
     /\ owner' = request.first
     /\ state' = IF request.first = "human" THEN "human_active" ELSE "agent_active"
  \/ \E to \in SessionState \ {"expired", "failed"} : MoveTo(to)
  \/ /\ Registered \/ start # "none"
     /\ \E to \in TERMINAL_STATES : End(to)

(***************************************************************************)
(* Every handler, resumption and create_session step is a LeaseStep: this  *)
(* is where the assignments scattered over registry.py are gone through.   *)
(***************************************************************************)
LEMMA LeaseSteps ==
  ASSUME [Next]_vars
  PROVE  LeaseStep
<1> USE DEF LeaseStep, lease, Handler, Registered,  SessionState, TERMINAL_STATES,
     AGENT_COMMAND_STATES, HUMAN_STATES
<1>1. CASE Create
  BY <1>1 DEF Create
<1>2. CASE Launch
  BY <1>2 DEF Launch
<1>3. CASE Started
  BY <1>3 DEF Started, WidensFor
<1>4. CASE StartedRevoked
  BY <1>4 DEF StartedRevoked
<1>5. CASE RecheckCleaned
  BY <1>5 DEF RecheckCleaned
<1>6. CASE StartRaises
  BY <1>6 DEF StartRaises
<1>7. CASE StartFailed
  BY <1>7 DEF StartFailed
<1>8. CASE StartCloseRaises
  BY <1>8 DEF StartCloseRaises
<1>9. ASSUME NEW t \in Tokens, Claim(t)  PROVE LeaseStep
  BY <1>9 DEF Claim, Claimed
<1>10. ASSUME NEW t \in Tokens, AuthorizeHuman(t)  PROVE LeaseStep
  BY <1>10 DEF AuthorizeHuman, CloseRevoked
<1>11. ASSUME NEW t \in Tokens, MarkSensitive(t)  PROVE LeaseStep
  BY <1>11 DEF MarkSensitive
<1>12. ASSUME NEW t \in Tokens, HumanCancel(t)  PROVE LeaseStep
  BY <1>12 DEF HumanCancel
<1>13. ASSUME NEW t \in Tokens, Complete(t)  PROVE LeaseStep
  BY <1>13 DEF Complete
<1>14. ASSUME NEW t \in Tokens, CompleteResumable(t)  PROVE LeaseStep
  BY <1>14 DEF CompleteResumable, SanitizeImpossible
<1>15. ASSUME NEW t \in Tokens, Handover(t)  PROVE LeaseStep
  BY <1>15 DEF Handover
<1>16. ASSUME NEW t \in Tokens, HandoverSite(t)  PROVE LeaseStep
  BY <1>16 DEF HandoverSite, SanitizeImpossible
<1>17. ASSUME NEW t \in Tokens, NEW minutes \in 1 .. ExtendLimit, Extend(t, minutes)
      PROVE  LeaseStep
  BY <1>17 DEF Extend, Extended
<1>18. ASSUME NEW r \in Resume, Handoff(r)  PROVE LeaseStep
  BY <1>18 DEF Handoff, ResumeAllowed, WidensFor
<1>19. CASE AgentClaim
  BY <1>19 DEF AgentClaim, CloseRevoked
<1>20. CASE AgentCommand
  BY <1>20 DEF AgentCommand, CloseRevoked
<1>21. CASE Close
  BY <1>21 DEF Close
<1>22. CASE Sanitized
  BY <1>22 DEF Sanitized
<1>23. CASE HandoverSanitized
  BY <1>23 DEF HandoverSanitized
<1>24. CASE HandoverPublished
  BY <1>24 DEF HandoverPublished
<1>25. CASE CommandReturns
  BY <1>25 DEF CommandReturns
<1>26. CASE CommandRaises
  BY <1>26 DEF CommandRaises
<1>27. CASE CleanupReturns
  BY <1>27 DEF CleanupReturns
<1>28. CASE CleanupRaises
  BY <1>28 DEF CleanupRaises
<1>29. CASE CommandHangs
  BY <1>29 DEF CommandHangs
<1>30. CASE Reap
  BY <1>30 DEF Reap
<1>31. CASE RevokeElsewhere
  BY <1>31 DEF RevokeElsewhere
<1>32. CASE RevokeHere
  BY <1>32 DEF RevokeHere
<1>33. CASE SweepCloses
  BY <1>33 DEF SweepCloses
<1>34. CASE SweepPasses
  BY <1>34 DEF SweepPasses
<1>35. CASE Tick
  BY <1>35 DEF Tick
<1>36. CASE UNCHANGED vars
  BY <1>36 DEF vars
<1>. QED
  BY <1>1, <1>2, <1>3, <1>4, <1>5, <1>6, <1>7, <1>8, <1>9, <1>10, <1>11, <1>12, <1>13, <1>14,
       <1>15, <1>16, <1>17, <1>18, <1>19, <1>20, <1>21, <1>22, <1>23, <1>24, <1>25, <1>26,
          <1>27, <1>28, <1>29, <1>30, <1>31, <1>32, <1>33, <1>34, <1>35, <1>36 DEF Next,
             StartStep, HumanRequest, AgentRequest, Resumption, Sweep

(***************************************************************************)
(* A LeaseStep keeps the lease naming the driver its state says.           *)
(***************************************************************************)
LEMMA LeaseMatchesStateStep ==
  ASSUME TypeOK, LeaseMatchesState, LeaseStep
  PROVE  LeaseMatchesState'
  BY DEF TypeOK, LeaseMatchesState, LeaseStep, MoveTo, End, Transition, ALLOWED_TRANSITIONS,
       Registered, Terminal, Request,
    SessionState, TERMINAL_STATES, AGENT_COMMAND_STATES, HUMAN_STATES, LeaseOwner

(***************************************************************************)
(* session.lease_owner always names the driver session.state says,         *)
(* although registry.py assigns the two separately.                        *)
(***************************************************************************)
THEOREM LeaseCorrect == Spec => []LeaseMatchesState
<1>1. Init => LeaseMatchesState
  BY DEF Init, LeaseMatchesState, Registered, Terminal, AGENT_COMMAND_STATES, HUMAN_STATES,
     TERMINAL_STATES
<1>2. TypeOK /\ LeaseMatchesState /\ [Next]_vars => LeaseMatchesState'
  BY LeaseSteps, LeaseMatchesStateStep
<1>. QED
  BY <1>1, <1>2, TypeCorrect, PTL DEF Spec

(***************************************************************************)
(* No operation, and no late result of an await, takes a session out of a  *)
(* terminal state.                                                         *)
(***************************************************************************)
THEOREM TerminalStays == Spec => TerminalNeverRevived
<1>1. [Next]_vars => [Terminal => state' \in TERMINAL_STATES]_vars
  BY LeaseSteps DEF LeaseStep, MoveTo, End, Transition, Terminal, Registered, TERMINAL_STATES
<1>. QED
  BY <1>1, PTL DEF Spec, TerminalNeverRevived

(***************************************************************************)
(* A session marked sensitive only ever ends: mark_sensitive leaves no way *)
(* back to the agent.                                                      *)
(***************************************************************************)
THEOREM SensitiveStays == Spec => SensitiveNeverReturned
<1>1. [Next]_vars => [state = "human_sensitive" =>
                        state' \in TERMINAL_STATES \cup {"human_sensitive"}]_vars
  BY LeaseSteps DEF LeaseStep, MoveTo, End, Transition, ALLOWED_TRANSITIONS, Registered,
     TERMINAL_STATES
<1>. QED
  BY <1>1, PTL DEF Spec, SensitiveNeverReturned

-----------------------------------------------------------------------------
(* Navigation confinement of a jar-loaded context.                         *)

(***************************************************************************)
(* The strengthening of WidenedNeverReturns. Confinement is lifted only in *)
(* a jar-loaded session that is not an authenticated-site one; such a      *)
(* session never asks for a resumable handoff, so it never reaches the     *)
(* states from which an agent gets a session back, and while its first     *)
(* agent drives it nothing was lifted.                                     *)
(***************************************************************************)
Confinement ==
  /\ ~confined => request.jar /\ ~request.site
  /\ ~Registered => confined
  /\ request.jar /\ ~request.site =>
       /\ resume = "never"
       /\ pc \notin {"handover_sanitize", "handover_reopen"}
       /\ state \notin {"handover_requested", "sanitize_pending", "agent_resumable"}
       /\ state = "agent_active" => confined

(***************************************************************************)
(* Every action keeps Confinement.                                         *)
(***************************************************************************)
LEMMA ConfinementStep ==
  ASSUME TypeOK, LeaseMatchesState, Confinement, [Next]_vars
  PROVE  Confinement'
<1> USE DEF Confinement, TypeOK, Request, LeaseMatchesState, lease, clock, worker, jar,
     Registered,
            Terminal, Handler, Cleaning,
            TERMINAL_STATES, AGENT_COMMAND_STATES, HUMAN_STATES, MoveTo, Transition,
            ALLOWED_TRANSITIONS, End, StartCleanup
<1>1. CASE Create
  BY <1>1 DEF Create
<1>2. CASE Launch
  BY <1>2 DEF Launch
<1>3. CASE Started
  BY <1>3 DEF Started, WidensFor
<1>4. CASE StartedRevoked
  BY <1>4 DEF StartedRevoked
<1>5. CASE RecheckCleaned
  BY <1>5 DEF RecheckCleaned
<1>6. CASE StartRaises
  BY <1>6 DEF StartRaises
<1>7. CASE StartFailed
  BY <1>7 DEF StartFailed
<1>8. CASE StartCloseRaises
  BY <1>8 DEF StartCloseRaises
<1>9. ASSUME NEW t \in Tokens, Claim(t)  PROVE Confinement'
  BY <1>9 DEF Claim, Claimed
<1>10. ASSUME NEW t \in Tokens, AuthorizeHuman(t)  PROVE Confinement'
  BY <1>10 DEF AuthorizeHuman, CloseRevoked
<1>11. ASSUME NEW t \in Tokens, MarkSensitive(t)  PROVE Confinement'
  BY <1>11 DEF MarkSensitive
<1>12. ASSUME NEW t \in Tokens, HumanCancel(t)  PROVE Confinement'
  BY <1>12 DEF HumanCancel
<1>13. ASSUME NEW t \in Tokens, Complete(t)  PROVE Confinement'
  BY <1>13 DEF Complete
<1>14. ASSUME NEW t \in Tokens, CompleteResumable(t)  PROVE Confinement'
  BY <1>14 DEF CompleteResumable, SanitizeImpossible
<1>15. ASSUME NEW t \in Tokens, Handover(t)  PROVE Confinement'
  BY <1>15 DEF Handover
<1>16. ASSUME NEW t \in Tokens, HandoverSite(t)  PROVE Confinement'
  BY <1>16 DEF HandoverSite, SanitizeImpossible
<1>17. ASSUME NEW t \in Tokens, NEW minutes \in 1 .. ExtendLimit, Extend(t, minutes)
      PROVE  Confinement'
  BY <1>17 DEF Extend, Extended
<1>18. ASSUME NEW r \in Resume, Handoff(r)  PROVE Confinement'
  BY <1>18 DEF Handoff, ResumeAllowed, WidensFor
<1>19. CASE AgentClaim
  BY <1>19 DEF AgentClaim, CloseRevoked
<1>20. CASE AgentCommand
  BY <1>20 DEF AgentCommand, CloseRevoked
<1>21. CASE Close
  BY <1>21 DEF Close
<1>22. CASE Sanitized
  BY <1>22 DEF Sanitized
<1>23. CASE HandoverSanitized
  BY <1>23 DEF HandoverSanitized
<1>24. CASE HandoverPublished
  BY <1>24 DEF HandoverPublished
<1>25. CASE CommandReturns
  BY <1>25 DEF CommandReturns
<1>26. CASE CommandRaises
  BY <1>26 DEF CommandRaises
<1>27. CASE CleanupReturns
  BY <1>27 DEF CleanupReturns
<1>28. CASE CleanupRaises
  BY <1>28 DEF CleanupRaises
<1>29. CASE CommandHangs
  BY <1>29 DEF CommandHangs
<1>30. CASE Reap
  BY <1>30 DEF Reap
<1>31. CASE RevokeElsewhere
  BY <1>31 DEF RevokeElsewhere
<1>32. CASE RevokeHere
  BY <1>32 DEF RevokeHere
<1>33. CASE SweepCloses
  BY <1>33 DEF SweepCloses
<1>34. CASE SweepPasses
  BY <1>34 DEF SweepPasses
<1>35. CASE Tick
  BY <1>35 DEF Tick
<1>36. CASE UNCHANGED vars
  BY <1>36 DEF vars
<1>. QED
  BY <1>1, <1>2, <1>3, <1>4, <1>5, <1>6, <1>7, <1>8, <1>9, <1>10, <1>11, <1>12, <1>13, <1>14,
       <1>15, <1>16, <1>17, <1>18, <1>19, <1>20, <1>21, <1>22, <1>23, <1>24, <1>25, <1>26,
          <1>27, <1>28, <1>29, <1>30, <1>31, <1>32, <1>33, <1>34, <1>35, <1>36 DEF Next,
             StartStep, HumanRequest, AgentRequest, Resumption, Sweep

(***************************************************************************)
(* Confinement always holds: the refusals in handoff and handover are      *)
(* enough to keep a widened context from every path back.                  *)
(***************************************************************************)
THEOREM ConfinementCorrect == Spec => []Confinement
<1>1. Init => Confinement
  BY DEF Init, Confinement, Registered
<1>2. TypeOK /\ LeaseMatchesState /\ Confinement /\ [Next]_vars => Confinement'
  BY ConfinementStep
<1>. QED
  BY <1>1, <1>2, TypeCorrect, LeaseCorrect, PTL DEF Spec

(***************************************************************************)
(* An agent never drives a jar-loaded context whose confinement            *)
(* set_confinement_active lifted, and an authenticated-site session is     *)
(* never widened.                                                          *)
(***************************************************************************)
THEOREM WidenedStaysAway == Spec => []WidenedNeverReturns
<1>1. TypeOK /\ LeaseMatchesState /\ Confinement => WidenedNeverReturns
  BY DEF TypeOK, LeaseMatchesState, Confinement, WidenedNeverReturns, AGENT_COMMAND_STATES,
       Request
<1>. QED
  BY <1>1, TypeCorrect, LeaseCorrect, ConfinementCorrect, PTL

-----------------------------------------------------------------------------
(* The clocks, the command in flight and the revocation's sweep.           *)

(***************************************************************************)
(* Every assignment of idle_expires_at caps it by expires_at, or takes the *)
(* larger of two that are.                                                 *)
(***************************************************************************)
LEMMA ClocksStep ==
  ASSUME TypeOK, IdleWithinHard, [Next]_vars
  PROVE  IdleWithinHard'
<1> USE DEF IdleWithinHard, TypeOK, lease, clock, Earlier, Later
<1>1. CASE Create
  BY <1>1, LimitsNat DEF Create
<1>2. CASE Launch
  BY <1>2 DEF Launch
<1>3. CASE Started
  BY <1>3 DEF Started, WidensFor
<1>4. CASE StartedRevoked
  BY <1>4 DEF StartedRevoked
<1>5. CASE RecheckCleaned
  BY <1>5 DEF RecheckCleaned
<1>6. CASE StartRaises
  BY <1>6 DEF StartRaises
<1>7. CASE StartFailed
  BY <1>7 DEF StartFailed
<1>8. CASE StartCloseRaises
  BY <1>8 DEF StartCloseRaises
<1>9. ASSUME NEW t \in Tokens, Claim(t)  PROVE IdleWithinHard'
  BY <1>9, LimitsNat DEF Claim, Claimed
<1>10. ASSUME NEW t \in Tokens, AuthorizeHuman(t)  PROVE IdleWithinHard'
  BY <1>10 DEF AuthorizeHuman, CloseRevoked
<1>11. ASSUME NEW t \in Tokens, MarkSensitive(t)  PROVE IdleWithinHard'
  BY <1>11, LimitsNat DEF MarkSensitive
<1>12. ASSUME NEW t \in Tokens, HumanCancel(t)  PROVE IdleWithinHard'
  BY <1>12 DEF HumanCancel
<1>13. ASSUME NEW t \in Tokens, Complete(t)  PROVE IdleWithinHard'
  BY <1>13 DEF Complete
<1>14. ASSUME NEW t \in Tokens, CompleteResumable(t)  PROVE IdleWithinHard'
  BY <1>14 DEF CompleteResumable, SanitizeImpossible
<1>15. ASSUME NEW t \in Tokens, Handover(t)  PROVE IdleWithinHard'
  BY <1>15, LimitsNat DEF Handover
<1>16. ASSUME NEW t \in Tokens, HandoverSite(t)  PROVE IdleWithinHard'
  BY <1>16, LimitsNat DEF HandoverSite, SanitizeImpossible
<1>17. ASSUME NEW t \in Tokens, NEW minutes \in 1 .. ExtendLimit, Extend(t, minutes)
      PROVE  IdleWithinHard'
  BY <1>17, LimitsNat DEF Extend, Extended
<1>18. ASSUME NEW r \in Resume, Handoff(r)  PROVE IdleWithinHard'
  BY <1>18, LimitsNat DEF Handoff, ResumeAllowed, WidensFor
<1>19. CASE AgentClaim
  BY <1>19, LimitsNat DEF AgentClaim, CloseRevoked
<1>20. CASE AgentCommand
  BY <1>20 DEF AgentCommand, CloseRevoked
<1>21. CASE Close
  BY <1>21 DEF Close
<1>22. CASE Sanitized
  BY <1>22, LimitsNat DEF Sanitized
<1>23. CASE HandoverSanitized
  BY <1>23, LimitsNat DEF HandoverSanitized
<1>24. CASE HandoverPublished
  BY <1>24, LimitsNat DEF HandoverPublished
<1>25. CASE CommandReturns
  BY <1>25, LimitsNat DEF CommandReturns
<1>26. CASE CommandRaises
  BY <1>26 DEF CommandRaises
<1>27. CASE CleanupReturns
  BY <1>27 DEF CleanupReturns
<1>28. CASE CleanupRaises
  BY <1>28 DEF CleanupRaises
<1>29. CASE CommandHangs
  BY <1>29 DEF CommandHangs
<1>30. CASE Reap
  BY <1>30 DEF Reap
<1>31. CASE RevokeElsewhere
  BY <1>31 DEF RevokeElsewhere
<1>32. CASE RevokeHere
  BY <1>32 DEF RevokeHere
<1>33. CASE SweepCloses
  BY <1>33 DEF SweepCloses
<1>34. CASE SweepPasses
  BY <1>34 DEF SweepPasses
<1>35. CASE Tick
  BY <1>35 DEF Tick
<1>36. CASE UNCHANGED vars
  BY <1>36 DEF vars
<1>. QED
  BY <1>1, <1>2, <1>3, <1>4, <1>5, <1>6, <1>7, <1>8, <1>9, <1>10, <1>11, <1>12, <1>13, <1>14,
       <1>15, <1>16, <1>17, <1>18, <1>19, <1>20, <1>21, <1>22, <1>23, <1>24, <1>25, <1>26,
          <1>27, <1>28, <1>29, <1>30, <1>31, <1>32, <1>33, <1>34, <1>35, <1>36 DEF Next,
             StartStep, HumanRequest, AgentRequest, Resumption, Sweep

(***************************************************************************)
(* The idle deadline never passes the hard one, whatever is extended.      *)
(***************************************************************************)
THEOREM ClocksCorrect == Spec => []IdleWithinHard
<1>1. Init => IdleWithinHard
  BY DEF Init, IdleWithinHard
<1>2. TypeOK /\ IdleWithinHard /\ [Next]_vars => IdleWithinHard'
  BY ClocksStep
<1>. QED
  BY <1>1, <1>2, TypeCorrect, PTL DEF Spec

(***************************************************************************)
(* The strengthening of CommandExcludesHuman: nothing commands an          *)
(* unregistered session.                                                   *)
(***************************************************************************)
CommandInv ==
  pc \in {"command", "hung"} => Registered /\ owner \in {"agent", "none"}

(***************************************************************************)
(* Every action keeps CommandInv; only create_session's unlocked steps run *)
(* while a command is in flight, and they can only end the session.        *)
(***************************************************************************)
LEMMA CommandStep ==
  ASSUME TypeOK, CommandInv, [Next]_vars
  PROVE  CommandInv'
<1> USE DEF CommandInv, Registered, TERMINAL_STATES, AGENT_COMMAND_STATES, lease, Handler, End,
     Cleaning
<1>1. CASE Create
  BY <1>1 DEF Create
<1>2. CASE Launch
  BY <1>2 DEF Launch
<1>3. CASE Started
  BY <1>3 DEF Started, WidensFor
<1>4. CASE StartedRevoked
  BY <1>4 DEF StartedRevoked
<1>5. CASE RecheckCleaned
  BY <1>5 DEF RecheckCleaned
<1>6. CASE StartRaises
  BY <1>6 DEF StartRaises
<1>7. CASE StartFailed
  BY <1>7 DEF StartFailed
<1>8. CASE StartCloseRaises
  BY <1>8 DEF StartCloseRaises
<1>9. ASSUME NEW t \in Tokens, Claim(t)  PROVE CommandInv'
  BY <1>9 DEF Claim, Claimed
<1>10. ASSUME NEW t \in Tokens, AuthorizeHuman(t)  PROVE CommandInv'
  BY <1>10 DEF AuthorizeHuman, CloseRevoked
<1>11. ASSUME NEW t \in Tokens, MarkSensitive(t)  PROVE CommandInv'
  BY <1>11 DEF MarkSensitive
<1>12. ASSUME NEW t \in Tokens, HumanCancel(t)  PROVE CommandInv'
  BY <1>12 DEF HumanCancel
<1>13. ASSUME NEW t \in Tokens, Complete(t)  PROVE CommandInv'
  BY <1>13 DEF Complete
<1>14. ASSUME NEW t \in Tokens, CompleteResumable(t)  PROVE CommandInv'
  BY <1>14 DEF CompleteResumable, SanitizeImpossible
<1>15. ASSUME NEW t \in Tokens, Handover(t)  PROVE CommandInv'
  BY <1>15 DEF Handover
<1>16. ASSUME NEW t \in Tokens, HandoverSite(t)  PROVE CommandInv'
  BY <1>16 DEF HandoverSite, SanitizeImpossible
<1>17. ASSUME NEW t \in Tokens, NEW minutes \in 1 .. ExtendLimit, Extend(t, minutes)
      PROVE  CommandInv'
  BY <1>17 DEF Extend, Extended
<1>18. ASSUME NEW r \in Resume, Handoff(r)  PROVE CommandInv'
  BY <1>18 DEF Handoff, ResumeAllowed, WidensFor
<1>19. CASE AgentClaim
  BY <1>19 DEF AgentClaim, CloseRevoked
<1>20. CASE AgentCommand
  BY <1>20 DEF AgentCommand, CloseRevoked
<1>21. CASE Close
  BY <1>21 DEF Close
<1>22. CASE Sanitized
  BY <1>22 DEF Sanitized
<1>23. CASE HandoverSanitized
  BY <1>23 DEF HandoverSanitized
<1>24. CASE HandoverPublished
  BY <1>24 DEF HandoverPublished
<1>25. CASE CommandReturns
  BY <1>25 DEF CommandReturns
<1>26. CASE CommandRaises
  BY <1>26 DEF CommandRaises
<1>27. CASE CleanupReturns
  BY <1>27 DEF CleanupReturns
<1>28. CASE CleanupRaises
  BY <1>28 DEF CleanupRaises
<1>29. CASE CommandHangs
  BY <1>29 DEF CommandHangs
<1>30. CASE Reap
  BY <1>30 DEF Reap
<1>31. CASE RevokeElsewhere
  BY <1>31 DEF RevokeElsewhere
<1>32. CASE RevokeHere
  BY <1>32 DEF RevokeHere
<1>33. CASE SweepCloses
  BY <1>33 DEF SweepCloses
<1>34. CASE SweepPasses
  BY <1>34 DEF SweepPasses
<1>35. CASE Tick
  BY <1>35 DEF Tick
<1>36. CASE UNCHANGED vars
  BY <1>36 DEF vars
<1>. QED
  BY <1>1, <1>2, <1>3, <1>4, <1>5, <1>6, <1>7, <1>8, <1>9, <1>10, <1>11, <1>12, <1>13, <1>14,
       <1>15, <1>16, <1>17, <1>18, <1>19, <1>20, <1>21, <1>22, <1>23, <1>24, <1>25, <1>26,
          <1>27, <1>28, <1>29, <1>30, <1>31, <1>32, <1>33, <1>34, <1>35, <1>36 DEF Next,
             StartStep, HumanRequest, AgentRequest, Resumption, Sweep

(***************************************************************************)
(* The strengthening of SweptIsTerminal: every holder of the lock that is  *)
(* cleaning up has ended the session first.                                *)
(***************************************************************************)
SweepInv ==
  /\ pc \in Cleaning => Terminal
  /\ SweptIsTerminal

(***************************************************************************)
(* Every action keeps SweepInv.                                            *)
(***************************************************************************)
LEMMA SweepStep ==
  ASSUME TypeOK, SweepInv, [Next]_vars
  PROVE  SweepInv'
<1> USE DEF SweepInv, SweptIsTerminal, Terminal, Registered, TERMINAL_STATES, Cleaning, lease,
     worker, jar,
            Handler, Expired, MoveTo, Transition, End, AGENT_COMMAND_STATES, HUMAN_STATES
<1>1. CASE Create
  BY <1>1 DEF Create
<1>2. CASE Launch
  BY <1>2 DEF Launch
<1>3. CASE Started
  BY <1>3 DEF Started, WidensFor
<1>4. CASE StartedRevoked
  BY <1>4 DEF StartedRevoked
<1>5. CASE RecheckCleaned
  BY <1>5 DEF RecheckCleaned
<1>6. CASE StartRaises
  BY <1>6 DEF StartRaises
<1>7. CASE StartFailed
  BY <1>7 DEF StartFailed
<1>8. CASE StartCloseRaises
  BY <1>8 DEF StartCloseRaises
<1>9. ASSUME NEW t \in Tokens, Claim(t)  PROVE SweepInv'
  BY <1>9 DEF Claim, Claimed
<1>10. ASSUME NEW t \in Tokens, AuthorizeHuman(t)  PROVE SweepInv'
  BY <1>10 DEF AuthorizeHuman, CloseRevoked
<1>11. ASSUME NEW t \in Tokens, MarkSensitive(t)  PROVE SweepInv'
  BY <1>11 DEF MarkSensitive
<1>12. ASSUME NEW t \in Tokens, HumanCancel(t)  PROVE SweepInv'
  BY <1>12 DEF HumanCancel
<1>13. ASSUME NEW t \in Tokens, Complete(t)  PROVE SweepInv'
  BY <1>13 DEF Complete
<1>14. ASSUME NEW t \in Tokens, CompleteResumable(t)  PROVE SweepInv'
  BY <1>14 DEF CompleteResumable, SanitizeImpossible
<1>15. ASSUME NEW t \in Tokens, Handover(t)  PROVE SweepInv'
  BY <1>15 DEF Handover
<1>16. ASSUME NEW t \in Tokens, HandoverSite(t)  PROVE SweepInv'
  BY <1>16 DEF HandoverSite, SanitizeImpossible
<1>17. ASSUME NEW t \in Tokens, NEW minutes \in 1 .. ExtendLimit, Extend(t, minutes)
      PROVE  SweepInv'
  BY <1>17 DEF Extend, Extended
<1>18. ASSUME NEW r \in Resume, Handoff(r)  PROVE SweepInv'
  BY <1>18 DEF Handoff, ResumeAllowed, WidensFor
<1>19. CASE AgentClaim
  BY <1>19 DEF AgentClaim, CloseRevoked
<1>20. CASE AgentCommand
  BY <1>20 DEF AgentCommand, CloseRevoked
<1>21. CASE Close
  BY <1>21 DEF Close
<1>22. CASE Sanitized
  BY <1>22 DEF Sanitized
<1>23. CASE HandoverSanitized
  BY <1>23 DEF HandoverSanitized
<1>24. CASE HandoverPublished
  BY <1>24 DEF HandoverPublished
<1>25. CASE CommandReturns
  BY <1>25 DEF CommandReturns
<1>26. CASE CommandRaises
  BY <1>26 DEF CommandRaises
<1>27. CASE CleanupReturns
  BY <1>27 DEF CleanupReturns
<1>28. CASE CleanupRaises
  BY <1>28 DEF CleanupRaises
<1>29. CASE CommandHangs
  BY <1>29 DEF CommandHangs
<1>30. CASE Reap
  BY <1>30 DEF Reap
<1>31. CASE RevokeElsewhere
  BY <1>31 DEF RevokeElsewhere
<1>32. CASE RevokeHere
  BY <1>32 DEF RevokeHere
<1>33. CASE SweepCloses
  BY <1>33 DEF SweepCloses
<1>34. CASE SweepPasses
  BY <1>34 DEF SweepPasses
<1>35. CASE Tick
  BY <1>35 DEF Tick
<1>36. CASE UNCHANGED vars
  BY <1>36 DEF vars
<1>. QED
  BY <1>1, <1>2, <1>3, <1>4, <1>5, <1>6, <1>7, <1>8, <1>9, <1>10, <1>11, <1>12, <1>13, <1>14,
       <1>15, <1>16, <1>17, <1>18, <1>19, <1>20, <1>21, <1>22, <1>23, <1>24, <1>25, <1>26,
          <1>27, <1>28, <1>29, <1>30, <1>31, <1>32, <1>33, <1>34, <1>35, <1>36 DEF Next,
             StartStep, HumanRequest, AgentRequest, Resumption, Sweep

(***************************************************************************)
(* While worker.command runs for the agent, neither the human nor the      *)
(* service holds the lease.                                                *)
(***************************************************************************)
THEOREM CommandCorrect == Spec => []CommandExcludesHuman
<1>1. Init => CommandInv
  BY DEF Init, CommandInv
<1>2. TypeOK /\ CommandInv /\ [Next]_vars => CommandInv'
  BY CommandStep
<1>3. CommandInv => CommandExcludesHuman
  BY DEF CommandInv, CommandExcludesHuman
<1>. QED
  BY <1>1, <1>2, <1>3, TypeCorrect, PTL DEF Spec

(***************************************************************************)
(* When _close_sessions_for_jar has passed a session, the session is over. *)
(***************************************************************************)
THEOREM SweepCorrect == Spec => []SweptIsTerminal
<1>1. Init => SweepInv
  BY DEF Init, SweepInv, SweptIsTerminal, Cleaning
<1>2. TypeOK /\ SweepInv /\ [Next]_vars => SweepInv'
  BY SweepStep
<1>3. SweepInv => SweptIsTerminal
  BY DEF SweepInv
<1>. QED
  BY <1>1, <1>2, <1>3, TypeCorrect, PTL DEF Spec

-----------------------------------------------------------------------------
(* The token records.                                                      *)

(***************************************************************************)
(* The strengthening of the token properties: before registration nothing  *)
(* is minted and create_session has not started.                           *)
(***************************************************************************)
TokenInv ==
  /\ OutstandingTokensFitState
  /\ OneInvitation
  /\ ~Registered => start = "none" /\ \A t \in Tokens : tokens[t].type = "unminted"

(***************************************************************************)
(* _cleanup_locked leaves no outstanding token.                            *)
(***************************************************************************)
LEMMA RevokedClean ==
  ASSUME TypeOK, StartCleanup, Registered'
  PROVE  TokenInv'
<1>1. \A t \in Tokens, type \in {"control", "handoff", "handover"} : ~Outstanding(t, type)'
  BY DEF TypeOK, TokenRecord, StartCleanup, WithRevoked, Outstanding
<1>. QED
  BY <1>1 DEF TokenInv, OutstandingTokensFitState, OneInvitation

(***************************************************************************)
(* Nor does closing a session whose jar was revoked.                       *)
(***************************************************************************)
LEMMA CloseRevokedClean ==
  ASSUME TypeOK, CloseRevoked
  PROVE  TokenInv'
  BY RevokedClean DEF CloseRevoked, End, Registered

(***************************************************************************)
(* Every action keeps TokenInv. A claim consumes the only open handoff     *)
(* token; an agent claim consumes the only open handover token and every   *)
(* control token.                                                          *)
(***************************************************************************)
LEMMA TokenStep ==
  ASSUME TypeOK, LeaseMatchesState, TokenInv, [Next]_vars
  PROVE  TokenInv'
<1> USE DEF TypeOK, TokenRecord, TokenInv, OutstandingTokensFitState, OneInvitation,
     Outstanding, Minted, Fresh, LeaseMatchesState, lease, jar, clock, worker, Registered,
            Terminal, Handler, Cleaning, 
            TERMINAL_STATES, AGENT_COMMAND_STATES, HUMAN_STATES, MoveTo, Transition,
            ALLOWED_TRANSITIONS, End
<1>1. CASE Create
  BY <1>1 DEF Create
<1>2. CASE Launch
  BY <1>2 DEF Launch
<1>3. CASE Started
  BY <1>3 DEF Started, WidensFor
<1>4. CASE StartedRevoked
  BY <1>4, RevokedClean DEF StartedRevoked
<1>5. CASE RecheckCleaned
  BY <1>5 DEF RecheckCleaned
<1>6. CASE StartRaises
  BY <1>6 DEF StartRaises
<1>7. CASE StartFailed
  BY <1>7 DEF StartFailed
<1>8. CASE StartCloseRaises
  BY <1>8 DEF StartCloseRaises
<1>9. ASSUME NEW t \in Tokens, Claim(t)  PROVE TokenInv'
  <2>1. PICK u \in Tokens :
          /\ Fresh(u)
          /\ tokens' = [tokens EXCEPT ![t].consumed = TRUE, ![u] = Minted("control", hard)]
    BY <1>9 DEF Claim, Claimed
  <2>2. Usable(t, "handoff") /\ state = "handoff_requested" /\ state' = "human_active"
    BY <1>9 DEF Claim, Claimed
  <2>3. t # u /\ tokens'[t] = [tokens[t] EXCEPT !.consumed = TRUE]
    BY <2>1, <2>2 DEF Usable
  <2>4. tokens'[u].type = "control" /\ \A v \in Tokens \ {t, u} : tokens'[v] = tokens[v]
    BY <2>1
  <2>5. \A v \in Tokens : Outstanding(v, "handoff") => v = t
    BY <2>2 DEF Usable
  <2>6. \A v \in Tokens, type \in {"handoff", "handover"} : ~Outstanding(v, type)'
    BY <2>2, <2>3, <2>4, <2>5
  <2>. QED
    BY <2>2, <2>6
<1>10. ASSUME NEW t \in Tokens, AuthorizeHuman(t)  PROVE TokenInv'
  BY <1>10, CloseRevokedClean DEF AuthorizeHuman
<1>11. ASSUME NEW t \in Tokens, MarkSensitive(t)  PROVE TokenInv'
  BY <1>11 DEF MarkSensitive
<1>12. ASSUME NEW t \in Tokens, HumanCancel(t)  PROVE TokenInv'
  BY <1>12, RevokedClean DEF HumanCancel
<1>13. ASSUME NEW t \in Tokens, Complete(t)  PROVE TokenInv'
  BY <1>13, RevokedClean DEF Complete
<1>14. ASSUME NEW t \in Tokens, CompleteResumable(t)  PROVE TokenInv'
  BY <1>14 DEF CompleteResumable, SanitizeImpossible
<1>15. ASSUME NEW t \in Tokens, Handover(t)  PROVE TokenInv'
  BY <1>15 DEF Handover
<1>16. ASSUME NEW t \in Tokens, HandoverSite(t)  PROVE TokenInv'
  BY <1>16 DEF HandoverSite, SanitizeImpossible
<1>17. ASSUME NEW t \in Tokens, NEW minutes \in 1 .. ExtendLimit, Extend(t, minutes)
      PROVE  TokenInv'
  BY <1>17 DEF Extend, Extended
<1>18. ASSUME NEW r \in Resume, Handoff(r)  PROVE TokenInv'
  BY <1>18 DEF Handoff, ResumeAllowed, WidensFor
<1>19. CASE AgentClaim
  <2>1. CASE CloseRevoked
    BY <2>1, CloseRevokedClean
  <2>2. CASE ~CloseRevoked
    <3>1. state = "handover_requested" /\ state' = "agent_active"
      BY <1>19, <2>2 DEF AgentClaim
    <3>2. \A v \in Tokens, type \in {"control", "handover", "handoff"} : ~Outstanding(v, type)'
      <4>1. \A v \in Tokens : ~Outstanding(v, "handoff")
        BY <3>1
      <4>2. CASE tokens' = WithRevoked({"handover", "control"})
        BY <4>1, <4>2 DEF WithRevoked
      <4>3. ASSUME NEW t \in Tokens, Usable(t, "handover"),
                   tokens' = [WithRevoked({"control"}) EXCEPT ![t].consumed = TRUE]
            PROVE  \A v \in Tokens, type \in {"control", "handover", "handoff"} :
                     ~Outstanding(v, type)'
        <5>1. \A v \in Tokens : Outstanding(v, "handover") => v = t
          BY <4>3 DEF Usable
        <5>. QED
          BY <4>1, <4>3, <5>1 DEF WithRevoked
      <4>. QED
        BY <1>19, <2>2, <4>2, <4>3 DEF AgentClaim
    <3>. QED
      BY <3>1, <3>2
  <2>. QED
    BY <2>1, <2>2
<1>20. CASE AgentCommand
  BY <1>20, CloseRevokedClean DEF AgentCommand
<1>21. CASE Close
  BY <1>21, RevokedClean DEF Close
<1>22. CASE Sanitized
  BY <1>22 DEF Sanitized
<1>23. CASE HandoverSanitized
  BY <1>23 DEF HandoverSanitized
<1>24. CASE HandoverPublished
  BY <1>24 DEF HandoverPublished
<1>25. CASE CommandReturns
  BY <1>25 DEF CommandReturns
<1>26. CASE CommandRaises
  BY <1>26 DEF CommandRaises
<1>27. CASE CleanupReturns
  BY <1>27 DEF CleanupReturns
<1>28. CASE CleanupRaises
  BY <1>28 DEF CleanupRaises
<1>29. CASE CommandHangs
  BY <1>29 DEF CommandHangs
<1>30. CASE Reap
  BY <1>30, RevokedClean DEF Reap
<1>31. CASE RevokeElsewhere
  BY <1>31 DEF RevokeElsewhere
<1>32. CASE RevokeHere
  BY <1>32 DEF RevokeHere
<1>33. CASE SweepCloses
  BY <1>33, RevokedClean DEF SweepCloses
<1>34. CASE SweepPasses
  BY <1>34 DEF SweepPasses
<1>35. CASE Tick
  BY <1>35 DEF Tick
<1>36. CASE UNCHANGED vars
  BY <1>36 DEF vars
<1>. QED
  BY <1>1, <1>2, <1>3, <1>4, <1>5, <1>6, <1>7, <1>8, <1>9, <1>10, <1>11, <1>12, <1>13, <1>14,
       <1>15, <1>16, <1>17, <1>18, <1>19, <1>20, <1>21, <1>22, <1>23, <1>24, <1>25, <1>26,
          <1>27, <1>28, <1>29, <1>30, <1>31, <1>32, <1>33, <1>34, <1>35, <1>36 DEF Next,
             StartStep, HumanRequest, AgentRequest, Resumption, Sweep

(***************************************************************************)
(* TokenInv always holds.                                                  *)
(***************************************************************************)
THEOREM TokenInvariant == Spec => []TokenInv
<1>1. Init => TokenInv
  BY DEF Init, TokenInv, OutstandingTokensFitState, OneInvitation, Outstanding
<1>2. TypeOK /\ LeaseMatchesState /\ TokenInv /\ [Next]_vars => TokenInv'
  BY TokenStep
<1>. QED
  BY <1>1, <1>2, TypeCorrect, LeaseCorrect, PTL DEF Spec

(***************************************************************************)
(* Outstanding handoff, handover and control tokens always fit the         *)
(* session's state.                                                        *)
(***************************************************************************)
THEOREM TokensCorrect == Spec => []OutstandingTokensFitState
<1>1. TokenInv => OutstandingTokensFitState
  BY DEF TokenInv
<1>. QED
  BY <1>1, TokenInvariant, PTL

(***************************************************************************)
(* At most one invitation is open: a handoff and a handover are never both *)
(* to be claimed, nor one of them twice.                                   *)
(***************************************************************************)
THEOREM InvitationCorrect == Spec => []OneInvitation
<1>1. TokenInv => OneInvitation
  BY DEF TokenInv
<1>. QED
  BY <1>1, TokenInvariant, PTL

-----------------------------------------------------------------------------
(* Resuming what the handoff asked for.                                    *)

(***************************************************************************)
(* The strengthening of ResumeAsAsked: allowed_resume is what the last     *)
(* handoff asked for, unless a handover of an authenticated-site session   *)
(* overwrote it, and only a session that may be resumed is ever being      *)
(* sanitized for the agent.                                                *)
(***************************************************************************)
ResumeInv ==
  /\ resume = "after_sanitize" => asked = "after_sanitize" \/ request.site
  /\ state = "sanitize_pending" => resume = "after_sanitize"

(***************************************************************************)
(* Every action keeps ResumeInv: only handoff, handover and an attempted   *)
(* handover assign allowed_resume, and none of them while the session is   *)
(* being sanitized.                                                        *)
(***************************************************************************)
LEMMA ResumeStep ==
  ASSUME ResumeInv, [Next]_vars
  PROVE  ResumeInv'
<1> USE DEF ResumeInv, lease, Handler, Registered, MoveTo, End, StartCleanup, TERMINAL_STATES,
            AGENT_COMMAND_STATES
<1>1. CASE Create \/ StartStep
  BY <1>1 DEF Create, StartStep, Launch, Started, StartedRevoked, RecheckCleaned, StartRaises,
              StartFailed, StartCloseRaises
<1>2. ASSUME NEW t \in Tokens,
             Claim(t) \/ AuthorizeHuman(t) \/ MarkSensitive(t) \/ HumanCancel(t) \/ Complete(t)
      PROVE  ResumeInv'
  BY <1>2 DEF Claim, AuthorizeHuman, CloseRevoked, MarkSensitive, HumanCancel, Complete
<1>3. ASSUME NEW t \in Tokens, CompleteResumable(t)
      PROVE  ResumeInv'
  BY <1>3 DEF CompleteResumable, SanitizeImpossible
<1>4. ASSUME NEW t \in Tokens, Handover(t) \/ HandoverSite(t)
      PROVE  ResumeInv'
  BY <1>4 DEF Handover, HandoverSite, SanitizeImpossible
<1>5. ASSUME NEW t \in Tokens, NEW minutes \in 1 .. ExtendLimit, Extend(t, minutes)
      PROVE  ResumeInv'
  BY <1>5 DEF Extend
<1>6. ASSUME NEW r \in Resume, Handoff(r)
      PROVE  ResumeInv'
  BY <1>6 DEF Handoff
<1>7. CASE AgentClaim \/ AgentCommand \/ Close
  BY <1>7 DEF AgentClaim, AgentCommand, Close, CloseRevoked
<1>8. CASE Resumption \/ CommandHangs
  BY <1>8 DEF Resumption, Sanitized, HandoverSanitized, HandoverPublished, CommandReturns,
              CommandRaises, CleanupReturns, CleanupRaises, CommandHangs
<1>9. CASE Reap \/ RevokeElsewhere \/ RevokeHere \/ Sweep \/ Tick
  BY <1>9 DEF Reap, RevokeElsewhere, RevokeHere, Sweep, SweepCloses, SweepPasses, Tick
<1>10. CASE UNCHANGED vars
  BY <1>10 DEF vars
<1>. QED
  BY <1>1, <1>2, <1>3, <1>4, <1>5, <1>6, <1>7, <1>8, <1>9, <1>10 DEF Next, HumanRequest,
     AgentRequest

(***************************************************************************)
(* The human's completion resumes the agent only if the last handoff asked *)
(* for that, but for an authenticated-site session.                        *)
(***************************************************************************)
THEOREM ResumeCorrect == Spec => ResumeAsAsked
<1>1. Init => ResumeInv
  BY DEF Init, ResumeInv
<1>2. ResumeInv /\ [Next]_vars => ResumeInv'
  BY ResumeStep
<1>3. ResumeInv /\ [Next]_vars =>
        [state # "agent_resumable" /\ state' = "agent_resumable" =>
           asked = "after_sanitize" \/ request.site]_vars
  <2> SUFFICES ASSUME ResumeInv, [Next]_vars, state # "agent_resumable", state' = "agent_resumable"
               PROVE  asked = "after_sanitize" \/ request.site
    OBVIOUS
  <2>1. state = "sanitize_pending"
    BY LeaseSteps DEF LeaseStep, MoveTo, End, Transition, ALLOWED_TRANSITIONS, TERMINAL_STATES
  <2>. QED
    BY <2>1 DEF ResumeInv
<1>. QED
  BY <1>1, <1>2, <1>3, PTL DEF Spec, ResumeAsAsked

-----------------------------------------------------------------------------
(* The refinement of Lease.                                                *)

(***************************************************************************)
(* What one step does to the worker's confinement flag.                    *)
(***************************************************************************)
ConfinedStep ==
  /\ request' = request
  /\ \/ confined' = confined
     \/ /\ confined' = FALSE
        /\ \/ owner = "human" /\ UNCHANGED <<state, owner>>
           \/ MoveTo("handoff_requested")

(***************************************************************************)
(* Every action is a ConfinedStep: only handoff, and create_session for a  *)
(* human, lift the confinement.                                            *)
(***************************************************************************)
LEMMA ConfinedSteps ==
  ASSUME TypeOK, Confinement, [Next]_vars
  PROVE  ConfinedStep
<1> USE DEF ConfinedStep, TypeOK, Confinement, Request, lease, worker
<1>1. CASE Create
  BY <1>1 DEF Create
<1>2. CASE Launch
  BY <1>2 DEF Launch
<1>3. CASE Started
  BY <1>3 DEF Started, WidensFor
<1>4. CASE StartedRevoked
  BY <1>4 DEF StartedRevoked
<1>5. CASE RecheckCleaned
  BY <1>5 DEF RecheckCleaned
<1>6. CASE StartRaises
  BY <1>6 DEF StartRaises
<1>7. CASE StartFailed
  BY <1>7 DEF StartFailed
<1>8. CASE StartCloseRaises
  BY <1>8 DEF StartCloseRaises
<1>9. ASSUME NEW t \in Tokens, Claim(t)  PROVE ConfinedStep
  BY <1>9 DEF Claim, Claimed
<1>10. ASSUME NEW t \in Tokens, AuthorizeHuman(t)  PROVE ConfinedStep
  BY <1>10 DEF AuthorizeHuman, CloseRevoked
<1>11. ASSUME NEW t \in Tokens, MarkSensitive(t)  PROVE ConfinedStep
  BY <1>11 DEF MarkSensitive
<1>12. ASSUME NEW t \in Tokens, HumanCancel(t)  PROVE ConfinedStep
  BY <1>12 DEF HumanCancel
<1>13. ASSUME NEW t \in Tokens, Complete(t)  PROVE ConfinedStep
  BY <1>13 DEF Complete
<1>14. ASSUME NEW t \in Tokens, CompleteResumable(t)  PROVE ConfinedStep
  BY <1>14 DEF CompleteResumable, SanitizeImpossible
<1>15. ASSUME NEW t \in Tokens, Handover(t)  PROVE ConfinedStep
  BY <1>15 DEF Handover
<1>16. ASSUME NEW t \in Tokens, HandoverSite(t)  PROVE ConfinedStep
  BY <1>16 DEF HandoverSite, SanitizeImpossible
<1>17. ASSUME NEW t \in Tokens, NEW minutes \in 1 .. ExtendLimit, Extend(t, minutes)
      PROVE  ConfinedStep
  BY <1>17 DEF Extend, Extended
<1>18. ASSUME NEW r \in Resume, Handoff(r)  PROVE ConfinedStep
  BY <1>18 DEF Handoff, ResumeAllowed, WidensFor
<1>19. CASE AgentClaim
  BY <1>19 DEF AgentClaim, CloseRevoked
<1>20. CASE AgentCommand
  BY <1>20 DEF AgentCommand, CloseRevoked
<1>21. CASE Close
  BY <1>21 DEF Close
<1>22. CASE Sanitized
  BY <1>22 DEF Sanitized
<1>23. CASE HandoverSanitized
  BY <1>23 DEF HandoverSanitized
<1>24. CASE HandoverPublished
  BY <1>24 DEF HandoverPublished
<1>25. CASE CommandReturns
  BY <1>25 DEF CommandReturns
<1>26. CASE CommandRaises
  BY <1>26 DEF CommandRaises
<1>27. CASE CleanupReturns
  BY <1>27 DEF CleanupReturns
<1>28. CASE CleanupRaises
  BY <1>28 DEF CleanupRaises
<1>29. CASE CommandHangs
  BY <1>29 DEF CommandHangs
<1>30. CASE Reap
  BY <1>30 DEF Reap
<1>31. CASE RevokeElsewhere
  BY <1>31 DEF RevokeElsewhere
<1>32. CASE RevokeHere
  BY <1>32 DEF RevokeHere
<1>33. CASE SweepCloses
  BY <1>33 DEF SweepCloses
<1>34. CASE SweepPasses
  BY <1>34 DEF SweepPasses
<1>35. CASE Tick
  BY <1>35 DEF Tick
<1>36. CASE UNCHANGED vars
  BY <1>36 DEF vars
<1>. QED
  BY <1>1, <1>2, <1>3, <1>4, <1>5, <1>6, <1>7, <1>8, <1>9, <1>10, <1>11, <1>12, <1>13, <1>14,
       <1>15, <1>16, <1>17, <1>18, <1>19, <1>20, <1>21, <1>22, <1>23, <1>24, <1>25, <1>26,
          <1>27, <1>28, <1>29, <1>30, <1>31, <1>32, <1>33, <1>34, <1>35, <1>36 DEF Next,
             StartStep, HumanRequest, AgentRequest, Resumption, Sweep

(***************************************************************************)
(* The session implements the abstract lease: every step hands the browser *)
(* over only through the service, only to the party it was parked for, and *)
(* never back to an agent once it was widened or marked sensitive.         *)
(***************************************************************************)
THEOREM SessionImplementsLease == Spec => ImplementsLease
<1>1. Init => L!Init
  BY DEF Init, L!Init, driver, parkedFor, Registered
<1>2. ASSUME TypeOK, LeaseMatchesState, Confinement, Confinement', TokenInv, [Next]_vars
      PROVE  [L!Next]_(L!vars)
  <2> USE DEF L!vars, L!Next, L!Party, driver, parkedFor, Registered, LeaseMatchesState, Terminal,
              TERMINAL_STATES, AGENT_COMMAND_STATES, HUMAN_STATES
  <2>1. ConfinedStep /\ LeaseStep
    BY <1>2, ConfinedSteps, LeaseSteps
  <2>2. CASE UNCHANGED <<state, owner>>
    BY <1>2, <2>1, <2>2 DEF ConfinedStep, L!Widen, TypeOK, MoveTo, Transition, ALLOWED_TRANSITIONS
  <2>3. CASE /\ ~Registered
             /\ owner' = request.first
             /\ state' = IF request.first = "human" THEN "human_active" ELSE "agent_active"
    <3>1. confined' = confined
      BY <1>2, <2>1, <2>3 DEF ConfinedStep, MoveTo, Transition, ALLOWED_TRANSITIONS, TypeOK,
           Request
    <3>. QED
      BY <1>2, <2>3, <3>1 DEF L!Open, TypeOK, Request
  <2>4. CASE /\ Registered \/ start # "none"
             /\ \E to \in TERMINAL_STATES : End(to)
    <3>1. Registered
      BY <1>2, <2>4 DEF TokenInv
    <3>2. confined' = confined
      BY <1>2, <2>1, <2>4 DEF ConfinedStep, MoveTo, Transition, ALLOWED_TRANSITIONS, TypeOK, End
    <3>3. state' \in TERMINAL_STATES /\ owner' = "none"
      BY <2>4 DEF End
    <3>. QED
      BY <1>2, <3>1, <3>2, <3>3 DEF L!End, TypeOK, LeaseOwner
  <2>5. ASSUME NEW to \in SessionState \ {"expired", "failed"}, MoveTo(to)
        PROVE  [L!Next]_(L!vars)
    <3> USE <1>2, <2>1, <2>5
    <3>1. state' = to /\ <<state, to, owner'>> \in ALLOWED_TRANSITIONS
      BY DEF MoveTo, Transition
    <3>2. to # "handoff_requested" => confined' = confined
      BY <3>1 DEF ConfinedStep, MoveTo, ALLOWED_TRANSITIONS
    <3>3. CASE to = "handoff_requested"
      BY <3>1, <3>3 DEF ALLOWED_TRANSITIONS, ConfinedStep, TypeOK, L!ParkForHuman
    <3>4. CASE to \in {"handover_requested", "sanitize_pending"}
      <4>1. confined /\ confined'
        BY <3>1, <3>2, <3>4 DEF Confinement, ConfinedStep, TypeOK, Request
      <4>. QED
        BY <3>1, <3>4, <4>1 DEF ALLOWED_TRANSITIONS, L!ParkForAgent
    <3>5. CASE to \in {"human_active", "agent_active", "agent_resumable"}
      BY <3>1, <3>2, <3>5 DEF ALLOWED_TRANSITIONS, L!Deliver, TypeOK, LeaseOwner
    <3>6. CASE to = "human_sensitive"
      BY <3>1, <3>2, <3>6 DEF ALLOWED_TRANSITIONS, L!AskPrivacy
    <3>7. CASE to \in {"completed", "cancelled"}
      BY <3>1, <3>2, <3>7 DEF ALLOWED_TRANSITIONS, L!End, TypeOK, LeaseOwner
    <3>. QED
      BY <3>3, <3>4, <3>5, <3>6, <3>7 DEF SessionState
  <2>. QED
    BY <2>1, <2>2, <2>3, <2>4, <2>5 DEF LeaseStep
<1>. QED
  BY <1>1, <1>2, TypeCorrect, LeaseCorrect, ConfinementCorrect, TokenInvariant, PTL DEF Spec,
       ImplementsLease, L!Spec

(***************************************************************************)
(* What the lease is worth: whatever keeps it lets no agent drive a        *)
(* widened context or be parked for, and a sensitive one has a human.      *)
(***************************************************************************)
AgentConfined ==
  /\ parkedFor \in L!Party \cup {"nobody"}
  /\ ~confined => driver \notin {"unborn", "agent"} /\ parkedFor # "agent"
  /\ state = "human_sensitive" => driver = "human"
  /\ driver # "service" => parkedFor = "nobody"

THEOREM LeaseMeans == ImplementsLease => []AgentConfined
<1>1. L!Init => AgentConfined
  BY DEF L!Init, AgentConfined, L!Party
<1>2. ASSUME AgentConfined, [L!Next]_(L!vars)  PROVE AgentConfined'
  <2>1. CASE UNCHANGED L!vars
    BY <1>2, <2>1 DEF L!vars, AgentConfined
  <2>2. CASE L!Open
    BY <1>2, <2>2 DEF L!Open, L!Party, AgentConfined
  <2>3. CASE L!ParkForHuman
    BY <1>2, <2>3 DEF L!ParkForHuman, L!Party, AgentConfined
  <2>5. CASE L!ParkForAgent \/ L!Deliver
    BY <1>2, <2>5 DEF L!ParkForAgent, L!Deliver, L!Party, AgentConfined
  <2>4. CASE L!Widen \/ L!AskPrivacy \/ L!End
    BY <1>2, <2>4 DEF L!Widen, L!AskPrivacy, L!End, L!Party, AgentConfined
  <2>. QED
    BY <1>2, <2>1, <2>2, <2>3, <2>4, <2>5 DEF L!Next
<1>. QED
  BY <1>1, <1>2, PTL DEF ImplementsLease, L!Spec
=============================================================================
