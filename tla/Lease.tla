--------------------------------- MODULE Lease ---------------------------------
(***************************************************************************)
(* What the service promises about one browser: a single party drives it,  *)
(* it changes hands only through the service and only to the party it was  *)
(* parked for, and it never goes back to an agent once a human was let out *)
(* of the jar's confinement or asked for privacy.                          *)
(***************************************************************************)
VARIABLES
  driver,    \* who drives: nobody yet, a party, the service, nobody any more
  parkedFor, \* the party the service holds the browser for
  widened,   \* navigation confinement was lifted
  sensitive  \* the human asked for privacy

vars == <<driver, parkedFor, widened, sensitive>>

Party == {"agent", "human"}

Init ==
  /\ driver = "unborn" /\ parkedFor = "nobody"
  /\ widened = FALSE /\ sensitive = FALSE

Open ==
  /\ driver = "unborn" /\ driver' \in Party
  /\ UNCHANGED <<parkedFor, widened, sensitive>>

ParkForHuman ==
  /\ driver = "agent"
  /\ driver' = "service" /\ parkedFor' = "human"
  /\ widened' \in {widened, TRUE}
  /\ UNCHANGED sensitive

ParkForAgent ==
  /\ driver = "human" /\ ~sensitive /\ ~widened
  /\ driver' = "service" /\ parkedFor' = "agent"
  /\ UNCHANGED <<widened, sensitive>>

Deliver ==
  /\ driver = "service"
  /\ driver' = parkedFor /\ parkedFor' = "nobody"
  /\ UNCHANGED <<widened, sensitive>>

Widen ==
  /\ driver = "human" /\ widened' = TRUE
  /\ UNCHANGED <<driver, parkedFor, sensitive>>

AskPrivacy ==
  /\ driver = "human" /\ sensitive' = TRUE
  /\ UNCHANGED <<driver, parkedFor, widened>>

End ==
  /\ driver \in Party \cup {"service"}
  /\ driver' = "none" /\ parkedFor' = "nobody" /\ sensitive' = FALSE
  /\ UNCHANGED widened

Next == Open \/ ParkForHuman \/ ParkForAgent \/ Deliver \/ Widen \/ AskPrivacy \/ End

Spec == Init /\ [][Next]_vars
=============================================================================
