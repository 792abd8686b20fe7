------------------------------- MODULE JarPromise -------------------------------
(***************************************************************************)
(* What a cookie jar promises about the login it holds: one login at a     *)
(* time is offered to whoever loads the jar; publishing another or         *)
(* revoking the jar cuts off everybody who had it; and a login that was    *)
(* revoked is never offered again.                                         *)
(*                                                                         *)
(* Whoever holds a login without being cut off passes the service's next   *)
(* check; one that is cut off does not, whatever it still remembers.       *)
(***************************************************************************)
CONSTANTS
  Login,
  Holder, \* who may hold a login of the jar
  Nothing

VARIABLES
  offered, \* the login a load hands out now, or Nothing
  held,    \* the login of each holder that is not cut off, or Nothing
  dropped, \* revoked logins
  trusted  \* the volume has kept what was written to it

vars == <<offered, held, dropped, trusted>>

Nobody == [h \in Holder |-> Nothing]

\* Everybody is cut off, except the one that has just published l.
OnlyPublisher(l) == {Nobody} \cup {[Nobody EXCEPT ![h] = l] : h \in Holder}

Init ==
  /\ offered \in Login \cup {Nothing}
  /\ held \in OnlyPublisher(offered)
  /\ dropped = {}
  /\ trusted \in BOOLEAN

Publish ==
  /\ offered' \in Login \ dropped
  /\ held' \in OnlyPublisher(offered')
  /\ UNCHANGED dropped

Obtain(h) ==
  /\ offered # Nothing
  /\ held' = [held EXCEPT ![h] = offered]
  /\ UNCHANGED <<offered, dropped>>

Forget(h) ==
  /\ held' = [held EXCEPT ![h] = Nothing]
  /\ UNCHANGED <<offered, dropped>>

\* The login is superseded, or its revocation begins.
Withdraw ==
  /\ offered' = Nothing /\ held' = Nobody
  /\ UNCHANGED dropped

\* The revocation is acknowledged: what was offered until now is dropped.
Revoke ==
  /\ offered' = Nothing /\ held' = Nobody
  /\ dropped \cup ({offered} \ {Nothing}) \subseteq dropped'

\* The jar cannot be read; later it is there again.
Fade ==
  /\ offered' = Nothing
  /\ UNCHANGED <<held, dropped>>

Reappear ==
  /\ offered = Nothing /\ offered' \in Login \ dropped
  /\ UNCHANGED <<held, dropped>>

Keep ==
  \/ Publish \/ Withdraw \/ Revoke \/ Fade \/ Reappear
  \/ \E h \in Holder : Obtain(h) \/ Forget(h)

\* Nothing is promised on a volume that goes back in time.
Next == trusted' = FALSE \/ (trusted' = trusted /\ Keep)

Spec == Init /\ [][Next]_vars
=============================================================================
