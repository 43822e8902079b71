------------------------------- MODULE Vault --------------------------------
(***************************************************************************)
(* What wrapping and unwrapping promise: one secret is put away and got    *)
(* back.  Getting it gives the secret or an error and never anything else. *)
(* The copy that is kept may be damaged, and only then may getting it end  *)
(* in a crash.                                                             *)
(***************************************************************************)
CONSTANTS Secrets, None, Error, Crash

VARIABLES
    secret,     \* what was put away last, or None
    intact,     \* the copy has not been damaged
    got         \* how the last operation ended, None if it has not

vars == <<secret, intact, got>>

Init == secret = None /\ intact = TRUE /\ got = None

Begin == got' = None /\ UNCHANGED <<secret, intact>>

Put(s) == secret' = s /\ intact' = TRUE /\ got' = None

Damage == secret # None /\ intact' = FALSE /\ UNCHANGED <<secret, got>>

\* Neither a failed Put nor a Get changes what is kept.
End ==
    /\ \/ got' = Error
       \/ secret # None /\ got' = secret
       \/ secret # None /\ ~intact /\ got' = Crash
    /\ UNCHANGED <<secret, intact>>

Next == Begin \/ (\E s \in Secrets : Put(s)) \/ Damage \/ End

Spec == Init /\ [][Next]_vars

=============================================================================
