------------------------------ MODULE Renewal ------------------------------
(***************************************************************************)
(* What a preprocessing promises the two sessions that call it (renew in   *)
(* pool-oprf/src/client.rs and server.rs), and all that OprfSession takes  *)
(* it to be.  Sides that ask for the same number of runs exchange their    *)
(* material up to the server's last message.  The server has its new state *)
(* once that message left, the client once it arrived; either may fail     *)
(* alone, the server also after its last message left.  Sides that ask for *)
(* different numbers of runs exchange nothing and never get a state.       *)
(***************************************************************************)
EXTENDS Integers

VARIABLES
    casked, sasked,     \* the runs that each side asks for
    cres, sres,         \* what each side's call returned: "none" yet, "state", "mismatch" or "failed"
    exchanged,          \* all but the server's last message is done
    sent                \* the server's last message left

vars == <<casked, sasked, cres, sres, exchanged, sent>>

Init ==
    /\ casked \in Nat /\ sasked \in Nat
    /\ cres = "none" /\ sres = "none"
    /\ exchanged = FALSE /\ sent = FALSE

Exchange ==
    /\ cres = "none" /\ sres = "none"
    /\ casked = sasked /\ ~exchanged
    /\ exchanged' = TRUE
    /\ UNCHANGED <<casked, sasked, cres, sres, sent>>

ServerReturns ==
    /\ sres = "none" /\ exchanged
    /\ sres' = "state" /\ sent' = TRUE
    /\ UNCHANGED <<casked, sasked, cres, exchanged>>

ServerFails ==
    /\ sres = "none"
    /\ sres' = "failed"
    /\ sent' \in {sent, exchanged}
    /\ UNCHANGED <<casked, sasked, cres, exchanged>>

ServerMismatch ==
    /\ sres = "none" /\ casked # sasked
    /\ sres' = "mismatch"
    /\ UNCHANGED <<casked, sasked, cres, exchanged, sent>>

ClientReturns ==
    /\ cres = "none" /\ sent
    /\ cres' = "state"
    /\ UNCHANGED <<casked, sasked, sres, exchanged, sent>>

ClientFails ==
    /\ cres = "none"
    /\ cres' = "failed"
    /\ UNCHANGED <<casked, sasked, sres, exchanged, sent>>

ClientMismatch ==
    /\ cres = "none" /\ casked # sasked
    /\ cres' = "mismatch"
    /\ UNCHANGED <<casked, sasked, sres, exchanged, sent>>

Next ==
    \/ Exchange
    \/ ServerReturns \/ ServerFails \/ ServerMismatch
    \/ ClientReturns \/ ClientFails \/ ClientMismatch

Spec == Init /\ [][Next]_vars
=============================================================================
