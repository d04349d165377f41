---------------------------- MODULE OprfService ----------------------------
(***************************************************************************)
(* What OprfClient promises its caller (pool-oprf/src/client.rs): a call   *)
(* for n inputs either returns the PRF of its own inputs, having paid n    *)
(* evaluations out of the budget of the session it was made in, or returns *)
(* an error (or is cancelled) and returns nothing.  Evaluations can be     *)
(* lost, but never come back; only a renewal replaces the budget.          *)
(***************************************************************************)
EXTENDS Integers

CONSTANTS MaxCalls, NoOutput

VARIABLES
    status,     \* "none", "asked" or "paid": the call in progress
    asked,      \* its number of evaluations
    calls,      \* the number of calls so far; the last one is the call in progress
    left,       \* evaluations left in the budget
    out         \* what each call returned: NoOutput, or the call whose inputs it is the PRF of

vars == <<status, asked, calls, left, out>>

Init ==
    /\ status = "none" /\ asked = 0 /\ calls = 0
    /\ left \in Nat
    /\ out = [c \in 1 .. MaxCalls |-> NoOutput]

Call ==
    /\ status = "none" /\ calls < MaxCalls
    /\ status' = "asked" /\ calls' = calls + 1
    /\ asked' \in Nat
    /\ UNCHANGED <<left, out>>

Pay ==
    /\ status = "asked"
    /\ asked >= 1 /\ asked <= left
    /\ left' = left - asked
    /\ status' = "paid"
    /\ UNCHANGED <<asked, calls, out>>

Return ==
    /\ status = "paid"
    /\ out' = [out EXCEPT ![calls] = calls]
    /\ status' = "none" /\ asked' = 0
    /\ UNCHANGED <<calls, left>>

Fail ==
    /\ status # "none"
    /\ status' = "none" /\ asked' = 0
    /\ UNCHANGED <<calls, left, out>>

Lose ==
    /\ left' \in 0 .. left
    /\ UNCHANGED <<status, asked, calls, out>>

Renew ==
    /\ status = "none"
    /\ left' \in Nat
    /\ UNCHANGED <<status, asked, calls, out>>

Next == Call \/ Pay \/ Return \/ Fail \/ Lose \/ Renew

Spec == Init /\ [][Next]_vars
=============================================================================
