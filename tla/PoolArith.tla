----------------------------- MODULE PoolArith -----------------------------
(***************************************************************************)
(* The parameters of the Pool PRF (pool-prf/src/params.rs), its modular    *)
(* arithmetic (modular.rs) and its rounding (round.rs).                    *)
(***************************************************************************)
EXTENDS Integers

CONSTANTS
    N,              \* the LWR dimension, length of the key
    P,              \* the rounding modulus
    DELTA           \* q / p

ASSUME PoolAssumption == N \in Nat \ {0} /\ P \in Nat \ {0} /\ DELTA \in Nat \ {0}

Q      == P * DELTA
Zq     == 0 .. Q - 1
Zp     == 0 .. P - 1
Zdelta == 0 .. DELTA - 1
Bit    == {0, 1}
Coords == 1 .. N

----------------------------------------------------------------------------
(* Modular arithmetic and rounding (modular.rs, round.rs).                 *)

reduce_q(x)     == x % Q
reduce_p(x)     == x % P
reduce_delta(x) == x % DELTA
sub_q(x, z)     == reduce_q(x + Q - z)
add_p(x, z)     == reduce_p(x + z)
sub_p(x, z)     == reduce_p(x + P - z)
sub_delta(x, z) == (x + DELTA - z) % DELTA

\* The nearest integer to v / DELTA, a tie rounded down.
round(v) == (v \div DELTA) + (IF v % DELTA > DELTA \div 2 THEN 1 ELSE 0)
round_zq_to_zp(v) == reduce_p(round(v))

\* What the server rounds for the value j of the client's mask sum mod DELTA.
rounded(aSum, j) == round_zq_to_zp(sub_q(aSum, j))
=============================================================================
