------------------------------ MODULE PoolEval ------------------------------
(***************************************************************************)
(* The server's equations (pool-eval/src/lib.rs) and the PRF in the clear  *)
(* (pool-prf/src/prf.rs) as operators, for the modules that compose them.  *)
(* PoolRow takes the loops one coordinate at a time.                       *)
(***************************************************************************)
EXTENDS PoolArith, Sums

\* The server's masks, negated where the key's bit is 1.
r_sigma_sum(key, masks) ==
    reduce_q(Partial([k \in Coords |-> IF key[k] = 0 THEN masks[k] ELSE sub_q(0, masks[k])], N))

a_sigma_sum(key, r_sigma, e) ==
    reduce_q(Partial([k \in Coords |-> IF key[k] = 0 THEN 0 ELSE e[k]], N) + r_sigma)

padBroken(pads, j, b_bar_prime) == pads[sub_delta(b_bar_prime, j)]
pad(pads, j, b_bar_prime) == pads[sub_delta(j, b_bar_prime)]

respond(a_sigma, pads, b_bar_prime) ==
    [j \in Zdelta |-> add_p(rounded(a_sigma, j), pad(pads, j, b_bar_prime))]

inner_product(a, key) == reduce_q(Partial([k \in Coords |-> a[k] * key[k]], N))

evaluate_single_row(key, a) == round_zq_to_zp(inner_product(a, key))
=============================================================================
