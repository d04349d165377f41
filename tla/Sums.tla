-------------------------------- MODULE Sums --------------------------------
(***************************************************************************)
(* Sums, and numbers as bits: what the loops over coordinates and the      *)
(* shifts of the code compute.                                             *)
(***************************************************************************)
EXTENDS Integers

\* The sum of f[1] .. f[k].
Partial(f, k) == LET s[n \in 0 .. k] == IF n = 0 THEN 0 ELSE s[n - 1] + f[n] IN s[k]

\* 1 << n
Pow2(n) == LET p[i \in 0 .. n] == IF i = 0 THEN 1 ELSE 2 * p[i - 1] IN p[n]

bit(value, i) == (value \div Pow2(i)) % 2

\* The number whose bits 0 .. count - 1 are stream[0] ..
FromBits(stream, count) == Partial([i \in 1 .. count |-> stream[i - 1] * Pow2(i - 1)], count)
=============================================================================
