---------------------------- MODULE CircuitArith ----------------------------
(***************************************************************************)
(* What the circuits of the two VOPRF statements share                     *)
(* (pool-voprf/src/plonky3.rs, plonky3/constraints and plonky3/statements).*)
(*                                                                         *)
(* A circuit is a table of field elements and rules that each row, with    *)
(* the next, must satisfy; the rules are equations in the field.  Columns  *)
(* that a rule forces to be bits and that are only read packed are one     *)
(* number of that many bits here.  A commitment rule (sponge.rs) admits    *)
(* only the columns that hash to the digest: the opening of the            *)
(* commitment, which no other input of its domain shares.                  *)
(***************************************************************************)
EXTENDS PoolEval

CONSTANTS
    Pf,         \* the prime of the field
    N_BITS,     \* bits for any number up to N
    BITS_PER_ELEMENT    \* bits of the key in an element of its packing: those that fit

VARIABLES
    sk,         \* what pk opens to
    m,          \* what the commitments m open to
    row         \* rows of the table that were accepted

Val == 0 .. Pf - 1

\* A number of this many bits, as that many bit columns.
Bits(count) == 0 .. Pow2(count) - 1

QUOTIENT_BITSBroken == N_BITS + 2
QUOTIENT_BITS == N_BITS

\* N_BITS is N.ilog2() + 1, enough for N, and BITS_PER_ELEMENT is ORDER_U32.ilog2().  The last is
\* SUM_BOUND < Val::ORDER of a_sum.rs and t_sum_of_masks.rs: both sides of the rules of the two
\* sums stay below the prime.  DELTA is a power of two.
ASSUME CircuitAssumption ==
    /\ N \in Nat \ {0} /\ P \in Nat \ {0}
    /\ Pf \in Nat /\ N_BITS \in Nat /\ BITS_PER_ELEMENT \in Nat \ {0}
    /\ \E w \in 1 .. DELTA : DELTA = Pow2(w)
    /\ N < Pow2(N_BITS)
    /\ Pow2(BITS_PER_ELEMENT) <= Pf
    /\ Q * Pow2(N_BITS) < Pf

\* assert_eq: an equation of the field.
assert_eq(x, z) == x % Pf = z % Pf

\* eval_commitment: the values that end in the digest after the domain, and zeros.  A commitment
\* binds, so a digest is what it opens to here and the rules admit nothing else.
Opening(digest) == {digest}

quotient_q(x) == x \div Q

----------------------------------------------------------------------------
(* Constraint (K): the key's bits, packed, are the opening of pk.          *)

\* Element n of the packed key.
packed(key, n) ==
    FromBits([k \in 0 .. BITS_PER_ELEMENT - 1 |->
                IF n * BITS_PER_ELEMENT + k < N THEN key[n * BITS_PER_ELEMENT + k + 1] ELSE 0],
             BITS_PER_ELEMENT)

pack_key(key) == [n \in 0 .. (N - 1) \div BITS_PER_ELEMENT |-> packed(key, n)]

\* The key columns that the rules admit for pk, a commitment to the packed key.
KeyColumns(pk) ==
    {key \in [Coords -> Bit] : \A n \in DOMAIN pk : assert_eq(packed(key, n), pk[n])}
=============================================================================
