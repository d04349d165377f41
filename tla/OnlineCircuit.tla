--------------------------- MODULE OnlineCircuit ---------------------------
(***************************************************************************)
(* The circuit of the online statement                                     *)
(* (pool-voprf/src/plonky3/statements/online.rs), which a VOPRF server     *)
(* proves with every response: constraints (K), (M), (A), (R) and (P) side *)
(* by side on each row, DELTA rows for each run, and the rules that make   *)
(* their copies of a value equal.                                          *)
(*                                                                         *)
(* The verifier is a scan of the table.  The prover fills each row with    *)
(* any columns that the rules admit; no rule reads the next row.  The      *)
(* public value y of the row's entry is chosen with the row.               *)
(***************************************************************************)
EXTENDS CircuitArith

CONSTANTS
    RUNS_PER_EVALUATION,
    Requests,       \* bound: what the client asked, e and b_bar_prime of each run
    PadTables       \* bound: what the commitments d of each run open to

Runs == 0 .. RUNS_PER_EVALUATION - 1
ROWS == RUNS_PER_EVALUATION * DELTA

ASSUME OnlineAssumption ==
    /\ RUNS_PER_EVALUATION \in Nat \ {0}
    /\ Requests \subseteq [Runs -> [e : [Coords -> Zq], b_bar_prime : Zdelta]]
    /\ PadTables \subseteq [Runs -> [Zdelta -> Val]]

\* m opens to a mask sum for each run, which (T) showed to be in Zq.
VARIABLES
    request, d, \* the other public values: the request, and what each d opens to
    y           \* the entry of the response on the last of them

onlineVars == <<sk, m, request, d, row, y>>

\* K selectors that are 1 for width rows each, in turn: the one that is 1 on row x.
selected(K, width, x) == (x \div width) % K

run(x)   == selected(RUNS_PER_EVALUATION, DELTA, x)
entry(x) == selected(DELTA, 1, x)

\* values in the order in which (R) uses the pads.
in_response_orderBroken(values, b_bar_prime) == [j \in Zdelta |-> values[sub_delta(b_bar_prime, j)]]
in_response_order(values, b_bar_prime) == [j \in Zdelta |-> values[sub_delta(j, b_bar_prime)]]

\* (P): the pad column is what the commitment of the row's entry opens to.
PadColumns(x) == Opening(in_response_order(d[run(x)], request[run(x)].b_bar_prime)[entry(x)])

\* (A): the coordinates where the key's bit is 1 and the mask sum, with their quotient by q.
SumRules(key, e, r_sigma, a_sigma, quotient) ==
    assert_eq(Partial([k \in Coords |-> key[k] * e[k]], N) + r_sigma, a_sigma + quotient * Q)

\* (R): up is 1 if the remainder is above DELTA / 2: its top bit is 1, and some lower bit.
upBroken(rem) == rem \div (DELTA \div 2)
up(rem) == (rem \div (DELTA \div 2)) * (IF rem % (DELTA \div 2) = 0 THEN 0 ELSE 1)

\* (R) on the row of entry j.
ResponseRules(a_sigma, t, wrapped, padColumn, carry, j, y_j) ==
    /\ assert_eq(t, a_sigma - j + wrapped * Q)
    /\ assert_eq((t \div DELTA) + up(t % DELTA) + padColumn - carry * P, y_j)

\* The rules of all constraints on row x: (M) keeps the mask sums of all runs, of which the row's
\* run picks one for (A); (R) takes the sum of (A) and the pad of (P).
Accepted(x, y_j) ==
    \E key \in KeyColumns(pack_key(sk)), sums \in Opening(m) :
    \E r_sigma \in Val, a_sigma \in Zq, quotient \in Bits(QUOTIENT_BITS) :
        /\ r_sigma = sums[run(x)]
        /\ SumRules(key, request[run(x)].e, r_sigma, a_sigma, quotient)
        /\ \E aColumn \in Val, padColumn \in Val :
              /\ aColumn = a_sigma
              /\ padColumn \in PadColumns(x)
              /\ \E t \in Zq, wrapped \in Bit, carry \in Bit :
                    ResponseRules(aColumn, t, wrapped, padColumn, carry, entry(x), y_j)

OnlineInit ==
    /\ sk \in [Coords -> Bit] /\ m \in [Runs -> Zq]
    /\ request \in Requests /\ d \in PadTables
    /\ row = 0 /\ y = 0

CheckOnlineRowBroken ==
    /\ row <= ROWS
    /\ row' = row + 1
    /\ y' \in {y_j \in Zp : Accepted(row, y_j)}
    /\ UNCHANGED <<sk, m, request, d>>

CheckOnlineRow ==
    /\ row < ROWS
    /\ row' = row + 1
    /\ y' \in {y_j \in Zp : Accepted(row, y_j)}
    /\ UNCHANGED <<sk, m, request, d>>

OnlineNext == CheckOnlineRow

OnlineSpec == OnlineInit /\ [][OnlineNext]_onlineVars

----------------------------------------------------------------------------
(* The columns an honest prover fills in: SumAir::row, ResponseAir::entries.*)

OnlineHonestSum(k) == Partial([n \in Coords |-> sk[n] * request[k].e[n]], N) + m[k]

HonestPad(x) == pad(d[run(x)], entry(x), request[run(x)].b_bar_prime)

OnlineHonestRow(x) ==
    LET a_sigma == reduce_q(OnlineHonestSum(run(x)))
        t       == sub_q(a_sigma, entry(x))
    IN  [a_sigma  |-> a_sigma,
         quotient |-> quotient_q(OnlineHonestSum(run(x))),
         t        |-> t,
         wrapped  |-> IF a_sigma < entry(x) THEN 1 ELSE 0,
         pad      |-> HonestPad(x),
         carry    |-> IF round(t) + HonestPad(x) >= P THEN 1 ELSE 0]

\* The entry of pool_eval::respond on row x.
HonestEntry(x) ==
    LET asked == request[run(x)]
    IN  respond(a_sigma_sum(sk, m[run(x)], asked.e), d[run(x)], asked.b_bar_prime)[entry(x)]

----------------------------------------------------------------------------
(* Properties.                                                             *)

\* Every variable has its type.
OnlineTypeOK ==
    /\ sk \in [Coords -> Bit] /\ m \in [Runs -> Zq]
    /\ request \in Requests /\ d \in PadTables
    /\ row \in 0 .. ROWS /\ y \in Zp

\* The circuit proves its statement: whatever the prover puts in the columns, an accepted entry
\* is the one that respond computes from the committed key, mask sum and pad, the request and
\* its b_bar_prime.  No rule keeps pads in range: of one that is not nothing follows, and the
\* client, which checked the pad it uses against its own, never unmasks with such a one.
OnlineSound ==
    (row > 0 /\ HonestPad(row - 1) \in Zp) => y = HonestEntry(row - 1)

\* An honest prover is never refused: its columns satisfy every rule on every row, at each wrap
\* of the subtraction, rounding tie, carry and largest quotient.
OnlineHonestAccepted ==
    (row < ROWS /\ HonestPad(row) \in Zp) =>
        LET h == OnlineHonestRow(row)
        IN  /\ h.quotient \in Bits(QUOTIENT_BITS) /\ h.a_sigma \in Zq /\ h.t \in Zq
            /\ SumRules(sk, request[run(row)].e, m[run(row)], h.a_sigma, h.quotient)
            /\ h.pad \in PadColumns(row)
            /\ ResponseRules(h.a_sigma, h.t, h.wrapped, h.pad, h.carry, entry(row), HonestEntry(row))
=============================================================================
