--------------------------- MODULE PreprocCircuit ---------------------------
(***************************************************************************)
(* The circuit of the preprocessing statement                              *)
(* (pool-voprf/src/plonky3/statements/preprocessing.rs), which a VOPRF     *)
(* server proves once for all evaluations of a preprocessing: constraints  *)
(* (K), (M), (S) and (T) side by side, N_TABLE_ROWS rows per evaluation,   *)
(* one row per OT block, and the rules that make their copies of a value   *)
(* equal.  The rules treat the runs of an evaluation alike and apart: the  *)
(* model has one.                                                          *)
(*                                                                         *)
(* The verifier is a scan of the table.  The prover fills each row with    *)
(* any columns that the rules admit; of the row before, the rules read     *)
(* only the sum.  That the first row follows the last one does not matter: *)
(* has_next_block is 0 on the last row.                                    *)
(***************************************************************************)
EXTENDS CircuitArith

CONSTANTS
    N_TABLE_ROWS,       \* rows of an evaluation: the power of two that N blocks fit in
    Evaluations,        \* evaluations of the statement
    MaskTables,         \* bound: what the client's commitments c open to
    SumOpenings         \* bound: what the server's commitments m open to

EvaluationIds == 0 .. Evaluations - 1
Blocks == 0 .. N - 1

ASSUME PreprocCircuitAssumption ==
    /\ N_TABLE_ROWS \in Nat /\ N <= N_TABLE_ROWS
    /\ Evaluations \in Nat \ {0}        \* verify refuses a statement without evaluations
    /\ MaskTables \subseteq [EvaluationIds -> [Blocks -> [Bit -> Zq]]]
    /\ SumOpenings \subseteq Val

\* m^v opens to anything the server likes.
VARIABLES
    b_bar,      \* the public flip of each block
    c,          \* what c^v_{b, i} opens to: the client commits to masks in Zq
    sum         \* the sum on the last of them

preprocVars == <<sk, b_bar, c, m, row, sum>>

rows == CHOOSE r \in {Pow2(w) : w \in 0 .. Evaluations * N_TABLE_ROWS} :
            r >= Evaluations * N_TABLE_ROWS /\ r < 2 * Evaluations * N_TABLE_ROWS

\* The rows after the last evaluation count as the last one, those after block N - 1 as block N - 1.
evaluation(x) == IF x \div N_TABLE_ROWS < Evaluations THEN x \div N_TABLE_ROWS ELSE Evaluations - 1
block(x) == IF x % N_TABLE_ROWS < N THEN x % N_TABLE_ROWS ELSE N - 1

\* The periodic columns of (T) and of the rules for the shared values: the rows where each is 1.
first_block(x) == x % N_TABLE_ROWS = 0
has_next_blockShort(x) == x % N_TABLE_ROWS < N - 2
has_next_blockLong(x) == x % N_TABLE_ROWS < N
has_next_block(x) == x % N_TABLE_ROWS < N - 1
last_block(x) == x % N_TABLE_ROWS = N - 1
sel(i, x) == x % N_TABLE_ROWS = i

\* (S): the masks that open the commitment on the row, the one of b_bar_i xor sk_i.
MaskColumns(x, sk_i) ==
    LET b_bar_i == b_bar[block(x)]
    IN  Opening(c[evaluation(x)][block(x)][b_bar_i + sk_i - 2 * b_bar_i * sk_i])

\* (T): what a block adds to the sum.
term(sk_i, r) == r + sk_i * (Q - 2 * r)

\* The rules on one row.  (T) is for sk_i, the mask r, the sum s and bits of r_sigma and quotient;
\* sk_i is bit i of (K) on row i, r is the mask of (S), and r_sigma is the sum that (M) opens to.
RowRules(x, key, sk_i, r, s, r_sigma, quotient) ==
    /\ \E sumColumn \in Opening(m[evaluation(x)]) : assert_eq(r_sigma, sumColumn)
    /\ \A i \in Blocks : sel(i, x) => sk_i = key[i + 1]
    /\ r \in MaskColumns(x, sk_i)
    /\ first_block(x) => assert_eq(s, term(sk_i, r))
    /\ last_block(x) => assert_eq(s, r_sigma + quotient * Q)

\* The rule of (T) that reads the next row x, with the sum before it.
NextRowRules(before, x, sk_i, r, s) == has_next_block(x - 1) => assert_eq(s, before + term(sk_i, r))

PreprocInit ==
    /\ sk \in [Coords -> Bit] /\ b_bar \in [Blocks -> Bit]
    /\ c \in MaskTables /\ m \in [EvaluationIds -> SumOpenings]
    /\ row = 0 /\ sum = 0

\* The prover's choice of the other columns of the row, for a key and a sum.
FillRow(key, s) ==
    \E r_sigma \in Zq, sk_i \in Bit :
    \E r \in MaskColumns(row, sk_i), quotient \in Bits(QUOTIENT_BITS) :
        /\ RowRules(row, key, sk_i, r, s, r_sigma, quotient)
        /\ row > 0 => NextRowRules(sum, row, sk_i, r, s)

CheckPreprocRowBroken ==
    /\ row <= rows
    /\ row' = row + 1
    /\ \E key \in KeyColumns(pack_key(sk)) :
          sum' \in {s \in Val : FillRow(key, s)}
    /\ UNCHANGED <<sk, b_bar, c, m>>

CheckPreprocRow ==
    /\ row < rows
    /\ row' = row + 1
    /\ \E key \in KeyColumns(pack_key(sk)) :
          sum' \in {s \in Val : FillRow(key, s)}
    /\ UNCHANGED <<sk, b_bar, c, m>>

PreprocNext == CheckPreprocRow

PreprocSpec == PreprocInit /\ [][PreprocNext]_preprocVars

----------------------------------------------------------------------------
(* The columns an honest prover fills in: SumOfMasksAir::rows.             *)

\* The masks of an evaluation that the server chose in the OT: those of b_bar xor its key.
Chosen(v) ==
    [k \in Coords |-> c[v][k - 1][IF b_bar[k - 1] = sk[k] THEN 0 ELSE 1]]

PreprocHonestSum(v, i) ==
    Partial([k \in Coords |-> IF sk[k] = 0 THEN Chosen(v)[k] ELSE Q - Chosen(v)[k]], i + 1)

\* The block that the prover fills a row for: those after block N - 1 repeat its row.  It has to
\* be the block of the periodic columns, which are made on their own.
repeated_block(x) == LET r == x % N_TABLE_ROWS IN IF r < N - 1 THEN r ELSE N - 1

PreprocHonestRow(x) ==
    LET v == evaluation(x)
        i == repeated_block(x)
    IN  [sk_i |-> sk[i + 1], r |-> Chosen(v)[i + 1], sum |-> PreprocHonestSum(v, i),
         r_sigma |-> reduce_q(PreprocHonestSum(v, N - 1)), quotient |-> quotient_q(PreprocHonestSum(v, N - 1))]

----------------------------------------------------------------------------
(* Properties.                                                             *)

\* Every variable has its type.
PreprocTypeOK ==
    /\ sk \in [Coords -> Bit] /\ b_bar \in [Blocks -> Bit]
    /\ c \in MaskTables /\ m \in [EvaluationIds -> SumOpenings]
    /\ row \in 0 .. rows /\ sum \in Val

\* The circuit proves its statement: once the rows of an evaluation are accepted, whatever the
\* prover put in them, m opens to the mask sum in Zq of the key under pk and of the masks that
\* the client's commitments open to.  OnlineCircuit rests on this for its mask sums.
PreprocSound ==
    \A v \in EvaluationIds :
        row >= v * N_TABLE_ROWS + N => m[v] = r_sigma_sum(sk, Chosen(v))

\* An honest prover is never refused: its columns satisfy every rule, on the rows after the last
\* block and after the last evaluation too, and with the quotient N of masks that are all 0.
PreprocHonestAccepted ==
    (row < rows /\ m[evaluation(row)] = r_sigma_sum(sk, Chosen(evaluation(row)))) =>
        LET h == PreprocHonestRow(row)
        IN  /\ h.quotient \in Bits(QUOTIENT_BITS) /\ h.sum \in Val
            /\ RowRules(row, sk, h.sk_i, h.r, h.sum, h.r_sigma, h.quotient)
            /\ row > 0 => NextRowRules(PreprocHonestRow(row - 1).sum, row, h.sk_i, h.r, h.sum)
=============================================================================
