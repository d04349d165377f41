------------------------------ MODULE Material ------------------------------
(***************************************************************************)
(* What the two sides make of their OTs (pool-oprf/src/preprocessing.rs):  *)
(* the masks and pads of each run, and the algorithms that use them, for   *)
(* one evaluation of H_ROWS runs (online.rs) on a hashed input (hash.rs).  *)
(*                                                                         *)
(* A client state is a record with ot_blocks, bhat and r_c, a server state *)
(* one with r_s and s_s, as in the code.                                   *)
(***************************************************************************)
EXTENDS PoolEval, DeltaOt, Sequences

CONSTANTS
    H_ROWS,         \* rows of the hashed input, runs of an evaluation
    Xof(_, _),      \* external: byte of the output of BLAKE3 for a seed, at a position
    Lead(_)         \* external: the leading bytes of a block, as a number

ASSUME MaterialAssumption == H_ROWS \in Nat \ {0}

Rows == 0 .. H_ROWS - 1

\* size_of::<Zq>()
MASK_BYTES == 2

\* The first byte of the mask of run first_run + k: set_position, then chunks of MASK_BYTES.
mask_positionBroken(first_run, k) == first_run + k * MASK_BYTES
mask_position(first_run, k) == first_run * MASK_BYTES + k * MASK_BYTES

\* An element of Zq from two bytes, the low one first.
zq_from(seed, position) == reduce_q(Xof(seed, position) + 256 * Xof(seed, position + 1))

expand(ot_block, first_run) ==
    [k \in Rows |-> zq_from([domain |-> "mask", hashed |-> ot_block], mask_position(first_run, k))]

r_prime_from_block(block) == reduce_p(Lead(block))

\* What the random oracle hashes: the length of the tag, the tag and the input.
ro_inputBroken(tag, input) == tag \o input
ro_input(tag, input) == <<Len(tag)>> \o tag \o input

hash_to_zq_matrix(tag, input) ==
    LET seed == [domain |-> "matrix", hashed |-> ro_input(tag, input)]
    IN  [k \in Rows |-> [i \in Coords |-> zq_from(seed, k * N * 2 + 2 * (i - 1))]]

evaluate(key, tag, input) ==
    [k \in Rows |-> evaluate_single_row(key, hash_to_zq_matrix(tag, input)[k])]

----------------------------------------------------------------------------
(* preproc_client_with and preproc_server: the secrets from the OTs.       *)

\* The N binary OTs, rounded up; the ones past N are dropped on both sides.
BINARY_OT_COUNT == next_multiple_of(N, BASE_OT_COUNT)

client_ot_blocks == [i \in Coords |-> OtPairs("binary", BINARY_OT_COUNT)[i - 1]]

server_r_s(choices) ==
    [i \in Coords |-> [b |-> choices[i - 1], ot_block |-> OtChosen("binary", choices)[i - 1]]]

masked_key(r_s, key) == [i \in Coords |-> IF r_s[i].b = key[i] THEN 0 ELSE 1]

client_r_c(received) ==
    [run \in DOMAIN received.blocks |->
        [b_prime |-> received.choices[run], r_prime |-> r_prime_from_block(received.blocks[run])]]

server_s_s(sent) == [run \in DOMAIN sent |-> [j \in Zdelta |-> r_prime_from_block(sent[run][j])]]

----------------------------------------------------------------------------
(* The online algorithms, for the runs first_run .. first_run + H_ROWS - 1.*)

\* request_evaluation: the rows to send and the rows of the FinalizeState.
request_evaluation(client, first_run, a) ==
    LET r_bhat     == [i \in Coords |-> expand(client.ot_blocks[i][client.bhat[i]], first_run)]
        r_not_bhat == [i \in Coords |-> expand(client.ot_blocks[i][1 - client.bhat[i]], first_run)]
        r_sigma(k) == reduce_q(Partial([i \in Coords |-> r_bhat[i][k]], N))
        rc(k)      == client.r_c[first_run + k]
    IN  [rows |-> [k \in Rows |->
                    [e           |-> [i \in Coords |-> reduce_q(a[k][i] + r_bhat[i][k] + r_not_bhat[i][k])],
                     b_bar_prime |-> sub_delta(reduce_delta(r_sigma(k)), rc(k).b_prime)]],
         fin  |-> [k \in Rows |->
                    [ctr |-> first_run + k, r_sigma |-> r_sigma(k), r_prime |-> rc(k).r_prime]]]

server_masksBroken(r_s, first_run) == [i \in Coords |-> expand(r_s[i].ot_block, 0)]
server_masks(r_s, first_run) == [i \in Coords |-> expand(r_s[i].ot_block, first_run)]

\* The sum of the server's masks, for each run.
r_sigma_sums(r_s, key, first_run) ==
    LET r == server_masks(r_s, first_run)
    IN  [k \in Rows |-> r_sigma_sum(key, [i \in Coords |-> r[i][k]])]

blind_eval_one(server, key, first_run, rows) ==
    LET sums == r_sigma_sums(server.r_s, key, first_run)
    IN  [k \in Rows |->
            [y   |-> respond(a_sigma_sum(key, sums[k], rows[k].e), server.s_s[first_run + k], rows[k].b_bar_prime),
             ctr |-> first_run + k]]

finalize_row(fin, row) ==
    LET low == reduce_delta(fin.r_sigma)
    IN  sub_p(sub_p(row.y[low], fin.r_prime), reduce_p((fin.r_sigma - low) \div DELTA))

----------------------------------------------------------------------------

\* What the code has of its hashes, for runs 0 .. runs - 1 and these calls: wherever it reads
\* them, the XOF gives bytes, and the leading bytes of a block are an unsigned number.
HashesTyped(runs, calls) ==
    /\ \A i \in Coords, c \in Bit, position \in 0 .. runs * MASK_BYTES - 1 :
          Xof([domain |-> "mask", hashed |-> client_ot_blocks[i][c]], position) \in 0 .. 255
    /\ \A call \in calls, position \in 0 .. H_ROWS * N * 2 - 1 :
          Xof([domain |-> "matrix", hashed |-> ro_input(call.tag, call.input)], position) \in 0 .. 255
    /\ \A run \in 0 .. runs - 1, j \in Zdelta :
          Lead(delta_ot_send(OtPairs("delta", required_binary_ot_count(runs)), runs)[run][j]) \in Nat
=============================================================================
