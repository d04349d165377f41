------------------------------- MODULE Voprf -------------------------------
(***************************************************************************)
(* A VOPRF from the files to the outputs (pool-oprf/src/voprf.rs with      *)
(* preprocessing.rs and online.rs): the client checks the commitments of   *)
(* the server to its pads, the proof of the preprocessing and the proof of *)
(* every response, each for a statement that it puts together itself.      *)
(*                                                                         *)
(* The server is the code, with the key that serve loaded, or anyone: then *)
(* it sends what it likes, and proves what it has a witness for.  It may   *)
(* have any key, it knows all blocks of the 1-out-of-DELTA OTs, and of     *)
(* each binary OT the block that it chose.                                 *)
(***************************************************************************)
EXTENDS KeyFiles

CONSTANTS
    Evaluations,    \* bound: that both sides preprocess for
    BinaryCoins,    \* bound: the server's choices of the binary OTs
    DeltaCoins,     \* bound: the client's binary choices of the 1-out-of-DELTA OTs
    Calls           \* bound: the tags and inputs of evaluate

Evals == 0 .. Evaluations - 1
Tau   == Evaluations * RUNS_PER_EVALUATION
Runs  == 0 .. Tau - 1

ASSUME VoprfAssumption ==
    /\ Evaluations \in Nat \ {0}
    /\ BinaryCoins \subseteq [0 .. BINARY_OT_COUNT - 1 -> Bit]
    /\ DeltaCoins \subseteq [0 .. required_binary_ot_count(Tau) - 1 -> Bit]
    /\ HashesTyped(Tau, Calls)

VARIABLES
    stage,      \* "files", then what comes next, or "refused"
    honest,     \* the server is the code
    r_s,        \* the server's blocks of the binary OTs
    received,   \* the client's blocks and choices of the 1-out-of-DELTA OTs
    d,          \* the commitments to the pads of each run, as the server sent them
    b_bar,      \* the masked key, as the server sent it
    m, proof,   \* the message that ends the preprocessing
    ctr, sctr,  \* the next run of each side
    asked,      \* the calls so far
    request,    \* the rows of the last request
    fin,        \* its FinalizeState: the rows, and the online statement without y
    response,   \* the last response: its rows and its proofs
    outs        \* the output of each call that ended

protocol == <<stage, honest, r_s, received, d, b_bar, m, proof, ctr, sctr, asked, request, fin, response, outs>>
vars == <<files, protocol>>

Init ==
    /\ FilesInit
    /\ stage = "files" /\ honest = TRUE
    /\ r_s = None /\ received = None /\ d = None /\ b_bar = None /\ m = None /\ proof = None
    /\ ctr = 0 /\ sctr = 0 /\ asked = <<>> /\ request = None /\ fin = None /\ response = None /\ outs = <<>>

\* lookup connects, to serve or to anyone.  Neither reads a file again: the disk leaves the state.
Connect == \E code \in BOOLEAN :
    /\ stage = "files" /\ pk # None /\ (code => sk # None)
    /\ stage' = "binary" /\ honest' = code
    /\ sk' = (IF code THEN sk ELSE None)
    /\ path' = None /\ bytes' = All(<<>>) /\ pos' = All(0) /\ file' = All(None) /\ keygen' = All("new")
    /\ pub' = None /\ pkfile' = None
    /\ UNCHANGED <<pk, removed, r_s, received, d, b_bar, m, proof, ctr, sctr, asked, request, fin, response, outs>>

Files == stage = "files" /\ FilesNext /\ UNCHANGED protocol

----------------------------------------------------------------------------
(* The values that both sides compute.                                     *)

first_run(v) == v * RUNS_PER_EVALUATION

pad_commitment(block) == PadCommitment(r_prime_from_block(block), block)

mask_sum_randomness(ot_blocks) == [domain |-> "MaskSumRandomness", hashed |-> ot_blocks]

\* send_masks_commitments: c of each evaluation.
MasksCommitments ==
    [v \in Evals |-> [i \in Coords |-> [b \in Bit |->
        MasksCommitment(expand(client_ot_blocks[i][b], first_run(v)), client_ot_blocks[i][b])]]]

\* The server's blocks of the 1-out-of-DELTA OTs.
delta_ot_blocks == delta_ot_send(OtPairs("delta", required_binary_ot_count(Tau)), Tau)

\* send_pads_commitments.
PadsCommitments == [run \in Runs |-> [j \in Zdelta |-> pad_commitment(delta_ot_blocks[run][j])]]

\* evaluation_witness, and the witness of a preprocessing, for a key.
evaluation_witness(key, v, m_randomness) ==
    [masks |-> server_masks(r_s, first_run(v)), sums |-> r_sigma_sums(r_s, key, first_run(v)),
     m_randomness |-> m_randomness]

PreprocessingWitness(key) ==
    [sk |-> key, ot_blocks |-> [i \in Coords |-> r_s[i].ot_block],
     evaluations |-> [v \in Evals |->
        evaluation_witness(key, v, mask_sum_randomness(delta_ot_blocks[first_run(v)]))]]

\* prove_online: the witness of a response, for a key, the sums of the runs from sums_run on,
\* and pads with their randomness.
OnlineWitnessBroken(key, sums_run, pads, d_randomness) ==
    [sk |-> key, m_randomness |-> mask_sum_randomness(delta_ot_blocks[0]),
     runs |-> [k \in Rows |->
        [r_sigma |-> r_sigma_sums(r_s, key, sums_run)[k], pads |-> pads[k], d_randomness |-> d_randomness[k]]]]
OnlineWitness(key, sums_run, pads, d_randomness) ==
    [sk |-> key, m_randomness |-> mask_sum_randomness(delta_ot_blocks[sums_run]),
     runs |-> [k \in Rows |->
        [r_sigma |-> r_sigma_sums(r_s, key, sums_run)[k], pads |-> pads[k], d_randomness |-> d_randomness[k]]]]

OtPads(first) == [k \in Rows |-> [j \in Zdelta |-> r_prime_from_block(delta_ot_blocks[first + k][j])]]
OtRandomness(first) == [k \in Rows |-> delta_ot_blocks[first + k]]

----------------------------------------------------------------------------
(* Preprocessing.                                                          *)

BinaryOts == \E choices \in BinaryCoins :
    /\ stage = "binary" /\ stage' = "masks"
    /\ r_s' = server_r_s(choices)
    /\ UNCHANGED <<files, honest, received, d, b_bar, m, proof, ctr, sctr, asked, request, fin, response, outs>>

\* receive_masks_commitments: c at the server's choice is to its own masks.
masks_match == \A v \in Evals, i \in Coords :
    MasksCommitments[v][i][r_s[i].b] = MasksCommitment(expand(r_s[i].ot_block, first_run(v)), r_s[i].ot_block)

ReceiveMasks ==
    /\ stage = "masks"
    /\ stage' = IF honest => masks_match THEN "delta" ELSE "refused"
    /\ UNCHANGED <<files, honest, r_s, received, d, b_bar, m, proof, ctr, sctr, asked, request, fin, response, outs>>

DeltaOts == \E choices \in DeltaCoins :
    /\ stage = "delta" /\ stage' = "pads"
    /\ received' = delta_ot_receive(OtChosen("delta", choices), choices, Tau)
    /\ UNCHANGED <<files, honest, r_s, d, b_bar, m, proof, ctr, sctr, asked, request, fin, response, outs>>

\* Anyone's d: one commitment is to another pad, two runs are swapped, or the last is missing.
OtherPads ==
    {[PadsCommitments EXCEPT ![run][j].value = add_p(@, 1)] : run \in Runs, j \in Zdelta}
        \union {PadsCommitments, [run \in Runs |-> PadsCommitments[(run + 1) % Tau]],
                [run \in 0 .. Tau - 2 |-> PadsCommitments[run]]}

SendPads ==
    /\ stage = "pads" /\ stage' = "pads sent"
    /\ d' \in IF honest THEN {PadsCommitments} ELSE OtherPads
    /\ UNCHANGED <<files, honest, r_s, received, b_bar, m, proof, ctr, sctr, asked, request, fin, response, outs>>

\* receive_pads_commitments: RUNS_PER_EVALUATION for each evaluation, and each at the client's
\* choice is to the client's own pad and block.
pads_matchBroken == DOMAIN d = Runs
pads_match ==
    /\ DOMAIN d = Runs
    /\ \A run \in Runs : d[run][received.choices[run]] = pad_commitment(received.blocks[run])

ReceivePads ==
    /\ stage = "pads sent"
    /\ stage' = IF pads_match THEN "bhat" ELSE "refused"
    /\ UNCHANGED <<files, honest, r_s, received, d, b_bar, m, proof, ctr, sctr, asked, request, fin, response, outs>>

\* The masked key; the client takes bits only.
SendBhat ==
    /\ stage = "bhat" /\ stage' = "prove"
    /\ b_bar' \in IF honest THEN {masked_key(r_s, sk)} ELSE [Coords -> Bit]
    /\ UNCHANGED <<files, honest, r_s, received, d, m, proof, ctr, sctr, asked, request, fin, response, outs>>

PreprocessingStatement(commitment, sums) ==
    [pk |-> commitment, b_bar |-> b_bar,
     evaluations |-> [v \in DOMAIN sums |-> [c |-> MasksCommitments[v], m |-> sums[v]]]]

Sums(statement) == [v \in DOMAIN statement.evaluations |-> statement.evaluations[v].m]

\* prove: m and the proof, of the honest statement.
Prove ==
    LET w == PreprocessingWitness(sk)
        s == PreprocessingHonest(w, b_bar, MasksCommitments)
        p == prove(s, PreprocessingHolds(s, w))
    IN
    /\ stage = "prove" /\ honest
    /\ stage' = (IF p = NoProof THEN "refused" ELSE "finish") /\ m' = Sums(s) /\ proof' = p
    /\ UNCHANGED <<files, honest, r_s, received, d, b_bar, ctr, sctr, asked, request, fin, response, outs>>

\* Anyone's m: of another key, swapped, another sum, or too few.
OtherSums(honestSums) ==
    {honestSums, [v \in Evals |-> honestSums[Evaluations - 1 - v]],
     [honestSums EXCEPT ![0].value[0] = reduce_q(@ + 1)], [v \in 0 .. Evaluations - 2 |-> honestSums[v]]}

ProveAny == \E key \in {KeyOf[g] : g \in Keygens} :
    LET w == PreprocessingWitness(key) IN
    /\ stage = "prove" /\ ~honest /\ stage' = "finish"
    /\ \E sums, proved \in OtherSums(Sums(PreprocessingHonest(w, b_bar, MasksCommitments))) :
        LET s == PreprocessingStatement(KeyCommitment(key), proved) IN
        m' = sums /\ proof' = prove(s, PreprocessingHolds(s, w))
    /\ UNCHANGED <<files, honest, r_s, received, d, b_bar, ctr, sctr, asked, request, fin, response, outs>>

\* finish: one m for each evaluation, and the proof verifies for the client's pk and c.
FinishOk ==
    DOMAIN m = Evals /\ verify_preprocessing(PreprocessingStatement(pk, m), proof)

Finish ==
    /\ stage = "finish"
    /\ stage' = IF FinishOk THEN "request" ELSE "refused"
    /\ proof' = None
    /\ UNCHANGED <<files, honest, r_s, received, d, b_bar, m, ctr, sctr, asked, request, fin, response, outs>>

----------------------------------------------------------------------------
(* Evaluations.                                                            *)

client == [ot_blocks |-> client_ot_blocks, bhat |-> b_bar, r_c |-> client_r_c(received)]

\* The client's statement of a response, with its own request and what it kept from the
\* preprocessing; y comes with the response.
online_statement(first, rows) ==
    [pk |-> pk, m |-> m[first \div RUNS_PER_EVALUATION],
     runs |-> [k \in Rows |-> [d |-> d[first + k], e |-> rows[k].e, b_bar_prime |-> rows[k].b_bar_prime]]]

Request == \E call \in Calls :
    LET made == request_evaluation(client, ctr, hash_to_zq_matrix(call.tag, call.input)) IN
    /\ stage = "request" /\ Tau - ctr >= H_ROWS
    /\ stage' = "eval" /\ ctr' = ctr + H_ROWS
    /\ asked' = Append(asked, call)
    /\ request' = made.rows
    /\ fin' = [rows |-> made.fin, statement |-> online_statement(ctr, made.rows)]
    /\ UNCHANGED <<files, honest, r_s, received, d, b_bar, m, proof, sctr, response, outs>>

\* blind_eval with prove_online; a proof that fails ends the server, with its runs spent.
BlindEval ==
    LET server == [r_s |-> r_s, s_s |-> server_s_s(delta_ot_blocks)]
        rows   == blind_eval_one(server, sk, sctr, request)
        w      == OnlineWitness(sk, sctr, OtPads(sctr), OtRandomness(sctr))
        s      == OnlineHonest(w, request)
        p      == prove(s, OnlineHolds(s, w))
    IN
    /\ stage = "eval" /\ honest /\ Tau - sctr >= H_ROWS
    /\ sctr' = sctr + H_ROWS
    /\ stage' = IF p = NoProof THEN "refused" ELSE "finalize"
    /\ response' = [rows |-> rows, proofs |-> <<p>>]
    /\ UNCHANGED <<files, honest, r_s, received, d, b_bar, m, proof, ctr, asked, request, fin, outs>>

\* What commitments open to.
Openings(first, field) == [k \in Rows |-> [j \in Zdelta |->
    IF field = "pad" THEN d[first + k][j].value ELSE d[first + k][j].randomness]]

\* A response's y, as proved or with an entry changed.
OtherResponses(y) == {y} \union {[y EXCEPT ![k][j] = add_p(@, 1)] : k \in Rows, j \in Zdelta}

\* Anyone's response: for any key, with the sums and the pads of any evaluation, the pads as in d
\* or as the OTs gave them; then as proved or with an entry changed, with any counters, and with
\* the proof or without.
AnswerAny == \E key \in {KeyOf[g] : g \in Keygens}, v, u \in Evals, own \in BOOLEAN :
    LET first == first_run(u)
        w == IF own THEN OnlineWitness(key, first_run(v), OtPads(first), OtRandomness(first))
             ELSE OnlineWitness(key, first_run(v), Openings(first, "pad"), Openings(first, "randomness"))
        s == OnlineHonest(w, request)
        y == [k \in Rows |-> s.runs[k].y]
    IN
    /\ stage = "eval" /\ ~honest /\ stage' = "finalize"
    /\ \E ys \in OtherResponses(y), c \in {0, first},
          proofs \in {<<>>, <<prove(s, OnlineHolds(s, w))>>} :
        response' = [rows |-> [k \in Rows |-> [y |-> ys[k], ctr |-> c + k]], proofs |-> proofs]
    /\ UNCHANGED <<files, honest, r_s, received, d, b_bar, m, proof, ctr, sctr, asked, request, fin, outs>>

\* verify_online: the statement with the response's y.
verify_online(statement, rows, p) ==
    LET run(k) == statement.runs[k]
    IN  verify([pk |-> statement.pk, m |-> statement.m,
                runs |-> [k \in Rows |-> [d |-> run(k).d, e |-> run(k).e, b_bar_prime |-> run(k).b_bar_prime,
                                         y |-> rows[k].y]]], p)

\* finalize: one proof, which verifies, then the counters.
FinalizeOk ==
    /\ Len(response.proofs) = 1
    /\ verify_online(fin.statement, response.rows, response.proofs[1])
    /\ \A k \in Rows : response.rows[k].ctr = fin.rows[k].ctr

Finalize ==
    /\ stage = "finalize"
    /\ stage' = IF FinalizeOk THEN "request" ELSE "refused"
    /\ outs' = IF FinalizeOk THEN Append(outs, [k \in Rows |-> finalize_row(fin.rows[k], response.rows[k])]) ELSE outs
    /\ request' = None /\ fin' = None /\ response' = None
    /\ UNCHANGED <<files, honest, r_s, received, d, b_bar, m, proof, ctr, sctr, asked>>

Next ==
    \/ Files \/ Connect
    \/ BinaryOts \/ ReceiveMasks \/ DeltaOts \/ SendPads \/ ReceivePads \/ SendBhat
    \/ Prove \/ ProveAny \/ Finish
    \/ Request \/ BlindEval \/ AnswerAny \/ Finalize

Spec == Init /\ [][Next]_vars

----------------------------------------------------------------------------
(* Properties.                                                             *)

\* docs/voprf.md: whoever answers, an output that the client accepts is the PRF of its tag and
\* input under the key that pk commits to, whatever the server sent before.
VerifiedOutput ==
    \A n \in DOMAIN outs : outs[n] = evaluate(pk.value, asked[n].tag, asked[n].input)

\* The server of this code is never refused, and refuses no client of this code: as long as no
\* whole key was removed, whichever of keygen, public-key, serve and lookup were killed, run
\* again or overlapped, the pk that a client loads is of the key that the server loaded, and
\* every proof is of the statement that the client puts together.
HonestAccepted == honest /\ ~removed => stage # "refused"
=============================================================================
