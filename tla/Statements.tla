----------------------------- MODULE Statements -----------------------------
(***************************************************************************)
(* What a VOPRF server proves (pool-voprf/src/statements/): the statements *)
(* of the setup, of a preprocessing and of a response, the constraints     *)
(* that tie each to its witness (constraints/), and the commitments in     *)
(* them (plonky3/commitments/).                                            *)
(*                                                                         *)
(* External: a commitment is bound to what it hides, so it is the record   *)
(* of it; a proof is the statement it proves.  OnlineCircuit and           *)
(* PreprocCircuit are about the circuits that a proof is made with.        *)
(***************************************************************************)
EXTENDS Material

RUNS_PER_EVALUATION == H_ROWS

Commit(domain, value, randomness) == [domain |-> domain, value |-> value, randomness |-> randomness]

KeyCommitment(sk)                  == Commit("Key", sk, 0)
MasksCommitment(masks, randomness) == Commit("Masks", masks, randomness)
MaskSumCommitment(sums, randomness) == Commit("MaskSum", sums, randomness)
PadCommitment(value, randomness)   == Commit("Pad", value, randomness)

----------------------------------------------------------------------------
(* The constraints, each as its holds.                                     *)

Key(pk, sk) == KeyCommitment(sk) = pk

MaskSum(m, sums, randomness) == MaskSumCommitment(sums, randomness) = m

xor(x, z) == (x + z) % 2

ServerMasks(c, b_bar, sk, masks, ot_blocks) ==
    \A i \in Coords :
        /\ b_bar[i] <= 1
        /\ c[i][xor(b_bar[i], sk[i])] = MasksCommitment(masks[i], ot_blocks[i])

SumOfMasks(sk, masks, sums) ==
    /\ \A i \in Coords, k \in Rows : masks[i][k] < Q
    /\ \A k \in Rows : r_sigma_sum(sk, [i \in Coords |-> masks[i][k]]) = sums[k]

Pads(d, pads, randomness) == \A j \in Zdelta : PadCommitment(pads[j], randomness[j]) = d[j]

Sum(e, r_sigma) == r_sigma < Q /\ \A i \in Coords : e[i] < Q

Response(y, b_bar_prime, a_sigma, pads) ==
    b_bar_prime < DELTA /\ a_sigma < Q /\ respond(a_sigma, pads, b_bar_prime) = y

----------------------------------------------------------------------------
(* The statements: the one that is true of a witness, and holds_for.       *)

SetupStatement(sk) == [pk |-> KeyCommitment(sk)]
SetupHolds(statement, sk) == Key(statement.pk, sk)

PreprocessingHonest(w, b_bar, c) ==
    [pk |-> KeyCommitment(w.sk), b_bar |-> b_bar,
     evaluations |-> [v \in DOMAIN c |->
        [c |-> c[v], m |-> MaskSumCommitment(w.evaluations[v].sums, w.evaluations[v].m_randomness)]]]

EvaluationHolds(statement, b_bar, sk, ot_blocks, w) ==
    /\ ServerMasks(statement.c, b_bar, sk, w.masks, ot_blocks)
    /\ SumOfMasks(sk, w.masks, w.sums)
    /\ MaskSum(statement.m, w.sums, w.m_randomness)

PreprocessingHolds(statement, w) ==
    /\ Key(statement.pk, w.sk)
    /\ DOMAIN statement.evaluations # {}
    /\ DOMAIN statement.evaluations = DOMAIN w.evaluations
    /\ \A v \in DOMAIN w.evaluations :
        EvaluationHolds(statement.evaluations[v], statement.b_bar, w.sk, w.ot_blocks, w.evaluations[v])

RunHonest(sk, w, e, b_bar_prime) ==
    [d |-> [j \in Zdelta |-> PadCommitment(w.pads[j], w.d_randomness[j])],
     e |-> e, b_bar_prime |-> b_bar_prime,
     y |-> respond(a_sigma_sum(sk, w.r_sigma, e), w.pads, b_bar_prime)]

RunHolds(statement, sk, w) ==
    /\ Pads(statement.d, w.pads, w.d_randomness)
    /\ Sum(statement.e, w.r_sigma)
    /\ Response(statement.y, statement.b_bar_prime, a_sigma_sum(sk, w.r_sigma, statement.e), w.pads)

r_sigmas(w) == [k \in Rows |-> w.runs[k].r_sigma]

OnlineHonest(w, rows) ==
    [pk |-> KeyCommitment(w.sk), m |-> MaskSumCommitment(r_sigmas(w), w.m_randomness),
     runs |-> [k \in Rows |-> RunHonest(w.sk, w.runs[k], rows[k].e, rows[k].b_bar_prime)]]

OnlineHolds(statement, w) ==
    /\ Key(statement.pk, w.sk)
    /\ MaskSum(statement.m, r_sigmas(w), w.m_randomness)
    /\ \A k \in Rows : RunHolds(statement.runs[k], w.sk, w.runs[k])

----------------------------------------------------------------------------
(* prove refuses a witness for which the statement does not hold.  verify  *)
(* accepts no proof but one of the same public values; bytes that are no   *)
(* proof make the verifier fail or panic, which is caught.                 *)

NoProof == [of |-> [nothing |-> TRUE]]

prove(statement, holds) == IF holds THEN [of |-> statement] ELSE NoProof

verify(statement, proof) == proof = [of |-> statement]

\* A preprocessing statement without an evaluation is refused before the verifier runs.
verify_preprocessing(statement, proof) == DOMAIN statement.evaluations # {} /\ verify(statement, proof)
=============================================================================
