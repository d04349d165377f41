------------------------------ MODULE PoolRow ------------------------------
(***************************************************************************)
(* The arithmetic of one base run of the Pool OPRF, from the preprocessed  *)
(* secrets to the PRF output: request_evaluation and finalize_row          *)
(* (pool-oprf/src/online.rs), blind_eval_one and the equations it calls    *)
(* (pool-eval/src/lib.rs), and evaluate_single_row, the PRF itself         *)
(* (pool-prf/src/prf.rs), on the modular operations of pool-prf.           *)
(*                                                                         *)
(* Each loop over the N coordinates is a sequence of steps, one for each   *)
(* coordinate, and an accumulator is the function from the number of       *)
(* coordinates it has taken to its value then, so that an invariant can    *)
(* compare loops that run on different sides at different times.  The code *)
(* indexes coordinates from 0, the model from 1.                           *)
(***************************************************************************)
EXTENDS PoolEval

CONSTANTS
    ZqAccumMax,     \* the largest ZqAccum
    Inputs,         \* bound: elements of the hashed row
    Masks,          \* bound: masks of the binary OTs
    PadRows         \* bound: pads of the 1-out-of-DELTA OT

\* params.rs asserts that a sum of N elements of Zq fits ZqAccum; the code adds up N + 1 of them
\* in a_sigma_sum and 3 in request_evaluation, which the actual parameters allow.
ASSUME RowAssumption ==
    /\ Inputs \subseteq Zq /\ Masks \subseteq Zq /\ PadRows \subseteq [Zdelta -> Zp]
    /\ ZqAccumMax \in Nat
    /\ (N + 1) * (Q - 1) <= ZqAccumMax /\ 3 * (Q - 1) <= ZqAccumMax

VARIABLES
    pc, i,          \* the loop, and the coordinate it is at
    sk,             \* the server's key
    b, r,           \* binary OTs: the server's choices, the client's pairs of masks
    b_prime, pads,  \* 1-out-of-DELTA OT: the client's choice, the server's pads
    a,              \* the client's hashed row
    e, r_acc, r_sigma, b_bar_prime,     \* request: the row sent, and its FinalizeState
    m_acc, r_sum,                       \* blind_eval: the server's masks added up
    s_acc, a_sum, y,                    \* blind_eval: the key's coordinates added up, the response
    out,                                \* finalize: the output
    v_acc, prf                          \* the PRF evaluated in the clear

given  == <<sk, b, r, b_prime, pads, a>>
asked  == <<e, r_acc, r_sigma, b_bar_prime>>
masked == <<m_acc, r_sum>>
summed == <<s_acc, a_sum, y>>
clear  == <<v_acc, prf>>
vars   == <<pc, i, given, asked, masked, summed, out, clear>>

----------------------------------------------------------------------------
(* What each side holds after preprocessing.                               *)

\* The masked key bit, public to the client.
bhat(k) == IF b[k] = sk[k] THEN 0 ELSE 1

r_bhat(k)     == r[k][bhat(k)]
r_not_bhat(k) == r[k][1 - bhat(k)]

\* The mask the server chose, and its pads; the client has one of the pads.
r_b(k)  == r[k][b[k]]
r_prime == pads[b_prime]

Init ==
    /\ pc = "request" /\ i = 1
    /\ sk \in [Coords -> Bit]
    /\ b \in [Coords -> Bit] /\ r \in [Coords -> [Bit -> Masks]]
    /\ b_prime \in Zdelta /\ pads \in PadRows
    /\ a \in [Coords -> Inputs]
    /\ e = [k \in Coords |-> 0] /\ r_acc = [k \in 0 .. N |-> 0]
    /\ r_sigma = 0 /\ b_bar_prime = 0
    /\ m_acc = [k \in 0 .. N |-> 0] /\ r_sum = 0
    /\ s_acc = [k \in 0 .. N |-> 0] /\ a_sum = 0 /\ y = [j \in Zdelta |-> 0]
    /\ out = 0
    /\ v_acc = [k \in 0 .. N |-> 0] /\ prf = 0

----------------------------------------------------------------------------
\* A loop is at coordinate i, or past the last one.
At(loop)   == pc = loop /\ i <= N /\ i' = i + 1 /\ pc' = pc
Past(loop) == pc = loop /\ i > N /\ i' = 1

\* request_evaluation: one coordinate of the row.
MaskCoordinate ==
    /\ At("request")
    /\ e' = [e EXCEPT ![i] = reduce_q(a[i] + r_bhat(i) + r_not_bhat(i))]
    /\ r_acc' = [r_acc EXCEPT ![i] = r_acc[i - 1] + r_bhat(i)]
    /\ UNCHANGED <<given, r_sigma, b_bar_prime, masked, summed, out, clear>>

\* request_evaluation: the row and its FinalizeState are complete.
FinishRequest ==
    /\ Past("request") /\ pc' = "r_sigma_sum"
    /\ r_sigma' = reduce_q(r_acc[N])
    /\ b_bar_prime' = sub_delta(reduce_delta(r_sigma'), b_prime)
    /\ UNCHANGED <<given, e, r_acc, masked, summed, out, clear>>

\* r_sigma_sum: the server's mask, negated where the key's bit is 1.
SumMaskBroken ==
    /\ At("r_sigma_sum")
    /\ m_acc' = [m_acc EXCEPT ![i] = m_acc[i - 1] + r_b(i)]
    /\ UNCHANGED <<given, asked, r_sum, summed, out, clear>>
SumMask ==
    /\ At("r_sigma_sum")
    /\ m_acc' = [m_acc EXCEPT ![i] = m_acc[i - 1] + (IF sk[i] = 0 THEN r_b(i) ELSE sub_q(0, r_b(i)))]
    /\ UNCHANGED <<given, asked, r_sum, summed, out, clear>>

FinishMasksBroken ==
    /\ Past("r_sigma_sum") /\ pc' = "a_sigma_sum"
    /\ r_sum' = m_acc[N]
    /\ UNCHANGED <<given, asked, m_acc, summed, out, clear>>
FinishMasks ==
    /\ Past("r_sigma_sum") /\ pc' = "a_sigma_sum"
    /\ r_sum' = reduce_q(m_acc[N])
    /\ UNCHANGED <<given, asked, m_acc, summed, out, clear>>

\* a_sigma_sum: the coordinates where the key's bit is 1.
SumCoordinate ==
    /\ At("a_sigma_sum")
    /\ s_acc' = [s_acc EXCEPT ![i] = s_acc[i - 1] + (IF sk[i] = 0 THEN 0 ELSE e[i])]
    /\ UNCHANGED <<given, asked, masked, a_sum, y, out, clear>>

\* Then the response.
FinishBlindEval ==
    /\ Past("a_sigma_sum") /\ pc' = "finalize"
    /\ a_sum' = reduce_q(s_acc[N] + r_sum)
    /\ y' = respond(a_sum', pads, b_bar_prime)
    /\ UNCHANGED <<given, asked, masked, s_acc, out, clear>>

\* finalize_row.
FinalizeRow ==
    /\ pc = "finalize" /\ pc' = "evaluate"
    /\ LET low == reduce_delta(r_sigma)
       IN  out' = sub_p(sub_p(y[low], r_prime), (r_sigma - low) \div DELTA)
    /\ UNCHANGED <<i, given, asked, masked, summed, clear>>

\* inner_product, then evaluate_single_row.
InnerProduct ==
    /\ At("evaluate")
    /\ v_acc' = [v_acc EXCEPT ![i] = v_acc[i - 1] + a[i] * sk[i]]
    /\ UNCHANGED <<given, asked, masked, summed, out, prf>>

EvaluateSingleRow ==
    /\ Past("evaluate") /\ pc' = "done"
    /\ prf' = round_zq_to_zp(reduce_q(v_acc[N]))
    /\ UNCHANGED <<given, asked, masked, summed, out, v_acc>>

Next ==
    \/ MaskCoordinate \/ FinishRequest
    \/ SumMask \/ FinishMasks
    \/ SumCoordinate \/ FinishBlindEval
    \/ FinalizeRow
    \/ InnerProduct \/ EvaluateSingleRow

Spec == Init /\ [][Next]_vars

----------------------------------------------------------------------------
(* Properties.                                                             *)

Acc == [0 .. N -> Nat]

\* Every variable has its type; what the assertions of modular.rs and round.rs demand of their
\* operands (reduced mod q, p or DELTA) is part of it.
TypeOK ==
    /\ pc \in {"request", "r_sigma_sum", "a_sigma_sum", "finalize", "evaluate", "done"}
    /\ i \in 1 .. N + 1
    /\ sk \in [Coords -> Bit] /\ b \in [Coords -> Bit] /\ r \in [Coords -> [Bit -> Zq]]
    /\ b_prime \in Zdelta /\ pads \in [Zdelta -> Zp] /\ a \in [Coords -> Zq]
    /\ e \in [Coords -> Zq] /\ r_sigma \in Zq /\ b_bar_prime \in Zdelta
    /\ r_sum \in Zq /\ a_sum \in Zq /\ y \in [Zdelta -> Zp] /\ out \in Zp /\ prf \in Zp
    /\ r_acc \in Acc /\ m_acc \in Acc /\ s_acc \in Acc /\ v_acc \in Acc

\* The protocol computes the PRF: what the client unblinds is what the key holder computes in
\* the clear, for every key, choice, mask, pad and row, through every wrap and rounding tie.
RowCorrect == pc = "done" => out = prf

\* No sum overflows ZqAccum before it is reduced: three terms of a masked coordinate, N terms of
\* an accumulator, and in a_sigma_sum one more.
AccumulatorsFit ==
    /\ \A k \in Coords : a[k] + r_bhat(k) + r_not_bhat(k) <= ZqAccumMax
    /\ \A k \in 0 .. N : r_acc[k] <= ZqAccumMax /\ m_acc[k] <= ZqAccumMax
    /\ \A k \in 0 .. N : s_acc[k] + r_sum <= ZqAccumMax /\ v_acc[k] <= ZqAccumMax

\* Coordinate k went through the loop.
Consumed(loop, later, k) == pc \in later \/ (pc = loop /\ k < i)

\* The masks of the two sides cancel, coordinate by coordinate: what the server adds up is the
\* inner product plus the client's own masks, whichever mask of each pair either side holds.
MasksCancel ==
    \A k \in 0 .. N : Consumed("evaluate", {"done"}, k) =>
        reduce_q(s_acc[k] + m_acc[k]) = reduce_q(v_acc[k] + r_acc[k])

----------------------------------------------------------------------------
(* The inductive strengthening of RowCorrect and AccumulatorsFit: what     *)
(* each loop has computed when it is at coordinate i, and what follows it. *)

AfterRequest  == {"r_sigma_sum", "a_sigma_sum", "finalize", "evaluate", "done"}
AfterMasks    == {"a_sigma_sum", "finalize", "evaluate", "done"}
AfterSum      == {"finalize", "evaluate", "done"}
AfterFinalize == {"evaluate", "done"}

RequestInv ==
    /\ r_acc[0] = 0
    /\ \A k \in Coords : Consumed("request", AfterRequest, k) =>
          /\ e[k] = reduce_q(a[k] + r_bhat(k) + r_not_bhat(k))
          /\ r_acc[k] = r_acc[k - 1] + r_bhat(k)
    /\ pc \in AfterRequest =>
          /\ r_sigma = reduce_q(r_acc[N])
          /\ b_bar_prime = sub_delta(reduce_delta(r_sigma), b_prime)

MaskInv ==
    /\ m_acc[0] = 0
    /\ \A k \in Coords : Consumed("r_sigma_sum", AfterMasks, k) =>
          m_acc[k] = m_acc[k - 1] + (IF sk[k] = 0 THEN r_b(k) ELSE sub_q(0, r_b(k)))
    /\ pc \in AfterMasks => r_sum = reduce_q(m_acc[N])

SumInv ==
    /\ s_acc[0] = 0
    /\ \A k \in Coords : Consumed("a_sigma_sum", AfterSum, k) =>
          s_acc[k] = s_acc[k - 1] + (IF sk[k] = 0 THEN 0 ELSE e[k])
    /\ pc \in AfterSum => a_sum = reduce_q(s_acc[N] + r_sum) /\ y = respond(a_sum, pads, b_bar_prime)

OutInv ==
    /\ pc = "finalize" => i = 1
    /\ pc \in AfterFinalize =>
          out = sub_p(sub_p(y[reduce_delta(r_sigma)], r_prime),
                      (r_sigma - reduce_delta(r_sigma)) \div DELTA)
    /\ pc = "done" => prf = round_zq_to_zp(reduce_q(v_acc[N]))

\* An accumulator that took k terms is at most k times q - 1.
BoundInv ==
    \A k \in 0 .. N :
        /\ r_acc[k] <= k * (Q - 1) /\ m_acc[k] <= k * (Q - 1)
        /\ s_acc[k] <= k * (Q - 1) /\ v_acc[k] <= k * (Q - 1)

IInv ==
    /\ RequestInv /\ MaskInv /\ SumInv /\ OutInv /\ BoundInv
    /\ v_acc[0] = 0 /\ MasksCancel
=============================================================================
