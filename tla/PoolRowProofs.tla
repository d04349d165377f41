--------------------------- MODULE PoolRowProofs ---------------------------
(***************************************************************************)
(* Proofs about PoolRow: for every dimension, every pair of moduli and     *)
(* every key, mask, pad and row, the client's output is the PRF.           *)
(***************************************************************************)
EXTENDS PoolRow, MaterialProofs

----------------------------------------------------------------------------
(* Type correctness.                                                       *)

\* The bounds on masks, inputs and pads are subsets of the types.
LEMMA Bounds == Masks \subseteq Zq /\ Inputs \subseteq Zq /\ PadRows \subseteq [Zdelta -> Zp]
  BY RowAssumption

\* The values that a step computes at coordinate k are in their types.
LEMMA CoordinateTypes ==
    ASSUME TypeOK, NEW k \in Coords
    PROVE  /\ r_bhat(k) \in Zq /\ r_not_bhat(k) \in Zq /\ r_b(k) \in Zq /\ a[k] \in Zq
           /\ sk[k] \in Bit /\ e[k] \in Zq
           /\ sub_q(0, r_b(k)) \in Zq
<1>1. r[k] \in [Bit -> Zq] /\ b[k] \in Bit /\ sk[k] \in Bit /\ a[k] \in Zq /\ e[k] \in Zq
  BY DEF TypeOK
<1>2. bhat(k) \in Bit /\ 1 - bhat(k) \in Bit
  BY DEF bhat, Bit
<1>3. r_bhat(k) \in Zq /\ r_not_bhat(k) \in Zq /\ r_b(k) \in Zq
  BY <1>1, <1>2 DEF r_bhat, r_not_bhat, r_b
<1>4. 0 + Q - r_b(k) \in Int
  BY <1>3, RingNat, Moduli
<1>5. sub_q(0, r_b(k)) \in Zq
  BY <1>4, Reduced DEF sub_q
<1> QED BY <1>1, <1>3, <1>5

\* respond returns DELTA elements of Zp.
LEMMA RespondType ==
    ASSUME TypeOK, NEW x \in Zq, NEW c \in Zdelta
    PROVE  respond(x, pads, c) \in [Zdelta -> Zp]
<1> SUFFICES ASSUME NEW j \in Zdelta
             PROVE  add_p(rounded(x, j), pad(pads, j, c)) \in Zp
  BY DEF respond
<1>1. x \in Int /\ j \in Int /\ c \in Int
  BY RingNat
<1>2. sub_delta(j, c) \in Zdelta
  <2>1. j + DELTA - c \in Int
    BY <1>1, Moduli
  <2> QED BY <2>1, Moduli, DivMod DEF sub_delta, Zdelta
<1>3. pad(pads, j, c) \in Int
  <2>1. pad(pads, j, c) \in Zp
    BY <1>2 DEF pad, TypeOK
  <2> QED BY <2>1, RingNat
<1>4. rounded(x, j) \in Int
  <2> DEFINE z == sub_q(x, j)
  <2>1. x + Q - j \in Int
    BY <1>1, Moduli
  <2>2. z \in Int
    BY <2>1, Reduced, RingNat DEF sub_q
  <2> HIDE DEF z
  <2>3. round(z) \in Int
    BY <2>2, Moduli, DivMod DEF round
  <2>4. round_zq_to_zp(z) \in Int
    BY <2>3, Reduced, RingNat DEF round_zq_to_zp
  <2> QED BY <2>4 DEF rounded, z
<1>5. rounded(x, j) + pad(pads, j, c) \in Int
  BY <1>3, <1>4
<1> QED BY <1>5, Reduced DEF add_p

\* Every variable keeps its type, and every operand of the modular operations is reduced.
THEOREM RowType == Spec => []TypeOK
<1>1. Init => TypeOK
  <2> SUFFICES ASSUME Init PROVE TypeOK
    OBVIOUS
  <2>1. i \in 1 .. N + 1
    BY Moduli DEF Init
  <2>2. r \in [Coords -> [Bit -> Zq]] /\ a \in [Coords -> Zq] /\ pads \in [Zdelta -> Zp]
    BY Bounds DEF Init
  <2> QED BY <2>1, <2>2, Zeroes DEF Init, TypeOK, Acc
<1>2. TypeOK /\ [Next]_vars => TypeOK'
  <2> SUFFICES ASSUME TypeOK, [Next]_vars PROVE TypeOK'
    OBVIOUS
  <2>0. \A k \in Coords : k \in 0 .. N /\ k - 1 \in 0 .. N /\ k + 1 \in 1 .. N + 1
    BY Moduli DEF Coords
  <2>a. i \in Nat /\ (i <= N => i \in Coords) /\ 1 \in 1 .. N + 1
    BY Moduli DEF TypeOK, Coords
  <2>1. CASE MaskCoordinate
    <3>1. i \in Coords
      BY <2>1, <2>a DEF MaskCoordinate, At
    <3>2. a[i] + r_bhat(i) + r_not_bhat(i) \in Int /\ r_bhat(i) \in Nat
      BY <3>1, CoordinateTypes, RingNat
    <3>3. reduce_q(a[i] + r_bhat(i) + r_not_bhat(i)) \in Zq
      BY <3>2, Reduced
    <3>4. r_acc[i - 1] + r_bhat(i) \in Nat
      BY <3>1, <3>2, <2>0 DEF TypeOK, Acc
    <3>5. e' \in [Coords -> Zq] /\ r_acc' \in Acc
      BY <2>1, <3>3, <3>4 DEF MaskCoordinate, TypeOK, Acc
    <3> QED BY <2>1, <3>1, <3>5, <2>0 DEF MaskCoordinate, At, TypeOK, given, masked, summed, clear
  <2>2. CASE FinishRequest
    <3>1. r_acc[N] \in Int
      BY Moduli DEF TypeOK, Acc
    <3>2. r_sigma' \in Zq
      BY <2>2, <3>1, Reduced DEF FinishRequest
    <3>3. reduce_delta(r_sigma') + DELTA - b_prime \in Int
      <4>1. r_sigma' \in Int /\ b_prime \in Int
        BY <3>2, RingNat DEF TypeOK
      <4> QED BY <4>1, Reduced, RingNat, Moduli
    <3>4. b_bar_prime' \in Zdelta
      BY <2>2, <3>3, Moduli, DivMod DEF FinishRequest, sub_delta, Zdelta
    <3> QED BY <2>2, <2>a, <3>2, <3>4 DEF FinishRequest, Past, TypeOK, given, masked, summed, clear
  <2>3. CASE SumMask
    <3>1. i \in Coords
      BY <2>3, <2>a DEF SumMask, At
    <3>2. r_b(i) \in Nat /\ sub_q(0, r_b(i)) \in Nat
      BY <3>1, CoordinateTypes, RingNat
    <3>3. m_acc[i - 1] + (IF sk[i] = 0 THEN r_b(i) ELSE sub_q(0, r_b(i))) \in Nat
      BY <3>1, <3>2, <2>0 DEF TypeOK, Acc
    <3>4. m_acc' \in Acc
      BY <2>3, <3>3 DEF SumMask, TypeOK, Acc
    <3> QED BY <2>3, <3>1, <3>4, <2>0 DEF SumMask, At, TypeOK, given, asked, summed, clear
  <2>4. CASE FinishMasks
    <3>1. m_acc[N] \in Int
      BY Moduli DEF TypeOK, Acc
    <3>2. r_sum' \in Zq
      BY <2>4, <3>1, Reduced DEF FinishMasks
    <3> QED BY <2>4, <2>a, <3>2 DEF FinishMasks, Past, TypeOK, given, asked, summed, clear
  <2>5. CASE SumCoordinate
    <3>1. i \in Coords
      BY <2>5, <2>a DEF SumCoordinate, At
    <3>2. e[i] \in Nat
      BY <3>1, CoordinateTypes, RingNat
    <3>3. s_acc[i - 1] + (IF sk[i] = 0 THEN 0 ELSE e[i]) \in Nat
      BY <3>1, <3>2, <2>0 DEF TypeOK, Acc
    <3>4. s_acc' \in Acc
      BY <2>5, <3>3 DEF SumCoordinate, TypeOK, Acc
    <3> QED BY <2>5, <3>1, <3>4, <2>0 DEF SumCoordinate, At, TypeOK, given, asked, masked, clear
  <2>6. CASE FinishBlindEval
    <3>1. s_acc[N] + r_sum \in Int
      <4>1. s_acc[N] \in Nat /\ r_sum \in Nat
        BY Moduli, RingNat DEF TypeOK, Acc
      <4> QED BY <4>1
    <3>2. a_sum' \in Zq
      BY <2>6, <3>1, Reduced DEF FinishBlindEval
    <3>3. respond(reduce_q(s_acc[N] + r_sum), pads, b_bar_prime) \in [Zdelta -> Zp]
      <4>1. reduce_q(s_acc[N] + r_sum) \in Zq /\ b_bar_prime \in Zdelta
        BY <3>1, Reduced DEF TypeOK
      <4> QED BY <4>1, RespondType
    <3>4. y' \in [Zdelta -> Zp]
      BY <2>6, <3>3 DEF FinishBlindEval, respond, pad, given
    <3> QED BY <2>6, <2>a, <3>2, <3>4 DEF FinishBlindEval, Past, TypeOK, given, asked, masked, clear
  <2>7. CASE FinalizeRow
    <3> DEFINE low == reduce_delta(r_sigma)
               v   == sub_p(y[low], r_prime)
               h   == (r_sigma - low) \div DELTA
    <3>1. low \in Zdelta /\ r_sigma \in Int
      BY Reduced, RingNat DEF TypeOK
    <3>2. low \in Int /\ y[low] \in Int /\ r_prime \in Int
      BY <3>1, RingNat DEF TypeOK, r_prime
    <3>3. y[low] + P - r_prime \in Int
      BY <3>2, Moduli
    <3>4. v \in Int
      BY <3>3, Reduced, RingNat DEF sub_p
    <3>5. r_sigma - low \in Int
      BY <3>1, <3>2
    <3>6. h \in Int
      BY <3>5, Moduli, DivMod
    <3> HIDE DEF low, v, h
    <3>7. v + P - h \in Int
      BY <3>4, <3>6, Moduli
    <3>8. sub_p(v, h) \in Zp
      BY <3>7, Reduced DEF sub_p
    <3>9. out' \in Zp
      BY <2>7, <3>8 DEF FinalizeRow, low, v, h
    <3> QED BY <2>7, <3>9 DEF FinalizeRow, TypeOK, given, asked, masked, summed, clear
  <2>8. CASE InnerProduct
    <3>1. i \in Coords
      BY <2>8, <2>a DEF InnerProduct, At
    <3>2. a[i] \in Nat /\ sk[i] \in {0, 1}
      BY <3>1, CoordinateTypes, RingNat DEF Bit
    <3>3. a[i] * sk[i] \in Nat
      BY <3>2
    <3>4. v_acc[i - 1] + a[i] * sk[i] \in Nat
      BY <3>1, <3>3, <2>0 DEF TypeOK, Acc
    <3>5. v_acc' \in Acc
      BY <2>8, <3>4 DEF InnerProduct, TypeOK, Acc
    <3> QED BY <2>8, <3>1, <3>5, <2>0 DEF InnerProduct, At, TypeOK, given, asked, masked, summed
  <2>9. CASE EvaluateSingleRow
    <3> DEFINE v == reduce_q(v_acc[N])
    <3>1. v_acc[N] \in Int
      BY Moduli DEF TypeOK, Acc
    <3>2. v \in Int
      BY <3>1, Reduced, RingNat
    <3> HIDE DEF v
    <3>3. round(v) \in Int
      BY <3>2, Moduli, DivMod DEF round
    <3>4. prf' \in Zp
      BY <2>9, <3>3, Reduced DEF EvaluateSingleRow, round_zq_to_zp, v
    <3> QED BY <2>9, <2>a, <3>4 DEF EvaluateSingleRow, Past, TypeOK, given, asked, masked, summed
  <2>10. CASE UNCHANGED vars
    BY <2>10 DEF vars, TypeOK, given, asked, masked, summed, clear
  <2> QED BY <2>1, <2>2, <2>3, <2>4, <2>5, <2>6, <2>7, <2>8, <2>9, <2>10 DEF Next
<1> QED BY <1>1, <1>2, PTL DEF Spec

----------------------------------------------------------------------------
(* The inductive invariant.                                                *)

\* One coordinate: what the server adds is the term of the inner product plus the client's mask.
LEMMA CoordinateCancels ==
    ASSUME TypeOK, NEW k \in Coords, e[k] = reduce_q(a[k] + r_bhat(k) + r_not_bhat(k))
    PROVE  Cong((IF sk[k] = 0 THEN 0 ELSE e[k]) + (IF sk[k] = 0 THEN r_b(k) ELSE sub_q(0, r_b(k))),
                a[k] * sk[k] + r_bhat(k), Q)
<1>1. /\ r_bhat(k) \in Int /\ r_not_bhat(k) \in Int /\ r_b(k) \in Int /\ a[k] \in Int
      /\ e[k] \in Int /\ sub_q(0, r_b(k)) \in Int
  BY CoordinateTypes, RingNat
<1>2. sk[k] \in {0, 1} /\ b[k] \in {0, 1}
  BY DEF TypeOK, Bit
<1>3. CASE sk[k] = 0
  <2>1. r_bhat(k) = r_b(k)
    BY <1>2, <1>3 DEF r_bhat, r_b, bhat
  <2>2. 0 + r_b(k) = (a[k] * sk[k] + r_bhat(k)) + 0 * Q
    BY <1>1, <1>3, <2>1, Moduli
  <2> QED BY <1>3, <2>2 DEF Cong
<1>4. CASE sk[k] = 1
  <2>1. r_not_bhat(k) = r_b(k)
    BY <1>2, <1>4 DEF r_not_bhat, r_b, bhat
  <2>2. PICK c \in Int : e[k] = a[k] + r_bhat(k) + r_b(k) + c * Q
    <3>1. a[k] + r_bhat(k) + r_b(k) \in Int
      BY <1>1
    <3>2. Cong(e[k], a[k] + r_bhat(k) + r_b(k), Q)
      BY <2>1, <3>1, Moduli, ModCong DEF reduce_q
    <3> QED BY <3>2 DEF Cong
  <2>3. PICK d \in Int : sub_q(0, r_b(k)) = 0 + Q - r_b(k) + d * Q
    <3>1. 0 + Q - r_b(k) \in Int
      BY <1>1, Moduli
    <3> QED BY <3>1, Moduli, ModCong DEF Cong, sub_q, reduce_q
  <2>4. e[k] + sub_q(0, r_b(k)) = (a[k] * sk[k] + r_bhat(k)) + (c + d + 1) * Q
    BY <1>1, <1>4, <2>2, <2>3, Moduli
  <2>5. c + d + 1 \in Int
    OBVIOUS
  <2> QED BY <1>4, <2>4, <2>5 DEF Cong
<1> QED BY <1>2, <1>3, <1>4

\* The stages as sets.
LEMMA Stages ==
    /\ AfterRequest = {"r_sigma_sum"} \union AfterMasks /\ AfterMasks = {"a_sigma_sum"} \union AfterSum
    /\ AfterSum = {"finalize"} \union AfterFinalize /\ AfterFinalize = {"evaluate", "done"}
    /\ "request" \notin AfterRequest /\ "r_sigma_sum" \notin AfterMasks
    /\ "a_sigma_sum" \notin AfterSum /\ "finalize" \notin AfterFinalize
  BY DEF AfterRequest, AfterMasks, AfterSum, AfterFinalize

\* Steps after the request keep what it computed.
LEMMA KeepRequest ==
    ASSUME RequestInv, UNCHANGED <<given, asked>>, pc \in AfterRequest, pc' \in AfterRequest
    PROVE  RequestInv'
  BY DEF RequestInv, Consumed, given, asked, r_bhat, r_not_bhat, bhat, reduce_q, reduce_delta, sub_delta

\* Steps before or after r_sigma_sum keep what it computed.
LEMMA KeepMask ==
    ASSUME MaskInv, UNCHANGED <<given, masked>>,
           \/ pc \in AfterMasks /\ pc' \in AfterMasks
           \/ pc' \notin AfterMasks /\ (pc' = "r_sigma_sum" => i' = 1)
    PROVE  MaskInv'
<1>1. \A k \in Coords : ~ (k < 1)
  BY Moduli DEF Coords
<1> QED BY <1>1 DEF MaskInv, Consumed, given, masked, r_b, sub_q, reduce_q

\* Steps before or after a_sigma_sum keep what it computed.
LEMMA KeepSum ==
    ASSUME SumInv, UNCHANGED <<given, masked, summed>>,
           \/ pc \in AfterSum /\ pc' \in AfterSum /\ UNCHANGED asked
           \/ pc' \notin AfterSum /\ (pc' = "a_sigma_sum" => i' = 1)
    PROVE  SumInv'
<1>1. \A k \in Coords : ~ (k < 1)
  BY Moduli DEF Coords
<1> QED
  BY <1>1 DEF SumInv, Consumed, given, masked, summed, asked, reduce_q, respond, rounded, pad,
              add_p, reduce_p, round_zq_to_zp, round, sub_q, sub_delta

\* Steps before finalize and after it keep OutInv.
LEMMA KeepOut ==
    ASSUME OutInv,
           \/ pc' \notin AfterFinalize /\ (pc' = "finalize" => i' = 1)
           \/ pc \in AfterFinalize /\ pc' = "evaluate" /\ UNCHANGED <<given, asked, summed, out>>
           \/ pc = "done" /\ pc' = "done" /\ UNCHANGED <<given, asked, summed, out, clear>>
    PROVE  OutInv'
  BY DEF OutInv, AfterFinalize, given, asked, summed, clear, r_prime, reduce_delta, sub_p, reduce_p,
         round_zq_to_zp, round, reduce_q

\* An accumulator that takes one more term of Zq keeps its bound.
LEMMA AccBound ==
    ASSUME NEW acc \in Acc, NEW k \in Coords, NEW x \in Zq,
           \A j \in 0 .. N : acc[j] <= j * (Q - 1)
    PROVE  \A j \in 0 .. N : [acc EXCEPT ![k] = acc[k - 1] + x][j] <= j * (Q - 1)
<1>1. k \in 0 .. N /\ k - 1 \in 0 .. N /\ k \in Int
  BY Moduli DEF Coords
<1>2. acc[k - 1] <= (k - 1) * (Q - 1) /\ acc[k - 1] \in Nat
  BY <1>1 DEF Acc
<1>3. x <= Q - 1 /\ x \in Nat /\ Q \in Nat
  BY RingNat, Moduli
<1>4. (k - 1) * (Q - 1) = k * (Q - 1) - (Q - 1) /\ k * (Q - 1) \in Int
  BY <1>1, <1>3
<1>5. acc[k - 1] + x <= k * (Q - 1)
  <2> DEFINE f == k * (Q - 1)
             g == (k - 1) * (Q - 1)
  <2>1. f \in Int /\ g = f - (Q - 1) /\ acc[k - 1] <= g
    BY <1>2, <1>4
  <2> HIDE DEF f, g
  <2>2. acc[k - 1] + x <= f
    BY <2>1, <1>2, <1>3
  <2> QED BY <2>2 DEF f
<1> QED BY <1>1, <1>5 DEF Acc

\* The accumulators stay in their bounds.
LEMMA BoundStep ==
    ASSUME TypeOK, BoundInv, [Next]_vars
    PROVE  BoundInv'
<1>0. r_acc \in Acc /\ m_acc \in Acc /\ s_acc \in Acc /\ v_acc \in Acc
  BY DEF TypeOK
<1>a. i <= N => i \in Coords
  BY Moduli DEF TypeOK, Coords
<1>1. CASE MaskCoordinate
  <2>1. i \in Coords /\ r_bhat(i) \in Zq
    BY <1>1, <1>a, CoordinateTypes DEF MaskCoordinate, At
  <2>2. \A j \in 0 .. N : r_acc'[j] <= j * (Q - 1)
    BY <1>1, <1>0, <2>1, AccBound DEF MaskCoordinate, BoundInv
  <2> QED BY <1>1, <2>2 DEF MaskCoordinate, BoundInv, masked, summed, clear
<1>2. CASE SumMask
  <2> DEFINE x == IF sk[i] = 0 THEN r_b(i) ELSE sub_q(0, r_b(i))
  <2>1. i \in Coords /\ x \in Zq
    BY <1>2, <1>a, CoordinateTypes DEF SumMask, At
  <2>2. m_acc' = [m_acc EXCEPT ![i] = m_acc[i - 1] + x]
    BY <1>2 DEF SumMask
  <2> HIDE DEF x
  <2>3. \A j \in 0 .. N : m_acc'[j] <= j * (Q - 1)
    BY <1>0, <2>1, <2>2, AccBound DEF BoundInv
  <2> QED BY <1>2, <2>3 DEF SumMask, BoundInv, asked, summed, clear
<1>3. CASE SumCoordinate
  <2> DEFINE x == IF sk[i] = 0 THEN 0 ELSE e[i]
  <2>1. i \in Coords /\ x \in Zq
    BY <1>3, <1>a, CoordinateTypes, Zeroes DEF SumCoordinate, At
  <2>2. s_acc' = [s_acc EXCEPT ![i] = s_acc[i - 1] + x]
    BY <1>3 DEF SumCoordinate
  <2> HIDE DEF x
  <2>3. \A j \in 0 .. N : s_acc'[j] <= j * (Q - 1)
    BY <1>0, <2>1, <2>2, AccBound DEF BoundInv
  <2> QED BY <1>3, <2>3 DEF SumCoordinate, BoundInv, asked, masked, clear
<1>4. CASE InnerProduct
  <2> DEFINE x == a[i] * sk[i]
  <2>1. i \in Coords
    BY <1>4, <1>a DEF InnerProduct, At
  <2>2. x \in Zq
    <3>1. a[i] \in Zq /\ a[i] \in Nat /\ sk[i] \in {0, 1}
      BY <2>1, CoordinateTypes, RingNat DEF Bit
    <3>2. x = 0 \/ x = a[i]
      BY <3>1
    <3> QED BY <3>1, <3>2, Zeroes
  <2>3. v_acc' = [v_acc EXCEPT ![i] = v_acc[i - 1] + x]
    BY <1>4 DEF InnerProduct
  <2> HIDE DEF x
  <2>4. \A j \in 0 .. N : v_acc'[j] <= j * (Q - 1)
    BY <1>0, <2>1, <2>2, <2>3, AccBound DEF BoundInv
  <2> QED BY <1>4, <2>4 DEF InnerProduct, BoundInv, asked, masked, summed
<1>5. ASSUME UNCHANGED <<r_acc, m_acc, s_acc, v_acc>> PROVE BoundInv'
  BY <1>5 DEF BoundInv
<1> QED
  BY <1>1, <1>2, <1>3, <1>4, <1>5 DEF Next, vars, asked, masked, summed, clear, FinishRequest,
     FinishMasks, FinishBlindEval, FinalizeRow, EvaluateSingleRow

\* The steps of the loop that evaluates in the clear extend MasksCancel by a coordinate.
LEMMA CancelStep ==
    ASSUME TypeOK, RequestInv, MaskInv, SumInv, MasksCancel, InnerProduct
    PROVE  MasksCancel'
<1>1. pc = "evaluate" /\ pc' = "evaluate" /\ i' = i + 1 /\ i \in Coords
  BY Moduli DEF InnerProduct, At, TypeOK, Coords
<1>2. i \in Int /\ i \in 0 .. N /\ i - 1 \in 0 .. N /\ i - 1 < i
  BY <1>1, Moduli DEF Coords
<1> DEFINE sx == IF sk[i] = 0 THEN 0 ELSE e[i]
           mx == IF sk[i] = 0 THEN r_b(i) ELSE sub_q(0, r_b(i))
           vx == a[i] * sk[i]
           rx == r_bhat(i)
<1>3. e[i] = reduce_q(a[i] + r_bhat(i) + r_not_bhat(i)) /\ r_acc[i] = r_acc[i - 1] + rx
  BY <1>1 DEF RequestInv, Consumed, AfterRequest
<1>4. m_acc[i] = m_acc[i - 1] + mx
  BY <1>1 DEF MaskInv, Consumed, AfterMasks
<1>5. s_acc[i] = s_acc[i - 1] + sx
  BY <1>1 DEF SumInv, Consumed, AfterSum
<1>6. v_acc'[i] = v_acc[i - 1] + vx /\ \A k \in 0 .. N : k # i => v_acc'[k] = v_acc[k]
  BY <1>2 DEF InnerProduct, TypeOK, Acc
<1>7. Cong(sx + mx, vx + rx, Q)
  BY <1>1, <1>3, CoordinateCancels
<1>8. sx \in Int /\ mx \in Int /\ vx \in Int /\ rx \in Int
  <2>1. /\ e[i] \in Int /\ r_b(i) \in Int /\ sub_q(0, r_b(i)) \in Int /\ a[i] \in Int
        /\ sk[i] \in {0, 1} /\ r_bhat(i) \in Int
    BY <1>1, CoordinateTypes, RingNat DEF Bit
  <2> QED BY <2>1
<1> HIDE DEF sx, mx, vx, rx
<1> DEFINE s0 == s_acc[i - 1]
           m0 == m_acc[i - 1]
           v0 == v_acc[i - 1]
           r0 == r_acc[i - 1]
<1>9. s0 \in Int /\ m0 \in Int /\ v0 \in Int /\ r0 \in Int
  BY <1>2 DEF TypeOK, Acc
<1>10. reduce_q(s0 + m0) = reduce_q(v0 + r0)
  BY <1>1, <1>2 DEF MasksCancel, Consumed
<1> HIDE DEF s0, m0, v0, r0
<1>11. Cong(s0 + m0, v0 + r0, Q)
  <2>1. s0 + m0 \in Int /\ v0 + r0 \in Int
    BY <1>9
  <2> QED BY <2>1, <1>10, Moduli, ModEqual DEF reduce_q
<1>12. Cong((s0 + m0) + (sx + mx), (v0 + r0) + (vx + rx), Q)
  <2>1. s0 + m0 \in Int /\ v0 + r0 \in Int /\ sx + mx \in Int /\ vx + rx \in Int
    BY <1>8, <1>9
  <2> QED BY <2>1, <1>7, <1>11, Moduli, CongAdd
<1>13. reduce_q((s0 + sx) + (m0 + mx)) = reduce_q((v0 + vx) + (r0 + rx))
  <2>1. /\ (s0 + m0) + (sx + mx) = (s0 + sx) + (m0 + mx)
        /\ (v0 + r0) + (vx + rx) = (v0 + vx) + (r0 + rx)
        /\ (s0 + sx) + (m0 + mx) \in Int /\ (v0 + vx) + (r0 + rx) \in Int
    BY <1>8, <1>9
  <2> QED BY <2>1, <1>12, Moduli, CongMod DEF reduce_q
<1>14. reduce_q(s_acc[i] + m_acc[i]) = reduce_q(v_acc'[i] + r_acc[i])
  BY <1>3, <1>4, <1>5, <1>6, <1>13 DEF s0, m0, v0, r0
<1>15. ASSUME NEW k \in 0 .. N, Consumed("evaluate", {"done"}, k)'
       PROVE  reduce_q(s_acc[k] + m_acc[k]) = reduce_q(v_acc'[k] + r_acc[k])
  <2>1. k < i + 1 /\ k \in Int
    BY <1>15, <1>1 DEF Consumed
  <2>2. CASE k = i
    BY <2>2, <1>14
  <2>3. CASE k # i
    <3>1. k < i
      BY <2>1, <2>3, <1>2
    <3> QED BY <3>1, <2>3, <1>1, <1>6 DEF MasksCancel, Consumed
  <2> QED BY <2>2, <2>3
<1>16. UNCHANGED <<s_acc, m_acc, r_acc>>
  BY DEF InnerProduct, asked, masked, summed
<1> QED BY <1>15, <1>16 DEF MasksCancel, reduce_q

\* The invariant holds initially.
LEMMA RowInvInit == Init => IInv
<1> SUFFICES ASSUME Init PROVE IInv
  OBVIOUS
<1>1. \A k \in Coords : ~ (k < 1)
  BY Moduli DEF Coords
<1>2. 0 \in 0 .. N
  BY Moduli
<1>3. RequestInv /\ MaskInv /\ SumInv /\ OutInv /\ v_acc[0] = 0 /\ MasksCancel
  BY <1>1, <1>2 DEF Init, RequestInv, MaskInv, SumInv, OutInv, MasksCancel, Consumed,
     AfterRequest, AfterMasks, AfterSum, AfterFinalize
<1>4. BoundInv
  <2>1. \A k \in 0 .. N : 0 <= k * (Q - 1)
    BY Moduli
  <2> QED BY <2>1 DEF Init, BoundInv
<1> QED BY <1>3, <1>4 DEF IInv

\* Every step keeps it.
LEMMA RowInvStep == TypeOK /\ IInv /\ [Next]_vars => IInv'
<1> SUFFICES ASSUME TypeOK, IInv, [Next]_vars PROVE IInv'
  OBVIOUS
<1>0. RequestInv /\ MaskInv /\ SumInv /\ OutInv /\ BoundInv /\ v_acc[0] = 0 /\ MasksCancel
  BY DEF IInv
<1>a. BoundInv'
  BY <1>0, BoundStep
<1>b. i \in Int /\ N \in Int /\ \A k \in Coords : k \in Int /\ k <= N /\ k # 0 /\ k \in 0 .. N /\ k - 1 \in 0 .. N
  BY Moduli DEF TypeOK, Coords
<1>c. 0 \in 0 .. N /\ (i <= N => i \in Coords) /\ \A k \in 0 .. N : k \in Int /\ k <= N /\ (k < 1 => k = 0)
  BY Moduli DEF TypeOK, Coords
<1>d. (pc' \notin {"evaluate", "done"}) => MasksCancel'
  BY DEF MasksCancel, Consumed
<1>1. CASE MaskCoordinate
  <2>1. pc = "request" /\ pc' = "request" /\ i' = i + 1 /\ i \in Coords
    BY <1>1, <1>c DEF MaskCoordinate, At
  <2>2. UNCHANGED <<given, masked, summed, out, clear>>
    BY <1>1 DEF MaskCoordinate
  <2>3. RequestInv'
    <3>1. /\ e' = [e EXCEPT ![i] = reduce_q(a[i] + r_bhat(i) + r_not_bhat(i))]
          /\ r_acc' = [r_acc EXCEPT ![i] = r_acc[i - 1] + r_bhat(i)]
      BY <1>1 DEF MaskCoordinate
    <3>2. r_acc'[0] = 0
      BY <1>0, <1>b, <1>c, <2>1, <3>1 DEF RequestInv, TypeOK, Acc
    <3>3. ASSUME NEW k \in Coords, k < i + 1
          PROVE  /\ e'[k] = reduce_q(a[k] + r_bhat(k) + r_not_bhat(k))
                 /\ r_acc'[k] = r_acc'[k - 1] + r_bhat(k)
      <4>1. k \in Int /\ k \in 0 .. N /\ k - 1 \in 0 .. N /\ k - 1 # i
        BY <1>b, <3>3
      <4>2. CASE k = i
        BY <4>1, <4>2, <2>1, <3>1 DEF TypeOK, Acc
      <4>3. CASE k # i
        <5>1. k < i
          BY <4>1, <4>3, <3>3, <1>b
        <5> QED BY <1>0, <4>1, <4>3, <5>1, <2>1, <3>1 DEF RequestInv, Consumed, TypeOK, Acc
      <4> QED BY <4>2, <4>3
    <3>4. \A k : r_bhat(k)' = r_bhat(k) /\ r_not_bhat(k)' = r_not_bhat(k)
      BY <2>2 DEF given, r_bhat, r_not_bhat, bhat
    <3>5. "request" \notin AfterRequest /\ a' = a
      BY <2>2, Stages DEF given
    <3> QED BY <2>1, <3>2, <3>3, <3>4, <3>5 DEF RequestInv, Consumed, reduce_q
  <2>4. MaskInv' /\ SumInv' /\ OutInv'
    <3>1. pc' \notin AfterMasks /\ pc' \notin AfterSum /\ pc' \notin AfterFinalize
      BY <2>1 DEF AfterMasks, AfterSum, AfterFinalize
    <3>2. pc' # "r_sigma_sum" /\ pc' # "a_sigma_sum" /\ pc' # "finalize"
      BY <2>1
    <3>3. MaskInv'
      BY <1>0, <2>2, <3>1, <3>2, KeepMask
    <3>4. SumInv'
      BY <1>0, <2>2, <3>1, <3>2, KeepSum
    <3>5. OutInv'
      BY <1>0, <3>1, <3>2, KeepOut
    <3> QED BY <3>3, <3>4, <3>5
  <2> QED BY <1>0, <1>a, <1>d, <2>1, <2>2, <2>3, <2>4 DEF IInv, clear
<1>2. CASE FinishRequest
  <2>1. pc = "request" /\ pc' = "r_sigma_sum" /\ i' = 1 /\ i > N
    BY <1>2 DEF FinishRequest, Past
  <2>2. UNCHANGED <<given, e, r_acc, masked, summed, out, clear>>
    BY <1>2 DEF FinishRequest
  <2>3. RequestInv'
    <3>1. \A k \in Coords : k < i
      BY <1>b, <2>1
    <3>2. \A k : r_bhat(k)' = r_bhat(k) /\ r_not_bhat(k)' = r_not_bhat(k)
      BY <2>2 DEF given, r_bhat, r_not_bhat, bhat
    <3>3. r_sigma' = reduce_q(r_acc[N]) /\ b_bar_prime' = sub_delta(reduce_delta(r_sigma'), b_prime)
      BY <1>2 DEF FinishRequest
    <3> QED BY <1>0, <2>1, <2>2, <3>1, <3>2, <3>3 DEF RequestInv, Consumed, given, reduce_q, reduce_delta, sub_delta
  <2>4. MaskInv' /\ SumInv' /\ OutInv'
    <3>1. pc' \notin AfterMasks /\ pc' \notin AfterSum /\ pc' \notin AfterFinalize
      BY <2>1 DEF AfterMasks, AfterSum, AfterFinalize
    <3>2. pc' # "a_sigma_sum" /\ pc' # "finalize"
      BY <2>1
    <3>3. MaskInv'
      BY <1>0, <2>1, <2>2, <3>1, KeepMask
    <3>4. SumInv'
      BY <1>0, <2>2, <3>1, <3>2, KeepSum
    <3>5. OutInv'
      BY <1>0, <3>1, <3>2, KeepOut
    <3> QED BY <3>3, <3>4, <3>5
  <2> QED BY <1>0, <1>a, <1>d, <2>1, <2>2, <2>3, <2>4 DEF IInv, clear
<1>3. CASE SumMask
  <2>1. pc = "r_sigma_sum" /\ pc' = "r_sigma_sum" /\ i' = i + 1 /\ i \in Coords
    BY <1>3, <1>c DEF SumMask, At
  <2>2. UNCHANGED <<given, asked, r_sum, summed, out, clear>>
    BY <1>3 DEF SumMask
  <2>3. RequestInv'
    <3>1. pc \in AfterRequest /\ pc' \in AfterRequest
      BY <2>1 DEF AfterRequest
    <3> QED BY <1>0, <2>2, <3>1, KeepRequest
  <2>4. MaskInv'
    <3> DEFINE x(k) == IF sk[k] = 0 THEN r_b(k) ELSE sub_q(0, r_b(k))
    <3>1. m_acc' = [m_acc EXCEPT ![i] = m_acc[i - 1] + x(i)]
      BY <1>3 DEF SumMask
    <3>2. \A k \in Coords : k < i => m_acc[k] = m_acc[k - 1] + x(k)
      BY <1>0, <2>1 DEF MaskInv, Consumed
    <3>3. \A k : x(k)' = x(k)
      BY <2>2 DEF given, r_b, sub_q, reduce_q
    <3> HIDE DEF x
    <3>4. m_acc'[0] = 0
      BY <1>0, <1>b, <1>c, <2>1, <3>1 DEF MaskInv, TypeOK, Acc
    <3>5. ASSUME NEW k \in Coords, k < i + 1
          PROVE  m_acc'[k] = m_acc'[k - 1] + x(k)
      <4>1. k \in Int /\ k \in 0 .. N /\ k - 1 \in 0 .. N /\ k - 1 # i
        BY <1>b, <3>5
      <4>2. CASE k = i
        BY <4>1, <4>2, <2>1, <3>1 DEF TypeOK, Acc
      <4>3. CASE k # i
        <5>1. k < i
          BY <4>1, <4>3, <3>5, <1>b
        <5> QED BY <3>2, <4>1, <4>3, <5>1, <2>1, <3>1 DEF TypeOK, Acc
      <4> QED BY <4>2, <4>3
    <3>6. "r_sigma_sum" \notin AfterMasks
      BY Stages
    <3>7. \A k \in Coords : k < i' => m_acc'[k] = m_acc'[k - 1] + x(k)'
      BY <2>1, <3>3, <3>5
    <3> QED BY <2>1, <3>4, <3>6, <3>7 DEF MaskInv, Consumed, x
  <2>5. SumInv' /\ OutInv'
    <3>1. pc' \notin AfterSum /\ pc' \notin AfterFinalize /\ pc' # "a_sigma_sum" /\ pc' # "finalize"
      BY <2>1 DEF AfterSum, AfterFinalize
    <3>2. SumInv'
      BY <1>0, <2>1, <2>2, <3>1 DEF SumInv, Consumed, summed
    <3>3. OutInv'
      BY <1>0, <3>1, KeepOut
    <3> QED BY <3>2, <3>3
  <2> QED BY <1>0, <1>a, <1>d, <2>1, <2>2, <2>3, <2>4, <2>5 DEF IInv, clear
<1>4. CASE FinishMasks
  <2>1. pc = "r_sigma_sum" /\ pc' = "a_sigma_sum" /\ i' = 1 /\ i > N
    BY <1>4 DEF FinishMasks, Past
  <2>2. UNCHANGED <<given, asked, m_acc, summed, out, clear>>
    BY <1>4 DEF FinishMasks
  <2>3. RequestInv'
    <3>1. pc \in AfterRequest /\ pc' \in AfterRequest
      BY <2>1 DEF AfterRequest
    <3> QED BY <1>0, <2>2, <3>1, KeepRequest
  <2>4. MaskInv'
    <3>1. \A k \in Coords : k < i
      BY <1>b, <2>1
    <3>2. \A k : r_b(k)' = r_b(k) /\ sub_q(0, r_b(k))' = sub_q(0, r_b(k))
      BY <2>2 DEF given, r_b, sub_q, reduce_q
    <3>3. r_sum' = reduce_q(m_acc[N])
      BY <1>4 DEF FinishMasks
    <3> QED BY <1>0, <2>1, <2>2, <3>1, <3>2, <3>3 DEF MaskInv, Consumed, given, reduce_q
  <2>5. SumInv' /\ OutInv'
    <3>1. pc' \notin AfterSum /\ pc' \notin AfterFinalize /\ pc' # "finalize"
      BY <2>1 DEF AfterSum, AfterFinalize
    <3>2. \A k \in Coords : ~ (k < 1)
      BY Moduli DEF Coords
    <3>3. SumInv'
      BY <1>0, <2>1, <2>2, <3>1, <3>2 DEF SumInv, Consumed, summed
    <3>4. OutInv'
      BY <1>0, <3>1, KeepOut
    <3> QED BY <3>3, <3>4
  <2> QED BY <1>0, <1>a, <1>d, <2>1, <2>2, <2>3, <2>4, <2>5 DEF IInv, clear
<1>5. CASE SumCoordinate
  <2>1. pc = "a_sigma_sum" /\ pc' = "a_sigma_sum" /\ i' = i + 1 /\ i \in Coords
    BY <1>5, <1>c DEF SumCoordinate, At
  <2>2. UNCHANGED <<given, asked, masked, a_sum, y, out, clear>>
    BY <1>5 DEF SumCoordinate
  <2>3. RequestInv' /\ MaskInv'
    <3>1. pc \in AfterRequest /\ pc' \in AfterRequest /\ pc \in AfterMasks /\ pc' \in AfterMasks
      BY <2>1 DEF AfterRequest, AfterMasks
    <3> QED BY <1>0, <2>2, <3>1, KeepRequest, KeepMask
  <2>4. SumInv'
    <3> DEFINE x(k) == IF sk[k] = 0 THEN 0 ELSE e[k]
    <3>1. s_acc' = [s_acc EXCEPT ![i] = s_acc[i - 1] + x(i)]
      BY <1>5 DEF SumCoordinate
    <3>2. \A k \in Coords : k < i => s_acc[k] = s_acc[k - 1] + x(k)
      BY <1>0, <2>1 DEF SumInv, Consumed
    <3>3. \A k : x(k)' = x(k)
      BY <2>2 DEF given, asked
    <3> HIDE DEF x
    <3>4. s_acc'[0] = 0
      BY <1>0, <1>b, <1>c, <2>1, <3>1 DEF SumInv, TypeOK, Acc
    <3>5. ASSUME NEW k \in Coords, k < i + 1
          PROVE  s_acc'[k] = s_acc'[k - 1] + x(k)
      <4>1. k \in Int /\ k \in 0 .. N /\ k - 1 \in 0 .. N /\ k - 1 # i
        BY <1>b, <3>5
      <4>2. CASE k = i
        BY <4>1, <4>2, <2>1, <3>1 DEF TypeOK, Acc
      <4>3. CASE k # i
        <5>1. k < i
          BY <4>1, <4>3, <3>5, <1>b
        <5> QED BY <3>2, <4>1, <4>3, <5>1, <2>1, <3>1 DEF TypeOK, Acc
      <4> QED BY <4>2, <4>3
    <3>6. "a_sigma_sum" \notin AfterSum
      BY Stages
    <3>7. \A k \in Coords : k < i' => s_acc'[k] = s_acc'[k - 1] + x(k)'
      BY <2>1, <3>3, <3>5
    <3> QED BY <2>1, <3>4, <3>6, <3>7 DEF SumInv, Consumed, x
  <2>5. OutInv'
    <3>1. pc' \notin AfterFinalize /\ pc' # "finalize"
      BY <2>1 DEF AfterFinalize
    <3> QED BY <1>0, <3>1, KeepOut
  <2> QED BY <1>0, <1>a, <1>d, <2>1, <2>2, <2>3, <2>4, <2>5 DEF IInv, clear
<1>6. CASE FinishBlindEval
  <2>1. pc = "a_sigma_sum" /\ pc' = "finalize" /\ i' = 1 /\ i > N
    BY <1>6 DEF FinishBlindEval, Past
  <2>2. UNCHANGED <<given, asked, masked, s_acc, out, clear>>
    BY <1>6 DEF FinishBlindEval
  <2>3. RequestInv' /\ MaskInv'
    <3>1. pc \in AfterRequest /\ pc' \in AfterRequest /\ pc \in AfterMasks /\ pc' \in AfterMasks
      BY <2>1 DEF AfterRequest, AfterMasks
    <3> QED BY <1>0, <2>2, <3>1, KeepRequest, KeepMask
  <2>4. SumInv'
    <3>1. \A k \in Coords : k < i
      BY <1>b, <2>1
    <3>2. a_sum' = reduce_q(s_acc[N] + r_sum)
      BY <1>6 DEF FinishBlindEval
    <3>3. y' = respond(a_sum, pads, b_bar_prime)'
      BY <1>6, <2>2 DEF FinishBlindEval, respond, rounded, pad, given, asked, add_p, reduce_p,
         round_zq_to_zp, round, sub_q, sub_delta, reduce_q
    <3>4. UNCHANGED <<sk, e, r_sum>>
      BY <2>2 DEF given, asked, masked
    <3> QED BY <1>0, <2>1, <2>2, <3>1, <3>2, <3>3, <3>4 DEF SumInv, Consumed, reduce_q
  <2>5. OutInv'
    <3>1. pc' \notin AfterFinalize /\ i' = 1
      BY <2>1 DEF AfterFinalize
    <3> QED BY <1>0, <3>1, KeepOut
  <2> QED BY <1>0, <1>a, <1>d, <2>1, <2>2, <2>3, <2>4, <2>5 DEF IInv, clear
<1>7. CASE FinalizeRow
  <2>1. pc = "finalize" /\ pc' = "evaluate" /\ i' = 1
    BY <1>0, <1>7 DEF FinalizeRow, OutInv
  <2>2. UNCHANGED <<given, asked, masked, summed, clear>>
    BY <1>7 DEF FinalizeRow
  <2>3. RequestInv' /\ MaskInv' /\ SumInv'
    <3>1. /\ pc \in AfterRequest /\ pc' \in AfterRequest /\ pc \in AfterMasks /\ pc' \in AfterMasks
          /\ pc \in AfterSum /\ pc' \in AfterSum
      BY <2>1 DEF AfterRequest, AfterMasks, AfterSum
    <3>2. RequestInv' /\ MaskInv'
      BY <1>0, <2>2, <3>1, KeepRequest, KeepMask
    <3>3. SumInv'
      BY <1>0, <2>2, <3>1, KeepSum
    <3> QED BY <3>2, <3>3
  <2>4. OutInv'
    <3>1. out' = sub_p(sub_p(y[reduce_delta(r_sigma)], r_prime),
                       (r_sigma - reduce_delta(r_sigma)) \div DELTA)
      BY <1>7 DEF FinalizeRow
    <3> QED BY <2>1, <2>2, <3>1 DEF OutInv, given, asked, summed, r_prime, reduce_delta, sub_p, reduce_p
  <2>5. MasksCancel'
    <3>1. s_acc[0] = 0 /\ m_acc[0] = 0 /\ v_acc[0] = 0 /\ r_acc[0] = 0
      BY <1>0 DEF SumInv, MaskInv, RequestInv
    <3> QED BY <2>1, <2>2, <3>1, <1>c DEF MasksCancel, Consumed, reduce_q, asked, masked, summed, clear
  <2> QED BY <1>0, <1>a, <2>2, <2>3, <2>4, <2>5 DEF IInv, clear
<1>8. CASE InnerProduct
  <2>1. pc = "evaluate" /\ pc' = "evaluate" /\ i' = i + 1 /\ i \in Coords
    BY <1>8, <1>c DEF InnerProduct, At
  <2>2. UNCHANGED <<given, asked, masked, summed, out, prf>>
    BY <1>8 DEF InnerProduct
  <2>3. RequestInv' /\ MaskInv' /\ SumInv'
    <3>1. /\ pc \in AfterRequest /\ pc' \in AfterRequest /\ pc \in AfterMasks /\ pc' \in AfterMasks
          /\ pc \in AfterSum /\ pc' \in AfterSum
      BY <2>1 DEF AfterRequest, AfterMasks, AfterSum
    <3>2. RequestInv' /\ MaskInv'
      BY <1>0, <2>2, <3>1, KeepRequest, KeepMask
    <3>3. SumInv'
      BY <1>0, <2>2, <3>1, KeepSum
    <3> QED BY <3>2, <3>3
  <2>4. OutInv'
    <3>1. pc \in AfterFinalize
      BY <2>1 DEF AfterFinalize
    <3> QED BY <1>0, <2>1, <2>2, <3>1, KeepOut
  <2>5. MasksCancel'
    BY <1>0, <1>8, CancelStep
  <2>6. v_acc'[0] = 0
    BY <1>0, <1>8, <1>b, <1>c, <2>1 DEF InnerProduct, TypeOK, Acc
  <2> QED BY <1>a, <2>3, <2>4, <2>5, <2>6 DEF IInv
<1>9. CASE EvaluateSingleRow
  <2>1. pc = "evaluate" /\ pc' = "done" /\ i > N
    BY <1>9 DEF EvaluateSingleRow, Past
  <2>2. UNCHANGED <<given, asked, masked, summed, out, v_acc>>
    BY <1>9 DEF EvaluateSingleRow
  <2>3. RequestInv' /\ MaskInv' /\ SumInv'
    <3>1. /\ pc \in AfterRequest /\ pc' \in AfterRequest /\ pc \in AfterMasks /\ pc' \in AfterMasks
          /\ pc \in AfterSum /\ pc' \in AfterSum
      BY <2>1 DEF AfterRequest, AfterMasks, AfterSum
    <3>2. RequestInv' /\ MaskInv'
      BY <1>0, <2>2, <3>1, KeepRequest, KeepMask
    <3>3. SumInv'
      BY <1>0, <2>2, <3>1, KeepSum
    <3> QED BY <3>2, <3>3
  <2>4. OutInv'
    <3>1. prf' = round_zq_to_zp(reduce_q(v_acc[N]))
      BY <1>9 DEF EvaluateSingleRow
    <3> QED BY <1>0, <2>1, <2>2, <3>1 DEF OutInv, AfterFinalize, given, asked, summed, r_prime,
               reduce_delta, sub_p, reduce_p, round_zq_to_zp, round, reduce_q
  <2>5. MasksCancel'
    <3>1. \A k \in 0 .. N : k < i
      BY <1>b, <1>c, <2>1
    <3> QED BY <1>0, <2>1, <2>2, <3>1 DEF MasksCancel, Consumed, reduce_q, asked, masked, summed
  <2> QED BY <1>0, <1>a, <2>2, <2>3, <2>4, <2>5 DEF IInv
<1>10. CASE UNCHANGED vars
  BY <1>0, <1>10, <1>a DEF vars, given, asked, masked, summed, clear, IInv, RequestInv, MaskInv, SumInv,
     OutInv, MasksCancel, Consumed, r_bhat, r_not_bhat, bhat, r_b, r_prime, respond, rounded, pad,
     add_p, sub_p, sub_q, sub_delta, reduce_q, reduce_p, reduce_delta, round_zq_to_zp, round
<1> QED BY <1>1, <1>2, <1>3, <1>4, <1>5, <1>6, <1>7, <1>8, <1>9, <1>10 DEF Next

\* At the end of a run that satisfies the invariant, the output is the PRF.
LEMMA RowInvCorrect == TypeOK /\ IInv => RowCorrect
<1> SUFFICES ASSUME TypeOK, IInv, pc = "done" PROVE out = prf
  BY DEF RowCorrect
<1>0. pc \in AfterRequest /\ pc \in AfterMasks /\ pc \in AfterSum /\ pc \in AfterFinalize
  BY DEF AfterRequest, AfterMasks, AfterSum, AfterFinalize
<1> DEFINE low == reduce_delta(r_sigma)
<1>1. r_sigma = reduce_q(r_acc[N]) /\ b_bar_prime = sub_delta(low, b_prime)
  BY <1>0 DEF IInv, RequestInv
<1>2. r_sum = reduce_q(m_acc[N])
  BY <1>0 DEF IInv, MaskInv
<1>3. a_sum = reduce_q(s_acc[N] + r_sum) /\ y = respond(a_sum, pads, b_bar_prime)
  BY <1>0 DEF IInv, SumInv
<1>4. /\ out = sub_p(sub_p(y[low], pads[b_prime]), (r_sigma - low) \div DELTA)
      /\ prf = round_zq_to_zp(reduce_q(v_acc[N]))
  BY <1>0 DEF IInv, OutInv, r_prime
<1>5. low \in Zdelta
  BY Reduced, RingNat DEF TypeOK
<1>6. y[low] = add_p(rounded(a_sum, low), pads[b_prime])
  <2>1. sub_delta(low, sub_delta(low, b_prime)) = b_prime
    BY <1>5, PadIndex DEF TypeOK
  <2> QED BY <1>1, <1>3, <1>5, <2>1 DEF respond, pad
<1>7. /\ s_acc[N] \in Int /\ m_acc[N] \in Int /\ v_acc[N] \in Int /\ r_acc[N] \in Int
      /\ s_acc[N] + r_sum \in Int /\ r_sum \in Int
  <2>1. s_acc[N] \in Int /\ m_acc[N] \in Int /\ v_acc[N] \in Int /\ r_acc[N] \in Int
    BY Moduli DEF TypeOK, Acc
  <2>2. r_sum \in Int
    BY RingNat DEF TypeOK
  <2> QED BY <2>1, <2>2
<1>8. Cong(s_acc[N] + m_acc[N], v_acc[N] + r_acc[N], Q)
  <2>1. N \in 0 .. N
    BY Moduli
  <2>2. reduce_q(s_acc[N] + m_acc[N]) = reduce_q(v_acc[N] + r_acc[N])
    BY <2>1 DEF IInv, MasksCancel, Consumed
  <2>3. s_acc[N] + m_acc[N] \in Int /\ v_acc[N] + r_acc[N] \in Int
    BY <1>7
  <2> QED BY <2>2, <2>3, Moduli, ModEqual DEF reduce_q
<1>9. Cong(s_acc[N] + r_sum, s_acc[N] + m_acc[N], Q)
  <2>1. PICK c \in Int : r_sum = m_acc[N] + c * Q
    BY <1>2, <1>7, Moduli, ModCong DEF Cong, reduce_q
  <2>2. s_acc[N] + r_sum = (s_acc[N] + m_acc[N]) + c * Q
    BY <2>1, <1>7, Moduli
  <2> QED BY <2>2 DEF Cong
<1>10. Cong(s_acc[N] + r_sum, v_acc[N] + r_acc[N], Q)
  <2>1. s_acc[N] + m_acc[N] \in Int /\ v_acc[N] + r_acc[N] \in Int
    BY <1>7
  <2> QED BY <2>1, <1>7, <1>8, <1>9, Moduli, CongTrans
<1>11. pads[b_prime] \in Zp
  BY DEF TypeOK
<1>12. sub_p(sub_p(add_p(rounded(reduce_q(s_acc[N] + r_sum), low), pads[b_prime]), pads[b_prime]),
             (r_sigma - low) \div DELTA) = round_zq_to_zp(reduce_q(v_acc[N]))
  <2> DEFINE v == v_acc[N]
             ra == r_acc[N]
             x == s_acc[N] + r_sum
  <2>1. /\ v \in Int /\ ra \in Int /\ x \in Int /\ Cong(x, v + ra, Q)
        /\ r_sigma = reduce_q(ra) /\ low = reduce_delta(reduce_q(ra))
    BY <1>1, <1>7, <1>10
  <2> HIDE DEF low, v, ra, x
  <2>2. sub_p(sub_p(add_p(rounded(reduce_q(x), low), pads[b_prime]), pads[b_prime]),
              (r_sigma - low) \div DELTA) = round_zq_to_zp(reduce_q(v))
    BY <1>11, <2>1, RowArithmetic
  <2> QED BY <2>2 DEF v, x
<1> QED BY <1>3, <1>4, <1>6, <1>12

\* The invariant bounds every sum that the code accumulates.
LEMMA RowInvFits == TypeOK /\ IInv => AccumulatorsFit
<1>0. ASSUME TypeOK, NEW k \in Coords
      PROVE  a[k] + r_bhat(k) + r_not_bhat(k) <= ZqAccumMax
  <2>1. /\ a[k] \in Nat /\ r_bhat(k) \in Nat /\ r_not_bhat(k) \in Nat
        /\ a[k] < Q /\ r_bhat(k) < Q /\ r_not_bhat(k) < Q
    BY <1>0, CoordinateTypes, RingNat
  <2>2. 3 * (Q - 1) <= ZqAccumMax /\ ZqAccumMax \in Nat /\ Q \in Nat
    BY RowAssumption, Moduli
  <2> QED BY <2>1, <2>2
<1> SUFFICES ASSUME TypeOK, IInv, NEW k \in 0 .. N
             PROVE  /\ r_acc[k] <= ZqAccumMax /\ m_acc[k] <= ZqAccumMax
                    /\ s_acc[k] + r_sum <= ZqAccumMax /\ v_acc[k] <= ZqAccumMax
  BY <1>0 DEF AccumulatorsFit
<1>1. k \in Nat /\ k <= N /\ N \in Nat /\ Q - 1 \in Nat /\ Q \in Nat
  BY Moduli
<1>2. k * (Q - 1) <= N * (Q - 1) /\ k * (Q - 1) \in Int /\ N * (Q - 1) \in Int
  BY <1>1
<1>3. N * (Q - 1) + (Q - 1) <= ZqAccumMax /\ ZqAccumMax \in Int
  <2>1. (N + 1) * (Q - 1) = N * (Q - 1) + (Q - 1)
    BY <1>1
  <2> QED BY <2>1, RowAssumption
<1>4. /\ r_acc[k] <= k * (Q - 1) /\ m_acc[k] <= k * (Q - 1)
      /\ s_acc[k] <= k * (Q - 1) /\ v_acc[k] <= k * (Q - 1)
  BY DEF IInv, BoundInv
<1>5. /\ r_acc[k] \in Nat /\ m_acc[k] \in Nat /\ s_acc[k] \in Nat /\ v_acc[k] \in Nat
      /\ r_sum \in Nat /\ r_sum <= Q - 1
  <2>1. r_sum \in Nat /\ r_sum < Q
    BY RingNat DEF TypeOK
  <2> QED BY <2>1, <1>1 DEF TypeOK, Acc
<1> DEFINE f == k * (Q - 1)
           g == N * (Q - 1)
<1>6. f <= g /\ f \in Int /\ g \in Int /\ g + (Q - 1) <= ZqAccumMax
  BY <1>2, <1>3
<1>7. r_acc[k] <= f /\ m_acc[k] <= f /\ s_acc[k] <= f /\ v_acc[k] <= f
  BY <1>4
<1> HIDE DEF f, g
<1> QED BY <1>1, <1>3, <1>5, <1>6, <1>7

\* The invariant holds throughout.
THEOREM RowInvariant == Spec => []IInv
<1>1. TypeOK /\ IInv /\ [Next]_vars => IInv'
  BY RowInvStep
<1> QED BY <1>1, RowInvInit, RowType, PTL DEF Spec

\* For every dimension, moduli, key, masks, pads and row: what finalize_row returns after
\* request_evaluation and blind_eval_one is what evaluate_single_row computes in the clear.
THEOREM RowIsPrf == Spec => []RowCorrect
<1>1. TypeOK /\ IInv => RowCorrect
  BY RowInvCorrect
<1> QED BY <1>1, RowType, RowInvariant, PTL

\* The masks cancel coordinate by coordinate.
THEOREM RowMasksCancel == Spec => []MasksCancel
<1>1. IInv => MasksCancel
  BY DEF IInv
<1> QED BY <1>1, RowInvariant, PTL

\* No accumulator of request_evaluation, r_sigma_sum, a_sigma_sum or inner_product overflows.
THEOREM RowAccumulatorsFit == Spec => []AccumulatorsFit
<1>1. TypeOK /\ IInv => AccumulatorsFit
  BY RowInvFits
<1> QED BY <1>1, RowType, RowInvariant, PTL

=============================================================================
