-------------------------- MODULE EvaluationProofs --------------------------
(***************************************************************************)
(* Theorems about Evaluation: for every key, every outcome of the OTs and  *)
(* every number of calls the client ends with the PRF of its input.        *)
(*                                                                         *)
(* MaterialProofs has the computation of one evaluation.  Here are the     *)
(* bytes on the wire, the bytes of the random oracle and of the masks, and *)
(* the induction over the steps of a session.                              *)
(***************************************************************************)
EXTENDS Evaluation, MaterialProofs

----------------------------------------------------------------------------
(* Packing (packing.rs).                                                   *)

\* A number of bytes is the least that holds all bits.
LEMMA PackedSizes ==
    ASSUME NEW len \in Nat
    PROVE  /\ PackedSize(len) \in Nat
           /\ len * LOG_Q \in Nat
           /\ len * LOG_Q <= PackedSize(len) * ByteBits
           /\ len # 0 => (PackedSize(len) - 1) * ByteBits < len * LOG_Q
<1> DEFINE x == len * LOG_Q
           b == ByteBits
           q == (x + b - 1) \div b
           r == (x + b - 1) % b
<1>1. b \in Nat \ {0} /\ x \in Nat /\ (len # 0 => x > 0)
  BY PackingAssumption
<1> HIDE DEF b, x
<1>2. x + b - 1 \in Int
  BY <1>1
<1>3. q \in Int /\ r \in 0 .. b - 1 /\ x + b - 1 = q * b + r
  BY <1>1, <1>2, DivMod
<1> HIDE DEF q, r
<1>4. q * b \in Int /\ x <= q * b /\ q * b <= x + b - 1
  BY <1>1, <1>3
<1>5. q \in Nat
  <2>1. SUFFICES ASSUME q <= -1 PROVE FALSE
    BY <1>3
  <2>2. q * b <= -b
    BY <1>1, <1>3, <2>1
  <2> QED BY <1>1, <1>4, <2>2
<1>6. (q - 1) * b = q * b - b
  BY <1>1, <1>3
<1>7. (q - 1) * b < x
  BY <1>1, <1>4, <1>6
<1>8. PackedSize(len) = q
  BY DEF PackedSize, q, x, b
<1> QED BY <1>1, <1>4, <1>5, <1>7, <1>8 DEF x, b

\* Bit n of the bytes that pack makes is the bit that it wrote.
LEMMA PackedBits ==
    ASSUME NEW len \in Nat, NEW values \in [1 .. len -> Nat], NEW n \in 0 .. len * LOG_Q - 1
    PROVE  /\ n \div ByteBits \in 0 .. PackedSize(len) - 1
           /\ bit(pack(values, len)[n \div ByteBits], n % ByteBits) = written(values, len, n)
<1> DEFINE b == n \div ByteBits
           j == n % ByteBits
           size == PackedSize(len)
           s == [i \in 0 .. ByteBits - 1 |-> written(values, len, b * ByteBits + i)]
<1>1. ByteBits \in Nat \ {0} /\ LOG_Q \in Nat \ {0} /\ len * LOG_Q \in Nat /\ n \in Int
  BY PackingAssumption
<1>2. b \in Int /\ j \in 0 .. ByteBits - 1 /\ n = b * ByteBits + j
  BY <1>1, DivMod
<1>3. size \in Nat /\ len * LOG_Q <= size * ByteBits
  BY PackedSizes
<1>4. b \in 0 .. size - 1
  <2> HIDE DEF b, j, size
  <2>0. n \in 0 .. len * LOG_Q - 1
    OBVIOUS
  <2>1. b >= 0
    <3>1. SUFFICES ASSUME b <= -1 PROVE FALSE
      BY <1>2
    <3>2. b * ByteBits <= -ByteBits
      BY <1>1, <1>2, <3>1
    <3> QED BY <1>1, <1>2, <2>0, <3>2
  <2>2. b < size
    <3>1. SUFFICES ASSUME size <= b PROVE FALSE
      BY <1>2, <1>3
    <3>2. size * ByteBits <= b * ByteBits
      BY <1>1, <1>2, <1>3, <3>1
    <3> QED BY <1>1, <1>2, <1>3, <2>0, <3>2
  <2> QED BY <1>2, <1>3, <2>1, <2>2
<1>5. ASSUME NEW i \in 0 .. ByteBits - 1 PROVE s[i] \in Bit
  <2> DEFINE m == b * ByteBits + i
             k == m \div LOG_Q
             l == m % LOG_Q
  <2>1. m \in Nat /\ m \in Int
    BY <1>1, <1>4
  <2>2. s[i] = written(values, len, m)
    OBVIOUS
  <2> HIDE DEF m, s
  <2>3. CASE m < len * LOG_Q
    <3>1. k \in Int /\ l \in 0 .. LOG_Q - 1 /\ m = k * LOG_Q + l
      BY <1>1, <2>1, DivMod
    <3> HIDE DEF k, l
    <3>2. k >= 0
      <4>1. SUFFICES ASSUME k <= -1 PROVE FALSE
        BY <3>1
      <4>2. k * LOG_Q <= -LOG_Q
        BY <1>1, <3>1, <4>1
      <4> QED BY <1>1, <2>1, <3>1, <4>2
    <3>3. k < len
      <4>1. SUFFICES ASSUME len <= k PROVE FALSE
        BY <3>1
      <4>2. len * LOG_Q <= k * LOG_Q
        BY <1>1, <3>1, <4>1
      <4> QED BY <1>1, <2>1, <2>3, <3>1, <4>2
    <3>4. k + 1 \in 1 .. len /\ l \in Nat
      BY <1>1, <3>1, <3>2, <3>3
    <3>5. bit(values[k + 1], l) \in Bit
      BY <3>4, BitType
    <3> QED BY <2>2, <2>3, <3>5 DEF written, k, l
  <2>4. CASE ~(m < len * LOG_Q)
    BY <2>2, <2>4 DEF written, Bit
  <2> QED BY <2>3, <2>4
<1>6. pack(values, len)[b] = FromBits(s, ByteBits)
  BY <1>4 DEF pack
<1>7. ByteBits \in Nat
  BY <1>1
<1>8. s[j] = written(values, len, n)
  BY <1>2
<1> HIDE DEF s, b, j
<1>9. \A i \in 0 .. ByteBits - 1 : bit(FromBits(s, ByteBits), i) = s[i]
  BY <1>5, <1>7, BitsOfNumber
<1>10. bit(pack(values, len)[b], j) = written(values, len, n)
  BY <1>2, <1>6, <1>8, <1>9
<1> QED BY <1>4, <1>10 DEF b, j, size

\* unpack reads what pack wrote, also when more bytes follow.
LEMMA UnpackPack ==
    ASSUME NEW len \in Nat, NEW values \in [1 .. len -> 0 .. Pow2(LOG_Q) - 1], NEW bytes,
           \A b \in 0 .. PackedSize(len) - 1 : bytes[b] = pack(values, len)[b]
    PROVE  unpack(bytes, len) = values
<1> DEFINE read(n) == bit(bytes[n \div ByteBits], n % ByteBits)
           s(k) == [i \in 0 .. LOG_Q - 1 |-> read((k - 1) * LOG_Q + i)]
<1>1. LOG_Q \in Nat \ {0} /\ LOG_Q \in Nat /\ Pow2(LOG_Q) \in Nat
  BY PackingAssumption, PowPositive
<1>2. values \in [1 .. len -> Nat]
  BY <1>1
<1>3. ASSUME NEW k \in 1 .. len PROVE FromBits(s(k), LOG_Q) = values[k]
  <2>1. ASSUME NEW i \in 0 .. LOG_Q - 1 PROVE s(k)[i] = bit(values[k], i)
    <3> DEFINE n == (k - 1) * LOG_Q + i
    <3>1. n \in 0 .. len * LOG_Q - 1
      <4>1. k * LOG_Q <= len * LOG_Q /\ (k - 1) * LOG_Q = k * LOG_Q - LOG_Q
        BY <1>1
      <4>2. (k - 1) * LOG_Q \in Nat /\ len * LOG_Q \in Nat /\ k * LOG_Q \in Nat
        BY <1>1
      <4> QED BY <1>1, <4>1, <4>2
    <3>2. n \div LOG_Q = k - 1 /\ n % LOG_Q = i
      <4>1. k - 1 \in Int /\ LOG_Q \in Nat \ {0} /\ i \in 0 .. LOG_Q - 1
        BY <1>1
      <4> QED BY <4>1, ModUnique
    <3>3. s(k)[i] = read(n)
      OBVIOUS
    <3> HIDE DEF n
    <3>4. /\ n \div ByteBits \in 0 .. PackedSize(len) - 1
          /\ bit(pack(values, len)[n \div ByteBits], n % ByteBits) = written(values, len, n)
      BY <1>2, <3>1, PackedBits
    <3>5. read(n) = written(values, len, n)
      BY <3>4
    <3>6. written(values, len, n) = bit(values[n \div LOG_Q + 1], n % LOG_Q)
      <4>1. n < len * LOG_Q
        BY <1>1, <3>1
      <4> QED BY <4>1 DEF written
    <3>7. k - 1 + 1 = k
      OBVIOUS
    <3> HIDE DEF s, read
    <3> QED BY <3>2, <3>3, <3>5, <3>6, <3>7
  <2>2. values[k] \in Nat /\ values[k] < Pow2(LOG_Q)
    BY <1>1
  <2> HIDE DEF s
  <2> QED BY <1>1, <2>1, <2>2, NumberOfBits
<1>4. unpack(bytes, len) = [k \in 1 .. len |-> FromBits(s(k), LOG_Q)]
  BY DEF unpack
<1> HIDE DEF s
<1> QED BY <1>3, <1>4

\* Another build's packing is read only when it is the client's, with or without a byte more.
LEMMA ForeignRead ==
    ASSUME NEW e \in [Coords -> Zq],
           NEW p \in {serialize(e, N)} \union ForeignPacks(e, serialize(e, N)),
           DeserializeOk(p, N)
    PROVE  deserialize(p, N) = e /\ p.count = N
<1> DEFINE own == serialize(e, N)
           size == PackedSize(N)
<1>1. N \in Nat \ {0} /\ N \in Nat /\ Coords = 1 .. N
  BY Moduli DEF Coords
<1>2. e \in [1 .. N -> 0 .. Pow2(LOG_Q) - 1]
  BY <1>1, EvaluationAssumption DEF Zq
<1>3. /\ size \in Nat /\ own.count = N /\ own.size = size /\ own.bytes = pack(e, N)
      /\ N * LOG_Q \in Nat /\ (size - 1) * ByteBits < N * LOG_Q
  BY <1>1, PackedSizes DEF serialize
<1>4. p.count = N
  BY DEF DeserializeOk
<1>5. p # Resized(e, N + 1) /\ p # Resized(e, N - 1)
  <2>1. Resized(e, N + 1).count = N + 1 /\ Resized(e, N - 1).count = N - 1
    BY DEF Resized, serialize
  <2>2. N + 1 # N /\ N - 1 # N
    BY <1>1
  <2> QED BY <1>4, <2>1, <2>2
<1>6. p # Bytes(own, size - 1)
  <2>1. Bytes(own, size - 1).size = size - 1
    BY DEF Bytes
  <2>2. ByteBits \in Nat
    BY PackingAssumption
  <2>3. RunsOut(size - 1, N)
    BY <1>3 DEF RunsOut
  <2> QED BY <2>1, <2>3 DEF DeserializeOk
<1>7. p = own \/ p = Bytes(own, size + 1)
  <2>1. p \in {own} \union ForeignPacks(e, own)
    OBVIOUS
  <2> HIDE DEF own, size
  <2> QED BY <1>3, <1>5, <1>6, <2>1 DEF ForeignPacks
<1>8. ASSUME NEW b \in 0 .. size - 1 PROVE p.bytes[b] = pack(e, N)[b]
  <2>1. CASE p = own
    BY <1>3, <2>1
  <2>2. CASE p = Bytes(own, size + 1)
    <3>1. b \in 0 .. (size + 1) - 1 /\ b < own.size
      BY <1>3
    <3>2. p.bytes = [c \in 0 .. (size + 1) - 1 |-> IF c < own.size THEN own.bytes[c] ELSE 0]
      BY <2>2 DEF Bytes
    <3> HIDE DEF own, size
    <3>3. p.bytes[b] = own.bytes[b]
      BY <3>1, <3>2
    <3> QED BY <1>3, <3>3
  <2> QED BY <1>7, <2>1, <2>2
<1>9. unpack(p.bytes, N) = e
  BY <1>1, <1>2, <1>8, UnpackPack
<1> QED BY <1>4, <1>9 DEF deserialize

----------------------------------------------------------------------------
(* The bytes that the random oracle hashes (hash.rs).                      *)

\* The length in front tells where the tag ends.
LEMMA OracleInputs ==
    ASSUME NEW S, NEW t \in Seq(S), NEW u \in Seq(S), NEW i \in Seq(S), NEW j \in Seq(S),
           ro_input(t, i) = ro_input(u, j)
    PROVE  t = u /\ i = j
<1> DEFINE x == ro_input(t, i)
           z == ro_input(u, j)
<1>1. /\ Len(t) \in Nat /\ Len(u) \in Nat /\ Len(i) \in Nat /\ Len(j) \in Nat
      /\ Len(x) = 1 + Len(t) + Len(i) /\ Len(z) = 1 + Len(u) + Len(j)
      /\ x[1] = Len(t) /\ z[1] = Len(u)
  BY DEF ro_input
<1>2. Len(t) = Len(u) /\ Len(i) = Len(j)
  BY <1>1
<1>3. ASSUME NEW k \in 1 .. Len(t) PROVE t[k] = u[k]
  <2>1. x[k + 1] = t[k] /\ z[k + 1] = u[k]
    BY <1>1, <1>2 DEF ro_input
  <2> QED BY <2>1
<1>4. ASSUME NEW k \in 1 .. Len(i) PROVE i[k] = j[k]
  <2>1. x[1 + Len(t) + k] = i[k] /\ z[1 + Len(t) + k] = j[k]
    BY <1>1, <1>2 DEF ro_input
  <2> QED BY <2>1
<1>5. /\ t = [k \in 1 .. Len(t) |-> t[k]] /\ u = [k \in 1 .. Len(u) |-> u[k]]
      /\ i = [k \in 1 .. Len(i) |-> i[k]] /\ j = [k \in 1 .. Len(j) |-> j[k]]
  OBVIOUS
<1>6. t = u
  BY <1>2, <1>3, <1>5
<1>7. i = j
  BY <1>2, <1>4, <1>5
<1> QED BY <1>6, <1>7

\* The masks of different calls are of different bytes, when call x starts at run x * H_ROWS.
LEMMA MaskBytesApart ==
    ASSUME NEW x \in Nat, NEW z \in Nat, x # z, NEW c, NEW o,
           c.first_run = x * H_ROWS, o.first_run = z * H_ROWS
    PROVE  MaskBytes(c) \cap MaskBytes(o) = {}
<1> SUFFICES ASSUME NEW w \in MaskBytes(c), w \in MaskBytes(o) PROVE FALSE
  OBVIOUS
<1>1. H_ROWS \in Nat \ {0} /\ Rows = 0 .. H_ROWS - 1
  BY MaterialAssumption DEF Rows
<1>2. PICK k \in Rows, b \in 0 .. 1 : w = x * H_ROWS * 2 + k * 2 + b
  BY DEF MaskBytes, mask_position, MASK_BYTES
<1>3. PICK l \in Rows, a \in 0 .. 1 : w = z * H_ROWS * 2 + l * 2 + a
  BY DEF MaskBytes, mask_position, MASK_BYTES
<1> DEFINE xh == x * H_ROWS
           zh == z * H_ROWS
<1>4. xh \in Int /\ zh \in Int /\ k \in Int /\ l \in Int
  BY <1>1
<1> HIDE DEF xh, zh
<1>5. xh * 2 + k * 2 + b = zh * 2 + l * 2 + a
  BY <1>2, <1>3 DEF xh, zh
<1>6. xh + k = zh + l
  BY <1>4, <1>5
<1>7. x \in Int /\ z \in Int /\ k \in 0 .. H_ROWS - 1 /\ l \in 0 .. H_ROWS - 1
  BY <1>1
<1>8. (x * H_ROWS + k) \div H_ROWS = x /\ (z * H_ROWS + l) \div H_ROWS = z
  BY <1>1, <1>7, ModUnique
<1> QED BY <1>6, <1>8 DEF xh, zh

----------------------------------------------------------------------------
(* The invariant of a session.                                             *)

Made     == {"request", "arrive", "eval", "refused"}
Sent     == delta_ot_send(OtPairs("delta", required_binary_ot_count(Tau)), Tau)
Received(del) == delta_ot_receive(OtChosen("delta", del), del, Tau)

\* What each side has of the OTs, at every stage of a preprocessing: the bits of the OTs are the
\* same behind all of it.
OtsInv ==
    /\ sk \in Keys
    /\ stage \in {"binary", "delta", "bhat"} \union Made
    /\ stage \in {"binary", "delta"} => received = None
    /\ stage = "delta" => \E bin \in BinaryCoins :
        client = [ot_blocks |-> client_ot_blocks] /\ server = [r_s |-> server_r_s(bin)]
    /\ stage = "bhat" => \E bin \in BinaryCoins, del \in DeltaCoins :
        /\ client = [ot_blocks |-> client_ot_blocks] /\ server = [r_s |-> server_r_s(bin)]
        /\ sent = Sent /\ received = Received(del)
    /\ stage \in Made => \E bin \in BinaryCoins, del \in DeltaCoins :
        /\ client = ClientMade(sk, bin, del, Tau) /\ server = ServerMade(bin, Tau)
        /\ sent = Sent /\ received = Received(del)

CallOf(ask) == [tag |-> ask.tag, input |-> ask.input]
Asks    == [tag : Seq(0 .. 255), input : Seq(0 .. 255), first_run : Nat]
Outputs == {evaluate(sk, call.tag, call.input) : call \in Calls}

\* The counters of both sides follow from what was asked and answered.
CountInv ==
    /\ asked \in Seq(Asks) /\ outs \in Seq(Outputs)
    /\ \A n \in 1 .. Len(asked) : CallOf(asked[n]) \in Calls /\ asked[n].first_run = (n - 1) * H_ROWS
    /\ ctr = Len(asked) * H_ROWS /\ ctr <= Tau
    /\ sctr = Len(outs) * H_ROWS
    /\ Len(outs) <= Len(asked)
    /\ stage \in {"binary", "delta", "bhat", "request"} => Len(asked) = Len(outs)
    /\ stage \in {"arrive", "eval"} => Len(asked) = Len(outs) + 1

\* A request on its way is the last call's.
MadeLast ==
    LET ask == asked[Len(asked)]
    IN  request_evaluation(client, ask.first_run, hash_to_zq_matrix(ask.tag, ask.input))

RequestInv == stage \in {"arrive", "eval"} => request = MadeLast.rows /\ fin = MadeLast.fin

\* What arrives is the client's packing or another build's.
PacketInv == stage = "arrive" =>
    /\ DOMAIN packet = Rows
    /\ \A k \in Rows :
        /\ packet[k].e \in {serialize(request[k].e, N)}
                             \union ForeignPacks(request[k].e, serialize(request[k].e, N))
        /\ packet[k].b_bar_prime = request[k].b_bar_prime

Inv == OtsInv /\ CountInv /\ RequestInv /\ PacketInv /\ RequestsArrive /\ EvaluationRight

\* The constants, as the lemmas need them.
LEMMA Sizes ==
    /\ H_ROWS \in Nat \ {0} /\ Evaluations \in Nat \ {0} /\ Tau \in Nat
    /\ Keys \subseteq [Coords -> Bit]
    /\ BinaryCoins \subseteq [0 .. BINARY_OT_COUNT - 1 -> Bit]
    /\ DeltaCoins \subseteq [0 .. required_binary_ot_count(Tau) - 1 -> Bit]
    /\ HashesTyped(Tau, Calls)
    /\ \A call \in Calls : call = CallOf(call) /\ call.tag \in Seq(0 .. 255) /\ call.input \in Seq(0 .. 255)
<1>1. H_ROWS \in Nat \ {0} /\ Evaluations \in Nat \ {0}
  BY MaterialAssumption, EvaluationAssumption
<1>2. Tau \in Nat
  BY <1>1 DEF Tau
<1>3. \A call \in Calls : call = CallOf(call) /\ call.tag \in Seq(0 .. 255) /\ call.input \in Seq(0 .. 255)
  BY EvaluationAssumption DEF CallOf
<1> QED BY <1>1, <1>2, <1>3, EvaluationAssumption

\* The rows of a request are records of a vector and a masked choice.
LEMMA RequestShape ==
    ASSUME NEW cl, NEW first, NEW a, NEW rs, rs = request_evaluation(cl, first, a).rows
    PROVE  rs = [k \in Rows |-> [e |-> rs[k].e, b_bar_prime |-> rs[k].b_bar_prime]]
<1> DEFINE r_bhat == [i \in Coords |-> expand(cl.ot_blocks[i][cl.bhat[i]], first)]
           r_not_bhat == [i \in Coords |-> expand(cl.ot_blocks[i][1 - cl.bhat[i]], first)]
           ve(k) == [i \in Coords |-> reduce_q(a[k][i] + r_bhat[i][k] + r_not_bhat[i][k])]
           vb(k) == sub_delta(reduce_delta(reduce_q(Partial([i \in Coords |-> r_bhat[i][k]], N))),
                              cl.r_c[first + k].b_prime)
<1>1. rs = [k \in Rows |-> [e |-> ve(k), b_bar_prime |-> vb(k)]]
  BY DEF request_evaluation
<1> HIDE DEF ve, vb
<1>2. \A k \in Rows : rs[k].e = ve(k) /\ rs[k].b_bar_prime = vb(k)
  BY <1>1
<1> QED BY <1>1, <1>2

\* A call after all runs are counted: what EvaluationOfCall says of the last request.
LEMMA LastCall ==
    ASSUME OtsInv, CountInv, RequestInv, stage \in {"arrive", "eval"}, NEW k \in Rows
    PROVE  /\ request[k].e \in [Coords -> Zq]
           /\ request = [l \in Rows |-> [e |-> request[l].e, b_bar_prime |-> request[l].b_bar_prime]]
           /\ finalize_row(fin[k], blind_eval_one(server, sk, sctr, request)[k])
                = evaluate(sk, asked[Len(asked)].tag, asked[Len(asked)].input)[k]
           /\ blind_eval_one(server, sk, sctr, request)[k].ctr = fin[k].ctr
           /\ Len(asked) = Len(outs) + 1 /\ CallOf(asked[Len(asked)]) \in Calls
<1> DEFINE ask  == asked[Len(asked)]
           call == CallOf(ask)
           first == ask.first_run
<1>1. PICK bin \in BinaryCoins, del \in DeltaCoins :
        client = ClientMade(sk, bin, del, Tau) /\ server = ServerMade(bin, Tau)
  BY DEF OtsInv, Made
<1>2. /\ Len(asked) \in Nat /\ Len(outs) \in Nat /\ Len(asked) = Len(outs) + 1
      /\ Len(asked) * H_ROWS <= Tau /\ sctr = Len(outs) * H_ROWS
  BY DEF CountInv
<1>3. call \in Calls /\ first = (Len(asked) - 1) * H_ROWS
  <2>1. Len(asked) \in 1 .. Len(asked)
    BY <1>2
  <2> QED BY <2>1 DEF CountInv
<1>4. Len(asked) - 1 = Len(outs)
  BY <1>2
<1>5. first = sctr /\ first \in Nat /\ first + H_ROWS <= Tau
  <2>1. first = Len(outs) * H_ROWS
    BY <1>3, <1>4
  <2>2. Len(asked) * H_ROWS = Len(outs) * H_ROWS + H_ROWS /\ Len(outs) * H_ROWS \in Nat
    BY <1>2, Sizes
  <2> QED BY <1>2, <2>1, <2>2, Sizes
<1>6. call.tag = ask.tag /\ call.input = ask.input
  BY DEF CallOf
<1>7. request = MadeLast.rows /\ fin = MadeLast.fin
  BY DEF RequestInv
<1>8. MadeLast = request_evaluation(ClientMade(sk, bin, del, Tau), first, hash_to_zq_matrix(call.tag, call.input))
  BY <1>1, <1>6 DEF MadeLast
<1>9. /\ sk \in [Coords -> Bit] /\ bin \in [0 .. BINARY_OT_COUNT - 1 -> Bit]
      /\ del \in [0 .. required_binary_ot_count(Tau) - 1 -> Bit]
      /\ HashesTyped(Tau, Calls) /\ Tau \in Nat
  BY Sizes DEF OtsInv
<1> HIDE DEF call, first
<1>10. /\ MadeLast.rows[k].e \in [Coords -> Zq]
       /\ finalize_row(MadeLast.fin[k], blind_eval_one(ServerMade(bin, Tau), sk, first, MadeLast.rows)[k])
            = evaluate(sk, call.tag, call.input)[k]
       /\ blind_eval_one(ServerMade(bin, Tau), sk, first, MadeLast.rows)[k].ctr = MadeLast.fin[k].ctr
  BY <1>3, <1>5, <1>8, <1>9, EvaluationOfCall
<1>11. request = [l \in Rows |-> [e |-> request[l].e, b_bar_prime |-> request[l].b_bar_prime]]
  BY <1>7, <1>8, RequestShape
<1> QED BY <1>1, <1>2, <1>3, <1>5, <1>6, <1>7, <1>10, <1>11 DEF call

\* The invariant holds at the start.
LEMMA InvInit == Init => Inv
<1> SUFFICES ASSUME Init PROVE Inv
  OBVIOUS
<1> USE DEF Init
<1>1. OtsInv
  BY DEF OtsInv, Made
<1>2. CountInv
  <2>1. Len(asked) = 0 /\ Len(outs) = 0 /\ asked \in Seq(Asks) /\ outs \in Seq(Outputs)
    OBVIOUS
  <2>2. 0 * H_ROWS = 0 /\ 0 <= Tau
    BY Sizes
  <2> QED BY <2>1, <2>2 DEF CountInv
<1>3. RequestInv /\ PacketInv /\ RequestsArrive
  BY DEF RequestInv, PacketInv, RequestsArrive
<1>4. EvaluationRight
  BY DEF EvaluationRight
<1> QED BY <1>1, <1>2, <1>3, <1>4 DEF Inv

\* The invariant is kept by every step.
LEMMA InvStep == Inv /\ [Next]_vars => Inv'
<1> SUFFICES ASSUME Inv, [Next]_vars PROVE Inv'
  OBVIOUS
<1>0. OtsInv /\ CountInv /\ RequestInv /\ PacketInv /\ RequestsArrive /\ EvaluationRight
  BY DEF Inv
\* The states of both sides, once made, are left alone.
<1> DEFINE Kept == UNCHANGED <<sk, sent, received, client, server>>
<1>1. ASSUME Kept, stage \in Made, stage' \in Made PROVE OtsInv'
  BY <1>0, <1>1 DEF OtsInv, Made
\* The counts are left alone.
<1>2. ASSUME UNCHANGED <<sk, ctr, sctr, asked, outs>>,
             \/ stage \in {"binary", "delta", "bhat"} /\ stage' \in {"delta", "bhat", "request"}
             \/ stage \in {"arrive", "eval"} /\ stage' \in {"arrive", "eval"}
             \/ stage' = "refused"
      PROVE  CountInv' /\ EvaluationRight'
  <2>1. Outputs' = Outputs
    BY <1>2 DEF Outputs
  <2>2. CountInv'
    BY <1>0, <1>2, <2>1 DEF CountInv
  <2>3. EvaluationRight'
    BY <1>0, <1>2 DEF EvaluationRight
  <2> QED BY <2>2, <2>3
<1>3. CASE BinaryOts
  <2>1. PICK bin \in BinaryCoins :
          /\ stage = "binary" /\ stage' = "delta"
          /\ client' = [ot_blocks |-> client_ot_blocks] /\ server' = [r_s |-> server_r_s(bin)]
          /\ UNCHANGED <<sk, sent, received, ctr, sctr, asked, request, fin, packet, rows, outs>>
    BY <1>3 DEF BinaryOts
  <2>2. OtsInv'
    BY <1>0, <2>1 DEF OtsInv, Made
  <2>3. CountInv' /\ EvaluationRight'
    BY <1>2, <2>1
  <2>4. RequestInv' /\ PacketInv' /\ RequestsArrive'
    BY <2>1 DEF RequestInv, PacketInv, RequestsArrive
  <2> QED BY <2>2, <2>3, <2>4 DEF Inv
<1>4. CASE DeltaOts
  <2>1. PICK del \in DeltaCoins :
          /\ stage = "delta" /\ stage' = "bhat" /\ sent' = Sent /\ received' = Received(del)
          /\ UNCHANGED <<sk, client, server, ctr, sctr, asked, request, fin, packet, rows, outs>>
    BY <1>4 DEF DeltaOts, Sent, Received
  <2>2. PICK bin \in BinaryCoins :
          client = [ot_blocks |-> client_ot_blocks] /\ server = [r_s |-> server_r_s(bin)]
    BY <1>0, <2>1 DEF OtsInv
  <2>3. OtsInv'
    <3>1. sk' \in Keys
      BY <1>0, <2>1 DEF OtsInv
    <3> QED BY <2>1, <2>2, <3>1 DEF OtsInv, Made, Sent, Received
  <2>4. CountInv' /\ EvaluationRight'
    BY <1>2, <2>1
  <2>5. RequestInv' /\ PacketInv' /\ RequestsArrive'
    BY <2>1 DEF RequestInv, PacketInv, RequestsArrive
  <2> QED BY <2>3, <2>4, <2>5 DEF Inv
<1>5. CASE SendBhat
  <2>1. /\ stage = "bhat" /\ stage' = "request"
        /\ client' = [ot_blocks |-> client.ot_blocks, bhat |-> masked_key(server.r_s, sk), r_c |-> client_r_c(received)]
        /\ server' = [r_s |-> server.r_s, s_s |-> server_s_s(sent)]
        /\ UNCHANGED <<sk, sent, received, ctr, sctr, asked, request, fin, packet, rows, outs>>
    BY <1>5 DEF SendBhat
  <2>2. PICK bin \in BinaryCoins, del \in DeltaCoins :
          /\ client = [ot_blocks |-> client_ot_blocks] /\ server = [r_s |-> server_r_s(bin)]
          /\ sent = Sent /\ received = Received(del)
    BY <1>0, <2>1 DEF OtsInv
  <2>3. client' = ClientMade(sk, bin, del, Tau) /\ server' = ServerMade(bin, Tau)
    BY <2>1, <2>2 DEF ClientMade, ServerMade, Sent, Received
  <2>4. OtsInv'
    <3>1. sk' = sk /\ sent' = Sent /\ received' = Received(del) /\ sk' \in Keys /\ stage' = "request"
      BY <1>0, <2>1, <2>2 DEF OtsInv
    <3> QED BY <2>3, <3>1 DEF OtsInv, Made, Sent, Received
  <2>5. CountInv' /\ EvaluationRight'
    BY <1>2, <2>1
  <2>6. RequestInv' /\ PacketInv' /\ RequestsArrive'
    BY <2>1 DEF RequestInv, PacketInv, RequestsArrive
  <2> QED BY <2>4, <2>5, <2>6 DEF Inv
<1>6. CASE Request
  <2>1. PICK call \in Calls :
          /\ stage = "request" /\ Tau - ctr >= H_ROWS /\ stage' = "arrive" /\ ctr' = ctr + H_ROWS
          /\ asked' = Append(asked, [tag |-> call.tag, input |-> call.input, first_run |-> ctr])
          /\ request' = request_evaluation(client, ctr, hash_to_zq_matrix(call.tag, call.input)).rows
          /\ fin' = request_evaluation(client, ctr, hash_to_zq_matrix(call.tag, call.input)).fin
          /\ packet' = serialize_rows(request')
          /\ UNCHANGED <<sk, sent, received, client, server, sctr, rows, outs>>
    BY <1>6 DEF Request
  <2> DEFINE ask == [tag |-> call.tag, input |-> call.input, first_run |-> ctr]
  <2>2. /\ asked \in Seq(Asks) /\ Len(asked) \in Nat /\ Len(outs) \in Nat /\ outs \in Seq(Outputs)
        /\ ctr = Len(asked) * H_ROWS /\ ctr \in Nat /\ Len(asked) = Len(outs)
    BY <1>0, <2>1, Sizes DEF CountInv
  <2>3. ask \in Asks /\ CallOf(ask) = call
    BY <2>2, Sizes DEF Asks, CallOf
  <2>4. /\ asked' = Append(asked, ask) /\ asked' \in Seq(Asks) /\ Len(asked') = Len(asked) + 1
        /\ asked'[Len(asked')] = ask /\ \A n \in 1 .. Len(asked) : asked'[n] = asked[n]
    BY <2>1, <2>2, <2>3
  <2>5. OtsInv'
    BY <1>1, <2>1 DEF Made
  <2>6. CountInv'
    <3>1. Outputs' = Outputs /\ outs' = outs /\ Len(outs') = Len(outs)
      BY <2>1 DEF Outputs
    <3>2. ctr' = Len(asked') * H_ROWS /\ ctr' <= Tau
      <4>1. (Len(asked) + 1) * H_ROWS = Len(asked) * H_ROWS + H_ROWS
        BY <2>2, Sizes
      <4>2. ctr' = Len(asked) * H_ROWS + H_ROWS /\ Len(asked') = Len(asked) + 1
        BY <2>1, <2>2, <2>4
      <4>3. ctr' = ctr + H_ROWS /\ Tau - ctr >= H_ROWS
        BY <2>1
      <4>4. ctr + H_ROWS <= Tau
        BY <2>2, <4>3, Sizes
      <4> QED BY <4>1, <4>2, <4>3, <4>4
    <3>3. ASSUME NEW n \in 1 .. Len(asked')
          PROVE  CallOf(asked'[n]) \in Calls /\ asked'[n].first_run = (n - 1) * H_ROWS
      <4>1. CASE n = Len(asked')
        <5>1. asked'[n] = ask /\ n - 1 = Len(asked)
          BY <2>2, <2>4, <4>1
        <5>2. ask.first_run = Len(asked) * H_ROWS
          BY <2>2
        <5> QED BY <2>3, <5>1, <5>2
      <4>2. CASE n # Len(asked')
        <5>1. n \in 1 .. Len(asked)
          BY <2>2, <2>4, <4>2
        <5> QED BY <1>0, <2>4, <5>1 DEF CountInv
      <4> QED BY <4>1, <4>2
    <3>4. sctr' = Len(outs) * H_ROWS
      BY <1>0, <2>1 DEF CountInv
    <3>5. Len(outs') <= Len(asked') /\ Len(asked') = Len(outs') + 1
      BY <2>2, <2>4, <3>1
    <3> QED BY <2>1, <2>2, <2>4, <3>1, <3>2, <3>3, <3>4, <3>5 DEF CountInv
  <2>7. RequestInv'
    <3>1. ask.first_run = ctr /\ ask.tag = call.tag /\ ask.input = call.input
      OBVIOUS
    <3>2. MadeLast' = request_evaluation(client, ctr, hash_to_zq_matrix(call.tag, call.input))
      <4>1. client' = client
        BY <2>1
      <4> HIDE DEF ask
      <4> QED BY <2>4, <3>1, <4>1 DEF MadeLast
    <3> QED BY <2>1, <3>2 DEF RequestInv
  <2>8. PacketInv'
    <3> DEFINE own == serialize_rows(request')
    <3>1. packet' = own
      BY <2>1
    <3>2. own = [k \in Rows |-> [e |-> serialize(request'[k].e, N), b_bar_prime |-> request'[k].b_bar_prime]]
      BY DEF serialize_rows
    <3>3. /\ DOMAIN packet' = Rows
          /\ \A k \in Rows : packet'[k].e = serialize(request'[k].e, N) /\ packet'[k].b_bar_prime = request'[k].b_bar_prime
      BY <3>1, <3>2
    <3> QED BY <3>3 DEF PacketInv
  <2>9. RequestsArrive'
    BY <2>1 DEF RequestsArrive
  <2>10. EvaluationRight'
    <3>1. DOMAIN outs' = 1 .. Len(outs) /\ outs' = outs /\ sk' = sk
      BY <2>1, <2>2
    <3>2. \A n \in DOMAIN outs' : asked'[n] = asked[n]
      BY <2>2, <2>4, <3>1
    <3> QED BY <1>0, <3>1, <3>2 DEF EvaluationRight
  <2> QED BY <2>5, <2>6, <2>7, <2>8, <2>9, <2>10 DEF Inv
<1>7. CASE Foreign
  <2>1. /\ stage = "arrive" /\ packet = serialize_rows(request)
        /\ UNCHANGED <<stage, sk, sent, received, client, server, ctr, sctr, asked, request, fin, rows, outs>>
    BY <1>7 DEF Foreign
  <2>2. PICK k \in Rows : \E p \in ForeignPacks(request[k].e, packet[k].e) :
          packet' = [packet EXCEPT ![k] = [e |-> p, b_bar_prime |-> packet[k].b_bar_prime]]
    BY <1>7 DEF Foreign
  <2>3. PICK p \in ForeignPacks(request[k].e, packet[k].e) :
          packet' = [packet EXCEPT ![k] = [e |-> p, b_bar_prime |-> packet[k].b_bar_prime]]
    BY <2>2
  <2>4. OtsInv'
    BY <1>1, <2>1 DEF Made
  <2>5. CountInv' /\ EvaluationRight'
    BY <1>2, <2>1
  <2>6. RequestInv'
    <3>1. MadeLast' = MadeLast
      BY <2>1 DEF MadeLast
    <3> QED BY <1>0, <2>1, <3>1 DEF RequestInv
  <2>7. PacketInv'
    <3>1. packet = [l \in Rows |-> [e |-> serialize(request[l].e, N), b_bar_prime |-> request[l].b_bar_prime]]
      BY <2>1 DEF serialize_rows
    <3>2. /\ DOMAIN packet = Rows
          /\ \A l \in Rows : packet[l].e = serialize(request[l].e, N) /\ packet[l].b_bar_prime = request[l].b_bar_prime
      BY <3>1
    <3>3. /\ DOMAIN packet' = Rows
          /\ packet'[k] = [e |-> p, b_bar_prime |-> packet[k].b_bar_prime]
          /\ \A l \in Rows : l # k => packet'[l] = packet[l]
      BY <2>3, <3>1
    <3>4. packet'[k].e = p /\ packet'[k].b_bar_prime = request[k].b_bar_prime
      BY <3>2, <3>3
    <3>5. p \in ForeignPacks(request[k].e, serialize(request[k].e, N))
      BY <3>2
    <3>6. ASSUME NEW l \in Rows
          PROVE  /\ packet'[l].e \in {serialize(request[l].e, N)}
                                      \union ForeignPacks(request[l].e, serialize(request[l].e, N))
                 /\ packet'[l].b_bar_prime = request[l].b_bar_prime
      <4>1. CASE l = k
        BY <3>4, <3>5, <4>1
      <4>2. CASE l # k
        BY <3>2, <3>3, <4>2
      <4> QED BY <4>1, <4>2
    <3>7. request' = request
      BY <2>1
    <3> QED BY <3>3, <3>6, <3>7 DEF PacketInv
  <2>8. RequestsArrive'
    BY <2>1 DEF RequestsArrive
  <2> QED BY <2>4, <2>5, <2>6, <2>7, <2>8 DEF Inv
<1>8. CASE ReceiveRequest
  <2>1. /\ stage = "arrive" /\ Readable /\ stage' = "eval"
        /\ rows' = [k \in Rows |-> [e |-> deserialize(packet[k].e, N), b_bar_prime |-> packet[k].b_bar_prime]]
        /\ UNCHANGED <<sk, sent, received, client, server, ctr, sctr, asked, request, fin, packet, outs>>
    BY <1>8 DEF ReceiveRequest
  <2>2. OtsInv'
    BY <1>1, <2>1 DEF Made
  <2>3. CountInv' /\ EvaluationRight'
    BY <1>2, <2>1
  <2>4. RequestInv'
    <3>1. MadeLast' = MadeLast
      BY <2>1 DEF MadeLast
    <3> QED BY <1>0, <2>1, <3>1 DEF RequestInv
  <2>5. PacketInv'
    BY <2>1 DEF PacketInv
  <2>6. RequestsArrive'
    <3>1. ASSUME NEW k \in Rows
          PROVE  /\ deserialize(packet[k].e, N) = request[k].e /\ packet[k].e.count = N
                 /\ packet[k].b_bar_prime = request[k].b_bar_prime
      <4>1. request[k].e \in [Coords -> Zq]
        BY <1>0, <2>1, LastCall
      <4>2. DeserializeOk(packet[k].e, N)
        BY <2>1 DEF Readable
      <4>3. /\ packet[k].e \in {serialize(request[k].e, N)}
                                 \union ForeignPacks(request[k].e, serialize(request[k].e, N))
            /\ packet[k].b_bar_prime = request[k].b_bar_prime
        BY <1>0, <2>1 DEF PacketInv
      <4> QED BY <4>1, <4>2, <4>3, ForeignRead
    <3>2. request = [l \in Rows |-> [e |-> request[l].e, b_bar_prime |-> request[l].b_bar_prime]]
      <4>1. 0 \in Rows
        BY Sizes DEF Rows
      <4> QED BY <1>0, <2>1, <4>1, LastCall
    <3>3. rows' = request
      BY <2>1, <3>1, <3>2
    <3> QED BY <2>1, <3>1, <3>3 DEF RequestsArrive
  <2> QED BY <2>2, <2>3, <2>4, <2>5, <2>6 DEF Inv
<1>9. CASE RefuseRequest
  <2>1. /\ stage = "arrive" /\ stage' = "refused"
        /\ UNCHANGED <<sk, sent, received, client, server, ctr, sctr, asked, request, fin, rows, outs>>
    BY <1>9 DEF RefuseRequest
  <2>2. OtsInv'
    BY <1>1, <2>1 DEF Made
  <2>3. CountInv' /\ EvaluationRight'
    BY <1>2, <2>1
  <2>4. RequestInv' /\ PacketInv' /\ RequestsArrive'
    BY <2>1 DEF RequestInv, PacketInv, RequestsArrive
  <2> QED BY <2>2, <2>3, <2>4 DEF Inv
<1>10. CASE Answer
  <2> DEFINE response == blind_eval_one(server, sk, sctr, rows)
             new == [k \in Rows |-> finalize_row(fin[k], response[k])]
             ask == asked[Len(asked)]
  <2>1. /\ stage = "eval" /\ sctr' = sctr + H_ROWS
        /\ outs' = Append(outs, new) /\ stage' = "request"
        /\ UNCHANGED <<sk, sent, received, client, server, ctr, asked>>
    <3>1. stage = "eval"
      BY <1>10 DEF Answer
    <3>2. rows = request
      BY <1>0, <3>1 DEF RequestsArrive
    <3>3. \A k \in Rows : response[k].ctr = fin[k].ctr
      BY <1>0, <3>1, <3>2, LastCall
    <3> QED BY <1>10, <3>3 DEF Answer
  <2>2. rows = request
    BY <1>0, <2>1 DEF RequestsArrive
  <2>3. 0 \in Rows
    BY Sizes DEF Rows
  <2>4. Len(asked) = Len(outs) + 1 /\ CallOf(ask) \in Calls
    BY <1>0, <2>1, <2>3, LastCall
  <2>5. new = evaluate(sk, ask.tag, ask.input)
    <3>1. ASSUME NEW k \in Rows PROVE finalize_row(fin[k], response[k]) = evaluate(sk, ask.tag, ask.input)[k]
      BY <1>0, <2>1, <2>2, LastCall
    <3>2. evaluate(sk, ask.tag, ask.input) = [k \in Rows |-> evaluate(sk, ask.tag, ask.input)[k]]
      BY DEF evaluate
    <3> QED BY <3>1, <3>2
  <2>6. new \in Outputs
    BY <2>4, <2>5 DEF Outputs, CallOf
  <2> HIDE DEF new
  <2>7. /\ outs \in Seq(Outputs) /\ Len(outs) \in Nat /\ sctr = Len(outs) * H_ROWS
        /\ asked \in Seq(Asks) /\ Len(asked) \in Nat /\ Outputs' = Outputs
    BY <1>0, <2>1 DEF CountInv, Outputs
  <2>8. OtsInv'
    BY <1>1, <2>1 DEF Made
  <2>9. RequestInv' /\ PacketInv' /\ RequestsArrive'
    BY <2>1 DEF RequestInv, PacketInv, RequestsArrive
  <2>10. CountInv' /\ EvaluationRight'
    <3>1. outs' = Append(outs, new) /\ stage' = "request"
      BY <2>1
    <3>2. /\ outs' \in Seq(Outputs) /\ Len(outs') = Len(outs) + 1 /\ outs'[Len(outs) + 1] = new
          /\ \A n \in 1 .. Len(outs) : outs'[n] = outs[n]
      BY <2>6, <2>7, <3>1
    <3>3. sctr' = Len(outs') * H_ROWS
      <4>1. (Len(outs) + 1) * H_ROWS = Len(outs) * H_ROWS + H_ROWS
        BY <2>7, Sizes
      <4> QED BY <2>1, <2>7, <3>2, <4>1
    <3>4. CountInv'
      <4>1. Len(outs') <= Len(asked') /\ Len(asked') = Len(outs')
        BY <2>1, <2>4, <2>7, <3>2
      <4> QED BY <1>0, <2>1, <2>7, <3>1, <3>2, <3>3, <4>1 DEF CountInv
    <3>5. ASSUME NEW n \in DOMAIN outs'
          PROVE  outs'[n] = evaluate(sk, asked[n].tag, asked[n].input)
      <4>1. n \in 1 .. Len(outs) + 1
        BY <3>2
      <4>2. CASE n = Len(outs) + 1
        BY <2>4, <2>5, <3>2, <4>2
      <4>3. CASE n # Len(outs) + 1
        <5>1. n \in 1 .. Len(outs) /\ n \in DOMAIN outs
          BY <2>7, <4>1, <4>3
        <5> QED BY <1>0, <3>2, <5>1 DEF EvaluationRight
      <4> QED BY <4>2, <4>3
    <3>6. EvaluationRight'
      BY <2>1, <3>5 DEF EvaluationRight
    <3> QED BY <3>4, <3>6
  <2> QED BY <2>8, <2>9, <2>10 DEF Inv
<1>11. CASE UNCHANGED vars
  <2>1. UNCHANGED <<stage, sk, sent, received, client, server, ctr, sctr, asked, request, fin, packet, rows, outs>>
    BY <1>11 DEF vars
  <2> QED BY <1>0, <2>1 DEF Inv, OtsInv, CountInv, RequestInv, PacketInv, RequestsArrive, EvaluationRight, MadeLast, Outputs
<1> QED BY <1>3, <1>4, <1>5, <1>6, <1>7, <1>8, <1>9, <1>10, <1>11 DEF Next

----------------------------------------------------------------------------
(* The theorems.                                                           *)

\* The states of both sides, their counters and what is on the wire belong together, in every
\* state of a session (preprocessing.rs, online.rs).
THEOREM EvaluationInv == Spec => []Inv
<1> QED BY InvInit, InvStep, PTL DEF Spec

\* finalize (online.rs) ends with the PRF of the client's tag and input under the server's key,
\* for every key, every outcome of the OTs, every number of calls and every hash.
THEOREM EvaluationCorrect == Spec => []EvaluationRight
<1>1. Inv => EvaluationRight
  BY DEF Inv
<1> QED BY <1>1, EvaluationInv, PTL

\* A request that the server reads is the client's (packing.rs), whatever the widths of elements
\* and bytes, and no vector of another length is read as one.
THEOREM RequestsRead == Spec => []RequestsArrive
<1>1. Inv => RequestsArrive
  BY DEF Inv
<1> QED BY <1>1, EvaluationInv, PTL

\* The 1-out-of-DELTA OTs give the receiver the sender's block of its choice and no other, and
\* no block comes twice (delta_ot.rs), for every DELTA and every count.
THEOREM DeltaOtsRight == Spec => []OtsMatch
<1>1. Inv => OtsMatch
  <2> SUFFICES ASSUME Inv, received # None PROVE OtsMatch
    BY DEF OtsMatch
  <2>1. PICK del \in DeltaCoins : sent = Sent /\ received = Received(del)
    BY DEF Inv, OtsInv, Made
  <2>2. Tau \in Nat /\ del \in [0 .. required_binary_ot_count(Tau) - 1 -> Bit]
    BY Sizes
  <2>3. sent = [k \in 0 .. Tau - 1 |-> [j \in Zdelta |-> SentBlock("delta", k, j)]]
    BY <2>1, <2>2, DeltaSent DEF Sent
  <2>4. received = [choices |-> [k \in 0 .. Tau - 1 |-> ChoiceOf(del, k)],
                    blocks  |-> [k \in 0 .. Tau - 1 |-> SentBlock("delta", k, ChoiceOf(del, k))]]
    BY <2>1, <2>2, DeltaReceived DEF Received
  <2>5. /\ DOMAIN sent = 0 .. Tau - 1 /\ DOMAIN received.choices = 0 .. Tau - 1
        /\ \A run \in 0 .. Tau - 1 : /\ received.choices[run] = ChoiceOf(del, run)
                                     /\ received.blocks[run] = SentBlock("delta", run, ChoiceOf(del, run))
                                     /\ \A j \in Zdelta : sent[run][j] = SentBlock("delta", run, j)
    BY <2>3, <2>4
  <2>6. ASSUME NEW run \in 0 .. Tau - 1, NEW j \in Zdelta
        PROVE  IF j = received.choices[run]
               THEN sent[run][j] = received.blocks[run]
               ELSE \E i \in ChoiceBits : \A other \in 0 .. Tau - 1, n \in ChoiceBits :
                      sent[run][j].blocks[i] # received.blocks[other].blocks[n]
    <3>1. CASE j = ChoiceOf(del, run)
      BY <2>5, <3>1
    <3>2. CASE j # ChoiceOf(del, run)
      <4>1. PICK i \in ChoiceBits : \A other \in 0 .. Tau - 1, n \in ChoiceBits :
              SentBlock("delta", run, j).blocks[i] # SentBlock("delta", other, ChoiceOf(del, other)).blocks[n]
        <5>1. Lacks("delta", del, Tau, run, j)
          BY <2>2, <3>2, DeltaSecret
        <5> QED BY <5>1 DEF Lacks
      <4> QED BY <2>5, <3>2, <4>1
    <3> QED BY <3>1, <3>2
  <2>7. ASSUME NEW run \in 0 .. Tau - 1, NEW other \in 0 .. Tau - 1, NEW j \in Zdelta, NEW k \in Zdelta,
               sent[run][j] = sent[other][k]
        PROVE  run = other /\ j = k
    BY <2>2, <2>5, <2>7, DeltaDistinct
  <2> QED BY <2>5, <2>6, <2>7 DEF OtsMatch
<1> QED BY <1>1, EvaluationInv, PTL

\* No byte of an expanded block masks two calls (expand), for every number of calls and runs.
THEOREM MasksNeverReused == Spec => []MasksFresh
<1>1. Inv => MasksFresh
  <2> SUFFICES ASSUME Inv, NEW x \in DOMAIN asked, NEW z \in DOMAIN asked, x # z
               PROVE  MaskBytes(asked[x]) \cap MaskBytes(asked[z]) = {}
    BY DEF MasksFresh
  <2>1. asked \in Seq(Asks) /\ \A n \in 1 .. Len(asked) : asked[n].first_run = (n - 1) * H_ROWS
    BY DEF Inv, CountInv
  <2>2. x \in 1 .. Len(asked) /\ z \in 1 .. Len(asked) /\ Len(asked) \in Nat
    BY <2>1
  <2>3. x - 1 \in Nat /\ z - 1 \in Nat /\ x - 1 # z - 1
    BY <2>2
  <2>4. asked[x].first_run = (x - 1) * H_ROWS /\ asked[z].first_run = (z - 1) * H_ROWS
    BY <2>1, <2>2
  <2> QED BY <2>3, <2>4, MaskBytesApart
<1> QED BY <1>1, EvaluationInv, PTL

\* Two calls hash the same bytes only when they have the same tag and the same input
\* (hash_to_zq_matrix), whatever their lengths.
THEOREM TagsNeverMix == Spec => []TagsSeparate
<1>1. Inv => TagsSeparate
  <2> SUFFICES ASSUME Inv, NEW x \in DOMAIN asked, NEW z \in DOMAIN asked,
                      ro_input(asked[x].tag, asked[x].input) = ro_input(asked[z].tag, asked[z].input)
               PROVE  asked[x].tag = asked[z].tag /\ asked[x].input = asked[z].input
    BY DEF TagsSeparate
  <2>1. asked \in Seq(Asks)
    BY DEF Inv, CountInv
  <2>2. asked[x] \in Asks /\ asked[z] \in Asks
    BY <2>1
  <2>3. /\ asked[x].tag \in Seq(0 .. 255) /\ asked[x].input \in Seq(0 .. 255)
        /\ asked[z].tag \in Seq(0 .. 255) /\ asked[z].input \in Seq(0 .. 255)
    BY <2>2 DEF Asks
  <2> QED BY <2>3, OracleInputs
<1> QED BY <1>1, EvaluationInv, PTL
=============================================================================
