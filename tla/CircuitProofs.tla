--------------------------- MODULE CircuitProofs ---------------------------
(***************************************************************************)
(* Proofs about the circuits of the two VOPRF statements (OnlineCircuit    *)
(* and PreprocCircuit), for every prime, key, table of masks, of pads, and *)
(* opening within the assumptions of the circuits: whatever a prover puts  *)
(* in the columns, an accepted row says what its statement claims, and the *)
(* columns of an honest prover satisfy every rule.                         *)
(*                                                                         *)
(* Every rule is an equation mod the prime.  The arguments are the same    *)
(* throughout: both sides are bounded, the bounds are closer together than *)
(* the prime, so the equation holds of the numbers themselves; and a       *)
(* number is r + k * q for one r below q only.                             *)
(***************************************************************************)
EXTENDS OnlineCircuit, PreprocCircuit, MaterialProofs

----------------------------------------------------------------------------
(* The field.                                                              *)

\* Multiplication keeps the order.
LEMMA TimesMonotone ==
    ASSUME NEW k \in Nat, NEW l \in Nat, NEW n \in Nat, k <= l
    PROVE  k * n \in Nat /\ l * n \in Nat /\ k * n <= l * n
<1>1. PICK x \in Nat : l = k + x
  <2>1. l - k \in Nat /\ l = k + (l - k)
    OBVIOUS
  <2> QED BY <2>1
<1>2. l * n = k * n + x * n
  BY <1>1
<1>3. k * n \in Nat /\ x * n \in Nat
  BY <1>1
<1> QED BY <1>2, <1>3

\* What the assumptions of the circuits say of their bounds.
LEMMA FieldBounds ==
    /\ Pf \in Nat \ {0} /\ N_BITS \in Nat /\ BITS_PER_ELEMENT \in Nat \ {0}
    /\ Pow2(N_BITS) \in Nat /\ N + 1 <= Pow2(N_BITS)
    /\ Q * Pow2(N_BITS) \in Nat /\ Q * Pow2(N_BITS) < Pf
    /\ (N + 1) * Q \in Nat /\ (N + 1) * Q <= Q * Pow2(N_BITS)
    /\ 2 * Q <= (N + 1) * Q
    /\ Pow2(BITS_PER_ELEMENT) <= Pf
<1> DEFINE W == Pow2(N_BITS)
<1>1. /\ Pf \in Nat /\ N_BITS \in Nat /\ BITS_PER_ELEMENT \in Nat \ {0}
      /\ N < W /\ Q * W < Pf /\ Pow2(BITS_PER_ELEMENT) <= Pf
  BY CircuitAssumption
<1>2. W \in Nat
  BY <1>1, PowPositive
<1> HIDE DEF W
<1>3. N \in Nat \ {0} /\ Q \in Nat
  BY Moduli
<1>4. N + 1 <= W /\ 2 <= N + 1 /\ N + 1 \in Nat
  BY <1>1, <1>2, <1>3
<1>5. (N + 1) * Q <= W * Q /\ (N + 1) * Q \in Nat /\ W * Q \in Nat
  BY <1>2, <1>3, <1>4, TimesMonotone
<1>6. 2 * Q <= (N + 1) * Q
  <2>1. 2 \in Nat
    OBVIOUS
  <2> QED BY <1>3, <1>4, <2>1, TimesMonotone
<1>7. W * Q = Q * W
  BY <1>2, <1>3
<1>8. Pf # 0
  BY <1>1, <1>5, <1>7
<1> QED BY <1>1, <1>2, <1>4, <1>5, <1>6, <1>7, <1>8 DEF W

\* DELTA is even, p is at most half of q, and DELTA at most q.
LEMMA EvenDelta ==
    /\ \E h \in Nat \ {0} : DELTA = 2 * h /\ DELTA \div 2 = h
    /\ DELTA <= Q /\ 2 * P <= Q
<1>1. PICK w \in 1 .. DELTA : DELTA = Pow2(w)
  BY CircuitAssumption
<1>2. DELTA \in Nat /\ P \in Nat \ {0}
  BY Moduli
<1>3. w - 1 \in Nat /\ (w - 1) + 1 = w
  BY <1>1, <1>2
<1> DEFINE h == Pow2(w - 1)
<1>4. h \in Nat \ {0} /\ Pow2((w - 1) + 1) = 2 * h
  BY <1>3, PowPositive, PowStep
<1> HIDE DEF h
<1>5. DELTA = 2 * h
  BY <1>1, <1>3, <1>4
<1>6. (h * 2 + 0) \div 2 = h
  <2>1. h \in Int /\ 2 \in Nat \ {0} /\ 0 \in 0 .. 2 - 1
    BY <1>4
  <2> QED BY <2>1, ModUnique
<1>7. DELTA \div 2 = h
  BY <1>4, <1>5, <1>6
<1>8. 1 * DELTA <= P * DELTA /\ 2 * P <= DELTA * P
  <2>1. 1 \in Nat /\ 2 \in Nat /\ 1 <= P /\ 2 <= DELTA
    BY <1>2, <1>4, <1>5
  <2> QED BY <1>2, <2>1, TimesMonotone
<1>9. P * DELTA = DELTA * P /\ 1 * DELTA = DELTA
  BY <1>2
<1> QED BY <1>4, <1>5, <1>7, <1>8, <1>9 DEF Q

\* An equation of the field between numbers that are closer than the prime is one of numbers.
LEMMA FieldEqual ==
    ASSUME NEW x \in Int, NEW z \in Int, assert_eq(x, z), -Pf < x - z, x - z < Pf
    PROVE  x = z
<1>1. Pf \in Nat \ {0} /\ x % Pf = z % Pf
  BY FieldBounds DEF assert_eq
<1>2. PICK k \in Int : x = z + k * Pf
  BY <1>1, ModEqual DEF Cong
<1>3. k * Pf = x - z /\ x - z \in Int
  BY <1>1, <1>2
<1>4. k = 0
  BY <1>1, <1>3, NoMultiple
<1> QED BY <1>1, <1>2, <1>4

\* A sum of k numbers up to b.
LEMMA PartialBound ==
    ASSUME NEW f, NEW k \in Nat, NEW b \in Nat, \A i \in 1 .. k : f[i] \in 0 .. b
    PROVE  Partial(f, k) \in 0 .. k * b
<1> DEFINE T == {n \in Nat : n <= k => Partial(f, n) \in 0 .. n * b}
<1>1. 0 \in T
  <2>1. Partial(f, 0) = 0 /\ 0 * b = 0
    BY PartialEquations
  <2> QED BY <2>1
<1>2. ASSUME NEW n \in T PROVE n + 1 \in T
  <2>1. n \in Nat /\ (n <= k => Partial(f, n) \in 0 .. n * b)
    OBVIOUS
  <2> SUFFICES ASSUME n + 1 <= k PROVE Partial(f, n + 1) \in 0 .. (n + 1) * b
    BY <2>1
  <2>2. Partial(f, n) \in 0 .. n * b /\ f[n + 1] \in 0 .. b
    BY <2>1
  <2>3. Partial(f, n + 1) = Partial(f, n) + f[n + 1]
    BY <2>1, PartialEquations
  <2>4. (n + 1) * b = n * b + b /\ n * b \in Nat
    BY <2>1
  <2> QED BY <2>2, <2>3, <2>4
<1> HIDE DEF T
<1>3. T = Nat
  BY <1>1, <1>2, SetInduction DEF T
<1> QED BY <1>3 DEF T

\* The rule of a sum with its quotient by q, as (T) and (A) have it: the only number below q it
\* admits is the sum reduced.
LEMMA QuotientRule ==
    ASSUME NEW s \in Nat, s < Pf, NEW r \in Zq, NEW quotient \in Bits(QUOTIENT_BITS),
           assert_eq(s, r + quotient * Q)
    PROVE  r = reduce_q(s)
<1> DEFINE W == Pow2(N_BITS)
<1>1. W \in Nat /\ Q * W < Pf /\ Q \in Nat \ {0}
  BY FieldBounds, Moduli
<1>2. quotient \in Nat /\ quotient + 1 <= W
  BY <1>1 DEF Bits, QUOTIENT_BITS
<1>3. r \in Nat /\ r < Q
  BY RingNat
<1> HIDE DEF W
<1>4. (quotient + 1) * Q <= W * Q /\ (quotient + 1) * Q = quotient * Q + Q /\ W * Q = Q * W
  <2>1. quotient + 1 \in Nat
    BY <1>2
  <2> QED BY <1>1, <1>2, <2>1, TimesMonotone
<1>5. quotient * Q \in Nat
  BY <1>1, <1>2
<1>6. r + quotient * Q \in Nat /\ r + quotient * Q < Pf
  <2> DEFINE k == quotient * Q
             b == W * Q
  <2>1. r \in Nat /\ r < Q /\ k \in Nat /\ k + Q <= b /\ b < Pf /\ Q \in Nat /\ b \in Nat /\ Pf \in Nat
    BY <1>1, <1>3, <1>4, <1>5, FieldBounds
  <2> HIDE DEF k, b
  <2>2. r + k \in Nat /\ r + k < Pf
    BY <2>1
  <2> QED BY <2>2 DEF k
<1>7. s = r + quotient * Q
  <2>1. Pf \in Nat
    BY FieldBounds
  <2>2. -Pf < s - (r + quotient * Q) /\ s - (r + quotient * Q) < Pf
    BY <1>6, <2>1
  <2> QED BY <1>6, <2>2, FieldEqual
<1>8. (quotient * Q + r) % Q = r
  <2>1. quotient \in Int /\ r \in 0 .. Q - 1
    BY <1>1, <1>2, <1>3
  <2> QED BY <1>1, <2>1, ModUnique
<1>9. r + quotient * Q = quotient * Q + r
  BY <1>3, <1>5
<1> QED BY <1>7, <1>8, <1>9 DEF reduce_q

\* The sum reduced and its quotient satisfy it, and there are bits enough for the quotient.
LEMMA QuotientFits ==
    ASSUME NEW s \in Nat, s < (N + 1) * Q
    PROVE  /\ reduce_q(s) \in Zq /\ quotient_q(s) \in Bits(QUOTIENT_BITS)
           /\ s = reduce_q(s) + quotient_q(s) * Q
           /\ s < Pf
<1> DEFINE W == Pow2(N_BITS)
           h == s \div Q
           r == s % Q
<1>1. /\ W \in Nat /\ Q \in Nat \ {0} /\ N + 1 <= W /\ N \in Nat
      /\ (N + 1) * Q <= Q * W /\ Q * W < Pf /\ Pf \in Nat /\ Q * W \in Nat /\ (N + 1) * Q \in Nat
  BY FieldBounds, Moduli
<1>2. h \in Int /\ r \in 0 .. Q - 1 /\ s = h * Q + r
  <2>1. s \in Int
    OBVIOUS
  <2> QED BY <1>1, <2>1, DivMod
<1> HIDE DEF W, h, r
<1>3. h >= 0
  <2> SUFFICES ASSUME h <= -1 PROVE FALSE
    BY <1>2
  <2>1. -h - 1 \in Nat /\ (-h - 1) * Q \in Nat
    BY <1>1, <1>2
  <2>2. h * Q = -((-h - 1) * Q) - Q
    BY <1>1, <1>2
  <2>3. (-h - 1) * Q >= 0 /\ r < Q /\ r \in Int
    BY <1>1, <1>2, <2>1
  <2> QED BY <1>1, <1>2, <2>1, <2>2, <2>3
<1>4. h < N + 1
  <2> SUFFICES ASSUME N + 1 <= h PROVE FALSE
    BY <1>1, <1>2
  <2>1. (N + 1) * Q <= h * Q /\ h * Q \in Nat
    <3>1. h \in Nat /\ N + 1 \in Nat /\ Q \in Nat
      BY <1>1, <1>2, <1>3
    <3> QED BY <3>1, TimesMonotone
  <2> QED BY <1>1, <1>2, <2>1
<1>5. h \in 0 .. W - 1
  BY <1>1, <1>2, <1>3, <1>4
<1>6. s = r + h * Q
  <2>1. h * Q \in Int
    BY <1>1, <1>2
  <2> QED BY <1>1, <1>2, <2>1
<1> QED BY <1>1, <1>2, <1>5, <1>6 DEF reduce_q, quotient_q, Bits, QUOTIENT_BITS, Zq, h, r, W

----------------------------------------------------------------------------
(* Constraint (K).                                                         *)

\* Division keeps the order.
LEMMA DivMonotone ==
    ASSUME NEW k \in Nat, NEW l \in Nat, NEW n \in Nat \ {0}, k <= l
    PROVE  k \div n \in Nat /\ l \div n \in Nat /\ k \div n <= l \div n
<1> DEFINE a == k \div n
           b == l \div n
<1>1. a \in Nat /\ b \in Nat /\ k % n \in 0 .. n - 1 /\ l % n \in 0 .. n - 1
  OBVIOUS
<1>2. k = a * n + (k % n) /\ l = b * n + (l % n)
  BY DivMod
<1> HIDE DEF a, b
<1>3. ASSUME b + 1 <= a PROVE FALSE
  <2>1. (b + 1) * n <= a * n /\ a * n \in Nat /\ b * n \in Nat /\ (b + 1) * n = b * n + n
    <3>1. b + 1 \in Nat /\ n \in Nat
      BY <1>1
    <3>2. (b + 1) * n <= a * n /\ a * n \in Nat
      BY <1>1, <1>3, <3>1, TimesMonotone
    <3> QED BY <1>1, <3>2
  <2> QED BY <1>1, <1>2, <2>1
<1>4. a <= b
  BY <1>1, <1>3
<1> QED BY <1>1, <1>4 DEF a, b

\* Each coordinate has its bit in one element of the packed key.
LEMMA KeyBit ==
    ASSUME NEW i \in Coords
    PROVE  \E n \in 0 .. (N - 1) \div BITS_PER_ELEMENT, k \in 0 .. BITS_PER_ELEMENT - 1 :
              n * BITS_PER_ELEMENT + k + 1 = i
<1>1. N \in Nat \ {0} /\ BITS_PER_ELEMENT \in Nat \ {0}
  BY Moduli, FieldBounds
<1>2. i - 1 \in Nat /\ N - 1 \in Nat /\ i - 1 <= N - 1 /\ i \in Int
  BY <1>1 DEF Coords
<1> DEFINE n == (i - 1) \div BITS_PER_ELEMENT
           k == (i - 1) % BITS_PER_ELEMENT
<1>3. n \in Nat /\ n <= (N - 1) \div BITS_PER_ELEMENT /\ (N - 1) \div BITS_PER_ELEMENT \in Nat
  BY <1>1, <1>2, DivMonotone
<1>4. k \in 0 .. BITS_PER_ELEMENT - 1 /\ i - 1 = n * BITS_PER_ELEMENT + k
  <2>1. i - 1 \in Int
    BY <1>2
  <2> QED BY <1>1, <2>1, DivMod
<1> HIDE DEF n, k
<1>5. n * BITS_PER_ELEMENT + k + 1 = i
  <2>1. n * BITS_PER_ELEMENT \in Nat /\ k \in Nat
    BY <1>1, <1>3, <1>4
  <2> QED BY <1>2, <1>4, <2>1
<1> QED BY <1>3, <1>4, <1>5

\* An element of the packing of a key fits in the field, and its bits are those of the key.
LEMMA PackedBits ==
    ASSUME NEW key \in [Coords -> Bit], NEW n \in Nat
    PROVE  /\ packed(key, n) \in Nat /\ packed(key, n) < Pf
           /\ \A k \in 0 .. BITS_PER_ELEMENT - 1 :
                 n * BITS_PER_ELEMENT + k < N =>
                    bit(packed(key, n), k) = key[n * BITS_PER_ELEMENT + k + 1]
<1> DEFINE B == BITS_PER_ELEMENT
           s == [k \in 0 .. B - 1 |-> IF n * B + k < N THEN key[n * B + k + 1] ELSE 0]
<1>1. B \in Nat \ {0} /\ Pow2(B) <= Pf /\ Pf \in Nat /\ N \in Nat
  BY FieldBounds, Moduli
<1>2. packed(key, n) = FromBits(s, B)
  BY DEF packed
<1>3. ASSUME NEW k \in 0 .. B - 1
      PROVE  s[k] \in Bit /\ (n * B + k < N => s[k] = key[n * B + k + 1])
  <2>1. CASE n * B + k < N
    <3>1. n * B \in Nat /\ k \in Nat
      BY <1>1
    <3>2. n * B + k + 1 \in Coords
      BY <1>1, <2>1, <3>1 DEF Coords
    <3> QED BY <2>1, <3>2
  <2>2. CASE ~(n * B + k < N)
    BY <2>2 DEF Bit
  <2> QED BY <2>1, <2>2
<1> HIDE DEF s
<1>4. B \in Nat
  BY <1>1
<1>5. /\ FromBits(s, B) \in 0 .. Pow2(B) - 1
      /\ \A i \in 0 .. B - 1 : bit(FromBits(s, B), i) = s[i]
  BY <1>3, <1>4, BitsOfNumber
<1>6. FromBits(s, B) \in Nat /\ FromBits(s, B) < Pf
  <2>1. Pow2(B) \in Nat
    BY <1>4, PowPositive
  <2> QED BY <1>1, <1>5, <2>1
<1> QED BY <1>2, <1>3, <1>5, <1>6

\* The rules of (K) admit one key, the committed one: the bits that pack to the same elements of
\* the field are the same.
LEMMA KeyUnique ==
    ASSUME sk \in [Coords -> Bit]
    PROVE  KeyColumns(pack_key(sk)) = {sk}
<1> DEFINE B == BITS_PER_ELEMENT
           D == 0 .. (N - 1) \div B
<1>1. B \in Nat \ {0} /\ N \in Nat \ {0} /\ Pf \in Nat \ {0}
  BY FieldBounds, Moduli
<1>2. D \subseteq Nat
  <2>1. N - 1 \in Nat /\ (N - 1) \div B \in Nat
    BY <1>1
  <2> QED BY <2>1
<1>3. DOMAIN pack_key(sk) = D /\ \A n \in D : pack_key(sk)[n] = packed(sk, n)
  BY DEF pack_key
<1>4. sk \in KeyColumns(pack_key(sk))
  BY <1>3 DEF KeyColumns, assert_eq
<1>5. ASSUME NEW key \in KeyColumns(pack_key(sk)) PROVE key = sk
  <2>1. key \in [Coords -> Bit] /\ \A n \in D : assert_eq(packed(key, n), packed(sk, n))
    BY <1>3 DEF KeyColumns
  <2>2. ASSUME NEW n \in D PROVE packed(key, n) = packed(sk, n)
    <3>1. n \in Nat
      BY <1>2
    <3>2. packed(key, n) \in Nat /\ packed(key, n) < Pf /\ packed(sk, n) \in Nat /\ packed(sk, n) < Pf
      BY <2>1, <3>1, PackedBits
    <3>3. assert_eq(packed(key, n), packed(sk, n))
      BY <2>1
    <3> DEFINE a == packed(key, n)
               b == packed(sk, n)
    <3> HIDE DEF a, b
    <3>4. a \in Int /\ b \in Int /\ assert_eq(a, b) /\ -Pf < a - b /\ a - b < Pf
      BY <1>1, <3>2, <3>3 DEF a, b
    <3>5. a = b
      BY <3>4, FieldEqual
    <3> QED BY <3>5 DEF a, b
  <2>3. ASSUME NEW i \in Coords PROVE key[i] = sk[i]
    <3>1. PICK n \in D, k \in 0 .. B - 1 : n * B + k + 1 = i
      BY KeyBit
    <3>2. n \in Nat /\ n * B \in Nat /\ k \in Nat
      BY <1>1, <1>2
    <3>3. n * B + k < N
      BY <1>1, <3>1, <3>2 DEF Coords
    <3>4. bit(packed(key, n), k) = key[n * B + k + 1] /\ bit(packed(sk, n), k) = sk[n * B + k + 1]
      BY <2>1, <3>2, <3>3, PackedBits
    <3> QED BY <2>2, <3>1, <3>4
  <2> QED BY <2>1, <2>3
<1> QED BY <1>4, <1>5

----------------------------------------------------------------------------
(* The online circuit: constraints (A), (R) and (P) on one row.            *)

\* Every row is one entry of one run.
LEMMA RowOfTable ==
    ASSUME NEW x \in Nat
    PROVE  run(x) \in Runs /\ entry(x) \in Zdelta
<1>1. RUNS_PER_EVALUATION \in Nat \ {0} /\ DELTA \in Nat \ {0}
  BY OnlineAssumption, Moduli
<1>2. x \div DELTA \in Int /\ x \div 1 \in Int
  BY <1>1
<1>3. /\ (x \div DELTA) % RUNS_PER_EVALUATION \in 0 .. RUNS_PER_EVALUATION - 1
      /\ (x \div 1) % DELTA \in 0 .. DELTA - 1
  BY <1>1, <1>2, DivMod
<1> QED BY <1>3 DEF run, entry, selected, Runs, Zdelta

\* (R) adds 1 to the quotient exactly where rounding does.
LEMMA UpRounds ==
    ASSUME NEW v \in Zq
    PROVE  (v \div DELTA) + up(v % DELTA) = round(v)
<1>1. PICK h \in Nat \ {0} : DELTA = 2 * h /\ DELTA \div 2 = h
  BY EvenDelta
<1> DEFINE rem == v % DELTA
           top == rem \div h
           low == rem % h
<1>2. v \in Int /\ DELTA \in Nat \ {0}
  BY RingNat, Moduli
<1>3. rem \in 0 .. DELTA - 1
  BY <1>2, DivMod
<1> HIDE DEF rem
<1>4. rem \in Int
  BY <1>2, <1>3
<1>5. top \in Int /\ low \in 0 .. h - 1 /\ rem = top * h + low
  BY <1>1, <1>4, DivMod
<1> HIDE DEF top, low
<1>6. up(rem) = top * (IF low = 0 THEN 0 ELSE 1)
  BY <1>1 DEF up, top, low
<1>7. top \in {0, 1}
  <2>1. top >= 0
    <3> SUFFICES ASSUME top <= -1 PROVE FALSE
      BY <1>5
    <3>1. (-top - 1) * h \in Nat /\ top * h = -((-top - 1) * h) - h
      BY <1>1, <1>5
    <3> QED BY <1>1, <1>3, <1>5, <3>1
  <2>2. top <= 1
    <3> SUFFICES ASSUME 2 <= top PROVE FALSE
      BY <1>5
    <3>1. 2 \in Nat /\ top \in Nat /\ h \in Nat
      BY <1>1, <1>5, <2>1
    <3>2. 2 * h <= top * h
      BY <3>1, TimesMonotone
    <3> QED BY <1>1, <1>3, <1>5, <3>1, <3>2
  <2> QED BY <1>5, <2>1, <2>2
<1>8. up(rem) = IF rem > h THEN 1 ELSE 0
  <2>1. CASE top = 0
    <3>1. rem = low /\ ~(rem > h)
      BY <1>1, <1>5, <2>1
    <3> QED BY <1>6, <2>1, <3>1
  <2>2. CASE top = 1
    <3>1. rem = h + low
      BY <1>1, <1>5, <2>2
    <3>2. rem > h <=> low # 0
      BY <1>1, <1>5, <3>1
    <3> QED BY <1>6, <2>2, <3>2
  <2> QED BY <1>7, <2>1, <2>2
<1> QED BY <1>1, <1>8 DEF round, rem

\* A rounded value, before its reduction, is at most p.
LEMMA RoundBound ==
    ASSUME NEW v \in Zq
    PROVE  round(v) \in 0 .. P
<1>1. v \in Nat /\ v < P * DELTA /\ P \in Nat \ {0} /\ DELTA \in Nat \ {0}
  BY RingNat, Moduli DEF Q
<1> DEFINE a == v \div DELTA
<1>2. a \in Nat /\ v % DELTA \in 0 .. DELTA - 1 /\ v = a * DELTA + (v % DELTA)
  BY <1>1
<1>3. round(v) = a \/ round(v) = a + 1
  BY <1>1, <1>2 DEF round
<1> HIDE DEF a
<1>4. ASSUME P <= a PROVE FALSE
  <2>1. P * DELTA <= a * DELTA /\ a * DELTA \in Nat /\ P * DELTA \in Nat
    BY <1>1, <1>2, <1>4, TimesMonotone
  <2> QED BY <1>1, <1>2, <2>1
<1>5. a <= P - 1
  BY <1>1, <1>2, <1>4
<1> QED BY <1>1, <1>2, <1>3, <1>5

\* The subtraction of (R), with a wrap that the prover chooses, is subtraction mod q.
LEMMA Subtraction ==
    ASSUME NEW a \in Zq, NEW j \in Zdelta, NEW t \in Zq, NEW wrapped \in Bit,
           assert_eq(t, a - j + wrapped * Q)
    PROVE  t = sub_q(a, j)
<1>1. /\ a \in Nat /\ a < Q /\ t \in Nat /\ t < Q /\ j \in Nat /\ j < Q /\ Q \in Nat \ {0}
      /\ Pf \in Nat /\ 2 * Q < Pf
  BY RingNat, EvenDelta, Moduli, FieldBounds
<1>2. wrapped * Q \in {0, Q}
  BY <1>1 DEF Bit
<1>3. t = a - j + wrapped * Q
  <2> DEFINE x == wrapped * Q
  <2> HIDE DEF x
  <2>1. a - j + x \in Int /\ assert_eq(t, a - j + x)
    BY <1>1, <1>2 DEF x
  <2>2. -Pf < t - (a - j + x) /\ t - (a - j + x) < Pf
    BY <1>1, <1>2 DEF x
  <2>3. t = a - j + x
    BY <1>1, <2>1, <2>2, FieldEqual
  <2> QED BY <2>3 DEF x
<1>4. PICK k \in {0, 1} : a + Q - j = k * Q + t
  <2>1. CASE wrapped = 0
    <3>1. a + Q - j = 1 * Q + t
      BY <1>1, <1>3, <2>1
    <3> QED BY <3>1
  <2>2. CASE wrapped = 1
    <3>1. a + Q - j = 0 * Q + t
      BY <1>1, <1>3, <2>2
    <3> QED BY <3>1
  <2> QED BY <2>1, <2>2 DEF Bit
<1>5. (k * Q + t) % Q = t
  <2>1. k \in Int /\ t \in 0 .. Q - 1
    BY <1>1
  <2> QED BY <1>1, <2>1, ModUnique
<1> QED BY <1>4, <1>5 DEF sub_q, reduce_q

\* The column of a prover that subtracts honestly satisfies it.
LEMMA HonestSubtraction ==
    ASSUME NEW a \in Zq, NEW j \in Zdelta
    PROVE  /\ sub_q(a, j) \in Zq
           /\ sub_q(a, j) = a - j + (IF a < j THEN 1 ELSE 0) * Q
<1>1. a \in Nat /\ a < Q /\ j \in Nat /\ j < Q /\ Q \in Nat \ {0}
  BY RingNat, EvenDelta, Moduli
<1>2. CASE a < j
  <2>1. a + Q - j = 0 * Q + (a + Q - j) /\ a + Q - j \in 0 .. Q - 1
    BY <1>1, <1>2
  <2>2. (0 * Q + (a + Q - j)) % Q = a + Q - j
    <3> DEFINE x == a + Q - j
    <3> HIDE DEF x
    <3>1. 0 \in Int /\ x \in 0 .. Q - 1
      BY <2>1 DEF x
    <3>2. (0 * Q + x) % Q = x
      BY <1>1, <3>1, ModUnique
    <3> QED BY <3>2 DEF x
  <2>3. 1 * Q = Q
    BY <1>1
  <2> QED BY <1>1, <1>2, <2>1, <2>2, <2>3 DEF sub_q, reduce_q, Zq
<1>3. CASE ~(a < j)
  <2>1. a + Q - j = 1 * Q + (a - j) /\ a - j \in 0 .. Q - 1
    BY <1>1, <1>3
  <2>2. (1 * Q + (a - j)) % Q = a - j
    <3> DEFINE x == a - j
    <3> HIDE DEF x
    <3>1. 1 \in Int /\ x \in 0 .. Q - 1
      BY <2>1 DEF x
    <3>2. (1 * Q + x) % Q = x
      BY <1>1, <3>1, ModUnique
    <3> QED BY <3>2 DEF x
  <2>3. 0 * Q = 0
    BY <1>1
  <2> QED BY <1>1, <1>3, <2>1, <2>2, <2>3 DEF sub_q, reduce_q, Zq
<1> QED BY <1>2, <1>3

\* The carry of (R): a value that is congruent to a rounded value and a pad, and is reduced itself,
\* is their sum mod p.
LEMMA Carry ==
    ASSUME NEW r \in 0 .. P, NEW g \in Zp, NEW carry \in Bit, NEW z \in Zp,
           assert_eq(r + g - carry * P, z)
    PROVE  z = reduce_p(r + g)
<1>1. /\ P \in Nat \ {0} /\ g \in Nat /\ g < P /\ z \in Nat /\ z < P /\ r \in Nat /\ r <= P
      /\ Pf \in Nat /\ 2 * P < Pf
  BY RingNat, Moduli, FieldBounds, EvenDelta
<1>2. carry \in {0, 1} /\ carry * P \in {0, P}
  BY <1>1 DEF Bit
<1>3. r + g - carry * P = z
  <2> DEFINE x == carry * P
  <2>1. x \in {0, P} /\ assert_eq(r + g - x, z)
    BY <1>2
  <2> HIDE DEF x
  <2>2. r + g - x \in Int /\ -Pf < (r + g - x) - z /\ (r + g - x) - z < Pf /\ z \in Int
    BY <1>1, <2>1
  <2>3. r + g - x = z
    BY <2>1, <2>2, FieldEqual
  <2> QED BY <2>3 DEF x
<1>4. r + g = carry * P + z
  BY <1>1, <1>2, <1>3
<1>5. (carry * P + z) % P = z
  <2>1. carry \in Int /\ z \in 0 .. P - 1
    BY <1>1, <1>2
  <2> QED BY <1>1, <2>1, ModUnique
<1> QED BY <1>4, <1>5 DEF reduce_p

\* The carry of a prover that adds honestly satisfies it.
LEMMA HonestCarry ==
    ASSUME NEW r \in 0 .. P, NEW g \in Zp
    PROVE  r + g - (IF r + g >= P THEN 1 ELSE 0) * P = reduce_p(r + g)
<1>1. P \in Nat \ {0} /\ g \in Nat /\ g < P /\ r \in Nat /\ r <= P
  BY RingNat, Moduli
<1> DEFINE s == r + g
<1>2. s \in Nat /\ s <= 2 * P - 1
  BY <1>1
<1> HIDE DEF s
<1>3. CASE s >= P
  <2> DEFINE x == s - P
  <2>1. s = 1 * P + x /\ x \in 0 .. P - 1
    BY <1>1, <1>2, <1>3
  <2> HIDE DEF x
  <2>2. 1 \in Int
    OBVIOUS
  <2>3. (1 * P + x) % P = x
    BY <1>1, <2>1, <2>2, ModUnique
  <2> QED BY <1>1, <1>3, <2>1, <2>3 DEF reduce_p, s
<1>4. CASE ~(s >= P)
  <2>1. s = 0 * P + s /\ s \in 0 .. P - 1
    BY <1>1, <1>2, <1>4
  <2>2. 0 \in Int
    OBVIOUS
  <2>3. (0 * P + s) % P = s
    BY <1>1, <2>1, <2>2, ModUnique
  <2> QED BY <1>1, <1>4, <2>1, <2>3 DEF reduce_p, s
<1> QED BY <1>3, <1>4

\* respond reduces the rounded value before it adds the pad; (R) does not.
LEMMA ReducedOnce ==
    ASSUME NEW r \in Int, NEW g \in Int
    PROVE  add_p(reduce_p(r), g) = reduce_p(r + g)
<1>1. P \in Nat \ {0}
  BY Moduli
<1>2. r % P \in Int /\ Cong(r % P, r, P)
  BY <1>1, ModCong
<1>3. Cong(g, g, P)
  <2>1. g = g + 0 * P /\ 0 \in Int
    BY <1>1
  <2> QED BY <2>1 DEF Cong
<1>4. Cong((r % P) + g, r + g, P)
  BY <1>1, <1>2, <1>3, CongAdd
<1>5. (r % P) + g \in Int /\ r + g \in Int
  BY <1>2
<1>6. ((r % P) + g) % P = (r + g) % P
  BY <1>1, <1>4, <1>5, CongMod
<1> QED BY <1>6 DEF add_p, reduce_p

\* The sum of (A), over the coordinates where the key's bit is 1: as the circuit and as
\* a_sigma_sum write it, and its bound.
LEMMA OnlineSum ==
    ASSUME NEW key \in [Coords -> Bit], NEW e \in [Coords -> Zq], NEW r \in Zq
    PROVE  LET s == Partial([k \in Coords |-> key[k] * e[k]], N) + r
           IN  s \in Nat /\ s < (N + 1) * Q /\ a_sigma_sum(key, r, e) = reduce_q(s)
<1> DEFINE f == [k \in Coords |-> key[k] * e[k]]
           g == [k \in Coords |-> IF key[k] = 0 THEN 0 ELSE e[k]]
<1>1. N \in Nat /\ Q \in Nat \ {0} /\ Coords = 1 .. N
  BY Moduli DEF Coords
<1>2. ASSUME NEW i \in 1 .. N PROVE f[i] = g[i] /\ f[i] \in 0 .. Q - 1
  <2>1. i \in Coords /\ e[i] \in Nat /\ e[i] < Q /\ key[i] \in Bit
    BY <1>1, RingNat
  <2>2. f[i] = key[i] * e[i] /\ g[i] = IF key[i] = 0 THEN 0 ELSE e[i]
    BY <2>1
  <2> HIDE DEF f, g
  <2>3. CASE key[i] = 0
    BY <1>1, <2>1, <2>2, <2>3
  <2>4. CASE key[i] = 1
    BY <1>1, <2>1, <2>2, <2>4
  <2> QED BY <2>1, <2>3, <2>4 DEF Bit
<1> HIDE DEF f, g
<1>3. Partial(f, N) = Partial(g, N)
  BY <1>1, <1>2, PartialSame
<1>4. Partial(f, N) \in 0 .. N * (Q - 1)
  <2>1. Q - 1 \in Nat
    BY <1>1
  <2> QED BY <1>1, <1>2, <2>1, PartialBound
<1>5. N * (Q - 1) = N * Q - N /\ (N + 1) * Q = N * Q + Q /\ N * Q \in Nat
  BY <1>1
<1>6. Partial(f, N) + r \in Nat /\ Partial(f, N) + r < (N + 1) * Q
  <2> DEFINE x == N * Q
             p == Partial(f, N)
             b == N * (Q - 1)
             l == (N + 1) * Q
  <2>1. r \in Nat /\ r < Q
    BY RingNat
  <2>2. p \in 0 .. b /\ b = x - N /\ l = x + Q /\ x \in Nat
    BY <1>4, <1>5
  <2> HIDE DEF x, p, b, l
  <2>3. p + r \in Nat /\ p + r < l
    BY <1>1, <2>1, <2>2
  <2> QED BY <2>3 DEF p, l
<1> QED BY <1>3, <1>6 DEF a_sigma_sum, f, g

\* (P): the pad column is the pad that respond reads.
LEMMA PadColumn ==
    ASSUME NEW x \in Nat
    PROVE  PadColumns(x) = {HonestPad(x)}
<1>1. entry(x) \in Zdelta
  BY RowOfTable
<1> QED BY <1>1 DEF PadColumns, Opening, in_response_order, HonestPad, pad

\* What the variables of the online circuit are, on one row.
LEMMA RowInputs ==
    ASSUME OnlineTypeOK, NEW x \in Nat
    PROVE  /\ run(x) \in Runs /\ entry(x) \in Zdelta /\ m[run(x)] \in Zq
           /\ request[run(x)].e \in [Coords -> Zq]
<1>1. run(x) \in Runs /\ entry(x) \in Zdelta
  BY RowOfTable
<1>2. m \in [Runs -> Zq] /\ request \in [Runs -> [e : [Coords -> Zq], b_bar_prime : Zdelta]]
  BY OnlineAssumption DEF OnlineTypeOK
<1> QED BY <1>1, <1>2

\* The entry that respond computes, in terms of the columns.
LEMMA EntryOfColumns ==
    ASSUME NEW x \in Nat, NEW a \in Zq, HonestPad(x) \in Zp,
           a = a_sigma_sum(sk, m[run(x)], request[run(x)].e)
    PROVE  /\ sub_q(a, entry(x)) \in Zq
           /\ HonestEntry(x) = reduce_p(round(sub_q(a, entry(x))) + HonestPad(x))
<1> DEFINE t == sub_q(a, entry(x))
           g == HonestPad(x)
<1>1. entry(x) \in Zdelta
  BY RowOfTable
<1>2. t \in Zq
  BY <1>1, HonestSubtraction
<1>3. HonestEntry(x) = add_p(reduce_p(round(t)), g)
  BY <1>1 DEF HonestEntry, respond, rounded, round_zq_to_zp, HonestPad
<1> HIDE DEF t, g
<1>4. round(t) \in Int /\ g \in Int
  <2>1. round(t) \in 0 .. P /\ P \in Nat /\ g \in Zp
    BY <1>2, RoundBound, Moduli DEF g
  <2> QED BY <2>1, RingNat
<1>5. add_p(reduce_p(round(t)), g) = reduce_p(round(t) + g)
  BY <1>4, ReducedOnce
<1> QED BY <1>2, <1>3, <1>5 DEF t, g

\* An accepted row has the entry of respond.
LEMMA OnlineRowSound ==
    ASSUME OnlineTypeOK, NEW x \in Nat, NEW z \in Zp, Accepted(x, z), HonestPad(x) \in Zp
    PROVE  z = HonestEntry(x)
<1> DEFINE k == run(x)
           e == request[k].e
           s == Partial([n \in Coords |-> sk[n] * e[n]], N) + m[k]
<1>1. entry(x) \in Zdelta /\ m[k] \in Zq /\ e \in [Coords -> Zq] /\ sk \in [Coords -> Bit]
  BY RowInputs DEF OnlineTypeOK
<1>2. KeyColumns(pack_key(sk)) = {sk} /\ Opening(m) = {m} /\ PadColumns(x) = {HonestPad(x)}
  BY <1>1, KeyUnique, PadColumn DEF Opening
<1>3. PICK a \in Zq, quotient \in Bits(QUOTIENT_BITS), t \in Zq, wrapped \in Bit, carry \in Bit :
        /\ SumRules(sk, e, m[k], a, quotient)
        /\ ResponseRules(a, t, wrapped, HonestPad(x), carry, entry(x), z)
  BY <1>2 DEF Accepted
<1>4. s \in Nat /\ s < (N + 1) * Q /\ a_sigma_sum(sk, m[k], e) = reduce_q(s)
  BY <1>1, OnlineSum
<1>5. assert_eq(s, a + quotient * Q)
  BY <1>3 DEF SumRules
<1> HIDE DEF s
<1>6. s < Pf
  BY <1>4, QuotientFits
<1>7. a = a_sigma_sum(sk, m[k], e)
  BY <1>4, <1>5, <1>6, QuotientRule
<1>8. t = sub_q(a, entry(x))
  BY <1>1, <1>3, Subtraction DEF ResponseRules
<1>9. (t \div DELTA) + up(t % DELTA) = round(t) /\ round(t) \in 0 .. P
  BY UpRounds, RoundBound
<1>10. assert_eq(round(t) + HonestPad(x) - carry * P, z)
  BY <1>3, <1>9 DEF ResponseRules
<1>11. z = reduce_p(round(t) + HonestPad(x))
  BY <1>9, <1>10, Carry
<1> QED BY <1>7, <1>8, <1>11, EntryOfColumns

\* The entry of an accepted row stays the one of respond.
LEMMA OnlineStarts == OnlineInit => OnlineTypeOK /\ OnlineSound
<1> SUFFICES ASSUME OnlineInit PROVE OnlineTypeOK /\ OnlineSound
  OBVIOUS
<1>1. ROWS \in Nat
  BY OnlineAssumption, Moduli DEF ROWS
<1>2. 0 \in 0 .. ROWS /\ 0 \in Zp /\ ~(0 > 0)
  BY <1>1, Zeroes
<1> QED BY <1>2 DEF OnlineInit, OnlineTypeOK, OnlineSound

LEMMA OnlineKeeps ==
    ASSUME OnlineTypeOK, OnlineSound, [OnlineNext]_onlineVars
    PROVE  OnlineTypeOK' /\ OnlineSound'
<1>1. ROWS \in Nat /\ row \in 0 .. ROWS /\ row \in Nat
  BY OnlineAssumption, Moduli DEF ROWS, OnlineTypeOK
<1>2. CASE CheckOnlineRow
  <2>1. /\ row < ROWS /\ row' = row + 1 /\ y' \in Zp /\ Accepted(row, y')
        /\ UNCHANGED <<sk, m, request, d>>
    BY <1>2 DEF CheckOnlineRow
  <2>2. row' \in 0 .. ROWS /\ row' - 1 = row
    BY <1>1, <2>1
  <2>3. OnlineTypeOK'
    BY <2>1, <2>2 DEF OnlineTypeOK
  <2>4. HonestPad(row - 1)' = HonestPad(row) /\ HonestEntry(row - 1)' = HonestEntry(row)
    BY <2>1, <2>2 DEF HonestPad, HonestEntry
  <2>5. HonestPad(row) \in Zp => y' = HonestEntry(row)
    BY <1>1, <2>1, OnlineRowSound
  <2>6. OnlineSound'
    BY <2>4, <2>5 DEF OnlineSound
  <2> QED BY <2>3, <2>6
<1>3. CASE UNCHANGED onlineVars
  BY <1>3 DEF onlineVars, OnlineTypeOK, OnlineSound, HonestPad, HonestEntry
<1> QED BY <1>2, <1>3 DEF OnlineNext

(* Every variable of the online circuit keeps its type.                    *)
THEOREM OnlineCircuitType == OnlineSpec => []OnlineTypeOK
<1>1. OnlineTypeOK /\ OnlineSound /\ [OnlineNext]_onlineVars => OnlineTypeOK' /\ OnlineSound'
  BY OnlineKeeps
<1> QED BY OnlineStarts, <1>1, PTL DEF OnlineSpec

(* The online circuit proves its statement: whatever columns a prover      *)
(* fills in, an accepted entry of the response is the one that respond     *)
(* computes from the committed key, mask sum and pad.                      *)
THEOREM OnlineCircuitSound == OnlineSpec => []OnlineSound
<1>1. OnlineTypeOK /\ OnlineSound /\ [OnlineNext]_onlineVars => OnlineTypeOK' /\ OnlineSound'
  BY OnlineKeeps
<1> QED BY OnlineStarts, <1>1, PTL DEF OnlineSpec

\* On every row, the columns of an honest prover satisfy the rules.
LEMMA OnlineRowComplete == OnlineTypeOK => OnlineHonestAccepted
<1> SUFFICES ASSUME OnlineTypeOK, row < ROWS, HonestPad(row) \in Zp
             PROVE  LET h == OnlineHonestRow(row)
                    IN  /\ h.quotient \in Bits(QUOTIENT_BITS) /\ h.a_sigma \in Zq /\ h.t \in Zq
                        /\ SumRules(sk, request[run(row)].e, m[run(row)], h.a_sigma, h.quotient)
                        /\ h.pad \in PadColumns(row)
                        /\ ResponseRules(h.a_sigma, h.t, h.wrapped, h.pad, h.carry, entry(row), HonestEntry(row))
  BY DEF OnlineHonestAccepted
<1> DEFINE e == request[run(row)].e
           s == OnlineHonestSum(run(row))
           a == reduce_q(s)
           j == entry(row)
           t == sub_q(a, j)
           g == HonestPad(row)
           w == IF a < j THEN 1 ELSE 0
           u == IF round(t) + g >= P THEN 1 ELSE 0
<1>1. row \in Nat
  <2>1. ROWS \in Nat
    BY OnlineAssumption, Moduli DEF ROWS
  <2> QED BY <2>1 DEF OnlineTypeOK
<1>2. j \in Zdelta /\ m[run(row)] \in Zq /\ e \in [Coords -> Zq] /\ sk \in [Coords -> Bit]
  BY <1>1, RowInputs DEF OnlineTypeOK
<1>3. s = Partial([n \in Coords |-> sk[n] * e[n]], N) + m[run(row)]
  BY DEF OnlineHonestSum
<1>4. s \in Nat /\ s < (N + 1) * Q /\ a_sigma_sum(sk, m[run(row)], e) = a
  BY <1>2, <1>3, OnlineSum
<1> HIDE DEF e, s
<1>5. a \in Zq /\ quotient_q(s) \in Bits(QUOTIENT_BITS) /\ s = a + quotient_q(s) * Q
  BY <1>4, QuotientFits
<1> HIDE DEF a
<1>6. t \in Zq /\ t = a - j + w * Q
  BY <1>2, <1>5, HonestSubtraction
<1>7. HonestEntry(row) = reduce_p(round(t) + g)
  BY <1>1, <1>4, <1>5, EntryOfColumns DEF e
<1> HIDE DEF t
<1>8. (t \div DELTA) + up(t % DELTA) = round(t) /\ round(t) \in 0 .. P
  BY <1>6, UpRounds, RoundBound
<1>9. round(t) + g - u * P = reduce_p(round(t) + g)
  BY <1>8, HonestCarry
<1>10. SumRules(sk, e, m[run(row)], a, quotient_q(s))
  BY <1>3, <1>5 DEF SumRules, assert_eq, e
<1>11. ResponseRules(a, t, w, g, u, j, HonestEntry(row))
  <2> HIDE DEF w, g, u, j
  <2> QED BY <1>6, <1>7, <1>8, <1>9 DEF ResponseRules, assert_eq
<1>12. PadColumns(row) = {g}
  BY <1>1, PadColumn
<1>13. OnlineHonestRow(row) = [a_sigma |-> a, quotient |-> quotient_q(s), t |-> t, wrapped |-> w,
                               pad |-> g, carry |-> u]
  BY DEF OnlineHonestRow, a, s, t
<1> QED BY <1>5, <1>6, <1>10, <1>11, <1>12, <1>13 DEF e

(* An honest prover is never refused on any row of the online circuit: at  *)
(* each wrap, tie, carry and quotient.                                     *)
THEOREM OnlineCircuitHonest == OnlineSpec => []OnlineHonestAccepted
BY OnlineCircuitType, OnlineRowComplete, PTL

----------------------------------------------------------------------------
(* The preprocessing circuit: its table.                                   *)

\* A power of two fits between n and 2 * n.
LEMMA PowerBetween ==
    ASSUME NEW n \in Nat \ {0}
    PROVE  \E w \in 0 .. n : Pow2(w) >= n /\ Pow2(w) < 2 * n
<1> DEFINE T == {l \in Nat : l > 0 => \E w \in 0 .. l : Pow2(w) >= l /\ Pow2(w) < 2 * l}
<1>1. 0 \in T
  OBVIOUS
<1>2. ASSUME NEW l \in T PROVE l + 1 \in T
  <2>1. l \in Nat
    OBVIOUS
  <2>2. CASE l = 0
    <3>1. Pow2(0) = 1
      BY PowStep
    <3>2. 0 \in 0 .. 1 /\ Pow2(0) >= 1 /\ Pow2(0) < 2 * 1
      BY <3>1
    <3> QED BY <2>2, <3>2
  <2>3. CASE l > 0
    <3>1. PICK w \in 0 .. l : Pow2(w) >= l /\ Pow2(w) < 2 * l
      BY <2>3
    <3>2. w \in Nat /\ Pow2(w) \in Nat /\ Pow2(w + 1) = 2 * Pow2(w)
      BY <2>1, <3>1, PowPositive, PowStep
    <3>3. CASE Pow2(w) = l
      <4>1. w + 1 \in 0 .. l + 1 /\ Pow2(w + 1) >= l + 1 /\ Pow2(w + 1) < 2 * (l + 1)
        BY <2>1, <2>3, <3>1, <3>2, <3>3
      <4> QED BY <2>1, <4>1
    <3>4. CASE Pow2(w) # l
      <4>1. w \in 0 .. l + 1 /\ Pow2(w) >= l + 1 /\ Pow2(w) < 2 * (l + 1)
        BY <2>1, <3>1, <3>2, <3>4
      <4> QED BY <2>1, <4>1
    <3> QED BY <3>3, <3>4
  <2> QED BY <2>1, <2>2, <2>3
<1> HIDE DEF T
<1>3. T = Nat
  BY <1>1, <1>2, SetInduction DEF T
<1>4. n \in T /\ n > 0
  BY <1>3
<1> QED BY <1>4 DEF T

\* What the assumptions say of the table, whose length is a number.
LEMMA TableBounds ==
    /\ N_TABLE_ROWS \in Nat \ {0} /\ N \in Nat \ {0} /\ N <= N_TABLE_ROWS
    /\ Evaluations \in Nat \ {0} /\ rows \in Nat
<1>1. /\ N_TABLE_ROWS \in Nat \ {0} /\ N \in Nat \ {0} /\ N <= N_TABLE_ROWS
      /\ Evaluations \in Nat \ {0}
  BY PreprocCircuitAssumption, Moduli
<1> DEFINE n == Evaluations * N_TABLE_ROWS
           S == {Pow2(w) : w \in 0 .. n}
<1>2. n \in Nat \ {0} /\ 2 * Evaluations * N_TABLE_ROWS = 2 * n
  <2>1. 1 <= Evaluations /\ 1 \in Nat /\ 1 * N_TABLE_ROWS = N_TABLE_ROWS
    BY <1>1
  <2>2. 1 * N_TABLE_ROWS <= n /\ n \in Nat
    BY <1>1, <2>1, TimesMonotone
  <2> QED BY <1>1, <2>1, <2>2
<1> HIDE DEF n
<1>3. \E r \in S : r >= n /\ r < 2 * n
  BY <1>2, PowerBetween
<1>4. rows = CHOOSE r \in S : r >= n /\ r < 2 * n
  BY <1>2 DEF rows, n
<1>5. rows \in S
  BY <1>3, <1>4
<1>6. S \subseteq Nat
  BY <1>2, PowPositive
<1> QED BY <1>1, <1>5, <1>6

\* A row is a block of an evaluation.
LEMMA BlockOfTable ==
    ASSUME NEW x \in Nat
    PROVE  /\ x \div N_TABLE_ROWS \in Nat /\ x % N_TABLE_ROWS \in 0 .. N_TABLE_ROWS - 1
           /\ x = (x \div N_TABLE_ROWS) * N_TABLE_ROWS + (x % N_TABLE_ROWS)
           /\ evaluation(x) \in EvaluationIds /\ block(x) \in Blocks
<1> DEFINE v == x \div N_TABLE_ROWS
           i == x % N_TABLE_ROWS
<1>1. /\ N_TABLE_ROWS \in Nat \ {0} /\ N \in Nat \ {0} /\ Evaluations \in Nat \ {0}
  BY TableBounds
<1>2. v \in Nat /\ i \in 0 .. N_TABLE_ROWS - 1
  BY <1>1
<1>3. x = v * N_TABLE_ROWS + i
  <2>1. x \in Int
    OBVIOUS
  <2> QED BY <1>1, <2>1, DivMod
<1>4. /\ evaluation(x) = IF v < Evaluations THEN v ELSE Evaluations - 1
      /\ block(x) = IF i < N THEN i ELSE N - 1
  BY DEF evaluation, block
<1> HIDE DEF v, i
<1>5. evaluation(x) \in EvaluationIds /\ block(x) \in Blocks
  BY <1>1, <1>2, <1>4 DEF EvaluationIds, Blocks
<1> QED BY <1>2, <1>3, <1>5 DEF v, i

\* The row after a block that is not the last one has the next block, of the same evaluation.
LEMMA NextBlock ==
    ASSUME NEW x \in Nat, x % N_TABLE_ROWS < N_TABLE_ROWS - 1
    PROVE  /\ (x + 1) % N_TABLE_ROWS = (x % N_TABLE_ROWS) + 1
           /\ evaluation(x + 1) = evaluation(x)
<1> DEFINE v == x \div N_TABLE_ROWS
           i == x % N_TABLE_ROWS
<1>1. /\ N_TABLE_ROWS \in Nat \ {0} /\ v \in Nat /\ i \in 0 .. N_TABLE_ROWS - 1
      /\ x = v * N_TABLE_ROWS + i /\ i < N_TABLE_ROWS - 1
  BY TableBounds, BlockOfTable
<1>2. evaluation(x) = IF v < Evaluations THEN v ELSE Evaluations - 1
  BY DEF evaluation
<1> HIDE DEF v, i
<1>3. x + 1 = v * N_TABLE_ROWS + (i + 1)
  <2>1. v * N_TABLE_ROWS \in Nat
    BY <1>1
  <2> QED BY <1>1, <2>1
<1>4. (v * N_TABLE_ROWS + (i + 1)) % N_TABLE_ROWS = i + 1 /\ (v * N_TABLE_ROWS + (i + 1)) \div N_TABLE_ROWS = v
  <2>1. v \in Int /\ i + 1 \in 0 .. N_TABLE_ROWS - 1
    BY <1>1
  <2> QED BY <1>1, <2>1, ModUnique
<1>5. evaluation(x + 1) = evaluation(x)
  BY <1>2, <1>3, <1>4 DEF evaluation
<1> QED BY <1>3, <1>4, <1>5 DEF i

\* The row of block i of evaluation v.
LEMMA RowOfBlock ==
    ASSUME NEW v \in EvaluationIds, NEW i \in Blocks
    PROVE  /\ (v * N_TABLE_ROWS + i) % N_TABLE_ROWS = i
           /\ evaluation(v * N_TABLE_ROWS + i) = v
<1>1. /\ N_TABLE_ROWS \in Nat \ {0} /\ v \in Int /\ i \in 0 .. N_TABLE_ROWS - 1 /\ v < Evaluations
  BY TableBounds DEF Blocks, EvaluationIds
<1>2. (v * N_TABLE_ROWS + i) % N_TABLE_ROWS = i /\ (v * N_TABLE_ROWS + i) \div N_TABLE_ROWS = v
  BY <1>1, ModUnique
<1> QED BY <1>1, <1>2 DEF evaluation

----------------------------------------------------------------------------
(* The preprocessing circuit: constraints (S) and (T).                     *)

\* The types that the arguments use of the variables of the preprocessing circuit.
InputTypes ==
    /\ sk \in [Coords -> Bit] /\ b_bar \in [Blocks -> Bit]
    /\ c \in [EvaluationIds -> [Blocks -> [Bit -> Zq]]]
    /\ m \in [EvaluationIds -> Val]

\* What each coordinate adds to the sum of an evaluation.
Summands(v) == [k \in Coords |-> IF sk[k] = 0 THEN Chosen(v)[k] ELSE Q - Chosen(v)[k]]

LEMMA InputsTyped == PreprocTypeOK => InputTypes
  BY PreprocCircuitAssumption DEF PreprocTypeOK, InputTypes

\* A block's coordinate, the mask that the server chose for it, and its bounds.
LEMMA ChosenMask ==
    ASSUME InputTypes, NEW v \in EvaluationIds, NEW i \in Blocks
    PROVE  /\ i + 1 \in Coords /\ sk[i + 1] \in Bit /\ b_bar[i] \in Bit
           /\ Chosen(v)[i + 1] = c[v][i][IF b_bar[i] = sk[i + 1] THEN 0 ELSE 1]
           /\ Chosen(v)[i + 1] \in Zq
<1>1. N \in Nat /\ i \in Nat /\ i + 1 \in Coords /\ (i + 1) - 1 = i
  BY Moduli DEF Blocks, Coords
<1>2. Chosen(v)[i + 1] = c[v][i][IF b_bar[i] = sk[i + 1] THEN 0 ELSE 1]
  BY <1>1 DEF Chosen
<1>3. c[v][i] \in [Bit -> Zq] /\ sk[i + 1] \in Bit /\ b_bar[i] \in Bit
  BY <1>1 DEF InputTypes
<1>4. (IF b_bar[i] = sk[i + 1] THEN 0 ELSE 1) \in Bit
  BY DEF Bit
<1> QED BY <1>1, <1>2, <1>3, <1>4

\* (S) and the term of (T) on the row of a block: with the key's bit the mask is the one that the
\* server chose, and the term is what its coordinate adds.
LEMMA TermOfBlock ==
    ASSUME InputTypes, NEW x \in Nat, NEW v \in EvaluationIds, NEW i \in Blocks,
           v = evaluation(x), i = block(x)
    PROVE  /\ MaskColumns(x, sk[i + 1]) = {Chosen(v)[i + 1]}
           /\ term(sk[i + 1], Chosen(v)[i + 1]) = Summands(v)[i + 1]
           /\ Summands(v)[i + 1] \in 0 .. Q
<1>1. /\ i + 1 \in Coords /\ sk[i + 1] \in Bit /\ b_bar[i] \in Bit
      /\ Chosen(v)[i + 1] = c[v][i][IF b_bar[i] = sk[i + 1] THEN 0 ELSE 1]
      /\ Chosen(v)[i + 1] \in Zq
  BY ChosenMask
<1> DEFINE b == sk[i + 1]
           r == Chosen(v)[i + 1]
           z == b_bar[i]
<1>2. Summands(v)[i + 1] = IF b = 0 THEN r ELSE Q - r
  BY <1>1 DEF Summands
<1>3. MaskColumns(x, b) = {c[v][i][z + b - 2 * z * b]}
  BY DEF MaskColumns, Opening
<1>4. r \in Nat /\ r < Q /\ Q \in Nat /\ b \in Bit /\ z \in Bit
  BY <1>1, RingNat, Moduli
<1>5. r = c[v][i][IF z = b THEN 0 ELSE 1]
  BY <1>1
<1> HIDE DEF b, r, z
<1>6. z + b - 2 * z * b = IF z = b THEN 0 ELSE 1
  BY <1>4 DEF Bit
<1>7. MaskColumns(x, b) = {r}
  BY <1>3, <1>5, <1>6
<1>8. term(b, r) = IF b = 0 THEN r ELSE Q - r
  <2>1. CASE b = 0
    BY <1>4, <2>1 DEF term
  <2>2. CASE b = 1
    BY <1>4, <2>2 DEF term
  <2> QED BY <1>4, <2>1, <2>2 DEF Bit
<1>9. Summands(v)[i + 1] \in 0 .. Q
  BY <1>2, <1>4
<1> QED BY <1>2, <1>7, <1>8, <1>9 DEF b, r

\* The sum up to a block, from the sum before it, and its bounds.
LEMMA SumOfBlocks ==
    ASSUME InputTypes, NEW v \in EvaluationIds, NEW i \in Blocks
    PROVE  /\ PreprocHonestSum(v, 0) = Summands(v)[1]
           /\ i > 0 => PreprocHonestSum(v, i) = PreprocHonestSum(v, i - 1) + Summands(v)[i + 1]
           /\ PreprocHonestSum(v, i) \in Nat /\ PreprocHonestSum(v, i) < (N + 1) * Q
           /\ PreprocHonestSum(v, i) \in Val
<1> DEFINE f == Summands(v)
<1>1. N \in Nat \ {0} /\ Q \in Nat \ {0} /\ i \in Nat /\ i + 1 <= N /\ i + 1 \in Nat
  BY Moduli DEF Blocks
<1>2. \A k \in Nat : PreprocHonestSum(v, k) = Partial(f, k + 1)
  BY DEF PreprocHonestSum, Summands
<1>3. ASSUME NEW k \in Coords PROVE f[k] \in 0 .. Q
  <2>1. k \in Nat /\ k - 1 \in Blocks /\ (k - 1) + 1 = k
    BY <1>1 DEF Coords, Blocks
  <2>2. Chosen(v)[k] \in Zq
    BY <2>1, ChosenMask
  <2>3. Chosen(v)[k] \in Nat /\ Chosen(v)[k] < Q
    BY <2>2, RingNat
  <2>4. f[k] = IF sk[k] = 0 THEN Chosen(v)[k] ELSE Q - Chosen(v)[k]
    BY DEF Summands
  <2> QED BY <1>1, <2>3, <2>4
<1> HIDE DEF f
<1>4. Partial(f, 0) = 0 /\ Partial(f, 0 + 1) = Partial(f, 0) + f[0 + 1]
  <2>1. 0 \in Nat
    OBVIOUS
  <2> QED BY <2>1, PartialEquations
<1>5. 1 \in Coords /\ f[1] \in 0 .. Q
  <2>1. 1 \in Coords
    BY <1>1 DEF Coords
  <2> QED BY <1>3, <2>1
<1>6. PreprocHonestSum(v, 0) = f[1]
  BY <1>1, <1>2, <1>4, <1>5
<1>7. i > 0 => PreprocHonestSum(v, i) = PreprocHonestSum(v, i - 1) + f[i + 1]
  <2> SUFFICES ASSUME i > 0 PROVE PreprocHonestSum(v, i) = PreprocHonestSum(v, i - 1) + f[i + 1]
    OBVIOUS
  <2>1. i - 1 \in Nat /\ (i - 1) + 1 = i
    BY <1>1
  <2>2. Partial(f, i + 1) = Partial(f, i) + f[i + 1]
    BY <1>1, PartialEquations
  <2> QED BY <1>1, <1>2, <2>1, <2>2
<1>8. Partial(f, i + 1) \in 0 .. (i + 1) * Q
  <2>1. \A k \in 1 .. i + 1 : f[k] \in 0 .. Q
    BY <1>1, <1>3 DEF Coords
  <2>2. Q \in Nat
    BY <1>1
  <2> QED BY <1>1, <2>1, <2>2, PartialBound
<1>9. (i + 1) * Q <= N * Q /\ (i + 1) * Q \in Nat /\ N * Q \in Nat /\ (N + 1) * Q = N * Q + Q
  <2>1. N \in Nat /\ Q \in Nat
    BY <1>1
  <2>2. (i + 1) * Q <= N * Q /\ (i + 1) * Q \in Nat /\ N * Q \in Nat
    BY <1>1, <2>1, TimesMonotone
  <2> QED BY <2>1, <2>2
<1>10. PreprocHonestSum(v, i) \in Nat /\ PreprocHonestSum(v, i) < (N + 1) * Q
  <2> DEFINE a == (i + 1) * Q
             b == N * Q
             l == (N + 1) * Q
             s == Partial(f, i + 1)
  <2>1. a <= b /\ a \in Nat /\ b \in Nat /\ l = b + Q /\ s \in 0 .. a
    BY <1>8, <1>9
  <2> HIDE DEF a, b, l, s
  <2>2. s \in Nat /\ s < l
    BY <1>1, <2>1
  <2> QED BY <1>1, <1>2, <2>2 DEF l, s
<1>11. PreprocHonestSum(v, i) \in Val
  <2> DEFINE s == PreprocHonestSum(v, i)
             l == (N + 1) * Q
             w == Q * Pow2(N_BITS)
  <2>1. s \in Nat /\ s < l /\ l <= w /\ w < Pf /\ l \in Nat /\ w \in Nat /\ Pf \in Nat
    BY <1>10, FieldBounds
  <2> HIDE DEF s, l, w
  <2>2. s \in 0 .. Pf - 1
    BY <2>1
  <2> QED BY <2>2 DEF Val, s
<1> QED BY <1>6, <1>7, <1>10, <1>11 DEF f

\* The circuit negates a mask by subtracting it from q, r_sigma_sum mod q: the sums are the same.
LEMMA SumReduced ==
    ASSUME InputTypes, NEW v \in EvaluationIds
    PROVE  reduce_q(PreprocHonestSum(v, N - 1)) = r_sigma_sum(sk, Chosen(v))
<1> DEFINE f == Summands(v)
           g == [k \in Coords |-> IF sk[k] = 0 THEN Chosen(v)[k] ELSE sub_q(0, Chosen(v)[k])]
           o == [k \in Coords |-> 0]
<1>1. N \in Nat \ {0} /\ Q \in Nat \ {0} /\ Coords = 1 .. N
  BY Moduli DEF Coords
<1>2. ASSUME NEW k \in 1 .. N
      PROVE  f[k] \in Int /\ g[k] \in Int /\ o[k] = 0 /\ o[k] \in Int /\ Cong(f[k] + o[k], g[k] + o[k], Q)
  <2> DEFINE r == Chosen(v)[k]
  <2>1. k \in Nat /\ k - 1 \in Blocks /\ (k - 1) + 1 = k /\ k \in Coords
    BY <1>1 DEF Blocks
  <2>2. r \in Zq /\ sk[k] \in Bit
    BY <2>1, ChosenMask
  <2>3. r \in Nat
    BY <2>2, RingNat
  <2>4. /\ f[k] = IF sk[k] = 0 THEN r ELSE Q - r
        /\ g[k] = IF sk[k] = 0 THEN r ELSE sub_q(0, r)
        /\ o[k] = 0
    BY <2>1 DEF Summands
  <2> HIDE DEF r, f, g, o
  <2>5. CASE sk[k] = 0
    <3>1. f[k] = r /\ g[k] = r /\ f[k] + o[k] = (g[k] + o[k]) + 0 * Q /\ 0 \in Int
      BY <1>1, <2>3, <2>4, <2>5
    <3> QED BY <2>3, <2>4, <3>1 DEF Cong
  <2>6. CASE sk[k] = 1
    <3>1. f[k] = Q - r /\ g[k] = (0 + Q - r) % Q /\ 0 + Q - r = Q - r /\ Q - r \in Int
      BY <1>1, <2>3, <2>4, <2>6 DEF sub_q, reduce_q
    <3>2. (Q - r) % Q \in Int /\ Cong(Q - r, (Q - r) % Q, Q)
      BY <1>1, <3>1, ModCong
    <3>3. f[k] \in Int /\ g[k] \in Int /\ f[k] + o[k] = f[k] /\ g[k] + o[k] = g[k]
      BY <2>4, <3>1, <3>2
    <3>4. Cong(f[k], g[k], Q)
      BY <3>1, <3>2
    <3> QED BY <2>4, <3>3, <3>4
  <2> QED BY <2>2, <2>5, <2>6 DEF Bit
<1>3. PreprocHonestSum(v, N - 1) = Partial(f, N)
  <2>1. (N - 1) + 1 = N
    BY <1>1
  <2> QED BY <2>1 DEF PreprocHonestSum, Summands
<1>4. r_sigma_sum(sk, Chosen(v)) = reduce_q(Partial(g, N))
  BY DEF r_sigma_sum
<1> HIDE DEF f, g, o
<1>5. N \in Nat
  BY <1>1
<1>6. Cong(Partial(f, N) + Partial(o, N), Partial(g, N) + Partial(o, N), Q)
  BY <1>2, <1>5, SumsCong
<1>7. Partial(f, N) \in Int /\ Partial(g, N) \in Int /\ Partial(o, N) \in Int
  <2>1. Partial(f, N) \in Int
    BY <1>2, <1>5, PartialInt
  <2>2. Partial(g, N) \in Int
    BY <1>2, <1>5, PartialInt
  <2>3. Partial(o, N) \in Int
    BY <1>2, <1>5, PartialInt
  <2> QED BY <2>1, <2>2, <2>3
<1>8. PICK k \in Int : Partial(f, N) + Partial(o, N) = (Partial(g, N) + Partial(o, N)) + k * Q
  BY <1>6 DEF Cong
<1>9. Partial(f, N) = Partial(g, N) + k * Q
  <2>1. k * Q \in Int
    BY <1>1
  <2> QED BY <1>7, <1>8, <2>1
<1>10. Partial(f, N) % Q = Partial(g, N) % Q
  <2>1. Cong(Partial(f, N), Partial(g, N), Q)
    BY <1>9 DEF Cong
  <2> QED BY <1>1, <1>7, <2>1, CongMod
<1> QED BY <1>3, <1>4, <1>10 DEF reduce_q

----------------------------------------------------------------------------
(* The preprocessing circuit: the scan of the table.                       *)

\* After the row of a block, the sum is the one of the committed key and masks up to that block.
\* PreprocSound alone is not inductive: it says nothing of the rows before the last block.
SumSoFar ==
    (row > 0 /\ (row - 1) % N_TABLE_ROWS < N) =>
        sum = PreprocHonestSum(evaluation(row - 1), (row - 1) % N_TABLE_ROWS)

\* Two values of the field that are equal in it.
LEMMA ValEqual ==
    ASSUME NEW x \in Val, NEW z \in Val, assert_eq(x, z)
    PROVE  x = z
<1>1. Pf \in Nat \ {0} /\ x \in Int /\ z \in Int /\ -Pf < x - z /\ x - z < Pf
  BY FieldBounds DEF Val
<1> QED BY <1>1, FieldEqual

\* Sums that start from 0 or from the sum of the block before are those of the block.
LEMMA SumStep ==
    ASSUME PreprocTypeOK, SumSoFar, NEW s \in Val, FillRow(sk, s), row % N_TABLE_ROWS < N
    PROVE  s = PreprocHonestSum(evaluation(row), row % N_TABLE_ROWS)
<1> DEFINE v == evaluation(row)
           i == row % N_TABLE_ROWS
<1>1. row \in Nat /\ InputTypes /\ N \in Nat \ {0} /\ N_TABLE_ROWS \in Nat \ {0}
  BY InputsTyped, TableBounds DEF PreprocTypeOK
<1>2. v \in EvaluationIds /\ i \in Nat
  BY <1>1, BlockOfTable
<1>3. i \in Blocks /\ block(row) = i
  BY <1>1, <1>2 DEF Blocks, block
<1>4. PICK sk_i, r :
        /\ sk_i \in Bit /\ r \in MaskColumns(row, sk_i)
        /\ \A k \in Blocks : sel(k, row) => sk_i = sk[k + 1]
        /\ first_block(row) => assert_eq(s, term(sk_i, r))
        /\ row > 0 => NextRowRules(sum, row, sk_i, r, s)
  BY DEF FillRow, RowRules
<1>5. sk_i = sk[i + 1]
  BY <1>3, <1>4 DEF sel
<1>6. r = Chosen(v)[i + 1] /\ term(sk_i, r) = Summands(v)[i + 1]
  <2>1. /\ MaskColumns(row, sk[i + 1]) = {Chosen(v)[i + 1]}
        /\ term(sk[i + 1], Chosen(v)[i + 1]) = Summands(v)[i + 1]
    BY <1>1, <1>2, <1>3, TermOfBlock
  <2> QED BY <1>4, <1>5, <2>1
<1>7. PreprocHonestSum(v, i) \in Val
  BY <1>1, <1>2, <1>3, SumOfBlocks
<1>8. assert_eq(s, PreprocHonestSum(v, i))
  <2>1. CASE i = 0
    <3>1. assert_eq(s, Summands(v)[i + 1])
      BY <1>4, <1>6, <2>1 DEF first_block
    <3>2. PreprocHonestSum(v, 0) = Summands(v)[1] /\ i + 1 = 1
      BY <1>1, <1>2, <1>3, <2>1, SumOfBlocks
    <3> QED BY <2>1, <3>1, <3>2
  <2>2. CASE i > 0
    <3>1. row > 0
      <4>1. row # 0
        <5>1. (0 * N_TABLE_ROWS + 0) % N_TABLE_ROWS = 0
          <6>1. 0 \in Int /\ 0 \in 0 .. N_TABLE_ROWS - 1
            BY <1>1
          <6> QED BY <1>1, <6>1, ModUnique
        <5>2. 0 * N_TABLE_ROWS + 0 = 0
          BY <1>1
        <5> QED BY <2>2, <5>1, <5>2
      <4> QED BY <1>1, <4>1
    <3> DEFINE x == row - 1
    <3>2. x \in Nat /\ x + 1 = row
      BY <1>1, <3>1
    <3>3. x % N_TABLE_ROWS \in 0 .. N_TABLE_ROWS - 1
      BY <3>2, BlockOfTable
    <3> HIDE DEF x
    <3>4. CASE x % N_TABLE_ROWS < N_TABLE_ROWS - 1
      <4>1. i = (x % N_TABLE_ROWS) + 1 /\ evaluation(x) = v
        BY <3>2, <3>4, NextBlock
      <4>2. x % N_TABLE_ROWS = i - 1 /\ x % N_TABLE_ROWS < N - 1
        BY <1>1, <1>2, <3>3, <4>1
      <4>3. has_next_block(row - 1)
        BY <4>2 DEF has_next_block, x
      <4>4. assert_eq(s, sum + term(sk_i, r))
        BY <1>4, <3>1, <4>3 DEF NextRowRules
      <4>5. sum = PreprocHonestSum(v, i - 1)
        <5>1. (row - 1) % N_TABLE_ROWS < N
          BY <1>1, <3>3, <4>2 DEF x
        <5> QED BY <3>1, <4>1, <4>2, <5>1 DEF SumSoFar, x
      <4>6. PreprocHonestSum(v, i) = PreprocHonestSum(v, i - 1) + Summands(v)[i + 1]
        BY <1>1, <1>2, <1>3, <2>2, SumOfBlocks
      <4> QED BY <1>6, <4>4, <4>5, <4>6
    <3>5. CASE x % N_TABLE_ROWS = N_TABLE_ROWS - 1
      <4> DEFINE u == x \div N_TABLE_ROWS
      <4>1. u \in Nat /\ x = u * N_TABLE_ROWS + (N_TABLE_ROWS - 1)
        BY <3>2, <3>5, BlockOfTable
      <4> HIDE DEF u
      <4>2. row = (u + 1) * N_TABLE_ROWS + 0
        <5>1. (u + 1) * N_TABLE_ROWS = u * N_TABLE_ROWS + N_TABLE_ROWS /\ u * N_TABLE_ROWS \in Nat
          BY <1>1, <4>1
        <5> QED BY <1>1, <3>2, <4>1, <5>1
      <4>3. ((u + 1) * N_TABLE_ROWS + 0) % N_TABLE_ROWS = 0
        <5>1. u + 1 \in Int /\ 0 \in 0 .. N_TABLE_ROWS - 1
          BY <1>1, <4>1
        <5> QED BY <1>1, <5>1, ModUnique
      <4> QED BY <2>2, <4>2, <4>3
    <3>6. x % N_TABLE_ROWS < N_TABLE_ROWS - 1 \/ x % N_TABLE_ROWS = N_TABLE_ROWS - 1
      BY <1>1, <3>3
    <3> QED BY <3>4, <3>5, <3>6
  <2> QED BY <1>2, <2>1, <2>2
<1> QED BY <1>7, <1>8, ValEqual

\* On the row of the last block of an evaluation, m opens to the sum reduced mod q.
LEMMA LastBlock ==
    ASSUME PreprocTypeOK, SumSoFar, NEW s \in Val, FillRow(sk, s), row % N_TABLE_ROWS = N - 1
    PROVE  m[evaluation(row)] = r_sigma_sum(sk, Chosen(evaluation(row)))
<1> DEFINE v == evaluation(row)
           h == PreprocHonestSum(v, N - 1)
<1>1. row \in Nat /\ InputTypes /\ N \in Nat \ {0}
  BY InputsTyped, TableBounds DEF PreprocTypeOK
<1>2. v \in EvaluationIds /\ N - 1 \in Blocks
  BY <1>1, BlockOfTable DEF Blocks
<1>3. s = h
  <2>1. row % N_TABLE_ROWS < N
    BY <1>1
  <2> QED BY <2>1, SumStep
<1>4. PICK r_sigma \in Zq, quotient \in Bits(QUOTIENT_BITS) :
        /\ assert_eq(r_sigma, m[v])
        /\ assert_eq(s, r_sigma + quotient * Q)
  BY DEF FillRow, RowRules, Opening, last_block
<1>5. h \in Nat /\ h < (N + 1) * Q
  BY <1>1, <1>2, SumOfBlocks
<1>6. reduce_q(h) = r_sigma_sum(sk, Chosen(v))
  BY <1>1, <1>2, SumReduced
<1> HIDE DEF h
<1>7. h < Pf
  BY <1>5, QuotientFits
<1>8. r_sigma = reduce_q(h)
  BY <1>3, <1>4, <1>5, <1>7, QuotientRule
<1>9. r_sigma = m[v]
  <2>1. m[v] \in Val
    BY <1>1, <1>2 DEF InputTypes
  <2>2. r_sigma \in Val
    <3>1. r_sigma \in Nat /\ r_sigma < Q /\ Q \in Nat /\ Pf \in Nat /\ 2 * Q < Pf
      BY RingNat, Moduli, FieldBounds
    <3> QED BY <3>1 DEF Val
  <2> QED BY <1>4, <2>1, <2>2, ValEqual
<1> QED BY <1>6, <1>8, <1>9

LEMMA PreprocStarts == PreprocInit => PreprocTypeOK /\ SumSoFar /\ PreprocSound
<1> SUFFICES ASSUME PreprocInit PROVE PreprocTypeOK /\ SumSoFar /\ PreprocSound
  OBVIOUS
<1>1. /\ rows \in Nat /\ Pf \in Nat \ {0} /\ N \in Nat \ {0} /\ N_TABLE_ROWS \in Nat
      /\ row = 0 /\ sum = 0
  BY TableBounds, FieldBounds DEF PreprocInit
<1>2. PreprocTypeOK
  BY <1>1 DEF PreprocInit, PreprocTypeOK, Val
<1>3. SumSoFar
  BY <1>1 DEF SumSoFar
<1>4. ASSUME NEW v \in EvaluationIds PROVE ~(row >= v * N_TABLE_ROWS + N)
  <2>1. v \in Nat
    BY TableBounds DEF EvaluationIds
  <2>2. v * N_TABLE_ROWS \in Nat
    BY <1>1, <2>1
  <2> QED BY <1>1, <2>2
<1> QED BY <1>2, <1>3, <1>4 DEF PreprocSound

LEMMA PreprocKeeps ==
    ASSUME PreprocTypeOK, SumSoFar, PreprocSound, [PreprocNext]_preprocVars
    PROVE  PreprocTypeOK' /\ SumSoFar' /\ PreprocSound'
<1>1. /\ rows \in Nat /\ row \in Nat /\ row \in 0 .. rows /\ N \in Nat \ {0}
      /\ N_TABLE_ROWS \in Nat \ {0} /\ sk \in [Coords -> Bit]
  BY TableBounds DEF PreprocTypeOK
<1>2. CASE CheckPreprocRow
  <2>1. /\ row < rows /\ row' = row + 1 /\ sum' \in Val /\ FillRow(sk, sum')
        /\ UNCHANGED <<sk, b_bar, c, m>>
    <3>1. KeyColumns(pack_key(sk)) = {sk}
      BY <1>1, KeyUnique
    <3> QED BY <1>2, <3>1 DEF CheckPreprocRow
  <2>2. row' \in 0 .. rows /\ row' - 1 = row
    BY <1>1, <2>1
  <2>3. PreprocTypeOK'
    BY <2>1, <2>2 DEF PreprocTypeOK
  <2>4. \A v, i : PreprocHonestSum(v, i)' = PreprocHonestSum(v, i)
    BY <2>1 DEF PreprocHonestSum, Chosen
  <2>5. SumSoFar'
    <3> SUFFICES ASSUME row % N_TABLE_ROWS < N
                 PROVE  sum' = PreprocHonestSum(evaluation(row), row % N_TABLE_ROWS)
      BY <2>2, <2>4 DEF SumSoFar
    <3> QED BY <2>1, SumStep
  <2>6. ASSUME NEW v \in EvaluationIds, row' >= v * N_TABLE_ROWS + N
        PROVE  m[v] = r_sigma_sum(sk, Chosen(v))
    <3>1. CASE row >= v * N_TABLE_ROWS + N
      BY <3>1 DEF PreprocSound
    <3>2. CASE ~(row >= v * N_TABLE_ROWS + N)
      <4>1. v \in Nat /\ N - 1 \in Blocks
        BY <1>1, TableBounds DEF EvaluationIds, Blocks
      <4>2. row = v * N_TABLE_ROWS + (N - 1)
        <5>1. v * N_TABLE_ROWS \in Nat
          BY <1>1, <4>1
        <5> QED BY <1>1, <2>1, <2>6, <3>2, <5>1
      <4>3. row % N_TABLE_ROWS = N - 1 /\ evaluation(row) = v
        BY <4>1, <4>2, RowOfBlock
      <4> QED BY <2>1, <4>3, LastBlock
    <3> QED BY <3>1, <3>2
  <2>7. PreprocSound'
    BY <2>1, <2>6 DEF PreprocSound, Chosen
  <2> QED BY <2>3, <2>5, <2>7
<1>3. CASE UNCHANGED preprocVars
  BY <1>3 DEF preprocVars, PreprocTypeOK, SumSoFar, PreprocSound, PreprocHonestSum, Chosen
<1> QED BY <1>2, <1>3 DEF PreprocNext

(* Every variable of the preprocessing circuit keeps its type.             *)
THEOREM PreprocCircuitType == PreprocSpec => []PreprocTypeOK
<1>1. PreprocTypeOK /\ SumSoFar /\ PreprocSound /\ [PreprocNext]_preprocVars
        => PreprocTypeOK' /\ SumSoFar' /\ PreprocSound'
  BY PreprocKeeps
<1> QED BY PreprocStarts, <1>1, PTL DEF PreprocSpec

(* The preprocessing circuit proves its statement: once the rows of an     *)
(* evaluation are accepted, whatever the prover put in them, the server's  *)
(* commitment m opens to the mask sum in Zq of the committed key and of    *)
(* the masks that the client committed to.                                 *)
THEOREM PreprocCircuitSound == PreprocSpec => []PreprocSound
<1>1. PreprocTypeOK /\ SumSoFar /\ PreprocSound /\ [PreprocNext]_preprocVars
        => PreprocTypeOK' /\ SumSoFar' /\ PreprocSound'
  BY PreprocKeeps
<1> QED BY PreprocStarts, <1>1, PTL DEF PreprocSpec

\* The prover fills a row for the block that the periodic columns are for.
LEMMA SameBlock ==
    ASSUME NEW x \in Nat
    PROVE  repeated_block(x) = block(x)
<1>1. x % N_TABLE_ROWS \in 0 .. N_TABLE_ROWS - 1 /\ N \in Nat \ {0}
  BY BlockOfTable, TableBounds
<1> DEFINE r == x % N_TABLE_ROWS
<1>2. r \in Int /\ N \in Int
  BY <1>1
<1> HIDE DEF r
<1>3. (IF r < N - 1 THEN r ELSE N - 1) = (IF r < N THEN r ELSE N - 1)
  BY <1>2
<1> QED BY <1>3 DEF r, repeated_block, block

\* On every row, the columns of an honest prover satisfy the rules, those that read the row
\* before too.
LEMMA PreprocRowComplete == PreprocTypeOK => PreprocHonestAccepted
<1> SUFFICES ASSUME PreprocTypeOK, row < rows,
                    m[evaluation(row)] = r_sigma_sum(sk, Chosen(evaluation(row)))
             PROVE  LET h == PreprocHonestRow(row)
                    IN  /\ h.quotient \in Bits(QUOTIENT_BITS) /\ h.sum \in Val
                        /\ RowRules(row, sk, h.sk_i, h.r, h.sum, h.r_sigma, h.quotient)
                        /\ row > 0 => NextRowRules(PreprocHonestRow(row - 1).sum, row, h.sk_i, h.r, h.sum)
  BY DEF PreprocHonestAccepted
<1> DEFINE v == evaluation(row)
           i == block(row)
           r == Chosen(v)[i + 1]
           s == PreprocHonestSum(v, i)
           l == PreprocHonestSum(v, N - 1)
<1>1. /\ row \in Nat /\ InputTypes /\ N \in Nat \ {0} /\ N_TABLE_ROWS \in Nat \ {0}
      /\ N <= N_TABLE_ROWS
  BY InputsTyped, TableBounds DEF PreprocTypeOK
<1>2. v \in EvaluationIds /\ i \in Blocks /\ N - 1 \in Blocks /\ row % N_TABLE_ROWS \in 0 .. N_TABLE_ROWS - 1
  BY <1>1, BlockOfTable DEF Blocks
<1>3. i = IF row % N_TABLE_ROWS < N THEN row % N_TABLE_ROWS ELSE N - 1
  BY DEF block
<1>4. /\ MaskColumns(row, sk[i + 1]) = {r} /\ term(sk[i + 1], r) = Summands(v)[i + 1]
  BY <1>1, <1>2, TermOfBlock
<1>5. /\ s \in Val /\ l \in Nat /\ l < (N + 1) * Q
      /\ PreprocHonestSum(v, 0) = Summands(v)[1]
      /\ i > 0 => s = PreprocHonestSum(v, i - 1) + Summands(v)[i + 1]
  BY <1>1, <1>2, SumOfBlocks
<1>6. reduce_q(l) = m[v]
  BY <1>1, <1>2, SumReduced
<1>7. quotient_q(l) \in Bits(QUOTIENT_BITS) /\ l = reduce_q(l) + quotient_q(l) * Q
  BY <1>5, QuotientFits
<1>8. first_block(row) => assert_eq(s, term(sk[i + 1], r))
  <2> SUFFICES ASSUME row % N_TABLE_ROWS = 0 PROVE s = term(sk[i + 1], r)
    BY DEF first_block, assert_eq
  <2>1. i = 0 /\ i + 1 = 1
    BY <1>1, <1>3
  <2> QED BY <1>4, <1>5, <2>1
<1>9. last_block(row) => assert_eq(s, reduce_q(l) + quotient_q(l) * Q)
  <2> SUFFICES ASSUME row % N_TABLE_ROWS = N - 1 PROVE s = l
    BY <1>7 DEF last_block, assert_eq
  <2>1. i = N - 1
    BY <1>1, <1>3
  <2> QED BY <2>1
<1>10. \A k \in Blocks : sel(k, row) => sk[i + 1] = sk[k + 1]
  <2> SUFFICES ASSUME NEW k \in Blocks, row % N_TABLE_ROWS = k PROVE k = i
    BY DEF sel
  <2>1. k < N
    BY <1>1 DEF Blocks
  <2> QED BY <1>3, <2>1
<1>11. RowRules(row, sk, sk[i + 1], r, s, reduce_q(l), quotient_q(l))
  <2>1. \E sumColumn \in Opening(m[v]) : assert_eq(reduce_q(l), sumColumn)
    BY <1>6 DEF Opening, assert_eq
  <2> QED BY <1>4, <1>8, <1>9, <1>10, <2>1 DEF RowRules
<1>12. row > 0 => NextRowRules(PreprocHonestSum(evaluation(row - 1), block(row - 1)), row, sk[i + 1], r, s)
  <2> DEFINE x == row - 1
             before == PreprocHonestSum(evaluation(x), block(x))
  <2> SUFFICES ASSUME row > 0, x % N_TABLE_ROWS < N - 1 PROVE s = before + term(sk[i + 1], r)
    BY DEF NextRowRules, has_next_block, assert_eq
  <2>1. x \in Nat /\ x + 1 = row
    BY <1>1
  <2>2. x % N_TABLE_ROWS \in 0 .. N_TABLE_ROWS - 1
    BY <2>1, BlockOfTable
  <2>3. block(x) = x % N_TABLE_ROWS
    BY <1>1, <2>2 DEF block
  <2> HIDE DEF x
  <2>4. row % N_TABLE_ROWS = (x % N_TABLE_ROWS) + 1 /\ v = evaluation(x)
    <3>1. x % N_TABLE_ROWS < N_TABLE_ROWS - 1
      BY <1>1, <2>2
    <3> QED BY <2>1, <3>1, NextBlock
  <2>5. i > 0 /\ i - 1 = block(x)
    <3>1. i = (x % N_TABLE_ROWS) + 1
      BY <1>1, <1>3, <2>2, <2>4
    <3> QED BY <2>2, <2>3, <3>1
  <2> QED BY <1>4, <1>5, <2>4, <2>5
<1>13. PreprocHonestRow(row) = [sk_i |-> sk[i + 1], r |-> r, sum |-> s,
                                r_sigma |-> reduce_q(l), quotient |-> quotient_q(l)]
  BY <1>1, SameBlock DEF PreprocHonestRow
<1>14. row > 0 =>
          PreprocHonestRow(row - 1).sum = PreprocHonestSum(evaluation(row - 1), block(row - 1))
  <2>1. row > 0 => row - 1 \in Nat
    BY <1>1
  <2> QED BY <2>1, SameBlock DEF PreprocHonestRow
<1> HIDE DEF v, i, r, s, l
<1> QED BY <1>5, <1>7, <1>11, <1>12, <1>13, <1>14

(* An honest prover is never refused on any row of the preprocessing       *)
(* circuit: after the last block, after the last evaluation, and with the  *)
(* largest quotient.                                                       *)
THEOREM PreprocCircuitHonest == PreprocSpec => []PreprocHonestAccepted
BY PreprocCircuitType, PreprocRowComplete, PTL
=============================================================================
