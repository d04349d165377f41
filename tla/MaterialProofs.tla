--------------------------- MODULE MaterialProofs ---------------------------
(***************************************************************************)
(* Lemmas about the operators that the data of a session is computed with: *)
(* sums and bits (Sums), the moduli (PoolArith), the server's equations    *)
(* (PoolEval), the 1-out-of-DELTA OT (DeltaOt), and one evaluation from    *)
(* the OTs to the output (Material).                                       *)
(*                                                                         *)
(* The induction theorems of the library have an operator as a parameter.  *)
(* What is shown by induction here is stated of a set of numbers instead.  *)
(***************************************************************************)
EXTENDS Material, WellFoundedInduction, TLAPS

----------------------------------------------------------------------------
(* Induction.                                                              *)

\* A set with 0 and with the successors of its elements has every number.
LEMMA SetInduction ==
    ASSUME NEW T \in SUBSET Nat, 0 \in T, \A n \in T : n + 1 \in T
    PROVE  T = Nat
<1> DEFINE U == Nat \ T
           R == OpToRel(<, Nat)
<1>1. SUFFICES ASSUME U # {} PROVE FALSE
  OBVIOUS
<1>2. PICK x \in U : \A y \in U : ~(<<y, x>> \in R)
  <2>1. IsWellFoundedOn(R, Nat)
    BY NatLessThanWellFounded, Zenon
  <2>2. U \subseteq Nat
    OBVIOUS
  <2> HIDE DEF U, R
  <2> QED BY <1>1, <2>1, <2>2, WFMin
<1>3. x \in Nat /\ x # 0 /\ x \notin T
  OBVIOUS
<1>4. x - 1 \in Nat
  BY <1>3
<1>5. x - 1 \notin T
  BY <1>3, <1>4
<1>6. <<x - 1, x>> \in R
  <2>1. x - 1 < x /\ <<x - 1, x>> \in Nat \X Nat /\ <<x - 1, x>>[1] = x - 1 /\ <<x - 1, x>>[2] = x
    BY <1>3, <1>4
  <2> QED BY <2>1, Zenon DEF OpToRel
<1> QED BY <1>2, <1>4, <1>5, <1>6

----------------------------------------------------------------------------
(* Sums.                                                                   *)

\* s has the sums of f up to k, as in the definition of Partial.
SumsOf(s, f, k) == s = [n \in 0 .. k |-> IF n = 0 THEN 0 ELSE s[n - 1] + f[n]]

\* There is such a function, for every k.
LEMMA SumsExist ==
    ASSUME NEW f, NEW k \in Nat
    PROVE  \E s : SumsOf(s, f, k)
<1> DEFINE T == {n \in Nat : \E s : SumsOf(s, f, n)}
<1>1. 0 \in T
  <2> DEFINE s == [n \in 0 .. 0 |-> 0]
  <2>1. SumsOf(s, f, 0)
    BY DEF SumsOf
  <2> QED BY <2>1
<1>2. ASSUME NEW n \in T PROVE n + 1 \in T
  <2>1. PICK s : SumsOf(s, f, n)
    OBVIOUS
  <2> DEFINE t == [j \in 0 .. n + 1 |-> IF j = n + 1 THEN s[n] + f[n + 1] ELSE s[j]]
  <2>2. n \in Nat
    OBVIOUS
  <2>3. ASSUME NEW j \in 0 .. n + 1
        PROVE  t[j] = IF j = 0 THEN 0 ELSE t[j - 1] + f[j]
    <3>1. CASE j = n + 1
      BY <2>2, <3>1
    <3>2. CASE j # n + 1
      <4>1. j \in 0 .. n
        BY <2>2, <3>2
      <4>2. s[j] = IF j = 0 THEN 0 ELSE s[j - 1] + f[j]
        BY <2>1, <4>1 DEF SumsOf
      <4>3. j # 0 => j - 1 \in 0 .. n + 1 /\ j - 1 # n + 1
        BY <2>2, <4>1
      <4> QED BY <3>2, <4>2, <4>3
    <3> QED BY <3>1, <3>2
  <2>4. SumsOf(t, f, n + 1)
    BY <2>3 DEF SumsOf
  <2> QED BY <2>2, <2>4
<1> HIDE DEF T
<1>3. T = Nat
  <2>1. T \in SUBSET Nat
    BY DEF T
  <2> QED BY <1>1, <1>2, <2>1, SetInduction
<1> QED BY <1>3 DEF T

\* Partial(f, k) is the last of the sums of f up to k.
LEMMA PartialSums ==
    ASSUME NEW f, NEW k \in Nat
    PROVE  \E s : SumsOf(s, f, k) /\ Partial(f, k) = s[k]
<1> DEFINE s == CHOOSE g : SumsOf(g, f, k)
<1>1. SumsOf(s, f, k)
  BY SumsExist
<1>2. Partial(f, k) = s[k]
  BY DEF Partial, SumsOf
<1> QED BY <1>1, <1>2

\* The two equations of a sum.
LEMMA PartialEquations ==
    ASSUME NEW f, NEW k \in Nat
    PROVE  Partial(f, 0) = 0 /\ Partial(f, k + 1) = Partial(f, k) + f[k + 1]
<1>1. Partial(f, 0) = 0
  <2>1. PICK s : SumsOf(s, f, 0) /\ Partial(f, 0) = s[0]
    BY PartialSums
  <2> QED BY <2>1 DEF SumsOf
<1>2. PICK s : SumsOf(s, f, k) /\ Partial(f, k) = s[k]
  BY PartialSums
<1>3. PICK t : SumsOf(t, f, k + 1) /\ Partial(f, k + 1) = t[k + 1]
  BY PartialSums
<1> DEFINE T == {n \in Nat : n <= k => s[n] = t[n]}
<1>4. 0 \in T
  BY <1>2, <1>3 DEF SumsOf
<1>5. ASSUME NEW n \in T PROVE n + 1 \in T
  <2>1. n \in Nat /\ n + 1 \in Nat /\ n + 1 # 0 /\ (n + 1) - 1 = n
    OBVIOUS
  <2>2. CASE n + 1 <= k
    <3>1. s[n] = t[n] /\ n + 1 \in 0 .. k /\ n + 1 \in 0 .. k + 1
      BY <2>1, <2>2
    <3>2. s[n + 1] = s[n] + f[n + 1] /\ t[n + 1] = t[n] + f[n + 1]
      BY <1>2, <1>3, <2>1, <3>1 DEF SumsOf
    <3> QED BY <2>1, <3>1, <3>2
  <2> QED BY <2>1, <2>2
<1> HIDE DEF T
<1>6. k \in T
  <2>1. T \in SUBSET Nat
    BY DEF T
  <2> QED BY <1>4, <1>5, <2>1, SetInduction
<1>7. s[k] = t[k]
  BY <1>6 DEF T
<1>8. t[k + 1] = t[k] + f[k + 1]
  BY <1>3 DEF SumsOf
<1> QED BY <1>1, <1>2, <1>3, <1>7, <1>8

\* A sum of integers is one, and two sums of the same terms are the same.
LEMMA PartialInt ==
    ASSUME NEW f, NEW k \in Nat, \A i \in 1 .. k : f[i] \in Int
    PROVE  Partial(f, k) \in Int
<1> DEFINE T == {n \in Nat : n <= k => Partial(f, n) \in Int}
<1>1. 0 \in T
  BY PartialEquations
<1>2. ASSUME NEW n \in T PROVE n + 1 \in T
  <2>1. n \in Nat /\ Partial(f, n + 1) = Partial(f, n) + f[n + 1]
    BY PartialEquations
  <2>2. n + 1 <= k => n + 1 \in 1 .. k /\ n <= k
    BY <2>1
  <2> QED BY <2>1, <2>2
<1> HIDE DEF T
<1>3. T = Nat
  BY <1>1, <1>2, SetInduction DEF T
<1> QED BY <1>3 DEF T

\* Sums of natural numbers are natural numbers.
LEMMA PartialNat ==
    ASSUME NEW f, NEW k \in Nat, \A i \in 1 .. k : f[i] \in Nat
    PROVE  Partial(f, k) \in Nat
<1> DEFINE T == {n \in Nat : n <= k => Partial(f, n) \in Nat}
<1>1. 0 \in T
  BY PartialEquations
<1>2. ASSUME NEW n \in T PROVE n + 1 \in T
  <2>1. n \in Nat /\ Partial(f, n + 1) = Partial(f, n) + f[n + 1]
    BY PartialEquations
  <2>2. n + 1 <= k => n + 1 \in 1 .. k /\ n <= k
    BY <2>1
  <2> QED BY <2>1, <2>2
<1> HIDE DEF T
<1>3. T = Nat
  BY <1>1, <1>2, SetInduction DEF T
<1> QED BY <1>3 DEF T

\* Equal terms have equal sums.
LEMMA PartialSame ==
    ASSUME NEW f, NEW g, NEW k \in Nat, \A i \in 1 .. k : f[i] = g[i]
    PROVE  Partial(f, k) = Partial(g, k)
<1> DEFINE T == {n \in Nat : n <= k => Partial(f, n) = Partial(g, n)}
<1>1. 0 \in T
  BY PartialEquations
<1>2. ASSUME NEW n \in T PROVE n + 1 \in T
  <2>1. /\ n \in Nat /\ Partial(f, n + 1) = Partial(f, n) + f[n + 1]
        /\ Partial(g, n + 1) = Partial(g, n) + g[n + 1]
    BY PartialEquations
  <2>2. n + 1 <= k => n + 1 \in 1 .. k /\ n <= k
    BY <2>1
  <2> QED BY <2>1, <2>2
<1> HIDE DEF T
<1>3. T = Nat
  BY <1>1, <1>2, SetInduction DEF T
<1> QED BY <1>3 DEF T

----------------------------------------------------------------------------
(* Modular arithmetic with a modulus that is not known.                    *)

\* x and z differ by a multiple of n.
Cong(x, z, n) == \E c \in Int : x = z + c * n

\* What \div and % compute.
LEMMA DivMod ==
    ASSUME NEW x \in Int, NEW n \in Nat \ {0}
    PROVE  x \div n \in Int /\ x % n \in 0 .. n - 1 /\ x = (x \div n) * n + (x % n)
  OBVIOUS

\* The only multiple of n strictly between -n and n is 0.
LEMMA NoMultiple ==
    ASSUME NEW n \in Nat \ {0}, NEW d \in Int, NEW s \in Int, d * n = s, -n < s, s < n
    PROVE  d = 0
<1>1. CASE d >= 1
  <2>1. d * n >= n
    BY <1>1
  <2> QED BY <2>1
<1>2. CASE d <= -1
  <2>1. d * n <= -n
    BY <1>2
  <2> QED BY <2>1
<1> QED BY <1>1, <1>2

\* Quotient and remainder are unique.
LEMMA ModUnique ==
    ASSUME NEW n \in Nat \ {0}, NEW k \in Int, NEW m \in 0 .. n - 1
    PROVE  (k * n + m) % n = m /\ (k * n + m) \div n = k
<1> DEFINE x == k * n + m
           h == x \div n
           l == x % n
<1>1. h \in Int /\ l \in 0 .. n - 1 /\ x = h * n + l
  BY DivMod
<1>2. (h - k) * n = m - l
  BY <1>1
<1> HIDE DEF h, l, x
<1>3. h - k = 0
  <2>1. m - l < n /\ -n < m - l /\ h - k \in Int /\ m - l \in Int
    BY <1>1
  <2> QED BY <1>2, <2>1, NoMultiple
<1>4. m - l = 0
  BY <1>1, <1>2, <1>3
<1>5. l = m /\ h = k
  BY <1>1, <1>3, <1>4
<1> QED BY <1>5 DEF h, l, x

\* Reducing a number leaves its residue class.
LEMMA ModCong ==
    ASSUME NEW x \in Int, NEW n \in Nat \ {0}
    PROVE  x % n \in Int /\ Cong(x % n, x, n) /\ Cong(x, x % n, n)
<1> DEFINE h == x \div n
           l == x % n
<1>1. h \in Int /\ l \in Int /\ x = h * n + l
  BY DivMod
<1> HIDE DEF h, l
<1>2. l = x + (-h) * n /\ -h \in Int
  BY <1>1
<1>3. Cong(l, x, n)
  BY <1>2 DEF Cong
<1>4. Cong(x, l, n)
  <2>1. x = l + h * n
    BY <1>1
  <2> QED BY <2>1, <1>1 DEF Cong
<1> QED BY <1>1, <1>3, <1>4 DEF l

\* Congruent numbers have the same remainder.
LEMMA CongMod ==
    ASSUME NEW x \in Int, NEW z \in Int, NEW n \in Nat \ {0}, Cong(x, z, n)
    PROVE  x % n = z % n
<1>1. PICK c \in Int : x = z + c * n
  BY DEF Cong
<1> DEFINE h == z \div n
           l == z % n
<1>2. h \in Int /\ l \in 0 .. n - 1 /\ z = h * n + l
  BY DivMod
<1> HIDE DEF h, l
<1>3. x = (h + c) * n + l /\ h + c \in Int
  BY <1>1, <1>2
<1>4. x % n = l
  BY <1>2, <1>3, ModUnique
<1> QED BY <1>4 DEF l

\* The converse.
LEMMA ModEqual ==
    ASSUME NEW x \in Int, NEW z \in Int, NEW n \in Nat \ {0}, x % n = z % n
    PROVE  Cong(x, z, n)
<1> DEFINE h == x \div n
           g == z \div n
           l == x % n
<1>1. h \in Int /\ l \in Int /\ x = h * n + l
  BY DivMod
<1>2. g \in Int /\ z = g * n + l
  BY DivMod
<1> HIDE DEF h, g, l
<1>3. x = z + (h - g) * n /\ h - g \in Int
  BY <1>1, <1>2
<1> QED BY <1>3 DEF Cong

\* Congruences add up.
LEMMA CongAdd ==
    ASSUME NEW x \in Int, NEW z \in Int, NEW v \in Int, NEW w \in Int, NEW n \in Nat \ {0},
           Cong(x, z, n), Cong(v, w, n)
    PROVE  Cong(x + v, z + w, n)
<1>1. PICK c \in Int : x = z + c * n
  BY DEF Cong
<1>2. PICK d \in Int : v = w + d * n
  BY DEF Cong
<1>3. x + v = (z + w) + (c + d) * n /\ c + d \in Int
  BY <1>1, <1>2
<1> QED BY <1>3 DEF Cong

\* Congruence is transitive.
LEMMA CongTrans ==
    ASSUME NEW x \in Int, NEW z \in Int, NEW w \in Int, NEW n \in Nat \ {0},
           Cong(x, z, n), Cong(z, w, n)
    PROVE  Cong(x, w, n)
<1>1. PICK c \in Int : x = z + c * n
  BY DEF Cong
<1>2. PICK d \in Int : z = w + d * n
  BY DEF Cong
<1>3. x = w + (c + d) * n /\ c + d \in Int
  BY <1>1, <1>2
<1> QED BY <1>3 DEF Cong

\* q is positive.
LEMMA Moduli == P \in Nat \ {0} /\ DELTA \in Nat \ {0} /\ Q \in Nat \ {0} /\ N \in Nat \ {0}
<1>1. P >= 1 /\ DELTA >= 1 /\ P \in Nat /\ DELTA \in Nat /\ N \in Nat \ {0}
  BY PoolAssumption
<1>2. P * DELTA >= 1 /\ P * DELTA \in Nat
  BY <1>1
<1> QED BY <1>1, <1>2 DEF Q

\* The range of the reductions.
LEMMA Reduced ==
    ASSUME NEW x \in Int
    PROVE  reduce_q(x) \in Zq /\ reduce_p(x) \in Zp /\ reduce_delta(x) \in Zdelta
  BY Moduli, DivMod DEF reduce_q, reduce_p, reduce_delta, Zq, Zp, Zdelta

\* 0 is an element of every ring.
LEMMA Zeroes == 0 \in Zq /\ 0 \in Zp /\ 0 \in Zdelta
  BY Moduli DEF Zq, Zp, Zdelta

\* The elements of the rings are integers.
LEMMA RingNat ==
    /\ \A x \in Zq : x \in Nat /\ x < Q
    /\ \A x \in Zp : x \in Nat /\ x < P
    /\ \A x \in Zdelta : x \in Nat /\ x < DELTA
    /\ \A x \in Coords : x \in Nat
  BY Moduli DEF Zq, Zp, Zdelta, Coords

----------------------------------------------------------------------------
(* The equations of the protocol.                                          *)

\* Rounding commutes with the addition of multiples of DELTA: a sum u * DELTA + t that wraps at q
\* rounds to a number that wraps at p.
LEMMA RoundShift ==
    ASSUME NEW s \in Zq, NEW h \in Nat, NEW x \in Int, Cong(x, s + h * DELTA, Q)
    PROVE  round_zq_to_zp(reduce_q(x)) = reduce_p(round(s) + h)
<1> DEFINE u == s \div DELTA
           t == s % DELTA
           w == (u + h) % P
           c == (u + h) \div P
           eps == IF t > DELTA \div 2 THEN 1 ELSE 0
<1>1. s \in Int /\ s >= 0 /\ s < P * DELTA
  BY Moduli DEF Zq, Q
<1>2. u \in Int /\ t \in 0 .. DELTA - 1 /\ s = u * DELTA + t
  BY <1>1, Moduli, DivMod
<1>3. c \in Int /\ w \in 0 .. P - 1 /\ u + h = c * P + w
  <2>1. u + h \in Int
    BY <1>2
  <2> QED BY <2>1, Moduli, DivMod
<1>4. eps \in {0, 1}
  OBVIOUS
<1>5. round(s) = u + eps
  BY DEF round
<1> HIDE DEF u, t, w, c
<1>6. w * DELTA + t \in 0 .. Q - 1
  <2>1. P \in Nat /\ DELTA \in Nat /\ w \in Nat /\ w <= P - 1 /\ t \in Nat /\ t <= DELTA - 1
    BY <1>2, <1>3, Moduli
  <2>2. w * DELTA <= (P - 1) * DELTA
    BY <2>1
  <2>3. (P - 1) * DELTA = P * DELTA - DELTA
    BY <2>1
  <2>4. w * DELTA \in Nat /\ P * DELTA \in Nat
    BY <2>1
  <2> QED BY <2>1, <2>2, <2>3, <2>4 DEF Q
<1>7. Cong(s + h * DELTA, w * DELTA + t, Q)
  <2>1. s + h * DELTA = (u + h) * DELTA + t
    BY <1>2, Moduli
  <2>2. (u + h) * DELTA = (c * P + w) * DELTA
    BY <1>3
  <2>3. (c * P + w) * DELTA = c * (P * DELTA) + w * DELTA
    BY <1>3, Moduli
  <2>4. s + h * DELTA = (w * DELTA + t) + c * Q
    BY <2>1, <2>2, <2>3, <1>2, <1>3, Moduli DEF Q
  <2> QED BY <2>4, <1>3 DEF Cong
<1>8. reduce_q(x) = w * DELTA + t
  <2>1. s + h * DELTA \in Int /\ w * DELTA + t \in Int
    BY <1>1, <1>6, Moduli
  <2>2. Cong(x, w * DELTA + t, Q)
    BY <1>7, <2>1, Moduli, CongTrans
  <2>3. x % Q = (w * DELTA + t) % Q
    BY <2>1, <2>2, Moduli, CongMod
  <2>4. (0 * Q + (w * DELTA + t)) % Q = w * DELTA + t
    BY <1>6, Moduli, ModUnique
  <2>5. 0 * Q + (w * DELTA + t) = w * DELTA + t
    BY <2>1, Moduli
  <2> QED BY <2>3, <2>4, <2>5 DEF reduce_q
<1>9. round(reduce_q(x)) = w + eps
  <2>1. (w * DELTA + t) % DELTA = t /\ (w * DELTA + t) \div DELTA = w
    <3>1. w \in Int /\ t \in 0 .. DELTA - 1 /\ DELTA \in Nat \ {0}
      BY <1>2, <1>3, Moduli
    <3> HIDE DEF eps
    <3> QED BY <3>1, ModUnique
  <2> QED BY <1>8, <2>1 DEF round
<1>10. Cong(w + eps, round(s) + h, P)
  <2>1. w + eps = (u + eps + h) + (-c) * P /\ -c \in Int
    <3>1. (-c) * P = -(c * P) /\ c * P \in Int
      BY <1>3, Moduli
    <3> QED BY <3>1, <1>2, <1>3, <1>4
  <2> QED BY <2>1, <1>5 DEF Cong
<1> QED
  <2>1. w + eps \in Int /\ round(s) + h \in Int
    BY <1>2, <1>3, <1>4, <1>5
  <2> QED BY <2>1, <1>9, <1>10, Moduli, CongMod DEF round_zq_to_zp, reduce_p

\* The entry of the response that the client reads is masked with the pad it holds.
LEMMA PadIndex ==
    ASSUME NEW l \in Zdelta, NEW c \in Zdelta
    PROVE  sub_delta(l, sub_delta(l, c)) = c
<1>1. l \in Int /\ c \in 0 .. DELTA - 1 /\ DELTA \in Nat \ {0}
  BY Moduli DEF Zdelta
<1> DEFINE g == (l + DELTA - c) % DELTA
           f == (l + DELTA - c) \div DELTA
<1>2. g \in Int /\ f \in Int /\ l + DELTA - c = f * DELTA + g
  BY <1>1, DivMod
<1> HIDE DEF f, g
<1>3. l + DELTA - g = f * DELTA + c
  BY <1>1, <1>2
<1>4. (f * DELTA + c) % DELTA = c
  BY <1>1, <1>2, ModUnique
<1> QED BY <1>3, <1>4 DEF sub_delta, g

\* Adding a pad mod p and subtracting it and h again, mod p.
LEMMA Unblind ==
    ASSUME NEW x \in Int, NEW d \in Int, NEW h \in Int, NEW v \in Int, Cong(x, v + h, P)
    PROVE  sub_p(sub_p(add_p(x, d), d), h) = reduce_p(v)
<1> DEFINE f == add_p(x, d)
           g == sub_p(f, d)
<1>1. f \in Int /\ Cong(f, x + d, P)
  <2>1. x + d \in Int
    OBVIOUS
  <2> QED BY <2>1, Moduli, ModCong DEF add_p, reduce_p
<1> HIDE DEF f
<1>2. g \in Int /\ Cong(g, f + P - d, P)
  <2>1. f + P - d \in Int
    BY <1>1, Moduli
  <2> QED BY <2>1, Moduli, ModCong DEF sub_p, reduce_p
<1> HIDE DEF g
<1>3. PICK c1 \in Int : f = x + d + c1 * P
  BY <1>1 DEF Cong
<1>4. PICK c2 \in Int : g = f + P - d + c2 * P
  BY <1>2 DEF Cong
<1>5. PICK c3 \in Int : x = v + h + c3 * P
  BY DEF Cong
<1>6. g + P - h = v + (c1 + c2 + c3 + 2) * P
  BY <1>1, <1>2, <1>3, <1>4, <1>5, Moduli
<1>7. Cong(g + P - h, v, P)
  <2>1. c1 + c2 + c3 + 2 \in Int
    OBVIOUS
  <2> QED BY <1>6, <2>1 DEF Cong
<1>8. g + P - h \in Int
  BY <1>2, Moduli
<1>9. (g + P - h) % P = v % P
  BY <1>7, <1>8, Moduli, CongMod
<1> QED BY <1>9 DEF sub_p, reduce_p, g, f

\* finalize_row on respond: if what the server added up is v plus the client's masks, the output
\* is v rounded.
LEMMA RowArithmetic ==
    ASSUME NEW v \in Int, NEW ra \in Int, NEW x \in Int, NEW pd \in Zp,
           Cong(x, v + ra, Q)
    PROVE  LET rs  == reduce_q(ra)
               low == reduce_delta(rs)
               yl  == add_p(rounded(reduce_q(x), low), pd)
           IN  sub_p(sub_p(yl, pd), (rs - low) \div DELTA) = round_zq_to_zp(reduce_q(v))
<1> DEFINE rs  == reduce_q(ra)
           low == reduce_delta(rs)
           h   == (rs - low) \div DELTA
           s   == reduce_q(v)
           z   == reduce_q(x) + Q - low
<1>1. rs \in Zq /\ s \in Zq /\ reduce_q(x) \in Zq
  BY Reduced
<1>2. rs \in Nat /\ s \in Int /\ reduce_q(x) \in Int
  BY <1>1, Moduli DEF Zq
<1>3. low \in Zdelta
  BY <1>2, Reduced
<1>4. rs = h * DELTA + low /\ h \in Nat
  <2> DEFINE g == rs \div DELTA
  <2>1. g \in Int /\ low \in 0 .. DELTA - 1 /\ rs = g * DELTA + low
    <3>1. rs \in Int /\ DELTA \in Nat \ {0}
      BY <1>2, Moduli
    <3> HIDE DEF rs
    <3> QED BY <3>1, DivMod DEF reduce_delta
  <2> HIDE DEF g, low, rs
  <2>2. rs - low = g * DELTA + 0
    BY <2>1, Moduli
  <2>3. 0 \in 0 .. DELTA - 1
    BY Moduli
  <2>4. (g * DELTA + 0) \div DELTA = g
    BY <2>1, <2>3, Moduli, ModUnique
  <2>5. h = g
    BY <2>2, <2>4
  <2>6. g >= 0
    <3>1. SUFFICES ASSUME g <= -1 PROVE FALSE
      BY <2>1
    <3>2. g * DELTA <= -DELTA
      BY <2>1, <3>1, Moduli
    <3> QED BY <3>2, <2>1, <1>2, Moduli
  <2> QED BY <2>1, <2>5, <2>6
<1> HIDE DEF rs, low, h, s
<1>5. low \in Int
  BY <1>3, Moduli DEF Zdelta
<1>6. Cong(z, s + h * DELTA, Q)
  <2>1. PICK c1 \in Int : x = v + ra + c1 * Q
    BY DEF Cong
  <2>2. PICK c2 \in Int : rs = ra + c2 * Q
    BY Moduli, ModCong DEF Cong, rs, reduce_q
  <2>3. PICK c3 \in Int : s = v + c3 * Q
    BY Moduli, ModCong DEF Cong, s, reduce_q
  <2>4. PICK c4 \in Int : reduce_q(x) = x + c4 * Q
    BY Moduli, ModCong DEF Cong, reduce_q
  <2> HIDE DEF z
  <2>5. z = (x + c4 * Q) + Q - low
    BY <2>4 DEF z
  <2>6. z = s + h * DELTA + (c1 + c4 + 1 - c2 - c3) * Q
    <3> DEFINE hd == h * DELTA
    <3>1. hd \in Int /\ rs = hd + low
      BY <1>4, Moduli
    <3> HIDE DEF hd
    <3>2. z = s + hd + (c1 + c4 + 1 - c2 - c3) * Q
      BY <2>1, <2>2, <2>3, <2>5, <3>1, <1>2, <1>5, Moduli
    <3> QED BY <3>2 DEF hd
  <2>7. c1 + c4 + 1 - c2 - c3 \in Int
    OBVIOUS
  <2> QED BY <2>6, <2>7 DEF Cong
<1>7. rounded(reduce_q(x), low) = reduce_p(round(s) + h)
  <2>1. z \in Int
    BY <1>2, <1>5, Moduli
  <2>2. round_zq_to_zp(reduce_q(z)) = reduce_p(round(s) + h)
    BY <1>1, <1>4, <1>6, <2>1, RoundShift
  <2> QED BY <2>2 DEF rounded, sub_q
<1>8. round(s) \in Int
  <2>1. s \div DELTA \in Int
    BY <1>2, Moduli, DivMod
  <2> QED BY <2>1 DEF round
<1>9. /\ reduce_p(round(s) + h) \in Int
      /\ Cong(reduce_p(round(s) + h), round(s) + h, P)
  <2>1. round(s) + h \in Int
    BY <1>4, <1>8
  <2> QED BY <2>1, Moduli, ModCong DEF reduce_p
<1>10. pd \in Int
  BY Moduli DEF Zp
<1>11. sub_p(sub_p(add_p(reduce_p(round(s) + h), pd), pd), h) = reduce_p(round(s))
  BY <1>4, <1>8, <1>9, <1>10, Unblind
<1> QED BY <1>7, <1>11 DEF rs, low, h, s, round_zq_to_zp

----------------------------------------------------------------------------
(* Powers of 2 and bits.                                                   *)

\* p has the powers of 2 up to k, as in the definition of Pow2.
PowersUpTo(p, k) == p = [i \in 0 .. k |-> IF i = 0 THEN 1 ELSE 2 * p[i - 1]]

\* There is such a function, for every k.
LEMMA PowersExist ==
    ASSUME NEW k \in Nat
    PROVE  \E p : PowersUpTo(p, k)
<1> DEFINE T == {n \in Nat : \E p : PowersUpTo(p, n)}
<1>1. 0 \in T
  <2> DEFINE p == [n \in 0 .. 0 |-> 1]
  <2>1. PowersUpTo(p, 0)
    BY DEF PowersUpTo
  <2> QED BY <2>1
<1>2. ASSUME NEW n \in T PROVE n + 1 \in T
  <2>1. PICK p : PowersUpTo(p, n)
    OBVIOUS
  <2> DEFINE t == [j \in 0 .. n + 1 |-> IF j = n + 1 THEN 2 * p[n] ELSE p[j]]
  <2>2. n \in Nat
    OBVIOUS
  <2>3. ASSUME NEW j \in 0 .. n + 1
        PROVE  t[j] = IF j = 0 THEN 1 ELSE 2 * t[j - 1]
    <3>1. CASE j = n + 1
      BY <2>2, <3>1
    <3>2. CASE j # n + 1
      <4>1. j \in 0 .. n
        BY <2>2, <3>2
      <4>2. p[j] = IF j = 0 THEN 1 ELSE 2 * p[j - 1]
        BY <2>1, <4>1 DEF PowersUpTo
      <4>3. j # 0 => j - 1 \in 0 .. n + 1 /\ j - 1 # n + 1
        BY <2>2, <4>1
      <4> QED BY <3>2, <4>2, <4>3
    <3> QED BY <3>1, <3>2
  <2>4. PowersUpTo(t, n + 1)
    BY <2>3 DEF PowersUpTo
  <2> QED BY <2>2, <2>4
<1> HIDE DEF T
<1>3. T = Nat
  BY <1>1, <1>2, SetInduction DEF T
<1> QED BY <1>3 DEF T

\* Pow2 is the last of such powers.
LEMMA PowLast ==
    ASSUME NEW k \in Nat
    PROVE  \E p : PowersUpTo(p, k) /\ Pow2(k) = p[k]
<1> DEFINE p == CHOOSE g : PowersUpTo(g, k)
<1>1. PowersUpTo(p, k)
  BY PowersExist
<1>2. Pow2(k) = p[k]
  BY DEF Pow2, PowersUpTo
<1> QED BY <1>1, <1>2

\* The powers of 2.
LEMMA PowStep ==
    ASSUME NEW k \in Nat
    PROVE  Pow2(0) = 1 /\ Pow2(k + 1) = 2 * Pow2(k)
<1>1. Pow2(0) = 1
  <2>1. PICK p : PowersUpTo(p, 0) /\ Pow2(0) = p[0]
    BY PowLast
  <2> QED BY <2>1 DEF PowersUpTo
<1>2. PICK s : PowersUpTo(s, k) /\ Pow2(k) = s[k]
  BY PowLast
<1>3. PICK t : PowersUpTo(t, k + 1) /\ Pow2(k + 1) = t[k + 1]
  BY PowLast
<1> DEFINE T == {n \in Nat : n <= k => s[n] = t[n]}
<1>4. 0 \in T
  BY <1>2, <1>3 DEF PowersUpTo
<1>5. ASSUME NEW n \in T PROVE n + 1 \in T
  <2>1. n \in Nat /\ n + 1 \in Nat /\ n + 1 # 0 /\ (n + 1) - 1 = n
    OBVIOUS
  <2>2. CASE n + 1 <= k
    <3>1. s[n] = t[n] /\ n + 1 \in 0 .. k /\ n + 1 \in 0 .. k + 1
      BY <2>1, <2>2
    <3>2. s[n + 1] = 2 * s[n] /\ t[n + 1] = 2 * t[n]
      BY <1>2, <1>3, <2>1, <3>1 DEF PowersUpTo
    <3> QED BY <2>1, <3>1, <3>2
  <2> QED BY <2>1, <2>2
<1> HIDE DEF T
<1>6. k \in T
  <2>1. T \in SUBSET Nat
    BY DEF T
  <2> QED BY <1>4, <1>5, <2>1, SetInduction
<1>7. s[k] = t[k]
  BY <1>6 DEF T
<1>8. t[k + 1] = 2 * t[k]
  BY <1>3 DEF PowersUpTo
<1> QED BY <1>1, <1>2, <1>3, <1>7, <1>8

\* A power of 2 is positive.
LEMMA PowPositive ==
    ASSUME NEW k \in Nat
    PROVE  Pow2(k) \in Nat \ {0}
<1> DEFINE T == {n \in Nat : Pow2(n) \in Nat \ {0}}
<1>1. 0 \in T
  BY PowStep
<1>2. ASSUME NEW n \in T PROVE n + 1 \in T
  BY PowStep
<1> HIDE DEF T
<1>3. T = Nat
  BY <1>1, <1>2, SetInduction DEF T
<1> QED BY <1>3 DEF T

\* A larger power is a multiple of a smaller one.
LEMMA PowMultiple ==
    ASSUME NEW i \in Nat, NEW k \in Nat, i <= k
    PROVE  \E m \in Nat : Pow2(k) = Pow2(i) * m
<1> DEFINE T == {n \in Nat : \E m \in Nat : Pow2(i + n) = Pow2(i) * m}
<1>1. 0 \in T
  <2>1. Pow2(i + 0) = Pow2(i) * 1
    BY PowPositive
  <2> QED BY <2>1
<1>2. ASSUME NEW n \in T PROVE n + 1 \in T
  <2>1. PICK m \in Nat : Pow2(i + n) = Pow2(i) * m
    OBVIOUS
  <2>2. n \in Nat /\ i + (n + 1) = (i + n) + 1 /\ Pow2((i + n) + 1) = 2 * Pow2(i + n)
    BY PowStep
  <2>3. Pow2(i + (n + 1)) = Pow2(i) * (2 * m) /\ 2 * m \in Nat
    BY <2>1, <2>2, PowPositive
  <2> QED BY <2>2, <2>3
<1> HIDE DEF T
<1>3. T = Nat
  BY <1>1, <1>2, SetInduction DEF T
<1>4. k - i \in T /\ i + (k - i) = k
  BY <1>3
<1> QED BY <1>4 DEF T

\* A bit is 0 or 1.
LEMMA BitType ==
    ASSUME NEW v \in Nat, NEW i \in Nat
    PROVE  bit(v, i) \in Bit
<1> DEFINE w == Pow2(i)
<1>1. w \in Nat \ {0} /\ v \in Int
  BY PowPositive
<1> HIDE DEF w
<1>2. v \div w \in Int
  BY <1>1, DivMod
<1>3. (v \div w) % 2 \in 0 .. 1
  BY <1>2, DivMod
<1> QED BY <1>3 DEF bit, Bit, w

\* One more bit on top of a number changes no bit below it.
LEMMA BitOnTop ==
    ASSUME NEW c \in Nat, NEW v \in 0 .. Pow2(c) - 1, NEW b \in Bit
    PROVE  /\ v + b * Pow2(c) \in 0 .. Pow2(c + 1) - 1
           /\ bit(v + b * Pow2(c), c) = b
           /\ \A i \in 0 .. c - 1 : bit(v + b * Pow2(c), i) = bit(v, i)
<1> DEFINE w == Pow2(c)
<1>0. w \in Nat \ {0} /\ Pow2(c + 1) = 2 * w
  BY PowPositive, PowStep
<1>1. w \in Nat \ {0} /\ Pow2(c + 1) = 2 * w /\ b \in 0 .. 1 /\ v \in 0 .. w - 1 /\ b \in Int /\ v \in Int
  BY <1>0 DEF Bit
<1>2. v + b * w \in 0 .. 2 * w - 1
  <2> HIDE DEF w
  <2>1. b = 0 \/ b = 1
    BY <1>1
  <2>2. CASE b = 0
    BY <1>1, <2>2
  <2>3. CASE b = 1
    BY <1>1, <2>3
  <2> QED BY <2>1, <2>2, <2>3
<1>3. bit(v + b * w, c) = b
  <2> HIDE DEF w
  <2>0. b \in Int /\ w \in Nat \ {0} /\ v \in 0 .. w - 1
    BY <1>1
  <2>1. (b * w + v) \div w = b
    BY <2>0, ModUnique
  <2>2. v + b * w = b * w + v /\ b % 2 = b
    BY <1>1
  <2> QED BY <2>1, <2>2 DEF bit, w
<1>4. ASSUME NEW i \in 0 .. c - 1 PROVE bit(v + b * w, i) = bit(v, i)
  <2> DEFINE u == Pow2(i)
             h == v \div u
             l == v % u
  <2>0. i \in Nat /\ i + 1 \in Nat /\ i + 1 <= c
    OBVIOUS
  <2>1. u \in Nat \ {0} /\ Pow2(i + 1) = 2 * u
    BY <2>0, PowPositive, PowStep
  <2>2. PICK m \in Nat : w = (2 * u) * m
    BY <2>0, <2>1, PowMultiple
  <2> HIDE DEF u, w
  <2>v. v \in Int
    BY <1>1
  <2>3. h \in Int /\ l \in 0 .. u - 1 /\ v = h * u + l
    BY <2>1, <2>v, DivMod
  <2> HIDE DEF h, l
  <2>4. b * w = (2 * (b * m)) * u /\ b * m \in Int
    BY <1>1, <2>1, <2>2
  <2>5. v + b * w = (h + 2 * (b * m)) * u + l /\ h + 2 * (b * m) \in Int
    BY <2>1, <2>3, <2>4
  <2>6. (v + b * w) \div u = h + 2 * (b * m)
    <3> DEFINE q == h + 2 * (b * m)
    <3>1. q \in Int /\ v + b * w = q * u + l
      BY <2>5
    <3> HIDE DEF q
    <3>2. (q * u + l) \div u = q
      BY <2>1, <2>3, <3>1, ModUnique
    <3> QED BY <3>1, <3>2 DEF q
  <2>7. (h + 2 * (b * m)) % 2 = h % 2
    <3> DEFINE q == h + 2 * (b * m)
    <3>1. q \in Int /\ h \in Int /\ q = h + (b * m) * 2 /\ 2 \in Nat \ {0}
      BY <2>3, <2>4, <2>5
    <3>2. Cong(q, h, 2)
      BY <2>4, <3>1 DEF Cong
    <3> HIDE DEF q
    <3>3. q % 2 = h % 2
      BY <3>1, <3>2, CongMod
    <3> QED BY <3>3 DEF q
  <2> QED BY <2>6, <2>7 DEF bit, u, h
<1> QED BY <1>1, <1>2, <1>3, <1>4

\* The equations of FromBits.
LEMMA FromBitsStep ==
    ASSUME NEW s, NEW c \in Nat
    PROVE  FromBits(s, 0) = 0 /\ FromBits(s, c + 1) = FromBits(s, c) + s[c] * Pow2(c)
<1> DEFINE f == [i \in 1 .. c + 1 |-> s[i - 1] * Pow2(i - 1)]
           g == [i \in 1 .. c |-> s[i - 1] * Pow2(i - 1)]
<1>1. FromBits(s, 0) = 0
  BY PartialEquations DEF FromBits
<1>2. Partial(f, c + 1) = Partial(f, c) + f[c + 1]
  BY PartialEquations
<1>3. Partial(f, c) = Partial(g, c)
  <2>1. \A i \in 1 .. c : f[i] = g[i]
    OBVIOUS
  <2> HIDE DEF f, g
  <2> QED BY <2>1, PartialSame
<1>4. f[c + 1] = s[c] * Pow2(c)
  <2>1. c + 1 \in 1 .. c + 1 /\ (c + 1) - 1 = c
    OBVIOUS
  <2> QED BY <2>1
<1> QED BY <1>1, <1>2, <1>3, <1>4 DEF FromBits

\* FromBits makes the number that has the bits.
LEMMA BitsOfNumber ==
    ASSUME NEW s, NEW k \in Nat, \A i \in 0 .. k - 1 : s[i] \in Bit
    PROVE  /\ FromBits(s, k) \in 0 .. Pow2(k) - 1
           /\ \A i \in 0 .. k - 1 : bit(FromBits(s, k), i) = s[i]
<1> DEFINE Right(c) == /\ FromBits(s, c) \in 0 .. Pow2(c) - 1
                       /\ \A i \in 0 .. c - 1 : bit(FromBits(s, c), i) = s[i]
           T == {c \in Nat : c <= k => Right(c)}
<1>1. 0 \in T
  <2>1. FromBits(s, 0) = 0 /\ Pow2(0) = 1
    BY FromBitsStep, PowStep
  <2>2. 0 .. 0 - 1 = {}
    OBVIOUS
  <2> QED BY <2>1, <2>2
<1>2. ASSUME NEW c \in T PROVE c + 1 \in T
  <2>1. c \in Nat
    OBVIOUS
  <2>2. SUFFICES ASSUME c + 1 <= k PROVE Right(c + 1)
    BY <2>1
  <2>3. s[c] \in Bit /\ Right(c)
    BY <2>1, <2>2
  <2> DEFINE v == FromBits(s, c)
  <2>4. FromBits(s, c + 1) = v + s[c] * Pow2(c)
    BY <2>1, FromBitsStep
  <2>5. v \in 0 .. Pow2(c) - 1 /\ \A i \in 0 .. c - 1 : bit(v, i) = s[i]
    BY <2>3
  <2> HIDE DEF v
  <2>6. /\ v + s[c] * Pow2(c) \in 0 .. Pow2(c + 1) - 1
        /\ bit(v + s[c] * Pow2(c), c) = s[c]
        /\ \A i \in 0 .. c - 1 : bit(v + s[c] * Pow2(c), i) = bit(v, i)
    BY <2>1, <2>3, <2>5, BitOnTop
  <2>7. \A i \in 0 .. (c + 1) - 1 : i = c \/ i \in 0 .. c - 1
    BY <2>1
  <2> QED BY <2>4, <2>5, <2>6, <2>7
<1> HIDE DEF T
<1>3. T = Nat
  BY <1>1, <1>2, SetInduction DEF T
<1> QED BY <1>3 DEF T

\* FromBits of the low bits of a number.
LEMMA NumberOfBits ==
    ASSUME NEW s, NEW v \in Nat, NEW k \in Nat, \A i \in 0 .. k - 1 : s[i] = bit(v, i), v < Pow2(k)
    PROVE  FromBits(s, k) = v
<1> DEFINE T == {c \in Nat : c <= k => FromBits(s, c) = v % Pow2(c)}
<1>1. 0 \in T
  <2>1. FromBits(s, 0) = 0 /\ Pow2(0) = 1
    BY FromBitsStep, PowStep
  <2>2. v % 1 = 0
    BY DivMod
  <2> QED BY <2>1, <2>2
<1>2. ASSUME NEW c \in T PROVE c + 1 \in T
  <2>1. c \in Nat
    OBVIOUS
  <2>2. SUFFICES ASSUME c + 1 <= k PROVE FromBits(s, c + 1) = v % Pow2(c + 1)
    BY <2>1
  <2> DEFINE w == Pow2(c)
             h == v \div w
             l == v % w
             g == h \div 2
             b == h % 2
  <2>3. w \in Nat \ {0} /\ Pow2(c + 1) = 2 * w
    BY <2>1, PowPositive, PowStep
  <2>4. FromBits(s, c) = l /\ s[c] = b
    BY <2>1, <2>2 DEF bit
  <2>5. FromBits(s, c + 1) = l + b * w
    BY <2>1, <2>4, FromBitsStep
  <2> HIDE DEF w
  <2>v. v \in Int
    OBVIOUS
  <2>6. h \in Int /\ l \in 0 .. w - 1 /\ v = h * w + l
    BY <2>3, <2>v, DivMod
  <2> HIDE DEF h, l
  <2>7. g \in Int /\ b \in 0 .. 1 /\ h = g * 2 + b
    BY <2>6, DivMod
  <2> HIDE DEF g, b
  <2>8. v = g * (2 * w) + (l + b * w)
    BY <2>3, <2>6, <2>7
  <2>9. l + b * w \in 0 .. 2 * w - 1 /\ 2 * w \in Nat \ {0}
    <3>1. CASE b = 0
      BY <2>3, <2>6, <3>1
    <3>2. CASE b = 1
      BY <2>3, <2>6, <3>2
    <3> QED BY <2>7, <3>1, <3>2
  <2>10. v % (2 * w) = l + b * w
    BY <2>7, <2>8, <2>9, ModUnique
  <2> QED BY <2>3, <2>5, <2>10
<1> HIDE DEF T
<1>3. T = Nat
  BY <1>1, <1>2, SetInduction DEF T
<1>4. FromBits(s, k) = v % Pow2(k)
  BY <1>3 DEF T
<1>5. v % Pow2(k) = v
  <2> DEFINE w == Pow2(k)
  <2>1. w \in Nat \ {0} /\ v \in 0 .. w - 1
    BY PowPositive
  <2> HIDE DEF w
  <2>2. (0 * w + v) % w = v /\ 0 * w + v = v
    BY <2>1, ModUnique
  <2> QED BY <2>2 DEF w
<1> QED BY <1>4, <1>5

\* Two numbers with the same low bits, and no others, are the same.
LEMMA BitsTell ==
    ASSUME NEW k \in Nat, NEW v \in 0 .. Pow2(k) - 1, NEW u \in 0 .. Pow2(k) - 1, v # u
    PROVE  \E i \in 0 .. k - 1 : bit(v, i) # bit(u, i)
<1> SUFFICES ASSUME \A i \in 0 .. k - 1 : bit(v, i) = bit(u, i) PROVE v = u
  OBVIOUS
<1> DEFINE s == [i \in 0 .. k - 1 |-> bit(v, i)]
<1>1. Pow2(k) \in Nat
  BY PowPositive
<1>2. /\ \A i \in 0 .. k - 1 : s[i] = bit(v, i) /\ s[i] = bit(u, i)
      /\ v \in Nat /\ u \in Nat /\ v < Pow2(k) /\ u < Pow2(k)
  BY <1>1
<1> HIDE DEF s
<1>3. FromBits(s, k) = v /\ FromBits(s, k) = u
  BY <1>2, NumberOfBits
<1> QED BY <1>3

----------------------------------------------------------------------------
(* The 1-out-of-DELTA OT.                                                  *)

\* The binary OT for bit i of run k.
OtIndex(k, i) == k * LOG_DELTA + i

\* The binary OTs, rounded up to whole batches, are LOG_DELTA for every run: no run is short.
LEMMA EnoughOts ==
    ASSUME NEW n \in Nat
    PROVE  /\ required_binary_ot_count(n) \in Nat
           /\ LOG_DELTA * n <= required_binary_ot_count(n)
           /\ n <= required_binary_ot_count(n) \div LOG_DELTA
<1> DEFINE x == LOG_DELTA * n
           b == BASE_OT_COUNT
           q == (x + b - 1) \div b
           r == (x + b - 1) % b
           c == q * b
           h == c \div LOG_DELTA
           l == c % LOG_DELTA
<1>1. LOG_DELTA \in Nat \ {0} /\ b \in Nat \ {0} /\ x \in Nat
  BY DeltaOtAssumption
<1>0. c = required_binary_ot_count(n)
  BY DEF required_binary_ot_count, next_multiple_of
<1> HIDE DEF b
<1>2. x + b - 1 \in Int
  BY <1>1
<1>3. q \in Int /\ r \in 0 .. b - 1 /\ x + b - 1 = q * b + r
  BY <1>1, <1>2, DivMod
<1> HIDE DEF q, r
<1>4. c \in Int /\ c >= x
  BY <1>1, <1>3
<1> HIDE DEF c
<1>5. h \in Int /\ l \in 0 .. LOG_DELTA - 1 /\ c = h * LOG_DELTA + l
  BY <1>1, <1>4, DivMod
<1> HIDE DEF h, l
<1>6. n <= h
  <2>1. SUFFICES ASSUME h < n PROVE FALSE
    BY <1>5
  <2>2. (h + 1) * LOG_DELTA <= n * LOG_DELTA
    BY <1>1, <1>5, <2>1
  <2>3. (h + 1) * LOG_DELTA = h * LOG_DELTA + LOG_DELTA
    BY <1>1, <1>5
  <2>4. n * LOG_DELTA = x
    BY <1>1 DEF x
  <2> HIDE DEF x
  <2> QED BY <1>1, <1>4, <1>5, <2>2, <2>3, <2>4
<1> QED BY <1>0, <1>1, <1>4, <1>6 DEF h

\* Every run has its own binary OTs.
LEMMA OtIndices ==
    ASSUME NEW n \in Nat, NEW k \in 0 .. n - 1, NEW i \in ChoiceBits
    PROVE  /\ OtIndex(k, i) \in 0 .. required_binary_ot_count(n) - 1
           /\ \A o \in 0 .. n - 1, m \in ChoiceBits : OtIndex(k, i) = OtIndex(o, m) => k = o /\ i = m
<1>1. LOG_DELTA \in Nat \ {0} /\ i \in 0 .. LOG_DELTA - 1 /\ k \in Nat /\ k + 1 <= n
  BY DeltaOtAssumption DEF ChoiceBits
<1>2. (k + 1) * LOG_DELTA <= n * LOG_DELTA /\ (k + 1) * LOG_DELTA = k * LOG_DELTA + LOG_DELTA
  BY <1>1
<1>3. k * LOG_DELTA \in Nat /\ n * LOG_DELTA = LOG_DELTA * n /\ LOG_DELTA * n \in Nat
  BY <1>1
<1>4. OtIndex(k, i) \in 0 .. required_binary_ot_count(n) - 1
  <2> DEFINE c == required_binary_ot_count(n)
             x == k * LOG_DELTA
  <2>1. c \in Nat /\ LOG_DELTA * n <= c
    BY EnoughOts
  <2>2. x \in Nat /\ x + LOG_DELTA <= c
    BY <1>1, <1>2, <1>3, <2>1
  <2> HIDE DEF c, x
  <2>3. x + i \in 0 .. c - 1
    BY <1>1, <2>1, <2>2
  <2> QED BY <2>3 DEF c, x, OtIndex
<1>5. ASSUME NEW o \in 0 .. n - 1, NEW m \in ChoiceBits, OtIndex(k, i) = OtIndex(o, m)
      PROVE  k = o /\ i = m
  <2>1. k \in Int /\ o \in Int /\ m \in 0 .. LOG_DELTA - 1
    BY DEF ChoiceBits
  <2>2. (k * LOG_DELTA + i) \div LOG_DELTA = k /\ (k * LOG_DELTA + i) % LOG_DELTA = i
    BY <1>1, <2>1, ModUnique
  <2>3. (o * LOG_DELTA + m) \div LOG_DELTA = o /\ (o * LOG_DELTA + m) % LOG_DELTA = m
    BY <1>1, <2>1, ModUnique
  <2> QED BY <1>5, <2>2, <2>3 DEF OtIndex
<1> QED BY <1>4, <1>5

\* as_chunks and take leave LOG_DELTA items for each run.
LEMMA WholeChunks ==
    ASSUME NEW n \in Nat, NEW items
    PROVE  chunks(items, required_binary_ot_count(n), n)
             = [k \in 0 .. n - 1 |-> [i \in ChoiceBits |-> items[OtIndex(k, i)]]]
<1> DEFINE whole == required_binary_ot_count(n) \div LOG_DELTA
<1>1. n <= whole /\ whole \in Int
  <2> DEFINE c == required_binary_ot_count(n)
  <2>1. c \in Int /\ LOG_DELTA \in Nat \ {0} /\ n <= whole
    BY EnoughOts, DeltaOtAssumption
  <2> HIDE DEF c
  <2>2. c \div LOG_DELTA \in Int
    BY <2>1, DivMod
  <2> QED BY <2>1, <2>2 DEF c
<1> HIDE DEF whole
<1>2. (IF whole < n THEN whole ELSE n) = n
  BY <1>1
<1> QED BY <1>2 DEF chunks, OtIndex, whole

\* What the server has of run k for choice j, and what the client has of it.
SentBlock(batch, k, j) ==
    [blocks |-> [i \in ChoiceBits |-> OtBlock(batch, OtIndex(k, i), bit(j, i))], choice |-> j]
ChoiceOf(choices, k) == FromBits([i \in ChoiceBits |-> choices[OtIndex(k, i)]], LOG_DELTA)

\* What the sender ends with: a block for every run and every choice.
LEMMA DeltaSent ==
    ASSUME NEW n \in Nat, NEW batch
    PROVE  delta_ot_send(OtPairs(batch, required_binary_ot_count(n)), n)
             = [k \in 0 .. n - 1 |-> [j \in Zdelta |-> SentBlock(batch, k, j)]]
<1> DEFINE count == required_binary_ot_count(n)
           pairs == OtPairs(batch, count)
           ots   == chunks(pairs, count, n)
<1>1. ots = [k \in 0 .. n - 1 |-> [i \in ChoiceBits |-> pairs[OtIndex(k, i)]]]
  BY WholeChunks
<1>2. ASSUME NEW k \in 0 .. n - 1, NEW j \in Zdelta, NEW i \in ChoiceBits
      PROVE  ots[k][i][bit(j, i)] = OtBlock(batch, OtIndex(k, i), bit(j, i))
  <2>1. OtIndex(k, i) \in 0 .. count - 1
    BY OtIndices
  <2>2. bit(j, i) \in Bit
    <3>1. j \in Nat /\ i \in Nat
      BY Moduli, DeltaOtAssumption DEF Zdelta, ChoiceBits
    <3> QED BY <3>1, BitType
  <2>3. pairs[OtIndex(k, i)] = [c \in Bit |-> OtBlock(batch, OtIndex(k, i), c)]
    BY <2>1 DEF OtPairs
  <2>4. ots[k][i] = pairs[OtIndex(k, i)]
    BY <1>1
  <2> QED BY <2>2, <2>3, <2>4
<1>3. ASSUME NEW k \in 0 .. n - 1, NEW j \in Zdelta
      PROVE  select_and_derive_ot_block(ots[k], j) = SentBlock(batch, k, j)
  <2>1. [i \in ChoiceBits |-> ots[k][i][bit(j, i)]]
          = [i \in ChoiceBits |-> OtBlock(batch, OtIndex(k, i), bit(j, i))]
    BY <1>2
  <2> QED BY <2>1 DEF select_and_derive_ot_block, derive_ot_block, SentBlock
<1>4. delta_ot_send(pairs, n) = [k \in DOMAIN ots |-> [j \in Zdelta |-> select_and_derive_ot_block(ots[k], j)]]
  BY DEF delta_ot_send
<1>5. DOMAIN ots = 0 .. n - 1
  BY <1>1
<1> QED BY <1>3, <1>4, <1>5

\* The client's choice of a run is the number of its choice bits, and its block the server's for it.
LEMMA DeltaReceived ==
    ASSUME NEW n \in Nat, NEW batch, NEW choices \in [0 .. required_binary_ot_count(n) - 1 -> Bit]
    PROVE  /\ delta_ot_receive(OtChosen(batch, choices), choices, n)
                = [choices |-> [k \in 0 .. n - 1 |-> ChoiceOf(choices, k)],
                   blocks  |-> [k \in 0 .. n - 1 |-> SentBlock(batch, k, ChoiceOf(choices, k))]]
           /\ \A k \in 0 .. n - 1 : ChoiceOf(choices, k) \in Zdelta
           /\ \A k \in 0 .. n - 1, i \in ChoiceBits : bit(ChoiceOf(choices, k), i) = choices[OtIndex(k, i)]
<1> DEFINE count  == required_binary_ot_count(n)
           bits   == chunks(choices, count, n)
           chosen == chunks(OtChosen(batch, choices), count, n)
<1>1. /\ bits = [k \in 0 .. n - 1 |-> [i \in ChoiceBits |-> choices[OtIndex(k, i)]]]
      /\ chosen = [k \in 0 .. n - 1 |-> [i \in ChoiceBits |-> OtChosen(batch, choices)[OtIndex(k, i)]]]
  BY WholeChunks
<1>2. ASSUME NEW k \in 0 .. n - 1
      PROVE  /\ ChoiceOf(choices, k) \in Zdelta
             /\ \A i \in ChoiceBits : bit(ChoiceOf(choices, k), i) = choices[OtIndex(k, i)]
  <2> DEFINE s == [i \in ChoiceBits |-> choices[OtIndex(k, i)]]
  <2>1. \A i \in ChoiceBits : s[i] \in Bit /\ s[i] = choices[OtIndex(k, i)]
    BY OtIndices
  <2>2. ChoiceBits = 0 .. LOG_DELTA - 1 /\ LOG_DELTA \in Nat /\ DELTA = Pow2(LOG_DELTA)
    BY DeltaOtAssumption DEF ChoiceBits
  <2>3. ChoiceOf(choices, k) = FromBits(s, LOG_DELTA)
    BY DEF ChoiceOf
  <2> HIDE DEF s
  <2>4. /\ FromBits(s, LOG_DELTA) \in 0 .. Pow2(LOG_DELTA) - 1
        /\ \A i \in 0 .. LOG_DELTA - 1 : bit(FromBits(s, LOG_DELTA), i) = s[i]
    BY <2>1, <2>2, BitsOfNumber
  <2> QED BY <2>1, <2>2, <2>3, <2>4 DEF Zdelta
<1>3. ASSUME NEW k \in 0 .. n - 1
      PROVE  /\ choice_from_bits(bits[k]) = ChoiceOf(choices, k)
             /\ derive_ot_block(chosen[k], ChoiceOf(choices, k)) = SentBlock(batch, k, ChoiceOf(choices, k))
  <2>1. choice_from_bits(bits[k]) = ChoiceOf(choices, k)
    BY <1>1 DEF choice_from_bits, ChoiceOf
  <2>2. \A i \in ChoiceBits : OtChosen(batch, choices)[OtIndex(k, i)] = OtBlock(batch, OtIndex(k, i), choices[OtIndex(k, i)])
    BY OtIndices DEF OtChosen
  <2>3. \A i \in ChoiceBits : OtChosen(batch, choices)[OtIndex(k, i)] = OtBlock(batch, OtIndex(k, i), bit(ChoiceOf(choices, k), i))
    BY <1>2, <2>2
  <2>4. chosen[k] = [i \in ChoiceBits |-> OtBlock(batch, OtIndex(k, i), bit(ChoiceOf(choices, k), i))]
    BY <1>1, <2>3
  <2> QED BY <2>1, <2>4 DEF derive_ot_block, SentBlock
<1>4. delta_ot_receive(OtChosen(batch, choices), choices, n)
        = [choices |-> [k \in DOMAIN bits |-> choice_from_bits(bits[k])],
           blocks  |-> [k \in DOMAIN bits |-> derive_ot_block(chosen[k], [j \in DOMAIN bits |-> choice_from_bits(bits[j])][k])]]
  BY DEF delta_ot_receive
<1>5. DOMAIN bits = 0 .. n - 1
  BY <1>1
<1> HIDE DEF bits, chosen
<1>6. [k \in DOMAIN bits |-> choice_from_bits(bits[k])] = [k \in 0 .. n - 1 |-> ChoiceOf(choices, k)]
  BY <1>3, <1>5
<1>7. [k \in DOMAIN bits |-> derive_ot_block(chosen[k], [j \in DOMAIN bits |-> choice_from_bits(bits[j])][k])]
        = [k \in 0 .. n - 1 |-> SentBlock(batch, k, ChoiceOf(choices, k))]
  BY <1>3, <1>5
<1> QED BY <1>2, <1>4, <1>6, <1>7

\* The client of these choices lacks a block that was hashed for choice j of a run.
Lacks(batch, choices, n, run, j) ==
    \E i \in ChoiceBits : \A other \in 0 .. n - 1, m \in ChoiceBits :
        SentBlock(batch, run, j).blocks[i] # SentBlock(batch, other, ChoiceOf(choices, other)).blocks[m]

\* It does, for every choice but its own.
LEMMA DeltaSecret ==
    ASSUME NEW n \in Nat, NEW batch, NEW choices \in [0 .. required_binary_ot_count(n) - 1 -> Bit],
           NEW run \in 0 .. n - 1, NEW j \in Zdelta, j # ChoiceOf(choices, run)
    PROVE  Lacks(batch, choices, n, run, j)
<1>1. /\ ChoiceOf(choices, run) \in Zdelta
      /\ \A k \in 0 .. n - 1, i \in ChoiceBits : bit(ChoiceOf(choices, k), i) = choices[OtIndex(k, i)]
  BY DeltaReceived
<1>2. PICK i \in ChoiceBits : bit(j, i) # bit(ChoiceOf(choices, run), i)
  <2>1. ChoiceBits = 0 .. LOG_DELTA - 1 /\ LOG_DELTA \in Nat /\ Zdelta = 0 .. Pow2(LOG_DELTA) - 1
    BY DeltaOtAssumption DEF ChoiceBits, Zdelta
  <2> QED BY <1>1, <2>1, BitsTell
<1>3. ASSUME NEW other \in 0 .. n - 1, NEW m \in ChoiceBits,
             OtBlock(batch, OtIndex(run, i), bit(j, i))
               = OtBlock(batch, OtIndex(other, m), bit(ChoiceOf(choices, other), m))
      PROVE  FALSE
  <2>1. OtIndex(run, i) = OtIndex(other, m) /\ bit(j, i) = bit(ChoiceOf(choices, other), m)
    BY <1>3 DEF OtBlock
  <2>2. run = other /\ i = m
    BY <2>1, OtIndices
  <2> QED BY <1>2, <2>1, <2>2
<1>4. \A k \in 0 .. n - 1, c \in Zdelta, m \in ChoiceBits :
        SentBlock(batch, k, c).blocks[m] = OtBlock(batch, OtIndex(k, m), bit(c, m))
  BY DEF SentBlock
<1>5. \A k \in 0 .. n - 1 : ChoiceOf(choices, k) \in Zdelta
  BY DeltaReceived
<1>6. ASSUME NEW other \in 0 .. n - 1, NEW m \in ChoiceBits
      PROVE  SentBlock(batch, run, j).blocks[i] # SentBlock(batch, other, ChoiceOf(choices, other)).blocks[m]
  BY <1>3, <1>4, <1>5
<1> QED BY <1>6 DEF Lacks

\* No two blocks are the same.
LEMMA DeltaDistinct ==
    ASSUME NEW n \in Nat, NEW batch, NEW run \in 0 .. n - 1, NEW other \in 0 .. n - 1,
           NEW j \in Zdelta, NEW k \in Zdelta, SentBlock(batch, run, j) = SentBlock(batch, other, k)
    PROVE  run = other /\ j = k
<1>1. 0 \in ChoiceBits
  BY DeltaOtAssumption DEF ChoiceBits
<1>2. j = k /\ SentBlock(batch, run, j).blocks[0] = SentBlock(batch, other, k).blocks[0]
  BY DEF SentBlock
<1>3. OtBlock(batch, OtIndex(run, 0), bit(j, 0)) = OtBlock(batch, OtIndex(other, 0), bit(k, 0))
  BY <1>1, <1>2 DEF SentBlock
<1>4. OtIndex(run, 0) = OtIndex(other, 0)
  BY <1>3 DEF OtBlock
<1>5. \A o \in 0 .. n - 1, m \in ChoiceBits : OtIndex(run, 0) = OtIndex(o, m) => run = o
  <2>1. n \in Nat /\ run \in 0 .. n - 1
    OBVIOUS
  <2> QED BY <1>1, <2>1, OtIndices
<1> QED BY <1>1, <1>2, <1>4, <1>5

----------------------------------------------------------------------------
(* One run.                                                                *)

\* The masks of one coordinate cancel: what the server adds for it is its part of the inner
\* product and the client's mask, whichever mask of the two the server has.
LEMMA MaskCancels ==
    ASSUME NEW s \in Bit, NEW x \in Int, NEW rb \in Int, NEW rn \in Int, NEW r,
           r = IF s = 0 THEN rb ELSE rn
    PROVE  Cong((IF s = 0 THEN 0 ELSE reduce_q(x + rb + rn)) + (IF s = 0 THEN r ELSE sub_q(0, r)),
                x * s + rb, Q)
<1>1. s = 0 \/ s = 1
  BY DEF Bit
<1>3. CASE s = 0
  <2>1. 0 + r = (x * s + rb) + 0 * Q
    BY <1>3, Moduli
  <2> QED BY <1>3, <2>1 DEF Cong
<1>4. CASE s = 1
  <2>1. r = rn /\ r \in Int
    BY <1>4
  <2>2. PICK c \in Int : reduce_q(x + rb + rn) = x + rb + rn + c * Q
    <3>1. x + rb + rn \in Int
      OBVIOUS
    <3>2. Cong(reduce_q(x + rb + rn), x + rb + rn, Q)
      BY <3>1, Moduli, ModCong DEF reduce_q
    <3> QED BY <3>2 DEF Cong
  <2>3. PICK d \in Int : sub_q(0, rn) = 0 + Q - rn + d * Q
    <3>1. 0 + Q - rn \in Int
      BY Moduli
    <3> QED BY <3>1, Moduli, ModCong DEF Cong, sub_q, reduce_q
  <2>4. reduce_q(x + rb + rn) + sub_q(0, rn) = (x * s + rb) + (c + d + 1) * Q
    BY <1>4, <2>2, <2>3, Moduli
  <2>5. c + d + 1 \in Int
    OBVIOUS
  <2> QED BY <1>4, <2>1, <2>4, <2>5 DEF Cong
<1> QED BY <1>1, <1>3, <1>4

\* Sums of congruent terms are congruent.
LEMMA SumsCong ==
    ASSUME NEW f, NEW g, NEW h, NEW t, NEW k \in Nat,
           \A i \in 1 .. k : /\ f[i] \in Int /\ g[i] \in Int /\ h[i] \in Int /\ t[i] \in Int
                             /\ Cong(f[i] + g[i], h[i] + t[i], Q)
    PROVE  Cong(Partial(f, k) + Partial(g, k), Partial(h, k) + Partial(t, k), Q)
<1> DEFINE T == {n \in Nat : n <= k =>
                   /\ Partial(f, n) \in Int /\ Partial(g, n) \in Int
                   /\ Partial(h, n) \in Int /\ Partial(t, n) \in Int
                   /\ Cong(Partial(f, n) + Partial(g, n), Partial(h, n) + Partial(t, n), Q)}
<1>1. 0 \in T
  <2>1. Partial(f, 0) = 0 /\ Partial(g, 0) = 0 /\ Partial(h, 0) = 0 /\ Partial(t, 0) = 0
    BY PartialEquations
  <2>2. Cong(0 + 0, 0 + 0, Q)
    <3>1. 0 + 0 = (0 + 0) + 0 * Q
      BY Moduli
    <3> QED BY <3>1 DEF Cong
  <2> QED BY <2>1, <2>2
<1>2. ASSUME NEW n \in T PROVE n + 1 \in T
  <2>1. /\ n \in Nat
        /\ Partial(f, n + 1) = Partial(f, n) + f[n + 1] /\ Partial(g, n + 1) = Partial(g, n) + g[n + 1]
        /\ Partial(h, n + 1) = Partial(h, n) + h[n + 1] /\ Partial(t, n + 1) = Partial(t, n) + t[n + 1]
    BY PartialEquations
  <2>2. CASE n + 1 <= k
    <3> DEFINE F == Partial(f, n) + Partial(g, n)
               H == Partial(h, n) + Partial(t, n)
               x == f[n + 1] + g[n + 1]
               z == h[n + 1] + t[n + 1]
    <3>1. n <= k /\ n + 1 \in 1 .. k
      BY <2>1, <2>2
    <3>2. /\ Partial(f, n) \in Int /\ Partial(g, n) \in Int /\ Partial(h, n) \in Int /\ Partial(t, n) \in Int
          /\ f[n + 1] \in Int /\ g[n + 1] \in Int /\ h[n + 1] \in Int /\ t[n + 1] \in Int
          /\ Cong(F, H, Q) /\ Cong(x, z, Q)
      BY <3>1
    <3>3. /\ F \in Int /\ H \in Int /\ x \in Int /\ z \in Int
          /\ F + x = Partial(f, n + 1) + Partial(g, n + 1)
          /\ H + z = Partial(h, n + 1) + Partial(t, n + 1)
      BY <2>1, <3>2
    <3>4. Cong(F + x, H + z, Q)
      <4> HIDE DEF F, H, x, z
      <4> QED BY <3>2, <3>3, Moduli, CongAdd
    <3> QED BY <2>1, <3>2, <3>3, <3>4
  <2> QED BY <2>1, <2>2
<1> HIDE DEF T
<1>3. T = Nat
  BY <1>1, <1>2, SetInduction DEF T
<1> QED BY <1>3 DEF T

\* What a run is: rb and rn are the client's masks, and the server's are rb where the bit of the
\* key is 0 and rn where it is 1; e is what the client sends, and fin what it keeps; row is the
\* server's response.
IsRun(key, x, rb, rn, r, e, pads, c, fin, row) ==
    /\ key \in [Coords -> Bit] /\ x \in [Coords -> Int]
    /\ rb \in [Coords -> Int] /\ rn \in [Coords -> Int]
    /\ r = [i \in Coords |-> IF key[i] = 0 THEN rb[i] ELSE rn[i]]
    /\ e = [i \in Coords |-> reduce_q(x[i] + rb[i] + rn[i])]
    /\ c \in Zdelta /\ pads[c] \in Zp
    /\ fin.r_sigma = reduce_q(Partial(rb, N)) /\ fin.r_prime = pads[c]
    /\ row.y = respond(a_sigma_sum(key, r_sigma_sum(key, r), e), pads,
                       sub_delta(reduce_delta(fin.r_sigma), c))

\* What finalize_row makes of the server's response is the PRF.
LEMMA RunRight ==
    ASSUME NEW key, NEW x, NEW rb, NEW rn, NEW r, NEW e, NEW pads, NEW c, NEW fin, NEW row,
           IsRun(key, x, rb, rn, r, e, pads, c, fin, row)
    PROVE  finalize_row(fin, row) = evaluate_single_row(key, x)
<1> USE DEF IsRun
<1> DEFINE E == [k \in Coords |-> IF key[k] = 0 THEN 0 ELSE e[k]]
           M == [k \in Coords |-> IF key[k] = 0 THEN r[k] ELSE sub_q(0, r[k])]
           A == [k \in Coords |-> x[k] * key[k]]
           v == Partial(A, N)
           ra == Partial(rb, N)
           rs == reduce_q(ra)
           low == reduce_delta(rs)
           z == Partial(E, N) + r_sigma_sum(key, r)
<1>0. N \in Nat /\ Coords = 1 .. N
  BY Moduli DEF Coords
<1>1. ASSUME NEW k \in Coords
      PROVE  /\ E[k] \in Int /\ M[k] \in Int /\ A[k] \in Int /\ rb[k] \in Int
             /\ Cong(E[k] + M[k], A[k] + rb[k], Q)
  <2>1. /\ key[k] \in Bit /\ x[k] \in Int /\ rb[k] \in Int /\ rn[k] \in Int
        /\ r[k] = (IF key[k] = 0 THEN rb[k] ELSE rn[k]) /\ e[k] = reduce_q(x[k] + rb[k] + rn[k])
    OBVIOUS
  <2>2. r[k] \in Int /\ key[k] \in Int
    BY <2>1 DEF Bit
  <2>3. x[k] + rb[k] + rn[k] \in Int /\ 0 + Q - r[k] \in Int
    BY <2>1, <2>2, Moduli
  <2>4. e[k] \in Int /\ sub_q(0, r[k]) \in Int
    BY <2>1, <2>3, Reduced, RingNat DEF sub_q
  <2>5. E[k] \in Int /\ M[k] \in Int /\ A[k] \in Int
    BY <2>1, <2>2, <2>4
  <2>6. Cong((IF key[k] = 0 THEN 0 ELSE reduce_q(x[k] + rb[k] + rn[k]))
               + (IF key[k] = 0 THEN r[k] ELSE sub_q(0, r[k])), x[k] * key[k] + rb[k], Q)
    BY <2>1, MaskCancels
  <2> QED BY <2>1, <2>5, <2>6
<1> HIDE DEF E, M, A
<1>3. /\ Partial(E, N) \in Int /\ Partial(M, N) \in Int /\ v \in Int /\ ra \in Int
      /\ Cong(Partial(E, N) + Partial(M, N), v + ra, Q)
  BY <1>0, <1>1, PartialInt, SumsCong
<1>4. r_sigma_sum(key, r) = reduce_q(Partial(M, N))
  BY DEF r_sigma_sum, M
<1>5. a_sigma_sum(key, r_sigma_sum(key, r), e) = reduce_q(z)
  BY DEF a_sigma_sum, E
<1>6. z \in Int /\ Cong(z, v + ra, Q)
  <2> DEFINE pe == Partial(E, N)
             pm == Partial(M, N)
  <2>1. pe \in Int /\ pm \in Int /\ v \in Int /\ ra \in Int /\ v + ra \in Int /\ Cong(pe + pm, v + ra, Q)
    BY <1>3
  <2> HIDE DEF pe, pm, v, ra
  <2>2. reduce_q(pm) \in Int /\ Cong(reduce_q(pm), pm, Q)
    BY <2>1, Moduli, ModCong DEF reduce_q
  <2>3. Cong(pe, pe, Q)
    <3>1. pe = pe + 0 * Q
      BY <2>1, Moduli
    <3> QED BY <3>1 DEF Cong
  <2>4. Cong(pe + reduce_q(pm), pe + pm, Q)
    BY <2>1, <2>2, <2>3, Moduli, CongAdd
  <2>5. pe + reduce_q(pm) \in Int /\ pe + pm \in Int
    BY <2>1, <2>2
  <2>6. Cong(pe + reduce_q(pm), v + ra, Q)
    BY <2>1, <2>4, <2>5, Moduli, CongTrans
  <2> QED BY <1>4, <2>5, <2>6 DEF pe, pm
<1>7. inner_product(x, key) = reduce_q(v)
  BY DEF inner_product, A
<1>8. rs \in Zq /\ low \in Zdelta /\ rs \in Int
  <2>1. rs \in Zq
    BY <1>3, Reduced
  <2> QED BY <2>1, RingNat, Reduced
<1> HIDE DEF v, ra, z
<1>9. row.y[low] = add_p(rounded(reduce_q(z), low), pads[c])
  <2>1. row.y = respond(reduce_q(z), pads, sub_delta(low, c))
    BY <1>5 DEF ra
  <2>2. sub_delta(low, sub_delta(low, c)) = c
    BY <1>8, PadIndex
  <2> QED BY <1>8, <2>1, <2>2 DEF respond, pad
<1>10. sub_p(sub_p(row.y[low], pads[c]), (rs - low) \div DELTA) = round_zq_to_zp(reduce_q(v))
  BY <1>3, <1>6, <1>9, RowArithmetic
<1>11. reduce_p((rs - low) \div DELTA) = (rs - low) \div DELTA
  <2> DEFINE hi == rs \div DELTA
  <2>1. rs \in Nat /\ rs < P * DELTA /\ P \in Nat \ {0} /\ DELTA \in Nat \ {0}
    BY <1>8, RingNat, Moduli DEF Q
  <2> HIDE DEF rs
  <2>2. hi \in Int /\ low \in 0 .. DELTA - 1 /\ rs = hi * DELTA + low
    BY <1>8, <2>1, DivMod DEF low, reduce_delta
  <2> HIDE DEF hi, low
  <2>3. rs - low = hi * DELTA + 0 /\ 0 \in 0 .. DELTA - 1
    BY <2>1, <2>2
  <2>4. (rs - low) \div DELTA = hi
    BY <2>1, <2>2, <2>3, ModUnique
  <2>5. hi \in 0 .. P - 1
    <3>1. hi < P
      <4>1. SUFFICES ASSUME hi >= P PROVE FALSE
        BY <2>1, <2>2
      <4>2. hi * DELTA >= P * DELTA
        BY <2>1, <2>2, <4>1
      <4> QED BY <2>1, <2>2, <4>2
    <3>2. hi >= 0
      <4>1. SUFFICES ASSUME hi <= -1 PROVE FALSE
        BY <2>2
      <4>2. hi * DELTA <= -DELTA
        BY <2>1, <2>2, <4>1
      <4> QED BY <2>1, <2>2, <4>2
    <3> QED BY <2>1, <2>2, <3>1, <3>2
  <2>6. (0 * P + hi) % P = hi
    <3>1. 0 \in Int /\ P \in Nat \ {0} /\ hi \in 0 .. P - 1
      BY <2>1, <2>5
    <3> QED BY <3>1, ModUnique
  <2>7. 0 * P + hi = hi
    BY <2>1, <2>5
  <2> QED BY <2>4, <2>6, <2>7 DEF reduce_p
<1>12. finalize_row(fin, row) = sub_p(sub_p(row.y[low], pads[c]), reduce_p((rs - low) \div DELTA))
  BY DEF finalize_row, ra
<1> QED BY <1>7, <1>10, <1>11, <1>12 DEF evaluate_single_row

----------------------------------------------------------------------------
(* One evaluation.                                                         *)

\* Two bytes make a number.
LEMMA TwoBytes ==
    ASSUME NEW x \in 0 .. 255, NEW z \in 0 .. 255
    PROVE  x + 256 * z \in Int
OBVIOUS

\* There are binary OTs for all coordinates of the key.
LEMMA EnoughBinaryOts ==
    BINARY_OT_COUNT \in Nat /\ N <= BINARY_OT_COUNT
<1> DEFINE b == BASE_OT_COUNT
           q == (N + b - 1) \div b
           r == (N + b - 1) % b
<1>1. b \in Nat \ {0} /\ N \in Nat \ {0}
  BY DeltaOtAssumption, Moduli
<1> HIDE DEF b
<1>2. N + b - 1 \in Int
  BY <1>1
<1>3. q \in Int /\ r \in 0 .. b - 1 /\ N + b - 1 = q * b + r
  BY <1>1, <1>2, DivMod
<1> HIDE DEF q, r
<1>4. q * b \in Int /\ N <= q * b
  BY <1>1, <1>3
<1> QED BY <1>1, <1>4 DEF BINARY_OT_COUNT, next_multiple_of, q, b

\* The two blocks of a binary OT, and the one the server has of it.
LEMMA BinaryBlocks ==
    ASSUME NEW choices \in [0 .. BINARY_OT_COUNT - 1 -> Bit], NEW i \in Coords
    PROVE  /\ \A c \in Bit : client_ot_blocks[i][c] = OtBlock("binary", i - 1, c)
           /\ server_r_s(choices)[i].b = choices[i - 1] /\ choices[i - 1] \in Bit
           /\ server_r_s(choices)[i].ot_block = client_ot_blocks[i][choices[i - 1]]
<1>1. i - 1 \in 0 .. BINARY_OT_COUNT - 1
  BY EnoughBinaryOts, Moduli DEF Coords
<1>2. choices[i - 1] \in Bit
  BY <1>1
<1>3. \A c \in Bit : client_ot_blocks[i][c] = OtBlock("binary", i - 1, c)
  BY <1>1 DEF client_ot_blocks, OtPairs
<1>4. DOMAIN choices = 0 .. BINARY_OT_COUNT - 1
  OBVIOUS
<1>5. OtChosen("binary", choices)[i - 1] = OtBlock("binary", i - 1, choices[i - 1])
  BY <1>1, <1>4 DEF OtChosen
<1> QED BY <1>2, <1>3, <1>5 DEF server_r_s

\* The mask of a run is an element of Zq, for both blocks of an OT.
LEMMA MaskType ==
    ASSUME NEW runs \in Nat, NEW calls, HashesTyped(runs, calls),
           NEW first \in Nat, first + H_ROWS <= runs,
           NEW i \in Coords, NEW c \in Bit, NEW k \in Rows
    PROVE  expand(client_ot_blocks[i][c], first)[k] \in Zq
<1> DEFINE seed == [domain |-> "mask", hashed |-> client_ot_blocks[i][c]]
           pos  == mask_position(first, k)
<1>1. H_ROWS \in Nat /\ k \in 0 .. H_ROWS - 1
  BY MaterialAssumption DEF Rows
<1>2. pos = 2 * (first + k) /\ pos \in 0 .. runs * MASK_BYTES - 1 /\ pos + 1 \in 0 .. runs * MASK_BYTES - 1
  BY <1>1 DEF mask_position, MASK_BYTES
<1>3. Xof(seed, pos) \in 0 .. 255 /\ Xof(seed, pos + 1) \in 0 .. 255
  BY <1>2 DEF HashesTyped
<1>4. expand(client_ot_blocks[i][c], first)[k] = zq_from(seed, pos)
  BY DEF expand
<1> HIDE DEF seed, pos
<1>5. Xof(seed, pos) + 256 * Xof(seed, pos + 1) \in Int
  BY <1>3, TwoBytes
<1> QED BY <1>4, <1>5, Reduced DEF zq_from

\* The rows of a hashed input are of elements of Zq.
LEMMA MatrixType ==
    ASSUME NEW runs \in Nat, NEW calls, HashesTyped(runs, calls), NEW call \in calls,
           NEW k \in Rows
    PROVE  hash_to_zq_matrix(call.tag, call.input)[k] \in [Coords -> Zq]
<1> DEFINE seed == [domain |-> "matrix", hashed |-> ro_input(call.tag, call.input)]
<1>1. H_ROWS \in Nat /\ k \in 0 .. H_ROWS - 1 /\ N \in Nat \ {0} /\ Coords = 1 .. N
  BY MaterialAssumption, Moduli DEF Rows, Coords
<1>2. ASSUME NEW i \in Coords
      PROVE  zq_from(seed, k * N * 2 + 2 * (i - 1)) \in Zq
  <2> DEFINE kn  == k * N
             all == H_ROWS * N
             pos == kn * 2 + 2 * (i - 1)
  <2>1. kn \in Nat /\ all \in Nat /\ kn + N <= all
    <3>1. (k + 1) * N <= H_ROWS * N /\ (k + 1) * N = kn + N
      BY <1>1
    <3> QED BY <1>1, <3>1
  <2>2. i \in 1 .. N
    BY <1>1
  <2> HIDE DEF kn, all
  <2>3. pos \in 0 .. all * 2 - 1 /\ pos + 1 \in 0 .. all * 2 - 1
    BY <1>1, <2>1, <2>2
  <2> HIDE DEF pos
  <2>4. Xof(seed, pos) \in 0 .. 255 /\ Xof(seed, pos + 1) \in 0 .. 255
    BY <2>3 DEF HashesTyped, all
  <2> HIDE DEF seed
  <2>5. Xof(seed, pos) + 256 * Xof(seed, pos + 1) \in Int
    BY <2>4, TwoBytes
  <2> QED BY <2>5, Reduced DEF zq_from, pos, kn
<1>3. hash_to_zq_matrix(call.tag, call.input)[k] = [i \in Coords |-> zq_from(seed, k * N * 2 + 2 * (i - 1))]
  BY DEF hash_to_zq_matrix
<1> QED BY <1>2, <1>3

\* The states that a preprocessing for so many runs ends with: the client's and the server's, for
\* the bits bin of the binary OTs and the bits del of the 1-out-of-DELTA OTs.
ClientMade(key, bin, del, runs) ==
    [ot_blocks |-> client_ot_blocks, bhat |-> masked_key(server_r_s(bin), key),
     r_c |-> client_r_c(delta_ot_receive(OtChosen("delta", del), del, runs))]
ServerMade(bin, runs) ==
    [r_s |-> server_r_s(bin), s_s |-> server_s_s(delta_ot_send(OtPairs("delta", required_binary_ot_count(runs)), runs))]

\* A whole evaluation: the client asks, the server answers, the client finalizes, and has the
\* PRF.  The vectors it sent were of elements of Zq.
LEMMA EvaluationOfCall ==
    ASSUME NEW runs \in Nat, NEW calls, HashesTyped(runs, calls), NEW call \in calls,
           NEW key \in [Coords -> Bit],
           NEW bin \in [0 .. BINARY_OT_COUNT - 1 -> Bit],
           NEW del \in [0 .. required_binary_ot_count(runs) - 1 -> Bit],
           NEW first \in Nat, first + H_ROWS <= runs, NEW k \in Rows,
           NEW made, made = request_evaluation(ClientMade(key, bin, del, runs), first,
                                               hash_to_zq_matrix(call.tag, call.input))
    PROVE  /\ made.rows[k].e \in [Coords -> Zq]
           /\ made.fin[k].ctr = first + k
           /\ blind_eval_one(ServerMade(bin, runs), key, first, made.rows)[k].ctr = first + k
           /\ finalize_row(made.fin[k], blind_eval_one(ServerMade(bin, runs), key, first, made.rows)[k])
                = evaluate(key, call.tag, call.input)[k]
<1> DEFINE a    == hash_to_zq_matrix(call.tag, call.input)
           r_s  == server_r_s(bin)
           bhat == masked_key(r_s, key)
           mask(i, c) == expand(client_ot_blocks[i][c], first)[k]
           rb   == [i \in Coords |-> mask(i, bhat[i])]
           rn   == [i \in Coords |-> mask(i, 1 - bhat[i])]
           r    == [i \in Coords |-> expand(r_s[i].ot_block, first)[k]]
           e    == [i \in Coords |-> reduce_q(a[k][i] + rb[i] + rn[i])]
           sent == delta_ot_send(OtPairs("delta", required_binary_ot_count(runs)), runs)
           got  == delta_ot_receive(OtChosen("delta", del), del, runs)
           run  == first + k
           pads == server_s_s(sent)[run]
           c    == ChoiceOf(del, run)
<1>1. a[k] \in [Coords -> Zq] /\ Zq \subseteq Int
  BY MatrixType, RingNat
<1>2. run \in 0 .. runs - 1 /\ run = first + k
  BY MaterialAssumption DEF Rows
<1>3. ASSUME NEW i \in Coords
      PROVE  /\ bhat[i] \in Bit /\ 1 - bhat[i] \in Bit
             /\ rb[i] \in Zq /\ rn[i] \in Zq
             /\ r[i] = IF key[i] = 0 THEN rb[i] ELSE rn[i]
  <2>1. bin[i - 1] \in Bit /\ r_s[i].b = bin[i - 1] /\ r_s[i].ot_block = client_ot_blocks[i][bin[i - 1]]
    BY BinaryBlocks
  <2>2. bhat[i] = IF bin[i - 1] = key[i] THEN 0 ELSE 1
    BY <2>1 DEF masked_key
  <2>3. key[i] \in Bit
    OBVIOUS
  <2>4. /\ bhat[i] \in Bit /\ 1 - bhat[i] \in Bit
        /\ bin[i - 1] = IF key[i] = 0 THEN bhat[i] ELSE 1 - bhat[i]
    BY <2>1, <2>2, <2>3 DEF Bit
  <2>5. r[i] = mask(i, bin[i - 1])
    BY <2>1
  <2> HIDE DEF bhat, r
  <2>6. mask(i, bhat[i]) \in Zq /\ mask(i, 1 - bhat[i]) \in Zq
    BY <2>4, MaskType
  <2> HIDE DEF mask
  <2>7. rb[i] = mask(i, bhat[i]) /\ rn[i] = mask(i, 1 - bhat[i])
    OBVIOUS
  <2> QED BY <2>3, <2>4, <2>5, <2>6, <2>7
<1>4. /\ sent = [n \in 0 .. runs - 1 |-> [j \in Zdelta |-> SentBlock("delta", n, j)]]
      /\ got = [choices |-> [n \in 0 .. runs - 1 |-> ChoiceOf(del, n)],
                blocks  |-> [n \in 0 .. runs - 1 |-> SentBlock("delta", n, ChoiceOf(del, n))]]
  <2>1. sent = [n \in 0 .. runs - 1 |-> [j \in Zdelta |-> SentBlock("delta", n, j)]]
    BY DeltaSent
  <2>2. got = [choices |-> [n \in 0 .. runs - 1 |-> ChoiceOf(del, n)],
               blocks  |-> [n \in 0 .. runs - 1 |-> SentBlock("delta", n, ChoiceOf(del, n))]]
    BY DeltaReceived
  <2> HIDE DEF sent, got
  <2> QED BY <2>1, <2>2
<1>14. c \in Zdelta
  BY <1>2, DeltaReceived
<1>5. pads = [j \in Zdelta |-> r_prime_from_block(sent[run][j])]
  <2>1. run \in DOMAIN sent
    BY <1>2, <1>4
  <2> HIDE DEF sent
  <2> QED BY <2>1 DEF server_s_s
<1>6. pads \in [Zdelta -> Zp]
  <2>1. ASSUME NEW j \in Zdelta PROVE r_prime_from_block(sent[run][j]) \in Zp
    <3>1. Lead(sent[run][j]) \in Nat
      BY <1>2 DEF HashesTyped
    <3> QED BY <3>1, Reduced DEF r_prime_from_block
  <2> QED BY <1>5, <2>1
<1>7. client_r_c(got)[run] = [b_prime |-> c, r_prime |-> pads[c]]
  <2>1. /\ run \in DOMAIN got.blocks /\ got.choices[run] = c
        /\ got.blocks[run] = SentBlock("delta", run, c) /\ sent[run][c] = SentBlock("delta", run, c)
    BY <1>2, <1>4, <1>14
  <2>2. pads[c] = r_prime_from_block(SentBlock("delta", run, c))
    BY <1>14, <1>5, <2>1
  <2> HIDE DEF got, pads, c
  <2> QED BY <2>1, <2>2 DEF client_r_c
<1> DEFINE rs  == reduce_q(Partial(rb, N))
           bbp == sub_delta(reduce_delta(rs), c)
           fin == [ctr |-> run, r_sigma |-> rs, r_prime |-> pads[c]]
           row == [y |-> respond(a_sigma_sum(key, r_sigma_sum(key, r), e), pads, bbp), ctr |-> run]
<1>8. made.rows[k] = [e |-> e, b_bar_prime |-> bbp] /\ made.fin[k] = fin
  <2> DEFINE cl == ClientMade(key, bin, del, runs)
             b1 == [i \in Coords |-> expand(cl.ot_blocks[i][cl.bhat[i]], first)]
             n1 == [i \in Coords |-> expand(cl.ot_blocks[i][1 - cl.bhat[i]], first)]
  <2>1. /\ cl.ot_blocks = client_ot_blocks /\ cl.bhat = bhat /\ cl.r_c = client_r_c(got)
    BY DEF ClientMade
  <2>2. /\ [i \in Coords |-> b1[i][k]] = rb /\ \A i \in Coords : b1[i][k] = rb[i] /\ n1[i][k] = rn[i]
    BY <2>1
  <2>3. cl.r_c[first + k].b_prime = c /\ cl.r_c[first + k].r_prime = pads[c]
    BY <1>7, <2>1
  <2>4. [i \in Coords |-> reduce_q(a[k][i] + b1[i][k] + n1[i][k])] = e
    BY <2>2
  <2> HIDE DEF cl, rb, rn, e, c, pads
  <2>5. made.rows[k] = [e           |-> [i \in Coords |-> reduce_q(a[k][i] + b1[i][k] + n1[i][k])],
                        b_bar_prime |-> sub_delta(reduce_delta(reduce_q(Partial([i \in Coords |-> b1[i][k]], N))),
                                                  cl.r_c[first + k].b_prime)]
    BY DEF request_evaluation, cl
  <2>6. made.fin[k] = [ctr |-> first + k, r_sigma |-> reduce_q(Partial([i \in Coords |-> b1[i][k]], N)),
                       r_prime |-> cl.r_c[first + k].r_prime]
    BY DEF request_evaluation, cl
  <2> QED BY <2>2, <2>3, <2>4, <2>5, <2>6
<1>9. blind_eval_one(ServerMade(bin, runs), key, first, made.rows)[k] = row
  <2>1. made.rows[k].e = e /\ made.rows[k].b_bar_prime = bbp
    BY <1>8
  <2>2. r_sigma_sums(r_s, key, first)[k] = r_sigma_sum(key, r)
    BY DEF r_sigma_sums, server_masks
  <2>3. ServerMade(bin, runs).r_s = r_s /\ ServerMade(bin, runs).s_s[run] = pads
    BY DEF ServerMade
  <2> HIDE DEF e, bbp, r, r_s, pads
  <2> QED BY <2>1, <2>2, <2>3 DEF blind_eval_one
<1>10. e \in [Coords -> Zq]
  <2>1. ASSUME NEW i \in Coords PROVE reduce_q(a[k][i] + rb[i] + rn[i]) \in Zq
    <3>1. a[k][i] \in Int /\ rb[i] \in Int /\ rn[i] \in Int
      BY <1>1, <1>3
    <3> HIDE DEF a, rb, rn
    <3>2. a[k][i] + rb[i] + rn[i] \in Int
      BY <3>1
    <3> QED BY <3>2, Reduced
  <2> HIDE DEF a, rb, rn
  <2> QED BY <2>1
<1>11. finalize_row(fin, row) = evaluate_single_row(key, a[k])
  <2>1. /\ a[k] \in [Coords -> Int] /\ rb \in [Coords -> Int] /\ rn \in [Coords -> Int]
        /\ r = [i \in Coords |-> IF key[i] = 0 THEN rb[i] ELSE rn[i]]
    BY <1>1, <1>3
  <2>2. /\ fin.r_sigma = reduce_q(Partial(rb, N)) /\ fin.r_prime = pads[c]
        /\ row.y = respond(a_sigma_sum(key, r_sigma_sum(key, r), e), pads, sub_delta(reduce_delta(fin.r_sigma), c))
    OBVIOUS
  <2>3. e = [i \in Coords |-> reduce_q(a[k][i] + rb[i] + rn[i])]
    OBVIOUS
  <2> HIDE DEF a, rb, rn, r, e, pads, c, fin, row
  <2>4. IsRun(key, a[k], rb, rn, r, e, pads, c, fin, row)
    BY <1>14, <1>6, <2>1, <2>2, <2>3 DEF IsRun
  <2> QED BY <2>4, RunRight
<1>12. evaluate(key, call.tag, call.input)[k] = evaluate_single_row(key, a[k])
  BY DEF evaluate
<1> HIDE DEF fin, row, e
<1>13. fin.ctr = run /\ row.ctr = run
  BY DEF fin, row
<1> QED BY <1>8, <1>9, <1>10, <1>11, <1>12, <1>13

=============================================================================
