------------------------- MODULE ArithmeticLemmas -------------------------
(***************************************************************************)
(* Facts about numbers that the proofs rest on.                            *)
(*                                                                         *)
(* First, the index arithmetic of every circular structure of the          *)
(* lowering: the passes compute the next buffer of an objectFifo as        *)
(* (index + 1) % op.size(), and chain the last buffer descriptor to the    *)
(* first one, and a subview holds consecutive objects.  Then, the searches *)
(* of the passes that hand out identifiers, and recursion along 0 .. N.    *)
(***************************************************************************)
EXTENDS Integers, Sequences, SequenceTheorems, WellFoundedInduction, TLAPS

(* The k-th access of a ring of D buffers goes to buffer k % D, one of the  *)
(* D buffers.                                                              *)
LEMMA ModRange == ASSUME NEW D \in Nat \ {0}, NEW k \in Nat
                  PROVE  k % D \in 0 .. (D - 1)
  BY SMT

(* Division with remainder.                                                *)
LEMMA DivMod == ASSUME NEW D \in Nat \ {0}, NEW k \in Nat
                PROVE  /\ k \div D \in Nat
                       /\ k = D * (k \div D) + (k % D)
  BY SMT

(* The remainder is the only value of the range that divides out.          *)
LEMMA ModUnique == ASSUME NEW D \in Nat \ {0}, NEW k \in Nat, NEW q \in Int,
                          NEW r \in 0 .. (D - 1), k = D * q + r
                   PROVE  k % D = r
  BY SMT

(* Advancing the index by n at once, as createUseLocks does on AIE2, is n   *)
(* steps.                                                                  *)
LEMMA ModAdvance == ASSUME NEW D \in Nat \ {0}, NEW k \in Nat, NEW n \in Nat
                    PROVE  ((k % D) + n) % D = (k + n) % D
<1> DEFINE q == k \div D
           r == k % D
           s == (r + n) \div D
           t == (r + n) % D
<1>1. q \in Nat /\ r \in 0 .. (D - 1) /\ k = D * q + r
  BY ModRange, DivMod
<1>2. r + n \in Nat
  BY <1>1
<1>3. s \in Nat /\ t \in 0 .. (D - 1) /\ r + n = D * s + t
  BY <1>2, ModRange, DivMod
<1> HIDE DEF q, r, s, t
<1>4. k + n = D * q + (D * s + t)
  BY <1>1, <1>3
<1>5. D * q + (D * s + t) = D * (q + s) + t
  BY <1>1, <1>3
<1>6. k + n = D * (q + s) + t /\ q + s \in Int /\ k + n \in Nat
  BY <1>1, <1>3, <1>4, <1>5
<1>7. (k + n) % D = t
  BY <1>6, <1>3, ModUnique
<1> QED BY <1>7 DEF t, r

(* Stepping the index of access k gives the index of access k + 1: the      *)
(* index kept by the code never drifts from the number of accesses.        *)
LEMMA ModStep == ASSUME NEW D \in Nat \ {0}, NEW k \in Nat
                 PROVE  ((k % D) + 1) % D = (k + 1) % D
  BY ModAdvance

(* A turn of the ring leads back to the same index.                        *)
LEMMA ModTurn == ASSUME NEW D \in Nat \ {0}, NEW k \in Nat
                 PROVE  (k + D) % D = k % D
<1> DEFINE q == k \div D
           r == k % D
<1>1. q \in Nat /\ r \in 0 .. (D - 1) /\ k = D * q + r
  BY ModRange, DivMod
<1> HIDE DEF q, r
<1>2. k + D = (D * q + D) + r /\ D * q + D = D * (q + 1) /\ q + 1 \in Int /\ k + D \in Nat
  BY <1>1
<1>3. (k + D) % D = r
  BY <1>1, <1>2, ModUnique
<1> QED BY <1>3 DEF r

(* A multiple of D strictly between 0 and D does not exist.                *)
LEMMA NoMultipleBetween == ASSUME NEW D \in Nat \ {0}, NEW e \in Int
                           PROVE  ~(0 < D * e /\ D * e < D)
<1>1. CASE e <= 0
  <2>1. D * e <= 0
    BY <1>1
  <2> QED BY <2>1
<1>2. CASE e >= 1
  <2>1. D * e >= D
    BY <1>2
  <2> QED BY <2>1
<1> QED BY <1>1, <1>2

(* Two accesses less than D apart never go to the same buffer: this is why *)
(* counting locks, which bound the distance, keep buffers apart.           *)
LEMMA ModDistinct == ASSUME NEW D \in Nat \ {0}, NEW k \in Nat, NEW n \in Nat,
                            k < n, n - k < D
                     PROVE  k % D # n % D
<1> SUFFICES ASSUME k % D = n % D PROVE FALSE
  OBVIOUS
<1> DEFINE q == k \div D
           s == n \div D
           r == k % D
<1>1. /\ q \in Nat /\ s \in Nat /\ r \in 0 .. (D - 1)
      /\ k = D * q + r
      /\ n = D * s + r
  BY ModRange, DivMod
<1> HIDE DEF q, s, r
<1>2. n - k = D * s - D * q
  BY <1>1
<1>3. D * s - D * q = D * (s - q)
  BY <1>1
<1>4. s - q \in Int
  BY <1>1
<1> QED BY <1>2, <1>3, <1>4, NoMultipleBetween

(* Every buffer is that of one of the D accesses from the k-th on.         *)
LEMMA RingCovered ==
    ASSUME NEW D \in Nat \ {0}, NEW k \in Nat, NEW b \in 0 .. (D - 1)
    PROVE  \E n \in k .. (k + D - 1) : n % D = b
<1> DEFINE q == k \div D
           r == k % D
<1>1. q \in Nat /\ r \in 0 .. (D - 1) /\ k = D * q + r
  BY ModRange, DivMod
<1> HIDE DEF q, r
<1>2. CASE b >= r
  <2> DEFINE n == k + (b - r)
  <2>1. n \in k .. (k + D - 1) /\ n \in Nat /\ n = D * q + b
    BY <1>1, <1>2
  <2> HIDE DEF n
  <2>2. n % D = b
    BY <2>1, <1>1, ModUnique
  <2> QED BY <2>1, <2>2
<1>3. CASE b < r
  <2> DEFINE n == k + (b - r) + D
  <2>1. n \in k .. (k + D - 1) /\ n \in Nat /\ n = (D * q + D) + b
    BY <1>1, <1>3
  <2>2. D * q + D = D * (q + 1) /\ q + 1 \in Int
    BY <1>1
  <2> HIDE DEF n
  <2>3. n % D = b
    BY <2>1, <2>2, <1>1, ModUnique
  <2> QED BY <2>1, <2>3
<1> QED BY <1>1, <1>2, <1>3

(* Dropping the m oldest of the n objects that follow the k-th.             *)
LEMMA WindowTail ==
    ASSUME NEW k \in Nat, NEW n \in Nat, NEW m \in 1 .. n
    PROVE  SubSeq([i \in 1 .. n |-> k + i], m + 1, n) = [i \in 1 .. (n - m) |-> (k + m) + i]
<1> DEFINE s == [i \in 1 .. n |-> k + i]
           t == SubSeq(s, m + 1, n)
           w == [i \in 1 .. (n - m) |-> (k + m) + i]
<1>1. \A i \in 1 .. n : s[i] = k + i
  OBVIOUS
<1>2. \A i \in 1 .. (n - m) : w[i] = k + m + i
  OBVIOUS
<1>3. w \in Seq(Nat) /\ Len(w) = n - m
  OBVIOUS
<1>4. \A i \in (m + 1) .. n : s[i] \in Nat
  BY <1>1
<1> HIDE DEF s, w
<1>5. /\ m + 1 \in Int /\ n \in Int
      /\ SubSeq(s, m + 1, n) \in Seq(Nat)
      /\ Len(SubSeq(s, m + 1, n)) = IF m + 1 <= n THEN n - (m + 1) + 1 ELSE 0
      /\ \A i \in 1 .. n - (m + 1) + 1 : SubSeq(s, m + 1, n)[i] = s[(m + 1) + i - 1]
  <2>1. m + 1 \in Int /\ n \in Int
    OBVIOUS
  <2> QED BY <2>1, <1>4, SubSeqProperties
<1>6. Len(t) = n - m
  BY <1>5
<1>7. \A i \in 1 .. Len(t) : t[i] = w[i]
  <2> TAKE i \in 1 .. Len(t)
  <2>1. i \in 1 .. (n - m) /\ (m + 1) + i - 1 \in 1 .. n
    BY <1>6
  <2>2. t[i] = s[(m + 1) + i - 1]
    BY <2>1, <1>5
  <2> QED BY <2>1, <2>2, <1>1, <1>2
<1>8. t = w
  BY <1>3, <1>5, <1>6, <1>7, SeqEqual
<1> QED BY <1>8 DEF s, w

-----------------------------------------------------------------------------
(* A set of natural numbers has a least member.  The passes search for it: *)
(* the first identifier that is free.                                      *)
THEOREM LeastNumber ==
    ASSUME NEW T \in SUBSET Nat, T # {}
    PROVE  \E n \in T : \A m \in T : n <= m
  <1> DEFINE R == {ss \in Nat \X Nat : ss[1] < ss[2]}
  <1>1. IsWellFoundedOn(R, Nat)
    BY NatLessThanWellFounded DEF OpToRel
  <1>2. PICK n \in T : \A m \in T : ~ (<<m, n>> \in R)
    <2> HIDE DEF R
    <2> QED BY <1>1, WFMin, Zenon
  <1>3. ASSUME NEW m \in T PROVE n <= m
    <2>1. <<m, n>> \in Nat \X Nat /\ ~ (<<m, n>> \in R)
      BY <1>2
    <2>2. ~ (m < n)
      BY <2>1
    <2> QED BY <2>2
  <1> QED BY <1>3

(* The search from a to b that stops at the first number that is not in S, *)
(* or at b, ends.                                                          *)
THEOREM SearchEnds ==
    ASSUME NEW a \in Nat, NEW b \in Nat, a <= b, NEW S
    PROVE  \E n \in a .. b : /\ n = b \/ n \notin S
                             /\ \A m \in a .. (n - 1) : m \in S
  <1> DEFINE T == {n \in a .. b : n = b \/ n \notin S}
  <1>1. T \in SUBSET Nat /\ b \in T
    OBVIOUS
  <1>2. PICK n \in T : \A m \in T : n <= m
    <2> HIDE DEF T
    <2> QED BY <1>1, LeastNumber
  <1>3. ASSUME NEW m \in a .. (n - 1) PROVE m \in S
    BY <1>2
  <1> QED BY <1>2, <1>3

(* A property of 0 that every step up to N keeps holds up to N.            *)
LEMMA CountUp ==
    ASSUME NEW N \in Nat, NEW S, 0 \in S, \A n \in 1 .. N : n - 1 \in S => n \in S
    PROVE  \A n \in 0 .. N : n \in S
  <1> DEFINE T == {n \in 0 .. N : n \notin S}
  <1>1. ASSUME T # {} PROVE FALSE
    <2>1. T \in SUBSET Nat
      OBVIOUS
    <2>2. PICK n \in T : \A m \in T : n <= m
      <3> HIDE DEF T
      <3> QED BY <1>1, <2>1, LeastNumber
    <2>3. n \in 1 .. N /\ n - 1 \in 0 .. N /\ n - 1 \notin T
      BY <2>2
    <2> QED BY <2>2, <2>3
  <1> QED BY <1>1

(* A recursion over 0 .. N whose steps stay in S has a solution in S.      *)
StepFunction(S, N, h) == h \in [S \X (1 .. N) -> S]
Iterates(g, S, a, N, h) ==
    g \in [0 .. N -> S] /\ g[0] = a /\ \A n \in 1 .. N : g[n] = h[<<g[n - 1], n>>]

LEMMA IterationExists ==
    ASSUME NEW S, NEW a \in S, NEW N \in Nat, NEW h, StepFunction(S, N, h)
    PROVE  \E g : Iterates(g, S, a, N, h)
  <1> USE DEF StepFunction
  <1> DEFINE Solves(g, M) == g[0] = a /\ \A n \in 1 .. M : g[n] = h[<<g[n - 1], n>>]
             T == {M \in 0 .. N : ~ \E g \in [0 .. M -> S] : Solves(g, M)}
  <1>1. ASSUME T # {} PROVE FALSE
    <2>1. T \in SUBSET Nat
      OBVIOUS
    <2>2. PICK M \in T : \A m \in T : M <= m
      <3> HIDE DEF T
      <3> QED BY <1>1, <2>1, LeastNumber
    <2>3. M \in 0 .. N
      OBVIOUS
    <2>4. CASE M = 0
      <3> DEFINE g == [n \in 0 .. 0 |-> a]
      <3>1. g \in [0 .. 0 -> S] /\ Solves(g, 0)
        OBVIOUS
      <3> QED BY <3>1, <2>4
    <2>5. CASE M # 0
      <3>1. M - 1 \in 0 .. N /\ M - 1 \notin T
        BY <2>2, <2>3, <2>5
      <3>2. PICK f \in [0 .. (M - 1) -> S] : Solves(f, M - 1)
        BY <3>1
      <3> DEFINE g == [n \in 0 .. M |-> IF n = M THEN h[<<f[M - 1], M>>] ELSE f[n]]
      <3>3. h[<<f[M - 1], M>>] \in S
        BY <2>3, <2>5
      <3>4. g \in [0 .. M -> S]
        BY <3>3, <2>3
      <3>5. g[M] = h[<<g[M - 1], M>>] /\ \A n \in 0 .. (M - 1) : g[n] = f[n]
        <4>1. M \in 0 .. M /\ M - 1 \in 0 .. M /\ M - 1 # M
          BY <2>3, <2>5
        <4>2. \A n \in 0 .. (M - 1) : n \in 0 .. M /\ n # M
          BY <2>3
        <4> QED BY <4>1, <4>2
      <3> HIDE DEF g
      <3>6. g[0] = a
        BY <3>2, <3>5, <2>3, <2>5
      <3>7. ASSUME NEW n \in 1 .. M PROVE g[n] = h[<<g[n - 1], n>>]
        <4>1. CASE n = M
          BY <4>1, <3>5
        <4>2. CASE n # M
          <5>1. n \in 1 .. (M - 1) /\ n \in 0 .. (M - 1) /\ n - 1 \in 0 .. (M - 1)
            BY <4>2, <2>3
          <5> QED BY <5>1, <3>2, <3>5
        <4> QED BY <4>1, <4>2
      <3>8. Solves(g, M)
        BY <3>6, <3>7
      <3> QED BY <3>4, <3>8, <2>2
    <2> QED BY <2>4, <2>5
  <1>2. N \notin T
    BY <1>1
  <1> QED BY <1>2 DEF Iterates
=============================================================================
