----------------------------- MODULE DataProofs ----------------------------
(* Theorems about words where they are kept: in the store, where the mask of *)
(* write_word() and the remainder of read_word() are the same cell exactly   *)
(* when the page passes memory_checks(), and in a file, where the bits that  *)
(* a writer makes of a word are those a reader makes the same word of.       *)
(*                                                                           *)
(* Masks, checks and weights are recursive functions, so the module begins   *)
(* with induction and recursion on naturals.                                 *)
EXTENDS Store, ObjectFile, WellFoundedInduction, TLAPS

-----------------------------------------------------------------------------
(* Induction, in the form of sets of naturals.                               *)

LEMMA LeastElement ==
    ASSUME NEW T, T \subseteq Nat, T # {}
    PROVE  \E n \in T : \A k \in T : n <= k
<1>1. IsWellFoundedOn(OpToRel(<, Nat), Nat)
  BY NatLessThanWellFounded
<1>2. PICK n \in T : \A k \in T : ~(<<k, n>> \in OpToRel(<, Nat))
  BY <1>1, WFMin
<1>3. ASSUME NEW k \in T PROVE n <= k
  <2>1. ~(<<k, n>> \in OpToRel(<, Nat)) BY <1>2
  <2>2. <<k, n>> \in Nat \X Nat OBVIOUS
  <2>3. ~(k < n) BY <2>1, <2>2 DEF OpToRel
  <2>. QED BY <2>3
<1>. QED BY <1>3

(* Induction on a set of naturals.                                           *)
LEMMA SetInduction ==
    ASSUME NEW T, 0 \in T, \A n \in Nat : n \in T => n + 1 \in T
    PROVE  Nat \subseteq T
<1> SUFFICES ASSUME ~(Nat \subseteq T) PROVE FALSE
  OBVIOUS
<1>1. PICK n \in Nat \ T : \A k \in Nat \ T : n <= k
  <2>1. Nat \ T # {} OBVIOUS
  <2>. QED BY <2>1, LeastElement
<1>2. n # 0 OBVIOUS
<1>3. n - 1 \in Nat /\ n - 1 \in T BY <1>1, <1>2
<1>. QED BY <1>3

(* Induction up to a bound.                                                  *)
LEMMA UpTo ==
    ASSUME NEW N \in Nat, NEW T, 0 \in T,
           \A n \in 1 .. N : n - 1 \in T => n \in T
    PROVE  0 .. N \subseteq T
<1>. DEFINE U == {n \in Nat : n <= N => n \in T}
<1>1. 0 \in U
  OBVIOUS
<1>2. ASSUME NEW n \in Nat, n \in U PROVE n + 1 \in U
  <2>1. CASE n + 1 <= N
    <3>1. n + 1 \in 1 .. N /\ (n + 1) - 1 = n /\ n \in T
      BY <1>2, <2>1
    <3>. QED
      BY <3>1
  <2>. QED
    BY <2>1
<1>. HIDE DEF U
<1>3. Nat \subseteq U
  BY <1>1, <1>2, SetInduction
<1>. QED
  BY <1>3 DEF U

-----------------------------------------------------------------------------
(* Recursion.                                                                *)

(* A function with values in V is to be base[x] at the places x of B, and at *)
(* any other place what step[x] makes of its value at prev[x], a place of    *)
(* lower rank.                                                               *)
RecursionData(D, V, B, base, prev, step, rank) ==
    /\ B \in SUBSET D /\ base \in [B -> V]
    /\ prev \in [D \ B -> D] /\ step \in [D \ B -> [V -> V]]
    /\ rank \in [D -> Nat] /\ \A x \in D \ B : rank[prev[x]] < rank[x]

Satisfies(f, D, B, base, prev, step) ==
    \A x \in D : f[x] = IF x \in B THEN base[x] ELSE step[x][f[prev[x]]]

(* There is one.                                                             *)
LEMMA RecursionExists ==
    ASSUME NEW D, NEW V, NEW B, NEW base, NEW prev, NEW step, NEW rank,
           RecursionData(D, V, B, base, prev, step, rank)
    PROVE  \E f \in [D -> V] : Satisfies(f, D, B, base, prev, step)
<1>. USE DEF RecursionData, Satisfies
<1>. DEFINE Low(n) == {x \in D : rank[x] < n}
            Good(n, g) == /\ g \in [Low(n) -> V]
                          /\ \A x \in Low(n) :
                                g[x] = IF x \in B THEN base[x] ELSE step[x][g[prev[x]]]
<1>1. ASSUME NEW n \in Nat, NEW x \in Low(n), x \notin B
      PROVE  x \in D \ B /\ prev[x] \in Low(n) /\ rank[prev[x]] < rank[x]
  <2>1. x \in D \ B /\ prev[x] \in D /\ rank[x] < n
    BY <1>1
  <2>2. rank[x] \in Nat /\ rank[prev[x]] \in Nat /\ rank[prev[x]] < rank[x]
    BY <2>1
  <2>. QED
    BY <2>1, <2>2
<1>2. ASSUME NEW n \in Nat, NEW k \in Nat, NEW g, NEW h, Good(n, g), Good(k, h)
      PROVE  \A x \in Low(n) \cap Low(k) : g[x] = h[x]
  <2>. DEFINE Bad == {x \in Low(n) \cap Low(k) : g[x] # h[x]}
              T == {rank[x] : x \in Bad}
  <2> SUFFICES ASSUME Bad # {} PROVE FALSE
    OBVIOUS
  <2>1. T \subseteq Nat /\ T # {}
    OBVIOUS
  <2>2. PICK r \in T : \A t \in T : r <= t
    <3>. HIDE DEF T
    <3>. QED BY <2>1, LeastElement
  <2>3. PICK x \in Bad : rank[x] = r
    BY <2>2
  <2>4. x \notin B
    BY <1>2, <2>3
  <2>5. prev[x] \in Low(n) \cap Low(k) /\ rank[prev[x]] < rank[x]
    <3>1. x \in Low(n) /\ x \in Low(k)
      OBVIOUS
    <3>. HIDE DEF Low, Bad
    <3>. QED
      BY <1>1, <2>4, <3>1
  <2>6. prev[x] \in Bad
    <3>1. /\ g[x] = step[x][g[prev[x]]]
          /\ h[x] = step[x][h[prev[x]]]
      BY <1>2, <2>4
    <3>2. g[x] # h[x]
      OBVIOUS
    <3>3. g[prev[x]] # h[prev[x]]
      BY <3>1, <3>2
    <3>. QED
      BY <2>5, <3>3
  <2>7. rank[prev[x]] \in T /\ rank[prev[x]] \in Nat /\ rank[x] \in Nat
    BY <2>6
  <2>8. r <= rank[prev[x]] /\ rank[prev[x]] < r
    BY <2>2, <2>3, <2>5, <2>7
  <2>9. r \in Nat
    BY <2>1
  <2>. QED
    BY <2>7, <2>8, <2>9
<1>3. \A n \in Nat : \E g : Good(n, g)
  <2>. DEFINE N == {n \in Nat : \E g : Good(n, g)}
  <2>1. 0 \in N
    <3>1. Low(0) = {}
      OBVIOUS
    <3>2. Good(0, [x \in {} |-> x])
      BY <3>1
    <3>. QED
      BY <3>2
  <2>2. ASSUME NEW n \in Nat, n \in N PROVE n + 1 \in N
    <3>1. PICK g : Good(n, g)
      BY <2>2
    <3>. DEFINE h == [x \in Low(n + 1) |->
                         IF x \in B THEN base[x] ELSE step[x][g[prev[x]]]]
    <3>2. ASSUME NEW x \in Low(n + 1), x \notin B
          PROVE  x \in D \ B /\ prev[x] \in Low(n)
      <4>1. prev[x] \in D /\ rank[prev[x]] < rank[x] /\ rank[x] < n + 1
        BY <3>2
      <4>2. rank[x] \in Nat /\ rank[prev[x]] \in Nat
        BY <4>1
      <4>. QED
        BY <3>2, <4>1, <4>2
    <3>3. ASSUME NEW x \in Low(n) PROVE h[x] = g[x] /\ x \in Low(n + 1)
      BY <3>1
    <3>4. h \in [Low(n + 1) -> V]
      BY <3>1, <3>2
    <3>5. ASSUME NEW x \in Low(n + 1)
          PROVE  h[x] = IF x \in B THEN base[x] ELSE step[x][h[prev[x]]]
      BY <3>2, <3>3
    <3>6. Good(n + 1, h)
      BY <3>4, <3>5
    <3>7. \E w : Good(n + 1, w)
      <4>. HIDE DEF Good, h
      <4>. QED
        BY <3>6
    <3>. HIDE DEF Good
    <3>. QED
      BY <3>7
  <2>. HIDE DEF N
  <2>3. Nat \subseteq N
    BY <2>1, <2>2, SetInduction
  <2>. QED
    BY <2>3 DEF N
<1>. DEFINE G(n) == CHOOSE g : Good(n, g)
            f == [x \in D |-> G(rank[x] + 1)[x]]
<1>4. \A n \in Nat : Good(n, G(n))
  BY <1>3
<1>5. ASSUME NEW x \in D
      PROVE  /\ rank[x] + 1 \in Nat /\ x \in Low(rank[x] + 1)
             /\ f[x] = G(rank[x] + 1)[x]
  <2>1. rank[x] \in Nat
    OBVIOUS
  <2>. QED
    BY <2>1
<1>. HIDE DEF G
<1>6. f \in [D -> V]
  <2>1. ASSUME NEW x \in D PROVE f[x] \in V
    <3>1. G(rank[x] + 1) \in [Low(rank[x] + 1) -> V]
      BY <1>4, <1>5
    <3>. QED
      BY <3>1, <1>5
  <2>. QED
    BY <2>1
<1>7. ASSUME NEW x \in D
      PROVE  f[x] = IF x \in B THEN base[x] ELSE step[x][f[prev[x]]]
  <2>. DEFINE n == rank[x] + 1
  <2>1. n \in Nat /\ x \in Low(n) /\ f[x] = G(n)[x]
    BY <1>5
  <2>2. f[x] = IF x \in B THEN base[x] ELSE step[x][G(n)[prev[x]]]
    BY <1>4, <2>1
  <2>3. ASSUME x \notin B PROVE G(n)[prev[x]] = f[prev[x]]
    <3>. DEFINE k == rank[prev[x]] + 1
    <3>1. prev[x] \in Low(n) /\ prev[x] \in D
      BY <1>1, <2>1, <2>3
    <3>2. k \in Nat /\ prev[x] \in Low(k) /\ f[prev[x]] = G(k)[prev[x]]
      BY <1>5, <3>1
    <3>3. Good(n, G(n)) /\ Good(k, G(k))
      BY <1>4, <2>1, <3>2
    <3>. HIDE DEF f, n, k, Good
    <3>. QED
      BY <1>2, <2>1, <3>1, <3>2, <3>3
  <2>. QED
    BY <2>2, <2>3
<1>. HIDE DEF f
<1>. QED
  BY <1>6, <1>7

-----------------------------------------------------------------------------
(* The mask.                                                                 *)

LEMMA Half ==
    ASSUME NEW n \in Nat
    PROVE  /\ n \div 2 \in Nat /\ n % 2 \in {0, 1}
           /\ n = 2 * (n \div 2) + (n % 2)
           /\ n # 0 => n \div 2 < n
  OBVIOUS

LEMMA BitAndDef ==
    /\ BitAnd \in [Nat -> [Nat -> Nat]]
    /\ \A a, b \in Nat :
           BitAnd[a][b] =
               IF a = 0 THEN 0 ELSE 2 * BitAnd[a \div 2][b \div 2] + (a % 2) * (b % 2)
<1>. DEFINE V == [Nat -> Nat]
            Positive == Nat \ {0}
            Join(n, a, b) == 2 * n + (a % 2) * (b % 2)
            base == [a \in {0} |-> [b \in Nat |-> 0]]
            prev == [a \in Positive |-> a \div 2]
            step == [a \in Positive |->
                        [v \in V |-> [b \in Nat |-> Join(v[b \div 2], a, b)]]]
            rank == [a \in Nat |-> a]
            Rec(f) == f = [a \in Nat |->
                [b \in Nat |-> IF a = 0 THEN 0 ELSE Join(f[a \div 2][b \div 2], a, b)]]
<1>1. ASSUME NEW n \in Nat, NEW a \in Nat, NEW b \in Nat
      PROVE  Join(n, a, b) \in Nat
  <2>1. a % 2 \in {0, 1} /\ b % 2 \in {0, 1}
    BY Half
  <2>. QED
    BY <2>1
<1>2. \A a, b \in Nat :
          Join(BitAnd[a \div 2][b \div 2], a, b) =
              2 * BitAnd[a \div 2][b \div 2] + (a % 2) * (b % 2)
  OBVIOUS
<1>3. (\E g : Rec(g)) => Rec(BitAnd)
  BY DEF BitAnd
<1>. HIDE DEF Join
<1>4. /\ base \in [{0} -> V] /\ prev \in [Positive -> Nat] /\ rank \in [Nat -> Nat]
      /\ \A a \in Positive : rank[prev[a]] < rank[a]
  BY Half
<1>5. step \in [Positive -> [V -> V]]
  BY <1>1, Half
<1>6. PICK f \in [Nat -> V] :
          \A a \in Nat : f[a] = IF a \in {0} THEN base[a] ELSE step[a][f[prev[a]]]
  <2>1. RecursionData(Nat, V, {0}, base, prev, step, rank)
    BY <1>4, <1>5 DEF RecursionData
  <2>. HIDE DEF V, base, prev, step, rank
  <2>2. \E f \in [Nat -> V] : Satisfies(f, Nat, {0}, base, prev, step)
    BY <2>1, RecursionExists
  <2>. QED
    BY <2>2 DEF Satisfies
<1>7. Rec(f)
  <2>1. ASSUME NEW a \in Nat, NEW b \in Nat
        PROVE  f[a][b] = IF a = 0 THEN 0 ELSE Join(f[a \div 2][b \div 2], a, b)
    <3>1. CASE a = 0
      <4>1. f[a] = [c \in Nat |-> 0]
        BY <3>1, <1>6
      <4>. QED
        BY <3>1, <4>1
    <3>2. CASE a # 0
      <4>1. a \in Positive /\ prev[a] = a \div 2 /\ a \div 2 \in Nat
        BY <3>2, Half
      <4>2. f[a \div 2] \in V /\ f[a] = step[a][f[a \div 2]]
        BY <1>6, <3>2, <4>1
      <4>3. step[a][f[a \div 2]] = [c \in Nat |-> Join(f[a \div 2][c \div 2], a, c)]
        BY <4>1, <4>2
      <4>. QED
        BY <3>2, <4>2, <4>3
    <3>. QED
      BY <3>1, <3>2
  <2>2. ASSUME NEW a \in Nat
        PROVE  f[a] = [b \in Nat |->
                          IF a = 0 THEN 0 ELSE Join(f[a \div 2][b \div 2], a, b)]
    <3>1. f[a] \in [Nat -> Nat]
      OBVIOUS
    <3>. QED
      BY <2>1, <3>1
  <2>. QED
    BY <2>2
<1>8. Rec(BitAnd)
  <2>. HIDE DEF Rec
  <2>. QED
    BY <1>3, <1>7
<1>9. ASSUME NEW a \in Nat, NEW b \in Nat
      PROVE  BitAnd[a][b] = IF a = 0 THEN 0 ELSE Join(BitAnd[a \div 2][b \div 2], a, b)
  <2>1. BitAnd[a] = [c \in Nat |->
                        IF a = 0 THEN 0 ELSE Join(BitAnd[a \div 2][c \div 2], a, c)]
    BY <1>8
  <2>. HIDE DEF Rec
  <2>. QED
    BY <2>1
<1>10. DOMAIN BitAnd = Nat /\ BitAnd = [a \in Nat |-> BitAnd[a]]
       /\ \A a \in Nat : BitAnd[a] = [b \in Nat |-> BitAnd[a][b]]
  BY <1>8
<1>11. \A a \in Nat : \A b \in Nat : BitAnd[a][b] \in Nat
  <2>. DEFINE Bad == {a \in Nat : \E b \in Nat : BitAnd[a][b] \notin Nat}
  <2> SUFFICES ASSUME Bad # {} PROVE FALSE
    OBVIOUS
  <2>1. PICK a \in Bad : \A c \in Bad : a <= c
    <3>1. Bad \subseteq Nat
      OBVIOUS
    <3>. HIDE DEF Bad
    <3>. QED
      BY <3>1, LeastElement
  <2>2. ASSUME NEW b \in Nat PROVE BitAnd[a][b] \in Nat
    <3>1. CASE a = 0
      BY <3>1, <1>9
    <3>2. CASE a # 0
      <4>1. a \div 2 \in Nat /\ a \div 2 < a /\ b \div 2 \in Nat
        BY <3>2, Half
      <4>2. ~(a <= a \div 2)
        BY <4>1
      <4>3. a \div 2 \notin Bad
        BY <2>1, <4>2
      <4>4. BitAnd[a \div 2][b \div 2] \in Nat
        BY <4>1, <4>3
      <4>5. BitAnd[a][b] = Join(BitAnd[a \div 2][b \div 2], a, b)
        BY <3>2, <1>9
      <4>. QED
        BY <1>1, <4>4, <4>5
    <3>. QED
      BY <3>1, <3>2
  <2>. QED
    BY <2>2
<1>. QED
  BY <1>2, <1>9, <1>10, <1>11

LEMMA BitAndZero ==
    ASSUME NEW b \in Nat
    PROVE  BitAnd[0][b] = 0
  BY BitAndDef

(* One turn: the two lowest bits, and the rest.                              *)
LEMMA BitAndTurn ==
    ASSUME NEW a \in Nat, NEW b \in Nat
    PROVE  BitAnd[a][b] = 2 * BitAnd[a \div 2][b \div 2] + (a % 2) * (b % 2)
<1>1. CASE a = 0
  <2>1. a \div 2 = 0 /\ a % 2 = 0 /\ b \div 2 \in Nat
    BY <1>1, Half
  <2>2. b % 2 \in {0, 1}
    BY Half
  <2>3. BitAnd[a][b] = 0 /\ BitAnd[a \div 2][b \div 2] = 0
    BY <1>1, <2>1, BitAndZero
  <2>4. (a % 2) * (b % 2) = 0
    BY <2>1, <2>2
  <2>. QED
    BY <2>3, <2>4
<1>2. CASE a # 0
  BY <1>2, BitAndDef
<1>. QED
  BY <1>1, <1>2

LEMMA BitAndNat ==
    ASSUME NEW a \in Nat, NEW b \in Nat
    PROVE  BitAnd[a][b] \in Nat
  BY BitAndDef

(* A mask takes bits away from itself.                                       *)
LEMMA BitAndBelow ==
    ASSUME NEW a \in Nat, NEW b \in Nat
    PROVE  BitAnd[a][b] <= b
<1>. DEFINE Bad == {x \in Nat : \E y \in Nat : ~(BitAnd[x][y] <= y)}
<1> SUFFICES Bad = {}
  OBVIOUS
<1> SUFFICES ASSUME Bad # {} PROVE FALSE
  OBVIOUS
<1>1. PICK x \in Bad : \A z \in Bad : x <= z
  <2>1. Bad \subseteq Nat
    OBVIOUS
  <2>. HIDE DEF Bad
  <2>. QED
    BY <2>1, LeastElement
<1>2. PICK y \in Nat : ~(BitAnd[x][y] <= y)
  OBVIOUS
<1>3. x # 0
  BY <1>2, BitAndZero
<1>4. x \div 2 \in Nat /\ x \div 2 < x /\ y \div 2 \in Nat /\ x % 2 \in {0, 1}
      /\ y % 2 \in {0, 1} /\ y = 2 * (y \div 2) + (y % 2)
  BY <1>3, Half
<1>5. BitAnd[x \div 2][y \div 2] <= y \div 2
  <2>1. ~(x <= x \div 2)
    BY <1>4
  <2>2. x \div 2 \notin Bad
    BY <1>1, <2>1
  <2>. QED
    BY <2>2, <1>4
<1>6. BitAnd[x][y] = 2 * BitAnd[x \div 2][y \div 2] + (x % 2) * (y % 2)
  BY BitAndTurn
<1>7. BitAnd[x \div 2][y \div 2] \in Nat /\ (x % 2) * (y % 2) <= y % 2
      /\ (x % 2) * (y % 2) \in Nat
  BY <1>4, BitAndNat
<1>. QED
  BY <1>2, <1>4, <1>5, <1>6, <1>7

LEMMA BitAndSelf ==
    ASSUME NEW a \in Nat
    PROVE  BitAnd[a][a] = a
<1>. DEFINE Bad == {x \in Nat : BitAnd[x][x] # x}
<1> SUFFICES ASSUME Bad # {} PROVE FALSE
  OBVIOUS
<1>1. PICK x \in Bad : \A z \in Bad : x <= z
  <2>1. Bad \subseteq Nat
    OBVIOUS
  <2>. HIDE DEF Bad
  <2>. QED
    BY <2>1, LeastElement
<1>2. x \in Nat /\ BitAnd[x][x] # x /\ x # 0
  BY BitAndZero
<1>3. x \div 2 \in Nat /\ x \div 2 < x /\ x % 2 \in {0, 1}
      /\ x = 2 * (x \div 2) + (x % 2)
  BY <1>2, Half
<1>4. BitAnd[x \div 2][x \div 2] = x \div 2
  <2>1. ~(x <= x \div 2)
    BY <1>2, <1>3
  <2>. QED
    BY <1>1, <1>3, <2>1
<1>5. BitAnd[x][x] = 2 * BitAnd[x \div 2][x \div 2] + (x % 2) * (x % 2)
  BY <1>2, BitAndTurn
<1>6. (x % 2) * (x % 2) = x % 2
  BY <1>3
<1>. QED
  BY <1>2, <1>3, <1>4, <1>5, <1>6

-----------------------------------------------------------------------------
(* The check.                                                                *)

LEMMA OddPartDef ==
    \A n \in Nat \ {0} : OddPart[n] = IF n % 2 = 0 THEN OddPart[n \div 2] ELSE n
<1>. DEFINE D == Nat \ {0}
            B == {n \in D : n % 2 # 0}
            base == [n \in B |-> n]
            prev == [n \in D \ B |-> n \div 2]
            step == [n \in D \ B |-> [v \in Nat |-> v]]
            rank == [n \in D |-> n]
            Rec(f) == f = [n \in D |-> IF n % 2 = 0 THEN f[n \div 2] ELSE n]
<1>1. ASSUME NEW n \in D \ B
      PROVE  n \div 2 \in D /\ n \div 2 < n
  OBVIOUS
<1>2. RecursionData(D, Nat, B, base, prev, step, rank)
  BY <1>1 DEF RecursionData
<1>3. PICK f \in [D -> Nat] : Satisfies(f, D, B, base, prev, step)
  <2>. HIDE DEF D, B, base, prev, step, rank
  <2>. QED
    BY <1>2, RecursionExists
<1>4. ASSUME NEW n \in D
      PROVE  f[n] = IF n % 2 = 0 THEN f[n \div 2] ELSE n
  <2>1. f[n] = IF n \in B THEN base[n] ELSE step[n][f[prev[n]]]
    BY <1>3 DEF Satisfies
  <2>2. ASSUME n % 2 = 0 PROVE step[n][f[prev[n]]] = f[n \div 2]
    BY <1>1, <2>2
  <2>. QED
    BY <2>1, <2>2
<1>5. Rec(f)
  BY <1>4
<1>6. Rec(OddPart)
  <2>1. \E g : Rec(g)
    <3>. HIDE DEF Rec
    <3>. QED
      BY <1>5
  <2>. QED
    BY <2>1 DEF OddPart
<1>. QED
  BY <1>6

(* The remainder by an even number: that of the half by half of it, and the  *)
(* lowest bit.                                                               *)
LEMMA EvenRemainder ==
    ASSUME NEW a \in Nat, NEW k \in Nat \ {0}
    PROVE  a % (2 * k) = 2 * ((a \div 2) % k) + (a % 2)
<1>1. /\ a \div 2 \in Nat /\ a % 2 \in {0, 1} /\ a = 2 * (a \div 2) + (a % 2)
  BY Half
<1>2. PICK q \in Nat, r \in 0 .. k - 1 : a \div 2 = k * q + r /\ r = (a \div 2) % k
  <2>1. (a \div 2) \div k \in Nat /\ (a \div 2) % k \in 0 .. k - 1
        /\ a \div 2 = k * ((a \div 2) \div k) + ((a \div 2) % k)
    <3>. DEFINE h == a \div 2
    <3>1. h \in Nat
      BY <1>1
    <3>. HIDE DEF h
    <3>2. h \div k \in Nat /\ h % k \in 0 .. k - 1 /\ h = k * (h \div k) + (h % k)
      BY <3>1
    <3>. QED
      BY <3>2 DEF h
  <2>. QED
    BY <2>1
<1>3. a = (2 * k) * q + (2 * r + (a % 2))
  <2>. DEFINE x == k * q
              y == a % 2
  <2>1. x \in Nat /\ r \in Nat /\ y \in Nat /\ 2 * x = (2 * k) * q
    BY <1>1, <1>2
  <2>2. a = 2 * (x + r) + y
    BY <1>1, <1>2
  <2>. HIDE DEF x, y
  <2>3. a = 2 * x + (2 * r + y)
    BY <2>1, <2>2
  <2>. QED
    BY <2>1, <2>3 DEF y
<1>4. 2 * r + (a % 2) \in 0 .. (2 * k) - 1
  BY <1>1, <1>2
<1>5. ASSUME NEW m \in Nat \ {0}, NEW p \in Nat, NEW s \in 0 .. m - 1
      PROVE  (m * p + s) % m = s
  OBVIOUS
<1>6. 2 * k \in Nat \ {0}
  OBVIOUS
<1>7. ((2 * k) * q + (2 * r + (a % 2))) % (2 * k) = 2 * r + (a % 2)
  BY <1>4, <1>5, <1>6
<1>. QED
  BY <1>2, <1>3, <1>7

(* A mask of one less than a power of two takes the remainder.               *)
LEMMA MaskIsRemainder ==
    ASSUME NEW size \in Nat \ {0}, OddPart[size] = 1, NEW addr \in Nat
    PROVE  BitAnd[addr][size - 1] = addr % size
<1>. DEFINE Bad == {n \in Nat : /\ n # 0 /\ OddPart[n] = 1
                                /\ \E a \in Nat : BitAnd[a][n - 1] # a % n}
<1> SUFFICES Bad = {}
  OBVIOUS
<1> SUFFICES ASSUME Bad # {} PROVE FALSE
  OBVIOUS
<1>1. PICK n \in Bad : \A z \in Bad : n <= z
  <2>1. Bad \subseteq Nat
    OBVIOUS
  <2>. HIDE DEF Bad
  <2>. QED
    BY <2>1, LeastElement
<1>2. PICK a \in Nat : BitAnd[a][n - 1] # a % n
  OBVIOUS
<1>3. n \in Nat \ {0} /\ OddPart[n] = 1
  OBVIOUS
<1>4. CASE n % 2 # 0
  <2>1. n = 1
    BY <1>3, <1>4, OddPartDef
  <2>2. BitAnd[a][0] <= 0 /\ BitAnd[a][0] \in Nat
    BY BitAndBelow, BitAndNat
  <2>3. a % 1 = 0
    OBVIOUS
  <2>. QED
    BY <1>2, <2>1, <2>2, <2>3
<1>5. CASE n % 2 = 0
  <2>. DEFINE k == n \div 2
  <2>1. k \in Nat \ {0} /\ n = 2 * k /\ k < n
    BY <1>3, <1>5
  <2>2. OddPart[k] = 1
    BY <1>3, <1>5, OddPartDef
  <2>. HIDE DEF k
  <2>3. a \div 2 \in Nat /\ a % 2 \in {0, 1}
    BY Half
  <2>4. BitAnd[a \div 2][k - 1] = (a \div 2) % k
    <3>1. ~(n <= k)
      BY <1>3, <2>1
    <3>. QED
      BY <1>1, <2>1, <2>2, <2>3, <3>1
  <2>5. (n - 1) \div 2 = k - 1 /\ (n - 1) % 2 = 1 /\ n - 1 \in Nat
    BY <2>1
  <2>6. BitAnd[a][n - 1] = 2 * BitAnd[a \div 2][(n - 1) \div 2]
                             + (a % 2) * ((n - 1) % 2)
    BY <2>5, BitAndTurn
  <2>7. BitAnd[a][n - 1] = 2 * ((a \div 2) % k) + (a % 2)
    BY <2>3, <2>4, <2>5, <2>6
  <2>8. a % n = 2 * ((a \div 2) % k) + (a % 2)
    BY <2>1, EvenRemainder
  <2>. QED
    BY <1>2, <2>7, <2>8
<1>. QED
  BY <1>4, <1>5

(* Of any other size the mask leaves something of the size itself.           *)
LEMMA MaskOfOther ==
    ASSUME NEW size \in Nat \ {0}, OddPart[size] # 1
    PROVE  BitAnd[size][size - 1] # 0
<1>. DEFINE Bad == {n \in Nat : n # 0 /\ OddPart[n] # 1 /\ BitAnd[n][n - 1] = 0}
<1> SUFFICES ASSUME Bad # {} PROVE FALSE
  OBVIOUS
<1>1. PICK n \in Bad : \A z \in Bad : n <= z
  <2>1. Bad \subseteq Nat
    OBVIOUS
  <2>. HIDE DEF Bad
  <2>. QED
    BY <2>1, LeastElement
<1>2. n \in Nat \ {0} /\ OddPart[n] # 1 /\ BitAnd[n][n - 1] = 0
  OBVIOUS
<1>3. BitAnd[n][n - 1] = 2 * BitAnd[n \div 2][(n - 1) \div 2] + (n % 2) * ((n - 1) % 2)
  <2>1. n - 1 \in Nat
    BY <1>2
  <2>. QED
    BY <1>2, <2>1, BitAndTurn
<1>4. CASE n % 2 # 0
  <2>1. n # 1 /\ n % 2 = 1 /\ (n - 1) % 2 = 0 /\ (n - 1) \div 2 = n \div 2
        /\ n \div 2 \in Nat \ {0}
    BY <1>2, <1>4, OddPartDef
  <2>2. BitAnd[n \div 2][n \div 2] = n \div 2
    BY <2>1, BitAndSelf
  <2>. QED
    BY <1>2, <1>3, <2>1, <2>2
<1>5. CASE n % 2 = 0
  <2>. DEFINE k == n \div 2
  <2>1. k \in Nat \ {0} /\ k < n /\ (n - 1) \div 2 = k - 1
    BY <1>2, <1>5
  <2>2. OddPart[k] # 1
    BY <1>2, <1>5, OddPartDef
  <2>3. BitAnd[k][k - 1] # 0
    <3>. HIDE DEF k
    <3>1. ~(n <= k)
      BY <1>2, <2>1
    <3>. QED
      BY <1>1, <2>1, <2>2, <3>1
  <2>4. BitAnd[k][k - 1] \in Nat
    BY <2>1, BitAndNat
  <2>. QED
    BY <1>2, <1>3, <1>5, <2>1, <2>3, <2>4
<1>. QED
  BY <1>4, <1>5

-----------------------------------------------------------------------------
(* What read_word() and write_word() fold an address onto is the same cell,  *)
(* whatever the address, exactly for the sizes memory_checks() lets through. *)
THEOREM FoldsAgree ==
    ASSUME NEW size \in Nat \ {0}
    PROVE  MemoryChecks(size) <=>
               \A addr \in Nat : WriteIndex(size, addr) = ReadIndex(size, addr)
<1>1. ASSUME OddPart[size] = 1, NEW addr \in Nat
      PROVE  WriteIndex(size, addr) = ReadIndex(size, addr)
  BY <1>1, MaskIsRemainder DEF WriteIndex, ReadIndex
<1>2. ASSUME OddPart[size] # 1
      PROVE  WriteIndex(size, size) # ReadIndex(size, size)
  <2>1. size % size = 0
    OBVIOUS
  <2>. QED
    BY <1>2, <2>1, MaskOfOther DEF WriteIndex, ReadIndex
<1>. QED
  BY <1>1, <1>2 DEF MemoryChecks

(* A write lands in the page, whatever its size and the address.             *)
THEOREM WritesLandInside ==
    ASSUME NEW size \in Nat \ {0}, NEW addr \in Nat
    PROVE  WriteIndex(size, addr) \in 0 .. size - 1
  BY BitAndBelow, BitAndNat DEF WriteIndex

(* In a page that has passed memory_checks() a word that was written is read *)
(* at its address and at every alias of it, and nowhere else.                *)
THEOREM WrittenIsRead ==
    ASSUME NEW size \in Nat \ {0}, MemoryChecks(size), NEW page \in Page(size),
           NEW addr \in Nat, NEW w \in Word, NEW a \in Nat
    PROVE  ReadWord(WriteWord(page, size, addr, w), size, a) =
               IF ReadIndex(size, a) = ReadIndex(size, addr)
                 THEN w ELSE ReadWord(page, size, a)
<1>1. WriteIndex(size, addr) = ReadIndex(size, addr)
  BY FoldsAgree
<1>2. ReadIndex(size, addr) \in 0 .. size - 1
  BY <1>1, WritesLandInside
<1>. QED
  BY <1>1, <1>2 DEF ReadWord, WriteWord, Page
-----------------------------------------------------------------------------
(* Bits.                                                                     *)

LEMMA PowerOfTwoDef ==
    \A n \in Nat : /\ PowerOfTwo[n] \in Nat \ {0}
                   /\ PowerOfTwo[0] = 1 /\ PowerOfTwo[n + 1] = 2 * PowerOfTwo[n]
<1>. DEFINE V == Nat \ {0}
            B == {0}
            base == [n \in B |-> 1]
            prev == [n \in Nat \ B |-> n - 1]
            step == [n \in Nat \ B |-> [v \in V |-> 2 * v]]
            rank == [n \in Nat |-> n]
            Rec(f) == f = [n \in Nat |-> IF n = 0 THEN 1 ELSE 2 * f[n - 1]]
<1>1. RecursionData(Nat, V, B, base, prev, step, rank)
  BY DEF RecursionData
<1>2. PICK f \in [Nat -> V] : Satisfies(f, Nat, B, base, prev, step)
  <2>. HIDE DEF V, B, base, prev, step, rank
  <2>. QED
    BY <1>1, RecursionExists
<1>3. ASSUME NEW n \in Nat
      PROVE  f[n] = IF n = 0 THEN 1 ELSE 2 * f[n - 1]
  <2>1. f[n] = IF n \in B THEN base[n] ELSE step[n][f[prev[n]]]
    BY <1>2 DEF Satisfies
  <2>2. n # 0 => n - 1 \in Nat /\ f[n - 1] \in V
    OBVIOUS
  <2>. QED
    BY <2>1, <2>2
<1>4. Rec(f)
  BY <1>3
<1>5. Rec(PowerOfTwo)
  <2>1. \E g : Rec(g)
    <3>. HIDE DEF Rec
    <3>. QED
      BY <1>4
  <2>. QED
    BY <2>1 DEF PowerOfTwo
<1>6. PowerOfTwo[0] = 1 /\ \A n \in Nat : PowerOfTwo[n + 1] = 2 * PowerOfTwo[n]
  BY <1>5
<1>7. Nat \subseteq {n \in Nat : PowerOfTwo[n] \in Nat \ {0}}
  <2>. HIDE DEF Rec
  <2>. DEFINE T == {n \in Nat : PowerOfTwo[n] \in Nat \ {0}}
  <2>1. 0 \in T /\ \A n \in Nat : n \in T => n + 1 \in T
    BY <1>6
  <2>. HIDE DEF T
  <2>2. Nat \subseteq T
    BY <2>1, SetInduction
  <2>. QED
    BY <2>2 DEF T
<1>. QED
  BY <1>6, <1>7

(* The remainder by twice a number: that by the number, and one bit more.    *)
LEMMA LowBits ==
    ASSUME NEW w \in Nat, NEW p \in Nat \ {0}
    PROVE  w % (2 * p) = (w % p) + ((w \div p) % 2) * p
<1>1. PICK q \in Nat, r \in 0 .. p - 1 : w = p * q + r /\ q = w \div p /\ r = w % p
  <2>1. w \div p \in Nat /\ w % p \in 0 .. p - 1 /\ w = p * (w \div p) + (w % p)
    OBVIOUS
  <2>. QED
    BY <2>1
<1>2. /\ q \div 2 \in Nat /\ q % 2 \in {0, 1} /\ q = 2 * (q \div 2) + (q % 2)
  BY Half
<1>. DEFINE h == q \div 2
            b == q % 2
            s == b * p + r
<1>3. b * p = IF b = 0 THEN 0 ELSE p
  BY <1>2
<1>4. s \in 0 .. (2 * p) - 1
  BY <1>2, <1>3
<1>5. w = (2 * p) * h + s
  <2>. HIDE DEF h, b
  <2>1. h \in Nat /\ b \in {0, 1} /\ q = 2 * h + b
    BY <1>2 DEF h, b
  <2>2. p * q = (2 * p) * h + b * p
    <3>. DEFINE x == p * h
    <3>1. x \in Nat /\ (2 * p) * h = 2 * x
      BY <2>1
    <3>2. p * q = 2 * x + p * b
      BY <2>1
    <3>. QED
      BY <2>1, <3>1, <3>2
  <2>3. b * p \in Nat /\ (2 * p) * h \in Nat
    BY <2>1
  <2>. QED
    BY <1>1, <2>2, <2>3
<1>6. ASSUME NEW m \in Nat \ {0}, NEW x \in Nat, NEW y \in 0 .. m - 1
      PROVE  (m * x + y) % m = y
  OBVIOUS
<1>7. 2 * p \in Nat \ {0} /\ h \in Nat
  BY <1>2
<1>. HIDE DEF h, s
<1>8. w % (2 * p) = s
  BY <1>4, <1>5, <1>6, <1>7
<1>. QED
  BY <1>1, <1>8 DEF s

(* The sums that WordOf() walks through.                                     *)
Walk(bits, ssem, f) ==
    /\ f \in [0 .. WordBits -> Nat] /\ f[0] = 0
    /\ \A n \in 1 .. WordBits : f[n] = f[n - 1] + bits[n] * ReadWeight(ssem, n)

LEMMA WeightNat ==
    ASSUME NEW ssem \in BOOLEAN, NEW i \in 1 .. WordBits
    PROVE  /\ ReadWeight(ssem, i) \in Nat \ {0}
           /\ WriteWeight(ssem, i) = ReadWeight(ssem, i)
  BY PowerOfTwoDef, BitsAssumption DEF ReadWeight, WriteWeight

LEMMA WordOfWalk ==
    ASSUME NEW ssem \in BOOLEAN, NEW bits \in [1 .. WordBits -> {0, 1}]
    PROVE  \E f : Walk(bits, ssem, f) /\ WordOf(bits, ssem) = f[WordBits]
<1>. DEFINE D == 0 .. WordBits
            B == {0}
            base == [n \in B |-> 0]
            prev == [n \in D \ B |-> n - 1]
            step == [n \in D \ B |-> [v \in Nat |-> v + bits[n] * ReadWeight(ssem, n)]]
            rank == [n \in D |-> n]
            Rec(f) == f = [n \in D |->
                IF n = 0 THEN 0 ELSE f[n - 1] + bits[n] * ReadWeight(ssem, n)]
<1>1. WordBits \in Nat
  BY BitsAssumption
<1>2. ASSUME NEW n \in 1 .. WordBits, NEW v \in Nat
      PROVE  v + bits[n] * ReadWeight(ssem, n) \in Nat
  <2>1. bits[n] \in {0, 1} /\ ReadWeight(ssem, n) \in Nat
    BY WeightNat
  <2>. QED
    BY <2>1
<1>3. RecursionData(D, Nat, B, base, prev, step, rank)
  <2>1. D \ B = 1 .. WordBits
    BY <1>1
  <2>2. step \in [D \ B -> [Nat -> Nat]]
    BY <1>2, <2>1
  <2>3. /\ B \in SUBSET D /\ base \in [B -> Nat] /\ prev \in [D \ B -> D]
        /\ rank \in [D -> Nat] /\ \A n \in D \ B : rank[prev[n]] < rank[n]
    BY <1>1
  <2>. QED
    BY <2>2, <2>3 DEF RecursionData
<1>4. PICK f \in [D -> Nat] : Satisfies(f, D, B, base, prev, step)
  <2>. HIDE DEF D, B, base, prev, step, rank
  <2>. QED
    BY <1>3, RecursionExists
<1>5. ASSUME NEW n \in D
      PROVE  f[n] = IF n = 0 THEN 0 ELSE f[n - 1] + bits[n] * ReadWeight(ssem, n)
  <2>1. f[n] = IF n \in B THEN base[n] ELSE step[n][f[prev[n]]]
    BY <1>4 DEF Satisfies
  <2>2. n # 0 => n - 1 \in D /\ f[n - 1] \in Nat
    BY <1>1
  <2>. QED
    BY <2>1, <2>2
<1>6. Rec(f)
  BY <1>5
<1>. DEFINE w == CHOOSE g : Rec(g)
<1>7. Rec(w)
  <2>. HIDE DEF Rec
  <2>. QED
    BY <1>6
<1>8. WordOf(bits, ssem) = w[WordBits]
  BY DEF WordOf
<1>. HIDE DEF w
<1>9. w[0] = 0 /\ \A n \in 1 .. WordBits : w[n] = w[n - 1] + bits[n] * ReadWeight(ssem, n)
  BY <1>1, <1>7
<1>10. w = [n \in D |-> w[n]]
  BY <1>7
<1>. HIDE DEF Rec
<1>11. Nat \subseteq {n \in Nat : n <= WordBits => w[n] \in Nat}
  <2>. DEFINE T == {n \in Nat : n <= WordBits => w[n] \in Nat}
  <2>1. 0 \in T
    BY <1>9
  <2>2. ASSUME NEW n \in Nat, n \in T PROVE n + 1 \in T
    <3>1. CASE n + 1 <= WordBits
      <4>1. n + 1 \in 1 .. WordBits /\ (n + 1) - 1 = n /\ w[n] \in Nat
        BY <1>1, <2>2, <3>1
      <4>. QED
        BY <1>2, <1>9, <4>1
    <3>. QED
      BY <3>1
  <2>. HIDE DEF T
  <2>3. Nat \subseteq T
    BY <2>1, <2>2, SetInduction
  <2>. QED
    BY <2>3 DEF T
<1>12. w \in [0 .. WordBits -> Nat]
  BY <1>1, <1>10, <1>11
<1>. QED
  BY <1>8, <1>9, <1>12 DEF Walk

(* A line of bits makes a word.                                              *)
LEMMA WordOfIsWord ==
    ASSUME NEW ssem \in BOOLEAN, NEW bits \in [1 .. WordBits -> {0, 1}]
    PROVE  WordOf(bits, ssem) \in Word
<1>1. /\ WordBits \in Nat /\ Modulus = PowerOfTwo[WordBits] /\ Modulus \in Nat
      /\ PowerOfTwo[0] = 1
  BY BitsAssumption, PowerOfTwoDef
<1>2. PICK f : Walk(bits, ssem, f) /\ WordOf(bits, ssem) = f[WordBits]
  BY WordOfWalk
<1>3. /\ f \in [0 .. WordBits -> Nat] /\ f[0] = 0
      /\ \A n \in 1 .. WordBits : f[n] = f[n - 1] + bits[n] * ReadWeight(ssem, n)
  BY <1>2 DEF Walk
<1>4. ASSUME NEW n \in 1 .. WordBits
      PROVE  f[n - 1] \in Nat /\ f[n] \in Nat
             /\ f[n] <= f[n - 1] + ReadWeight(ssem, n)
  <2>1. bits[n] \in {0, 1} /\ ReadWeight(ssem, n) \in Nat /\ n - 1 \in 0 .. WordBits
    BY <1>1, WeightNat
  <2>2. f[n - 1] \in Nat /\ f[n] \in Nat
    BY <1>1, <1>3, <2>1
  <2>. QED
    BY <1>3, <2>1, <2>2
<1>5. CASE ssem
  <2>. DEFINE T == {n \in 0 .. WordBits : f[n] < PowerOfTwo[n]}
  <2>1. 0 \in T
    BY <1>1, <1>3
  <2>2. ASSUME NEW n \in 1 .. WordBits, n - 1 \in T PROVE n \in T
    <3>1. n - 1 \in Nat /\ (n - 1) + 1 = n /\ f[n - 1] < PowerOfTwo[n - 1]
      BY <2>2
    <3>2. ReadWeight(ssem, n) = PowerOfTwo[n - 1]
      BY <1>5 DEF ReadWeight
    <3>3. PowerOfTwo[n - 1] \in Nat /\ PowerOfTwo[n] = 2 * PowerOfTwo[n - 1]
      BY <3>1, PowerOfTwoDef
    <3>4. f[n] < PowerOfTwo[n]
      BY <1>4, <3>1, <3>2, <3>3
    <3>. QED
      BY <1>1, <3>4
  <2>. HIDE DEF T
  <2>3. 0 .. WordBits \subseteq T
    BY <1>1, <2>1, <2>2, UpTo
  <2>4. f[WordBits] < Modulus /\ f[WordBits] \in Nat
    BY <1>1, <1>3, <2>3 DEF T
  <2>. QED
    BY <1>1, <1>2, <2>4 DEF Word
<1>6. CASE ~ssem
  <2>. DEFINE T == {n \in 0 .. WordBits :
                      f[n] + PowerOfTwo[WordBits - n] <= PowerOfTwo[WordBits]}
  <2>1. 0 \in T
    <3>1. WordBits - 0 = WordBits /\ f[0] + PowerOfTwo[WordBits] <= PowerOfTwo[WordBits]
      BY <1>1, <1>3
    <3>. QED
      BY <1>1, <3>1
  <2>2. ASSUME NEW n \in 1 .. WordBits, n - 1 \in T PROVE n \in T
    <3>. DEFINE k == WordBits - n
    <3>1. k \in Nat /\ WordBits - (n - 1) = k + 1
      BY <1>1
    <3>2. ReadWeight(ssem, n) = PowerOfTwo[k]
      BY <1>6 DEF ReadWeight
    <3>3. /\ PowerOfTwo[k] \in Nat /\ PowerOfTwo[k + 1] = 2 * PowerOfTwo[k]
          /\ PowerOfTwo[WordBits] \in Nat
      BY <1>1, <3>1, PowerOfTwoDef
    <3>4. f[n - 1] + PowerOfTwo[k + 1] <= PowerOfTwo[WordBits]
      BY <2>2, <3>1
    <3>. HIDE DEF k
    <3>5. f[n] + PowerOfTwo[k] <= PowerOfTwo[WordBits]
      BY <1>4, <3>2, <3>3, <3>4
    <3>. QED
      BY <1>1, <3>5 DEF k
  <2>. HIDE DEF T
  <2>3. 0 .. WordBits \subseteq T
    BY <1>1, <2>1, <2>2, UpTo
  <2>4. WordBits - WordBits = 0 /\ WordBits \in T
    BY <1>1, <2>3
  <2>5. f[WordBits] + 1 <= Modulus /\ f[WordBits] \in Nat /\ Modulus \in Nat
    BY <1>1, <1>3, <2>4, PowerOfTwoDef DEF T
  <2>. QED
    BY <1>2, <2>5 DEF Word
<1>. QED
  BY <1>5, <1>6

(* The bits of a word.                                                       *)
LEMMA BitsOfBits ==
    ASSUME NEW ssem \in BOOLEAN, NEW w \in Word
    PROVE  BitsOf(w, ssem) \in [1 .. WordBits -> {0, 1}]
<1>1. ASSUME NEW i \in 1 .. WordBits
      PROVE  (w \div WriteWeight(ssem, i)) % 2 \in {0, 1}
  <2>1. Modulus \in Nat /\ w \in Nat
    BY BitsAssumption, PowerOfTwoDef DEF Word
  <2>2. WriteWeight(ssem, i) \in Nat \ {0}
    BY WeightNat
  <2>3. w \div WriteWeight(ssem, i) \in Nat
    BY <2>1, <2>2
  <2>. QED
    BY <2>3, Half
<1>. QED
  BY <1>1 DEF BitsOf

(* The theorem of the bit formats: what the reader makes of the bits the     *)
(* writer makes of a word is the word, whichever end they start from, in     *)
(* every width.                                                              *)
THEOREM BitsRoundTrip ==
    ASSUME NEW ssem \in BOOLEAN, NEW w \in Word
    PROVE  WordOf(BitsOf(w, ssem), ssem) = w
<1>. DEFINE bits == BitsOf(w, ssem)
            P(n) == PowerOfTwo[n]
<1>1. /\ WordBits \in Nat /\ Modulus = P(WordBits) /\ Modulus \in Nat \ {0}
      /\ P(0) = 1 /\ w \in Nat /\ w < Modulus /\ w % Modulus = w /\ w % 1 = 0
  <2>1. WordBits \in Nat /\ Modulus = P(WordBits) /\ Modulus \in Nat \ {0} /\ P(0) = 1
    BY BitsAssumption, PowerOfTwoDef
  <2>2. w \in Nat /\ w < Modulus
    BY <2>1 DEF Word
  <2>. QED
    BY <2>1, <2>2
<1>2. bits \in [1 .. WordBits -> {0, 1}]
  BY BitsOfBits
<1>3. PICK f : Walk(bits, ssem, f) /\ WordOf(bits, ssem) = f[WordBits]
  BY <1>2, WordOfWalk
<1>4. /\ f \in [0 .. WordBits -> Nat] /\ f[0] = 0
      /\ \A n \in 1 .. WordBits : f[n] = f[n - 1] + bits[n] * ReadWeight(ssem, n)
  BY <1>3 DEF Walk
<1>5. ASSUME NEW n \in 1 .. WordBits
      PROVE  bits[n] = (w \div ReadWeight(ssem, n)) % 2
  BY WeightNat DEF BitsOf
<1>6. ASSUME NEW k \in Nat
      PROVE  /\ P(k) \in Nat \ {0} /\ P(k + 1) = 2 * P(k) /\ w % P(k) \in Nat
             /\ w % P(k + 1) = (w % P(k)) + ((w \div P(k)) % 2) * P(k)
             /\ ((w \div P(k)) % 2) * P(k) \in Nat
  <2>1. P(k) \in Nat \ {0} /\ P(k + 1) = 2 * P(k)
    BY PowerOfTwoDef
  <2>. HIDE DEF P
  <2>2. w % P(k) \in Nat /\ w \div P(k) \in Nat
    BY <1>1, <2>1
  <2>3. (w \div P(k)) % 2 \in {0, 1}
    BY <2>2, Half
  <2>4. ((w \div P(k)) % 2) * P(k) \in Nat
    BY <2>1, <2>3
  <2>5. w % (2 * P(k)) = (w % P(k)) + ((w \div P(k)) % 2) * P(k)
    BY <1>1, <2>1, LowBits
  <2>. QED
    BY <2>1, <2>2, <2>4, <2>5
<1>. HIDE DEF bits, P
<1>7. CASE ssem
  <2>. DEFINE T == {n \in 0 .. WordBits : f[n] = w % P(n)}
  <2>1. 0 \in T
    BY <1>1, <1>4
  <2>2. ASSUME NEW n \in 1 .. WordBits, n - 1 \in T PROVE n \in T
    <3>. DEFINE k == n - 1
    <3>1. k \in Nat /\ k + 1 = n /\ f[k] = w % P(k)
      BY <1>1, <2>2
    <3>2. ReadWeight(ssem, n) = P(k)
      BY <1>7 DEF ReadWeight, P
    <3>3. f[n] = f[k] + bits[n] * P(k) /\ bits[n] = (w \div P(k)) % 2
      BY <1>4, <1>5, <3>2
    <3>. HIDE DEF k
    <3>4. f[n] = w % P(k + 1)
      BY <1>6, <3>1, <3>3
    <3>. QED
      BY <3>1, <3>4
  <2>. HIDE DEF T
  <2>3. 0 .. WordBits \subseteq T
    BY <1>1, <2>1, <2>2, UpTo
  <2>4. f[WordBits] = w % P(WordBits)
    BY <1>1, <2>3 DEF T
  <2>. QED
    BY <1>1, <1>3, <2>4 DEF bits
<1>8. CASE ~ssem
  <2>. DEFINE T == {n \in 0 .. WordBits : f[n] + (w % P(WordBits - n)) = w}
  <2>1. 0 \in T
    <3>1. WordBits - 0 = WordBits /\ f[0] + (w % P(WordBits)) = w
      BY <1>1, <1>4
    <3>. QED
      BY <1>1, <3>1
  <2>2. ASSUME NEW n \in 1 .. WordBits, n - 1 \in T PROVE n \in T
    <3>. DEFINE k == WordBits - n
    <3>1. k \in Nat /\ WordBits - (n - 1) = k + 1 /\ f[n - 1] \in Nat
      BY <1>1, <1>4
    <3>2. ReadWeight(ssem, n) = P(k)
      BY <1>8 DEF ReadWeight, P
    <3>3. f[n - 1] + (w % P(k + 1)) = w
      BY <2>2, <3>1
    <3>4. f[n] = f[n - 1] + bits[n] * P(k) /\ bits[n] = (w \div P(k)) % 2
      BY <1>4, <1>5, <3>2
    <3>. HIDE DEF k
    <3>5. f[n] + (w % P(k)) = w
      <4>. DEFINE x == w % P(k)
                  y == ((w \div P(k)) % 2) * P(k)
      <4>1. /\ x \in Nat /\ y \in Nat
            /\ f[n - 1] + (x + y) = w /\ f[n] = f[n - 1] + y
        BY <1>6, <3>1, <3>3, <3>4
      <4>2. f[n - 1] \in Nat
        BY <3>1
      <4>. HIDE DEF x, y
      <4>3. f[n] + x = w
        BY <4>1, <4>2
      <4>. QED
        BY <4>3 DEF x
    <3>. QED
      BY <1>1, <3>5 DEF k
  <2>. HIDE DEF T
  <2>3. 0 .. WordBits \subseteq T
    BY <1>1, <2>1, <2>2, UpTo
  <2>4. WordBits - WordBits = 0 /\ WordBits \in T /\ f[WordBits] \in Nat
    BY <1>1, <1>4, <2>3
  <2>5. f[WordBits] + (w % P(0)) = w
    BY <2>4 DEF T
  <2>6. f[WordBits] = w
    BY <1>1, <2>4, <2>5
  <2>. QED
    BY <1>3, <2>6 DEF bits
<1>. QED
  BY <1>7, <1>8
=============================================================================
