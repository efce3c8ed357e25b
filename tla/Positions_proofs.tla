-------------------------- MODULE Positions_proofs --------------------------
(***************************************************************************)
(* What Rank, Nth and Only say of any set of positions and any sequence.   *)
(* The library's rules of induction take an operator for a parameter; an   *)
(* induction over numbers goes by the least of a set of them instead.      *)
(***************************************************************************)
EXTENDS Positions, FiniteSetTheorems, SequenceTheorems, TLAPS

\* The n-th smallest of a set of numbers.
LEMMA LeastNumber ==
  ASSUME NEW T, T \subseteq Nat, T # {}
  PROVE  \E x \in T : \A y \in T : x <= y
  <1>1. PICK x \in T : \A y \in T : <<y, x>> \notin OpToRel(<, Nat)
    BY NatLessThanWellFounded, WFMin
  <1>2. \A y \in T : ~ (y < x)
    BY <1>1 DEF OpToRel
  <1>3. QED BY <1>2

LEMMA GreatestNumber ==
  ASSUME NEW n \in Nat, NEW T, T \subseteq 0..n, T # {}
  PROVE  \E x \in T : \A y \in T : y <= x
  <1> DEFINE U == {k \in Nat : n - k \in T}
  <1>1. \A t \in T : n - t \in U
    OBVIOUS
  <1>2. PICK k \in U : \A y \in U : k <= y
    <2>1. U \subseteq Nat /\ U # {}
      BY <1>1
    <2> HIDE DEF U
    <2>2. QED BY <2>1, LeastNumber
  <1>3. \A y \in T : y <= n - k
    BY <1>1, <1>2
  <1>4. QED BY <1>2, <1>3

LEMMA PositionsAreFinite ==
  ASSUME NEW m \in Nat, NEW S, S \subseteq 1..m
  PROVE  /\ S \subseteq Nat /\ IsFiniteSet(S) /\ Cardinality(S) \in Nat
         /\ \A p : /\ Rank(S, p) \in Nat /\ Rank(S, p) <= Cardinality(S)
                   /\ IsFiniteSet({q \in S : q <= p})
  <1>1. IsFiniteSet(1..m)
    BY FS_Interval
  <1>2. IsFiniteSet(S) /\ Cardinality(S) \in Nat
    BY <1>1, FS_Subset, FS_CardinalityType
  <1>3. \A p : /\ IsFiniteSet({q \in S : q <= p}) /\ Rank(S, p) \in Nat
               /\ Rank(S, p) <= Cardinality(S)
    <2> TAKE p
    <2>1. {q \in S : q <= p} \subseteq S
      OBVIOUS
    <2>2. QED BY <2>1, <1>2, FS_Subset, FS_CardinalityType DEF Rank
  <1>4. QED BY <1>2, <1>3

\* A larger position has a larger rank.
LEMMA RankGrows ==
  ASSUME NEW m \in Nat, NEW S, S \subseteq 1..m, NEW p \in S, NEW q \in S, p < q
  PROVE  Rank(S, p) < Rank(S, q)
  <1> DEFINE P == {r \in S : r <= p}
             Q == {r \in S : r <= q}
  <1>1. p \in Nat /\ q \in Nat /\ IsFiniteSet(Q) /\ Rank(S, p) \in Nat /\ Rank(S, q) \in Nat
    BY PositionsAreFinite
  <1>2. P \subseteq Q /\ q \in Q /\ q \notin P
    <2>1. \A r \in S : r \in Nat
      BY PositionsAreFinite
    <2>2. p \in Nat /\ q \in Nat /\ p < q
      BY <1>1
    <2>3. \A r \in S : r <= p => r <= q
      BY <2>1, <2>2
    <2>4. q <= q /\ ~ (q <= p)
      BY <2>2
    <2>5. QED BY <2>3, <2>4
  <1>3. Cardinality(P) <= Cardinality(Q) /\ Cardinality(P) # Cardinality(Q)
    BY <1>1, <1>2, FS_Subset
  <1>4. Rank(S, p) = Cardinality(P) /\ Rank(S, q) = Cardinality(Q)
    BY DEF Rank
  <1> HIDE DEF P, Q
  <1>5. QED BY <1>1, <1>3, <1>4

\* Every rank up to the size of the set is somebody's.
LEMMA RankIsReached ==
  ASSUME NEW m \in Nat, NEW S, S \subseteq 1..m, NEW n \in 1..Cardinality(S)
  PROVE  \E p \in S : Rank(S, p) = n
  <1> DEFINE T == {p \in S : Rank(S, p) >= n}
  <1>0. /\ S \subseteq Nat /\ S \subseteq 0..m /\ IsFiniteSet(S) /\ Cardinality(S) \in Nat
        /\ n \in Nat /\ n >= 1
    <2>1. S \subseteq Nat /\ IsFiniteSet(S) /\ Cardinality(S) \in Nat
      BY PositionsAreFinite
    <2>2. S \subseteq 0..m /\ n \in Nat /\ n >= 1
      BY <2>1
    <2>3. QED BY <2>1, <2>2
  <1>1. T # {}
    <2>1. S # {}
      BY <1>0, FS_EmptySet
    <2>2. PICK p \in S : \A q \in S : q <= p
      BY <2>1, <1>0, GreatestNumber
    <2>3. {q \in S : q <= p} = S
      BY <2>2
    <2>4. Rank(S, p) = Cardinality(S)
      BY <2>3 DEF Rank
    <2>5. QED BY <2>4, <1>0
  <1>2. PICK p \in T : \A q \in T : p <= q
    <2>1. T \subseteq Nat
      BY <1>0
    <2> HIDE DEF T
    <2>2. QED BY <2>1, <1>1, LeastNumber
  <1>3. p \in S /\ Rank(S, p) >= n /\ Rank(S, p) \in Nat /\ p \in Nat
    BY <1>2, <1>0, PositionsAreFinite
  <1>4. ASSUME Rank(S, p) > n PROVE FALSE
    <2> DEFINE W == {q \in S : q <= p} \ {p}
    <2> DEFINE V == {q \in S : q <= p}
    <2>0. IsFiniteSet(V) /\ p \in V /\ Rank(S, p) = Cardinality(V)
      <3>1. p <= p
        BY <1>3
      <3>2. IsFiniteSet(V) /\ p \in V
        BY <3>1, <1>3, PositionsAreFinite
      <3>3. QED BY <3>2 DEF Rank
    <2>1. IsFiniteSet(W) /\ Cardinality(W) = Rank(S, p) - 1
      <3> HIDE DEF V
      <3>1. IsFiniteSet(V \ {p}) /\ Cardinality(V \ {p}) = Cardinality(V) - 1
        BY <2>0, FS_RemoveElement
      <3>2. QED BY <3>1, <2>0 DEF V
    <2>2. W # {} /\ W \subseteq S /\ \A q \in W : q < p
      <3>1. Cardinality(W) # 0
        BY <2>1, <1>3, <1>4, <1>0
      <3>2. QED BY <3>1, <1>0, <1>3, FS_EmptySet
    <2>3. PICK w \in W : \A q \in W : q <= w
      <3>1. W \subseteq 0..m
        BY <2>2, <1>0
      <3> HIDE DEF W
      <3>2. QED BY <3>1, <2>2, GreatestNumber
    <2>4. {q \in S : q <= w} = W
      <3>1. w \in S /\ w < p /\ w \in Nat /\ \A q \in S : q \in Nat
        BY <2>2, <1>0
      <3>2. \A q \in S : q <= w <=> q <= p /\ q # p
        BY <3>1, <2>3, <1>3
      <3>3. QED BY <3>2
    <2>5. Rank(S, w) >= n
      BY <2>1, <2>4, <1>0, <1>3, <1>4 DEF Rank
    <2>6. QED BY <2>2, <2>3, <2>5, <1>0, <1>2, <1>3
  <1>5. QED BY <1>0, <1>3, <1>4

LEMMA NthIsThere ==
  ASSUME NEW m \in Nat, NEW S, S \subseteq 1..m, NEW n \in 1..Cardinality(S)
  PROVE  Nth(S, n) \in S /\ Rank(S, Nth(S, n)) = n
  BY RankIsReached DEF Nth

LEMMA NthIsUnique ==
  ASSUME NEW m \in Nat, NEW S, S \subseteq 1..m, NEW n \in 1..Cardinality(S),
         NEW p \in S, Rank(S, p) = n
  PROVE  Nth(S, n) = p
  <1> DEFINE q == Nth(S, n)
  <1>1. q \in S /\ Rank(S, q) = n
    BY NthIsThere
  <1>2. p \in Nat /\ q \in Nat /\ n \in Nat
    BY <1>1, PositionsAreFinite
  <1> HIDE DEF q
  <1>3. p < q \/ q < p \/ p = q
    BY <1>2
  <1>4. ~ (p < q) /\ ~ (q < p)
    <2>1. p < q => Rank(S, p) < Rank(S, q)
      BY <1>1, RankGrows
    <2>2. q < p => Rank(S, q) < Rank(S, p)
      BY <1>1, RankGrows
    <2>3. QED BY <2>1, <2>2, <1>1, <1>2
  <1>5. QED BY <1>3, <1>4 DEF q

\* A position after all of S comes last, and moves none of them.
LEMMA NthOfMore ==
  ASSUME NEW m \in Nat \ {0}, NEW S, S \subseteq 1..(m - 1)
  PROVE  /\ Cardinality(S \cup {m}) = Cardinality(S) + 1
         /\ Nth(S \cup {m}, Cardinality(S) + 1) = m
         /\ \A n \in 1..Cardinality(S) : Nth(S \cup {m}, n) = Nth(S, n)
  <1> DEFINE R == S \cup {m}
  <1>1. m - 1 \in Nat /\ S \subseteq 1..m /\ R \subseteq 1..m /\ m \notin S /\ m \in R
    OBVIOUS
  <1>2. /\ IsFiniteSet(S) /\ Cardinality(S) \in Nat /\ S \subseteq Nat
        /\ Cardinality(R) = Cardinality(S) + 1
    BY <1>1, PositionsAreFinite, FS_AddElement
  <1>3. \A p \in S : Rank(R, p) = Rank(S, p)
    <2> TAKE p \in S
    <2>1. {q \in R : q <= p} = {q \in S : q <= p}
      BY <1>1
    <2>2. QED BY <2>1 DEF Rank
  <1>4. Rank(R, m) = Cardinality(S) + 1
    <2>1. \A q \in R : q <= m
      BY <1>1
    <2>3. {q \in R : q <= m} = R
      BY <2>1
    <2>2. QED BY <2>3, <1>2 DEF Rank
  <1>5. Nth(R, Cardinality(S) + 1) = m
    <2>1. Cardinality(S) + 1 \in 1..Cardinality(R) /\ m \in Nat
      BY <1>2
    <2> HIDE DEF R
    <2>2. QED BY <2>1, <1>1, <1>4, NthIsUnique
  <1>6. ASSUME NEW n \in 1..Cardinality(S) PROVE Nth(R, n) = Nth(S, n)
    <2>1. Nth(S, n) \in S /\ Rank(S, Nth(S, n)) = n
      BY <1>1, NthIsThere
    <2>2. Nth(S, n) \in R /\ Rank(R, Nth(S, n)) = n
      BY <2>1, <1>3
    <2>3. n \in 1..Cardinality(R)
      BY <1>2
    <2>4. QED BY <2>2, <2>3, <1>1, NthIsUnique
  <1>7. QED BY <1>2, <1>5, <1>6

\* An order of 1..n that never repeats itself leaves nothing out.
LEMMA OrderIsComplete ==
  ASSUME NEW n \in Nat, NEW f \in [1..n -> 1..n],
         \A p \in 1..n : \A q \in 1..n : p # q => f[p] # f[q],
         NEW m \in 1..n
  PROVE  \E p \in 1..n : f[p] = m
  <1>1. IsFiniteSet(1..n)
    BY FS_Interval
  <1>2. f \in Injection(1..n, 1..n)
    BY DEF Injection, IsInjective
  <1>3. f \in Surjection(1..n, 1..n)
    BY <1>1, <1>2, FS_Injection
  <1>4. QED BY <1>3 DEF Surjection

-----------------------------------------------------------------------------
(* Parts of a sequence.                                                    *)
LEMMA Beginning ==
  ASSUME NEW W, NEW s \in Seq(W), NEW m \in 0..Len(s)
  PROVE  /\ SubSeq(s, 1, m) \in Seq(W) /\ Len(SubSeq(s, 1, m)) = m
         /\ \A k \in 1..m : SubSeq(s, 1, m)[k] = s[k]
  <1>1. Len(s) \in Nat /\ m \in Int /\ m >= 0 /\ \A k \in 1..m : s[k] \in W
    BY LenProperties, ElementOfSeq
  <1>2. /\ SubSeq(s, 1, m) \in Seq(W)
        /\ Len(SubSeq(s, 1, m)) = IF 1 <= m THEN m - 1 + 1 ELSE 0
        /\ \A k \in 1..(m - 1 + 1) : SubSeq(s, 1, m)[k] = s[1 + k - 1]
    BY <1>1, SubSeqProperties
  <1>3. m - 1 + 1 = m /\ \A k \in 1..m : 1 + k - 1 = k
    BY <1>1
  <1>4. Len(SubSeq(s, 1, m)) = m
    BY <1>1, <1>2, <1>3
  <1>5. QED BY <1>2, <1>3, <1>4

\* What is left of a sequence is found in it, in the same order, no earlier
\* than where it is left; and all that was to be left is.
Leaves(s, X, f) ==
  LET o == Only(s, X) IN
    /\ f \in [1..Len(o) -> 1..Len(s)]
    /\ \A p \in 1..Len(o) : \A q \in 1..Len(o) : p < q => f[p] < f[q]
    /\ \A p \in 1..Len(o) : o[p] = s[f[p]] /\ o[p] \in X /\ p <= f[p]
    /\ \A q \in 1..Len(s) : s[q] \in X => \E p \in 1..Len(o) : f[p] = q

LEMMA RankInRange ==
  ASSUME NEW m \in Nat, NEW S, S \subseteq 1..m, NEW p \in S
  PROVE  Rank(S, p) \in 1..Cardinality(S) /\ Rank(S, p) <= p
  <1> DEFINE Q == {q \in S : q <= p}
  <1>1. IsFiniteSet(Q) /\ Cardinality(Q) \in Nat /\ Cardinality(Q) <= Cardinality(S)
        /\ Cardinality(S) \in Nat /\ p \in Nat
    BY PositionsAreFinite DEF Rank
  <1>2. Q # {} /\ Q \subseteq 1..p
    <2>1. p <= p /\ \A q \in S : q \in Nat /\ q >= 1
      BY <1>1
    <2>2. p \in Q /\ \A q \in Q : q \in 1..p
      BY <1>1, <2>1
    <2>3. QED BY <2>2
  <1> HIDE DEF Q
  <1>3. Cardinality(Q) # 0
    BY <1>1, <1>2, FS_EmptySet
  <1>4. IsFiniteSet(1..p) /\ Cardinality(1..p) = p
    <2>1. IsFiniteSet(1..p) /\ Cardinality(1..p) = IF 1 > p THEN 0 ELSE p - 1 + 1
      BY <1>1, FS_Interval
    <2>2. p > 0
      OBVIOUS
    <2>3. QED BY <1>1, <2>1, <2>2
  <1>5. Cardinality(Q) <= p
    BY <1>2, <1>4, FS_Subset
  <1>6. Rank(S, p) = Cardinality(Q)
    BY DEF Rank, Q
  <1>7. QED BY <1>1, <1>3, <1>5, <1>6

LEMMA OnlyLeaves ==
  ASSUME NEW W, NEW s \in Seq(W), NEW X
  PROVE  /\ Only(s, X) \in Seq(W) /\ Len(Only(s, X)) \in Nat
         /\ \E f : Leaves(s, X, f)
  <1> DEFINE n == Len(s)
             P == {p \in DOMAIN s : s[p] \in X}
             c == Cardinality(P)
             f == [k \in 1..c |-> Nth(P, k)]
             o == Only(s, X)
  <1>1. n \in Nat /\ DOMAIN s = 1..n /\ P \subseteq 1..n /\ \A p \in P : s[p] \in W
    BY LenProperties, ElementOfSeq
  <1>2. c \in Nat
    BY <1>1, PositionsAreFinite
  <1>3. \A k \in 1..c : Nth(P, k) \in P /\ Rank(P, Nth(P, k)) = k
    BY <1>1, NthIsThere
  <1>4. \A q \in P : \E k \in 1..c : Nth(P, k) = q
    <2> TAKE q \in P
    <2>1. Rank(P, q) \in 1..c
      BY <1>1, RankInRange
    <2>2. Nth(P, Rank(P, q)) = q
      BY <1>1, <2>1, NthIsUnique
    <2>3. QED BY <2>1, <2>2
  <1>5. \A k \in 1..c : k <= Nth(P, k)
    BY <1>1, <1>3, RankInRange
  <1>6. \A k \in 1..c : \A m \in 1..c : k < m => Nth(P, k) < Nth(P, m)
    <2> SUFFICES ASSUME NEW k \in 1..c, NEW m \in 1..c, k < m
                 PROVE  Nth(P, k) < Nth(P, m)
      OBVIOUS
    <2> DEFINE x == Nth(P, k)
               y == Nth(P, m)
    <2>1. x \in P /\ y \in P /\ Rank(P, x) = k /\ Rank(P, y) = m
      BY <1>3
    <2>2. x \in Nat /\ y \in Nat /\ k \in Nat /\ m \in Nat
      BY <1>1, <1>2, <2>1
    <2>3. y < x => m < k
      BY <1>1, <2>1, RankGrows
    <2> HIDE DEF x, y
    <2>4. x # y
      BY <2>1, <2>2
    <2>5. x < y
      BY <2>2, <2>3, <2>4
    <2>6. QED BY <2>5 DEF x, y
  <1>7. \A p \in P : p \in 1..n /\ s[p] \in X /\ s[p] \in W
    BY <1>1
  <1>8. \A q \in 1..n : s[q] \in X => q \in P
    BY <1>1
  <1>9. o = [k \in 1..c |-> s[Nth(P, k)]]
    BY DEF Only
  <1> HIDE DEF P, c, n, o
  <1>10. o \in [1..c -> W]
    BY <1>3, <1>7, <1>9
  <1>11. o \in Seq(W) /\ Len(o) = c
    BY <1>2, <1>10
  <1>12. \A p \in 1..c : f[p] = Nth(P, p) /\ o[p] = s[f[p]]
    BY <1>9
  <1>13. f \in [1..c -> 1..n]
    BY <1>3, <1>7
  <1> HIDE DEF f
  <1>14. /\ \A p \in 1..c : \A q \in 1..c : p < q => f[p] < f[q]
         /\ \A p \in 1..c : o[p] = s[f[p]] /\ o[p] \in X /\ p <= f[p]
         /\ \A q \in 1..n : s[q] \in X => \E p \in 1..c : f[p] = q
    BY <1>3, <1>4, <1>5, <1>6, <1>7, <1>8, <1>12
  <1>15. Leaves(s, X, f)
    BY <1>11, <1>13, <1>14 DEF Leaves, n, o
  <1>16. QED BY <1>2, <1>11, <1>15 DEF o
=============================================================================
