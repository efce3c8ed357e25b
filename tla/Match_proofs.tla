---------------------------- MODULE Match_proofs ----------------------------
(***************************************************************************)
(* What pkg/match and Client.Search promise for every catalogue, every     *)
(* measure of likeness, titles and strings of any length: an automatic     *)
(* match is evident, the queue shows the likeliest tracks, a remix         *)
(* descriptor decides, and levenshtein returns the edit distance.          *)
(***************************************************************************)
EXTENDS Search, Parsing, Levenshtein, Positions_proofs

-----------------------------------------------------------------------------
(* The parts of a score, in thousandths. *)

\* Two names are similar to some degree.
LEMMA SimilarityBounds ==
  ASSUME NEW x \in Names, NEW y \in Names
  PROVE  Similarity(x, y) \in 0..1000
BY SimilarityOK

\* A version verdict comes with a score.
LEMMA VersionScoreBounds ==
  ASSUME NEW x, NEW y, IsTrack(x), IsTrack(y)
  PROVE  VersionScore(x.version, y.version).score \in 0..1000
<1> DEFINE r == x.version.remixer
           s == y.version.remixer
           kinds == {x.version.kind, y.version.kind}
<1>1. Similarity(r, s) \in 0..1000
  BY SimilarityBounds DEF IsTrack
<1> HIDE DEF r, s
<1>2. RemixScore(r, s).score \in 0..1000
  <2>1. CASE r # <<>> /\ s # <<>> /\ Similarity(r, s) < 800
    <3>1. (Similarity(r, s) * 300) \div 1000 \in 0..1000
      BY <1>1
    <3> QED BY <2>1, <3>1 DEF RemixScore, Verdict
  <2>2. CASE ~ (r # <<>> /\ s # <<>> /\ Similarity(r, s) < 800)
    <3>1. RemixScore(r, s) \in {Agree, Verdict(550, TRUE)}
      <4>1. CASE r # <<>> /\ s # <<>>
        BY <2>2, <4>1 DEF RemixScore
      <4>2. CASE ~ (r # <<>> /\ s # <<>>)
        BY <4>2 DEF RemixScore
      <4> QED BY <4>1, <4>2
    <3>2. Agree.score \in 0..1000
      BY DEF Agree, Verdict
    <3>3. Verdict(550, TRUE).score \in 0..1000
      BY DEF Verdict
    <3> QED BY <3>1, <3>2, <3>3, Zenon
  <2> QED BY <2>1, <2>2
<1>3. ConflictScore(kinds) \in 0..1000
  BY DEF ConflictScore
<1>4. CASE x.version.kind = "remix" /\ y.version.kind = "remix"
  <2>1. VersionScore(x.version, y.version) = RemixScore(r, s)
    BY <1>4 DEF VersionScore, r, s
  <2> QED BY <1>2, <2>1
<1>5. CASE x.version.kind = y.version.kind /\ x.version.kind # "remix"
  BY <1>5 DEF VersionScore, Agree, Verdict
<1>6. CASE x.version.kind # y.version.kind /\ "unknown" \in kinds
  BY <1>6 DEF VersionScore, Verdict
<1>7. CASE x.version.kind # y.version.kind /\ "unknown" \notin kinds
  BY <1>3, <1>7 DEF VersionScore, Verdict
<1> QED BY <1>4, <1>5, <1>6, <1>7

\* Runtimes are compared in [0, 1].
LEMMA DurationScoreBounds ==
  ASSUME NEW d \in Nat, NEW e \in Nat
  PROVE  DurationScore(d, e) \in 0..1000
<1>1. Apart(d, e) \in Nat
  BY DEF Apart
<1>2. CASE Apart(d, e) > 3 /\ Apart(d, e) < 60
  <2> DEFINE z == Apart(d, e) - 3
  <2>1. z \in 0..56
    BY <1>1, <1>2
  <2> HIDE DEF z
  <2>2. (z * 1000) \div 57 \in 0..1000
    BY <2>1
  <2> QED BY <1>1, <1>2, <2>2 DEF DurationScore, z
<1> QED BY <1>1, <1>2 DEF DurationScore

\* The gate is open at most.
LEMMA ArtistGateBounds ==
  ASSUME NEW sim \in 0..1000
  PROVE  ArtistGate(sim) \in 0..1000
<1>1. sim < 700 => (sim * 550) \div 700 \in 0..550
  OBVIOUS
<1> QED BY <1>1 DEF ArtistGate

-----------------------------------------------------------------------------
(* The mean over the artists.  A fold over a set of n elements is a        *)
(* function on its subsets; that there is one is an induction on their     *)
(* size, and so is what it comes to at most.                               *)
Chosen(s) == CHOOSE x \in s : TRUE
Sums(D, got, f) ==
  f = [s \in D |-> IF s = {} THEN 0 ELSE Best(Chosen(s), got) + f[s \ {Chosen(s)}]]

Smaller(artists, n) == {s \in SUBSET artists : Cardinality(s) <= n}

\* The fold takes one element at a time.
LEMMA ChosenLeaves ==
  ASSUME NEW artists, IsFiniteSet(artists), NEW s \in SUBSET artists, s # {}
  PROVE  /\ Chosen(s) \in s /\ s \ {Chosen(s)} \in SUBSET artists
         /\ Cardinality(s) \in Nat /\ Cardinality(s) > 0
         /\ Cardinality(s \ {Chosen(s)}) = Cardinality(s) - 1
  <1>1. Chosen(s) \in s
    BY DEF Chosen
  <1>2. IsFiniteSet(s)
    BY FS_Subset
  <1>3. Cardinality(s) \in Nat /\ Cardinality(s) # 0
    BY <1>2, FS_CardinalityType, FS_EmptySet
  <1>4. Cardinality(s \ {Chosen(s)}) = Cardinality(s) - 1
    BY <1>1, <1>2, FS_RemoveElement
  <1>5. QED BY <1>1, <1>3, <1>4

\* The sums over all subsets exist.
LEMMA SumsExist ==
  ASSUME NEW artists, IsFiniteSet(artists), NEW got
  PROVE  \E f : Sums(SUBSET artists, got, f)
  <1> DEFINE N == Cardinality(artists)
             T == {n \in Nat : ~ \E f : Sums(Smaller(artists, n), got, f)}
  <1>1. N \in Nat /\ Smaller(artists, N) = SUBSET artists
    <2>1. N \in Nat
      BY FS_CardinalityType
    <2>2. \A s \in SUBSET artists : Cardinality(s) <= N
      BY FS_Subset
    <2>3. QED BY <2>1, <2>2 DEF Smaller
  <1>2. T = {}
    <2> SUFFICES ASSUME T # {} PROVE FALSE
      OBVIOUS
    <2>1. PICK n \in T : \A m \in T : n <= m
      <3>1. T \subseteq Nat
        OBVIOUS
      <3> HIDE DEF T
      <3>2. QED BY <3>1, LeastNumber
    <2>2. n \in Nat /\ ~ \E f : Sums(Smaller(artists, n), got, f)
      OBVIOUS
    <2>3. CASE n = 0
      <3> DEFINE f == [s \in Smaller(artists, n) |-> 0]
      <3> HIDE DEF T, f
      <3>1. ASSUME NEW s \in Smaller(artists, n)
            PROVE  s = {}
        <4>1. s \in SUBSET artists /\ Cardinality(s) <= 0
          BY <2>3 DEF Smaller
        <4>2. s # {} => Cardinality(s) \in Nat /\ Cardinality(s) > 0
          BY <4>1, ChosenLeaves
        <4>3. QED BY <4>1, <4>2
      <3> USE DEF f
      <3>2. Sums(Smaller(artists, n), got, f)
        BY <3>1 DEF Sums
      <3>3. QED BY <2>2, <3>2
    <2>4. CASE n # 0
      <3>1. n - 1 \in Nat /\ n - 1 \notin T
        BY <2>1, <2>2, <2>4
      <3>2. PICK h : Sums(Smaller(artists, n - 1), got, h)
        BY <3>1
      <3> HIDE DEF T
      <3> DEFINE f == [s \in Smaller(artists, n) |->
                         IF s = {} THEN 0 ELSE Best(Chosen(s), got) + h[s \ {Chosen(s)}]]
      <3>3. ASSUME NEW s \in Smaller(artists, n - 1)
            PROVE  f[s] = h[s]
        <4>1. s \in Smaller(artists, n)
          <5>1. Cardinality(s) \in Nat
            BY FS_Subset, FS_CardinalityType DEF Smaller
          <5>2. QED BY <2>2, <5>1 DEF Smaller
        <4>2. QED BY <3>2, <4>1 DEF Sums
      <3>4. ASSUME NEW s \in Smaller(artists, n), s # {}
            PROVE  s \ {Chosen(s)} \in Smaller(artists, n - 1)
        BY <2>2, <3>4, ChosenLeaves DEF Smaller
      <3>5. f = [s \in Smaller(artists, n) |->
                   IF s = {} THEN 0 ELSE Best(Chosen(s), got) + f[s \ {Chosen(s)}]]
        <4>1. \A s \in Smaller(artists, n) : s # {} => f[s \ {Chosen(s)}] = h[s \ {Chosen(s)}]
          BY <3>3, <3>4
        <4> DEFINE R(g, s) == IF s = {} THEN 0 ELSE Best(Chosen(s), got) + g[s \ {Chosen(s)}]
        <4>2. ASSUME NEW s \in Smaller(artists, n)
              PROVE  R(f, s) = R(h, s)
          <5> HIDE DEF f
          <5>1. CASE s = {}
            BY <5>1
          <5>2. CASE s # {}
            BY <4>1, <5>2
          <5>3. QED BY <5>1, <5>2
        <4> HIDE DEF R
        <4>3. f = [s \in Smaller(artists, n) |-> R(h, s)]
          BY DEF R
        <4> HIDE DEF f
        <4>4. f = [s \in Smaller(artists, n) |-> R(f, s)]
          BY <4>2, <4>3
        <4>5. QED BY <4>4 DEF R
      <3> HIDE DEF f
      <3>6. QED BY <2>2, <3>5 DEF Sums
    <2>5. QED BY <2>3, <2>4
  <1>3. \E f : Sums(Smaller(artists, N), got, f)
    BY <1>1, <1>2
  <1>4. QED BY <1>1, <1>3

\* The fold is the sum over the whole set.
LEMMA LikenessSums ==
  ASSUME NEW artists, IsFiniteSet(artists), NEW got
  PROVE  \E f : Sums(SUBSET artists, got, f) /\ Likeness(artists, got) = f[artists]
  <1> DEFINE f == CHOOSE g : Sums(SUBSET artists, got, g)
  <1>1. Sums(SUBSET artists, got, f)
    BY SumsExist
  <1>2. Likeness(artists, got) = f[artists]
    BY DEF Likeness, MapThenSumSet, MapThenFoldSet, Sums, Chosen
  <1>3. QED BY <1>1, <1>2

\* An artist's best counterpart is like it to some degree.
LEMMA BestIs ==
  ASSUME NEW got \in SUBSET Names, got # {}, NEW w \in Names
  PROVE  Best(w, got) \in 0..1000
  <1> DEFINE S == {Similarity(w, g) : g \in got}
  <1>1. S \subseteq 0..1000 /\ S # {}
    <2>1. \A g \in got : Similarity(w, g) \in 0..1000
      BY SimilarityOK
    <2>2. QED BY <2>1
  <1> HIDE DEF S
  <1>2. \E x \in S : \A y \in S : x >= y
    <2> DEFINE n == 1000
    <2>0. n \in Nat /\ S \subseteq 0..n /\ S # {}
      BY <1>1
    <2> HIDE DEF n
    <2>1. PICK x \in S : \A y \in S : y <= x
      BY <2>0, GreatestNumber
    <2>2. \A y \in S : y \in Nat /\ x \in Nat
      BY <1>1
    <2>3. QED BY <2>1, <2>2
  <1>3. Max(S) \in S
    BY <1>2 DEF Max
  <1>4. QED BY <1>1, <1>3 DEF Best, S

LEMMA SumBounds ==
  ASSUME NEW artists \in SUBSET Names, IsFiniteSet(artists),
         NEW got \in SUBSET Names, got # {}
  PROVE  Likeness(artists, got) \in 0..1000 * Cardinality(artists)
  <1>1. PICK f : Sums(SUBSET artists, got, f) /\ Likeness(artists, got) = f[artists]
    BY LikenessSums
  <1> DEFINE In(s) == f[s] \in 0..1000 * Cardinality(s)
             T == {n \in Nat : \E s \in SUBSET artists : Cardinality(s) = n /\ ~ In(s)}
  <1>2. T = {}
    <2> SUFFICES ASSUME T # {} PROVE FALSE
      OBVIOUS
    <2>1. PICK n \in T : \A m \in T : n <= m
      <3>1. T \subseteq Nat
        OBVIOUS
      <3> HIDE DEF T
      <3>2. QED BY <3>1, LeastNumber
    <2>2. PICK s \in SUBSET artists : Cardinality(s) = n /\ ~ In(s)
      OBVIOUS
    <2>3. n \in Nat
      OBVIOUS
    <2>4. CASE s = {}
      <3>1. f[s] = 0
        BY <1>1, <2>4 DEF Sums
      <3>2. Cardinality(s) = 0
        BY <2>4, FS_EmptySet
      <3>3. QED BY <2>2, <3>1, <3>2
    <2>5. CASE s # {}
      <3> DEFINE r == s \ {Chosen(s)}
                 best == Best(Chosen(s), got)
      <3>1. /\ Chosen(s) \in s /\ r \in SUBSET artists
            /\ Cardinality(s) \in Nat /\ Cardinality(s) > 0 /\ Cardinality(r) = Cardinality(s) - 1
        BY <2>5, ChosenLeaves
      <3>2. f[s] = best + f[r]
        BY <1>1, <2>5 DEF Sums
      <3>3. best \in 0..1000
        BY <3>1, BestIs
      <3>4. In(r)
        <4> SUFFICES ASSUME ~ In(r) PROVE FALSE
          OBVIOUS
        <4> HIDE DEF In, r
        <4>1. Cardinality(r) \in T
          BY <3>1
        <4> HIDE DEF T
        <4>2. QED BY <2>1, <2>2, <2>3, <3>1, <4>1
      <3>5. f[r] \in 0..1000 * Cardinality(r)
        BY <3>4
      <3> HIDE DEF T, r, best, In
      <3>6. f[s] \in 0..1000 * Cardinality(s)
        BY <3>1, <3>2, <3>3, <3>5
      <3>7. QED BY <2>2, <3>6 DEF In
    <2>6. QED BY <2>4, <2>5
  <1>3. In(artists)
    <2> SUFFICES ASSUME ~ In(artists) PROVE FALSE
      OBVIOUS
    <2>1. Cardinality(artists) \in Nat
      BY FS_CardinalityType
    <2> HIDE DEF In
    <2>2. Cardinality(artists) \in T
      BY <2>1
    <2>3. QED BY <1>2, <2>2
  <1>4. QED BY <1>1, <1>3

\* A mean of similarities is one.
LEMMA ArtistsBounds ==
  ASSUME NEW x, NEW y, IsTrack(x), IsTrack(y)
  PROVE  ArtistSimilarity(x.artists, y.artists) \in 0..1000
  <1> DEFINE W == x.artists
             G == y.artists
             n == Cardinality(W)
             k == Likeness(W, G)
             q == k \div n
  <1>1. W \in SUBSET Names /\ IsFiniteSet(W) /\ G \in SUBSET Names
    BY DEF IsTrack
  <1>2. CASE W = {} \/ G = {}
    BY <1>2 DEF ArtistSimilarity
  <1>3. CASE W # {} /\ G # {}
    <2>1. n \in Nat \ {0}
      BY <1>1, <1>3, FS_CardinalityType, FS_EmptySet
    <2>2. k \in 0..1000 * n
      BY <1>1, <1>3, SumBounds
    <2>3. ArtistSimilarity(W, G) \in {q, (q * 970) \div 1000}
      BY <1>3 DEF ArtistSimilarity
    <2> HIDE DEF W, G, n, k
    <2>4. q \in 0..1000
      <3>1. q \in Nat /\ q * n <= k
        BY <2>1, <2>2
      <3> HIDE DEF q
      <3>2. q > 1000 => q * n > 1000 * n
        BY <2>1, <3>1
      <3>3. q * n \in Nat /\ 1000 * n \in Nat /\ k \in Nat
        BY <2>1, <2>2, <3>1
      <3>4. QED BY <2>2, <3>1, <3>2, <3>3
    <2> HIDE DEF q
    <2>5. (q * 970) \div 1000 \in 0..1000
      BY <2>4
    <2>6. QED BY <2>3, <2>4, <2>5 DEF W, G
  <1>4. QED BY <1>2, <1>3

-----------------------------------------------------------------------------
(* The score as a whole. *)

\* Title, artists and version settle the bulk of it: what either of the first
\* two lacks, the rest cannot make up for.
LEMMA WeightedBounds ==
  ASSUME NEW x, NEW y, IsTrack(x), IsTrack(y)
  PROVE  /\ Weighted(x, y) \in 0..1000
         /\ Similarity(x.title, y.title) < 600 => Weighted(x, y) < 850
         /\ ArtistSimilarity(x.artists, y.artists) < 600 => Weighted(x, y) < 890
<1> DEFINE t == Similarity(x.title, y.title)
           m == ArtistSimilarity(x.artists, y.artists)
           v == VersionScore(x.version, y.version).score
           d == DurationScore(x.dur, y.dur)
           timed == (40 * t + 30 * m + 20 * v + 10 * d) \div 100
           untimed == (40 * t + 30 * m + 20 * v) \div 90
           OK(w) == w \in 0..1000 /\ (t < 600 => w < 850) /\ (m < 600 => w < 890)
<1>1. t \in 0..1000
  BY SimilarityBounds DEF IsTrack
<1>2. m \in 0..1000
  BY ArtistsBounds
<1>3. v \in 0..1000
  BY VersionScoreBounds
<1>4. d \in 0..1000
  BY DurationScoreBounds DEF IsTrack
<1>5. Weighted(x, y) = IF x.dur > 0 /\ y.dur > 0 THEN timed ELSE untimed
  BY DEF Weighted
<1> HIDE DEF t, m, v, d
<1>6. OK(timed)
  BY <1>1, <1>2, <1>3, <1>4
<1>7. OK(untimed)
  BY <1>1, <1>2, <1>3
<1> HIDE DEF timed, untimed, OK
<1>8. OK(Weighted(x, y))
  <2>1. CASE x.dur > 0 /\ y.dur > 0
    <3>1. Weighted(x, y) = timed BY <1>5, <2>1
    <3> QED BY <1>6, <3>1
  <2>2. CASE ~ (x.dur > 0 /\ y.dur > 0)
    <3>1. Weighted(x, y) = untimed BY <1>5, <2>2
    <3> QED BY <1>7, <3>1
  <2> QED BY <2>1, <2>2
<1> QED BY <1>8 DEF OK, t, m

LEMMA ProductBounds ==
  ASSUME NEW p \in Nat, NEW q \in Nat, NEW m \in Nat, NEW n \in Nat,
         p <= m, q <= n
  PROVE  p * q \in Nat /\ p * q <= m * n
<1>1. p * q \in Nat /\ m * q \in Nat /\ m * n \in Nat
  OBVIOUS
<1>2. p * q <= m * q
  OBVIOUS
<1>3. m * q <= m * n
  OBVIOUS
<1> QED BY <1>1, <1>2, <1>3

\* A score at the auto threshold is evidence: no conflicting version, a title
\* and artists that agree for the most part.
LEMMA ScoreIsEvidence ==
  ASSUME NEW x, NEW y, IsTrack(x), IsTrack(y)
  PROVE  /\ Score(x, y) \in 0..1000
         /\ Score(x, y) >= 850 =>
              /\ ~ Conflict(x, y)
              /\ Similarity(x.title, y.title) >= 600
              /\ ArtistSimilarity(x.artists, y.artists) >= 600
<1> DEFINE t == Similarity(x.title, y.title)
           m == ArtistSimilarity(x.artists, y.artists)
           w == Weighted(x, y)
           g == ArtistGate(m)
<1>1. t \in 0..1000 /\ m \in 0..1000
  <2>1. t \in 0..1000
    BY SimilarityBounds DEF IsTrack
  <2> QED BY <2>1, ArtistsBounds
<1>2. w \in 0..1000 /\ (t < 600 => w < 850) /\ (m < 600 => w < 890)
  BY WeightedBounds
<1>3. g \in 0..1000
  BY <1>1, ArtistGateBounds
<1>4. m < 600 => g <= 921
  BY <1>1 DEF ArtistGate
<1>5. Gated(x, y) = (w * g) \div 1000
  BY DEF Gated
<1> HIDE DEF t, m, w, g
<1>6. w * g \in Nat /\ w * g <= 1000 * 1000
  BY <1>2, <1>3, ProductBounds
<1>7. t < 600 => w * g <= 849 * 1000
  BY <1>2, <1>3, ProductBounds
<1>8. m < 600 => w * g <= 889 * 921
  BY <1>2, <1>3, <1>4, ProductBounds
<1>9. /\ Gated(x, y) \in 0..1000
      /\ t < 600 => Gated(x, y) < 850
      /\ m < 600 => Gated(x, y) < 850
  <2> DEFINE z == w * g
  <2> HIDE DEF z
  <2>1. z \in Nat /\ z <= 1000 * 1000 /\ (t < 600 => z <= 849 * 1000)
        /\ (m < 600 => z <= 889 * 921)
    BY <1>6, <1>7, <1>8 DEF z
  <2>2. Gated(x, y) = z \div 1000
    BY <1>5 DEF z
  <2> QED BY <2>1, <2>2
<1>10. CASE Conflict(x, y)
  <2>1. (Gated(x, y) * 750) \div 1000 \in 0..750
    BY <1>9
  <2> QED BY <1>10, <2>1 DEF Score
<1>11. CASE ~ Conflict(x, y)
  BY <1>1, <1>9, <1>11 DEF Score, t, m
<1> QED BY <1>10, <1>11

-----------------------------------------------------------------------------
(* The search. *)

\* What is known of a search under way: where its scores come from, and which
\* queries are behind it.
SearchInv ==
  /\ SearchTypeOK
  /\ want \in Wanted
  /\ \A n \in DOMAIN scored :
       \/ Exact(scored[n].track)
       \/ scored[n].score = Score(want, scored[n].track)
  /\ verdict = "auto" => scored # <<>> /\ scored[1].score >= AutoAt
  /\ pc \notin {"decide", "done"} => scored = <<>> /\ verdict = "none"
  /\ pc = "freeform" => failed \/ "scoped" \in answered
  /\ pc = "score" => found # <<>>
  /\ pc = "decide" => scored # <<>> \/ failed \/ answered = {"scoped", "freeform"}
  /\ verdict = "no match" /\ scored = <<>> => answered = {"scoped", "freeform"}

LEMMA NoElements == \A S : <<>> \in Seq(S) /\ DOMAIN <<>> = {}
OBVIOUS

LEMMA SearchInitially == SearchInit => SearchInv
<1> SUFFICES ASSUME SearchInit PROVE SearchInv
  OBVIOUS
<1>1. SearchTypeOK
  BY NoElements DEF SearchInit, SearchTypeOK, Steps, Verdicts
<1>2. DOMAIN scored = {}
  BY NoElements DEF SearchInit
<1> QED BY <1>1, <1>2 DEF SearchInit, SearchInv

\* Rating the tracks of an answer gives tracks of the catalogue with scores.
LEMMA RatedScores ==
  ASSUME NEW items \in Seq(Catalogue), items # <<>>, want \in Wanted,
         NEW order \in [DOMAIN items -> DOMAIN items]
  PROVE  /\ Rated(items, order) \in Seq(Scored)
         /\ Rated(items, order) # <<>>
         /\ \A n \in DOMAIN Rated(items, order) :
              Rated(items, order)[n].score
                = Score(want, Rated(items, order)[n].track)
<1>1. DOMAIN items = 1..Len(items) /\ Len(items) \in Nat \ {0}
  OBVIOUS
<1>2. \A n \in DOMAIN items :
        [track |-> items[order[n]], score |-> Score(want, items[order[n]])] \in Scored
  <2> SUFFICES ASSUME NEW n \in DOMAIN items
               PROVE  /\ items[order[n]] \in Catalogue
                      /\ Score(want, items[order[n]]) \in 0..1000
    BY DEF Scored
  <2>1. items[order[n]] \in Catalogue
    OBVIOUS
  <2>2. IsTrack(want) /\ IsTrack(items[order[n]])
    BY <2>1, TracksOK
  <2> QED BY <2>1, <2>2, ScoreIsEvidence
<1>3. Rated(items, order) \in [1..Len(items) -> Scored]
  BY <1>1, <1>2 DEF Rated
<1>4. Rated(items, order) \in Seq(Scored) /\ DOMAIN Rated(items, order) = DOMAIN items
  BY <1>1, <1>3
<1> QED BY <1>1, <1>4 DEF Rated

\* An answer is a list of tracks, and a hit in it a result of its own.
LEMMA AnswerIsSeq ==
  ASSUME NEW items \in Answers PROVE items \in Seq(Catalogue)
<1>1. PICK n \in 0..MaxResults : items \in [1..n -> Catalogue]
  BY DEF Answers
<1> QED BY <1>1, SearchConstants

LEMMA OneScored ==
  ASSUME NEW c \in Catalogue
  PROVE  /\ ExactResult(c) \in Seq(Scored) /\ ExactResult(c) # <<>>
         /\ DOMAIN ExactResult(c) = {1} /\ ExactResult(c)[1].track = c
<1> DEFINE hit == [track |-> c, score |-> 1000]
<1>1. hit \in Scored /\ hit.track = c
  BY DEF Scored
<1>2. ExactResult(c) = <<hit>>
  BY DEF ExactResult
<1> HIDE DEF hit
<1>3. /\ <<hit>> \in Seq(Scored) /\ <<hit>> # <<>> /\ DOMAIN <<hit>> = {1}
      /\ <<hit>>[1] = hit
  BY <1>1
<1> QED BY <1>1, <1>2, <1>3

LEMMA LookUpOutcome ==
  ASSUME LookUpCode
  PROVE  /\ pc = "isrc" /\ want.isrc # NoCode
         /\ UNCHANGED <<want, answered, failed, found, verdict>>
         /\ \/ \E c \in Catalogue :
                 /\ c.isrc = want.isrc
                 /\ scored' = ExactResult(c)
                 /\ pc' = "decide" /\ lookup' = "hit"
            \/ pc' = "scoped" /\ lookup' = "miss" /\ UNCHANGED scored
<1>1. ASSUME NEW items \in Answers, NEW n \in Hits(items)
      PROVE  items[n] \in Catalogue /\ items[n].isrc = want.isrc
  BY AnswerIsSeq DEF Hits
<1>2. PICK items \in Answers :
        \/ /\ \E n \in Hits(items) : scored' = ExactResult(items[n])
           /\ pc' = "decide" /\ lookup' = "hit"
        \/ pc' = "scoped" /\ lookup' = "miss" /\ UNCHANGED scored
  BY DEF LookUpCode
<1>3. CASE \E n \in Hits(items) : scored' = ExactResult(items[n])
                                  /\ pc' = "decide" /\ lookup' = "hit"
  <2>1. PICK n \in Hits(items) : scored' = ExactResult(items[n])
    BY <1>3
  <2>2. items[n] \in Catalogue /\ items[n].isrc = want.isrc
    BY <1>1
  <2> QED BY <1>3, <2>1, <2>2 DEF LookUpCode
<1> QED BY <1>2, <1>3 DEF LookUpCode

LEMMA SearchStep == SearchInv /\ [SearchNext]_searchVars => SearchInv'
<1> SUFFICES ASSUME SearchInv, [SearchNext]_searchVars
             PROVE  SearchInv'
  OBVIOUS
<1> USE DEF SearchInv, SearchTypeOK, Steps, Verdicts, Exact
<1>1. ASSUME SkipLookup PROVE SearchInv'
  BY <1>1 DEF SkipLookup
<1>2. ASSUME LookUpCode PROVE SearchInv'
  <2>1. /\ pc = "isrc" /\ want.isrc # NoCode
        /\ UNCHANGED <<want, answered, failed, found, verdict>>
        /\ \/ \E c \in Catalogue :
                /\ c.isrc = want.isrc
                /\ scored' = ExactResult(c)
                /\ pc' = "decide" /\ lookup' = "hit"
           \/ pc' = "scoped" /\ lookup' = "miss" /\ UNCHANGED scored
    BY <1>2, LookUpOutcome
  <2>2. CASE pc' = "scoped" /\ lookup' = "miss" /\ UNCHANGED scored
    BY <2>1, <2>2
  <2>3. ASSUME NEW c \in Catalogue, c.isrc = want.isrc,
               scored' = ExactResult(c),
               pc' = "decide", lookup' = "hit"
        PROVE  SearchInv'
    <3>1. /\ scored' \in Seq(Scored) /\ scored' # <<>> /\ DOMAIN scored' = {1}
          /\ scored'[1].track = c
      BY <2>3, OneScored
    <3>2. \A k \in DOMAIN scored' : scored'[k].track = c
      BY <3>1
    <3> QED BY <2>1, <2>3, <3>1, <3>2
  <2> QED BY <2>1, <2>2, <2>3
<1>3. ASSUME LookUpFails PROVE SearchInv'
  BY <1>3 DEF LookUpFails
<1>4. ASSUME Refused PROVE SearchInv'
  BY <1>4 DEF Refused, Stop
<1>5. ASSUME Query PROVE SearchInv'
  <2> PICK items \in Answers : /\ found' = items
                               /\ pc' = IF items = <<>> THEN AfterQuery ELSE "score"
    BY <1>5 DEF Query
  <2>1. found' \in Seq(Catalogue)
    BY AnswerIsSeq
  <2> QED BY <1>5, <2>1 DEF Query, AfterQuery
<1>6. ASSUME QueryFails PROVE SearchInv'
  BY <1>6 DEF QueryFails, AfterQuery
<1>7. ASSUME ScoreFound PROVE SearchInv'
  <2> PICK order \in [DOMAIN found -> DOMAIN found] : scored' = Rated(found, order)
    BY <1>7 DEF ScoreFound
  <2>1. /\ scored' \in Seq(Scored) /\ scored' # <<>>
        /\ \A n \in DOMAIN scored' :
             scored'[n].score = Score(want, scored'[n].track)
    BY <1>7, RatedScores DEF ScoreFound
  <2> QED BY <1>7, <2>1 DEF ScoreFound
<1>8. ASSUME Decide PROVE SearchInv'
  <2>1. /\ Band \in {"no match", "auto", "review"}
        /\ Band = "auto" => scored # <<>> /\ scored[1].score >= AutoAt
    BY DEF Band
  <2>2. /\ pc = "decide" /\ pc' = "done"
        /\ UNCHANGED <<want, lookup, answered, failed, found, scored>>
        /\ verdict' = IF scored = <<>> /\ failed THEN "failed" ELSE Band
    BY <1>8 DEF Decide
  <2>3. SearchTypeOK'
    BY <2>1, <2>2
  <2> QED BY <2>1, <2>2, <2>3
<1>9. ASSUME UNCHANGED searchVars PROVE SearchInv'
  BY <1>9 DEF searchVars
<1> QED
  BY <1>1, <1>2, <1>3, <1>4, <1>5, <1>6, <1>7, <1>8, <1>9 DEF SearchNext

LEMMA SearchInvariant == SearchSpec => []SearchInv
BY SearchInitially, SearchStep, PTL DEF SearchSpec

\* The variables of a search hold what they are meant to hold; above all,
\* whatever Search returns is tracks of the catalogue with scores in [0, 1].
THEOREM SearchTypes == SearchSpec => []SearchTypeOK
<1>1. SearchInv => SearchTypeOK
  BY DEF SearchInv
<1> QED BY <1>1, SearchInvariant, PTL

\* A like is set down as unmatched, with nothing to show, only after both
\* queries were answered (engine.go: "we could not ask" is no verdict).
THEOREM UnmatchedWasAskedFor == SearchSpec => []UnmatchedWasAsked
<1>1. SearchInv => UnmatchedWasAsked
  BY DEF SearchInv, UnmatchedWasAsked
<1> QED BY <1>1, SearchInvariant, PTL

\* Whatever Spotify answers and however likeness is measured, a track added
\* unasked carries the code, or is alike and no conflicting version (score.go).
THEOREM AutomaticIsEvident == SearchSpec => []AutoIsEvident
<1>1. SearchInv => AutoIsEvident
  <2> SUFFICES ASSUME SearchInv, verdict = "auto", ~ Exact(scored[1].track)
               PROVE  LET t == scored[1].track IN
                        /\ ~ Conflict(want, t)
                        /\ Similarity(want.title, t.title) >= 600
                        /\ ArtistSimilarity(want.artists, t.artists) >= 600
    BY DEF AutoIsEvident
  <2>1. scored \in Seq(Scored) /\ scored # <<>>
    BY DEF SearchInv, SearchTypeOK
  <2>2. 1 \in DOMAIN scored /\ scored[1] \in Scored
    BY <2>1
  <2>3. scored[1].track \in Catalogue /\ scored[1].score \in 0..1000
    BY <2>2 DEF Scored
  <2>4. IsTrack(want) /\ IsTrack(scored[1].track)
    BY <2>3, TracksOK DEF SearchInv
  <2>5. Score(want, scored[1].track) >= 850
    <3>1. scored[1].score = Score(want, scored[1].track)
      BY <2>2 DEF SearchInv
    <3>2. scored[1].score >= AutoAt
      BY DEF SearchInv
    <3> QED BY <2>3, <3>1, <3>2, ThresholdsOK, SearchConstants
  <2> QED BY <2>4, <2>5, ScoreIsEvidence
<1> QED BY <1>1, SearchInvariant, PTL

-----------------------------------------------------------------------------
(* The order of the candidates.  What Search returns of an answer is the   *)
(* answer, rearranged: a position is never taken twice, as none precedes   *)
(* itself, and so none is left out.                                        *)
Sorts(items, order) ==
  /\ order \in [DOMAIN items -> DOMAIN items]
  /\ \A p \in DOMAIN items : \A q \in DOMAIN items :
       p < q => Precedes(items, order[p], order[q])

OrderInv ==
  /\ SearchInv
  /\ pc \in {"isrc", "scoped", "freeform"} => found = <<>>
  /\ found # <<>> /\ scored # <<>> =>
       \E order : Sorts(found, order) /\ scored = Rated(found, order)

LEMMA OrderInitially == SearchInit => OrderInv
BY SearchInitially DEF OrderInv, SearchInit

LEMMA OrderStep == OrderInv /\ [SearchNext]_searchVars => OrderInv'
<1> SUFFICES ASSUME OrderInv, [SearchNext]_searchVars
             PROVE  OrderInv'
  OBVIOUS
<1>1. SearchInv'
  BY SearchStep DEF OrderInv
<1>2. pc \notin {"decide", "done"} => scored = <<>>
  BY DEF OrderInv, SearchInv
<1>3. CASE SkipLookup \/ LookUpFails \/ Refused \/ QueryFails \/ Decide
           \/ UNCHANGED searchVars
  <2>1. UNCHANGED <<want, found, scored>> /\ (pc' = pc \/ found = <<>> \/ pc' = "done")
    BY <1>3 DEF OrderInv, SkipLookup, LookUpFails, Refused, Stop, QueryFails,
         Decide, searchVars
  <2>2. \A order : Sorts(found, order) /\ scored = Rated(found, order)
                   => Sorts(found, order)' /\ scored' = Rated(found, order)'
    BY <2>1 DEF Rated, Sorts, Precedes
  <2> QED BY <1>1, <2>1, <2>2 DEF OrderInv
<1>4. CASE LookUpCode
  BY <1>1, <1>4, LookUpOutcome DEF OrderInv
<1>5. CASE Query
  BY <1>1, <1>2, <1>5 DEF OrderInv, Query, AfterQuery
<1>6. CASE ScoreFound
  <2>1. PICK order : Sorts(found, order) /\ scored' = Rated(found, order)
    BY <1>6 DEF ScoreFound, Sorts
  <2>2. UNCHANGED <<want, found>> /\ pc' = "decide"
    BY <1>6 DEF ScoreFound
  <2>3. Sorts(found, order)' /\ scored' = Rated(found, order)'
    BY <2>1, <2>2 DEF Rated, Sorts, Precedes
  <2> QED BY <1>1, <2>2, <2>3 DEF OrderInv
<1> QED BY <1>3, <1>4, <1>5, <1>6 DEF SearchNext

\* The operator is shown what is most like the liked track, of all that
\* Spotify sent (spotify.go, sort.SliceStable; engine.go, topN).
THEOREM TheLikeliestAreQueued == SearchSpec => []QueueKeepsTheBest
<1>1. OrderInv => QueueKeepsTheBest
  <2> SUFFICES ASSUME OrderInv, found # <<>>, scored # <<>>
               PROVE  QueueKeepsTheBest
    BY DEF QueueKeepsTheBest
  <2> DEFINE N == Len(found)
  <2>1. PICK order : Sorts(found, order) /\ scored = Rated(found, order)
    BY DEF OrderInv
  <2>0. want \in Wanted /\ found \in Seq(Catalogue)
    BY DEF OrderInv, SearchInv, SearchTypeOK
  <2>2. N \in Nat /\ DOMAIN found = 1..N /\ \A p \in 1..N : found[p] \in Catalogue
    BY <2>0, LenProperties, ElementOfSeq
  <2>3. /\ order \in [1..N -> 1..N]
        /\ \A p \in 1..N : \A q \in 1..N :
             p < q => Precedes(found, order[p], order[q])
    BY <2>1, <2>2 DEF Sorts
  <2>4. /\ DOMAIN scored = 1..N
        /\ \A p \in 1..N : /\ scored[p].track = found[order[p]]
                            /\ scored[p].score = Score(want, found[order[p]])
    BY <2>1, <2>2, <2>3 DEF Rated, Sorts
  <2>5. \A p \in 1..N : Score(want, found[p]) \in 0..1000
    <3> TAKE p \in 1..N
    <3>1. IsTrack(want) /\ IsTrack(found[p])
      BY <2>0, <2>2, TracksOK
    <3> QED BY <3>1, ScoreIsEvidence
  <2> HIDE DEF N
  <2>6. \A p \in 1..N : ~ Precedes(found, p, p)
    <3> SUFFICES ASSUME NEW p \in 1..N, Precedes(found, p, p) PROVE FALSE
      OBVIOUS
    <3> DEFINE s == Score(want, found[p])
    <3>1. s \in 0..1000
      BY <2>5
    <3>2. s > s \/ p < p
      BY DEF Precedes
    <3> HIDE DEF s
    <3> QED BY <2>2, <3>1, <3>2
  <2>7. \A p \in 1..N : \A q \in 1..N : p # q => order[p] # order[q]
    <3> SUFFICES ASSUME NEW p \in 1..N, NEW q \in 1..N, p # q, order[p] = order[q]
                 PROVE  FALSE
      OBVIOUS
    <3>1. p < q \/ q < p
      BY <2>2
    <3>2. Precedes(found, order[p], order[q]) \/ Precedes(found, order[q], order[p])
      BY <2>3, <3>1
    <3>3. order[p] \in 1..N
      BY <2>3
    <3> QED BY <2>6, <3>2, <3>3
  <2>8. \A n \in 1..N : \E p \in 1..N : order[p] = n
    BY <2>2, <2>3, <2>7, OrderIsComplete
  <2>9. {scored[n].track : n \in DOMAIN scored} = {found[n] : n \in DOMAIN found}
    <3>1. \A n \in 1..N : \E p \in 1..N : scored[n].track = found[p]
      BY <2>3, <2>4
    <3>2. \A p \in 1..N : \E n \in 1..N : scored[n].track = found[p]
      BY <2>4, <2>8
    <3>3. {scored[n].track : n \in 1..N} = {found[n] : n \in 1..N}
      <4> DEFINE D == 1..N
                 T(n) == scored[n].track
                 F(n) == found[n]
      <4>1. (\A n \in D : \E p \in D : T(n) = F(p)) /\ \A p \in D : \E n \in D : T(n) = F(p)
        BY <3>1, <3>2
      <4> HIDE DEF D, T, F
      <4>2. {T(n) : n \in D} = {F(n) : n \in D}
        BY <4>1
      <4> QED BY <4>2 DEF D, T, F
    <3> QED BY <2>2, <2>4, <3>3, Zenon
  <2>10. ASSUME NEW n \in 1..N, NEW k \in 1..N, k <= TopN, found[n].id \notin Queued
         PROVE  scored[k].score >= Score(want, found[n])
    <3>1. PICK p \in 1..N : order[p] = n
      BY <2>8
    <3>2. ~ (p <= TopN)
      <4>1. scored[p].track.id = found[n].id
        BY <2>4, <3>1
      <4> QED BY <2>4, <2>10, <4>1 DEF Queued
    <3>3. k < p
      BY <2>2, <2>10, <3>2, SearchConstants
    <3>4. Precedes(found, order[k], n)
      BY <2>3, <3>1, <3>3
    <3> DEFINE s == Score(want, found[order[k]])
               r == Score(want, found[n])
    <3>5. scored[k].score = s /\ s \in 0..1000 /\ r \in 0..1000
      <4>1. order[k] \in 1..N
        BY <2>3
      <4>2. s \in 0..1000 /\ r \in 0..1000
        BY <2>5, <4>1
      <4> QED BY <2>4, <4>2, Zenon
    <3>6. s > r \/ s = r
      BY <3>4 DEF Precedes
    <3> HIDE DEF s, r
    <3>7. s >= r
      BY <3>5, <3>6
    <3> QED BY <3>5, <3>7 DEF r
  <2> QED BY <2>2, <2>4, <2>9, <2>10 DEF QueueKeepsTheBest
<1> QED BY <1>1, OrderInitially, OrderStep, PTL DEF SearchSpec

-----------------------------------------------------------------------------
(* The version of a title. *)
LEMMA MaxOf ==
  ASSUME NEW n \in Nat, NEW T, T \subseteq 0..n
  PROVE  /\ T # {} => Max(T) \in T /\ \A y \in T : y <= Max(T)
         /\ \A x \in T : (\A y \in T : y <= x) => Max(T) = x
<1>1. T # {} => Max(T) \in T /\ \A y \in T : y <= Max(T)
  <2> SUFFICES ASSUME T # {} PROVE Max(T) \in T /\ \A y \in T : y <= Max(T)
    OBVIOUS
  <2>1. \E x \in T : \A y \in T : x >= y
    BY GreatestNumber
  <2> QED BY <2>1 DEF Max
<1>2. ASSUME NEW x \in T, \A y \in T : y <= x PROVE Max(T) = x
  <2>1. Max(T) \in T /\ x <= Max(T) /\ Max(T) <= x
    BY <1>1, <1>2
  <2> DEFINE m == Max(T)
  <2>2. m \in T /\ x \in T /\ m <= x /\ x <= m
    BY <2>1
  <2> HIDE DEF m
  <2>3. m = x
    BY <2>2
  <2> QED BY <2>3 DEF m
<1> QED BY <1>1, <1>2

LEMMA MinOf ==
  ASSUME NEW n \in Nat, NEW T, T \subseteq 0..n
  PROVE  /\ T # {} => Min(T) \in T /\ \A y \in T : Min(T) <= y
         /\ \A x \in T : (\A y \in T : x <= y) => Min(T) = x
<1>1. T # {} => Min(T) \in T /\ \A y \in T : Min(T) <= y
  <2> SUFFICES ASSUME T # {} PROVE Min(T) \in T /\ \A y \in T : Min(T) <= y
    OBVIOUS
  <2>1. \E x \in T : \A y \in T : x <= y
    <3>1. T \subseteq Nat
      OBVIOUS
    <3> QED BY <3>1, LeastNumber
  <2> QED BY <2>1 DEF Min
<1>2. ASSUME NEW x \in T, \A y \in T : x <= y PROVE Min(T) = x
  <2>1. Min(T) \in T /\ x <= Min(T) /\ Min(T) <= x
    BY <1>1, <1>2
  <2> DEFINE m == Min(T)
  <2>2. m \in T /\ x \in T /\ m <= x /\ x <= m
    BY <2>1
  <2> HIDE DEF m
  <2>3. m = x
    BY <2>2
  <2> QED BY <2>3 DEF m
<1> QED BY <1>1, <1>2

LEMMA TextTypes ==
  ASSUME NEW t \in Texts
  PROVE  /\ Len(t) \in Nat /\ DOMAIN t = 1..Len(t)
         /\ \A n \in 1..Len(t) : t[n] \in Seq(Vocabulary)
<1>1. PICK n \in 1..MaxDescs : t \in [1..n -> Descriptors]
  BY DEF Texts
<1>2. \A w \in Descriptors : w \in Seq(Vocabulary)
  BY ParseConstants DEF Descriptors
<1>3. Len(t) = n /\ n \in Nat
  BY <1>1, ParseConstants
<1> QED BY <1>1, <1>2, <1>3

\* No keyword stands for a remix: only a marker does.
LEMMA MarkersDecide ==
  ASSUME NEW words \in Seq(Vocabulary)
  PROVE  ClassifyVersion(words).kind = "remix" <=> IsRemix(words)
<1> DEFINE markers == {n \in 1..Len(words) : words[n] \in RemixMarkers}
           hits == {k \in DOMAIN Keywords : Matches(words, k)}
<1>1. IsRemix(words) <=> markers # {}
  BY LenProperties DEF IsRemix
<1>2. DOMAIN Keywords = 1..7 /\ \A k \in 1..7 : Keywords[k][1] # "remix"
  BY DEF Keywords
<1>3. hits # {} => Min(hits) \in 1..7
  <2>1. hits \subseteq 0..7 /\ \A k \in hits : k \in 1..7
    BY <1>2
  <2> HIDE DEF hits
  <2>2. hits # {} => Min(hits) \in hits
    BY <2>1, MinOf
  <2> QED BY <2>1, <2>2
<1> HIDE DEF hits
<1>4. CASE markers # {}
  BY <1>1, <1>4 DEF ClassifyVersion, Version
<1>5. CASE markers = {} /\ hits # {}
  BY <1>1, <1>2, <1>3, <1>5 DEF ClassifyVersion, Version, hits
<1>6. CASE markers = {} /\ hits = {}
  BY <1>1, <1>6 DEF ClassifyVersion, Version, Unknown, hits
<1> QED BY <1>4, <1>5, <1>6

ParseInv ==
  /\ text \in Texts /\ read \in 0..Len(text)
  /\ RemixDecides

LEMMA ParseInitially == ParseInit => ParseInv
BY TextTypes DEF ParseInit, ParseInv, RemixDecides

\* The descriptor that is considered next, and what is known of it.
LEMMA ParseStep == ParseInv /\ [Consider]_parseVars => ParseInv'
<1> SUFFICES ASSUME ParseInv, [Consider]_parseVars PROVE ParseInv'
  OBVIOUS
<1> DEFINE Remix(n) == {k \in 1..n : IsRemix(text[k])}
           Says(n) == {k \in 1..n : ClassifyVersion(text[k]).kind # "unknown"}
           Class(k) == ClassifyVersion(text[k])
           Decides(n, v) ==
             /\ Remix(n) # {} => v.kind = "remix" /\ v = Class(Max(Remix(n)))
             /\ Remix(n) = {} /\ Says(n) # {} => v = Class(Min(Says(n)))
             /\ Says(n) = {} => v = Unknown
<1>1. RemixDecides = Decides(read, version)
  BY DEF RemixDecides
<1>2. CASE UNCHANGED parseVars
  BY <1>2 DEF parseVars, ParseInv, RemixDecides
<1>3. CASE Consider
  <2> DEFINE n == read + 1
             w == Class(n)
  <2>1. /\ text' = text /\ read' = n /\ version' = Prefer(version, w)
        /\ read \in Nat /\ read < Len(text) /\ text \in Texts
    BY <1>3, TextTypes DEF Consider, ParseInv
  <2>2. n \in 1..Len(text) /\ n \in Nat /\ n \in 0..Len(text)
    BY <2>1, TextTypes
  <2>3. \A k \in 1..n : Class(k).kind = "remix" <=> IsRemix(text[k])
    BY <2>1, <2>2, TextTypes, MarkersDecide
  <2>4. /\ Remix(read) \subseteq 0..read /\ Says(read) \subseteq 0..read
        /\ Remix(n) = Remix(read) \cup (IF IsRemix(text[n]) THEN {n} ELSE {})
        /\ Says(n) = Says(read) \cup (IF w.kind # "unknown" THEN {n} ELSE {})
    BY <2>1
  <2>5. Decides(read, version)
    BY <1>1 DEF ParseInv
  <2>6. \A k \in 1..n : k \in Remix(n) => k \in Says(n)
    BY <2>3
  <2> HIDE DEF Remix, Says
  <2>7. Decides(n, version')
    <3>1. CASE IsRemix(text[n])
      <4>1. w.kind = "remix" /\ version' = w
        BY <2>1, <2>2, <2>3, <3>1 DEF Prefer
      <4>2. Max(Remix(n)) = n
        <5>1. Remix(n) \subseteq 0..n /\ n \in Remix(n) /\ \A y \in Remix(n) : y <= n
          BY <2>1, <2>4, <3>1
        <5> QED BY <2>2, <5>1, MaxOf
      <4>3. Remix(n) # {} /\ Says(n) # {}
        BY <2>4, <3>1, <4>1
      <4> QED BY <4>1, <4>2, <4>3
    <3>2. CASE ~ IsRemix(text[n]) /\ w.kind = "unknown"
      <4>1. version' = version /\ Remix(n) = Remix(read) /\ Says(n) = Says(read)
        BY <2>1, <2>4, <3>2 DEF Prefer
      <4> QED BY <2>5, <4>1
    <3>3. CASE ~ IsRemix(text[n]) /\ w.kind # "unknown"
      <4>1. /\ Remix(n) = Remix(read) /\ Says(n) = Says(read) \cup {n} /\ w.kind # "remix"
            /\ version' = IF version.kind = "unknown" THEN w ELSE version
        <5>1. n \in 1..n /\ Class(n).kind # "remix"
          BY <2>2, <2>3, <3>3
        <5>2. version' = IF version.kind = "unknown" THEN w ELSE version
          BY <2>1, <3>3, <5>1 DEF Prefer
        <5> QED BY <2>4, <3>3, <5>1, <5>2
      <4>2. CASE Remix(read) # {}
        BY <2>5, <4>1, <4>2
      <4>3. CASE Remix(read) = {} /\ Says(read) # {}
        <5> DEFINE m == Min(Says(read))
        <5>1. m \in Says(read) /\ \A y \in Says(read) : m <= y
          BY <2>1, <2>4, <4>3, MinOf
        <5>2. version = Class(m) /\ version.kind # "unknown"
          BY <2>5, <4>3, <5>1 DEF Says
        <5>3. Min(Says(n)) = m
          <6>1. /\ Says(n) \subseteq 0..n /\ m \in Says(n)
                /\ \A y \in Says(n) : m <= y
            BY <2>1, <2>4, <4>1, <5>1
          <6> QED BY <2>2, <6>1, MinOf
        <5> QED BY <4>1, <4>3, <5>2, <5>3
      <4>4. CASE Remix(read) = {} /\ Says(read) = {}
        <5>1. version' = w
          BY <2>5, <4>1, <4>4 DEF Unknown, Version
        <5>2. Min(Says(n)) = n
          BY <2>2, <4>1, <4>4, MinOf
        <5> QED BY <4>1, <4>4, <5>1, <5>2
      <4> QED BY <4>2, <4>3, <4>4
    <3> QED BY <3>1, <3>2, <3>3
  <2>8. RemixDecides' = Decides(n, version')
    BY <2>1 DEF RemixDecides, Remix, Says
  <2> QED BY <2>1, <2>2, <2>7, <2>8 DEF ParseInv
<1> QED BY <1>2, <1>3

\* Whatever a title's descriptors are, a remix descriptor among them decides,
\* and else the first that says anything (normalize.go, Parse).
THEOREM RemixesAreRemixes == ParseSpec => []RemixDecides
<1>1. ParseInv => RemixDecides
  BY DEF ParseInv
<1> QED BY <1>1, ParseInitially, ParseStep, PTL DEF ParseSpec

\* The words of a prefix that name the remixer, and where the last one stands.
Naming(p) == {n \in 1..Len(p) : p[n] \notin Modifiers \cup RemixMarkers}
Cut(p) == IF Naming(p) = {} THEN 0 ELSE Max(Naming(p))

LEMMA CutIs ==
  ASSUME NEW W, NEW p \in Seq(W)
  PROVE  /\ Cut(p) \in 0..Len(p)
         /\ RemixerName(p) = SubSeq(p, 1, Cut(p))
         /\ Cut(p) > 0 => Cut(p) \in Naming(p)
         /\ \A n \in Naming(p) : n <= Cut(p)
<1>1. Len(p) \in Nat /\ Naming(p) \subseteq 0..Len(p)
  BY LenProperties DEF Naming
<1>2. RemixerName(p) = IF Naming(p) = {} THEN <<>> ELSE SubSeq(p, 1, Max(Naming(p)))
  BY DEF RemixerName, Naming
<1>3. CASE Naming(p) = {}
  <2>1. SubSeq(p, 1, 0) = <<>>
    BY SubSeqEmpty
  <2> QED BY <1>1, <1>2, <1>3, <2>1 DEF Cut
<1>4. CASE Naming(p) # {}
  <2>1. Max(Naming(p)) \in Naming(p) /\ \A n \in Naming(p) : n <= Max(Naming(p))
    BY <1>1, <1>4, MaxOf
  <2> QED BY <1>1, <1>2, <1>4, <2>1 DEF Cut
<1> QED BY <1>3, <1>4

\* Two prefixes name one remixer if and only if they agree up to their cuts.
LEMMA NamesAreTold ==
  ASSUME NEW W, NEW p \in Seq(W), NEW q \in Seq(W)
  PROVE  RemixerName(p) = RemixerName(q) <=> SameButForTheCut(p, q)
<1> DEFINE c == Cut(p)
           d == Cut(q)
<1>1. /\ Len(p) \in Nat /\ Len(q) \in Nat /\ c \in 0..Len(p) /\ d \in 0..Len(q)
      /\ RemixerName(p) = SubSeq(p, 1, c) /\ RemixerName(q) = SubSeq(q, 1, d)
  BY CutIs, LenProperties
<1>2. /\ c > 0 => c \in Naming(p)
      /\ d > 0 => d \in Naming(q)
      /\ \A n \in Naming(p) : n <= c
      /\ \A n \in Naming(q) : n <= d
  BY CutIs
<1> HIDE DEF c, d
<1>3. ASSUME RemixerName(p) = RemixerName(q) PROVE SameButForTheCut(p, q)
  <2>1. SubSeq(p, 1, c) = SubSeq(q, 1, d)
    BY <1>1, <1>3
  <2>2. c = d
    BY <1>1, <2>1, Beginning
  <2>3. /\ \A k \in (c + 1)..Len(p) : p[k] \in Modifiers \cup RemixMarkers
        /\ \A k \in (c + 1)..Len(q) : q[k] \in Modifiers \cup RemixMarkers
    BY <1>1, <1>2, <2>2 DEF Naming
  <2> QED BY <1>1, <2>1, <2>2, <2>3 DEF SameButForTheCut
<1>4. ASSUME SameButForTheCut(p, q) PROVE RemixerName(p) = RemixerName(q)
  <2>1. PICK n \in 0..Len(p) :
          /\ n <= Len(q) /\ SubSeq(p, 1, n) = SubSeq(q, 1, n)
          /\ \A k \in (n + 1)..Len(p) : p[k] \in Modifiers \cup RemixMarkers
          /\ \A k \in (n + 1)..Len(q) : q[k] \in Modifiers \cup RemixMarkers
    BY <1>4 DEF SameButForTheCut
  <2>2. n \in 0..Len(q) /\ n \in Nat
    BY <1>1, <2>1
  <2>3. \A k \in 1..n : p[k] = q[k]
    BY <2>1, <2>2, Beginning
  <2>4. c <= n /\ d <= n
    BY <1>1, <1>2, <2>1, <2>2 DEF Naming
  <2>5. \A k \in 1..n : k \in Naming(p) <=> k \in Naming(q)
    BY <1>1, <2>2, <2>3 DEF Naming
  <2>6. c = d
    BY <1>1, <1>2, <2>2, <2>4, <2>5
  <2>7. /\ SubSeq(p, 1, c) \in Seq(W) /\ Len(SubSeq(p, 1, c)) = c
        /\ \A k \in 1..c : SubSeq(p, 1, c)[k] = p[k]
    BY <1>1, Beginning
  <2>8. /\ SubSeq(q, 1, c) \in Seq(W) /\ Len(SubSeq(q, 1, c)) = c
        /\ \A k \in 1..c : SubSeq(q, 1, c)[k] = q[k]
    BY <1>1, <2>6, Beginning
  <2>9. \A k \in 1..c : SubSeq(p, 1, c)[k] = SubSeq(q, 1, c)[k]
    BY <1>1, <2>2, <2>3, <2>4, <2>7, <2>8
  <2>10. SubSeq(p, 1, c) = SubSeq(q, 1, c)
    BY <2>7, <2>8, <2>9, SeqEqual
  <2> QED BY <1>1, <2>6, <2>10
<1> QED BY <1>3, <1>4

LEMMA RemixerOf ==
  ASSUME NEW words \in Seq(Vocabulary), IsRemix(words)
  PROVE  /\ Before(words) \in Seq(Vocabulary)
         /\ ClassifyVersion(words).remixer = RemixerName(Before(words))
<1> DEFINE markers == {n \in 1..Len(words) : words[n] \in RemixMarkers}
<1>1. /\ Len(words) \in Nat /\ DOMAIN words = 1..Len(words)
      /\ markers # {} /\ markers \subseteq 0..Len(words)
  BY LenProperties DEF IsRemix
<1>2. Before(words) = SubSeq(words, 1, Max(markers) - 1)
  BY <1>1 DEF Before
<1>3. ClassifyVersion(words).remixer = RemixerName(SubSeq(words, 1, Max(markers) - 1))
  BY <1>1 DEF ClassifyVersion, Version
<1>4. Max(markers) \in 1..Len(words)
  <2>1. Max(markers) \in markers
    BY <1>1, MaxOf
  <2> QED BY <2>1
<1> HIDE DEF markers
<1>5. Max(markers) - 1 \in 0..Len(words)
  BY <1>1, <1>4
<1> QED BY <1>2, <1>3, <1>5, Beginning

\* Two remixes of a title have one remixer if and only if their descriptors
\* agree in front of the markers, up to how the remix was cut (normalize.go,
\* remixerName).
THEOREM RemixersDiffer == ParseSpec => []RemixersAreTold
<1>1. ParseInv => RemixersAreTold
  <2> SUFFICES ASSUME ParseInv, NEW m \in 1..read, NEW n \in 1..read,
                      IsRemix(text[m]), IsRemix(text[n])
               PROVE  ClassifyVersion(text[m]).remixer = ClassifyVersion(text[n]).remixer
                        <=> SameButForTheCut(Before(text[m]), Before(text[n]))
    BY DEF RemixersAreTold
  <2>1. text[m] \in Seq(Vocabulary) /\ text[n] \in Seq(Vocabulary)
    BY TextTypes DEF ParseInv
  <2> QED BY <2>1, RemixerOf, NamesAreTold
<1> QED BY <1>1, ParseInitially, ParseStep, PTL DEF ParseSpec

-----------------------------------------------------------------------------
(* levenshtein and ratio. *)

Larger(m, n) == IF m >= n THEN m ELSE n

\* A cell for the first m runes of a and the first n of b: at most as many
\* edits as the longer beginning has runes, and none only if they are equal.
CellOK(v, m, n) ==
  /\ v \in Nat /\ v <= Larger(m, n)
  /\ v = 0 => m = n /\ \A k \in 1..n : a[k] = b[k]

LevInv ==
  /\ a \in Strings /\ b \in Strings
  /\ Len(a) \in Nat /\ Len(b) \in Nat /\ Len(b) <= Len(a) /\ a # b
  /\ i \in 1..(Len(a) + 1) /\ j \in 1..(Len(b) + 1)
  /\ prev \in [0..Len(b) -> Nat] /\ curr \in [0..Len(b) -> Nat]
  /\ \A k \in 0..Len(b) : CellOK(prev[k], i - 1, k)
  /\ \A k \in 0..(j - 1) : CellOK(curr[k], i, k)
  /\ dist # NoDist => CellOK(dist, Len(a), Len(b))

LEMMA StringLen ==
  ASSUME NEW s \in Strings
  PROVE  Len(s) \in Nat /\ s \in [1..Len(s) -> Runes]
<1>1. PICK n \in 0..MaxLen : s \in [1..n -> Runes]
  BY DEF Strings
<1>2. n \in Nat
  BY MaxLenOK
<1> QED BY <1>1, <1>2

LEMMA LevInitially == LevInit => LevInv
<1> SUFFICES ASSUME LevInit PROVE LevInv
  OBVIOUS
<1>1. Len(a) \in Nat /\ Len(b) \in Nat
  BY StringLen DEF LevInit
<1>2. \A k \in 0..Len(b) : CellOK(prev[k], i - 1, k)
  BY <1>1 DEF LevInit, CellOK, Larger
<1>3. \A k \in 0..(j - 1) : CellOK(curr[k], i, k)
  BY <1>1 DEF LevInit, CellOK, Larger
<1> QED BY <1>1, <1>2, <1>3 DEF LevInit, LevInv

\* A cell made from its three neighbours.
LEMMA CellStep ==
  ASSUME LevInv, i <= Len(a), j <= Len(b)
  PROVE  CellOK(Cell, i, j)
<1> DEFINE l == curr[j - 1]
           u == prev[j]
           d == prev[j - 1]
           cost == IF a[i] = b[j] THEN 0 ELSE 1
<1>1. i \in Nat \ {0} /\ j \in Nat \ {0}
  BY DEF LevInv
<1>2. CellOK(l, i, j - 1) /\ CellOK(u, i - 1, j) /\ CellOK(d, i - 1, j - 1)
  BY <1>1 DEF LevInv
<1>3. l \in Nat /\ u \in Nat /\ d \in Nat /\ d <= Larger(i - 1, j - 1)
  BY <1>2 DEF CellOK
<1>4. Cell = Least(l + 1, u + 1, d + cost)
  BY DEF Cell
<1> HIDE DEF l, u, d, cost
<1>5. cost \in {0, 1} /\ (cost = 0 => a[i] = b[j])
  BY DEF cost
<1>6. Cell \in Nat /\ Cell <= d + cost
      /\ (Cell = 0 => d = 0 /\ cost = 0)
  BY <1>3, <1>4, <1>5 DEF Least
<1>7. d + cost <= Larger(i, j)
  BY <1>1, <1>3, <1>5 DEF Larger
<1>8. Cell = 0 => i = j /\ \A k \in 1..j : a[k] = b[k]
  <2> SUFFICES ASSUME Cell = 0 PROVE i = j /\ \A k \in 1..j : a[k] = b[k]
    OBVIOUS
  <2>1. i - 1 = j - 1 /\ \A k \in 1..(j - 1) : a[k] = b[k]
    BY <1>2, <1>6 DEF CellOK
  <2>2. a[i] = b[j]
    BY <1>5, <1>6
  <2> QED BY <1>1, <2>1, <2>2
<1> QED BY <1>1, <1>3, <1>5, <1>6, <1>7, <1>8 DEF CellOK, Larger

LEMMA LevStep == LevInv /\ [LevNext]_levVars => LevInv'
<1> SUFFICES ASSUME LevInv, [LevNext]_levVars PROVE LevInv'
  OBVIOUS
<1>0. Len(a) \in Nat /\ Len(b) \in Nat /\ i \in Nat \ {0} /\ j \in Nat \ {0}
  BY DEF LevInv
<1>1. ASSUME FillCell PROVE LevInv'
  <2>1. CellOK(Cell, i, j)
    BY <1>1, CellStep DEF FillCell
  <2>2. /\ i <= Len(a) /\ j <= Len(b) /\ j' = j + 1
        /\ curr' = [curr EXCEPT ![j] = Cell]
        /\ UNCHANGED <<a, b, i, prev, dist>>
    BY <1>1 DEF FillCell
  <2>3. curr' \in [0..Len(b) -> Nat]
    BY <2>1, <2>2 DEF LevInv, CellOK
  <2>4. \A k \in 0..j : CellOK(curr'[k], i, k)
    BY <1>0, <2>1, <2>2 DEF LevInv
  <2> QED BY <1>0, <2>2, <2>3, <2>4 DEF LevInv, CellOK
<1>2. ASSUME NextRow PROVE LevInv'
  <2>1. /\ i <= Len(a) /\ j > Len(b) /\ i' = i + 1 /\ j' = 1
        /\ prev' = curr /\ curr' = [prev EXCEPT ![0] = i + 1]
        /\ UNCHANGED <<a, b, dist>>
    BY <1>2 DEF NextRow
  <2>2. j = Len(b) + 1
    BY <1>0, <2>1 DEF LevInv
  <2>3. \A k \in 0..Len(b) : CellOK(prev'[k], i' - 1, k)
    BY <1>0, <2>1, <2>2 DEF LevInv
  <2>4. curr' \in [0..Len(b) -> Nat] /\ curr'[0] = i + 1
    BY <1>0, <2>1 DEF LevInv
  <2>5. CellOK(i + 1, i + 1, 0)
    BY <1>0 DEF CellOK, Larger
  <2>6. \A k \in 0..(j' - 1) : CellOK(curr'[k], i', k)
    BY <2>1, <2>4, <2>5
  <2> QED BY <1>0, <2>1, <2>3, <2>4, <2>6 DEF LevInv, CellOK
<1>3. ASSUME Return PROVE LevInv'
  <2>1. /\ i > Len(a) /\ dist' = prev[Len(b)]
        /\ UNCHANGED <<a, b, i, j, prev, curr>>
    BY <1>3 DEF Return
  <2>2. CellOK(prev[Len(b)], Len(a), Len(b))
    BY <1>0, <2>1 DEF LevInv
  <2> QED BY <2>1, <2>2 DEF LevInv, CellOK
<1>4. ASSUME UNCHANGED levVars PROVE LevInv'
  BY <1>4 DEF LevInv, CellOK, levVars
<1> QED BY <1>1, <1>2, <1>3, <1>4 DEF LevNext

LEMMA LevInvariant == LevSpec => []LevInv
BY LevInitially, LevStep, PTL DEF LevSpec

\* What is left of n runes, in thousandths of them.
Share(n, d) == ((n - d) * 1000) \div n

LEMMA ShareBounds ==
  ASSUME NEW n \in Nat \ {0}, NEW d \in 1..n
  PROVE  Share(n, d) \in 0..999
<1> DEFINE q == ((n - d) * 1000) \div n
<1>1. q * n <= (n - d) * 1000 /\ (n - d) * 1000 >= 0 /\ q \in Nat
      /\ (n - d) * 1000 < (q + 1) * n
  OBVIOUS
<1> QED BY <1>1 DEF Share

\* Whatever the strings: ratio lies in [0, 1), and reaches 1 for no strings
\* that differ (score.go, ratio: "clear the auto-add bar on no evidence").
THEOREM RatioIsSimilarity == LevSpec => []RatioIsASimilarity
<1>1. LevInv => RatioIsASimilarity
  <2> SUFFICES ASSUME LevInv, dist # NoDist
               PROVE  dist \in 1..Len(a) /\ Ratio(dist) \in 0..999
    BY DEF RatioIsASimilarity
  <2>1. CellOK(dist, Len(a), Len(b)) /\ Len(a) \in Nat /\ Len(b) \in Nat
        /\ Len(b) <= Len(a) /\ a \in Strings /\ b \in Strings /\ a # b
    BY DEF LevInv
  <2>2. dist \in Nat /\ dist <= Len(a)
    BY <2>1 DEF CellOK, Larger
  <2>3. dist # 0
    <3> SUFFICES ASSUME dist = 0 PROVE FALSE
      OBVIOUS
    <3>1. Len(a) = Len(b) /\ \A k \in 1..Len(b) : a[k] = b[k]
      BY <2>1 DEF CellOK
    <3>2. a \in [1..Len(a) -> Runes] /\ b \in [1..Len(b) -> Runes]
      BY <2>1, StringLen
    <3>3. a = b
      BY <3>1, <3>2
    <3> QED BY <2>1, <3>3
  <2>4. Len(a) \in Nat \ {0} /\ dist \in 1..Len(a)
    BY <2>1, <2>2, <2>3
  <2>5. Share(Len(a), dist) \in 0..999
    BY <2>4, ShareBounds
  <2> QED BY <2>4, <2>5 DEF Ratio, Share
<1> QED BY <1>1, LevInvariant, PTL

-----------------------------------------------------------------------------
\* The edits between the first m runes of x and the first n of y, by what is
\* kept of either.
Pairs(m, n) == {p \in (SUBSET (1..m)) \X (SUBSET (1..n)) :
                  Cardinality(p[1]) = Cardinality(p[2])}
Replaced(x, y, S, T) == {n \in 1..Cardinality(S) : x[Nth(S, n)] # y[Nth(T, n)]}
PrefixEdits(x, y, m, n, S, T) ==
  m + n - 2 * Cardinality(S) + Cardinality(Replaced(x, y, S, T))
IsPrefixDistance(x, y, d, m, n) ==
  /\ \E p \in Pairs(m, n) : PrefixEdits(x, y, m, n, p[1], p[2]) = d
  /\ \A p \in Pairs(m, n) : PrefixEdits(x, y, m, n, p[1], p[2]) >= d

LEMMA PairsAre ==
  ASSUME NEW m, NEW n, NEW p \in Pairs(m, n)
  PROVE  /\ p[1] \subseteq 1..m /\ p[2] \subseteq 1..n
         /\ Cardinality(p[1]) = Cardinality(p[2])
  BY DEF Pairs

LEMMA PairOf ==
  ASSUME NEW m, NEW n, NEW S, S \subseteq 1..m, NEW T, T \subseteq 1..n,
         Cardinality(S) = Cardinality(T)
  PROVE  <<S, T>> \in Pairs(m, n)
  BY DEF Pairs

LEMMA EditsType ==
  ASSUME NEW m \in Nat, NEW n \in Nat, NEW S, S \subseteq 1..m, NEW x, NEW y, NEW T
  PROVE  /\ Cardinality(S) \in Nat
         /\ IsFiniteSet(Replaced(x, y, S, T))
         /\ Cardinality(Replaced(x, y, S, T)) \in Nat
         /\ PrefixEdits(x, y, m, n, S, T) \in Int
  <1>1. Cardinality(S) \in Nat
    BY PositionsAreFinite
  <1>2. IsFiniteSet(1..Cardinality(S))
    BY <1>1, FS_Interval
  <1>3. Replaced(x, y, S, T) \subseteq 1..Cardinality(S)
    BY DEF Replaced
  <1>4. IsFiniteSet(Replaced(x, y, S, T)) /\ Cardinality(Replaced(x, y, S, T)) \in Nat
    BY <1>2, <1>3, FS_Subset, FS_CardinalityType
  <1>5. QED BY <1>1, <1>4 DEF PrefixEdits

\* A rune more of either string that is not kept is one edit more.
LEMMA NotKept ==
  ASSUME NEW m \in Nat, NEW n \in Nat, NEW S, S \subseteq 1..m, NEW x, NEW y, NEW T
  PROVE  /\ PrefixEdits(x, y, m + 1, n, S, T) = PrefixEdits(x, y, m, n, S, T) + 1
         /\ PrefixEdits(x, y, m, n + 1, S, T) = PrefixEdits(x, y, m, n, S, T) + 1
  <1>1. Cardinality(S) \in Nat /\ Cardinality(Replaced(x, y, S, T)) \in Nat
    BY EditsType
  <1>2. QED BY <1>1 DEF PrefixEdits

\* Two runes more that are kept as one another cost what their difference does.
LEMMA BothKept ==
  ASSUME NEW m \in Nat \ {0}, NEW n \in Nat \ {0}, NEW x, NEW y,
         NEW S, S \subseteq 1..(m - 1), NEW T, T \subseteq 1..(n - 1),
         Cardinality(S) = Cardinality(T)
  PROVE  /\ <<S \cup {m}, T \cup {n}>> \in Pairs(m, n)
         /\ PrefixEdits(x, y, m, n, S \cup {m}, T \cup {n})
              = PrefixEdits(x, y, m - 1, n - 1, S, T) + IF x[m] = y[n] THEN 0 ELSE 1
  <1> DEFINE c == Cardinality(S)
             S2 == S \cup {m}
             T2 == T \cup {n}
             old == Replaced(x, y, S, T)
             new == Replaced(x, y, S2, T2)
  <1>1. /\ Cardinality(S2) = c + 1 /\ Cardinality(T2) = c + 1
        /\ Nth(S2, c + 1) = m /\ Nth(T2, c + 1) = n
        /\ \A k \in 1..c : Nth(S2, k) = Nth(S, k) /\ Nth(T2, k) = Nth(T, k)
    <2>1. /\ Cardinality(S2) = c + 1 /\ Nth(S2, c + 1) = m
          /\ \A k \in 1..c : Nth(S2, k) = Nth(S, k)
      BY NthOfMore
    <2>2. /\ Cardinality(T2) = Cardinality(T) + 1 /\ Nth(T2, Cardinality(T) + 1) = n
          /\ \A k \in 1..Cardinality(T) : Nth(T2, k) = Nth(T, k)
      BY NthOfMore
    <2>3. Cardinality(T) = c
      OBVIOUS
    <2> HIDE DEF c, S2, T2
    <2>4. QED BY <2>1, <2>2, <2>3
  <1>2. m - 1 \in Nat /\ n - 1 \in Nat
    OBVIOUS
  <1>3. c \in Nat /\ IsFiniteSet(old) /\ Cardinality(old) \in Nat
    BY <1>2, EditsType
  <1>4. <<S2, T2>> \in Pairs(m, n)
    <2>1. S2 \subseteq 1..m /\ T2 \subseteq 1..n
      OBVIOUS
    <2> HIDE DEF S2, T2
    <2>2. QED BY <2>1, <1>1, PairOf
  <1>5. old = {k \in 1..c : x[Nth(S, k)] # y[Nth(T, k)]}
    BY DEF Replaced
  <1>6. new = {k \in 1..(c + 1) : x[Nth(S2, k)] # y[Nth(T2, k)]}
    BY <1>1 DEF Replaced
  <1> HIDE DEF S2, T2, old, new, c
  <1>7. new = IF x[m] = y[n] THEN old ELSE old \cup {c + 1}
    <2>1. \A k : k \in 1..(c + 1) <=> k \in 1..c \/ k = c + 1
      BY <1>3
    <2>2. \A k \in 1..c : x[Nth(S2, k)] # y[Nth(T2, k)] <=> x[Nth(S, k)] # y[Nth(T, k)]
      BY <1>1
    <2>3. c + 1 \notin 1..c
      BY <1>3
    <2>4. \A k : k \in new <=> k \in old \/ (k = c + 1 /\ x[m] # y[n])
      BY <2>1, <2>2, <1>1, <1>5, <1>6
    <2>5. QED BY <2>4
  <1>8. c + 1 \notin old
    BY <1>3, <1>5
  <1>9. Cardinality(new) = Cardinality(old) + IF x[m] = y[n] THEN 0 ELSE 1
    <2>1. Cardinality(old \cup {c + 1}) = Cardinality(old) + 1
      BY <1>3, <1>8, FS_AddElement
    <2>2. CASE x[m] = y[n]
      BY <2>2, <1>3, <1>7
    <2>3. CASE x[m] # y[n]
      BY <2>1, <2>3, <1>7
    <2>4. QED BY <2>2, <2>3
  <1>10. PrefixEdits(x, y, m, n, S2, T2) = m + n - 2 * (c + 1) + Cardinality(new)
    BY <1>1 DEF PrefixEdits, new
  <1>11. PrefixEdits(x, y, m - 1, n - 1, S, T) = (m - 1) + (n - 1) - 2 * c + Cardinality(old)
    BY DEF PrefixEdits, c, old
  <1>12. PrefixEdits(x, y, m, n, S2, T2)
           = PrefixEdits(x, y, m - 1, n - 1, S, T) + IF x[m] = y[n] THEN 0 ELSE 1
    BY <1>3, <1>9, <1>10, <1>11
  <1>13. QED BY <1>4, <1>12 DEF S2, T2

\* The recurrence: the distance of two beginnings from those of shorter ones.
LEMMA DistanceStep ==
  ASSUME NEW m \in Nat \ {0}, NEW n \in Nat \ {0}, NEW x, NEW y,
         NEW l \in Nat, NEW u \in Nat, NEW d \in Nat,
         IsPrefixDistance(x, y, l, m, n - 1), IsPrefixDistance(x, y, u, m - 1, n),
         IsPrefixDistance(x, y, d, m - 1, n - 1)
  PROVE  IsPrefixDistance(x, y, Least(l + 1, u + 1, d + IF x[m] = y[n] THEN 0 ELSE 1), m, n)
  <1> DEFINE cost == IF x[m] = y[n] THEN 0 ELSE 1
             least == Least(l + 1, u + 1, d + cost)
             Edit(p) == PrefixEdits(x, y, m, n, p[1], p[2])
  <1>0. /\ m - 1 \in Nat /\ n - 1 \in Nat /\ (m - 1) + 1 = m /\ (n - 1) + 1 = n
        /\ cost \in {0, 1}
    OBVIOUS
  <1>w. /\ \A p \in Pairs(m, n - 1) : p \in Pairs(m, n)
        /\ \A p \in Pairs(m - 1, n) : p \in Pairs(m, n)
    BY DEF Pairs
  \* The last rune of a is not kept, that of b is not, or both are.
  <1>u. ASSUME NEW p \in Pairs(m - 1, n)
        PROVE  Edit(p) = PrefixEdits(x, y, m - 1, n, p[1], p[2]) + 1
    BY <1>0, PairsAre, NotKept
  <1>l. ASSUME NEW p \in Pairs(m, n - 1)
        PROVE  Edit(p) = PrefixEdits(x, y, m, n - 1, p[1], p[2]) + 1
    BY <1>0, PairsAre, NotKept
  <1>d. ASSUME NEW p \in Pairs(m - 1, n - 1)
        PROVE  /\ <<p[1] \cup {m}, p[2] \cup {n}>> \in Pairs(m, n)
               /\ Edit(<<p[1] \cup {m}, p[2] \cup {n}>>)
                    = PrefixEdits(x, y, m - 1, n - 1, p[1], p[2]) + cost
    <2>1. /\ p[1] \subseteq 1..(m - 1) /\ p[2] \subseteq 1..(n - 1)
          /\ Cardinality(p[1]) = Cardinality(p[2])
      BY PairsAre
    <2>2. QED BY <2>1, BothKept
  <1>e. ASSUME NEW p \in Pairs(m, n) PROVE Edit(p) \in Int
    BY PairsAre, EditsType
  <1>1. least \in Nat /\ least <= l + 1 /\ least <= u + 1 /\ least <= d + cost
        /\ least \in {l + 1, u + 1, d + cost}
    BY <1>0 DEF Least
  <1>2. \E p \in Pairs(m, n) : Edit(p) = least
    <2>1. \E p \in Pairs(m, n) : Edit(p) = l + 1
      BY <1>w, <1>l DEF IsPrefixDistance
    <2>2. \E p \in Pairs(m, n) : Edit(p) = u + 1
      BY <1>w, <1>u DEF IsPrefixDistance
    <2>3. \E p \in Pairs(m, n) : Edit(p) = d + cost
      <3>1. PICK p \in Pairs(m - 1, n - 1) : PrefixEdits(x, y, m - 1, n - 1, p[1], p[2]) = d
        BY DEF IsPrefixDistance
      <3> HIDE DEF Edit, cost
      <3>2. QED BY <3>1, <1>d
    <2> HIDE DEF Edit, cost, least
    <2>4. QED BY <2>1, <2>2, <2>3, <1>1
  <1>3. ASSUME NEW p \in Pairs(m, n) PROVE Edit(p) >= least
    <2>0. p = <<p[1], p[2]>>
      BY DEF Pairs
    <2>1. /\ p[1] \subseteq 1..m /\ p[2] \subseteq 1..n
          /\ Cardinality(p[1]) = Cardinality(p[2])
      BY PairsAre
    <2>2. CASE m \notin p[1]
      <3>1. p[1] \subseteq 1..(m - 1)
        BY <2>1, <2>2
      <3>2. p \in Pairs(m - 1, n)
        BY <3>1, <2>0, <2>1, PairOf
      <3>3. PrefixEdits(x, y, m - 1, n, p[1], p[2]) >= u
        BY <3>2 DEF IsPrefixDistance
      <3>4. PrefixEdits(x, y, m - 1, n, p[1], p[2]) \in Int
        BY <3>1, <1>0, EditsType
      <3> HIDE DEF Edit, cost, least
      <3>5. QED BY <3>2, <3>3, <3>4, <1>u, <1>1
    <2>3. CASE n \notin p[2]
      <3>1. p[2] \subseteq 1..(n - 1)
        BY <2>1, <2>3
      <3>2. p \in Pairs(m, n - 1)
        BY <3>1, <2>0, <2>1, PairOf
      <3>3. PrefixEdits(x, y, m, n - 1, p[1], p[2]) >= l
        BY <3>2 DEF IsPrefixDistance
      <3>4. PrefixEdits(x, y, m, n - 1, p[1], p[2]) \in Int
        BY <2>1, <1>0, EditsType
      <3> HIDE DEF Edit, cost, least
      <3>5. QED BY <3>2, <3>3, <3>4, <1>l, <1>1
    <2>4. CASE m \in p[1] /\ n \in p[2]
      <3> DEFINE q == <<p[1] \ {m}, p[2] \ {n}>>
      <3>1. q[1] \subseteq 1..(m - 1) /\ q[2] \subseteq 1..(n - 1)
        BY <2>1
      <3>2. q[1] \cup {m} = p[1] /\ q[2] \cup {n} = p[2]
        BY <2>4
      <3>3. Cardinality(q[1]) = Cardinality(q[2])
        <4>1. Cardinality(p[1]) = Cardinality(q[1]) + 1 /\ Cardinality(q[1]) \in Nat
          BY <3>1, <3>2, <1>0, NthOfMore, PositionsAreFinite
        <4>2. Cardinality(p[2]) = Cardinality(q[2]) + 1 /\ Cardinality(q[2]) \in Nat
          BY <3>1, <3>2, <1>0, NthOfMore, PositionsAreFinite
        <4> HIDE DEF q
        <4>3. QED BY <4>1, <4>2, <2>1
      <3>4. q \in Pairs(m - 1, n - 1)
        BY <3>1, <3>3, PairOf
      <3>5. PrefixEdits(x, y, m - 1, n - 1, q[1], q[2]) >= d
        BY <3>4 DEF IsPrefixDistance
      <3>6. PrefixEdits(x, y, m - 1, n - 1, q[1], q[2]) \in Int
        BY <3>1, <1>0, EditsType
      <3>7. Edit(p) = PrefixEdits(x, y, m - 1, n - 1, q[1], q[2]) + cost
        <4>1. Edit(<<q[1] \cup {m}, q[2] \cup {n}>>)
                = PrefixEdits(x, y, m - 1, n - 1, q[1], q[2]) + cost
          <5> HIDE DEF Edit, cost, q
          <5>1. QED BY <3>4, <1>d
        <4>2. <<q[1] \cup {m}, q[2] \cup {n}>> = p
          <5> HIDE DEF q
          <5>1. QED BY <3>2, <2>0
        <4> HIDE DEF Edit, cost, q
        <4>3. QED BY <4>1, <4>2
      <3> HIDE DEF Edit, cost, least, q
      <3>8. QED BY <3>5, <3>6, <3>7, <1>0, <1>1
    <2>5. QED BY <2>2, <2>3, <2>4
  <1>4. QED BY <1>2, <1>3 DEF IsPrefixDistance

\* From the beginning of one string that is empty, all there is must be edited.
LEMMA NothingKept ==
  ASSUME NEW m \in Nat, NEW n \in Nat, m = 0 \/ n = 0, NEW x, NEW y
  PROVE  IsPrefixDistance(x, y, m + n, m, n)
  <1>1. ASSUME NEW p \in Pairs(m, n)
        PROVE  PrefixEdits(x, y, m, n, p[1], p[2]) = m + n
    <2>1. /\ p[1] \subseteq 1..m /\ p[2] \subseteq 1..n
          /\ Cardinality(p[1]) = Cardinality(p[2])
      BY PairsAre
    <2>2. Cardinality(p[1]) = 0
      <3>1. m = 0 => p[1] = {}
        BY <2>1
      <3>2. n = 0 => p[2] = {}
        BY <2>1
      <3>3. QED BY <3>1, <3>2, <2>1, FS_EmptySet
    <2>3. Replaced(x, y, p[1], p[2]) = {}
      BY <2>2 DEF Replaced
    <2>4. Cardinality(Replaced(x, y, p[1], p[2])) = 0
      BY <2>3, FS_EmptySet
    <2>5. QED BY <2>2, <2>4 DEF PrefixEdits
  <1>2. <<{}, {}>> \in Pairs(m, n)
    BY PairOf
  <1>3. \E p \in Pairs(m, n) : PrefixEdits(x, y, m, n, p[1], p[2]) = m + n
    BY <1>1, <1>2
  <1>4. QED BY <1>1, <1>3 DEF IsPrefixDistance

\* Of two beginnings, that is the distance itself; and so of the whole strings.
LEMMA BeginningsOf ==
  ASSUME NEW x \in Strings, NEW m \in 0..Len(x)
  PROVE  /\ Len(SubSeq(x, 1, m)) = m
         /\ \A k \in 1..m : SubSeq(x, 1, m)[k] = x[k]
  <1>1. x \in Seq(Runes)
    BY MaxLenOK DEF Strings
  <1>2. QED BY <1>1, Beginning

LEMMA DistanceOfBeginnings ==
  ASSUME NEW x \in Strings, NEW m \in 0..Len(x), NEW y \in Strings, NEW n \in 0..Len(y),
         NEW d, IsPrefixDistance(x, y, d, m, n)
  PROVE  IsDistance(d, SubSeq(x, 1, m), SubSeq(y, 1, n))
  <1> DEFINE u == SubSeq(x, 1, m)
             v == SubSeq(y, 1, n)
  <1>0. m \in Nat /\ n \in Nat
    BY StringLen
  <1>1. Len(u) = m /\ \A k \in 1..m : u[k] = x[k]
    BY BeginningsOf
  <1>2. Len(v) = n /\ \A k \in 1..n : v[k] = y[k]
    BY BeginningsOf
  <1> HIDE DEF u, v
  <1>3. Kept(u, v) = Pairs(m, n)
    BY <1>1, <1>2 DEF Kept, Pairs
  <1>4. ASSUME NEW p \in Pairs(m, n)
        PROVE  Edits(u, v, p[1], p[2]) = PrefixEdits(x, y, m, n, p[1], p[2])
    <2> DEFINE c == Cardinality(p[1])
    <2>1. /\ p[1] \subseteq 1..m /\ p[2] \subseteq 1..n
          /\ c = Cardinality(p[2])
      BY PairsAre
    <2>2. \A k \in 1..c : Nth(p[1], k) \in p[1] /\ Nth(p[2], k) \in p[2]
      BY <1>0, <2>1, NthIsThere
    <2>3. \A k \in 1..c : u[Nth(p[1], k)] = x[Nth(p[1], k)] /\ v[Nth(p[2], k)] = y[Nth(p[2], k)]
      BY <1>1, <1>2, <2>1, <2>2
    <2>4. {k \in 1..c : u[Nth(p[1], k)] # v[Nth(p[2], k)]} = Replaced(x, y, p[1], p[2])
      BY <2>3 DEF Replaced
    <2>5. QED BY <1>1, <1>2, <2>4 DEF Edits, PrefixEdits
  <1>5. /\ \E p \in Kept(u, v) : Edits(u, v, p[1], p[2]) = d
        /\ \A p \in Kept(u, v) : Edits(u, v, p[1], p[2]) >= d
    BY <1>3, <1>4 DEF IsPrefixDistance
  <1>6. QED BY <1>5 DEF IsDistance, u, v

LEMMA DistanceOfStrings ==
  ASSUME NEW x, NEW y, NEW d, IsPrefixDistance(x, y, d, Len(x), Len(y))
  PROVE  IsDistance(d, x, y)
  BY DEF IsPrefixDistance, IsDistance, Kept, Pairs, Edits, PrefixEdits, Replaced

-----------------------------------------------------------------------------
\* What the rows hold: in prev the finished row before i, in curr the cells of
\* row i before j.
DistInv ==
  /\ LevInv
  /\ \A k \in 0..Len(b) : IsPrefixDistance(a, b, prev[k], i - 1, k)
  /\ \A k \in 0..(j - 1) : IsPrefixDistance(a, b, curr[k], i, k)
  /\ dist # NoDist => IsPrefixDistance(a, b, dist, Len(a), Len(b))

LEMMA DistInitially == LevInit => DistInv
<1> SUFFICES ASSUME LevInit PROVE DistInv
  OBVIOUS
<1>0. Len(b) \in Nat /\ i = 1 /\ j = 1 /\ dist = NoDist
  BY StringLen DEF LevInit
<1>1. \A k \in 0..Len(b) : prev[k] = 0 + k /\ k \in Nat
  BY <1>0 DEF LevInit
<1>2. \A k \in 0..Len(b) : IsPrefixDistance(a, b, prev[k], 0, k)
  BY <1>1, NothingKept
<1>3. \A k \in 0..Len(b) : IsPrefixDistance(a, b, prev[k], i - 1, k)
  BY <1>0, <1>2
<1>4. curr[0] = 1 + 0
  BY <1>0 DEF LevInit
<1>5. IsPrefixDistance(a, b, 1 + 0, 1, 0)
  BY NothingKept
<1>6. \A k \in 0..(j - 1) : k = 0
  BY <1>0
<1>7. \A k \in 0..(j - 1) : IsPrefixDistance(a, b, curr[k], i, k)
  BY <1>0, <1>4, <1>5, <1>6
<1>8. QED BY <1>0, <1>3, <1>7, LevInitially DEF DistInv

LEMMA DistStep == DistInv /\ [LevNext]_levVars => DistInv'
<1> SUFFICES ASSUME DistInv, [LevNext]_levVars PROVE DistInv'
  OBVIOUS
<1>0. /\ Len(a) \in Nat /\ Len(b) \in Nat /\ i \in Nat \ {0} /\ j \in Nat \ {0}
      /\ i <= Len(a) + 1 /\ j <= Len(b) + 1
      /\ prev \in [0..Len(b) -> Nat] /\ curr \in [0..Len(b) -> Nat]
  BY DEF DistInv, LevInv
<1>i. LevInv'
  BY LevStep DEF DistInv
<1>1. ASSUME FillCell PROVE DistInv'
  <2>1. /\ i <= Len(a) /\ j <= Len(b) /\ j' = j + 1
        /\ curr' = [curr EXCEPT ![j] = Cell]
        /\ UNCHANGED <<a, b, i, prev, dist>>
    BY <1>1 DEF FillCell
  <2>2. j \in 0..Len(b) /\ j - 1 \in 0..Len(b) /\ j - 1 \in 0..(j - 1)
    BY <1>0, <2>1
  <2>3. /\ IsPrefixDistance(a, b, curr[j - 1], i, j - 1)
        /\ IsPrefixDistance(a, b, prev[j], i - 1, j)
        /\ IsPrefixDistance(a, b, prev[j - 1], i - 1, j - 1)
    BY <2>2 DEF DistInv
  <2>4. curr[j - 1] \in Nat /\ prev[j] \in Nat /\ prev[j - 1] \in Nat
    BY <1>0, <2>2
  <2>5. IsPrefixDistance(a, b, Cell, i, j)
    BY <1>0, <2>3, <2>4, DistanceStep DEF Cell
  <2>6. curr'[j] = Cell
    BY <1>0, <2>1, <2>2
  <2>7. \A k \in 0..(j - 1) : curr'[k] = curr[k]
    BY <1>0, <2>1
  <2>8. \A k \in 0..(j' - 1) : k \in 0..(j - 1) \/ k = j
    BY <1>0, <2>1
  <2>9. \A k \in 0..(j' - 1) : IsPrefixDistance(a, b, curr'[k], i, k)
    BY <2>5, <2>6, <2>7, <2>8 DEF DistInv
  <2>10. QED BY <1>i, <2>1, <2>9 DEF DistInv, NoDist
<1>2. ASSUME NextRow PROVE DistInv'
  <2>1. /\ i <= Len(a) /\ j > Len(b) /\ i' = i + 1 /\ j' = 1
        /\ prev' = curr /\ curr' = [prev EXCEPT ![0] = i + 1]
        /\ UNCHANGED <<a, b, dist>>
    BY <1>2 DEF NextRow
  <2>2. j - 1 = Len(b) /\ i' - 1 = i
    BY <1>0, <2>1
  <2>3. \A k \in 0..Len(b) : IsPrefixDistance(a, b, prev'[k], i' - 1, k)
    BY <2>1, <2>2 DEF DistInv
  <2>4. curr'[0] = (i + 1) + 0
    BY <1>0, <2>1
  <2>5. IsPrefixDistance(a, b, (i + 1) + 0, i + 1, 0)
    BY <1>0, NothingKept
  <2>6. \A k \in 0..(j' - 1) : k = 0
    BY <2>1
  <2>7. \A k \in 0..(j' - 1) : IsPrefixDistance(a, b, curr'[k], i', k)
    BY <2>1, <2>4, <2>5, <2>6
  <2>8. QED BY <1>i, <2>1, <2>3, <2>7 DEF DistInv, NoDist
<1>3. ASSUME Return PROVE DistInv'
  <2>1. /\ i > Len(a) /\ dist' = prev[Len(b)]
        /\ UNCHANGED <<a, b, i, j, prev, curr>>
    BY <1>3 DEF Return
  <2>2. i - 1 = Len(a) /\ Len(b) \in 0..Len(b)
    BY <1>0, <2>1
  <2>3. IsPrefixDistance(a, b, prev[Len(b)], Len(a), Len(b))
    BY <2>2 DEF DistInv
  <2>4. QED BY <1>i, <2>1, <2>3 DEF DistInv
<1>4. ASSUME UNCHANGED levVars PROVE DistInv'
  BY <1>4, <1>i DEF DistInv, levVars, NoDist
<1>5. QED BY <1>1, <1>2, <1>3, <1>4 DEF LevNext

\* Whatever the strings: the two rows are the distances of their beginnings,
\* and what levenshtein returns is their edit distance (score.go, levenshtein:
\* "the standard two-row dynamic-programming edit distance").
THEOREM TwoRowsGiveTheDistance == LevSpec => []RowsAreDistances
<1>1. DistInv => RowsAreDistances
  <2> SUFFICES ASSUME DistInv PROVE RowsAreDistances
    OBVIOUS
  <2>1. /\ a \in Strings /\ b \in Strings /\ Len(a) \in Nat /\ Len(b) \in Nat
        /\ i \in 1..(Len(a) + 1) /\ DOMAIN prev = 0..Len(b)
    BY DEF DistInv, LevInv
  <2>2. i - 1 \in 0..Len(a)
    BY <2>1
  <2>3. \A k \in DOMAIN prev :
          IsDistance(prev[k], SubSeq(a, 1, i - 1), SubSeq(b, 1, k))
    BY <2>1, <2>2, DistanceOfBeginnings DEF DistInv
  <2>4. dist # NoDist => IsDistance(dist, a, b)
    BY DistanceOfStrings DEF DistInv
  <2>5. QED BY <2>3, <2>4 DEF RowsAreDistances
<1>2. QED BY <1>1, DistInitially, DistStep, PTL DEF LevSpec
=============================================================================
