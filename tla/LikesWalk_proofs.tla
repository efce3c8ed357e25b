-------------------------- MODULE LikesWalk_proofs --------------------------
(***************************************************************************)
(* What the walk over the votes promises for any number of votes, any size *)
(* of page and any limit, although votes are cast and withdrawn under it:  *)
(* its result is in order, and a walk that ends well has seen every like.  *)
(*                                                                         *)
(* Both hold as long as fewer votes are cast during the walk than a page   *)
(* holds.  A vote that was cast may come into view again where the next    *)
(* page begins; what the invariants bound is how far down the list such    *)
(* votes may stand.                                                        *)
(***************************************************************************)
EXTENDS LikesWalk, Positions_proofs

\* The rows that come before page n, and how far votes have moved down.
Start(n) == (n - 1) * PageSize
Moved == cast - Cardinality(asked)

Descending(s) == \A p \in 1..Len(s) : \A q \in 1..Len(s) : p < q => s[q] < s[p]
Ascending(s)  == \A p \in 1..Len(s) : \A q \in 1..Len(s) : p < q => s[p] < s[q]

TypeInv ==
  /\ WalkTypeOK
  /\ at \in [Votes -> 1..Times] /\ kind \in [Votes -> Kinds]
  /\ \A v \in Votes : \A w \in Votes : v < w => at[v] <= at[w]
  /\ Cardinality(asked) \in 0..cast /\ asked = 1..Cardinality(asked)
  /\ Descending(list)
  /\ result = "walking" => page <= MaxPages

\* A like that has not been seen, although an older one has been taken: it
\* stands so high that no page to come will show it.
Late(p) == /\ kind[list[p]] = "like" /\ list[p] \notin seen
           /\ \E q \in 1..Len(out) : out[q] <= list[p]

OrderInv ==
  /\ result = "walking" =>
       /\ Descending(out) /\ \A q \in 1..Len(out) : out[q] \in seen
       /\ page = 1 => out = <<>>
       /\ \A p \in 1..Len(list) : Late(p) => p + PageSize <= Start(page) + Moved
  /\ result # "walking" => Ascending(out)

\* What the walk knows of a vote it has passed.
Accounted(v) ==
  /\ at[v] > since /\ kind[v] = "like" => v \in ToSet(out)
  /\ kind[v] \in {"drift", "blank"} => dropped

\* While nothing is withdrawn a vote stands where the votes cast after it put
\* it; none of those on the pages that were read is unaccounted for, and what
\* has been seen has not moved down by a page since.
AllSeen ==
  /\ Len(list) = cast /\ \A p \in 1..cast : list[p] = cast + 1 - p
  /\ result = "walking" =>
       /\ \A v \in seen : at[v] > since /\ kind[v] = "like" => v \in ToSet(out)
       /\ \A v \in seen : cast + 1 - v <= Start(page) + Moved
       /\ \A v \in asked : cast + 1 - v <= Start(page) => Accounted(v)
  /\ result = "complete" => \A v \in asked : NotSkipped(v)

WalkInv ==
  /\ TypeInv
  /\ FewCast => OrderInv
  /\ FewCast /\ gone = {} => AllSeen

-----------------------------------------------------------------------------
(* Sequences of votes. *)
LEMMA ToSetIs ==
  ASSUME NEW W, NEW s \in Seq(W)
  PROVE  /\ \A p \in 1..Len(s) : s[p] \in ToSet(s)
         /\ \A v \in ToSet(s) : \E p \in 1..Len(s) : s[p] = v
         /\ ToSet(s) \subseteq W
  BY LenProperties, ElementOfSeq DEF ToSet

LEMMA ReverseIs ==
  ASSUME NEW W, NEW s \in Seq(W)
  PROVE  /\ Reverse(s) \in Seq(W) /\ ToSet(Reverse(s)) = ToSet(s)
         /\ Descending(s) => Ascending(Reverse(s))
  <1> DEFINE n == Len(s)
             r == Reverse(s)
  <1>1. n \in Nat /\ \A p \in 1..n : s[p] \in W
    BY LenProperties, ElementOfSeq
  <1>2. r = [p \in 1..n |-> s[(n - p) + 1]]
    BY DEF Reverse
  <1>3. \A p \in 1..n : (n - p) + 1 \in 1..n /\ (n - ((n - p) + 1)) + 1 = p
    BY <1>1
  <1> HIDE DEF n, r
  <1>4. r \in [1..n -> W] /\ \A p \in 1..n : r[p] = s[(n - p) + 1]
    BY <1>1, <1>2, <1>3
  <1>5. r \in Seq(W) /\ Len(r) = n
    BY <1>1, <1>4
  <1>6. /\ \A p \in 1..n : s[p] \in ToSet(s) /\ r[p] \in ToSet(r)
        /\ \A v \in ToSet(s) : \E p \in 1..n : s[p] = v
        /\ \A v \in ToSet(r) : \E p \in 1..n : r[p] = v
    BY <1>5, ToSetIs DEF n
  <1>7. \A p \in 1..n : s[p] = r[(n - p) + 1]
    BY <1>3, <1>4
  <1>8. ToSet(r) = ToSet(s)
    <2>1. \A v \in ToSet(r) : v \in ToSet(s)
      BY <1>3, <1>4, <1>6
    <2>2. \A v \in ToSet(s) : v \in ToSet(r)
      BY <1>3, <1>6, <1>7
    <2>3. QED BY <2>1, <2>2
  <1>9. ASSUME Descending(s) PROVE Ascending(r)
    <2> SUFFICES ASSUME NEW p \in 1..n, NEW q \in 1..n, p < q PROVE r[p] < r[q]
      BY <1>5 DEF Ascending
    <2>1. (n - q) + 1 \in 1..n /\ (n - p) + 1 \in 1..n /\ (n - q) + 1 < (n - p) + 1
      BY <1>1, <1>3
    <2>2. s[(n - p) + 1] < s[(n - q) + 1]
      BY <1>9, <2>1 DEF Descending, n
    <2>3. QED BY <1>4, <2>2
  <1>10. QED BY <1>5, <1>8, <1>9 DEF r

LEMMA OnlyDescends ==
  ASSUME NEW W, NEW s \in Seq(W), NEW X
  PROVE  /\ Only(s, X) \in Seq(W) /\ Len(Only(s, X)) \in Nat
         /\ ToSet(Only(s, X)) = ToSet(s) \cap X
         /\ Descending(s) => Descending(Only(s, X))
  <1> DEFINE o == Only(s, X)
  <1>1. o \in Seq(W) /\ Len(o) \in Nat
    BY OnlyLeaves
  <1>2. PICK f : Leaves(s, X, f)
    BY OnlyLeaves
  <1>3. /\ f \in [1..Len(o) -> 1..Len(s)]
        /\ \A p \in 1..Len(o) : \A q \in 1..Len(o) : p < q => f[p] < f[q]
        /\ \A p \in 1..Len(o) : o[p] = s[f[p]] /\ o[p] \in X
        /\ \A q \in 1..Len(s) : s[q] \in X => \E p \in 1..Len(o) : f[p] = q
    BY <1>2 DEF Leaves
  <1> HIDE DEF o
  <1>4. ToSet(o) \subseteq ToSet(s) \cap X
    <2> SUFFICES ASSUME NEW v \in ToSet(o) PROVE v \in ToSet(s) /\ v \in X
      OBVIOUS
    <2>1. PICK p \in 1..Len(o) : o[p] = v
      BY <1>1, ToSetIs
    <2>2. f[p] \in 1..Len(s) /\ s[f[p]] = v /\ v \in X
      BY <1>3, <2>1
    <2>3. QED BY <2>2, ToSetIs
  <1>5. ToSet(s) \cap X \subseteq ToSet(o)
    <2> SUFFICES ASSUME NEW v \in ToSet(s), v \in X PROVE v \in ToSet(o)
      OBVIOUS
    <2>1. PICK q \in 1..Len(s) : s[q] = v
      BY ToSetIs
    <2>2. PICK p \in 1..Len(o) : f[p] = q
      BY <1>3, <2>1
    <2>3. o[p] = v
      BY <1>3, <2>1, <2>2
    <2>4. QED BY <1>1, <2>3, ToSetIs
  <1>6. ASSUME Descending(s) PROVE Descending(o)
    BY <1>3, <1>6 DEF Descending
  <1>7. QED BY <1>1, <1>4, <1>5, <1>6 DEF o

LEMMA Joined ==
  ASSUME NEW W, NEW s \in Seq(W), NEW t \in Seq(W)
  PROVE  /\ s \o t \in Seq(W) /\ Len(s \o t) = Len(s) + Len(t)
         /\ Len(s) \in Nat /\ Len(t) \in Nat
         /\ \A p \in 1..Len(s) : (s \o t)[p] = s[p]
         /\ \A p \in 1..Len(t) : (s \o t)[Len(s) + p] = t[p]
         /\ ToSet(s \o t) = ToSet(s) \cup ToSet(t)
  <1> DEFINE m == Len(s)
             n == Len(t)
             u == s \o t
  <1>1. m \in Nat /\ n \in Nat
    BY LenProperties
  <1>2. /\ u \in Seq(W) /\ Len(u) = m + n
        /\ \A p \in 1..(m + n) : u[p] = IF p <= m THEN s[p] ELSE t[p - m]
    BY ConcatProperties
  <1> HIDE DEF m, n, u
  <1>3. \A p \in 1..m : p \in 1..(m + n) /\ u[p] = s[p]
    BY <1>1, <1>2
  <1>4. \A p \in 1..n : m + p \in 1..(m + n) /\ u[m + p] = t[p]
    <2> TAKE p \in 1..n
    <2>1. m + p \in 1..(m + n) /\ ~ (m + p <= m) /\ (m + p) - m = p
      BY <1>1
    <2>2. QED BY <1>2, <2>1
  <1>5. \A p \in 1..(m + n) : p \in 1..m \/ p - m \in 1..n
    BY <1>1
  <1>6. /\ \A p \in 1..m : s[p] \in ToSet(s)
        /\ \A p \in 1..n : t[p] \in ToSet(t)
        /\ \A p \in 1..(m + n) : u[p] \in ToSet(u)
        /\ \A v \in ToSet(s) : \E p \in 1..m : s[p] = v
        /\ \A v \in ToSet(t) : \E p \in 1..n : t[p] = v
        /\ \A v \in ToSet(u) : \E p \in 1..(m + n) : u[p] = v
    BY <1>2, ToSetIs DEF m, n
  <1>7. \A v \in ToSet(u) : v \in ToSet(s) \cup ToSet(t)
    <2> TAKE v \in ToSet(u)
    <2>1. PICK p \in 1..(m + n) : u[p] = v
      BY <1>6
    <2>2. CASE p \in 1..m
      BY <1>3, <1>6, <2>1, <2>2
    <2>3. CASE p \notin 1..m
      <3>1. p - m \in 1..n /\ ~ (p <= m)
        BY <1>1, <1>5, <2>3
      <3>2. v = t[p - m]
        BY <1>2, <2>1, <3>1
      <3>3. QED BY <1>6, <3>1, <3>2
    <2>4. QED BY <2>2, <2>3
  <1>8. \A v \in ToSet(s) \cup ToSet(t) : v \in ToSet(u)
    BY <1>3, <1>4, <1>6
  <1>9. ToSet(u) = ToSet(s) \cup ToSet(t)
    BY <1>7, <1>8
  <1>10. QED BY <1>1, <1>2, <1>3, <1>4, <1>9 DEF m, n, u

-----------------------------------------------------------------------------
(* A page of votes. *)
LEMMA StartIs ==
  ASSUME NEW n \in Nat \ {0}
  PROVE  /\ Start(n) \in Nat /\ n * PageSize = Start(n) + PageSize
         /\ Start(n + 1) = Start(n) + PageSize
         /\ n > 1 => Start(n) >= PageSize
         /\ PageSize \in Nat \ {0}
  <1>1. PageSize \in Nat \ {0}
    BY WalkConstants
  <1>2. PICK m \in Nat : n = m + 1
    OBVIOUS
  <1>3. /\ n - 1 = m /\ (n + 1) - 1 = m + 1
        /\ m * PageSize \in Nat /\ (m + 1) * PageSize = m * PageSize + PageSize
    BY <1>1, <1>2
  <1>4. m > 0 => m * PageSize >= PageSize
    <2> SUFFICES ASSUME m > 0 PROVE m * PageSize >= PageSize
      OBVIOUS
    <2>1. PICK k \in Nat : m = k + 1
      OBVIOUS
    <2>2. k * PageSize \in Nat /\ (k + 1) * PageSize = k * PageSize + PageSize
      BY <1>1
    <2>3. QED BY <1>1, <2>1, <2>2
  <1>5. n > 1 => m > 0
    BY <1>2
  <1>6. Start(n) = m * PageSize /\ Start(n + 1) = (m + 1) * PageSize
        /\ n * PageSize = (m + 1) * PageSize
    BY <1>2, <1>3 DEF Start
  <1>7. QED BY <1>1, <1>3, <1>4, <1>5, <1>6

LEMMA RowsAre ==
  ASSUME TypeInv
  PROVE  LET rows == Rows(page)
             from == Start(page)
         IN /\ rows \in Seq(1..cast) /\ Len(rows) \in Nat /\ from \in Nat
            /\ \A k \in 1..Len(rows) : /\ from + k \in 1..Len(list) /\ k <= PageSize
                                        /\ rows[k] = list[from + k]
            /\ \A p \in 1..Len(list) :
                 from < p /\ p <= from + PageSize => p - from \in 1..Len(rows)
            /\ rows = <<>> => Len(list) <= from
  <1> DEFINE rows == Rows(page)
             from == Start(page)
             n == Len(list)
             to == IF from + PageSize < n THEN from + PageSize ELSE n
  <1>1. /\ from \in Nat /\ PageSize \in Nat \ {0} /\ page * PageSize = from + PageSize
    <2>1. page \in Nat \ {0}
      BY WalkConstants DEF TypeInv, WalkTypeOK
    <2>2. QED BY <2>1, StartIs
  <1>2. n \in Nat /\ \A p \in 1..n : list[p] \in 1..cast
    BY LenProperties, ElementOfSeq DEF TypeInv, WalkTypeOK
  <1>3. rows = SubSeq(list, from + 1, to)
    BY <1>1 DEF Rows, Start
  <1> HIDE DEF rows, from, n
  <1>4. to \in Nat /\ to <= n /\ to <= from + PageSize
    BY <1>1, <1>2
  <1>5. /\ \A p \in 1..n : p <= from + PageSize => p <= to
        /\ to <= from => n <= from
    BY <1>1, <1>2
  <1> HIDE DEF to
  <1>6. \A p \in (from + 1)..to : list[p] \in 1..cast
    BY <1>1, <1>2, <1>4
  <1>7. /\ rows \in Seq(1..cast)
        /\ Len(rows) = IF from + 1 <= to THEN to - (from + 1) + 1 ELSE 0
        /\ \A k \in 1..(to - (from + 1) + 1) : rows[k] = list[from + 1 + k - 1]
    BY <1>1, <1>3, <1>4, <1>6, SubSeqProperties
  <1>8. \A k \in 1..Len(rows) : /\ from + k \in 1..n /\ k <= PageSize
                                /\ k \in 1..(to - (from + 1) + 1)
                                /\ from + 1 + k - 1 = from + k
    BY <1>1, <1>2, <1>4, <1>7
  <1>9. \A p \in 1..n : from < p /\ p <= from + PageSize => p - from \in 1..Len(rows)
    <2> SUFFICES ASSUME NEW p \in 1..n, from < p, p <= from + PageSize
                 PROVE  p - from \in 1..Len(rows)
      OBVIOUS
    <2>1. p <= to /\ p \in Nat
      BY <1>2, <1>5
    <2>2. from + 1 <= to
      BY <1>1, <1>4, <2>1
    <2>3. Len(rows) = to - (from + 1) + 1
      BY <1>7, <2>2
    <2>4. p - from >= 1 /\ p - from <= to - (from + 1) + 1 /\ p - from \in Int
      BY <1>1, <1>4, <2>1
    <2>5. to - (from + 1) + 1 \in Int
      BY <1>1, <1>4
    <2>6. QED BY <2>3, <2>4, <2>5
  <1>10. rows = <<>> => n <= from
    <2>1. rows = <<>> => Len(rows) = 0
      BY EmptySeq
    <2>2. QED BY <1>1, <1>4, <1>5, <1>7, <2>1
  <1>11. Len(rows) \in Nat
    BY <1>7, LenProperties
  <1>12. \A k \in 1..Len(rows) : rows[k] = list[from + k]
    BY <1>7, <1>8
  <1>13. QED BY <1>1, <1>7, <1>8, <1>9, <1>10, <1>11, <1>12 DEF rows, from, n

\* The rows of a page are in order, and what is kept of them too.
LEMMA PageIs ==
  ASSUME TypeInv
  PROVE  LET rows == Rows(page) IN
           /\ Descending(rows) /\ ToSet(rows) \subseteq 1..cast
           /\ Kept(rows) \in Seq({v \in 1..cast : kind[v] = "like"})
           /\ Descending(Kept(rows))
           /\ ToSet(Kept(rows)) = {v \in Considered(rows) : at[v] > since}
  <1> DEFINE rows == Rows(page)
             from == Start(page)
             news == {v \in Considered(rows) : at[v] > since}
  <1>1. /\ rows \in Seq(1..cast) /\ Len(rows) \in Nat /\ from \in Nat
        /\ \A k \in 1..Len(rows) : from + k \in 1..Len(list) /\ rows[k] = list[from + k]
    BY RowsAre
  <1> HIDE DEF rows, from
  <1>2. Descending(rows)
    <2> SUFFICES ASSUME NEW p \in 1..Len(rows), NEW q \in 1..Len(rows), p < q
                 PROVE  rows[q] < rows[p]
      BY DEF Descending
    <2>1. from + p < from + q
      BY <1>1
    <2>2. QED BY <1>1, <2>1 DEF TypeInv, Descending
  <1>3. ToSet(rows) \subseteq 1..cast
    BY <1>1, ToSetIs
  <1>4. news \subseteq ToSet(rows) /\ \A v \in news : kind[v] = "like"
    BY DEF Considered
  <1>5. Kept(rows) = Only(rows, news)
    BY DEF Kept
  <1> HIDE DEF news
  <1>6. /\ Kept(rows) \in Seq(1..cast) /\ Len(Kept(rows)) \in Nat
        /\ Descending(Kept(rows)) /\ ToSet(Kept(rows)) = news
    <2>1. /\ Only(rows, news) \in Seq(1..cast) /\ Len(Only(rows, news)) \in Nat
          /\ ToSet(Only(rows, news)) = ToSet(rows) \cap news
          /\ Descending(Only(rows, news))
      BY <1>1, <1>2, OnlyDescends
    <2>2. ToSet(rows) \cap news = news
      BY <1>4
    <2>3. QED BY <1>5, <2>1, <2>2
  <1>7. \A p \in 1..Len(Kept(rows)) : Kept(rows)[p] \in {v \in 1..cast : kind[v] = "like"}
    BY <1>3, <1>4, <1>6, ToSetIs
  <1>8. Kept(rows) \in Seq({v \in 1..cast : kind[v] = "like"})
    <2> DEFINE t == Kept(rows)
               L == {v \in 1..cast : kind[v] = "like"}
    <2>1. t \in [1..Len(t) -> 1..cast] /\ Len(t) \in Nat
      BY <1>6, LenProperties
    <2>2. \A p \in 1..Len(t) : t[p] \in L
      BY <1>7
    <2> HIDE DEF t, L
    <2>3. t \in [1..Len(t) -> L]
      BY <2>1, <2>2
    <2>4. t \in Seq(L)
      BY <2>1, <2>3
    <2>5. QED BY <2>4 DEF t, L
  <1>9. QED BY <1>2, <1>3, <1>6, <1>8 DEF rows, news

-----------------------------------------------------------------------------
(* How the list moves. *)
LEMMA CastList ==
  ASSUME TypeInv, CastVote
  PROVE  /\ list' \in Seq(1..cast') /\ Len(list) \in Nat /\ Len(list') = Len(list) + 1
         /\ list'[1] = cast + 1 /\ Descending(list')
         /\ \A p \in 1..Len(list) : list'[p + 1] = list[p]
         /\ \A p \in 1..Len(list') : p = 1 \/ p - 1 \in 1..Len(list)
  <1> DEFINE n == Len(list)
             V == 1..(cast + 1)
  <1>1. /\ cast \in Nat /\ cast' = cast + 1 /\ list' = <<cast + 1>> \o list
        /\ list \in Seq(1..cast)
    BY WalkConstants DEF CastVote, TypeInv, WalkTypeOK
  <1>2. \A p \in 1..n : list[p] \in 1..cast
    BY <1>1, ElementOfSeq
  <1>3. list \in Seq(V) /\ <<cast + 1>> \in Seq(V)
    <2>1. 1..cast \subseteq V
      BY <1>1
    <2>2. list \in Seq(V)
      BY <1>1, <2>1, SeqMonotonic
    <2>3. cast + 1 \in V
      BY <1>1
    <2> HIDE DEF V
    <2>4. QED BY <2>2, <2>3
  <1>4. Len(<<cast + 1>>) = 1 /\ <<cast + 1>>[1] = cast + 1
    OBVIOUS
  <1> HIDE DEF V, n
  <1>5. /\ list' \in Seq(V) /\ Len(list') = 1 + n /\ n \in Nat
        /\ \A p \in 1..1 : list'[p] = <<cast + 1>>[p]
        /\ \A p \in 1..n : list'[1 + p] = list[p]
    BY <1>1, <1>3, <1>4, Joined DEF n
  <1>6. list'[1] = cast + 1 /\ \A p \in 1..n : list'[p + 1] = list[p] /\ p + 1 = 1 + p
    BY <1>4, <1>5
  <1>7. \A p \in 1..(1 + n) : p = 1 \/ (p - 1 \in 1..n /\ (p - 1) + 1 = p)
    BY <1>5
  <1>8. Descending(list')
    <2> SUFFICES ASSUME NEW p \in 1..(1 + n), NEW q \in 1..(1 + n), p < q
                 PROVE  list'[q] < list'[p]
      BY <1>5 DEF Descending
    <2>1. q - 1 \in 1..n /\ list'[q] = list[q - 1]
      BY <1>5, <1>6, <1>7
    <2>2. CASE p = 1
      BY <1>1, <1>2, <1>6, <2>1, <2>2 DEF n
    <2>3. CASE p # 1
      <3>1. p - 1 \in 1..n /\ list'[p] = list[p - 1] /\ p - 1 < q - 1
        BY <1>5, <1>6, <1>7, <2>3
      <3>2. QED BY <2>1, <3>1 DEF TypeInv, Descending, n
    <2>4. QED BY <2>2, <2>3
  <1>9. QED BY <1>1, <1>5, <1>6, <1>7, <1>8 DEF V, n

LEMMA WithdrawList ==
  ASSUME TypeInv, WithdrawVote
  PROVE  /\ list' \in Seq(1..cast) /\ Descending(list')
         /\ \A p \in 1..Len(list') :
              \E q \in 1..Len(list) : p <= q /\ list'[p] = list[q]
  <1>1. PICK X : list' = Only(list, X)
    BY DEF WithdrawVote
  <1>2. list \in Seq(1..cast) /\ Descending(list)
    BY DEF TypeInv, WalkTypeOK
  <1>3. PICK f : Leaves(list, X, f)
    BY <1>2, OnlyLeaves
  <1>4. \A p \in 1..Len(list') : f[p] \in 1..Len(list) /\ p <= f[p] /\ list'[p] = list[f[p]]
    BY <1>1, <1>3 DEF Leaves
  <1>5. QED BY <1>1, <1>2, <1>4, OnlyDescends

\* What a request leaves in out, before it is turned round if the walk ends.
Read == IF Rows(page) = <<>> THEN out ELSE out \o Kept(Rows(page))

LEMMA ReadIs ==
  ASSUME TypeInv
  PROVE  /\ Read \in Seq({v \in 1..cast : kind[v] = "like"})
         /\ Rows(page) = <<>> => ToSet(Rows(page)) = {}
  <1> DEFINE L == {v \in 1..cast : kind[v] = "like"}
  <1>1. out \in Seq(L) /\ Kept(Rows(page)) \in Seq(L)
    BY PageIs DEF TypeInv, WalkTypeOK
  <1> HIDE DEF L
  <1>2. out \o Kept(Rows(page)) \in Seq(L)
    BY <1>1, ConcatProperties
  <1>3. Rows(page) = <<>> => ToSet(Rows(page)) = {}
    BY EmptySeq DEF ToSet
  <1>4. QED BY <1>1, <1>2, <1>3 DEF Read, L

\* A request fails, ends the walk or is followed by another.
LEMMA FetchIs ==
  ASSUME TypeInv, FetchPage
  PROVE  /\ result = "walking" /\ UNCHANGED <<at, kind, list, cast, since, asked, gone>>
         /\ \/ out' = <<>> /\ result' = "failed" /\ UNCHANGED <<page, seen, dropped>>
            \/ /\ Rows(page) = <<>> /\ out' = Reverse(Read)
               /\ result' = IF dropped THEN "dropped" ELSE "complete"
               /\ UNCHANGED <<page, seen, dropped>>
            \/ /\ Rows(page) # <<>> /\ page' = page + 1
               /\ seen' = seen \cup VoteIDs(Rows(page))
               /\ dropped' = (dropped \/ Drops(Rows(page)))
               /\ \/ /\ out' = Reverse(Read)
                     /\ result' = IF dropped' THEN "dropped" ELSE "complete"
                     /\ ~ Progressed(Rows(page)) \/ BelowWatermark(Rows(page))
                  \/ out' = Reverse(Read) /\ result' = "truncated"
                  \/ out' = Read /\ result' = "walking" /\ page < MaxPages
  <1>1. CASE LastPage
    BY <1>1 DEF FetchPage, LastPage, Finish, OldestFirst, Read
  <1>2. CASE ReadPage
    BY <1>2 DEF FetchPage, ReadPage, Finish, OldestFirst, Read
  <1>3. CASE PageFails
    BY <1>3 DEF FetchPage, PageFails
  <1>4. QED BY <1>1, <1>2, <1>3 DEF FetchPage

LEMMA TypeInitially == WalkInit => TypeInv
  <1> SUFFICES ASSUME WalkInit PROVE TypeInv
    OBVIOUS
  <1>1. cast \in 0..NVotes /\ cast \in Nat /\ NVotes \in Nat
    BY WalkConstants DEF WalkInit
  <1>2. list = [p \in 1..cast |-> cast + 1 - p]
    BY DEF WalkInit
  <1>3. list \in [1..cast -> 1..cast] /\ Len(list) = cast
    BY <1>1, <1>2
  <1>4. list \in Seq(1..cast)
    BY <1>1, <1>3
  <1>5. Descending(list)
    BY <1>1, <1>2, <1>3 DEF Descending
  <1>6. Cardinality(asked) = cast /\ asked = 1..cast
    <2>1. asked = 1..cast
      BY DEF WalkInit
    <2>2. Cardinality(1..cast) = IF 1 > cast THEN 0 ELSE cast - 1 + 1
      BY <1>1, FS_Interval
    <2>3. QED BY <1>1, <2>1, <2>2
  <1>7. at \in [Votes -> 1..Times] /\ kind \in [Votes -> Kinds]
        /\ \A v \in Votes : \A w \in Votes : v < w => at[v] <= at[w]
    BY DEF WalkInit
  <1>8. out \in Seq({v \in 1..cast : kind[v] = "like"})
    BY EmptySeq DEF WalkInit
  <1>9. WalkTypeOK
    <2>1. page \in 1..MaxPages + 1
      BY WalkConstants DEF WalkInit
    <2>2. /\ since \in 0..Times /\ seen \subseteq 1..cast /\ dropped \in BOOLEAN
          /\ result \in Ended \cup {"walking"}
      BY DEF WalkInit
    <2>3. QED BY <1>1, <1>4, <1>8, <2>1, <2>2, Zenon DEF WalkTypeOK
  <1>10. QED BY <1>1, <1>5, <1>6, <1>7, <1>9, WalkConstants DEF TypeInv, WalkInit

LEMMA TypeStep == TypeInv /\ [WalkNext]_walkVars => TypeInv'
  <1> SUFFICES ASSUME TypeInv, [WalkNext]_walkVars PROVE TypeInv'
    OBVIOUS
  <1> DEFINE L == {v \in 1..cast : kind[v] = "like"}
  <1>1. CASE FetchPage
    <2>1. Read \in Seq(L) /\ <<>> \in Seq(L) /\ Reverse(Read) \in Seq(L)
      BY ReadIs, ReverseIs, EmptySeq
    <2>2. /\ UNCHANGED <<at, kind, list, cast, since, asked, gone>>
          /\ out' \in {<<>>, Read, Reverse(Read)}
      BY <1>1, FetchIs
    <2>3. VoteIDs(Rows(page)) \subseteq 1..cast /\ Drops(Rows(page)) \in BOOLEAN
      BY PageIs DEF VoteIDs, Drops
    <2>4. /\ seen' \subseteq 1..cast /\ dropped' \in BOOLEAN
          /\ page' \in 1..MaxPages + 1 /\ result' \in Ended \cup {"walking"}
          /\ result' = "walking" => page' <= MaxPages
      <3>1. /\ seen \subseteq 1..cast /\ dropped \in BOOLEAN
            /\ page \in 1..MaxPages /\ MaxPages \in Nat
        BY <1>1, FetchIs, WalkConstants DEF TypeInv, WalkTypeOK
      <3>2. \/ UNCHANGED <<page, seen, dropped>>
            \/ /\ page' = page + 1 /\ seen' = seen \cup VoteIDs(Rows(page))
               /\ dropped' = (dropped \/ Drops(Rows(page)))
        BY <1>1, FetchIs
      <3>3. result' \in Ended \cup {"walking"}
        BY <1>1, FetchIs DEF Ended
      <3>4. result' = "walking" => page' = page + 1 /\ page < MaxPages
        BY <1>1, FetchIs
      <3>5. seen' \subseteq 1..cast
        BY <2>3, <3>1, <3>2
      <3>6. dropped' \in BOOLEAN
        BY <2>3, <3>1, <3>2
      <3>7. page' \in 1..MaxPages + 1
        BY <3>1, <3>2
      <3>8. result' = "walking" => page' <= MaxPages
        BY <3>1, <3>4
      <3>9. QED BY <3>3, <3>5, <3>6, <3>7, <3>8
    <2>5. out' \in Seq(L)
      BY <2>1, <2>2
    <2>6. WalkTypeOK'
      BY <2>2, <2>4, <2>5 DEF TypeInv, WalkTypeOK
    <2>7. QED BY <2>2, <2>4, <2>6 DEF TypeInv, Descending
  <1>2. CASE CastVote
    <2>1. /\ cast' = cast + 1 /\ cast < NVotes /\ cast \in Nat /\ NVotes \in Nat
          /\ UNCHANGED <<at, kind, since, page, seen, out, dropped, result, asked, gone>>
      BY <1>2, WalkConstants DEF CastVote, TypeInv, WalkTypeOK
    <2>2. list' \in Seq(1..cast') /\ Descending(list')
      BY <1>2, CastList
    <2>3. out' \in Seq({v \in 1..cast' : kind'[v] = "like"})
      <3> DEFINE M == {v \in 1..cast' : kind'[v] = "like"}
      <3>1. L \subseteq M /\ out \in Seq(L)
        BY <2>1 DEF TypeInv, WalkTypeOK
      <3> HIDE DEF L, M
      <3>2. out \in Seq(M)
        BY <3>1, SeqMonotonic
      <3>3. QED BY <2>1, <3>2 DEF M
    <2>4. /\ cast' \in 0..NVotes /\ seen' \subseteq 1..cast'
          /\ Cardinality(asked)' \in 0..cast' /\ asked' = 1..Cardinality(asked)'
      BY <2>1 DEF TypeInv, WalkTypeOK
    <2>5. WalkTypeOK'
      BY <2>1, <2>2, <2>3, <2>4 DEF TypeInv, WalkTypeOK
    <2>6. QED BY <2>1, <2>2, <2>4, <2>5 DEF TypeInv, Descending
  <1>3. CASE WithdrawVote
    <2>1. UNCHANGED <<at, kind, cast, since, page, seen, out, dropped, result, asked>>
      BY <1>3 DEF WithdrawVote
    <2>2. list' \in Seq(1..cast) /\ Descending(list')
      BY <1>3, WithdrawList
    <2>3. WalkTypeOK'
      BY <2>1, <2>2 DEF TypeInv, WalkTypeOK
    <2>4. QED BY <2>1, <2>2, <2>3 DEF TypeInv, Descending
  <1>4. CASE UNCHANGED walkVars
    BY <1>4 DEF walkVars, TypeInv, WalkTypeOK, Descending
  <1>5. QED BY <1>1, <1>2, <1>3, <1>4 DEF WalkNext

-----------------------------------------------------------------------------
(* The result is in order. *)
LEMMA MovedIs ==
  ASSUME TypeInv
  PROVE  /\ Moved \in Nat /\ PageSize \in Nat \ {0} /\ page \in Nat \ {0} /\ cast \in Nat
         /\ FewCast <=> Moved < PageSize
  BY WalkConstants DEF TypeInv, WalkTypeOK, Moved, FewCast

\* What a page adds was cast before all that the pages before it gave.
LEMMA ReadDescends ==
  ASSUME TypeInv, FewCast, OrderInv, result = "walking"
  PROVE  Descending(Read)
  <1> DEFINE rows == Rows(page)
             from == Start(page)
             new == Kept(rows)
             m == Len(out)
             n == Len(new)
  <1>1. /\ from \in Nat /\ rows \in Seq(1..cast)
        /\ \A k \in 1..Len(rows) : from + k \in 1..Len(list) /\ rows[k] = list[from + k]
    BY RowsAre
  <1>2. /\ new \in Seq({v \in 1..cast : kind[v] = "like"}) /\ Descending(new)
        /\ \A v \in ToSet(new) : v \in Considered(rows)
    BY PageIs
  <1>3. out \in Seq({v \in 1..cast : kind[v] = "like"}) /\ Descending(out)
    BY DEF TypeInv, WalkTypeOK, OrderInv
  <1>4. /\ Len(out \o new) = m + n /\ m \in Nat /\ n \in Nat
        /\ \A p \in 1..m : (out \o new)[p] = out[p] /\ out[p] \in 1..cast
        /\ \A p \in 1..n : (out \o new)[m + p] = new[p] /\ new[p] \in 1..cast
    BY <1>2, <1>3, Joined, ElementOfSeq
  <1>5. ASSUME NEW q \in 1..m, NEW p \in 1..n PROVE new[p] < out[q]
    <2>1. new[p] \in Considered(rows)
      BY <1>2, ToSetIs
    <2>2. new[p] \in ToSet(rows) /\ kind[new[p]] = "like" /\ new[p] \notin seen
      BY <2>1 DEF Considered
    <2>3. PICK k \in 1..Len(rows) : rows[k] = new[p]
      BY <1>1, <2>2, ToSetIs
    <2>4. from + k \in 1..Len(list) /\ list[from + k] = new[p] /\ k \in Nat
      BY <1>1, <2>3
    <2>5. out[q] <= new[p] => Late(from + k)
      BY <2>2, <2>4 DEF Late, m
    <2>6. out[q] <= new[p] => (from + k) + PageSize <= from + Moved
      BY <2>4, <2>5 DEF OrderInv
    <2>7. ~ (out[q] <= new[p])
      BY <1>1, <2>4, <2>6, MovedIs
    <2>8. out[q] \in Nat /\ new[p] \in Nat
      BY <1>4
    <2>9. QED BY <2>7, <2>8
  <1>6. CASE rows = <<>>
    BY <1>3, <1>6 DEF Read
  <1>7. CASE rows # <<>>
    <2> DEFINE o == out \o new
    <2>1. Read = o
      BY <1>7 DEF Read
    <2> HIDE DEF rows, from, new, m, n, o
    <2>2. SUFFICES ASSUME NEW p \in 1..(m + n), NEW q \in 1..(m + n), p < q
                   PROVE  o[q] < o[p]
      BY <1>4, <2>1 DEF Descending, o
    <2>3. CASE p <= m /\ q <= m
      <3>1. p \in 1..m /\ q \in 1..m
        BY <1>4, <2>3
      <3>2. out[q] < out[p]
        BY <1>3, <2>2, <3>1 DEF Descending, m
      <3>3. QED BY <1>4, <3>1, <3>2 DEF o
    <2>4. CASE p <= m /\ q > m
      <3>1. p \in 1..m /\ q - m \in 1..n /\ m + (q - m) = q
        BY <1>4, <2>4
      <3>2. o[q] = new[q - m] /\ o[p] = out[p]
        BY <1>4, <3>1 DEF o
      <3>3. QED BY <1>5, <3>1, <3>2
    <2>5. CASE p > m /\ q > m
      <3>1. /\ p - m \in 1..n /\ m + (p - m) = p /\ q - m \in 1..n /\ m + (q - m) = q
            /\ p - m < q - m
        BY <1>4, <2>2, <2>5
      <3>2. o[q] = new[q - m] /\ o[p] = new[p - m]
        BY <1>4, <3>1 DEF o
      <3>3. new[q - m] < new[p - m]
        BY <1>2, <3>1 DEF Descending, n
      <3>4. QED BY <3>2, <3>3
    <2>6. p \in Nat /\ q \in Nat
      BY <1>4
    <2>7. QED BY <1>4, <2>2, <2>3, <2>4, <2>5, <2>6
  <1>8. QED BY <1>6, <1>7

LEMMA OrderFetch ==
  ASSUME TypeInv, FewCast, OrderInv, FetchPage
  PROVE  OrderInv'
  <1> DEFINE rows == Rows(page)
             from == Start(page)
             new == Kept(rows)
             L == {v \in 1..cast : kind[v] = "like"}
  <1>0. result = "walking" /\ UNCHANGED <<at, kind, list, cast, since, asked>>
    BY FetchIs
  <1>1. Descending(Read) /\ Read \in Seq(L)
    BY <1>0, ReadDescends, ReadIs
  <1>2. CASE result' # "walking"
    <2>1. out' = <<>> \/ out' = Reverse(Read)
      BY <1>2, FetchIs
    <2>2. Ascending(Reverse(Read))
      BY <1>1, ReverseIs
    <2>3. Ascending(<<>>)
      BY EmptySeq DEF Ascending
    <2>4. Ascending(out)'
      BY <2>1, <2>2, <2>3 DEF Ascending
    <2>5. QED BY <1>2, <2>4 DEF OrderInv
  <1>3. CASE result' = "walking"
    <2>1. /\ rows # <<>> /\ out' = out \o new /\ page' = page + 1
          /\ seen' = seen \cup VoteIDs(rows)
      BY <1>3, FetchIs DEF Read
    <2>2. Descending(out)'
      BY <1>1, <1>3, <2>1 DEF Read, Descending
    <2>3. /\ from \in Nat /\ Start(page)' = from + PageSize /\ page' # 1
      <3>1. page \in Nat \ {0}
        BY MovedIs
      <3>2. from \in Nat /\ Start(page + 1) = from + PageSize /\ page + 1 # 1
        BY <3>1, StartIs
      <3>3. QED BY <2>1, <3>2 DEF Start
    <2>4. /\ rows \in Seq(1..cast)
          /\ \A k \in 1..Len(rows) : /\ from + k \in 1..Len(list) /\ k <= PageSize
                                      /\ rows[k] = list[from + k]
          /\ \A p \in 1..Len(list) :
               from < p /\ p <= from + PageSize => p - from \in 1..Len(rows)
      BY RowsAre
    <2>5. out \in Seq(L) /\ new \in Seq(L) /\ \A v \in ToSet(new) : v \in Considered(rows)
      BY PageIs DEF TypeInv, WalkTypeOK
    <2>6. \A v \in ToSet(rows) : kind[v] = "like" => v \in seen'
      BY <2>1 DEF VoteIDs
    <2>7. \A v \in ToSet(out') : v \in seen' /\ (v \in ToSet(out) \/ v \in ToSet(new))
      <3>1. ToSet(out') = ToSet(out) \cup ToSet(new)
        BY <2>1, <2>5, Joined
      <3>2. \A v \in ToSet(out) : v \in seen
        BY <1>0, <2>5, ToSetIs DEF OrderInv
      <3>3. \A v \in ToSet(new) : v \in seen'
        BY <2>5, <2>6 DEF Considered
      <3>4. QED BY <2>1, <3>1, <3>2, <3>3
    <2>8. out' \in Seq(L)
      BY <1>1, <1>3, <2>1 DEF Read
    <2>9. \A q \in 1..Len(out') : out'[q] \in seen'
      BY <2>7, <2>8, ToSetIs
    <2>10. ASSUME NEW p \in 1..Len(list), kind[list[p]] = "like", list[p] \notin seen',
                  NEW u \in 1..Len(out'), out'[u] <= list[p]
           PROVE  p + PageSize <= (from + PageSize) + Moved
      <3> DEFINE v == out'[u]
      <3>1. v \in ToSet(out) \/ v \in ToSet(new)
        BY <2>7, <2>8, ToSetIs
      <3>2. p \in Nat /\ Moved \in Nat /\ PageSize \in Nat
        BY MovedIs DEF TypeInv, WalkTypeOK
      <3>3. CASE v \in ToSet(out)
        <4>1. PICK q \in 1..Len(out) : out[q] = v
          BY <2>5, <3>3, ToSetIs
        <4>2. Late(p)
          BY <2>1, <2>10, <4>1 DEF Late
        <4>3. p + PageSize <= from + Moved
          BY <1>0, <4>2 DEF OrderInv
        <4>4. QED BY <2>3, <3>2, <4>3
      <3>4. CASE v \in ToSet(new)
        <4>1. v \in ToSet(rows) /\ v \in seen'
          BY <2>5, <2>6, <3>4 DEF Considered
        <4>2. PICK k \in 1..Len(rows) : rows[k] = v
          BY <2>4, <4>1, ToSetIs
        <4>3. from + k \in 1..Len(list) /\ list[from + k] = v /\ k <= PageSize /\ k \in Nat
          BY <2>4, <4>2
        <4>4. list[p] # v
          BY <2>10, <4>1
        <4>5. \A x \in 1..Len(list) : list[x] \in Nat
          BY ElementOfSeq DEF TypeInv, WalkTypeOK
        <4>6. p < from + k
          <5> SUFFICES ASSUME ~ (p < from + k) PROVE FALSE
            OBVIOUS
          <5>1. p = from + k \/ from + k < p
            BY <2>3, <3>2, <4>3
          <5>2. from + k < p => list[p] < v
            BY <4>3 DEF TypeInv, Descending
          <5>3. QED BY <2>10, <4>3, <4>4, <4>5, <5>1, <5>2
        <4>7. ~ (from < p)
          <5> SUFFICES ASSUME from < p PROVE FALSE
            OBVIOUS
          <5>1. p <= from + PageSize
            BY <2>3, <3>2, <4>3, <4>6
          <5>2. p - from \in 1..Len(rows)
            BY <2>4, <5>1
          <5>3. rows[p - from] = list[p]
            <6>1. from + (p - from) = p
              BY <2>3, <3>2
            <6>2. QED BY <2>4, <5>2, <6>1
          <5>4. list[p] \in ToSet(rows)
            BY <2>4, <5>2, <5>3, ToSetIs
          <5>5. QED BY <2>6, <2>10, <5>4
        <4>8. QED BY <2>3, <3>2, <4>7
      <3>5. QED BY <3>1, <3>3, <3>4
    <2>11. \A p \in 1..Len(list') : Late(p)' => p + PageSize <= Start(page)' + Moved'
      BY <1>0, <2>3, <2>10 DEF Late, Moved
    <2>12. QED BY <1>3, <2>2, <2>3, <2>9, <2>11 DEF OrderInv
  <1>4. QED BY <1>2, <1>3

LEMMA OrderCast ==
  ASSUME TypeInv, OrderInv, CastVote
  PROVE  OrderInv'
  <1>1. /\ result = "walking" /\ cast' = cast + 1
        /\ UNCHANGED <<kind, page, seen, out, result, asked>>
    BY DEF CastVote
  <1>2. /\ Len(list) \in Nat /\ Len(list') = Len(list) + 1
        /\ \A p \in 1..Len(list) : list'[p + 1] = list[p]
        /\ \A p \in 1..Len(list') : p = 1 \/ p - 1 \in 1..Len(list)
    BY CastList
  <1>3. /\ Moved \in Nat /\ Moved' = Moved + 1 /\ PageSize \in Nat /\ page \in Nat \ {0}
        /\ Cardinality(asked) \in Nat
    BY <1>1, MovedIs DEF Moved, TypeInv
  <1>4. Start(page) \in Nat /\ (page # 1 => Start(page) >= PageSize)
    BY <1>3, StartIs
  <1>5. ASSUME NEW p \in 1..Len(list'), Late(p)'
        PROVE  p + PageSize <= Start(page) + (Moved + 1)
    <2>1. out # <<>> /\ page # 1
      BY <1>1, <1>5 DEF Late, OrderInv
    <2>2. CASE p = 1
      BY <1>3, <1>4, <2>1, <2>2
    <2>3. CASE p # 1
      <3>1. p - 1 \in 1..Len(list) /\ (p - 1) + 1 = p
        BY <1>2, <2>3
      <3>2. list'[p] = list[p - 1]
        BY <1>2, <3>1
      <3>3. Late(p - 1)
        BY <1>1, <1>5, <3>2 DEF Late
      <3>4. (p - 1) + PageSize <= Start(page) + Moved
        BY <1>1, <3>1, <3>3 DEF OrderInv
      <3>5. QED BY <1>3, <1>4, <3>1, <3>4
    <2>4. QED BY <2>2, <2>3
  <1>6. Start(page)' = Start(page) /\ Moved' = Moved + 1
    BY <1>1, <1>3 DEF Start
  <1>7. QED BY <1>1, <1>5, <1>6 DEF OrderInv, Descending

LEMMA OrderWithdraw ==
  ASSUME TypeInv, OrderInv, WithdrawVote
  PROVE  OrderInv'
  <1>1. /\ result = "walking"
        /\ UNCHANGED <<kind, cast, page, seen, out, result, asked>>
    BY DEF WithdrawVote
  <1>2. \A p \in 1..Len(list') : \E q \in 1..Len(list) : p <= q /\ list'[p] = list[q]
    BY WithdrawList
  <1>3. Start(page) \in Nat /\ Moved \in Nat /\ PageSize \in Nat /\ Len(list) \in Nat
    BY MovedIs, StartIs, LenProperties DEF TypeInv, WalkTypeOK
  <1>4. ASSUME NEW p \in 1..Len(list'), Late(p)'
        PROVE  p + PageSize <= Start(page) + Moved
    <2>1. PICK q \in 1..Len(list) : p <= q /\ list'[p] = list[q]
      BY <1>2
    <2>2. Late(q)
      BY <1>1, <1>4, <2>1 DEF Late
    <2>3. q + PageSize <= Start(page) + Moved
      BY <1>1, <2>2 DEF OrderInv
    <2>4. p \in Int /\ q \in Int
      BY <1>3
    <2>5. QED BY <1>3, <2>1, <2>3, <2>4
  <1>5. Start(page)' = Start(page) /\ Moved' = Moved
    BY <1>1 DEF Start, Moved
  <1>6. QED BY <1>1, <1>4, <1>5 DEF OrderInv, Descending

\* The votes only ever move further.
LEMMA FewBefore ==
  ASSUME TypeInv, [WalkNext]_walkVars, FewCast'
  PROVE  FewCast
  <1>1. cast \in Nat /\ Cardinality(asked) \in Nat /\ PageSize \in Nat
    BY MovedIs DEF TypeInv
  <1>2. asked' = asked /\ (cast' = cast \/ cast' = cast + 1)
    BY FetchIs DEF WalkNext, CastVote, WithdrawVote, walkVars
  <1>3. QED BY <1>1, <1>2 DEF FewCast

LEMMA OrderStep ==
  ASSUME TypeInv, FewCast => OrderInv, [WalkNext]_walkVars
  PROVE  FewCast' => OrderInv'
  <1> SUFFICES ASSUME FewCast' PROVE OrderInv'
    OBVIOUS
  <1>1. FewCast /\ OrderInv
    BY FewBefore
  <1>2. CASE UNCHANGED walkVars
    BY <1>1, <1>2 DEF walkVars, OrderInv, Late, Start, Moved, Descending, Ascending
  <1>3. QED BY <1>1, <1>2, OrderFetch, OrderCast, OrderWithdraw DEF WalkNext

-----------------------------------------------------------------------------
(* Nothing is passed over. *)

\* What a request has accounted for.
Known(v) == /\ at[v] > since /\ kind[v] = "like" => v \in ToSet(Read)
            /\ kind[v] \in {"drift", "blank"} => dropped \/ Drops(Rows(page))

LEMMA KnownIs ==
  ASSUME TypeInv, AllSeen, result = "walking"
  PROVE  /\ \A v \in asked : cast + 1 - v <= Start(page) + PageSize => Known(v)
         /\ \A v \in seen \cup VoteIDs(Rows(page)) :
              at[v] > since /\ kind[v] = "like" => v \in ToSet(Read)
         /\ \A v \in VoteIDs(Rows(page)) :
              cast + 1 - v <= Start(page) + PageSize
  <1> DEFINE rows == Rows(page)
             from == Start(page)
  <1>1. /\ rows \in Seq(1..cast) /\ from \in Nat
        /\ \A k \in 1..Len(rows) : /\ from + k \in 1..Len(list) /\ k <= PageSize
                                    /\ rows[k] = list[from + k]
        /\ \A p \in 1..Len(list) :
             from < p /\ p <= from + PageSize => p - from \in 1..Len(rows)
    BY RowsAre
  <1>2. /\ cast \in Nat /\ PageSize \in Nat
        /\ \A v \in asked : v \in 1..cast
    BY MovedIs DEF TypeInv
  <1>3. ToSet(out) \subseteq ToSet(Read)
        /\ \A v \in Considered(rows) : at[v] > since => v \in ToSet(Read)
    <2>1. /\ out \in Seq({v \in 1..cast : kind[v] = "like"})
          /\ Kept(rows) \in Seq({v \in 1..cast : kind[v] = "like"})
          /\ ToSet(Kept(rows)) = {v \in Considered(rows) : at[v] > since}
      BY PageIs DEF TypeInv, WalkTypeOK
    <2>2. CASE rows # <<>>
      <3>1. ToSet(Read) = ToSet(out) \cup ToSet(Kept(rows))
        BY <2>1, <2>2, Joined DEF Read
      <3>2. QED BY <2>1, <3>1
    <2>3. CASE rows = <<>>
      <3>1. ToSet(rows) = {}
        BY <2>3, ReadIs
      <3>2. QED BY <2>3, <3>1 DEF Read, Considered
    <2>4. QED BY <2>2, <2>3
  <1>4. \A v \in ToSet(rows) : at[v] > since /\ kind[v] = "like" => v \in ToSet(Read)
    <2> TAKE v \in ToSet(rows)
    <2>1. CASE v \in seen
      BY <1>3, <2>1 DEF AllSeen
    <2>2. CASE v \notin seen
      BY <1>3, <2>2 DEF Considered
    <2>3. QED BY <2>1, <2>2
  <1>5. ASSUME NEW v \in asked, cast + 1 - v <= from + PageSize PROVE Known(v)
    <2> DEFINE p == cast + 1 - v
    <2>1. p \in 1..cast /\ cast + 1 - p = v
      BY <1>2
    <2>2. CASE p <= from
      <3>1. Accounted(v)
        BY <2>2 DEF AllSeen
      <3>2. QED BY <1>3, <3>1 DEF Accounted, Known
    <2>3. CASE ~ (p <= from)
      <3>1. Len(list) = cast /\ list[p] = v
        BY <2>1 DEF AllSeen
      <3>2. p - from \in 1..Len(rows) /\ from + (p - from) = p
        BY <1>1, <1>2, <1>5, <2>1, <2>3, <3>1
      <3>3. rows[p - from] = v
        BY <1>1, <3>1, <3>2
      <3>4. v \in ToSet(rows)
        BY <1>1, <3>2, <3>3, ToSetIs
      <3>5. QED BY <1>4, <3>4 DEF Known, Drops
    <2>4. QED BY <2>2, <2>3
  <1>6. ASSUME NEW v \in ToSet(rows) PROVE cast + 1 - v <= from + PageSize
    <2>1. PICK k \in 1..Len(rows) : rows[k] = v
      BY <1>1, ToSetIs
    <2>2. from + k \in 1..cast /\ list[from + k] = v /\ k <= PageSize /\ k \in Nat
      BY <1>1, <2>1 DEF AllSeen
    <2>3. v = cast + 1 - (from + k)
      BY <2>2 DEF AllSeen
    <2>4. QED BY <1>1, <1>2, <2>2, <2>3
  <1>7. \A v \in VoteIDs(rows) : v \in ToSet(rows)
    BY DEF VoteIDs
  <1>8. \A v \in seen \cup VoteIDs(rows) :
          at[v] > since /\ kind[v] = "like" => v \in ToSet(Read)
    BY <1>3, <1>4, <1>7 DEF AllSeen
  <1>9. QED BY <1>5, <1>6, <1>7, <1>8

\* The three ways to end well.
LEMMA EndsComplete ==
  ASSUME TypeInv, FewCast, AllSeen, result = "walking",
         ~ dropped, ~ Drops(Rows(page)),
         \/ Rows(page) = <<>>
         \/ /\ Rows(page) # <<>>
            /\ ~ Progressed(Rows(page)) \/ BelowWatermark(Rows(page)),
         NEW v \in asked, at[v] > since
  PROVE  (kind[v] = "like" /\ v \in ToSet(Read)) \/ kind[v] = "other"
  <1> DEFINE rows == Rows(page)
             from == Start(page)
  <1>1. /\ rows \in Seq(1..cast) /\ from \in Nat
        /\ \A k \in 1..Len(rows) : /\ from + k \in 1..Len(list) /\ k <= PageSize
                                    /\ rows[k] = list[from + k]
        /\ \A p \in 1..Len(list) :
             from < p /\ p <= from + PageSize => p - from \in 1..Len(rows)
        /\ rows = <<>> => Len(list) <= from
    BY RowsAre
  <1>2. /\ cast \in Nat /\ PageSize \in Nat \ {0} /\ Moved \in Nat /\ Moved < PageSize
        /\ v \in 1..cast /\ v \in Votes /\ cast <= NVotes
    BY MovedIs, WalkConstants DEF TypeInv, WalkTypeOK, Votes
  <1>3. Known(v) => (kind[v] = "like" /\ v \in ToSet(Read)) \/ kind[v] = "other"
    BY <1>2, WalkConstants DEF Known, TypeInv, RowKinds
  <1>4. CASE rows = <<>>
    <2>1. cast + 1 - v <= from + PageSize
      BY <1>1, <1>2, <1>4 DEF AllSeen
    <2>2. QED BY <1>3, <2>1, KnownIs
  <1>5. CASE rows # <<>> /\ ~ Progressed(rows)
    <2>1. \A w \in ToSet(rows) : w \in seen
      BY <1>5 DEF Progressed, VoteIDs, Drops
    <2>2. ~ (from + PageSize <= cast)
      <3> SUFFICES ASSUME from + PageSize <= cast PROVE FALSE
        OBVIOUS
      <3> DEFINE p == from + PageSize
                 w == list[p]
      <3>1. p \in 1..Len(list) /\ from < p /\ p - from = PageSize /\ Len(list) = cast
        BY <1>1, <1>2 DEF AllSeen
      <3>2. PageSize \in 1..Len(rows) /\ rows[PageSize] = w
        BY <1>1, <1>2, <3>1
      <3>3. w \in seen /\ w = cast + 1 - p
        BY <1>1, <2>1, <3>1, <3>2, ToSetIs DEF AllSeen
      <3>4. cast + 1 - w <= from + Moved
        BY <3>3 DEF AllSeen
      <3>5. QED BY <1>1, <1>2, <3>1, <3>3, <3>4
    <2>3. cast + 1 - v <= from + PageSize
      BY <1>1, <1>2, <2>2
    <2>4. QED BY <1>3, <2>3, KnownIs
  <1>6. CASE rows # <<>> /\ BelowWatermark(rows)
    <2>1. PICK w \in Considered(rows) : ~ (at[w] > since)
      <3>1. Considered(rows) # {} /\ Kept(rows) = <<>>
        BY <1>6 DEF BelowWatermark
      <3>2. ToSet(Kept(rows)) = {}
        BY <3>1, EmptySeq DEF ToSet
      <3>3. ToSet(Kept(rows)) = {u \in Considered(rows) : at[u] > since}
        BY PageIs
      <3>4. QED BY <3>1, <3>2, <3>3
    <2>2. w \in 1..cast /\ cast + 1 - w <= from + PageSize
      <3>1. w \in ToSet(rows) /\ w \in VoteIDs(rows)
        BY DEF Considered, VoteIDs
      <3>2. QED BY <1>1, <3>1, KnownIs, ToSetIs
    <2>3. w < v
      <3>1. w \in Votes /\ at[w] \in Nat /\ at[v] \in Nat /\ since \in Nat
        BY <1>2, <2>2, WalkConstants DEF TypeInv, WalkTypeOK, Votes
      <3>2. v < w => at[v] <= at[w]
        BY <1>2, <3>1 DEF TypeInv
      <3>3. v # w
        BY <2>1
      <3>4. v < w \/ w < v
        BY <1>2, <2>2, <3>3
      <3>5. QED BY <2>1, <3>1, <3>2, <3>4
    <2>4. cast + 1 - v <= from + PageSize
      BY <1>1, <1>2, <2>2, <2>3
    <2>5. QED BY <1>3, <2>4, KnownIs
  <1>7. QED BY <1>4, <1>5, <1>6

LEMMA SeenFetch ==
  ASSUME TypeInv, FewCast, AllSeen, FetchPage
  PROVE  AllSeen'
  <1>0. /\ result = "walking" /\ UNCHANGED <<at, kind, list, cast, since, asked>>
        /\ Start(page) \in Nat /\ Start(page + 1) = Start(page) + PageSize
    BY FetchIs, MovedIs, StartIs
  <1>1. ToSet(Reverse(Read)) = ToSet(Read)
    BY ReadIs, ReverseIs
  <1>2. (Len(list) = cast /\ \A p \in 1..cast : list[p] = cast + 1 - p)'
    BY <1>0 DEF AllSeen
  <1>3. CASE result' = "walking"
    <2>1. /\ out' = Read /\ page' = page + 1 /\ seen' = seen \cup VoteIDs(Rows(page))
          /\ dropped' = (dropped \/ Drops(Rows(page)))
          /\ Start(page)' = Start(page) + PageSize /\ Moved' = Moved
      BY <1>0, <1>3, FetchIs DEF Start, Moved
    <2>2. \A v \in seen' : at'[v] > since' /\ kind'[v] = "like" => v \in ToSet(out')
      BY <1>0, <2>1, KnownIs
    <2>3. \A v \in seen' : cast + 1 - v <= (Start(page) + PageSize) + Moved
      <3> TAKE v \in seen'
      <3>1. /\ cast \in Nat /\ PageSize \in Nat /\ Moved \in Nat /\ Start(page) \in Nat
            /\ v \in 1..cast
        BY <1>0, <2>1, MovedIs, PageIs DEF TypeInv, WalkTypeOK, VoteIDs
      <3>2. CASE v \in seen
        <4>1. cast + 1 - v <= Start(page) + Moved
          BY <1>0, <3>2 DEF AllSeen
        <4>2. QED BY <3>1, <4>1
      <3>3. CASE v \in VoteIDs(Rows(page))
        <4>1. cast + 1 - v <= Start(page) + PageSize
          BY <1>0, <3>3, KnownIs
        <4>2. QED BY <3>1, <4>1
      <3>4. QED BY <2>1, <3>2, <3>3
    <2>4. \A v \in asked : cast + 1 - v <= Start(page) + PageSize => Accounted(v)'
      <3>1. \A v \in asked : cast + 1 - v <= Start(page) + PageSize => Known(v)
        BY <1>0, KnownIs
      <3>2. QED BY <1>0, <2>1, <3>1 DEF Known, Accounted
    <2>5. QED BY <1>0, <1>2, <1>3, <2>1, <2>2, <2>3, <2>4 DEF AllSeen
  <1>4. CASE result' = "complete"
    <2>1. /\ out' = Reverse(Read) /\ ~ dropped
          /\ \/ Rows(page) = <<>>
             \/ /\ Rows(page) # <<>> /\ ~ Drops(Rows(page))
                /\ ~ Progressed(Rows(page)) \/ BelowWatermark(Rows(page))
      BY <1>4, FetchIs
    <2>2. ~ Drops(Rows(page))
      BY <2>1, ReadIs DEF Drops
    <2>3. \A v \in asked : at[v] > since =>
            (kind[v] = "like" /\ v \in ToSet(Read)) \/ kind[v] = "other"
      BY <1>0, <2>1, <2>2, EndsComplete
    <2>4. \A v \in asked' : NotSkipped(v)'
      BY <1>0, <1>1, <2>1, <2>3 DEF NotSkipped
    <2>5. QED BY <1>2, <1>4, <2>4 DEF AllSeen
  <1>5. CASE result' \notin {"walking", "complete"}
    BY <1>2, <1>5 DEF AllSeen
  <1>6. QED BY <1>3, <1>4, <1>5

LEMMA SeenCast ==
  ASSUME TypeInv, AllSeen, CastVote
  PROVE  AllSeen'
  <1>1. /\ result = "walking" /\ cast' = cast + 1
        /\ UNCHANGED <<at, kind, since, page, seen, out, dropped, result, asked>>
    BY DEF CastVote
  <1>2. /\ Len(list) = cast /\ \A p \in 1..cast : list[p] = cast + 1 - p
        /\ Len(list') = Len(list) + 1 /\ list'[1] = cast + 1
        /\ \A p \in 1..Len(list) : list'[p + 1] = list[p]
        /\ \A p \in 1..Len(list') : p = 1 \/ p - 1 \in 1..Len(list)
    BY CastList DEF AllSeen
  <1>3. cast \in Nat /\ Moved \in Nat /\ Cardinality(asked) \in Nat /\ Start(page) \in Nat
    <2>1. cast \in Nat /\ page \in Nat \ {0} /\ Moved \in Nat
      BY MovedIs
    <2>2. Start(page) \in Nat
      BY <2>1, StartIs
    <2>3. Cardinality(asked) \in 0..cast
      BY DEF TypeInv
    <2>4. QED BY <2>1, <2>2, <2>3
  <1>4. Moved' = Moved + 1 /\ Start(page)' = Start(page)
    BY <1>1, <1>3 DEF Moved, Start
  <1>5. \A p \in 1..(cast + 1) : list'[p] = (cast + 1) + 1 - p
    <2> TAKE p \in 1..(cast + 1)
    <2>1. CASE p = 1
      BY <1>2, <1>3, <2>1
    <2>2. CASE p # 1
      <3>1. p - 1 \in 1..cast /\ (p - 1) + 1 = p
        BY <1>3, <2>2
      <3>2. list'[p] = list[p - 1] /\ list[p - 1] = cast + 1 - (p - 1)
        BY <1>2, <3>1
      <3>3. QED BY <1>3, <3>1, <3>2
    <2>3. QED BY <2>1, <2>2
  <1>6. seen \subseteq 1..cast /\ asked \subseteq 1..cast
    <2>1. asked = 1..Cardinality(asked) /\ Cardinality(asked) <= cast
      BY <1>3 DEF TypeInv
    <2>2. QED BY <1>3, <2>1 DEF TypeInv, WalkTypeOK
  <1>7. \A v \in seen : (cast + 1) + 1 - v <= Start(page) + (Moved + 1)
    <2> TAKE v \in seen
    <2>1. cast + 1 - v <= Start(page) + Moved /\ v \in Nat
      BY <1>1, <1>6 DEF AllSeen
    <2>2. QED BY <1>3, <2>1
  <1>8. \A v \in asked : (cast + 1) + 1 - v <= Start(page) => Accounted(v)
    <2> TAKE v \in asked
    <2>1. v \in Nat
      BY <1>6
    <2>2. (cast + 1) + 1 - v <= Start(page) => cast + 1 - v <= Start(page)
      BY <1>3, <2>1
    <2>3. QED BY <1>1, <2>2 DEF AllSeen
  <1>9. \A v \in asked : Accounted(v)' = Accounted(v)
    BY <1>1 DEF Accounted
  <1>10. \A v \in seen : at[v] > since /\ kind[v] = "like" => v \in ToSet(out)
    BY <1>1 DEF AllSeen
  <1>11. QED
    BY <1>1, <1>2, <1>4, <1>5, <1>7, <1>8, <1>9, <1>10 DEF AllSeen

LEMMA SeenStep ==
  ASSUME TypeInv, FewCast /\ gone = {} => AllSeen, [WalkNext]_walkVars
  PROVE  FewCast' /\ gone' = {} => AllSeen'
  <1> SUFFICES ASSUME FewCast', gone' = {} PROVE AllSeen'
    OBVIOUS
  <1>1. FewCast
    BY FewBefore
  <1>2. CASE FetchPage
    BY <1>1, <1>2, FetchIs, SeenFetch
  <1>3. CASE CastVote
    BY <1>1, <1>3, SeenCast DEF CastVote
  <1>4. CASE WithdrawVote
    BY <1>4 DEF WithdrawVote
  <1>5. CASE UNCHANGED walkVars
    BY <1>1, <1>5 DEF walkVars, AllSeen, Accounted, NotSkipped, Start, Moved
  <1>6. QED BY <1>2, <1>3, <1>4, <1>5 DEF WalkNext

LEMMA WalkInitially == WalkInit => WalkInv
  <1> SUFFICES ASSUME WalkInit PROVE WalkInv
    OBVIOUS
  <1>1. TypeInv
    BY TypeInitially
  <1>2. Len(out) = 0 /\ ToSet(out) = {} /\ seen = {} /\ result = "walking"
    BY EmptySeq DEF WalkInit, ToSet
  <1>3. OrderInv
    BY <1>2 DEF WalkInit, OrderInv, Descending, Late
  <1>4. cast \in Nat
    BY <1>1, MovedIs
  <1>5. list = [p \in 1..cast |-> cast + 1 - p]
    BY DEF WalkInit
  <1>6. Len(list) = cast /\ \A p \in 1..cast : list[p] = cast + 1 - p
    BY <1>4, <1>5
  <1>7. Start(page) = 0
    <2>1. page - 1 = 0 /\ PageSize \in Nat
      BY WalkConstants DEF WalkInit
    <2>2. QED BY <2>1 DEF Start
  <1>8. \A v \in asked : ~ (cast + 1 - v <= Start(page))
    BY <1>4, <1>7 DEF WalkInit
  <1>9. AllSeen
    BY <1>2, <1>6, <1>8 DEF AllSeen
  <1>10. QED BY <1>1, <1>3, <1>9 DEF WalkInv

LEMMA WalkInvariant == WalkSpec => []WalkInv
  <1>1. WalkInv /\ [WalkNext]_walkVars => WalkInv'
    BY TypeStep, OrderStep, SeenStep DEF WalkInv
  <1>2. QED BY <1>1, WalkInitially, PTL DEF WalkSpec

-----------------------------------------------------------------------------
\* Nothing but likes is returned, and the page to ask for stays within the
\* limit (difm.go, ListLikedTracks).
THEOREM WalkTypes == WalkSpec => []WalkTypeOK
  <1>1. WalkInv => WalkTypeOK
    BY DEF WalkInv, TypeInv
  <1>2. QED BY <1>1, WalkInvariant, PTL

\* However votes are cast and withdrawn under it, less than a page of them, the
\* walk returns each like once, oldest first (difm.go, seen and the reversal).
THEOREM ResultIsInOrder == WalkSpec => []InOrder
  <1>1. WalkInv => InOrder
    <2> SUFFICES ASSUME WalkInv, result \in Ended, FewCast,
                        NEW p \in 1..Len(out), NEW q \in 1..Len(out), p < q
                 PROVE  out[p] # out[q] /\ at[out[p]] <= at[out[q]]
      BY DEF InOrder
    <2>1. Ascending(out)
      BY DEF WalkInv, OrderInv, Ended
    <2>2. out[p] \in 1..cast /\ out[q] \in 1..cast
      <3>1. out \in Seq({v \in 1..cast : kind[v] = "like"})
        BY DEF WalkInv, TypeInv, WalkTypeOK
      <3>2. QED BY <3>1, ElementOfSeq
    <2>3. cast \in Nat /\ cast <= NVotes /\ NVotes \in Nat
      BY WalkConstants DEF WalkInv, TypeInv, WalkTypeOK
    <2>4. out[p] \in Votes /\ out[q] \in Votes /\ out[p] < out[q]
      BY <2>1, <2>2, <2>3 DEF Ascending, Votes
    <2>5. out[p] # out[q]
      BY <2>2, <2>3, <2>4
    <2>6. QED BY <2>4, <2>5 DEF WalkInv, TypeInv
  <1>2. QED BY <1>1, WalkInvariant, PTL

\* A walk that reports no error has returned every like after the watermark, as
\* long as nothing was withdrawn and less than a page was cast (difm.go:
\* complete is set on three ways out of the loop).
THEOREM NothingIsPassedOver == WalkSpec => []CompleteIsComplete
  <1>1. WalkInv => CompleteIsComplete
    BY DEF WalkInv, AllSeen, CompleteIsComplete
  <1>2. QED BY <1>1, WalkInvariant, PTL
=============================================================================
