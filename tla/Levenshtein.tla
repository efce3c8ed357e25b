----------------------------- MODULE Levenshtein -----------------------------
(***************************************************************************)
(* ratio and levenshtein of pkg/match/score.go: the edit distance of two   *)
(* strings by dynamic programming over two rows, one step for each cell.   *)
(* A string is a sequence of runes.                                        *)
(***************************************************************************)
EXTENDS Positions

CONSTANTS
  Runes,   \* the alphabet
  MaxLen   \* strings are at most this long

ASSUME MaxLenOK == MaxLen \in Nat

Strings == UNION {[1..n -> Runes] : n \in 0..MaxLen}

VARIABLES
  a, b,        \* the strings, the longer first (ar, br)
  i, j,        \* the cell to be filled
  prev, curr,  \* the rows
  dist         \* what levenshtein returns; NoDist until it does

levVars == <<a, b, i, j, prev, curr, dist>>

NoDist == MaxLen + 1
Rows == [0..Len(b) -> Nat]

LevIdle == /\ a = <<>> /\ b = <<>> /\ i = 1 /\ j = 1 /\ dist = NoDist
           /\ prev = <<>> /\ curr = <<>>

LevInit ==
  /\ a \in Strings /\ b \in Strings /\ Len(a) >= Len(b)
  /\ b # <<>> /\ a # b
  /\ i = 1 /\ j = 1 /\ dist = NoDist
  /\ prev = [k \in 0..Len(b) |-> k]
  /\ curr = [k \in 0..Len(b) |-> IF k = 0 THEN 1 ELSE 0]

Least(x, y, z) == IF x <= y /\ x <= z THEN x ELSE IF y <= z THEN y ELSE z

Cell ==
  LET cost == IF a[i] = b[j] THEN 0 ELSE 1
  IN Least(curr[j - 1] + 1, prev[j] + 1, prev[j - 1] + cost)

FillCell ==
  /\ i <= Len(a) /\ j <= Len(b)
  /\ curr' = [curr EXCEPT ![j] = Cell]
  /\ j' = j + 1
  /\ UNCHANGED <<a, b, i, prev, dist>>

\* Slip: the row that was just filled is filled again.
NextRowUnswapped ==
  /\ i <= Len(a) /\ j > Len(b)
  /\ curr' = [curr EXCEPT ![0] = i + 1]
  /\ i' = i + 1 /\ j' = 1
  /\ UNCHANGED <<a, b, prev, dist>>

\* The rows swap roles; the new row's first cell is the number of the row.
NextRow ==
  /\ i <= Len(a) /\ j > Len(b)
  /\ prev' = curr /\ curr' = [prev EXCEPT ![0] = i + 1]
  /\ i' = i + 1 /\ j' = 1
  /\ UNCHANGED <<a, b, dist>>

Return ==
  /\ i > Len(a) /\ dist = NoDist
  /\ dist' = prev[Len(b)]
  /\ UNCHANGED <<a, b, i, j, prev, curr>>

LevNext == FillCell \/ NextRow \/ Return
LevSpec == LevInit /\ [][LevNext]_levVars

\* Slip: the shorter string is the measure.
RatioByShorter(d) == ((Len(b) - d) * 1000) \div Len(b)

\* What ratio makes of the distance, in thousandths.
Ratio(d) == ((Len(a) - d) * 1000) \div Len(a)

-----------------------------------------------------------------------------
\* The distance: of all ways to keep some runes of x, in order, as runes of y,
\* the least number of runes that are then inserted, deleted or replaced.
Kept(x, y) == {p \in (SUBSET (1..Len(x))) \X (SUBSET (1..Len(y))) :
                 Cardinality(p[1]) = Cardinality(p[2])}
Edits(x, y, S, T) ==
  Len(x) + Len(y) - 2 * Cardinality(S)
    + Cardinality({n \in 1..Cardinality(S) : x[Nth(S, n)] # y[Nth(T, n)]})
IsDistance(d, x, y) ==
  /\ \E p \in Kept(x, y) : Edits(x, y, p[1], p[2]) = d
  /\ \A p \in Kept(x, y) : Edits(x, y, p[1], p[2]) >= d

\* "The standard two-row dynamic-programming edit distance": a finished row
\* holds the distances of a's first i - 1 runes from the beginnings of b,
\* whichever of the two rows it is in.
RowsAreDistances ==
  /\ j = 1 => \A k \in DOMAIN prev :
                IsDistance(prev[k], SubSeq(a, 1, i - 1), SubSeq(b, 1, k))
  /\ dist # NoDist => IsDistance(dist, a, b)

\* "A normalized Levenshtein similarity in [0,1]", measured in runes of the
\* longer string, and short of 1 for strings that differ.
RatioIsASimilarity ==
  dist # NoDist =>
    /\ dist \in 1..Len(a)
    /\ Ratio(dist) \in 0..999
=============================================================================
