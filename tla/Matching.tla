------------------------------ MODULE Matching ------------------------------
(***************************************************************************)
(* pkg/match: what a title's descriptors say about the version of a        *)
(* recording (normalize.go), and how a candidate is scored (score.go).     *)
(*                                                                         *)
(* A name (an artist, a bare title, a remixer) is the sequence of words    *)
(* that Normalize leaves of it, <<>> when nothing is left.  Scores are     *)
(* thousandths, rounded down, where the code has floats in [0, 1].         *)
(*                                                                         *)
(* How similar two names are is a parameter: Levenshtein.tla computes it   *)
(* the way ratio does.  Left out: the regular expressions that cut a text  *)
(* into artists, title and descriptors, the rationale a score comes with,  *)
(* and a keyword found inside a longer word.                               *)
(***************************************************************************)
EXTENDS Naturals, Sequences, FiniteSets, FiniteSetsExt

CONSTANTS
  Names,             \* the names that are compared
  Similarity(_, _)   \* ratio

\* What is used of ratio: two names are wholly similar when they are equal,
\* and an empty one is similar to none, itself included.
ASSUME SimilarityOK ==
  <<>> \in Names /\ \A a, b \in Names : Similarity(a, b) \in 0..1000
ASSUME SimilarityAgrees ==
  \A a, b \in Names : /\ Similarity(a, b) = Similarity(b, a)
                      /\ Similarity(a, <<>>) = 0
                      /\ a # <<>> => Similarity(a, a) = 1000

Kinds == {"unknown", "original", "extended", "radio", "remix", "instrumental",
          "live", "acoustic"}
Version(kind, remixer) == [kind |-> kind, remixer |-> remixer]
Unknown == Version("unknown", <<>>)

-----------------------------------------------------------------------------
RemixMarkers == {"remix", "rmx", "bootleg", "vip"}
Modifiers == {"extended", "radio", "edit", "instrumental", "live", "acoustic",
              "club", "original", "vocal", "dub", "mix", "version", "short",
              "long", "full", "re", "the"}

\* Slip: modifiers go wherever they stand.
NamedAnywhere(prefix) ==
  SelectSeq(prefix, LAMBDA w : w \notin Modifiers \cup RemixMarkers)

\* The remixer named by the words before the marker: modifiers and markers
\* are dropped from the tail only.
RemixerName(prefix) ==
  LET Naming == {n \in 1..Len(prefix) :
                   prefix[n] \notin Modifiers \cup RemixMarkers}
  IN IF Naming = {} THEN <<>> ELSE SubSeq(prefix, 1, Max(Naming))

Has(words, phrase) ==
  \E n \in 1..(Len(words) + 1 - Len(phrase)) :
    SubSeq(words, n, n + Len(phrase) - 1) = phrase

\* The keywords of the other kinds, in the order they are looked for.
Keywords ==
  << <<"original", << <<"original">> >> >>,
     <<"extended", << <<"extended">>, <<"club", "mix">>, <<"12", "inch">> >> >>,
     <<"radio", << <<"radio">>, <<"short", "edit">> >> >>,
     <<"instrumental", << <<"instrumental">> >> >>,
     <<"acoustic", << <<"acoustic">> >> >>,
     <<"live", << <<"live">> >> >>,
     <<"original", << <<"mix">>, <<"edit">>, <<"version">> >> >> >>

Matches(words, k) == \E m \in DOMAIN Keywords[k][2] : Has(words, Keywords[k][2][m])

\* A descriptor's kind; the last marker bounds the remixer's name.
ClassifyVersion(words) ==
  LET markers == {n \in 1..Len(words) : words[n] \in RemixMarkers}
      found   == {k \in DOMAIN Keywords : Matches(words, k)}
  IN IF markers # {}
       THEN Version("remix", RemixerName(SubSeq(words, 1, Max(markers) - 1)))
     ELSE IF found # {} THEN Version(Keywords[Min(found)][1], <<>>)
     ELSE Unknown

PreferFirst(v, w) == IF v.kind = "unknown" THEN w ELSE v \* Slip: the first one stands

\* The version so far, and the next descriptor's.
Prefer(v, w) ==
  IF w.kind # "unknown" /\ (v.kind = "unknown" \/ w.kind = "remix") THEN w ELSE v

-----------------------------------------------------------------------------
Verdict(score, conflict) == [score |-> score, conflict |-> conflict]
Agree == Verdict(1000, FALSE)

\* Two remixes, by r and s: <<>> where no remixer is named.
RemixScore(r, s) ==
  IF r # <<>> /\ s # <<>>
    THEN IF Similarity(r, s) < 800
           THEN Verdict((Similarity(r, s) * 300) \div 1000, TRUE) ELSE Agree
  ELSE IF r # <<>> \/ s # <<>> THEN Verdict(550, TRUE) ELSE Agree

\* Two kinds, neither unknown nor remix, that cannot be one recording.
ConflictScore(kinds) ==
  CASE kinds = {"radio", "extended"}    -> 0
    [] kinds = {"original", "extended"} -> 450
    [] kinds = {"original", "radio"}    -> 350
    [] kinds \in {{"live", "original"}, {"live", "extended"},
                  {"acoustic", "original"}, {"instrumental", "original"}} -> 150
    [] OTHER -> 300

VersionScore(v, w) ==
  IF v.kind = w.kind
    THEN IF v.kind = "remix" THEN RemixScore(v.remixer, w.remixer) ELSE Agree
  ELSE IF "unknown" \in {v.kind, w.kind}
    THEN Verdict(IF "original" \in {v.kind, w.kind} THEN 850 ELSE 550, FALSE)
  ELSE IF "remix" \in {v.kind, w.kind} THEN Verdict(100, TRUE)
  ELSE Verdict(ConflictScore({v.kind, w.kind}), TRUE)

-----------------------------------------------------------------------------
\* Every wanted artist meets its best counterpart; got's extra ones cost 3%.
Best(w, got) == Max({Similarity(w, g) : g \in got})
Likeness(want, got) == MapThenSumSet(LAMBDA w : Best(w, got), want)

ArtistSimilarity(want, got) ==
  LET mean == Likeness(want, got) \div Cardinality(want)
  IN IF want = {} \/ got = {} THEN 0
     ELSE IF Cardinality(got) > Cardinality(want) THEN (mean * 970) \div 1000
     ELSE mean

Apart(d, e) == IF d > e THEN d - e ELSE e - d

DurationScore(d, e) ==
  IF Apart(d, e) <= 3 THEN 1000
  ELSE IF Apart(d, e) >= 60 THEN 0
  ELSE 1000 - ((Apart(d, e) - 3) * 1000) \div 57

ArtistGate(sim) == IF sim >= 700 THEN 1000 ELSE 450 + (sim * 550) \div 700

\* A track: its artists, title, version and runtime in seconds, 0 if unknown.
IsTrack(t) ==
  /\ t.artists \in SUBSET Names /\ IsFiniteSet(t.artists) /\ t.title \in Names
  /\ t.version.kind \in Kinds /\ t.version.remixer \in Names
  /\ t.dur \in Nat

\* The weighted components; an unknown runtime is no component.
Weighted(want, got) ==
  LET base == 40 * Similarity(want.title, got.title)
              + 30 * ArtistSimilarity(want.artists, got.artists)
              + 20 * VersionScore(want.version, got.version).score
  IN IF want.dur > 0 /\ got.dur > 0
       THEN (base + 10 * DurationScore(want.dur, got.dur)) \div 100
       ELSE base \div 90

Gated(want, got) ==
  (Weighted(want, got) * ArtistGate(ArtistSimilarity(want.artists, got.artists)))
    \div 1000

Conflict(want, got) == VersionScore(want.version, got.version).conflict

ScoreUnpenalised(want, got) == Gated(want, got) \* Slip: no penalty

Score(want, got) ==
  IF Conflict(want, got) THEN (Gated(want, got) * 750) \div 1000
                         ELSE Gated(want, got)
=============================================================================
