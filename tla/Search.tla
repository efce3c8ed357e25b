------------------------------- MODULE Search -------------------------------
(***************************************************************************)
(* Client.Search (pkg/spotify/spotify.go): an exact lookup by recording    *)
(* code, a query scoped to artist and title, a freeform one, the scoring   *)
(* of what was found; and what a pass makes of the result (engine.go).     *)
(* Each request to Spotify is one step.                                    *)
(*                                                                         *)
(* Left out: the text of the queries, and what a response holds beside its *)
(* tracks.  Spotify's answers are any tracks of the catalogue, in any      *)
(* order, and not always the ones that were asked for.                     *)
(***************************************************************************)
EXTENDS Matching

CONSTANTS
  Wanted,      \* likes: tracks, with an isrc
  Catalogue,   \* Spotify's tracks: tracks, with an id and an isrc
  NoCode,      \* no isrc
  MaxResults,  \* maxSearchResults
  TopN,        \* how many candidates a queue row keeps
  AutoAt, ReviewAt \* Thresholds

ASSUME TracksOK == \A t \in Wanted \cup Catalogue : IsTrack(t)
ASSUME SearchConstants ==
  /\ MaxResults \in Nat /\ TopN \in Nat
  /\ AutoAt \in Nat /\ ReviewAt \in Nat

\* At least the defaults of --auto-threshold and --review-threshold.
ASSUME ThresholdsOK == AutoAt >= 850 /\ ReviewAt >= 600

VARIABLES
  want,     \* the like that is searched for; NoCode when none is
  pc,       \* what Search does next
  lookup,   \* history: how the lookup by code ended
  answered, \* history: the queries Spotify answered
  failed,   \* lastErr # nil
  found,    \* the tracks of the first query that found any
  scored,   \* what Search returns: tracks with scores, best first
  verdict   \* what the pass decides

searchVars == <<want, pc, lookup, answered, failed, found, scored, verdict>>

Steps == {"isrc", "scoped", "freeform", "score", "decide", "done"}
Verdicts == {"none", "auto", "review", "no match", "failed", "abort"}

SearchIdle ==
  /\ want = NoCode /\ pc = "done" /\ lookup = "none"
  /\ answered = {} /\ failed = FALSE
  /\ found = <<>> /\ scored = <<>> /\ verdict = "none"

SearchInit ==
  /\ want \in Wanted /\ pc = "isrc" /\ lookup = "none"
  /\ answered = {} /\ failed = FALSE
  /\ found = <<>> /\ scored = <<>> /\ verdict = "none"

-----------------------------------------------------------------------------
\* How a request ends: with tracks; refused for every request to come (429,
\* 401, 403); or failed on its own (any other status, transport, decoding).
Answers == UNION {[1..n -> Catalogue] : n \in 0..MaxResults}
Refusals == {"rate limited", "unauthorized"}

\* A refusal ends the search, and the pass.
Stop == /\ pc' = "done" /\ verdict' = "abort"
        /\ UNCHANGED <<want, lookup, answered, failed, found, scored>>

\* The tracks of an answer that carry the code that was asked for.
Hits(items) == {n \in DOMAIN items : items[n].isrc = want.isrc}

SkipLookup ==
  /\ pc = "isrc" /\ want.isrc = NoCode
  /\ pc' = "scoped"
  /\ UNCHANGED <<want, lookup, answered, failed, found, scored, verdict>>

ExactResult(t) == << [track |-> t, score |-> 1000] >>

\* searchByISRC: the first exact hit is the whole result.
LookUpCode ==
  /\ pc = "isrc" /\ want.isrc # NoCode
  /\ \E items \in Answers :
       \/ /\ \E n \in Hits(items) :
               /\ \A m \in Hits(items) : n <= m
               /\ scored' = ExactResult(items[n])
          /\ pc' = "decide" /\ lookup' = "hit"
       \/ /\ Hits(items) = {}
          /\ pc' = "scoped" /\ lookup' = "miss"
          /\ UNCHANGED scored
  /\ UNCHANGED <<want, answered, failed, found, verdict>>

\* A failure that is no refusal is not reported.
LookUpFails ==
  /\ pc = "isrc" /\ want.isrc # NoCode
  /\ pc' = "scoped" /\ lookup' = "failed"
  /\ UNCHANGED <<want, answered, failed, found, scored, verdict>>

Refused == pc \in {"isrc", "scoped", "freeform"}
           /\ (pc = "isrc" => want.isrc # NoCode)
           /\ \E r \in Refusals : Stop

\* The query after this one; after the last, the search has failed or has
\* found nothing.
AfterQuery == IF pc = "scoped" THEN "freeform" ELSE "decide"

Query ==
  /\ pc \in {"scoped", "freeform"}
  /\ \E items \in Answers :
       /\ found' = items
       /\ pc' = IF items = <<>> THEN AfterQuery ELSE "score"
  /\ answered' = answered \cup {pc}
  /\ UNCHANGED <<want, lookup, failed, scored, verdict>>

\* Slip: a query that fails has found nothing.
QueryFailsQuietly ==
  /\ pc \in {"scoped", "freeform"}
  /\ pc' = AfterQuery
  /\ UNCHANGED <<want, lookup, answered, failed, found, scored, verdict>>

\* The freeform query backs up a scoped one that fails, too.
QueryFails ==
  /\ pc \in {"scoped", "freeform"}
  /\ failed' = TRUE
  /\ pc' = AfterQuery
  /\ UNCHANGED <<want, lookup, answered, found, scored, verdict>>

\* Slip: the candidate of a score is left blank.
RatedBlank(items, order) ==
  [p \in DOMAIN order |-> [track |-> NoCode, score |-> Score(want, items[order[p]])]]

\* The tracks with their scores, in a given order.
Rated(items, order) ==
  [p \in DOMAIN order |-> [track |-> items[order[p]],
                           score |-> Score(want, items[order[p]])]]

\* Slip: best last.
PrecedesUp(items, m, n) ==
  \/ Score(want, items[m]) < Score(want, items[n])
  \/ Score(want, items[m]) = Score(want, items[n]) /\ m < n

\* Equal scores stay in Spotify's order.
Precedes(items, m, n) ==
  \/ Score(want, items[m]) > Score(want, items[n])
  \/ Score(want, items[m]) = Score(want, items[n]) /\ m < n

ScoreFound ==
  /\ pc = "score"
  /\ \E order \in [DOMAIN found -> DOMAIN found] :
       /\ \A p, q \in DOMAIN found :
            p < q => Precedes(found, order[p], order[q])
       /\ scored' = Rated(found, order)
  /\ pc' = "decide"
  /\ UNCHANGED <<want, lookup, answered, failed, found, verdict>>

\* The pass: the first of the result is its best.
Band == IF scored = <<>> THEN "no match"
        ELSE IF scored[1].score >= AutoAt THEN "auto"
        ELSE IF scored[1].score >= ReviewAt THEN "review" ELSE "no match"

Decide ==
  /\ pc = "decide"
  /\ verdict' = IF scored = <<>> /\ failed THEN "failed" ELSE Band
  /\ pc' = "done"
  /\ UNCHANGED <<want, lookup, answered, failed, found, scored>>

\* Candidates as the review queue keeps them.
Queued == {scored[n].track.id : n \in {n \in DOMAIN scored : n <= TopN}}

SearchNext == \/ SkipLookup \/ LookUpCode \/ LookUpFails \/ Refused
              \/ Query \/ QueryFails \/ ScoreFound \/ Decide
SearchSpec == SearchInit /\ [][SearchNext]_searchVars

-----------------------------------------------------------------------------
Scored == [track : Catalogue, score : 0..1000]

SearchTypeOK ==
  /\ want \in Wanted \cup {NoCode} /\ pc \in Steps
  /\ lookup \in {"none", "hit", "miss", "failed"} /\ failed \in BOOLEAN
  /\ answered \subseteq {"scoped", "freeform"}
  /\ found \in Seq(Catalogue) /\ scored \in Seq(Scored)
  /\ verdict \in Verdicts

Exact(t) == want.isrc # NoCode /\ t.isrc = want.isrc

\* An automatic addition cannot be taken back: the track carries the code that
\* was asked for, or its title and artists agree for the most part and it is
\* no other version of the recording ("the result must land well below the
\* auto-add bar", score.go, hardConflictPenalty and artistGate).
AutoIsEvident ==
  verdict = "auto" =>
    LET t == scored[1].track IN
      \/ Exact(t)
      \/ /\ ~ Conflict(want, t)
         /\ Similarity(want.title, t.title) >= 600
         /\ ArtistSimilarity(want.artists, t.artists) >= 600

\* "Queuing it as no_match would record 'Spotify does not have this' when what
\* actually happened is 'we could not ask'" (engine.go): a like is set down as
\* unmatched, with nothing to show for it, only if both queries were answered.
UnmatchedWasAsked ==
  verdict = "no match" /\ scored = <<>> => answered = {"scoped", "freeform"}

\* The queue shows the operator the likeliest tracks: what it leaves out of
\* what was found is no better than anything it keeps, and the best is kept.
QueueKeepsTheBest ==
  pc = "done" /\ found # <<>> /\ scored # <<>> =>
    /\ {scored[n].track : n \in DOMAIN scored} = {found[n] : n \in DOMAIN found}
    /\ \A n \in DOMAIN found : \A k \in DOMAIN scored :
         k <= TopN /\ found[n].id \notin Queued
           => scored[k].score >= Score(want, found[n])

\* "Only a genuine miss may fall through to the fuzzy path" (spotify.go,
\* searchByISRC): a like that has a code is matched by its likeness alone
\* only after Spotify has said that it does not know the code.
OnlyMissFallsThrough ==
  verdict = "auto" /\ want.isrc # NoCode /\ ~ Exact(scored[1].track)
    => lookup = "miss"
=============================================================================
