----------------------------- MODULE LikesWalk ------------------------------
(***************************************************************************)
(* ListLikedTracks of pkg/difm: the walk over DI.fm's votes, one page per  *)
(* request, while the member goes on voting.  Engine.tla reads the walk as *)
(* one atomic step; this module is what that step consists of.             *)
(*                                                                         *)
(* The server keeps the votes newest first, cuts them into pages at the    *)
(* moment it is asked, and sends an empty page past the end.  What it does *)
(* is taken from docs/difm-api.md and from how the client depends on it.   *)
(* A request that fails ends the walk with nothing, whatever the failure.  *)
(***************************************************************************)
EXTENDS Positions, SequencesExt

CONSTANTS
  NVotes,    \* votes are numbered as they are cast, 1..NVotes
  Times,     \* the latest second a vote may carry
  Kinds,     \* what the rows may look like, see below
  PageSize,  \* the server's
  MaxPages,  \* the client's
  Casts,     \* how many votes may be cast during a walk
  Withdrawals \* and how many withdrawn

Votes == 1..NVotes

\* "like": an upvote that can be read.  "other": a downvote, or a vote on no
\* track.  "drift": a row that cannot be read; "blank": its id cannot either.
RowKinds == {"like", "other", "drift", "blank"}

ASSUME WalkConstants ==
  /\ NVotes \in Nat /\ Times \in Nat \ {0}
  /\ Kinds \subseteq RowKinds
  /\ PageSize \in Nat \ {0} /\ MaxPages \in Nat \ {0}
  /\ Casts \in 0..NVotes /\ Withdrawals \in Nat

VARIABLES
  at, kind,  \* when each vote was cast, and what its row looks like
  list,      \* DI.fm's votes, newest first
  cast,      \* how many votes have been cast
  since,     \* the watermark, 0 when there is none
  page,      \* the page to ask for
  seen,      \* vote ids seen so far
  out,       \* the tracks to return
  dropped,   \* was a row dropped?
  result,    \* "walking", or how the walk ended
  asked,     \* history: the votes cast before the walk began
  gone       \* history: the votes withdrawn during the walk

walkVars == <<at, kind, list, cast, since, page, seen, out, dropped, result,
              asked, gone>>

Ended == {"complete", "dropped", "truncated", "failed"}

WalkInit ==
  /\ at \in [Votes -> 1..Times]
  /\ \A v, w \in Votes : v < w => at[v] <= at[w]
  /\ kind \in [Votes -> Kinds]
  /\ since \in 0..Times
  /\ cast \in NVotes - Casts .. NVotes
  /\ list = [i \in 1..cast |-> cast + 1 - i]
  /\ page = 1 /\ seen = {} /\ out = <<>> /\ dropped = FALSE
  /\ result = "walking"
  /\ asked = 1..cast /\ gone = {}

-----------------------------------------------------------------------------
\* The rows the server sends for a page.
Rows(n) == SubSeq(list, (n - 1) * PageSize + 1,
                  IF n * PageSize < Len(list) THEN n * PageSize ELSE Len(list))

\* What the client makes of a page.
VoteIDs(rows) == {v \in ToSet(rows) : kind[v] # "blank"}
Drops(rows) == \E v \in ToSet(rows) : kind[v] \in {"drift", "blank"}

\* Slip: every row that decodes is taken for a like.
ConsideredUnsorted(rows) == VoteIDs(rows) \ seen

\* Slip: a vote that was on the page before is taken again.
ConsideredAgain(rows) == {v \in ToSet(rows) : kind[v] = "like"}

\* The likes of a page that no page before it had.
Considered(rows) == {v \in ToSet(rows) : kind[v] = "like" /\ v \notin seen}

Kept(rows) == Only(rows, {v \in Considered(rows) : at[v] > since})

\* A page with a new id on it; a page of new votes that are all old ones.
Progressed(rows) == VoteIDs(rows) \ seen # {}

\* Slip: a page that offered no candidate ends the walk too.
BelowIfNothingKept(rows) == since > 0 /\ Kept(rows) = <<>>

BelowWatermark(rows) ==
  since > 0 /\ Considered(rows) # {} /\ Kept(rows) = <<>>

\* The walk is over: oldest first, and an error if a row was dropped.
OldestFirst(tracks) == out' = Reverse(tracks)

Finish(tracks, lost) ==
  /\ OldestFirst(tracks)
  /\ result' = IF lost THEN "dropped" ELSE "complete"

LastPage ==
  /\ Rows(page) = <<>>
  /\ Finish(out, dropped)
  /\ UNCHANGED <<page, seen, dropped>>

ReadPage ==
  LET rows == Rows(page) IN
    /\ rows # <<>>
    /\ seen' = seen \cup VoteIDs(rows)
    /\ dropped' = (dropped \/ Drops(rows))
    /\ page' = page + 1
    /\ \/ /\ ~ Progressed(rows) \/ BelowWatermark(rows)
          /\ Finish(out \o Kept(rows), dropped')
       \/ /\ Progressed(rows) /\ ~ BelowWatermark(rows)
          /\ page < MaxPages
          /\ out' = out \o Kept(rows)
          /\ UNCHANGED result
       \/ /\ Progressed(rows) /\ ~ BelowWatermark(rows)
          /\ page = MaxPages
          /\ OldestFirst(out \o Kept(rows))
          /\ result' = "truncated"

PageFails ==
  /\ out' = <<>> /\ result' = "failed"
  /\ UNCHANGED <<page, seen, dropped>>

FetchPage ==
  /\ result = "walking"
  /\ LastPage \/ ReadPage \/ PageFails
  /\ UNCHANGED <<at, kind, list, cast, since, asked, gone>>

\* The member votes: the list grows at its head.
CastVote ==
  /\ result = "walking" /\ cast < NVotes
  /\ cast' = cast + 1
  /\ list' = <<cast'>> \o list
  /\ UNCHANGED <<at, kind, since, page, seen, out, dropped, result, asked, gone>>

\* A vote is withdrawn: what follows it moves up.
WithdrawVote ==
  /\ result = "walking" /\ Cardinality(gone) < Withdrawals
  /\ \E v \in ToSet(list) :
       /\ list' = Only(list, ToSet(list) \ {v})
       /\ gone' = gone \cup {v}
  /\ UNCHANGED <<at, kind, cast, since, page, seen, out, dropped, result, asked>>

WalkNext == FetchPage \/ CastVote \/ WithdrawVote

WalkSpec == WalkInit /\ [][WalkNext]_walkVars

-----------------------------------------------------------------------------
WalkTypeOK ==
  /\ cast \in 0..NVotes /\ since \in 0..Times
  /\ list \in Seq(1..cast) /\ seen \subseteq 1..cast
  /\ out \in Seq({v \in 1..cast : kind[v] = "like"})
  /\ page \in 1..MaxPages + 1 /\ dropped \in BOOLEAN
  /\ result \in Ended \cup {"walking"}

\* Fewer votes were cast during the walk than a page holds.
FewCast == cast < Cardinality(asked) + PageSize

NotSkipped(v) ==
  at[v] > since => \/ kind[v] = "like" /\ v \in ToSet(out)
                   \/ kind[v] = "other"

\* "A caller that mistook truncation for completion would advance its
\* watermark past likes it never saw" (difm.go): a walk that reports no error
\* has every like after the watermark, and met no row after it that it could
\* not read - as long as the list did not move by a page under it, and no vote
\* was withdrawn.
CompleteIsComplete ==
  result = "complete" /\ gone = {} /\ FewCast =>
    \A v \in asked : NotSkipped(v)

\* "ListLikedTracks returns every upvoted track newer than since" (difm.go):
\* the same of every vote that was there all the while, whatever else was cast
\* or withdrawn.
NothingSkipped ==
  result = "complete" => \A v \in asked \ gone : NotSkipped(v)

\* The pass advances in the order of the result (engine.go): each like comes
\* once, and none before an older one, although pages shift under the walk -
\* by less than a page: a page's worth of new votes between two requests comes
\* into view on the second, after the older ones of the first.
InOrder ==
  result \in Ended /\ FewCast =>
    \A i, j \in 1..Len(out) : i < j => out[i] # out[j] /\ at[out[i]] <= at[out[j]]
=============================================================================
