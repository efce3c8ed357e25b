# A TLA+ model of difmsync

difmsync copies a member's likes on DI.fm into a Spotify playlist. One daemon
(`difmsync sync --loop`) does so every few minutes; one-shot commands run beside
it on the same SQLite file. Nothing it adds is ever removed again, and what its
watermark has passed is not fetched again until an operator says so, so the two
ways to be wrong, adding twice and skipping, do not mend themselves. This
directory models the program's control, checks it with TLC on small instances,
and proves with TLAPS, for every instance, each safety property that TLC checks
to hold, among them that the sync implements an abstract specification of what
it promises. Liveness is left to TLC.

## The system

### Components, their state and operations

| Component (code) | State | Operations | What makes it correct |
|---|---|---|---|
| Sync pass (`internal/syncer/engine.go`) | none between passes but the account copy; during one: the likes to do, the tracks it takes to be in the playlist, pending additions and ledger rows, high-water mark, "clean" | reload, fetch, reconcile, decide on each like, re-read, post, commit | the watermark passes no like that is not recorded or queued; nothing is added twice; a row follows its track |
| Store (`internal/store/sqlite`) | `accounts` (watermark, refresh token), `synced_tracks`, `review_queue`, `sync_runs` | one statement per call; the pass's commit is the only transaction | decisions and ledger rows survive re-reading; pruning removes nothing that is read |
| Resync (`cmd/difmsync/resync.go`) | flags, the earliest forgotten like | drop ledger rows, then rewind or clear the watermark | what is forgotten is re-read |
| Review (`cmd/difmsync/main.go`) | the chosen candidate | `--approve`: playlist, ledger, status; `--reject` | approved means recorded |
| DI.fm client (`pkg/difm`) | ids seen, tracks kept, rows dropped | walk the pages | no error means nothing missed |
| Spotify client (`pkg/spotify`) | access token, refresh token in memory, the one last persisted | search, read playlist, add in batches, refresh | a rotated token reaches the store |
| Runner and consent (`runloop.go`, `consent.go`, `authserver.go`, `auth.go`) | where the runner is; the listener, only while there is no token | wait for consent, run the engine, clear a revoked token, start over | only a dead token is deleted; every consent ends the wait |
| Housekeeping (`engine.go`, `backup.go`, `Store.SnapshotTo`, `Store.PruneRuns`) | backup directory, `lastAttempt` | one snapshot a day, prune files, prune rows | nothing unverified is published; the newest are kept |
| Status and health (`internal/status`) | none | read the tables, give a verdict | green only if real passes complete |
| Daemon loop (`internal/syncer/loop.go`, `serveWhile` in `main.go`, `httpserve.go`) | the next wait; the status listener beside it | run a pass, choose the delay, serve, wind down | a failed pass is followed by another, not too soon; every shutdown ends, and the store is closed last |
| Matching (`pkg/match`, `Client.Search`) | none beyond the call | classify a title's version, score a candidate, query by code, by field, freely | nothing is added unasked on likeness to another version; "could not ask" is not "not there" |

### How they interact

All processes share the database file and nothing else: the daemon, a second
`sync`, `sync --dry-run`, `resync`, `review`, `auth`. The store allows one
connection per process and SQLite serialises statements, so a statement is
atomic and a command is not. Outside the database are DI.fm's list of votes,
Spotify's playlist and Spotify's token endpoint; each can change between any two
calls and can fail any of them.

### What is hard

- A pass keeps for minutes what it read at its top: watermark, playlist, likes.
- It swallows single failures on purpose and must remember that it did.
- It writes Spotify, then the database: a crash between the two, a batch that
  went up and whose answer was lost.
- Commands change the ledger and the watermark under a running pass.
- Two likes may be one recording; two votes may carry the same second.
- The refresh token has several writers, and one deleter, in several processes.
- The list that is walked page by page moves while it is walked.
- Rows and snapshots are pruned by one process while another reads or writes.
- A search is up to three requests, each of which may fail, and its result is
  acted on for good.
- A shutdown, or the end of the status listener, comes in any state of the work
  beside it, with requests in flight.
- Delays come from a flag, a floor and a server's header, and the health probe's
  window has to agree with them.

`PROJECT.json` lists each hazard at its line with the properties that cover it,
or the reason why none does.

## The modules

| Module | Models | Uses |
|---|---|---|
| `SyncState` | the shared state and the store and playlist operations on it | |
| `Engine` | one pass, call by call | `SyncState` |
| `Operator` | resync, review, the member's votes and playlist edits | `SyncState` |
| `SyncSystem` | their interleaving, and what is promised of it | `Engine`, `Operator` |
| `SyncPromise` | the same promise with no pass, command or failure in sight | |
| `SyncRefinement` | the mapping under which `SyncSystem` implements it | `SyncSystem`, `SyncPromise` |
| `Matching` | version descriptors and the score of a candidate | |
| `Parsing` | the loop of `Parse` that settles a title's version | `Matching` |
| `Search` | `Client.Search` request by request, and the pass's three bands | `Matching` |
| `Positions` | a place in order among the members of a set of numbers; what a sequence keeps of a set | |
| `Levenshtein` | the edit distance cell by cell, and `ratio` | `Positions` |
| `Consent` | the refresh token and everyone who touches it | |
| `Daemon` | loop, runner, status listener and shutdown over time | |
| `LikesWalk` | the page walk that `Engine` takes as one step | `Positions` |
| `RunHistory` | `sync_runs`, snapshots, pruning and the health verdict | |
| `MCSync`, `MCMatch`, `MCConsent`, `MCDaemon`, `MCWalk`, `MCHistory` | small instances for TLC | |
| `SyncSafety_proofs` | types; the ledger follows the playlist; approvals, decisions and dry runs; no track is added twice | `SyncSystem` |
| `SyncLikes_proofs` | no like is lost; what is forgotten is re-read; the promise is kept | `SyncRefinement`, `SyncSafety_proofs` |
| `Positions_proofs` | lemmas about `Positions`, shared by the two below | `Positions` |
| `Match_proofs` | what is added unasked, what is queued, whose remix it is, the edit distance | `Search`, `Parsing`, `Levenshtein`, `Positions_proofs` |
| `LikesWalk_proofs` | the walk's result is in order and complete | `LikesWalk`, `Positions_proofs` |
| `Consent_proofs` | only dead tokens are deleted, consent that is reported is stored | `Consent` |
| `RunHistory_proofs` | snapshots, pruning, and the verdict | `RunHistory` |
| `Daemon_proofs` | delays, freshness and the order of the shutdown | `Daemon` |

Modules are split where the code shares no state: the token, the run history
and the walk do not read what the sync core reads, except that the core's
`Fetch` stands for a whole walk and its `Finds` for a whole search.
`Engine.FetchDropped` is the walk's "dropped" result and `Abort` its "truncated"
and "failed" ones; `Search`'s verdicts "auto", "review" and "no match" are
`Finds`' bands, "failed" is `Engine.Failed`, and "abort" `Abort`. In `Daemon` a pass
takes time and ends in one of the ways its loop tells apart; what it does is
`Engine`, and what the runner does with the token is `Consent`.

`SyncPromise` knows a mark, the likes, a row and a queue entry for each, and the
tracks the playlist has held. Its steps are a vote, its withdrawal, a track
gained, likes settled (the mark moves over nothing that is not placed), one
queued, one decided, rows forgotten. Of a pass of `SyncSystem`, each like put in the
queue maps to a `Queue`, each post to a `Gain` and the commit to a `Settle`; the
rest of it changes nothing that the promise speaks of.

### Reading an action

An action is what the code does between two points at which somebody else can
act: one store call, one request, one transaction. `Engine.Record`, for
instance, is the closure `record` of `engine.go`: three disjuncts for its three
ways out, a dry run, a row written, an error swallowed. A variable is commented
with the Go field or table column it stands for. History variables (`everIn`,
`forgotten`, `raced`, `shared`; `tries`, `verified`, `erased`, `cleanOn`; `asked`,
`gone`; `lookup`, `answered`; `since`, `asked`, `age`, `missed`, `cutShort`) are
marked so: no guard reads them, except that `gone` also counts withdrawals.

Definitions marked *Slip* are no part of the model. Each is a mistake the
definition after it might have contained (a missing reset, a guard dropped, two
calls swapped); substituting it makes TLC find one of the properties violated.

### Abstractions

- A like is its DI.fm track id, a Spotify track its id, a time a number of
  seconds (days in `RunHistory`). Payload, counts, error kinds and log lines are
  left out.
- In the sync core, what a Spotify search returns and how it scores is the
  constant `Finds`: for each like the set of possible answers, each a band, a
  best candidate and the candidates to queue. `Search` is where answers come from.
- Names are sequences of words, as `Normalize` leaves them, and how alike two
  are is the constant `Similarity`; scores are thousandths, rounded down, where
  the code has floats. Durations are seconds. `Levenshtein` works on runes.
- A keyword is a word: the code also finds it inside a longer word ("livestream").
- Reading the playlist's pages is one step. A listing of the backup directory
  and the removals after it are two.
- `Daemon` counts time in ticks and gives a bound to each call's time. What is
  due happens before the next tick. One status request stands for any number.
- One account, one playlist, as deployed.
- Environment events are counted by `Budget` (`Votes`, `Edits`, `Resyncs`,
  `Reviews`, `Syncs`, `Faults`, `Kills` in `MCSync`), `Uses`, `Kills`,
  `Deletions`, `Casts` and `Withdrawals`; `MaxTokens`, `MaxRuns`, `Days`,
  `MaxPages`, `Times`, `MaxResults`, `MaxWords`, `MaxDescs`, `MaxLen`, `Day` and
  `Word` bound what else could grow. These bounds are constants of the modules;
  the proofs hold for every value of them.

## What TLC checks

Runs end when the budgets are spent, and passes, runners and members may then
rest for ever, so configurations say `CHECK_DEADLOCK FALSE`: the program has no
state in which it could be stuck other than by resting.

| Run | Instance | Shows |
|---|---|---|
| `faults` | daemon, one-shot and dry run, three likes of which two may be one recording and one is a mix, votes that may share a second, any two failures | `NoLikeLost`, `DuplicateOnlyIfRaced`, `DryRunWritesNothing`, `TypeOK` |
| `beside` | daemon, one resync, two review commands, one fault, one kill | `NoLikeLost`, `LedgerAfterWrite`, `DuplicateOnlyIfRaced`, `ApprovedIsRecorded`, `DecisionsStand`, and the refinement `KeepsThePromise` |
| `quiet` | resync between passes only, a playlist edit, a fault, fair daemon | `ForgottenIsReread`, `EveryLikeSettles` |
| `consent` | daemon, one-shot, page and `auth`, four tokens, two revocations, two failed writes, a kill | `ConsentTypeOK`, `ConsentIsStored`, `ClearsOnlyDead`, `WaitEnds`, `Recovers` |
| `walk` | five votes of any kind on pages of two, up to three cast and one withdrawn meanwhile, any watermark, a limit of three pages | `WalkTypeOK`, `CompleteIsComplete`, `InOrder` |
| `history` | two processes, three passes, two days, windows of two rows and one snapshot, a kill, a deletion, a foreign file | `HealthIsEarned`, `PruningKeepsTheVerdict`, `RunningPassHasItsRow`, `OneAttemptADay`, `PublishedIsVerified`, `PruningKeepsTheNewest`, `HistoryTypeOK` |
| `match` | four likes against answers of up to two of seven tracks, in any order, each request answered, failed or refused; titles of one or two descriptors of up to three of six words; all pairs of strings of up to four runes over two | `AutoIsEvident`, `UnmatchedWasAsked`, `QueueKeepsTheBest`, `RemixDecides`, `RemixersAreTold`, `RowsAreDistances`, `RatioIsASimilarity`, `SearchTypeOK` |
| `daemon` | an interval below the floor and one above, with and without a status listener, headers that are negative, shorter than the floor, longer than the interval, than a day, and than a duration holds; passes of up to half the floor | `NoPassTooSoon`, `OneFailureStaysGreen`, `StoreOutlivesItsUsers`, `DaemonEnds`, `DaemonTypeOK` |

Why the bounds are enough: two likes are the fewest for which "passed" and
"processed" differ, two tracks the fewest for which an addition may be partial;
two votes fit in one second and one more can arrive during a pass. Two failures
reach every pair of swallowed errors, and a failed pass followed by a clean one.
Two engines suffice for any race between writers, since each property speaks of
one writer and of what happened to it. The limits of the code (100 per batch,
200 pages, 20 rows, the retention) are taken as small as they can be, so that
each is reached; `Batches` leaves the size of a batch open. The catalogue of
`match` holds the right recording, its radio edit, a bare title, a namesake, an
unnamed remix, one by a remixer of similar name, and another artist's; two
results are the fewest that have an order, one kept candidate the fewest that
leave one out. In `walk` three votes cast are more than a page, so that the
premise `FewCast` excludes something. Strings of up to four runes have rows that swap more than once,
and lengths that differ. In `daemon` the wait before a retry can be the floor, the
interval, the header or the day, and two waits and a pass fit the window exactly.

A reference definition stands beside each computation that is checked: the edit
distance is the least cost over all ways to align two strings, a remix's
remixer is what its descriptor says before the words for the cut.

### Disagreements with the documentation

Each is a run that checks the one property and finds it violated.

| Run | Property | What happens |
|---|---|---|
| `overlap` | `ResetStands` | a resync that lands during a pass is undone by the pass's commit, which compares with the account it read at its top |
| `approved` | `ForgottenIsReadded` | a like approved in review, forgotten and re-read is queued as "approved" again: neither added nor shown |
| `shift` | `NothingSkipped` | a vote withdrawn between two page requests moves the next page's first vote out of sight, and the walk still reports itself complete |
| `isrc` | `OnlyMissFallsThrough` | a lookup by recording code that fails (not by a refusal) is followed by the fuzzy search as if the code were unknown |

The passing properties state what does hold around them: `NoLikeLost` excepts
votes that share a second, `ForgottenIsReread` is checked with resync between
passes, `CompleteIsComplete` supposes no withdrawal, and fewer new votes than a
page holds (`FewCast`). The last is needed too: with a page's worth of votes cast
between two requests a page repeats, and the walk takes that for the end; with
more than that, votes newer than any seen come into view after older ones, and
the result is not oldest first. So `InOrder` supposes it as well. A page holds
more votes than a member casts in the seconds a walk takes.

Also met while modelling, and excepted or left free in the model:

- A vote cast in the second the watermark already stands at is never fetched:
  the comparison in `difm.go` is strict.
- A snapshot taken today and then deleted by hand is not taken again today:
  `lastAttempt` is tested before the file is (`backup.go`).
- Of several remix descriptors the last one decides, named or not, although the
  comment in `Parse` says a named remix outranks a bare mix.
- A collaborator missing on one side costs 3% only if the extra one is the
  candidate's (`artistSimilarity`); one the like credits and the candidate does
  not counts as any unmatched artist.
- An artist similarity between about 0.64 and 0.7 can still be added unasked,
  though its rationale would read "artist mismatch". `AutoIsEvident` therefore
  promises 0.6.
- Nothing compares the two thresholds with each other or with 1: `ThresholdsOK`
  is an assumption about the operator.
- A Retry-After whose seconds overflow a duration may come out negative, which
  counts as none, or as any shorter delay (`ParseRetryAfter`, `Wrapped`);
  `NoPassTooSoon` excepts it and still promises the floor.

### Fairness and liveness

`EveryLikeSettles` (`SyncSystem!FairSpec`) assumes weak fairness of the daemon's
pass without its failures: the loop in `loop.go` starts the next pass whatever
became of the last, every call has a timeout, and failures are finitely many by
`Budget`; and of a resync that was started. A like that goes on failing for ever
holds the watermark for ever, which is the code's stated choice.

`WaitEnds` and `Recovers` (`ConsentSpec`) assume weak fairness of the runner's
own steps (its calls, the poll's ticker) and of the access token's expiry, which
is a matter of time. Nothing is assumed of the member, of Spotify's choice to
rotate, of one-shot processes, or of consent ever being given.

`DaemonEnds` (`Daemon!Spec`) assumes weak fairness of the work's and the command's
own steps, since a goroutine that can run does; of requests and callbacks, which
end (both have timeouts); and of time. The end of the consent wait is fair only
once the context is done: consent may never come. A pass ends because each of
its calls has a timeout; `MaxPass` stands for their sum.

## What is proved

For every set of likes, tracks and engines, every `Finds` and every `Budget`
that satisfy `ConstantsOK`, `FindsOK` and `NoneIsNoRow`; for every catalogue,
every set of likes and every measure of likeness that satisfy `SimilarityOK`,
`SimilarityAgrees`, `TracksOK`, `SearchConstants` and `ThresholdsOK`; for any
numbers of words, descriptors, runes, processes, tokens, rows, days, votes and
pages (`ParseConstants`, `MaxLenOK`, `ConsentConstants`, `HistoryConstants`,
`WalkConstants`); for all intervals, bounds and headers that satisfy
`DaemonConstants`. TLC evaluates each assumption in the runs of the module.
Every invariant and action property that a passing run checks is a theorem.

| Theorem | Statement |
|---|---|
| `TypeCorrect` | `Spec => []TypeOK` |
| `LedgerFollowsPlaylist` | `Spec => []LedgerAfterWrite` |
| `NoTrackTwice` | `Spec => []DuplicateOnlyIfRaced` |
| `DecisionsAreKept`, `PreviewsLeaveNoTrace` | `Spec =>` `DecisionsStand`, `DryRunWritesNothing` |
| `ApprovedLikesAreRecorded` | `Spec => []ApprovedIsRecorded` |
| `NoLikeIsLost` | `Spec => []NoLikeLost` |
| `ForgottenLikesAreReread` | if `Quiet`, `Spec => []ForgottenIsReread` |
| `PromiseIsKept` | `Spec => KeepsThePromise`: `SyncSystem` implements `SyncPromise` |
| `SearchTypes`, `UnmatchedWasAskedFor`, `AutomaticIsEvident`, `TheLikeliestAreQueued` | `SearchSpec => []` of `SearchTypeOK`, `UnmatchedWasAsked`, `AutoIsEvident`, `QueueKeepsTheBest` |
| `RemixesAreRemixes`, `RemixersDiffer` | `ParseSpec => []` of `RemixDecides`, `RemixersAreTold` |
| `RatioIsSimilarity`, `TwoRowsGiveTheDistance` | `LevSpec => []` of `RatioIsASimilarity`, `RowsAreDistances` |
| `WalkTypes`, `ResultIsInOrder`, `NothingIsPassedOver` | `WalkSpec => []` of `WalkTypeOK`, `InOrder`, `CompleteIsComplete` |
| `ConsentTypes`, `ReportedConsentIsStored` | `ConsentSpec => []` of `ConsentTypeOK`, `ConsentIsStored` |
| `OnlyTheDeadAreCleared` | `ConsentSpec => ClearsOnlyDead` |
| `HistoryTypesHold`, `OpenRowsAreKept`, `TriedOncePerDay`, `OnlyVerifiedIsPublished`, `GreenIsEarned` | `HistorySpec => []` of `HistoryTypeOK`, `RunningPassHasItsRow`, `OneAttemptADay`, `PublishedIsVerified`, `HealthIsEarned` |
| `PruningIsInvisible`, `TheNewestAreKept` | `HistorySpec =>` `PruningKeepsTheVerdict`, `PruningKeepsTheNewest` |
| `DaemonTypes`, `StoreIsClosedLast`, `OneFailureIsForgiven` | `Spec => []` of `DaemonTypeOK`, `StoreOutlivesItsUsers`, `OneFailureStaysGreen` |
| `PassesKeepTheirDistance` | `Spec => NoPassTooSoon` |

### The sync

None of its invariants but the decisions' is inductive by itself.

- `TypeInv` adds `Control`, what a program counter says of the values beside it:
  a pass that searches has a current like, an approval a queued one.
- `WriteInv`: every track a pass counts as present, or holds a pending row for,
  has been in the playlist or is still to be posted; at the commit nothing is.
- `OnceInv`: while a pass works through its likes, a pending track is one it
  counts as present, so no second like adds it; while it posts, a pending track
  that is in the playlist was put there by somebody else since its last look.
- `ApprovalInv`: an approval about to be resolved has its like in the ledger, or
  forgotten since. `DryInv`: a dry run is never at a step that writes.
- `LikeInv` speaks of *due* likes, those that are neither settled nor excused.
  None lies at or below the watermark, or below the mark a resync read; and as
  long as a pass counts as clean, each due like at or below any mark it may yet
  commit is on its list or among its pending rows. A swallowed failure takes a
  like off the list, and that is harmless only because it clears "clean"; that
  is why the invariant is conditional. Votes get no earlier than the latest one,
  so no like becomes due behind a mark (`Kept`).
- `RereadInv` is the same for the likes a resync forgot: they count as due too.
  While the command runs the watermark may pass one of them, but none earlier
  than the time the command has collected to rewind to. That time comes from the
  ledger row, so it matters that a row's time is never later than the vote's
  (`DateInv`), through every copy of it that a pass, the queue or an approval holds.

A step of one process changes one pass, so each part is a predicate of a pass
record, and a step is shown to preserve that of the process that takes it and to
leave the others theirs (`PassKept`, `AddKeeps`, `PassWritesGrows`).

`Quiet` is the premise the run `quiet` makes as well, and each part of it is
needed: no pass beside a resync (the run `overlap` shows why), no two votes in one
second, and no resync killed half-way, since one that has dropped a row and dies
leaves nothing to say how far to rewind.

The refinement needs no invariant of its own. A step touches what the promise
speaks of in one of seven ways, or not at all; that the state it leads to is
covered is `NoLikeLost`, and that a new row's track was held is
`LedgerAfterWrite`, both already proved.

### Consent

`ClearsOnlyDead` needs three facts. Every token anybody holds was issued, so a
new one is nobody's (`Holdings`); a rotation whose write failed is in one
process's memory alone, so no other can present it or lose it (`Alone`); and a
token that is refused takes the one written before it along, so that what the
runner compares the row with is dead if what it presented is (`Outlived`).
`ConsentIsStored` rests on there being a client exactly while the runner runs or
clears: nobody clears while it waits (`RunnerControl`).

### Run history

`HistoryInv` says that rows have ids of their own no higher than the last
(`Rows`), that each engine in a pass has an open row that is its alone
(`Passes`), and that an engine which has not tried today remembers another day
(`Attempts`). The verdict reads the newest `ScanLimit` rows and pruning keeps the
newest `KeepRuns`: `PruningIsInvisible` is that the two windows are one before
and after (`WindowIsKept`, pinned by a test of the code). `TheNewestAreKept`
carries what was seen to what is removed: each name on a process's list has
`Keep` verified ones above it, deletions by hand counted in (`Spared`).

### The walk

`OrderInv`: a like that was not seen, although an older one was taken, stands so
high in the list that no page to come shows it, since less than a page was cast
before it. `AllSeen`, while nothing is withdrawn: a vote stands where the votes
cast after it put it, and every vote that stood on the pages that were read is in
the result, no like, or the reason that "dropped" is set. Both hold under
`FewCast` only, which the proof attempt showed `InOrder` to need; TLC confirms it
once a third vote may be cast.

### Matching

`AutomaticIsEvident` bounds a score from above by its parts. If title or artists
were less alike than 600, or the versions conflicted, the weighted mean, the
gate and the penalty would leave less than 850 whatever the other parts are
(`ScoreIsEvidence`). That the mean over the artists is a similarity
(`ArtistsBounds`) is an induction over their number. `ThresholdsOK` asks for at
least the default bar. `TheLikeliestAreQueued` says what the sort left: some
order of the results in which each precedes the next (`OrderInv`).

`RemixesAreRemixes`: of the descriptors read so far the last remix decides, or
else the first that says anything; `RemixersDiffer` compares two descriptors by
the last word that names anybody (`RemixerOf`, `CutIs`).

`RatioIsSimilarity` rests on what each cell says of two beginnings: no more edits
than the longer has runes, and none only if they are equal (`CellOK`).
`TwoRowsGiveTheDistance` says all of it: a cell is the least cost over all ways to
keep runes of one beginning in the other, in order (`DistInv`). The step of a cell
is the recurrence: of a cheapest alignment of two beginnings, the last rune of
the one, or of the other, or of both, can be taken away.

### The daemon

`StoreOutlivesItsUsers` needs to know where the command can be while the work or
a request still runs (`Users`). `NoPassTooSoon` follows from "the time since the
last pass and the time left together are at least what was asked" (`Spaced`), and
`OneFailureStaysGreen` from "the age of the last clean pass and the time left are
at most a wait, or two waits and a pass after one failure" (`Fresh`); its premise
`PassesAreShort` is what the window of three intervals leaves room for.

### How inductions over data are done

The library's rules of induction take an operator as a parameter, which the
provers here cannot instantiate. Over numbers there is another way: a set of
numbers that is not empty has a least element (`LeastNumber`, from the library's
theorem on well-founded relations), so a counterexample has a smallest one.
`Positions` goes by that, and so do the mean and the edit distance. A position in
a sequence is its rank among others, and `Only` is the sequence of what is left,
in place of `SelectSeq`, of which the provers know nothing.

### Only model-checked

The liveness properties `EveryLikeSettles`, `WaitEnds`, `Recovers` and
`DaemonEnds`, which are beyond the prover, and the four disagreements above,
which are counterexamples. That the assumptions hold of the instances is
evaluated by TLC.

## What is not modelled

- **Cutting a text into artists, title and descriptors**, and `Normalize`: regular
  expressions and folding of characters, with no control to speak of. Floating
  point enters as thousandths.
- **Opening and migrating the database**, the account row's upsert, flag parsing,
  listings, the status report's contents, JSON and HTML output, the container scripts: no state of their own,
  or run once before anything else.
- **The HTTP requests themselves**: each enters as its possible outcomes.
- **Refused callbacks** of the consent page (wrong state or nonce, consent
  denied, no refresh token): they change no state.
- **`difmsync backup`** to a path of the operator's choice, and a database
  restored under a running daemon.

## Plan

1. More of the refinement: `LikesWalk` implements the one-step `Fetch` of `Engine`
   for a walk under which nothing is withdrawn and less than a page is cast; and
   `Search` the `Finds` it stands for.
2. A weaker `Quiet`: a resync that may be killed, with the likes it had dropped
   but not rewound for excepted.
3. What a killed `resync` leaves, as a property of its own.
