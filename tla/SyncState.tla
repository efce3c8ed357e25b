------------------------------ MODULE SyncState ------------------------------
(***************************************************************************)
(* The state difmsync's processes share, and the store operations they     *)
(* share it through: the three SQLite tables a like can end up in, the     *)
(* member's votes on DI.fm, and the Spotify playlist.                      *)
(*                                                                         *)
(* A like is identified by its DI.fm track id, a Spotify track by its id.  *)
(* A time is a natural number of seconds, 0 being Go's zero time; every    *)
(* timestamp the program compares has one-second resolution.               *)
(*                                                                         *)
(* Left out: the account key (one account, one playlist), titles and       *)
(* other payload, the reason column of the queue, and sync_runs.           *)
(***************************************************************************)
EXTENDS Naturals

CONSTANTS
  Likes,        \* DI.fm track ids the member may vote for
  Mixes,        \* the likes the client marks Skip: DJ mixes, mix shows
  Tracks,       \* Spotify track ids
  Finds,        \* Finds[l]: the answers a Spotify search for l may give
  Engines,      \* processes that run sync passes: the daemon, a one-shot
  Daemon,       \* the engine that `sync --loop` keeps running
  DryEngines,   \* those started with --dry-run
  None,         \* "no value", where the code has an empty id
  SameSecond,   \* may two votes carry the same timestamp?
  OneAtATime,   \* does resync run alone: no pass, no approval beside it?
  Budget        \* how often each kind of environment event may happen

Status == {"pending", "approved", "rejected"}
Result == [band : {"auto", "review", "below"}, best : Tracks \cup {None},
           cands : SUBSET Tracks]
Events == {"vote", "edit", "resync", "review", "sync", "fault", "kill"}

\* The processes that add to the playlist.
Approver == "approver"
Writers == Engines \cup {Approver}

ASSUME ConstantsOK ==
  /\ Mixes \subseteq Likes
  /\ DryEngines \subseteq Engines
  /\ Daemon \in Engines \ DryEngines
  /\ None \notin Tracks \cup Likes \cup Writers
  /\ Approver \notin Engines
  /\ Finds \in [Likes -> SUBSET Result]
  /\ SameSecond \in BOOLEAN
  /\ OneAtATime \in BOOLEAN
  /\ Budget \in [Events -> Nat]

\* A search's best candidate is the first of its candidates.
ASSUME FindsOK ==
  \A l \in Likes : \A r \in Finds[l] :
    r.band # "below" => r.best \in Tracks /\ r.best \in r.cands

VARIABLES
  watermark,  \* accounts.watermark_liked_at
  ledger,     \* synced_tracks, by like
  queue,      \* review_queue, by like
  likedAt,    \* DI.fm: when each like was voted for, 0 when it is not liked
  clock,      \* the latest second any vote was cast in
  playlist,   \* Spotify: how many copies of each track the playlist holds
  pass,       \* the sync pass of each engine
  cmd,        \* the resync command being run
  appr,       \* the review --approve command being run
  left,       \* what is left of Budget
  shared,     \* history: the seconds more than one vote was cast in
  everIn,     \* history: tracks the playlist has ever held
  forgotten,  \* history: likes a resync dropped and nobody recorded since
  raced       \* history: raced[w] is what others added while w was posting

dbVars   == <<watermark, ledger, queue>>
difmVars == <<likedAt, clock, shared>>
spotVars == <<playlist, everIn, raced>>
vars == <<watermark, ledger, queue, likedAt, clock, playlist, pass, cmd, appr,
          left, shared, everIn, forgotten, raced>>

LedgerRow == [track : Tracks, at : Nat]
QueueRow  == [status : Status, cands : SUBSET Tracks, at : Nat]

ASSUME NoneIsNoRow == None \notin LedgerRow \cup QueueRow

\* A table has a row, or none, for each like.
Table(Row) == [Likes -> Row \cup {None}]
NoRows == [l \in Likes |-> None]
Keys(table) == {l \in Likes : table[l] # None}

\* Slip: ON CONFLICT DO UPDATE, the later writer's row wins.
RecordSyncedOver(table, rows) ==
  [l \in Likes |-> IF rows[l] # None THEN rows[l] ELSE table[l]]

\* INSERT ... ON CONFLICT DO NOTHING, one statement per row.
RecordSynced(table, rows) ==
  [l \in Likes |-> IF table[l] = None THEN rows[l] ELSE table[l]]

\* DELETE ... WHERE difm_track_id = l.
ForgetTrack(table, l) == [table EXCEPT ![l] = None]

\* Slip: status is refreshed like every other column.
EnqueueAfresh(table, l, cands, at) ==
  [table EXCEPT ![l] = [status |-> "pending", cands |-> cands, at |-> at]]

\* INSERT ... ON CONFLICT DO UPDATE of every column but status.
StatusOf(table, l) == IF table[l] = None THEN "pending" ELSE table[l].status
Enqueue(table, l, cands, at) ==
  [table EXCEPT ![l] = [status |-> StatusOf(table, l), cands |-> cands, at |-> at]]

\* UPDATE review_queue SET status: no guard on the status it replaces.
ResolveReview(table, l, status) == [table EXCEPT ![l].status = status]

\* The likes that reached durable state: recorded as added, or queued.
Settled == Keys(ledger) \cup Keys(queue)

InPlaylist == {t \in Tracks : playlist[t] > 0}

\* Between its last read of the playlist and the end of its POSTs.
Posting(w) == IF w = Approver THEN appr.pc = "post" ELSE pass[w].pc = "post"

\* w posts bag[t] copies of each t; the other writers posting are overtaken.
AddToPlaylist(w, bag) ==
  LET new == {t \in Tracks : bag[t] > 0} IN
    /\ playlist' = [t \in Tracks |-> playlist[t] + bag[t]]
    /\ everIn' = everIn \cup new
    /\ raced' = [v \in Writers |->
                   IF v # w /\ Posting(v) THEN raced[v] \cup new ELSE raced[v]]

\* w has just read the playlist: nothing has overtaken it yet.
PlaylistTrackIDs(w) == raced' = [raced EXCEPT ![w] = {}]

\* One event of kind k happens.
Spend(k) == left[k] > 0 /\ left' = [left EXCEPT ![k] = @ - 1]
=============================================================================
