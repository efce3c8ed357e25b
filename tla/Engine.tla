------------------------------- MODULE Engine -------------------------------
(***************************************************************************)
(* One sync pass of internal/syncer's Engine, as the steps between which   *)
(* another process, DI.fm, Spotify or a shutdown can act: each call the    *)
(* pass makes on the store, on DI.fm or on Spotify is one step.            *)
(*                                                                         *)
(* Read as atomic: the walk over DI.fm's pages, the walk over a            *)
(* playlist's pages, and the database transaction.  The rows of sync_runs  *)
(* and the housekeeping after a clean pass are left out.                   *)
(*                                                                         *)
(* A definition marked "Slip" is no part of the model: it is a mistake the *)
(* definition after it could have contained, kept to show that a property  *)
(* would notice.                                                           *)
(***************************************************************************)
EXTENDS SyncState

PassPC == {"idle", "fetch", "reconcile", "likes", "search", "post", "commit"}

Pass == [pc    : PassPC,
         wm0   : Nat,              \* account.WatermarkLikedAt as reloaded
         todo  : [Likes -> Nat],   \* likes still to process: when, or 0
         cur   : Likes \cup {None},\* the like being searched for
         known : SUBSET Tracks,    \* inPlaylist
         pend  : [Tracks -> Nat],  \* pendingIDs, as a bag
         high  : Nat,              \* highWater
         ledge : Table(LedgerRow), \* pendingLedge
         clean : BOOLEAN]          \* passClean

NoLikes  == [l \in Likes |-> 0]
NoTracks == [t \in Tracks |-> 0]

Idle == [pc |-> "idle", wm0 |-> 0, todo |-> NoLikes, cur |-> None,
         known |-> {}, pend |-> NoTracks, ledge |-> NoRows, high |-> 0,
         clean |-> TRUE]

Becomes(e, p) == pass' = [pass EXCEPT ![e] = p]
Max2(a, b) == IF a > b THEN a ELSE b

\* The likes list is oldest first; equal seconds come in either order.
IsNext(p, l) ==
  /\ p.todo[l] > 0
  /\ \A m \in Likes : p.todo[m] > 0 => p.todo[l] <= p.todo[m]
AllDone(p) == \A l \in Likes : p.todo[l] = 0

\* The pass is done with l; done, and advanced over it; or failed it.
Passed(p, l) == [p EXCEPT !.pc = "likes", !.cur = None, !.todo[l] = 0]
Advanced(p, l) == [Passed(p, l) EXCEPT !.high = Max2(p.high, p.todo[l])]
\* Slip: the error is logged, but the pass still counts as clean.
FailedQuietly(p, l) == Passed(p, l)
Failed(p, l) == [Passed(p, l) EXCEPT !.clean = FALSE]

-----------------------------------------------------------------------------
\* Reload the account and open the run.  The daemon's loop goes on starting
\* passes; any other engine is a command that somebody starts.
Begin(e) ==
  /\ pass[e].pc = "idle"
  /\ OneAtATime => cmd.pc = "idle"
  /\ Becomes(e, [Idle EXCEPT !.pc = "fetch", !.wm0 = watermark,
                             !.high = watermark])
  /\ \/ e = Daemon /\ UNCHANGED left
     \/ e # Daemon /\ Spend("sync")
  /\ UNCHANGED <<dbVars, difmVars, spotVars, forgotten>>

\* Fetch what lies after the watermark as reloaded.
NewLikes(since) == [l \in Likes |-> IF likedAt[l] > since THEN likedAt[l] ELSE 0]

Fetch(e) ==
  /\ pass[e].pc = "fetch"
  /\ Becomes(e, [pass[e] EXCEPT !.pc = "reconcile",
                                !.todo = NewLikes(pass[e].wm0)])
  /\ UNCHANGED <<dbVars, difmVars, spotVars, left, forgotten>>

\* ErrDropped: some records were unreadable; the rest is processed.
FetchDropped(e) ==
  /\ pass[e].pc = "fetch"
  /\ Spend("fault")
  /\ \E lost \in SUBSET Likes :
       /\ lost # {}
       /\ Becomes(e, [pass[e] EXCEPT
            !.pc = "reconcile", !.clean = FALSE,
            !.todo = [l \in Likes |->
                       IF l \in lost THEN 0 ELSE NewLikes(pass[e].wm0)[l]]])
  /\ UNCHANGED <<dbVars, difmVars, spotVars, forgotten>>

\* The reconciliation read at the top of the pass.
Reconcile(e) ==
  /\ pass[e].pc = "reconcile"
  /\ Becomes(e, [pass[e] EXCEPT !.pc = "likes", !.known = InPlaylist])
  /\ UNCHANGED <<dbVars, difmVars, spotVars, left, forgotten>>

-----------------------------------------------------------------------------
\* Slip: no look at dryRun.
RecordAlways(e, l, cands) ==
  /\ queue' = Enqueue(queue, l, cands, pass[e].todo[l])
  /\ Becomes(e, Advanced(pass[e], l))
  /\ UNCHANGED left

\* Slip: advance whether the queue took the like or not.
RecordUnchecked(e, l, cands) ==
  LET p == pass[e] IN
    /\ IF e \in DryEngines THEN Becomes(e, Passed(p, l))
                            ELSE Becomes(e, Advanced(p, l))
    /\ \/ e \in DryEngines /\ UNCHANGED <<queue, left>>
       \/ e \notin DryEngines /\ Spend("fault") /\ UNCHANGED queue
       \/ /\ e \notin DryEngines /\ UNCHANGED left
          /\ queue' = Enqueue(queue, l, cands, p.todo[l])

\* record: queue a like that is not being added, then advance over it.  A
\* dry run writes nothing and advances over nothing.
Record(e, l, cands) ==
  LET p == pass[e] IN
    \/ /\ e \in DryEngines
       /\ Becomes(e, Passed(p, l))
       /\ UNCHANGED <<queue, left>>
    \/ /\ e \notin DryEngines
       /\ queue' = Enqueue(queue, l, cands, p.todo[l])
       /\ Becomes(e, Advanced(p, l))
       /\ UNCHANGED left
    \/ /\ e \notin DryEngines
       /\ Spend("fault")
       /\ Becomes(e, Failed(p, l))
       /\ UNCHANGED queue

\* A DJ mix has no Spotify analog.
SkipMix(e) ==
  /\ pass[e].pc = "likes"
  /\ \E l \in Mixes : IsNext(pass[e], l) /\ Record(e, l, {})
  /\ UNCHANGED <<watermark, ledger, difmVars, spotVars, forgotten>>

\* IsSynced decides between advancing and searching.
CheckLedger(e) ==
  /\ pass[e].pc = "likes"
  /\ \E l \in Likes \ Mixes :
       /\ IsNext(pass[e], l)
       /\ Becomes(e, IF ledger[l] # None THEN Advanced(pass[e], l)
                     ELSE [pass[e] EXCEPT !.pc = "search", !.cur = l])
  /\ UNCHANGED <<dbVars, difmVars, spotVars, left, forgotten>>

\* The score of the best candidate clears the auto threshold.
AutoUnlessReview(r) == r.band # "review"  \* Slip: no candidate is a match
IsAuto(r) == r.band = "auto"

\* Slip: the track is not marked as present once it is pending.
MatchUnmarked(p, r) ==
  [Passed(p, p.cur) EXCEPT
     !.ledge[p.cur] = [track |-> r.best, at |-> p.todo[p.cur]],
     !.pend[r.best] = IF r.best \in p.known THEN @ ELSE @ + 1]

\* An automatic match: post it, unless the playlist has it or will have it.
Match(p, r) ==
  [Passed(p, p.cur) EXCEPT
     !.ledge[p.cur] = [track |-> r.best, at |-> p.todo[p.cur]],
     !.pend[r.best] = IF r.best \in p.known THEN @ ELSE @ + 1,
     !.known = @ \cup {r.best}]

\* A dry run does not even note a match the playlist already has.
DryMatch(p, r) == IF r.best \in p.known THEN Passed(p, p.cur) ELSE Match(p, r)

Search(e) ==
  LET p == pass[e] IN
    /\ p.pc = "search"
    /\ \E r \in Finds[p.cur] :
         \/ /\ IsAuto(r)
            /\ Becomes(e, IF e \in DryEngines THEN DryMatch(p, r) ELSE Match(p, r))
            /\ UNCHANGED <<queue, left>>
         \/ ~ IsAuto(r) /\ Record(e, p.cur, r.cands)
    /\ UNCHANGED <<watermark, ledger, difmVars, spotVars, forgotten>>

\* One unsearchable like does not stop the pass, but it is a failure.
SearchFails(e) ==
  /\ pass[e].pc = "search"
  /\ Spend("fault")
  /\ Becomes(e, Failed(pass[e], pass[e].cur))
  /\ UNCHANGED <<dbVars, difmVars, spotVars, forgotten>>

-----------------------------------------------------------------------------
Pending(p) == \E t \in Tracks : p.pend[t] > 0

EndDryRun(e) ==
  /\ e \in DryEngines
  /\ pass[e].pc = "likes" /\ AllDone(pass[e])
  /\ Becomes(e, Idle)
  /\ UNCHANGED <<dbVars, difmVars, spotVars, left, forgotten>>

\* Slip: the playlist as it was at the top of the pass is good enough.
FreshAtTheTop(p) == p.pend

\* The ids that are not in the playlist as it is now.
Fresh(p) == [t \in Tracks |-> IF playlist[t] > 0 THEN 0 ELSE p.pend[t]]

\* Read the playlist again right before adding to it.
Reread(e) ==
  LET p == pass[e] IN
    /\ e \notin DryEngines
    /\ p.pc = "likes" /\ AllDone(p) /\ Pending(p)
    /\ Becomes(e, [p EXCEPT !.pc = IF \E t \in Tracks : Fresh(p)[t] > 0
                                     THEN "post" ELSE "commit",
                            !.pend = Fresh(p)])
    /\ PlaylistTrackIDs(e)
    /\ UNCHANGED <<dbVars, difmVars, playlist, everIn, left, forgotten>>

\* The batches an upload may consist of: the ids go up in calls of at most
\* 100, in an order that is left open.
Batches(p) ==
  {b \in [Tracks -> 0..1] :
     /\ \E t \in Tracks : b[t] > 0
     /\ \A t \in Tracks : b[t] <= p.pend[t]}
Without(p, b) == [t \in Tracks |-> p.pend[t] - b[t]]

\* One batch goes up and is acknowledged.
Post(e) ==
  LET p == pass[e] IN
    /\ p.pc = "post"
    /\ \E b \in Batches(p) :
         /\ AddToPlaylist(e, b)
         /\ Becomes(e, [p EXCEPT !.pend = Without(p, b),
                                 !.pc = IF Without(p, b) = NoTracks
                                          THEN "commit" ELSE "post"])
    /\ UNCHANGED <<dbVars, difmVars, left, forgotten>>

\* One batch goes up and the answer is lost: the pass reports a failure.
PostUnanswered(e) ==
  LET p == pass[e] IN
    /\ p.pc = "post"
    /\ Spend("fault")
    /\ \E b \in Batches(p) : AddToPlaylist(e, b)
    /\ Becomes(e, Idle)
    /\ UNCHANGED <<dbVars, difmVars, forgotten>>

\* highWater once every pending row has been advanced over.
Marks(p) == {p.high} \cup {p.ledge[l].at : l \in Keys(p.ledge)}
IsHighWater(p, h) == h \in Marks(p) /\ \A m \in Marks(p) : m <= h

\* The ledger rows and the watermark, in one transaction.
Commit(e) ==
  LET p == pass[e] IN
    /\ e \notin DryEngines
    /\ \/ p.pc = "commit"
       \/ p.pc = "likes" /\ AllDone(p) /\ ~ Pending(p)
    /\ ledger' = RecordSynced(ledger, p.ledge)
    /\ forgotten' = forgotten \ Keys(p.ledge)
    /\ \E h \in Marks(p) :
         /\ IsHighWater(p, h)
         /\ watermark' = IF p.clean /\ h > p.wm0 THEN h ELSE watermark
    /\ Becomes(e, Idle)
    /\ UNCHANGED <<queue, difmVars, spotVars, left>>

\* A call that fails, a shutdown or a crash ends the pass where it stands.
Abort(e) ==
  /\ pass[e].pc # "idle"
  /\ Spend("fault")
  /\ Becomes(e, Idle)
  /\ UNCHANGED <<dbVars, difmVars, spotVars, forgotten>>

-----------------------------------------------------------------------------
\* What the pass does when nothing fails, and what may befall it.
PassStep(e) ==
  \/ Begin(e) \/ Fetch(e) \/ Reconcile(e) \/ SkipMix(e) \/ CheckLedger(e)
  \/ Search(e) \/ EndDryRun(e) \/ Reread(e) \/ Post(e) \/ Commit(e)
PassFault(e) ==
  \/ FetchDropped(e) \/ SearchFails(e) \/ PostUnanswered(e) \/ Abort(e)

EngineNext == \E e \in Engines : PassStep(e) \/ PassFault(e)
=============================================================================
