------------------------------ MODULE Operator ------------------------------
(***************************************************************************)
(* The commands an operator runs beside the daemon, from cmd/difmsync:     *)
(* `resync` (resync.go), `review --approve` and `review --reject`          *)
(* (main.go).  Each is a process of its own that calls the store one       *)
(* statement at a time, outside any transaction; each call is one step.    *)
(* At most one resync and one approval run at a time.                      *)
(*                                                                         *)
(* And the member: votes on DI.fm, and edits of the playlist by hand.      *)
(***************************************************************************)
EXTENDS SyncState

Cmd == [pc       : {"idle", "look", "drop", "rewind", "dropall", "clear"},
        clear    : BOOLEAN,              \* clearMark: --all or --forget-all
        wm       : Nat,                  \* account.WatermarkLikedAt as read
        todo     : SUBSET Likes,         \* --forget ids still to process
        cur      : Likes \cup {None},    \* the id being processed
        earliest : Nat]                  \* 0 when none was found

CmdIdle == [pc |-> "idle", clear |-> FALSE, wm |-> 0, todo |-> {},
            cur |-> None, earliest |-> 0]

-----------------------------------------------------------------------------
\* resync: read the account, then go by the flags given.
StartResync ==
  /\ cmd.pc = "idle"
  /\ OneAtATime => appr.pc = "idle" /\ \A e \in Engines : pass[e].pc = "idle"
  /\ Spend("resync")
  /\ \/ \E ids \in SUBSET Likes, all \in BOOLEAN :
          /\ ids # {}
          /\ cmd' = [CmdIdle EXCEPT !.pc = "look", !.clear = all,
                                    !.wm = watermark, !.todo = ids]
     \/ cmd' = [CmdIdle EXCEPT !.pc = "dropall", !.clear = TRUE]
     \/ cmd' = [CmdIdle EXCEPT !.pc = "clear", !.clear = TRUE]
  /\ UNCHANGED <<dbVars, difmVars, spotVars, appr, forgotten>>

\* SyncedTrackLikedAt, for the next id of the list.
LookUp ==
  /\ cmd.pc = "look"
  /\ \E l \in cmd.todo :
       cmd' = [cmd EXCEPT
         !.pc = "drop", !.cur = l, !.todo = @ \ {l},
         !.earliest = IF ledger[l] # None /\ (@ = 0 \/ ledger[l].at < @)
                        THEN ledger[l].at ELSE @]
  /\ UNCHANGED <<dbVars, difmVars, spotVars, appr, left, forgotten>>

AfterForget(c) ==
  IF c.todo # {} THEN "look"
  ELSE IF c.clear THEN "clear"
  ELSE IF c.earliest > 0 /\ c.wm >= c.earliest THEN "rewind" ELSE "idle"

\* The command as it stands once it is past the current id.
Onward(c) == IF AfterForget(c) = "idle" THEN CmdIdle
             ELSE [c EXCEPT !.pc = AfterForget(c), !.cur = None]

\* ForgetTrack, for the same id.
Drop ==
  /\ cmd.pc = "drop"
  /\ ledger' = ForgetTrack(ledger, cmd.cur)
  /\ forgotten' = forgotten \cup ({cmd.cur} \cap Keys(ledger))
  /\ cmd' = Onward(cmd)
  /\ UNCHANGED <<watermark, queue, difmVars, spotVars, appr, left>>

\* Slip: the like itself is not after the watermark.
RewindOntoLike ==
  /\ cmd.pc = "rewind"
  /\ watermark' = cmd.earliest
  /\ cmd' = CmdIdle
  /\ UNCHANGED <<ledger, queue, difmVars, spotVars, appr, left, forgotten>>

\* SetWatermark, to one second before the earliest forgotten like.
Rewind ==
  /\ cmd.pc = "rewind"
  /\ watermark' = cmd.earliest - 1
  /\ cmd' = CmdIdle
  /\ UNCHANGED <<ledger, queue, difmVars, spotVars, appr, left, forgotten>>

ForgetAllTracks ==
  /\ cmd.pc = "dropall"
  /\ ledger' = NoRows
  /\ forgotten' = forgotten \cup Keys(ledger)
  /\ cmd' = [cmd EXCEPT !.pc = "clear"]
  /\ UNCHANGED <<watermark, queue, difmVars, spotVars, appr, left>>

ClearWatermark ==
  /\ cmd.pc = "clear"
  /\ watermark' = 0
  /\ cmd' = CmdIdle
  /\ UNCHANGED <<ledger, queue, difmVars, spotVars, appr, left, forgotten>>

\* A failing statement or a kill: the command stops where it stands.
ResyncDies ==
  /\ cmd.pc # "idle"
  /\ Spend("kill")
  /\ cmd' = CmdIdle
  /\ UNCHANGED <<dbVars, difmVars, spotVars, appr, forgotten>>

\* A resync that was started goes on to its end.
ResyncStep == LookUp \/ Drop \/ Rewind \/ ForgetAllTracks \/ ClearWatermark
Resync == StartResync \/ ResyncStep \/ ResyncDies

-----------------------------------------------------------------------------
Appr == [pc    : {"idle", "read", "post", "record", "resolve"},
         like  : Likes \cup {None},
         track : Tracks \cup {None},     \* chosen.ID
         at    : Nat]                    \* item.LikedAt

ApprIdle == [pc |-> "idle", like |-> None, track |-> None, at |-> 0]

\* GetReviewItem, and the choice of a candidate; the row's status is not
\* looked at.
StartApprove ==
  /\ appr.pc = "idle"
  /\ OneAtATime => cmd.pc = "idle"
  /\ Spend("review")
  /\ \E l \in Keys(queue) : \E t \in queue[l].cands :
       appr' = [pc |-> "read", like |-> l, track |-> t, at |-> queue[l].at]
  /\ UNCHANGED <<dbVars, difmVars, spotVars, cmd, forgotten>>

\* Slip: record first, add to the playlist later.
ApproveRecordsFirst ==
  /\ appr.pc = "read"
  /\ appr' = [appr EXCEPT !.pc = "record"]
  /\ PlaylistTrackIDs(Approver)
  /\ UNCHANGED <<dbVars, difmVars, playlist, everIn, cmd, left, forgotten>>

\* Read the playlist; a track it holds is recorded without being added.
ApproveReads ==
  /\ appr.pc = "read"
  /\ appr' = [appr EXCEPT !.pc = IF appr.track \in InPlaylist THEN "record"
                                                              ELSE "post"]
  /\ PlaylistTrackIDs(Approver)
  /\ UNCHANGED <<dbVars, difmVars, playlist, everIn, cmd, left, forgotten>>

Chosen == [t \in Tracks |-> IF t = appr.track THEN 1 ELSE 0]

\* Slip: flip the status and stop there.
ApprovePostsUnrecorded ==
  /\ appr.pc = "post"
  /\ AddToPlaylist(Approver, Chosen)
  /\ appr' = [appr EXCEPT !.pc = "resolve"]
  /\ UNCHANGED <<dbVars, difmVars, cmd, left, forgotten>>

ApprovePosts ==
  /\ appr.pc = "post"
  /\ AddToPlaylist(Approver, Chosen)
  /\ appr' = [appr EXCEPT !.pc = "record"]
  /\ UNCHANGED <<dbVars, difmVars, cmd, left, forgotten>>

\* The track goes up, but the command never learns it did.
ApproveUnanswered ==
  /\ appr.pc = "post"
  /\ Spend("fault")
  /\ AddToPlaylist(Approver, Chosen)
  /\ appr' = ApprIdle
  /\ UNCHANGED <<dbVars, difmVars, cmd, forgotten>>

\* Ledger before queue status.
ApproveRecords ==
  /\ appr.pc = "record"
  /\ ledger' = RecordSynced(ledger, [NoRows EXCEPT ![appr.like] =
                                        [track |-> appr.track, at |-> appr.at]])
  /\ forgotten' = forgotten \ {appr.like}
  /\ appr' = [appr EXCEPT !.pc = "resolve"]
  /\ UNCHANGED <<watermark, queue, difmVars, spotVars, cmd, left>>

ApproveResolves ==
  /\ appr.pc = "resolve"
  /\ queue' = ResolveReview(queue, appr.like, "approved")
  /\ appr' = ApprIdle
  /\ UNCHANGED <<watermark, ledger, difmVars, spotVars, cmd, left, forgotten>>

ApproveDies ==
  /\ appr.pc # "idle"
  /\ Spend("fault")
  /\ appr' = ApprIdle
  /\ UNCHANGED <<dbVars, difmVars, spotVars, cmd, forgotten>>

\* review --reject: one statement, whatever the row's status is.
Reject ==
  /\ Spend("review")
  /\ \E l \in Keys(queue) : queue' = ResolveReview(queue, l, "rejected")
  /\ UNCHANGED <<watermark, ledger, difmVars, spotVars, cmd, appr, forgotten>>

Review == \/ StartApprove \/ ApproveReads \/ ApprovePosts \/ ApproveUnanswered
          \/ ApproveRecords \/ ApproveResolves \/ ApproveDies \/ Reject

-----------------------------------------------------------------------------
\* The member votes: now, or in the second of the latest vote.
Like(l) ==
  /\ likedAt[l] = 0
  /\ Spend("vote")
  /\ \/ clock' = clock + 1 /\ UNCHANGED shared
     \/ /\ SameSecond /\ clock > 0
        /\ clock' = clock /\ shared' = shared \cup {clock}
  /\ likedAt' = [likedAt EXCEPT ![l] = clock']
  /\ UNCHANGED <<dbVars, spotVars, cmd, appr, forgotten>>

Unlike(l) ==
  /\ likedAt[l] > 0
  /\ Spend("vote")
  /\ likedAt' = [likedAt EXCEPT ![l] = 0]
  /\ UNCHANGED <<dbVars, clock, shared, spotVars, cmd, appr, forgotten>>

\* A track is deleted from the playlist: every copy of it goes.
DeleteByHand(t) ==
  /\ playlist[t] > 0
  /\ Spend("edit")
  /\ playlist' = [playlist EXCEPT ![t] = 0]
  /\ UNCHANGED <<dbVars, difmVars, everIn, raced, cmd, appr, forgotten>>

\* A track the playlist does not hold is added by hand.
AddByHand(t) ==
  /\ playlist[t] = 0
  /\ Spend("edit")
  /\ AddToPlaylist(None, [u \in Tracks |-> IF u = t THEN 1 ELSE 0])
  /\ UNCHANGED <<dbVars, difmVars, cmd, appr, forgotten>>

Member == \/ \E l \in Likes : Like(l) \/ Unlike(l)
          \/ \E t \in Tracks : DeleteByHand(t) \/ AddByHand(t)

OperatorNext == Resync \/ Review \/ Member
=============================================================================
