----------------------------- MODULE SyncSystem -----------------------------
(***************************************************************************)
(* difmsync as a whole: the engines' passes, the operator's commands and   *)
(* the member, interleaved step by step over the shared state, and what    *)
(* the README's "Safety properties" and the comments of engine.go promise  *)
(* of them.                                                                *)
(***************************************************************************)
EXTENDS Engine, Operator

Init ==
  /\ watermark = 0 /\ ledger = NoRows /\ queue = NoRows
  /\ likedAt = NoLikes /\ clock = 0 /\ shared = {}
  /\ playlist = NoTracks
  /\ pass = [e \in Engines |-> Idle]
  /\ cmd = CmdIdle /\ appr = ApprIdle
  /\ left = Budget
  /\ everIn = {} /\ forgotten = {}
  /\ raced = [w \in Writers |-> {}]

Next == \/ EngineNext /\ UNCHANGED <<cmd, appr>>
        \/ OperatorNext /\ UNCHANGED pass

\* The daemon's loop starts the next pass whatever became of the last one,
\* and a process that is not killed takes its next step.
Fairness == /\ WF_vars(PassStep(Daemon) /\ UNCHANGED <<cmd, appr>>)
            /\ WF_vars(ResyncStep /\ UNCHANGED pass)

Spec == Init /\ [][Next]_vars
FairSpec == Spec /\ Fairness

-----------------------------------------------------------------------------
TypeOK ==
  /\ watermark \in Nat /\ clock \in Nat
  /\ ledger \in Table(LedgerRow)
  /\ queue \in Table(QueueRow)
  /\ likedAt \in [Likes -> Nat]
  /\ playlist \in [Tracks -> Nat]
  /\ pass \in [Engines -> Pass]
  /\ cmd \in Cmd /\ appr \in Appr
  /\ left \in [Events -> Nat]
  /\ shared \subseteq Nat /\ everIn \subseteq Tracks /\ forgotten \subseteq Likes
  /\ raced \in [Writers -> SUBSET Tracks]

\* A like the watermark has passed is never fetched again, so it must have
\* reached the ledger or the review queue (engine.go, passClean), whatever
\* failed, died or ran beside the pass that moved the watermark.  A like cast
\* in the same second as another vote is excepted: the second of two votes in
\* the watermark's second is never fetched when it is cast after the fetch.
NoLikeLost ==
  \A l \in Likes :
    0 < likedAt[l] /\ likedAt[l] <= watermark =>
      l \in Settled \cup forgotten \/ likedAt[l] \in shared

\* "Ledger after write": a row never names a track that was not in the
\* playlist first, or a crash between the two would skip the track.
LedgerAfterWrite == \A l \in Keys(ledger) : ledger[l].track \in everIn

\* A writer posts each track once, and no track it could have known to be
\* there: one that is there arrived after the writer's last look.
DuplicateOnlyIfRaced ==
  /\ \A e \in Engines : pass[e].pc = "post" =>
       \A t \in Tracks : /\ pass[e].pend[t] <= 1
                         /\ pass[e].pend[t] = 1 /\ playlist[t] > 0 => t \in raced[e]
  /\ appr.pc = "post" /\ playlist[appr.track] > 0 => appr.track \in raced[Approver]

\* Approving a like records it before the queue says so; only a resync can
\* take the record away again.
ApprovedIsRecorded ==
  \A l \in Keys(queue) :
    queue[l].status = "approved" => l \in Keys(ledger) \cup forgotten

\* What `resync --forget` prints: the forgotten like is re-read.  Once the
\* command is over, the like lies after the watermark, or is settled anew.
ForgottenIsReread ==
  cmd.pc = "idle" =>
    \A l \in forgotten :
      likedAt[l] > 0 => likedAt[l] > watermark \/ l \in Keys(queue)

\* "sync  # re-adds it": a forgotten like that has been re-read is either
\* back in the ledger, or shown to the operator as pending review.
ForgottenIsReadded ==
  cmd.pc = "idle" =>
    \A l \in forgotten :
      likedAt[l] > 0 =>
        \/ likedAt[l] > watermark
        \/ queue[l] # None /\ queue[l].status = "pending"

\* "A cached copy ignores the operator's reset and then writes the stale value
\* back over it": a pass never moves the watermark forward over a reset that
\* took it below the mark the pass started from.
ResetStands ==
  [][\A e \in Engines :
       pass'[e] # pass[e] /\ watermark < pass[e].wm0 => watermark' = watermark]_vars

\* A decision in the review queue is not undone by queueing the like again.
DecisionsStand ==
  [][\A l \in Keys(queue) :
       /\ l \in Keys(queue')
       /\ queue[l].status # "pending" => queue'[l].status # "pending"]_vars

\* --dry-run: a pass that only previews leaves no trace.
DryRunWritesNothing ==
  [][\A e \in DryEngines : pass'[e] # pass[e] =>
       UNCHANGED <<watermark, ledger, queue, playlist>>]_vars

\* "Nothing is ever silently dropped": once faults have stopped, every like
\* that stays liked is recorded or queued.
EveryLikeSettles ==
  \A l \in Likes : likedAt[l] > 0 ~> (l \in Settled \/ likedAt[l] = 0)
=============================================================================
