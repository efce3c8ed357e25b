-------------------------- MODULE SyncSafety_proofs --------------------------
(***************************************************************************)
(* Proofs about SyncSystem, for every set of likes, tracks and engines,    *)
(* every answer Spotify may give, and every budget of events: its types,   *)
(* and the safety invariants that speak of the ledger, the queue and the   *)
(* playlist.  None of them is inductive by itself: each is strengthened by *)
(* what it says of a pass under way, given as a predicate of the pass      *)
(* record alone, so that a step of one process is seen at once to leave    *)
(* the other passes alone.                                                 *)
(***************************************************************************)
EXTENDS SyncSystem, TLAPS

-----------------------------------------------------------------------------
(* What a program counter says about the values beside it.                 *)
Control ==
  /\ \A e \in Engines : pass[e].pc = "search" => pass[e].cur \in Likes
  /\ cmd.pc = "drop" => cmd.cur \in Likes
  /\ cmd.pc = "rewind" => cmd.earliest > 0
  /\ appr.pc # "idle" => /\ appr.like \in Likes /\ queue[appr.like] # None
                         /\ appr.track \in Tracks

TypeInv == TypeOK /\ Control

(* Lemmas on the operators the actions are built from.                     *)

\* Every operation on a table yields a table of the same kind.
LEMMA TableTypes ==
  ASSUME NEW Row, NEW table \in Table(Row), NEW l \in Likes
  PROVE  /\ NoRows \in Table(Row)
         /\ ForgetTrack(table, l) \in Table(Row)
         /\ \A rows \in Table(Row) : RecordSynced(table, rows) \in Table(Row)
         /\ \A row \in Row : [table EXCEPT ![l] = row] \in Table(Row)
  BY DEF Table, NoRows, ForgetTrack, RecordSynced

LEMMA EnqueueType ==
  ASSUME NEW table \in Table(QueueRow), NEW l \in Likes,
         NEW cands \in SUBSET Tracks, NEW at \in Nat
  PROVE  Enqueue(table, l, cands, at) \in Table(QueueRow)
  <1>1. StatusOf(table, l) \in Status
    BY DEF StatusOf, Status, Table, QueueRow
  <1>2. [status |-> StatusOf(table, l), cands |-> cands, at |-> at] \in QueueRow
    BY <1>1 DEF QueueRow
  <1>3. QED
    BY <1>2 DEF Enqueue, Table

LEMMA ResolveType ==
  ASSUME NEW table \in Table(QueueRow), NEW l \in Likes, table[l] # None,
         NEW status \in Status
  PROVE  ResolveReview(table, l, status) \in Table(QueueRow)
  <1>1. [table[l] EXCEPT !.status = status] \in QueueRow
    BY DEF Table, QueueRow
  <1>2. QED
    BY <1>1 DEF ResolveReview, Table

LEMMA ResolveKeeps ==
  ASSUME NEW table \in Table(QueueRow), NEW l \in Likes, table[l] # None,
         NEW status \in Status
  PROVE  \A m \in Likes : table[m] # None => ResolveReview(table, l, status)[m] # None
  <1>1. [table[l] EXCEPT !.status = status] \in QueueRow
    BY DEF Table, QueueRow
  <1>2. QED
    BY <1>1, NoneIsNoRow DEF ResolveReview, Table

\* The ways a pass is done with a like keep it a pass.
LEMMA PassTypes ==
  ASSUME NEW p \in Pass, NEW l \in Likes
  PROVE  Passed(p, l) \in Pass /\ Advanced(p, l) \in Pass /\ Failed(p, l) \in Pass
  <1>1. Passed(p, l) \in Pass
    BY DEF Passed, Pass, PassPC
  <1>2. Max2(p.high, p.todo[l]) \in Nat
    BY DEF Max2, Pass
  <1>3. QED
    BY <1>1, <1>2 DEF Advanced, Failed, Pass

LEMMA IdleType == Idle \in Pass /\ NoLikes \in [Likes -> Nat]
  <1>1. NoRows \in Table(LedgerRow)
    BY DEF NoRows, Table
  <1>2. QED
    BY <1>1 DEF Idle, Pass, PassPC, NoLikes, NoTracks

LEMMA MatchType ==
  ASSUME NEW p \in Pass, p.cur \in Likes, NEW r \in Result, r.best \in Tracks
  PROVE  Match(p, r) \in Pass
  <1> DEFINE q == Passed(p, p.cur)
             row == [track |-> r.best, at |-> p.todo[p.cur]]
             ledge == [q.ledge EXCEPT ![p.cur] = row]
             pend == [q.pend EXCEPT ![r.best] = IF r.best \in p.known THEN @ ELSE @ + 1]
  <1>1. q \in Pass
    BY PassTypes
  <1>2. row \in LedgerRow
    BY DEF LedgerRow, Pass
  <1>3. ledge \in Table(LedgerRow)
    <2>1. q.ledge \in Table(LedgerRow)
      BY <1>1 DEF Pass
    <2>2. QED
      BY <1>2, <2>1, TableTypes
  <1>4. pend \in [Tracks -> Nat]
    <2>1. q.pend \in [Tracks -> Nat]
      BY <1>1 DEF Pass
    <2>2. QED
      BY <2>1
  <1>5. q.known \cup {r.best} \in SUBSET Tracks
    BY <1>1 DEF Pass
  <1>6. Match(p, r) = [q EXCEPT !.ledge = ledge, !.pend = pend,
                                !.known = q.known \cup {r.best}]
    BY DEF Match
  <1>7. QED
    <2> HIDE DEF q, ledge, pend
    <2>1. QED BY <1>1, <1>3, <1>4, <1>5, <1>6 DEF Pass

\* What is left to show of a step of engine e that turns its pass into p.
PassGoal(e, p) == Becomes(e, p) /\ p \in Pass /\ (p.pc = "search" => p.cur \in Likes)

LEMMA BecomesType ==
  ASSUME TypeInv, NEW e \in Engines, NEW p, PassGoal(e, p)
  PROVE  /\ pass' \in [Engines -> Pass]
         /\ \A f \in Engines : pass'[f].pc = "search" => pass'[f].cur \in Likes
  <1>1. pass \in [Engines -> Pass]
    BY DEF TypeInv, TypeOK
  <1>2. QED
    BY <1>1 DEF PassGoal, Becomes, TypeInv, Control

LEMMA SpendType == ASSUME TypeInv, NEW k \in Events, Spend(k)
                   PROVE  left' \in [Events -> Nat]
  BY DEF TypeInv, TypeOK, Spend

LEMMA AddType ==
  ASSUME TypeInv, NEW w, NEW bag \in [Tracks -> Nat], AddToPlaylist(w, bag)
  PROVE  /\ playlist' \in [Tracks -> Nat]
         /\ everIn' \subseteq Tracks
         /\ raced' \in [Writers -> SUBSET Tracks]
  BY DEF TypeInv, TypeOK, AddToPlaylist

LEMMA BatchType ==
  ASSUME NEW p \in Pass, NEW b \in Batches(p)
  PROVE  b \in [Tracks -> Nat] /\ Without(p, b) \in [Tracks -> Nat]
  <1>1. b \in [Tracks -> 0..1] /\ p.pend \in [Tracks -> Nat]
    BY DEF Batches, Pass
  <1>2. \A t \in Tracks : b[t] \in Nat /\ p.pend[t] \in Nat /\ b[t] <= p.pend[t]
    BY <1>1 DEF Batches
  <1>3. \A t \in Tracks : p.pend[t] - b[t] \in Nat
    BY <1>2
  <1>4. QED
    BY <1>1, <1>2, <1>3 DEF Without

LEMMA NewLikesType == ASSUME TypeInv, NEW since
                      PROVE  NewLikes(since) \in [Likes -> Nat]
  BY DEF TypeInv, TypeOK, NewLikes

LEMMA RecordType ==
  ASSUME TypeInv, NEW e \in Engines, NEW l \in Likes,
         NEW cands \in SUBSET Tracks, Record(e, l, cands)
  PROVE  /\ \E p : PassGoal(e, p)
         /\ queue' \in Table(QueueRow)
         /\ \A m \in Likes : queue[m] # None => queue'[m] # None
         /\ left' \in [Events -> Nat]
  <1> DEFINE p == pass[e]
  <1>1. p \in Pass /\ queue \in Table(QueueRow) /\ left \in [Events -> Nat]
    BY DEF TypeInv, TypeOK
  <1>2. Passed(p, l) \in Pass /\ Advanced(p, l) \in Pass /\ Failed(p, l) \in Pass
    BY <1>1, PassTypes
  <1>3. Passed(p, l).pc = "likes" /\ Advanced(p, l).pc = "likes"
        /\ Failed(p, l).pc = "likes"
    BY <1>1 DEF Passed, Advanced, Failed, Pass
  <1>4. p.todo[l] \in Nat
    BY <1>1 DEF Pass
  <1>5. Enqueue(queue, l, cands, p.todo[l]) \in Table(QueueRow)
    BY <1>1, <1>4, EnqueueType
  <1>6. \A m \in Likes :
          queue[m] # None => Enqueue(queue, l, cands, p.todo[l])[m] # None
    <2>1. [status |-> StatusOf(queue, l), cands |-> cands, at |-> p.todo[l]] \in QueueRow
      BY <1>1, <1>4 DEF StatusOf, Status, Table, QueueRow
    <2>2. QED
      BY <1>1, <2>1, NoneIsNoRow DEF Enqueue, Table
  <1>7. CASE e \in DryEngines
    BY <1>1, <1>2, <1>3, <1>7 DEF Record, PassGoal
  <1>8. CASE e \notin DryEngines
    <2>1. CASE Spend("fault") /\ Becomes(e, Failed(p, l)) /\ UNCHANGED queue
      BY <1>1, <1>2, <1>3, <2>1, SpendType DEF PassGoal, Events
    <2>2. CASE queue' = Enqueue(queue, l, cands, p.todo[l])
               /\ Becomes(e, Advanced(p, l)) /\ UNCHANGED left
      BY <1>1, <1>2, <1>3, <1>5, <1>6, <2>2 DEF PassGoal
    <2>3. QED
      BY <1>8, <2>1, <2>2 DEF Record
  <1>9. QED
    BY <1>7, <1>8
(* Every step preserves the type invariant.                                *)
LEMMA EngineType ==
  ASSUME TypeInv, EngineNext, UNCHANGED <<cmd, appr>>
  PROVE  TypeInv'
  <1> USE DEF TypeInv, TypeOK
  <1>1. ASSUME NEW e \in Engines, PassStep(e) \/ PassFault(e)
        PROVE  /\ \E p : PassGoal(e, p)
               /\ watermark' \in Nat /\ clock' \in Nat
               /\ ledger' \in Table(LedgerRow) /\ queue' \in Table(QueueRow)
               /\ \A m \in Likes : queue[m] # None => queue'[m] # None
               /\ likedAt' \in [Likes -> Nat]
               /\ playlist' \in [Tracks -> Nat]
               /\ left' \in [Events -> Nat]
               /\ shared' \subseteq Nat /\ everIn' \subseteq Tracks
               /\ forgotten' \subseteq Likes
               /\ raced' \in [Writers -> SUBSET Tracks]
    <2> DEFINE p == pass[e]
    <2> USE DEF dbVars, difmVars, spotVars
    <2>0. p \in Pass /\ Idle \in Pass /\ Idle.pc = "idle"
      BY IdleType DEF Idle
    <2>1. CASE Begin(e)
      <3>1. [Idle EXCEPT !.pc = "fetch", !.wm0 = watermark, !.high = watermark] \in Pass
        BY <2>0 DEF Pass, PassPC
      <3>2. PassGoal(e, [Idle EXCEPT !.pc = "fetch", !.wm0 = watermark,
                                     !.high = watermark])
        BY <2>0, <2>1, <3>1 DEF Begin, PassGoal, Pass
      <3>3. QED BY <2>1, <3>2, SpendType DEF Begin, Events
    <2>2. CASE Fetch(e)
      <3> DEFINE q == [p EXCEPT !.pc = "reconcile", !.todo = NewLikes(p.wm0)]
      <3>1. NewLikes(p.wm0) \in [Likes -> Nat]
        BY NewLikesType
      <3>2. q \in Pass /\ q.pc = "reconcile"
        BY <2>0, <3>1 DEF Pass, PassPC
      <3>3. PassGoal(e, q)
        BY <2>2, <3>2 DEF Fetch, PassGoal
      <3>4. QED BY <2>2, <3>3 DEF Fetch
    <2>3. CASE FetchDropped(e)
      <3>1. PICK lost \in SUBSET Likes : Becomes(e, [p EXCEPT
              !.pc = "reconcile", !.clean = FALSE,
              !.todo = [l \in Likes |->
                         IF l \in lost THEN 0 ELSE NewLikes(p.wm0)[l]]])
        BY <2>3 DEF FetchDropped
      <3> DEFINE todo == [l \in Likes |->
                           IF l \in lost THEN 0 ELSE NewLikes(p.wm0)[l]]
                 q == [p EXCEPT !.pc = "reconcile", !.clean = FALSE, !.todo = todo]
      <3>2. todo \in [Likes -> Nat]
        BY NewLikesType
      <3>3. q \in Pass /\ q.pc = "reconcile"
        <4> HIDE DEF todo
        <4> QED BY <2>0, <3>2 DEF Pass, PassPC
      <3>4. PassGoal(e, q)
        BY <3>1, <3>3 DEF PassGoal
      <3>5. QED BY <2>3, <3>4, SpendType DEF FetchDropped, Events
    <2>4. CASE Reconcile(e)
      <3> DEFINE q == [p EXCEPT !.pc = "likes", !.known = InPlaylist]
      <3>1. q \in Pass /\ q.pc = "likes"
        BY <2>0 DEF Pass, PassPC, InPlaylist
      <3>2. PassGoal(e, q)
        BY <2>4, <3>1 DEF Reconcile, PassGoal
      <3>3. QED BY <2>4, <3>2 DEF Reconcile
    <2>5. CASE SkipMix(e)
      <3>1. PICK l \in Mixes : Record(e, l, {})
        BY <2>5 DEF SkipMix
      <3>2. l \in Likes /\ {} \in SUBSET Tracks
        BY ConstantsOK
      <3>3. QED BY <2>5, <3>1, <3>2, RecordType DEF SkipMix
    <2>6. CASE CheckLedger(e)
      <3>1. PICK l \in Likes : Becomes(e, IF ledger[l] # None THEN Advanced(p, l)
                                 ELSE [p EXCEPT !.pc = "search", !.cur = l])
        BY <2>6 DEF CheckLedger
      <3>2. Advanced(p, l) \in Pass /\ Advanced(p, l).pc = "likes"
        BY <2>0, PassTypes DEF Advanced, Passed, Pass
      <3>3. [p EXCEPT !.pc = "search", !.cur = l] \in Pass
            /\ [p EXCEPT !.pc = "search", !.cur = l].cur = l
        BY <2>0 DEF Pass, PassPC
      <3>4. \E q : PassGoal(e, q)
        BY <3>1, <3>2, <3>3 DEF PassGoal
      <3>5. QED BY <2>6, <3>4 DEF CheckLedger
    <2>7. CASE Search(e)
      <3>1. p.cur \in Likes
        BY <2>7 DEF Search, Control
      <3>2. PICK r \in Finds[p.cur] :
              \/ /\ IsAuto(r)
                 /\ Becomes(e, IF e \in DryEngines THEN DryMatch(p, r) ELSE Match(p, r))
                 /\ UNCHANGED <<queue, left>>
              \/ ~ IsAuto(r) /\ Record(e, p.cur, r.cands)
        BY <2>7 DEF Search
      <3>3. r \in Result /\ r.cands \in SUBSET Tracks
        BY <3>1, ConstantsOK DEF Result
      <3>4. CASE IsAuto(r)
        <4>1. r.best \in Tracks
          BY <3>1, <3>4, FindsOK DEF IsAuto
        <4>2. Match(p, r) \in Pass /\ Passed(p, p.cur) \in Pass
          BY <2>0, <3>1, <3>3, <4>1, MatchType, PassTypes
        <4>3. Passed(p, p.cur).pc = "likes" /\ Match(p, r).pc = "likes"
          BY <2>0, <4>2 DEF Passed, Match, Pass
        <4>4. DryMatch(p, r) \in Pass /\ DryMatch(p, r).pc = "likes"
          BY <4>2, <4>3 DEF DryMatch
        <4>5. \E q : PassGoal(e, q)
          BY <3>2, <3>4, <4>2, <4>3, <4>4 DEF PassGoal
        <4>6. QED BY <2>7, <3>2, <3>4, <4>5 DEF Search
      <3>5. CASE ~ IsAuto(r)
        BY <2>7, <3>1, <3>2, <3>3, <3>5, RecordType DEF Search
      <3>6. QED BY <3>4, <3>5
    <2>8. CASE EndDryRun(e)
      <3>1. PassGoal(e, Idle)
        BY <2>0, <2>8 DEF EndDryRun, PassGoal
      <3>2. QED BY <2>8, <3>1 DEF EndDryRun
    <2>9. CASE Reread(e)
      <3> DEFINE q == [p EXCEPT !.pc = IF \E t \in Tracks : Fresh(p)[t] > 0
                                         THEN "post" ELSE "commit",
                                !.pend = Fresh(p)]
      <3>1. Fresh(p) \in [Tracks -> Nat]
        BY <2>0 DEF Fresh, Pass
      <3>2. q \in Pass /\ q.pc # "search"
        BY <2>0, <3>1 DEF Pass, PassPC
      <3>3. PassGoal(e, q)
        BY <2>9, <3>2 DEF Reread, PassGoal
      <3>4. QED BY <2>9, <3>3 DEF Reread, PlaylistTrackIDs
    <2>10. CASE Post(e)
      <3>1. PICK b \in Batches(p) :
              /\ AddToPlaylist(e, b)
              /\ Becomes(e, [p EXCEPT !.pend = Without(p, b),
                                      !.pc = IF Without(p, b) = NoTracks
                                               THEN "commit" ELSE "post"])
        BY <2>10 DEF Post
      <3> DEFINE q == [p EXCEPT !.pend = Without(p, b),
                                !.pc = IF Without(p, b) = NoTracks
                                         THEN "commit" ELSE "post"]
      <3>2. b \in [Tracks -> Nat] /\ Without(p, b) \in [Tracks -> Nat]
        BY <2>0, BatchType
      <3>3. q \in Pass /\ q.pc # "search"
        BY <2>0, <3>2 DEF Pass, PassPC
      <3>4. PassGoal(e, q)
        BY <3>1, <3>3 DEF PassGoal
      <3>5. QED BY <2>10, <3>1, <3>2, <3>4, AddType DEF Post
    <2>11. CASE Commit(e)
      <3>1. PassGoal(e, Idle)
        BY <2>0, <2>11 DEF Commit, PassGoal
      <3>2. Marks(p) \subseteq Nat
        BY <2>0 DEF Marks, Keys, Pass, Table, LedgerRow
      <3>3. watermark' \in Nat
        BY <2>11, <3>2 DEF Commit
      <3>4. ledger' \in Table(LedgerRow)
        BY <2>0, <2>11 DEF Commit, RecordSynced, Table, Pass
      <3>5. QED BY <2>11, <3>1, <3>3, <3>4 DEF Commit
    <2>12. CASE SearchFails(e)
      <3>1. p.cur \in Likes
        BY <2>12 DEF SearchFails, Control
      <3>2. Failed(p, p.cur) \in Pass /\ Failed(p, p.cur).pc = "likes"
        BY <2>0, <3>1, PassTypes DEF Failed, Passed, Pass
      <3>3. PassGoal(e, Failed(p, p.cur))
        BY <2>12, <3>2 DEF SearchFails, PassGoal
      <3>4. QED BY <2>12, <3>3, SpendType DEF SearchFails, Events
    <2>13. CASE PostUnanswered(e)
      <3>1. PICK b \in Batches(p) : AddToPlaylist(e, b)
        BY <2>13 DEF PostUnanswered
      <3>2. b \in [Tracks -> Nat]
        BY DEF Batches
      <3>3. PassGoal(e, Idle)
        BY <2>0, <2>13 DEF PostUnanswered, PassGoal
      <3>4. QED
        BY <2>13, <3>1, <3>2, <3>3, AddType, SpendType DEF PostUnanswered, Events
    <2>14. CASE Abort(e)
      <3>1. PassGoal(e, Idle)
        BY <2>0, <2>14 DEF Abort, PassGoal
      <3>2. QED BY <2>14, <3>1, SpendType DEF Abort, Events
    <2>15. QED
      BY <1>1, <2>1, <2>2, <2>3, <2>4, <2>5, <2>6, <2>7, <2>8, <2>9, <2>10,
         <2>11, <2>12, <2>13, <2>14 DEF PassStep, PassFault
  <1>2. PICK e \in Engines : PassStep(e) \/ PassFault(e)
    BY DEF EngineNext
  <1>3. /\ pass' \in [Engines -> Pass]
        /\ \A f \in Engines : pass'[f].pc = "search" => pass'[f].cur \in Likes
    BY <1>1, <1>2, BecomesType
  <1>4. cmd' = cmd /\ appr' = appr
    OBVIOUS
  <1>5. TypeOK'
    BY <1>1, <1>2, <1>3, <1>4
  <1>6. Control'
    <2>1. appr.pc # "idle" => appr.like \in Likes /\ queue'[appr.like] # None
      BY <1>1, <1>2 DEF Control
    <2>2. QED
      BY <1>3, <1>4, <2>1 DEF Control
  <1>7. QED
    BY <1>5, <1>6

LEMMA OperatorType ==
  ASSUME TypeInv, OperatorNext, UNCHANGED pass
  PROVE  TypeInv'
  <1> USE DEF dbVars, difmVars, spotVars
  <1>0. TypeOK /\ Control /\ pass' = pass
    BY DEF TypeInv
  <1>a. CmdIdle \in Cmd /\ ApprIdle \in Appr
    BY DEF CmdIdle, ApprIdle, Cmd, Appr
  \* resync
  <1>1. CASE StartResync
    <2>1. left' \in [Events -> Nat]
      BY <1>1, SpendType DEF StartResync, Events
    <2>2. cmd' \in Cmd /\ cmd'.pc \in {"look", "dropall", "clear"}
      BY <1>0, <1>1, <1>a DEF StartResync, CmdIdle, Cmd, TypeOK
    <2>3. QED
      BY <1>0, <1>1, <2>1, <2>2 DEF StartResync, TypeInv, TypeOK, Control
  <1>2. CASE LookUp
    <2>1. PICK l \in cmd.todo :
            cmd' = [cmd EXCEPT !.pc = "drop", !.cur = l, !.todo = @ \ {l},
                     !.earliest = IF ledger[l] # None /\ (@ = 0 \/ ledger[l].at < @)
                                    THEN ledger[l].at ELSE @]
      BY <1>2 DEF LookUp
    <2>2. l \in Likes /\ (ledger[l] # None => ledger[l].at \in Nat)
      BY <1>0 DEF TypeOK, Cmd, Table, LedgerRow
    <2>3. cmd' \in Cmd /\ cmd'.pc = "drop" /\ cmd'.cur = l
      BY <1>0, <2>1, <2>2 DEF TypeOK, Cmd
    <2>4. QED
      BY <1>0, <1>2, <2>2, <2>3 DEF LookUp, TypeInv, TypeOK, Control
  <1>3. CASE Drop
    <2>1. cmd.cur \in Likes /\ ledger' \in Table(LedgerRow)
      BY <1>0, <1>3, TableTypes DEF Drop, Control, TypeOK
    <2>2. /\ cmd' \in Cmd /\ cmd'.pc # "drop"
          /\ cmd'.pc = "rewind" => cmd'.earliest > 0
      BY <1>0, <1>3, <1>a DEF Drop, Onward, AfterForget, Cmd, CmdIdle, TypeOK
    <2>3. forgotten' \subseteq Likes
      BY <1>0, <1>3, <2>1 DEF Drop, TypeOK
    <2>4. QED
      BY <1>0, <1>3, <2>1, <2>2, <2>3 DEF Drop, TypeInv, TypeOK, Control
  <1>4. CASE Rewind
    <2>1. watermark' \in Nat
      BY <1>0, <1>4 DEF Rewind, Control, TypeOK, Cmd
    <2>2. QED
      BY <1>0, <1>4, <1>a, <2>1 DEF Rewind, TypeInv, TypeOK, Control, CmdIdle
  <1>5. CASE ForgetAllTracks
    <2>1. ledger' \in Table(LedgerRow) /\ forgotten' \subseteq Likes
      BY <1>0, <1>5 DEF ForgetAllTracks, NoRows, Table, Keys, TypeOK
    <2>2. cmd' \in Cmd /\ cmd'.pc = "clear"
      BY <1>0, <1>5 DEF ForgetAllTracks, Cmd, TypeOK
    <2>3. QED
      BY <1>0, <1>5, <2>1, <2>2 DEF ForgetAllTracks, TypeInv, TypeOK, Control
  <1>6. CASE ClearWatermark
    BY <1>0, <1>6, <1>a DEF ClearWatermark, TypeInv, TypeOK, Control, CmdIdle
  <1>7. CASE ResyncDies
    <2>1. left' \in [Events -> Nat]
      BY <1>7, SpendType DEF ResyncDies, Events
    <2>2. QED
      BY <1>0, <1>7, <1>a, <2>1 DEF ResyncDies, TypeInv, TypeOK, Control, CmdIdle
  \* review
  <1>8. CASE StartApprove
    <2>1. left' \in [Events -> Nat]
      BY <1>8, SpendType DEF StartApprove, Events
    <2>2. PICK l \in Keys(queue) : \E t \in queue[l].cands :
            appr' = [pc |-> "read", like |-> l, track |-> t, at |-> queue[l].at]
      BY <1>8 DEF StartApprove
    <2>3. l \in Likes /\ queue[l] # None /\ queue[l] \in QueueRow
      BY <1>0 DEF Keys, TypeOK, Table
    <2>4. appr' \in Appr /\ appr'.like = l /\ appr'.track \in Tracks
      BY <2>2, <2>3 DEF QueueRow, Appr
    <2>5. QED
      BY <1>0, <1>8, <2>1, <2>3, <2>4 DEF StartApprove, TypeInv, TypeOK, Control
  <1>9. CASE ApproveReads
    <2>1. /\ appr' \in Appr /\ appr.pc # "idle"
          /\ appr'.like = appr.like /\ appr'.track = appr.track
      BY <1>0, <1>9 DEF ApproveReads, Appr, TypeOK
    <2>2. raced' \in [Writers -> SUBSET Tracks]
      BY <1>0, <1>9 DEF ApproveReads, PlaylistTrackIDs, TypeOK
    <2>3. QED
      BY <1>0, <1>9, <2>1, <2>2 DEF ApproveReads, TypeInv, TypeOK, Control
  <1>10. CASE ApprovePosts
    <2>1. Chosen \in [Tracks -> Nat]
      BY DEF Chosen
    <2>2. /\ appr' \in Appr /\ appr.pc # "idle"
          /\ appr'.like = appr.like /\ appr'.track = appr.track
      BY <1>0, <1>10 DEF ApprovePosts, Appr, TypeOK
    <2>3. /\ playlist' \in [Tracks -> Nat] /\ everIn' \subseteq Tracks
          /\ raced' \in [Writers -> SUBSET Tracks]
      BY <1>10, <2>1, AddType DEF ApprovePosts
    <2>4. QED
      BY <1>0, <1>10, <2>2, <2>3 DEF ApprovePosts, TypeInv, TypeOK, Control
  <1>11. CASE ApproveUnanswered
    <2>1. Chosen \in [Tracks -> Nat]
      BY DEF Chosen
    <2>2. /\ playlist' \in [Tracks -> Nat] /\ everIn' \subseteq Tracks
          /\ raced' \in [Writers -> SUBSET Tracks]
      BY <1>11, <2>1, AddType DEF ApproveUnanswered
    <2>3. left' \in [Events -> Nat]
      BY <1>11, SpendType DEF ApproveUnanswered, Events
    <2>4. QED
      BY <1>0, <1>11, <1>a, <2>2, <2>3
         DEF ApproveUnanswered, TypeInv, TypeOK, Control, ApprIdle
  <1>12. CASE ApproveRecords
    <2>1. appr.like \in Likes /\ appr.track \in Tracks /\ appr.at \in Nat
      BY <1>0, <1>12 DEF ApproveRecords, Control, TypeOK, Appr
    <2>2. [NoRows EXCEPT ![appr.like] = [track |-> appr.track, at |-> appr.at]]
            \in Table(LedgerRow)
      BY <2>1 DEF NoRows, Table, LedgerRow
    <2>3. ledger' \in Table(LedgerRow)
      BY <1>0, <1>12, <2>1, <2>2, TableTypes DEF ApproveRecords, TypeOK
    <2>4. /\ appr' \in Appr /\ appr.pc # "idle"
          /\ appr'.like = appr.like /\ appr'.track = appr.track
      BY <1>0, <1>12 DEF ApproveRecords, Appr, TypeOK
    <2>5. QED
      BY <1>0, <1>12, <2>3, <2>4 DEF ApproveRecords, TypeInv, TypeOK, Control
  <1>13. CASE ApproveResolves
    <2>1. appr.like \in Likes /\ queue[appr.like] # None
      BY <1>0, <1>13 DEF ApproveResolves, Control
    <2>2. queue' \in Table(QueueRow)
      BY <1>0, <1>13, <2>1, ResolveType DEF ApproveResolves, Status, TypeOK
    <2>3. QED
      BY <1>0, <1>13, <1>a, <2>2
         DEF ApproveResolves, TypeInv, TypeOK, Control, ApprIdle
  <1>14. CASE ApproveDies
    <2>1. left' \in [Events -> Nat]
      BY <1>14, SpendType DEF ApproveDies, Events
    <2>2. QED
      BY <1>0, <1>14, <1>a, <2>1 DEF ApproveDies, TypeInv, TypeOK, Control, ApprIdle
  <1>15. CASE Reject
    <2>1. left' \in [Events -> Nat]
      BY <1>15, SpendType DEF Reject, Events
    <2>2. PICK l \in Keys(queue) : queue' = ResolveReview(queue, l, "rejected")
      BY <1>15 DEF Reject
    <2>3. l \in Likes /\ queue[l] # None
      BY DEF Keys
    <2>4. queue' \in Table(QueueRow)
      BY <1>0, <2>2, <2>3, ResolveType DEF Status, TypeOK
    <2>5. \A m \in Likes : queue[m] # None => queue'[m] # None
      BY <1>0, <2>2, <2>3, <2>4, ResolveKeeps DEF Status, TypeOK
    <2>6. QED
      BY <1>0, <1>15, <2>1, <2>4, <2>5 DEF Reject, TypeInv, TypeOK, Control
  \* the member
  <1>16. ASSUME NEW l \in Likes, Like(l) PROVE TypeInv'
    <2>1. left' \in [Events -> Nat]
      BY <1>16, SpendType DEF Like, Events
    <2>a. clock \in Nat /\ shared \subseteq Nat
      BY <1>0 DEF TypeOK
    <2>b. \/ clock' = clock + 1 /\ shared' = shared
          \/ clock' = clock /\ shared' = shared \cup {clock}
      BY <1>16, Zenon DEF Like
    <2>2. clock' \in Nat /\ shared' \subseteq Nat
      <3>1. CASE clock' = clock + 1 /\ shared' = shared
        <4>1. clock + 1 \in Nat
          BY <2>a
        <4>2. QED BY <2>a, <3>1, <4>1
      <3>2. CASE clock' = clock /\ shared' = shared \cup {clock}
        BY <2>a, <3>2, Zenon
      <3>3. QED BY <2>b, <3>1, <3>2, Zenon
    <2>3. likedAt' \in [Likes -> Nat]
      BY <1>0, <1>16, <2>2 DEF Like, TypeOK
    <2>4. QED
      BY <1>0, <1>16, <2>1, <2>2, <2>3 DEF Like, TypeInv, TypeOK, Control
  <1>17. ASSUME NEW l \in Likes, Unlike(l) PROVE TypeInv'
    <2>1. left' \in [Events -> Nat]
      BY <1>17, SpendType DEF Unlike, Events
    <2>2. QED
      BY <1>0, <1>17, <2>1 DEF Unlike, TypeInv, TypeOK, Control
  <1>18. ASSUME NEW t \in Tracks, DeleteByHand(t) PROVE TypeInv'
    <2>1. left' \in [Events -> Nat]
      BY <1>18, SpendType DEF DeleteByHand, Events
    <2>2. QED
      BY <1>0, <1>18, <2>1 DEF DeleteByHand, TypeInv, TypeOK, Control
  <1>19. ASSUME NEW t \in Tracks, AddByHand(t) PROVE TypeInv'
    <2>1. left' \in [Events -> Nat]
      BY <1>19, SpendType DEF AddByHand, Events
    <2>2. [u \in Tracks |-> IF u = t THEN 1 ELSE 0] \in [Tracks -> Nat]
      OBVIOUS
    <2>3. /\ playlist' \in [Tracks -> Nat] /\ everIn' \subseteq Tracks
          /\ raced' \in [Writers -> SUBSET Tracks]
      BY <1>19, <2>2, AddType DEF AddByHand
    <2>4. QED
      BY <1>0, <1>19, <2>1, <2>3 DEF AddByHand, TypeInv, TypeOK, Control
  <1>20. QED
    BY <1>1, <1>2, <1>3, <1>4, <1>5, <1>6, <1>7, <1>8, <1>9, <1>10, <1>11,
       <1>12, <1>13, <1>14, <1>15, <1>16, <1>17, <1>18, <1>19
       DEF OperatorNext, Resync, ResyncStep, Review, Member

LEMMA TypeInit == Init => TypeInv
  <1> SUFFICES ASSUME Init PROVE TypeInv
    OBVIOUS
  <1>1. CmdIdle \in Cmd /\ ApprIdle \in Appr /\ Idle.pc = "idle"
    BY DEF CmdIdle, ApprIdle, Cmd, Appr, Idle
  <1>2. NoRows \in Table(LedgerRow) /\ NoRows \in Table(QueueRow)
    BY DEF NoRows, Table
  <1>a. pass \in [Engines -> Pass]
    BY IdleType DEF Init
  <1>b. likedAt \in [Likes -> Nat] /\ playlist \in [Tracks -> Nat]
    BY IdleType DEF Init, NoTracks
  <1>c. left \in [Events -> Nat] /\ raced \in [Writers -> SUBSET Tracks]
    BY ConstantsOK DEF Init
  <1>3. TypeOK
    BY <1>1, <1>2, <1>a, <1>b, <1>c DEF Init, TypeOK
  <1>4. Control
    BY <1>1 DEF Init, Control, CmdIdle, ApprIdle
  <1>5. QED
    BY <1>3, <1>4 DEF TypeInv

LEMMA TypeStep == TypeInv /\ [Next]_vars => TypeInv'
  <1> SUFFICES ASSUME TypeInv, [Next]_vars PROVE TypeInv'
    OBVIOUS
  <1>1. CASE Next
    BY <1>1, EngineType, OperatorType DEF Next
  <1>2. CASE UNCHANGED vars
    BY <1>2 DEF vars, TypeInv, TypeOK, Control
  <1>3. QED
    BY <1>1, <1>2

LEMMA TypeInvariant == Spec => []TypeInv
  BY TypeInit, TypeStep, PTL DEF Spec

\* Every variable keeps its type, whatever the passes, the commands and the
\* member do (the declarations of engine.go, ops.go and resync.go).
THEOREM TypeCorrect == Spec => []TypeOK
  <1>1. TypeInv => TypeOK
    BY DEF TypeInv
  <1>2. QED
    BY <1>1, TypeInvariant, PTL

-----------------------------------------------------------------------------
(* What the pass helpers leave alone.                                      *)
LEMMA PassedKeeps ==
  ASSUME NEW p \in Pass, NEW l \in Likes,
         NEW q \in {Passed(p, l), Advanced(p, l), Failed(p, l)}
  PROVE  /\ q.pc = "likes" /\ q.wm0 = p.wm0 /\ q.known = p.known
         /\ q.pend = p.pend /\ q.ledge = p.ledge
         /\ q.todo = [p.todo EXCEPT ![l] = 0]
  BY DEF Passed, Advanced, Failed, Pass

\* What an automatic match does to a pass.
LEMMA MatchFields ==
  ASSUME NEW p \in Pass, p.cur \in Likes, NEW r \in Result, r.best \in Tracks
  PROVE  LET q == Match(p, r)
             row == [track |-> r.best, at |-> p.todo[p.cur]] IN
         /\ q.pc = "likes" /\ q.high = p.high /\ q.clean = p.clean
         /\ q.todo = [p.todo EXCEPT ![p.cur] = 0]
         /\ q.known = p.known \cup {r.best}
         /\ q.ledge = [p.ledge EXCEPT ![p.cur] = row]
         /\ q.pend = [p.pend EXCEPT ![r.best] =
                        IF r.best \in p.known THEN @ ELSE @ + 1]
  BY DEF Match, Passed, Pass

\* Record leaves the pass in one of three ways, and adds to the queue only.
LEMMA RecordOutcome ==
  ASSUME TypeInv, NEW e \in Engines, NEW l \in Likes, NEW cands,
         Record(e, l, cands)
  PROVE  \E q \in {Passed(pass[e], l), Advanced(pass[e], l), Failed(pass[e], l)} :
           Becomes(e, q)
  BY DEF Record

LEMMA BecomesOthers ==
  ASSUME TypeInv, NEW e \in Engines, NEW q, Becomes(e, q)
  PROVE  pass'[e] = q /\ \A f \in Engines : f # e => pass'[f] = pass[f]
  BY DEF TypeInv, TypeOK, Becomes

LEMMA EngineOthers ==
  ASSUME TypeInv, NEW e \in Engines, PassStep(e) \/ PassFault(e)
  PROVE  \A f \in Engines : f # e => pass'[f] = pass[f]
  <1>1. \E q : Becomes(e, q)
    BY RecordOutcome, ConstantsOK, Zenon
       DEF PassStep, PassFault, Begin, Fetch, Reconcile, SkipMix, CheckLedger,
           EndDryRun, Reread, Post, Commit, FetchDropped, SearchFails,
           PostUnanswered, Abort, Search, Record
  <1>2. QED BY <1>1, BecomesOthers

-----------------------------------------------------------------------------
(* "Ledger after write".  A track the pass counts as present is in the     *)
(* playlist's history or still to be posted, and so is the track of every  *)
(* pending row; when it comes to the commit nothing is still to be posted. *)
PassWrites(p, ever) ==
  /\ \A t \in p.known : t \in ever \/ p.pend[t] > 0
  /\ \A l \in Likes : p.ledge[l] # None =>
       p.ledge[l].track \in ever \/ p.pend[p.ledge[l].track] > 0
  /\ p.pc = "commit" => \A t \in Tracks : p.pend[t] = 0

WriteInv ==
  /\ InPlaylist \subseteq everIn
  /\ LedgerAfterWrite
  /\ \A e \in Engines : PassWrites(pass[e], everIn)
  /\ appr.pc = "record" => appr.track \in everIn

LEMMA PassWritesGrows ==
  ASSUME NEW p, NEW ever, NEW more, ever \subseteq more, PassWrites(p, ever)
  PROVE  PassWrites(p, more)
  BY DEF PassWrites

LEMMA IdleWrites == ASSUME NEW ever PROVE PassWrites(Idle, ever)
  BY DEF PassWrites, Idle, NoRows

\* What a step of engine e owes to the invariant.
EngineWrites(e) ==
  /\ PassWrites(pass'[e], everIn')
  /\ everIn \subseteq everIn'
  /\ InPlaylist' \subseteq everIn'
  /\ \A l \in Likes : ledger'[l] # None => ledger'[l].track \in everIn'

LEMMA EngineWriteStep ==
  ASSUME TypeInv, WriteInv, NEW e \in Engines, PassStep(e) \/ PassFault(e)
  PROVE  EngineWrites(e)
  <1> DEFINE p == pass[e]
  <1> USE DEF dbVars, difmVars, spotVars
  <1>0. /\ p \in Pass /\ PassWrites(p, everIn) /\ InPlaylist \subseteq everIn
        /\ \A l \in Likes : ledger[l] # None => ledger[l].track \in everIn
    BY DEF TypeInv, TypeOK, WriteInv, LedgerAfterWrite, Keys
  <1>a. ASSUME NEW q, Becomes(e, q), PassWrites(q, everIn),
               UNCHANGED <<ledger, playlist, everIn>>
        PROVE  EngineWrites(e)
    BY <1>0, <1>a, BecomesOthers DEF EngineWrites, InPlaylist
  <1>b. ASSUME NEW l \in Likes,
               NEW q \in {Passed(p, l), Advanced(p, l), Failed(p, l)}
        PROVE  PassWrites(q, everIn)
    BY <1>0, PassedKeeps DEF PassWrites
  <1>c. ASSUME NEW w, NEW bag \in [Tracks -> Nat], AddToPlaylist(w, bag)
        PROVE  /\ everIn \subseteq everIn' /\ InPlaylist' \subseteq everIn'
               /\ \A t \in Tracks : bag[t] > 0 => t \in everIn'
    <2>1. playlist \in [Tracks -> Nat]
      BY DEF TypeInv, TypeOK
    <2>2. QED
      BY <1>0, <1>c, <2>1 DEF AddToPlaylist, InPlaylist
  <1>1. CASE Begin(e)
    <2> DEFINE q == [Idle EXCEPT !.pc = "fetch", !.wm0 = watermark, !.high = watermark]
    <2>1. PassWrites(q, everIn)
      BY DEF PassWrites, Idle, NoRows
    <2>2. QED BY <1>1, <1>a, <2>1 DEF Begin
  <1>2. CASE Fetch(e)
    <2> DEFINE q == [p EXCEPT !.pc = "reconcile", !.todo = NewLikes(p.wm0)]
    <2>1. PassWrites(q, everIn)
      BY <1>0 DEF PassWrites, Pass
    <2>2. QED BY <1>2, <1>a, <2>1 DEF Fetch
  <1>3. CASE FetchDropped(e)
    <2>1. PICK lost \in SUBSET Likes : Becomes(e, [p EXCEPT
            !.pc = "reconcile", !.clean = FALSE,
            !.todo = [l \in Likes |->
                       IF l \in lost THEN 0 ELSE NewLikes(p.wm0)[l]]])
      BY <1>3 DEF FetchDropped
    <2>2. \A todo : PassWrites([p EXCEPT !.pc = "reconcile", !.clean = FALSE,
                                         !.todo = todo], everIn)
      BY <1>0 DEF PassWrites, Pass
    <2>3. QED BY <1>3, <1>a, <2>1, <2>2 DEF FetchDropped
  <1>4. CASE Reconcile(e)
    <2> DEFINE q == [p EXCEPT !.pc = "likes", !.known = InPlaylist]
    <2>1. PassWrites(q, everIn)
      BY <1>0 DEF PassWrites, Pass
    <2>2. QED BY <1>4, <1>a, <2>1 DEF Reconcile
  <1>5. CASE SkipMix(e)
    <2>1. PICK l \in Mixes : Record(e, l, {})
      BY <1>5 DEF SkipMix
    <2>2. l \in Likes
      BY ConstantsOK
    <2>3. QED BY <1>5, <1>a, <1>b, <2>1, <2>2, RecordOutcome DEF SkipMix
  <1>6. CASE CheckLedger(e)
    <2>1. PICK l \in Likes : Becomes(e, IF ledger[l] # None THEN Advanced(p, l)
                               ELSE [p EXCEPT !.pc = "search", !.cur = l])
      BY <1>6 DEF CheckLedger
    <2>2. PassWrites([p EXCEPT !.pc = "search", !.cur = l], everIn)
      BY <1>0 DEF PassWrites, Pass
    <2>3. PassWrites(Advanced(p, l), everIn)
      BY <1>b
    <2>4. QED BY <1>6, <1>a, <2>1, <2>2, <2>3 DEF CheckLedger
  <1>7. CASE Search(e)
    <2>1. p.cur \in Likes
      BY <1>7 DEF Search, TypeInv, Control
    <2>2. PICK r \in Finds[p.cur] :
            \/ /\ IsAuto(r)
               /\ Becomes(e, IF e \in DryEngines THEN DryMatch(p, r) ELSE Match(p, r))
            \/ ~ IsAuto(r) /\ Record(e, p.cur, r.cands)
      BY <1>7 DEF Search
    <2>3. CASE IsAuto(r)
      <3>1. r \in Result /\ r.best \in Tracks
        BY <2>1, <2>3, ConstantsOK, FindsOK DEF IsAuto
      <3>2. PassWrites(Match(p, r), everIn)
        <4> DEFINE q == Match(p, r)
        <4>1. /\ q.pc = "likes" /\ q.known = p.known \cup {r.best}
              /\ q.ledge = [p.ledge EXCEPT ![p.cur] =
                              [track |-> r.best, at |-> p.todo[p.cur]]]
              /\ q.pend = [p.pend EXCEPT ![r.best] =
                             IF r.best \in p.known THEN @ ELSE @ + 1]
          BY <1>0, <2>1, <3>1, MatchFields
        <4>2. p.pend \in [Tracks -> Nat] /\ p.ledge \in Table(LedgerRow)
              /\ p.known \subseteq Tracks
          BY <1>0 DEF Pass
        <4>3. \A t \in Tracks : p.pend[t] > 0 => q.pend[t] > 0
          BY <4>1, <4>2
        <4>4. r.best \in everIn \/ q.pend[r.best] > 0
          BY <1>0, <3>1, <4>1, <4>2 DEF PassWrites
        <4>5. \A t \in q.known : t \in everIn \/ q.pend[t] > 0
          <5> HIDE DEF q
          <5> QED BY <1>0, <4>1, <4>2, <4>3, <4>4 DEF PassWrites
        <4>6. ASSUME NEW l \in Likes, q.ledge[l] # None
              PROVE  q.ledge[l].track \in everIn \/ q.pend[q.ledge[l].track] > 0
          <5> HIDE DEF q
          <5>1. CASE l = p.cur
            BY <4>1, <4>2, <4>4, <5>1 DEF Table
          <5>2. CASE l # p.cur
            <6>1. q.ledge[l] = p.ledge[l] /\ p.ledge[l] # None
              BY <4>1, <4>2, <4>6, <5>2 DEF Table
            <6>2. p.ledge[l].track \in Tracks
              BY <4>2, <6>1 DEF Table, LedgerRow
            <6>3. p.ledge[l].track \in everIn \/ p.pend[p.ledge[l].track] > 0
              BY <1>0, <6>1 DEF PassWrites
            <6>4. QED BY <4>3, <6>1, <6>2, <6>3
          <5>3. QED BY <5>1, <5>2
        <4>7. PassWrites(q, everIn)
          <5> HIDE DEF q
          <5> QED BY <4>1, <4>5, <4>6 DEF PassWrites
        <4>8. QED BY <4>7
      <3>3. PassWrites(DryMatch(p, r), everIn)
        BY <1>b, <2>1, <3>2 DEF DryMatch
      <3>4. QED BY <1>7, <1>a, <2>2, <2>3, <3>2, <3>3 DEF Search
    <2>4. CASE ~ IsAuto(r)
      BY <1>7, <1>a, <1>b, <2>1, <2>2, <2>4, RecordOutcome DEF Search
    <2>5. QED BY <2>3, <2>4
  <1>8. CASE EndDryRun(e)
    BY <1>8, <1>a, IdleWrites DEF EndDryRun
  <1>9. CASE Reread(e)
    <2> DEFINE q == [p EXCEPT !.pc = IF \E t \in Tracks : Fresh(p)[t] > 0
                                       THEN "post" ELSE "commit",
                              !.pend = Fresh(p)]
    <2>1. /\ p.known \subseteq Tracks /\ p.pend \in [Tracks -> Nat]
          /\ \A l \in Likes : p.ledge[l] # None => p.ledge[l].track \in Tracks
          /\ playlist \in [Tracks -> Nat]
      BY <1>0 DEF Pass, Table, LedgerRow, TypeInv, TypeOK
    <2>2. /\ q.known = p.known /\ q.ledge = p.ledge /\ q.pend = Fresh(p)
          /\ q.pc = "commit" => ~ \E t \in Tracks : Fresh(p)[t] > 0
      BY <1>0 DEF Pass
    <2>3. \A t \in Tracks : p.pend[t] > 0 => t \in everIn \/ Fresh(p)[t] > 0
      BY <1>0, <2>1 DEF Fresh, InPlaylist
    <2>4. \A t \in Tracks : Fresh(p)[t] \in Nat
      BY <2>1 DEF Fresh
    <2>5. PassWrites(q, everIn)
      <3> HIDE DEF q
      <3> QED BY <1>0, <2>1, <2>2, <2>3, <2>4 DEF PassWrites
    <2>6. QED BY <1>9, <1>a, <2>5 DEF Reread
  <1>10. CASE Post(e)
    <2>1. PICK b \in Batches(p) :
            /\ AddToPlaylist(e, b)
            /\ Becomes(e, [p EXCEPT !.pend = Without(p, b),
                                    !.pc = IF Without(p, b) = NoTracks
                                             THEN "commit" ELSE "post"])
      BY <1>10 DEF Post
    <2> DEFINE q == [p EXCEPT !.pend = Without(p, b),
                              !.pc = IF Without(p, b) = NoTracks
                                       THEN "commit" ELSE "post"]
    <2>2. b \in [Tracks -> Nat] /\ Without(p, b) \in [Tracks -> Nat]
      BY <1>0, BatchType
    <2>3. /\ everIn \subseteq everIn' /\ InPlaylist' \subseteq everIn'
          /\ \A t \in Tracks : b[t] > 0 => t \in everIn'
      BY <1>c, <2>1, <2>2
    <2>4. /\ p.known \subseteq Tracks /\ p.pend \in [Tracks -> Nat]
          /\ \A l \in Likes : p.ledge[l] # None => p.ledge[l].track \in Tracks
      BY <1>0 DEF Pass, Table, LedgerRow
    <2>5. /\ q.known = p.known /\ q.ledge = p.ledge /\ q.pend = Without(p, b)
          /\ q.pc = "commit" => Without(p, b) = NoTracks
      BY <1>0 DEF Pass
    <2>6. \A t \in Tracks : p.pend[t] > 0 => t \in everIn' \/ Without(p, b)[t] > 0
      BY <2>2, <2>3, <2>4 DEF Without
    <2>7. PassWrites(q, everIn')
      <3> HIDE DEF q
      <3>1. Without(p, b) = NoTracks => \A t \in Tracks : Without(p, b)[t] = 0
        BY DEF NoTracks
      <3>2. QED BY <1>0, <2>3, <2>4, <2>5, <2>6, <3>1 DEF PassWrites
    <2>8. pass'[e] = q /\ ledger' = ledger
      BY <1>10, <2>1, BecomesOthers DEF Post
    <2>9. QED
      <3> HIDE DEF q
      <3> QED BY <1>0, <2>3, <2>7, <2>8 DEF EngineWrites
  <1>11. CASE Commit(e)
    <2>1. \A t \in Tracks : p.pend[t] = 0
      BY <1>0, <1>11 DEF Commit, Pending, PassWrites, Pass
    <2>2. \A l \in Likes : p.ledge[l] # None => p.ledge[l].track \in everIn
      BY <1>0, <2>1 DEF PassWrites, Pass, Table, LedgerRow
    <2>3. \A l \in Likes : ledger'[l] # None => ledger'[l].track \in everIn
      BY <1>0, <1>11, <2>2 DEF Commit, RecordSynced
    <2>4. pass'[e] = Idle /\ everIn' = everIn /\ InPlaylist' = InPlaylist
      BY <1>11, BecomesOthers DEF Commit, InPlaylist
    <2>5. QED BY <1>0, <2>3, <2>4, IdleWrites DEF EngineWrites
  <1>12. CASE SearchFails(e)
    <2>1. p.cur \in Likes
      BY <1>12 DEF SearchFails, TypeInv, Control
    <2>2. PassWrites(Failed(p, p.cur), everIn)
      BY <1>b, <2>1
    <2>3. QED BY <1>12, <1>a, <2>2 DEF SearchFails
  <1>13. CASE PostUnanswered(e)
    <2>1. PICK b \in Batches(p) : AddToPlaylist(e, b)
      BY <1>13 DEF PostUnanswered
    <2>2. b \in [Tracks -> Nat]
      BY DEF Batches
    <2>3. everIn \subseteq everIn' /\ InPlaylist' \subseteq everIn'
      BY <1>c, <2>1, <2>2
    <2>4. pass'[e] = Idle /\ ledger' = ledger
      BY <1>13, BecomesOthers DEF PostUnanswered
    <2>5. QED BY <1>0, <2>3, <2>4, IdleWrites DEF EngineWrites
  <1>14. CASE Abort(e)
    BY <1>14, <1>a, IdleWrites DEF Abort
  <1>15. QED
    BY <1>1, <1>2, <1>3, <1>4, <1>5, <1>6, <1>7, <1>8, <1>9, <1>10, <1>11,
       <1>12, <1>13, <1>14 DEF PassStep, PassFault

\* Adding to the playlist, by whichever writer, keeps its history a history.
LEMMA AddWrites ==
  ASSUME TypeInv, WriteInv, NEW w, NEW bag \in [Tracks -> Nat],
         AddToPlaylist(w, bag)
  PROVE  /\ everIn \subseteq everIn' /\ InPlaylist' \subseteq everIn'
         /\ \A t \in Tracks : bag[t] > 0 => t \in everIn'
  <1>1. playlist \in [Tracks -> Nat] /\ InPlaylist \subseteq everIn
    BY DEF TypeInv, TypeOK, WriteInv
  <1>2. QED
    BY <1>1 DEF AddToPlaylist, InPlaylist

LEMMA OperatorWriteStep ==
  ASSUME TypeInv, WriteInv, OperatorNext
  PROVE  /\ everIn \subseteq everIn' /\ InPlaylist' \subseteq everIn'
         /\ \A l \in Likes : ledger'[l] # None => ledger'[l].track \in everIn'
         /\ appr'.pc = "record" => appr'.track \in everIn'
  <1> DEFINE Ledger(rows, ever) ==
               \A l \in Likes : rows[l] # None => rows[l].track \in ever
             Goal == /\ everIn \subseteq everIn' /\ InPlaylist' \subseteq everIn'
                     /\ Ledger(ledger', everIn')
                     /\ appr'.pc = "record" => appr'.track \in everIn'
  <1> USE DEF dbVars, difmVars, spotVars
  <1>0. /\ InPlaylist \subseteq everIn /\ Ledger(ledger, everIn)
        /\ appr.pc = "record" => appr.track \in everIn
        /\ appr \in Appr /\ ledger \in Table(LedgerRow)
    BY DEF TypeInv, TypeOK, WriteInv, LedgerAfterWrite, Keys
  <1>a. ASSUME UNCHANGED <<ledger, playlist, everIn>>,
               appr' = appr \/ appr'.pc # "record"
        PROVE  Goal
    BY <1>0, <1>a DEF InPlaylist
  <1>b. ASSUME NEW w, NEW bag \in [Tracks -> Nat], AddToPlaylist(w, bag),
               UNCHANGED ledger,
               appr'.pc = "record" =>
                 \/ appr' = appr
                 \/ appr'.track \in Tracks /\ bag[appr'.track] > 0
        PROVE  Goal
    BY <1>0, <1>b, AddWrites
  <1>1. CASE StartResync \/ LookUp \/ Rewind \/ ClearWatermark \/ ResyncDies
    BY <1>1, <1>a DEF StartResync, LookUp, Rewind, ClearWatermark, ResyncDies
  <1>2. CASE Drop
    BY <1>0, <1>2 DEF Drop, ForgetTrack, Table, InPlaylist
  <1>3. CASE ForgetAllTracks
    BY <1>0, <1>3 DEF ForgetAllTracks, NoRows, InPlaylist
  <1>4. CASE StartApprove
    <2>1. appr'.pc = "read"
      BY <1>4 DEF StartApprove
    <2>2. QED BY <1>4, <1>a, <2>1 DEF StartApprove
  <1>5. CASE ApproveReads
    <2>1. appr'.pc = "record" => appr'.track \in InPlaylist
      BY <1>0, <1>5 DEF ApproveReads, Appr
    <2>2. QED BY <1>0, <1>5, <2>1 DEF ApproveReads, InPlaylist
  <1>6. CASE ApprovePosts
    <2>1. Chosen \in [Tracks -> Nat] /\ appr.track \in Tracks
      BY <1>6 DEF ApprovePosts, Chosen, TypeInv, Control
    <2>2. appr'.track = appr.track
      BY <1>0, <1>6 DEF ApprovePosts, Appr
    <2>3. Chosen[appr.track] > 0
      BY <2>1 DEF Chosen
    <2>4. QED BY <1>6, <1>b, <2>1, <2>2, <2>3 DEF ApprovePosts
  <1>7. CASE ApproveUnanswered
    <2>1. Chosen \in [Tracks -> Nat] /\ appr'.pc = "idle"
      BY <1>7 DEF ApproveUnanswered, Chosen, ApprIdle
    <2>2. QED BY <1>7, <1>b, <2>1 DEF ApproveUnanswered
  <1>8. CASE ApproveRecords
    <2> DEFINE rows == [NoRows EXCEPT ![appr.like] =
                          [track |-> appr.track, at |-> appr.at]]
    <2>1. /\ appr.like \in Likes /\ appr.track \in everIn
          /\ appr'.pc = "resolve"
      BY <1>0, <1>8 DEF ApproveRecords, TypeInv, Control, Appr
    <2>2. \A l \in Likes : rows[l] # None => rows[l].track \in everIn
      BY <2>1 DEF NoRows
    <2>3. ledger' = RecordSynced(ledger, rows)
      BY <1>8 DEF ApproveRecords
    <2>4. Ledger(ledger', everIn)
      <3> HIDE DEF rows
      <3> QED BY <1>0, <2>2, <2>3 DEF RecordSynced
    <2>5. QED BY <1>0, <1>8, <2>1, <2>4 DEF ApproveRecords, InPlaylist
  <1>9. CASE ApproveResolves \/ ApproveDies
    BY <1>9, <1>a DEF ApproveResolves, ApproveDies, ApprIdle
  <1>10. CASE Reject
    BY <1>10, <1>a DEF Reject
  <1>11. CASE Member
    <2>1. CASE \E l \in Likes : Like(l) \/ Unlike(l)
      BY <1>a, <2>1 DEF Like, Unlike
    <2>2. CASE \E t \in Tracks : DeleteByHand(t)
      <3>1. InPlaylist' \subseteq InPlaylist
        BY <2>2 DEF DeleteByHand, InPlaylist, TypeInv, TypeOK
      <3>2. QED BY <1>0, <2>2, <3>1 DEF DeleteByHand
    <2>3. CASE \E t \in Tracks : AddByHand(t)
      <3>1. PICK t \in Tracks : AddByHand(t)
        BY <2>3
      <3> DEFINE bag == [u \in Tracks |-> IF u = t THEN 1 ELSE 0]
      <3>2. bag \in [Tracks -> Nat]
        OBVIOUS
      <3>3. AddToPlaylist(None, bag) /\ UNCHANGED <<ledger, appr>>
        BY <3>1 DEF AddByHand
      <3>4. QED
        <4> HIDE DEF bag
        <4> QED BY <1>b, <3>2, <3>3
    <2>4. QED BY <1>11, <2>1, <2>2, <2>3 DEF Member
  <1>12. QED
    BY <1>1, <1>2, <1>3, <1>4, <1>5, <1>6, <1>7, <1>8, <1>9, <1>10, <1>11
       DEF OperatorNext, Resync, ResyncStep, Review

LEMMA WriteInit == Init => WriteInv
  BY DEF Init, WriteInv, InPlaylist, NoTracks, LedgerAfterWrite, Keys, NoRows,
         PassWrites, Idle, ApprIdle

LEMMA WriteStep == TypeInv /\ WriteInv /\ [Next]_vars => WriteInv'
  <1> SUFFICES ASSUME TypeInv, WriteInv, [Next]_vars PROVE WriteInv'
    OBVIOUS
  <1>1. CASE EngineNext /\ UNCHANGED <<cmd, appr>>
    <2>1. PICK e \in Engines : PassStep(e) \/ PassFault(e)
      BY <1>1 DEF EngineNext
    <2>2. EngineWrites(e)
      BY <2>1, EngineWriteStep
    <2>3. \A f \in Engines : f # e => pass'[f] = pass[f]
      BY <2>1, EngineOthers
    <2>4. \A f \in Engines : PassWrites(pass'[f], everIn')
      BY <2>2, <2>3, PassWritesGrows DEF EngineWrites, WriteInv
    <2>5. QED
      BY <1>1, <2>2, <2>4 DEF WriteInv, EngineWrites, LedgerAfterWrite, Keys
  <1>2. CASE OperatorNext /\ UNCHANGED pass
    <2>1. \A f \in Engines : PassWrites(pass'[f], everIn')
      BY <1>2, OperatorWriteStep, PassWritesGrows DEF WriteInv
    <2>2. QED
      BY <1>2, <2>1, OperatorWriteStep DEF WriteInv, LedgerAfterWrite, Keys
  <1>3. CASE UNCHANGED vars
    BY <1>3 DEF vars, WriteInv, InPlaylist, LedgerAfterWrite, Keys
  <1>4. QED
    BY <1>1, <1>2, <1>3 DEF Next

\* The ledger names no track that was not in the playlist first, whichever
\* process records it, and whatever fails or dies between adding a track and
\* recording it (engine.go, pass; main.go, approveReview).
THEOREM LedgerFollowsPlaylist == Spec => []LedgerAfterWrite
  <1>1. WriteInv => LedgerAfterWrite
    BY DEF WriteInv
  <1>2. Spec => []WriteInv
    BY TypeInvariant, WriteInit, WriteStep, PTL DEF Spec
  <1>3. QED
    BY <1>1, <1>2, PTL

-----------------------------------------------------------------------------
(* A writer adds a track at most once, and never one that was there at its *)
(* last look.  It rests on what a pass knows: while it works through its   *)
(* likes a pending track is one it counts as present, so the second like   *)
(* that resolves to the same track is not added again; and once it posts,  *)
(* a pending track the playlist holds was added by another.                *)

PassOnce(p, here, over) ==
  /\ \A t \in Tracks : p.pend[t] <= 1
  /\ p.pc \in {"fetch", "reconcile"} => \A t \in Tracks : p.pend[t] = 0
  /\ p.pc \in {"likes", "search"} => \A t \in Tracks : p.pend[t] = 0 \/ t \in p.known
  /\ p.pc = "post" => \A t \in here : p.pend[t] = 0 \/ t \in over

ApprOnce(here, over) ==
  appr.pc = "post" /\ appr.track \in here => appr.track \in over

OnceInv ==
  /\ \A e \in Engines : PassOnce(pass[e], InPlaylist, raced[e])
  /\ ApprOnce(InPlaylist, raced[Approver])

-----------------------------------------------------------------------------
\* What a pass may do between two looks at the playlist.
LEMMA OnceKept ==
  ASSUME NEW p, NEW here, NEW over, NEW here2, NEW over2, PassOnce(p, here, over),
         p.pc = "post" => here2 \subseteq here \cup over2 /\ over \subseteq over2
  PROVE  PassOnce(p, here2, over2)
  BY DEF PassOnce

LEMMA IdleOnce == ASSUME NEW here, NEW over PROVE PassOnce(Idle, here, over)
  BY DEF PassOnce, Idle, NoTracks

LEMMA PassedOnce ==
  ASSUME NEW p \in Pass, NEW l \in Likes, NEW here, NEW over,
         PassOnce(p, here, over), p.pc \in {"likes", "search"},
         NEW q \in {Passed(p, l), Advanced(p, l), Failed(p, l)}
  PROVE  PassOnce(q, here, over)
  BY PassedKeeps DEF PassOnce

LEMMA MatchOnce ==
  ASSUME NEW p \in Pass, p.cur \in Likes, NEW r \in Result, r.best \in Tracks,
         NEW here, NEW over, PassOnce(p, here, over), p.pc = "search"
  PROVE  PassOnce(Match(p, r), here, over)
  <1> DEFINE q == Match(p, r)
  <1>1. /\ q.pc = "likes" /\ q.known = p.known \cup {r.best}
        /\ q.pend = [p.pend EXCEPT ![r.best] = IF r.best \in p.known THEN @ ELSE @ + 1]
    BY MatchFields
  <1>2. p.pend \in [Tracks -> Nat]
    BY DEF Pass
  <1> HIDE DEF q
  <1>3. q.pend[r.best] <= 1
    BY <1>1, <1>2 DEF PassOnce
  <1>4. \A t \in Tracks : t # r.best => q.pend[t] = p.pend[t]
    BY <1>1, <1>2
  <1>5. PassOnce(q, here, over)
    BY <1>1, <1>3, <1>4 DEF PassOnce
  <1>6. QED BY <1>5 DEF q

\* What w adds, every other writer that is posting is overtaken by.
LEMMA AddRaces ==
  ASSUME TypeInv, NEW w, NEW bag \in [Tracks -> Nat], AddToPlaylist(w, bag),
         NEW v \in Writers
  PROVE  /\ v = w => raced'[v] = raced[v]
         /\ raced[v] \subseteq raced'[v]
         /\ v # w /\ Posting(v) => InPlaylist' \subseteq InPlaylist \cup raced'[v]
         /\ InPlaylist' \subseteq InPlaylist \cup {t \in Tracks : bag[t] > 0}
  <1>1. playlist \in [Tracks -> Nat]
    BY DEF TypeInv, TypeOK
  <1>2. InPlaylist' \subseteq InPlaylist \cup {t \in Tracks : bag[t] > 0}
    BY <1>1 DEF AddToPlaylist, InPlaylist
  <1>3. raced'[v] = IF v # w /\ Posting(v)
                      THEN raced[v] \cup {t \in Tracks : bag[t] > 0} ELSE raced[v]
    BY DEF AddToPlaylist
  <1>4. QED BY <1>2, <1>3

LEMMA WritersDistinct ==
  \A e \in Engines : e \in Writers /\ e # Approver /\ e # None
                     /\ (Posting(e) <=> pass[e].pc = "post")
  BY ConstantsOK DEF Posting, Writers

\* The other passes, and the approval, bear an addition by w.
LEMMA AddKeeps ==
  ASSUME TypeInv, OnceInv, NEW w, NEW bag \in [Tracks -> Nat], AddToPlaylist(w, bag)
  PROVE  /\ \A f \in Engines : f # w => PassOnce(pass[f], InPlaylist', raced'[f])
         /\ w # Approver => ApprOnce(InPlaylist', raced'[Approver])
  <1>1. ASSUME NEW f \in Engines, f # w
        PROVE  PassOnce(pass[f], InPlaylist', raced'[f])
    <2>1. PassOnce(pass[f], InPlaylist, raced[f])
      BY DEF OnceInv
    <2>2. pass[f].pc = "post" =>
             InPlaylist' \subseteq InPlaylist \cup raced'[f] /\ raced[f] \subseteq raced'[f]
      BY <1>1, AddRaces, WritersDistinct
    <2>3. QED BY <2>1, <2>2, OnceKept
  <1>2. ASSUME w # Approver PROVE ApprOnce(InPlaylist', raced'[Approver])
    <2>1. Approver \in Writers /\ (Posting(Approver) <=> appr.pc = "post")
      BY DEF Writers, Posting
    <2>2. appr.pc = "post" =>
            /\ InPlaylist' \subseteq InPlaylist \cup raced'[Approver]
            /\ raced[Approver] \subseteq raced'[Approver]
      BY <1>2, <2>1, AddRaces
    <2>3. QED BY <2>2 DEF OnceInv, ApprOnce
  <1>3. QED BY <1>1, <1>2

-----------------------------------------------------------------------------
LEMMA EngineOnceStep ==
  ASSUME TypeInv, OnceInv, NEW e \in Engines, PassStep(e) \/ PassFault(e),
         UNCHANGED appr
  PROVE  OnceInv'
  <1> DEFINE p == pass[e]
  <1> USE DEF dbVars, difmVars, spotVars
  <1>0. /\ p \in Pass /\ PassOnce(p, InPlaylist, raced[e])
        /\ playlist \in [Tracks -> Nat] /\ raced \in [Writers -> SUBSET Tracks]
    BY DEF TypeInv, TypeOK, OnceInv
  \* A step that leaves the playlist alone.
  <1>a. ASSUME NEW q, Becomes(e, q), PassOnce(q, InPlaylist, raced[e]),
               UNCHANGED <<playlist, raced>>
        PROVE  OnceInv'
    BY <1>a, BecomesOthers DEF OnceInv, InPlaylist, ApprOnce
  <1>b. ASSUME NEW l \in Likes, NEW q \in {Passed(p, l), Advanced(p, l), Failed(p, l)},
               p.pc \in {"likes", "search"}, Becomes(e, q), UNCHANGED <<playlist, raced>>
        PROVE  OnceInv'
    BY <1>0, <1>a, <1>b, PassedOnce
  \* A step that adds to it.
  <1>c. ASSUME NEW q, NEW bag \in [Tracks -> Nat], AddToPlaylist(e, bag), Becomes(e, q),
               PassOnce(q, InPlaylist', raced'[e])
        PROVE  OnceInv'
    <2>1. /\ \A f \in Engines : f # e => PassOnce(pass[f], InPlaylist', raced'[f])
          /\ ApprOnce(InPlaylist', raced'[Approver])
      BY <1>c, AddKeeps, WritersDistinct
    <2>2. pass'[e] = q /\ \A f \in Engines : f # e => pass'[f] = pass[f]
      BY <1>c, BecomesOthers
    <2>3. QED BY <1>c, <2>1, <2>2 DEF OnceInv, ApprOnce
  <1>1. CASE Begin(e)
    <2> DEFINE q == [Idle EXCEPT !.pc = "fetch", !.wm0 = watermark, !.high = watermark]
    <2>1. PassOnce(q, InPlaylist, raced[e])
      BY DEF PassOnce, Idle, NoTracks
    <2>2. QED BY <1>1, <1>a, <2>1 DEF Begin
  <1>2. CASE Fetch(e)
    <2> DEFINE q == [p EXCEPT !.pc = "reconcile", !.todo = NewLikes(p.wm0)]
    <2>1. PassOnce(q, InPlaylist, raced[e])
      BY <1>0, <1>2 DEF PassOnce, Pass, Fetch
    <2>2. QED BY <1>2, <1>a, <2>1 DEF Fetch
  <1>3. CASE FetchDropped(e)
    <2>1. PICK lost \in SUBSET Likes : Becomes(e, [p EXCEPT
            !.pc = "reconcile", !.clean = FALSE,
            !.todo = [l \in Likes |->
                       IF l \in lost THEN 0 ELSE NewLikes(p.wm0)[l]]])
      BY <1>3 DEF FetchDropped
    <2>2. \A todo : PassOnce([p EXCEPT !.pc = "reconcile", !.clean = FALSE,
                                       !.todo = todo], InPlaylist, raced[e])
      BY <1>0, <1>3 DEF PassOnce, Pass, FetchDropped
    <2>3. QED BY <1>3, <1>a, <2>1, <2>2 DEF FetchDropped
  <1>4. CASE Reconcile(e)
    <2> DEFINE q == [p EXCEPT !.pc = "likes", !.known = InPlaylist]
    <2>1. PassOnce(q, InPlaylist, raced[e])
      BY <1>0, <1>4 DEF PassOnce, Pass, Reconcile
    <2>2. QED BY <1>4, <1>a, <2>1 DEF Reconcile
  <1>5. CASE SkipMix(e)
    <2>1. PICK l \in Mixes : Record(e, l, {})
      BY <1>5 DEF SkipMix
    <2>2. l \in Likes
      BY ConstantsOK
    <2>3. QED BY <1>5, <1>b, <2>1, <2>2, RecordOutcome DEF SkipMix
  <1>6. CASE CheckLedger(e)
    <2>1. PICK l \in Likes : Becomes(e, IF ledger[l] # None THEN Advanced(p, l)
                               ELSE [p EXCEPT !.pc = "search", !.cur = l])
      BY <1>6 DEF CheckLedger
    <2>2. PassOnce([p EXCEPT !.pc = "search", !.cur = l], InPlaylist, raced[e])
      BY <1>0, <1>6 DEF PassOnce, Pass, CheckLedger
    <2>3. CASE Becomes(e, Advanced(p, l))
      BY <1>6, <1>b, <2>3 DEF CheckLedger
    <2>4. QED BY <1>6, <1>a, <2>1, <2>2, <2>3 DEF CheckLedger
  <1>7. CASE Search(e)
    <2>1. p.cur \in Likes
      BY <1>7 DEF Search, TypeInv, Control
    <2>2. PICK r \in Finds[p.cur] :
            \/ /\ IsAuto(r)
               /\ Becomes(e, IF e \in DryEngines THEN DryMatch(p, r) ELSE Match(p, r))
            \/ ~ IsAuto(r) /\ Record(e, p.cur, r.cands)
      BY <1>7 DEF Search
    <2>3. CASE IsAuto(r)
      <3>1. r \in Result /\ r.best \in Tracks
        BY <2>1, <2>3, ConstantsOK, FindsOK DEF IsAuto
      <3>2. PassOnce(Match(p, r), InPlaylist, raced[e])
        BY <1>0, <1>7, <2>1, <3>1, MatchOnce DEF Search
      <3>3. CASE Becomes(e, Match(p, r))
        BY <1>7, <1>a, <3>2, <3>3 DEF Search
      <3>4. CASE Becomes(e, Passed(p, p.cur))
        BY <1>7, <1>b, <2>1, <3>4 DEF Search
      <3>5. QED BY <2>2, <2>3, <3>3, <3>4 DEF DryMatch
    <2>4. CASE ~ IsAuto(r)
      BY <1>7, <1>b, <2>1, <2>2, <2>4, RecordOutcome DEF Search
    <2>5. QED BY <2>3, <2>4
  <1>8. CASE EndDryRun(e)
    BY <1>8, <1>a, IdleOnce DEF EndDryRun
  <1>9. CASE Reread(e)
    <2> DEFINE q == [p EXCEPT !.pc = IF \E t \in Tracks : Fresh(p)[t] > 0
                                       THEN "post" ELSE "commit",
                              !.pend = Fresh(p)]
    <2>1. q.pend = Fresh(p) /\ q.pc \in {"post", "commit"}
      BY <1>0 DEF Pass
    <2>2. \A t \in Tracks : Fresh(p)[t] <= 1
      BY <1>0 DEF Fresh, PassOnce, Pass
    <2>3. \A t \in InPlaylist : Fresh(p)[t] = 0
      BY DEF Fresh, InPlaylist
    <2>4. PassOnce(q, InPlaylist, {})
      <3> HIDE DEF q
      <3> QED BY <2>1, <2>2, <2>3 DEF PassOnce
    <2>5. raced' = [raced EXCEPT ![e] = {}] /\ InPlaylist' = InPlaylist
      BY <1>9 DEF Reread, PlaylistTrackIDs, InPlaylist
    <2>6. raced'[e] = {} /\ \A v \in Writers : v # e => raced'[v] = raced[v]
      BY <1>0, <2>5, WritersDistinct
    <2>7. pass'[e] = q /\ \A f \in Engines : f # e => pass'[f] = pass[f]
      BY <1>9, BecomesOthers DEF Reread
    <2>8. Approver \in Writers /\ Approver # e /\ Engines \subseteq Writers
      BY WritersDistinct DEF Writers
    <2>9. QED
      <3> HIDE DEF q
      <3> QED BY <2>4, <2>5, <2>6, <2>7, <2>8 DEF OnceInv, ApprOnce
  <1>10. CASE Post(e)
    <2>1. PICK b \in Batches(p) :
            /\ AddToPlaylist(e, b)
            /\ Becomes(e, [p EXCEPT !.pend = Without(p, b),
                                    !.pc = IF Without(p, b) = NoTracks
                                             THEN "commit" ELSE "post"])
      BY <1>10 DEF Post
    <2> DEFINE q == [p EXCEPT !.pend = Without(p, b),
                              !.pc = IF Without(p, b) = NoTracks
                                       THEN "commit" ELSE "post"]
    <2>2. /\ b \in [Tracks -> 0..1] /\ b \in [Tracks -> Nat]
          /\ \A t \in Tracks : b[t] <= p.pend[t]
      BY DEF Batches
    <2>3. q.pend = Without(p, b) /\ q.pc \in {"post", "commit"}
      BY <1>0 DEF Pass
    <2>4. \A t \in Tracks : p.pend[t] \in Nat /\ p.pend[t] <= 1
      BY <1>0 DEF Pass, PassOnce
    <2>5. /\ \A t \in Tracks : Without(p, b)[t] <= 1
          /\ \A t \in Tracks : Without(p, b)[t] # 0 => p.pend[t] # 0 /\ b[t] = 0
      BY <2>2, <2>4 DEF Without
    <2>6. /\ raced'[e] = raced[e]
          /\ InPlaylist' \subseteq InPlaylist \cup {t \in Tracks : b[t] > 0}
      BY <2>1, <2>2, AddRaces, WritersDistinct
    <2>7. \A t \in InPlaylist' : Without(p, b)[t] = 0 \/ t \in raced'[e]
      BY <1>0, <1>10, <2>5, <2>6 DEF PassOnce, Post, InPlaylist
    <2>8. PassOnce(q, InPlaylist', raced'[e])
      <3> HIDE DEF q
      <3> QED BY <2>3, <2>5, <2>7 DEF PassOnce
    <2>9. QED
      <3> HIDE DEF q
      <3>1. Becomes(e, q)
        BY <2>1 DEF q
      <3>2. QED BY <1>c, <2>1, <2>2, <2>8, <3>1
  <1>11. CASE Commit(e)
    BY <1>11, <1>a, IdleOnce DEF Commit
  <1>12. CASE SearchFails(e)
    <2>1. p.cur \in Likes
      BY <1>12 DEF SearchFails, TypeInv, Control
    <2>2. QED BY <1>12, <1>b, <2>1 DEF SearchFails
  <1>13. CASE PostUnanswered(e)
    <2>1. PICK b \in Batches(p) : AddToPlaylist(e, b)
      BY <1>13 DEF PostUnanswered
    <2>2. b \in [Tracks -> Nat]
      BY DEF Batches
    <2>3. QED BY <1>13, <1>c, <2>1, <2>2, IdleOnce DEF PostUnanswered
  <1>14. CASE Abort(e)
    BY <1>14, <1>a, IdleOnce DEF Abort
  <1>15. QED
    BY <1>1, <1>2, <1>3, <1>4, <1>5, <1>6, <1>7, <1>8, <1>9, <1>10, <1>11,
       <1>12, <1>13, <1>14 DEF PassStep, PassFault

LEMMA OperatorOnceStep ==
  ASSUME TypeInv, OnceInv, OperatorNext, UNCHANGED pass
  PROVE  OnceInv'
  <1> USE DEF dbVars, difmVars, spotVars
  <1>0. /\ appr \in Appr /\ playlist \in [Tracks -> Nat]
        /\ raced \in [Writers -> SUBSET Tracks]
    BY DEF TypeInv, TypeOK
  <1>1. CASE /\ UNCHANGED <<playlist, raced>>
             /\ appr' = appr \/ appr'.pc # "post"
    BY <1>1 DEF OnceInv, InPlaylist, ApprOnce
  <1>2. CASE Resync \/ Reject \/ StartApprove
    <2>1. CASE StartApprove
      <3>1. UNCHANGED <<playlist, raced>> /\ appr'.pc = "read"
        BY <2>1 DEF StartApprove
      <3>2. QED BY <1>1, <3>1
    <2>2. CASE Resync \/ Reject
      <3>1. UNCHANGED <<playlist, raced, appr>>
        BY <2>2 DEF Resync, ResyncStep, StartResync, LookUp, Drop, Rewind,
             ForgetAllTracks, ClearWatermark, ResyncDies, Reject
      <3>2. QED BY <1>1, <3>1
    <2>3. QED BY <1>2, <2>1, <2>2
  <1>3. CASE ApproveRecords \/ ApproveResolves \/ ApproveDies
    <2>1. UNCHANGED <<playlist, raced>> /\ appr'.pc # "post"
      BY <1>0, <1>3 DEF ApproveRecords, ApproveResolves, ApproveDies, ApprIdle, Appr
    <2>2. QED BY <1>1, <2>1
  <1>4. CASE ApproveReads
    <2>1. /\ appr'.pc = "post" => appr'.track \notin InPlaylist
          /\ raced' = [raced EXCEPT ![Approver] = {}] /\ InPlaylist' = InPlaylist
      BY <1>0, <1>4 DEF ApproveReads, Appr, PlaylistTrackIDs, InPlaylist
    <2>2. \A e \in Engines : raced'[e] = raced[e]
      BY <1>0, <2>1, WritersDistinct
    <2>3. QED BY <2>1, <2>2 DEF OnceInv, ApprOnce
  <1>5. CASE ApprovePosts \/ ApproveUnanswered
    <2>1. /\ Chosen \in [Tracks -> Nat] /\ AddToPlaylist(Approver, Chosen)
          /\ appr'.pc # "post"
      BY <1>0, <1>5 DEF ApprovePosts, ApproveUnanswered, Chosen, ApprIdle, Appr
    <2>2. \A f \in Engines : PassOnce(pass[f], InPlaylist', raced'[f])
      BY <2>1, AddKeeps, WritersDistinct
    <2>3. QED BY <2>1, <2>2 DEF OnceInv, ApprOnce
  <1>6. CASE Member
    <2>1. CASE \E l \in Likes : Like(l) \/ Unlike(l)
      BY <1>1, <2>1 DEF Like, Unlike
    <2>2. CASE \E t \in Tracks : DeleteByHand(t)
      <3>1. InPlaylist' \subseteq InPlaylist /\ UNCHANGED <<raced, appr>>
        BY <1>0, <2>2 DEF DeleteByHand, InPlaylist
      <3>2. \A f \in Engines : PassOnce(pass[f], InPlaylist', raced[f])
        BY <3>1, OnceKept DEF OnceInv
      <3>3. QED BY <3>1, <3>2 DEF OnceInv, ApprOnce
    <2>3. CASE \E t \in Tracks : AddByHand(t)
      <3>1. PICK t \in Tracks : AddByHand(t)
        BY <2>3
      <3> DEFINE bag == [u \in Tracks |-> IF u = t THEN 1 ELSE 0]
      <3>2. bag \in [Tracks -> Nat]
        OBVIOUS
      <3>3. AddToPlaylist(None, bag) /\ UNCHANGED appr
        BY <3>1 DEF AddByHand
      <3>4. None # Approver
        BY ConstantsOK DEF Writers
      <3>5. /\ \A f \in Engines : PassOnce(pass[f], InPlaylist', raced'[f])
            /\ ApprOnce(InPlaylist', raced'[Approver])
        <4> HIDE DEF bag
        <4> QED BY <3>2, <3>3, <3>4, AddKeeps, WritersDistinct
      <3>6. QED BY <3>3, <3>5 DEF OnceInv, ApprOnce
    <2>4. QED BY <1>6, <2>1, <2>2, <2>3 DEF Member
  <1>7. QED
    BY <1>2, <1>3, <1>4, <1>5, <1>6 DEF OperatorNext, Review

LEMMA OnceInit == Init => OnceInv
  BY DEF Init, OnceInv, InPlaylist, NoTracks, PassOnce, Idle, ApprIdle, ApprOnce

LEMMA OnceStep == TypeInv /\ OnceInv /\ [Next]_vars => OnceInv'
  <1> SUFFICES ASSUME TypeInv, OnceInv, [Next]_vars PROVE OnceInv'
    OBVIOUS
  <1>1. CASE EngineNext /\ UNCHANGED <<cmd, appr>>
    BY <1>1, EngineOnceStep DEF EngineNext
  <1>2. CASE OperatorNext /\ UNCHANGED pass
    BY <1>2, OperatorOnceStep
  <1>3. CASE UNCHANGED vars
    BY <1>3 DEF vars, OnceInv, InPlaylist, ApprOnce
  <1>4. QED
    BY <1>1, <1>2, <1>3 DEF Next

\* A writer never adds a track twice, nor one it saw in the playlist: when it
\* is about to add one that is there, another writer or the member put it
\* there after its last look (engine.go, the re-read before AddToPlaylist;
\* main.go, approveReview).
THEOREM NoTrackTwice == Spec => []DuplicateOnlyIfRaced
  <1>1. TypeInv /\ OnceInv => DuplicateOnlyIfRaced
    <2> SUFFICES ASSUME TypeInv, OnceInv PROVE DuplicateOnlyIfRaced
      OBVIOUS
    <2>1. \A e \in Engines : pass[e].pend \in [Tracks -> Nat]
      BY DEF TypeInv, TypeOK, Pass
    <2>2. appr.pc = "post" => appr.track \in Tracks
      BY DEF TypeInv, Control
    <2>3. QED
      BY <2>1, <2>2 DEF OnceInv, PassOnce, ApprOnce, InPlaylist, DuplicateOnlyIfRaced
  <1>2. Spec => []OnceInv
    BY TypeInvariant, OnceInit, OnceStep, PTL DEF Spec
  <1>3. QED
    BY <1>1, <1>2, TypeInvariant, PTL

-----------------------------------------------------------------------------
(* The tables as a step of an engine leaves them: no row disappears, and   *)
(* the queue is written by Enqueue alone.                                  *)
LEMMA EnqueueKeeps ==
  ASSUME NEW table \in Table(QueueRow), NEW l \in Likes,
         NEW cands \in SUBSET Tracks, NEW at \in Nat
  PROVE  LET after == Enqueue(table, l, cands, at) IN
         /\ after \in Table(QueueRow) /\ after[l] # None
         /\ after[l].status = StatusOf(table, l)
         /\ \A m \in Likes : m # l => after[m] = table[m]
  <1> DEFINE row == [status |-> StatusOf(table, l), cands |-> cands, at |-> at]
  <1>1. row \in QueueRow
    BY DEF StatusOf, Status, Table, QueueRow
  <1>2. row # None /\ row.status = StatusOf(table, l)
    BY <1>1, NoneIsNoRow
  <1>3. Enqueue(table, l, cands, at) = [table EXCEPT ![l] = row]
    BY DEF Enqueue
  <1> HIDE DEF row
  <1>4. QED BY <1>1, <1>2, <1>3 DEF Table

\* A queue row's status is what its key alone tells of the pass that wrote it.
LEMMA RecordTables ==
  ASSUME TypeInv, NEW e \in Engines, NEW l \in Likes,
         NEW cands \in SUBSET Tracks, Record(e, l, cands)
  PROVE  \/ queue' = queue
         \/ /\ e \notin DryEngines
            /\ queue' = Enqueue(queue, l, cands, pass[e].todo[l])
  BY DEF Record

\* What a step of an engine may do to the queue.
Queued == \E l \in Likes, cands \in SUBSET Tracks, at \in Nat :
            queue' = Enqueue(queue, l, cands, at)

LEMMA EngineTables ==
  ASSUME TypeInv, NEW e \in Engines, PassStep(e) \/ PassFault(e)
  PROVE  /\ UNCHANGED difmVars
         /\ Keys(ledger) \subseteq Keys(ledger')
         /\ forgotten' \subseteq forgotten
         /\ forgotten \subseteq forgotten' \cup Keys(ledger')
         /\ forgotten' \cap (Keys(ledger') \ Keys(ledger)) = {}
         /\ queue' = queue \/ Queued
  <1> USE DEF dbVars, difmVars, spotVars
  <1>0. \A l \in Likes : pass[e].todo[l] \in Nat
    BY DEF TypeInv, TypeOK, Pass
  <1>1. CASE Commit(e)
    <2>1. /\ ledger' = RecordSynced(ledger, pass[e].ledge) /\ queue' = queue
          /\ forgotten' = forgotten \ Keys(pass[e].ledge) /\ UNCHANGED difmVars
      BY <1>1 DEF Commit
    <2>2. Keys(ledger') = Keys(ledger) \cup Keys(pass[e].ledge)
      BY <2>1 DEF Keys, RecordSynced
    <2>3. QED BY <2>1, <2>2
  <1>2. CASE SkipMix(e)
    <2>1. PICK l \in Mixes : Record(e, l, {})
      BY <1>2 DEF SkipMix
    <2>2. l \in Likes /\ {} \in SUBSET Tracks
      BY ConstantsOK
    <2>3. queue' = queue \/ Queued
      BY <1>0, <2>1, <2>2, RecordTables DEF Queued
    <2>4. UNCHANGED <<difmVars, ledger, forgotten>>
      BY <1>2 DEF SkipMix
    <2>5. QED BY <2>3, <2>4
  <1>3. CASE Search(e)
    <2>1. pass[e].cur \in Likes
      BY <1>3 DEF Search, TypeInv, Control
    <2>2. PICK r \in Finds[pass[e].cur] :
            queue' = queue \/ Record(e, pass[e].cur, r.cands)
      BY <1>3 DEF Search
    <2>3. r.cands \in SUBSET Tracks
      BY <2>1, ConstantsOK DEF Result
    <2>4. queue' = queue \/ Queued
      BY <1>0, <2>1, <2>2, <2>3, RecordTables DEF Queued
    <2>5. UNCHANGED <<difmVars, ledger, forgotten>>
      BY <1>3 DEF Search
    <2>6. QED BY <2>4, <2>5
  <1>4. CASE UNCHANGED <<ledger, queue, forgotten, difmVars>>
    BY <1>4
  <1>5. QED
    BY <1>1, <1>2, <1>3, <1>4
       DEF PassStep, PassFault, Begin, Fetch, Reconcile, CheckLedger, EndDryRun,
           Reread, Post, FetchDropped, SearchFails, PostUnanswered, Abort

\* What a step of a command or of the member may do to the queue.
Resolved == \E l \in Likes, status \in {"approved", "rejected"} :
              queue[l] # None /\ queue' = ResolveReview(queue, l, status)

LEMMA ResolvedRow ==
  ASSUME NEW table \in Table(QueueRow), NEW l \in Likes, table[l] # None,
         NEW status \in Status
  PROVE  LET after == ResolveReview(table, l, status) IN
         /\ after[l] # None /\ after[l].status = status
         /\ \A m \in Likes : m # l => after[m] = table[m]
  <1>1. /\ [table[l] EXCEPT !.status = status] \in QueueRow
        /\ [table[l] EXCEPT !.status = status].status = status
    BY DEF Table, QueueRow
  <1>2. QED BY <1>1, NoneIsNoRow DEF ResolveReview, Table

LEMMA OperatorQueue ==
  ASSUME TypeInv, OperatorNext
  PROVE  queue' = queue \/ Resolved
  <1> USE DEF dbVars, difmVars, spotVars
  <1>1. CASE ApproveResolves
    BY <1>1 DEF ApproveResolves, Resolved, TypeInv, Control
  <1>2. CASE Reject
    BY <1>2 DEF Reject, Resolved, Keys
  <1>3. CASE UNCHANGED queue
    BY <1>3
  <1>4. QED
    BY <1>1, <1>2, <1>3
       DEF OperatorNext, Resync, ResyncStep, Review, Member, StartResync, LookUp,
           Drop, Rewind, ForgetAllTracks, ClearWatermark, ResyncDies, StartApprove,
           ApproveReads, ApprovePosts, ApproveUnanswered, ApproveRecords,
           ApproveDies, Like, Unlike, DeleteByHand, AddByHand

-----------------------------------------------------------------------------
(* A decision of the operator outlasts every later look at the like.       *)
Stand == \A l \in Keys(queue) :
           /\ l \in Keys(queue')
           /\ queue[l].status # "pending" => queue'[l].status # "pending"

LEMMA StandStep == TypeInv /\ [Next]_vars => [Stand]_vars
  <1> SUFFICES ASSUME TypeInv, [Next]_vars PROVE Stand \/ UNCHANGED vars
    OBVIOUS
  <1>0. queue \in Table(QueueRow)
    BY DEF TypeInv, TypeOK
  <1>1. queue' = queue \/ Queued \/ Resolved
    BY EngineTables, OperatorQueue DEF Next, EngineNext, vars
  <1>2. CASE queue' = queue
    BY <1>2 DEF Stand
  <1>3. CASE Queued
    <2>1. PICK l \in Likes, cands \in SUBSET Tracks, at \in Nat :
            queue' = Enqueue(queue, l, cands, at)
      BY <1>3 DEF Queued
    <2>2. /\ queue'[l] # None /\ queue'[l].status = StatusOf(queue, l)
          /\ \A m \in Likes : m # l => queue'[m] = queue[m]
      BY <1>0, <2>1, EnqueueKeeps
    <2>3. QED BY <2>2 DEF Stand, Keys, StatusOf
  <1>4. CASE Resolved
    <2>1. PICK l \in Likes, status \in {"approved", "rejected"} :
            queue[l] # None /\ queue' = ResolveReview(queue, l, status)
      BY <1>4 DEF Resolved
    <2>2. /\ queue'[l] # None /\ queue'[l].status = status
          /\ \A m \in Likes : m # l => queue'[m] = queue[m]
      BY <1>0, <2>1, ResolvedRow DEF Status
    <2>3. QED BY <2>2 DEF Stand, Keys
  <1>5. QED BY <1>1, <1>2, <1>3, <1>4

\* However often a like is read again, queued again, approved or rejected, by
\* whichever processes: no step turns a decision back into a question, nor
\* drops the row that holds it (review_queue.sql, EnqueueReview).
THEOREM DecisionsAreKept == Spec => DecisionsStand
  <1>1. Spec => [][Stand]_vars
    BY TypeInvariant, StandStep, PTL DEF Spec
  <1>2. QED BY <1>1 DEF DecisionsStand, Stand

-----------------------------------------------------------------------------
(* Approving: the ledger first, the queue's status after it.               *)
ApprovalInv ==
  /\ ApprovedIsRecorded
  /\ appr.pc = "resolve" => appr.like \in Keys(ledger) \cup forgotten

LEMMA ApprovalInit == Init => ApprovalInv
  BY DEF Init, ApprovalInv, ApprovedIsRecorded, Keys, NoRows, ApprIdle

\* Whatever a step does to the ledger, a like that has a row in it keeps the
\* row or is forgotten.
LEMMA RecordedOrForgotten ==
  ASSUME TypeInv, [Next]_vars
  PROVE  Keys(ledger) \cup forgotten \subseteq (Keys(ledger) \cup forgotten)'
  <1> USE DEF dbVars, difmVars, spotVars
  <1>1. CASE EngineNext
    BY <1>1, EngineTables DEF EngineNext
  <1>2. CASE UNCHANGED <<ledger, forgotten>>
    BY <1>2
  <1>3. CASE Drop
    BY <1>3 DEF Drop, ForgetTrack, Keys, TypeInv, TypeOK, Table
  <1>4. CASE ForgetAllTracks
    BY <1>4 DEF ForgetAllTracks
  <1>5. CASE ApproveRecords
    <2> DEFINE row == [track |-> appr.track, at |-> appr.at]
    <2>1. /\ appr.like \in Likes /\ row \in LedgerRow
          /\ ledger' = RecordSynced(ledger, [NoRows EXCEPT ![appr.like] = row])
          /\ forgotten' = forgotten \ {appr.like}
      BY <1>5 DEF ApproveRecords, LedgerRow, TypeInv, TypeOK, Appr, Control
    <2>2. row # None
      BY <2>1, NoneIsNoRow
    <2> HIDE DEF row
    <2>3. Keys(ledger) \cup {appr.like} \subseteq Keys(ledger')
      BY <2>1, <2>2 DEF RecordSynced, NoRows, Keys
    <2>4. QED BY <2>1, <2>3
  <1>6. CASE UNCHANGED vars
    BY <1>6 DEF vars
  <1>7. QED
    BY <1>1, <1>2, <1>3, <1>4, <1>5, <1>6
       DEF Next, OperatorNext, Resync, ResyncStep, Review, Member, StartResync, LookUp,
           Rewind, ClearWatermark, ResyncDies, StartApprove, ApproveReads,
           ApprovePosts, ApproveUnanswered, ApproveResolves, ApproveDies, Reject,
           Like, Unlike, DeleteByHand, AddByHand

\* An approval that is about to resolve its item has recorded it.
LEMMA ResolvesRecorded ==
  ASSUME TypeInv, ApprovalInv, [Next]_vars, appr'.pc = "resolve"
  PROVE  appr'.like \in (Keys(ledger) \cup forgotten)'
  <1>1. CASE appr' = appr
    BY <1>1, RecordedOrForgotten DEF ApprovalInv
  <1>2. CASE ApproveRecords
    <2> DEFINE row == [track |-> appr.track, at |-> appr.at]
    <2>1. /\ appr.like \in Likes /\ row \in LedgerRow /\ appr'.like = appr.like
          /\ ledger' = RecordSynced(ledger, [NoRows EXCEPT ![appr.like] = row])
      BY <1>2 DEF ApproveRecords, LedgerRow, TypeInv, TypeOK, Appr, Control
    <2>2. row # None
      BY <2>1, NoneIsNoRow
    <2> HIDE DEF row
    <2>3. QED BY <2>1, <2>2 DEF RecordSynced, NoRows, Keys
  <1>3. appr' = appr \/ ApproveRecords
    <2>1. appr \in Appr
      BY DEF TypeInv, TypeOK
    <2>2. ASSUME Resync \/ Member \/ Reject PROVE appr' = appr
      BY <2>2
         DEF Resync, ResyncStep, Member, StartResync, LookUp, Drop, Rewind,
             ForgetAllTracks, ClearWatermark, ResyncDies, Reject, Like, Unlike,
             DeleteByHand, AddByHand
    <2>3. ASSUME \/ StartApprove \/ ApproveReads \/ ApprovePosts
                 \/ ApproveUnanswered \/ ApproveResolves \/ ApproveDies
          PROVE  appr'.pc # "resolve"
      BY <2>1, <2>3
         DEF StartApprove, ApproveReads, ApprovePosts, ApproveUnanswered,
             ApproveResolves, ApproveDies, ApprIdle, Appr
    <2>4. QED BY <2>2, <2>3 DEF Next, OperatorNext, Review, vars
  <1>4. QED BY <1>1, <1>2, <1>3

\* A row says "approved" because it said so before, or its approval ends here.
LEMMA ApprovedBefore ==
  ASSUME TypeInv, [Next]_vars, NEW l \in Keys(queue'), queue'[l].status = "approved"
  PROVE  \/ l \in Keys(queue) /\ queue[l].status = "approved"
         \/ l = appr.like /\ appr.pc = "resolve"
  <1> USE DEF dbVars, difmVars, spotVars
  <1>0. queue \in Table(QueueRow) /\ l \in Likes
    BY DEF TypeInv, TypeOK, Keys
  <1>1. CASE queue' = queue
    BY <1>1
  <1>2. CASE Queued
    <2>1. PICK m \in Likes, cands \in SUBSET Tracks, at \in Nat :
            queue' = Enqueue(queue, m, cands, at)
      BY <1>2 DEF Queued
    <2>2. /\ queue'[m].status = StatusOf(queue, m)
          /\ \A k \in Likes : k # m => queue'[k] = queue[k]
      BY <1>0, <2>1, EnqueueKeeps
    <2>3. QED BY <1>0, <2>2 DEF StatusOf, Keys
  <1>3. CASE ApproveResolves
    <2>1. /\ queue' = ResolveReview(queue, appr.like, "approved")
          /\ appr.like \in Likes /\ queue[appr.like] # None /\ appr.pc = "resolve"
      BY <1>3 DEF ApproveResolves, TypeInv, Control
    <2>2. \A k \in Likes : k # appr.like => queue'[k] = queue[k]
      BY <1>0, <2>1, ResolvedRow DEF Status
    <2>3. QED BY <1>0, <2>1, <2>2 DEF Keys
  <1>4. CASE Reject
    <2>1. PICK m \in Likes : queue[m] # None /\ queue' = ResolveReview(queue, m, "rejected")
      BY <1>4 DEF Reject, Keys
    <2>2. /\ queue'[m].status = "rejected"
          /\ \A k \in Likes : k # m => queue'[k] = queue[k]
      BY <1>0, <2>1, ResolvedRow DEF Status
    <2>3. QED BY <1>0, <2>2 DEF Keys
  <1>5. CASE EngineNext
    BY <1>1, <1>2, <1>5, EngineTables DEF EngineNext
  <1>6. QED
    BY <1>1, <1>3, <1>4, <1>5
       DEF Next, vars, OperatorNext, Resync, ResyncStep, Review, Member, StartResync,
           LookUp, Drop, Rewind, ForgetAllTracks, ClearWatermark, ResyncDies,
           StartApprove, ApproveReads, ApprovePosts, ApproveUnanswered,
           ApproveRecords, ApproveDies, Like, Unlike, DeleteByHand, AddByHand

LEMMA ApprovalStep == TypeInv /\ ApprovalInv /\ [Next]_vars => ApprovalInv'
  <1> SUFFICES ASSUME TypeInv, ApprovalInv, [Next]_vars PROVE ApprovalInv'
    OBVIOUS
  <1>1. ASSUME NEW l \in Keys(queue'), queue'[l].status = "approved"
        PROVE  l \in (Keys(ledger) \cup forgotten)'
    <2>1. l \in Keys(ledger) \cup forgotten
      BY <1>1, ApprovedBefore DEF ApprovalInv, ApprovedIsRecorded
    <2>2. QED BY <2>1, RecordedOrForgotten
  <1>2. ApprovedIsRecorded'
    BY <1>1 DEF ApprovedIsRecorded
  <1>3. QED BY <1>2, ResolvesRecorded DEF ApprovalInv

\* Where approvals fail, die, or run beside passes and resyncs: the queue says
\* "approved" only of a like the ledger has, or a resync has dropped since
\* (main.go, approveReview: the ledger row before the status).
THEOREM ApprovedLikesAreRecorded == Spec => []ApprovedIsRecorded
  <1>1. ApprovalInv => ApprovedIsRecorded
    BY DEF ApprovalInv
  <1>2. Spec => []ApprovalInv
    BY TypeInvariant, ApprovalInit, ApprovalStep, PTL DEF Spec
  <1>3. QED BY <1>1, <1>2, PTL

-----------------------------------------------------------------------------
(* A dry run never gets as far as the steps that write.                    *)
DryInv == \A e \in DryEngines : pass[e].pc \notin {"post", "commit"}

LEMMA DryInit == Init => DryInv
  BY ConstantsOK DEF Init, DryInv, Idle

LEMMA DryStep == TypeInv /\ DryInv /\ [Next]_vars => DryInv'
  <1> SUFFICES ASSUME TypeInv, DryInv, [Next]_vars, NEW d \in DryEngines
               PROVE  pass'[d].pc \notin {"post", "commit"}
    BY DEF DryInv
  <1> USE DEF dbVars, difmVars, spotVars
  <1>0. /\ d \in Engines /\ pass[d] \in Pass /\ pass[d].pc \notin {"post", "commit"}
    BY ConstantsOK DEF DryInv, TypeInv, TypeOK
  <1>1. CASE pass'[d] = pass[d]
    BY <1>0, <1>1
  <1>2. CASE PassStep(d) \/ PassFault(d)
    <2>1. ASSUME NEW q, Becomes(d, q), q.pc \notin {"post", "commit"}
          PROVE  pass'[d].pc \notin {"post", "commit"}
      BY <1>0, <2>1, BecomesOthers
    <2>2. ASSUME NEW l \in Likes, NEW q \in {Passed(pass[d], l), Advanced(pass[d], l),
                                            Failed(pass[d], l)}, Becomes(d, q)
          PROVE  pass'[d].pc \notin {"post", "commit"}
      BY <1>0, <2>1, <2>2, PassedKeeps
    <2>3. CASE Begin(d) \/ EndDryRun(d) \/ PostUnanswered(d) \/ Abort(d)
      BY <2>1, <2>3 DEF Begin, EndDryRun, PostUnanswered, Abort, Idle
    <2>4. CASE Fetch(d) \/ FetchDropped(d) \/ Reconcile(d)
      BY <1>0, <2>1, <2>4 DEF Fetch, FetchDropped, Reconcile, Pass
    <2>5. CASE SkipMix(d)
      BY <1>0, <2>2, <2>5, RecordOutcome, ConstantsOK DEF SkipMix
    <2>6. CASE CheckLedger(d)
      <3>1. PICK l \in Likes : Becomes(d, IF ledger[l] # None THEN Advanced(pass[d], l)
                                 ELSE [pass[d] EXCEPT !.pc = "search", !.cur = l])
        BY <2>6 DEF CheckLedger
      <3>2. CASE Becomes(d, Advanced(pass[d], l))
        BY <2>2, <3>2
      <3>3. CASE Becomes(d, [pass[d] EXCEPT !.pc = "search", !.cur = l])
        BY <1>0, <2>1, <3>3 DEF Pass
      <3>4. QED BY <3>1, <3>2, <3>3
    <2>7. CASE Search(d)
      <3>1. pass[d].cur \in Likes
        BY <1>0, <2>7 DEF Search, TypeInv, Control
      <3>2. PICK r \in Finds[pass[d].cur] :
              \/ /\ IsAuto(r)
                 /\ Becomes(d, DryMatch(pass[d], r))
              \/ ~ IsAuto(r) /\ Record(d, pass[d].cur, r.cands)
        BY <2>7 DEF Search
      <3>3. CASE IsAuto(r)
        <4>1. r \in Result /\ r.best \in Tracks
          BY <3>1, <3>3, ConstantsOK, FindsOK DEF IsAuto
        <4>2. Match(pass[d], r).pc = "likes"
          BY <1>0, <3>1, <4>1, MatchFields
        <4>3. CASE Becomes(d, Match(pass[d], r))
          BY <2>1, <4>2, <4>3
        <4>4. CASE Becomes(d, Passed(pass[d], pass[d].cur))
          BY <2>2, <3>1, <4>4
        <4>5. QED BY <3>2, <3>3, <4>3, <4>4 DEF DryMatch
      <3>4. CASE ~ IsAuto(r)
        BY <1>0, <2>2, <3>1, <3>2, <3>4, RecordOutcome
      <3>5. QED BY <3>3, <3>4
    <2>8. CASE SearchFails(d)
      BY <1>0, <2>2, <2>8 DEF SearchFails, TypeInv, Control
    <2>9. QED
      BY <1>0, <1>2, <2>3, <2>4, <2>5, <2>6, <2>7, <2>8
         DEF PassStep, PassFault, Reread, Post, Commit
  <1>3. CASE EngineNext
    BY <1>0, <1>1, <1>2, <1>3, EngineOthers DEF EngineNext
  <1>4. QED BY <1>1, <1>3 DEF Next, vars

\* What the preview of engine d may touch.
Spotless == \A e \in DryEngines : pass'[e] # pass[e] =>
              UNCHANGED <<watermark, ledger, queue, playlist>>

LEMMA SpotlessStep == TypeInv /\ DryInv /\ [Next]_vars => [Spotless]_vars
  <1> SUFFICES ASSUME TypeInv, DryInv, [Next]_vars, NEW d \in DryEngines, pass'[d] # pass[d]
               PROVE  UNCHANGED <<watermark, ledger, queue, playlist>>
    BY DEF Spotless
  <1> USE DEF dbVars, difmVars, spotVars
  <1>0. d \in Engines /\ pass[d].pc \notin {"post", "commit"}
    BY ConstantsOK DEF DryInv
  <1>1. PassStep(d) \/ PassFault(d)
    BY <1>0, EngineOthers DEF Next, EngineNext, vars
  <1>2. CASE SkipMix(d)
    BY <1>2 DEF SkipMix, Record
  <1>3. CASE Search(d)
    BY <1>3 DEF Search, Record
  <1>4. CASE Reread(d) \/ Post(d) \/ Commit(d) \/ PostUnanswered(d)
    BY <1>0, <1>4 DEF Reread, Post, Commit, PostUnanswered
  <1>5. QED
    BY <1>1, <1>2, <1>3, <1>4
       DEF PassStep, PassFault, Begin, Fetch, Reconcile, CheckLedger, EndDryRun,
           FetchDropped, SearchFails, Abort

\* A preview leaves the watermark, both tables and the playlist as they are in
\* every step it takes, whatever it finds and whoever runs beside it: the
\* steps that write are past the point where it ends (engine.go, pass).
THEOREM PreviewsLeaveNoTrace == Spec => DryRunWritesNothing
  <1>1. Spec => []DryInv
    BY TypeInvariant, DryInit, DryStep, PTL DEF Spec
  <1>2. Spec => [][Spotless]_vars
    BY <1>1, TypeInvariant, SpotlessStep, PTL DEF Spec
  <1>3. QED BY <1>2 DEF DryRunWritesNothing, Spotless
==============================================================================
