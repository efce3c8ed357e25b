--------------------------- MODULE SyncLikes_proofs ---------------------------
(***************************************************************************)
(* Proof that no like is lost, that a resync has what it forgot read       *)
(* again, and that SyncSystem implements SyncPromise.                      *)
(*                                                                         *)
(* The watermark is safe when no like that is neither settled nor excused  *)
(* lies at or below it.  What makes that inductive is what a pass carries: *)
(* as long as it counts as clean, every such like at or below any mark the *)
(* pass may still commit is on its list of likes or among its pending      *)
(* rows.  And a resync carries a mark of its own, which it only ever moves *)
(* the watermark below.                                                    *)
(***************************************************************************)
EXTENDS SyncRefinement, SyncSafety_proofs

\* When each like that still has to be settled was cast; 0 for the others.
Due == [l \in Likes |->
          IF l \in Settled \cup forgotten \/ likedAt[l] \in shared THEN 0
          ELSE likedAt[l]]

MarkSafe(m, due, now) ==
  m <= now /\ \A l \in Likes : due[l] = 0 \/ due[l] > m

\* The marks a pass may yet commit.
Reach(p) == Marks(p) \cup {p.todo[l] : l \in Likes}

PassSafe(p, due, now) ==
  p.clean => \A m \in Reach(p) :
    /\ m <= now
    /\ \A l \in Likes : \/ due[l] = 0 \/ due[l] > m
                        \/ p.todo[l] > 0 \/ p.ledge[l] # None

\* What a pass's program counter says of its list of likes.
Shape(p) ==
  /\ p.pc = "fetch" => p.high = p.wm0 /\ p.todo = NoLikes /\ p.ledge = NoRows
  /\ p.pc \in {"post", "commit"} => AllDone(p)

LikeInv ==
  /\ \A l \in Likes : likedAt[l] <= clock
  /\ MarkSafe(watermark, Due, clock)
  /\ MarkSafe(cmd.wm, Due, clock)
  /\ cmd.pc = "rewind" => cmd.earliest <= cmd.wm
  /\ \A e \in Engines : Shape(pass[e])
  /\ \A e \in Engines \ DryEngines : PassSafe(pass[e], Due, clock)

\* No like becomes due at a time already past.
Kept(due, now, due2, now2) ==
  now <= now2 /\ \A l \in Likes : due2[l] \in {0, due[l]} \/ due2[l] > now

-----------------------------------------------------------------------------
LEMMA DueType == ASSUME TypeInv PROVE Due \in [Likes -> Nat]
  BY DEF Due, TypeInv, TypeOK

LEMMA DueTypeNext == ASSUME TypeInv' PROVE Due' \in [Likes -> Nat]
  BY DEF Due, TypeInv, TypeOK

LEMMA ReachType == ASSUME NEW p \in Pass PROVE Reach(p) \subseteq Nat
  <1>1. /\ p.high \in Nat /\ \A l \in Likes : p.todo[l] \in Nat
        /\ \A l \in Likes : p.ledge[l] # None => p.ledge[l].at \in Nat
    BY DEF Pass, Table, LedgerRow
  <1>2. ASSUME NEW m \in Reach(p) PROVE m \in Nat
    <2>1. \/ m = p.high
          \/ \E l \in Likes : m = p.todo[l]
          \/ \E l \in Likes : p.ledge[l] # None /\ m = p.ledge[l].at
      BY Zenon DEF Reach, Marks, Keys
    <2>2. QED BY <1>1, <2>1, Zenon
  <1>3. QED BY <1>2

LEMMA MarkKept ==
  ASSUME NEW m \in Nat, NEW due \in [Likes -> Nat], NEW due2 \in [Likes -> Nat],
         NEW now \in Nat, NEW now2 \in Nat,
         MarkSafe(m, due, now), Kept(due, now, due2, now2)
  PROVE  MarkSafe(m, due2, now2)
  BY DEF MarkSafe, Kept

LEMMA PassKept ==
  ASSUME NEW p \in Pass, NEW due \in [Likes -> Nat], NEW due2 \in [Likes -> Nat],
         NEW now \in Nat, NEW now2 \in Nat,
         PassSafe(p, due, now), Kept(due, now, due2, now2)
  PROVE  PassSafe(p, due2, now2)
  BY ReachType DEF PassSafe, Kept

LEMMA IdleSafe ==
  ASSUME NEW due \in [Likes -> Nat], NEW now \in Nat
  PROVE  PassSafe(Idle, due, now) /\ Shape(Idle)
  <1>1. Reach(Idle) \subseteq {0}
    BY DEF Reach, Marks, Keys, Idle, NoRows, NoLikes
  <1>2. \A l \in Likes : due[l] \in Nat
    OBVIOUS
  <1>3. PassSafe(Idle, due, now)
    BY <1>1, <1>2 DEF PassSafe
  <1>4. Shape(Idle)
    BY DEF Shape, Idle
  <1>5. QED BY <1>3, <1>4

\* A pass that has settled a like, or failed it, is as safe as before.
LEMMA PassedSafe ==
  ASSUME NEW p \in Pass, NEW l \in Likes, NEW due \in [Likes -> Nat],
         NEW now \in Nat, PassSafe(p, due, now), due[l] = 0
  PROVE  PassSafe(Passed(p, l), due, now) /\ PassSafe(Advanced(p, l), due, now)
  <1>1. ASSUME NEW q \in {Passed(p, l), Advanced(p, l)}
        PROVE  PassSafe(q, due, now)
    <2>1. /\ q.ledge = p.ledge /\ q.todo = [p.todo EXCEPT ![l] = 0]
          /\ q.clean = p.clean /\ q.high \in {p.high, p.todo[l]}
      BY DEF Passed, Advanced, Max2, Pass
    <2>2. p.todo \in [Likes -> Nat]
      BY DEF Pass
    <2>3. \A m \in Reach(q) : m = 0 \/ m \in Reach(p)
      BY <2>1, <2>2, Zenon DEF Reach, Marks
    <2>4. \A k \in Likes : k # l => q.todo[k] = p.todo[k]
      BY <2>1, <2>2
    <2>5. QED
      <3> SUFFICES ASSUME q.clean, NEW m \in Reach(q)
                   PROVE  /\ m <= now
                          /\ \A k \in Likes : \/ due[k] = 0 \/ due[k] > m
                                              \/ q.todo[k] > 0 \/ q.ledge[k] # None
        BY DEF PassSafe
      <3>1. CASE m = 0
        BY <3>1
      <3>2. CASE m \in Reach(p)
        BY <2>1, <2>4, <3>2 DEF PassSafe
      <3>3. QED BY <2>3, <3>1, <3>2
  <1>2. QED BY <1>1

LEMMA FailedSafe ==
  ASSUME NEW p \in Pass, NEW l \in Likes, NEW due, NEW now
  PROVE  PassSafe(Failed(p, l), due, now)
  BY PassTypes DEF PassSafe, Failed, Pass

LEMMA MatchSafe ==
  ASSUME NEW p \in Pass, p.cur \in Likes, NEW r \in Result, r.best \in Tracks,
         NEW due \in [Likes -> Nat], NEW now \in Nat, PassSafe(p, due, now)
  PROVE  PassSafe(Match(p, r), due, now)
  <1> DEFINE q == Match(p, r)
             row == [track |-> r.best, at |-> p.todo[p.cur]]
  <1>1. /\ q.high = p.high /\ q.clean = p.clean
        /\ q.todo = [p.todo EXCEPT ![p.cur] = 0]
        /\ q.ledge = [p.ledge EXCEPT ![p.cur] = row]
    BY MatchFields
  <1>2. p.todo \in [Likes -> Nat] /\ p.ledge \in Table(LedgerRow)
    BY DEF Pass
  <1>3. row # None /\ row.at = p.todo[p.cur]
    <2>1. row \in LedgerRow
      BY <1>2 DEF LedgerRow
    <2>2. QED BY <2>1, NoneIsNoRow
  <1> HIDE DEF q
  <1>4. q.ledge[p.cur] = row /\ q.todo[p.cur] = 0
    BY <1>1, <1>2 DEF Table
  <1>5. \A l \in Likes : l # p.cur => q.ledge[l] = p.ledge[l] /\ q.todo[l] = p.todo[l]
    BY <1>1, <1>2 DEF Table
  <1> HIDE DEF row
  <1>6. \A m \in Reach(q) : m = 0 \/ m \in Reach(p)
    <2> SUFFICES ASSUME NEW m \in Reach(q) PROVE m = 0 \/ m \in Reach(p)
      OBVIOUS
    <2>1. CASE m = q.high
      BY <1>1, <2>1, Zenon DEF Reach, Marks
    <2>2. ASSUME NEW l \in Likes, q.ledge[l] # None, m = q.ledge[l].at
          PROVE  m \in Reach(p)
      <3>1. CASE l = p.cur
        BY <1>3, <1>4, <2>2, <3>1, Zenon DEF Reach
      <3>2. CASE l # p.cur
        BY <1>5, <2>2, <3>2, Zenon DEF Reach, Marks, Keys
      <3>3. QED BY <3>1, <3>2
    <2>3. ASSUME NEW l \in Likes, m = q.todo[l]
          PROVE  m = 0 \/ m \in Reach(p)
      <3>1. CASE l = p.cur
        BY <1>4, <2>3, <3>1
      <3>2. CASE l # p.cur
        BY <1>5, <2>3, <3>2, Zenon DEF Reach
      <3>3. QED BY <3>1, <3>2
    <2>4. QED BY <2>1, <2>2, <2>3, Zenon DEF Reach, Marks, Keys
  <1>7. PassSafe(q, due, now)
    <2> SUFFICES ASSUME q.clean, NEW m \in Reach(q)
                 PROVE  /\ m <= now
                        /\ \A k \in Likes : \/ due[k] = 0 \/ due[k] > m
                                            \/ q.todo[k] > 0 \/ q.ledge[k] # None
      BY DEF PassSafe
    <2>1. CASE m = 0
      BY <2>1
    <2>2. CASE m \in Reach(p)
      BY <1>1, <1>3, <1>4, <1>5, <2>2 DEF PassSafe
    <2>3. QED BY <1>6, <2>1, <2>2
  <1>8. QED BY <1>7 DEF q

-----------------------------------------------------------------------------
\* A step that casts no vote and unsettles no like makes no like due.
LEMMA SettledKept ==
  ASSUME TypeInv, UNCHANGED difmVars,
         Settled \cup forgotten \subseteq (Settled \cup forgotten)'
  PROVE  Kept(Due, clock, Due', clock')
  <1>1. /\ likedAt' = likedAt /\ shared' = shared /\ clock' = clock
        /\ clock \in Nat
    BY DEF difmVars, TypeInv, TypeOK
  <1>2. \A l \in Likes : Due'[l] \in {0, Due[l]}
    BY <1>1 DEF Due
  <1>3. QED
    BY <1>1, <1>2 DEF Kept

LEMMA RecordQueues ==
  ASSUME TypeInv, NEW e \in Engines, NEW l \in Likes,
         NEW cands \in SUBSET Tracks, Record(e, l, cands)
  PROVE  /\ Keys(queue) \subseteq Keys(queue')
         /\ \/ e \in DryEngines
            \/ l \in Keys(queue') /\ Becomes(e, Advanced(pass[e], l))
            \/ Becomes(e, Failed(pass[e], l))
  <1>0. pass[e].todo[l] \in Nat /\ queue \in Table(QueueRow)
    BY DEF TypeInv, TypeOK, Pass
  <1>1. queue' = queue \/ queue' = Enqueue(queue, l, cands, pass[e].todo[l])
    BY DEF Record
  <1>2. Keys(queue) \cup {l} \subseteq Keys(Enqueue(queue, l, cands, pass[e].todo[l]))
    <2> DEFINE at == pass[e].todo[l]
               row == [status |-> StatusOf(queue, l), cands |-> cands, at |-> at]
    <2>1. row \in QueueRow
      <3>1. StatusOf(queue, l) \in Status
        BY <1>0 DEF StatusOf, Status, Table, QueueRow
      <3>2. QED BY <1>0, <3>1 DEF QueueRow
    <2>2. Enqueue(queue, l, cands, at) = [queue EXCEPT ![l] = row]
      BY DEF Enqueue
    <2>3. row # None
      BY <2>1, NoneIsNoRow
    <2>4. QED
      <3> HIDE DEF row, at
      <3> SUFFICES Keys(queue) \cup {l} \subseteq Keys([queue EXCEPT ![l] = row])
        BY <2>2 DEF at
      <3> QED BY <1>0, <2>3 DEF Keys, Table
  <1>3. QED
    BY <1>1, <1>2 DEF Record

\* Both tables only grow under an engine's steps.
LEMMA EngineSettles ==
  ASSUME TypeInv, NEW e \in Engines, PassStep(e) \/ PassFault(e)
  PROVE  /\ Settled \subseteq Settled'
         /\ forgotten \subseteq forgotten' \cup Settled'
         /\ UNCHANGED difmVars
  <1>1. queue \in Table(QueueRow)
    BY DEF TypeInv, TypeOK
  <1>2. Keys(queue) \subseteq Keys(queue')
    <2>1. CASE Queued
      <3>1. PICK l \in Likes, cands \in SUBSET Tracks, at \in Nat :
              queue' = Enqueue(queue, l, cands, at)
        BY <2>1 DEF Queued
      <3>2. queue'[l] # None /\ \A m \in Likes : m # l => queue'[m] = queue[m]
        BY <1>1, <3>1, EnqueueKeeps
      <3>3. QED BY <3>2 DEF Keys
    <2>2. QED BY <2>1, EngineTables
  <1>3. QED BY <1>2, EngineTables DEF Settled

LEMMA EngineKept ==
  ASSUME TypeInv, NEW e \in Engines, PassStep(e) \/ PassFault(e)
  PROVE  Kept(Due, clock, Due', clock')
  BY EngineSettles, SettledKept

-----------------------------------------------------------------------------
\* A step of engine e leaves its pass and the mark safe, for any reckoning of
\* what is due before the step and after it in which what is settled is not.
Reckons(due) ==
  /\ due \in [Likes -> Nat]
  /\ \A l \in Likes : due[l] \in {0, likedAt[l]}

EngineKeeps(e, due2) ==
  /\ Shape(pass'[e])
  /\ e \notin DryEngines => PassSafe(pass'[e], due2, clock')
  /\ MarkSafe(watermark', due2, clock')

LEMMA EngineSafeStep ==
  ASSUME TypeInv, TypeInv', \A l \in Likes : likedAt[l] <= clock,
         NEW e \in Engines, PassStep(e) \/ PassFault(e), Shape(pass[e]),
         NEW due, Reckons(due), MarkSafe(watermark, due, clock),
         e \notin DryEngines => PassSafe(pass[e], due, clock),
         NEW due2 \in [Likes -> Nat], Kept(due, clock, due2, clock'),
         \A l \in Settled' : due2[l] = 0
  PROVE  EngineKeeps(e, due2)
  <1> DEFINE p == pass[e]
  <1> USE DEF dbVars, difmVars, spotVars
  <1>0. /\ p \in Pass /\ Shape(p) /\ watermark \in Nat /\ clock \in Nat
        /\ due \in [Likes -> Nat] /\ clock' \in Nat
    BY DEF TypeInv, TypeOK, Reckons
  <1>1. Kept(due, clock, due2, clock')
    OBVIOUS
  <1>2. /\ MarkSafe(watermark, due2, clock')
        /\ e \notin DryEngines => PassSafe(p, due2, clock')
    BY <1>0, <1>1, MarkKept, PassKept
  <1>a. ASSUME NEW q \in Pass, Becomes(e, q), Shape(q), UNCHANGED watermark,
               e \notin DryEngines =>
                 PassSafe(q, due, clock) \/ PassSafe(q, due2, clock')
        PROVE  EngineKeeps(e, due2)
    <2>1. e \notin DryEngines => PassSafe(q, due2, clock')
      BY <1>0, <1>1, <1>a, PassKept
    <2>2. pass'[e] = q
      BY <1>a, BecomesOthers
    <2>3. QED BY <1>2, <1>a, <2>1, <2>2 DEF EngineKeeps
  <1>b. ASSUME NEW l \in Likes, NEW q \in {Passed(p, l), Advanced(p, l), Failed(p, l)},
               Becomes(e, q), UNCHANGED watermark,
               e \notin DryEngines => q = Failed(p, l) \/ due2[l] = 0
        PROVE  EngineKeeps(e, due2)
    <2>1. q \in Pass /\ Shape(q)
      BY <1>0, PassTypes, PassedKeeps DEF Shape
    <2>2. e \notin DryEngines => PassSafe(q, due2, clock')
      BY <1>0, <1>2, <1>b, PassedSafe, FailedSafe
    <2>3. QED BY <1>a, <1>b, <2>1, <2>2
  <1>c. ASSUME NEW l \in Likes, NEW cands \in SUBSET Tracks, Record(e, l, cands),
               UNCHANGED <<watermark, difmVars, ledger, forgotten>>
        PROVE  EngineKeeps(e, due2)
    <2>1. CASE e \in DryEngines
      BY <1>b, <1>c, <2>1, RecordOutcome
    <2>2. CASE l \in Keys(queue') /\ Becomes(e, Advanced(p, l))
      <3>1. due2[l] = 0
        BY <2>2 DEF Settled
      <3>2. QED BY <1>b, <1>c, <2>2, <3>1
    <2>3. CASE Becomes(e, Failed(p, l))
      BY <1>b, <1>c, <2>3
    <2>4. QED BY <1>c, <2>1, <2>2, <2>3, RecordQueues
  <1>3. CASE Begin(e)
    <2> DEFINE q == [Idle EXCEPT !.pc = "fetch", !.wm0 = watermark, !.high = watermark]
    <2>1. q \in Pass /\ q.pc = "fetch" /\ q.high = watermark /\ q.wm0 = watermark
          /\ q.todo = NoLikes /\ q.ledge = NoRows
      BY <1>0, IdleType DEF Pass, PassPC, Idle
    <2>2. Reach(q) \subseteq {watermark, 0}
      BY <2>1 DEF Reach, Marks, Keys, NoRows, NoLikes
    <2>3. PassSafe(q, due, clock)
      <3>1. MarkSafe(0, due, clock)
        BY <1>0 DEF MarkSafe
      <3> HIDE DEF q
      <3>2. QED BY <1>0, <2>2, <3>1 DEF PassSafe, MarkSafe
    <2>4. Shape(q) /\ Becomes(e, q) /\ UNCHANGED watermark
      BY <1>3, <2>1 DEF Begin, Shape
    <2>5. QED
      <3> HIDE DEF q
      <3> QED BY <1>a, <2>1, <2>3, <2>4
  <1>4. CASE Fetch(e)
    <2> DEFINE q == [p EXCEPT !.pc = "reconcile", !.todo = NewLikes(p.wm0)]
    <2>1. /\ q \in Pass /\ q.pc = "reconcile" /\ q.high = p.wm0
          /\ q.todo = NewLikes(p.wm0) /\ q.ledge = NoRows
      BY <1>0, <1>4, NewLikesType DEF Fetch, Pass, PassPC, Shape
    <2>2. e \notin DryEngines => PassSafe(q, due, clock)
      <3> SUFFICES ASSUME e \notin DryEngines PROVE PassSafe(q, due, clock)
        OBVIOUS
      <3>0. /\ \A l \in Likes : likedAt[l] \in Nat /\ likedAt[l] <= clock
            /\ q.clean = p.clean /\ p.wm0 \in Nat
        BY <1>0 DEF TypeInv, TypeOK, Pass
      <3>1. q.clean => p.wm0 <= clock /\ \A l \in Likes : due[l] = 0 \/ due[l] > p.wm0
        <4>1. p.wm0 \in Reach(p) /\ \A l \in Likes : p.todo[l] = 0 /\ p.ledge[l] = None
          BY <1>0, <1>4 DEF Fetch, Shape, Reach, Marks, NoLikes, NoRows
        <4>2. QED BY <1>0, <3>0, <4>1 DEF PassSafe
      <3>2. q.clean => \A l \in Likes : due[l] = 0 \/ q.todo[l] > 0
        BY <2>1, <3>0, <3>1 DEF Reckons, NewLikes
      <3>3. \A l \in Likes : NewLikes(p.wm0)[l] <= clock
        BY <1>0, <3>0 DEF NewLikes
      <3>4. \A m \in Reach(q) : m = p.wm0 \/ \E l \in Likes : m = NewLikes(p.wm0)[l]
        <4> HIDE DEF q
        <4> QED BY <2>1, Zenon DEF Reach, Marks, Keys, NoRows
      <3>5. QED
        <4> HIDE DEF q
        <4> QED BY <3>1, <3>2, <3>3, <3>4 DEF PassSafe
    <2>3. QED BY <1>4, <1>a, <2>1, <2>2 DEF Fetch, Shape
  <1>5. CASE FetchDropped(e)
    <2>1. PICK lost \in SUBSET Likes : Becomes(e, [p EXCEPT
            !.pc = "reconcile", !.clean = FALSE,
            !.todo = [l \in Likes |->
                       IF l \in lost THEN 0 ELSE NewLikes(p.wm0)[l]]])
      BY <1>5 DEF FetchDropped
    <2>2. \A todo \in [Likes -> Nat] :
            LET q == [p EXCEPT !.pc = "reconcile", !.clean = FALSE, !.todo = todo]
            IN  q \in Pass /\ Shape(q) /\ PassSafe(q, due, clock)
      BY <1>0 DEF PassSafe, Pass, PassPC, Shape
    <2>3. [l \in Likes |-> IF l \in lost THEN 0 ELSE NewLikes(p.wm0)[l]]
             \in [Likes -> Nat]
      BY NewLikesType
    <2>4. QED BY <1>5, <1>a, <2>1, <2>2, <2>3 DEF FetchDropped
  <1>6. CASE Reconcile(e)
    <2> DEFINE q == [p EXCEPT !.pc = "likes", !.known = InPlaylist]
    <2>1. /\ q \in Pass /\ Shape(q) /\ q.clean = p.clean /\ q.high = p.high
          /\ q.todo = p.todo /\ q.ledge = p.ledge
      BY <1>0 DEF Pass, PassPC, InPlaylist, Shape
    <2>2. e \notin DryEngines => PassSafe(q, due, clock)
      <3> HIDE DEF q
      <3> QED BY <1>0, <2>1 DEF PassSafe, Reach, Marks
    <2>3. QED BY <1>6, <1>a, <2>1, <2>2 DEF Reconcile
  <1>7. CASE SkipMix(e)
    <2>1. PICK l \in Mixes : Record(e, l, {})
      BY <1>7 DEF SkipMix
    <2>2. QED BY <1>7, <1>c, <2>1, ConstantsOK DEF SkipMix
  <1>8. CASE CheckLedger(e)
    <2>1. PICK l \in Likes : Becomes(e, IF ledger[l] # None THEN Advanced(p, l)
                               ELSE [p EXCEPT !.pc = "search", !.cur = l])
      BY <1>8 DEF CheckLedger
    <2>2. CASE ledger[l] # None
      <3>1. due2[l] = 0
        BY <1>8, <2>2 DEF CheckLedger, Settled, Keys
      <3>2. QED BY <1>8, <1>b, <2>1, <2>2, <3>1 DEF CheckLedger
    <2>3. CASE ledger[l] = None
      <3> DEFINE q == [p EXCEPT !.pc = "search", !.cur = l]
      <3>1. /\ q \in Pass /\ Shape(q) /\ q.clean = p.clean /\ q.high = p.high
            /\ q.todo = p.todo /\ q.ledge = p.ledge
        BY <1>0 DEF Pass, PassPC, Shape
      <3>2. e \notin DryEngines => PassSafe(q, due, clock)
        <4> HIDE DEF q
        <4> QED BY <1>0, <3>1 DEF PassSafe, Reach, Marks
      <3>3. QED BY <1>8, <1>a, <2>1, <2>3, <3>1, <3>2 DEF CheckLedger
    <2>4. QED BY <2>2, <2>3
  <1>9. CASE Search(e)
    <2>1. p.cur \in Likes
      BY <1>9 DEF Search, TypeInv, Control
    <2>2. PICK r \in Finds[p.cur] :
            \/ /\ IsAuto(r)
               /\ Becomes(e, IF e \in DryEngines THEN DryMatch(p, r) ELSE Match(p, r))
            \/ ~ IsAuto(r) /\ Record(e, p.cur, r.cands)
      BY <1>9 DEF Search
    <2>3. r \in Result /\ r.cands \in SUBSET Tracks
      BY <2>1, ConstantsOK DEF Result
    <2>4. CASE IsAuto(r)
      <3>1. r.best \in Tracks
        BY <2>1, <2>4, FindsOK DEF IsAuto
      <3>2. Match(p, r) \in Pass /\ Shape(Match(p, r))
        BY <1>0, <2>1, <2>3, <3>1, MatchType, MatchFields DEF Shape
      <3>3. e \notin DryEngines => PassSafe(Match(p, r), due, clock)
        BY <1>0, <2>1, <2>3, <3>1, MatchSafe
      <3>4. CASE Becomes(e, Match(p, r))
        BY <1>9, <1>a, <3>2, <3>3, <3>4 DEF Search
      <3>5. CASE e \in DryEngines /\ Becomes(e, Passed(p, p.cur))
        BY <1>9, <1>b, <2>1, <3>5 DEF Search
      <3>6. QED BY <2>2, <2>4, <3>4, <3>5 DEF DryMatch
    <2>5. CASE ~ IsAuto(r)
      BY <1>9, <1>c, <2>1, <2>2, <2>3, <2>5 DEF Search
    <2>6. QED BY <2>4, <2>5
  <1>10. CASE EndDryRun(e)
    BY <1>0, <1>10, <1>a, IdleSafe, IdleType DEF EndDryRun
  <1>11. CASE Reread(e)
    <2> DEFINE q == [p EXCEPT !.pc = IF \E t \in Tracks : Fresh(p)[t] > 0
                                       THEN "post" ELSE "commit",
                              !.pend = Fresh(p)]
    <2>1. Fresh(p) \in [Tracks -> Nat]
      BY <1>0 DEF Fresh, Pass
    <2>2. /\ q \in Pass /\ Shape(q) /\ q.clean = p.clean /\ q.high = p.high
          /\ q.todo = p.todo /\ q.ledge = p.ledge
      BY <1>0, <1>11, <2>1 DEF Pass, PassPC, Shape, Reread, AllDone
    <2>3. e \notin DryEngines => PassSafe(q, due, clock)
      <3> HIDE DEF q
      <3> QED BY <1>0, <2>2 DEF PassSafe, Reach, Marks
    <2>4. QED BY <1>11, <1>a, <2>2, <2>3 DEF Reread
  <1>12. CASE Post(e)
    <2>1. PICK b \in Batches(p) :
            Becomes(e, [p EXCEPT !.pend = Without(p, b),
                                 !.pc = IF Without(p, b) = NoTracks
                                          THEN "commit" ELSE "post"])
      BY <1>12 DEF Post
    <2> DEFINE q == [p EXCEPT !.pend = Without(p, b),
                              !.pc = IF Without(p, b) = NoTracks
                                       THEN "commit" ELSE "post"]
    <2>2. Without(p, b) \in [Tracks -> Nat]
      BY <1>0, BatchType
    <2>3. /\ q \in Pass /\ Shape(q) /\ q.clean = p.clean /\ q.high = p.high
          /\ q.todo = p.todo /\ q.ledge = p.ledge
      BY <1>0, <1>12, <2>2 DEF Pass, PassPC, Shape, Post, AllDone
    <2>4. e \notin DryEngines => PassSafe(q, due, clock)
      <3> HIDE DEF q
      <3> QED BY <1>0, <2>3 DEF PassSafe, Reach, Marks
    <2>5. QED BY <1>12, <1>a, <2>1, <2>3, <2>4 DEF Post
  <1>13. CASE Commit(e)
    <2>1. PICK h \in Marks(p) :
            watermark' = IF p.clean /\ h > p.wm0 THEN h ELSE watermark
      BY <1>13 DEF Commit
    <2>2. p.clean => MarkSafe(h, due2, clock')
      <3>1. h \in Reach(p) /\ e \notin DryEngines
        BY <1>13 DEF Reach, Commit
      <3>2. \A l \in Likes : p.todo[l] = 0
        BY <1>0, <1>13 DEF Commit, Shape, AllDone
      <3>3. \A l \in Likes : p.ledge[l] # None => due2[l] = 0
        BY <1>13 DEF Commit, RecordSynced, Settled, Keys
      <3>4. QED BY <1>2, <3>1, <3>2, <3>3 DEF PassSafe, MarkSafe
    <2>3. MarkSafe(watermark', due2, clock')
      BY <1>2, <2>1, <2>2
    <2>4. pass'[e] = Idle
      BY <1>13, BecomesOthers DEF Commit
    <2>5. QED BY <1>0, <2>3, <2>4, IdleSafe DEF EngineKeeps
  <1>14. CASE SearchFails(e)
    <2>1. p.cur \in Likes
      BY <1>14 DEF SearchFails, TypeInv, Control
    <2>2. QED BY <1>14, <1>b, <2>1 DEF SearchFails
  <1>15. CASE PostUnanswered(e)
    BY <1>0, <1>15, <1>a, IdleSafe, IdleType DEF PostUnanswered
  <1>16. CASE Abort(e)
    BY <1>0, <1>16, <1>a, IdleSafe, IdleType DEF Abort
  <1>17. QED
    BY <1>3, <1>4, <1>5, <1>6, <1>7, <1>8, <1>9, <1>10, <1>11,
       <1>12, <1>13, <1>14, <1>15, <1>16 DEF PassStep, PassFault

LEMMA OperatorKept ==
  ASSUME TypeInv, LikeInv, OperatorNext
  PROVE  Kept(Due, clock, Due', clock') /\ \A l \in Likes : likedAt'[l] <= clock'
  <1> USE DEF dbVars, difmVars, spotVars
  <1>0. /\ \A l \in Likes : likedAt[l] <= clock
        /\ likedAt \in [Likes -> Nat] /\ clock \in Nat
    BY DEF LikeInv, TypeInv, TypeOK
  <1>a. ASSUME UNCHANGED difmVars,
               Settled \cup forgotten \subseteq (Settled \cup forgotten)'
        PROVE  Kept(Due, clock, Due', clock') /\ \A l \in Likes : likedAt'[l] <= clock'
    BY <1>0, <1>a, SettledKept
  <1>1. CASE UNCHANGED <<ledger, queue, forgotten, difmVars>>
    BY <1>a, <1>1 DEF Settled
  <1>2. CASE Drop
    <2>1. Keys(ledger) \subseteq Keys(ledger') \cup forgotten'
      BY <1>2 DEF Drop, ForgetTrack, Keys, TypeInv, TypeOK, Table
    <2>2. QED BY <1>a, <1>2, <2>1 DEF Drop, Settled
  <1>3. CASE ForgetAllTracks
    <2>1. Keys(ledger) \subseteq forgotten'
      BY <1>3 DEF ForgetAllTracks
    <2>2. QED BY <1>a, <1>3, <2>1 DEF ForgetAllTracks, Settled
  <1>4. CASE ApproveRecords
    <2> DEFINE row == [track |-> appr.track, at |-> appr.at]
    <2>1. /\ appr.like \in Likes /\ row \in LedgerRow
          /\ ledger' = RecordSynced(ledger, [NoRows EXCEPT ![appr.like] = row])
          /\ forgotten' = forgotten \ {appr.like} /\ queue' = queue
      BY <1>4 DEF ApproveRecords, LedgerRow, TypeInv, TypeOK, Appr, Control
    <2>2. row # None
      BY <2>1, NoneIsNoRow
    <2> HIDE DEF row
    <2>3. Keys(ledger) \cup {appr.like} \subseteq Keys(ledger')
      BY <2>1, <2>2 DEF RecordSynced, NoRows, Keys
    <2>4. QED BY <1>a, <1>4, <2>1, <2>3 DEF ApproveRecords, Settled
  <1>5. CASE ApproveResolves \/ Reject
    <2>1. \E l \in Likes, status \in Status :
             queue[l] # None /\ queue' = ResolveReview(queue, l, status)
      BY <1>5 DEF ApproveResolves, Reject, Keys, Status, TypeInv, Control
    <2>2. Keys(queue) \subseteq Keys(queue')
      BY <2>1, ResolveKeeps DEF Keys, TypeInv, TypeOK
    <2>3. QED BY <1>a, <1>5, <2>2 DEF ApproveResolves, Reject, Settled
  <1>6. ASSUME NEW l \in Likes, Like(l)
        PROVE  Kept(Due, clock, Due', clock') /\ \A k \in Likes : likedAt'[k] <= clock'
    <2>1. /\ clock' \in Nat /\ clock <= clock'
          /\ clock' = clock + 1 \/ clock' \in shared'
          /\ likedAt'[l] = clock' /\ shared \subseteq shared'
          /\ UNCHANGED <<ledger, queue, forgotten>>
          /\ \A k \in Likes : k # l => likedAt'[k] = likedAt[k]
      BY <1>0, <1>6 DEF Like
    <2>2. \A k \in Likes : k # l => Due'[k] \in {0, Due[k]}
      BY <2>1 DEF Due, Settled
    <2>3. Due'[l] = 0 \/ Due'[l] > clock
      BY <1>0, <2>1 DEF Due
    <2>4. QED BY <1>0, <2>1, <2>2, <2>3 DEF Kept
  <1>7. ASSUME NEW l \in Likes, Unlike(l)
        PROVE  Kept(Due, clock, Due', clock') /\ \A k \in Likes : likedAt'[k] <= clock'
    <2>1. /\ clock' = clock /\ likedAt'[l] = 0
          /\ UNCHANGED <<ledger, queue, forgotten, shared>>
          /\ \A k \in Likes : k # l => likedAt'[k] = likedAt[k]
      BY <1>0, <1>7 DEF Unlike
    <2>2. \A k \in Likes : Due'[k] \in {0, Due[k]}
      BY <2>1 DEF Due, Settled
    <2>3. QED BY <1>0, <2>1, <2>2 DEF Kept
  <1>8. QED
    BY <1>1, <1>2, <1>3, <1>4, <1>5, <1>6, <1>7
       DEF OperatorNext, Resync, ResyncStep, Review, Member, StartResync, LookUp,
           Rewind, ClearWatermark, ResyncDies, StartApprove, ApproveReads,
           ApprovePosts, ApproveUnanswered, ApproveDies, DeleteByHand, AddByHand

\* The marks a resync carries are safe, and so is the one it sets.
LEMMA OperatorMarks ==
  ASSUME TypeInv, LikeInv, OperatorNext
  PROVE  /\ MarkSafe(watermark', Due, clock) /\ MarkSafe(cmd'.wm, Due, clock)
         /\ cmd'.pc = "rewind" => cmd'.earliest <= cmd'.wm
         /\ watermark' \in Nat /\ cmd'.wm \in Nat
  <1> USE DEF dbVars, difmVars, spotVars
  <1>0. /\ MarkSafe(watermark, Due, clock) /\ MarkSafe(cmd.wm, Due, clock)
        /\ cmd.pc = "rewind" => cmd.earliest <= cmd.wm /\ cmd.earliest > 0
        /\ watermark \in Nat /\ cmd \in Cmd /\ Due \in [Likes -> Nat] /\ clock \in Nat
        /\ CmdIdle.wm = 0 /\ CmdIdle.pc = "idle"
    BY DueType DEF LikeInv, TypeInv, TypeOK, Control, CmdIdle
  <1>1. MarkSafe(0, Due, clock)
    BY <1>0 DEF MarkSafe
  <1>2. CASE StartResync
    <2>1. /\ cmd'.pc # "rewind"
          /\ cmd'.wm = 0 \/ cmd'.wm = watermark
          /\ watermark' = watermark
      BY <1>2 DEF StartResync, CmdIdle
    <2>2. QED BY <1>0, <1>1, <2>1
  <1>3. CASE LookUp
    <2>1. cmd'.pc = "drop" /\ cmd'.wm = cmd.wm
      BY <1>0, <1>3 DEF LookUp, Cmd
    <2>2. QED BY <1>0, <1>3, <2>1 DEF LookUp, Cmd
  <1>4. CASE Drop
    <2>1. \/ cmd' = CmdIdle
          \/ /\ cmd'.wm = cmd.wm /\ cmd'.earliest = cmd.earliest
             /\ cmd'.pc = AfterForget(cmd)
      BY <1>0, <1>4 DEF Drop, Onward, Cmd
    <2>2. AfterForget(cmd) = "rewind" => cmd.earliest <= cmd.wm
      BY <1>0 DEF AfterForget, Cmd
    <2>3. QED BY <1>0, <1>1, <1>4, <2>1, <2>2 DEF Drop, Cmd
  <1>5. CASE Rewind
    <2>1. watermark' = cmd.earliest - 1 /\ cmd' = CmdIdle /\ cmd.earliest \in Nat
          /\ cmd.wm \in Nat /\ cmd.earliest <= cmd.wm /\ cmd.earliest > 0
      BY <1>0, <1>5 DEF Rewind, Cmd
    <2>2. watermark' \in Nat /\ MarkSafe(watermark', Due, clock)
      BY <1>0, <2>1 DEF MarkSafe
    <2>3. QED BY <1>0, <1>1, <2>1, <2>2
  <1>6. CASE ClearWatermark \/ ResyncDies
    BY <1>0, <1>1, <1>6 DEF ClearWatermark, ResyncDies
  <1>7. CASE ForgetAllTracks
    <2>1. cmd'.pc = "clear" /\ cmd'.wm = cmd.wm
      BY <1>0, <1>7 DEF ForgetAllTracks, Cmd
    <2>2. QED BY <1>0, <1>7, <2>1 DEF ForgetAllTracks, Cmd
  <1>8. CASE Review \/ Member
    <2>1. UNCHANGED <<watermark, cmd>>
      BY <1>8 DEF Review, Member, StartApprove, ApproveReads, ApprovePosts,
           ApproveUnanswered, ApproveRecords, ApproveResolves, ApproveDies, Reject,
           Like, Unlike, DeleteByHand, AddByHand
    <2>2. QED BY <1>0, <2>1 DEF Cmd
  <1>9. QED
    BY <1>2, <1>3, <1>4, <1>5, <1>6, <1>7, <1>8 DEF OperatorNext, Resync, ResyncStep

LEMMA LikeInit == Init => LikeInv
  <1> SUFFICES ASSUME Init PROVE LikeInv
    OBVIOUS
  <1>1. TypeInv
    BY TypeInit
  <1>2. /\ Due \in [Likes -> Nat] /\ clock = 0 /\ watermark = 0 /\ cmd.wm = 0
        /\ \A l \in Likes : likedAt[l] = 0
        /\ cmd.pc # "rewind" /\ \A e \in Engines : pass[e] = Idle
    BY <1>1, DueType DEF Init, CmdIdle, NoLikes
  <1>3. QED
    BY <1>2, IdleSafe DEF LikeInv, MarkSafe

LEMMA LikeStep == TypeInv /\ TypeInv' /\ LikeInv /\ [Next]_vars => LikeInv'
  <1> SUFFICES ASSUME TypeInv, TypeInv', LikeInv, [Next]_vars PROVE LikeInv'
    OBVIOUS
  <1>0. /\ Due \in [Likes -> Nat] /\ Due' \in [Likes -> Nat]
        /\ clock \in Nat /\ clock' \in Nat /\ cmd.wm \in Nat
        /\ \A e \in Engines : pass[e] \in Pass
    BY DueType, DueTypeNext DEF TypeInv, TypeOK, Cmd
  <1>1. CASE EngineNext /\ UNCHANGED <<cmd, appr>>
    <2>1. PICK e \in Engines : PassStep(e) \/ PassFault(e)
      BY <1>1 DEF EngineNext
    <2>2. EngineKeeps(e, Due') /\ Kept(Due, clock, Due', clock')
      <3>1. Reckons(Due) /\ \A l \in Settled' : Due'[l] = 0
        BY <1>0 DEF Reckons, Due, Settled, Keys
      <3>2. Kept(Due, clock, Due', clock')
        BY <2>1, EngineKept
      <3>3. /\ \A l \in Likes : likedAt[l] <= clock
            /\ Shape(pass[e]) /\ MarkSafe(watermark, Due, clock)
            /\ e \notin DryEngines => PassSafe(pass[e], Due, clock)
        BY DEF LikeInv
      <3>4. QED BY <1>0, <2>1, <3>1, <3>2, <3>3, EngineSafeStep
    <2>3. \A f \in Engines : f # e => pass'[f] = pass[f]
      BY <2>1, EngineOthers
    <2>4. /\ MarkSafe(cmd.wm, Due', clock')
          /\ \A f \in Engines \ DryEngines : PassSafe(pass[f], Due', clock')
      BY <1>0, <2>2, MarkKept, PassKept DEF LikeInv
    <2>5. likedAt' = likedAt /\ clock' = clock
      BY <2>1 DEF PassStep, PassFault, Begin, Fetch, Reconcile, SkipMix, CheckLedger,
           EndDryRun, Reread, Post, Commit, FetchDropped, SearchFails,
           PostUnanswered, Abort, Search, difmVars
    <2>6. QED
      BY <1>1, <2>2, <2>3, <2>4, <2>5 DEF LikeInv, EngineKeeps
  <1>2. CASE OperatorNext /\ UNCHANGED pass
    <2>1. Kept(Due, clock, Due', clock') /\ \A l \in Likes : likedAt'[l] <= clock'
      BY <1>2, OperatorKept
    <2>2. MarkSafe(watermark', Due', clock') /\ MarkSafe(cmd'.wm, Due', clock')
      BY <1>0, <1>2, <2>1, OperatorMarks, MarkKept
    <2>3. \A f \in Engines \ DryEngines : PassSafe(pass[f], Due', clock')
      BY <1>0, <2>1, PassKept DEF LikeInv
    <2>4. QED
      BY <1>2, <2>1, <2>2, <2>3, OperatorMarks DEF LikeInv
  <1>3. CASE UNCHANGED vars
    <2>1. Due' = Due
      BY <1>3 DEF vars, Due, Settled, Keys
    <2>2. QED BY <1>3, <2>1 DEF vars, LikeInv
  <1>4. QED
    BY <1>1, <1>2, <1>3 DEF Next

\* No like falls below the watermark before it is recorded or queued, however
\* many engines run at once and whatever fails or dies, unless the operator
\* made the program forget it or it shares its second with another vote
\* (engine.go, pass: passClean, highWater and the commit).
THEOREM NoLikeIsLost == Spec => []NoLikeLost
  <1>1. TypeInv /\ LikeInv => NoLikeLost
    <2> SUFFICES ASSUME TypeInv, LikeInv PROVE NoLikeLost
      OBVIOUS
    <2>1. /\ likedAt \in [Likes -> Nat] /\ watermark \in Nat
          /\ \A l \in Likes : Due[l] = 0 \/ Due[l] > watermark
      BY DEF LikeInv, MarkSafe, TypeInv, TypeOK
    <2>2. QED BY <2>1 DEF NoLikeLost, Due
  <1>2. Spec => []LikeInv
    BY TypeInvariant, LikeInit, LikeStep, PTL DEF Spec
  <1>3. QED
    BY <1>1, <1>2, TypeInvariant, PTL

-----------------------------------------------------------------------------
(* What resync promises.  To rewind the watermark below the like it forgot *)
(* it goes by the time in the like's ledger row, so it matters that every  *)
(* copy of that time, in a pass, the queue, an approval or the ledger, is  *)
(* one at which the like was cast, and no later than its present vote.     *)
Dated(v, l, now, liked) == 0 < v /\ v <= now /\ (liked[l] = 0 \/ v <= liked[l])

RowsDated(table, now, liked) ==
  \A l \in Likes : table[l] # None => Dated(table[l].at, l, now, liked)

PassDated(p, now, liked) ==
  /\ \A l \in Likes : p.todo[l] > 0 => Dated(p.todo[l], l, now, liked)
  /\ RowsDated(p.ledge, now, liked)
  /\ p.pc = "search" => p.todo[p.cur] > 0
  /\ p.pc = "idle" => p = Idle

ApprDated == appr.pc # "idle" => Dated(appr.at, appr.like, clock, likedAt)

DateInv ==
  /\ RowsDated(ledger, clock, likedAt)
  /\ RowsDated(queue, clock, likedAt)
  /\ \A e \in Engines : PassDated(pass[e], clock, likedAt)
  /\ ApprDated

\* A vote is cast no earlier than any before it.
Later(now, liked, now2, liked2) ==
  /\ now <= now2
  /\ \A l \in Likes : liked2[l] \in {0, liked[l]} \/ liked2[l] >= now

LEMMA DatedLater ==
  ASSUME NEW now \in Nat, NEW liked \in [Likes -> Nat],
         NEW now2 \in Nat, NEW liked2 \in [Likes -> Nat], Later(now, liked, now2, liked2),
         NEW v \in Nat, NEW l \in Likes, Dated(v, l, now, liked)
  PROVE  Dated(v, l, now2, liked2)
  BY DEF Later, Dated

LEMMA RowsLater ==
  ASSUME NEW now \in Nat, NEW liked \in [Likes -> Nat],
         NEW now2 \in Nat, NEW liked2 \in [Likes -> Nat], Later(now, liked, now2, liked2),
         NEW table, \A l \in Likes : table[l] # None => table[l].at \in Nat,
         RowsDated(table, now, liked)
  PROVE  RowsDated(table, now2, liked2)
  <1> SUFFICES ASSUME NEW l \in Likes, table[l] # None
               PROVE  Dated(table[l].at, l, now2, liked2)
    BY DEF RowsDated
  <1> DEFINE v == table[l].at
  <1>1. v \in Nat /\ Dated(v, l, now, liked)
    BY DEF RowsDated
  <1> HIDE DEF v
  <1>2. Dated(v, l, now2, liked2)
    BY <1>1, DatedLater
  <1>3. QED BY <1>2 DEF v

LEMMA PassLater ==
  ASSUME NEW now \in Nat, NEW liked \in [Likes -> Nat],
         NEW now2 \in Nat, NEW liked2 \in [Likes -> Nat], Later(now, liked, now2, liked2),
         NEW p \in Pass, PassDated(p, now, liked)
  PROVE  PassDated(p, now2, liked2)
  <1>1. /\ \A l \in Likes : p.todo[l] \in Nat
        /\ \A l \in Likes : p.ledge[l] # None => p.ledge[l].at \in Nat
    BY DEF Pass, Table, LedgerRow
  <1>2. QED BY <1>1, DatedLater, RowsLater DEF PassDated

\* Only the member votes.
LEMMA VotesCast ==
  ASSUME TypeInv, [Next]_vars
  PROVE  UNCHANGED difmVars \/ \E l \in Likes : Like(l) \/ Unlike(l)
  <1> USE DEF dbVars, difmVars, spotVars
  <1>1. CASE EngineNext
    BY <1>1, EngineTables DEF EngineNext
  <1>2. CASE Resync
    BY <1>2 DEF Resync, ResyncStep, StartResync, LookUp, Drop, Rewind,
         ForgetAllTracks, ClearWatermark, ResyncDies
  <1>3. CASE Review
    BY <1>3 DEF Review, StartApprove, ApproveReads, ApprovePosts, ApproveUnanswered,
         ApproveRecords, ApproveResolves, ApproveDies, Reject
  <1>4. CASE Member
    BY <1>4 DEF Member, DeleteByHand, AddByHand
  <1>5. CASE UNCHANGED vars
    BY <1>5 DEF vars
  <1>6. QED BY <1>1, <1>2, <1>3, <1>4, <1>5 DEF Next, OperatorNext

\* The votes are a clock that does not run backwards.
LEMMA VotesLater ==
  ASSUME TypeInv, [Next]_vars
  PROVE  Later(clock, likedAt, clock', likedAt')
  <1>0. clock \in Nat /\ likedAt \in [Likes -> Nat]
    BY DEF TypeInv, TypeOK
  <1>1. CASE UNCHANGED difmVars
    BY <1>0, <1>1 DEF Later, difmVars
  <1>2. CASE \E l \in Likes : Like(l)
    <2>1. PICK l \in Likes : Like(l)
      BY <1>2
    <2>2. /\ clock' \in Nat /\ clock <= clock' /\ likedAt'[l] = clock'
          /\ \A k \in Likes : k # l => likedAt'[k] = likedAt[k]
      BY <1>0, <2>1 DEF Like
    <2>3. QED BY <1>0, <2>2 DEF Later
  <1>3. CASE \E l \in Likes : Unlike(l)
    BY <1>0, <1>3 DEF Unlike, Later
  <1>4. QED BY <1>1, <1>2, <1>3, VotesCast

-----------------------------------------------------------------------------
LEMMA PassedDated ==
  ASSUME NEW p \in Pass, NEW l \in Likes, NEW now, NEW liked, PassDated(p, now, liked),
         NEW q \in {Passed(p, l), Advanced(p, l), Failed(p, l)}
  PROVE  PassDated(q, now, liked)
  <1>1. q.pc = "likes" /\ q.ledge = p.ledge /\ q.todo = [p.todo EXCEPT ![l] = 0]
    BY PassedKeeps
  <1>2. p.todo \in [Likes -> Nat]
    BY DEF Pass
  <1>3. \A k \in Likes : q.todo[k] > 0 => q.todo[k] = p.todo[k]
    BY <1>1, <1>2
  <1>4. QED BY <1>1, <1>3 DEF PassDated, RowsDated

LEMMA MatchDated ==
  ASSUME NEW p \in Pass, p.cur \in Likes, NEW r \in Result, r.best \in Tracks,
         NEW now, NEW liked, PassDated(p, now, liked), p.pc = "search"
  PROVE  PassDated(Match(p, r), now, liked)
  <1> DEFINE q == Match(p, r)
             row == [track |-> r.best, at |-> p.todo[p.cur]]
  <1>1. /\ q.pc = "likes" /\ q.todo = [p.todo EXCEPT ![p.cur] = 0]
        /\ q.ledge = [p.ledge EXCEPT ![p.cur] = row]
    BY MatchFields
  <1>2. p.todo \in [Likes -> Nat] /\ p.ledge \in Table(LedgerRow)
    BY DEF Pass
  <1>3. row.at = p.todo[p.cur]
    OBVIOUS
  <1> HIDE DEF q, row
  <1>4. \A k \in Likes : q.todo[k] > 0 => q.todo[k] = p.todo[k]
    BY <1>1, <1>2
  <1>5. Dated(row.at, p.cur, now, liked)
    BY <1>3 DEF PassDated
  <1>6. \A k \in Likes : q.ledge[k] = IF k = p.cur THEN row ELSE p.ledge[k]
    BY <1>1, <1>2 DEF Table
  <1>7. RowsDated(q.ledge, now, liked)
    BY <1>5, <1>6 DEF PassDated, RowsDated
  <1>8. PassDated(q, now, liked)
    BY <1>1, <1>4, <1>7 DEF PassDated
  <1>9. QED BY <1>8 DEF q

LEMMA IdleDated == ASSUME NEW now, NEW liked PROVE PassDated(Idle, now, liked)
  BY DEF PassDated, RowsDated, Idle, NoLikes, NoRows

\* What is queued of a like whose time is known.
LEMMA RecordDates ==
  ASSUME TypeInv, DateInv, NEW e \in Engines, NEW l \in Likes,
         NEW cands \in SUBSET Tracks, Record(e, l, cands), pass[e].todo[l] > 0
  PROVE  RowsDated(queue', clock, likedAt) /\ PassDated(pass'[e], clock, likedAt)
  <1> DEFINE at == pass[e].todo[l]
             row == [status |-> StatusOf(queue, l), cands |-> cands, at |-> at]
  <1>0. /\ pass[e] \in Pass /\ PassDated(pass[e], clock, likedAt)
        /\ queue \in Table(QueueRow) /\ RowsDated(queue, clock, likedAt)
    BY DEF TypeInv, TypeOK, DateInv
  <1>1. Dated(at, l, clock, likedAt)
    BY <1>0 DEF PassDated
  <1>2. RowsDated(Enqueue(queue, l, cands, at), clock, likedAt)
    <2>1. Enqueue(queue, l, cands, at) = [queue EXCEPT ![l] = row] /\ row.at = at
      BY DEF Enqueue
    <2> HIDE DEF row, at
    <2>2. \A k \in Likes : [queue EXCEPT ![l] = row][k] = IF k = l THEN row ELSE queue[k]
      BY <1>0 DEF Table
    <2>3. QED BY <1>0, <1>1, <2>1, <2>2 DEF RowsDated
  <1>3. RowsDated(queue', clock, likedAt)
    BY <1>0, <1>2, RecordTables
  <1>4. PassDated(pass'[e], clock, likedAt)
    BY <1>0, RecordOutcome, PassedDated, BecomesOthers
  <1>5. QED BY <1>3, <1>4

LEMMA EngineDates ==
  ASSUME TypeInv, LikeInv, DateInv, NEW e \in Engines, PassStep(e) \/ PassFault(e)
  PROVE  /\ PassDated(pass'[e], clock, likedAt)
         /\ RowsDated(ledger', clock, likedAt) /\ RowsDated(queue', clock, likedAt)
  <1> DEFINE p == pass[e]
             Goal == /\ PassDated(pass'[e], clock, likedAt)
                     /\ RowsDated(ledger', clock, likedAt)
                     /\ RowsDated(queue', clock, likedAt)
  <1> USE DEF dbVars, difmVars, spotVars
  <1>0. /\ p \in Pass /\ PassDated(p, clock, likedAt) /\ Shape(p)
        /\ RowsDated(ledger, clock, likedAt) /\ RowsDated(queue, clock, likedAt)
        /\ \A l \in Likes : likedAt[l] \in Nat /\ likedAt[l] <= clock
    BY DEF TypeInv, TypeOK, DateInv, LikeInv
  <1>a. ASSUME NEW q, Becomes(e, q), PassDated(q, clock, likedAt), UNCHANGED <<ledger, queue>>
        PROVE  Goal
    BY <1>0, <1>a, BecomesOthers
  \* A pass that keeps what it knows of times.
  <1>b. ASSUME NEW q, Becomes(e, q), UNCHANGED <<ledger, queue>>, q.todo = p.todo,
               q.ledge = p.ledge, q.pc \notin {"idle", "search"}
        PROVE  Goal
    <2>1. PassDated(q, clock, likedAt)
      BY <1>0, <1>b DEF PassDated
    <2>2. QED BY <1>a, <1>b, <2>1
  <1>1. CASE Begin(e)
    <2> DEFINE q == [Idle EXCEPT !.pc = "fetch", !.wm0 = watermark, !.high = watermark]
    <2>1. PassDated(q, clock, likedAt)
      BY DEF PassDated, RowsDated, Idle, NoLikes, NoRows
    <2>2. QED BY <1>1, <1>a, <2>1 DEF Begin
  <1>2. CASE Fetch(e) \/ FetchDropped(e)
    <2>1. PICK todo \in [Likes -> Nat], clean \in BOOLEAN :
            /\ \A l \in Likes : todo[l] > 0 => todo[l] = likedAt[l]
            /\ Becomes(e, [p EXCEPT !.pc = "reconcile", !.todo = todo, !.clean = clean])
      <3>1. CASE Fetch(e)
        <4>1. /\ NewLikes(p.wm0) \in [Likes -> Nat] /\ p.clean \in BOOLEAN
              /\ \A l \in Likes : NewLikes(p.wm0)[l] > 0 => NewLikes(p.wm0)[l] = likedAt[l]
          BY <1>0, NewLikesType DEF NewLikes, Pass
        <4>2. [p EXCEPT !.pc = "reconcile", !.todo = NewLikes(p.wm0)]
                = [p EXCEPT !.pc = "reconcile", !.todo = NewLikes(p.wm0), !.clean = p.clean]
          BY <1>0 DEF Pass
        <4>3. QED BY <3>1, <4>1, <4>2 DEF Fetch
      <3>2. CASE FetchDropped(e)
        <4>1. PICK lost \in SUBSET Likes : Becomes(e, [p EXCEPT
                !.pc = "reconcile", !.clean = FALSE,
                !.todo = [l \in Likes |->
                           IF l \in lost THEN 0 ELSE NewLikes(p.wm0)[l]]])
          BY <3>2 DEF FetchDropped
        <4> DEFINE todo == [l \in Likes |-> IF l \in lost THEN 0 ELSE NewLikes(p.wm0)[l]]
        <4>2. todo \in [Likes -> Nat] /\ \A l \in Likes : todo[l] > 0 => todo[l] = likedAt[l]
          BY <1>0, NewLikesType DEF NewLikes
        <4>3. [p EXCEPT !.pc = "reconcile", !.clean = FALSE, !.todo = todo]
                = [p EXCEPT !.pc = "reconcile", !.todo = todo, !.clean = FALSE]
          <5> HIDE DEF todo
          <5> QED BY <1>0 DEF Pass
        <4>4. Becomes(e, [p EXCEPT !.pc = "reconcile", !.todo = todo, !.clean = FALSE])
          BY <4>1, <4>3
        <4> HIDE DEF todo
        <4>5. QED BY <4>2, <4>4
      <3>3. QED BY <1>2, <3>1, <3>2
    <2> DEFINE q == [p EXCEPT !.pc = "reconcile", !.todo = todo, !.clean = clean]
    <2>2. q.pc = "reconcile" /\ q.todo = todo /\ q.ledge = p.ledge
      BY <1>0 DEF Pass
    <2>3. PassDated(q, clock, likedAt)
      <3> HIDE DEF q
      <3>1. \A l \in Likes : todo[l] > 0 => Dated(todo[l], l, clock, likedAt)
        BY <1>0, <2>1 DEF Dated
      <3>2. QED BY <1>0, <2>2, <3>1 DEF PassDated
    <2>4. UNCHANGED <<ledger, queue>>
      BY <1>2 DEF Fetch, FetchDropped
    <2>5. QED BY <1>a, <2>1, <2>3, <2>4
  <1>3. CASE Reconcile(e)
    <2> DEFINE q == [p EXCEPT !.pc = "likes", !.known = InPlaylist]
    <2>1. q.todo = p.todo /\ q.ledge = p.ledge /\ q.pc = "likes"
      BY <1>0 DEF Pass
    <2>2. QED BY <1>3, <1>b, <2>1 DEF Reconcile
  <1>4. CASE SkipMix(e)
    <2>1. PICK l \in Mixes : IsNext(p, l) /\ Record(e, l, {})
      BY <1>4 DEF SkipMix
    <2>2. l \in Likes /\ p.todo[l] > 0
      BY <2>1, ConstantsOK DEF IsNext
    <2>3. QED BY <1>0, <1>4, <2>1, <2>2, RecordDates DEF SkipMix
  <1>5. CASE CheckLedger(e)
    <2>1. PICK l \in Likes :
            /\ IsNext(p, l)
            /\ Becomes(e, IF ledger[l] # None THEN Advanced(p, l)
                          ELSE [p EXCEPT !.pc = "search", !.cur = l])
      BY <1>5 DEF CheckLedger
    <2>2. PassDated(Advanced(p, l), clock, likedAt)
      BY <1>0, PassedDated
    <2>3. PassDated([p EXCEPT !.pc = "search", !.cur = l], clock, likedAt)
      BY <1>0, <2>1 DEF PassDated, RowsDated, Pass, IsNext
    <2>4. QED BY <1>5, <1>a, <2>1, <2>2, <2>3 DEF CheckLedger
  <1>6. CASE Search(e)
    <2>1. p.cur \in Likes /\ p.pc = "search" /\ p.todo[p.cur] > 0
      BY <1>0, <1>6 DEF Search, TypeInv, Control, PassDated
    <2>2. PICK r \in Finds[p.cur] :
            \/ /\ IsAuto(r) /\ UNCHANGED queue
               /\ Becomes(e, IF e \in DryEngines THEN DryMatch(p, r) ELSE Match(p, r))
            \/ ~ IsAuto(r) /\ Record(e, p.cur, r.cands)
      BY <1>6 DEF Search
    <2>3. r \in Result /\ r.cands \in SUBSET Tracks /\ ledger' = ledger
      BY <1>6, <2>1, ConstantsOK DEF Result, Search
    <2>4. CASE IsAuto(r)
      <3>1. r.best \in Tracks
        BY <2>1, <2>4, FindsOK DEF IsAuto
      <3>2. PassDated(Match(p, r), clock, likedAt) /\ PassDated(Passed(p, p.cur), clock, likedAt)
        BY <1>0, <2>1, <2>3, <3>1, MatchDated, PassedDated
      <3>3. QED BY <1>a, <2>2, <2>3, <2>4, <3>2 DEF DryMatch
    <2>5. CASE ~ IsAuto(r)
      BY <1>0, <2>1, <2>2, <2>3, <2>5, RecordDates
    <2>6. QED BY <2>4, <2>5
  <1>7. CASE SearchFails(e)
    <2>1. p.cur \in Likes
      BY <1>7 DEF SearchFails, TypeInv, Control
    <2>2. PassDated(Failed(p, p.cur), clock, likedAt)
      BY <1>0, <2>1, PassedDated
    <2>3. QED BY <1>7, <1>a, <2>2 DEF SearchFails
  <1>8. CASE EndDryRun(e) \/ PostUnanswered(e) \/ Abort(e)
    BY <1>8, <1>a, IdleDated DEF EndDryRun, PostUnanswered, Abort
  <1>9. CASE Reread(e)
    <2> DEFINE q == [p EXCEPT !.pc = IF \E t \in Tracks : Fresh(p)[t] > 0
                                       THEN "post" ELSE "commit",
                              !.pend = Fresh(p)]
    <2>1. q.todo = p.todo /\ q.ledge = p.ledge /\ q.pc \in {"post", "commit"}
      BY <1>0 DEF Pass
    <2>2. QED BY <1>9, <1>b, <2>1 DEF Reread
  <1>10. CASE Post(e)
    <2>1. PICK b \in Batches(p) :
            Becomes(e, [p EXCEPT !.pend = Without(p, b),
                                 !.pc = IF Without(p, b) = NoTracks
                                          THEN "commit" ELSE "post"])
      BY <1>10 DEF Post
    <2> DEFINE q == [p EXCEPT !.pend = Without(p, b),
                              !.pc = IF Without(p, b) = NoTracks
                                       THEN "commit" ELSE "post"]
    <2>2. q.todo = p.todo /\ q.ledge = p.ledge /\ q.pc \in {"post", "commit"}
      BY <1>0 DEF Pass
    <2>3. QED BY <1>10, <1>b, <2>1, <2>2 DEF Post
  <1>11. CASE Commit(e)
    <2>1. ledger' = RecordSynced(ledger, p.ledge) /\ queue' = queue /\ pass'[e] = Idle
      BY <1>11, BecomesOthers DEF Commit
    <2>2. RowsDated(ledger', clock, likedAt)
      BY <1>0, <2>1 DEF RowsDated, RecordSynced, PassDated
    <2>3. QED BY <1>0, <2>1, <2>2, IdleDated
  <1>12. QED
    BY <1>1, <1>2, <1>3, <1>4, <1>5, <1>6, <1>7, <1>8, <1>9, <1>10, <1>11
       DEF PassStep, PassFault

LEMMA OperatorDates ==
  ASSUME TypeInv, LikeInv, DateInv, OperatorNext
  PROVE  /\ RowsDated(ledger', clock, likedAt) /\ RowsDated(queue', clock, likedAt)
         /\ appr'.pc # "idle" => Dated(appr'.at, appr'.like, clock, likedAt)
  <1> DEFINE ApprGoal == appr'.pc # "idle" => Dated(appr'.at, appr'.like, clock, likedAt)
  <1> USE DEF dbVars, difmVars, spotVars
  <1>0. /\ ledger \in Table(LedgerRow) /\ queue \in Table(QueueRow) /\ appr \in Appr
        /\ RowsDated(ledger, clock, likedAt) /\ RowsDated(queue, clock, likedAt)
        /\ appr.pc # "idle" => Dated(appr.at, appr.like, clock, likedAt)
    BY DEF TypeInv, TypeOK, DateInv, ApprDated
  <1>1. CASE UNCHANGED <<ledger, queue, appr>>
    BY <1>0, <1>1
  <1>2. CASE Drop \/ ForgetAllTracks
    <2>1. \A l \in Likes : ledger'[l] # None => ledger'[l] = ledger[l]
      BY <1>0, <1>2 DEF Drop, ForgetTrack, Table, ForgetAllTracks, NoRows
    <2>2. RowsDated(ledger', clock, likedAt)
      BY <1>0, <2>1 DEF RowsDated
    <2>3. UNCHANGED <<queue, appr>>
      BY <1>2 DEF Drop, ForgetAllTracks
    <2>4. QED BY <1>0, <2>2, <2>3
  <1>3. CASE StartApprove
    <2>1. PICK l \in Keys(queue) : \E t \in queue[l].cands :
             appr' = [pc |-> "read", like |-> l, track |-> t, at |-> queue[l].at]
      BY <1>3 DEF StartApprove
    <2>2. Dated(appr'.at, appr'.like, clock, likedAt)
      BY <1>0, <2>1 DEF RowsDated, Keys
    <2>3. QED BY <1>0, <1>3, <2>2 DEF StartApprove
  <1>4. CASE ApproveReads \/ ApprovePosts
    <2>1. appr.pc # "idle" /\ appr'.like = appr.like /\ appr'.at = appr.at
      BY <1>0, <1>4 DEF ApproveReads, ApprovePosts, Appr
    <2>2. UNCHANGED <<ledger, queue>>
      BY <1>4 DEF ApproveReads, ApprovePosts
    <2>3. QED BY <1>0, <2>1, <2>2
  <1>5. CASE ApproveUnanswered \/ ApproveDies
    <2>1. appr'.pc = "idle" /\ UNCHANGED <<ledger, queue>>
      BY <1>5 DEF ApproveUnanswered, ApproveDies, ApprIdle
    <2>2. QED BY <1>0, <2>1
  <1>6. CASE ApproveRecords
    <2> DEFINE row == [track |-> appr.track, at |-> appr.at]
               rows == [NoRows EXCEPT ![appr.like] = row]
    <2>1. /\ appr.pc # "idle" /\ appr'.like = appr.like /\ appr'.at = appr.at
          /\ appr.like \in Likes /\ queue' = queue /\ ledger' = RecordSynced(ledger, rows)
      BY <1>0, <1>6 DEF ApproveRecords, Appr, TypeInv, Control
    <2>2. Dated(row.at, appr.like, clock, likedAt)
      BY <1>0, <2>1
    <2>3. \A l \in Likes : rows[l] # None => l = appr.like /\ rows[l] = row
      <3> HIDE DEF row
      <3> QED BY <2>1 DEF NoRows
    <2>4. RowsDated(ledger', clock, likedAt)
      <3> HIDE DEF row, rows
      <3> QED BY <1>0, <2>1, <2>2, <2>3 DEF RowsDated, RecordSynced
    <2>5. QED BY <1>0, <2>1, <2>4
  <1>7. CASE ApproveResolves \/ Reject
    <2>1. Resolved /\ ledger' = ledger
      BY <1>7 DEF ApproveResolves, Reject, Resolved, Keys, TypeInv, Control
    <2>2. appr' = appr \/ appr'.pc = "idle"
      BY <1>7 DEF ApproveResolves, Reject, ApprIdle
    <2>3. PICK l \in Likes, status \in {"approved", "rejected"} :
            queue[l] # None /\ queue' = ResolveReview(queue, l, status)
      BY <2>1 DEF Resolved
    <2>4. queue'[l].at = queue[l].at /\ \A m \in Likes : m # l => queue'[m] = queue[m]
      BY <1>0, <2>3 DEF ResolveReview, Table, QueueRow
    <2>5. RowsDated(queue', clock, likedAt)
      BY <1>0, <2>3, <2>4 DEF RowsDated
    <2>6. QED BY <1>0, <2>1, <2>2, <2>5
  <1>8. QED
    BY <1>1, <1>2, <1>3, <1>4, <1>5, <1>6, <1>7
       DEF OperatorNext, Resync, ResyncStep, Review, Member, StartResync, LookUp,
           Rewind, ClearWatermark, ResyncDies, Like, Unlike, DeleteByHand, AddByHand

LEMMA DateInit == Init => DateInv
  BY IdleDated DEF Init, DateInv, RowsDated, NoRows, ApprDated, ApprIdle

LEMMA DateStep == TypeInv /\ TypeInv' /\ LikeInv /\ DateInv /\ [Next]_vars => DateInv'
  <1> SUFFICES ASSUME TypeInv, TypeInv', LikeInv, DateInv, [Next]_vars PROVE DateInv'
    OBVIOUS
  <1>0. /\ clock \in Nat /\ clock' \in Nat
        /\ likedAt \in [Likes -> Nat] /\ likedAt' \in [Likes -> Nat]
        /\ Later(clock, likedAt, clock', likedAt')
        /\ \A l \in Likes : ledger'[l] # None => ledger'[l].at \in Nat
        /\ \A l \in Likes : queue'[l] # None => queue'[l].at \in Nat
        /\ \A e \in Engines : pass'[e] \in Pass
    BY VotesLater DEF TypeInv, TypeOK, Table, LedgerRow, QueueRow
  <1>a. appr'.at \in Nat /\ (appr'.pc # "idle" => appr'.like \in Likes)
    BY DEF TypeInv, TypeOK, Control, Appr
  \* It is enough to go by the votes as they were.
  <1>1. SUFFICES /\ RowsDated(ledger', clock, likedAt) /\ RowsDated(queue', clock, likedAt)
                 /\ \A e \in Engines : PassDated(pass'[e], clock, likedAt)
                 /\ appr'.pc # "idle" => Dated(appr'.at, appr'.like, clock, likedAt)
    <2>1. RowsDated(ledger', clock', likedAt') /\ RowsDated(queue', clock', likedAt')
      BY <1>0, <1>1, RowsLater
    <2>2. \A e \in Engines : PassDated(pass'[e], clock', likedAt')
      BY <1>0, <1>1, PassLater
    <2>3. appr'.pc # "idle" => Dated(appr'.at, appr'.like, clock', likedAt')
      BY <1>0, <1>a, <1>1, DatedLater
    <2>4. QED BY <2>1, <2>2, <2>3 DEF DateInv, ApprDated
  <1>2. CASE EngineNext /\ UNCHANGED <<cmd, appr>>
    <2>1. PICK e \in Engines : PassStep(e) \/ PassFault(e)
      BY <1>2 DEF EngineNext
    <2>2. \A f \in Engines : f # e => pass'[f] = pass[f]
      BY <2>1, EngineOthers
    <2>3. QED BY <1>2, <2>1, <2>2, EngineDates DEF DateInv, ApprDated
  <1>3. CASE OperatorNext /\ UNCHANGED pass
    BY <1>3, OperatorDates DEF DateInv
  <1>4. CASE UNCHANGED vars
    BY <1>4 DEF vars, DateInv, ApprDated
  <1>5. QED BY <1>2, <1>3, <1>4 DEF Next

-----------------------------------------------------------------------------
(* Resync, when it runs alone and to its end.  The watermark is now to be  *)
(* safe for the likes that were forgotten, too; while the command runs it  *)
(* need not be, but it lies above no such like that the time the command   *)
(* has collected is not at or below.                                       *)
Quiet == OneAtATime /\ ~ SameSecond /\ Budget["kill"] = 0

Unsettled == [l \in Likes |-> IF l \in Settled THEN 0 ELSE likedAt[l]]

ToRewind(c, wm, due) ==
  /\ c.wm = wm /\ c.pc \in {"look", "drop", "rewind"}
  /\ \A l \in Likes : due[l] = 0 \/ due[l] > wm \/ (0 < c.earliest /\ c.earliest <= due[l])

RereadInv ==
  /\ shared = {} /\ left["kill"] = 0
  /\ forgotten \cap Keys(ledger) = {}
  /\ cmd.pc = "idle" =>
       /\ MarkSafe(watermark, Unsettled, clock)
       /\ \A e \in Engines \ DryEngines : PassSafe(pass[e], Unsettled, clock)
  /\ cmd.pc # "idle" =>
       /\ appr.pc = "idle" /\ \A e \in Engines : pass[e].pc = "idle"
       /\ cmd.clear \/ ToRewind(cmd, watermark, Unsettled)
  /\ cmd.pc = "drop" /\ ledger[cmd.cur] # None =>
       0 < cmd.earliest /\ cmd.earliest <= ledger[cmd.cur].at
  /\ cmd.pc = "rewind" => ~ cmd.clear

LEMMA UnsettledType == ASSUME TypeInv PROVE Unsettled \in [Likes -> Nat]
  BY DEF Unsettled, TypeInv, TypeOK

LEMMA UnsettledTypeNext == ASSUME TypeInv' PROVE Unsettled' \in [Likes -> Nat]
  BY DEF Unsettled, TypeInv, TypeOK

\* A step that drops nothing, be it a vote, leaves no like unsettled in the past.
LEMMA UnsettledKept ==
  ASSUME TypeInv, TypeInv', shared' = {}, Settled \subseteq Settled',
         \/ UNCHANGED difmVars
         \/ \E l \in Likes : Like(l) \/ Unlike(l)
  PROVE  Kept(Unsettled, clock, Unsettled', clock')
  <1>0. /\ clock \in Nat /\ clock' \in Nat /\ likedAt \in [Likes -> Nat]
        /\ Unsettled' \in [Likes -> Nat]
    BY UnsettledTypeNext DEF TypeInv, TypeOK
  <1>1. CASE UNCHANGED difmVars
    BY <1>0, <1>1 DEF difmVars, Unsettled, Kept
  <1>2. CASE \E l \in Likes : Like(l)
    <2>1. PICK l \in Likes : Like(l)
      BY <1>2
    <2>2. shared' = {}
      OBVIOUS
    <2>3. clock' = clock + 1 /\ likedAt' = [likedAt EXCEPT ![l] = clock']
      BY <2>1, <2>2 DEF Like
    <2>4. \A k \in Likes : k # l => Unsettled'[k] \in {0, Unsettled[k]}
      BY <1>0, <2>3 DEF Unsettled
    <2>5. Unsettled'[l] \in {0, clock + 1}
      BY <1>0, <2>3 DEF Unsettled
    <2>6. QED BY <1>0, <2>3, <2>4, <2>5 DEF Kept
  <1>3. CASE \E l \in Likes : Unlike(l)
    <2>1. clock' = clock /\ \A k \in Likes : likedAt'[k] \in {0, likedAt[k]}
      BY <1>0, <1>3 DEF Unlike
    <2>2. \A k \in Likes : Unsettled'[k] \in {0, Unsettled[k]}
      BY <2>1 DEF Unsettled
    <2>3. QED BY <1>0, <2>1, <2>2 DEF Kept
  <1>4. QED BY <1>1, <1>2, <1>3

\* No two votes share a second, and nothing is killed.
LEMMA QuietStep ==
  ASSUME Quiet, TypeInv, shared = {}, left["kill"] = 0, [Next]_vars
  PROVE  shared' = {} /\ left'["kill"] = 0 /\ ~ ResyncDies
  <1> USE DEF dbVars, difmVars, spotVars
  <1>0. left \in [Events -> Nat] /\ "kill" \in Events
    BY DEF TypeInv, TypeOK, Events
  <1>1. ~ ResyncDies
    BY <1>0 DEF ResyncDies, Spend
  <1>2. shared' = {}
    BY VotesCast DEF Like, Unlike, Quiet
  <1>3. left' = left \/ \E k \in Events \ {"kill"} : Spend(k)
    <2>1. CASE EngineNext
      BY <2>1 DEF EngineNext, PassStep, PassFault, Begin, Fetch, Reconcile, SkipMix,
           CheckLedger, EndDryRun, Reread, Post, Commit, FetchDropped, SearchFails,
           PostUnanswered, Abort, Search, Record, Events
    <2>2. CASE OperatorNext
      BY <1>1, <2>2
         DEF OperatorNext, Resync, ResyncStep, Review, Member, StartResync, LookUp,
             Drop, Rewind, ForgetAllTracks, ClearWatermark, StartApprove,
             ApproveReads, ApprovePosts, ApproveUnanswered, ApproveRecords,
             ApproveResolves, ApproveDies, Reject, Like, Unlike, DeleteByHand,
             AddByHand, Events
    <2>3. QED BY <2>1, <2>2 DEF Next, vars
  <1>4. left'["kill"] = 0
    BY <1>0, <1>3 DEF Spend
  <1>5. QED BY <1>1, <1>2, <1>4

\* While resync runs no engine takes a step, nor does the approval.
LEMMA NoPassBeside ==
  ASSUME Quiet, cmd.pc # "idle", NEW e \in Engines, pass[e].pc = "idle"
  PROVE  ~ PassStep(e) /\ ~ PassFault(e)
  BY DEF Quiet, PassStep, PassFault, Begin, Fetch, Reconcile, SkipMix, CheckLedger,
         EndDryRun, Reread, Post, Commit, FetchDropped, SearchFails, PostUnanswered,
         Abort, Search

LEMMA EngineRereads ==
  ASSUME Quiet, TypeInv, TypeInv', LikeInv, RereadInv,
         EngineNext, UNCHANGED <<cmd, appr>>, shared' = {}, left'["kill"] = 0
  PROVE  RereadInv'
  <1>1. PICK e \in Engines : PassStep(e) \/ PassFault(e)
    BY DEF EngineNext
  <1>2. cmd.pc = "idle"
    BY <1>1, NoPassBeside DEF RereadInv
  <1>3. /\ \A f \in Engines : f # e => pass'[f] = pass[f]
        /\ Settled \subseteq Settled' /\ UNCHANGED difmVars
    BY <1>1, EngineOthers, EngineSettles
  <1>4. /\ Unsettled \in [Likes -> Nat] /\ Unsettled' \in [Likes -> Nat]
        /\ clock \in Nat /\ clock' \in Nat /\ \A f \in Engines : pass[f] \in Pass
    BY UnsettledType, UnsettledTypeNext DEF TypeInv, TypeOK
  <1>5. Kept(Unsettled, clock, Unsettled', clock')
    BY <1>3, UnsettledKept
  <1>6. EngineKeeps(e, Unsettled')
    <2>1. Reckons(Unsettled) /\ \A l \in Settled' : Unsettled'[l] = 0
      BY <1>4 DEF Reckons, Unsettled, Settled, Keys
    <2>2. /\ \A l \in Likes : likedAt[l] <= clock
          /\ Shape(pass[e]) /\ MarkSafe(watermark, Unsettled, clock)
          /\ e \notin DryEngines => PassSafe(pass[e], Unsettled, clock)
      BY <1>2 DEF LikeInv, RereadInv
    <2>3. QED BY <1>1, <1>4, <1>5, <2>1, <2>2, EngineSafeStep
  <1>7. \A f \in Engines \ DryEngines : PassSafe(pass'[f], Unsettled', clock')
    <2>1. \A f \in Engines \ DryEngines : PassSafe(pass[f], Unsettled', clock')
      BY <1>2, <1>4, <1>5, PassKept DEF RereadInv
    <2>2. QED BY <1>3, <1>6, <2>1 DEF EngineKeeps
  <1>8. forgotten' \cap Keys(ledger') = {}
    BY <1>1, EngineTables DEF RereadInv
  <1>9. QED BY <1>2, <1>6, <1>7, <1>8 DEF RereadInv, EngineKeeps

LEMMA ToRewindKept ==
  ASSUME NEW c, NEW wm \in Nat, NEW due \in [Likes -> Nat], NEW due2 \in [Likes -> Nat],
         NEW now \in Nat, NEW now2, Kept(due, now, due2, now2), wm <= now,
         ToRewind(c, wm, due)
  PROVE  ToRewind(c, wm, due2)
  BY DEF ToRewind, Kept

\* The steps of a command: what it knows beside what it does.
LEMMA ResyncRereads ==
  ASSUME Quiet, TypeInv, TypeInv', LikeInv, DateInv, RereadInv,
         StartResync \/ ResyncStep, UNCHANGED pass, shared' = {}, left'["kill"] = 0
  PROVE  RereadInv'
  <1> USE DEF dbVars, difmVars, spotVars
  <1>0. /\ cmd \in Cmd /\ ledger \in Table(LedgerRow) /\ watermark \in Nat /\ clock \in Nat
        /\ likedAt \in [Likes -> Nat] /\ Unsettled \in [Likes -> Nat]
        /\ watermark <= clock /\ RowsDated(ledger, clock, likedAt)
        /\ forgotten \cap Keys(ledger) = {} /\ CmdIdle.pc = "idle"
    BY UnsettledType DEF TypeInv, TypeOK, LikeInv, MarkSafe, DateInv, RereadInv, CmdIdle
  <1>1. UNCHANGED <<queue, likedAt, clock, appr>>
    BY DEF StartResync, ResyncStep, LookUp, Drop, Rewind, ForgetAllTracks, ClearWatermark
  \* Where the command ends: all engines are idle, and the mark must be safe.
  <1>a. ASSUME cmd' = CmdIdle, cmd.pc # "idle", forgotten' \cap Keys(ledger') = {},
               MarkSafe(watermark', Unsettled', clock)
        PROVE  RereadInv'
    <2>1. \A e \in Engines : pass[e] = Idle
      BY <1>a DEF RereadInv, DateInv, PassDated
    <2>2. \A e \in Engines \ DryEngines : PassSafe(pass'[e], Unsettled', clock')
      BY <1>0, <1>1, <2>1, IdleSafe, UnsettledTypeNext
    <2>3. QED BY <1>0, <1>1, <1>a, <2>2 DEF RereadInv
  \* Where it goes on.
  <1>b. ASSUME cmd.pc # "idle", cmd'.pc # "idle", forgotten' \cap Keys(ledger') = {},
               cmd'.clear \/ ToRewind(cmd', watermark', Unsettled'),
               cmd'.pc = "drop" /\ ledger'[cmd'.cur] # None =>
                 0 < cmd'.earliest /\ cmd'.earliest <= ledger'[cmd'.cur].at,
               cmd'.pc = "rewind" => ~ cmd'.clear
        PROVE  RereadInv'
    BY <1>1, <1>b DEF RereadInv
  <1>2. CASE StartResync
    <2>1. /\ cmd.pc = "idle" /\ appr.pc = "idle" /\ \A e \in Engines : pass[e].pc = "idle"
          /\ UNCHANGED <<watermark, ledger, forgotten>>
      BY <1>2 DEF StartResync, Quiet
    <2>2. \/ cmd'.pc \in {"dropall", "clear"} /\ cmd'.clear
          \/ cmd'.pc = "look" /\ cmd'.wm = watermark
      BY <1>2 DEF StartResync, CmdIdle
    <2>3. Unsettled' = Unsettled
      BY <1>1, <2>1 DEF Unsettled, Settled, Keys
    <2>4. MarkSafe(watermark, Unsettled, clock)
      BY <2>1 DEF RereadInv
    <2>5. cmd'.clear \/ ToRewind(cmd', watermark, Unsettled)
      BY <2>2, <2>4 DEF ToRewind, MarkSafe
    <2>6. QED BY <1>0, <1>1, <2>1, <2>2, <2>3, <2>5 DEF RereadInv
  <1>3. CASE LookUp
    <2>1. PICK l \in cmd.todo :
            cmd' = [cmd EXCEPT
              !.pc = "drop", !.cur = l, !.todo = @ \ {l},
              !.earliest = IF ledger[l] # None /\ (@ = 0 \/ ledger[l].at < @)
                             THEN ledger[l].at ELSE @]
      BY <1>3 DEF LookUp
    <2>2. l \in Likes /\ cmd.pc = "look" /\ UNCHANGED <<watermark, ledger, forgotten>>
      BY <1>0, <1>3 DEF LookUp, Cmd
    <2>3. ledger[l] # None => ledger[l].at \in Nat /\ 0 < ledger[l].at
      BY <1>0, <2>2 DEF Table, LedgerRow, RowsDated, Dated
    <2>4. /\ cmd'.pc = "drop" /\ cmd'.cur = l /\ cmd'.clear = cmd.clear /\ cmd'.wm = cmd.wm
          /\ cmd'.earliest = IF ledger[l] # None /\ (cmd.earliest = 0 \/ ledger[l].at < cmd.earliest)
                               THEN ledger[l].at ELSE cmd.earliest
          /\ cmd.earliest \in Nat
      BY <1>0, <2>1 DEF Cmd
    <2>5. /\ ledger[l] # None => 0 < cmd'.earliest /\ cmd'.earliest <= ledger[l].at
          /\ 0 < cmd.earliest => 0 < cmd'.earliest /\ cmd'.earliest <= cmd.earliest
          /\ cmd'.earliest \in Nat
      BY <2>3, <2>4
    <2>6. Unsettled' = Unsettled
      BY <1>1, <2>2 DEF Unsettled, Settled, Keys
    <2>7. cmd.clear \/ ToRewind(cmd, watermark, Unsettled)
      BY <2>2 DEF RereadInv
    <2>8. cmd'.clear \/ ToRewind(cmd', watermark, Unsettled)
      BY <1>0, <2>4, <2>5, <2>7 DEF ToRewind
    <2>9. QED BY <1>0, <1>b, <2>2, <2>4, <2>5, <2>6, <2>8
  <1>4. CASE Drop
    <2> DEFINE l == cmd.cur
    <2>1. /\ cmd.pc = "drop" /\ l \in Likes /\ ledger' = [ledger EXCEPT ![l] = None]
          /\ forgotten' = forgotten \cup ({l} \cap Keys(ledger))
          /\ cmd' = Onward(cmd) /\ watermark' = watermark
      BY <1>4 DEF Drop, ForgetTrack, TypeInv, Control
    <2>2. forgotten' \cap Keys(ledger') = {}
      BY <1>0, <2>1 DEF Keys, Table
    <2>3. \A k \in Likes : \/ Unsettled'[k] = Unsettled[k]
                           \/ k = l /\ ledger[l] # None /\ Unsettled'[k] = likedAt[l]
      BY <1>0, <1>1, <2>1 DEF Unsettled, Settled, Keys, Table
    <2>4. ledger[l] # None =>
            /\ 0 < cmd.earliest /\ cmd.earliest <= ledger[l].at
            /\ likedAt[l] = 0 \/ ledger[l].at <= likedAt[l]
            /\ ledger[l].at \in Nat
      BY <1>0, <2>1 DEF RereadInv, RowsDated, Dated, Table, LedgerRow
    <2>5. cmd.clear \/ ToRewind(cmd, watermark, Unsettled)
      BY <2>1 DEF RereadInv
    <2>6. \A k \in Likes : likedAt[k] \in Nat /\ Unsettled[k] \in Nat
      BY <1>0
    <2>7. ~ cmd.clear =>
            \A k \in Likes : \/ Unsettled'[k] = 0 \/ Unsettled'[k] > watermark
                             \/ 0 < cmd.earliest /\ cmd.earliest <= Unsettled'[k]
      <3> SUFFICES ASSUME ~ cmd.clear, NEW k \in Likes
                   PROVE  \/ Unsettled'[k] = 0 \/ Unsettled'[k] > watermark
                          \/ 0 < cmd.earliest /\ cmd.earliest <= Unsettled'[k]
        OBVIOUS
      <3>1. CASE Unsettled'[k] = Unsettled[k]
        BY <2>5, <3>1 DEF ToRewind
      <3>2. CASE ledger[l] # None /\ Unsettled'[k] = likedAt[l]
        <4>1. likedAt[l] \in Nat /\ cmd.earliest \in Nat
          BY <1>0, <2>1 DEF Cmd
        <4>2. QED BY <2>4, <3>2, <4>1
      <3>3. QED BY <2>3, <3>1, <3>2
    <2>8. \/ AfterForget(cmd) = "idle" /\ cmd' = CmdIdle
          \/ AfterForget(cmd) # "idle" /\ cmd'.pc = AfterForget(cmd)
             /\ cmd'.clear = cmd.clear /\ cmd'.wm = cmd.wm /\ cmd'.earliest = cmd.earliest
      BY <1>0, <2>1 DEF Onward, Cmd
    <2>9. CASE AfterForget(cmd) = "idle"
      <3>1. /\ ~ cmd.clear /\ ToRewind(cmd, watermark, Unsettled) /\ cmd.earliest \in Nat
            /\ cmd.earliest = 0 \/ cmd.wm < cmd.earliest
        BY <1>0, <2>5, <2>9 DEF AfterForget, Cmd
      <3>2. Unsettled' \in [Likes -> Nat]
        BY UnsettledTypeNext
      <3>3. MarkSafe(watermark', Unsettled', clock)
        BY <1>0, <2>1, <2>7, <3>1, <3>2 DEF MarkSafe, ToRewind
      <3>4. QED BY <1>a, <2>1, <2>2, <2>8, <2>9, <3>3
    <2>10. CASE AfterForget(cmd) # "idle"
      <3>1. /\ cmd'.pc = AfterForget(cmd) /\ AfterForget(cmd) \in {"look", "clear", "rewind"}
            /\ AfterForget(cmd) = "clear" => cmd.clear
            /\ AfterForget(cmd) = "rewind" => ~ cmd.clear
            /\ cmd'.clear = cmd.clear /\ cmd'.wm = cmd.wm /\ cmd'.earliest = cmd.earliest
        BY <2>8, <2>10 DEF AfterForget
      <3>2. ~ cmd.clear => cmd.wm = watermark
        BY <2>5 DEF ToRewind
      <3>3. cmd'.clear \/ ToRewind(cmd', watermark', Unsettled')
        BY <2>1, <2>7, <3>1, <3>2 DEF ToRewind
      <3>4. QED BY <1>b, <2>1, <2>2, <3>1, <3>3
    <2>11. QED BY <2>9, <2>10
  <1>5. CASE Rewind
    <2>1. /\ cmd.pc = "rewind" /\ watermark' = cmd.earliest - 1 /\ cmd' = CmdIdle
          /\ UNCHANGED <<ledger, forgotten>>
          /\ cmd.earliest \in Nat /\ cmd.earliest > 0 /\ cmd.earliest <= cmd.wm
          /\ cmd.wm \in Nat
      BY <1>0, <1>5 DEF Rewind, Cmd, TypeInv, Control, LikeInv
    <2>2. ToRewind(cmd, watermark, Unsettled)
      BY <2>1 DEF RereadInv
    <2>3. Unsettled' = Unsettled
      BY <1>1, <2>1 DEF Unsettled, Settled, Keys
    <2>4. MarkSafe(watermark', Unsettled, clock)
      BY <1>0, <2>1, <2>2 DEF MarkSafe, ToRewind
    <2>5. QED BY <1>0, <1>a, <2>1, <2>3, <2>4
  <1>6. CASE ForgetAllTracks
    <2>1. /\ cmd.pc = "dropall" /\ cmd'.pc = "clear" /\ cmd'.clear = cmd.clear
          /\ ledger' = NoRows
      BY <1>0, <1>6 DEF ForgetAllTracks, Cmd
    <2>2. cmd.clear
      BY <2>1 DEF RereadInv, ToRewind
    <2>3. forgotten' \cap Keys(ledger') = {}
      BY <2>1 DEF Keys, NoRows
    <2>4. QED BY <1>b, <2>1, <2>2, <2>3
  <1>7. CASE ClearWatermark
    <2>1. /\ cmd.pc # "idle" /\ cmd' = CmdIdle /\ watermark' = 0
          /\ UNCHANGED <<ledger, forgotten>>
      BY <1>7 DEF ClearWatermark
    <2>2. Unsettled' = Unsettled
      BY <1>1, <2>1 DEF Unsettled, Settled, Keys
    <2>3. MarkSafe(0, Unsettled, clock)
      BY <1>0 DEF MarkSafe
    <2>4. QED BY <1>0, <1>a, <2>1, <2>2, <2>3
  <1>8. QED
    BY <1>2, <1>3, <1>4, <1>5, <1>6, <1>7 DEF ResyncStep

\* The reviews and the member: what they settle stays settled.
LEMMA BesideRereads ==
  ASSUME Quiet, TypeInv, TypeInv', LikeInv, RereadInv,
         Review \/ Member, UNCHANGED pass, shared' = {}, left'["kill"] = 0
  PROVE  RereadInv'
  <1> USE DEF dbVars, difmVars, spotVars
  <1>0. /\ queue \in Table(QueueRow) /\ Unsettled \in [Likes -> Nat] /\ Unsettled' \in [Likes -> Nat]
        /\ watermark \in Nat /\ watermark <= clock /\ clock \in Nat /\ clock' \in Nat
        /\ \A e \in Engines : pass[e] \in Pass
    BY UnsettledType, UnsettledTypeNext DEF TypeInv, TypeOK, LikeInv, MarkSafe
  <1>1. UNCHANGED <<watermark, cmd>>
    BY DEF Review, Member, StartApprove, ApproveReads, ApprovePosts, ApproveUnanswered,
           ApproveRecords, ApproveResolves, ApproveDies, Reject, Like, Unlike,
           DeleteByHand, AddByHand
  \* An approval under way means that no resync is.
  <1>2. cmd.pc # "idle" => ledger' = ledger /\ forgotten' = forgotten /\ appr' = appr
    BY DEF Review, Member, StartApprove, ApproveReads, ApprovePosts, ApproveUnanswered,
           ApproveRecords, ApproveResolves, ApproveDies, Reject, Like, Unlike,
           DeleteByHand, AddByHand, RereadInv, Quiet
  <1>3. Keys(queue) \subseteq Keys(queue')
    <2>1. CASE Resolved
      <3>1. PICK l \in Likes, status \in {"approved", "rejected"} :
              queue[l] # None /\ queue' = ResolveReview(queue, l, status)
        BY <2>1 DEF Resolved
      <3>2. queue'[l] # None /\ \A m \in Likes : m # l => queue'[m] = queue[m]
        BY <1>0, <3>1, ResolvedRow DEF Status
      <3>3. QED BY <3>2 DEF Keys
    <2>2. QED BY <2>1, OperatorQueue DEF OperatorNext
  <1>4. /\ Keys(ledger) \subseteq Keys(ledger')
        /\ forgotten' \cap Keys(ledger') = {}
    <2>1. CASE ApproveRecords
      <3>1. /\ ledger' = RecordSynced(ledger, [NoRows EXCEPT ![appr.like] =
                                           [track |-> appr.track, at |-> appr.at]])
            /\ forgotten' = forgotten \ {appr.like} /\ appr.like \in Likes
        BY <2>1 DEF ApproveRecords, TypeInv, Control
      <3>2. /\ Keys(ledger) \subseteq Keys(ledger')
            /\ Keys(ledger') \subseteq Keys(ledger) \cup {appr.like}
        BY <3>1 DEF Keys, RecordSynced, NoRows
      <3>3. QED BY <3>1, <3>2 DEF RereadInv
    <2>2. CASE UNCHANGED <<ledger, forgotten>>
      BY <2>2 DEF RereadInv
    <2>3. QED
      BY <2>1, <2>2 DEF Review, Member, StartApprove, ApproveReads, ApprovePosts,
           ApproveUnanswered, ApproveResolves, ApproveDies, Reject, Like, Unlike,
           DeleteByHand, AddByHand
  <1>5. UNCHANGED difmVars \/ \E l \in Likes : Like(l) \/ Unlike(l)
    BY VotesCast DEF Next, OperatorNext
  <1>6. Kept(Unsettled, clock, Unsettled', clock')
    BY <1>3, <1>4, <1>5, UnsettledKept DEF Settled
  <1>7. cmd.pc = "idle" =>
          /\ MarkSafe(watermark, Unsettled', clock')
          /\ \A e \in Engines \ DryEngines : PassSafe(pass[e], Unsettled', clock')
    BY <1>0, <1>6, MarkKept, PassKept DEF RereadInv
  <1>8. cmd.pc # "idle" => cmd.clear \/ ToRewind(cmd, watermark, Unsettled')
    BY <1>0, <1>6, ToRewindKept DEF RereadInv
  <1>9. QED
    BY <1>1, <1>2, <1>4, <1>7, <1>8 DEF RereadInv

LEMMA RereadInit == ASSUME Quiet PROVE Init => RereadInv
  <1> SUFFICES ASSUME Init PROVE RereadInv
    OBVIOUS
  <1>1. TypeInv
    BY TypeInit
  <1>2. /\ Unsettled \in [Likes -> Nat] /\ clock = 0 /\ watermark = 0
        /\ \A l \in Likes : likedAt[l] = 0
        /\ cmd.pc = "idle" /\ \A e \in Engines : pass[e] = Idle
    BY <1>1, UnsettledType DEF Init, CmdIdle, NoLikes
  <1>3. \A l \in Likes : Unsettled[l] = 0
    BY <1>2 DEF Unsettled
  <1>4. \A e \in Engines \ DryEngines : PassSafe(pass[e], Unsettled, clock)
    BY <1>2, IdleSafe
  <1>5. shared = {} /\ left["kill"] = 0 /\ forgotten = {}
    BY DEF Init, Quiet
  <1>6. QED
    BY <1>2, <1>3, <1>4, <1>5 DEF RereadInv, MarkSafe

LEMMA RereadStep ==
  ASSUME Quiet
  PROVE  TypeInv /\ TypeInv' /\ LikeInv /\ DateInv /\ RereadInv /\ [Next]_vars => RereadInv'
  <1> SUFFICES ASSUME TypeInv, TypeInv', LikeInv, DateInv, RereadInv, [Next]_vars
               PROVE  RereadInv'
    OBVIOUS
  <1>1. shared' = {} /\ left'["kill"] = 0 /\ ~ ResyncDies
    BY QuietStep DEF RereadInv
  <1>2. CASE EngineNext /\ UNCHANGED <<cmd, appr>>
    BY <1>1, <1>2, EngineRereads
  <1>3. CASE OperatorNext /\ UNCHANGED pass
    BY <1>1, <1>3, ResyncRereads, BesideRereads DEF OperatorNext, Resync
  <1>4. CASE UNCHANGED vars
    <2>1. Unsettled' = Unsettled
      BY <1>4 DEF vars, Unsettled, Settled, Keys
    <2>2. QED BY <1>4, <2>1 DEF vars, RereadInv, Keys
  <1>5. QED BY <1>2, <1>3, <1>4 DEF Next

\* Where a resync runs alone and to its end, and no two votes share a second:
\* whatever it was told to forget, in one go or in several, the likes that are
\* still liked lie after the watermark once it is over, and stay there until a
\* pass settles them again, however passes, faults, votes and reviews then
\* interleave (resync.go: "One second before the like is the smallest rewind
\* that lets the next pass see it again").
THEOREM ForgottenLikesAreReread ==
  ASSUME Quiet
  PROVE  Spec => []ForgottenIsReread
  <1>1. TypeInv /\ RereadInv => ForgottenIsReread
    <2> SUFFICES ASSUME TypeInv, RereadInv, cmd.pc = "idle", NEW l \in forgotten, likedAt[l] > 0
                 PROVE  likedAt[l] > watermark \/ l \in Keys(queue)
      BY DEF ForgottenIsReread
    <2>1. l \in Likes /\ l \notin Keys(ledger) /\ watermark \in Nat /\ likedAt[l] \in Nat
      BY DEF TypeInv, TypeOK, RereadInv
    <2>2. Unsettled[l] = 0 \/ Unsettled[l] > watermark
      BY <2>1 DEF RereadInv, MarkSafe
    <2>3. QED BY <2>1, <2>2 DEF Unsettled, Settled
  <1>2. Spec => []LikeInv
    BY TypeInvariant, LikeInit, LikeStep, PTL DEF Spec
  <1>3. Spec => []DateInv
    BY <1>2, TypeInvariant, DateInit, DateStep, PTL DEF Spec
  <1>4. Init => RereadInv
    BY RereadInit
  <1>5. TypeInv /\ TypeInv' /\ LikeInv /\ DateInv /\ RereadInv /\ [Next]_vars => RereadInv'
    BY RereadStep
  <1>6. Spec => []RereadInv
    BY <1>2, <1>3, <1>4, <1>5, TypeInvariant, PTL DEF Spec
  <1>7. QED BY <1>1, <1>6, TypeInvariant, PTL

-----------------------------------------------------------------------------
(* SyncSystem implements SyncPromise.  A step of the program touches the   *)
(* promise's variables in one of seven ways, or not at all; that what it   *)
(* leaves behind is covered, and that a new row's track was in the         *)
(* playlist, are the invariants NoLikeLost and LedgerAfterWrite.           *)

\* What the promise speaks of.
promised == <<likedAt, watermark, ledger, queue, everIn, forgotten, shared>>

\* What is known of the state a step leads to.
After == TypeInv' /\ NoLikeLost' /\ LedgerAfterWrite'

Keeps == [Promise!Next]_Promise!vars

-----------------------------------------------------------------------------
LEMMA CoveredNext == ASSUME After PROVE Promise!Covered'
  <1>1. \A l \in Likes : queue'[l] # None => Entry'[l] # "none"
    BY DEF Entry
  <1>2. \A l \in Likes : ledger'[l] # None => Row'[l] # None
    BY NoneIsNoRow, ConstantsOK DEF After, TypeInv, TypeOK, Row, Table, LedgerRow
  <1>3. QED
    BY <1>1, <1>2 DEF After, NoLikeLost, Promise!Covered, Settled, Keys, Excused

\* A step that touches nothing of it.
LEMMA Untouched == ASSUME UNCHANGED promised PROVE Keeps
  BY DEF promised, Keeps, Promise!vars, Row, Entry, Excused

LEMMA Gains ==
  ASSUME UNCHANGED <<likedAt, watermark, ledger, queue, forgotten, shared>>,
         everIn \subseteq everIn'
  PROVE  Keeps
  BY DEF Keeps, Promise!Next, Promise!Gain, Row, Entry, Excused

\* The ledger gains rows, or the mark moves.
LEMMA Settles ==
  ASSUME TypeInv, After, UNCHANGED <<likedAt, queue, everIn, shared>>,
         forgotten' \subseteq forgotten,
         \A l \in Likes : ledger[l] # None => ledger'[l] = ledger[l]
  PROVE  Keeps
  <1>1. ASSUME NEW l \in Likes, Row'[l] # Row[l]
        PROVE  Row[l] = None /\ Row'[l] \in everIn
    <2>1. ledger[l] = None /\ ledger'[l] # None
      BY <1>1 DEF Row
    <2>2. ledger'[l].track \in everIn'
      BY <2>1 DEF After, LedgerAfterWrite, Keys
    <2>3. QED BY <2>1, <2>2 DEF Row
  <1>2. Excused' \subseteq Excused /\ UNCHANGED <<likedAt, Entry, everIn>>
    BY DEF Excused, Entry
  <1>3. Promise!Settle
    BY <1>1, <1>2, CoveredNext DEF Promise!Settle
  <1>4. QED BY <1>3 DEF Keeps, Promise!Next

\* A row of the queue is written, and its status kept.
LEMMA Queues ==
  ASSUME TypeInv, NEW l \in Likes, NEW cands \in SUBSET Tracks, NEW at \in Nat,
         queue' = Enqueue(queue, l, cands, at),
         UNCHANGED <<likedAt, watermark, ledger, everIn, forgotten, shared>>
  PROVE  Keeps
  <1> DEFINE row == [status |-> StatusOf(queue, l), cands |-> cands, at |-> at]
  <1>1. /\ queue' = [queue EXCEPT ![l] = row] /\ row.status = StatusOf(queue, l)
        /\ queue \in [Likes -> QueueRow \cup {None}]
    BY DEF Enqueue, TypeInv, TypeOK, Table
  <1>2. row # None
    <2>1. StatusOf(queue, l) \in Status
      BY <1>1, NoneIsNoRow DEF StatusOf, Status, QueueRow
    <2>2. row \in QueueRow
      BY <2>1 DEF QueueRow
    <2>3. QED BY <2>2, NoneIsNoRow
  <1> HIDE DEF row
  <1>3. UNCHANGED <<likedAt, watermark, Row, everIn, Excused>>
    BY DEF Row, Excused
  <1>4. CASE queue[l] = None
    <2>1. Entry[l] = "none" /\ Entry' = [Entry EXCEPT ![l] = "pending"]
      BY <1>1, <1>2, <1>4 DEF Entry, StatusOf
    <2>2. QED BY <1>3, <2>1 DEF Keeps, Promise!Next, Promise!Queue
  <1>5. CASE queue[l] # None
    <2>1. Entry' = Entry
      BY <1>1, <1>2, <1>5 DEF Entry, StatusOf
    <2>2. QED BY <1>3, <2>1 DEF Keeps, Promise!vars
  <1>6. QED BY <1>4, <1>5

\* The operator decides.
LEMMA Decides ==
  ASSUME TypeInv, NEW l \in Likes, queue[l] # None,
         NEW status \in {"approved", "rejected"},
         queue' = ResolveReview(queue, l, status),
         UNCHANGED <<likedAt, watermark, ledger, everIn, forgotten, shared>>
  PROVE  Keeps
  <1>1. /\ queue \in [Likes -> QueueRow \cup {None}]
        /\ queue[l] \in QueueRow
    BY DEF TypeInv, TypeOK, Table
  <1>2. /\ queue' = [queue EXCEPT ![l] = [queue[l] EXCEPT !.status = status]]
        /\ [queue[l] EXCEPT !.status = status].status = status
        /\ [queue[l] EXCEPT !.status = status] \in QueueRow
    BY <1>1 DEF ResolveReview, QueueRow, Status
  <1>3. queue'[l] # None /\ queue'[l].status = status
    BY <1>1, <1>2, NoneIsNoRow
  <1>4. \A m \in Likes : m # l => queue'[m] = queue[m]
    BY <1>1, <1>2
  <1>5. Entry[l] # "none" /\ Entry' = [Entry EXCEPT ![l] = "decided"]
    BY <1>3, <1>4 DEF Entry
  <1>6. UNCHANGED <<likedAt, watermark, Row, everIn, Excused>>
    BY DEF Row, Excused
  <1>7. QED
    BY <1>5, <1>6 DEF Keeps, Promise!Next, Promise!Decide

\* resync drops rows, and remembers which.
LEMMA Forgets ==
  ASSUME TypeInv, UNCHANGED <<likedAt, watermark, queue, everIn, shared>>,
         forgotten \subseteq forgotten',
         \A l \in Likes : \/ ledger'[l] = ledger[l]
                          \/ ledger'[l] = None /\ l \in forgotten'
  PROVE  Keeps
  <1>1. \A l \in Likes : Row'[l] # Row[l] => Row'[l] = None /\ l \in Excused'
    BY DEF Row, Excused
  <1>2. Excused \subseteq Excused' /\ UNCHANGED <<likedAt, watermark, Entry, everIn>>
    BY DEF Excused, Entry
  <1>3. QED
    BY <1>1, <1>2 DEF Keeps, Promise!Next, Promise!Forget

-----------------------------------------------------------------------------
LEMMA RecordKeeps ==
  ASSUME TypeInv, NEW e \in Engines, NEW l \in Likes, NEW cands \in SUBSET Tracks,
         Record(e, l, cands),
         UNCHANGED <<likedAt, watermark, ledger, everIn, forgotten, shared>>
  PROVE  Keeps
  <1>1. pass[e].todo[l] \in Nat
    BY DEF TypeInv, TypeOK, Pass
  <1>2. CASE queue' = queue
    BY <1>2, Untouched DEF promised
  <1>3. CASE queue' = Enqueue(queue, l, cands, pass[e].todo[l])
    BY <1>1, <1>3, Queues
  <1>4. QED
    BY <1>2, <1>3 DEF Record

LEMMA EngineKeepsIt ==
  ASSUME TypeInv, After, NEW e \in Engines, PassStep(e) \/ PassFault(e)
  PROVE  Keeps
  <1> USE DEF dbVars, difmVars, spotVars
  <1>1. CASE \/ Begin(e) \/ Fetch(e) \/ Reconcile(e) \/ CheckLedger(e)
             \/ EndDryRun(e) \/ Reread(e) \/ FetchDropped(e) \/ SearchFails(e)
             \/ Abort(e)
    <2>1. UNCHANGED promised
      BY <1>1 DEF promised, Begin, Fetch, Reconcile, CheckLedger, EndDryRun,
                  Reread, FetchDropped, SearchFails, Abort
    <2>2. QED BY <2>1, Untouched
  <1>2. CASE SkipMix(e)
    <2>1. \E l \in Likes : Record(e, l, {})
      BY <1>2, ConstantsOK DEF SkipMix
    <2>2. UNCHANGED <<likedAt, watermark, ledger, everIn, forgotten, shared>>
      BY <1>2 DEF SkipMix
    <2>3. QED BY <2>1, <2>2, RecordKeeps
  <1>3. CASE Search(e)
    <2>1. UNCHANGED <<likedAt, watermark, ledger, everIn, forgotten, shared>>
      BY <1>3 DEF Search
    <2>2. pass[e].cur \in Likes
      BY <1>3 DEF Search, TypeInv, Control
    <2>3. \/ queue' = queue
          \/ \E r \in Finds[pass[e].cur] : Record(e, pass[e].cur, r.cands)
      BY <1>3 DEF Search
    <2>4. \A r \in Finds[pass[e].cur] : r.cands \in SUBSET Tracks
      <3>1. Finds[pass[e].cur] \subseteq Result
        BY <2>2, ConstantsOK
      <3>2. QED BY <3>1 DEF Result
    <2>5. QED
      BY <2>1, <2>2, <2>3, <2>4, RecordKeeps, Untouched DEF promised
  <1>4. CASE Post(e) \/ PostUnanswered(e)
    <2>1. /\ UNCHANGED <<likedAt, watermark, ledger, queue, forgotten, shared>>
          /\ \E b \in Batches(pass[e]) : AddToPlaylist(e, b)
      BY <1>4 DEF Post, PostUnanswered
    <2>2. everIn \subseteq everIn'
      BY <2>1 DEF AddToPlaylist
    <2>3. QED BY <2>1, <2>2, Gains
  <1>5. CASE Commit(e)
    <2>1. /\ UNCHANGED <<likedAt, queue, everIn, shared>>
          /\ forgotten' \subseteq forgotten
          /\ ledger' = RecordSynced(ledger, pass[e].ledge)
      BY <1>5 DEF Commit
    <2>2. QED BY <2>1, Settles DEF RecordSynced
  <1>6. QED
    BY <1>1, <1>2, <1>3, <1>4, <1>5 DEF PassStep, PassFault

LEMMA OperatorKeepsIt ==
  ASSUME TypeInv, After, OperatorNext
  PROVE  Keeps
  <1> USE DEF dbVars, difmVars, spotVars
  <1>1. CASE \/ StartResync \/ LookUp \/ ResyncDies \/ StartApprove
             \/ ApproveReads \/ ApproveDies \/ \E t \in Tracks : DeleteByHand(t)
    <2>1. UNCHANGED promised
      BY <1>1 DEF promised, StartResync, LookUp, ResyncDies, StartApprove,
                  ApproveReads, ApproveDies, DeleteByHand
    <2>2. QED BY <2>1, Untouched
  <1>2. CASE Drop \/ ForgetAllTracks
    <2>1. /\ UNCHANGED <<likedAt, watermark, queue, everIn, shared>>
          /\ forgotten \subseteq forgotten'
      BY <1>2 DEF Drop, ForgetAllTracks
    <2>2. ASSUME NEW l \in Likes
          PROVE  ledger'[l] = ledger[l] \/ (ledger'[l] = None /\ l \in forgotten')
      BY <1>2 DEF Drop, ForgetAllTracks, ForgetTrack, Keys, NoRows, TypeInv, TypeOK, Table
    <2>3. QED BY <2>1, <2>2, Forgets
  <1>3. CASE Rewind \/ ClearWatermark
    <2>1. UNCHANGED <<likedAt, ledger, queue, everIn, shared, forgotten>>
      BY <1>3 DEF Rewind, ClearWatermark
    <2>2. QED BY <2>1, Settles
  <1>4. CASE ApproveRecords
    <2>1. /\ UNCHANGED <<likedAt, queue, everIn, shared>>
          /\ forgotten' \subseteq forgotten
          /\ \A l \in Likes : ledger[l] # None => ledger'[l] = ledger[l]
      BY <1>4 DEF ApproveRecords, RecordSynced
    <2>2. QED BY <2>1, Settles
  <1>5. CASE ApproveResolves \/ Reject
    <2>1. /\ UNCHANGED <<likedAt, watermark, ledger, everIn, forgotten, shared>>
          /\ \E l \in Likes, status \in {"approved", "rejected"} :
               queue[l] # None /\ queue' = ResolveReview(queue, l, status)
      BY <1>5 DEF ApproveResolves, Reject, Keys, TypeInv, Control
    <2>2. QED BY <2>1, Decides
  <1>6. CASE ApprovePosts \/ ApproveUnanswered \/ \E t \in Tracks : AddByHand(t)
    <2>1. /\ UNCHANGED <<likedAt, watermark, ledger, queue, forgotten, shared>>
          /\ \E w, b : AddToPlaylist(w, b)
      BY <1>6 DEF ApprovePosts, ApproveUnanswered, AddByHand
    <2>2. everIn \subseteq everIn'
      BY <2>1 DEF AddToPlaylist
    <2>3. QED BY <2>1, <2>2, Gains
  <1>7. ASSUME NEW l \in Likes, Like(l) PROVE Keeps
    <2>1. /\ UNCHANGED <<watermark, ledger, queue, everIn, forgotten>>
          /\ likedAt \in [Likes -> Nat] /\ clock \in Nat
          /\ likedAt[l] = 0 /\ likedAt' = [likedAt EXCEPT ![l] = clock']
          /\ clock' > 0 /\ shared \subseteq shared'
      BY <1>7 DEF Like, TypeInv, TypeOK
    <2>2. likedAt'[l] > 0 /\ likedAt' = [likedAt EXCEPT ![l] = likedAt'[l]]
      BY <2>1
    <2>3. UNCHANGED <<watermark, Row, Entry, everIn>>
      BY <2>1 DEF Row, Entry
    <2>4. Excused \subseteq Excused'
      BY <2>1 DEF Excused
    <2>5. Promise!Vote(l)
      BY <2>1, <2>2, <2>3, <2>4, CoveredNext DEF Promise!Vote
    <2>6. QED BY <2>5 DEF Keeps, Promise!Next
  <1>8. ASSUME NEW l \in Likes, Unlike(l) PROVE Keeps
    <2>1. /\ UNCHANGED <<watermark, ledger, queue, everIn, forgotten, shared>>
          /\ likedAt \in [Likes -> Nat]
          /\ likedAt' = [likedAt EXCEPT ![l] = 0]
      BY <1>8 DEF Unlike, TypeInv, TypeOK
    <2>2. UNCHANGED <<watermark, Row, Entry, everIn>>
      BY <2>1 DEF Row, Entry
    <2>3. Excused \ {l} \subseteq Excused' /\ Excused' \subseteq Excused
      BY <2>1 DEF Excused
    <2>4. Promise!Unvote(l)
      BY <2>1, <2>2, <2>3 DEF Promise!Unvote
    <2>5. QED BY <2>4 DEF Keeps, Promise!Next
  <1>9. QED
    BY <1>1, <1>2, <1>3, <1>4, <1>5, <1>6, <1>7, <1>8
       DEF OperatorNext, Resync, ResyncStep, Review, Member

LEMMA PromiseInit == Init => Promise!Init
  BY DEF Init, Promise!Init, NoLikes, NoRows, Row, Entry, Excused

LEMMA PromiseStep ==
  TypeInv /\ TypeInv' /\ NoLikeLost' /\ LedgerAfterWrite' /\ [Next]_vars
    => [Promise!Next]_Promise!vars
  <1> SUFFICES ASSUME TypeInv, After, [Next]_vars PROVE Keeps
    BY DEF After, Keeps
  <1>1. CASE Next
    BY <1>1, EngineKeepsIt, OperatorKeepsIt DEF Next, EngineNext
  <1>2. CASE UNCHANGED vars
    BY <1>2, Untouched DEF vars, promised
  <1>3. QED
    BY <1>1, <1>2

\* The program, with any number of engines and commands interleaved call by
\* call and failing anywhere, keeps the promise that SyncPromise states
\* (engine.go, pass; resync.go; main.go, approveReview; ops.go).
THEOREM PromiseIsKept == Spec => KeepsThePromise
  <1>1. Spec => [](TypeInv /\ NoLikeLost /\ LedgerAfterWrite)
    BY TypeInvariant, NoLikeIsLost, LedgerFollowsPlaylist, PTL
  <1>2. QED
    BY <1>1, PromiseInit, PromiseStep, PTL DEF Spec, KeepsThePromise, Promise!Spec
===============================================================================
