-------------------------- MODULE RunHistory_proofs --------------------------
(***************************************************************************)
(* Proofs about what passes leave behind: the rows of sync_runs and the    *)
(* verdict read from them, and the day's snapshot and its pruning.         *)
(*                                                                         *)
(* The two arguments about pruning go by an extreme element.  Had a pruned *)
(* row been among those that decide, the newest pruned row would have been *)
(* among the KeepRuns newest.  And of the snapshots a process removes, the *)
(* newest still has Keep snapshots above it afterwards, so that every      *)
(* older one has them too, whichever process listed it.                    *)
(***************************************************************************)
EXTENDS RunHistory, FiniteSetTheorems, TLAPS

-----------------------------------------------------------------------------
\* Extreme elements of sets of numbers.
LEMMA LeastNumber ==
  ASSUME NEW T, T \subseteq Nat, T # {}
  PROVE  \E x \in T : \A y \in T : x <= y
  <1>1. PICK x \in T : \A y \in T : <<y, x>> \notin OpToRel(<, Nat)
    BY NatLessThanWellFounded, WFMin
  <1>2. \A y \in T : ~ (y < x)
    BY <1>1 DEF OpToRel
  <1>3. QED BY <1>2

LEMMA GreatestNumber ==
  ASSUME NEW n \in Nat, NEW T, T \subseteq 0..n, T # {}
  PROVE  \E x \in T : \A y \in T : y <= x
  <1> DEFINE U == {k \in Nat : n - k \in T}
  <1>1. \A t \in T : n - t \in U
    OBVIOUS
  <1>2. PICK k \in U : \A y \in U : k <= y
    <2>1. U \subseteq Nat /\ U # {}
      BY <1>1
    <2> HIDE DEF U
    <2>2. QED BY <2>1, LeastNumber
  <1>3. \A y \in T : y <= n - k
    BY <1>1, <1>2
  <1>4. QED BY <1>2, <1>3

\* A larger finite set has no fewer elements.
LEMMA Grows ==
  ASSUME NEW B, IsFiniteSet(B), NEW A, A \subseteq B
  PROVE  /\ Cardinality(A) \in Nat /\ Cardinality(B) \in Nat
         /\ Cardinality(A) <= Cardinality(B)
  BY FS_Subset, FS_CardinalityType

-----------------------------------------------------------------------------
\* The rows that come before r.
Ahead(r, rows) == {q \in rows : Newer(q, r)}

LEMMA NewestAsAhead ==
  ASSUME NEW n, NEW rows
  PROVE  Newest(n, rows) = {r \in rows : Cardinality(Ahead(r, rows)) < n}
  BY DEF Newest, Ahead

LEMMA NewerIsAnOrder ==
  ASSUME NEW r \in Run, NEW q \in Run, NEW s \in Run
  PROVE  /\ ~ Newer(r, r)
         /\ Newer(r, q) /\ Newer(q, s) => Newer(r, s)
  <1>1. \A t \in Run : t.start \in Nat /\ t.id \in Nat
    BY HistoryConstants DEF Run
  <1>2. QED BY <1>1 DEF Newer

\* Of some rows of a finite set, one is newer than all others or incomparable.
LEMMA NewestOfSome ==
  ASSUME NEW rows, rows \subseteq Run, IsFiniteSet(rows),
         NEW some, some \subseteq rows, some # {}
  PROVE  \E r \in some : \A q \in some : ~ Newer(q, r)
  <1> DEFINE Place(r) == Cardinality(Ahead(r, rows))
             Places == {Place(r) : r \in some}
  <1>1. \A r \in some : IsFiniteSet(Ahead(r, rows)) /\ Place(r) \in Nat
    <2>1. \A r \in some : Ahead(r, rows) \subseteq rows
      BY DEF Ahead
    <2>2. QED BY <2>1, FS_Subset, FS_CardinalityType
  <1>2. PICK r \in some : \A q \in some : Place(r) <= Place(q)
    <2>1. Places \subseteq Nat /\ Places # {}
      BY <1>1
    <2>2. PICK x \in Places : \A y \in Places : x <= y
      BY <2>1, LeastNumber
    <2>3. QED BY <2>2
  <1>3. ASSUME NEW q \in some, Newer(q, r) PROVE FALSE
    <2>1. Ahead(q, rows) \subseteq Ahead(r, rows)
      BY <1>3, NewerIsAnOrder DEF Ahead
    <2>2. q \in Ahead(r, rows) /\ q \notin Ahead(q, rows)
      BY <1>3, NewerIsAnOrder DEF Ahead
    <2>3. Place(q) <= Place(r) /\ (Place(q) = Place(r) => Ahead(q, rows) = Ahead(r, rows))
      BY <2>1, <1>1, FS_Subset
    <2>4. Place(q) # Place(r)
      BY <2>2, <2>3
    <2>5. Place(q) \in Nat /\ Place(r) \in Nat /\ Place(r) <= Place(q)
      BY <1>1, <1>2
    <2> HIDE DEF Place
    <2>6. QED BY <2>3, <2>4, <2>5
  <1>4. QED BY <1>3

\* Deleting rows that are not among the n newest leaves the n newest.
LEMMA NewestStay ==
  ASSUME NEW n \in Nat, NEW rows, rows \subseteq Run, IsFiniteSet(rows),
         NEW kept, kept \subseteq rows, Newest(n, rows) \subseteq kept
  PROVE  Newest(n, kept) = Newest(n, rows)
  <1>0. \A r : Ahead(r, kept) \subseteq Ahead(r, rows) /\ Ahead(r, rows) \subseteq rows
    BY DEF Ahead
  <1>1. \A r : /\ IsFiniteSet(Ahead(r, rows)) /\ IsFiniteSet(Ahead(r, kept))
               /\ Cardinality(Ahead(r, rows)) \in Nat
               /\ Cardinality(Ahead(r, kept)) \in Nat
               /\ Cardinality(Ahead(r, kept)) <= Cardinality(Ahead(r, rows))
    BY <1>0, FS_Subset, FS_CardinalityType
  <1>2. ASSUME NEW r \in Newest(n, rows) PROVE r \in Newest(n, kept)
    <2>1. Cardinality(Ahead(r, rows)) < n /\ r \in kept
      BY <1>2, NewestAsAhead
    <2>2. Cardinality(Ahead(r, kept)) < n
      BY <2>1, <1>1
    <2>3. QED BY <2>1, <2>2, NewestAsAhead
  <1>3. ASSUME NEW r \in Newest(n, kept), r \notin Newest(n, rows) PROVE FALSE
    <2>1. r \in kept /\ Cardinality(Ahead(r, kept)) < n
      BY NewestAsAhead
    <2>2. ~ (Cardinality(Ahead(r, rows)) < n)
      BY <1>3, <2>1, NewestAsAhead
    <2> DEFINE some == Ahead(r, rows) \ kept
    <2>3. some # {}
      <3>1. SUFFICES ASSUME some = {} PROVE Ahead(r, rows) = Ahead(r, kept)
        BY <2>1, <2>2
      <3>2. QED BY <3>1 DEF Ahead
    <2>4. PICK q \in some : \A p \in some : ~ Newer(p, q)
      BY <2>3, <1>0, NewestOfSome
    <2>5. q \in rows /\ q \notin kept /\ Newer(q, r)
      BY DEF Ahead
    <2>6. ~ (Cardinality(Ahead(q, rows)) < n)
      BY <2>5, NewestAsAhead
    <2>7. Ahead(q, rows) \subseteq Ahead(r, kept)
      <3> SUFFICES ASSUME NEW p \in Ahead(q, rows) PROVE p \in Ahead(r, kept)
        OBVIOUS
      <3>1. p \in rows /\ Newer(p, q)
        BY DEF Ahead
      <3>2. Newer(p, r)
        BY <3>1, <2>1, <2>5, NewerIsAnOrder
      <3>3. p \in kept
        BY <3>1, <3>2, <2>4 DEF Ahead
      <3>4. QED BY <3>2, <3>3 DEF Ahead
    <2>8. Cardinality(Ahead(q, rows)) <= Cardinality(Ahead(r, kept))
      BY <2>7, <1>1, FS_Subset
    <2>9. QED BY <2>1, <2>6, <2>8, <1>1
  <1>4. QED BY <1>2, <1>3

-----------------------------------------------------------------------------
\* Rows have ids of their own, and are closed clean on a day cleanOn knows of.
Rows ==
  /\ IsFiniteSet(runs)
  /\ \A r \in runs : r.id <= started /\ (Clean(r) => r.end <= cleanOn)
  /\ \A r, q \in runs : r.id = q.id => r = q
  /\ cleanOn <= now

\* Each engine in a pass has an open row, and a row of its own.
Passes ==
  \A e \in Engines :
    /\ eng[e].run <= started
    /\ eng[e].pc = "pass" =>
         /\ \E r \in runs : r.id = eng[e].run /\ r.end = 0
         /\ \A f \in Engines \ {e} : eng[f].pc = "pass" => eng[f].run # eng[e].run

\* An engine that has not tried today remembers another day, or none.
Attempts ==
  \A e \in Engines : tries[e] <= 1 /\ (eng[e].last # now => tries[e] = 0)

Dated == \A e \in Engines : eng[e].pc \in {"stage", "publish"} => eng[e].day \in 1..Days

HistoryTypes == HistoryTypeOK /\ tries \in [Engines -> Nat]
HistoryInv == HistoryTypes /\ Rows /\ Passes /\ Attempts /\ Dated /\ PublishedIsVerified

-----------------------------------------------------------------------------
\* What becomes of the engine that takes a step.
LEMMA EngineTypes ==
  ASSUME HistoryTypes, NEW e \in Engines
  PROVE  /\ eng[e] \in EngineState /\ eng[e].pc \in EnginePC
         /\ eng[e].run \in 0..MaxRuns /\ eng[e].last \in 0..Days
         /\ eng[e].day \in 0..Days /\ eng[e].old \subseteq 1..Foreign
  BY DEF HistoryTypes, HistoryTypeOK, EngineState

LEMMA EngineBecomes ==
  ASSUME HistoryTypes, NEW e \in Engines, NEW s \in EngineState,
         eng' = [eng EXCEPT ![e] = s]
  PROVE  /\ eng' \in [Engines -> EngineState]
         /\ eng'[e] = s /\ \A f \in Engines \ {e} : eng'[f] = eng[f]
  BY DEF HistoryTypes, HistoryTypeOK

LEMMA GoTypes ==
  ASSUME HistoryTypes, NEW e \in Engines, NEW pc \in EnginePC, Go(e, pc)
  PROVE  /\ eng' \in [Engines -> EngineState]
         /\ eng'[e].pc = pc /\ eng'[e].run = eng[e].run /\ eng'[e].last = eng[e].last
         /\ eng'[e].day = eng[e].day /\ eng'[e].old = eng[e].old
         /\ \A f \in Engines \ {e} : eng'[f] = eng[f]
  <1> DEFINE s == [eng[e] EXCEPT !.pc = pc]
  <1>1. eng[e] \in EngineState
    BY EngineTypes
  <1>2. s \in EngineState /\ eng' = [eng EXCEPT ![e] = s]
    BY <1>1 DEF Go, EngineState
  <1>3. /\ s.pc = pc /\ s.run = eng[e].run /\ s.last = eng[e].last
        /\ s.day = eng[e].day /\ s.old = eng[e].old
    BY <1>1 DEF EngineState
  <1> HIDE DEF s
  <1>4. QED BY <1>2, <1>3, EngineBecomes

LEMMA RestingType == Resting \in EngineState
  BY HistoryConstants DEF Resting, EngineState, EnginePC, NoRun

LEMMA HistoryInitially == HistoryInit => HistoryInv
  <1> SUFFICES ASSUME HistoryInit PROVE HistoryInv
    OBVIOUS
  <1>1. HistoryTypes
    BY HistoryConstants, RestingType DEF HistoryInit, HistoryTypes, HistoryTypeOK, Foreign
  <1>2. Rows
    BY FS_EmptySet DEF HistoryInit, Rows
  <1>3. \A e \in Engines : eng[e] = Resting
    BY DEF HistoryInit
  <1>4. Passes /\ Attempts /\ Dated
    BY <1>3 DEF Passes, Attempts, Dated, Resting, NoRun, HistoryInit
  <1>5. PublishedIsVerified
    BY DEF HistoryInit, PublishedIsVerified
  <1>6. QED BY <1>1, <1>2, <1>4, <1>5 DEF HistoryInv

\* A step of one engine that leaves the rows alone, and keeps out of a pass.
LEMMA OneEngineSteps ==
  ASSUME HistoryInv, NEW e \in Engines, UNCHANGED <<now, runs, started, cleanOn>>,
         eng' \in [Engines -> EngineState],
         \A f \in Engines \ {e} : eng'[f] = eng[f] /\ tries'[f] = tries[f],
         eng'[e].pc # "pass", eng'[e].run = eng[e].run \/ eng'[e].run = 0,
         eng'[e].pc \in {"stage", "publish"} => eng'[e].day \in 1..Days,
         tries' \in [Engines -> Nat],
         tries'[e] <= 1, eng'[e].last # now => tries'[e] = 0,
         files' \subseteq 1..Foreign, files' \ {Foreign} \subseteq verified',
         verified' \cup erased' \subseteq 1..Days,
         kills' \in Nat, deletions' \in Nat
  PROVE  HistoryInv'
  <1>1. HistoryTypes'
    BY DEF HistoryInv, HistoryTypes, HistoryTypeOK
  <1>2. Rows'
    BY DEF HistoryInv, Rows
  <1>3. Passes'
    BY DEF HistoryInv, HistoryTypes, HistoryTypeOK, Rows, Passes
  <1>4. Attempts' /\ Dated'
    BY DEF HistoryInv, Attempts, Dated
  <1>5. PublishedIsVerified'
    BY DEF PublishedIsVerified, Foreign
  <1>6. QED BY <1>1, <1>2, <1>3, <1>4, <1>5 DEF HistoryInv

LEMMA StartRunKeeps ==
  ASSUME HistoryInv, NEW e \in Engines, NEW dry \in BOOLEAN, StartRun(e, dry)
  PROVE  HistoryInv'
  <1> DEFINE new == [id |-> started + 1, start |-> now, end |-> 0, dry |-> dry,
                     err |-> FALSE]
             s == [eng[e] EXCEPT !.pc = "pass", !.run = started + 1]
  <1> USE DEF HistoryInv
  <1>1. /\ now \in 1..Days /\ started \in 0..MaxRuns /\ runs \subseteq Run
        /\ started \in Nat /\ MaxRuns \in Nat
    BY HistoryConstants DEF HistoryTypes, HistoryTypeOK
  <1>2. /\ eng[e].pc = "idle" /\ started < MaxRuns /\ started' = started + 1
        /\ runs' = runs \cup {new} /\ eng' = [eng EXCEPT ![e] = s]
        /\ UNCHANGED <<now, files, verified, tries, erased, cleanOn, kills, deletions>>
    BY DEF StartRun
  <1>3. new \in Run /\ new.id = started + 1 /\ new.end = 0 /\ ~ Clean(new)
    BY <1>1, <1>2, HistoryConstants DEF Run, Clean
  <1>4. s \in EngineState /\ s.pc = "pass" /\ s.run = started + 1 /\ s.last = eng[e].last
    <2>1. "pass" \in EnginePC /\ started + 1 \in 0..MaxRuns
      BY <1>1, <1>2 DEF EnginePC
    <2>2. eng[e] \in EngineState
      BY EngineTypes
    <2>3. QED BY <2>1, <2>2 DEF EngineState
  <1> HIDE DEF new, s
  <1>5. /\ eng' \in [Engines -> EngineState]
        /\ eng'[e] = s /\ \A f \in Engines \ {e} : eng'[f] = eng[f]
    BY <1>2, <1>4, EngineBecomes
  <1>6. HistoryTypes'
    BY <1>1, <1>2, <1>3, <1>5 DEF HistoryTypes, HistoryTypeOK
  <1>7. Rows'
    <2>1. IsFiniteSet(runs')
      BY <1>2, FS_AddElement DEF Rows
    <2>2. \A r \in runs : r.id \in Nat /\ r.id <= started
      BY <1>1, HistoryConstants DEF Rows, Run
    <2>3. \A r \in runs' : r.id <= started' /\ (Clean(r) => r.end <= cleanOn')
      BY <2>2, <1>1, <1>2, <1>3 DEF Rows
    <2>4. \A r, q \in runs' : r.id = q.id => r = q
      BY <2>2, <1>1, <1>2, <1>3 DEF Rows
    <2>5. QED BY <2>1, <2>3, <2>4, <1>2 DEF Rows
  <1>8. Passes'
    <2>1. \A f \in Engines : eng[f].run \in Nat /\ eng[f].run <= started
      BY EngineTypes, <1>1 DEF Passes
    <2>2. \A f \in Engines : eng'[f].run <= started'
      BY <2>1, <1>1, <1>2, <1>4, <1>5
    <2>3. \A f \in Engines : eng'[f].pc = "pass" =>
            \E r \in runs' : r.id = eng'[f].run /\ r.end = 0
      BY <1>2, <1>3, <1>4, <1>5 DEF Passes
    <2>4. \A f \in Engines : \A g \in Engines \ {f} :
            eng'[f].pc = "pass" /\ eng'[g].pc = "pass" => eng'[g].run # eng'[f].run
      BY <2>1, <1>1, <1>4, <1>5 DEF Passes
    <2>5. QED BY <2>2, <2>3, <2>4 DEF Passes
  <1>9. Attempts' /\ Dated'
    BY <1>2, <1>4, <1>5 DEF Attempts, Dated
  <1>10. PublishedIsVerified'
    BY <1>2 DEF PublishedIsVerified, Foreign
  <1>11. QED BY <1>6, <1>7, <1>8, <1>9, <1>10

LEMMA FinishRunKeeps ==
  ASSUME HistoryInv, NEW e \in Engines, NEW err \in BOOLEAN, FinishRun(e, err)
  PROVE  HistoryInv'
  <1> USE DEF HistoryInv
  <1>0. /\ now \in 1..Days /\ now \in Nat /\ cleanOn \in Nat /\ cleanOn \in 0..Days
        /\ runs \subseteq Run /\ cleanOn <= now
    BY HistoryConstants DEF HistoryTypes, HistoryTypeOK, Rows
  <1>1. PICK r \in runs :
          /\ r.id = eng[e].run
          /\ \/ /\ runs' = (runs \ {r}) \cup {[r EXCEPT !.end = now, !.err = err]}
                /\ cleanOn' = IF r.dry \/ err THEN cleanOn ELSE now
             \/ UNCHANGED <<runs, cleanOn>>
          /\ Go(e, IF r.dry \/ err THEN "idle" ELSE "backup")
    BY DEF FinishRun
  <1>2. /\ eng[e].pc = "pass"
        /\ UNCHANGED <<now, started, files, verified, tries, erased, kills, deletions>>
    BY DEF FinishRun
  <1>3. PICK pc \in {"idle", "backup"} : Go(e, pc)
    BY <1>1
  <1>4. /\ eng' \in [Engines -> EngineState]
        /\ eng'[e].pc = pc /\ eng'[e].run = eng[e].run /\ eng'[e].last = eng[e].last
        /\ \A f \in Engines \ {e} : eng'[f] = eng[f]
    BY <1>3, GoTypes DEF EnginePC
  <1> DEFINE new == [r EXCEPT !.end = now, !.err = err]
  <1>5. /\ new \in Run /\ new.id = r.id /\ new.end = now
        /\ Clean(new) => ~ r.dry /\ ~ err
    <2>1. r \in Run /\ now \in 0..Days
      BY <1>0, HistoryConstants
    <2>2. new \in Run /\ new.id = r.id /\ new.end = now /\ new.dry = r.dry /\ new.err = err
      BY <2>1 DEF Run
    <2>3. Clean(new) => ~ new.dry /\ ~ new.err
      BY DEF Clean
    <2>4. QED BY <2>2, <2>3
  <1> HIDE DEF new
  <1>6. \/ UNCHANGED <<runs, cleanOn>>
        \/ /\ runs' = (runs \ {r}) \cup {new} /\ cleanOn' \in {cleanOn, now}
           /\ Clean(new) => cleanOn' = now
    BY <1>1, <1>5 DEF new
  <1>7. HistoryTypes'
    BY <1>0, <1>2, <1>4, <1>5, <1>6 DEF HistoryTypes, HistoryTypeOK
  <1>8. \A q \in runs' : q \in runs \/ q = new
    BY <1>6
  <1>9. Rows'
    <2>1. IsFiniteSet(runs')
      <3>1. IsFiniteSet((runs \ {r}) \cup {new})
        BY FS_AddElement, FS_RemoveElement DEF Rows
      <3>2. QED BY <3>1, <1>6 DEF Rows
    <2>2. \A q \in runs' : q.id <= started'
      BY <1>2, <1>5, <1>8 DEF Rows
    <2>3. \A q \in runs : q.end \in Nat
      BY <1>0, HistoryConstants DEF Run
    <2>4. \A q \in runs' : Clean(q) => q.end <= cleanOn'
      BY <2>3, <1>0, <1>5, <1>6 DEF Rows
    <2>5. \A p, q \in runs' : p.id = q.id => p = q
      BY <1>5, <1>6 DEF Rows
    <2>6. cleanOn' <= now'
      BY <1>0, <1>2, <1>6
    <2>7. QED BY <2>1, <2>2, <2>4, <2>5, <2>6 DEF Rows
  <1>10. Passes'
    <2>1. \A f \in Engines : eng'[f].run <= started'
      BY <1>2, <1>4 DEF Passes
    <2>2. ASSUME NEW f \in Engines, eng'[f].pc = "pass"
          PROVE  /\ \E q \in runs' : q.id = eng'[f].run /\ q.end = 0
                 /\ \A g \in Engines \ {f} : eng'[g].pc = "pass" => eng'[g].run # eng'[f].run
      <3>1. f # e /\ eng'[f] = eng[f]
        BY <2>2, <1>3, <1>4
      <3>2. eng[f].run # eng[e].run
        BY <3>1, <2>2, <1>2 DEF Passes
      <3>3. PICK q \in runs : q.id = eng[f].run /\ q.end = 0
        BY <3>1, <2>2 DEF Passes
      <3>4. q \in runs'
        BY <3>2, <3>3, <1>1, <1>6
      <3>5. \A g \in Engines \ {f} : eng'[g].pc = "pass" => g # e /\ eng'[g] = eng[g]
        BY <1>3, <1>4
      <3>6. QED BY <3>1, <3>3, <3>4, <3>5, <2>2 DEF Passes
    <2>3. QED BY <2>1, <2>2 DEF Passes
  <1>11. Attempts' /\ Dated'
    BY <1>2, <1>3, <1>4 DEF Attempts, Dated
  <1>12. PublishedIsVerified'
    BY <1>2 DEF PublishedIsVerified, Foreign
  <1>13. QED BY <1>7, <1>9, <1>10, <1>11, <1>12

\* A step that changes an engine's place and no more of it.
LEMMA GoesOn ==
  ASSUME HistoryInv, NEW e \in Engines, NEW pc \in EnginePC \ {"pass"}, Go(e, pc),
         UNCHANGED <<now, runs, started, cleanOn, tries, erased, kills, deletions>>,
         pc \in {"stage", "publish"} => eng[e].pc \in {"stage", "publish"},
         files' \subseteq 1..Foreign, files' \ {Foreign} \subseteq verified',
         verified' \subseteq 1..Days
  PROVE  HistoryInv'
  <1>1. /\ eng' \in [Engines -> EngineState]
        /\ eng'[e].pc = pc /\ eng'[e].run = eng[e].run /\ eng'[e].last = eng[e].last
        /\ eng'[e].day = eng[e].day /\ \A f \in Engines \ {e} : eng'[f] = eng[f]
    BY GoTypes DEF HistoryInv
  <1>2. /\ tries \in [Engines -> Nat] /\ tries[e] <= 1
        /\ eng[e].last # now => tries[e] = 0
        /\ eng[e].pc \in {"stage", "publish"} => eng[e].day \in 1..Days
        /\ erased \subseteq 1..Days /\ kills \in Nat /\ deletions \in Nat
    BY DEF HistoryInv, HistoryTypes, HistoryTypeOK, Attempts, Dated
  <1>3. QED BY <1>1, <1>2, OneEngineSteps

LEMMA HousekeepingKeeps ==
  ASSUME HistoryInv, NEW e \in Engines,
         \/ TakeNone(e) \/ Take(e) \/ Stage(e) \/ Publish(e)
         \/ ListFiles(e) \/ PruneFiles(e) \/ Kill(e)
  PROVE  HistoryInv'
  <1>0. /\ now \in 1..Days /\ files \subseteq 1..Foreign
        /\ verified \subseteq 1..Days /\ erased \subseteq 1..Days
        /\ kills \in Nat /\ deletions \in Nat /\ tries \in [Engines -> Nat]
        /\ files \ {Foreign} \subseteq verified /\ Foreign = Days + 1 /\ Days \in Nat
    BY HistoryConstants
       DEF HistoryInv, HistoryTypes, HistoryTypeOK, PublishedIsVerified, Foreign
  <1>e. /\ HistoryTypes /\ eng[e] \in EngineState /\ eng[e].day \in 0..Days
        /\ tries[e] <= 1 /\ (eng[e].last # now => tries[e] = 0)
        /\ eng[e].pc \in {"stage", "publish"} => eng[e].day \in 1..Days
    BY EngineTypes DEF HistoryInv, Attempts, Dated
  <1>1. CASE TakeNone(e)
    BY <1>1, <1>0, GoesOn DEF TakeNone, EnginePC
  <1>2. CASE Take(e)
    <2> DEFINE s == [eng[e] EXCEPT !.pc = "stage", !.day = now, !.last = now]
    <2>1. /\ s \in EngineState /\ s.pc = "stage" /\ s.day = now /\ s.last = now
          /\ s.run = eng[e].run
      <3>1. "stage" \in EnginePC /\ now \in 0..Days
        BY <1>0 DEF EnginePC
      <3>2. QED BY <3>1, <1>e DEF EngineState
    <2>2. /\ eng' = [eng EXCEPT ![e] = s] /\ tries' = [tries EXCEPT ![e] = @ + 1]
          /\ eng[e].last # now
          /\ UNCHANGED <<now, runs, started, files, verified, erased, cleanOn, kills,
                         deletions>>
      BY <1>2 DEF Take
    <2> HIDE DEF s
    <2>3. /\ eng' \in [Engines -> EngineState] /\ eng'[e] = s
          /\ \A f \in Engines \ {e} : eng'[f] = eng[f]
      BY <2>1, <2>2, <1>e, EngineBecomes
    <2>4. /\ tries' \in [Engines -> Nat] /\ tries'[e] = 1
          /\ \A f \in Engines \ {e} : tries'[f] = tries[f]
      BY <2>2, <1>0, <1>e
    <2>5. QED BY <2>1, <2>2, <2>3, <2>4, <1>0, OneEngineSteps
  <1>3. CASE Stage(e)
    <2>1. PICK pc \in {"publish", "rows"} : Go(e, pc)
      BY <1>3 DEF Stage
    <2>2. QED BY <2>1, <1>3, <1>0, GoesOn DEF Stage, EnginePC
  <1>4. CASE Publish(e)
    <2>1. /\ eng[e].day \in 1..Days /\ Go(e, "list")
          /\ files' = files \cup {eng[e].day} /\ verified' = verified \cup {eng[e].day}
          /\ UNCHANGED <<now, runs, started, tries, erased, cleanOn, kills, deletions>>
      BY <1>4, <1>e DEF Publish
    <2>2. files' \subseteq 1..Foreign /\ files' \ {Foreign} \subseteq verified'
          /\ verified' \subseteq 1..Days
      <3>1. eng[e].day \in 1..Foreign
        BY <2>1, <1>0
      <3>2. files' \subseteq 1..Foreign
        BY <3>1, <2>1, <1>0
      <3>3. files' \ {Foreign} \subseteq verified' /\ verified' \subseteq 1..Days
        BY <2>1, <1>0
      <3>4. QED BY <3>2, <3>3
    <2>3. "list" \in EnginePC \ {"pass"}
      BY DEF EnginePC
    <2>4. QED BY <2>1, <2>2, <2>3, GoesOn
  <1>5. CASE ListFiles(e)
    <2> DEFINE s == [eng[e] EXCEPT !.pc = "remove", !.old = Old]
    <2>1. Old \subseteq 1..Foreign
      BY <1>0 DEF Old, Snapshots
    <2>2. /\ s \in EngineState /\ s.pc = "remove" /\ s.last = eng[e].last
          /\ s.run = eng[e].run
      <3>1. "remove" \in EnginePC
        BY DEF EnginePC
      <3>2. QED BY <3>1, <2>1, <1>e DEF EngineState
    <2>3. /\ eng' = [eng EXCEPT ![e] = s]
          /\ UNCHANGED <<now, runs, started, files, verified, tries, erased, cleanOn,
                         kills, deletions>>
      BY <1>5 DEF ListFiles
    <2> HIDE DEF s
    <2>4. /\ eng' \in [Engines -> EngineState] /\ eng'[e] = s
          /\ \A f \in Engines \ {e} : eng'[f] = eng[f]
      BY <2>2, <2>3, <1>e, EngineBecomes
    <2>5. QED BY <2>2, <2>3, <2>4, <1>0, <1>e, OneEngineSteps
  <1>6. CASE PruneFiles(e)
    <2> DEFINE s == [eng[e] EXCEPT !.pc = "rows", !.old = {}]
    <2>1. /\ s \in EngineState /\ s.pc = "rows" /\ s.last = eng[e].last
          /\ s.run = eng[e].run
      <3>1. "rows" \in EnginePC
        BY DEF EnginePC
      <3>2. QED BY <3>1, <1>e DEF EngineState
    <2>2. /\ eng' = [eng EXCEPT ![e] = s] /\ files' \subseteq files
          /\ UNCHANGED <<now, runs, started, verified, tries, erased, cleanOn, kills,
                         deletions>>
      BY <1>6 DEF PruneFiles
    <2> HIDE DEF s
    <2>3. /\ eng' \in [Engines -> EngineState] /\ eng'[e] = s
          /\ \A f \in Engines \ {e} : eng'[f] = eng[f]
      BY <2>1, <2>2, <1>e, EngineBecomes
    <2>4. QED BY <2>1, <2>2, <2>3, <1>0, <1>e, OneEngineSteps
  <1>7. CASE Kill(e)
    <2>1. /\ eng' = [eng EXCEPT ![e] = Resting] /\ tries' = [tries EXCEPT ![e] = 0]
          /\ kills' = kills - 1 /\ kills > 0
          /\ UNCHANGED <<now, runs, started, files, verified, erased, cleanOn,
                         deletions>>
      BY <1>7 DEF Kill
    <2>2. /\ eng' \in [Engines -> EngineState] /\ eng'[e] = Resting
          /\ \A f \in Engines \ {e} : eng'[f] = eng[f]
      BY <2>1, <1>e, RestingType, EngineBecomes
    <2>3. /\ tries' \in [Engines -> Nat] /\ tries'[e] = 0
          /\ \A f \in Engines \ {e} : tries'[f] = tries[f] /\ kills' \in Nat
      BY <2>1, <1>0
    <2>4. Resting.pc = "idle" /\ Resting.run = 0
      BY DEF Resting, NoRun
    <2>5. kills' \in Nat
      BY <2>1, <1>0
    <2>6. QED BY <2>1, <2>2, <2>3, <2>4, <2>5, <1>0, OneEngineSteps
  <1>8. QED BY <1>1, <1>2, <1>3, <1>4, <1>5, <1>6, <1>7

LEMMA PruneRunsKeeps ==
  ASSUME HistoryInv, NEW e \in Engines, PruneRuns(e)
  PROVE  HistoryInv'
  <1> USE DEF HistoryInv
  <1>1. /\ runs' \subseteq runs /\ \A r \in runs \ runs' : r.end > 0
        /\ UNCHANGED <<now, started, files, verified, tries, erased, cleanOn, kills,
                       deletions>>
    BY DEF PruneRuns, Outdated
  <1>2. /\ eng' \in [Engines -> EngineState]
        /\ eng'[e].pc = "idle" /\ eng'[e].run = eng[e].run /\ eng'[e].last = eng[e].last
        /\ \A f \in Engines \ {e} : eng'[f] = eng[f]
    BY GoTypes DEF PruneRuns, EnginePC
  <1>3. HistoryTypes'
    BY <1>1, <1>2 DEF HistoryTypes, HistoryTypeOK
  <1>4. Rows'
    BY <1>1, FS_Subset DEF Rows
  <1>5. Passes'
    <2>1. ASSUME NEW f \in Engines, eng'[f].pc = "pass"
          PROVE  \E r \in runs' : r.id = eng'[f].run /\ r.end = 0
      <3>1. f # e /\ eng'[f] = eng[f]
        BY <2>1, <1>2
      <3>2. PICK r \in runs : r.id = eng[f].run /\ r.end = 0
        BY <3>1, <2>1 DEF Passes
      <3>3. QED BY <3>1, <3>2, <1>1
    <2>2. QED BY <2>1, <1>1, <1>2 DEF Passes
  <1>6. Attempts' /\ Dated'
    BY <1>1, <1>2 DEF Attempts, Dated
  <1>7. PublishedIsVerified'
    BY <1>1 DEF PublishedIsVerified, Foreign
  <1>8. QED BY <1>3, <1>4, <1>5, <1>6, <1>7

LEMMA HistoryInvStep == HistoryInv /\ [HistoryNext]_historyVars => HistoryInv'
  <1> SUFFICES ASSUME HistoryInv, [HistoryNext]_historyVars PROVE HistoryInv'
    OBVIOUS
  <1>1. ASSUME NextDay PROVE HistoryInv'
    <2>1. /\ now < Days /\ now' = now + 1 /\ tries' = [e \in Engines |-> 0]
          /\ UNCHANGED <<runs, started, eng, files, verified, erased, cleanOn, kills,
                         deletions>>
      BY <1>1 DEF NextDay
    <2>2. now \in 1..Days /\ Days \in Nat /\ cleanOn \in 0..Days
      BY HistoryConstants DEF HistoryInv, HistoryTypes, HistoryTypeOK
    <2>3. HistoryTypes'
      BY <2>1, <2>2 DEF HistoryInv, HistoryTypes, HistoryTypeOK
    <2>4. Rows' /\ Passes'
      BY <2>1, <2>2 DEF HistoryInv, Rows, Passes, Clean
    <2>5. Attempts' /\ Dated' /\ PublishedIsVerified'
      BY <2>1 DEF HistoryInv, Attempts, Dated, PublishedIsVerified, Foreign
    <2>6. QED BY <2>3, <2>4, <2>5 DEF HistoryInv
  <1>2. ASSUME DeleteFile PROVE HistoryInv'
    <2>1. PICK n \in Snapshots : files' = files \ {n} /\ erased' = erased \cup {n}
      BY <1>2 DEF DeleteFile
    <2>2. /\ deletions > 0 /\ deletions' = deletions - 1
          /\ UNCHANGED <<now, runs, started, eng, verified, tries, cleanOn, kills>>
      BY <1>2 DEF DeleteFile
    <2>3. n \in 1..Days
      BY HistoryConstants
         DEF HistoryInv, HistoryTypes, HistoryTypeOK, Snapshots, IsSnapshot, Foreign
    <2>4. HistoryTypes'
      BY <2>1, <2>2, <2>3 DEF HistoryInv, HistoryTypes, HistoryTypeOK
    <2>5. Rows' /\ Passes'
      BY <2>2 DEF HistoryInv, Rows, Passes, Clean
    <2>6. Attempts' /\ Dated' /\ PublishedIsVerified'
      BY <2>1, <2>2 DEF HistoryInv, Attempts, Dated, PublishedIsVerified, Foreign
    <2>7. QED BY <2>4, <2>5, <2>6 DEF HistoryInv
  <1>3. CASE UNCHANGED historyVars
    BY <1>3 DEF historyVars, HistoryInv, HistoryTypes, HistoryTypeOK, Rows, Passes,
                Clean, Attempts, Dated, PublishedIsVerified, Foreign
  <1>4. QED
    BY <1>1, <1>2, <1>3, StartRunKeeps, FinishRunKeeps, HousekeepingKeeps,
       PruneRunsKeeps DEF HistoryNext

LEMMA HistoryInvariant == HistorySpec => []HistoryInv
  <1>1. QED BY HistoryInitially, HistoryInvStep, PTL DEF HistorySpec

-----------------------------------------------------------------------------
\* The day, the rows, the engines and the snapshots have their types.
THEOREM HistoryTypesHold == HistorySpec => []HistoryTypeOK
  <1>1. HistoryInv => HistoryTypeOK
    BY DEF HistoryInv, HistoryTypes
  <1>2. QED BY <1>1, HistoryInvariant, PTL

\* However many processes prune beside it, a pass in flight finds its own row
\* open when it comes to close it (ops.go, PruneRuns).
THEOREM OpenRowsAreKept == HistorySpec => []RunningPassHasItsRow
  <1>1. HistoryInv => RunningPassHasItsRow
    BY DEF HistoryInv, Passes, RunningPassHasItsRow
  <1>2. QED BY <1>1, HistoryInvariant, PTL

\* A process that is not restarted tries the day's snapshot once, whether or
\* not it landed (backup.go, lastAttempt).
THEOREM TriedOncePerDay == HistorySpec => []OneAttemptADay
  <1>1. HistoryInv => OneAttemptADay
    BY DEF HistoryInv, Attempts, OneAttemptADay
  <1>2. QED BY <1>1, HistoryInvariant, PTL

\* A snapshot under its own name was verified first, wherever a process died.
THEOREM OnlyVerifiedIsPublished == HistorySpec => []PublishedIsVerified
  <1>1. HistoryInv => PublishedIsVerified
    BY DEF HistoryInv
  <1>2. QED BY <1>1, HistoryInvariant, PTL

\* A green health probe has a clean, real pass behind it that was recorded
\* within MaxAge, whatever rows were pruned since (status.go, health).
THEOREM GreenIsEarned == HistorySpec => []HealthIsEarned
  <1>1. HistoryInv => HealthIsEarned
    <2> SUFFICES ASSUME HistoryInv, Healthy
                 PROVE  cleanOn > 0 /\ now - cleanOn <= MaxAge
      BY DEF HealthIsEarned
    <2>1. PICK r \in Accepted : now - r.end <= MaxAge
      BY DEF Healthy
    <2>2. r \in runs /\ Clean(r)
      BY DEF Accepted, Window, Newest
    <2>3. /\ now \in Nat /\ r.end \in Nat /\ cleanOn \in Nat /\ MaxAge \in Nat
          /\ r.end > 0 /\ r.end <= cleanOn /\ cleanOn <= now
      BY <2>2, HistoryConstants
         DEF HistoryInv, HistoryTypes, HistoryTypeOK, Rows, Run, Clean
    <2>4. QED BY <2>1, <2>3
  <1>2. QED BY <1>1, HistoryInvariant, PTL

-----------------------------------------------------------------------------
\* A step that adds no row leaves the rows alone, or prunes them.
LEMMA NoRowAdded ==
  ASSUME HistoryInv, [HistoryNext]_historyVars, runs' \subseteq runs
  PROVE  UNCHANGED runs \/ \E e \in Engines : PruneRuns(e)
  <1>1. ASSUME NEW e \in Engines, NEW dry \in BOOLEAN, StartRun(e, dry) PROVE FALSE
    <2> DEFINE new == [id |-> started', start |-> now, end |-> 0, dry |-> dry,
                       err |-> FALSE]
    <2>0. new \in runs' /\ new.id = started + 1
      BY <1>1 DEF StartRun
    <2> HIDE DEF new
    <2>1. PICK r \in runs' : r.id = started + 1
      BY <2>0
    <2>2. r \in runs /\ r.id <= started /\ started \in Nat
      BY <2>1, HistoryConstants DEF HistoryInv, HistoryTypes, HistoryTypeOK, Rows
    <2>3. QED BY <2>1, <2>2
  <1>2. ASSUME NEW e \in Engines, NEW err \in BOOLEAN, FinishRun(e, err)
        PROVE  UNCHANGED runs
    <2>1. PICK r \in runs :
            \/ runs' = (runs \ {r}) \cup {[r EXCEPT !.end = now, !.err = err]}
            \/ UNCHANGED runs
      BY <1>2 DEF FinishRun
    <2> DEFINE new == [r EXCEPT !.end = now, !.err = err]
    <2>2. new.id = r.id
      BY DEF HistoryInv, HistoryTypes, HistoryTypeOK, Run
    <2> HIDE DEF new
    <2>3. CASE runs' = (runs \ {r}) \cup {new}
      <3>1. new \in runs
        BY <2>3
      <3>2. new = r
        BY <3>1, <2>2 DEF HistoryInv, Rows
      <3>3. QED BY <3>2, <2>3
    <2>4. QED BY <2>1, <2>3 DEF new
  <1>3. QED
    BY <1>1, <1>2 DEF HistoryNext, historyVars, TakeNone, Take, Stage, Publish,
       ListFiles, PruneFiles, Kill, NextDay, DeleteFile

\* Deleting rows changes no verdict: neither the pass the health rule accepts
\* nor the failures counted after it (PruneRuns: "never lose one to
\* housekeeping").  It needs the two windows to be of one size.
THEOREM PruningIsInvisible == HistorySpec => PruningKeepsTheVerdict
  <1>1. ASSUME HistoryInv, [HistoryNext]_historyVars, runs' \subseteq runs
        PROVE  Accepted' = Accepted /\ ConsecutiveFailures' = ConsecutiveFailures
    <2>1. Window' = Window
      <3>1. CASE UNCHANGED runs
        BY <3>1 DEF Window, Newest
      <3>2. ASSUME NEW e \in Engines, PruneRuns(e), ~ UNCHANGED runs
            PROVE  Window' = Window
        <4>1. runs' = {r \in runs : ~ Outdated(r)}
          BY <3>2 DEF PruneRuns
        <4>2. Newest(KeepRuns, runs) \subseteq runs'
          BY <4>1 DEF Outdated, Newest
        <4>3. runs \subseteq Run /\ IsFiniteSet(runs) /\ KeepRuns \in Nat
          BY <1>1, HistoryConstants DEF HistoryInv, HistoryTypes, HistoryTypeOK, Rows
        <4>4. Newest(KeepRuns, runs') = Newest(KeepRuns, runs)
          BY <4>2, <4>3, <1>1, NewestStay
        <4>5. QED BY <4>4, WindowIsKept DEF Window
      <3>3. QED BY <3>1, <3>2, <1>1, NoRowAdded
    <2>2. Accepted' = Accepted
      BY <2>1 DEF Accepted
    <2>3. QED BY <2>1, <2>2 DEF ConsecutiveFailures
  <1>2. HistoryInv /\ [HistoryNext]_historyVars
          => [runs' \subseteq runs =>
                /\ Accepted' = Accepted
                /\ ConsecutiveFailures' = ConsecutiveFailures]_historyVars
    BY <1>1
  <1>3. QED BY <1>2, HistoryInvariant, PTL DEF HistorySpec, PruningKeepsTheVerdict

-----------------------------------------------------------------------------
\* The snapshots after day n that are in place, or went by hand.
Above(n) == {m \in (files \cup erased) \cap verified : m > n}

\* Every name an engine is about to remove has Keep snapshots above it.
Spared ==
  \A e \in Engines : \A n \in eng[e].old : n \in 1..Days /\ Cardinality(Above(n)) >= Keep

LEMMA AboveIsFinite ==
  ASSUME HistoryInv, NEW n
  PROVE  IsFiniteSet(Above(n)) /\ Cardinality(Above(n)) \in Nat
  <1>1. IsFiniteSet(1..Days)
    BY HistoryConstants, FS_Interval
  <1>2. Above(n) \subseteq 1..Days
    BY DEF Above, HistoryInv, HistoryTypes, HistoryTypeOK
  <1>3. QED BY <1>1, <1>2, FS_Subset, FS_CardinalityType

LEMMA AboveGrows ==
  ASSUME HistoryInv', NEW n, NEW m, Above(n) \subseteq Above(m)', Cardinality(Above(n)) >= Keep
  PROVE  Cardinality(Above(m)') >= Keep
  <1>1. IsFiniteSet(1..Days)
    BY HistoryConstants, FS_Interval
  <1>2. Above(m)' \subseteq 1..Days
    BY DEF Above, HistoryInv, HistoryTypes, HistoryTypeOK
  <1>3. IsFiniteSet(Above(m)')
    BY <1>1, <1>2, FS_Subset
  <1>4. /\ Cardinality(Above(n)) \in Nat /\ Cardinality(Above(m)') \in Nat
        /\ Cardinality(Above(n)) <= Cardinality(Above(m)')
    BY <1>3, Grows
  <1>5. QED BY <1>4, HistoryConstants

\* What an engine lists to be removed is beyond the newest Keep there are.
LEMMA ListedIsSpared ==
  ASSUME HistoryInv, NEW n \in Old
  PROVE  n \in 1..Days /\ Cardinality(Above(n)) >= Keep
  <1> DEFINE after == {m \in Snapshots : m > n}
  <1>1. n \in Snapshots /\ Cardinality(after) >= Keep
    BY DEF Old
  <1>2. n \in 1..Days
    BY <1>1, HistoryConstants
       DEF Snapshots, IsSnapshot, HistoryInv, HistoryTypes, HistoryTypeOK, Foreign
  <1>3. after \subseteq Above(n)
    BY DEF Above, Snapshots, IsSnapshot, HistoryInv, PublishedIsVerified
  <1>4. Cardinality(after) \in Nat /\ Cardinality(after) <= Cardinality(Above(n))
    BY <1>3, AboveIsFinite, Grows
  <1>5. Cardinality(Above(n)) \in Nat
    BY AboveIsFinite
  <1>6. QED BY <1>1, <1>2, <1>4, <1>5, HistoryConstants

\* Removing listed snapshots spares what is above any of them, and above any
\* other that was spared before.
LEMMA RemovalSpares ==
  ASSUME HistoryInv, HistoryInv', Spared, NEW e \in Engines, PruneFiles(e),
         NEW n \in 1..Days, Cardinality(Above(n)) >= Keep
  PROVE  Cardinality(Above(n)') >= Keep
  <1> DEFINE removed == {m \in files \ files' : m > n}
  <1>1. files \ files' \subseteq eng[e].old /\ UNCHANGED <<erased, verified>>
    BY DEF PruneFiles
  <1>2. CASE removed = {}
    <2>1. Above(n) \subseteq Above(n)'
      BY <1>1, <1>2 DEF Above
    <2>2. QED BY <2>1, AboveGrows
  <1>3. CASE removed # {}
    <2>1. Days \in Nat /\ removed \subseteq 0..Days
      BY <1>1, HistoryConstants DEF Spared
    <2>2. PICK m \in removed : \A k \in removed : k <= m
      BY <2>1, <1>3, GreatestNumber
    <2>3. m \in Nat /\ n \in Nat /\ m > n /\ m \in eng[e].old
      BY <2>1, <1>1
    <2>4. Above(m) \subseteq Above(n)'
      <3> SUFFICES ASSUME NEW k \in Above(m) PROVE k \in Above(n)'
        OBVIOUS
      <3>1. k \in (files \cup erased) \cap verified /\ k > m
        BY DEF Above
      <3>2. k \in Nat
        BY <3>1 DEF HistoryInv, HistoryTypes, HistoryTypeOK
      <3>3. k > n /\ ~ (k <= m)
        BY <3>1, <3>2, <2>3
      <3>4. k \in files => k \in files'
        BY <3>3, <2>2
      <3>5. QED BY <3>1, <3>3, <3>4, <1>1 DEF Above
    <2>5. Cardinality(Above(m)) >= Keep
      BY <2>3 DEF Spared
    <2>6. QED BY <2>4, <2>5, AboveGrows
  <1>4. QED BY <1>2, <1>3

\* Removed names are spared as well: the newest of them is.
LEMMA RemovedIsSpared ==
  ASSUME HistoryInv, HistoryInv', Spared, NEW e \in Engines, PruneFiles(e),
         NEW n \in files \ files'
  PROVE  n \in verified /\ Cardinality(Above(n)') >= Keep
  <1>1. n \in eng[e].old
    BY DEF PruneFiles
  <1>2. n \in 1..Days /\ Cardinality(Above(n)) >= Keep
    BY <1>1 DEF Spared
  <1>3. n \in verified
    BY <1>2, HistoryConstants DEF HistoryInv, PublishedIsVerified, Foreign
  <1>4. QED BY <1>2, <1>3, RemovalSpares

\* Steps that remove nothing by pruning only add to what is above a name.
LEMMA OthersSpare ==
  ASSUME HistoryInv, [HistoryNext]_historyVars
  PROVE  \/ \E e \in Engines : PruneFiles(e)
         \/ \A n : Above(n) \subseteq Above(n)'
  <1>1. CASE DeleteFile
    <2>1. \A n : Above(n) \subseteq Above(n)'
      BY <1>1 DEF DeleteFile, Above
    <2>2. QED BY <2>1
  <1>2. CASE UNCHANGED <<files, verified, erased>>
    BY <1>2 DEF Above
  <1>3. ASSUME NEW e \in Engines, Publish(e)
        PROVE  \A n : Above(n) \subseteq Above(n)'
    BY <1>3 DEF Publish, Above
  <1>4. QED
    BY <1>1, <1>2, <1>3 DEF HistoryNext, historyVars, StartRun, FinishRun, TakeNone,
       Take, Stage, ListFiles, PruneRuns, Kill, NextDay

\* An engine comes by a name to remove when it lists the directory.
LEMMA OldComesFromListing ==
  ASSUME HistoryInv, [HistoryNext]_historyVars, NEW e \in Engines, NEW n \in eng'[e].old
  PROVE  n \in eng[e].old \/ (n \in Old /\ UNCHANGED <<files, verified, erased>>)
  <1>t. HistoryTypes /\ \A f \in Engines : eng[f] \in EngineState
    BY EngineTypes DEF HistoryInv
  \* The engine f goes on with the same names, or with none.
  <1>g. ASSUME NEW f \in Engines, NEW pc \in EnginePC, Go(f, pc)
        PROVE  n \in eng[e].old
    BY <1>g, <1>t, GoTypes
  <1>s. ASSUME NEW f \in Engines, NEW s \in EngineState, eng' = [eng EXCEPT ![f] = s],
               s.old \subseteq eng[f].old
        PROVE  n \in eng[e].old
    BY <1>s, <1>t, EngineBecomes
  <1>1. ASSUME NEW f \in Engines, NEW dry \in BOOLEAN, StartRun(f, dry)
        PROVE  n \in eng[e].old
    BY <1>1, <1>t DEF StartRun, EngineState, HistoryTypes, HistoryTypeOK
  <1>2. ASSUME NEW f \in Engines, NEW err \in BOOLEAN, FinishRun(f, err)
        PROVE  n \in eng[e].old
    BY <1>2, <1>g DEF FinishRun, EnginePC
  <1>3. ASSUME NEW f \in Engines,
               TakeNone(f) \/ Stage(f) \/ Publish(f) \/ PruneRuns(f)
        PROVE  n \in eng[e].old
    BY <1>3, <1>g DEF TakeNone, Stage, Publish, PruneRuns, EnginePC
  <1>4. ASSUME NEW f \in Engines, Take(f) PROVE n \in eng[e].old
    BY <1>4, <1>t DEF Take, EngineState, HistoryTypes, HistoryTypeOK
  <1>5. ASSUME NEW f \in Engines, ListFiles(f)
        PROVE  n \in eng[e].old \/ (n \in Old /\ UNCHANGED <<files, verified, erased>>)
    <2>1. eng'[e].old = IF f = e THEN Old ELSE eng[e].old
      BY <1>5, <1>t DEF ListFiles, EngineState, HistoryTypes, HistoryTypeOK
    <2>2. QED BY <2>1, <1>5 DEF ListFiles
  <1>6. ASSUME NEW f \in Engines, PruneFiles(f) PROVE n \in eng[e].old
    BY <1>6, <1>t DEF PruneFiles, EngineState, HistoryTypes, HistoryTypeOK
  <1>7. ASSUME NEW f \in Engines, Kill(f) PROVE n \in eng[e].old
    <2>1. Resting.old = {}
      BY DEF Resting
    <2>2. QED BY <2>1, <1>7, <1>s, RestingType DEF Kill
  <1>8. CASE UNCHANGED eng
    BY <1>8
  <1>9. QED
    BY <1>1, <1>2, <1>3, <1>4, <1>5, <1>6, <1>7, <1>8
       DEF HistoryNext, historyVars, NextDay, DeleteFile

LEMMA SparedStep ==
  HistoryInv /\ HistoryInv' /\ Spared /\ [HistoryNext]_historyVars => Spared'
  <1> SUFFICES ASSUME HistoryInv, HistoryInv', Spared, [HistoryNext]_historyVars,
                      NEW e \in Engines, NEW n \in eng'[e].old
               PROVE  n \in 1..Days /\ Cardinality(Above(n)') >= Keep
    BY DEF Spared
  <1>1. n \in 1..Days /\ Cardinality(Above(n)) >= Keep
    BY OldComesFromListing, ListedIsSpared DEF Spared
  <1>2. CASE \E f \in Engines : PruneFiles(f)
    BY <1>1, <1>2, RemovalSpares
  <1>3. CASE \A m : Above(m) \subseteq Above(m)'
    BY <1>1, <1>3, AboveGrows
  <1>4. QED BY <1>1, <1>2, <1>3, OthersSpare

LEMMA SparedInvariant == HistorySpec => [](HistoryInv /\ Spared)
  <1>1. HistoryInit => Spared
    BY DEF HistoryInit, Spared, Resting
  <1>2. QED
    BY <1>1, HistoryInitially, HistoryInvStep, SparedStep, PTL DEF HistorySpec

\* Only pruning and an operator remove a snapshot.
LEMMA OnlyPruningRemoves ==
  ASSUME [HistoryNext]_historyVars, eng' # eng, NEW n \in files \ files'
  PROVE  \E e \in Engines : PruneFiles(e)
  BY DEF HistoryNext, historyVars, StartRun, FinishRun, TakeNone, Take, Stage, Publish,
         ListFiles, PruneRuns, Kill, NextDay, DeleteFile

\* Whoever prunes beside it, and on whatever it saw of the directory: a process
\* removes only snapshots that were verified, and only where Keep newer ones
\* remain or went by an operator's hand (backup.go, Backups.prune).
THEOREM TheNewestAreKept == HistorySpec => PruningKeepsTheNewest
  <1>1. ASSUME HistoryInv, HistoryInv', Spared, [HistoryNext]_historyVars, eng' # eng,
               NEW n \in files \ files'
        PROVE  /\ n \in verified
               /\ Cardinality({m \in (files' \cup erased) \cap verified : m > n}) >= Keep
    <2>1. PICK e \in Engines : PruneFiles(e)
      BY <1>1, OnlyPruningRemoves
    <2>2. n \in verified /\ Cardinality(Above(n)') >= Keep
      BY <2>1, <1>1, RemovedIsSpared
    <2>3. UNCHANGED <<erased, verified>>
      BY <2>1 DEF PruneFiles
    <2>4. Above(n)' = {m \in (files' \cup erased) \cap verified : m > n}
      BY <2>3 DEF Above
    <2>5. QED BY <2>2, <2>4
  <1>2. HistoryInv /\ HistoryInv' /\ Spared /\ [HistoryNext]_historyVars
          => [eng' # eng =>
                \A n \in files \ files' :
                  /\ n \in verified
                  /\ Cardinality({m \in (files' \cup erased) \cap verified : m > n})
                       >= Keep]_historyVars
    BY <1>1
  <1>3. QED BY <1>2, SparedInvariant, PTL DEF HistorySpec, PruningKeepsTheNewest
=============================================================================
