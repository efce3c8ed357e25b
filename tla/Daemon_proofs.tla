--------------------------- MODULE Daemon_proofs ---------------------------
(***************************************************************************)
(* Type correctness of Daemon; that the store is closed under nobody; that *)
(* passes keep their distance; and that one failed pass leaves the probe   *)
(* green: for every interval, header and timeout.                          *)
(***************************************************************************)
EXTENDS Daemon, TLAPS

-----------------------------------------------------------------------------
(* Delays. *)

\* The interval Loop goes by is a natural number, and no less than the floor.
LEMMA EveryType == DaemonTypeOK => Every \in Nat /\ Every >= MinInterval
BY DaemonConstants DEF DaemonTypeOK, Every, Max2

\* A hint that a duration can hold is read as it was sent.
LEMMA HintIsRead ==
  ASSUME NEW v \in Nat, v < Word \div 2
  PROVE  Wrapped(v) = v
<1> DEFINE h == Word \div 2
<1>1. Word \in Nat /\ Word > 0 /\ h \in Nat /\ 2 * h <= Word
  BY DaemonConstants, SMT
<1>2. v + h \in 0..(Word - 1)
  BY <1>1
<1>3. (v + h) % Word = v + h
  BY <1>1, <1>2, SMT
<1> QED
  BY <1>1, <1>3 DEF Wrapped

\* What a header is read as is an integer.
LEMMA HintType == ASSUME NEW v \in Int PROVE ParseRetryAfter(v) \in Int
<1>1. Word \in Nat /\ Word > 0 /\ Word \div 2 \in Int
  BY DaemonConstants, SMT
<1>2. ((v + Word \div 2) % Word) \in Int
  BY <1>1, SMT
<1> QED
  BY <1>1, <1>2 DEF ParseRetryAfter, Wrapped

\* A delay is at least the floor, at most the interval or a day, and no
\* shorter than the hint, up to a day.
LEMMA DelayBounds ==
  ASSUME DaemonTypeOK, NEW h \in Int
  PROVE  /\ NextDelay(h) \in 0..Max2(Every, Day)
         /\ NextDelay(h) >= MinInterval
         /\ NextDelay(h) >= Min2(h, Day)
BY EveryType, DaemonConstants DEF NextDelay, Min2, Max2

-----------------------------------------------------------------------------
(* Type correctness. *)

LEMMA TypeInit == Init => DaemonTypeOK
<1> SUFFICES ASSUME Init PROVE DaemonTypeOK
  OBVIOUS
<1>1. Every \in Nat
  BY DaemonConstants DEF Init, Every, Max2
<1>2. wait \in 0..Max2(Every, Day)
  BY <1>1, DaemonConstants DEF Init, Max2
<1>3. age \in 0..AgeLimit
  BY <1>1 DEF Init, AgeLimit
<1>4. work \in {"none", "start"}
  BY DEF Init
<1>5. /\ main \in {"bind", "serve", "drain", "stop", "direct", "closed"}
      /\ cancelled \in BOOLEAN /\ stopped \in BOOLEAN /\ cutShort \in BOOLEAN
  BY DEF Init
<1>6. /\ drain \in Nat /\ busy \in Nat /\ asked \in Int /\ missed \in 0..2
      /\ since \in 0..Day
      /\ request \in Nat \cup {None} /\ callback \in Nat \cup {None}
  BY DaemonConstants DEF Init
<1> QED
  BY <1>2, <1>3, <1>4, <1>5, <1>6 DEF Init, DaemonTypeOK

LEMMA LoopEntered ==
  ASSUME DaemonTypeOK, EnterLoop
  PROVE  /\ work' = "wait" /\ wait' \in 0..Max2(Every, Day) /\ busy' \in Nat
         /\ since' \in 0..Day /\ asked' \in Int /\ UNCHANGED <<age, missed>>
<1>1. Every \in Nat /\ Every >= 4
  BY EveryType, DaemonConstants
<1>2. PICK j \in 0..(Every \div 4 - 1) : wait' = j
  BY DEF EnterLoop
<1>3. Every \div 4 \in Nat /\ Every \div 4 - 1 <= Every
  BY <1>1, SMT
<1>4. j \in 0..Max2(Every, Day)
  BY <1>1, <1>2, <1>3, DaemonConstants DEF Max2
<1> QED
  BY <1>2, <1>4, DaemonConstants DEF EnterLoop

LEMMA TypeNext == DaemonTypeOK /\ [Next]_vars => DaemonTypeOK'
<1> SUFFICES ASSUME DaemonTypeOK, [Next]_vars PROVE DaemonTypeOK'
  OBVIOUS
<1> USE DaemonConstants
<1>0. Every \in Nat
  BY EveryType
<1>S. interval' = interval => /\ Every' = Every /\ AgeLimit' = AgeLimit
                              /\ Max2(Every, Day)' = Max2(Every, Day)
  BY DEF Every, AgeLimit, Max2
<1>1. CASE StartRunner
  <2>1. CASE EnterLoop
    BY <1>1, <2>1, <1>S, LoopEntered DEF StartRunner, DaemonTypeOK, mainVars
  <2>2. CASE ~ EnterLoop
    BY <1>1, <2>2, <1>S DEF StartRunner, RunnerEnds, DaemonTypeOK, mainVars, probeVars
  <2> QED
    BY <2>1, <2>2
<1>2. CASE AwaitEnds
  BY <1>2, <1>S DEF AwaitEnds, DaemonTypeOK, mainVars, probeVars
<1>3. CASE ConsentClosed
  <2>0. cutShort' \in BOOLEAN
    BY <1>3 DEF ConsentClosed
  <2>1. CASE EnterLoop
    BY <1>3, <2>0, <2>1, <1>S, LoopEntered DEF ConsentClosed, DaemonTypeOK
  <2>2. CASE RunnerEnds
    BY <1>3, <2>0, <2>2, <1>S DEF ConsentClosed, RunnerEnds, DaemonTypeOK, probeVars
  <2>3. CASE RunnerRestarts
    BY <1>3, <2>0, <2>3, <1>S DEF ConsentClosed, RunnerRestarts, DaemonTypeOK, probeVars
  <2> QED
    BY <1>3, <2>1, <2>2, <2>3 DEF ConsentClosed
<1>4. CASE PassStarts
  BY <1>4, <1>S DEF PassStarts, DaemonTypeOK, mainVars, probeVars
<1>5. CASE LoopStops
  BY <1>5, <1>S DEF LoopStops, RunnerEnds, DaemonTypeOK, mainVars, probeVars
<1>6. CASE PassEnds
  <2>1. /\ wait' \in 0..Max2(Every, Day) /\ asked' \in Int
        /\ age' \in 0..AgeLimit /\ missed' \in 0..2
    <3>1. CASE wait' = NextDelay(0) /\ asked' = 0 /\ age' = 0 /\ missed' = 0
      BY <3>1, <1>0, DelayBounds DEF AgeLimit
    <3>2. CASE \E v \in RetryAfters \cup {0} :
                 /\ wait' = NextDelay(ParseRetryAfter(v)) /\ asked' = v
                 /\ missed' = IF wait' > Every THEN 2 ELSE Min2(missed + 1, 2)
                 /\ UNCHANGED age
      <4>1. PICK v \in RetryAfters \cup {0} :
                 /\ wait' = NextDelay(ParseRetryAfter(v)) /\ asked' = v
                 /\ missed' = IF wait' > Every THEN 2 ELSE Min2(missed + 1, 2)
                 /\ UNCHANGED age
        BY <3>2
      <4>2. v \in Int
        OBVIOUS
      <4>3. ParseRetryAfter(v) \in Int
        BY <4>2, HintType
      <4> QED
        BY <4>1, <4>2, <4>3, DelayBounds DEF DaemonTypeOK, Min2
    <3> QED
      BY <1>6, <3>1, <3>2 DEF PassEnds
  <2> QED
    BY <1>6, <2>1, <1>S DEF PassEnds, DaemonTypeOK, mainVars
<1>7. CASE GrantRevoked
  BY <1>7, <1>S DEF GrantRevoked, DaemonTypeOK, mainVars
<1>8. CASE Bind
  BY <1>8, <1>S DEF Bind, DaemonTypeOK, probeVars
<1>9. CASE ServerDied
  BY <1>9, <1>S DEF ServerDied, DaemonTypeOK, workVars, probeVars
<1>10. CASE WorkReturned
  BY <1>10, <1>S DEF WorkReturned, DaemonTypeOK, workVars, probeVars
<1>11. CASE Close
  BY <1>11, <1>S DEF Close, DaemonTypeOK, workVars, probeVars
<1>12. CASE Cancel \/ ServerDies
  BY <1>12, <1>S DEF Cancel, ServerDies, DaemonTypeOK, mainVars, workVars, probeVars
<1>13. CASE Request \/ Answer \/ Callback \/ CallbackEnds
  BY <1>13, <1>S DEF Request, Answer, Callback, CallbackEnds, DaemonTypeOK, mainVars,
                     workVars, probeVars
<1>14. CASE Tick
  <2>1. drain' \in Nat
    BY <1>14 DEF Tick, Due, DaemonTypeOK
  <2>2. wait' \in 0..Max2(Every, Day)
    BY <1>14, <1>0 DEF Tick, Due, DaemonTypeOK, Max2
  <2>3. request' \in Nat \cup {None} /\ callback' \in Nat \cup {None}
    BY <1>14 DEF Tick, DaemonTypeOK, Older
  <2>4. since' \in 0..Day /\ age' \in 0..AgeLimit
    BY <1>14, <1>0 DEF Tick, DaemonTypeOK, AgeLimit, Min2
  <2>5. busy' \in Nat
    BY <1>14 DEF Tick, DaemonTypeOK
  <2> QED
    BY <1>14, <2>1, <2>2, <2>3, <2>4, <2>5, <1>S DEF Tick, DaemonTypeOK
<1>15. CASE UNCHANGED vars
  BY <1>15, <1>S DEF vars, DaemonTypeOK
<1> QED
  BY <1>1, <1>2, <1>3, <1>4, <1>5, <1>6, <1>7, <1>8, <1>9, <1>10, <1>11, <1>12,
     <1>13, <1>14, <1>15 DEF Next, WorkStep, MainStep

\* Every reachable state of the process is of the declared type.
THEOREM DaemonTypes == Spec => []DaemonTypeOK
BY TypeInit, TypeNext, PTL DEF Spec

-----------------------------------------------------------------------------
(* The store is closed under nobody. *)

\* Who may still be using the store, by where the command is.
Users ==
  /\ listener = "up" => main = "serve"
  /\ main = "bind" => work = "none" /\ request = None /\ callback = None
  /\ callback # None /\ ~ cutShort => work \in {"await", "close"}
  /\ main = "stop" /\ ~ cutShort => work = "done"
  /\ StoreOutlivesItsUsers

LEMMA UsersInit == Init => Users
BY DEF Init, Users, StoreOutlivesItsUsers

LEMMA UsersNext == DaemonTypeOK /\ Users /\ [Next]_vars => Users'
<1> SUFFICES ASSUME DaemonTypeOK, Users, [Next]_vars PROVE Users'
  OBVIOUS
<1> USE DEF Users, StoreOutlivesItsUsers
<1>1. CASE StartRunner
  BY <1>1 DEF StartRunner, EnterLoop, RunnerEnds, mainVars
<1>2. CASE AwaitEnds
  BY <1>2 DEF AwaitEnds, mainVars
<1>3. CASE ConsentClosed
  BY <1>3 DEF ConsentClosed, EnterLoop, RunnerRestarts, RunnerEnds
<1>4. CASE PassStarts \/ LoopStops \/ GrantRevoked
  BY <1>4 DEF PassStarts, LoopStops, GrantRevoked, RunnerEnds, mainVars
<1>5. CASE PassEnds
  BY <1>5 DEF PassEnds, mainVars
<1>6. CASE Bind
  BY <1>6 DEF Bind
<1>7. CASE ServerDied
  BY <1>7 DEF ServerDied, workVars
<1>8. CASE WorkReturned
  BY <1>8 DEF WorkReturned, workVars
<1>9. CASE Close
  BY <1>9 DEF Close, workVars
<1>10. CASE Cancel \/ ServerDies
  BY <1>10 DEF Cancel, ServerDies, mainVars, workVars
<1>11. CASE Request \/ Answer \/ Callback \/ CallbackEnds
  BY <1>11 DEF Request, Answer, Callback, CallbackEnds, mainVars, workVars
<1>12. CASE Tick
  BY <1>12 DEF Tick, Due, Older
<1>13. CASE UNCHANGED vars
  BY <1>13 DEF vars
<1> QED
  BY <1>1, <1>2, <1>3, <1>4, <1>5, <1>6, <1>7, <1>8, <1>9, <1>10, <1>11, <1>12,
     <1>13 DEF Next, WorkStep, MainStep

\* Unless a bounded wait ran out, the store is closed when neither the loop nor
\* a request nor a consent callback is at work.
THEOREM StoreIsClosedLast == Spec => []StoreOutlivesItsUsers
<1>1. Users => StoreOutlivesItsUsers
  BY DEF Users
<1> QED
  BY <1>1, TypeInit, TypeNext, UsersInit, UsersNext, PTL DEF Spec

-----------------------------------------------------------------------------
(* Passes keep their distance. *)

\* How long after the last pass the next may start.
Distance(d) ==
  /\ d >= MinInterval
  /\ asked < Word \div 2 => d >= Min2(asked, Day)
Spaced == work = "wait" => Distance(since + wait) \/ since = Day

LEMMA SpacedInit == Init => Spaced
BY DEF Init, Spaced

LEMMA SpacedNext == DaemonTypeOK /\ Spaced /\ [Next]_vars => Spaced'
<1> SUFFICES ASSUME DaemonTypeOK, Spaced, [Next]_vars PROVE Spaced'
  OBVIOUS
<1> USE DaemonConstants
<1>1. CASE StartRunner
  BY <1>1 DEF StartRunner, EnterLoop, RunnerEnds, Spaced
<1>2. CASE ConsentClosed
  BY <1>2 DEF ConsentClosed, EnterLoop, RunnerRestarts, RunnerEnds, Spaced
<1>3. CASE AwaitEnds \/ PassStarts \/ LoopStops \/ GrantRevoked
  BY <1>3 DEF AwaitEnds, PassStarts, LoopStops, GrantRevoked, RunnerEnds, Spaced
<1>4. CASE PassEnds
  <2>1. since' = 0 /\ work' = "wait"
    BY <1>4 DEF PassEnds
  <2>2. PICK v \in Int : wait' = NextDelay(ParseRetryAfter(v)) /\ asked' = v
    <3>1. CASE wait' = NextDelay(0) /\ asked' = 0
      <4>1. 0 < Word \div 2
        BY SMT
      <4>2. ParseRetryAfter(0) = 0
        BY <4>1, HintIsRead DEF ParseRetryAfter
      <4> QED
        BY <3>1, <4>2
    <3>2. CASE \E v \in RetryAfters \cup {0} :
                 wait' = NextDelay(ParseRetryAfter(v)) /\ asked' = v
      BY <3>2
    <3> QED
      BY <1>4, <3>1, <3>2 DEF PassEnds
  <2>3. wait' \in Nat /\ wait' >= MinInterval
    BY <2>2, HintType, DelayBounds, EveryType DEF Max2
  <2>4. ASSUME v < Word \div 2
        PROVE  wait' >= Min2(v, Day)
    <3>1. CASE v < 0
      BY <3>1, <2>3 DEF Min2
    <3>2. CASE v >= 0
      <4>1. ParseRetryAfter(v) = v
        BY <2>4, <3>2, HintIsRead DEF ParseRetryAfter
      <4> QED
        BY <2>2, <4>1, DelayBounds
    <3> QED
      BY <3>1, <3>2
  <2> QED
    BY <2>1, <2>2, <2>3, <2>4 DEF Spaced, Distance
<1>5. CASE MainStep
  BY <1>5 DEF MainStep, Bind, ServerDied, WorkReturned, Close, workVars, probeVars,
              Spaced, Distance
<1>6. CASE Cancel \/ ServerDies
  BY <1>6 DEF Cancel, ServerDies, workVars, probeVars, Spaced, Distance
<1>7. CASE Request \/ Answer \/ Callback \/ CallbackEnds
  BY <1>7 DEF Request, Answer, Callback, CallbackEnds, workVars, probeVars, Spaced,
              Distance
<1>8. CASE Tick
  <2> SUFFICES ASSUME work = "wait" PROVE (Distance(since + wait))' \/ since' = Day
    BY <1>8 DEF Tick, Spaced
  <2>1. wait' = wait - 1 /\ since' = Min2(since + 1, Day) /\ asked' = asked
    BY <1>8 DEF Tick
  <2>2. since' = Day \/ since' + wait' = since + wait
    BY <2>1 DEF DaemonTypeOK, Min2
  <2>3. since = Day => since' = Day
    BY <2>1 DEF DaemonTypeOK, Min2
  <2> QED
    BY <2>1, <2>2, <2>3 DEF Spaced, Distance
<1>9. CASE UNCHANGED vars
  BY <1>9 DEF vars, Spaced, Distance
<1> QED
  BY <1>1, <1>2, <1>3, <1>4, <1>5, <1>6, <1>7, <1>8, <1>9 DEF Next, WorkStep

\* Within one Loop no pass starts sooner than the floor, or than a server asked.
THEOREM PassesKeepTheirDistance == Spec => NoPassTooSoon
<1>1. DaemonTypeOK /\ Spaced /\ [Next]_vars =>
        [work = "wait" /\ work' = "pass" =>
           /\ since >= MinInterval
           /\ asked < Word \div 2 => since >= Min2(asked, Day)]_vars
  <2> SUFFICES ASSUME DaemonTypeOK, Spaced, [Next]_vars,
                      work = "wait", work' = "pass"
               PROVE  Distance(since)
    BY DEF Distance
  <2>1. wait = 0
    BY DEF Next, WorkStep, StartRunner, ConsentClosed, PassStarts, LoopStops, PassEnds,
           GrantRevoked, AwaitEnds, MainStep, Bind, ServerDied, WorkReturned, Close,
           Cancel, ServerDies, Request, Answer, Callback, CallbackEnds, Tick, vars,
           workVars, RunnerEnds, RunnerRestarts, EnterLoop
  <2> QED
    BY <2>1, DaemonConstants DEF Spaced, Distance, DaemonTypeOK, Min2
<1> QED
  BY <1>1, TypeInit, TypeNext, SpacedInit, SpacedNext, PTL DEF Spec, NoPassTooSoon

-----------------------------------------------------------------------------
(* One failure leaves the probe green. *)

\* How old the last clean pass may be: a clean pass behind, the wait is an
\* interval; a failed one, it is two, and what that pass took.
Fresh ==
  /\ work \in {"none", "start", "await", "close"} => missed = 2
  /\ work = "done" => Done \/ missed = 2
  /\ work = "pass" => busy <= MaxPass
  /\ ~ Done /\ work = "wait" =>
       /\ missed = 0 => age + wait <= Every
       /\ missed = 1 => age + wait <= 2 * Every + MaxPass
  /\ ~ Done /\ work = "pass" =>
       /\ missed = 0 => age <= Every + busy
       /\ missed = 1 => age <= 2 * Every + MaxPass + busy

\* Two waits and a pass.
LEMMA TwoWaits ==
  ASSUME NEW a \in Nat, NEW w \in Nat, NEW e \in Nat, NEW p \in Nat,
         a <= e + p, w <= e
  PROVE  a + w <= 2 * e + p
OBVIOUS

LEMMA FreshInit == Init => Fresh
BY DEF Init, Fresh

LEMMA FreshNext == DaemonTypeOK /\ Users /\ Fresh /\ [Next]_vars => Fresh'
<1> SUFFICES ASSUME DaemonTypeOK, Users, Fresh, [Next]_vars PROVE Fresh'
  OBVIOUS
<1> USE DaemonConstants DEF Done
<1>0. Every \in Nat /\ MaxPass \in Nat
  BY EveryType
<1>T. age \in Nat /\ missed \in 0..2
  BY <1>0 DEF DaemonTypeOK, AgeLimit
<1>E. interval' = interval => Every' = Every
  BY DEF Every
<1>1. CASE StartRunner
  BY <1>1 DEF StartRunner, EnterLoop, RunnerEnds, Fresh, mainVars, probeVars
<1>2. CASE ConsentClosed
  BY <1>2 DEF ConsentClosed, EnterLoop, RunnerRestarts, RunnerEnds, Fresh, probeVars
<1>3. CASE AwaitEnds \/ GrantRevoked
  BY <1>3 DEF AwaitEnds, GrantRevoked, Fresh, mainVars, probeVars
<1>4. CASE LoopStops
  BY <1>4 DEF LoopStops, RunnerEnds, Fresh, mainVars, probeVars
<1>5. CASE PassStarts
  BY <1>0, <1>5, <1>E DEF PassStarts, Fresh, mainVars, probeVars, DaemonTypeOK
<1>6. CASE PassEnds
  <2>1. /\ work = "pass" /\ work' = "wait" /\ UNCHANGED <<cancelled, stopped>>
        /\ Every' = Every
    BY <1>6, <1>E DEF PassEnds, mainVars
  <2>2. CASE wait' = NextDelay(0) /\ age' = 0 /\ missed' = 0
    BY <1>0, <2>1, <2>2 DEF Fresh, NextDelay
  <2>3. CASE \E v \in RetryAfters \cup {0} :
               /\ wait' = NextDelay(ParseRetryAfter(v))
               /\ missed' = IF wait' > Every THEN 2 ELSE Min2(missed + 1, 2)
               /\ UNCHANGED age
    <3>1. PICK v \in RetryAfters \cup {0} :
               /\ wait' = NextDelay(ParseRetryAfter(v))
               /\ missed' = IF wait' > Every THEN 2 ELSE Min2(missed + 1, 2)
               /\ UNCHANGED age
      BY <2>3
    <3>2. wait' \in Nat
      <4>1. v \in Int
        OBVIOUS
      <4> QED
        BY <1>0, <3>1, <4>1, HintType, DelayBounds DEF Max2
    <3>3. CASE wait' > Every
      BY <2>1, <3>1, <3>3 DEF Fresh
    <3>4. CASE ~ wait' > Every
      <4>1. missed' = 2 \/ (missed' = 1 /\ missed = 0)
        BY <3>1, <3>4 DEF Min2, DaemonTypeOK
      <4>2. missed = 0 /\ ~ Done => age <= Every + MaxPass
        BY <1>0, <2>1 DEF Fresh, DaemonTypeOK, AgeLimit
      <4>3. missed' # 0 /\ age' = age
        BY <3>1, <4>1
      <4>4. ~ Done /\ missed' = 1 => age' + wait' <= 2 * Every + MaxPass
        <5> SUFFICES ASSUME missed = 0, age <= Every + MaxPass
                     PROVE  age + wait' <= 2 * Every + MaxPass
          BY <4>1, <4>2, <4>3
        <5>1. wait' <= Every
          BY <1>0, <3>2, <3>4
        <5> QED
          BY <1>0, <1>T, <3>2, <5>1, TwoWaits
      <4>5. Done' = Done
        BY <2>1
      <4> QED
        BY <2>1, <4>3, <4>4, <4>5 DEF Fresh
    <3> QED
      BY <3>3, <3>4
  <2> QED
    BY <1>6, <2>2, <2>3 DEF PassEnds
<1>7. CASE MainStep
  <2>1. CASE Bind
    BY <2>1, <1>E DEF Bind, probeVars, Users, Fresh
  <2>2. CASE ServerDied \/ WorkReturned
    <3>1. stopped' = TRUE /\ UNCHANGED <<work, wait, busy, missed>>
      BY <2>2 DEF ServerDied, WorkReturned, workVars, probeVars
    <3> QED
      BY <3>1 DEF Fresh
  <2>3. CASE Close
    BY <2>3, <1>E DEF Close, workVars, probeVars, Fresh
  <2> QED
    BY <1>7, <2>1, <2>2, <2>3 DEF MainStep
<1>8. CASE Cancel \/ ServerDies
  BY <1>8, <1>E DEF Cancel, ServerDies, workVars, mainVars, probeVars, Fresh
<1>9. CASE Request \/ Answer \/ Callback \/ CallbackEnds
  BY <1>9, <1>E DEF Request, Answer, Callback, CallbackEnds, workVars, mainVars,
                    probeVars, Fresh
<1>10. CASE Tick
  <2>1. /\ UNCHANGED <<cancelled, stopped, work, missed>> /\ Every' = Every
        /\ age' \in Nat /\ age' <= age + 1
    BY <1>0, <1>10, <1>E DEF Tick, DaemonTypeOK, AgeLimit, Min2
  <2>2. CASE work = "wait"
    BY <1>0, <1>10, <2>1, <2>2 DEF Tick, Fresh, DaemonTypeOK, AgeLimit
  <2>3. CASE work = "pass"
    <3>1. busy' = busy + 1 /\ busy' <= MaxPass
      BY <1>0, <1>10, <2>3 DEF Tick, Due, Fresh, DaemonTypeOK
    <3> QED
      BY <1>0, <2>1, <2>3, <3>1 DEF Fresh, DaemonTypeOK, AgeLimit
  <2>4. CASE work \notin {"wait", "pass"}
    BY <2>1, <2>4 DEF Fresh
  <2> QED
    BY <2>2, <2>3, <2>4
<1>11. CASE UNCHANGED vars
  BY <1>11, <1>E DEF vars, Fresh
<1> QED
  BY <1>1, <1>2, <1>3, <1>4, <1>5, <1>6, <1>7, <1>8, <1>9, <1>10, <1>11
     DEF Next, WorkStep

\* If a pass takes at most half the floor, the derived window never turns the
\* probe red over a single failed pass.
THEOREM OneFailureIsForgiven == Spec => []OneFailureStaysGreen
<1>1. DaemonTypeOK /\ Fresh => OneFailureStaysGreen
  <2> SUFFICES ASSUME DaemonTypeOK, Fresh, 2 * MaxPass <= MinInterval,
                      missed <= 1, ~ Done
               PROVE  age <= 3 * Every
    BY DEF OneFailureStaysGreen, PassesAreShort, EffectiveMaxAge, Every
  <2>1. Every \in Nat /\ Every >= MinInterval /\ MaxPass \in Nat /\ age \in Nat
    BY EveryType, DaemonConstants DEF DaemonTypeOK, AgeLimit
  <2>2. work \in {"wait", "pass"} /\ missed \in {0, 1}
    BY DEF Fresh, DaemonTypeOK
  <2>3. wait \in Nat /\ busy \in Nat
    BY <2>1, DaemonConstants DEF DaemonTypeOK, Max2
  <2> QED
    BY <2>1, <2>2, <2>3, DaemonConstants DEF Fresh
<1> QED
  BY <1>1, TypeInit, TypeNext, UsersInit, UsersNext, FreshInit, FreshNext, PTL DEF Spec
=============================================================================
