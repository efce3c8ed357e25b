------------------------------- MODULE Daemon -------------------------------
(***************************************************************************)
(* The process `difmsync sync --loop`: Engine.Loop, which decides when the *)
(* next pass starts (internal/syncer/loop.go); the runner around it, which *)
(* starts it anew after consent (runloop.go); and serveWhile, which runs   *)
(* it beside the status listener and winds both down (main.go,             *)
(* httpserve.go) before the store is closed.                               *)
(*                                                                         *)
(* Time is counted in ticks.  A timer is the number of ticks it has left;  *)
(* what is due happens before the next tick.  What a pass does is left to  *)
(* Engine, what the runner does with the token to Consent, and the verdict *)
(* on the run history to RunHistory; here a pass takes time and ends.      *)
(***************************************************************************)
EXTENDS Integers

CONSTANTS
  Intervals,     \* values of --interval
  MinInterval,   \* syncer.MinInterval
  Day,           \* maxRetryDelay
  Word,          \* durations are integers modulo Word, centred on 0
  RetryAfters,   \* what a Retry-After header may say, in ticks; 0 for nothing
  MaxPass,       \* ticks a pass may take
  MaxRequest,    \* ticks a status request may take: handlerTimeout
  MaxExchange,   \* ticks a consent callback may take
  WorkDrain,     \* workDrainTimeout
  ServeDrain     \* serveDrainTimeout

ASSUME DaemonConstants ==
  /\ Intervals \subseteq Nat
  /\ MinInterval \in Nat /\ MinInterval >= 4
  /\ Day \in Nat /\ Day >= MinInterval
  /\ Word \in Nat /\ Word > 2 * Day
  /\ RetryAfters \subseteq Int
  /\ {MaxPass, MaxRequest, MaxExchange, WorkDrain, ServeDrain} \subseteq Nat

VARIABLES
  interval,   \* --interval
  main,       \* where the command is
  listener,   \* the status listener: Err has fired when it is "dead"
  drain,      \* time left to serveWhile's bounded wait, or srv.stop's
  cancelled,  \* SIGTERM or SIGINT: the context is done
  stopped,    \* stopWork was called: workCtx is done
  work,       \* where syncRunner.run is
  wait,       \* time left until the next pass
  busy,       \* how long the pass, or the consent listener's stop, has run
  request,    \* how long a status request has run, or None
  callback,   \* how long a consent callback has run, or None
  since,      \* history: time since this Loop's last pass, Day if none
  asked,      \* history: the back-off that pass was told to keep
  age,        \* history: time since a clean pass finished
  missed,     \* history: how many passes the probe has been denied, up to 2
  cutShort    \* history: a bounded wait ran out

workVars == <<work, wait, busy>>
mainVars == <<main, listener, drain, stopped, cutShort>>
probeVars == <<since, asked, age, missed>>
vars == <<interval, main, listener, drain, cancelled, stopped, work, wait,
          busy, request, callback, since, asked, age, missed, cutShort>>

None == -1
Min2(a, b) == IF a < b THEN a ELSE b
Max2(a, b) == IF a > b THEN a ELSE b

-----------------------------------------------------------------------------
(* Delays. *)

\* The interval Loop goes by.
Every == Max2(interval, MinInterval)

\* Seconds times time.Second, in an int64; what is negative, past or no number
\* counts as nothing.
Wrapped(n) == ((n + Word \div 2) % Word) - (Word \div 2)
ParseRetryAfter(v) == IF v < 0 THEN 0 ELSE Wrapped(v)

\* Slip: no floor under the hint.
NextDelayUnfloored(hint) == IF hint <= 0 THEN Every ELSE Min2(hint, Day)

\* Slip: whatever the server says.
NextDelayUncapped(hint) == IF hint <= 0 THEN Every ELSE Max2(hint, MinInterval)

NextDelay(hint) ==
  IF hint <= 0 THEN Every ELSE Min2(Max2(hint, MinInterval), Day)

\* The freshness window when --max-age is not set.
MaxAgeUnfloored == 3 * interval      \* Slip: of the interval as it was given
EffectiveMaxAge == 3 * Max2(interval, MinInterval)
AgeLimit == 3 * Every + 1            \* an age past every window

-----------------------------------------------------------------------------
Init ==
  /\ interval \in Intervals
  /\ main \in {"bind", "direct"}     \* with --http-addr, and without
  /\ listener = "none" /\ drain = 0 /\ cancelled = FALSE /\ stopped = FALSE
  /\ work = IF main = "direct" THEN "start" ELSE "none"
  /\ wait = 0 /\ busy = 0 /\ request = None /\ callback = None
  /\ since = Day /\ asked = 0 /\ age = AgeLimit /\ missed = 2
  /\ cutShort = FALSE

\* The context the work runs under is done.
Done == cancelled \/ stopped

-----------------------------------------------------------------------------
(* syncRunner.run and Engine.Loop. *)

\* There is a token and an engine: Loop begins, with a jittered first wait.
EnterLoop ==
  /\ work' = "wait"
  /\ \E jitter \in 0..(Every \div 4 - 1) : wait' = jitter
  /\ busy' = 0 /\ since' = Day /\ asked' = 0
  /\ UNCHANGED <<age, missed>>

RunnerEnds == work' = "done" /\ UNCHANGED <<wait, busy, probeVars>>

\* The new engine finds its token revoked before its first pass: once more
\* from the top.  (From there itself, that changes nothing here.)
RunnerRestarts == work' = "start" /\ UNCHANGED <<wait, busy, probeVars>>

\* GetAccount, and what follows from whether a token is stored; or an error.
StartRunner ==
  /\ work = "start"
  /\ \/ ~ Done /\ EnterLoop
     \/ work' = "await" /\ UNCHANGED <<wait, busy, probeVars>>
     \/ RunnerEnds
  /\ UNCHANGED <<interval, mainVars, cancelled, request, callback>>

\* Slip: no case for the context in the consent wait's select.
AwaitDeaf ==
  /\ work = "await" /\ ~ Done
  /\ work' = "close" /\ busy' = 0
  /\ UNCHANGED <<interval, mainVars, cancelled, wait, request, callback, probeVars>>

\* awaitConsent returns: a token, a dead listener, or the context; srv.stop
\* begins.
AwaitEnds ==
  /\ work = "await"
  /\ work' = "close" /\ busy' = 0
  /\ UNCHANGED <<interval, mainVars, cancelled, wait, request, callback, probeVars>>

\* srv.stop ends, and the account is read again.
ConsentClosed ==
  /\ work = "close"
  /\ callback = None \/ busy = ServeDrain
  /\ (~ Done /\ EnterLoop) \/ (~ Done /\ RunnerRestarts) \/ RunnerEnds
  /\ cutShort' = (cutShort \/ callback # None)
  /\ UNCHANGED <<interval, main, listener, drain, stopped, cancelled, request,
                 callback>>

\* The select of Loop: the timer.
PassStarts ==
  /\ work = "wait" /\ wait = 0
  /\ work' = "pass" /\ busy' = 0
  /\ UNCHANGED <<interval, mainVars, cancelled, wait, request, callback, probeVars>>

\* The select of Loop: the context.
LoopStops ==
  /\ work = "wait" /\ Done
  /\ RunnerEnds
  /\ UNCHANGED <<interval, mainVars, cancelled, request, callback>>

\* A pass ends, and the next wait begins.
PassEnds ==
  /\ work = "pass"
  /\ work' = "wait" /\ busy' = 0 /\ since' = 0
  /\ \/ \* clean
        /\ wait' = NextDelay(0) /\ asked' = 0 /\ age' = 0 /\ missed' = 0
     \/ \* failed, and perhaps told when to come back
        \E v \in RetryAfters \cup {0} :
          /\ wait' = NextDelay(ParseRetryAfter(v))
          /\ asked' = v
          /\ missed' = IF wait' > Every THEN 2 ELSE Min2(missed + 1, 2)
          /\ UNCHANGED age
  /\ UNCHANGED <<interval, mainVars, cancelled, request, callback>>

\* ErrGrantRevoked leaves Loop; the runner clears the token, or finds it
\* replaced, and goes round again.
GrantRevoked ==
  /\ work = "pass"
  /\ work' = "start" /\ busy' = 0 /\ missed' = 2
  /\ UNCHANGED <<interval, mainVars, cancelled, wait, request, callback,
                 since, asked, age>>

WorkStep == \/ StartRunner \/ ConsentClosed \/ PassStarts \/ LoopStops
            \/ PassEnds \/ GrantRevoked
            \/ (Done /\ AwaitEnds)

-----------------------------------------------------------------------------
(* serveWhile. *)

\* The listener is opened before the work starts; else the command fails.
Bind ==
  /\ main = "bind"
  /\ \/ main' = "serve" /\ listener' = "up" /\ work' = "start"
     \/ main' = "closed" /\ UNCHANGED <<listener, work>>
  /\ UNCHANGED <<interval, drain, stopped, cutShort, cancelled, wait, busy,
                 request, callback, probeVars>>

\* Slip: the work is told to stop and not waited for.
ServerDiedUnwaited ==
  /\ main = "serve" /\ listener = "dead"
  /\ main' = "stop" /\ stopped' = TRUE /\ drain' = ServeDrain
  /\ UNCHANGED <<interval, listener, cutShort, cancelled, workVars, request,
                 callback, probeVars>>

\* select: srv.Err.  The work is stopped, and waited for.
ServerDied ==
  /\ main = "serve" /\ listener = "dead"
  /\ main' = "drain" /\ stopped' = TRUE /\ drain' = WorkDrain
  /\ UNCHANGED <<interval, listener, cutShort, cancelled, workVars, request,
                 callback, probeVars>>

\* select: workErr; and the wait for it, bounded, once the server has died.
\* Deferred: stopWork, then srv.stop.
WorkReturned ==
  /\ \/ main = "serve" /\ work = "done"
     \/ main = "drain" /\ (work = "done" \/ drain = 0)
  /\ main' = "stop" /\ stopped' = TRUE /\ drain' = ServeDrain
  /\ listener' = "none"
  /\ cutShort' = (cutShort \/ work # "done")
  /\ UNCHANGED <<interval, cancelled, workVars, request, callback, probeVars>>

\* srv.stop returns; then, deferred by withStore, the store is closed.
Close ==
  /\ \/ main = "stop" /\ (request = None \/ drain = 0)
     \/ main = "direct" /\ work = "done"
  /\ main' = "closed"
  /\ cutShort' = (cutShort \/ request # None)
  /\ UNCHANGED <<interval, listener, drain, stopped, cancelled, workVars,
                 request, callback, probeVars>>

MainStep == Bind \/ ServerDied \/ WorkReturned \/ Close

-----------------------------------------------------------------------------
(* The rest of the world. *)

Cancel ==
  /\ main # "closed" /\ ~ cancelled
  /\ cancelled' = TRUE
  /\ UNCHANGED <<interval, mainVars, workVars, request, callback, probeVars>>

ServerDies ==
  /\ listener = "up"
  /\ listener' = "dead"
  /\ UNCHANGED <<interval, main, drain, stopped, cutShort, cancelled, workVars,
                 request, callback, probeVars>>

\* GET /healthz or /status.json: one at a time stands for any number.
Request ==
  /\ listener = "up" /\ request = None
  /\ request' = 0
  /\ UNCHANGED <<interval, mainVars, cancelled, workVars, callback, probeVars>>
Answer ==
  /\ request # None /\ main # "closed"
  /\ request' = None
  /\ UNCHANGED <<interval, mainVars, cancelled, workVars, callback, probeVars>>

\* The consent callback: it ends with the token stored, or not.
Callback ==
  /\ work = "await" /\ callback = None
  /\ callback' = 0
  /\ UNCHANGED <<interval, mainVars, cancelled, workVars, request, probeVars>>
CallbackEnds ==
  /\ callback # None /\ main # "closed"
  /\ callback' = None
  /\ UNCHANGED <<interval, mainVars, cancelled, workVars, request, probeVars>>

\* Something is due, and happens before time goes on.
Due ==
  \/ main = "bind" \/ work = "start"
  \/ work = "wait" /\ (wait = 0 \/ Done)
  \/ work = "await" /\ Done
  \/ work = "close" /\ (callback = None \/ busy = ServeDrain)
  \/ work = "pass" /\ busy = MaxPass
  \/ request = MaxRequest \/ callback = MaxExchange
  \/ main = "serve" /\ (work = "done" \/ listener = "dead")
  \/ main = "drain" /\ (work = "done" \/ drain = 0)
  \/ main = "stop" /\ (request = None \/ drain = 0)
  \/ main = "direct" /\ work = "done"

Older(r) == IF r = None THEN None ELSE r + 1

Tick ==
  /\ main # "closed" /\ ~ Due
  /\ drain' = IF main \in {"drain", "stop"} THEN drain - 1 ELSE drain
  /\ wait' = IF work = "wait" THEN wait - 1 ELSE wait
  /\ busy' = IF work \in {"pass", "close"} THEN busy + 1 ELSE busy
  /\ request' = Older(request) /\ callback' = Older(callback)
  /\ since' = Min2(since + 1, Day)
  /\ age' = Min2(age + 1, AgeLimit)
  /\ UNCHANGED <<interval, main, listener, stopped, cutShort, cancelled, work,
                 asked, missed>>

Next == \/ WorkStep \/ AwaitEnds \/ MainStep
        \/ Cancel \/ ServerDies
        \/ Request \/ Answer \/ Callback \/ CallbackEnds
        \/ Tick

\* Goroutines that can run do, requests are answered, and time goes on.
Fairness ==
  /\ WF_vars(WorkStep) /\ WF_vars(MainStep)
  /\ WF_vars(Answer) /\ WF_vars(CallbackEnds) /\ WF_vars(Tick)

Spec == Init /\ [][Next]_vars /\ Fairness

-----------------------------------------------------------------------------
DaemonTypeOK ==
  /\ interval \in Intervals
  /\ main \in {"bind", "serve", "drain", "stop", "direct", "closed"}
  /\ listener \in {"none", "up", "dead"}
  /\ work \in {"none", "start", "await", "close", "wait", "pass", "done"}
  /\ drain \in Nat /\ wait \in 0..Max2(Every, Day) /\ busy \in Nat
  /\ request \in Nat \cup {None} /\ callback \in Nat \cup {None}
  /\ cancelled \in BOOLEAN /\ stopped \in BOOLEAN /\ cutShort \in BOOLEAN
  /\ since \in 0..Day /\ asked \in Int /\ age \in 0..AgeLimit /\ missed \in 0..2

\* "Retrying sooner only guarantees another 429", and the floor keeps a tiny
\* hint from driving passes at more than one a minute: within one Loop a pass
\* starts no sooner after the last than the floor, and than the server asked,
\* up to a day (loop.go, nextDelay), wherever the hint is a number of seconds
\* that a duration can hold.
NoPassTooSoon ==
  [][work = "wait" /\ work' = "pass" =>
       /\ since >= MinInterval
       /\ asked < Word \div 2 => since >= Min2(asked, Day)]_vars

\* "A probe that is red between every pair of passes is wrong, not strict":
\* the derived window (effectiveMaxAge) spans a failed pass and the wait for
\* the next, so one failure never turns the probe red, nor does the wait.
\* A pass that takes longer than half the floor is not covered.
PassesAreShort == 2 * MaxPass <= MinInterval
OneFailureStaysGreen ==
  PassesAreShort /\ missed <= 1 /\ ~ Done => age <= EffectiveMaxAge

\* Closing the store under a running pass makes its last line "sql: database
\* is closed" (main.go, serveWhile): it happens only when a bounded wait ran out.
StoreOutlivesItsUsers ==
  main = "closed" /\ ~ cutShort =>
    work \in {"none", "done"} /\ request = None /\ callback = None

\* A shutdown ends the process, wherever the work is, and so does the death
\* of the status listener: a daemon that cannot be observed does not go on.
DaemonEnds == cancelled \/ listener = "dead" ~> main = "closed"
=============================================================================
