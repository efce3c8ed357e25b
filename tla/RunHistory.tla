----------------------------- MODULE RunHistory -----------------------------
(***************************************************************************)
(* What a pass leaves behind, and what is read from it: the sync_runs row  *)
(* it opens and closes, the day's snapshot and the pruning that ride on a  *)
(* clean pass (engine.go housekeep, backup.go, Store.SnapshotTo and        *)
(* PruneRuns), and the health verdict (internal/status).                   *)
(*                                                                         *)
(* Time is counted in days.  A snapshot's name is its day; Foreign is any  *)
(* other file with the prefix and the suffix, which sorts after every day. *)
(*                                                                         *)
(* Left out: what the pass itself does (Engine.tla), the counts and error  *)
(* kinds of a row, and file permissions.  A dry run, a failed pass and a   *)
(* shutdown before the housekeeping do none of it.                         *)
(***************************************************************************)
EXTENDS Naturals, FiniteSets

CONSTANTS
  Engines,    \* processes that run passes, each with its own Backups
  Days,       \* the last day
  MaxRuns,    \* how many passes may start
  Retention,  \* RunsRetention
  KeepRuns,   \* the floor of PruneRuns
  ScanLimit,  \* HealthScanLimit
  MaxAge,     \* --max-age
  Keep,       \* --backup-keep
  Kills, Deletions, \* how often a process may be killed, a snapshot deleted
  HasForeign  \* is there a foreign file in the backup directory?

ASSUME HistoryConstants ==
  /\ {Days, MaxRuns, Retention, KeepRuns, ScanLimit, MaxAge, Keep, Kills,
      Deletions} \subseteq Nat
  /\ Days > 0 /\ Keep > 0 /\ HasForeign \in BOOLEAN

\* KeepRuns and HealthScanLimit are pinned together by a test.
ASSUME WindowIsKept == ScanLimit = KeepRuns

VARIABLES
  now,      \* the day
  runs,     \* sync_runs
  started,  \* how many passes have started
  eng,      \* each engine
  files,    \* the backup directory
  verified, \* history: the days whose snapshot was verified and published
  tries,    \* history: attempts of each engine on this day, since it started
  erased,   \* history: the days whose snapshot was deleted by hand
  cleanOn,  \* history: the day a clean, real pass was last recorded, or 0
  kills, deletions

historyVars == <<now, runs, started, eng, files, verified, tries, erased, cleanOn,
                 kills, deletions>>

NoRun == 0
Foreign == Days + 1

Run == [id : 1..MaxRuns, start : 1..Days, end : 0..Days, dry : BOOLEAN,
        err : BOOLEAN]

EnginePC == {"idle", "pass", "backup", "stage", "publish", "list", "remove", "rows"}
EngineState == [pc : EnginePC, run : 0..MaxRuns,
                last : 0..Days,             \* lastAttempt
                day : 0..Days,              \* the snapshot being taken
                old : SUBSET (1..Foreign)]  \* names[Keep:]

Resting == [pc |-> "idle", run |-> NoRun, last |-> 0, day |-> 0, old |-> {}]

HistoryInit ==
  /\ now = 1 /\ runs = {} /\ started = 0
  /\ eng = [e \in Engines |-> Resting]
  /\ files = IF HasForeign THEN {Foreign} ELSE {}
  /\ verified = {} /\ erased = {} /\ cleanOn = 0
  /\ tries = [e \in Engines |-> 0]
  /\ kills = Kills /\ deletions = Deletions

Go(e, pc) == eng' = [eng EXCEPT ![e].pc = pc]

-----------------------------------------------------------------------------
\* ListRuns orders rows newest first.
Newer(r, q) == r.start > q.start \/ (r.start = q.start /\ r.id > q.id)
Newest(n, rows) == {r \in rows : Cardinality({q \in rows : Newer(q, r)}) < n}

\* A row the health rule accepts; a row that counts as a failure.
CleanOrDry(r) == r.end > 0 /\ ~ r.err \* Slip: a dry run is a pass like any other
Clean(r) == ~ r.dry /\ r.end > 0 /\ ~ r.err
Errored(r) == ~ r.dry /\ r.end > 0 /\ r.err

Window == Newest(ScanLimit, runs)
Accepted == {r \in Window : Clean(r) /\ \A q \in Window : Clean(q) => ~ Newer(q, r)}
ConsecutiveFailures ==
  Cardinality({r \in Window : Errored(r) /\ \A a \in Accepted : Newer(r, a)})

Healthy == \E r \in Accepted : now - r.end <= MaxAge

-----------------------------------------------------------------------------
StartRun(e, dry) ==
  /\ eng[e].pc = "idle" /\ started < MaxRuns
  /\ started' = started + 1
  /\ runs' = runs \cup {[id |-> started', start |-> now, end |-> 0,
                         dry |-> dry, err |-> FALSE]}
  /\ eng' = [eng EXCEPT ![e].pc = "pass", ![e].run = started']
  /\ UNCHANGED <<now, files, verified, tries, erased, cleanOn, kills, deletions>>

\* The deferred FinishRun closes the row; a row it cannot close stays open.
\* Housekeeping follows a clean, real pass.
FinishRun(e, err) ==
  /\ eng[e].pc = "pass"
  /\ \E r \in runs :
       /\ r.id = eng[e].run
       /\ \/ /\ runs' = (runs \ {r}) \cup {[r EXCEPT !.end = now, !.err = err]}
             /\ cleanOn' = IF r.dry \/ err THEN cleanOn ELSE now
          \/ UNCHANGED <<runs, cleanOn>>
       /\ Go(e, IF r.dry \/ err THEN "idle" ELSE "backup")
  /\ UNCHANGED <<now, started, files, verified, tries, erased, kills, deletions>>

\* Already attempted today, or today's is already taken.
TakeNone(e) ==
  /\ eng[e].pc = "backup"
  /\ eng[e].last = now \/ now \in files
  /\ Go(e, "rows")
  /\ UNCHANGED <<now, runs, started, files, verified, tries, erased, cleanOn, kills,
                 deletions>>

\* Slip: only a snapshot that landed counts as today's.
TakeUncounted(e) ==
  /\ eng[e].pc = "backup"
  /\ eng[e].last # now /\ now \notin files
  /\ eng' = [eng EXCEPT ![e].pc = "stage", ![e].day = now]
  /\ tries' = [tries EXCEPT ![e] = @ + 1]
  /\ UNCHANGED <<now, runs, started, files, verified, erased, cleanOn, kills, deletions>>

\* Slip: the name is built from a date that was never set.
TakeUndated(e) ==
  /\ eng[e].pc = "backup"
  /\ eng[e].last # now /\ now \notin files
  /\ eng' = [eng EXCEPT ![e].pc = "stage", ![e].last = now]
  /\ tries' = [tries EXCEPT ![e] = @ + 1]
  /\ UNCHANGED <<now, runs, started, files, verified, erased, cleanOn, kills, deletions>>

\* The attempt counts as today's before it is made.
Take(e) ==
  /\ eng[e].pc = "backup"
  /\ eng[e].last # now /\ now \notin files
  /\ eng' = [eng EXCEPT ![e].pc = "stage", ![e].day = now, ![e].last = now]
  /\ tries' = [tries EXCEPT ![e] = @ + 1]
  /\ UNCHANGED <<now, runs, started, files, verified, erased, cleanOn, kills, deletions>>

\* Slip: VACUUM INTO the destination itself.
StageInPlace(e) ==
  /\ eng[e].pc = "stage"
  /\ \/ eng[e].day \notin files /\ Go(e, "publish")
     \/ Go(e, "rows")
  /\ files' = files \cup {eng[e].day}
  /\ UNCHANGED <<now, runs, started, verified, tries, erased, cleanOn, kills, deletions>>

\* A copy is written and verified in a directory of its own, which is removed
\* again on every failure: one is that the destination exists by now.
Stage(e) ==
  /\ eng[e].pc = "stage"
  /\ \/ eng[e].day \notin files /\ Go(e, "publish")
     \/ Go(e, "rows")
  /\ UNCHANGED <<now, runs, started, files, verified, tries, erased, cleanOn, kills,
                 deletions>>

\* The verified copy is renamed into place, over whatever is there.
Publish(e) ==
  /\ eng[e].pc = "publish"
  /\ files' = files \cup {eng[e].day}
  /\ verified' = verified \cup {eng[e].day}
  /\ Go(e, "list")
  /\ UNCHANGED <<now, runs, started, tries, erased, cleanOn, kills, deletions>>

AnyAffixed(n) == TRUE \* Slip: the affixes make a name a snapshot
IsSnapshot(n) == n # Foreign

Snapshots == {n \in files : IsSnapshot(n)}
Old == {n \in Snapshots : Cardinality({m \in Snapshots : m > n}) >= Keep}

\* The directory is read; what is beyond the newest Keep names is to go.
ListFiles(e) ==
  /\ eng[e].pc = "list"
  /\ eng' = [eng EXCEPT ![e].pc = "remove", ![e].old = Old]
  /\ UNCHANGED <<now, runs, started, files, verified, tries, erased, cleanOn,
                 kills, deletions>>

\* They are removed, newest first, up to one that cannot be: it may be gone.
PruneFiles(e) ==
  /\ eng[e].pc = "remove"
  /\ \E last \in 0..Foreign :
       /\ eng[e].old \ files \subseteq 0..last
       /\ files' = files \ {n \in eng[e].old : n > last}
  /\ eng' = [eng EXCEPT ![e].pc = "rows", ![e].old = {}]
  /\ UNCHANGED <<now, runs, started, verified, tries, erased, cleanOn, kills,
                 deletions>>

\* Slip: the age alone decides.
OutdatedByAge(r) == r.end > 0 /\ r.start + Retention < now
\* Slip: a row that is not closed is as old as any.
OutdatedOpen(r) == r.start + Retention < now /\ r \notin Newest(KeepRuns, runs)

Outdated(r) ==
  /\ r.end > 0
  /\ r.start + Retention < now
  /\ r \notin Newest(KeepRuns, runs)

\* One DELETE; a failure is logged and swallowed.
PruneRuns(e) ==
  /\ eng[e].pc = "rows"
  /\ \/ runs' = {r \in runs : ~ Outdated(r)}
     \/ UNCHANGED runs
  /\ Go(e, "idle")
  /\ UNCHANGED <<now, started, files, verified, tries, erased, cleanOn, kills, deletions>>

\* The process dies wherever it is, and starts anew.
Kill(e) ==
  /\ eng[e].pc # "idle" /\ kills > 0
  /\ kills' = kills - 1
  /\ eng' = [eng EXCEPT ![e] = Resting]
  /\ tries' = [tries EXCEPT ![e] = 0]
  /\ UNCHANGED <<now, runs, started, files, verified, erased, cleanOn, deletions>>

-----------------------------------------------------------------------------
NextDay ==
  /\ now < Days
  /\ now' = now + 1
  /\ tries' = [e \in Engines |-> 0]
  /\ UNCHANGED <<runs, started, eng, files, verified, erased, cleanOn, kills, deletions>>

\* An operator deletes a snapshot.
DeleteFile ==
  /\ deletions > 0
  /\ deletions' = deletions - 1
  /\ \E n \in Snapshots : files' = files \ {n} /\ erased' = erased \cup {n}
  /\ UNCHANGED <<now, runs, started, eng, verified, tries, cleanOn, kills>>

HistoryNext ==
  \/ \E e \in Engines :
       \/ \E b \in BOOLEAN : StartRun(e, b) \/ FinishRun(e, b)
       \/ TakeNone(e) \/ Take(e) \/ Stage(e) \/ Publish(e)
       \/ ListFiles(e) \/ PruneFiles(e) \/ PruneRuns(e) \/ Kill(e)
  \/ NextDay \/ DeleteFile

HistorySpec == HistoryInit /\ [][HistoryNext]_historyVars

-----------------------------------------------------------------------------
HistoryTypeOK ==
  /\ now \in 1..Days /\ started \in 0..MaxRuns
  /\ runs \subseteq Run
  /\ eng \in [Engines -> EngineState]
  /\ files \subseteq 1..Foreign /\ verified \cup erased \subseteq 1..Days
  /\ cleanOn \in 0..Days /\ kills \in Nat /\ deletions \in Nat

\* "Never lose one to housekeeping" (Store.PruneRuns): deleting rows changes
\* neither the row the health rule accepts nor the count of failures.
PruningKeepsTheVerdict ==
  [][runs' \subseteq runs =>
       /\ Accepted' = Accepted
       /\ ConsecutiveFailures' = ConsecutiveFailures]_historyVars

\* "The deployed loop never dry-runs" (status.go, health): the probe is green
\* only if a real pass was recorded clean within MaxAge.
HealthIsEarned == Healthy => cleanOn > 0 /\ now - cleanOn <= MaxAge

\* "Safe to call from inside a pass whose own row is still open" (PruneRuns):
\* a pass that is running has its row, whoever prunes beside it.
RunningPassHasItsRow ==
  \A e \in Engines : eng[e].pc = "pass" =>
    \E r \in runs : r.id = eng[e].run /\ r.end = 0

\* "Retried once a day rather than once a pass" (backup.go, lastAttempt).
OneAttemptADay == \A e \in Engines : tries[e] <= 1

\* "Nothing unverified is ever written to dest" (Store.SnapshotTo), wherever
\* the process that takes the snapshot dies.
PublishedIsVerified == files \ {Foreign} \subseteq verified

\* Pruning deletes a snapshot only if Keep newer ones remain, whichever process
\* prunes beside it, and nothing that is not a snapshot (backup.go,
\* snapshotDate); a snapshot that went by hand since the directory was read
\* was the operator's to lose.
PruningKeepsTheNewest ==
  [][eng' # eng =>
       \A n \in files \ files' :
         /\ n \in verified
         /\ Cardinality({m \in (files' \cup erased) \cap verified : m > n})
              >= Keep]_historyVars
=============================================================================
