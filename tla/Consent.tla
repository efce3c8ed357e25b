------------------------------ MODULE Consent -------------------------------
(***************************************************************************)
(* The refresh token: who obtains it, who rotates it, who deletes it.      *)
(*                                                                         *)
(* The daemon's runner (cmd/difmsync/runloop.go) waits for consent, builds *)
(* an engine from the stored token, and starts over when Spotify rejects   *)
(* the token the engine presents.  One-shot processes (`sync`, `review     *)
(* --approve`) build a client of their own from the same row, `auth`       *)
(* stores a token consented to elsewhere, and the daemon's consent page    *)
(* stores the one the member consents to in a browser.                     *)
(*                                                                         *)
(* A client refreshes when its access token has expired.  Spotify may      *)
(* rotate the refresh token then, and may or may not let the old one die.  *)
(* The new token is in memory at once and in the row one step later; a     *)
(* write that failed is tried again on the next call, for as long as the   *)
(* access token lasts.                                                     *)
(*                                                                         *)
(* The daemon has its consent page configured.  Callbacks that are refused *)
(* (wrong state, denied consent, no refresh token) change nothing and are  *)
(* left out, and so is the backup of a database restored under a running   *)
(* process.  At most one callback is in flight.                            *)
(***************************************************************************)
EXTENDS Naturals

CONSTANTS Daemon, Helpers,  \* the runner, and the one-shot processes
          MaxTokens,        \* how many refresh tokens Spotify may issue
          Uses              \* how often each kind of event may happen

Procs == {Daemon} \cup Helpers
Tokens == 1..MaxTokens
NoToken == 0
Flows == {"page", "auth"}
Kinds == {"revoke", "start", "fault", "kill"}

ASSUME ConsentConstants ==
  /\ Daemon \notin Helpers
  /\ MaxTokens \in Nat
  /\ Uses \in [Kinds -> Nat]

VARIABLES
  stored,   \* accounts.spotify_refresh_token
  live,     \* Spotify: the refresh tokens it accepts
  issued,   \* Spotify: how many it has issued
  runner,   \* where syncRunner.run is
  done,     \* the consent wait has been told of its own callback
  client,   \* each process's Spotify client
  flow,     \* the token each consent flow has exchanged and not yet stored
  late,     \* the page's callback has outlived the wait it belongs to
  uses      \* what is left of Uses

consentVars == <<stored, live, issued, runner, done, client, flow, late, uses>>

Client == [mem   : Tokens,    \* what oauth2 presents
           last  : Tokens,    \* rotatingTokenSource.last, and the runner's held
           valid : BOOLEAN]   \* the access token has not expired

NewClientUnset(tok) == \* Slip: nothing counts as persisted yet
  [mem |-> tok, last |-> NoToken, valid |-> FALSE]

NoClient == [mem |-> NoToken, last |-> NoToken, valid |-> FALSE]
NewClient(tok) == [mem |-> tok, last |-> tok, valid |-> FALSE]

Running(p) == IF p = Daemon THEN runner = "run" ELSE client[p] # NoClient
Use(k) == uses[k] > 0 /\ uses' = [uses EXCEPT ![k] = @ - 1]

ConsentInit ==
  /\ stored = NoToken /\ live = {} /\ issued = 0
  /\ runner = "read" /\ done = FALSE /\ late = FALSE
  /\ client = [p \in Procs |-> NoClient]
  /\ flow = [f \in Flows |-> NoToken]
  /\ uses = Uses

-----------------------------------------------------------------------------
\* The runner builds an engine, with a client for the token just read.
BuildEngine ==
  /\ runner' = "run"
  /\ client' = [client EXCEPT ![Daemon] = NewClient(stored)]

ReadAccount ==
  /\ runner = "read"
  /\ \/ stored # NoToken /\ BuildEngine
     \/ stored = NoToken /\ runner' = "await" /\ UNCHANGED client
  /\ done' = FALSE
  /\ UNCHANGED <<stored, live, issued, flow, late, uses>>

\* Slip: the wait knows of no consent but its own page's.
AwaitOnlyDone ==
  /\ runner = "await"
  /\ done
  /\ runner' = "reread"
  /\ late' = (flow["page"] # NoToken)
  /\ UNCHANGED <<stored, live, issued, done, client, flow, uses>>

\* The wait ends: its own callback has reported, or the poll found a token.
\* A callback still in flight is waited for, but not for ever.
AwaitEnds ==
  /\ runner = "await"
  /\ done \/ stored # NoToken
  /\ runner' = "reread"
  /\ late' = (flow["page"] # NoToken)
  /\ UNCHANGED <<stored, live, issued, done, client, flow, uses>>

\* "consent reported complete but no refresh token is stored" is fatal.
Reread ==
  /\ runner = "reread"
  /\ \/ stored # NoToken /\ BuildEngine
     \/ stored = NoToken /\ runner' = "exit" /\ UNCHANGED client
  /\ UNCHANGED <<stored, live, issued, done, flow, late, uses>>

\* Slip: an unconditional clear.
ClearAlways ==
  /\ runner = "clear"
  /\ stored' = NoToken
  /\ runner' = "read"
  /\ client' = [client EXCEPT ![Daemon] = NoClient]
  /\ UNCHANGED <<live, issued, done, flow, late, uses>>

\* ClearSpotifyRefreshTokenIf: compare with the engine's held token, and clear.
Clear ==
  /\ runner = "clear"
  /\ stored' = IF stored = client[Daemon].last THEN NoToken ELSE stored
  /\ runner' = "read"
  /\ client' = [client EXCEPT ![Daemon] = NoClient]
  /\ UNCHANGED <<live, issued, done, flow, late, uses>>

\* The process ends, by an error or a signal, and the container restarts it.
DaemonRestarts ==
  /\ \/ runner = "exit" /\ UNCHANGED uses
     \/ runner \notin {"read", "exit"} /\ Use("kill")
  /\ runner' = "read" /\ done' = FALSE /\ late' = FALSE
  /\ client' = [client EXCEPT ![Daemon] = NoClient]
  /\ flow' = [flow EXCEPT !["page"] = NoToken]
  /\ UNCHANGED <<stored, live, issued>>

-----------------------------------------------------------------------------
\* A one-shot process reads the account and builds its client; and ends.
HelperStarts(p) ==
  /\ p \in Helpers /\ ~ Running(p)
  /\ stored # NoToken
  /\ Use("start")
  /\ client' = [client EXCEPT ![p] = NewClient(stored)]
  /\ UNCHANGED <<stored, live, issued, runner, done, flow, late>>

HelperEnds(p) ==
  /\ p \in Helpers /\ Running(p)
  /\ client' = [client EXCEPT ![p] = NoClient]
  /\ UNCHANGED <<stored, live, issued, runner, done, flow, late, uses>>

\* A call finds the access token expired and refreshes it; Spotify answers
\* with the same refresh token or with a new one.
Refresh(p) ==
  /\ Running(p) /\ ~ client[p].valid
  /\ client[p].mem \in live
  /\ \/ /\ client' = [client EXCEPT ![p].valid = TRUE]
        /\ UNCHANGED <<live, issued>>
     \/ /\ issued < MaxTokens
        /\ issued' = issued + 1
        /\ \E dead \in SUBSET {client[p].mem} : live' = (live \ dead) \cup {issued'}
        /\ client' = [client EXCEPT ![p].valid = TRUE, ![p].mem = issued']
  /\ UNCHANGED <<stored, runner, done, flow, late, uses>>

\* Slip: a rejected token is one more failing call of the pass.
IgnoreRejection(p) ==
  /\ Running(p) /\ ~ client[p].valid
  /\ client[p].mem \notin live
  /\ UNCHANGED consentVars

\* invalid_grant: the daemon's engine stops, a one-shot process exits.
Rejected(p) ==
  /\ Running(p) /\ ~ client[p].valid
  /\ client[p].mem \notin live
  /\ \/ p = Daemon /\ runner' = "clear" /\ UNCHANGED client
     \/ p # Daemon /\ client' = [client EXCEPT ![p] = NoClient] /\ UNCHANGED runner
  /\ UNCHANGED <<stored, live, issued, done, flow, late, uses>>

\* onRefresh: the token in memory is not the one last persisted.
Persist(p) ==
  /\ Running(p) /\ client[p].valid
  /\ client[p].mem # client[p].last
  /\ stored' = client[p].mem
  /\ client' = [client EXCEPT ![p].last = client[p].mem]
  /\ UNCHANGED <<live, issued, runner, done, flow, late, uses>>

\* The write fails and the access token expires before the next try.
Expire(p) ==
  /\ Running(p) /\ client[p].valid
  /\ client[p].mem # client[p].last => Use("fault")
  /\ client[p].mem = client[p].last => UNCHANGED uses
  /\ client' = [client EXCEPT ![p].valid = FALSE]
  /\ UNCHANGED <<stored, live, issued, runner, done, flow, late>>

-----------------------------------------------------------------------------
\* The member consents, and the flow exchanges the code for a token.
Exchange(f) ==
  /\ flow[f] = NoToken
  /\ f = "page" => runner = "await"
  /\ issued < MaxTokens
  /\ issued' = issued + 1
  /\ live' = live \cup {issued'}
  /\ flow' = [flow EXCEPT ![f] = issued']
  /\ late' = (late /\ f # "page")
  /\ UNCHANGED <<stored, runner, done, client, uses>>

\* Complete returns nil; the page's callback then tells the wait it serves.
StoreToken(f) ==
  /\ flow[f] # NoToken
  /\ stored' = flow[f]
  /\ flow' = [flow EXCEPT ![f] = NoToken]
  /\ done' = (done \/ (f = "page" /\ ~ late /\ runner = "await"))
  /\ UNCHANGED <<live, issued, runner, client, late, uses>>

\* Slip: the wait is told before the outcome is looked at.
StoreFailsQuietly(f) ==
  /\ flow[f] # NoToken
  /\ Use("fault")
  /\ flow' = [flow EXCEPT ![f] = NoToken]
  /\ done' = (done \/ (f = "page" /\ ~ late /\ runner = "await"))
  /\ UNCHANGED <<stored, live, issued, runner, client, late>>

\* The write fails, or `auth` is killed before it; the wait goes on.
StoreFails(f) ==
  /\ flow[f] # NoToken
  /\ Use("fault")
  /\ flow' = [flow EXCEPT ![f] = NoToken]
  /\ UNCHANGED <<stored, live, issued, runner, done, client, late>>

\* A password change, or the app's authorization withdrawn.
Revoke ==
  /\ live # {}
  /\ Use("revoke")
  /\ live' = {}
  /\ UNCHANGED <<stored, issued, runner, done, client, flow, late>>

-----------------------------------------------------------------------------
RunnerStep == \/ ReadAccount \/ AwaitEnds \/ Reread \/ Clear
              \/ Refresh(Daemon) \/ Rejected(Daemon) \/ Persist(Daemon)

ConsentNext ==
  \/ RunnerStep \/ DaemonRestarts \/ Revoke
  \/ \E p \in Procs : Expire(p)
  \/ \E p \in Helpers : \/ HelperStarts(p) \/ HelperEnds(p)
                        \/ Refresh(p) \/ Rejected(p) \/ Persist(p)
  \/ \E f \in Flows : Exchange(f) \/ StoreToken(f) \/ StoreFails(f)

\* The runner, its ticker and the wait's poll go on, and time passes.
ConsentSpec == /\ ConsentInit /\ [][ConsentNext]_consentVars
               /\ WF_consentVars(RunnerStep)
               /\ WF_consentVars(Expire(Daemon))

-----------------------------------------------------------------------------
ConsentTypeOK ==
  /\ stored \in Tokens \cup {NoToken}
  /\ issued \in 0..MaxTokens /\ live \subseteq 1..issued
  /\ runner \in {"read", "await", "reread", "run", "clear", "exit"}
  /\ done \in BOOLEAN /\ late \in BOOLEAN
  /\ client \in [Procs -> Client \cup {NoClient}]
  /\ flow \in [Flows -> Tokens \cup {NoToken}]
  /\ uses \in [Kinds -> Nat]

\* "Clearing it would demand a re-consent for a grant that was never revoked"
\* (runloop.go): the daemon deletes a token only when Spotify refuses it, even
\* where a rotation never reached the row or another process replaced it.
ClearsOnlyDead ==
  [][stored # NoToken /\ stored' = NoToken => stored \notin live]_consentVars

\* The consent wait never reports a token that is not in the row.
ConsentIsStored == runner # "exit"

\* A token stored by any route ends the wait (authserver.go, the poll).
WaitEnds == stored # NoToken /\ runner = "await" ~> runner # "await"

\* A daemon whose token was revoked does not go on failing: it comes to wait
\* for consent, or to hold a token Spotify accepts (runloop.go, syncRunner).
Recovers ==
  runner = "run" /\ client[Daemon].mem \notin live
    ~> runner = "await" \/ client[Daemon].mem \in live
=============================================================================
