--------------------------- MODULE Consent_proofs ---------------------------
(***************************************************************************)
(* Proofs about the refresh token: the runner never comes to a row without *)
(* one after it was told of consent, and the daemon deletes only a token   *)
(* Spotify no longer accepts.  The second is the delicate one: the runner  *)
(* compares the row with the token it last wrote, and not with the one     *)
(* that was refused.  It holds because a rotation that never reached the   *)
(* row is known to nobody else, so that only a revocation can kill it, and *)
(* a revocation kills what is in the row too.                              *)
(***************************************************************************)
EXTENDS Consent, TLAPS

\* The runner has an engine in two of its states, and reaches the second look
\* at the row only when there is a token in it.
RunnerControl ==
  /\ runner \in {"run", "clear"} <=> client[Daemon] # NoClient
  /\ runner # "exit"
  /\ runner = "reread" \/ (runner = "await" /\ done) => stored # NoToken

ConsentInv == ConsentTypeOK /\ RunnerControl

\* Every token anybody holds was issued.
Held == 0..issued
Holdings ==
  /\ stored \in Held
  /\ \A f \in Flows : flow[f] \in Held
  /\ \A p \in Procs : client[p].mem \in Held /\ client[p].last \in Held

\* A rotation that was never written is in one process's memory alone.
Unwritten(p) == client[p].mem # client[p].last
Alone ==
  \A p \in Procs : Unwritten(p) =>
    /\ stored # client[p].mem
    /\ \A f \in Flows : flow[f] # client[p].mem
    /\ \A q \in Procs \ {p} :
         client[q].mem # client[p].mem /\ client[q].last # client[p].mem

\* A token that is refused takes the one last written with it.
Outlived ==
  /\ \A p \in Procs : client[p].mem \notin live => client[p].last \notin live
  /\ runner = "clear" => client[Daemon].last \notin live

TokenInv == Holdings /\ Alone /\ Outlived

-----------------------------------------------------------------------------
LEMMA ClientTypes ==
  ASSUME ConsentTypeOK, NEW p \in Procs
  PROVE  /\ client[p] \in Client \cup {NoClient}
         /\ client[p].mem \in Tokens \cup {NoToken}
         /\ client[p].last \in Tokens \cup {NoToken}
         /\ client[p].valid \in BOOLEAN
         /\ p # Daemon /\ Running(p) => client[p] \in Client
  <1>1. client[p] \in Client \cup {NoClient}
    BY DEF ConsentTypeOK
  <1>2. CASE client[p] \in Client
    BY <1>2 DEF Client
  <1>3. CASE client[p] = NoClient
    <2>1. p # Daemon => ~ Running(p)
      BY <1>3 DEF Running
    <2>2. client[p].mem = NoToken /\ client[p].last = NoToken /\ client[p].valid = FALSE
      BY <1>3 DEF NoClient
    <2>3. QED BY <1>1, <2>1, <2>2
  <1>4. QED BY <1>1, <1>2, <1>3

LEMMA NewClientType ==
  ASSUME NEW tok \in Tokens
  PROVE  NewClient(tok) \in Client /\ NewClient(tok) # NoClient
  BY DEF NewClient, Client, NoClient, Tokens, NoToken

LEMMA NoClientIsNone ==
  ASSUME NEW c \in Client PROVE c # NoClient
  BY DEF Client, NoClient, Tokens, NoToken

LEMMA RunningHasClient ==
  ASSUME ConsentInv, NEW p \in Procs, Running(p)
  PROVE  client[p] \in Client
  BY ClientTypes DEF ConsentInv, RunnerControl, Running

LEMMA UseType ==
  ASSUME ConsentTypeOK, NEW k \in Kinds, Use(k)
  PROVE  uses' \in [Kinds -> Nat]
  BY DEF ConsentTypeOK, Use

LEMMA ConsentInitially == ConsentInit => ConsentInv /\ TokenInv
  <1> SUFFICES ASSUME ConsentInit PROVE ConsentInv /\ TokenInv
    OBVIOUS
  <1> USE DEF ConsentInit, NoToken
  <1>1. ConsentTypeOK
    <2>1. live \subseteq 1..issued /\ issued \in 0..MaxTokens
      BY ConsentConstants
    <2>2. uses \in [Kinds -> Nat]
      BY ConsentConstants
    <2>3. QED BY <2>1, <2>2 DEF ConsentTypeOK
  <1>2. Daemon \in Procs /\ \A p \in Procs : client[p] = NoClient
    BY DEF Procs
  <1>3. RunnerControl
    BY <1>2 DEF RunnerControl
  <1>4. TokenInv
    BY <1>2 DEF TokenInv, Holdings, Held, Alone, Unwritten, Outlived, NoClient
  <1>5. QED BY <1>1, <1>3, <1>4 DEF ConsentInv

-----------------------------------------------------------------------------
\* What a step makes of the types and of the runner, action by action.
LEMMA ConsentInvStep == ConsentInv /\ [ConsentNext]_consentVars => ConsentInv'
  <1> SUFFICES ASSUME ConsentInv, [ConsentNext]_consentVars PROVE ConsentInv'
    OBVIOUS
  <1> USE DEF ConsentInv
  <1>d. Daemon \in Procs /\ \A p \in Helpers : p \in Procs /\ p # Daemon
    BY ConsentConstants DEF Procs
  <1>t. /\ MaxTokens \in Nat /\ issued \in Nat
        /\ client \in [Procs -> Client \cup {NoClient}]
    BY ConsentConstants DEF ConsentTypeOK
  \* One process's client changes, the daemon's into a client again.
  <1>c. ASSUME NEW p \in Procs, NEW c \in Client \cup {NoClient},
               client' = [client EXCEPT ![p] = c]
        PROVE  /\ client' \in [Procs -> Client \cup {NoClient}]
               /\ client'[Daemon] = IF p = Daemon THEN c ELSE client[Daemon]
    BY <1>c, <1>d, <1>t
  <1>b. ASSUME BuildEngine, stored # NoToken
        PROVE  /\ client' \in [Procs -> Client \cup {NoClient}]
               /\ client'[Daemon] # NoClient /\ runner' = "run"
    <2>1. stored \in Tokens
      BY <1>b DEF ConsentTypeOK
    <2>2. QED BY <2>1, <1>b, <1>c, <1>d, NewClientType DEF BuildEngine
  <1>1. ASSUME ReadAccount PROVE ConsentInv'
    BY <1>1, <1>b DEF ReadAccount, ConsentTypeOK, RunnerControl
  <1>2. ASSUME AwaitEnds PROVE ConsentInv'
    BY <1>2 DEF AwaitEnds, ConsentTypeOK, RunnerControl
  <1>3. ASSUME Reread PROVE ConsentInv'
    BY <1>3, <1>b DEF Reread, ConsentTypeOK, RunnerControl
  <1>4. ASSUME Clear PROVE ConsentInv'
    BY <1>4, <1>c, <1>d DEF Clear, ConsentTypeOK, RunnerControl
  <1>5. ASSUME DaemonRestarts PROVE ConsentInv'
    <2>1. uses' \in [Kinds -> Nat]
      BY <1>5, UseType DEF DaemonRestarts, ConsentTypeOK, Kinds
    <2>2. QED BY <2>1, <1>5, <1>c, <1>d DEF DaemonRestarts, ConsentTypeOK, RunnerControl
  <1>6. ASSUME NEW p \in Helpers, HelperStarts(p) PROVE ConsentInv'
    <2>1. uses' \in [Kinds -> Nat]
      BY <1>6, UseType DEF HelperStarts, ConsentTypeOK, Kinds
    <2>2. stored \in Tokens
      BY <1>6 DEF ConsentTypeOK, HelperStarts
    <2>3. QED
      BY <2>1, <2>2, <1>6, <1>c, <1>d, NewClientType
         DEF HelperStarts, ConsentTypeOK, RunnerControl
  <1>7. ASSUME NEW p \in Helpers, HelperEnds(p) PROVE ConsentInv'
    BY <1>7, <1>c, <1>d DEF HelperEnds, ConsentTypeOK, RunnerControl
  <1>8. ASSUME NEW p \in Procs, Refresh(p) PROVE ConsentInv'
    <2> DEFINE c == client'[p]
               Goal == /\ issued' \in 0..MaxTokens /\ live' \subseteq 1..issued'
                       /\ c \in Client /\ client' = [client EXCEPT ![p] = c]
    <2>1. client[p] \in Client
      BY <1>8, RunningHasClient DEF Refresh
    <2>2. Goal
      <3>1. CASE UNCHANGED <<live, issued>>
                 /\ client' = [client EXCEPT ![p].valid = TRUE]
        BY <3>1, <2>1, <1>t DEF ConsentTypeOK, Client
      <3>2. ASSUME NEW dead \in SUBSET {client[p].mem}, issued < MaxTokens,
                   issued' = issued + 1, live' = (live \ dead) \cup {issued'},
                   client' = [client EXCEPT ![p].valid = TRUE, ![p].mem = issued']
            PROVE  Goal
        <4>1. issued' \in Tokens /\ issued' \in 0..MaxTokens
          BY <3>2, <1>t DEF Tokens
        <4>2. live' \subseteq 1..issued'
          BY <3>2, <1>t DEF ConsentTypeOK
        <4>3. c \in Client /\ client' = [client EXCEPT ![p] = c]
          BY <3>2, <4>1, <2>1, <1>t DEF Client
        <4>4. QED BY <4>1, <4>2, <4>3
      <3>3. QED BY <3>1, <3>2, <1>8 DEF Refresh
    <2>3. /\ client' \in [Procs -> Client \cup {NoClient}]
          /\ client'[Daemon] # NoClient <=> client[Daemon] # NoClient
      BY <2>1, <2>2, <1>c, NoClientIsNone
    <2>4. QED BY <2>2, <2>3, <1>8 DEF Refresh, ConsentTypeOK, RunnerControl
  <1>9. ASSUME NEW p \in Procs, Rejected(p) PROVE ConsentInv'
    <2>1. CASE p = Daemon
      BY <2>1, <1>9 DEF Rejected, ConsentTypeOK, RunnerControl, Running
    <2>2. CASE p # Daemon
      BY <2>2, <1>9, <1>c DEF Rejected, ConsentTypeOK, RunnerControl
    <2>3. QED BY <2>1, <2>2
  <1>10. ASSUME NEW p \in Procs, Persist(p) PROVE ConsentInv'
    <2> DEFINE c == client'[p]
    <2>1. client[p] \in Client
      BY <1>10, RunningHasClient DEF Persist
    <2>2. c \in Client /\ client' = [client EXCEPT ![p] = c]
      BY <1>10, <2>1, <1>t DEF Persist, Client
    <2>3. stored' \in Tokens
      BY <1>10, <2>1 DEF Persist, Client
    <2>4. /\ client' \in [Procs -> Client \cup {NoClient}]
          /\ client'[Daemon] # NoClient <=> client[Daemon] # NoClient
      BY <2>1, <2>2, <1>c, NoClientIsNone
    <2>5. QED
      BY <2>3, <2>4, <1>10 DEF Persist, ConsentTypeOK, RunnerControl, Tokens, NoToken
  <1>11. ASSUME NEW p \in Procs, Expire(p) PROVE ConsentInv'
    <2> DEFINE c == client'[p]
    <2>1. client[p] \in Client
      BY <1>11, RunningHasClient DEF Expire
    <2>2. c \in Client /\ client' = [client EXCEPT ![p] = c]
      BY <1>11, <2>1, <1>t DEF Expire, Client
    <2>3. uses' \in [Kinds -> Nat]
      BY <1>11, UseType DEF Expire, ConsentTypeOK, Kinds
    <2>4. /\ client' \in [Procs -> Client \cup {NoClient}]
          /\ client'[Daemon] # NoClient <=> client[Daemon] # NoClient
      BY <2>1, <2>2, <1>c, NoClientIsNone
    <2>5. QED BY <2>3, <2>4, <1>11 DEF Expire, ConsentTypeOK, RunnerControl
  <1>12. ASSUME NEW f \in Flows, Exchange(f) PROVE ConsentInv'
    <2>1. issued' \in 0..MaxTokens /\ issued' \in Tokens /\ live' \subseteq 1..issued'
      BY <1>12, <1>t DEF Exchange, ConsentTypeOK, Tokens
    <2>2. QED BY <2>1, <1>12 DEF Exchange, ConsentTypeOK, RunnerControl
  <1>13. ASSUME NEW f \in Flows, StoreToken(f) PROVE ConsentInv'
    BY <1>13 DEF StoreToken, ConsentTypeOK, RunnerControl
  <1>14. ASSUME NEW f \in Flows, StoreFails(f) PROVE ConsentInv'
    <2>1. uses' \in [Kinds -> Nat]
      BY <1>14, UseType DEF StoreFails, ConsentTypeOK, Kinds
    <2>2. QED BY <2>1, <1>14 DEF StoreFails, ConsentTypeOK, RunnerControl
  <1>15. ASSUME Revoke PROVE ConsentInv'
    <2>1. uses' \in [Kinds -> Nat]
      BY <1>15, UseType DEF Revoke, ConsentTypeOK, Kinds
    <2>2. QED BY <2>1, <1>15, <1>t DEF Revoke, ConsentTypeOK, RunnerControl
  <1>16. CASE UNCHANGED consentVars
    BY <1>16 DEF consentVars, ConsentTypeOK, RunnerControl
  <1>17. QED
    BY <1>1, <1>2, <1>3, <1>4, <1>5, <1>6, <1>7, <1>8, <1>9, <1>10, <1>11, <1>12,
       <1>13, <1>14, <1>15, <1>16, <1>d DEF ConsentNext, RunnerStep

LEMMA ConsentInvariant == ConsentSpec => []ConsentInv
  <1>1. QED BY ConsentInitially, ConsentInvStep, PTL DEF ConsentSpec

-----------------------------------------------------------------------------
\* What a step makes of who holds which token.
LEMMA TokenInvStep ==
  ConsentInv /\ TokenInv /\ [ConsentNext]_consentVars => TokenInv'
  <1> SUFFICES ASSUME ConsentInv, TokenInv, [ConsentNext]_consentVars
               PROVE  TokenInv'
    OBVIOUS
  <1>d. Daemon \in Procs /\ \A p \in Helpers : p \in Procs /\ p # Daemon
    BY ConsentConstants DEF Procs
  <1>t. /\ issued \in Nat /\ live \subseteq 1..issued
        /\ client \in [Procs -> Client \cup {NoClient}]
        /\ flow \in [Flows -> Tokens \cup {NoToken}]
    BY ConsentConstants DEF ConsentInv, ConsentTypeOK
  <1>r. \A p \in Procs : Running(p) => client[p] \in Client
    BY RunningHasClient
  <1> USE DEF TokenInv, Holdings, Held, Alone, Unwritten, Outlived
  \* A process forgets its client, or takes one for the token in the row.
  <1>n. ASSUME NEW p \in Procs, NEW tok \in {NoToken, stored},
               client' = [client EXCEPT ![p] = NewClient(tok)]
                 \/ (client' = [client EXCEPT ![p] = NoClient] /\ tok = NoToken),
               NEW q \in Procs
        PROVE  /\ q = p => client'[q].mem = tok /\ client'[q].last = tok
               /\ q # p => client'[q] = client[q]
    BY <1>n, <1>t DEF NewClient, NoClient
  <1>z. \A p \in Procs : Unwritten(p) => client[p].mem # NoToken
    <2> SUFFICES ASSUME NEW p \in Procs, client[p].mem = NoToken
                 PROVE  client[p].last = NoToken
      OBVIOUS
    <2>1. client[p] \in Client \/ client[p] = NoClient
      BY <1>t
    <2>2. QED BY <2>1 DEF Client, NoClient, Tokens, NoToken
  <1>m. ASSUME NEW p \in Procs, NEW tok \in {NoToken, stored},
               client' = [client EXCEPT ![p] = NewClient(tok)]
                 \/ (client' = [client EXCEPT ![p] = NoClient] /\ tok = NoToken),
               UNCHANGED <<live, issued, flow>>, stored' \in {stored, NoToken},
               runner' = "clear" => runner = "clear" /\ p # Daemon
        PROVE  TokenInv'
    <2>1. \A q \in Procs : \/ q = p /\ client'[q].mem = tok /\ client'[q].last = tok
                           \/ q # p /\ client'[q] = client[q]
      BY <1>m, <1>n
    <2>2. Holdings'
      BY <2>1, <1>m, <1>t DEF NoToken
    <2>3. Alone'
      BY <2>1, <1>m, <1>z
    <2>4. Outlived'
      BY <2>1, <1>m, <1>d
    <2>5. QED BY <2>2, <2>3, <2>4
  \* Nothing that is held changes hands.
  <1>s. ASSUME UNCHANGED <<stored, live, issued, flow>>,
               \A q \in Procs : client'[q].mem = client[q].mem
                                /\ client'[q].last = client[q].last,
               runner' = "clear" => runner = "clear"
        PROVE  TokenInv'
    BY <1>s, <1>d
  <1>1. ASSUME ReadAccount PROVE TokenInv'
    <2>1. CASE UNCHANGED client
      BY <2>1, <1>1, <1>s DEF ReadAccount, BuildEngine
    <2>2. CASE BuildEngine
      <3>1. /\ client' = [client EXCEPT ![Daemon] = NewClient(stored)]
            /\ runner' = "run" /\ UNCHANGED <<stored, live, issued, flow>>
        BY <2>2, <1>1 DEF ReadAccount, BuildEngine
      <3>2. QED BY <3>1, <1>m, <1>d
    <2>3. QED BY <2>1, <2>2, <1>1 DEF ReadAccount
  <1>2. ASSUME AwaitEnds PROVE TokenInv'
    BY <1>2, <1>s DEF AwaitEnds
  <1>3. ASSUME Reread PROVE TokenInv'
    <2>1. CASE UNCHANGED client
      BY <2>1, <1>3, <1>s DEF Reread, BuildEngine
    <2>2. CASE BuildEngine
      <3>1. /\ client' = [client EXCEPT ![Daemon] = NewClient(stored)]
            /\ runner' = "run" /\ UNCHANGED <<stored, live, issued, flow>>
        BY <2>2, <1>3 DEF Reread, BuildEngine
      <3>2. QED BY <3>1, <1>m, <1>d
    <2>3. QED BY <2>1, <2>2, <1>3 DEF Reread
  <1>4. ASSUME Clear PROVE TokenInv'
    BY <1>4, <1>m, <1>d DEF Clear
  <1>5. ASSUME DaemonRestarts PROVE TokenInv'
    <2>1. \A q \in Procs : \/ q = Daemon /\ client'[q] = NoClient
                           \/ q # Daemon /\ client'[q] = client[q]
      BY <1>5, <1>t DEF DaemonRestarts
    <2>2. \A f \in Flows : flow'[f] \in {flow[f], NoToken}
      BY <1>5, <1>t DEF DaemonRestarts
    <2>3. UNCHANGED <<stored, live, issued>> /\ runner' = "read"
      BY <1>5 DEF DaemonRestarts
    <2>4. Holdings'
      BY <2>1, <2>2, <2>3, <1>t DEF NoToken, NoClient
    <2>5. Alone'
      BY <2>1, <2>2, <2>3, <1>z DEF NoClient
    <2>6. Outlived'
      BY <2>1, <2>3 DEF NoClient
    <2>7. QED BY <2>4, <2>5, <2>6
  <1>6. ASSUME NEW p \in Helpers, HelperStarts(p) PROVE TokenInv'
    BY <1>6, <1>m, <1>d DEF HelperStarts
  <1>7. ASSUME NEW p \in Helpers, HelperEnds(p) PROVE TokenInv'
    BY <1>7, <1>m, <1>d DEF HelperEnds
  <1>8. ASSUME NEW p \in Procs, Refresh(p) PROVE TokenInv'
    <2>1. client[p] \in Client /\ UNCHANGED <<stored, flow, runner>>
      BY <1>8, <1>r DEF Refresh
    <2>2. CASE UNCHANGED <<live, issued>>
               /\ client' = [client EXCEPT ![p].valid = TRUE]
      <3>1. \A q \in Procs : client'[q].mem = client[q].mem
                             /\ client'[q].last = client[q].last
        BY <2>1, <2>2, <1>t DEF Client
      <3>2. QED BY <3>1, <2>1, <2>2, <1>s
    <2>3. ASSUME NEW dead \in SUBSET {client[p].mem}, issued' = issued + 1,
                 live' = (live \ dead) \cup {issued'},
                 client' = [client EXCEPT ![p].valid = TRUE, ![p].mem = issued']
          PROVE  TokenInv'
      <3>1. /\ client'[p].mem = issued' /\ client'[p].last = client[p].last
            /\ \A q \in Procs \ {p} : client'[q] = client[q]
        BY <2>1, <2>3, <1>t DEF Client
      <3>0. /\ issued' \in live' /\ live' \subseteq live \cup {issued'}
            /\ \A tok \in live : tok \in live' \/ tok = client[p].mem
        BY <2>3
      <3>2. Holdings'
        BY <3>1, <2>1, <2>3, <1>t
      <3>3. Alone'
        BY <3>1, <2>1, <2>3, <1>t
      <3>4. ASSUME NEW q \in Procs, client'[q].mem \notin live'
            PROVE  client'[q].last \notin live'
        <4>1. q # p
          BY <3>4, <3>1, <3>0
        <4>2. client[q].mem \notin live \/ client[q].mem = client[p].mem
          BY <4>1, <3>4, <3>1, <3>0
        <4>3. CASE client[q].mem \notin live
          BY <4>3, <4>1, <3>1, <2>3, <1>t
        <4>4. CASE client[q].mem = client[p].mem
          BY <4>4, <4>1, <3>1, <3>4
        <4>5. QED BY <4>2, <4>3, <4>4
      <3>5. runner' = "clear" => client'[Daemon].last \notin live'
        BY <3>1, <2>1, <2>3, <1>t, <1>d
      <3>6. QED BY <3>2, <3>3, <3>4, <3>5
    <2>4. QED BY <2>2, <2>3, <1>8 DEF Refresh
  <1>9. ASSUME NEW p \in Procs, Rejected(p) PROVE TokenInv'
    <2>1. CASE p = Daemon
      BY <2>1, <1>9, <1>d DEF Rejected
    <2>2. CASE p # Daemon
      BY <2>2, <1>9, <1>m DEF Rejected
    <2>3. QED BY <2>1, <2>2
  <1>10. ASSUME NEW p \in Procs, Persist(p) PROVE TokenInv'
    <2>1. /\ client'[p].mem = client[p].mem /\ client'[p].last = client[p].mem
          /\ \A q \in Procs \ {p} : client'[q] = client[q]
          /\ stored' = client[p].mem /\ UNCHANGED <<live, issued, flow, runner>>
      BY <1>10, <1>r, <1>t DEF Persist, Client
    <2>2. ~ (p = Daemon /\ runner = "clear")
      BY <1>10 DEF Persist, Running
    <2>3. Holdings'
      BY <2>1
    <2>4. Alone'
      BY <2>1
    <2>5. Outlived'
      BY <2>1, <2>2, <1>d
    <2>6. QED BY <2>3, <2>4, <2>5
  <1>11. ASSUME NEW p \in Procs, Expire(p) PROVE TokenInv'
    <2>1. \A q \in Procs : client'[q].mem = client[q].mem
                           /\ client'[q].last = client[q].last
      BY <1>11, <1>r, <1>t DEF Expire, Client
    <2>2. QED BY <2>1, <1>11, <1>s DEF Expire
  <1>12. ASSUME NEW f \in Flows, Exchange(f) PROVE TokenInv'
    <2>1. /\ issued' = issued + 1 /\ live' = live \cup {issued'}
          /\ \A g \in Flows : flow'[g] = IF g = f THEN issued' ELSE flow[g]
          /\ UNCHANGED <<stored, client, runner>>
      BY <1>12, <1>t DEF Exchange
    <2>2. Holdings'
      BY <2>1, <1>t
    <2>3. Alone'
      BY <2>1, <1>t
    <2>4. Outlived'
      BY <2>1, <1>t, <1>d
    <2>5. QED BY <2>2, <2>3, <2>4
  <1>13. ASSUME NEW f \in Flows, StoreToken(f) \/ StoreFails(f) PROVE TokenInv'
    <2>1. /\ stored' \in {stored, flow[f]}
          /\ \A g \in Flows : flow'[g] \in {flow[g], NoToken}
          /\ UNCHANGED <<live, issued, client, runner>>
      BY <1>13, <1>t DEF StoreToken, StoreFails
    <2>2. Holdings'
      BY <2>1, <1>t DEF NoToken
    <2>3. Alone'
      BY <2>1, <1>z
    <2>4. Outlived'
      BY <2>1
    <2>5. QED BY <2>2, <2>3, <2>4
  <1>14. ASSUME Revoke PROVE TokenInv'
    BY <1>14 DEF Revoke
  <1>15. CASE UNCHANGED consentVars
    BY <1>15, <1>s DEF consentVars
  <1>16. QED
    BY <1>1, <1>2, <1>3, <1>4, <1>5, <1>6, <1>7, <1>8, <1>9, <1>10, <1>11, <1>12,
       <1>13, <1>14, <1>15, <1>d DEF ConsentNext, RunnerStep

LEMMA TokenInvariant == ConsentSpec => [](ConsentInv /\ TokenInv)
  <1>1. QED BY ConsentInitially, ConsentInvStep, TokenInvStep, PTL DEF ConsentSpec

-----------------------------------------------------------------------------
\* Every state of the runner, the clients and the consent flows has its type.
THEOREM ConsentTypes == ConsentSpec => []ConsentTypeOK
  <1>1. ConsentInv => ConsentTypeOK
    BY DEF ConsentInv
  <1>2. QED BY <1>1, ConsentInvariant, PTL

\* The wait for consent never ends on a row without a token: whatever told the
\* runner, the token is in the row, and nobody deletes it before the runner
\* looks again (runloop.go, "no refresh token is stored").
THEOREM ReportedConsentIsStored == ConsentSpec => []ConsentIsStored
  <1>1. ConsentInv => ConsentIsStored
    BY DEF ConsentInv, RunnerControl, ConsentIsStored
  <1>2. QED BY <1>1, ConsentInvariant, PTL

\* Only Clear empties the row.
LEMMA OnlyClearDeletes ==
  ConsentInv /\ [ConsentNext]_consentVars /\ stored # NoToken /\ stored' = NoToken
    => Clear
  <1> SUFFICES ASSUME ConsentInv, [ConsentNext]_consentVars,
                      stored # NoToken, stored' = NoToken
               PROVE  Clear
    OBVIOUS
  <1>1. ASSUME NEW p \in Procs, Persist(p) PROVE FALSE
    BY <1>1, RunningHasClient DEF Persist, Client, Tokens, NoToken
  <1>2. ASSUME NEW f \in Flows, StoreToken(f) PROVE FALSE
    BY <1>2 DEF StoreToken
  <1>3. Daemon \in Procs /\ Helpers \subseteq Procs
    BY DEF Procs
  <1>4. QED
    BY <1>1, <1>2, <1>3
       DEF ConsentNext, RunnerStep, consentVars, ReadAccount, AwaitEnds, Reread,
           DaemonRestarts, HelperStarts, HelperEnds, Refresh, Rejected, Expire,
           Exchange, StoreFails, Revoke

\* The daemon deletes a refresh token only if Spotify no longer accepts it,
\* although what it compares the row with is not the token that was refused
\* (ClearSpotifyRefreshTokenIf, syncRunner.run).
THEOREM OnlyTheDeadAreCleared == ConsentSpec => ClearsOnlyDead
  <1>1. ConsentInv /\ TokenInv /\ [ConsentNext]_consentVars
          => [stored # NoToken /\ stored' = NoToken => stored \notin live]_consentVars
    <2> SUFFICES ASSUME ConsentInv, TokenInv, [ConsentNext]_consentVars,
                        stored # NoToken, stored' = NoToken
                 PROVE  stored \notin live
      OBVIOUS
    <2>1. Clear
      BY OnlyClearDeletes
    <2>2. stored = client[Daemon].last /\ runner = "clear"
      BY <2>1 DEF Clear
    <2>3. QED BY <2>2 DEF TokenInv, Outlived
  <1>2. QED BY <1>1, TokenInvariant, PTL DEF ConsentSpec, ClearsOnlyDead
=============================================================================
