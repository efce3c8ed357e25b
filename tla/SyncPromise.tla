----------------------------- MODULE SyncPromise -----------------------------
(***************************************************************************)
(* What difmsync promises a member, with no pass, no command and no        *)
(* failure in sight: a like waits behind the mark until it is placed, in   *)
(* the ledger or in the review queue, and only then may the mark pass it;  *)
(* what is recorded was in the playlist first, is recorded once, and is    *)
(* dropped by nobody but the operator; a decision stands.                  *)
(* (README.md, "Safety properties"; engine.go, the comments of pass.)      *)
(***************************************************************************)
EXTENDS Naturals

CONSTANTS Likes, Tracks, None

VARIABLES
  liked,    \* when each like was cast, 0 when it is not liked
  mark,     \* what is not after it is not read again
  row,      \* the track each like was added as, or None
  entry,    \* its place in the review queue
  held,     \* the tracks the playlist has ever held
  excused   \* likes the operator dropped, or that share their second

vars == <<liked, mark, row, entry, held, excused>>

Init ==
  /\ liked = [l \in Likes |-> 0] /\ mark = 0
  /\ row = [l \in Likes |-> None] /\ entry = [l \in Likes |-> "none"]
  /\ held = {} /\ excused = {}

\* A like the mark has passed was placed, or there is an excuse.
Covered ==
  \A l \in Likes :
    0 < liked[l] /\ liked[l] <= mark =>
      row[l] # None \/ entry[l] # "none" \/ l \in excused

Vote(l) ==
  /\ liked[l] = 0 /\ liked'[l] > 0
  /\ liked' = [liked EXCEPT ![l] = liked'[l]]
  /\ excused \subseteq excused'
  /\ Covered'
  /\ UNCHANGED <<mark, row, entry, held>>

Unvote(l) ==
  /\ liked' = [liked EXCEPT ![l] = 0]
  /\ excused \ {l} \subseteq excused' /\ excused' \subseteq excused
  /\ UNCHANGED <<mark, row, entry, held>>

\* The playlist gains tracks; what it loses does not concern the promise.
Gain == held \subseteq held' /\ UNCHANGED <<liked, mark, row, entry, excused>>

\* Likes are recorded, and the mark moves, over nothing that is not placed.
Settle ==
  /\ \A l \in Likes : row'[l] # row[l] => row[l] = None /\ row'[l] \in held
  /\ excused' \subseteq excused
  /\ Covered'
  /\ UNCHANGED <<liked, entry, held>>

Queue(l) ==
  /\ entry[l] = "none"
  /\ entry' = [entry EXCEPT ![l] = "pending"]
  /\ UNCHANGED <<liked, mark, row, held, excused>>

\* Approved or rejected: by the operator, and for good.
Decide(l) ==
  /\ entry[l] # "none"
  /\ entry' = [entry EXCEPT ![l] = "decided"]
  /\ UNCHANGED <<liked, mark, row, held, excused>>

\* resync drops ledger rows.
Forget ==
  /\ \A l \in Likes : row'[l] # row[l] => row'[l] = None /\ l \in excused'
  /\ excused \subseteq excused'
  /\ UNCHANGED <<liked, mark, entry, held>>

Next ==
  \/ \E l \in Likes : Vote(l) \/ Unvote(l) \/ Queue(l) \/ Decide(l)
  \/ Gain \/ Settle \/ Forget

Spec == Init /\ [][Next]_vars
=============================================================================
