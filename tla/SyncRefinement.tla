--------------------------- MODULE SyncRefinement ---------------------------
(***************************************************************************)
(* SyncSystem, with its passes, commands and failures, keeps the promise:  *)
(* each of its steps is one of SyncPromise's, or changes nothing that the  *)
(* promise speaks of.                                                      *)
(***************************************************************************)
EXTENDS SyncSystem

Row   == [l \in Likes |-> IF ledger[l] = None THEN None ELSE ledger[l].track]
Entry == [l \in Likes |-> IF queue[l] = None THEN "none"
                          ELSE IF queue[l].status = "pending" THEN "pending"
                                                             ELSE "decided"]
Excused == forgotten \cup {l \in Likes : likedAt[l] > 0 /\ likedAt[l] \in shared}

Promise == INSTANCE SyncPromise
             WITH liked <- likedAt, mark <- watermark, row <- Row,
                  entry <- Entry, held <- everIn, excused <- Excused

\* The passes, commands and failures of the program implement the promise: a
\* row appears once, for a track that was added, and goes only by a resync; the
\* mark passes no like that is not placed; a decision is never undone.
KeepsThePromise == Promise!Spec
=============================================================================
