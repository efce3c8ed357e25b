------------------------------- MODULE MCSync -------------------------------
(***************************************************************************)
(* Small instances of SyncSystem for TLC: three likes, of which l1 and l2  *)
(* may resolve to the same Spotify track and l3 is a DJ mix; one daemon,   *)
(* and a second engine that is a one-shot `sync` or a dry run.             *)
(***************************************************************************)
EXTENDS SyncRefinement

CONSTANTS l1, l2, l3, t1, t2, daemon, oneshot, preview,
          Votes, Edits, Resyncs, Reviews, Syncs, Faults, Kills

MCBudget == [vote |-> Votes, edit |-> Edits, resync |-> Resyncs, review |-> Reviews,
             sync |-> Syncs, fault |-> Faults, kill |-> Kills]

Auto(t)  == [band |-> "auto", best |-> t, cands |-> {t}]
Close(t, others) == [band |-> "review", best |-> t, cands |-> {t} \cup others]
Nothing  == [band |-> "below", best |-> None, cands |-> {}]

\* Two likes of one recording; and a like that only a human can place.
Twins == [l \in Likes |-> CASE l = l1 -> {Auto(t1)}
                            [] l = l2 -> {Auto(t1), Auto(t2), Nothing}
                            [] l = l3 -> {Nothing}]
Mixed == [l \in Likes |-> CASE l = l1 -> {Auto(t1)}
                            [] l = l2 -> {Close(t1, {t2})}
                            [] l = l3 -> {Nothing}]
=============================================================================
