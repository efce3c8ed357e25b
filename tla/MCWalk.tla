------------------------------- MODULE MCWalk -------------------------------
(* Small instances of LikesWalk. *)
EXTENDS LikesWalk
=============================================================================
