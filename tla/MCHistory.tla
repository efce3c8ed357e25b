----------------------------- MODULE MCHistory ------------------------------
(* Small instances of RunHistory; its engines are interchangeable. *)
EXTENDS RunHistory, TLC

EitherEngine == Permutations(Engines)
=============================================================================
