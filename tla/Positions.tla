----------------------------- MODULE Positions ------------------------------
(***************************************************************************)
(* Positions of a sequence in their order, and the sequence that is left   *)
(* at some of them.                                                        *)
(***************************************************************************)
EXTENDS Naturals, Sequences, FiniteSets

Rank(S, p) == Cardinality({q \in S : q <= p})
Nth(S, n) == CHOOSE p \in S : Rank(S, p) = n

\* The elements of s that are in X, in their order.
Only(s, X) ==
  LET P == {p \in DOMAIN s : s[p] \in X}
  IN [n \in 1..Cardinality(P) |-> s[Nth(P, n)]]
=============================================================================
