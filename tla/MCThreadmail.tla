---------------------------- MODULE MCThreadmail ----------------------------
(***************************************************************************)
(* An instance of Threadmail for TLC: a submission and a re-click of it,   *)
(* which are interchangeable.                                              *)
(***************************************************************************)
EXTENDS Threadmail, TLC

CONSTANTS r1, r2, k1, s1, w1

MCKeyOf == [r \in Requests |-> k1]
MCSlugOf == [r \in Requests |-> s1]
MCMaxSends == [r \in Requests |-> 1]

Clicks == Permutations(Requests)
=============================================================================
