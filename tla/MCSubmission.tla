---------------------------- MODULE MCSubmission ----------------------------
(***************************************************************************)
(* An instance of Submission for TLC: three clicks on the same form and    *)
(* one on another.                                                         *)
(***************************************************************************)
EXTENDS Submission

CONSTANTS r1, r2, r3, r4, k1, k2

MCKeyOf == [r \in Requests |-> IF r = r4 THEN k2 ELSE k1]
=============================================================================
