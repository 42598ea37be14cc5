------------------------------ MODULE MCRefresh ------------------------------
(***************************************************************************)
(* Instances of Refresh for TLC.  A second task slot per thread is there   *)
(* for a second refresh of it, should one ever be started.                 *)
(***************************************************************************)
EXTENDS Refresh

CONSTANTS s1, s2, t1, t2
=============================================================================
