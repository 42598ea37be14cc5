----------------------------- MODULE MCSmtpSink -----------------------------
(***************************************************************************)
(* Instances of SmtpSink for TLC.  Two worker slots are enough to see a    *)
(* second worker if spawn_worker ever started one.                         *)
(***************************************************************************)
EXTENDS SmtpSink

CONSTANTS c1, c2, w1, w2

\* The server takes a comment a second time.
MCMaxSends == [c \in Comments |-> 2]
=============================================================================
