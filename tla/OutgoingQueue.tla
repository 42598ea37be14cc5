---------------------------- MODULE OutgoingQueue ----------------------------
(***************************************************************************)
(* What the outgoing half of threadmail promises a visitor, without the    *)
(* machinery: a comment that was accepted stays queued, across restarts,   *)
(* until the mail server has taken it at least once or it is given up      *)
(* (its TTL passed, or the stored addresses are unusable).  Delivery is    *)
(* at least once: the server may take the same comment again.              *)
(* The promise is the contract of MailSink::submit (src/lib/source/mod.rs) *)
(* and of the OutgoingCommentStore trait (src/lib/store/mod.rs).           *)
(***************************************************************************)
EXTENDS Naturals

CONSTANTS
  Comments,     \* the comments visitors submit
  Unusable      \* those whose stored envelope cannot be rebuilt

VARIABLES
  state,        \* state[c]: "new", "queued" or "gone"
  sent,         \* sent[c]: how often the mail server has taken c
  expired       \* comments queued for longer than outgoing_message_ttl

qvars == <<state, sent, expired>>

QueueInit ==
  /\ state = [c \in Comments |-> "new"]
  /\ sent = [c \in Comments |-> 0]
  /\ expired = {}

\* The comment is durably queued; the visitor can be answered.
Accept(c) ==
  /\ state[c] = "new"
  /\ state' = [state EXCEPT ![c] = "queued"]
  /\ UNCHANGED <<sent, expired>>

\* The TTL of a queued comment passes.
Age(c) ==
  /\ state[c] = "queued" /\ c \notin expired
  /\ expired' = expired \cup {c}
  /\ UNCHANGED <<state, sent>>

\* The mail server takes the message; only a queued comment is ever sent.
Deliver(c) ==
  /\ state[c] = "queued"
  /\ sent' = [sent EXCEPT ![c] = @ + 1]
  /\ UNCHANGED <<state, expired>>

\* A comment leaves the queue only once it was delivered or given up.
Leave(c) ==
  /\ state[c] = "queued"
  /\ sent[c] > 0 \/ c \in expired \/ c \in Unusable
  /\ state' = [state EXCEPT ![c] = "gone"]
  /\ UNCHANGED <<sent, expired>>

QueueNext == \E c \in Comments : Accept(c) \/ Age(c) \/ Deliver(c) \/ Leave(c)

QueueSpec == QueueInit /\ [][QueueNext]_qvars
=============================================================================
