------------------------------ MODULE MCThread ------------------------------
(***************************************************************************)
(* Instances of Thread for TLC: search results of three messages, each of  *)
(* them new, with any subject, or an answer whose References name the      *)
(* message it answers and perhaps one more, itself included; in any order  *)
(* of sending, over two send times; once with distinct Message-IDs, once   *)
(* with two messages that share one.  Left to the theorems: In-Reply-To    *)
(* without References or References without In-Reply-To, and answers to    *)
(* what is not in the result.                                              *)
(***************************************************************************)
EXTENDS Thread

CONSTANTS a, b, c

\* What a message may say of itself: new, with any subject, or an answer to
\* one message, with References that may also name another.
Headers ==
  {[in_reply_to |-> NoId, references |-> {}, subject |-> s] :
     s \in {"exact", "contains", "other"}}
  \cup {[in_reply_to |-> x, references |-> {x, y}, subject |-> "contains"] : x, y \in Ids}

MCMessage(x) ==
  {[id |-> x, sent |-> d, in_reply_to |-> h.in_reply_to, references |-> h.references,
    subject |-> h.subject] : h \in Headers, d \in 1..2}

MCInputs == (MCMessage(a) \X MCMessage(b) \X MCMessage(c))
            \cup (MCMessage(a) \X MCMessage(a) \X MCMessage(b))

\* Of these, the conversations people really have: a is new, b is new or an
\* answer to it, c is new or an answer to either.  Only the clocks may differ.
MCConversations ==
  {m \in MCMessage(a) \X MCMessage(b) \X MCMessage(c) :
     m[1].references = {} /\ m[2].references \subseteq {a} /\ m[3].references \subseteq {a, b}}
=============================================================================
