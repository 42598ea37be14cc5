------------------------------- MODULE Thread -------------------------------
(***************************************************************************)
(* How a search result becomes a page: Thread::resolve and Node::resolve   *)
(* (src/lib/thread/mod.rs) on the parsed messages (src/lib/mail/mod.rs).   *)
(*                                                                         *)
(* A message is named by its position in mail.  Sorting rearranges mail    *)
(* once; afterwards the vector `messages` of the code is the set remaining *)
(* in increasing order, and the recursion of Node::resolve is the stack of *)
(* nodes that have yet to claim their replies, the next one first.         *)
(***************************************************************************)
EXTENDS Naturals, Sequences, FiniteSets

CONSTANTS
  Inputs,   \* the search results to resolve: sequences of messages
  Ids,      \* the Message-IDs that occur in them
  NoId      \* no In-Reply-To header

\* id, in_reply_to and references are the headers; sent is the sort key, the
\* date or i64::MAX without one; subject is "exact" for the canonical subject,
\* "contains" if it contains the slug, else "other".
Message == [id : Ids, in_reply_to : Ids \cup {NoId}, references : SUBSET Ids,
            sent : Nat, subject : {"exact", "contains", "other"}]

ASSUME ThreadConstants == NoId \notin Ids /\ Inputs \subseteq Seq(Message)

VARIABLES
  mail,       \* the parsed messages
  phase,      \* "sort", "scan", then "done" or "rejected"
  remaining,  \* the messages nobody has claimed
  i,          \* the scan's index into them, from 0
  stack,      \* claimed messages whose own replies are not claimed yet
  parent,     \* parent[m]: the message m is a reply to, 0 at top level
  shown       \* the page: the claimed messages in the order of display

vars == <<mail, phase, remaining, i, stack, parent, shown>>

Messages == DOMAIN mail

-----------------------------------------------------------------------------
(* src/lib/mail/mod.rs *)

IsTopLevel(m) == mail[m].in_reply_to = NoId /\ mail[m].references = {}

RepliesTo(m, p) ==
  mail[m].in_reply_to = mail[p].id \/ mail[p].id \in mail[m].references

-----------------------------------------------------------------------------
(* Thread::resolve *)

\* The rearrangements that sort by send time and keep equal messages in order.
StableSorts ==
  {p \in [Messages -> Messages] :
     \A j, k \in Messages :
       j < k => \/ mail[p[j]].sent < mail[p[k]].sent
                \/ mail[p[j]].sent = mail[p[k]].sent /\ p[j] < p[k]}

HasExactMatch == \E m \in Messages : IsTopLevel(m) /\ mail[m].subject = "exact"

\* Mutant of Sort: the order of the search result is kept.
MutSort ==
  /\ phase = "sort"
  /\ phase' = IF HasExactMatch THEN "scan" ELSE "rejected"
  /\ UNCHANGED <<mail, remaining, i, stack, parent, shown>>

Sort ==
  /\ phase = "sort"
  /\ \E p \in StableSorts : mail' = [m \in Messages |-> mail[p[m]]]
  /\ phase' = IF HasExactMatch THEN "scan" ELSE "rejected"
  /\ UNCHANGED <<remaining, i, stack, parent, shown>>

\* messages[i]
At(m) == m \in remaining /\ Cardinality({x \in remaining : x < m}) = i

ForSlug(m) == IsTopLevel(m) /\ mail[m].subject \in {"exact", "contains"}

\* Mutant of TakeTopLevel: the index moves on although the vector shrank.
MutTakeTopLevel(m) ==
  /\ phase = "scan" /\ stack = <<>> /\ At(m) /\ ForSlug(m)
  /\ remaining' = remaining \ {m} /\ i' = i + 1
  /\ stack' = <<m>>
  /\ UNCHANGED <<mail, phase, parent, shown>>

TakeTopLevel(m) ==
  /\ phase = "scan" /\ stack = <<>> /\ At(m) /\ ForSlug(m)
  /\ remaining' = remaining \ {m}
  /\ stack' = <<m>>
  /\ UNCHANGED <<mail, phase, i, parent, shown>>

PassOver(m) ==
  /\ phase = "scan" /\ stack = <<>> /\ At(m) /\ ~ForSlug(m)
  /\ i' = i + 1
  /\ UNCHANGED <<mail, phase, remaining, stack, parent, shown>>

Finish ==
  /\ phase = "scan" /\ stack = <<>> /\ i >= Cardinality(remaining)
  /\ phase' = "done"
  /\ UNCHANGED <<mail, remaining, i, stack, parent, shown>>

-----------------------------------------------------------------------------
(* Node::resolve *)

\* The members of S, first to last.
Listings(S) ==
  {q \in [1..Cardinality(S) -> S] :
     /\ \A x \in S : \E k \in DOMAIN q : q[k] = x
     /\ \A j, k \in DOMAIN q : j < k => q[j] < q[k]}

\* Mutant of Replies: every reply in the thread is claimed.
MutReplies(p) == {m \in remaining : ~IsTopLevel(m)}

Replies(p) == {m \in remaining : RepliesTo(m, p)}

\* Mutant of Claim: the index moves on after a removal, so of two adjacent
\* replies only the first is claimed.
MutClaim ==
  /\ stack # <<>>
  /\ LET p == Head(stack)
         R == {m \in Replies(p) : \A x \in Replies(p) : x # m - 1}
     IN  /\ remaining' = remaining \ R
         /\ parent' = [m \in Messages |-> IF m \in R THEN p ELSE parent[m]]
         /\ \E q \in Listings(R) : stack' = q \o Tail(stack)
         /\ shown' = Append(shown, p)
  /\ UNCHANGED <<mail, phase, i>>

\* Mutant of Claim: replies are copied out of the vector, not removed.
MutClaimCopies ==
  /\ stack # <<>>
  /\ LET p == Head(stack)
     IN  /\ parent' = [m \in Messages |-> IF m \in Replies(p) THEN p ELSE parent[m]]
         /\ \E q \in Listings(Replies(p)) : stack' = q \o Tail(stack)
         /\ shown' = Append(shown, p)
  /\ UNCHANGED <<mail, phase, remaining, i>>

\* Mutant of Claim: a reply is filed under a Message-ID.
MutClaimById ==
  /\ stack # <<>>
  /\ LET p == Head(stack)
     IN  /\ remaining' = remaining \ Replies(p)
         /\ parent' = [m \in Messages |->
                         IF m \in Replies(p) THEN mail[p].id ELSE parent[m]]
         /\ \E q \in Listings(Replies(p)) : stack' = q \o Tail(stack)
         /\ shown' = Append(shown, p)
  /\ UNCHANGED <<mail, phase, i>>

\* The next node claims every direct reply that is left; they resolve first.
Claim ==
  /\ stack # <<>>
  /\ LET p == Head(stack)
     IN  /\ remaining' = remaining \ Replies(p)
         /\ parent' = [m \in Messages |-> IF m \in Replies(p) THEN p ELSE parent[m]]
         /\ \E q \in Listings(Replies(p)) : stack' = q \o Tail(stack)
         /\ shown' = Append(shown, p)
  /\ UNCHANGED <<mail, phase, i>>

-----------------------------------------------------------------------------

Init ==
  /\ mail \in Inputs
  /\ phase = "sort"
  /\ remaining = Messages /\ i = 0 /\ stack = <<>>
  /\ parent = [m \in Messages |-> 0]
  /\ shown = <<>>

Next ==
  \/ Sort
  \/ \E m \in Messages : TakeTopLevel(m) \/ PassOver(m)
  \/ Claim
  \/ Finish

Spec == Init /\ [][Next]_vars

-----------------------------------------------------------------------------
(* Properties *)

OnPage == {shown[k] : k \in DOMAIN shown}
Pending == {stack[k] : k \in DOMAIN stack}

TypeOK ==
  /\ mail \in Seq(Message)
  /\ phase \in {"sort", "scan", "done", "rejected"}
  /\ remaining \subseteq Messages
  /\ i \in 0..Len(mail)
  /\ stack \in Seq(Messages) /\ shown \in Seq(Messages)
  /\ parent \in [Messages -> Messages \cup {0}]

\* Every message is in one place: unclaimed, waiting for its replies, or on
\* the page, and on the page once, however replies and references overlap.
EachOnce ==
  /\ remaining \cup Pending \cup OnPage = Messages
  /\ remaining \cap Pending = {} /\ remaining \cap OnPage = {}
  /\ Pending \cap OnPage = {}
  /\ Len(shown) = Cardinality(OnPage) /\ Len(stack) = Cardinality(Pending)

\* shown[j] is the first message on the page that m names in either header.
FirstNamed(m, j) ==
  RepliesTo(m, shown[j]) /\ \A l \in 1..(j - 1) : ~RepliesTo(m, shown[l])

\* The page is a forest in display order, also if the headers form a cycle: a
\* reply is shown after and under the first message on the page that it names,
\* whether that is the message it answers or an ancestor in its References; what
\* is shown at top level is a top-level message for the slug.
RepliesUnderFirstNamed ==
  \A k \in DOMAIN shown :
    LET m == shown[k]
    IN  IF parent[m] = 0 THEN ForSlug(m)
        ELSE \E j \in 1..(k - 1) : shown[j] = parent[m] /\ FirstNamed(m, j)

\* A message left out replies to nothing that is shown.
NoReplyLeftBehind ==
  phase = "done" => \A m \in remaining, p \in OnPage : ~RepliesTo(m, p)

\* Siblings, and the top-level messages, are displayed in the order sent.
SiblingsInOrder ==
  \A j, k \in DOMAIN shown :
    j < k /\ parent[shown[j]] = parent[shown[k]]
      => mail[shown[j]].sent <= mail[shown[k]].sent

\* In the sorted result, every reply comes after all the messages it names.
\* (Dates in order are not enough: of two messages dated the same second the
\* reply may come first, and no message comes after itself.)
RepliesSortAfter == \A m, p \in Messages : RepliesTo(m, p) => p < m

\* If every reply comes after what it names in the sorted result, every
\* top-level message for the slug is shown.
InOrderComplete ==
  phase = "done" /\ RepliesSortAfter => \A m \in remaining : ~ForSlug(m)

\* "Every non-reply message matching the subject is a top-level message with
\* equal standing" (src/lib/thread/mod.rs:38), wherever the sort puts
\* the replies.
EveryTopLevelShown == phase = "done" => \A m \in remaining : ~ForSlug(m)

\* The headers compose gives a reply to p (src/lib/compose/mod.rs:45).
ComposedReply(m, p) ==
  /\ mail[m].in_reply_to = mail[p].id
  /\ mail[m].references = {mail[p].id}

\* m stands right under a message with the id of p.
DirectlyUnder(m, p) ==
  m \in OnPage /\ parent[m] # 0 /\ mail[parent[m]].id = mail[p].id

\* A reply whose References name only the message it answers, as compose
\* writes them, is shown directly under it.
WebReplyNests ==
  phase = "done" =>
    \A m, p \in Messages :
      ComposedReply(m, p) /\ p \in OnPage /\ m # p => DirectlyUnder(m, p)

\* The headers a mail client gives a reply to p: References are those of p and
\* p itself.
ClientReply(m, p) ==
  /\ mail[m].in_reply_to = mail[p].id
  /\ mail[m].references = mail[p].references \cup {mail[p].id}

\* A node claims its direct replies and "each reply claims its own"
\* (src/lib/thread/mod.rs:59), also when they were written in a mail client.
ClientReplyNests ==
  phase = "done" =>
    \A m, p \in Messages :
      ClientReply(m, p) /\ p \in OnPage /\ m # p => DirectlyUnder(m, p)

\* What is left to do: a phase to leave, a message to put on the page, one to
\* take out of the vector, a place to pass over.
StepsLeft ==
  (IF phase = "sort" THEN 2 ELSE IF phase = "scan" THEN 1 ELSE 0)
  + (Len(mail) - Len(shown)) + Cardinality(remaining) + (Len(mail) - i)

\* resolve never goes round in circles, whatever cycles the headers form: it
\* is over after 3 * Len(mail) + 2 steps.
StepsBounded == [][StepsLeft' \in 0..(StepsLeft - 1)]_vars
=============================================================================
