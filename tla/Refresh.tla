------------------------------ MODULE Refresh ------------------------------
(***************************************************************************)
(* The incoming half of threadmail: AppState's background refresh          *)
(* (src/lib/mod.rs), the incoming_comments tables of SqliteStore, and the  *)
(* GET handler that serves a page from that cache (src/lib/web/mod.rs).    *)
(*                                                                         *)
(* A search result is a view of the mailbox at the moment of the search:   *)
(* the number of messages the thread had by then.  Whether a cached view   *)
(* is older than incoming_message_ttl is abstracted to "fresh" or "old";   *)
(* Age turns one into the other.  Each thread has at most one reader with  *)
(* an open page; the page reloads itself, as its meta refresh tag does.    *)
(***************************************************************************)
EXTENDS Naturals, FiniteSets

CONSTANTS
  Slugs,        \* the threads
  Tasks,        \* slots for running instances of the refresh task
  MaxSearches,  \* imap.max_concurrent_searches
  MaxMail       \* bound: messages of a thread, and its hooks due at once

ASSUME RefreshConstants == MaxSearches \in Nat /\ MaxMail \in Nat

VARIABLES
  mailbox,     \* mailbox[s]: messages of thread s in the mailbox (external)
  hooks,       \* hooks[s]: confirmed deliveries whose on_delivered is due
  cache,       \* cache[s]: how many of them incoming_comments holds
  refreshed,   \* refreshed[s]: the row of incoming_comments_refreshed_at
  refreshing,  \* AppState.refreshing
  permits,     \* free permits of search_limit
  phase,       \* phase[t]: where refresh task t is
  subject,     \* subject[t]: the slug it refreshes
  found,       \* found[t]: the view its search returned
  page,        \* page[s]: "closed", "reading" (in the GET handler) or "shown"
  rows,        \* rows[s]: the cached messages that page was rendered from
  stale,       \* stale[s]: whether it carries the stale notice
  searched,    \* ghost: threads of which a search result was ever stored
  owed,        \* ghost: owed[s]: the view the last on_delivered asked for
  late         \* ghost: threads whose on_delivered met an answered search

taskvars == <<refreshing, permits, phase, subject, found>>
pagevars == <<page, rows, stale>>
ghosts == <<searched, owed, late>>
vars == <<mailbox, hooks, cache, refreshed, taskvars, pagevars, ghosts>>

Phase ==
  {"idle", "waiting", "searching", "fetching", "found", "failed", "stored", "unstored"}

\* An IMAP session is open, up to the answer to its SEARCH and after it.
InSession == {"searching", "fetching"}

Live == {t \in Tasks : phase[t] # "idle"}

-----------------------------------------------------------------------------
(* refresh_in_background *)

Start(s) ==
  \E t \in Tasks :
    /\ phase[t] = "idle"
    /\ phase' = [phase EXCEPT ![t] = "waiting"]
    /\ subject' = [subject EXCEPT ![t] = s]
    /\ refreshing' = refreshing \cup {s}
    /\ UNCHANGED <<permits, found>>

\* Mutant of RefreshInBackground: every call starts a search.
MutRefreshInBackground(s) == Start(s)

\* A refresh of the slug that is already running is not joined by another.
RefreshInBackground(s) ==
  \/ s \in refreshing /\ UNCHANGED taskvars
  \/ s \notin refreshing /\ Start(s)

-----------------------------------------------------------------------------
(* The mailbox and the outgoing half, as far as this half sees them *)

\* A message for the thread appears in the mailbox, from whatever sender.
Arrive(s) ==
  /\ mailbox[s] < MaxMail
  /\ mailbox' = [mailbox EXCEPT ![s] = @ + 1]
  /\ UNCHANGED <<hooks, cache, refreshed, taskvars, pagevars, ghosts>>

\* The mail server confirms a delivery of the sink.  The message itself may
\* Arrive before that, later, or never.
Deliver(s) ==
  /\ hooks[s] < MaxMail
  /\ hooks' = [hooks EXCEPT ![s] = @ + 1]
  /\ UNCHANGED <<mailbox, cache, refreshed, taskvars, pagevars, ghosts>>

\* A refresh of the thread has its answer and may still store it, or just has.
PastSearch(s) ==
  \E t \in Tasks : subject[t] = s /\ phase[t] \in {"fetching", "found", "stored"}

\* The on_delivered hook boot() hands to the sink.
OnDelivered(s) ==
  /\ hooks[s] > 0
  /\ hooks' = [hooks EXCEPT ![s] = @ - 1]
  /\ RefreshInBackground(s)
  /\ owed' = [owed EXCEPT ![s] = mailbox[s]]
  /\ late' = IF PastSearch(s) THEN late \cup {s} ELSE late \ {s}
  /\ UNCHANGED <<mailbox, cache, refreshed, pagevars, searched>>

\* The POST handler invalidates the thread before it composes the comment; a
\* failure to do so is ignored.
Invalidate(s) ==
  /\ refreshed' \in {refreshed, [refreshed EXCEPT ![s] = "never"]}
  /\ UNCHANGED <<mailbox, hooks, cache, taskvars, pagevars, ghosts>>

\* incoming_message_ttl passes.
Age(s) ==
  /\ refreshed[s] = "fresh"
  /\ refreshed' = [refreshed EXCEPT ![s] = "old"]
  /\ UNCHANGED <<mailbox, hooks, cache, taskvars, pagevars, ghosts>>

-----------------------------------------------------------------------------
(* handle_get_thread *)

\* The cache is read; an entry without a time, or past its TTL, is stale.  A
\* failure to read the time alone counts as an entry without one.
ReadCache(s) ==
  /\ page[s] # "reading"
  /\ page' = [page EXCEPT ![s] = "reading"]
  /\ rows' = [rows EXCEPT ![s] = cache[s]]
  /\ \E unread \in BOOLEAN :
       stale' = [stale EXCEPT ![s] = unread \/ refreshed[s] # "fresh"]
  /\ UNCHANGED <<mailbox, hooks, cache, refreshed, taskvars, ghosts>>

\* A cache that cannot be read counts as an empty one never refreshed.
ReadFails(s) ==
  /\ page[s] # "reading"
  /\ page' = [page EXCEPT ![s] = "reading"]
  /\ rows' = [rows EXCEPT ![s] = 0]
  /\ stale' = [stale EXCEPT ![s] = TRUE]
  /\ UNCHANGED <<mailbox, hooks, cache, refreshed, taskvars, ghosts>>

\* A stale view starts a refresh; the page is rendered without waiting for it.
Respond(s) ==
  /\ page[s] = "reading"
  /\ \/ stale[s] /\ RefreshInBackground(s)
     \/ ~stale[s] /\ UNCHANGED taskvars
  /\ page' = [page EXCEPT ![s] = "shown"]
  /\ UNCHANGED <<mailbox, hooks, cache, refreshed, rows, stale, ghosts>>

-----------------------------------------------------------------------------
(* refresh *)

SetPhase(t, p) == phase' = [phase EXCEPT ![t] = p]

\* A refresh that ends without storing its result owes nobody anything.
Excuse(t) == owed' = [owed EXCEPT ![subject[t]] = 0]

\* Mutant of AcquirePermit: a permit is taken without waiting for a free one.
MutAcquirePermit(t) ==
  /\ phase[t] = "waiting"
  /\ permits' = permits - 1
  /\ SetPhase(t, "searching")
  /\ UNCHANGED <<mailbox, hooks, cache, refreshed, refreshing, subject, found,
                 pagevars, ghosts>>

AcquirePermit(t) ==
  /\ phase[t] = "waiting" /\ permits > 0
  /\ permits' = permits - 1
  /\ SetPhase(t, "searching")
  /\ UNCHANGED <<mailbox, hooks, cache, refreshed, refreshing, subject, found,
                 pagevars, ghosts>>

\* Mutant of PermitTimeout: the early return leaves the slug marked.
MutPermitTimeout(t) ==
  /\ phase[t] = "waiting" /\ permits = 0
  /\ SetPhase(t, "idle")
  /\ Excuse(t)
  /\ UNCHANGED <<mailbox, hooks, cache, refreshed, refreshing, permits, subject,
                 found, pagevars, searched, late>>

\* A free permit goes to a waiter, so only one without any times out.
PermitTimeout(t) ==
  /\ phase[t] = "waiting" /\ permits = 0
  /\ SetPhase(t, "idle")
  /\ refreshing' = refreshing \ {subject[t]}
  /\ Excuse(t)
  /\ UNCHANGED <<mailbox, hooks, cache, refreshed, permits, subject, found,
                 pagevars, searched, late>>

\* The SEARCH command (sent once more if an unsolicited response broke into the
\* first) answers with what the mailbox holds now; the session goes on to FETCH.
Search(t) ==
  /\ phase[t] = "searching" /\ mailbox[subject[t]] > 0
  /\ found' = [found EXCEPT ![t] = mailbox[subject[t]]]
  /\ SetPhase(t, "fetching")
  /\ UNCHANGED <<mailbox, hooks, cache, refreshed, refreshing, permits, subject,
                 pagevars, ghosts>>

\* No ids: there is nothing to fetch.
SearchEmpty(t) ==
  /\ phase[t] = "searching" /\ mailbox[subject[t]] = 0
  /\ found' = [found EXCEPT ![t] = 0]
  /\ permits' = permits + 1
  /\ SetPhase(t, "found")
  /\ UNCHANGED <<mailbox, hooks, cache, refreshed, refreshing, subject, pagevars,
                 ghosts>>

\* The bodies of the messages found are here.  The permit is dropped before the
\* cache is written.
Fetch(t) ==
  /\ phase[t] = "fetching"
  /\ permits' = permits + 1
  /\ SetPhase(t, "found")
  /\ UNCHANGED <<mailbox, hooks, cache, refreshed, refreshing, subject, found,
                 pagevars, ghosts>>

\* Mutant of SearchFails: the permit is leaked with the error.
MutSearchFails(t) ==
  /\ phase[t] \in InSession
  /\ SetPhase(t, "failed")
  /\ UNCHANGED <<mailbox, hooks, cache, refreshed, refreshing, permits, subject,
                 found, pagevars, ghosts>>

\* Connection, login, SELECT, SEARCH or FETCH fails, or the blocking task panics.
SearchFails(t) ==
  /\ phase[t] \in InSession
  /\ permits' = permits + 1
  /\ SetPhase(t, "failed")
  /\ UNCHANGED <<mailbox, hooks, cache, refreshed, refreshing, subject, found,
                 pagevars, ghosts>>

\* Mutant of StoreOk: a thread that has rows keeps them.
MutStoreOk(t) ==
  /\ phase[t] = "found"
  /\ cache' = [cache EXCEPT ![subject[t]] = IF @ > 0 THEN @ ELSE found[t]]
  /\ refreshed' = [refreshed EXCEPT ![subject[t]] = "fresh"]
  /\ searched' = searched \cup {subject[t]}
  /\ SetPhase(t, "stored")
  /\ UNCHANGED <<mailbox, hooks, refreshing, permits, subject, found, pagevars,
                 owed, late>>

\* One transaction replaces the rows and touches the refresh time.
StoreOk(t) ==
  /\ phase[t] = "found"
  /\ cache' = [cache EXCEPT ![subject[t]] = found[t]]
  /\ refreshed' = [refreshed EXCEPT ![subject[t]] = "fresh"]
  /\ searched' = searched \cup {subject[t]}
  /\ SetPhase(t, "stored")
  /\ UNCHANGED <<mailbox, hooks, refreshing, permits, subject, found, pagevars,
                 owed, late>>

\* The transaction is rolled back; nothing is touched.
StoreFails(t) ==
  /\ phase[t] = "found"
  /\ SetPhase(t, "unstored")
  /\ UNCHANGED <<mailbox, hooks, cache, refreshed, refreshing, permits, subject,
                 found, pagevars, ghosts>>

\* Mutant of MarkAttempted: a failed search is stored like an empty result.
MutMarkAttempted(t) ==
  /\ phase[t] = "failed"
  /\ cache' = [cache EXCEPT ![subject[t]] = 0]
  /\ refreshed' = [refreshed EXCEPT ![subject[t]] = "fresh"]
  /\ SetPhase(t, "unstored")
  /\ UNCHANGED <<mailbox, hooks, refreshing, permits, subject, found, pagevars,
                 ghosts>>

\* mark_refresh_attempted: a failed search counts as a refresh, the rows of
\* the last good one stay.  Its own failure is ignored.
MarkAttempted(t) ==
  /\ phase[t] = "failed"
  /\ refreshed' \in {refreshed, [refreshed EXCEPT ![subject[t]] = "fresh"]}
  /\ SetPhase(t, "unstored")
  /\ UNCHANGED <<mailbox, hooks, cache, refreshing, permits, subject, found,
                 pagevars, ghosts>>

\* The two ways to the last statement of refresh.
Ending == {"stored", "unstored"}

\* Mutant of End: only a stored result clears the mark.
MutEnd(t) ==
  /\ phase[t] \in Ending
  /\ SetPhase(t, "idle")
  /\ refreshing' = IF phase[t] = "stored" THEN refreshing \ {subject[t]} ELSE refreshing
  /\ UNCHANGED <<mailbox, hooks, cache, refreshed, permits, subject, found,
                 pagevars, ghosts>>

\* The last statement of refresh.
End(t) ==
  /\ phase[t] \in Ending
  /\ SetPhase(t, "idle")
  /\ refreshing' = refreshing \ {subject[t]}
  /\ \/ phase[t] = "stored" /\ UNCHANGED owed
     \/ phase[t] = "unstored" /\ Excuse(t)
  /\ UNCHANGED <<mailbox, hooks, cache, refreshed, permits, subject, found,
                 pagevars, searched, late>>

\* The process restarts: the tables and the mailbox are what remains.
Restart ==
  /\ refreshing' = {} /\ permits' = MaxSearches
  /\ phase' = [t \in Tasks |-> "idle"]
  /\ hooks' = [s \in Slugs |-> 0]
  /\ page' = [s \in Slugs |-> IF page[s] = "reading" THEN "closed" ELSE page[s]]
  /\ owed' = [s \in Slugs |-> 0]
  /\ UNCHANGED <<mailbox, cache, refreshed, subject, found, rows, stale, searched,
                 late>>
-----------------------------------------------------------------------------

Init ==
  /\ mailbox = [s \in Slugs |-> 0] /\ hooks = [s \in Slugs |-> 0]
  /\ cache = [s \in Slugs |-> 0] /\ refreshed = [s \in Slugs |-> "never"]
  /\ refreshing = {} /\ permits = MaxSearches
  /\ phase = [t \in Tasks |-> "idle"]
  /\ subject \in [Tasks -> Slugs]
  /\ found = [t \in Tasks |-> 0]
  /\ page = [s \in Slugs |-> "closed"]
  /\ rows = [s \in Slugs |-> 0] /\ stale = [s \in Slugs |-> TRUE]
  /\ searched = {} /\ owed = [s \in Slugs |-> 0] /\ late = {}

Mail(s) == Arrive(s) \/ Deliver(s) \/ OnDelivered(s)

Web(s) == Invalidate(s) \/ ReadCache(s) \/ ReadFails(s) \/ Respond(s)

RefreshStep(t) ==
  \/ AcquirePermit(t) \/ PermitTimeout(t)
  \/ Search(t) \/ SearchEmpty(t) \/ Fetch(t) \/ SearchFails(t)
  \/ StoreOk(t) \/ StoreFails(t) \/ MarkAttempted(t) \/ End(t)

Next ==
  \/ \E s \in Slugs : Mail(s) \/ Web(s) \/ Age(s)
  \/ \E t \in Tasks : RefreshStep(t)
  \/ Restart

Spec == Init /\ [][Next]_vars

(* Fairness.  Readers keep their pages open, which reload themselves; the   *)
(* runtime polls every ready task and time passes.  The mail provider       *)
(* answers every search, and the provider, the store and the cache read do  *)
(* not fail for ever.  From some point on the process is not restarted and  *)
(* no refresh waits longer than PERMIT_TIMEOUT for its permit.              *)
FairSpec ==
  /\ Spec
  /\ \A s \in Slugs :
       WF_vars(Respond(s)) /\ WF_vars(Age(s)) /\ SF_vars(ReadCache(s))
  /\ \A t \in Tasks :
       /\ WF_vars(AcquirePermit(t)) /\ WF_vars(MarkAttempted(t)) /\ WF_vars(End(t))
       /\ WF_vars(Search(t) \/ SearchEmpty(t) \/ Fetch(t) \/ SearchFails(t))
       /\ SF_vars(Search(t) \/ SearchEmpty(t)) /\ SF_vars(Fetch(t))
       /\ WF_vars(StoreOk(t) \/ StoreFails(t)) /\ SF_vars(StoreOk(t))
  /\ <>[][~Restart /\ \A t \in Tasks : ~PermitTimeout(t)]_vars

-----------------------------------------------------------------------------
(* Properties *)

TypeOK ==
  /\ mailbox \in [Slugs -> Nat] /\ hooks \in [Slugs -> Nat]
  /\ cache \in [Slugs -> Nat]
  /\ refreshed \in [Slugs -> {"never", "fresh", "old"}]
  /\ refreshing \in SUBSET Slugs /\ permits \in Nat
  /\ phase \in [Tasks -> Phase]
  /\ subject \in [Tasks -> Slugs] /\ found \in [Tasks -> Nat]
  /\ page \in [Slugs -> {"closed", "reading", "shown"}]
  /\ rows \in [Slugs -> Nat] /\ stale \in [Slugs -> BOOLEAN]
  /\ searched \in SUBSET Slugs /\ owed \in [Slugs -> Nat] /\ late \in SUBSET Slugs

\* At most one refresh of a thread runs, and the set in the mutex names
\* exactly the threads being refreshed: no path out of refresh() leaves a slug
\* marked, which would stop the thread from ever being refreshed again.
OneRefreshPerSlug ==
  /\ \A t, u \in Live : subject[t] = subject[u] => t = u
  /\ refreshing = {subject[t] : t \in Live}

\* Every path out of refresh() returns its permit once, so searches never
\* exceed MaxSearches and the semaphore never runs dry.
Searching == {t \in Tasks : phase[t] \in InSession}
PermitsConserved == permits + Cardinality(Searching) = MaxSearches

\* Whatever the interleaving of searches, failures and restarts, the cache of
\* a thread is a view of the mailbox that only moves forward: an older search
\* never overwrites a newer one.
Cached == INSTANCE CommentCache
ImplementsCache == Cached!CacheSpec

\* A delivered comment re-searches its thread (src/lib/mod.rs:87): once no
\* refresh of the thread runs any more, the cache shows what was in the
\* mailbox when on_delivered was called.  Excused are a restart, a refresh that
\* came to no result, whenever the hook met it, and a hook that met a refresh
\* whose search was answered already.
HookReSearches ==
  \A s \in Slugs \ (refreshing \cup late) : owed[s] <= cache[s]

\* The same without the last excuse, as the comment puts it: the refresh that
\* the hook met stored its result, and that is older than what the hook was for.
HookAlwaysReSearches ==
  \A s \in Slugs \ refreshing : owed[s] <= cache[s]

\* "No comments yet" is only said once a completed search found nothing
\* (src/lib/web/tests.rs:251, "A fresh (not stale) empty entry represents a
\* completed search"), never because nothing was searched.
EmptyIsConfirmed ==
  \A s \in Slugs :
    page[s] = "shown" /\ rows[s] = 0 /\ ~stale[s] => s \in searched

\* Whatever reaches the mailbox reaches the page of a reader who keeps it open.
ReaderSees ==
  \A s \in Slugs, n \in 1..MaxMail :
    mailbox[s] >= n ~> (page[s] = "shown" /\ rows[s] >= n)
=============================================================================
