# A TLA+ development of threadmail

threadmail turns a mailing list into a comment section: one Rust process reads
a bot account's IMAP mailbox, caches what it finds in SQLite, renders threads
as HTML, and relays comments from a web form to the list over SMTP. This
directory holds TLA+ models of its logic, the TLC runs that check them, and
TLAPS proofs of what matters most. Paths below are relative to the repository
(`src/lib/...` in the text is `src/src/lib/...` in `PROJECT.json`).

## Inventory

| component | code | state | operations | models |
|---|---|---|---|---|
| outgoing delivery | `src/lib/smtp_sink/mod.rs` | `worker: Mutex<Option<SweepHeartbeat>>`, `wake: Notify`, `delivery_limit` | `submit`, `boot`, `spawn_worker` and its loop, `deliver_all`, `attempt_delivery`, `health` | `SmtpSink` |
| outgoing queue | `src/lib/store/mod.rs`, `src/lib/sqlite_store/mod.rs` | table `outgoing_comments` | `enqueue`, `pending`, `remove`, `is_expired`, `envelope` | `SmtpSink`, abstractly `OutgoingQueue` |
| background refresh | `src/lib/mod.rs` | `refreshing: Mutex<HashSet>`, `search_limit` | `boot`'s hook, `refresh_in_background`, `refresh` | `Refresh` |
| incoming cache | `src/lib/store/mod.rs`, `src/lib/sqlite_store/mod.rs` | tables `incoming_comments`, `incoming_comments_refreshed_at` | `get`, `store`, `mark_refresh_attempted`, `invalidate`, `is_stale` | `Refresh`, abstractly `CommentCache` |
| GET handler | `src/lib/web/mod.rs` | none | `handle_get_thread` | `Refresh` |
| POST handler | `src/lib/web/mod.rs` | `recent_submissions` | `handle_post_thread`, `is_duplicate_submission` | `Submission` |
| thread resolution | `src/lib/thread/mod.rs`, `src/lib/mail/mod.rs` | none | `Thread::resolve`, `Node::resolve`, `is_top_level`, `replies_to` | `Thread` |
| composing | `src/lib/compose/mod.rs` | none | `compose` | its failure in `Submission`, its References in `Thread` |
| IMAP source | `src/lib/imap_source/mod.rs` | the open session | `search_subject`, `search_with_retry` | its session in `Refresh` |
| health check | `src/lib/smtp_sink/mod.rs`, `src/lib/web/mod.rs` | `SweepHeartbeat` | `now`, `record_sweep`, `is_stalled`, `health` | `Heartbeat` |
| startup | `src/main.rs` | the process, its listener | `serve` | `Threadmail` |
| rendering, configuration, command line | `src/lib/render/mod.rs`, `src/lib/config/mod.rs`, `src/main.rs` | none after startup | | not modelled |

The whole, a comment's way from the form to the page, is `Threadmail`.

How they interact. A POST handler records the key of the form, invalidates the
thread's cache entry, composes a message and calls `submit`, which writes a row
and starts or wakes the worker. The worker hands every row to a task of its
own; a task that got a delivery permit sends its message, removes the row and
calls `on_delivered`, which is `AppState::refresh_in_background`. A GET handler
reads the cache and starts the same background refresh when the entry is
stale. A refresh takes a search permit, searches the mailbox and replaces the
cache entry. `serve` boots the sink before it binds its listener, so what an
earlier process left queued is swept before the first request. Requests run
concurrently on a multi-threaded runtime; each of
the shared structures has a mutex of its own and nothing spans two of them.

What is hard here: the worker's exit against a concurrent `submit`; a
notification between the worker's look at the queue and its sleep; permits on
many error paths; a message the server took although the client saw an error;
a row that cannot be removed; a crash between any two of these; a refresh
that raced an `invalidate`, an `on_delivered` or another refresh; a deadline
that must cover every way a sweep can take its time; the removal of elements
from a vector that is being scanned; headers that contradict each other.
`PROJECT.json` lists each at its line, with the property that covers it.

What makes each part correct:

- Outgoing delivery: an accepted comment is delivered at least once or given
  up by TTL; more than once only if it must be; one worker; sessions capped.
- Refresh and cache: one refresh per thread; the cache moves forward only; what
  is in the mailbox gets on the page; "no comments" is said only when known.
- POST: one row per submission and window; the answer tells the truth.
- The whole: a page shows a submission once per window; a redirect leads to a
  comment that is kept; what was refused never turns up.
- Health: a stuck worker is reported, one whose sessions end within the delivery
  timeout is not. (The configured SMTP timeout is per operation, so a slow session
  may keep it and still be reported; `NoFalseAlarm` excuses such sessions.)
- Resolution: every message at most once, a reply after and under the first message
  on the page that it names, nothing claimable left out, siblings in order of sending.

## Modules

- `OutgoingQueue`: the promise of `MailSink::submit` and the outgoing store.
  A comment is new, queued or gone; it goes only when sent, expired or
  unusable; it may be sent more than once.
- `SmtpSink`: the detailed sink. `queue` and `expired` survive a `Crash`;
  everything else restarts. `task[w]` is where a worker instance is in the loop
  of `spawn_worker`, `delivery[w][c]` where its `attempt_delivery` of `c` is.
  The worker mutex is held across two steps only by a sweep (`SweepRead`,
  `SweepDecide`), because that is the critical section that matters; elsewhere
  its holders take one step. `NotifyOne` wakes the sleeper or stores a permit,
  as tokio's `Notify` does. `queue` under `QueueState` refines `OutgoingQueue`,
  and the loop under `LoopPhase` and `LoopDelivery` refines that of `Heartbeat`.
- `CommentCache`: the cache as a view of the mailbox that moves forward.
- `Refresh`: the detailed refresh, the cache tables and the GET handler. A view
  of a thread is the number of messages the mailbox had when it was searched.
  A confirmed delivery (`Deliver`) and the message's appearance in the mailbox
  (`Arrive`) are independent, since the list distributes mail in its own time.
  A search is an IMAP session of two round trips: `Search` fixes the view,
  `Fetch` downloads it, `SearchEmpty` needs none, and `SearchFails` ends the
  session anywhere. The permit is held throughout. The last statement of `refresh`
  is reached with a result stored (`stored`) or without one (`unstored`); the ghost
  `owed`, what the last hook asked for, is forgotten only in the latter case, at a
  permit timeout and at a restart, and `late` collects the hooks that met a refresh
  past its search.
- `Thread`: the resolution as a step machine; the recursion of `Node::resolve`
  is a stack of nodes yet to claim their replies. Claiming first and descending
  after, as the code does, is what `Claim` with `q \o Tail(stack)` says.
- `Submission`: the POST handler for several concurrent requests. Its queue is
  a set of rows; what becomes of a row is `SmtpSink`'s.
- `Heartbeat`: the stall check with a discrete clock, `Tick`, beside the worker
  loop reduced to where its time goes: `spawned`, `waiting` for a permit,
  `sending`, `removing`, asleep. Timers never fire early, but anything that is due
  may be late; the ghost `late` adds that up since the last sweep, and `slow`
  collects the sessions that outlasted the delivery timeout. Which comments are
  queued, and when a row leaves, is left open (it is `SmtpSink`'s), so the loop may
  sweep, exit or be woken whenever some queue would let it. That it leaves open
  enough, which a second model of the same loop has to show, is
  `SmtpSink!ImplementsTimedLoop`: every step of the sink is one of this loop,
  with all durations 0, or passes it by. The durations occur only in guards of
  `TimesOut` and `Tick` and in what is reported, so 0 hides no step of the loop.
  It is about the loop alone: where the heartbeat is refreshed it cannot see, which
  is `HungIsReported`'s matter.
- `Threadmail`: the composition. It instances `Submission` and `SmtpSink`; where
  the POST handler calls `submit` their steps are joined (`SubmitFails`,
  `Enqueue`, `Accept`), so the rows of `Submission` are no variable but defined
  from the sink's requests (`Rows`). `Boot`, `Bind` and `Die` are the process:
  no request is handled before the listener is bound, and everything dies
  together. `Distribute` lets the list deliver each copy the server took, in
  any order and at any time, or never. The page comes in through the promise
  `CommentCache`, which `Refresh` implements.
- `SmtpSinkProofs`, `RefreshProofs`, `HeartbeatProofs`, `SubmissionProofs`,
  `ThreadProofs`, `ThreadmailProofs`: theorems and proofs.
- `MCSmtpSink`, `MCRefresh`, `MCThread`, `MCSubmission`, `MCHeartbeat`,
  `MCThreadmail`: instances for TLC.

Operators named `Mut...` stand next to the definitions they mutate: each is a
plausible mistake in that code, and breaks one of the checked properties. They
occur in no specification.

## Runs

| run | question | bounds |
|---|---|---|
| `sink_sweeps` | is a comment ever stranded, slept on, lost, or duplicated without need, does a permit leak or a delivery go unreported, is the loop the one `Heartbeat` times; does the queue empty and the worker retire when the process stays up, whatever the server does, and is every comment sent when it accepts now and then? | two comments, one unusable, one permit, two worker slots, two sends; crashes unbounded; under fairness |
| `heartbeat_stall` | is a worker whose sessions end within the delivery timeout ever reported as stalled, and a stuck one always? | two comments, one permit; sweep interval, permit timeout and delivery timeout of 1, 2 and 3 ticks |
| `refresh_one` | do refreshes, hooks, invalidations, failures and restarts keep the cache in order, and does mail reach the open page? | one thread, two messages, two hooks due at once, one task slot, one permit; under fairness |
| `refresh_two` | is a thread ever refreshed twice at once, and do timeouts leave slugs marked or permits taken? | two threads, two task slots, one permit, no mail |
| `thread_resolve` | is the page right for every search result, and does every step bring it closer? | three messages over three Message-IDs or two, two dates; each new with any subject, or answering one message, itself included, with References that name it and at most one more |
| `submission_clicks` | is a submission queued once per window? | three clicks on a form, one on another; restarts unbounded |
| `threadmail_clicks` | what becomes of a submission and its re-click between the form and the page? | two clicks of one kind, one permit, one worker slot, one send each; restarts unbounded; the clicks are symmetric |
| `refresh_empty`, `refresh_hook`, `thread_skipped`, `thread_grandchild`, `submission_redirect` | a statement of the repository that the code does not keep (see Findings) | the smallest instance that shows it |

Why the bounds are enough. Two comments and one permit let one delivery wait,
time out or be behind another, and the usable one takes every way through
`attempt_delivery` but one, the unusable one that; a second worker slot is needed to see a second
worker. Two sends of a comment are what a duplicate takes; two usable comments that
compete for the permit are in `threadmail_clicks`. Two messages tell an
older search from a newer one; two tasks race for a thread or a permit.
`refresh_two` shows with two slots that a thread has one refresh at a time, so
`refresh_one` leaves the second out. Three
messages are the fewest in which a claimed reply can shift another past the
scan, or a chain of replies be claimed out of order. `thread_skipped` and
`thread_grandchild` take only the conversations people really have among them: the
first message is new, the second new or an answer to it, the third new or an answer
to either. The three durations of
`heartbeat_stall` differ, so that forgetting one of them or counting another twice
shows; its counters stop one past the largest value anything compares them with.
In `threadmail_clicks` a page shows a submission twice only through two rows or
two sends; with two clicks both ways are open, and two sends of one row are in
`sink_sweeps`. Its two requests are interchangeable: every constant and property treats them
alike, none is temporal. The composition with `Refresh` in place of its promise has
several million states already for two clicks, which is why it is split there.
The safety theorems cover every module for all values of these.

Fairness. `SmtpSink!Progress` and `Refresh!FairSpec` assume that the runtime
polls every ready task, that timers fire and that time passes (weak fairness, stated
for the worker, each delivery and each handler; which worker slot takes a step does
not matter),
and that the store does not refuse the same operation for ever (strong
fairness). They assume that an SMTP session and an IMAP search end: the SMTP
transport has a timeout, the IMAP connection has none, so for the latter this
is an assumption on the provider. Nothing makes visitors post or a crashed
process boot: the liveness properties of the sink say "once the process stays
up". Two of them state the fairness that only they need as an antecedent:
`TimePasses` (queued comments reach their TTL) in `Drains` and `WorkerRetires`, and
`ServerRecovers` in `Retried`: the server takes messages now and then, and
waiting deliveries stop running into `PERMIT_TIMEOUT`; without the latter, TLC
shows a comment starving behind sessions that hang, since every sweep begins
with the same rows. `Refresh!FairSpec` lets the page reload, which its meta
refresh tag does, and lets the failures of search, store and cache read be
unbounded but not eternal: a session that keeps being opened is at times
answered by `Search` or `SearchEmpty`, and one that fetches at times by `Fetch`.
`Heartbeat!FairSpec` assumes only that time passes: the
process may stand still, which is what the check is there to notice.

The three `thread_` runs do not check for deadlock: `resolve` ends. All other runs do.

## Proofs

The six proof modules prove every invariant, action property and refinement the
passing runs check, for every value of the constants. They rest on the named assumptions of
their modules (`SinkConstants`, `RefreshConstants`, `HeartbeatConstants`,
`SubmissionConstants`, `ThreadConstants`, `ThreadmailConstants`: limits and
durations are natural numbers, unusable comments are comments, every request has
a key, equal keys have equal threads, a search result is a sequence of messages) and on nothing else.

The sink. Apart from `TypeOK` none of its invariants is inductive: that no
comment is stranded needs that what a sweep did not see is still to wake the
worker; that the queue is refined needs that a delivery about to remove its row
has a reason to. `Inv` joins them with
`DownIsIdle` (no process, no worker), `LoopShape` (delivery tasks live between a
sweep and its join), `RowHasRequest` (rows come from requests),
`UnseenWakes` (an unseen row has a wake-up ahead), `DeliveryFacts` (the row of a
running delivery is there, and why it may be removed) and `TakenIsAccounted`
(what the server took is in a delivery's hands, off the queue, or in doubt).
One lemma per action shows that it preserves `Inv`; the theorems follow from
`Invariance`. `SinkImplementsQueue` maps each step to a step of `OutgoingQueue`
or a stutter. `PermitsNeverLeak` has its own induction, over the finite set of
permit holders: each action adds or removes at most one of them, or is a crash.
`ConfirmedAreReported` needs `LoopShape`: no sweep starts over a delivery that still runs.
`RowsAreKept` is what a client of the queue may rely on: a row that was once
written is queued, or the server took it, or it expired, or it is unusable.
`MutexIsReleased` says that the mutex never blocks: a sweep finds it free, and
its holder can take the step that frees it. `SinkImplementsTimedLoop` maps the
one live worker to the loop of `Heartbeat`; it needs `SingleWorker` and
`LoopShape`, since the mapping chooses the worker instance that is not idle.

The refresh. `Inv` joins `OneRefreshPerSlug` with `ViewsInOrder` (a view about
to be stored is between the cache and the mailbox, which holds because the
thread's only writer is the task that carries the view) and `OwedIsCovered`
(what a delivery asked for is cached or a live refresh will bring it).
`RefreshImplementsCache` and `SearchPermitsNeverLeak` go as for the sink.

The stall check. `NoFalseAlarm` compares two counters that grow independently; the
invariant behind it, `Account`, says where the time since the last sweep went. As
long as no session was slow and `late` is within the grace, a delivery has spent it
waiting for at most `PERMIT_TIMEOUT` and then sending for at most `DeliveryTimeout`
(`AgesBounded`), a sleeper has slept at most `SweepInterval` since, and the rest is
`late`; two of the three intervals in `max_gap` are what `late` may use up. `TickInv`
is the lemma that does the work: in a tick in which nothing is due, some delivery
is waiting or sending and its own age grows by the tick. That a second submit
cannot postpone the report is `HungIsReported`, which is temporal; its safety half
is `HungSessionsShow`: while a session stays open no step takes time off the
heartbeat, each tick adds to it up to the limit, and a report is not taken back.
What is left to TLC is that ticks come.

The POST handler. `OncePerWindow` compares the rows of a kind with the lapses of
its key, which grow independently. `Inv` counts the requests that were let through
instead: there are at most as many as lapses, plus one while the key is in the
window (`WindowCount`), and only they write rows (`RowsLetThrough`). `RecentHasFirst` says that a
key in the window has a request behind it, which gives `DuplicateOfSomething`.

The resolution. Messages are named by their position, so the vector stays in
order and its index is the number of messages left in front. `Inv` says where
every message is (`Places`), that whoever waits or is shown was claimed by the first
shown message that it names (`Parentage`, `RepliesUnderFirstNamed`), that a message
on the page has left no reply in the vector (`AllClaimed`), that siblings are in
vector order whether they wait or are shown (`Ordered`), and, for
`InOrderComplete`, that no top-level message for the slug is left behind the index if
every reply is sorted after all it names (`RepliesSortAfter`, `Cursor`). One lemma per step; the
step `Claim`, which changes three sequences at once, has one per conjunct.

That `resolve` returns for every input is proved in two halves. Every step
lowers `StepsLeft`, a natural number (`ResolveCountsDown`), and before the end a step
can be taken: every set of replies can be listed in the order of the vector,
every search result can be sorted, and the index is at a message or past the
last one (`ResolveNeverStuck`, with the lemmas `Listed`, `StableSortsExist` and
`SomeAt`). So a running function that goes on comes to its end.

The composition. `SinkInside` and `WebInside` show that every step of `Threadmail` is a
step of its parts or passes them by, so the theorems about the parts are cited, not
proved again. What is left for its own invariant is where the parts meet:
`RequestFollowsStage` (the sink's half of a request is where the handler's
half says) and `CopiesOK` (the mailbox holds no more copies of a comment than
the server took). `NothingShownTwice` then counts: without doubt, the shown copies of a
kind belong to different rows, the rows of a kind are bounded by
`QueuedOncePerWindow`, and the server took each row once by
`DuplicatesAreForced`. `RedirectsAreKept` follows from `RowsAreKept` and
`FirstIsNeverSwallowed`. `PageInside` shows that the outgoing half cannot make a
page go back, and `OnlyQueuedIsShown`, by counting copies the same way, that nothing gets
on a page but what was posted to that thread, passed `submit` and was sent; so a
site with `web.relay_comments` off shows nothing of its own (`RelayOffIsReadOnly`,
with `RelayOffQueuesNothing` of the handler). `QueueInside` and `TimedLoopInside` carry the two refinements of the sink
over to the system.

What the exceptions are worth. Some properties have excuses, and five statements
of the repository do not hold at all (Findings). These theorems say under which
condition the unexcused statement holds. The first five are about
`Spec /\ [][Condition]_vars`, and their conditions forbid only the steps that a
counterexample needs; the last two rows put the condition on the search result and
on a constant:

| theorem | condition | what then holds |
|---|---|---|
| `RecordedIsSentOnce` | no crash, no lost answer, no failed removal of a confirmed row | no message is sent twice |
| `RecordedIsShownOnce` | the same, in the composition | a page shows a submission once per window |
| `OnlyFailedSearchesMislead` | no search of this thread fails | `EmptyIsConfirmed` for this thread |
| `HookInTimeReSearches` | no delivery is reported past the search of a refresh that may still store its result or just has | `HookAlwaysReSearches`, which excuses restarts and refreshes without a result |
| `OnlyFailuresMislead` | no submission of this kind fails | `RedirectMeansQueued` for this kind |
| `TopLevelComplete` | every reply is sorted after all the messages it names (dates in order are not enough: two messages may be dated the same second) | every top-level message is shown |
| `NoPermitsNoMail`, `NoPermitsNoSearch` | a configured cap of 0 | nothing is ever sent, nothing searched |

Only model-checked: liveness (`Drains`, `WorkerRetires`, `Retried`,
`HungIsReported`, `ReaderSees`), since TLAPS does not prove it under fairness (the
safety it rests on is proved for `HungIsReported`, see above), and the five
disagreements under Findings.

Only proved: search results beyond `MCThread`'s (In-Reply-To without References,
References without In-Reply-To or to more than two messages, answers to what is not
in the result), and two refreshes of one thread by two tasks that both search.

## Findings

- `refresh_empty`: after a failed first search the page says "No comments yet",
  since the failure is recorded as a refresh.
- `refresh_hook`: a message arrives after a running refresh has searched, and its
  delivery is reported before that refresh ends: no new search is started, and the
  result from before the message is stored as fresh.
- `thread_skipped`: a reply that the sort puts in front of the message it answers,
  because it is dated earlier or in the same second, makes the scan skip a later
  top-level message.
- `thread_grandchild`: an answer to an answer, with the References a mail client
  writes, is shown beside what it answers and not under it, since the first message
  of the thread claims whatever names it anywhere. Replies from the web form name
  only the message they answer and nest (`WebReplyNests`).
- `submission_redirect`: a retry of a failed submission is answered like a
  success although nothing is queued.

## Not modelled

Rendering is a pure function of the resolved thread: templates, dates and
escaping, with no decision beyond which template. Configuration is read once and
has no behaviour over time; its values are the constants. TLS, IMAP and SMTP
protocol details, the encoding of the query and the parsing of messages belong to
libraries; what the code does with their outcomes is modelled. The one retry of a
SEARCH is part of `Search`: the session is the same before and after it. A panic of
the blocking task that searches or sends counts as its failure and is modelled; one of
the delivery task around it, which `deliver_all` takes for a comment that stays queued
(`src/lib/smtp_sink/mod.rs:243`), is not, and neither is a poisoned mutex. Clocks are abstracted to "may expire at any
time", which contains every clock, also one that is set back, except in
`Heartbeat`, whose clock is monotonic like `Instant`. `health` also answers with an
error when it cannot read the queue, which has no state to model.

The mailbox only grows: a bot account that is cleaned up is outside these models.
`Threadmail` leaves out what others write to the list, whose place among the rows
is `Refresh`'s and `Thread`'s matter, and has no liveness of its own: that an accepted
comment is sent is `Retried`, that what is in the mailbox is shown is
`ReaderSees`, and between them lies only the list, which promises nothing. One
process is modelled; two that share a database are not.

## Plan

Done: all modules above with their runs, the proofs of all their safety
properties, and the conditions under which their exceptions do not arise. Left,
in order of what they would add:

1. The composition with `Refresh` itself in place of `CommentCache`, proved to implement
   `Threadmail` (its state space is beyond TLC's reach, its proof is not:
   `RefreshImplementsCache` is most of it).
2. The composition of `Submission` with `Refresh` alone, to ask how long a reply
   may be hidden by an `invalidate` that a running refresh overwrites.
3. A second process that sweeps the same queue before its bind fails
   (`src/main.rs:92`).
