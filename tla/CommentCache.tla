---------------------------- MODULE CommentCache ----------------------------
(***************************************************************************)
(* What the incoming half of threadmail promises, without the machinery:   *)
(* the mailbox is the only record of what was said, and the local cache of *)
(* a thread is some earlier view of it that only ever moves forward.  A    *)
(* result of an older search never replaces that of a newer one.           *)
(* (src/lib/store/mod.rs: "a local, ephemeral record of the last search    *)
(* result per slug ... never authoritative".)                              *)
(***************************************************************************)
EXTENDS Naturals

CONSTANT Slugs      \* the threads

VARIABLES
  mailbox,          \* mailbox[s]: messages of thread s in the mailbox
  cache             \* cache[s]: how many of them the cache holds

cvars == <<mailbox, cache>>

CacheInit ==
  /\ mailbox = [s \in Slugs |-> 0]
  /\ cache = [s \in Slugs |-> 0]

\* A message reaches the mailbox, from whatever sender.
Receive(s) ==
  /\ mailbox' = [mailbox EXCEPT ![s] = @ + 1]
  /\ UNCHANGED cache

\* The cache takes a view of the mailbox that is no older than its own.
CatchUp(s) ==
  /\ \E n \in cache[s]..mailbox[s] : cache' = [cache EXCEPT ![s] = n]
  /\ UNCHANGED mailbox

CacheNext == \E s \in Slugs : Receive(s) \/ CatchUp(s)

CacheSpec == CacheInit /\ [][CacheNext]_cvars
=============================================================================
