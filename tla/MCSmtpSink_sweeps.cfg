\* Two comments that compete for one permit, one of them with an unusable
\* envelope; room for a second worker should one ever be started.
SPECIFICATION FairSpec
CONSTANTS
  c1 = c1
  c2 = c2
  w1 = w1
  w2 = w2
  Comments = {c1, c2}
  Unusable = {c2}
  Workers = {w1, w2}
  MaxDeliveries = 1
  MaxSends <- MCMaxSends
INVARIANTS
  TypeOK
  SingleWorker
  NoStranded
  NoSleepOnUnseen
  PermitsConserved
  NoUnforcedDuplicate
PROPERTIES
  ImplementsQueue
  ImplementsTimedLoop
  ConfirmedIsReported
  Drains
  WorkerRetires
  Retried
