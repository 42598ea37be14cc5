\* Two comments that compete for one permit.  The three durations differ, so
\* that leaving one out of max_gap or counting another twice shows.
SPECIFICATION FairSpec
CONSTANTS
  c1 = c1
  c2 = c2
  Comments = {c1, c2}
  SweepInterval = 1
  PERMIT_TIMEOUT = 2
  DeliveryTimeout = 3
  MaxDeliveries = 1
INVARIANTS
  TypeOK
  NoFalseAlarm
PROPERTIES
  HungIsReported
