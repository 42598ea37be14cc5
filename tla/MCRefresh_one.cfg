\* One thread and two messages under fairness.
SPECIFICATION FairSpec
CONSTANTS
  s1 = s1
  s2 = s2
  t1 = t1
  t2 = t2
  Slugs = {s1}
  Tasks = {t1}
  MaxSearches = 1
  MaxMail = 2
INVARIANTS
  HookReSearches
PROPERTIES
  ImplementsCache
  ReaderSees
