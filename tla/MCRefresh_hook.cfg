\* One thread, one message.
SPECIFICATION Spec
CONSTANTS
  s1 = s1
  s2 = s2
  t1 = t1
  t2 = t2
  Slugs = {s1}
  Tasks = {t1}
  MaxSearches = 1
  MaxMail = 1
INVARIANTS
  HookAlwaysReSearches
