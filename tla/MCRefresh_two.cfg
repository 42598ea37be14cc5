\* Two threads that compete for one search permit.
SPECIFICATION Spec
CONSTANTS
  s1 = s1
  s2 = s2
  t1 = t1
  t2 = t2
  Slugs = {s1, s2}
  Tasks = {t1, t2}
  MaxSearches = 1
  MaxMail = 0
INVARIANTS
  TypeOK
  OneRefreshPerSlug
  PermitsConserved
