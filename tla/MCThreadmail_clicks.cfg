\* A submission and a re-click of it.
SPECIFICATION Spec
CONSTANTS
  r1 = r1
  r2 = r2
  k1 = k1
  s1 = s1
  w1 = w1
  Requests = {r1, r2}
  Keys = {k1}
  KeyOf <- MCKeyOf
  Slugs = {s1}
  SlugOf <- MCSlugOf
  Unusable = {}
  Workers = {w1}
  MaxDeliveries = 1
  MaxSends <- MCMaxSends
SYMMETRY Clicks
INVARIANTS
  ShownOncePerWindow
  RedirectIsKept
  ErrorIsFinal
