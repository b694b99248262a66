SPECIFICATION FairSpec
CONSTANTS
  r = r
  q = q
  z = z
  s = s
  t = t
  m = m
  n = n
  h = h
  k = k
  o = o
  x = x
  Dirs = {r, q, s, t, m, n, h, k, o, x, z}
  Roots = {r, q}
  Parent <- MCParent
  Marked = {m, h}
  Huge = {h}
  Refused = {t, o}
  Foreign = {s}
  Sealed = {z}
  Opaque = {o, s}
  Excluded = {x}
  Workers = {w1, w2}
  ResultCap = 1
  None = None
INVARIANTS
  CountCoversWork
PROPERTIES
  ImplementsTraversal
  WorkersEnd
CHECK_DEADLOCK FALSE
