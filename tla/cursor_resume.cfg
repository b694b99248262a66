SPECIFICATION Spec
CONSTANTS
  r = r
  a = a
  b = b
  c = c
  Dirs = {r, a, b, c}
  Roots = {r}
  Parent <- MCParent
  Marked = {}
  Huge = {}
  Refused = {}
  Foreign = {}
  Sealed = {}
  Opaque = {}
  Classified = {c}
  Ttl = 2
PROPERTY
  ResumeCoversRest
