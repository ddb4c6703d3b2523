SPECIFICATION Spec
CONSTANTS
  t1 = t1
  t2 = t2
  c1 = c1
  c2 = c2
  Threads = {t1, t2}
  Conns = {c1, c2}
  OraCodes = {1, 2}
INVARIANTS
  TypeOK
  OwnOrLater
