SPECIFICATION LinksSpec
CONSTANTS
  a1 = a1
  Accounts = {a1}
  l1 = l1
  l2 = l2
  l3 = l3
  Links = {l1, l2, l3}
  t1 = t1
  t2 = t2
  Threads = {t1, t2}
  None = None
SYMMETRY Alike
CHECK_DEADLOCK FALSE
INVARIANTS
  OneLiveLink
  LinkUsedOnce
PROPERTIES
  NewestLinkWorks
