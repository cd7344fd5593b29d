SPECIFICATION OrderlySpec
CONSTANTS
  t1 = t1
  t2 = t2
  e1 = e1
  e2 = e2
  NoEvent = NoEvent
  NoThread = NoThread
  MaxEventResults = 3
  Callers = {t1, t2}
  Events = {e1, e2}
  Kinds = {"event", "refused_locked"}
INVARIANTS
  TypeOK
  ResultIsOwn
PROPERTY WaitReturns
