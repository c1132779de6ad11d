CONSTANTS
  t1 = t1
  t2 = t2
  t3 = t3
  Tasks = {t1, t2, t3}
  Usages = {{"try"}, {"try", "wait"}}
  Controls = {1, 2, 3, 4}
  None = None
SPECIFICATION Spec
INVARIANT TryLockExcludes
PROPERTY RefusedOnlyIfHeld
