SPECIFICATION Spec
CONSTANTS
  In = {p}
  Out = {e}
  Listener = {l1, l2}
  Fn = {m1, m2}
  MaxNexts = 3
  MaxChanges = 2
INVARIANTS
  HandledIfPassed
PROPERTIES
  SteadyListenersHear
  AcceptedIsHandled
CHECK_DEADLOCK FALSE
