SPECIFICATION FairSpec
CONSTANTS
  here = here
  there = there
  c1 = c1
  c2 = c2
  Here = here
  Emitter = emitter
  Server = {here, there}
  Client = {c1, c2}
  ServerOf <- OneThere
  Args = {0, 1, 2}
  Stray = {x1}
  Counts = {0, 1}
  LocalOnly = FALSE
CHECK_DEADLOCK FALSE
INVARIANTS CompleteMeansAll
PROPERTIES AlwaysCalled AnsweredCompletes
