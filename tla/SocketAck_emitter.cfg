SPECIFICATION FairSpec
CONSTANTS
  Emitter = {e1, e2}
  Ack = {a1, a2}
  None = None
INVARIANTS AnsweredIsDisarmed ExpiredIsForgotten
PROPERTY TimedEmitCompletes
CHECK_DEADLOCK FALSE
