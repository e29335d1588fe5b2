\* Two sessions of the EA, two relays, a response that cannot be put in place.
SPECIFICATION LiveSpec
CONSTANTS
  Relays = {r1, r2}
  MaxSessions = 2
  MaxCalls = 2
  MaxStarts = 2
  MaxFailures = 1
INVARIANTS
  TypeOK
  SessionAnswersMatch
  ForwardedOnce
  OkIsHandled
PROPERTIES
  StaleLockReplaced
  RequestsTaken
CHECK_DEADLOCK FALSE
