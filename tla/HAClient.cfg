SPECIFICATION FairSpec
CONSTANTS
  cycle = cycle
  setback = setback
  states = states
  registry = registry
  Callers = {cycle, setback}
  Fetches = {states, registry}
CHECK_DEADLOCK FALSE
INVARIANTS
  TypeOK
  WaitersRegistered
PROPERTIES
  KeepsPromise
  CallersReleasedAfterSetup
  SessionsReturn
