SPECIFICATION FairSpec
CONSTANTS
  cycle = cycle
  setback = setback
  states = states
  registry = registry
  Callers = {cycle}
  Fetches = {states, registry}
PROPERTIES
  CallersReleased
CHECK_DEADLOCK FALSE
