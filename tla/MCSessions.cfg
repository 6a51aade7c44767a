\* Two sessions that cancel each other, and accepts that fail.
SPECIFICATION Spec
CONSTANTS
  MaxBlocks = 4
  MaxSessions = 2
  Kinds = {"scan"}
  MsgTypes = {"Q"}
  Events = {"cancel","acceptError"}
  MaxRows = 1
  MaxPlanBlocks = 0
  MaxFree = 1
INVARIANTS OneTaskPerSession BlocksOwnedOnce NoBlockLost HandlersHaveMemory
PROPERTY CancelIsFinal
