\* One session, every message type and statement kind, failing accepts.
SPECIFICATION Spec
CONSTANTS
  MaxBlocks = 3
  MaxSessions = 1
  Kinds = {"scan", "sort", "explain", "dml"}
  MsgTypes = {"S", "Q", "P", "B", "D", "E", "X", "?"}
  MaxRows = 2
  MaxPlanBlocks = 2
  Events = {"hugeRow", "acceptError"}
  MaxFree = 1
INVARIANTS TypeOK BlocksOwnedOnce AnswersComplete PlanInPlace NoBlockLost
