\* Two sessions under fair scheduling, with cancel requests and a shutdown;
\* memory for one, so that further connections are refused.
SPECIFICATION FairSpec
CONSTANTS
  MaxBlocks = 2
  MaxSessions = 2
  Kinds = {"scan"}
  MsgTypes = {"Q"}
  Events = {"signal", "cancel"}
  MaxRows = 2
  MaxPlanBlocks = 0
  MaxFree = 0
PROPERTIES ServesConnections EveryMessageServed AlwaysAccepting ShutdownCompletes
