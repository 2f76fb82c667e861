SPECIFICATION FairSpec
CONSTANTS
  Flows = {f1}
  Calls = {c1, c2}
  MaxOpen = 1
  Protocols = {"h1", "h2"}
  HookRuns <- EveryRun
  Bodies = {"buffered", "stream", "grpc", "passthrough"}
INVARIANTS
  ExchangeSound
  RecordTells
PROPERTY
  ExchangesEnd
CHECK_DEADLOCK FALSE
