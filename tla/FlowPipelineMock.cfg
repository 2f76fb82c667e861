SPECIFICATION Spec
CONSTANTS
  Flows = {f1}
  Calls = {c1}
  MaxOpen = 1
  Protocols = {"h1", "h2"}
  HookRuns <- EveryRun
  Bodies = {"buffered", "stream", "grpc", "passthrough"}
INVARIANT
  RecordedStateIsFinal
CHECK_DEADLOCK FALSE
