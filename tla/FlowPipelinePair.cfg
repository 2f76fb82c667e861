SPECIFICATION Spec
CONSTANTS
  Flows = {f1, f2}
  Calls = {c1}
  MaxOpen = 1
  Protocols = {"h1"}
  HookRuns <- FewRuns
  Bodies = {"buffered"}
INVARIANTS
  AbortStopsBytes
PROPERTY
  UsesManager
SYMMETRY Symmetry
CHECK_DEADLOCK FALSE
