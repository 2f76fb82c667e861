SPECIFICATION Spec
CONSTANTS
  Flows = {f1, f2}
  Calls = {c1, c2}
  MaxOpen = 1
  HandlerStates = {"pending", "completed"}
SYMMETRY Symmetry
INVARIANTS
  MapSound
  AnswersComeFromCalls
  AcceptedAccounted
PROPERTY
  ResolvedIsUnlisted
