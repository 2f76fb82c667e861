SPECIFICATION Spec
CONSTANTS
  Flows = {f1, f2}
  Managers = {m1}
  Budgets = {1, 3}
  MaxSize = 2
  Caps = {1, 2}
SYMMETRY Symmetry
INVARIANTS
  AccountsSound
  FilesSound
  CopiesFollowFlows
PROPERTY
  EvictsOldest
