SPECIFICATION Spec
CONSTANTS
  Updates = {u1, u2}
  Patchable = {"systemProxy", "port", "autoProxy"}
  MaxStarts = 2
  WindowIds = {w1, w2, w3}
  Openers = {o1, o2}
  NoWindow = NoWindow
  MaxShown = 3
  wide = wide
  named = named
  renewed = renewed
  expired = expired
  here = here
  there = there
  CertIds = {wide, named, renewed, expired}
  Hosts = {here, there}
  Exact <- MCExact
  Wild <- MCWild
  Valid <- MCValid
  CertCalls = {k1, k2}
  MaxCrashes = 1
  Editors = {e1}
  Urls = {x, y}
  Matches <- MCMatches
  MaxRuleIds = 2
  MaxEdits = 5
  PluginIds = {plugin}
  Requests = {q1, q2}
  Flows = {f1}
  MaxRequests = 2
  MaxInstances = 3
  MaxStops = 1
  Odd = {}
  Ids = {f1, f2}
  Caps = {1, 2}
  Imported = {f2}
INVARIANT
  ReloadKeepsWrites
CHECK_DEADLOCK FALSE
