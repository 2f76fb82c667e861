SPECIFICATION Spec
CONSTANTS
  Trips = {r1, r2}
  Replayable = {r1}
  Cancellable = {r1}
  Links = {c1, c2}
  NoLink = NoLink
  Proxies = {p1, p2}
  MaxIdlePerHost = 1
  MaxSwitches = 1
  MaxFrames = 2
  Window = 3
INVARIANT
  AnswerIsOwn
CHECK_DEADLOCK FALSE
