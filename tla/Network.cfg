SPECIFICATION Spec
CONSTANTS
  Publishers = {p1, p2}
  Clients = {c1}
  MaxEvents = 2
  BusBuffer = 1
  ClientBuffer = 1
  PluginCallers = {h1, h2, h3}
  Endless = {h1}
  Sockets = {s1, s2}
  Threads = 1
  MaxStarts = 2
  MaxRequests = 3
  Shapes <- MCShapes
  MaxWsFrames <- MCFrames
  WsWindow = 1
INVARIANTS
  EventsInOrder
  InterruptsOwn
  ListenerSound
  ConnSound
  WebSocketSound
PROPERTIES
  ConnectionsEnd
  ServantsEnd
CHECK_DEADLOCK FALSE
