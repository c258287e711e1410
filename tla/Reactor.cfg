SPECIFICATION FairSpec
CONSTANTS
  Conns = {c1, c2}
  NumFds = 4
  MAX_EPOLL_EVENTS = 3
  ScanCount = 2
  BUFFER_LENGTH = 2
  Timeout = 1
  Room = 1
  MaxBytes = 2
  MaxAddFails = 1
INVARIANTS
  ReactorInv
  EventsAreFresh
  EchoedBeforeReceiving
PROPERTIES
  ConnectionsEnd
