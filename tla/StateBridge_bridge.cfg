\* Two shells that may be slow, one window whose title is long at times.
SPECIFICATION Spec
CONSTANTS
  w1 = w1
  w2 = w2
  c1 = c1
  c2 = c2
  Windows <- OneWindow
  Clients <- TwoClients
  ListedApps = 16
  SnapshotRoom = 0
  BroadcastRoom = 1
  Capacity = 1
  MaxVersion = 3
  MaxRequests = 1
INVARIANTS CleanMeansSent
PROPERTIES ChangesArrive
CHECK_DEADLOCK FALSE
