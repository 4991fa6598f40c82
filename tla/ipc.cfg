SPECIFICATION IpcFairSpec
CONSTANTS
  Client = {c1, c2, c3, c4}
  active_limit = 2
  WAIT_CLIENT_RETRIES = 3
  ACCEPT_RECOVER_RETRIES = 3
  StackKept = TRUE
INVARIANTS
  PlacesConserved
  LimitHolds
  NoMissedSignal
PROPERTY ClientServed
\* svc_thread may end for good; then nothing happens any more.
CHECK_DEADLOCK FALSE
