SPECIFICATION Spec
CONSTANTS
  MAX_NODES = 1
  SEL_RECORDS_MAX = 2
  SEL_RSVID_MAX = 2
  Thread = {storage, sensor}
  StorageThread = storage
  DataStoreMayFail = FALSE
  HdrStoreMayFail = FALSE
  MaxAdd = 2
  MaxRestart = 0
INVARIANT NewIdIsNew
