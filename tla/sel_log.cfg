SPECIFICATION Spec
CONSTANTS
  MAX_NODES = 2
  SEL_RECORDS_MAX = 2
  SEL_RSVID_MAX = 2
  Thread = {storage}
  StorageThread = storage
  DataStoreMayFail = TRUE
  HdrStoreMayFail = FALSE
  MaxAdd = 5
  MaxRestart = 2
VIEW View
INVARIANTS
  SavedRecordsKept
  LogInOrder
  
PROPERTY ImplementsLog
