SPECIFICATION FairSpec
CONSTANTS
  Poll <- ScanAndMonitor
  LastAddr = 1
  Attached = {1}
  NumRegs = 1
  kMaxConsecutiveFailures = 1
  kScanNumRetry = 2
  numCommandRetries = 2
  Requests = {"pause", "rescan"}
INVARIANTS RequestKept PausedIsQuiet
PROPERTIES PauseCompletes RequestServed
