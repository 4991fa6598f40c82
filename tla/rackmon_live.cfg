SPECIFICATION FairSpec
CONSTANTS
  Poll <- ScanAndMonitor
  LastAddr = 2
  Attached = {2}
  NumRegs = 0
  kMaxConsecutiveFailures = 2
  kScanNumRetry = 2
  numCommandRetries = 1
  Requests = {"rescan", "command"}
INVARIANTS NeverReplaced
  
