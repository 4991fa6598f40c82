SPECIFICATION FairSpec
CONSTANTS
  SEQ_NUM_MAX = 1
  Handler = {h1}
  MaxReq = 2
  NULL = NULL
  ReqThread = ReqThread
  I2C_RETRIES_MAX = 2
  MQ_MAX_NUM_MSGS = 2
  MaxPeerReq = 3
  AddrMayFail = TRUE
INVARIANTS
  PeerOrder
PROPERTIES
  PeerServed
  RequestFinishes
