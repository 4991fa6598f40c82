SPECIFICATION FairSpec
CONSTANTS
  SEQ_NUM_MAX = 2
  Handler = {h1, h2}
  MaxReq = 2
  NULL = NULL
  ReqThread = ReqThread
  I2C_RETRIES_MAX = 2
  MQ_MAX_NUM_MSGS = 1
  MaxPeerReq = 0
  AddrMayFail = FALSE
PROPERTIES
  AcceptedIsReturned
  ImplementsClient
