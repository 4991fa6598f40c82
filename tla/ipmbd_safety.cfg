SPECIFICATION Spec
CONSTANTS
  SEQ_NUM_MAX = 2
  Handler = {h1, h2}
  MaxReq = 3
  NULL = NULL
  ReqThread = ReqThread
  I2C_RETRIES_MAX = 2
  MQ_MAX_NUM_MSGS = 2
  MaxPeerReq = 0
  AddrMayFail = FALSE
SYMMETRY Symmetry
INVARIANTS
  SlotOwnership
  NoLostWakeup
  AllocNeverFails
  AnswerHasOwnSeq
PROPERTIES
  WritesLiveBuffer
  TableSpec
