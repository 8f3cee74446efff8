SPECIFICATION FairSpec
CONSTANTS
  BUFFERS = 3
  BLOCKS = 2
  SEQS = 4
  WAIT_NACK_RETRY = 1
  WAIT_ACK_RETRY = 2
  REQ_NACK_RETRY = 3
  ZeroCrc <- MCZeroCrc
INVARIANTS TypeOK InOrder NoneSkipped
PROPERTY EndsWhenClean
