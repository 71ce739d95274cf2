SPECIFICATION FairSpec
CONSTANTS
  Txid <- MCTxid
  Key <- MCKey
  Bucket <- MCBucket
  getPos <- MCgetPos
  Worker = {w1}
  DataSets <- MCWrites
  LsnReply = {1}
  ConnsPerServer = 1
  LateData = FALSE
  ReplyCallback = TRUE
  BufferReuse = FALSE
  MaxData = 2
  MaxRead = 1
  Null = Null
INVARIANTS  TxidTransLive JudgedOnceAfterBoth  VerdictObeyed  
  
CHECK_DEADLOCK FALSE
