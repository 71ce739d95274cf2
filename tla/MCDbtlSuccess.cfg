SPECIFICATION FairSpec
CONSTANTS
  Txid <- MCTxid
  InitLsn <- MCInitLsn
  MaxRetry = 1
  UseRocksDb = {FALSE}
  BufferReuse = FALSE
  MaxRead = 1
  Null = Null
PROPERTIES SuccessIsExecuted
CHECK_DEADLOCK FALSE
