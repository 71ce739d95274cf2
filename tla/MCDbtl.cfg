SPECIFICATION FairSpec
CONSTANTS
  Txid <- MCTxid
  InitLsn <- MCInitLsn
  MaxRetry = 1
  UseRocksDb = {TRUE, FALSE}
  BufferReuse = TRUE
  MaxRead = 2
  Null = Null
INVARIANTS TypeOK OnePlayInFlight RetriesBounded 
PROPERTIES PlayedUntilDone
CHECK_DEADLOCK FALSE
