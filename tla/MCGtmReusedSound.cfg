SPECIFICATION Spec
CONSTANTS
  s1 = s1
  s2 = s2
  s3 = s3
  Server <- MCServer
  TransType <- MCTransType
  transInfo_ <- MCtransInfo
  ConnsPerServer = 2
  MaxTxid = 1
  MaxRead = 2
  Null = Null
INVARIANTS DecisionSound
CHECK_DEADLOCK FALSE
