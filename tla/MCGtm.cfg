SPECIFICATION FairSpec
CONSTANTS
  s1 = s1
  s2 = s2
  s3 = s3
  Server <- MCServer
  TransType <- MCTransType
  transInfo_ <- MCtransInfo
  ConnsPerServer = 1
  MaxTxid = 2
  MaxRead = 2
  Null = Null
INVARIANTS NoNullInfo DecisionSound ToldOnceAndAll
PROPERTIES ImplementsDecision EveryoneHears
CHECK_DEADLOCK FALSE
