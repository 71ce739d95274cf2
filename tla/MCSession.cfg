SPECIFICATION FairSpec
CONSTANTS
  s1 = s1
  s2 = s2
  Server <- MCServer
  TransType <- MCTransType
  transInfo_ <- MCtransInfo
  Verb <- MCVerb
  MaxTran = 2
  MaxAdd = 1
  MaxRead = 2
  MaxMishap = 1
  Null = Null
INVARIANTS JudgementAgreed OwnTxid CommitsPerUse 
PROPERTY CommitArrives
CHECK_DEADLOCK FALSE
