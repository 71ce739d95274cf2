SPECIFICATION FairSpec
CONSTANTS
  p1 = p1
  p2 = p2
  w1 = w1
  w2 = w2
  Producer <- MCProducer
  Worker <- MCWorker
  MaxTask = 3
INVARIANTS Fifo NoLostWakeup 
PROPERTIES EveryTaskStarts DestructorReturns
CHECK_DEADLOCK FALSE
