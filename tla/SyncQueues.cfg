\* Two sync queues on their own rings, merged fence retirement, teardown.
CONSTANTS
  ra = ra
  rb = rb
  c1 = c1
  c2 = c2
  Ctxs <- MCOneCtx
  MaxSyncs = 2
  Values = {0, 1}
  WaitSlots = {1}
  SubmitSlots = {1, 2}
  QueueIdx = {0, 1}
  QueueIds <- MCTwoRings
  ClientQueues <- MCOneRingPerQueue
  MaxWaitSyncs = 1
  MaxBatchSyncs = 1

SPECIFICATION FairSpec
INVARIANT RefcountExact
INVARIANT NoEarlySignal
PROPERTY SubmitReleased
PROPERTY QueueRefinement
