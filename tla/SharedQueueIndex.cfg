\* One sync_queue_index used on two rings: a fence of one ring drains the other's submit.
CONSTANTS
  ra = ra
  rb = rb
  c1 = c1
  c2 = c2
  Ctxs <- MCOneCtx
  MaxSyncs = 2
  Values = {0, 1}
  WaitSlots = {1}
  SubmitSlots = {1, 2}
  QueueIdx = {0, 1}
  QueueIds <- MCTwoRings
  ClientQueues <- MCSharedQueue
  MaxWaitSyncs = 1
  MaxBatchSyncs = 1

SPECIFICATION Spec
INVARIANT NoEarlySignal
