\* A timeline written to a lower value, then a wait woken.
CONSTANTS
  ra = ra
  rb = rb
  c1 = c1
  c2 = c2
  Ctxs <- MCOneCtx
  MaxSyncs = 2
  Values = {0, 1}
  WaitSlots = {1, 2}
  SubmitSlots = {1}
  QueueIdx = {0}
  QueueIds <- MCOneRing
  ClientQueues <- MCOneQueue
  MaxWaitSyncs = 2
  MaxBatchSyncs = 1

SPECIFICATION Spec
PROPERTY WaitNotifySound
