\* Two clients (multi-client mode) with waits, writes and one sync queue
\* each, on one shared pool of sync structs: reference counts, missed
\* wake-ups, collection of expired waits and isolation of the clients.
CONSTANTS
  ra = ra
  rb = rb
  c1 = c1
  c2 = c2
  Ctxs <- MCTwoCtxs
  MaxSyncs = 2
  Values = {0, 1}
  WaitSlots = {1, 2}
  SubmitSlots = {}
  QueueIdx = {0}
  QueueIds <- MCOneRing
  ClientQueues <- MCOneQueue
  MaxWaitSyncs = 2
  MaxBatchSyncs = 1

SPECIFICATION Spec
SYMMETRY CtxSymmetry
INVARIANT TypeOK
INVARIANT RefcountExact
INVARIANT NoMissedWakeup
INVARIANT ContextIsolation
PROPERTY ExpiredCollected
