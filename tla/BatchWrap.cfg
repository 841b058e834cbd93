\* SUBMIT_CMD2 frames whose batch_count, offset + size or sync_count * 3 wrap.
CONSTANTS
  W = 8
  MaxLengths = {255}
  Words = {0, 1, 32, 86, 255}
  Lengths = {0, 1, 2, 3, 5, 8, 9, 10, 17, 63}
  MaxBatchSteps = 2

SPECIFICATION Spec
INVARIANT Cmd2InFrame
