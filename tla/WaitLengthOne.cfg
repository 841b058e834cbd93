\* SYNC_WAIT frames of every length, length_dw = 1 included.
CONSTANTS
  W = 8
  MaxLengths = {255}
  Words = {0}
  Lengths = {0, 1, 2, 5, 8}
  MaxBatchSteps = 1

SPECIFICATION Spec
INVARIANT WaitInFrame
