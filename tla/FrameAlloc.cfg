\* Length checks of SUBMIT_CMD, SUBMIT_CMD2 and SYNC_WAIT at width 8.
CONSTANTS
  W = 8
  MaxLengths = {255, 40}
  Words = {0, 1, 32, 86, 255}
  Lengths = {0, 1, 2, 3, 5, 9, 10, 17, 63, 64, 255}
  MaxBatchSteps = 2

SPECIFICATION Spec
INVARIANT AllocFits
