SPECIFICATION Spec
CONSTANTS
  buf_size = 2
  buf_count = 3
  Channels = 2
  WriteSizes = {1, 3, 7}
  MaxSamples = 14
\* The program ends with the queue destroyed.
CHECK_DEADLOCK FALSE
INVARIANT InOrder
