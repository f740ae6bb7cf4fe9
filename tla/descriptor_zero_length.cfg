\* A buffer with a zero length byte: the loop never ends.
CONSTANTS
  MaxLen <- MCMaxLen
  MaxByte <- MCMaxByte
SPECIFICATION Spec
CHECK_DEADLOCK FALSE
PROPERTY CheckTerminates
