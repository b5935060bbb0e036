\* A failed lseek breaks out of the segment loop; expected: the container
\* descriptor is still open when the function returns.
CONSTANTS
  SegKeys <- MCSegKeys
  SegLength <- MCSegLength
  BufSize <- MCBufSize
  ULONG_MAX <- MCULongMax
SPECIFICATION Spec
CHECK_DEADLOCK FALSE
INVARIANT
  NoFdLeak
