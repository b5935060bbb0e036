\* A short read fails the first segment; expected: the loop still opens
\* and copies the next segment after rc is FAILURE.
CONSTANTS
  SegKeys <- MCSegKeys
  SegLength <- MCSegLength
  BufSize <- MCBufSize
  ULONG_MAX <- MCULongMax
SPECIFICATION Spec
CHECK_DEADLOCK FALSE
INVARIANT
  AbortOnError
