\* scr_fetch_file_from_containers with every call allowed to fail and any
\* read allowed to return corrupt bytes, with CRCs on or off and a crc32 in
\* the meta or not.
CONSTANTS
  SegKeys <- MCSegKeys
  SegLength <- MCSegLength
  BufSize <- MCBufSize
  ULONG_MAX <- MCULongMax
SPECIFICATION Spec
\* The function returns: every path ends in "done".
CHECK_DEADLOCK FALSE
INVARIANTS
  TypeOK
  SuccessIntact
  ErrorReported
  ReadInv
  OrderInv
PROPERTIES
  FileFetchRefined
