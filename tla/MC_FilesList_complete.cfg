\* A file the summary marks incomplete; expected: it is fetched and its
\* meta says complete.
CONSTANTS
  Files <- MCFiles
SPECIFICATION Spec
CHECK_DEADLOCK FALSE
INVARIANT
  IncompleteNotRestored
