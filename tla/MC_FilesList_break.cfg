\* A file without a size in the summary; expected: the loop breaks and
\* the files after it are neither fetched nor marked incomplete.
CONSTANTS
  Files <- MCFiles
SPECIFICATION Spec
CHECK_DEADLOCK FALSE
INVARIANT
  AllFilesProcessed
