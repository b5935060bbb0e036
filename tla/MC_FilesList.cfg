\* One rank's file list, with the rank allowed to die at any step.
CONSTANTS
  Files <- MCFiles
SPECIFICATION Spec
\* A run ends when the function returns or the rank dies.
CHECK_DEADLOCK FALSE
INVARIANTS
  TypeOK
  NoUntrackedFile
  CompleteMeansDelivered
  CountMatchesFilemap
  ReturnTruthful
  FilesInv
