CONSTANTS
  Stray = Stray
  StrayDir <- Stray
  NoDir = NoDir
  None <- NoDir
  Ids <- MCIds
  CompleteIds <- MCCompleteIds
  Readable <- MCReadable
  CurrentInit <- MCCurrentInit
  MaxRuns <- MCMaxRuns
  UnlinkCanFail = TRUE
SPECIFICATION Spec
\* scr_file_unlink may fail; the loop may then never return, so only
\* safety is checked here.
CHECK_DEADLOCK FALSE
INVARIANTS
  SuccessPointsCurrent
  SuccessInv
