CONSTANTS
  Stray = Stray
  StrayDir <- Stray
  NoDir = NoDir
  None <- NoDir
  Ids <- MCIds
  CompleteIds <- MCCompleteIds
  Readable <- MCReadable
  CurrentInit <- MCCurrentInit
  MaxRuns <- MCMaxRuns
  UnlinkCanFail = FALSE
SPECIFICATION Spec
\* scr_fetch_sync returns and the last run ends; FetchSyncReturns checks
\* that no run stops anywhere else.
CHECK_DEADLOCK FALSE
INVARIANTS
  TypeOK
  CurrentNotFailed
  CandidateInv
  SuccessPointsCurrent
  SuccessInv
PROPERTIES
  FetchSyncReturns
