CONSTANTS
  NRanks <- MCNRanks
  FetchWidth <- MCFetchWidth
SPECIFICATION Spec
\* The fetch really stops once every rank is through scr_alltrue;
\* AllRanksAgree checks that no run stops earlier.
CHECK_DEADLOCK FALSE
INVARIANTS
  TypeOK
  WindowBound
  PostSlotFree
  NoSpuriousSkip
  ReaderSlotInv
  GoInv
PROPERTIES
  GoCarriesKnownFailure
  AllRanksAgree
