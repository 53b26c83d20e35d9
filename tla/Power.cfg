SPECIFICATION FairSpec
CONSTANTS
  Skews <- AllSkews
  ApiFails = TRUE
  Lossy = TRUE
  Hangs = TRUE
  Operator = TRUE
INVARIANTS InstalledOsBoots SecondBootIsFresh ConfirmedMeansHalted GuestHasItsNic StoppedStays
PROPERTY StepsEnd
CHECK_DEADLOCK FALSE
