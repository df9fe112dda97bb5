SPECIFICATION Spec
CONSTANTS
  Owners = {"o1", "o2"}
  ResolveKeys = {"r1"}
  Ephemerals = {"e1", "e2"}
  ViewTagOf <- MCViewTagOf
  Announces = TRUE
  Shown = {"o1"}
  LABEL_ROOM = 0
  LOG_LIMIT = 1
  Ranges <- MCRanges
  MaxSlot = 2
  MaxAnnouncements = 2
  MaxScans = 1
INVARIANTS
  ClaimsNeverBlocked
  ScanFindsOwnPayments
PROPERTIES
  DeactivationIsFinal
CHECK_DEADLOCK FALSE
