CONSTANTS
  Requests <- MCRequests
  MaxCookies = 2
  MaxUnlocks = 1
  MaxRestarts = 1
SPECIFICATION Spec
CHECK_DEADLOCK FALSE
INVARIANTS TypeOK BooksRight NoLeak
PROPERTY KeptUntilReleased
