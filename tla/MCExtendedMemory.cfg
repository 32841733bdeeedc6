\* Four pages, one of which the handle of the system has at the start; a page
\* of EMS is one of the pool, a page two kilobytes.
SPECIFICATION Spec
CONSTANTS
  XMS_START = 1
  Pages = 5
  XMS_HANDLES = 2
  PageKb = 2
  MaxLocks = 1
  EMM_MAX_HANDLES = 2
  EmsPage = 1
  SystemPages = 1
  XmsSizes = {1, 3}
  EmsSizes = {0, 1, 2}
  Data = {0, 1}
  MaxVcpi = 2
  MaxWritten = 1
  None = None
INVARIANTS
  EveryPageHasOneOwner
PROPERTIES
  KeepsContents
\* E_Exit ends the emulator, and after an overrun nothing is modelled
CHECK_DEADLOCK FALSE
