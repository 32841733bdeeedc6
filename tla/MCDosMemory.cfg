\* Two processes, all the strategies, and upper memory that is linked and
\* unlinked while blocks of it are in use.
SPECIFICATION Spec
CONSTANTS
  DOS_MEM_START = 1
  EnvSize = 0
  LockSize = 0
  UMB_START_SEG = 7
  FirstUmbSeg = 8
  UmbTop = 11
  NoUmb = 99
  Psps = {p1, p2}
  MCB_FREE = Free
  MCB_DOS = Dos
  LoadfixPsp = Loadfix
  Requests = {1, 2}
  Strategies <- mc_AllStrategies
  LinkStates = {0, 1, 3}
SYMMETRY Processes
INVARIANTS
  TypeOK
  ArenaInv
  LoopsAgree
  ReportedSizes
PROPERTIES
  AllocatesFreeMemory
  OthersKept
  NothingLeft
  ImplementsArena
