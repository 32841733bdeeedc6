SPECIFICATION Spec
CONSTANTS
  Channels = {c1}
  MIXER_BUFSIZE = 8
  blocksize = 2
  min_needed = 1
  StretchPart = 2
  Repeats = 1
  PerTick = 1
  Extra = 1
  Backlog = 9
INVARIANTS
  TypeOK
  NotBehind
  RingExact
