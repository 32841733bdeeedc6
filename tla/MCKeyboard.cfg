\* A ring of two codes; 243 begins the setting of the typematic rate, 237 that
\* of the lights, 66 sets a rate with the longer pause, or enables A20.
SPECIFICATION FairSpec
CONSTANTS
  KEYBUFSIZE = 2
  Plain = {}
  Extended = {"up"}
  Written = {66, 237, 243}
INVARIANTS
  TypeOK
  ScheduledIsQueued
  NeverStuck
  UnreadIsSafe
  OnlyHeldKeysRepeat
PROPERTIES
  ImplementsStream
  Drains
