\* Special mask mode, automatic EOI, the initialisation of a controller, single
\* stepping, and the commands that end the emulator.
SPECIFICATION Spec
CONSTANTS
  Lines = {3, 8}
  PCJR = FALSE
  Programmed = {1}
  Commands = {"eoi", "specific", "special", "trap", "icw", "read", "rotate", "unhandled"}
INVARIANTS ServiceRemembered
CHECK_DEADLOCK FALSE
