\* Nested interrupts on both controllers, masks and both kinds of EOI.
SPECIFICATION FairSpec
CONSTANTS
  Lines = {0, 3, 8}
  PCJR = FALSE
  Programmed = {0, 1}
  Commands = {"eoi", "specific"}
INVARIANTS TypeOK CheckExact HighestIsActive
PROPERTIES NoInversion NeverStuck TimerServed
