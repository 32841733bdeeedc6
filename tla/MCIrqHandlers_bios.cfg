\* The handlers of the BIOS on lines 0, 1, 8, 9 and 12.
SPECIFICATION HandlersSpec
CONSTANTS
  Lines = {0, 1, 8, 9, 12}
  PCJR = FALSE
  Programmed = {0, 1}
  Commands = {"eoi", "specific"}
INVARIANTS OwnServiceEnds NestedByPriority
