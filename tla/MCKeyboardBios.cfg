SPECIFICATION BiosSpec
CONSTANTS
  UserKeys = {"lshift", "lctrl", "rctrl", "lalt", "caps", "pause", "keypad", "insert", "f11"}
  Slots = 3
  MaxHeld = 2
  MaxDepth = 1
INVARIANTS
  FlagsFollowKeys
PROPERTIES
  KeysInOrder
