CONSTANTS
  KeyOrder <- MCKeyOrder
  Codes <- MCCodes
  Shifted = {"quote"}
  TextOrder <- MCTextOrder
  Text <- MCText
  Shift = "shift"
  Ctrl = "ctrl"
  Slots = 2
  Clip = 1
  Reach = 4
  Quick = FALSE
  MaxChanges = 3
  MaxSleeps = 1
SPECIFICATION Spec
INVARIANTS
  LastIsShown TextArrives PointerFollows
PROPERTIES
  Settles
CHECK_DEADLOCK FALSE
