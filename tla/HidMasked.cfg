CONSTANTS
  KeyOrder <- MCKeyOrder
  Codes <- MCCodes
  Shifted = {"quote"}
  TextOrder <- MCTextOrder
  Text <- MCText
  Shift = "shift"
  Ctrl = "ctrl"
  Slots = 6
  Clip = 1
  Reach = 4
  Quick = FALSE
  MaxChanges = 3
  MaxSleeps = 0
SPECIFICATION Spec
INVARIANTS
  TextWhole
CHECK_DEADLOCK FALSE
