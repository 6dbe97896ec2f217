SPECIFICATION KbdSpec
CONSTANTS
  Codes <- KeyCodes
  MaxHeld = 3
INVARIANTS ModifiersAgree 
PROPERTIES KeymapOverrun
