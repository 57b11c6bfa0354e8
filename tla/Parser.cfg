SPECIFICATION Spec
CONSTANTS
  NoChar = NoChar
  MaxRead = 12
INVARIANTS
  TypeOK
  StackIsPath
  
  RoundTrip
CHECK_DEADLOCK FALSE
