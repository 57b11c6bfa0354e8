SPECIFICATION Spec
CONSTANTS
  a = a
  d = d
  Slash = Slash
  Chars <- MCChars
  Default <- MCDefault
  Handlers <- MCHandlers
  NoHandler <- NoHandlerName
  Configs <- AllConfigs
  Lookups <- TableLookups
  MaxLength = 6
  IntMax = 8
  Driver = TRUE
  PortRange = 4
INVARIANTS
  TypeOK
  ConfigLoaded
  LongestMatch
  
  ProtectionIsWhole
CHECK_DEADLOCK FALSE
