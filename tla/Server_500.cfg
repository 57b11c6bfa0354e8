SPECIFICATION Spec
INVARIANTS NonOkGets500
CHECK_DEADLOCK FALSE
SYMMETRY Symmetry
CONSTANTS
  Conns = {c1}
  Uris = {"/p", "/e"}
  EmptyUri = ""
  NoRequest = NoRequest
  Handlers = {files, echo, proxy}
  kind <- MixedKinds
  NoHandler = NoHandler
  handler_of <- MixedMap
  DefaultHandler = files
  Split = FALSE
  files = files
  status = status
  missing = missing
  proxy = proxy
  echo = echo
  db = db
