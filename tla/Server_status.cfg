SPECIFICATION Spec
INVARIANTS TypeOK StatusPageComplete FallbackFillsResponse
CHECK_DEADLOCK FALSE
SYMMETRY Symmetry
CONSTANTS
  Conns = {c1, c2, c3}
  Uris = {"/s", "/t"}
  EmptyUri = ""
  NoRequest = NoRequest
  Handlers = {files, status, missing}
  kind <- LocalKinds
  NoHandler = NoHandler
  handler_of <- LocalMap
  DefaultHandler = missing
  Split = TRUE
  files = files
  status = status
  missing = missing
  proxy = proxy
  echo = echo
  db = db
VIEW SafetyView
