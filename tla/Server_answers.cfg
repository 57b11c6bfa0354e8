SPECIFICATION FairSpec
PROPERTIES SentIsAnswered
CHECK_DEADLOCK FALSE
CONSTANTS
  Conns = {c1, c2}
  Uris = {"/s", "/d", "/p"}
  EmptyUri = ""
  NoRequest = NoRequest
  Handlers = {files, db, proxy}
  kind <- BareKinds
  NoHandler = NoHandler
  handler_of <- BareMap
  DefaultHandler = NoHandler
  Split = FALSE
  files = files
  status = status
  missing = missing
  proxy = proxy
  echo = echo
  db = db
