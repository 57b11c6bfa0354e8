SPECIFICATION Spec
CONSTANTS
  leslie = leslie
  nobody = nobody
  lam = lam
  wrong = wrong
  Threads = {t1, t2}
  Cookies = {c1}
  OldCookies = {c1}
  NoCookie = NoCookie
  NoBody = NoBody
  Files = {f1}
  LoginUri = LoginUri
  DirUris = {d1}
  ForeignUris = {x1}
  NoUri = NoUri
  Garbled = Garbled
  End = End
  Dangling = Dangling
  Expired = Expired
  Users = {nobody}
  Passwords = {wrong}
  user_map <- NoUsers
  Timeout = 0
  Epoch = 2
  Horizon = 3
  Collisions = TRUE
INVARIANTS
  PublicIsOpen
  ResultsAsPromised
SYMMETRY Symmetry
CHECK_DEADLOCK FALSE
