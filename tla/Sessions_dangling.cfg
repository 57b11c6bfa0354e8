SPECIFICATION Spec
CONSTANTS
  leslie = leslie
  nobody = nobody
  lam = lam
  wrong = wrong
  Threads = {t1, t2}
  Cookies = {c1}
  OldCookies = {}
  NoCookie = NoCookie
  NoBody = NoBody
  Files = {f1}
  LoginUri = LoginUri
  DirUris = {}
  ForeignUris = {}
  NoUri = NoUri
  Garbled = Garbled
  End = End
  Dangling = Dangling
  Expired = Expired
  Users = {leslie}
  Passwords = {lam}
  user_map <- MCUserMap
  Timeout = 1
  Epoch = 2
  Horizon = 4
  Collisions = FALSE
INVARIANTS
  NoDanglingErase
SYMMETRY Symmetry
CHECK_DEADLOCK FALSE
