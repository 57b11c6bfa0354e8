SPECIFICATION Spec
CONSTANTS
  leslie = leslie
  nobody = nobody
  lam = lam
  wrong = wrong
  Threads = {t1, t2}
  Cookies = {c1, c2, c0}
  OldCookies = {c0}
  NoCookie = NoCookie
  NoBody = NoBody
  Files = {f1}
  LoginUri = LoginUri
  DirUris = {}
  ForeignUris = {}
  NoUri = NoUri
  Garbled = Garbled
  End = End
  Dangling = Dangling
  Expired = Expired
  Users = {leslie}
  Passwords = {lam, wrong}
  user_map <- MCUserMap
  Timeout = 1
  Epoch = 2
  Horizon = 4
  Collisions = FALSE
INVARIANTS
  LiveCookieGranted
  OldCookieDeleted
SYMMETRY CookieSymmetry
CHECK_DEADLOCK FALSE
PROPERTIES
  KeepsPromise
VIEW CookieView
