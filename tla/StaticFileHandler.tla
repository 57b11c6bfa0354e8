-------------------------- MODULE StaticFileHandler --------------------------
(***************************************************************************)
(* One StaticFileHandler object (src/src/static_file_handler.cc) and the   *)
(* detached session threads that call its HandleRequest at the same time.  *)
(* The object holds the cookies of the logged in users (cookie_map) and    *)
(* the URI to go back to after a login (original_uri).  No lock guards     *)
(* either of them, so every access to them is a step of its own.           *)
(*                                                                         *)
(* pc[t] names the next shared access of thread t:                         *)
(*                                                                         *)
(*   idle -> [find] -> expire -> [erase] -> deny -----------------> done   *)
(*                            \-> serve --------------------------> done   *)
(*   idle -> login -> [add_find -> [add_erase] -> gen -> insert            *)
(*                     -> redirect] -> clear -> serve ------------> done   *)
(*   idle -> serve ------------------------------------------------> done  *)
(***************************************************************************)
EXTENDS Integers, FiniteSets, HandlerStatus

CONSTANTS
  Threads,      \* session threads; a slot serves the requests of one client
  Cookies,      \* cookie strings
  OldCookies,   \* those of an earlier server process, held by browsers only
  NoCookie,     \* the request has no private= cookie
  NoBody,       \* the request is no POST
  Files,        \* URIs of files below the prefix, the login page excepted
  LoginUri,     \* prefix + "/login.html"
  DirUris,      \* the prefix itself, with and without a trailing "/"
  ForeignUris,  \* URIs that do not start with the prefix
  NoUri,        \* the empty string
  Garbled,      \* a string torn by a data race
  End,          \* cookie_map.end()
  Dangling,     \* an iterator to an erased element
  Expired,      \* the Set-Cookie value that makes the browser drop its cookie
  Users, Passwords,
  user_map,     \* the users of the configuration, with their passwords
  Timeout,      \* 0 for a public directory
  Epoch,        \* time(NULL) when the server starts
  Horizon,      \* bound: the clock stops here
  Collisions    \* whether gen_cookie may repeat itself and be guessed

Uris == Files \cup {LoginUri} \cup DirUris \cup ForeignUris
Bodies == [user : Users, pass : Passwords]

(***************************************************************************)
(* What Init accepts: users and a timeout, or neither (lines 124-129).     *)
(***************************************************************************)
ASSUME ConfigAssumption ==
  /\ DOMAIN user_map \subseteq Users
  /\ \A u \in DOMAIN user_map : user_map[u] \in Passwords
  /\ Timeout \in Nat
  /\ (Timeout = 0) <=> (DOMAIN user_map = {})

(***************************************************************************)
(* time(NULL) counts from 1970: a timeout longer than that would make a    *)
(* missing cookie, whose time is 0, look fresh.                            *)
(***************************************************************************)
ASSUME ClockAssumption ==
  /\ Epoch \in Nat /\ Horizon \in Nat
  /\ Timeout < Epoch /\ Epoch <= Horizon

ASSUME NameAssumption ==
  /\ NoCookie \notin Cookies /\ End \notin Cookies /\ Dangling \notin Cookies
  /\ End # Dangling
  /\ Expired \notin Cookies \cup {NoCookie}
  /\ NoUri \notin Uris /\ Garbled \notin Uris /\ Garbled # NoUri
  /\ LoginUri \notin Files
  /\ Files \cap (DirUris \cup ForeignUris) = {}
  /\ NoBody \notin Bodies
  /\ OldCookies \subseteq Cookies
  /\ Collisions \in BOOLEAN

VARIABLES
  cookie_map,   \* cookie -> creation time, 0 when the cookie is not in the map
  original_uri,
  now,          \* the clock
  alive,        \* the process runs
  pc, request, response,
  found, cookie_time, now_seconds, new_cookie,  \* locals of the two helpers
  \* History variables: no action's guard reads them unless ~Collisions.
  logins,       \* every login that was granted a cookie
  retired,      \* cookies a client replaced by logging in again
  wanted,       \* wanted[t]: the URI client t was last sent to login for
  ub            \* some step raced or used a dangling iterator

shared == <<cookie_map, original_uri>>
locals == <<found, cookie_time, now_seconds, new_cookie>>
history == <<logins, retired, wanted, ub>>
vars == <<shared, now, alive, pc, request, response, locals, history>>

Logins == [cookie : Cookies, at : Nat, user : Users, pass : Passwords]

Requests == {r \in [uri : Uris, body : Bodies \cup {NoBody},
                    cookie : Cookies \cup {NoCookie}] :
               r.body # NoBody => r.uri = LoginUri}

NoRequest == [uri |-> NoUri, body |-> NoBody, cookie |-> NoCookie]

Responses == [status : {"OK", "INVALID_URI", "FILE_NOT_FOUND"},
              code : {0, 200, 302},
              location : Uris \cup {NoUri, Garbled},
              setCookie : Cookies \cup {NoCookie, Expired},
              body : Uris \cup {NoUri}]

(***************************************************************************)
(* code is 0 until SetStatus; setCookie is NoCookie without the header.    *)
(***************************************************************************)
NewResponse == [status |-> "OK", code |-> 0, location |-> NoUri,
                setCookie |-> NoCookie, body |-> NoUri]

InMap(c) == cookie_map[c] # 0
(* Mutant: the login page is gated too. *)
GatedLogin(r) == Timeout # 0
Gated(r) == Timeout # 0 /\ r.uri # LoginUri
(* Mutant: a user nobody configured is let in. *)
ValidUnknown(b) == b.user \in DOMAIN user_map => user_map[b.user] = b.pass
Valid(b) == b.user \in DOMAIN user_map /\ user_map[b.user] = b.pass
Drawn == {l.cookie : l \in logins} \cup {new_cookie[t] : t \in Threads}

(***************************************************************************)
(* Two threads race when both are at an access to the same member and one  *)
(* of the accesses writes.                                                 *)
(***************************************************************************)
MapWriters == {"erase", "add_erase", "insert"}
MapUsers == MapWriters \cup {"find", "add_find", "gen"}
UriWriters == {"deny", "clear"}
UriUsers == UriWriters \cup {"redirect"}

Conflict(p, q) ==
  \/ {p, q} \subseteq MapUsers /\ (p \in MapWriters \/ q \in MapWriters)
  \/ {p, q} \subseteq UriUsers /\ (p \in UriWriters \/ q \in UriWriters)

Racing(t) == \E s \in Threads \ {t} : Conflict(pc[t], pc[s])

Init ==
  /\ cookie_map = [c \in Cookies |-> 0]
  /\ original_uri = NoUri
  /\ now = Epoch
  /\ alive = TRUE
  /\ pc = [t \in Threads |-> "idle"]
  /\ request = [t \in Threads |-> NoRequest]
  /\ response = [t \in Threads |-> NewResponse]
  /\ found = [t \in Threads |-> End]
  /\ cookie_time = [t \in Threads |-> 0]
  /\ now_seconds = [t \in Threads |-> 0]
  /\ new_cookie = [t \in Threads |-> NoCookie]
  /\ logins = {} /\ retired = {} /\ ub = FALSE
  /\ wanted = [t \in Threads |-> NoUri]

Goto(t, from, to) ==
  /\ alive
  /\ pc[t] = from
  /\ pc' = [pc EXCEPT ![t] = to]

(***************************************************************************)
(* HandleRequest is called: the branches before the first shared access.   *)
(***************************************************************************)
Call(t) ==
  \E r \in Requests :
    /\ Collisions \/ r.cookie \in {l.cookie : l \in logins} \cup OldCookies
                                    \cup {NoCookie}
    /\ Goto(t, "idle", IF Gated(r)
                       THEN IF r.cookie = NoCookie THEN "expire" ELSE "find"
                       ELSE IF r.body = NoBody THEN "serve" ELSE "login")
    /\ request' = [request EXCEPT ![t] = r]
    /\ UNCHANGED <<shared, now, alive, response, locals, history>>

(***************************************************************************)
(* cookie_map.find(c), what it may return.  A find that races with a       *)
(* writer can miss an element.                                             *)
(***************************************************************************)
FindResults(t, c) ==
  (IF c \in Cookies /\ InMap(c) THEN {c} ELSE {End})
    \cup (IF Racing(t) THEN {End} ELSE {})

(* Mutant: erasing from a copy of the map. *)
EraseCopy(t) == UNCHANGED <<cookie_map, found, ub>>

(***************************************************************************)
(* cookie_map.erase(found[t]).  The iterators of the other threads to that *)
(* element dangle.  Erasing through a dangling iterator frees a node twice *)
(* or, when the allocator reused it, drops the cookie that lives there     *)
(* now; the abort is in Abort.  An erase that races may be lost.           *)
(***************************************************************************)
Erase(t) ==
  /\ \/ /\ found[t] \in Cookies
        /\ \/ cookie_map' = [cookie_map EXCEPT ![found[t]] = 0]
           \/ Racing(t) /\ UNCHANGED cookie_map
        /\ found' = [s \in Threads |->
             CASE s = t -> End
               [] s # t /\ found[s] = found[t] -> Dangling
               [] OTHER -> found[s]]
     \/ /\ found[t] = Dangling
        /\ \/ UNCHANGED cookie_map
           \/ \E c \in Cookies : InMap(c) /\ cookie_map' = [cookie_map EXCEPT ![c] = 0]
        /\ found' = [found EXCEPT ![t] = End]
  /\ ub' = (ub \/ Racing(t) \/ found[t] = Dangling)

-----------------------------------------------------------------------------
(* check_cookie *)

CheckFind(t) ==
  /\ Goto(t, "find", "expire")
  /\ \E f \in FindResults(t, request[t].cookie) :
       /\ found' = [found EXCEPT ![t] = f]
       /\ cookie_time' = [cookie_time EXCEPT ![t] = IF f = End THEN 0 ELSE cookie_map[f]]
  /\ ub' = (ub \/ Racing(t))
  /\ UNCHANGED <<shared, now, alive, request, response, now_seconds, new_cookie,
                 logins, retired, wanted>>

(* Mutants: the comparison with the timeout is off by one, either way. *)
TooOldLate(t) == now - cookie_time[t] > Timeout + 1
TooOldEarly(t) == now - cookie_time[t] >= Timeout

TooOld(t) == now - cookie_time[t] > Timeout

CheckExpire(t) ==
  /\ Goto(t, "expire", IF TooOld(t)
                       THEN IF found[t] = End THEN "deny" ELSE "erase"
                       ELSE "serve")
  /\ now_seconds' = [now_seconds EXCEPT ![t] = now]
  /\ UNCHANGED <<shared, now, alive, request, response, found, cookie_time,
                 new_cookie, history>>

CheckErase(t) ==
  /\ Goto(t, "erase", "deny")
  /\ Erase(t)
  /\ UNCHANGED <<original_uri, now, alive, request, response, cookie_time,
                 now_seconds, new_cookie, logins, retired, wanted>>

(***************************************************************************)
(* The redirection to the login page, and original_uri = filename.         *)
(***************************************************************************)
Deny(t) ==
  /\ Goto(t, "deny", "done")
  /\ response' = [response EXCEPT ![t] =
       [status |-> "OK", code |-> 302, location |-> LoginUri,
        setCookie |-> Expired, body |-> LoginUri]]
  /\ original_uri' \in {request[t].uri} \cup (IF Racing(t) THEN {Garbled} ELSE {})
  /\ wanted' = [wanted EXCEPT ![t] = request[t].uri]
  /\ ub' = (ub \/ Racing(t))
  /\ UNCHANGED <<cookie_map, now, alive, request, locals, logins, retired>>

-----------------------------------------------------------------------------
(* A POST to the login page, and add_cookie *)

Login(t) ==
  /\ Goto(t, "login", IF Valid(request[t].body) THEN "add_find" ELSE "clear")
  /\ retired' = IF Valid(request[t].body)
                THEN retired \cup ({request[t].cookie} \ {NoCookie})
                ELSE retired
  /\ UNCHANGED <<shared, now, alive, request, response, locals, logins, wanted, ub>>

AddFind(t) ==
  \E f \in FindResults(t, request[t].cookie) :
    /\ Goto(t, "add_find", IF f = End THEN "gen" ELSE "add_erase")
    /\ found' = [found EXCEPT ![t] = f]
    /\ ub' = (ub \/ Racing(t))
    /\ UNCHANGED <<shared, now, alive, request, response, cookie_time, now_seconds,
                   new_cookie, logins, retired, wanted>>

AddErase(t) ==
  /\ Goto(t, "add_erase", "gen")
  /\ Erase(t)
  /\ UNCHANGED <<original_uri, now, alive, request, response, cookie_time,
                 now_seconds, new_cookie, logins, retired, wanted>>

(***************************************************************************)
(* gen_cookie: 20 random characters, drawn again if the first draw is in   *)
(* the map; nothing checks the second draw.                                *)
(***************************************************************************)
(* Mutant: the string drawn may be empty. *)
DrawsEmpty == Cookies \cup {NoCookie}
Draws == IF Collisions THEN Cookies ELSE Cookies \ (Drawn \cup OldCookies)

AddGen(t) ==
  /\ Goto(t, "gen", "insert")
  /\ \E c1, c2 \in Draws : \E f \in FindResults(t, c1) :
       new_cookie' = [new_cookie EXCEPT ![t] = IF f = End THEN c1 ELSE c2]
  /\ now_seconds' = [now_seconds EXCEPT ![t] = now]
  /\ ub' = (ub \/ Racing(t))
  /\ UNCHANGED <<shared, now, alive, request, response, found, cookie_time,
                 logins, retired, wanted>>

(***************************************************************************)
(* cookie_map[new_cookie] = now_seconds; a racing insertion may be lost.   *)
(***************************************************************************)
AddInsert(t) ==
  /\ Goto(t, "insert", "redirect")
  /\ \/ cookie_map' = [cookie_map EXCEPT ![new_cookie[t]] = now_seconds[t]]
     \/ Racing(t) /\ UNCHANGED cookie_map
  /\ logins' = logins \cup {[cookie |-> new_cookie[t], at |-> now_seconds[t],
                             user |-> request[t].body.user,
                             pass |-> request[t].body.pass]}
  /\ ub' = (ub \/ Racing(t))
  /\ UNCHANGED <<original_uri, now, alive, request, response, locals, retired, wanted>>

Redirect(t) ==
  /\ Goto(t, "redirect", "clear")
  /\ \E u \in {original_uri} \cup (IF Racing(t) THEN {Garbled} ELSE {}) :
       response' = [response EXCEPT ![t].location = u, ![t].setCookie = new_cookie[t]]
  /\ ub' = (ub \/ Racing(t))
  /\ UNCHANGED <<shared, now, alive, request, locals, logins, retired, wanted>>

Clear(t) ==
  /\ Goto(t, "clear", "serve")
  /\ original_uri' \in {NoUri} \cup (IF Racing(t) THEN {Garbled} ELSE {})
  /\ ub' = (ub \/ Racing(t))
  /\ UNCHANGED <<cookie_map, now, alive, request, response, locals, logins, retired, wanted>>

-----------------------------------------------------------------------------
(* Mutant: the code is set before the file is opened. *)
ServeCodeFirst(t) ==
  /\ Goto(t, "serve", "done")
  /\ \/ response' = [response EXCEPT ![t].status = "FILE_NOT_FOUND", ![t].code = 200]
     \/ response' = [response EXCEPT ![t].code = 200, ![t].body = request[t].uri]
  /\ UNCHANGED <<shared, now, alive, request, locals, history>>

(***************************************************************************)
(* The rest of HandleRequest.  A status other than OK leaves the headers   *)
(* a login has added so far in the response.  Whether the file can be      *)
(* opened is up to the file system.                                        *)
(***************************************************************************)
Serve(t) ==
  /\ Goto(t, "serve", "done")
  /\ \/ /\ request[t].uri \in ForeignUris
        /\ response' = [response EXCEPT ![t].status = "INVALID_URI"]
     \/ /\ request[t].uri \notin ForeignUris
        /\ response' = [response EXCEPT ![t].status = "FILE_NOT_FOUND"]
     \/ /\ request[t].uri \notin ForeignUris \cup DirUris
        /\ response' = [response EXCEPT
             ![t].code = IF response[t].location = NoUri THEN 200 ELSE 302,
             ![t].body = request[t].uri]
  /\ UNCHANGED <<shared, now, alive, request, locals, history>>

Return(t) ==
  /\ Goto(t, "done", "idle")
  /\ request' = [request EXCEPT ![t] = NoRequest]
  /\ response' = [response EXCEPT ![t] = NewResponse]
  /\ found' = [found EXCEPT ![t] = End]
  /\ cookie_time' = [cookie_time EXCEPT ![t] = 0]
  /\ now_seconds' = [now_seconds EXCEPT ![t] = 0]
  /\ new_cookie' = [new_cookie EXCEPT ![t] = NoCookie]
  /\ wanted' = [wanted EXCEPT ![t] = IF new_cookie[t] = NoCookie THEN @ ELSE NoUri]
  /\ UNCHANGED <<shared, now, alive, logins, retired, ub>>

(***************************************************************************)
(* A race or a double erase that ends the process, whose memory is gone,   *)
(* and the clock.                                                          *)
(***************************************************************************)
Abort(t) ==
  /\ alive
  /\ Racing(t) \/ (pc[t] \in {"erase", "add_erase"} /\ found[t] = Dangling)
  /\ alive' = FALSE
  /\ ub' = TRUE
  /\ cookie_map' = [c \in Cookies |-> 0]
  /\ original_uri' = NoUri
  /\ pc' = [s \in Threads |-> "idle"]
  /\ request' = [s \in Threads |-> NoRequest]
  /\ response' = [s \in Threads |-> NewResponse]
  /\ found' = [s \in Threads |-> End]
  /\ cookie_time' = [s \in Threads |-> 0]
  /\ now_seconds' = [s \in Threads |-> 0]
  /\ new_cookie' = [s \in Threads |-> NoCookie]
  /\ UNCHANGED <<now, logins, retired, wanted>>

Tick ==
  /\ alive /\ now < Horizon
  /\ now' = now + 1
  /\ UNCHANGED <<shared, alive, pc, request, response, locals, history>>

CheckCookie(t) == CheckFind(t) \/ CheckExpire(t) \/ CheckErase(t) \/ Deny(t)
AddCookie(t) == AddFind(t) \/ AddErase(t) \/ AddGen(t) \/ AddInsert(t)
HandleRequest(t) == CheckCookie(t) \/ Login(t) \/ AddCookie(t) \/ Redirect(t)
                      \/ Clear(t) \/ Serve(t)

Next == \/ \E t \in Threads : Call(t) \/ HandleRequest(t) \/ Return(t) \/ Abort(t)
        \/ Tick

Spec == Init /\ [][Next]_vars
-----------------------------------------------------------------------------
PCs == MapUsers \cup UriUsers \cup {"idle", "expire", "login", "serve", "done"}

(***************************************************************************)
(* Every member of the handler and every local of a thread holds a value   *)
(* of its type.                                                            *)
(***************************************************************************)
TypeOK ==
  /\ cookie_map \in [Cookies -> Nat]
  /\ original_uri \in Uris \cup {NoUri, Garbled}
  /\ now \in Nat
  /\ alive \in BOOLEAN
  /\ pc \in [Threads -> PCs]
  /\ request \in [Threads -> Requests \cup {NoRequest}]
  /\ response \in [Threads -> Responses]
  /\ found \in [Threads -> Cookies \cup {End, Dangling}]
  /\ cookie_time \in [Threads -> Nat]
  /\ now_seconds \in [Threads -> Nat]
  /\ new_cookie \in [Threads -> Cookies \cup {NoCookie}]
  /\ logins \subseteq Logins
  /\ retired \subseteq Cookies
  /\ wanted \in [Threads -> Uris \cup {NoUri}]
  /\ ub \in BOOLEAN

(***************************************************************************)
(* A private file leaves the server only towards a client that presented a *)
(* cookie which some login with a configured password was granted, at most *)
(* Timeout seconds before the check read the clock.  It holds whatever the *)
(* threads interleave, race or draw (lines 149-157, 171, 345).             *)
(***************************************************************************)
Authorised(t) ==
  \E l \in logins : /\ l.cookie = request[t].cookie
                    /\ Valid(l)
                    /\ now_seconds[t] - l.at <= Timeout

AuthSafe ==
  \A t \in Threads :
    Timeout # 0 /\ pc[t] = "done" /\ response[t].body \in Files => Authorised(t)

(***************************************************************************)
(* A client whose login is still fresh, and that has not replaced its      *)
(* cookie by a newer login, is not sent back to the login page, whatever   *)
(* the other clients do to the map meanwhile (lines 335-345).              *)
(***************************************************************************)
LiveCookieGranted ==
  \A t \in Threads : ~ub /\ pc[t] \in {"erase", "deny"} =>
    \A l \in logins : l.cookie = request[t].cookie =>
      l.cookie \in retired \/ now_seconds[t] - l.at > Timeout

(***************************************************************************)
(* A cookie that its client replaced by logging in again, or that was      *)
(* denied, is gone from the map as soon as no thread is still busy with    *)
(* its removal, and never comes back (lines 307-310 and 346-349).          *)
(***************************************************************************)
Removing(c) == \E t \in Threads : /\ request[t].cookie = c
                                  /\ pc[t] \in {"add_find", "add_erase", "erase"}

OldCookieDeleted ==
  ~ub => \A c \in Cookies :
    /\ c \in retired /\ InMap(c) => Removing(c)
    /\ (\E t \in Threads : pc[t] = "done" /\ request[t].cookie = c
                             /\ response[t].setCookie = Expired)
         => ~InMap(c)

(***************************************************************************)
(* Nobody is sent to the login page from the login page: it is served      *)
(* without a cookie, and a finished login never points back at it          *)
(* (lines 144-149, 154, 177).                                              *)
(***************************************************************************)
NoLoginLoop ==
  /\ original_uri # LoginUri
  /\ \A t \in Threads : request[t].uri = LoginUri => response[t].location # LoginUri

(***************************************************************************)
(* A directory configured without users and timeout is open: it sends      *)
(* nobody to a login page or elsewhere and grants no cookie, whatever      *)
(* cookies browsers present and even to a POST to a file that happens to   *)
(* be called login.html (lines 124-129, 149, 159-185).                     *)
(***************************************************************************)
PublicIsOpen ==
  Timeout = 0 =>
    /\ \A c \in Cookies : ~InMap(c)
    /\ \A t \in Threads : /\ response[t].location = NoUri
                          /\ response[t].setCookie = NoCookie

(***************************************************************************)
(* What HandleRequest returns and leaves in the response is what the model *)
(* of the session assumes of a StaticFileHandler, whatever the threads do  *)
(* to each other: INVALID_URI for a URI without the prefix only, a code    *)
(* with every OK and with nothing else (lines 149-157, 187-218).           *)
(***************************************************************************)
ResultsAsPromised ==
  \A t \in Threads : pc[t] = "done" =>
    [status |-> response[t].status, code |-> response[t].code]
      \in FileResults \cup {r \in ForeignResults : request[t].uri \in ForeignUris}

-----------------------------------------------------------------------------
(***************************************************************************)
(* A private directory as its clients see it.                              *)
(***************************************************************************)
Phase(t) ==
  CASE pc[t] = "idle" -> "away"
    [] pc[t] \in {"find", "expire"} -> "asking"
    [] pc[t] \in {"erase", "deny"} -> "denied"
    [] pc[t] = "login" -> "submitting"
    [] pc[t] \in {"add_find", "add_erase", "gen"} -> "granting"
    [] pc[t] = "insert" -> "drawn"
    [] pc[t] \in {"redirect", "clear"} -> "open"
    [] pc[t] \in {"serve", "done"} ->
         IF ~Gated(request[t]) THEN "open"
         ELSE IF response[t].setCookie = Expired THEN "denied" ELSE "admitted"

Sessions == INSTANCE LoginSessions WITH
  Clients <- Threads,
  Start <- Epoch,
  clock <- now,
  grants <- {[cookie |-> l.cookie, at |-> l.at] : l \in logins},
  revoked <- retired,
  phase <- [t \in Threads |-> Phase(t)],
  presented <- [t \in Threads |-> request[t].cookie],
  drawn <- [t \in Threads |-> IF pc[t] = "insert" THEN new_cookie[t] ELSE NoCookie],
  stamp <- [t \in Threads |-> IF pc[t] = "insert" THEN now_seconds[t] ELSE 0],
  broken <- ub

(***************************************************************************)
(* While no cookie is drawn twice or guessed, the accesses of all threads  *)
(* to the map, one by one, add up to the logins, admissions and refusals   *)
(* of LoginSessions (lines 134-185 and 300-363): no interleaving admits a  *)
(* client without a fresh grant or turns one away that has it, no cookie   *)
(* is granted to two clients, and none is stamped earlier or later than    *)
(* when it was drawn.                                                      *)
(***************************************************************************)
KeepsPromise == Sessions!Spec

-----------------------------------------------------------------------------
(***************************************************************************)
(* What the design document says of the feature and the code does not do.  *)
(***************************************************************************)

(***************************************************************************)
(* static_files/design_document.md:23: when the cookie has expired,        *)
(* "redirect to the login page and delete the old cookie": the iterator    *)
(* the deletion uses still points to that cookie, at least while no two    *)
(* accesses have raced.                                                    *)
(***************************************************************************)
NoDanglingErase ==
  \A t \in Threads : ~ub /\ pc[t] \in {"erase", "add_erase"} => found[t] # Dangling

(***************************************************************************)
(* static_files/design_document.md:25: "Afterwards, redirect to the        *)
(* original uri": the one this client asked for.                           *)
(***************************************************************************)
Redirected(t) == pc[t] = "done" /\ new_cookie[t] # NoCookie /\ response[t].code = 302

RedirectsToOwnUri ==
  \A t \in Threads : ~ub /\ Redirected(t) => response[t].location = wanted[t]
=============================================================================
