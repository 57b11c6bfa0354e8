----------------------- MODULE StaticFileHandlerProofs -----------------------
(***************************************************************************)
(* Proofs about StaticFileHandler for every set of threads, cookies, files *)
(* and users, every timeout and every clock.                               *)
(***************************************************************************)
EXTENDS StaticFileHandler, TLAPS

Adding == {"add_find", "add_erase", "gen", "insert"}

(***************************************************************************)
(* What a thread's frame holds at the steps that use it.                   *)
(***************************************************************************)
FrameOK ==
  \A t \in Threads :
    /\ pc[t] \in Adding \cup {"login"} => request[t].body \in Bodies
    /\ pc[t] \in Adding \cup {"login", "redirect", "clear"} => request[t].uri = LoginUri
    /\ pc[t] = "idle" => cookie_time[t] = 0
    /\ pc[t] = "insert" => new_cookie[t] \in Cookies
    /\ pc[t] # "done" => response[t].body = NoUri

(***************************************************************************)
(* Only a thread whose credentials were found in user_map adds a cookie.   *)
(***************************************************************************)
CredentialsChecked ==
  /\ \A t \in Threads : pc[t] \in Adding => Valid(request[t].body)
  /\ \A l \in logins : Valid(l)

(***************************************************************************)
(* A creation time, in the map or read from it, is that of a login.        *)
(***************************************************************************)
TimesFromLogins ==
  /\ \A c \in Cookies : InMap(c) =>
       \E l \in logins : l.cookie = c /\ l.at = cookie_map[c]
  /\ \A t \in Threads : pc[t] = "expire" /\ cookie_time[t] # 0 =>
       \E l \in logins : l.cookie = request[t].cookie /\ l.at = cookie_time[t]

(***************************************************************************)
(* The clock never shows a time at which a missing cookie looks fresh.     *)
(***************************************************************************)
ClockOK == now >= Epoch

GatedAuthorised ==
  \A t \in Threads :
    /\ pc[t] = "serve" /\ Gated(request[t]) => Authorised(t)
    /\ Timeout # 0 /\ response[t].body \in Files => Authorised(t)

TypeInv == TypeOK /\ FrameOK
IInv == CredentialsChecked /\ TimesFromLogins /\ ClockOK /\ GatedAuthorised
-----------------------------------------------------------------------------
USE DEF shared, locals, history

LEMMA NewResponseType == NewResponse \in Responses /\ NewResponse.body = NoUri
  BY DEF NewResponse, Responses

LEMMA TypeInit == Init => TypeInv
  <1> SUFFICES ASSUME Init PROVE TypeInv
    OBVIOUS
  <1>1. TypeOK
    BY NewResponseType, ClockAssumption
    DEF Init, TypeOK, PCs, MapUsers, MapWriters, UriUsers, UriWriters
  <1>2. FrameOK
    BY NewResponseType DEF Init, FrameOK, Adding
  <1>. QED
    BY <1>1, <1>2 DEF TypeInv

LEMMA TypeStep == TypeInv /\ [Next]_vars => TypeInv'
  <1> SUFFICES ASSUME TypeInv, [Next]_vars PROVE TypeInv'
    OBVIOUS
  <1> USE ClockAssumption, NameAssumption
      DEF TypeInv, TypeOK, FrameOK, PCs, MapUsers, MapWriters, UriUsers, UriWriters, Adding
  <1>1. ASSUME NEW t \in Threads, Call(t) PROVE TypeInv'
    BY <1>1 DEF Call, Goto, Requests, NoRequest
  <1>2. ASSUME NEW t \in Threads, CheckFind(t) PROVE TypeInv'
    BY <1>2 DEF CheckFind, Goto, FindResults
  <1>3. ASSUME NEW t \in Threads, CheckExpire(t) PROVE TypeInv'
    BY <1>3 DEF CheckExpire, Goto
  <1>4. ASSUME NEW t \in Threads, CheckErase(t) PROVE TypeInv'
    BY <1>4 DEF CheckErase, Goto, Erase
  <1>5. ASSUME NEW t \in Threads, Deny(t) PROVE TypeInv'
    <2>1. request[t].uri \in Uris \cup {NoUri}
      BY DEF Requests, NoRequest
    <2>2. response' \in [Threads -> Responses] /\ pc'[t] = "done"
      BY <1>5 DEF Deny, Goto, Responses, Uris
    <2>. QED
      BY <1>5, <2>1, <2>2 DEF Deny, Goto
  <1>6. ASSUME NEW t \in Threads, Login(t) PROVE TypeInv'
    BY <1>6 DEF Login, Goto, Requests, NoRequest
  <1>7. ASSUME NEW t \in Threads, AddFind(t) PROVE TypeInv'
    BY <1>7 DEF AddFind, Goto, FindResults
  <1>8. ASSUME NEW t \in Threads, AddErase(t) PROVE TypeInv'
    BY <1>8 DEF AddErase, Goto, Erase
  <1>9. ASSUME NEW t \in Threads, AddGen(t) PROVE TypeInv'
    BY <1>9 DEF AddGen, Goto, Draws
  <1>10. ASSUME NEW t \in Threads, AddInsert(t) PROVE TypeInv'
    BY <1>10 DEF AddInsert, Goto, Logins, Bodies
  <1>11. ASSUME NEW t \in Threads, Redirect(t) PROVE TypeInv'
    <2>1. response' \in [Threads -> Responses]
      <3>1. PICK u \in Uris \cup {NoUri, Garbled} :
              response' = [response EXCEPT ![t].location = u, ![t].setCookie = new_cookie[t]]
        BY <1>11 DEF Redirect
      <3>2. [response[t] EXCEPT !.location = u, !.setCookie = new_cookie[t]] \in Responses
        <4> DEFINE r == [response[t] EXCEPT !.location = u]
        <4>1. response[t] \in Responses /\ new_cookie[t] \in Cookies \cup {NoCookie}
          OBVIOUS
        <4>2. r \in Responses
          BY <4>1, ZenonT(60) DEF Responses
        <4> HIDE DEF r
        <4>3. [r EXCEPT !.setCookie = new_cookie[t]] \in Responses
          BY <4>1, <4>2, SMTT(60) DEF Responses
        <4>. QED
          BY <4>3 DEF r
      <3>3. response' = [response EXCEPT ![t] =
              [response[t] EXCEPT !.location = u, !.setCookie = new_cookie[t]]]
        BY <3>1, ZenonT(60)
      <3>. QED
        BY <3>2, <3>3
    <2>2. \A s \in Threads : response'[s].body = response[s].body
      BY <1>11 DEF Redirect, Responses
    <2>. QED
      BY <1>11, <2>1, <2>2 DEF Redirect, Goto
  <1>12. ASSUME NEW t \in Threads, Clear(t) PROVE TypeInv'
    BY <1>12 DEF Clear, Goto
  <1>13. ASSUME NEW t \in Threads, Serve(t) PROVE TypeInv'
    <2>1. request[t].uri \in Uris \cup {NoUri}
      BY DEF Requests, NoRequest
    <2>2. response' \in [Threads -> Responses]
      <3>1. response[t] \in Responses
        OBVIOUS
      <3>2. \A x \in {"INVALID_URI", "FILE_NOT_FOUND"} :
              [response[t] EXCEPT !.status = x] \in Responses
        BY <3>1, SMTT(60) DEF Responses
      <3>3. \A x \in {200, 302} :
              [response[t] EXCEPT !.code = x, !.body = request[t].uri] \in Responses
        <4> TAKE x \in {200, 302}
        <4> DEFINE r == [response[t] EXCEPT !.code = x]
        <4>1. r \in Responses
          BY <3>1, SMTT(60) DEF Responses
        <4> HIDE DEF r
        <4>2. [r EXCEPT !.body = request[t].uri] \in Responses
          BY <2>1, <4>1, SMTT(60) DEF Responses
        <4>. QED
          BY <4>2 DEF r
      <3>4. CASE response' = [response EXCEPT ![t].status = "INVALID_URI"]
        BY <3>2, <3>4
      <3>5. CASE response' = [response EXCEPT ![t].status = "FILE_NOT_FOUND"]
        BY <3>2, <3>5
      <3>6. CASE response' = [response EXCEPT
                   ![t].code = IF response[t].location = NoUri THEN 200 ELSE 302,
                   ![t].body = request[t].uri]
        <4> DEFINE x == IF response[t].location = NoUri THEN 200 ELSE 302
        <4>1. x \in {200, 302}
          OBVIOUS
        <4>2. [response[t] EXCEPT !.code = x, !.body = request[t].uri] \in Responses
          BY <3>3, <4>1
        <4>3. response' = [response EXCEPT ![t] =
                [response[t] EXCEPT !.code = x, !.body = request[t].uri]]
          BY <3>6, ZenonT(60)
        <4> HIDE DEF x
        <4>. QED
          BY <4>2, <4>3
      <3>. QED
        BY <1>13, <3>4, <3>5, <3>6 DEF Serve
    <2>3. \A s \in Threads : s # t => response'[s] = response[s]
      BY <1>13 DEF Serve
    <2>. QED
      BY <1>13, <2>2, <2>3 DEF Serve, Goto
  <1>14. ASSUME NEW t \in Threads, Return(t) PROVE TypeInv'
    BY <1>14, NewResponseType DEF Return, Goto
  <1>15. ASSUME NEW t \in Threads, Abort(t) PROVE TypeInv'
    BY <1>15, NewResponseType DEF Abort
  <1>16. ASSUME Tick PROVE TypeInv'
    BY <1>16 DEF Tick
  <1>17. CASE UNCHANGED vars
    BY <1>17 DEF vars
  <1>. QED
    BY <1>1, <1>2, <1>3, <1>4, <1>5, <1>6, <1>7, <1>8, <1>9, <1>10, <1>11, <1>12,
       <1>13, <1>14, <1>15, <1>16, <1>17
    DEF Next, HandleRequest, CheckCookie, AddCookie

(***************************************************************************)
(* Every member of the handler and every local of a thread keeps its type  *)
(* (static_file_handler.h lines 31-36).                                    *)
(***************************************************************************)
THEOREM TypeCorrect == Spec => []TypeOK
  <1>1. TypeInv => TypeOK
    BY DEF TypeInv
  <1>. QED
    BY <1>1, TypeInit, TypeStep, PTL DEF Spec

-----------------------------------------------------------------------------
LEMMA IInit == Init => IInv
  BY ClockAssumption, NameAssumption
  DEF Init, IInv, CredentialsChecked, TimesFromLogins, ClockOK, GatedAuthorised,
      Adding, InMap, NewResponse, Uris

(***************************************************************************)
(* A step that keeps the logins and a thread's request and clock reading   *)
(* keeps the thread authorised.                                            *)
(***************************************************************************)
LEMMA AuthorisedStable ==
  ASSUME NEW s \in Threads, logins \subseteq logins', Authorised(s),
         request'[s] = request[s], now_seconds'[s] = now_seconds[s]
  PROVE  Authorised(s)'
  BY DEF Authorised, Valid

(***************************************************************************)
(* A step of thread t leaves the other threads authorised; what it does to *)
(* t itself is left to show.                                               *)
(***************************************************************************)
Untouched(s) == /\ pc'[s] = pc[s] /\ request'[s] = request[s]
                /\ response'[s].body = response[s].body
                /\ now_seconds'[s] = now_seconds[s]

LEMMA OthersAuthorised ==
  ASSUME GatedAuthorised, NEW t \in Threads, logins \subseteq logins',
         \A s \in Threads \ {t} : Untouched(s),
         pc'[t] = "serve" /\ Gated(request'[t]) => Authorised(t)',
         Timeout # 0 /\ response'[t].body \in Files => Authorised(t)'
  PROVE  GatedAuthorised'
  <1> SUFFICES ASSUME NEW s \in Threads, s # t
               PROVE /\ pc'[s] = "serve" /\ Gated(request'[s]) => Authorised(s)'
                     /\ Timeout # 0 /\ response'[s].body \in Files => Authorised(s)'
    BY DEF GatedAuthorised, Gated
  <1>1. Authorised(s) => Authorised(s)'
    BY AuthorisedStable DEF Untouched
  <1>. QED
    BY <1>1 DEF GatedAuthorised, Untouched

(***************************************************************************)
(* A step that neither puts a time into the map nor starts a check keeps   *)
(* the times those of logins.                                              *)
(***************************************************************************)
LEMMA TimesStable ==
  ASSUME TimesFromLogins, logins \subseteq logins',
         \A c \in Cookies : cookie_map'[c] \in {0, cookie_map[c]},
         \A s \in Threads : pc'[s] = "expire" /\ cookie_time'[s] # 0 =>
           /\ pc[s] = "expire" /\ cookie_time'[s] = cookie_time[s]
           /\ request'[s].cookie = request[s].cookie
  PROVE  TimesFromLogins'
  BY DEF TimesFromLogins, InMap

(***************************************************************************)
(* An erase only takes cookies out of the map.                             *)
(***************************************************************************)
LEMMA EraseShrinks ==
  ASSUME TypeInv, NEW t \in Threads, Erase(t)
  PROVE  \A c \in Cookies : cookie_map'[c] \in {0, cookie_map[c]}
  BY DEF Erase, TypeInv, TypeOK

LEMMA IStep == TypeInv /\ IInv /\ [Next]_vars => IInv'
  <1> SUFFICES ASSUME TypeInv, IInv, [Next]_vars PROVE IInv'
    OBVIOUS
  <1> USE DEF TypeInv, TypeOK, FrameOK, IInv, Goto
  <1>0. NoUri \notin Files /\ LoginUri \notin Files
    BY NameAssumption DEF Uris
  <1>1. ASSUME NEW t \in Threads, Call(t) PROVE IInv'
    <2>1. CredentialsChecked'
      BY <1>1 DEF Call, CredentialsChecked, Adding, Valid
    <2>2. TimesFromLogins'
      BY <1>1, TimesStable DEF Call, Requests
    <2>3. ClockOK'
      BY <1>1 DEF Call, ClockOK
    <2>4. GatedAuthorised'
      <3>1. \A s \in Threads \ {t} : Untouched(s)
        BY <1>1 DEF Call, Untouched
      <3>2. /\ ~(pc'[t] = "serve" /\ Gated(request'[t]))
            /\ response'[t].body \notin Files
        BY <1>0, <1>1 DEF Call, Gated, Responses
      <3>. QED
        BY <1>1, <3>1, <3>2, OthersAuthorised DEF Call
    <2>. QED
      BY <2>1, <2>2, <2>3, <2>4
  <1>2. ASSUME NEW t \in Threads, CheckFind(t) PROVE IInv'
    <2>1. CredentialsChecked'
      BY <1>2 DEF CheckFind, CredentialsChecked, Adding, Valid
    <2>2. TimesFromLogins'
      <3>1. PICK f \in FindResults(t, request[t].cookie) :
              cookie_time' = [cookie_time EXCEPT ![t] = IF f = End THEN 0 ELSE cookie_map[f]]
        BY <1>2 DEF CheckFind
      <3>2. f # End => f \in Cookies /\ f = request[t].cookie /\ InMap(f)
        BY NameAssumption DEF FindResults
      <3>3. cookie_time'[t] # 0 =>
              \E l \in logins : l.cookie = request[t].cookie /\ l.at = cookie_time'[t]
        BY <3>1, <3>2 DEF TimesFromLogins
      <3>. QED
        BY <1>2, <3>1, <3>3 DEF CheckFind, TimesFromLogins, InMap
    <2>3. ClockOK'
      BY <1>2 DEF CheckFind, ClockOK
    <2>4. GatedAuthorised'
      <3>1. \A s \in Threads \ {t} : Untouched(s)
        BY <1>2 DEF CheckFind, Untouched
      <3>2. /\ ~(pc'[t] = "serve" /\ Gated(request'[t]))
            /\ response'[t].body \notin Files
        BY <1>0, <1>2 DEF CheckFind, Gated, Responses
      <3>. QED
        BY <1>2, <3>1, <3>2, OthersAuthorised DEF CheckFind
    <2>. QED
      BY <2>1, <2>2, <2>3, <2>4
  <1>3. ASSUME NEW t \in Threads, CheckExpire(t) PROVE IInv'
    <2>1. CredentialsChecked'
      BY <1>3 DEF CheckExpire, CredentialsChecked, Adding, Valid
    <2>2. TimesFromLogins'
      BY <1>3, TimesStable DEF CheckExpire
    <2>3. ClockOK'
      BY <1>3 DEF CheckExpire, ClockOK
    <2>4. Timeout # 0 /\ pc'[t] = "serve" => Authorised(t)'
      <3> SUFFICES ASSUME Timeout # 0, ~TooOld(t) PROVE Authorised(t)'
        BY <1>3 DEF CheckExpire
      <3>1. cookie_time[t] # 0
        BY ClockAssumption, ConfigAssumption DEF ClockOK, TooOld
      <3>2. PICK l \in logins : l.cookie = request[t].cookie /\ l.at = cookie_time[t]
        BY <1>3, <3>1 DEF CheckExpire, TimesFromLogins
      <3>3. Valid(l) /\ now - l.at <= Timeout
        BY <3>2, ConfigAssumption DEF TooOld, CredentialsChecked
      <3>. QED
        BY <1>3, <3>2, <3>3 DEF CheckExpire, Authorised, Valid
    <2>5. GatedAuthorised'
      <3>1. \A s \in Threads \ {t} : Untouched(s)
        BY <1>3 DEF CheckExpire, Untouched
      <3>2. /\ pc'[t] = "serve" /\ Gated(request'[t]) => Authorised(t)'
            /\ response'[t].body \notin Files
        BY <1>0, <1>3, <2>4 DEF CheckExpire, Gated
      <3>. QED
        BY <1>3, <3>1, <3>2, OthersAuthorised DEF CheckExpire
    <2>. QED
      BY <2>1, <2>2, <2>3, <2>5
  <1>4. ASSUME NEW t \in Threads, CheckErase(t) PROVE IInv'
    <2>1. CredentialsChecked'
      BY <1>4 DEF CheckErase, CredentialsChecked, Adding, Valid
    <2>2. TimesFromLogins'
      BY <1>4, EraseShrinks, TimesStable DEF CheckErase
    <2>3. ClockOK'
      BY <1>4 DEF CheckErase, ClockOK
    <2>4. GatedAuthorised'
      <3>1. \A s \in Threads \ {t} : Untouched(s)
        BY <1>4 DEF CheckErase, Untouched
      <3>2. /\ ~(pc'[t] = "serve" /\ Gated(request'[t]))
            /\ response'[t].body \notin Files
        BY <1>0, <1>4 DEF CheckErase, Gated, Responses
      <3>. QED
        BY <1>4, <3>1, <3>2, OthersAuthorised DEF CheckErase
    <2>. QED
      BY <2>1, <2>2, <2>3, <2>4
  <1>5. ASSUME NEW t \in Threads, Deny(t) PROVE IInv'
    <2>1. CredentialsChecked'
      BY <1>5 DEF Deny, CredentialsChecked, Adding, Valid
    <2>2. TimesFromLogins'
      BY <1>5, TimesStable DEF Deny
    <2>3. ClockOK'
      BY <1>5 DEF Deny, ClockOK
    <2>4. GatedAuthorised'
      <3>1. \A s \in Threads \ {t} : Untouched(s)
        BY <1>5 DEF Deny, Untouched
      <3>2. /\ ~(pc'[t] = "serve" /\ Gated(request'[t]))
            /\ response'[t].body \notin Files
        BY <1>0, <1>5 DEF Deny, Gated, Responses
      <3>. QED
        BY <1>5, <3>1, <3>2, OthersAuthorised DEF Deny
    <2>. QED
      BY <2>1, <2>2, <2>3, <2>4
  <1>6. ASSUME NEW t \in Threads, Login(t) PROVE IInv'
    <2>1. CredentialsChecked'
      BY <1>6 DEF Login, CredentialsChecked, Adding, Valid
    <2>2. TimesFromLogins'
      BY <1>6, TimesStable DEF Login
    <2>3. ClockOK'
      BY <1>6 DEF Login, ClockOK
    <2>4. GatedAuthorised'
      <3>1. \A s \in Threads \ {t} : Untouched(s)
        BY <1>6 DEF Login, Untouched
      <3>2. /\ ~(pc'[t] = "serve" /\ Gated(request'[t]))
            /\ response'[t].body \notin Files
        BY <1>0, <1>6 DEF Login, Gated, Responses
      <3>. QED
        BY <1>6, <3>1, <3>2, OthersAuthorised DEF Login
    <2>. QED
      BY <2>1, <2>2, <2>3, <2>4
  <1>7. ASSUME NEW t \in Threads, AddFind(t) PROVE IInv'
    <2>1. CredentialsChecked'
      BY <1>7 DEF AddFind, CredentialsChecked, Adding, Valid
    <2>2. TimesFromLogins'
      BY <1>7, TimesStable DEF AddFind
    <2>3. ClockOK'
      BY <1>7 DEF AddFind, ClockOK
    <2>4. GatedAuthorised'
      <3>1. \A s \in Threads \ {t} : Untouched(s)
        BY <1>7 DEF AddFind, Untouched
      <3>2. /\ ~(pc'[t] = "serve" /\ Gated(request'[t]))
            /\ response'[t].body \notin Files
        BY <1>0, <1>7 DEF AddFind, Gated, Responses
      <3>. QED
        BY <1>7, <3>1, <3>2, OthersAuthorised DEF AddFind
    <2>. QED
      BY <2>1, <2>2, <2>3, <2>4
  <1>8. ASSUME NEW t \in Threads, AddErase(t) PROVE IInv'
    <2>1. CredentialsChecked'
      BY <1>8 DEF AddErase, CredentialsChecked, Adding, Valid
    <2>2. TimesFromLogins'
      BY <1>8, EraseShrinks, TimesStable DEF AddErase
    <2>3. ClockOK'
      BY <1>8 DEF AddErase, ClockOK
    <2>4. GatedAuthorised'
      <3>1. \A s \in Threads \ {t} : Untouched(s)
        BY <1>8 DEF AddErase, Untouched
      <3>2. /\ ~(pc'[t] = "serve" /\ Gated(request'[t]))
            /\ response'[t].body \notin Files
        BY <1>0, <1>8 DEF AddErase, Gated, Responses
      <3>. QED
        BY <1>8, <3>1, <3>2, OthersAuthorised DEF AddErase
    <2>. QED
      BY <2>1, <2>2, <2>3, <2>4
  <1>9. ASSUME NEW t \in Threads, AddGen(t) PROVE IInv'
    <2>1. CredentialsChecked'
      BY <1>9 DEF AddGen, CredentialsChecked, Adding, Valid
    <2>2. TimesFromLogins'
      BY <1>9, TimesStable DEF AddGen
    <2>3. ClockOK'
      BY <1>9 DEF AddGen, ClockOK
    <2>4. GatedAuthorised'
      <3>1. \A s \in Threads \ {t} : Untouched(s)
        BY <1>9 DEF AddGen, Untouched
      <3>2. /\ ~(pc'[t] = "serve" /\ Gated(request'[t]))
            /\ response'[t].body \notin Files
        BY <1>0, <1>9 DEF AddGen, Gated, Responses
      <3>. QED
        BY <1>9, <3>1, <3>2, OthersAuthorised DEF AddGen
    <2>. QED
      BY <2>1, <2>2, <2>3, <2>4
  <1>10. ASSUME NEW t \in Threads, AddInsert(t) PROVE IInv'
    <2>1. CredentialsChecked'
      BY <1>10 DEF AddInsert, CredentialsChecked, Adding, Valid
    <2>2. TimesFromLogins'
      <3> DEFINE new == [cookie |-> new_cookie[t], at |-> now_seconds[t],
                         user |-> request[t].body.user, pass |-> request[t].body.pass]
      <3>1. new \in logins' /\ logins \subseteq logins'
        BY <1>10 DEF AddInsert
      <3>2. ASSUME NEW c \in Cookies, InMap(c)'
            PROVE \E l \in logins' : l.cookie = c /\ l.at = cookie_map'[c]
        <4>1. CASE cookie_map'[c] = cookie_map[c]
          BY <3>1, <3>2, <4>1 DEF TimesFromLogins, InMap
        <4>2. CASE c = new_cookie[t] /\ cookie_map'[c] = now_seconds[t]
          BY <3>1, <4>2
        <4>. QED
          BY <1>10, <4>1, <4>2 DEF AddInsert
      <3>. QED
        BY <1>10, <3>1, <3>2 DEF AddInsert, TimesFromLogins
    <2>3. ClockOK'
      BY <1>10 DEF AddInsert, ClockOK
    <2>4. GatedAuthorised'
      <3>1. \A s \in Threads \ {t} : Untouched(s)
        BY <1>10 DEF AddInsert, Untouched
      <3>2. /\ ~(pc'[t] = "serve" /\ Gated(request'[t]))
            /\ response'[t].body \notin Files
        BY <1>0, <1>10 DEF AddInsert, Gated, Responses
      <3>. QED
        BY <1>10, <3>1, <3>2, OthersAuthorised DEF AddInsert
    <2>. QED
      BY <2>1, <2>2, <2>3, <2>4
  <1>11. ASSUME NEW t \in Threads, Redirect(t) PROVE IInv'
    <2>1. CredentialsChecked'
      BY <1>11 DEF Redirect, CredentialsChecked, Adding, Valid
    <2>2. TimesFromLogins'
      BY <1>11, TimesStable DEF Redirect
    <2>3. ClockOK'
      BY <1>11 DEF Redirect, ClockOK
    <2>4. GatedAuthorised'
      <3>1. \A s \in Threads \ {t} : Untouched(s)
        BY <1>11 DEF Redirect, Untouched
      <3>2. /\ ~(pc'[t] = "serve" /\ Gated(request'[t]))
            /\ response'[t].body \notin Files
        BY <1>0, <1>11 DEF Redirect, Gated, Responses
      <3>. QED
        BY <1>11, <3>1, <3>2, OthersAuthorised DEF Redirect
    <2>. QED
      BY <2>1, <2>2, <2>3, <2>4
  <1>12. ASSUME NEW t \in Threads, Clear(t) PROVE IInv'
    <2>1. CredentialsChecked'
      BY <1>12 DEF Clear, CredentialsChecked, Adding, Valid
    <2>2. TimesFromLogins'
      BY <1>12, TimesStable DEF Clear
    <2>3. ClockOK'
      BY <1>12 DEF Clear, ClockOK
    <2>4. GatedAuthorised'
      <3>1. \A s \in Threads \ {t} : Untouched(s)
        BY <1>12 DEF Clear, Untouched
      <3>2. /\ ~(pc'[t] = "serve" /\ Gated(request'[t]))
            /\ response'[t].body \notin Files
        BY <1>0, <1>12 DEF Clear, Gated, Responses
      <3>. QED
        BY <1>12, <3>1, <3>2, OthersAuthorised DEF Clear
    <2>. QED
      BY <2>1, <2>2, <2>3, <2>4
  <1>13. ASSUME NEW t \in Threads, Serve(t) PROVE IInv'
    <2>1. CredentialsChecked'
      BY <1>13 DEF Serve, CredentialsChecked, Adding, Valid
    <2>2. TimesFromLogins'
      BY <1>13, TimesStable DEF Serve
    <2>3. ClockOK'
      BY <1>13 DEF Serve, ClockOK
    <2>4. GatedAuthorised'
      <3>1. \A s \in Threads \ {t} : Untouched(s)
        BY <1>13 DEF Serve, Untouched
      <3>2. Gated(request[t]) => Authorised(t)'
        BY <1>13, AuthorisedStable DEF Serve, GatedAuthorised
      <3>3. response'[t].body \in {NoUri, request[t].uri}
        BY <1>13 DEF Serve, Responses
      <3>4. Timeout # 0 /\ response'[t].body \in Files => Authorised(t)'
        BY <1>0, <3>2, <3>3 DEF Gated
      <3>. QED
        BY <1>13, <3>1, <3>4, OthersAuthorised DEF Serve
    <2>. QED
      BY <2>1, <2>2, <2>3, <2>4
  <1>14. ASSUME NEW t \in Threads, Return(t) PROVE IInv'
    <2>1. CredentialsChecked'
      BY <1>14 DEF Return, CredentialsChecked, Adding, Valid
    <2>2. TimesFromLogins'
      BY <1>14, TimesStable DEF Return
    <2>3. ClockOK'
      BY <1>14 DEF Return, ClockOK
    <2>4. GatedAuthorised'
      <3>1. \A s \in Threads \ {t} : Untouched(s)
        BY <1>14 DEF Return, Untouched
      <3>2. /\ ~(pc'[t] = "serve" /\ Gated(request'[t]))
            /\ response'[t].body \notin Files
        BY <1>0, <1>14, NewResponseType DEF Return, Gated, Responses
      <3>. QED
        BY <1>14, <3>1, <3>2, OthersAuthorised DEF Return
    <2>. QED
      BY <2>1, <2>2, <2>3, <2>4
  <1>15. ASSUME NEW t \in Threads, Abort(t) PROVE IInv'
    <2>1. CredentialsChecked'
      BY <1>15 DEF Abort, CredentialsChecked, Adding, Valid
    <2>2. TimesFromLogins'
      BY <1>15, TimesStable DEF Abort
    <2>3. ClockOK'
      BY <1>15 DEF Abort, ClockOK
    <2>4. GatedAuthorised'
      BY <1>0, <1>15, NewResponseType DEF Abort, GatedAuthorised
    <2>. QED
      BY <2>1, <2>2, <2>3, <2>4
  <1>16. ASSUME Tick PROVE IInv'
    <2>1. \A s \in Threads : Authorised(s) => Authorised(s)'
      BY <1>16, AuthorisedStable DEF Tick
    <2>2. TimesFromLogins'
      BY <1>16, TimesStable DEF Tick
    <2>3. CredentialsChecked' /\ ClockOK'
      BY <1>16, ClockAssumption DEF Tick, CredentialsChecked, ClockOK, Adding, Valid
    <2>4. GatedAuthorised'
      BY <1>16, <2>1 DEF Tick, GatedAuthorised, Gated
    <2>. QED
      BY <2>2, <2>3, <2>4
  <1>17. CASE UNCHANGED vars
    BY <1>17 DEF vars, CredentialsChecked, TimesFromLogins, ClockOK, GatedAuthorised,
                 Authorised, Valid, Gated, InMap
  <1>. QED
    BY <1>1, <1>2, <1>3, <1>4, <1>5, <1>6, <1>7, <1>8, <1>9, <1>10, <1>11, <1>12,
       <1>13, <1>14, <1>15, <1>16, <1>17
    DEF Next, HandleRequest, CheckCookie, AddCookie

(***************************************************************************)
(* No interleaving, race, repeated or guessed cookie makes the server send *)
(* a private file to a client that does not present the cookie of a login  *)
(* with a configured password, at most Timeout seconds old at the check.   *)
(***************************************************************************)
THEOREM PrivateFilesAuthorised == Spec => []AuthSafe
  <1>1. TypeInv /\ IInv => AuthSafe
    BY DEF IInv, GatedAuthorised, AuthSafe
  <1>. QED
    BY <1>1, TypeInit, TypeStep, IInit, IStep, PTL DEF Spec

-----------------------------------------------------------------------------
(***************************************************************************)
(* Why nobody is sent to the login page from the login page: a thread that *)
(* is at a step of check_cookie does not serve the login page, and a       *)
(* response points nowhere before deny and redirect.                       *)
(***************************************************************************)
LoopInv ==
  /\ NoLoginLoop
  /\ \A t \in Threads :
       /\ pc[t] \in {"find", "expire", "erase", "deny"} => request[t].uri # LoginUri
       /\ pc[t] \in {"idle", "login"} => response[t].location = NoUri

LEMMA LoopStep == TypeInv /\ LoopInv /\ [Next]_vars => LoopInv'
  <1> SUFFICES ASSUME TypeInv, LoopInv, [Next]_vars PROVE LoopInv'
    OBVIOUS
  <1> USE DEF TypeInv, TypeOK, FrameOK, LoopInv, NoLoginLoop, Goto
  <1>0. NoUri # LoginUri /\ Garbled # LoginUri
    BY NameAssumption DEF Uris
  <1>1. ASSUME NEW t \in Threads, Call(t) PROVE LoopInv'
    BY <1>0, <1>1 DEF Call, Gated, Adding
  <1>2. ASSUME NEW t \in Threads, CheckFind(t) PROVE LoopInv'
    BY <1>0, <1>2 DEF CheckFind, Adding
  <1>3. ASSUME NEW t \in Threads, CheckExpire(t) PROVE LoopInv'
    BY <1>0, <1>3 DEF CheckExpire, Adding
  <1>4. ASSUME NEW t \in Threads, CheckErase(t) PROVE LoopInv'
    BY <1>0, <1>4 DEF CheckErase, Adding
  <1>5. ASSUME NEW t \in Threads, Deny(t) PROVE LoopInv'
    BY <1>0, <1>5 DEF Deny, Responses
  <1>6. ASSUME NEW t \in Threads, Login(t) PROVE LoopInv'
    BY <1>0, <1>6 DEF Login, Adding
  <1>7. ASSUME NEW t \in Threads, AddFind(t) PROVE LoopInv'
    BY <1>0, <1>7 DEF AddFind, Adding
  <1>8. ASSUME NEW t \in Threads, AddErase(t) PROVE LoopInv'
    BY <1>0, <1>8 DEF AddErase, Adding
  <1>9. ASSUME NEW t \in Threads, AddGen(t) PROVE LoopInv'
    BY <1>0, <1>9 DEF AddGen, Adding
  <1>10. ASSUME NEW t \in Threads, AddInsert(t) PROVE LoopInv'
    BY <1>0, <1>10 DEF AddInsert, Adding
  <1>11. ASSUME NEW t \in Threads, Redirect(t) PROVE LoopInv'
    BY <1>0, <1>11 DEF Redirect, Responses, Adding
  <1>12. ASSUME NEW t \in Threads, Clear(t) PROVE LoopInv'
    BY <1>0, <1>12 DEF Clear, Adding
  <1>13. ASSUME NEW t \in Threads, Serve(t) PROVE LoopInv'
    <2>1. \A s \in Threads : response'[s].location = response[s].location
      BY <1>13 DEF Serve, Responses
    <2>. QED
      BY <1>13, <2>1 DEF Serve
  <1>14. ASSUME NEW t \in Threads, Return(t) PROVE LoopInv'
    BY <1>0, <1>14, NewResponseType DEF Return, NewResponse, NoRequest
  <1>15. ASSUME NEW t \in Threads, Abort(t) PROVE LoopInv'
    BY <1>0, <1>15 DEF Abort, NewResponse, NoRequest
  <1>16. ASSUME Tick PROVE LoopInv'
    BY <1>16 DEF Tick
  <1>17. CASE UNCHANGED vars
    BY <1>17 DEF vars
  <1>. QED
    BY <1>1, <1>2, <1>3, <1>4, <1>5, <1>6, <1>7, <1>8, <1>9, <1>10, <1>11, <1>12,
       <1>13, <1>14, <1>15, <1>16, <1>17
    DEF Next, HandleRequest, CheckCookie, AddCookie

(***************************************************************************)
(* The login page is always reachable: no request for it is redirected to  *)
(* it, and a login never returns its client to it.                         *)
(***************************************************************************)
THEOREM LoginNeverLoops == Spec => []NoLoginLoop
  <1>1. Init => LoopInv
    BY NameAssumption
    DEF Init, LoopInv, NoLoginLoop, NewResponse, NoRequest, Uris
  <1>2. LoopInv => NoLoginLoop
    BY DEF LoopInv
  <1>. QED
    BY <1>1, <1>2, TypeInit, TypeStep, LoopStep, PTL DEF Spec

-----------------------------------------------------------------------------
(***************************************************************************)
(* Why a public directory is open: it has no users, so no thread ever gets *)
(* to a step that reads or writes the map, denies or redirects.            *)
(***************************************************************************)
OpenInv ==
  Timeout = 0 =>
    /\ PublicIsOpen
    /\ \A t \in Threads : pc[t] \in {"idle", "login", "clear", "serve", "done"}

LEMMA OpenStep == TypeInv /\ OpenInv /\ [Next]_vars => OpenInv'
  <1> SUFFICES ASSUME TypeInv, OpenInv, [Next]_vars, Timeout = 0 PROVE OpenInv'
    BY DEF OpenInv
  <1> USE DEF TypeInv, TypeOK, OpenInv, PublicIsOpen, InMap, Goto
  <1>1. ASSUME NEW t \in Threads, Call(t) PROVE OpenInv'
    BY <1>1 DEF Call, Gated
  <1>2. ASSUME NEW t \in Threads, Login(t) PROVE OpenInv'
    BY <1>2, ConfigAssumption DEF Login, Valid
  <1>3. ASSUME NEW t \in Threads, Clear(t) PROVE OpenInv'
    BY <1>3 DEF Clear
  <1>4. ASSUME NEW t \in Threads, Serve(t) PROVE OpenInv'
    <2>1. \A s \in Threads : /\ response'[s].location = response[s].location
                             /\ response'[s].setCookie = response[s].setCookie
      BY <1>4 DEF Serve, Responses
    <2>. QED
      BY <1>4, <2>1 DEF Serve
  <1>5. ASSUME NEW t \in Threads, Return(t) PROVE OpenInv'
    BY <1>5 DEF Return, NewResponse
  <1>6. ASSUME NEW t \in Threads, Abort(t) PROVE OpenInv'
    BY <1>6 DEF Abort, NewResponse
  <1>7. ASSUME NEW t \in Threads,
                CheckCookie(t) \/ AddCookie(t) \/ Redirect(t)
         PROVE FALSE
    BY <1>7 DEF CheckCookie, AddCookie, CheckFind, CheckExpire, CheckErase, Deny,
               AddFind, AddErase, AddGen, AddInsert, Redirect
  <1>8. ASSUME Tick PROVE OpenInv'
    BY <1>8 DEF Tick
  <1>9. CASE UNCHANGED vars
    BY <1>9 DEF vars
  <1>. QED
    BY <1>1, <1>2, <1>3, <1>4, <1>5, <1>6, <1>7, <1>8, <1>9 DEF Next, HandleRequest

(***************************************************************************)
(* A directory without users and timeout serves everyone, keeps no cookie  *)
(* and redirects nobody.                                                   *)
(***************************************************************************)
THEOREM PublicStaysOpen == Spec => []PublicIsOpen
  <1>1. Init => OpenInv
    BY NameAssumption DEF Init, OpenInv, PublicIsOpen, InMap, NewResponse, Uris
  <1>2. OpenInv => PublicIsOpen
    BY DEF OpenInv, PublicIsOpen
  <1>. QED
    BY <1>1, <1>2, TypeInit, TypeStep, OpenStep, PTL DEF Spec

-----------------------------------------------------------------------------
(***************************************************************************)
(* Until a call is done its response has no code and no error; Deny and    *)
(* Serve, which end it, set both.                                          *)
(***************************************************************************)
ResultInv ==
  \A t \in Threads :
    IF pc[t] = "done"
    THEN [status |-> response[t].status, code |-> response[t].code]
           \in FileResults \cup {r \in ForeignResults : request[t].uri \in ForeignUris}
    ELSE response[t].status = "OK" /\ response[t].code = 0

LEMMA ResultStep == TypeInv /\ ResultInv /\ [Next]_vars => ResultInv'
  <1> SUFFICES ASSUME TypeInv, ResultInv, [Next]_vars PROVE ResultInv'
    OBVIOUS
  <1> USE DEF TypeInv, TypeOK, ResultInv, Goto
  <1>1. ASSUME NEW t \in Threads, Deny(t) PROVE ResultInv'
    <2>1. [status |-> response'[t].status, code |-> response'[t].code] \in FileResults
      BY <1>1 DEF Deny, FileResults
    <2>. QED
      BY <1>1, <2>1 DEF Deny
  <1>2. ASSUME NEW t \in Threads, Redirect(t) PROVE ResultInv'
    <2>1. response'[t].status = response[t].status /\ response'[t].code = response[t].code
      BY <1>2 DEF Redirect, Responses
    <2>. QED
      BY <1>2, <2>1 DEF Redirect
  <1>3. ASSUME NEW t \in Threads, Serve(t) PROVE ResultInv'
    <2> DEFINE result == [status |-> response'[t].status, code |-> response'[t].code]
    <2>0. response[t] \in Responses /\ response[t].status = "OK" /\ response[t].code = 0
      BY <1>3 DEF Serve
    <2>1. CASE request[t].uri \in ForeignUris /\ response' = [response EXCEPT ![t].status = "INVALID_URI"]
      <3>1. result = [status |-> "INVALID_URI", code |-> 0]
        BY <2>0, <2>1 DEF Responses
      <3>. QED
        BY <1>3, <2>1, <3>1 DEF Serve, ForeignResults
    <2>2. CASE response' = [response EXCEPT ![t].status = "FILE_NOT_FOUND"]
      <3>1. result = [status |-> "FILE_NOT_FOUND", code |-> 0]
        BY <2>0, <2>2 DEF Responses
      <3>. QED
        BY <1>3, <2>2, <3>1 DEF Serve, FileResults
    <2>3. CASE response' = [response EXCEPT
                 ![t].code = IF response[t].location = NoUri THEN 200 ELSE 302,
                 ![t].body = request[t].uri]
      <3>1. response'[t].status = "OK" /\ response'[t].code \in {200, 302}
        BY <2>0, <2>3 DEF Responses
      <3>2. result \in FileResults
        BY <3>1 DEF FileResults
      <3>. QED
        BY <1>3, <2>3, <3>2 DEF Serve
    <2>. QED
      BY <1>3, <2>1, <2>2, <2>3 DEF Serve
  <1>4. ASSUME NEW t \in Threads, Return(t) PROVE ResultInv'
    BY <1>4 DEF Return, NewResponse
  <1>5. ASSUME NEW t \in Threads, Abort(t) PROVE ResultInv'
    BY <1>5 DEF Abort, NewResponse
  <1>6. ASSUME NEW t \in Threads, Call(t) \/ Clear(t) \/ Login(t) \/ CheckExpire(t) PROVE ResultInv'
    BY <1>6 DEF Call, Clear, Login, CheckExpire
  <1>7. ASSUME NEW t \in Threads, CheckFind(t) \/ CheckErase(t) \/ AddCookie(t) PROVE ResultInv'
    BY <1>7 DEF CheckFind, CheckErase, AddCookie, AddFind, AddErase, AddGen, AddInsert
  <1>8. CASE Tick \/ UNCHANGED vars
    BY <1>8 DEF Tick, vars
  <1>. QED
    BY <1>1, <1>2, <1>3, <1>4, <1>5, <1>6, <1>7, <1>8
    DEF Next, HandleRequest, CheckCookie

(***************************************************************************)
(* The session's model assumes of a StaticFileHandler what it keeps: a     *)
(* code with every OK, none with an error, INVALID_URI only for a URI      *)
(* without the prefix.                                                     *)
(***************************************************************************)
THEOREM KeepsResults == Spec => []ResultsAsPromised
  <1>1. Init => ResultInv
    BY DEF Init, ResultInv, NewResponse
  <1>2. ResultInv => ResultsAsPromised
    BY DEF ResultInv, ResultsAsPromised
  <1>. QED
    BY <1>1, <1>2, TypeInit, TypeStep, ResultStep, PTL DEF Spec

=============================================================================
