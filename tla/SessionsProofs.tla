--------------------------- MODULE SessionsProofs ---------------------------
(***************************************************************************)
(* Proofs about StaticFileHandler when no cookie is drawn twice or         *)
(* guessed: a live login is not turned away, a replaced or denied cookie   *)
(* leaves the map for good, and the handler implements LoginSessions.  All *)
(* hold for any number of threads, whatever they interleave.               *)
(***************************************************************************)
EXTENDS StaticFileHandlerProofs

(***************************************************************************)
(* A client presents a cookie that was granted to someone or that is older *)
(* than the process; a cookie about to be inserted is neither, and one     *)
(* thread's alone.                                                         *)
(***************************************************************************)
Known == {l.cookie : l \in logins} \cup OldCookies \cup {NoCookie}

DrawsNew ==
  /\ ~Collisions
  /\ retired \subseteq Known
  /\ \A t \in Threads : request[t].cookie \in Known
  /\ \A t \in Threads : pc[t] = "insert" => new_cookie[t] \notin Known
  /\ \A s, t \in Threads :
       pc[s] = "insert" /\ pc[t] = "insert" /\ new_cookie[s] = new_cookie[t] => s = t

(***************************************************************************)
(* What a frame of HandleRequest holds at the steps on the way to a        *)
(* verdict: an iterator points to the client's own cookie.                 *)
(***************************************************************************)
VerdictFrame(t) ==
  /\ pc[t] \in {"find", "expire", "erase", "deny"} => Gated(request[t])
  /\ pc[t] = "idle" => found[t] = End
  /\ pc[t] \in {"expire", "erase", "add_erase"} =>
       found[t] \in {request[t].cookie, End, Dangling}
  /\ pc[t] \in {"erase", "add_erase"} => found[t] # End
  /\ pc[t] \in {"add_find", "add_erase"} => request[t].cookie \in retired \cup {NoCookie}
  /\ pc[t] # "done" => response[t].setCookie # Expired
  /\ now_seconds[t] <= now

Frames == \A t \in Threads : VerdictFrame(t)

(***************************************************************************)
(* Without a race, the time of a login stands in the map, and in the hand  *)
(* of a thread that has looked it up, until the login is replaced or has   *)
(* expired.                                                                *)
(***************************************************************************)
Over(l) == l.cookie \in retired \/ now - l.at > Timeout
LiveInv ==
  ~ub => /\ \A l \in logins : Over(l) \/ cookie_map[l.cookie] = l.at
         /\ \A t \in Threads : pc[t] = "expire" =>
              \A l \in logins : l.cookie = request[t].cookie => Over(l) \/ cookie_time[t] = l.at
         /\ LiveCookieGranted

(***************************************************************************)
(* Without a race, a thread that has not found its client's cookie, or has *)
(* removed it, knows that it is not in the map.                            *)
(***************************************************************************)
Absent(t) ==
  \/ pc[t] = "expire" /\ found[t] = End
  \/ pc[t] = "deny"
  \/ pc[t] = "done" /\ response[t].setCookie = Expired
GoneInv ==
  ~ub => /\ \A t \in Threads : Absent(t) /\ request[t].cookie \in Cookies => ~InMap(request[t].cookie)
         /\ \A c \in Cookies : c \in retired /\ InMap(c) => Removing(c)

CookieInv == DrawsNew /\ Frames /\ LiveInv /\ GoneInv
-----------------------------------------------------------------------------
USE DEF shared, locals, history

LEMMA CookieInit == Init /\ ~Collisions => CookieInv
  <1> SUFFICES ASSUME Init, ~Collisions PROVE CookieInv
    OBVIOUS
  <1>1. DrawsNew
    BY NameAssumption DEF Init, DrawsNew, Known, NoRequest
  <1>2. Frames
    BY NameAssumption, ClockAssumption DEF Init, Frames, VerdictFrame, NewResponse
  <1>3. LiveInv /\ GoneInv
    BY NameAssumption DEF Init, LiveInv, LiveCookieGranted, GoneInv, Absent, InMap
  <1>. QED
    BY <1>1, <1>2, <1>3 DEF CookieInv

(***************************************************************************)
(* Only AddGen draws, only AddInsert makes a cookie known.                 *)
(***************************************************************************)
LEMMA DrawsStep == TypeInv /\ DrawsNew /\ [Next]_vars => DrawsNew'
  <1> SUFFICES ASSUME TypeInv, DrawsNew, [Next]_vars PROVE DrawsNew'
    OBVIOUS
  <1> USE DEF TypeInv, TypeOK, Goto
  <1>1. ASSUME NEW t \in Threads, Call(t) PROVE DrawsNew'
    <2>1. PICK r \in Requests : r.cookie \in Known /\ request' = [request EXCEPT ![t] = r]
      BY <1>1 DEF Call, DrawsNew, Known
    <2>2. \A s \in Threads : request'[s].cookie \in Known /\ (pc'[s] = "insert" => pc[s] = "insert")
      BY <1>1, <2>1 DEF Call, DrawsNew
    <2>. QED
      BY <1>1, <2>2 DEF Call, DrawsNew, Known
  <1>2. ASSUME NEW t \in Threads, Login(t) PROVE DrawsNew'
    BY <1>2 DEF Login, DrawsNew, Known
  <1>3. ASSUME NEW t \in Threads, AddGen(t) PROVE DrawsNew'
    <2>1. PICK c \in Draws : new_cookie' = [new_cookie EXCEPT ![t] = c]
      BY <1>3 DEF AddGen
    <2>2. c \notin Known /\ \A s \in Threads : new_cookie[s] # c
      BY <2>1, NameAssumption DEF Draws, Drawn, Known, DrawsNew
    <2>3. Known' = Known
      BY <1>3 DEF AddGen, Known
    <2>. QED
      BY <1>3, <2>1, <2>2, <2>3 DEF AddGen, DrawsNew
  <1>4. ASSUME NEW t \in Threads, AddInsert(t) PROVE DrawsNew'
    <2>1. PICK l : l.cookie = new_cookie[t] /\ logins' = logins \cup {l}
      BY <1>4 DEF AddInsert
    <2>2. Known' = Known \cup {new_cookie[t]}
      BY <2>1 DEF Known
    <2>. QED
      BY <1>4, <2>2 DEF AddInsert, DrawsNew
  <1>5. ASSUME NEW t \in Threads, Return(t) PROVE DrawsNew'
    BY <1>5 DEF Return, DrawsNew, Known, NoRequest
  <1>6. ASSUME NEW t \in Threads, Abort(t) PROVE DrawsNew'
    BY <1>6 DEF Abort, DrawsNew, Known, NoRequest
  <1>7. ASSUME NEW t \in Threads, CheckCookie(t) \/ AddFind(t) \/ AddErase(t) PROVE DrawsNew'
    BY <1>7 DEF CheckCookie, CheckFind, CheckExpire, CheckErase, Deny, AddFind, AddErase,
                DrawsNew, Known
  <1>8. ASSUME NEW t \in Threads, Redirect(t) \/ Clear(t) \/ Serve(t) PROVE DrawsNew'
    BY <1>8 DEF Redirect, Clear, Serve, DrawsNew, Known
  <1>9. CASE Tick \/ UNCHANGED vars
    BY <1>9 DEF Tick, vars, DrawsNew, Known
  <1>. QED
    BY <1>1, <1>2, <1>3, <1>4, <1>5, <1>6, <1>7, <1>8, <1>9 DEF Next, HandleRequest, AddCookie

(***************************************************************************)
(* A step of one thread leaves the frames of the others as they are, but   *)
(* for an iterator that it makes dangle.                                   *)
(***************************************************************************)
LEMMA OtherFrames ==
  ASSUME TypeInv, Frames, NEW t \in Threads, now <= now', retired \subseteq retired',
         \A s \in Threads \ {t} :
           /\ pc'[s] = pc[s] /\ request'[s] = request[s]
           /\ response'[s] = response[s] /\ now_seconds'[s] = now_seconds[s]
           /\ found'[s] = found[s] \/ (found[s] \in Cookies /\ found'[s] = Dangling),
         VerdictFrame(t)', now' \in Nat
  PROVE  Frames'
  <1> SUFFICES ASSUME NEW s \in Threads, s # t PROVE VerdictFrame(s)'
    BY DEF Frames
  <1>1. VerdictFrame(s)
    BY DEF Frames
  <1>2. now_seconds'[s] <= now'
    BY <1>1 DEF VerdictFrame, TypeInv, TypeOK
  <1>. QED
    BY <1>1, <1>2, NameAssumption DEF VerdictFrame, Gated

LEMMA FramesStep == TypeInv /\ Frames /\ [Next]_vars => Frames'
  <1> SUFFICES ASSUME TypeInv, Frames, [Next]_vars PROVE Frames'
    OBVIOUS
  <1> USE DEF TypeInv, TypeOK, FrameOK, Goto
  <1>0. \A t \in Threads : VerdictFrame(t)
    BY DEF Frames
  <1>a. Expired \notin Cookies \cup {NoCookie} /\ End # Dangling
    BY NameAssumption
  <1>1. ASSUME NEW t \in Threads, Call(t) PROVE Frames'
    <2>1. PICK r \in Requests :
            /\ request' = [request EXCEPT ![t] = r]
            /\ pc' = [pc EXCEPT ![t] = IF Gated(r)
                        THEN IF r.cookie = NoCookie THEN "expire" ELSE "find"
                        ELSE IF r.body = NoBody THEN "serve" ELSE "login"]
      BY <1>1 DEF Call
    <2>2. pc'[t] \in {"find", "expire"} => Gated(request[t])'
      BY <2>1 DEF Gated
    <2>3. pc[t] = "idle" /\ found'[t] \in {request'[t].cookie, End, Dangling}
      BY <1>0, <1>1, <2>1 DEF Call, VerdictFrame
    <2>4. VerdictFrame(t)'
      BY <1>0, <1>1, <2>1, <2>2, <2>3 DEF Call, VerdictFrame
    <2>. QED
      BY <1>1, <2>4, OtherFrames DEF Call
  <1>2. ASSUME NEW t \in Threads, CheckFind(t) PROVE Frames'
    <2>1. VerdictFrame(t)'
      BY <1>0, <1>2 DEF CheckFind, FindResults, VerdictFrame, Gated
    <2>. QED
      BY <1>2, <2>1, OtherFrames DEF CheckFind
  <1>3. ASSUME NEW t \in Threads, CheckExpire(t) PROVE Frames'
    <2>1. VerdictFrame(t)'
      BY <1>0, <1>3 DEF CheckExpire, VerdictFrame, Gated
    <2>. QED
      BY <1>3, <2>1, OtherFrames DEF CheckExpire
  <1>4. ASSUME NEW t \in Threads, CheckErase(t) PROVE Frames'
    <2>1. VerdictFrame(t)'
      BY <1>0, <1>4 DEF CheckErase, VerdictFrame, Gated
    <2>2. \A s \in Threads \ {t} :
            found'[s] = found[s] \/ (found[s] \in Cookies /\ found'[s] = Dangling)
      BY <1>4 DEF CheckErase, Erase
    <2>. QED
      BY <1>4, <2>1, <2>2, OtherFrames DEF CheckErase
  <1>5. ASSUME NEW t \in Threads, Deny(t) PROVE Frames'
    <2>1. VerdictFrame(t)'
      BY <1>0, <1>5 DEF Deny, VerdictFrame, Gated
    <2>. QED
      BY <1>5, <2>1, OtherFrames DEF Deny
  <1>6. ASSUME NEW t \in Threads, Login(t) PROVE Frames'
    <2>1. VerdictFrame(t)'
      BY <1>0, <1>6 DEF Login, VerdictFrame, Gated
    <2>. QED
      BY <1>6, <2>1, OtherFrames DEF Login
  <1>7. ASSUME NEW t \in Threads, AddFind(t) PROVE Frames'
    <2>1. VerdictFrame(t)'
      BY <1>0, <1>7 DEF AddFind, FindResults, VerdictFrame, Gated
    <2>. QED
      BY <1>7, <2>1, OtherFrames DEF AddFind
  <1>8. ASSUME NEW t \in Threads, AddErase(t) PROVE Frames'
    <2>1. VerdictFrame(t)'
      BY <1>0, <1>8 DEF AddErase, VerdictFrame, Gated
    <2>2. \A s \in Threads \ {t} :
            found'[s] = found[s] \/ (found[s] \in Cookies /\ found'[s] = Dangling)
      BY <1>8 DEF AddErase, Erase
    <2>. QED
      BY <1>8, <2>1, <2>2, OtherFrames DEF AddErase
  <1>9. ASSUME NEW t \in Threads, AddGen(t) PROVE Frames'
    <2>1. VerdictFrame(t)'
      BY <1>0, <1>9 DEF AddGen, VerdictFrame, Gated
    <2>. QED
      BY <1>9, <2>1, OtherFrames DEF AddGen
  <1>10. ASSUME NEW t \in Threads, AddInsert(t) PROVE Frames'
    <2>1. VerdictFrame(t)'
      BY <1>0, <1>10 DEF AddInsert, VerdictFrame, Gated
    <2>. QED
      BY <1>10, <2>1, OtherFrames DEF AddInsert
  <1>11. ASSUME NEW t \in Threads, Redirect(t) PROVE Frames'
    <2>1. response'[t].setCookie = new_cookie[t]
      BY <1>11 DEF Redirect, Responses
    <2>2. VerdictFrame(t)'
      BY <1>0, <1>a, <1>11, <2>1 DEF Redirect, VerdictFrame, Gated
    <2>. QED
      BY <1>11, <2>2, OtherFrames DEF Redirect
  <1>12. ASSUME NEW t \in Threads, Clear(t) PROVE Frames'
    <2>1. VerdictFrame(t)'
      BY <1>0, <1>12 DEF Clear, VerdictFrame, Gated
    <2>. QED
      BY <1>12, <2>1, OtherFrames DEF Clear
  <1>13. ASSUME NEW t \in Threads, Serve(t) PROVE Frames'
    <2>1. VerdictFrame(t)'
      BY <1>0, <1>13 DEF Serve, VerdictFrame, Gated
    <2>2. \A s \in Threads \ {t} : response'[s] = response[s]
      BY <1>13 DEF Serve
    <2>. QED
      BY <1>13, <2>1, <2>2, OtherFrames DEF Serve
  <1>14. ASSUME NEW t \in Threads, Return(t) PROVE Frames'
    <2>1. VerdictFrame(t)'
      BY <1>0, <1>a, <1>14 DEF Return, VerdictFrame, NewResponse
    <2>. QED
      BY <1>14, <2>1, OtherFrames DEF Return
  <1>15. ASSUME NEW t \in Threads, Abort(t) PROVE Frames'
    BY <1>a, <1>15 DEF Abort, Frames, VerdictFrame, NewResponse
  <1>16. CASE Tick
    BY <1>0, <1>16 DEF Tick, Frames, VerdictFrame, Gated
  <1>17. CASE UNCHANGED vars
    BY <1>0, <1>17 DEF vars, Frames, VerdictFrame, Gated
  <1>. QED
    BY <1>1, <1>2, <1>3, <1>4, <1>5, <1>6, <1>7, <1>8, <1>9, <1>10, <1>11, <1>12,
       <1>13, <1>14, <1>15, <1>16, <1>17
    DEF Next, HandleRequest, CheckCookie, AddCookie

(***************************************************************************)
(* An erase without a race removes the client's own cookie.                *)
(***************************************************************************)
LEMMA EraseOwn ==
  ASSUME TypeInv, Frames, NEW t \in Threads, pc[t] \in {"erase", "add_erase"}, Erase(t), ~ub'
  PROVE  /\ request[t].cookie \in Cookies
         /\ cookie_map' = [cookie_map EXCEPT ![request[t].cookie] = 0]
  <1>1. ~Racing(t) /\ found[t] # Dangling
    BY DEF Erase, TypeInv, TypeOK
  <1>2. found[t] \in Cookies
    BY <1>1 DEF Erase
  <1>3. found[t] = request[t].cookie
    BY <1>2, NameAssumption DEF Frames, VerdictFrame
  <1>. QED
    BY <1>1, <1>2, <1>3 DEF Erase

LEMMA FindOwn ==
  ASSUME TypeInv, NEW t \in Threads, NEW c \in Cookies \cup {NoCookie}, ~Racing(t),
         NEW f \in FindResults(t, c)
  PROVE  IF c \in Cookies /\ InMap(c) THEN f = c ELSE f = End
  BY DEF FindResults

(***************************************************************************)
(* Steps that make no login, start no check and reach no verdict.          *)
(***************************************************************************)
LEMMA LiveStable ==
  ASSUME TypeInv, now' \in Nat, LiveInv, logins' = logins, now <= now', retired \subseteq retired',
         ~ub' => ~ub,
         ~ub' => \A l \in logins : cookie_map'[l.cookie] = cookie_map[l.cookie] \/ Over(l)',
         \A s \in Threads : pc'[s] = "expire" =>
           \/ request'[s].cookie \notin Cookies
           \/ /\ pc[s] = "expire" /\ cookie_time'[s] = cookie_time[s]
              /\ request'[s].cookie = request[s].cookie,
         \A s \in Threads : pc'[s] \in {"erase", "deny"} =>
           /\ pc[s] \in {"erase", "deny"} /\ now_seconds'[s] = now_seconds[s]
           /\ request'[s].cookie = request[s].cookie
  PROVE  LiveInv'
  <1> SUFFICES ASSUME ~ub' PROVE LiveInv'
    BY DEF LiveInv
  <1>1. \A l \in logins : l.at \in Nat /\ l.cookie \in Cookies
    BY DEF TypeInv, TypeOK, Logins
  <1>2. \A l \in logins : Over(l) => Over(l)'
    <2> SUFFICES ASSUME NEW l \in logins, now - l.at > Timeout PROVE now' - l.at > Timeout
      BY DEF Over
    <2>. QED
      BY <1>1, ConfigAssumption DEF TypeInv, TypeOK
  <1>3. \A l \in logins' : Over(l)' \/ cookie_map'[l.cookie] = l.at
    BY <1>2 DEF LiveInv
  <1>4. ASSUME NEW s \in Threads, pc'[s] = "expire", NEW l \in logins, l.cookie = request'[s].cookie
        PROVE  Over(l)' \/ cookie_time'[s] = l.at
    BY <1>1, <1>2, <1>4 DEF LiveInv
  <1>5. LiveCookieGranted'
    BY DEF LiveInv, LiveCookieGranted
  <1>. QED
    BY <1>3, <1>4, <1>5 DEF LiveInv

LEMMA LiveStep == TypeInv /\ DrawsNew /\ Frames /\ LiveInv /\ [Next]_vars => LiveInv'
  <1> SUFFICES ASSUME TypeInv, DrawsNew, Frames, LiveInv, [Next]_vars, ~ub' PROVE LiveInv'
    BY DEF LiveInv
  <1> USE DEF TypeInv, TypeOK, Goto
  <1>0. NoCookie \notin Cookies
    BY NameAssumption
  <1>1. ASSUME NEW t \in Threads, Call(t) PROVE LiveInv'
    BY <1>0, <1>1, LiveStable DEF Call
  <1>2. ASSUME NEW t \in Threads, CheckFind(t) PROVE LiveInv'
    <2>1. ~ub /\ ~Racing(t)
      BY <1>2 DEF CheckFind
    <2>2. PICK f \in FindResults(t, request[t].cookie) :
            cookie_time' = [cookie_time EXCEPT ![t] = IF f = End THEN 0 ELSE cookie_map[f]]
      BY <1>2 DEF CheckFind
    <2>3. request[t].cookie \in Cookies => cookie_time'[t] = cookie_map[request[t].cookie]
      BY <2>1, <2>2, FindOwn, NameAssumption DEF InMap, Requests, NoRequest
    <2>4. \A l \in logins : l.cookie = request[t].cookie => Over(l) \/ cookie_time'[t] = l.at
      BY <2>1, <2>3 DEF LiveInv, Logins
    <2>5. \A s \in Threads : pc'[s] = "expire" =>
            \A l \in logins : l.cookie = request[s].cookie => Over(l) \/ cookie_time'[s] = l.at
      BY <1>2, <2>1, <2>2, <2>4 DEF CheckFind, LiveInv
    <2>6. LiveCookieGranted'
      BY <1>2, <2>1 DEF CheckFind, LiveInv, LiveCookieGranted
    <2>. QED
      BY <1>2, <2>1, <2>5, <2>6 DEF CheckFind, LiveInv, Over
  <1>3. ASSUME NEW t \in Threads, CheckExpire(t) PROVE LiveInv'
    <2>1. ~ub /\ pc[t] = "expire"
      BY <1>3 DEF CheckExpire
    <2>2. pc'[t] \in {"erase", "deny"} => now - cookie_time[t] > Timeout
      BY <1>3 DEF CheckExpire, TooOld
    <2>3. \A l \in logins : pc'[t] \in {"erase", "deny"} /\ l.cookie = request[t].cookie => Over(l)
      BY <2>1, <2>2 DEF LiveInv, Over
    <2>4. LiveCookieGranted'
      BY <1>3, <2>1, <2>3 DEF CheckExpire, LiveInv, LiveCookieGranted, Over
    <2>. QED
      BY <1>3, <2>1, <2>4 DEF CheckExpire, LiveInv, Over
  <1>4. ASSUME NEW t \in Threads, CheckErase(t) PROVE LiveInv'
    <2>1. pc[t] = "erase" /\ ~ub
      BY <1>4 DEF CheckErase, Erase
    <2>2. cookie_map' = [cookie_map EXCEPT ![request[t].cookie] = 0]
      BY <1>4, EraseOwn DEF CheckErase
    <2>3. \A l \in logins : l.cookie = request[t].cookie => Over(l)
      <3>1. now_seconds[t] <= now
        BY DEF Frames, VerdictFrame
      <3> SUFFICES ASSUME NEW l \in logins, now_seconds[t] - l.at > Timeout
                   PROVE now - l.at > Timeout
        BY <2>1 DEF LiveInv, LiveCookieGranted, Over
      <3>. QED
        BY <3>1, ConfigAssumption DEF Logins
    <2>. QED
      BY <1>4, <2>1, <2>2, <2>3, LiveStable DEF CheckErase, Over
  <1>5. ASSUME NEW t \in Threads, AddErase(t) PROVE LiveInv'
    <2>1. pc[t] = "add_erase" /\ ~ub
      BY <1>5 DEF AddErase, Erase
    <2>2. /\ request[t].cookie \in Cookies
          /\ cookie_map' = [cookie_map EXCEPT ![request[t].cookie] = 0]
      BY <1>5, EraseOwn DEF AddErase
    <2>3. request[t].cookie \in retired
      BY <1>0, <2>1, <2>2 DEF Frames, VerdictFrame
    <2>. QED
      BY <1>5, <2>1, <2>2, <2>3, LiveStable DEF AddErase, Over
  <1>6. ASSUME NEW t \in Threads, AddInsert(t) PROVE LiveInv'
    <2> DEFINE l == [cookie |-> new_cookie[t], at |-> now_seconds[t],
                     user |-> request[t].body.user, pass |-> request[t].body.pass]
    <2>1. /\ logins' = logins \cup {l} /\ retired' = retired /\ now' = now /\ ~ub /\ ~Racing(t)
          /\ pc[t] = "insert"
      BY <1>6 DEF AddInsert
    <2>2. cookie_map' = [cookie_map EXCEPT ![new_cookie[t]] = now_seconds[t]]
      BY <1>6, <2>1 DEF AddInsert
    <2>3. new_cookie[t] \notin Known /\ new_cookie[t] \in Cookies
      BY <2>1 DEF DrawsNew, FrameOK
    <2>4. \A k \in logins : k.cookie # new_cookie[t] /\ k.cookie \in Cookies
      BY <2>3 DEF Known, Logins
    <2>5. \A s \in Threads : request[s].cookie # new_cookie[t]
      BY <2>3 DEF DrawsNew
    <2>6. cookie_map'[l.cookie] = l.at
      BY <2>2, <2>3
    <2>7. \A k \in logins : cookie_map'[k.cookie] = cookie_map[k.cookie]
      BY <2>2, <2>4
    <2>8. \A k \in logins' : Over(k)' \/ cookie_map'[k.cookie] = k.at
      BY <2>1, <2>6, <2>7 DEF LiveInv, Over
    <2>9. \A s \in Threads : l.cookie # request'[s].cookie
      BY <1>6, <2>5 DEF AddInsert
    <2> HIDE DEF l
    <2>10. LiveCookieGranted'
      BY <1>6, <2>1, <2>9 DEF AddInsert, LiveInv, LiveCookieGranted
    <2>11. ASSUME NEW s \in Threads, pc'[s] = "expire", NEW k \in logins',
                  k.cookie = request'[s].cookie
           PROVE  Over(k)' \/ cookie_time'[s] = k.at
      BY <1>6, <2>1, <2>9, <2>11 DEF AddInsert, LiveInv, Over
    <2>. QED
      BY <2>8, <2>10, <2>11 DEF LiveInv
  <1>7. ASSUME NEW t \in Threads, Deny(t) \/ Login(t) \/ AddFind(t) \/ AddGen(t) PROVE LiveInv'
    BY <1>7, LiveStable DEF Deny, Login, AddFind, AddGen
  <1>8. ASSUME NEW t \in Threads, Redirect(t) \/ Clear(t) \/ Serve(t) \/ Return(t) PROVE LiveInv'
    BY <1>8, LiveStable DEF Redirect, Clear, Serve, Return
  <1>9. ASSUME NEW t \in Threads, Abort(t) PROVE LiveInv'
    BY <1>9 DEF Abort
  <1>10. CASE Tick \/ UNCHANGED vars
    BY <1>10, LiveStable DEF Tick, vars
  <1>. QED
    BY <1>1, <1>2, <1>3, <1>4, <1>5, <1>6, <1>7, <1>8, <1>9, <1>10
    DEF Next, HandleRequest, CheckCookie, AddCookie

(***************************************************************************)
(* Steps that insert nothing and retire nothing: who says that a cookie is *)
(* absent has said so before or is right, and who was removing a cookie    *)
(* still is or has done so.                                                *)
(***************************************************************************)
Busy == {"add_find", "add_erase", "erase"}

LEMMA GoneStable ==
  ASSUME GoneInv, retired' = retired, ~ub' => ~ub,
         \A c \in Cookies : InMap(c)' => InMap(c),
         ~ub' => \A s \in Threads : Absent(s)' =>
           \/ Absent(s) /\ request'[s].cookie = request[s].cookie
           \/ request'[s].cookie \in Cookies => cookie_map'[request'[s].cookie] = 0,
         ~ub' => \A s \in Threads : pc[s] \in Busy =>
           \/ pc'[s] \in Busy /\ request'[s].cookie = request[s].cookie
           \/ request[s].cookie \in Cookies => cookie_map'[request[s].cookie] = 0
  PROVE  GoneInv'
  <1> SUFFICES ASSUME ~ub' PROVE GoneInv'
    BY DEF GoneInv
  <1>1. ASSUME NEW s \in Threads, Absent(s)', request'[s].cookie \in Cookies
        PROVE  cookie_map'[request'[s].cookie] = 0
    BY <1>1 DEF GoneInv, InMap
  <1>2. ASSUME NEW c \in Cookies, c \in retired, InMap(c)' PROVE Removing(c)'
    <2>1. PICK s \in Threads : request[s].cookie = c /\ pc[s] \in Busy
      BY <1>2 DEF GoneInv, Removing, Busy
    <2>. QED
      BY <1>2, <2>1 DEF Removing, Busy, InMap
  <1>. QED
    BY <1>1, <1>2 DEF GoneInv, InMap

LEMMA GoneStep == TypeInv /\ DrawsNew /\ Frames /\ GoneInv /\ [Next]_vars => GoneInv'
  <1> SUFFICES ASSUME TypeInv, DrawsNew, Frames, GoneInv, [Next]_vars, ~ub' PROVE GoneInv'
    BY DEF GoneInv
  <1> USE DEF TypeInv, TypeOK, Goto
  <1>0. NoCookie \notin Cookies /\ Expired \notin Cookies \cup {NoCookie}
    BY NameAssumption
  <1>1. ASSUME NEW t \in Threads, Call(t) PROVE GoneInv'
    <2>1. PICK r \in Requests :
            /\ request' = [request EXCEPT ![t] = r]
            /\ pc[t] = "idle"
            /\ pc' = [pc EXCEPT ![t] = IF Gated(r)
                        THEN IF r.cookie = NoCookie THEN "expire" ELSE "find"
                        ELSE IF r.body = NoBody THEN "serve" ELSE "login"]
      BY <1>1 DEF Call
    <2>2. Absent(t)' => request'[t].cookie = NoCookie
      BY <1>1, <2>1 DEF Call, Absent
    <2>3. \A s \in Threads \ {t} : Absent(s)' => Absent(s) /\ request'[s].cookie = request[s].cookie
      BY <1>1, <2>1 DEF Call, Absent
    <2>4. \A s \in Threads : pc[s] \in Busy => pc'[s] \in Busy /\ request'[s].cookie = request[s].cookie
      BY <2>1 DEF Busy
    <2>. QED
      BY <1>0, <1>1, <2>2, <2>3, <2>4, GoneStable DEF Call, InMap
  <1>2. ASSUME NEW t \in Threads, CheckFind(t) PROVE GoneInv'
    <2>0. request[t].cookie \in Cookies \cup {NoCookie}
      BY DEF Requests, NoRequest
    <2>1. ~Racing(t) /\ ~ub
      BY <1>2 DEF CheckFind
    <2>2. PICK f \in FindResults(t, request[t].cookie) : found' = [found EXCEPT ![t] = f]
      BY <1>2 DEF CheckFind
    <2>3. f = End /\ request[t].cookie \in Cookies => ~InMap(request[t].cookie)
      BY <2>0, <2>1, FindOwn, NameAssumption
    <2>4. Absent(t)' => f = End
      BY <1>2, <2>2 DEF CheckFind, Absent
    <2>5. \A s \in Threads \ {t} : Absent(s)' => Absent(s)
      BY <1>2 DEF CheckFind, Absent
    <2>. QED
      BY <1>2, <2>3, <2>4, <2>5, GoneStable DEF CheckFind, InMap, Busy
  <1>3. ASSUME NEW t \in Threads, CheckExpire(t) PROVE GoneInv'
    BY <1>3, GoneStable DEF CheckExpire, InMap, Absent, Busy
  <1>4. ASSUME NEW t \in Threads, CheckErase(t) \/ AddErase(t) PROVE GoneInv'
    <2>1. Erase(t) /\ pc[t] \in {"erase", "add_erase"}
      BY <1>4 DEF CheckErase, AddErase
    <2>2. /\ request[t].cookie \in Cookies
          /\ cookie_map' = [cookie_map EXCEPT ![request[t].cookie] = 0]
      BY <2>1, EraseOwn
    <2>3. \A c \in Cookies : InMap(c)' => InMap(c)
      BY <2>2 DEF InMap
    <2>4. cookie_map'[request[t].cookie] = 0
      BY <2>2
    <2>5. \A s \in Threads \ {t} : found'[s] = End => found[s] = End
      BY <2>1, NameAssumption DEF Erase
    <2>6. \A s \in Threads \ {t} : Absent(s)' => Absent(s)
      BY <1>4, <2>5 DEF CheckErase, AddErase, Absent
    <2>7. request' = request /\ retired' = retired /\ ~ub
      BY <1>4, <2>1 DEF CheckErase, AddErase, Erase
    <2>8. \A s \in Threads \ {t} : pc'[s] = pc[s]
      BY <1>4 DEF CheckErase, AddErase
    <2>. QED
      BY <2>3, <2>4, <2>6, <2>7, <2>8, GoneStable
  <1>5. ASSUME NEW t \in Threads, Deny(t) PROVE GoneInv'
    BY <1>5, GoneStable DEF Deny, InMap, Absent, Busy
  <1>6. ASSUME NEW t \in Threads, Login(t) PROVE GoneInv'
    <2>1. \A s \in Threads : Absent(s)' => Absent(s)
      BY <1>6 DEF Login, Absent
    <2>2. ~ub /\ request' = request /\ cookie_map' = cookie_map
      BY <1>6 DEF Login
    <2>3. ASSUME NEW c \in Cookies, c \in retired', InMap(c) PROVE Removing(c)'
      <3>1. CASE c \in retired
        BY <1>6, <2>2, <2>3, <3>1 DEF Login, GoneInv, Removing
      <3>2. CASE c \notin retired
        BY <1>6, <2>3, <3>2 DEF Login, Removing
      <3>. QED
        BY <3>1, <3>2
    <2>. QED
      BY <2>1, <2>2, <2>3 DEF GoneInv, InMap
  <1>7. ASSUME NEW t \in Threads, AddFind(t) PROVE GoneInv'
    <2>0. request[t].cookie \in Cookies \cup {NoCookie}
      BY DEF Requests, NoRequest
    <2>1. ~Racing(t) /\ ~ub
      BY <1>7 DEF AddFind
    <2>2. PICK f \in FindResults(t, request[t].cookie) :
            pc' = [pc EXCEPT ![t] = IF f = End THEN "gen" ELSE "add_erase"]
      BY <1>7 DEF AddFind
    <2>3. f = End /\ request[t].cookie \in Cookies => ~InMap(request[t].cookie)
      BY <2>0, <2>1, FindOwn, NameAssumption
    <2>4. \A s \in Threads : Absent(s)' => Absent(s)
      BY <1>7 DEF AddFind, Absent
    <2>. QED
      BY <1>7, <2>2, <2>3, <2>4, GoneStable DEF AddFind, InMap, Busy
  <1>8. ASSUME NEW t \in Threads, AddGen(t) \/ Clear(t) PROVE GoneInv'
    BY <1>8, GoneStable DEF AddGen, Clear, InMap, Absent, Busy
  <1>9. ASSUME NEW t \in Threads, AddInsert(t) PROVE GoneInv'
    <2>1. /\ pc[t] = "insert" /\ ~ub /\ request' = request /\ retired' = retired
          /\ cookie_map' = [cookie_map EXCEPT ![new_cookie[t]] = now_seconds[t]]
      BY <1>9 DEF AddInsert
    <2>2. new_cookie[t] \notin Known
      BY <2>1 DEF DrawsNew
    <2>3. \A c \in Cookies \cap Known : InMap(c)' <=> InMap(c)
      BY <2>1, <2>2 DEF InMap
    <2>4. \A s \in Threads : Absent(s)' => Absent(s)
      BY <1>9 DEF AddInsert, Absent
    <2>5. ASSUME NEW c \in Cookies, c \in retired, InMap(c)' PROVE Removing(c)'
      <3>1. Removing(c)
        BY <2>1, <2>3, <2>5 DEF GoneInv, DrawsNew
      <3>. QED
        BY <1>9, <2>1, <3>1 DEF AddInsert, Removing
    <2>6. ASSUME NEW s \in Threads, Absent(s)', request[s].cookie \in Cookies
          PROVE  cookie_map'[request[s].cookie] = 0
      BY <2>1, <2>3, <2>4, <2>6 DEF GoneInv, DrawsNew, InMap
    <2>. QED
      BY <2>1, <2>5, <2>6 DEF GoneInv, InMap
  <1>10. ASSUME NEW t \in Threads, Redirect(t) PROVE GoneInv'
    <2>1. \A s \in Threads : Absent(s)' => Absent(s)
      <3>1. \A s \in Threads \ {t} : response'[s] = response[s] /\ pc'[s] = pc[s]
        BY <1>10 DEF Redirect
      <3>. QED
        BY <1>10, <3>1 DEF Redirect, Absent
    <2>. QED
      BY <1>10, <2>1, GoneStable DEF Redirect, InMap, Busy
  <1>11. ASSUME NEW t \in Threads, Serve(t) PROVE GoneInv'
    <2>1. response'[t].setCookie = response[t].setCookie
      BY <1>11 DEF Serve, Responses
    <2>2. response[t].setCookie # Expired
      BY <1>11 DEF Serve, Frames, VerdictFrame
    <2>3. \A s \in Threads \ {t} : response'[s] = response[s] /\ pc'[s] = pc[s]
      BY <1>11 DEF Serve
    <2>4. \A s \in Threads : Absent(s)' => Absent(s)
      BY <1>11, <2>1, <2>2, <2>3 DEF Serve, Absent
    <2>. QED
      BY <1>11, <2>4, GoneStable DEF Serve, InMap, Busy
  <1>12. ASSUME NEW t \in Threads, Return(t) PROVE GoneInv'
    <2>1. \A s \in Threads : Absent(s)' => s # t /\ Absent(s)
      BY <1>12 DEF Return, Absent
    <2>. QED
      BY <1>12, <2>1, GoneStable DEF Return, InMap, Busy
  <1>13. ASSUME NEW t \in Threads, Abort(t) PROVE GoneInv'
    BY <1>13 DEF Abort
  <1>14. CASE Tick \/ UNCHANGED vars
    BY <1>14, GoneStable DEF Tick, vars, InMap, Absent
  <1>. QED
    BY <1>1, <1>2, <1>3, <1>4, <1>5, <1>6, <1>7, <1>8, <1>9, <1>10, <1>11, <1>12,
       <1>13, <1>14
    DEF Next, HandleRequest, CheckCookie, AddCookie

LEMMA CookieStep == TypeInv /\ CookieInv /\ [Next]_vars => CookieInv'
BY DrawsStep, FramesStep, LiveStep, GoneStep DEF CookieInv

(***************************************************************************)
(* No interleaving turns away a client whose login is live.                *)
(***************************************************************************)
THEOREM LiveCookiesGranted == Spec /\ ~Collisions => []LiveCookieGranted
  <1>1. CookieInv => LiveCookieGranted
    BY DEF CookieInv, LiveInv, LiveCookieGranted
  <1>. QED
    BY <1>1, TypeInit, TypeStep, CookieInit, CookieStep, PTL DEF Spec

(***************************************************************************)
(* A replaced or denied cookie leaves the map and never comes back.        *)
(***************************************************************************)
THEOREM OldCookiesDeleted == Spec /\ ~Collisions => []OldCookieDeleted
  <1>1. CookieInv => OldCookieDeleted
    BY DEF CookieInv, GoneInv, OldCookieDeleted, Absent
  <1>. QED
    BY <1>1, TypeInit, TypeStep, CookieInit, CookieStep, PTL DEF Spec

-----------------------------------------------------------------------------
(***************************************************************************)
(* The refinement: what a step does to the phases and to the cookies about *)
(* to be granted, from which the step of LoginSessions follows.            *)
(***************************************************************************)
phases == [t \in Threads |-> Phase(t)]
drawing == [t \in Threads |-> IF pc[t] = "insert" THEN new_cookie[t] ELSE NoCookie]
stamping == [t \in Threads |-> IF pc[t] = "insert" THEN now_seconds[t] ELSE 0]
presenting == [t \in Threads |-> request[t].cookie]
granted == {[cookie |-> l.cookie, at |-> l.at] : l \in logins}

LEMMA OtherPhases ==
  ASSUME NEW t \in Threads,
         \A s \in Threads \ {t} : /\ pc'[s] = pc[s] /\ request'[s] = request[s]
                                  /\ response'[s].setCookie = response[s].setCookie
  PROVE  \A s \in Threads \ {t} : Phase(s)' = Phase(s)
  BY DEF Phase, Gated

LEMMA PhaseMoves ==
  ASSUME NEW t \in Threads, \A s \in Threads \ {t} : Phase(s)' = Phase(s), NEW to, Phase(t)' = to
  PROVE  phases' = [phases EXCEPT ![t] = to]
  BY DEF phases

(***************************************************************************)
(* A step no client of LoginSessions can tell.                             *)
(***************************************************************************)
LEMMA Unseen ==
  ASSUME TypeInv, phases' = phases, presenting' = presenting, drawing' = drawing,
         stamping' = stamping, logins' = logins, retired' = retired, now' = now, ub' \in {ub, TRUE}
  PROVE  [Sessions!Next]_Sessions!vars
  <1>1. CASE ub' = ub
    BY <1>1 DEF Sessions!vars, phases, presenting, drawing, stamping
  <1>2. CASE ub' = TRUE
    BY <1>2 DEF Sessions!Next, Sessions!Break, phases, presenting, drawing, stamping
  <1>. QED
    BY <1>1, <1>2

LEMMA Simulation == TypeInv /\ IInv /\ CookieInv /\ [Next]_vars => [Sessions!Next]_Sessions!vars
  <1> SUFFICES ASSUME TypeInv, IInv, CookieInv, [Next]_vars PROVE [Sessions!Next]_Sessions!vars
    OBVIOUS
  <1> USE DEF TypeInv, TypeOK, Goto
  <1>1. ASSUME NEW t \in Threads, Call(t) PROVE Sessions!Arrive(t)
    <2>1. PICK r \in Requests :
            /\ request' = [request EXCEPT ![t] = r]
            /\ pc[t] = "idle"
            /\ pc' = [pc EXCEPT ![t] = IF Gated(r)
                        THEN IF r.cookie = NoCookie THEN "expire" ELSE "find"
                        ELSE IF r.body = NoBody THEN "serve" ELSE "login"]
      BY <1>1 DEF Call
    <2>2. Phase(t) = "away" /\ Phase(t)' \in {"asking", "open", "submitting"}
      BY <2>1 DEF Phase, Gated
    <2>3. phases' = [phases EXCEPT ![t] = Phase(t)']
      BY <1>1, <2>1, OtherPhases, PhaseMoves DEF Call
    <2>4. presenting' = [presenting EXCEPT ![t] = r.cookie] /\ r.cookie \in Cookies \cup {NoCookie}
      BY <2>1 DEF presenting, Requests
    <2>5. drawing' = drawing /\ stamping' = stamping
      BY <1>1, <2>1 DEF Call, drawing, stamping
    <2>. QED
      BY <1>1, <2>2, <2>3, <2>4, <2>5
      DEF Call, Sessions!Arrive, Sessions!Move, phases, presenting, drawing, stamping
  <1>2. ASSUME NEW t \in Threads, CheckFind(t) PROVE [Sessions!Next]_Sessions!vars
    <2>1. Phase(t)' = Phase(t)
      BY <1>2 DEF CheckFind, Phase
    <2>2. phases' = phases
      BY <1>2, <2>1, OtherPhases DEF CheckFind, phases
    <2>. QED
      BY <1>2, <2>2, Unseen DEF CheckFind, presenting, drawing, stamping
  <1>3. ASSUME NEW t \in Threads, CheckExpire(t) PROVE Sessions!Admit(t) \/ Sessions!TurnAway(t)
    <2>1. Phase(t) = "asking" /\ Gated(request[t]) /\ response[t].setCookie # Expired
      BY <1>3 DEF CheckExpire, Phase, CookieInv, Frames, VerdictFrame
    <2>2. presenting' = presenting /\ drawing' = drawing /\ stamping' = stamping
      BY <1>3 DEF CheckExpire, presenting, drawing, stamping
    <2>3. CASE TooOld(t)
      <3>1. Phase(t)' = "denied"
        BY <1>3, <2>3 DEF CheckExpire, Phase
      <3>2. phases' = [phases EXCEPT ![t] = "denied"]
        BY <1>3, <3>1, OtherPhases, PhaseMoves DEF CheckExpire
      <3>3. \A l \in logins : l.cookie = request[t].cookie =>
              ub \/ request[t].cookie \in retired \/ now - l.at > Timeout
        BY <1>3, <2>3 DEF CheckExpire, CookieInv, LiveInv, Over, TooOld
      <3>4. \A g \in granted : g.cookie = presenting[t] =>
              ub \/ presenting[t] \in retired \/ ~(now - g.at <= Timeout)
        <4>1. \A l \in logins : now - l.at > Timeout => ~(now - l.at <= Timeout)
          BY ConfigAssumption DEF Logins
        <4>. QED
          BY <3>3, <4>1 DEF granted, presenting
      <3>5. Sessions!TurnAway(t)
        BY <1>3, <2>1, <2>2, <3>2, <3>4
        DEF CheckExpire, Sessions!TurnAway, Sessions!Move, Sessions!GrantsOf, Sessions!Fresh,
            phases, presenting, drawing, stamping, granted
      <3>. QED
        BY <3>5
    <2>4. CASE ~TooOld(t)
      <3>1. Phase(t)' = "admitted"
        BY <1>3, <2>1, <2>4 DEF CheckExpire, Phase, Gated
      <3>2. phases' = [phases EXCEPT ![t] = "admitted"]
        BY <1>3, <3>1, OtherPhases, PhaseMoves DEF CheckExpire
      <3>3. cookie_time[t] # 0 /\ pc[t] = "expire"
        BY <1>3, <2>4, ClockAssumption, ConfigAssumption DEF CheckExpire, IInv, ClockOK, TooOld
      <3>4. PICK l \in logins : l.cookie = request[t].cookie /\ l.at = cookie_time[t]
        BY <3>3 DEF IInv, TimesFromLogins
      <3>5. now - l.at <= Timeout
        BY <2>4, <3>4, ConfigAssumption DEF TooOld
      <3>6. \E g \in granted : g.cookie = presenting[t] /\ now - g.at <= Timeout
        <4>1. [cookie |-> l.cookie, at |-> l.at] \in granted
          BY DEF granted
        <4>. QED
          BY <3>4, <3>5, <4>1 DEF presenting
      <3>7. Sessions!Admit(t)
        BY <1>3, <2>1, <2>2, <3>2, <3>6
        DEF CheckExpire, Sessions!Admit, Sessions!Move, Sessions!GrantsOf, Sessions!Fresh,
            phases, presenting, drawing, stamping, granted
      <3>. QED
        BY <3>7
    <2>. QED
      BY <2>3, <2>4
  <1>4. ASSUME NEW t \in Threads, CheckErase(t) PROVE [Sessions!Next]_Sessions!vars
    <2>1. Phase(t)' = Phase(t) /\ ub' \in {ub, TRUE}
      BY <1>4 DEF CheckErase, Erase, Phase
    <2>2. phases' = phases
      BY <1>4, <2>1, OtherPhases DEF CheckErase, phases
    <2>. QED
      BY <1>4, <2>1, <2>2, Unseen DEF CheckErase, presenting, drawing, stamping
  <1>5. ASSUME NEW t \in Threads, Deny(t) PROVE [Sessions!Next]_Sessions!vars
    <2>1. Phase(t)' = Phase(t)
      BY <1>5 DEF Deny, Phase, CookieInv, Frames, VerdictFrame, Gated
    <2>2. phases' = phases
      BY <1>5, <2>1, OtherPhases DEF Deny, phases
    <2>. QED
      BY <1>5, <2>2, Unseen DEF Deny, presenting, drawing, stamping
  <1>6. ASSUME NEW t \in Threads, Login(t) PROVE Sessions!Accept(t) \/ Sessions!Reject(t)
    <2>1. Phase(t) = "submitting"
      BY <1>6 DEF Login, Phase
    <2>2. presenting' = presenting /\ drawing' = drawing /\ stamping' = stamping
      BY <1>6 DEF Login, presenting, drawing, stamping
    <2>3. Phase(t)' = IF Valid(request[t].body) THEN "granting" ELSE "open"
      BY <1>6 DEF Login, Phase
    <2>4. phases' = [phases EXCEPT ![t] = Phase(t)']
      BY <1>6, OtherPhases, PhaseMoves DEF Login
    <2>5. CASE Valid(request[t].body)
      BY <1>6, <2>1, <2>2, <2>3, <2>4, <2>5
      DEF Login, Sessions!Accept, Sessions!Move, phases, presenting, drawing, stamping
    <2>6. CASE ~Valid(request[t].body)
      BY <1>6, <2>1, <2>2, <2>3, <2>4, <2>6
      DEF Login, Sessions!Reject, Sessions!Move, phases, presenting, drawing, stamping
    <2>. QED
      BY <2>5, <2>6
  <1>7. ASSUME NEW t \in Threads, AddFind(t) PROVE [Sessions!Next]_Sessions!vars
    <2>1. Phase(t)' = Phase(t)
      BY <1>7 DEF AddFind, Phase
    <2>2. phases' = phases
      BY <1>7, <2>1, OtherPhases DEF AddFind, phases
    <2>. QED
      BY <1>7, <2>2, Unseen DEF AddFind, presenting, drawing, stamping
  <1>8. ASSUME NEW t \in Threads, AddErase(t) PROVE [Sessions!Next]_Sessions!vars
    <2>1. Phase(t)' = Phase(t) /\ ub' \in {ub, TRUE}
      BY <1>8 DEF AddErase, Erase, Phase
    <2>2. phases' = phases
      BY <1>8, <2>1, OtherPhases DEF AddErase, phases
    <2>. QED
      BY <1>8, <2>1, <2>2, Unseen DEF AddErase, presenting, drawing, stamping
  <1>9. ASSUME NEW t \in Threads, AddGen(t) PROVE Sessions!Draw(t)
    <2>1. PICK c \in Draws : new_cookie' = [new_cookie EXCEPT ![t] = c]
      BY <1>9 DEF AddGen
    <2>2. c \in Cookies /\ c # NoCookie /\ (\A l \in logins : l.cookie # c)
          /\ \A s \in Threads : new_cookie[s] # c
      BY <2>1, NameAssumption DEF Draws, Drawn, CookieInv, DrawsNew
    <2>3. Phase(t) = "granting" /\ Phase(t)' = "drawn"
      BY <1>9 DEF AddGen, Phase
    <2>4. phases' = [phases EXCEPT ![t] = "drawn"]
      BY <1>9, <2>3, OtherPhases, PhaseMoves DEF AddGen
    <2>5. drawing' = [drawing EXCEPT ![t] = c] /\ stamping' = [stamping EXCEPT ![t] = now]
      BY <1>9, <2>1 DEF AddGen, drawing, stamping
    <2>6. (\A g \in granted : g.cookie # c) /\ \A s \in Threads : drawing[s] # c
      BY <2>2 DEF granted, drawing
    <2>7. presenting' = presenting /\ ub' \in {ub, TRUE}
      BY <1>9 DEF AddGen, presenting
    <2>. QED
      BY <1>9, <2>2, <2>3, <2>4, <2>5, <2>6, <2>7
      DEF AddGen, Sessions!Draw, Sessions!Move, Sessions!MayBreak,
          phases, presenting, drawing, stamping, granted
  <1>10. ASSUME NEW t \in Threads, AddInsert(t) PROVE Sessions!Grant(t)
    <2>1. Phase(t) = "drawn" /\ Phase(t)' = "open"
      BY <1>10 DEF AddInsert, Phase
    <2>2. phases' = [phases EXCEPT ![t] = "open"]
      BY <1>10, <2>1, OtherPhases, PhaseMoves DEF AddInsert
    <2>3. granted' = granted \cup {[cookie |-> drawing[t], at |-> stamping[t]]}
      <3>1. PICK l : /\ l.cookie = new_cookie[t] /\ l.at = now_seconds[t]
                     /\ logins' = logins \cup {l}
        BY <1>10 DEF AddInsert
      <3>2. drawing[t] = new_cookie[t] /\ stamping[t] = now_seconds[t]
        BY <1>10 DEF AddInsert, drawing, stamping
      <3>. QED
        BY <3>1, <3>2 DEF granted
    <2>4. drawing' = [drawing EXCEPT ![t] = NoCookie] /\ stamping' = [stamping EXCEPT ![t] = 0]
      BY <1>10 DEF AddInsert, drawing, stamping
    <2>5. presenting' = presenting /\ ub' \in {ub, TRUE}
      BY <1>10 DEF AddInsert, presenting
    <2>. QED
      BY <1>10, <2>1, <2>2, <2>3, <2>4, <2>5
      DEF AddInsert, Sessions!Grant, Sessions!Move, Sessions!MayBreak,
          phases, presenting, drawing, stamping, granted
  <1>11. ASSUME NEW t \in Threads, Redirect(t) PROVE [Sessions!Next]_Sessions!vars
    <2>1. Phase(t)' = Phase(t)
      BY <1>11 DEF Redirect, Phase
    <2>2. \A s \in Threads \ {t} : response'[s] = response[s]
      BY <1>11 DEF Redirect
    <2>3. phases' = phases
      BY <1>11, <2>1, <2>2, OtherPhases DEF Redirect, phases
    <2>. QED
      BY <1>11, <2>3, Unseen DEF Redirect, presenting, drawing, stamping
  <1>12. ASSUME NEW t \in Threads, Clear(t) PROVE [Sessions!Next]_Sessions!vars
    <2>1. request[t].uri = LoginUri
      BY <1>12 DEF Clear, FrameOK
    <2>2. Phase(t)' = Phase(t)
      BY <1>12, <2>1 DEF Clear, Phase, Gated
    <2>3. phases' = phases
      BY <1>12, <2>2, OtherPhases DEF Clear, phases
    <2>. QED
      BY <1>12, <2>3, Unseen DEF Clear, presenting, drawing, stamping
  <1>13. ASSUME NEW t \in Threads, Serve(t) PROVE [Sessions!Next]_Sessions!vars
    <2>1. response'[t].setCookie = response[t].setCookie
      BY <1>13 DEF Serve, Responses
    <2>2. Phase(t)' = Phase(t)
      BY <1>13, <2>1 DEF Serve, Phase, Gated
    <2>3. \A s \in Threads \ {t} : response'[s] = response[s]
      BY <1>13 DEF Serve
    <2>4. phases' = phases
      BY <1>13, <2>2, <2>3, OtherPhases DEF Serve, phases
    <2>. QED
      BY <1>13, <2>4, Unseen DEF Serve, presenting, drawing, stamping
  <1>14. ASSUME NEW t \in Threads, Return(t) PROVE Sessions!Leave(t)
    <2>1. Phase(t) \in {"admitted", "denied", "open"} /\ Phase(t)' = "away"
      BY <1>14 DEF Return, Phase
    <2>2. phases' = [phases EXCEPT ![t] = "away"]
      BY <1>14, <2>1, OtherPhases, PhaseMoves DEF Return
    <2>3. presenting' = [presenting EXCEPT ![t] = NoCookie]
      BY <1>14 DEF Return, presenting, NoRequest
    <2>4. drawing' = drawing /\ stamping' = stamping
      BY <1>14 DEF Return, drawing, stamping
    <2>. QED
      BY <1>14, <2>1, <2>2, <2>3, <2>4
      DEF Return, Sessions!Leave, phases, presenting, drawing, stamping
  <1>15. ASSUME NEW t \in Threads, Abort(t) PROVE Sessions!Crash
    <2>1. phases' = [s \in Threads |-> "away"]
      BY <1>15 DEF Abort, phases, Phase
    <2>2. /\ presenting' = [s \in Threads |-> NoCookie]
          /\ drawing' = [s \in Threads |-> NoCookie]
          /\ stamping' = [s \in Threads |-> 0]
      BY <1>15 DEF Abort, presenting, drawing, stamping, NoRequest
    <2>. QED
      BY <1>15, <2>1, <2>2 DEF Abort, Sessions!Crash, phases, presenting, drawing, stamping
  <1>16. CASE Tick
    <2>1. \A t \in Threads : Phase(t)' = Phase(t)
      BY <1>16 DEF Tick, Phase, Gated
    <2>2. Sessions!Tick
      BY <1>16, <2>1 DEF Tick, Sessions!Tick
    <2>. QED
      BY <2>2 DEF Sessions!Next
  <1>17. CASE UNCHANGED vars
    <2>1. \A t \in Threads : Phase(t)' = Phase(t)
      BY <1>17 DEF vars, Phase, Gated
    <2>. QED
      BY <1>17, <2>1 DEF vars, Sessions!vars
  <1>. QED
    BY <1>1, <1>2, <1>3, <1>4, <1>5, <1>6, <1>7, <1>8, <1>9, <1>10, <1>11, <1>12,
       <1>13, <1>14, <1>15, <1>16, <1>17
    DEF Next, HandleRequest, CheckCookie, AddCookie, Sessions!Next

(***************************************************************************)
(* The handler's accesses to the map, one by one and interleaved in any    *)
(* way, add up to the logins, admissions and refusals of LoginSessions.    *)
(***************************************************************************)
THEOREM ImplementsLoginSessions == Spec /\ ~Collisions => KeepsPromise
  <1>1. Init => Sessions!Init
    BY DEF Init, Sessions!Init, Phase, NoRequest
  <1>. QED
    BY <1>1, TypeInit, TypeStep, IInit, IStep, CookieInit, CookieStep, Simulation, PTL
    DEF Spec, KeepsPromise, Sessions!Spec
=============================================================================
