------------------------ MODULE MCStaticFileHandler ------------------------
(***************************************************************************)
(* Small instances of StaticFileHandler for TLC: leslie's password is lam, *)
(* nobody is a user the configuration does not name.                       *)
(***************************************************************************)
EXTENDS StaticFileHandler, TLC

CONSTANTS leslie, nobody, lam, wrong

MCUserMap == [u \in {leslie} |-> lam]
NoUsers == [u \in {} |-> lam]

Symmetry == Permutations(Threads) \cup Permutations(Files)
CookieSymmetry == Symmetry \cup Permutations(Cookies \ OldCookies)

(***************************************************************************)
(* States that differ only in a local that no later step and no invariant  *)
(* of the run reads are the same state.                                    *)
(***************************************************************************)
Live(x, t, pcs, dead) == IF pc[t] \in pcs THEN x ELSE dead

Frame(t) ==
  <<pc[t], Live(found[t], t, {"expire", "erase", "add_erase"}, End),
    Live(cookie_time[t], t, {"expire"}, 0)>>

Adding == {"login", "add_find", "add_erase", "gen", "insert"}

SafetyFrame(t) ==
  <<Frame(t), request[t].uri, [response[t] EXCEPT !.setCookie = NoCookie],
    Live(request[t].body, t, Adding, NoBody),
    IF Gated(request[t]) THEN request[t].cookie
                         ELSE Live(request[t].cookie, t, {"login", "add_find"}, NoCookie),
    Live(now_seconds[t], t, {"serve", "insert", "done"}, 0),
    Live(new_cookie[t], t, {"insert", "redirect"}, NoCookie)>>

FullFrame(t) ==
  <<Frame(t), request[t], response[t], new_cookie[t],
    Live(now_seconds[t], t, {"erase", "deny", "insert"}, 0)>>

(***************************************************************************)
(* Where a client is sent, and with which code, is no matter of cookies.   *)
(***************************************************************************)
CookieFrame(t) ==
  <<Frame(t), [request[t] EXCEPT !.body = Live(@, t, Adding, NoBody)], response[t].setCookie,
    Live(new_cookie[t], t, {"insert", "redirect"}, NoCookie),
    Live(now_seconds[t], t, {"erase", "deny", "insert"}, 0)>>

SafetyView == <<shared, now, alive, logins, [t \in Threads |-> SafetyFrame(t)]>>
CookieView == <<cookie_map, now, alive, logins, [t \in Threads |-> CookieFrame(t)], retired, ub>>
UriView == <<shared, now, alive, logins, [t \in Threads |-> FullFrame(t)], wanted, ub>>
=============================================================================
