--------------------------- MODULE LoginSessions ---------------------------
(***************************************************************************)
(* What a private directory promises to its clients, without the map, the  *)
(* iterators and the accesses that interleave: a login with a configured   *)
(* password grants a cookie nobody had, a file is open to whoever presents *)
(* a cookie while its grant is fresh, and a client whose grant is fresh is *)
(* turned away only if it has logged in again and so revoked it.  Once the *)
(* threads have raced for a member, only the first two promises are left.  *)
(***************************************************************************)
EXTENDS Integers

CONSTANTS Clients, Cookies, NoCookie, Timeout, Start

VARIABLES
  clock,
  grants,      \* [cookie, at], forever
  revoked,     \* cookies replaced by a later login
  phase, presented,
  drawn, stamp,  \* the cookie about to be granted, and when it was drawn
  broken

vars == <<clock, grants, revoked, phase, presented, drawn, stamp, broken>>

Init ==
  /\ clock = Start
  /\ grants = {} /\ revoked = {}
  /\ phase = [c \in Clients |-> "away"]
  /\ presented = [c \in Clients |-> NoCookie]
  /\ drawn = [c \in Clients |-> NoCookie]
  /\ stamp = [c \in Clients |-> 0]
  /\ broken = FALSE

Fresh(grant) == clock - grant.at <= Timeout
GrantsOf(c) == {g \in grants : g.cookie = presented[c]}

Move(c, from, to) == phase[c] = from /\ phase' = [phase EXCEPT ![c] = to]
MayBreak == broken' \in {broken, TRUE}

(* A request arrives: for a file, for the login page or from its form. *)
Arrive(c) ==
  /\ \E to \in {"asking", "open", "submitting"} : Move(c, "away", to)
  /\ \E cookie \in Cookies \cup {NoCookie} : presented' = [presented EXCEPT ![c] = cookie]
  /\ UNCHANGED <<clock, grants, revoked, drawn, stamp, broken>>

Admit(c) ==
  /\ Move(c, "asking", "admitted")
  /\ \E g \in GrantsOf(c) : Fresh(g)
  /\ UNCHANGED <<clock, grants, revoked, presented, drawn, stamp, broken>>

TurnAway(c) ==
  /\ Move(c, "asking", "denied")
  /\ broken \/ presented[c] \in revoked \/ \A g \in GrantsOf(c) : ~Fresh(g)
  /\ UNCHANGED <<clock, grants, revoked, presented, drawn, stamp, broken>>

(* The password is wrong, or it is right and ends the login before. *)
Reject(c) ==
  /\ Move(c, "submitting", "open")
  /\ UNCHANGED <<clock, grants, revoked, presented, drawn, stamp, broken>>

Accept(c) ==
  /\ Move(c, "submitting", "granting")
  /\ revoked' = revoked \cup ({presented[c]} \ {NoCookie})
  /\ UNCHANGED <<clock, grants, presented, drawn, stamp, broken>>

Draw(c) ==
  /\ Move(c, "granting", "drawn")
  /\ \E cookie \in Cookies :
       /\ \A g \in grants : g.cookie # cookie
       /\ \A d \in Clients : drawn[d] # cookie
       /\ drawn' = [drawn EXCEPT ![c] = cookie]
  /\ stamp' = [stamp EXCEPT ![c] = clock]
  /\ MayBreak
  /\ UNCHANGED <<clock, grants, revoked, presented>>

Grant(c) ==
  /\ Move(c, "drawn", "open")
  /\ grants' = grants \cup {[cookie |-> drawn[c], at |-> stamp[c]]}
  /\ drawn' = [drawn EXCEPT ![c] = NoCookie]
  /\ stamp' = [stamp EXCEPT ![c] = 0]
  /\ MayBreak
  /\ UNCHANGED <<clock, revoked, presented>>

Leave(c) ==
  /\ phase[c] \in {"admitted", "denied", "open"}
  /\ phase' = [phase EXCEPT ![c] = "away"]
  /\ presented' = [presented EXCEPT ![c] = NoCookie]
  /\ UNCHANGED <<clock, grants, revoked, drawn, stamp, broken>>

Tick ==
  /\ clock' = clock + 1
  /\ UNCHANGED <<grants, revoked, phase, presented, drawn, stamp, broken>>

(* Threads race, and perhaps the server ends, with all that is under way. *)
Break ==
  /\ broken' = TRUE
  /\ UNCHANGED <<clock, grants, revoked, phase, presented, drawn, stamp>>

Crash ==
  /\ broken' = TRUE
  /\ phase' = [c \in Clients |-> "away"]
  /\ presented' = [c \in Clients |-> NoCookie]
  /\ drawn' = [c \in Clients |-> NoCookie]
  /\ stamp' = [c \in Clients |-> 0]
  /\ UNCHANGED <<clock, grants, revoked>>

Next ==
  \/ \E c \in Clients : \/ Arrive(c) \/ Admit(c) \/ TurnAway(c) \/ Reject(c) \/ Accept(c)
                        \/ Draw(c) \/ Grant(c) \/ Leave(c)
  \/ Tick \/ Break \/ Crash

Spec == Init /\ [][Next]_vars
=============================================================================
