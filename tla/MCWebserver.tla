----------------------------- MODULE MCWebserver -----------------------------
(***************************************************************************)
(* Servers for TLC: which handlers are configured, and under which URIs.   *)
(***************************************************************************)
EXTENDS Webserver, TLC

CONSTANTS files, status, missing, proxy, echo, db

(* A StaticFileHandler, a StatusHandler and a NotFoundHandler as default. *)
LocalKinds == [h \in {files, status, missing} |->
  CASE h = files -> "StaticFileHandler"
    [] h = status -> "StatusHandler"
    [] h = missing -> "NotFoundHandler"]
LocalMap == [u \in {"/s", "/t", ""} |->
  CASE u = "/s" -> files [] u = "/t" -> status [] u = "" -> missing]

(* A proxy, a DatabaseHandler and a StaticFileHandler, and no default. *)
BareKinds == [h \in {files, db, proxy} |->
  CASE h = files -> "StaticFileHandler"
    [] h = db -> "DatabaseHandler"
    [] h = proxy -> "ReverseProxyHandler"]
BareMap == [u \in {"/s", "/d", "/p", ""} |->
  CASE u = "/s" -> files [] u = "/d" -> db [] u = "/p" -> proxy [] u = "" -> NoHandler]

(* A proxy, an EchoHandler, and a StaticFileHandler as default. *)
MixedKinds == [h \in {files, echo, proxy} |->
  CASE h = files -> "StaticFileHandler"
    [] h = echo -> "EchoHandler"
    [] h = proxy -> "ReverseProxyHandler"]
MixedMap == [u \in {"/p", "/e", ""} |->
  CASE u = "/p" -> proxy [] u = "/e" -> echo [] u = "" -> files]

Symmetry == Permutations(Conns)

(***************************************************************************)
(* States TLC need not tell apart: no guard and no invariant reads what a  *)
(* client sent once it has been read, nor whether a client is gone once its*)
(* session is over; and in a dead process all but ub is as it was before.  *)
(***************************************************************************)
Unread == [c \in Conns |-> IF pc[c] \in {"queued", "read"} THEN sent[c] ELSE NoRequest]
Here == {c \in Conns : gone[c] /\ pc[c] # "end"}
SafetyView ==
  IF alive
  THEN <<backlog, Unread, Here, known, pc, thread, url_requests_, reply, ub>>
  ELSE <<ub>>
=============================================================================
