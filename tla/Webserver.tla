------------------------------ MODULE Webserver ------------------------------
(***************************************************************************)
(* The running server: run_server accepts connections and gives each one a *)
(* detached session thread (src/src/Webserver.cc), which reads one request,*)
(* dispatches it, records it with the ServerStatusTracker and answers.     *)
(* The tracker's vector is shared by all threads and has no lock.          *)
(*                                                                         *)
(* pc[c] is where connection c stands:                                     *)
(*   none -> queued -> read -> handle [-> fallback] -> record -> write     *)
(*        -> end, with count -> table in place of handle or fallback when  *)
(*        the handler is a StatusHandler.                                  *)
(*                                                                         *)
(* Routing.tla shows that get_handler is a function of the URI; handler_of *)
(* is that function here.  What a handler computes is abstracted to the    *)
(* status it returns and the code it leaves in the response; the modules   *)
(* of the handlers check that they keep to it.                             *)
(***************************************************************************)
EXTENDS HandlerStatus, Integers, Sequences, FiniteSets

CONSTANTS
  Conns,           \* client connections
  Uris, EmptyUri,  \* EmptyUri is the URI of the empty request
  NoRequest,
  Handlers, kind,  \* the configured handlers and the class of each
  NoHandler,
  handler_of,      \* get_handler
  DefaultHandler,  \* get_handler("default")
  Split            \* whether a request may arrive in several segments

Kinds == {"EchoHandler", "NotFoundHandler", "StatusHandler", "StaticFileHandler",
          "ReverseProxyHandler", "DatabaseHandler"}

(***************************************************************************)
(* How Request::Parse ends: with a request, with nullptr when the first    *)
(* line has not three words, or with std::out_of_range from a header line  *)
(* that is cut off at its colon.                                           *)
(***************************************************************************)
Forms == {"parsed", "nullptr", "throws"}
Requests == [uri : Uris, form : Forms]
EmptyRequest == [uri |-> EmptyUri, form |-> "parsed"]

ASSUME ServerAssumption ==
  /\ kind \in [Handlers -> Kinds]
  /\ DefaultHandler \in Handlers \cup {NoHandler}
  /\ handler_of \in [Uris \cup {EmptyUri} -> Handlers \cup {DefaultHandler}]
  /\ EmptyUri \notin Uris /\ NoHandler \notin Handlers
  /\ NoRequest \notin Requests
  /\ IsFiniteSet(Conns)
  /\ Split \in BOOLEAN

VARIABLES
  backlog,        \* connections the kernel holds for accept
  sent,           \* the request a client has sent
  gone,           \* the client has closed the connection
  pc, uri, handler, resp,
  page,           \* what HandleRequest of a StatusHandler has read
  url_requests_,  \* the tracker's list
  reply,          \* the response that reached the client
  alive,          \* the process runs
  \* History variables: no guard reads them.
  known,          \* known[c]: the connections answered when c sent its request
  ub              \* some step raced

client == <<sent, gone, known>>
thread == <<uri, handler, resp, page>>
vars == <<backlog, client, pc, thread, url_requests_, reply, alive, ub>>

NewResponse == [status |-> "OK", code |-> 0]
NoReply == [status |-> "none", code |-> 0]
NoPage == [count |-> 0, rows |-> <<>>]

(***************************************************************************)
(* Only a StaticFileHandler that is the default sees URIs that do not begin*)
(* with its prefix.                                                        *)
(***************************************************************************)
StaticFileResults(h) == FileResults \cup {r \in ForeignResults : h = DefaultHandler}

HandlerResults(h) ==
  CASE kind[h] = "EchoHandler" -> EchoResults
    [] kind[h] = "NotFoundHandler" -> NotFoundResults
    [] kind[h] = "StaticFileHandler" -> StaticFileResults(h)
    [] kind[h] = "ReverseProxyHandler" -> ReverseProxyResults
    [] kind[h] = "DatabaseHandler" -> DatabaseResults

Init ==
  /\ backlog = <<>>
  /\ sent = [c \in Conns |-> NoRequest]
  /\ gone = [c \in Conns |-> FALSE]
  /\ pc = [c \in Conns |-> "none"]
  /\ uri = [c \in Conns |-> EmptyUri]
  /\ handler = [c \in Conns |-> NoHandler]
  /\ resp = [c \in Conns |-> NewResponse]
  /\ page = [c \in Conns |-> NoPage]
  /\ url_requests_ = <<>>
  /\ reply = [c \in Conns |-> NoReply]
  /\ alive = TRUE
  /\ known = [c \in Conns |-> {}]
  /\ ub = FALSE

Goto(c, from, to) ==
  /\ alive
  /\ pc[c] = from
  /\ pc' = [pc EXCEPT ![c] = to]

Answered(c) == reply[c] # NoReply

-----------------------------------------------------------------------------
(* Clients, and the acceptor in the main thread *)

Connect(c) ==
  /\ Goto(c, "none", "queued")
  /\ backlog' = Append(backlog, c)
  /\ UNCHANGED <<client, thread, url_requests_, reply, alive, ub>>

Send(c, r) ==
  /\ alive
  /\ pc[c] \in {"queued", "read"} /\ sent[c] = NoRequest /\ ~gone[c]
  /\ sent' = [sent EXCEPT ![c] = r]
  /\ known' = [known EXCEPT ![c] = {d \in Conns : Answered(d)}]
  /\ UNCHANGED <<backlog, gone, pc, thread, url_requests_, reply, alive, ub>>

HangUp(c) ==
  /\ alive
  /\ pc[c] \notin {"none", "end"} /\ ~gone[c]
  /\ gone' = [gone EXCEPT ![c] = TRUE]
  /\ UNCHANGED <<backlog, sent, known, pc, thread, url_requests_, reply, alive, ub>>

(* Mutant: the main thread waits for the session to end. *)
AcceptAndJoin ==
  /\ backlog # <<>>
  /\ \A c \in Conns : pc[c] \in {"none", "queued", "end"}
  /\ Goto(Head(backlog), "queued", "read")
  /\ backlog' = Tail(backlog)
  /\ UNCHANGED <<client, thread, url_requests_, reply, alive, ub>>

(***************************************************************************)
(* accept, and the detached thread starts.                                 *)
(***************************************************************************)
Accept ==
  /\ backlog # <<>>
  /\ Goto(Head(backlog), "queued", "read")
  /\ backlog' = Tail(backlog)
  /\ UNCHANGED <<client, thread, url_requests_, reply, alive, ub>>

-----------------------------------------------------------------------------
(* session *)

(***************************************************************************)
(* A null Request or a missing default handler is dereferenced: the        *)
(* process, with all its threads, ends.                                    *)
(***************************************************************************)
Crash ==
  /\ alive
  /\ alive' = FALSE
  /\ UNCHANGED <<backlog, client, pc, thread, url_requests_, reply, ub>>

(***************************************************************************)
(* The virtual call of HandleRequest: where it leads for handler h.        *)
(***************************************************************************)
Entry(h, otherwise) == IF kind[h] = "StatusHandler" THEN "count" ELSE otherwise

(***************************************************************************)
(* read_some returns what has arrived: one segment of the request, or      *)
(* nothing when the client has hung up; its error code is ignored.         *)
(***************************************************************************)
Arrived(c) ==
  {r \in {sent[c]} : r # NoRequest}
    \cup {r \in {EmptyRequest} : gone[c]}
    \cup {r \in Requests : Split /\ sent[c] # NoRequest /\ r.uri = sent[c].uri}

Read(c) ==
  /\ pc[c] = "read"
  /\ \E r \in Arrived(c) :
       \/ /\ r.form = "throws"
          /\ Goto(c, "read", "end")
          /\ UNCHANGED <<backlog, client, thread, url_requests_, reply, alive, ub>>
       \/ /\ \/ r.form = "nullptr"
             \/ r.form = "parsed" /\ handler_of[r.uri] = NoHandler
          /\ Crash
       \/ /\ r.form = "parsed" /\ handler_of[r.uri] # NoHandler
          /\ Goto(c, "read", Entry(handler_of[r.uri], "handle"))
          /\ uri' = [uri EXCEPT ![c] = r.uri]
          /\ handler' = [handler EXCEPT ![c] = handler_of[r.uri]]
          /\ UNCHANGED <<backlog, client, resp, page, url_requests_, reply, alive, ub>>

(***************************************************************************)
(* One call of HandleRequest of a handler that is no StatusHandler: its    *)
(* result r goes into the response, where an indeterminate code leaves the *)
(* earlier one alone.                                                      *)
(***************************************************************************)
Respond(c, r) ==
  resp' = [resp EXCEPT ![c] = [status |-> r.status,
                               code |-> IF r.code = 0 THEN @.code ELSE r.code]]

Handle(c) ==
  /\ pc[c] = "handle"
  /\ \E r \in HandlerResults(handler[c]) :
       \/ /\ r.status # "FILE_NOT_FOUND"
          /\ Goto(c, "handle", "record")
          /\ Respond(c, r)
          /\ UNCHANGED <<backlog, client, uri, handler, page, url_requests_, reply, alive, ub>>
       \/ /\ r.status = "FILE_NOT_FOUND" /\ DefaultHandler # NoHandler
          /\ Goto(c, "handle", Entry(DefaultHandler, "fallback"))
          /\ Respond(c, r)
          /\ handler' = [handler EXCEPT ![c] = DefaultHandler]
          /\ UNCHANGED <<backlog, client, uri, page, url_requests_, reply, alive, ub>>
       \/ /\ r.status = "FILE_NOT_FOUND" /\ DefaultHandler = NoHandler
          /\ Crash

(***************************************************************************)
(* The default handler's turn after FILE_NOT_FOUND.                        *)
(***************************************************************************)
Fallback(c) ==
  /\ Goto(c, "fallback", "record")
  /\ \E r \in HandlerResults(handler[c]) : Respond(c, r)
  /\ UNCHANGED <<backlog, client, uri, handler, page, url_requests_, reply, alive, ub>>

(***************************************************************************)
(* A proxy throws when its peer resets the connection or answers with text *)
(* that Response::Parse cannot read; the session catches it and ends.      *)
(***************************************************************************)
ProxyThrows(c) ==
  /\ \E at \in {"handle", "fallback"} : Goto(c, at, "end")
  /\ kind[handler[c]] = "ReverseProxyHandler"
  /\ UNCHANGED <<backlog, client, thread, url_requests_, reply, alive, ub>>

-----------------------------------------------------------------------------
(* ServerStatusTracker *)

(***************************************************************************)
(* push_back of one thread is concurrent with a push_back, size or copy of *)
(* another: a data race.  A racing push_back may be lost, a racing size is *)
(* any number and a racing copy any part of the list; or the heap breaks.  *)
(***************************************************************************)
Writing(c) == pc[c] = "record"
Reading(c) == pc[c] \in {"count", "table"}
Racing(c) == \E d \in Conns \ {c} : \/ Writing(c) /\ (Writing(d) \/ Reading(d))
                                    \/ Reading(c) /\ Writing(d)

(* Mutant: the index of the last element for the size. *)
SizesLast(c) == {Len(url_requests_) - 1}
Sizes(c) ==
  {Len(url_requests_)} \cup IF Racing(c) THEN 0 .. Cardinality(Conns) ELSE {}
Copies(c) ==
  {url_requests_} \cup
  IF Racing(c) THEN {SubSeq(url_requests_, 1, n) : n \in 0 .. Len(url_requests_)} ELSE {}

(* GetNumRequests *)
Count(c) ==
  /\ Goto(c, "count", "table")
  /\ \E n \in Sizes(c) : page' = [page EXCEPT ![c].count = n]
  /\ ub' = (ub \/ Racing(c))
  /\ UNCHANGED <<backlog, client, uri, handler, resp, url_requests_, reply, alive>>

(* GetRequests, and the page: no row is printed when the count was 0. *)
Table(c) ==
  /\ Goto(c, "table", "record")
  /\ \E list \in Copies(c) :
       page' = [page EXCEPT ![c].rows = IF page[c].count > 0 THEN list ELSE <<>>]
  /\ resp' = [resp EXCEPT ![c] = [status |-> "OK", code |-> 200]]
  /\ ub' = (ub \/ Racing(c))
  /\ UNCHANGED <<backlog, client, uri, handler, url_requests_, reply, alive>>

(* Mutant: one row per URI. *)
RecordOnce(c) ==
  /\ Goto(c, "record", "write")
  /\ IF \E i \in DOMAIN url_requests_ : url_requests_[i].uri = uri[c]
     THEN UNCHANGED url_requests_
     ELSE url_requests_' = Append(url_requests_,
                                  [conn |-> c, uri |-> uri[c], code |-> resp[c].code])
  /\ ub' = (ub \/ Racing(c))
  /\ UNCHANGED <<backlog, client, thread, reply, alive>>

(* RecordRequest *)
Record(c) ==
  /\ Goto(c, "record", "write")
  /\ \/ url_requests_' = Append(url_requests_,
                                [conn |-> c, uri |-> uri[c], code |-> resp[c].code])
     \/ Racing(c) /\ UNCHANGED url_requests_
  /\ ub' = (ub \/ Racing(c))
  /\ UNCHANGED <<backlog, client, thread, reply, alive>>

Abort(c) ==
  /\ alive
  /\ Racing(c)
  /\ alive' = FALSE
  /\ ub' = TRUE
  /\ UNCHANGED <<backlog, client, pc, thread, url_requests_, reply>>

(***************************************************************************)
(* The answer is written; a client that is gone makes write throw, which   *)
(* the session catches.  Either way the socket closes.                     *)
(***************************************************************************)
Write(c) ==
  /\ Goto(c, "write", "end")
  /\ \/ gone[c] /\ UNCHANGED reply
     \/ ~gone[c] /\ reply' = [reply EXCEPT ![c] = resp[c]]
  /\ UNCHANGED <<backlog, client, thread, url_requests_, alive, ub>>

-----------------------------------------------------------------------------
Client(c) == Connect(c) \/ HangUp(c) \/ \E r \in Requests : Send(c, r)

session(c) == Read(c) \/ Handle(c) \/ Fallback(c) \/ ProxyThrows(c) \/ Count(c) \/ Table(c)
                \/ Record(c) \/ Abort(c) \/ Write(c)

Next == Accept \/ \E c \in Conns : Client(c) \/ session(c)

(***************************************************************************)
(* The main thread always returns to accept, and the operating system      *)
(* schedules every thread.  A proxy or a database may keep its thread      *)
(* waiting forever, and no client has to send anything.                    *)
(***************************************************************************)
Remote == {"ReverseProxyHandler", "DatabaseHandler"}
Local(c) == kind[handler[c]] \notin Remote
LocalHandle(c) == pc[c] \in {"handle", "fallback"} /\ Local(c) /\ (Handle(c) \/ Fallback(c))

Fairness ==
  /\ WF_vars(Accept)
  /\ \A c \in Conns : /\ WF_vars(Read(c)) /\ WF_vars(LocalHandle(c))
                      /\ WF_vars(Count(c)) /\ WF_vars(Table(c))
                      /\ WF_vars(Record(c)) /\ WF_vars(Write(c))

Spec == Init /\ [][Next]_vars
FairSpec == Spec /\ Fairness

-----------------------------------------------------------------------------
(* Every variable has its type: the connections, their threads, the tracker's *)
(* list and the pages read from it. *)
Rows == [conn : Conns, uri : Uris \cup {EmptyUri}, code : Codes \cup {0}]
TypeOK ==
  /\ backlog \in Seq(Conns)
  /\ sent \in [Conns -> Requests \cup {NoRequest}]
  /\ gone \in [Conns -> BOOLEAN]
  /\ pc \in [Conns -> {"none", "queued", "read", "handle", "fallback", "count", "table",
                       "record", "write", "end"}]
  /\ uri \in [Conns -> Uris \cup {EmptyUri}]
  /\ handler \in [Conns -> Handlers \cup {NoHandler}]
  /\ resp \in [Conns -> Results]
  /\ page \in [Conns -> [count : Nat, rows : Seq(Rows)]]
  /\ url_requests_ \in Seq(Rows)
  /\ reply \in [Conns -> Results \cup {NoReply}]
  /\ alive \in BOOLEAN /\ ub \in BOOLEAN
  /\ known \in [Conns -> SUBSET Conns]

(* Without a race, a status page shows every request that had been answered *)
(* when the page was asked for, once, with its URI and the code the client  *)
(* received: RecordRequest (Webserver.cc:168) comes before write (:170) and *)
(* the page is a copy of the tracker's whole list (status_handler.cc:11).   *)
StatusPageComplete ==
  \A c \in Conns : (Answered(c) /\ kind[handler[c]] = "StatusHandler" /\ ~ub) =>
    \A d \in known[c] :
      \E i \in DOMAIN page[c].rows :
        /\ page[c].rows[i] = [conn |-> d, uri |-> uri[d], code |-> reply[d].code]
        /\ \A j \in DOMAIN page[c].rows : page[c].rows[j].conn = d => j = i

(* A client receives a response with an indeterminate code (Webserver.cc:160 *)
(* makes a Response whose code no constructor sets) from a proxy or from a   *)
(* StaticFileHandler that is itself the default, never else: after           *)
(* FILE_NOT_FOUND the default handler fills the response in.                 *)
FallbackFillsResponse ==
  \A c \in Conns : (Answered(c) /\ reply[c].code = 0) =>
    \/ kind[handler[c]] = "ReverseProxyHandler"
    \/ handler[c] = DefaultHandler /\ kind[DefaultHandler] = "StaticFileHandler"

(* A well-formed request whose handler needs no other server is answered,   *)
(* whatever the other connections do: clients that connect and stay silent, *)
(* and proxies that never hear from their peer, hold only their own thread. *)
(* What can come between is the end of the process (Webserver.cc:148-187).  *)
LocalUri(u) ==
  \A h \in {handler_of[u], DefaultHandler} \ {NoHandler} : kind[h] \notin Remote
SentIsAnswered ==
  \A c \in Conns :
    (\E u \in Uris : LocalUri(u) /\ sent[c] = [uri |-> u, form |-> "parsed"])
      ~> (Answered(c) \/ gone[c] \/ ~alive)

(* request_handler.h:113-115 says that when HandleRequest does not return OK *)
(* the server returns the HTTP code 500; session (Webserver.cc:162-170) asks *)
(* only about FILE_NOT_FOUND.                                                *)
NonOkGets500 ==
  \A c \in Conns : (Answered(c) /\ reply[c].status # "OK") => reply[c].code = 500
=============================================================================
