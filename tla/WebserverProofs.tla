--------------------------- MODULE WebserverProofs ---------------------------
(***************************************************************************)
(* Proofs about Webserver: type correctness; that a status page shows      *)
(* every request answered before it was asked for, exactly once, as long   *)
(* as no two accesses to the tracker's list have raced; and who may leave  *)
(* a response without a code.                                              *)
(***************************************************************************)
EXTENDS Webserver, FiniteSetTheorems, SequenceTheorems, TLAPS

(***************************************************************************)
(* A session calls HandleRequest of a configured handler, and a            *)
(* StatusHandler never by way of Handle and Fallback.                      *)
(***************************************************************************)
HandlerOK ==
  \A c \in Conns : pc[c] \in {"handle", "fallback"} =>
    handler[c] \in Handlers /\ kind[handler[c]] # "StatusHandler"

TypeInv == TypeOK /\ HandlerOK

(***************************************************************************)
(* A client has its answer when its session is over; the answer is the     *)
(* response of the session; and what a client knew had been answered.      *)
(***************************************************************************)
RepliesOK ==
  \A c \in Conns : Answered(c) => pc[c] = "end" /\ reply[c] = resp[c]
KnownAnswered ==
  \A c \in Conns : \A d \in known[c] : Answered(d)

(***************************************************************************)
(* list has exactly one row of connection d, with its URI and code.        *)
(***************************************************************************)
Row(d) == [conn |-> d, uri |-> uri[d], code |-> resp[d].code]
HasRow(list, d) ==
  \E i \in DOMAIN list :
    /\ list[i] = Row(d)
    /\ \A j \in DOMAIN list : list[j].conn = d => j = i

RowsOK ==
  ~ub => /\ \A i \in DOMAIN url_requests_ : pc[url_requests_[i].conn] \in {"write", "end"}
         /\ \A d \in Conns : pc[d] = "write" \/ Answered(d) => HasRow(url_requests_, d)

(***************************************************************************)
(* A page is complete from the moment it was made; its count cannot be 0   *)
(* when the client knew of an answered request.                            *)
(***************************************************************************)
Made(c) == pc[c] \in {"record", "write"} \/ Answered(c)
PagesOK ==
  ~ub => \A c \in Conns : \A d \in known[c] :
           /\ pc[c] = "table" => page[c].count > 0
           /\ Made(c) /\ kind[handler[c]] = "StatusHandler" => HasRow(page[c].rows, d)

IInv == TypeInv /\ RepliesOK /\ KnownAnswered /\ RowsOK /\ PagesOK

-----------------------------------------------------------------------------
(* What HandleRequest leaves behind is a response. *)
LEMMA ResultsType ==
  ASSUME NEW h \in Handlers, kind[h] # "StatusHandler"
  PROVE  HandlerResults(h) \subseteq Results
BY ServerAssumption DEF ServerAssumption, Kinds, HandlerResults, Results, Statuses, Codes,
   EchoResults, NotFoundResults, StaticFileResults, FileResults, ForeignResults, ReverseProxyResults, DatabaseResults

(* An answer is never mistaken for none. *)
LEMMA ReplyIsNews == NoReply \notin Results
BY DEF NoReply, Results, Statuses

LEMMA TypeInit == Init => TypeInv
<1>1. NewResponse \in Results
  BY DEF NewResponse, Results, Statuses, Codes
<1>2. NoPage \in [count : Nat, rows : Seq(Rows)]
  BY DEF NoPage
<1>3. ASSUME Init
      PROVE  TypeOK
  <2>1. <<>> \in Seq(Conns) /\ <<>> \in Seq(Rows)
    OBVIOUS
  <2>2. resp \in [Conns -> Results] /\ reply \in [Conns -> Results \cup {NoReply}]
    BY <1>1, <1>3 DEF Init
  <2>3. page \in [Conns -> [count : Nat, rows : Seq(Rows)]]
    BY <1>2, <1>3 DEF Init
  <2>4. known \in [Conns -> SUBSET Conns]
    BY <1>3 DEF Init
  <2> QED
    BY <1>3, <2>1, <2>2, <2>3, <2>4 DEF Init, TypeOK
<1>4. Init => HandlerOK
  BY DEF Init, HandlerOK
<1> QED
  BY <1>3, <1>4 DEF TypeInv

-----------------------------------------------------------------------------
(* Type correctness, action by action. *)

LEMMA AcceptType == TypeInv /\ Accept => TypeInv'
<1> SUFFICES ASSUME TypeInv, Accept
             PROVE  TypeInv'
  OBVIOUS
<1>1. backlog' \in Seq(Conns) /\ Head(backlog) \in Conns
  BY HeadTailProperties DEF TypeInv, TypeOK, Accept
<1> QED
  BY <1>1 DEF TypeInv, TypeOK, HandlerOK, Accept, Goto, client, thread

LEMMA ClientType ==
  ASSUME NEW c \in Conns, TypeInv, Client(c)
  PROVE  TypeInv'
<1>1. CASE Connect(c)
  BY <1>1, AppendProperties DEF TypeInv, TypeOK, HandlerOK, Connect, Goto, client, thread
<1>2. CASE HangUp(c)
  BY <1>2 DEF TypeInv, TypeOK, HandlerOK, HangUp, thread
<1>3. ASSUME NEW r \in Requests, Send(c, r)
      PROVE  TypeInv'
  BY <1>3 DEF TypeInv, TypeOK, HandlerOK, Send, thread
<1> QED
  BY <1>1, <1>2, <1>3 DEF Client

LEMMA RespondType ==
  ASSUME TypeOK, NEW c \in Conns, NEW r \in Results, Respond(c, r)
  PROVE  resp' \in [Conns -> Results]
BY DEF TypeOK, Respond, Results

LEMMA CrashType == TypeInv /\ Crash => TypeInv'
BY DEF TypeInv, TypeOK, HandlerOK, Crash, client, thread

LEMMA ReadType ==
  ASSUME NEW c \in Conns, TypeInv, Read(c)
  PROVE  TypeInv'
<1> PICK r \in Arrived(c) :
       \/ /\ Goto(c, "read", "end")
          /\ UNCHANGED <<backlog, client, thread, url_requests_, reply, alive, ub>>
       \/ Crash
       \/ /\ handler_of[r.uri] # NoHandler
          /\ Goto(c, "read", Entry(handler_of[r.uri], "handle"))
          /\ uri' = [uri EXCEPT ![c] = r.uri]
          /\ handler' = [handler EXCEPT ![c] = handler_of[r.uri]]
          /\ UNCHANGED <<backlog, client, resp, page, url_requests_, reply, alive, ub>>
  BY DEF Read
<1>1. r.uri \in Uris \cup {EmptyUri}
  BY DEF Arrived, TypeInv, TypeOK, Requests, EmptyRequest
<1>2. handler_of[r.uri] \in Handlers \cup {NoHandler}
  BY <1>1, ServerAssumption DEF ServerAssumption
<1>3. CASE Goto(c, "read", "end") /\ UNCHANGED <<backlog, client, thread, url_requests_, reply, alive, ub>>
  BY <1>3 DEF TypeInv, TypeOK, HandlerOK, Goto, client, thread
<1>4. CASE Crash
  BY <1>4, CrashType
<1>5. CASE /\ handler_of[r.uri] # NoHandler
           /\ Goto(c, "read", Entry(handler_of[r.uri], "handle"))
           /\ uri' = [uri EXCEPT ![c] = r.uri]
           /\ handler' = [handler EXCEPT ![c] = handler_of[r.uri]]
           /\ UNCHANGED <<backlog, client, resp, page, url_requests_, reply, alive, ub>>
  BY <1>1, <1>2, <1>5 DEF TypeInv, TypeOK, HandlerOK, Goto, Entry, client
<1> QED
  BY <1>3, <1>4, <1>5

LEMMA HandleType ==
  ASSUME NEW c \in Conns, TypeInv, Handle(c)
  PROVE  TypeInv'
<1> PICK r \in HandlerResults(handler[c]) :
       \/ /\ Goto(c, "handle", "record")
          /\ Respond(c, r)
          /\ UNCHANGED <<backlog, client, uri, handler, page, url_requests_, reply, alive, ub>>
       \/ /\ DefaultHandler # NoHandler
          /\ Goto(c, "handle", Entry(DefaultHandler, "fallback"))
          /\ Respond(c, r)
          /\ handler' = [handler EXCEPT ![c] = DefaultHandler]
          /\ UNCHANGED <<backlog, client, uri, page, url_requests_, reply, alive, ub>>
       \/ Crash
  BY DEF Handle
<1>1. pc[c] = "handle"
  BY DEF Handle
<1>2. r \in Results
  BY <1>1, ResultsType DEF TypeInv, HandlerOK
<1>3. CASE /\ Goto(c, "handle", "record")
           /\ Respond(c, r)
           /\ UNCHANGED <<backlog, client, uri, handler, page, url_requests_, reply, alive, ub>>
  <2>1. resp' \in [Conns -> Results]
    BY <1>2, <1>3, RespondType DEF TypeInv
  <2> QED
    BY <1>3, <2>1 DEF TypeInv, TypeOK, HandlerOK, Goto, client
<1>4. CASE /\ DefaultHandler # NoHandler
           /\ Goto(c, "handle", Entry(DefaultHandler, "fallback"))
           /\ Respond(c, r)
           /\ handler' = [handler EXCEPT ![c] = DefaultHandler]
           /\ UNCHANGED <<backlog, client, uri, page, url_requests_, reply, alive, ub>>
  <2>1. resp' \in [Conns -> Results]
    BY <1>2, <1>4, RespondType DEF TypeInv
  <2> QED
    BY <1>4, <2>1, ServerAssumption DEF ServerAssumption, TypeInv, TypeOK, HandlerOK, Goto, Entry, client
<1>5. CASE Crash
  BY <1>5, CrashType
<1> QED
  BY <1>3, <1>4, <1>5

LEMMA FallbackType ==
  ASSUME NEW c \in Conns, TypeInv, Fallback(c)
  PROVE  TypeInv'
<1>1. PICK r \in HandlerResults(handler[c]) : Respond(c, r)
  BY DEF Fallback
<1>2. r \in Results
  BY ResultsType DEF Fallback, Goto, TypeInv, HandlerOK
<1>3. resp' \in [Conns -> Results]
  BY <1>1, <1>2, RespondType DEF TypeInv
<1> QED
  BY <1>3 DEF Fallback, TypeInv, TypeOK, HandlerOK, Goto, client

LEMMA TrackerType ==
  ASSUME NEW c \in Conns, TypeInv, Count(c) \/ Table(c) \/ Record(c) \/ Abort(c)
  PROVE  TypeInv'
<1> USE DEF TypeInv
<1>1. CASE Count(c)
  <2>1. Sizes(c) \subseteq Nat
    BY ServerAssumption, FS_CardinalityType DEF ServerAssumption, Sizes, TypeOK
  <2>2. page' \in [Conns -> [count : Nat, rows : Seq(Rows)]]
    <3>1. PICK n \in Nat : page' = [page EXCEPT ![c].count = n]
      BY <1>1, <2>1 DEF Count
    <3> QED
      BY <3>1 DEF TypeOK
  <2> QED
    BY <1>1, <2>2 DEF Count, TypeOK, HandlerOK, Goto, client
<1>2. CASE Table(c)
  <2>1. Copies(c) \subseteq Seq(Rows)
    <3>1. url_requests_ \in Seq(Rows) /\ Len(url_requests_) \in Nat
      BY DEF TypeOK
    <3>2. \A n \in 0 .. Len(url_requests_) : SubSeq(url_requests_, 1, n) \in Seq(Rows)
      BY <3>1
    <3> QED
      BY <3>1, <3>2 DEF Copies
  <2>2. [status |-> "OK", code |-> 200] \in Results
    BY DEF Results, Statuses, Codes
  <2>3. PICK list \in Seq(Rows) : page' = [page EXCEPT ![c].rows = list]
    <3>1. PICK list \in Seq(Rows) :
            page' = [page EXCEPT ![c].rows = IF page[c].count > 0 THEN list ELSE <<>>]
      BY <1>2, <2>1 DEF Table
    <3>2. <<>> \in Seq(Rows)
      OBVIOUS
    <3>3. CASE page[c].count > 0
      BY <3>1, <3>3
    <3>4. CASE ~(page[c].count > 0)
      BY <3>1, <3>2, <3>4
    <3> QED
      BY <3>3, <3>4
  <2>4. page' \in [Conns -> [count : Nat, rows : Seq(Rows)]]
    BY <2>3 DEF TypeOK
  <2> QED
    BY <1>2, <2>2, <2>4 DEF Table, TypeOK, HandlerOK, Goto, client
<1>3. CASE Record(c)
  <2>1. [conn |-> c, uri |-> uri[c], code |-> resp[c].code] \in Rows
    BY DEF TypeOK, Rows, Results
  <2>2. url_requests_' \in Seq(Rows)
    <3>1. url_requests_ \in Seq(Rows)
      BY DEF TypeOK
    <3>2. Append(url_requests_, [conn |-> c, uri |-> uri[c], code |-> resp[c].code]) \in Seq(Rows)
      BY <2>1, <3>1, AppendProperties, Zenon
    <3> QED
      BY <1>3, <3>1, <3>2 DEF Record
  <2> QED
    BY <1>3, <2>2 DEF Record, TypeOK, HandlerOK, Goto, client, thread
<1>4. CASE Abort(c)
  BY <1>4 DEF Abort, TypeOK, HandlerOK, client, thread
<1> QED
  BY <1>1, <1>2, <1>3, <1>4

LEMMA EndType ==
  ASSUME NEW c \in Conns, TypeInv, ProxyThrows(c) \/ Write(c)
  PROVE  TypeInv'
<1>1. CASE ProxyThrows(c)
  BY <1>1 DEF ProxyThrows, TypeInv, TypeOK, HandlerOK, Goto, client, thread
<1>2. CASE Write(c)
  <2>1. reply' \in [Conns -> Results \cup {NoReply}]
    BY <1>2 DEF Write, TypeInv, TypeOK
  <2> QED
    BY <1>2, <2>1 DEF Write, TypeInv, TypeOK, HandlerOK, Goto, client, thread
<1> QED
  BY <1>1, <1>2

LEMMA TypeStep == TypeInv /\ [Next]_vars => TypeInv'
<1>1. ASSUME TypeInv, UNCHANGED vars
      PROVE  TypeInv'
  BY <1>1 DEF vars, TypeInv, TypeOK, HandlerOK, client, thread
<1>2. ASSUME TypeInv, NEW c \in Conns, session(c)
      PROVE  TypeInv'
  BY <1>2, ReadType, HandleType, FallbackType, TrackerType, EndType DEF session
<1> QED
  BY <1>1, <1>2, AcceptType, ClientType DEF Next

(***************************************************************************)
(* Every reachable state of the server is well typed, whatever the clients *)
(* send and the threads race (Webserver.cc:148-189).                       *)
(***************************************************************************)
THEOREM TypeCorrect == Spec => []TypeOK
<1>1. TypeInv => TypeOK
  BY DEF TypeInv
<1> QED
  BY TypeInit, TypeStep, <1>1, PTL DEF Spec

-----------------------------------------------------------------------------
(* The status page *)

Rest == RepliesOK /\ KnownAnswered /\ RowsOK /\ PagesOK

LEMMA RestInit == Init => Rest
BY DEF Init, Rest, RepliesOK, KnownAnswered, RowsOK, PagesOK, Answered, NoReply

LEMMA RowTyped ==
  ASSUME TypeOK, NEW i \in DOMAIN url_requests_
  PROVE  url_requests_[i] \in Rows /\ url_requests_[i].conn \in Conns
<1>1. url_requests_ \in Seq(Rows)
  BY DEF TypeOK
<1>2. url_requests_[i] \in Rows
  BY <1>1
<1> QED
  BY <1>2 DEF Rows

(***************************************************************************)
(* A step that leaves the sessions, the list and the pages alone: a client *)
(* hangs up, the process ends, or nothing happens.                         *)
(***************************************************************************)
LEMMA SameStep ==
  ASSUME Rest, UNCHANGED <<pc, uri, handler, resp, page, url_requests_, reply, known>>, ub => ub'
  PROVE  Rest'
BY DEF Rest, RepliesOK, KnownAnswered, RowsOK, PagesOK, Answered, HasRow, Row, Made

(***************************************************************************)
(* A step of connection c before it reaches the tracker.                   *)
(***************************************************************************)
Early == {"none", "queued", "read", "handle", "fallback"}

LEMMA EarlyStep ==
  ASSUME IInv, NEW c \in Conns, pc[c] \in Early,
         UNCHANGED <<page, url_requests_, reply, known, ub>>,
         \A d \in Conns \ {c} : /\ pc'[d] = pc[d] /\ uri'[d] = uri[d]
                                /\ resp'[d] = resp[d] /\ handler'[d] = handler[d],
         pc'[c] \in Early \cup {"count", "record", "end"},
         pc'[c] = "record" => kind[handler'[c]] # "StatusHandler"
  PROVE  Rest'
<1>1. ~Answered(c) /\ \A d \in Conns : Answered(d)' <=> Answered(d)
  BY DEF IInv, RepliesOK, Answered, Early
<1>2. \A d \in Conns : Answered(d) => d # c /\ Row(d)' = Row(d)
  BY <1>1 DEF Row
<1>3. RepliesOK'
  BY <1>1, <1>2 DEF IInv, RepliesOK
<1>4. KnownAnswered'
  BY <1>1 DEF IInv, KnownAnswered, TypeInv, TypeOK
<1>5. RowsOK'
  <2> SUFFICES ASSUME ~ub
               PROVE  /\ \A i \in DOMAIN url_requests_ : pc'[url_requests_[i].conn] \in {"write", "end"}
                      /\ \A d \in Conns : pc'[d] = "write" \/ Answered(d)' => HasRow(url_requests_, d)'
    BY DEF RowsOK
  <2>1. ASSUME NEW i \in DOMAIN url_requests_
        PROVE  pc'[url_requests_[i].conn] \in {"write", "end"}
    <3>1. url_requests_[i].conn \in Conns
      BY RowTyped DEF IInv, TypeInv
    <3> QED
      BY <3>1 DEF IInv, RowsOK, Early
  <2>2. ASSUME NEW d \in Conns, pc'[d] = "write" \/ Answered(d)'
        PROVE  HasRow(url_requests_, d)'
    <3>1. d # c
      BY <1>1, <2>2 DEF Early
    <3>2. HasRow(url_requests_, d)
      BY <1>1, <2>2, <3>1 DEF IInv, RowsOK
    <3> QED
      BY <3>1, <3>2 DEF HasRow, Row
  <2> QED
    BY <2>1, <2>2
<1>6. PagesOK'
  <2> SUFFICES ASSUME ~ub, NEW e \in Conns, NEW d \in known[e]
               PROVE  /\ pc'[e] = "table" => page[e].count > 0
                      /\ Made(e)' /\ kind[handler'[e]] = "StatusHandler" => HasRow(page[e].rows, d)'
    BY DEF PagesOK
  <2>1. d \in Conns /\ d # c /\ Row(d)' = Row(d)
    BY <1>2 DEF IInv, KnownAnswered, TypeInv, TypeOK
  <2>2. CASE e = c
    BY <1>1, <2>2 DEF Made, Early
  <2>3. CASE e # c
    <3>1. Made(e)' <=> Made(e)
      BY <1>1, <2>3 DEF Made
    <3>2. Made(e) /\ kind[handler[e]] = "StatusHandler" => HasRow(page[e].rows, d)
      BY DEF IInv, PagesOK
    <3> QED
      BY <2>1, <2>3, <3>1, <3>2 DEF IInv, PagesOK, HasRow
  <2> QED
    BY <2>2, <2>3
<1> QED
  BY <1>3, <1>4, <1>5, <1>6 DEF Rest

LEMMA SendStep ==
  ASSUME IInv, NEW c \in Conns, NEW r \in Requests, Send(c, r)
  PROVE  Rest'
<1> USE DEF Send, thread
<1>1. \A d \in Conns : (Answered(d)' <=> Answered(d)) /\ Row(d)' = Row(d)
  BY DEF Answered, Row
<1>2. ~Made(c) /\ pc[c] # "table"
  BY DEF IInv, RepliesOK, Made
<1>3. RepliesOK' /\ RowsOK'
  BY DEF IInv, RepliesOK, RowsOK, Answered, HasRow, Row
<1>4. KnownAnswered'
  BY <1>1 DEF IInv, KnownAnswered, TypeInv, TypeOK
<1>5. PagesOK'
  <2> SUFFICES ASSUME ~ub, NEW e \in Conns, NEW d \in known'[e]
               PROVE  /\ pc[e] = "table" => page[e].count > 0
                      /\ Made(e)' /\ kind[handler[e]] = "StatusHandler" => HasRow(page[e].rows, d)'
    BY DEF PagesOK
  <2>1. Made(e)' <=> Made(e)
    BY <1>1 DEF Made
  <2>2. CASE e = c
    BY <1>2, <2>1, <2>2
  <2>3. CASE e # c
    <3>1. d \in known[e]
      BY <2>3 DEF IInv, TypeInv, TypeOK
    <3>2. /\ pc[e] = "table" => page[e].count > 0
          /\ Made(e) /\ kind[handler[e]] = "StatusHandler" => HasRow(page[e].rows, d)
      BY <3>1 DEF IInv, PagesOK
    <3> QED
      BY <2>1, <3>2 DEF HasRow, Row
  <2> QED
    BY <2>2, <2>3
<1> QED
  BY <1>3, <1>4, <1>5 DEF Rest

LEMMA ReadStep ==
  ASSUME IInv, NEW c \in Conns, Read(c)
  PROVE  Rest'
<1>1. CASE Crash
  BY <1>1, SameStep DEF Crash, client, thread, IInv, Rest
<1>2. CASE ~Crash
  <2>1. pc[c] = "read" /\ pc'[c] \in {"handle", "count", "end"}
    BY <1>2 DEF Read, Goto, Entry, IInv, TypeInv, TypeOK
  <2>2. /\ UNCHANGED <<page, url_requests_, reply, known, ub>>
        /\ \A d \in Conns \ {c} : /\ pc'[d] = pc[d] /\ uri'[d] = uri[d]
                                  /\ resp'[d] = resp[d] /\ handler'[d] = handler[d]
    BY <1>2 DEF Read, Goto, client, thread, IInv, TypeInv, TypeOK
  <2> QED
    BY <2>1, <2>2, EarlyStep DEF Early
<1> QED
  BY <1>1, <1>2

LEMMA HandleStep ==
  ASSUME IInv, NEW c \in Conns, Handle(c)
  PROVE  Rest'
<1>1. CASE Crash
  BY <1>1, SameStep DEF Crash, client, thread, IInv, Rest
<1>2. CASE ~Crash
  <2>1. /\ pc[c] = "handle" /\ pc'[c] \in {"fallback", "count", "record"}
        /\ pc'[c] = "record" => handler'[c] = handler[c]
    BY <1>2 DEF Handle, Goto, Entry, IInv, TypeInv, TypeOK
  <2>2. /\ UNCHANGED <<page, url_requests_, reply, known, ub>>
        /\ \A d \in Conns \ {c} : /\ pc'[d] = pc[d] /\ uri'[d] = uri[d]
                                  /\ resp'[d] = resp[d] /\ handler'[d] = handler[d]
    BY <1>2 DEF Handle, Respond, Goto, client, IInv, TypeInv, TypeOK
  <2>3. kind[handler[c]] # "StatusHandler"
    BY <2>1 DEF IInv, TypeInv, HandlerOK
  <2> QED
    BY <2>1, <2>2, <2>3, EarlyStep DEF Early
<1> QED
  BY <1>1, <1>2

LEMMA FallbackStep ==
  ASSUME IInv, NEW c \in Conns, Fallback(c)
  PROVE  Rest'
<1>1. pc[c] = "fallback" /\ pc'[c] = "record" /\ handler'[c] = handler[c]
  BY DEF Fallback, Goto, IInv, TypeInv, TypeOK
<1>2. /\ UNCHANGED <<page, url_requests_, reply, known, ub>>
      /\ \A d \in Conns \ {c} : /\ pc'[d] = pc[d] /\ uri'[d] = uri[d]
                                /\ resp'[d] = resp[d] /\ handler'[d] = handler[d]
  BY DEF Fallback, Respond, Goto, client, IInv, TypeInv, TypeOK
<1>3. kind[handler[c]] # "StatusHandler"
  BY <1>1 DEF IInv, TypeInv, HandlerOK
<1> QED
  BY <1>1, <1>2, <1>3, EarlyStep DEF Early

(***************************************************************************)
(* Connect, accept and a proxy's exception move pc alone.                  *)
(***************************************************************************)
LEMMA MoveStep ==
  ASSUME IInv, NEW c \in Conns, Connect(c) \/ (Accept /\ c = Head(backlog)) \/ ProxyThrows(c)
  PROVE  Rest'
<1>1. pc[c] \in Early /\ pc'[c] \in Early \cup {"end"}
  BY DEF Connect, Accept, ProxyThrows, Goto, Early, IInv, TypeInv, TypeOK
<1>2. /\ UNCHANGED <<uri, resp, handler, page, url_requests_, reply, known, ub>>
      /\ \A d \in Conns \ {c} : pc'[d] = pc[d]
  BY DEF Connect, Accept, ProxyThrows, Goto, client, thread, IInv, TypeInv, TypeOK
<1> QED
  BY <1>1, <1>2, EarlyStep DEF Early

(* Without a race, the size and the copy are those of the list. *)
LEMMA CountStep ==
  ASSUME IInv, NEW c \in Conns, Count(c)
  PROVE  Rest'
<1> USE DEF Count, Goto, client
<1>1. pc[c] = "count" /\ pc' = [pc EXCEPT ![c] = "table"] /\ ~Answered(c)
  BY DEF IInv, RepliesOK
<1>2. /\ UNCHANGED <<uri, resp, handler, url_requests_, reply, known>>
      /\ \A d \in Conns : (Answered(d)' <=> Answered(d)) /\ Row(d)' = Row(d)
      /\ \A e \in Conns \ {c} : page'[e] = page[e]
  BY DEF Answered, Row, IInv, TypeInv, TypeOK
<1>3. RepliesOK' /\ KnownAnswered'
  BY <1>1, <1>2 DEF IInv, RepliesOK, KnownAnswered, Answered, TypeInv, TypeOK
<1>4. RowsOK'
  <2> SUFFICES ASSUME ~ub'
               PROVE  RowsOK'
    BY DEF RowsOK
  <2>1. ~ub
    OBVIOUS
  <2>2. ASSUME NEW i \in DOMAIN url_requests_
        PROVE  pc'[url_requests_[i].conn] \in {"write", "end"}
    BY <1>1, <2>1, RowTyped DEF IInv, RowsOK, TypeInv, TypeOK
  <2>3. ASSUME NEW d \in Conns, pc'[d] = "write" \/ Answered(d)'
        PROVE  HasRow(url_requests_, d)'
    <3>1. HasRow(url_requests_, d)
      BY <1>1, <1>2, <2>1, <2>3 DEF IInv, RowsOK, TypeInv, TypeOK
    <3> QED
      BY <1>2, <3>1 DEF HasRow, Row
  <2> QED
    BY <1>2, <2>2, <2>3 DEF RowsOK
<1>5. PagesOK'
  <2> SUFFICES ASSUME ~ub', NEW e \in Conns, NEW d \in known[e]
               PROVE  /\ pc'[e] = "table" => page'[e].count > 0
                      /\ Made(e)' /\ kind[handler[e]] = "StatusHandler" => HasRow(page[e].rows, d)'
    BY <1>2 DEF PagesOK
  <2>1. ~ub /\ ~Racing(c)
    OBVIOUS
  <2>2. CASE e = c
    <3>1. ~Made(c)'
      BY <1>1, <1>2 DEF Made, IInv, TypeInv, TypeOK
    <3>2. page'[c].count = Len(url_requests_)
      BY <2>1 DEF Sizes, IInv, TypeInv, TypeOK
    <3>3. PICK i \in DOMAIN url_requests_ : TRUE
      BY <2>1, <2>2 DEF IInv, KnownAnswered, RowsOK, HasRow, TypeInv, TypeOK
    <3>4. Len(url_requests_) > 0
      BY <3>3, LenProperties DEF IInv, TypeInv, TypeOK
    <3> QED
      BY <2>2, <3>1, <3>2, <3>4
  <2>3. CASE e # c
    <3>1. (Made(e)' <=> Made(e)) /\ pc'[e] = pc[e] /\ page'[e] = page[e]
      BY <1>1, <1>2, <2>3 DEF Made, IInv, TypeInv, TypeOK
    <3>2. /\ pc[e] = "table" => page[e].count > 0
          /\ Made(e) /\ kind[handler[e]] = "StatusHandler" => HasRow(page[e].rows, d)
      BY <2>1 DEF IInv, PagesOK
    <3> QED
      BY <1>2, <3>1, <3>2 DEF HasRow, Row
  <2> QED
    BY <2>2, <2>3
<1> QED
  BY <1>3, <1>4, <1>5 DEF Rest

LEMMA TableStep ==
  ASSUME IInv, NEW c \in Conns, Table(c)
  PROVE  Rest'
<1> USE DEF Table, Goto, client
<1>1. pc[c] = "table" /\ pc' = [pc EXCEPT ![c] = "record"] /\ ~Answered(c)
  BY DEF IInv, RepliesOK
<1>2. /\ UNCHANGED <<uri, handler, url_requests_, reply, known>>
      /\ \A d \in Conns : Answered(d)' <=> Answered(d)
      /\ \A d \in Conns \ {c} : page'[d] = page[d] /\ resp'[d] = resp[d] /\ Row(d)' = Row(d)
  BY DEF Answered, Row, IInv, TypeInv, TypeOK
<1>3. RepliesOK' /\ KnownAnswered'
  BY <1>1, <1>2 DEF IInv, RepliesOK, KnownAnswered, Answered, TypeInv, TypeOK
<1>4. ASSUME ~ub', NEW d \in Conns, Answered(d)
      PROVE  HasRow(url_requests_, d) /\ HasRow(url_requests_, d)'
  <2>1. d # c /\ HasRow(url_requests_, d)
    BY <1>1, <1>4 DEF IInv, RowsOK
  <2> QED
    BY <1>2, <2>1 DEF HasRow, Row
<1>5. RowsOK'
  <2> SUFFICES ASSUME ~ub'
               PROVE  RowsOK'
    BY DEF RowsOK
  <2>1. ~ub
    OBVIOUS
  <2>2. ASSUME NEW i \in DOMAIN url_requests_
        PROVE  pc'[url_requests_[i].conn] \in {"write", "end"}
    BY <1>1, <2>1, RowTyped DEF IInv, RowsOK, TypeInv, TypeOK
  <2>3. ASSUME NEW d \in Conns, pc'[d] = "write" \/ Answered(d)'
        PROVE  HasRow(url_requests_, d)'
    <3>1. d # c /\ HasRow(url_requests_, d)
      BY <1>1, <1>2, <2>1, <2>3 DEF IInv, RowsOK, TypeInv, TypeOK
    <3> QED
      BY <1>2, <3>1 DEF HasRow, Row
  <2> QED
    BY <1>2, <2>2, <2>3 DEF RowsOK
<1>6. PagesOK'
  <2> SUFFICES ASSUME ~ub', NEW e \in Conns, NEW d \in known[e]
               PROVE  /\ pc'[e] = "table" => page'[e].count > 0
                      /\ Made(e)' /\ kind[handler[e]] = "StatusHandler" => HasRow(page[e].rows, d)'
    BY <1>2 DEF PagesOK
  <2>1. ~ub /\ ~Racing(c)
    OBVIOUS
  <2>2. d \in Conns \ {c} /\ Answered(d)
    BY <1>1 DEF IInv, KnownAnswered, TypeInv, TypeOK
  <2>3. CASE e = c
    <3>1. page[c].count > 0
      BY <1>1, <2>1, <2>3 DEF IInv, PagesOK
    <3>2. page'[c].rows = url_requests_
      BY <2>1, <3>1 DEF Copies, IInv, TypeInv, TypeOK
    <3>3. pc'[c] = "record"
      BY <1>1 DEF IInv, TypeInv, TypeOK
    <3> QED
      BY <1>2, <1>4, <2>2, <2>3, <3>2, <3>3 DEF HasRow, Row
  <2>4. CASE e # c
    <3>1. (Made(e)' <=> Made(e)) /\ pc'[e] = pc[e] /\ page'[e] = page[e]
      BY <1>1, <1>2, <2>4 DEF Made, IInv, TypeInv, TypeOK
    <3>2. /\ pc[e] = "table" => page[e].count > 0
          /\ Made(e) /\ kind[handler[e]] = "StatusHandler" => HasRow(page[e].rows, d)
      BY <2>1 DEF IInv, PagesOK
    <3>3. Row(d)' = Row(d)
      BY <1>2, <2>2
    <3>4. HasRow(page[e].rows, d) => HasRow(page[e].rows, d)'
      BY <3>1, <3>3 DEF HasRow
    <3>5. handler' = handler
      BY <1>2
    <3> QED
      BY <3>1, <3>2, <3>4, <3>5
  <2> QED
    BY <2>3, <2>4
<1> QED
  BY <1>3, <1>5, <1>6 DEF Rest

(* Without a race, the list grows by the row of the recording session. *)
LEMMA RecordStep ==
  ASSUME IInv, NEW c \in Conns, Record(c)
  PROVE  Rest'
<1> USE DEF Record, Goto, client, thread
<1>1. pc[c] = "record" /\ pc' = [pc EXCEPT ![c] = "write"] /\ ~Answered(c)
  BY DEF IInv, RepliesOK
<1>2. /\ UNCHANGED <<uri, resp, handler, page, reply, known>>
      /\ \A d \in Conns : (Answered(d)' <=> Answered(d)) /\ Row(d)' = Row(d)
  BY DEF Answered, Row
<1>3. RepliesOK' /\ KnownAnswered'
  BY <1>1, <1>2 DEF IInv, RepliesOK, KnownAnswered, Answered, TypeInv, TypeOK
<1>4. RowsOK'
  <2> SUFFICES ASSUME ~ub'
               PROVE  /\ \A i \in DOMAIN url_requests_' : pc'[url_requests_'[i].conn] \in {"write", "end"}
                      /\ \A d \in Conns : pc'[d] = "write" \/ Answered(d)' => HasRow(url_requests_, d)'
    BY DEF RowsOK
  <2> DEFINE n == Len(url_requests_)
  <2>1. ~ub /\ url_requests_' = Append(url_requests_, Row(c))
    BY DEF Row
  <2>2. url_requests_ \in Seq(Rows) /\ Row(c) \in Rows
    BY DEF IInv, TypeInv, TypeOK, Row, Rows, Results
  <2>3. /\ n \in Nat /\ DOMAIN url_requests_ = 1 .. n /\ DOMAIN url_requests_' = 1 .. n + 1
        /\ \A i \in 1 .. n : url_requests_'[i] = url_requests_[i]
        /\ url_requests_'[n + 1] = Row(c)
    BY <2>1, <2>2
  <2>4. \A i \in 1 .. n : /\ url_requests_[i].conn \in Conns \ {c}
                          /\ pc[url_requests_[i].conn] \in {"write", "end"}
    BY <1>1, <2>1, <2>3, RowTyped DEF IInv, RowsOK, TypeInv
  <2>5. Row(c).conn = c
    BY DEF Row
  <2>6. ASSUME NEW i \in DOMAIN url_requests_'
        PROVE  pc'[url_requests_'[i].conn] \in {"write", "end"}
    <3>1. \A e \in Conns : pc'[e] = IF e = c THEN "write" ELSE pc[e]
      BY <1>1 DEF IInv, TypeInv, TypeOK
    <3>2. CASE i \in 1 .. n
      BY <2>3, <2>4, <3>1, <3>2
    <3>3. CASE i = n + 1
      BY <2>3, <2>5, <3>1, <3>3
    <3> QED
      BY <2>3, <2>6, <3>2, <3>3
  <2>7. HasRow(url_requests_', c)
    BY <2>3, <2>4, <2>5 DEF HasRow
  <2>8. ASSUME NEW d \in Conns \ {c}, pc'[d] = "write" \/ Answered(d)'
        PROVE  HasRow(url_requests_', d)
    <3>1. HasRow(url_requests_, d)
      BY <1>1, <1>2, <2>1, <2>8 DEF IInv, RowsOK, TypeInv, TypeOK
    <3> QED
      BY <2>3, <2>5, <3>1 DEF HasRow
  <2>9. \A d \in Conns : HasRow(url_requests_', d) => HasRow(url_requests_, d)'
    BY <1>2 DEF HasRow
  <2> QED
    BY <2>6, <2>7, <2>8, <2>9
<1>5. PagesOK'
  <2> SUFFICES ASSUME ~ub', NEW e \in Conns, NEW d \in known[e]
               PROVE  /\ pc'[e] = "table" => page[e].count > 0
                      /\ Made(e)' /\ kind[handler[e]] = "StatusHandler" => HasRow(page[e].rows, d)'
    BY <1>2 DEF PagesOK
  <2>1. (Made(e)' => Made(e)) /\ (pc'[e] = "table" => pc[e] = "table")
    BY <1>1, <1>2 DEF Made, IInv, TypeInv, TypeOK
  <2>2. ~ub
    OBVIOUS
  <2>3. /\ pc[e] = "table" => page[e].count > 0
        /\ Made(e) /\ kind[handler[e]] = "StatusHandler" => HasRow(page[e].rows, d)
    BY <2>2 DEF IInv, PagesOK
  <2> QED
    BY <1>2, <2>1, <2>3 DEF HasRow, Row
<1> QED
  BY <1>3, <1>4, <1>5 DEF Rest

LEMMA WriteStep ==
  ASSUME IInv, NEW c \in Conns, Write(c)
  PROVE  Rest'
<1> USE DEF Write, Goto, client, thread
<1>1. pc[c] = "write" /\ pc' = [pc EXCEPT ![c] = "end"] /\ ~Answered(c)
  BY DEF IInv, RepliesOK
<1>2. /\ UNCHANGED <<uri, resp, handler, page, url_requests_, known, ub>>
      /\ reply'[c] \in {reply[c], resp[c]}
      /\ \A d \in Conns \ {c} : reply'[d] = reply[d] /\ (Answered(d)' <=> Answered(d))
  BY DEF Answered, IInv, TypeInv, TypeOK
<1>3. RepliesOK'
  BY <1>1, <1>2 DEF IInv, RepliesOK, Answered, TypeInv, TypeOK
<1>4. KnownAnswered'
  BY <1>1, <1>2 DEF IInv, KnownAnswered, TypeInv, TypeOK
<1>5. \A d \in Conns : pc'[d] = "write" \/ Answered(d)' => pc[d] = "write" \/ Answered(d)
  BY <1>1, <1>2 DEF IInv, TypeInv, TypeOK
<1>6. \A d \in Conns : Made(d)' => Made(d)
  BY <1>1, <1>2 DEF Made, IInv, TypeInv, TypeOK
<1>7. RowsOK'
  <2> SUFFICES ASSUME ~ub
               PROVE  /\ \A i \in DOMAIN url_requests_ : pc'[url_requests_[i].conn] \in {"write", "end"}
                      /\ \A d \in Conns : pc'[d] = "write" \/ Answered(d)' => HasRow(url_requests_, d)'
    BY <1>2 DEF RowsOK
  <2>1. ASSUME NEW i \in DOMAIN url_requests_
        PROVE  pc'[url_requests_[i].conn] \in {"write", "end"}
    BY <1>1, RowTyped DEF IInv, RowsOK, TypeInv, TypeOK
  <2>2. ASSUME NEW d \in Conns, pc'[d] = "write" \/ Answered(d)'
        PROVE  HasRow(url_requests_, d)'
    <3>1. HasRow(url_requests_, d)
      BY <1>5, <2>2 DEF IInv, RowsOK
    <3> QED
      BY <1>2, <3>1 DEF HasRow, Row
  <2> QED
    BY <2>1, <2>2
<1>8. PagesOK'
  <2> SUFFICES ASSUME ~ub, NEW e \in Conns, NEW d \in known[e]
               PROVE  /\ pc'[e] = "table" => page[e].count > 0
                      /\ Made(e)' /\ kind[handler[e]] = "StatusHandler" => HasRow(page[e].rows, d)'
    BY <1>2 DEF PagesOK
  <2>1. pc'[e] = "table" => pc[e] = "table"
    BY <1>1 DEF IInv, TypeInv, TypeOK
  <2>2. /\ pc[e] = "table" => page[e].count > 0
        /\ Made(e) /\ kind[handler[e]] = "StatusHandler" => HasRow(page[e].rows, d)
    BY DEF IInv, PagesOK
  <2> QED
    BY <1>2, <1>6, <2>1, <2>2 DEF HasRow, Row
<1> QED
  BY <1>3, <1>4, <1>7, <1>8 DEF Rest

LEMMA IStep == IInv /\ [Next]_vars => IInv'
<1> SUFFICES ASSUME IInv, [Next]_vars
             PROVE  Rest'
  BY TypeStep DEF IInv, Rest
<1>1. CASE UNCHANGED vars
  BY <1>1, SameStep DEF vars, client, thread, IInv, Rest
<1>2. CASE Accept
  <2>1. Head(backlog) \in Conns
    BY <1>2, HeadTailProperties DEF Accept, IInv, TypeInv, TypeOK
  <2> QED
    BY <1>2, <2>1, MoveStep
<1>3. ASSUME NEW c \in Conns, Client(c)
      PROVE  Rest'
  <2>1. CASE HangUp(c)
    BY <2>1, SameStep DEF HangUp, thread, IInv, Rest
  <2> QED
    BY <1>3, <2>1, MoveStep, SendStep DEF Client
<1>4. ASSUME NEW c \in Conns, session(c)
      PROVE  Rest'
  <2>1. CASE Abort(c)
    BY <2>1, SameStep DEF Abort, client, thread, IInv, Rest
  <2> QED
    BY <1>4, <2>1, ReadStep, HandleStep, FallbackStep, MoveStep, CountStep, TableStep,
       RecordStep, WriteStep DEF session
<1> QED
  BY <1>1, <1>2, <1>3, <1>4 DEF Next

LEMMA InvImplies == IInv => StatusPageComplete
<1> SUFFICES ASSUME IInv, ~ub, NEW c \in Conns, Answered(c),
                    kind[handler[c]] = "StatusHandler", NEW d \in known[c]
             PROVE  \E i \in DOMAIN page[c].rows :
                      /\ page[c].rows[i] = [conn |-> d, uri |-> uri[d], code |-> reply[d].code]
                      /\ \A j \in DOMAIN page[c].rows : page[c].rows[j].conn = d => j = i
  BY DEF StatusPageComplete
<1>1. HasRow(page[c].rows, d)
  BY DEF IInv, PagesOK, Made
<1>2. reply[d] = resp[d]
  BY DEF IInv, KnownAnswered, RepliesOK, TypeInv, TypeOK
<1> QED
  BY <1>1, <1>2 DEF HasRow, Row

(***************************************************************************)
(* However many connections there are and whatever handlers serve them,    *)
(* without a race every status page shows each request that was answered   *)
(* before the page was asked for exactly once, with its URI and the code   *)
(* the client received (Webserver.cc:168-170, status_handler.cc:10-32).    *)
(***************************************************************************)
THEOREM StatusPagesComplete == Spec => []StatusPageComplete
<1>1. Init => IInv
  BY TypeInit, RestInit DEF IInv, Rest
<1> QED
  BY <1>1, IStep, InvImplies, PTL DEF Spec
-----------------------------------------------------------------------------
(***************************************************************************)
(* From the moment a handler has returned, the response has a code, or the *)
(* handler is one of those that may leave it out.                          *)
(***************************************************************************)
Excused(h) ==
  \/ kind[h] = "ReverseProxyHandler"
  \/ h = DefaultHandler /\ kind[DefaultHandler] = "StaticFileHandler"
Handled(c) == pc[c] \in {"record", "write"} \/ Answered(c)
FillInv ==
  \A c \in Conns : /\ pc[c] = "fallback" => handler[c] = DefaultHandler
                   /\ Handled(c) /\ resp[c].code = 0 => Excused(handler[c])

(* Which handler may leave the code out, other than for a missing file. *)
LEMMA CodeLeftOut ==
  ASSUME NEW h \in Handlers, kind[h] # "StatusHandler", NEW r \in HandlerResults(h), r.code = 0
  PROVE  Excused(h) \/ (kind[h] = "StaticFileHandler" /\ r.status = "FILE_NOT_FOUND")
<1>1. kind[h] \in Kinds
  BY ServerAssumption DEF ServerAssumption
<1>2. CASE kind[h] = "StaticFileHandler"
  <2>1. r \in FileResults \/ (r \in ForeignResults /\ h = DefaultHandler)
    BY <1>2 DEF HandlerResults, StaticFileResults
  <2>2. r \in FileResults => r.status = "FILE_NOT_FOUND"
    BY DEF FileResults
  <2> QED
    BY <1>2, <2>1, <2>2 DEF Excused
<1>3. CASE kind[h] \in {"EchoHandler", "NotFoundHandler", "DatabaseHandler"}
  BY <1>3 DEF HandlerResults, EchoResults, NotFoundResults, DatabaseResults
<1> QED
  BY <1>1, <1>2, <1>3 DEF Kinds, Excused

LEMMA RespondCode ==
  ASSUME TypeOK, NEW c \in Conns, NEW r \in Results, Respond(c, r), resp'[c].code = 0
  PROVE  r.code = 0
BY DEF TypeOK, Respond, Results, Codes

(* A step of connection c that leaves its response, handler and answer alone. *)
LEMMA QuietStep ==
  ASSUME FillInv, NEW c \in Conns, UNCHANGED <<handler, resp, reply>>,
         \A d \in Conns \ {c} : pc'[d] = pc[d],
         pc'[c] = "fallback" => pc[c] = "fallback",
         pc'[c] \in {"record", "write"} => Handled(c)
  PROVE  FillInv'
BY DEF FillInv, Handled, Answered, Excused

LEMMA FillStep == IInv /\ FillInv /\ [Next]_vars => FillInv'
<1> SUFFICES ASSUME IInv, FillInv, [Next]_vars
             PROVE  FillInv'
  OBVIOUS
<1> USE DEF IInv, TypeInv, TypeOK, Goto
<1>1. CASE UNCHANGED vars
  BY <1>1 DEF vars, client, thread, FillInv, Handled, Answered, Excused
<1>2. CASE Accept
  <2>1. Head(backlog) \in Conns
    BY <1>2, HeadTailProperties DEF Accept
  <2> QED
    BY <1>2, <2>1, QuietStep DEF Accept, thread
<1>3. ASSUME NEW c \in Conns, Client(c)
      PROVE  FillInv'
  <2>1. /\ UNCHANGED <<handler, resp, reply>>
        /\ pc' = pc \/ pc' = [pc EXCEPT ![c] = "queued"]
    BY <1>3 DEF Client, Connect, HangUp, Send, thread
  <2> QED
    BY <2>1, QuietStep DEF Handled
<1>4. ASSUME NEW c \in Conns, ProxyThrows(c) \/ Count(c) \/ Record(c) \/ Abort(c)
      PROVE  FillInv'
  BY <1>4, QuietStep DEF ProxyThrows, Count, Record, Abort, Handled, thread
<1>5. ASSUME NEW c \in Conns, Read(c)
      PROVE  FillInv'
  <2>1. CASE UNCHANGED handler
    BY <1>5, <2>1, QuietStep DEF Read, Crash, Entry, thread
  <2>2. CASE handler' # handler
    <3>1. PICK h : /\ pc' = [pc EXCEPT ![c] = Entry(h, "handle")]
                   /\ handler' = [handler EXCEPT ![c] = h]
                   /\ UNCHANGED <<resp, reply>>
      BY <1>5, <2>2 DEF Read, Crash, thread
    <3>2. ~Answered(c)
      BY <1>5 DEF Read, RepliesOK
    <3> QED
      BY <3>1, <3>2 DEF FillInv, Handled, Answered, Excused, Entry
  <2> QED
    BY <2>1, <2>2
<1>6. ASSUME NEW c \in Conns, Handle(c)
      PROVE  FillInv'
  <2>1. /\ pc[c] = "handle" /\ ~Answered(c)
        /\ handler[c] \in Handlers /\ kind[handler[c]] # "StatusHandler"
    BY <1>6 DEF Handle, RepliesOK, HandlerOK
  <2>2. CASE Crash
    <3>1. UNCHANGED <<pc, handler, resp, reply>>
      BY <2>2 DEF Crash, thread
    <3> QED
      BY <2>1, <3>1, QuietStep
  <2>3. CASE pc'[c] = "record"
    <3>1. PICK r \in HandlerResults(handler[c]) :
            r.status # "FILE_NOT_FOUND" /\ Respond(c, r) /\ UNCHANGED <<handler, reply>>
      BY <1>6, <2>1, <2>3 DEF Handle, Entry, Crash
    <3>2. r \in Results
      BY <2>1, ResultsType
    <3>3. resp'[c].code = 0 => Excused(handler[c])
      BY <2>1, <3>1, <3>2, RespondCode, CodeLeftOut
    <3>4. \A d \in Conns \ {c} : resp'[d] = resp[d] /\ pc'[d] = pc[d]
      BY <1>6, <2>1, <3>1 DEF Handle, Respond, Crash
    <3> QED
      BY <2>3, <3>1, <3>3, <3>4 DEF FillInv, Handled, Answered, Excused
  <2>4. CASE ~Crash /\ pc'[c] # "record"
    <3>1. PICK r \in HandlerResults(handler[c]) :
            /\ Respond(c, r) /\ UNCHANGED reply
            /\ pc' = [pc EXCEPT ![c] = Entry(DefaultHandler, "fallback")]
            /\ handler' = [handler EXCEPT ![c] = DefaultHandler]
      BY <1>6, <2>1, <2>4 DEF Handle
    <3> QED
      BY <2>1, <3>1 DEF FillInv, Handled, Answered, Excused, Entry, Respond
  <2> QED
    BY <2>2, <2>3, <2>4
<1>7. ASSUME NEW c \in Conns, Fallback(c)
      PROVE  FillInv'
  <2>1. PICK r \in HandlerResults(handler[c]) :
          /\ pc[c] = "fallback" /\ pc' = [pc EXCEPT ![c] = "record"]
          /\ Respond(c, r) /\ UNCHANGED <<handler, reply>>
    BY <1>7 DEF Fallback
  <2>2. /\ handler[c] = DefaultHandler /\ handler[c] \in Handlers
        /\ kind[handler[c]] # "StatusHandler"
    BY <2>1 DEF FillInv, HandlerOK
  <2>3. resp'[c].code = 0 => Excused(handler[c])
    <3>1. resp'[c].code = 0 => r.code = 0
      BY <2>1, <2>2, ResultsType, RespondCode
    <3>2. r.code = 0 => Excused(handler[c])
      BY <2>2, CodeLeftOut, ServerAssumption DEF ServerAssumption, Excused, HandlerResults
    <3> QED
      BY <3>1, <3>2
  <2> QED
    BY <2>1, <2>3 DEF FillInv, Handled, Answered, Excused, Respond
<1>8. ASSUME NEW c \in Conns, Table(c)
      PROVE  FillInv'
  BY <1>8 DEF Table, FillInv, Handled, Answered, Excused
<1>9. ASSUME NEW c \in Conns, Write(c)
      PROVE  FillInv'
  BY <1>9 DEF Write, thread, FillInv, Handled, Answered, Excused
<1> QED
  BY <1>1, <1>2, <1>3, <1>4, <1>5, <1>6, <1>7, <1>8, <1>9 DEF Next, session

(***************************************************************************)
(* Whatever handlers are configured and however connections interleave, a  *)
(* response without a code is a proxy's, or that of a StaticFileHandler    *)
(* that is itself the default (Webserver.cc:160-170).                      *)
(***************************************************************************)
THEOREM FallbackFills == Spec => []FallbackFillsResponse
<1>1. Init => IInv
  BY TypeInit, RestInit DEF IInv, Rest
<1>2. Init => FillInv
  BY DEF Init, FillInv, Handled, Answered
<1>3. IInv /\ FillInv => FallbackFillsResponse
  BY DEF IInv, RepliesOK, FillInv, Handled, Excused, FallbackFillsResponse
<1> QED
  BY <1>1, <1>2, <1>3, IStep, FillStep, PTL DEF Spec
=============================================================================
