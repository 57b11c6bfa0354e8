---------------------------- MODULE ReverseProxy ----------------------------
(***************************************************************************)
(* One call of HandleRequest of a ReverseProxyHandler                      *)
(* (src/src/reverse_proxy_handler.cc): the client's request is rewritten   *)
(* for the configured host and sent there, and redirections are followed.  *)
(* The handler's members never change after Init, so calls of different    *)
(* threads do not meet.                                                    *)
(*                                                                         *)
(*   idle -> forward -> write -> read -> parse -> done -> idle             *)
(*              ^------------------------ |  \--> thrown -> idle           *)
(*                                                                         *)
(* Any host may fail to resolve, refuse the connection, answer with any of *)
(* Answers or never answer.                                                *)
(***************************************************************************)
EXTENDS HttpMessages, HandlerInit

CONSTANTS
  Characters,     \* what texts are made of
  DefaultPrefix,  \* the word "default", given to Init of the default handler
  Handlers,       \* [prefix, block] for each configured proxy
  Requests,       \* texts of requests
  Replies,        \* responses of other servers
  Texts,          \* what arrives from a peer before it closes the connection
  MAX_REDIRECTS

Symbols == Seq(Characters)

ASSUME ProxyAssumption ==
  /\ \A h \in Handlers : InitProxy(h.block).status = "OK"
  /\ MAX_REDIRECTS \in Nat \ {0}

(***************************************************************************)
(* What the code writes are characters, and so is all that arrives.        *)
(***************************************************************************)
Written ==
  {"H", "T", "P/1.0", "ost", "C", "onnection", "close", "reason", ":", " ", "\r", "\n"}

ASSUME TextAssumption ==
  /\ Written \cup Chars \cup Digits \subseteq Characters
  /\ Slash \notin {" ", "\n"}
  /\ Requests \cup Texts \subseteq Symbols
  /\ \A h \in Handlers : h.prefix \in Symbols /\ h.block \in Seq(BlockStatements)

(***************************************************************************)
(* The responses of other servers, of which whole answers are made: names  *)
(* and values are not empty and fit on a line, and a name has no colon.    *)
(***************************************************************************)
ASSUME ReplyAssumption ==
  \A r \in Replies :
    /\ r.code \in Codes /\ r.body \in Symbols
    /\ r.headers \in Seq((Symbols \ {<<>>}) \X (Symbols \ {<<>>}))
    /\ \A k \in DOMAIN r.headers :
         /\ {"\r", ":"} \cap Range(r.headers[k][1]) = {}
         /\ "\r" \notin Range(r.headers[k][2])

VARIABLES
  prefix_, site,       \* the handler: its prefix, and host, urlpath and port
  pc,
  request,             \* the client's request, as the session has parsed it
  transformedRequest,
  nextHost,
  i,                   \* redirections followed
  raw_response,
  response,
  status,              \* what HandleRequest returns
  asked                \* the last request a peer has received, and where

handler == <<prefix_, site>>
call == <<request, transformedRequest, nextHost, i, raw_response, response, status, asked>>
vars == <<handler, pc, call>>

NoText == <<>>
NoRequest == ParseRequest(NoText)
NotAsked == [host |-> <<>>, port |-> <<>>, text |-> NoText]

Init ==
  /\ \E h \in Handlers : prefix_ = h.prefix /\ site = InitProxy(h.block)
  /\ pc = "idle"
  /\ request = NoRequest /\ transformedRequest = NoRequest
  /\ nextHost = <<>> /\ i = 0
  /\ raw_response = NoText /\ response = NoResponse
  /\ status = "OK" /\ asked = NotAsked

(***************************************************************************)
(* The requests get_handler gives to this handler.                         *)
(***************************************************************************)
Routed(uri) ==
  \/ prefix_ = DefaultPrefix
  \/ /\ IsPrefix(prefix_, uri)
     /\ Len(prefix_) \notin {1, Len(uri)} => uri[Len(prefix_) + 1] = Slash

-----------------------------------------------------------------------------
(* TransformRequest *)

(* Mutant: the slash of the client's URI follows that of the configured path. *)
JoinedTwice(uri) == site.urlpath \o Rest(uri, Len(prefix_))

(***************************************************************************)
(* The length of the prefix is cut off the URI, whether it begins with it  *)
(* or not.  urlpath ends with a slash.                                     *)
(***************************************************************************)
Joined(uri) ==
  LET shortened == Rest(uri, Len(prefix_))
  IN IF Len(uri) <= Len(prefix_) THEN site.urlpath
     ELSE IF shortened[1] # Slash THEN site.urlpath \o shortened
     ELSE site.urlpath \o Tail(shortened)

TransformRequest(r) ==
  LET parsed == ParseRequest(r.raw)
      hosted == UpdateHeader(parsed, Host, site.host)
      closing == UpdateHeader(hosted, Connection, <<"close">>)
  IN UpdateUri(SetVersion(closing, Http10), Joined(r.uri))

(***************************************************************************)
(* What follows the first "//", or the first symbol when there is none, up *)
(* to the next slash is the host.                                          *)
(***************************************************************************)
ParseLocation(location) ==
  LET http == Find(location, <<Slash, Slash>>, 0)
      host == Find(location, <<Slash>>, http + 2)
  IN IF host = Npos THEN [host |-> Rest(location, http + 2), uri |-> <<Slash>>]
     ELSE [host |-> Substr(location, http + 2, host - http - 2), uri |-> Rest(location, host)]

-----------------------------------------------------------------------------
Goto(from, to) == pc = from /\ pc' = to

HandleRequest(text) ==
  LET r == ParseRequest(text) IN
  /\ Goto("idle", "forward")
  /\ r.form = "parsed" /\ Routed(r.uri)
  /\ request' = r
  /\ transformedRequest' = TransformRequest(r)
  /\ nextHost' = site.host
  /\ UNCHANGED <<handler, i, raw_response, response, status, asked>>

(* The host is resolved, and a socket connected to it. *)
Connect ==
  /\ Goto("forward", "write")
  /\ UNCHANGED <<handler, call>>

Unreachable ==
  /\ Goto("forward", "done")
  /\ status' = "PROXY_ERROR"
  /\ UNCHANGED <<handler, request, transformedRequest, nextHost, i, raw_response, response, asked>>

Write ==
  /\ Goto("write", "read")
  /\ asked' = [host |-> nextHost, port |-> site.port, text |-> transformedRequest.raw]
  /\ UNCHANGED <<handler, request, transformedRequest, nextHost, i, raw_response, response, status>>

(* boost::asio::write throws when the peer resets the connection. *)
WriteThrows ==
  /\ Goto("write", "thrown")
  /\ UNCHANGED <<handler, call>>

(***************************************************************************)
(* getRawResponse: the peer answers and closes the connection, or it breaks*)
(* off, which looks the same.                                              *)
(***************************************************************************)
Read(text) ==
  /\ Goto("read", "parse")
  /\ raw_response' = text
  /\ UNCHANGED <<handler, request, transformedRequest, nextHost, i, response, status, asked>>

(***************************************************************************)
(* The rest of ForwardRequest and of the loop.                             *)
(***************************************************************************)
Parsed == ParseResponse(raw_response)
(* Mutant: a permanent redirection is no redirection. *)
RedirectsFound(r) == r.code = 302
Redirects(r) == r.code \in {301, 302}

ParseThrows ==
  /\ Goto("parse", "thrown")
  /\ Parsed.form = "throws"
  /\ UNCHANGED <<handler, call>>

(* Mutant: the null pointer goes unnoticed. *)
UnrecognizedIsOk ==
  /\ Goto("parse", "done")
  /\ Parsed.form = "nullptr"
  /\ UNCHANGED <<handler, call>>

Unrecognized ==
  /\ Goto("parse", "done")
  /\ Parsed.form = "nullptr"
  /\ status' = "PROXY_ERROR"
  /\ UNCHANGED <<handler, request, transformedRequest, nextHost, i, raw_response, response, asked>>

Relay ==
  /\ Goto("parse", "done")
  /\ Parsed.form = "parsed" /\ ~Redirects(Parsed.response)
  /\ response' = Parsed.response
  /\ UNCHANGED <<handler, request, transformedRequest, nextHost, i, raw_response, status, asked>>

RedirectNowhere ==
  /\ Goto("parse", "done")
  /\ Parsed.form = "parsed" /\ Redirects(Parsed.response)
  /\ GetHeader(Parsed.response.headers, Location) = <<>>
  /\ response' = Parsed.response
  /\ status' = "PROXY_ERROR"
  /\ UNCHANGED <<handler, request, transformedRequest, nextHost, i, raw_response, asked>>

(* Mutant: the loop does not count. *)
NotCounted == i
Counted == i + 1

(* The last redirection the loop has room for is prepared, but not followed. *)
Redirect ==
  LET location == GetHeader(Parsed.response.headers, Location)
      next == ParseLocation(location)
  IN /\ Goto("parse", IF Counted < MAX_REDIRECTS THEN "forward" ELSE "done")
     /\ Parsed.form = "parsed" /\ Redirects(Parsed.response)
     /\ location # <<>>
     /\ response' = Parsed.response
     /\ nextHost' = next.host
     /\ transformedRequest' =
          UpdateUri(UpdateHeader(transformedRequest, Host, next.host), next.uri)
     /\ i' = Counted
     /\ UNCHANGED <<handler, request, raw_response, status, asked>>

(* HandleRequest returns, or its exception ends the session. *)
Return ==
  /\ \E from \in {"done", "thrown"} : Goto(from, "idle")
  /\ request' = NoRequest /\ transformedRequest' = NoRequest
  /\ nextHost' = <<>> /\ i' = 0
  /\ raw_response' = NoText /\ response' = NoResponse
  /\ status' = "OK" /\ asked' = NotAsked
  /\ UNCHANGED handler

ForwardRequest == Connect \/ Unreachable \/ Write \/ WriteThrows \/ ParseThrows \/ Unrecognized
Loop == ForwardRequest \/ Relay \/ RedirectNowhere \/ Redirect
Peer == \E text \in Texts : Read(text)

Next == (\E text \in Requests : HandleRequest(text)) \/ Loop \/ Peer \/ Return

(***************************************************************************)
(* The operating system runs the thread: weak fairness of Loop and Return, *)
(* written without ENABLED, for one of them is enabled just when Running.  *)
(* Nothing makes a peer answer.                                            *)
(***************************************************************************)
Running == pc \notin {"idle", "read"}

Spec == Init /\ [][Next]_vars
FairSpec == Spec /\ []<>~Running

-----------------------------------------------------------------------------
RequestType ==
  [form : {"parsed"}, method : Symbols, uri : Symbols, version : Symbols, cookie : Symbols,
   headers : Seq(Symbols \X Symbols), body : Symbols, raw : Symbols]

(***************************************************************************)
(* Every local of HandleRequest has its type; in particular a header of a  *)
(* response never lacks its name or its value.                             *)
(***************************************************************************)
TypeOK ==
  /\ pc \in {"idle", "forward", "write", "read", "parse", "done", "thrown"}
  /\ request \in RequestType /\ transformedRequest \in RequestType
  /\ nextHost \in Symbols
  /\ i \in 0 .. MAX_REDIRECTS
  /\ raw_response \in Symbols
  /\ response \in [code : Codes \cup {0}, body : Symbols,
                   headers : Seq((Symbols \ {<<>>}) \X (Symbols \ {<<>>}))]
  /\ status \in {"OK", "PROXY_ERROR"}
  /\ asked \in [host : Symbols, port : Symbols, text : Symbols]

(***************************************************************************)
(* Whatever a client sends that parses, cut off or with strange header     *)
(* lines, each host that is asked receives a request that parses, names    *)
(* that host, asks it to close the connection, and has the client's other  *)
(* headers and its body, which each hop lengthens by one carriage return   *)
(* (lines 54, 83-85, 93-106, request_handler.cc:117-156): what is sent is  *)
(* the raw text, what is updated are the fields.  Nothing encodes a blank  *)
(* or a line feed in the configured host or in a Location.                 *)
(***************************************************************************)
Kept(headers) ==
  FlattenSeq([k \in DOMAIN headers |->
    IF headers[k][1] \in {Host, Connection} THEN <<>> ELSE <<headers[k]>>])

Target == IF i = 0 THEN site.host \o site.urlpath ELSE GetHeader(response.headers, Location)
Asking == pc \in {"read", "parse"} /\ {" ", "\n"} \cap Range(Target) = {}

AsksProperly ==
  Asking =>
    LET sent == ParseRequest(asked.text)
    IN /\ sent.form = "parsed"
       /\ sent.method = request.method /\ sent.version = Http10
       /\ GetHeader(sent.headers, Host) = asked.host
       /\ GetHeader(sent.headers, Connection) = <<"close">>
       /\ Kept(sent.headers) = Kept(request.headers)
       /\ sent.body = Append(request.body, "\r")

(***************************************************************************)
(* The configured host is asked for the client's URI with the configured   *)
(* path for the prefix and one slash between them; the host a redirection  *)
(* with a full URL names is asked for the path it names (lines 114-124,    *)
(* 132-144).                                                               *)
(***************************************************************************)
Slashless(rest) == rest = <<>> \/ rest[1] # Slash
AsksForUri(uri) == ParseRequest(asked.text).uri = uri

FollowsUrl(url) ==
  LET parts == SplitAt(url, Slash)
  IN Len(parts) >= 3 /\ parts[2] = <<>> =>
       /\ asked.host = parts[3]
       /\ AsksForUri(IF Len(parts) = 3 THEN <<Slash>>
                     ELSE Rest(url, Len(parts[1]) + 2 + Len(parts[3])))

AsksForTheRightThing ==
  Asking =>
    IF i = 0
    THEN /\ asked.host = site.host
         /\ \A rest \in Suffixes(request.uri) :
              request.uri \in {prefix_ \o rest, prefix_ \o <<Slash>> \o rest} /\ Slashless(rest)
                => AsksForUri(site.urlpath \o rest)
    ELSE FollowsUrl(GetHeader(response.headers, Location))

(***************************************************************************)
(* The client gets the last host's answer: its code, its body, and its     *)
(* headers in their order.  Only the last header's value may have grown,   *)
(* and a header that stands alone is followed by another one (lines 204-   *)
(* 225 of request_handler.cc).                                             *)
(***************************************************************************)
RelaysAnswer ==
  pc = "done" /\ status = "OK" =>
    \A r \in Replies :
      LET n == Len(r.headers) IN
      n > 0 /\ raw_response = ResponseText(r) =>
        /\ response.code = r.code /\ response.body = r.body
        /\ SubSeq(response.headers, 1, n - 1) = SubSeq(r.headers, 1, n - 1)
        /\ response.headers[n][1] = r.headers[n][1]
        /\ IsPrefix(r.headers[n][2], response.headers[n][2])
        /\ n > 1 => Len(response.headers) = n

(***************************************************************************)
(* A redirection reaches the client as a success only when MAX_REDIRECTS   *)
(* of them have come one after the other (lines 57-87).                    *)
(***************************************************************************)
RedirectionsFollowed ==
  pc = "done" /\ status = "OK" /\ response.code \in {301, 302} => i = MAX_REDIRECTS

(***************************************************************************)
(* What HandleRequest returns and leaves in the response is what the model *)
(* of the session assumes of a proxy (lines 61-64, 73-77, 180-187).        *)
(***************************************************************************)
ResultsAsPromised ==
  pc = "done" => [status |-> status, code |-> response.code] \in ReverseProxyResults

(***************************************************************************)
(* When every peer that was asked closes its connection some day, every    *)
(* call returns or throws, also when hosts redirect to each other in a     *)
(* circle (lines 57, 197).                                                 *)
(***************************************************************************)
PeersClose == []<>(pc # "read")
CallsEnd == PeersClose => (pc # "idle" ~> pc = "idle")
=============================================================================
