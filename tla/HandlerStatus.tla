---------------------------- MODULE HandlerStatus ----------------------------
(***************************************************************************)
(* What a handler's HandleRequest returns and leaves in the response, as   *)
(* far as the session sees it (src/src/request_handler.h): the promise of  *)
(* the handlers' own modules, and the assumption of Webserver.             *)
(***************************************************************************)
Statuses == {"OK", "INVALID_URI", "FILE_NOT_FOUND", "PROXY_ERROR", "DATABASE_ERROR"}
Codes == {200, 301, 302, 400, 404, 500, 501}

(***************************************************************************)
(* A response, with the status its handler returned.  Code 0 stands for    *)
(* the indeterminate status_code_ of a new Response, which ToString prints *)
(* as an empty status.                                                     *)
(***************************************************************************)
Results == [status : Statuses, code : Codes \cup {0}]

EchoResults == {[status |-> "OK", code |-> 200]}
NotFoundResults == {[status |-> "OK", code |-> 404]}

(* Mutant: a missing file is reported as INVALID_URI. *)
FileResultsInvalid ==
  [status : {"OK"}, code : {200, 302}] \cup [status : {"INVALID_URI"}, code : {0}]
FileResults ==
  [status : {"OK"}, code : {200, 302}] \cup [status : {"FILE_NOT_FOUND"}, code : {0}]

(* Of a StaticFileHandler asked for a URI that does not begin with its prefix. *)
ForeignResults == [status : {"INVALID_URI"}, code : {0}]

(* A proxy relays any code it can parse, and gives up before or after it has *)
(* copied a redirection. *)
ReverseProxyResults ==
  [status : {"OK"}, code : Codes] \cup [status : {"PROXY_ERROR"}, code : {0, 301, 302}]

(* An error of the database is reported as a success to the client. *)
DatabaseResults == [status : {"OK", "DATABASE_ERROR"}, code : {200}]
=============================================================================
