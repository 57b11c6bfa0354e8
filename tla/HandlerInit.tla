----------------------------- MODULE HandlerInit -----------------------------
(***************************************************************************)
(* What the Init of each handler makes of its block of the configuration   *)
(* file.  The block is a sequence of statements, a statement its first     *)
(* token, which is compared with keywords only, and the rest of its        *)
(* tokens: sequences of characters, for "/" and digits matter in them.     *)
(***************************************************************************)
EXTENDS Text

CONSTANTS
  Chars, Slash,  \* the characters that are no digits, "/" among them
  IntMax,        \* largest int
  Driver         \* whether get_mysql_driver_instance returns a driver

Tokens == Seq(Chars \cup Digits) \ {<<>>}
BlockStatements == [word : STRING, args : Seq(Tokens)]

ASSUME HandlerAssumption ==
  /\ Slash \in Chars
  /\ IntMax \in Nat
  /\ Driver \in BOOLEAN

Reject(h, reason) == [h EXCEPT !.status = reason]
-----------------------------------------------------------------------------
(* StaticFileHandler::Init *)

(* root.back() of an empty root is never asked for: no token is empty. *)
Trimmed(path) == IF Last(path) = Slash THEN Front(path) ELSE path

ReadRoot(h, path) ==
  IF h.root = <<>> THEN [h EXCEPT !.root = Trimmed(path)]
                   ELSE Reject(h, "INVALID_CONFIG")

ReadUser(h, user, pass) ==
  IF user \in DOMAIN h.user_map
  THEN Reject(h, "INVALID_CONFIG")
  ELSE [h EXCEPT !.user_map = [u \in DOMAIN @ \cup {user} |->
                                 IF u = user THEN pass ELSE @[u]]]

ReadTimeout(h, token) ==
  IF h.timeout # 0 \/ ~IsNumber(token) THEN Reject(h, "INVALID_CONFIG")
  ELSE IF Number(token) > IntMax THEN Reject(h, "out_of_range")
  ELSE [h EXCEPT !.timeout = Number(token)]

(***************************************************************************)
(* A statement with the right number of tokens that is none of the three   *)
(* is ignored: also "user u" and "timeout n m".                            *)
(***************************************************************************)
ReadStatic(h, s) ==
  IF h.status # "OK" THEN h
  ELSE CASE Len(s.args) \notin {1, 2} -> Reject(h, "INVALID_CONFIG")
         [] s.word = "root" /\ Len(s.args) = 1 -> ReadRoot(h, s.args[1])
         [] s.word = "user" /\ Len(s.args) = 2 -> ReadUser(h, s.args[1], s.args[2])
         [] s.word = "timeout" /\ Len(s.args) = 1 -> ReadTimeout(h, s.args[1])
         [] OTHER -> h

NewStatic == [status |-> "OK", root |-> <<>>, user_map |-> [u \in {} |-> <<>>], timeout |-> 0]

(* Mutant: users without a timeout, or the reverse, go unnoticed. *)
InitStaticHalf(block) ==
  LET h == FoldLeft(ReadStatic, NewStatic, block)
  IN IF h.status = "OK" /\ h.root = <<>> THEN Reject(h, "INVALID_CONFIG") ELSE h

InitStatic(block) ==
  LET h == FoldLeft(ReadStatic, NewStatic, block)
      half == (DOMAIN h.user_map = {}) # (h.timeout = 0)
  IN IF h.status = "OK" /\ (h.root = <<>> \/ half) THEN Reject(h, "INVALID_CONFIG") ELSE h

-----------------------------------------------------------------------------
(* ReverseProxyHandler::Init: the last port and host count. *)

LastArg(block, word, otherwise) ==
  LET named == {k \in DOMAIN block : block[k].word = word /\ block[k].args # <<>>}
  IN IF named = {} THEN otherwise ELSE block[Max(named)].args[1]

InitProxy(block) ==
  LET fullHost == LastArg(block, "host", <<>>)
      slashes == {k \in DOMAIN fullHost : fullHost[k] = Slash}
      first == CHOOSE k \in slashes : \A j \in slashes : k <= j
      path == IF slashes = {} THEN <<Slash>> ELSE SubSeq(fullHost, first, Len(fullHost))
  IN [status |-> IF fullHost = <<>> THEN "INVALID_CONFIG" ELSE "OK",
      host |-> IF slashes = {} THEN fullHost ELSE SubSeq(fullHost, 1, first - 1),
      urlpath |-> IF Last(path) = Slash THEN path ELSE Append(path, Slash),
      port |-> LastArg(block, "port", <<"8", "0">>)]

-----------------------------------------------------------------------------
(* DatabaseHandler::Init: a second database, username or password is an error. *)

ReadDatabase(h, s) ==
  IF h.status # "OK" \/ Len(s.args) # 1 \/ s.word \notin {"database", "username", "password"}
  THEN h
  ELSE IF h[s.word] = <<>> THEN [h EXCEPT ![s.word] = s.args[1]]
                           ELSE Reject(h, "INVALID_CONFIG")

InitDatabase(block) ==
  LET h == FoldLeft(ReadDatabase, [status |-> "OK", database |-> <<>>, username |-> <<>>,
                                   password |-> <<>>], block)
  IN IF h.status # "OK" THEN h
     ELSE IF h.database = <<>> THEN Reject(h, "INVALID_CONFIG")
     ELSE IF ~Driver THEN Reject(h, "DATABASE_ERROR")
     ELSE h

(***************************************************************************)
(* The virtual Init of the handler a statement names.  The other handlers  *)
(* ignore their block.                                                     *)
(***************************************************************************)
InitHandler(class, block) ==
  CASE class = "StaticFileHandler" -> InitStatic(block).status
    [] class = "ReverseProxyHandler" -> InitProxy(block).status
    [] class = "DatabaseHandler" -> InitDatabase(block).status
    [] OTHER -> "OK"
=============================================================================
