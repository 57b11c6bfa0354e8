------------------------------- MODULE Routing -------------------------------
(***************************************************************************)
(* The routing table of the Webserver object (src/src/Webserver.cc): how   *)
(* load_configs and add_handler fill it from the configuration, statement  *)
(* by statement, and how get_handler and find_prefix look a URI up in it.  *)
(*                                                                         *)
(* A URI or a prefix is a sequence over a small set of characters: the     *)
(* search compares prefixes character by character, and where the "/" are  *)
(* is all it depends on.  handler_map is an unordered_map: the loop of     *)
(* find_prefix visits its entries in any order.                            *)
(***************************************************************************)
EXTENDS HandlerInit, FiniteSets

CONSTANTS
  Default,       \* the word "default", the key of the default handler
  Handlers,      \* the names RequestHandler::CreateByName knows
  NoHandler,     \* what handler_map.end() points to
  Configs,       \* configurations: sequences of statements
  Lookups,       \* the URIs of the requests
  PortRange      \* 2^16, the values of an unsigned short

Paths == Seq(Chars)

(***************************************************************************)
(* A statement with its tokens classified: kind "other" is one that is too *)
(* short, too long or begins with no known word.  handler may be a name    *)
(* nobody registered, and block is what the handler's Init is given.       *)
(***************************************************************************)
Statements ==
  [kind : {"port"}, number : Nat, digits : BOOLEAN, block : BOOLEAN]
    \cup [kind : {"path"}, prefix : Paths \ {<<>>}, handler : STRING,
          block : Seq(BlockStatements)]
    \cup [kind : {"default"}, handler : STRING, block : Seq(BlockStatements)]
    \cup [kind : {"other"}]

ASSUME RoutingAssumption ==
  /\ Default \in Paths \ {<<>>}
  /\ Handlers \subseteq STRING
  /\ NoHandler \notin Handlers
  /\ Configs \subseteq Seq(Statements)
  /\ Lookups \subseteq Paths
  /\ PortRange \in Nat \ {0}

VARIABLES
  config,
  next,         \* load_configs: index of the next statement
  port,
  handler_map,  \* prefix -> handler
  handlers_,    \* the tracker's list of <<prefix, handler>>
  pc, uri,
  todo,         \* entries the loop of find_prefix has not visited
  longest,
  handler       \* result of get_handler

table == <<config, next, port, handler_map, handlers_>>
lookup == <<uri, todo, longest, handler>>
vars == <<table, pc, lookup>>

Mapped == DOMAIN handler_map

(***************************************************************************)
(* Without a port statement the port member is never written.              *)
(***************************************************************************)
Init ==
  /\ config \in Configs
  /\ next = 1
  /\ port \in 0 .. PortRange - 1
  /\ handler_map = [p \in {} |-> NoHandler]
  /\ handlers_ = <<>>
  /\ pc = "load"
  /\ uri = <<>> /\ todo = {} /\ longest = <<>> /\ handler = NoHandler

-----------------------------------------------------------------------------
(* load_configs, one statement at a time; a failure ends the program. *)

Loading == pc = "load" /\ next <= Len(config)
Stmt == config[next]

GoodPort == Stmt.kind = "port" /\ ~Stmt.block /\ Stmt.digits /\ Stmt.number <= IntMax

LoadPort ==
  /\ Loading /\ GoodPort
  /\ port' = Stmt.number % PortRange
  /\ next' = next + 1
  /\ UNCHANGED <<config, handler_map, handlers_, pc, lookup>>

Prefix(s) == IF s.kind = "default" THEN Default ELSE s.prefix

Accepted == InitHandler(Stmt.handler, Stmt.block) = "OK"

(* Mutants: CreateByName's null and an existing mapping go unnoticed. *)
GoodHandlerUnknown ==
  Stmt.kind \in {"path", "default"} /\ Accepted /\ Prefix(Stmt) \notin Mapped
GoodHandlerTwice ==
  Stmt.kind \in {"path", "default"} /\ Stmt.handler \in Handlers /\ Accepted

GoodHandler ==
  /\ Stmt.kind \in {"path", "default"}
  /\ Stmt.handler \in Handlers
  /\ Accepted
  /\ Prefix(Stmt) \notin Mapped

AddHandler ==
  /\ Loading /\ GoodHandler
  /\ handler_map' = [p \in Mapped \cup {Prefix(Stmt)} |->
       IF p = Prefix(Stmt) THEN Stmt.handler ELSE handler_map[p]]
  /\ handlers_' = Append(handlers_, <<Prefix(Stmt), Stmt.handler>>)
  /\ next' = next + 1
  /\ UNCHANGED <<config, port, pc, lookup>>

(***************************************************************************)
(* syntax_error, an add_handler that fails, std::stoi out of range, and    *)
(* the empty configuration all end in main's return.                       *)
(***************************************************************************)
LoadFails ==
  /\ \/ Loading /\ ~GoodPort /\ ~GoodHandler
     \/ pc = "load" /\ config = <<>>
  /\ pc' = "exit"
  /\ UNCHANGED <<table, lookup>>

LoadEnds ==
  /\ pc = "load" /\ config # <<>> /\ next > Len(config)
  /\ pc' = "listen"
  /\ UNCHANGED <<table, lookup>>

-----------------------------------------------------------------------------
(* get_handler *)

(***************************************************************************)
(* uri.substr(0, last): all of the URI when it has no "/".                 *)
(***************************************************************************)
Slashes(u) == {k \in DOMAIN u : u[k] = Slash}
LastSlash(u) == CHOOSE k \in Slashes(u) : \A j \in Slashes(u) : j <= k
Parent(u) == IF Slashes(u) = {} THEN u ELSE SubSeq(u, 1, LastSlash(u) - 1)

(* Mutant: the "/" after the match is not asked for. *)
MatchesLetters(m, p) == IsPrefix(m, p)

Matches(m, p) ==
  /\ IsPrefix(m, p)
  /\ Len(m) \in {1, Len(p)} \/ p[Len(m) + 1] = Slash

GetHandler(u) ==
  /\ pc = "listen"
  /\ uri' = u
  /\ IF u \in Mapped
     THEN /\ handler' = handler_map[u]
          /\ pc' = "found"
          /\ UNCHANGED <<todo, longest>>
     ELSE /\ todo' = Mapped
          /\ longest' = <<>>
          /\ pc' = "find"
          /\ UNCHANGED handler
  /\ UNCHANGED table

(* Mutant: the last match visited wins. *)
FindPrefixLast(m) ==
  /\ pc = "find" /\ m \in todo
  /\ todo' = todo \ {m}
  /\ longest' = IF Matches(m, Parent(uri)) THEN m ELSE longest
  /\ UNCHANGED <<table, pc, uri, handler>>

FindPrefix(m) ==
  /\ pc = "find" /\ m \in todo
  /\ todo' = todo \ {m}
  /\ longest' = IF Matches(m, Parent(uri)) /\ Len(m) > Len(longest) THEN m ELSE longest
  /\ UNCHANGED <<table, pc, uri, handler>>

FindEnds ==
  /\ pc = "find" /\ todo = {}
  /\ pc' = "found"
  /\ handler' = IF longest \in Mapped THEN handler_map[longest]
                ELSE IF Default \in Mapped THEN handler_map[Default]
                ELSE NoHandler
  /\ UNCHANGED <<table, uri, todo, longest>>

(***************************************************************************)
(* The session takes the handler; dereferencing NoHandler ends the program.*)
(***************************************************************************)
Dispatch ==
  /\ pc = "found"
  /\ pc' = IF handler = NoHandler THEN "exit" ELSE "listen"
  /\ uri' = <<>> /\ longest' = <<>> /\ handler' = NoHandler
  /\ UNCHANGED <<table, todo>>

Next ==
  \/ LoadPort \/ AddHandler \/ LoadFails \/ LoadEnds
  \/ \E u \in Lookups : GetHandler(u)
  \/ \E m \in todo : FindPrefix(m)
  \/ FindEnds \/ Dispatch

Spec == Init /\ [][Next]_vars

-----------------------------------------------------------------------------
TypeOK ==
  /\ config \in Configs
  /\ next \in Nat \ {0}
  /\ port \in 0 .. PortRange - 1
  /\ Mapped \subseteq Paths \ {<<>>}
  /\ handler_map \in [Mapped -> Handlers]
  /\ handlers_ \in Seq(Mapped \X Handlers)
  /\ pc \in {"load", "listen", "find", "found", "exit"}
  /\ uri \in Paths
  /\ todo \subseteq Mapped
  /\ longest \in Paths
  /\ handler \in Handlers \cup {NoHandler}

(***************************************************************************)
(* A server that listens has exactly one entry for every path and default  *)
(* statement, shows the same list on its status page in the order of the   *)
(* file, and listens on the last configured port that fits (lines 21-78,   *)
(* 100-109).                                                               *)
(***************************************************************************)
Chosen(kinds, n) ==
  FlattenSeq([i \in 1 .. n |-> IF config[i].kind \in kinds THEN <<config[i]>> ELSE <<>>])
Mappings == Chosen({"path", "default"}, Len(config))
Ports == Chosen({"port"}, Len(config))

ConfigLoaded ==
  pc \notin {"load", "exit"} =>
    LET mappings == Mappings
        ports == Ports
    IN /\ handlers_ = [i \in DOMAIN mappings |-> <<Prefix(mappings[i]), mappings[i].handler>>]
       /\ \A i, j \in DOMAIN handlers_ : handlers_[i][1] = handlers_[j][1] => i = j
       /\ handler_map = [p \in {handlers_[i][1] : i \in DOMAIN handlers_} |->
            (CHOOSE h \in Range(handlers_) : h[1] = p)[2]]
       /\ ports # <<>> => port = ports[Len(ports)].number % PortRange

(***************************************************************************)
(* While find_prefix runs, longest is the longest match among the entries  *)
(* already visited, so that its result is the same for every iteration     *)
(* order of the unordered_map (lines 196-205).                             *)
(***************************************************************************)
BestSoFar(seen) ==
  /\ longest \in {m \in seen : Matches(m, Parent(uri))} \cup {<<>>}
  /\ \A m \in seen : Matches(m, Parent(uri)) => Len(m) <= Len(longest)

LongestMatch == pc = "find" => BestSoFar(Mapped \ todo)

(***************************************************************************)
(* The handler of a URI is that of the entry equal to it, or else of the   *)
(* innermost mapped directory around it, or else the default handler: a    *)
(* prefix never captures a sibling that merely starts with its letters     *)
(* (/foo and /fooo/a, lines 126-142 and 199-200).  An entry one character  *)
(* long captures everything in a directory that starts with it.            *)
(***************************************************************************)
Covers(m, u) ==
  \/ \E k \in Slashes(u) : m = SubSeq(u, 1, k - 1)
  \/ \E k \in DOMAIN u : /\ m = <<u[1]>>
                         /\ Slashes(u) # {} => k \in Slashes(u) \ {1}

RoutesToInnermost ==
  pc = "found" =>
    LET around == {m \in Mapped : Covers(m, uri)}
        innermost == {m \in around : \A n \in around : Len(n) <= Len(m)}
    IN CASE uri \in Mapped -> handler = handler_map[uri]
         [] uri \notin Mapped /\ around # {} ->
              \A m \in innermost : handler = handler_map[m]
         [] OTHER -> IF Default \in Mapped THEN handler = handler_map[Default]
                                           ELSE handler = NoHandler

(***************************************************************************)
(* A server that listens protects a directory wholly or not at all: the    *)
(* block of each StaticFileHandler names users, each of them once, just    *)
(* when it names a timeout above zero, in whatever order the statements    *)
(* come, and exactly one root that is more than a slash (lines 47-132 of   *)
(* static_file_handler.cc).                                                *)
(***************************************************************************)
Named(block, word, n) ==
  {i \in DOMAIN block : block[i].word = word /\ Len(block[i].args) = n}

WhollyProtected(block) ==
  LET users == Named(block, "user", 2)
      timeouts == {i \in Named(block, "timeout", 1) : Number(block[i].args[1]) > 0}
      roots == {i \in Named(block, "root", 1) : block[i].args[1] # <<Slash>>}
  IN /\ users = {} <=> timeouts = {}
     /\ \A i, j \in users : block[i].args[1] = block[j].args[1] => i = j
     /\ Cardinality(timeouts) <= 1 /\ Cardinality(roots) = 1

ProtectionIsWhole ==
  pc \notin {"load", "exit"} =>
    LET mappings == Mappings
    IN \A i \in DOMAIN mappings :
         mappings[i].handler = "StaticFileHandler" => WhollyProtected(mappings[i].block)
=============================================================================
