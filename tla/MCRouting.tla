----------------------------- MODULE MCRouting -----------------------------
(***************************************************************************)
(* Configurations and URIs for TLC: prefixes and URIs of at most           *)
(* MaxLength characters over "/" and one letter, "d" standing for the word *)
(* default.                                                                *)
(***************************************************************************)
EXTENDS Routing, TLC

CONSTANTS MaxLength, a, d

MCChars == {Slash, a, d}
MCDefault == <<d, d>>
Words(S, n) == UNION {[1 .. k -> S] : k \in 1 .. n}

(***************************************************************************)
(* Every block of at most three of the statements of a StaticFileHandler,  *)
(* and of at most two of the other handlers' statements.                   *)
(***************************************************************************)
Of(word, args) == [word |-> word, args |-> args]

StaticStatements ==
  {Of("root", <<<<Slash>>>>), Of("root", <<<<Slash, a, Slash>>>>), Of("user", <<<<a>>, <<d>>>>),
   Of("user", <<<<d>>, <<d>>>>), Of("timeout", <<<<"0">>>>), Of("timeout", <<<<"7">>>>),
   Of("timeout", <<<<a>>>>), Of("timeout", <<<<"9">>>>), Of("user", <<<<a>>>>), Of("root", <<>>)}
OtherStatements ==
  {Of("host", <<<<a>>>>), Of("host", <<<<a, Slash, a>>>>), Of("port", <<<<"8", "0">>>>),
   Of("database", <<<<a>>>>), Of("username", <<<<a>>>>), Of("host", <<>>)}

StaticBlocks == {<<>>} \cup Words(StaticStatements, 3)
OtherBlocks == {<<>>} \cup Words(OtherStatements, 2)

MyFiles == <<Of("root", <<<<Slash, a>>>>)>>
MyProxy == <<Of("host", <<<<a>>>>)>>

(***************************************************************************)
(* Every legal or illegal start: zero to three statements of any kind, also *)
(* a handler nobody registered, a block its handler rejects, a port that   *)
(* is no number, wraps around or is too large for an int, and a path       *)
(* called default; and every block.                                        *)
(***************************************************************************)
Port(n, dig, b) == [kind |-> "port", number |-> n, digits |-> dig, block |-> b]
Path(p, h, b) == [kind |-> "path", prefix |-> p, handler |-> h, block |-> b]
Def(h, b) == [kind |-> "default", handler |-> h, block |-> b]

SomeStatements ==
  {Port(1, TRUE, FALSE), Port(2, TRUE, FALSE), Port(5, TRUE, FALSE), Port(9, TRUE, FALSE),
   Port(1, FALSE, FALSE), Port(1, TRUE, TRUE), [kind |-> "other"],
   Path(<<Slash>>, "EchoHandler", <<>>), Path(<<Slash, a>>, "ReverseProxyHandler", MyProxy),
   Path(<<Slash, a>>, "StaticFileHandler", <<>>), Path(<<Slash, a>>, "StatusHandler", <<>>),
   Path(<<Slash, a>>, "Nobody", <<>>), Path(<<d, d>>, "StaticFileHandler", MyFiles),
   Def("NotFoundHandler", <<>>), Def("DatabaseHandler", <<>>), Def("Nobody", <<>>)}

LoadConfigs == UNION {[1 .. n -> SomeStatements] : n \in 0 .. 3}

BlockConfigs ==
  {<<Path(<<Slash, a>>, "StaticFileHandler", b)>> : b \in StaticBlocks}
  \cup {<<Def(h, b)>> : h \in {"ReverseProxyHandler", "DatabaseHandler"}, b \in OtherBlocks}

(***************************************************************************)
(* All tables of at most three paths, with and without a default handler.  *)
(***************************************************************************)
TablePaths ==
  {<<Slash>>, <<a>>, <<Slash, a>>, <<Slash, a, a>>, <<Slash, a, Slash>>,
   <<Slash, a, Slash, a>>, <<Slash, a, Slash, a, a>>, <<d, d>>}

Name(p) == CASE p = <<Slash>> -> "Root" [] p = <<a>> -> "Letter" [] p = <<Slash, a>> -> "Outer"
             [] p = <<Slash, a, a>> -> "Longer" [] p = <<Slash, a, Slash>> -> "Slashed"
             [] p = <<Slash, a, Slash, a>> -> "Inner" [] p = <<d, d>> -> "Fallback"
             [] OTHER -> "Innermost"

Table(p) == Path(p, Name(p), <<>>)
Fallback == Def("NotFoundHandler", <<>>)

TableConfigs ==
  {<<Table(p), Table(q), Table(r)>> : p, q, r \in TablePaths}
  \cup {<<Fallback, Table(p), Table(q)>> : p, q \in TablePaths}
  \cup {<<Fallback, Table(<<Slash>>), Table(p), Table(q)>> : p, q \in TablePaths}

AllConfigs == LoadConfigs \cup TableConfigs \cup BlockConfigs
TableLookups == Words({Slash, a}, MaxLength) \cup {<<d, d>>, <<d, d, Slash, a>>, <<>>}

(***************************************************************************)
(* The registered handlers, and for the tables a name for each path.       *)
(***************************************************************************)
MCHandlers == {"EchoHandler", "NotFoundHandler", "StatusHandler", "StaticFileHandler",
               "ReverseProxyHandler", "DatabaseHandler"} \cup {Name(p) : p \in TablePaths}
NoHandlerName == "none"
=============================================================================
