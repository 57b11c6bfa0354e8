--------------------------- MODULE MCReverseProxy ---------------------------
(***************************************************************************)
(* Proxies, requests and answers for TLC.  All their words are short: a    *)
(* letter stands for a name.                                               *)
(***************************************************************************)
EXTENDS ReverseProxy

MCCharacters == STRING
Letters == {"/", "a", "b", "x", "p"}
MCDefaultPrefix == <<"d", "e", "f", "a", "u", "l", "t">>

Of(word, arg) == [word |-> word, args |-> <<arg>>]
P == <<"/", "p">>

MCHandlers ==
  {[prefix |-> P, block |-> <<Of("host", <<"a">>)>>],
   [prefix |-> <<"/">>, block |-> <<Of("port", <<"8", "1">>), Of("host", <<"a", "/", "x">>)>>],
   [prefix |-> MCDefaultPrefix, block |-> <<Of("host", <<"a", "/">>)>>]}

(***************************************************************************)
(* A browser's GET and POST, whole and cut off anywhere, with and without  *)
(* the headers that the proxy changes, and lines that are no headers.      *)
(***************************************************************************)
Line(name, value) == name \o ColonSpace \o value \o CRLF
RequestText(method, uri, lines, body) ==
  <<method, " ">> \o uri \o <<" ">> \o Http10 \o CRLF \o FlattenSeq(lines) \o CRLF \o body

HostLine == Line(Host, <<"x">>)
CookieLine == Line(Cookie, <<"q", ";", "private=", "a">>)
MCRequests ==
  {RequestText("GET", uri, <<HostLine>>, <<>>) :
     uri \in {P, P \o <<"/">>, P \o <<"/", "x">>, P \o <<"/", "/", "x">>, <<"/">>, <<"/", "x">>,
              P \o P \o P \o P \o P, P \o P \o P \o <<"a">>}}
  \cup {RequestText("GET", P, lines, <<>>) :
     lines \in {<<>>, <<CookieLine, HostLine, HostLine>>, <<<<"x">> \o CRLF, HostLine>>,
                <<<<"x", ":", "a">> \o CRLF>>, <<Line(Connection, <<"open">>), HostLine>>}}
  \cup Prefixes(RequestText("POST", P, <<Line(Connection, <<"open">>), CookieLine>>,
                            <<"x", "\n", "x">>))

(***************************************************************************)
(* Redirections within a host, to another one, in a circle, to a relative  *)
(* URI, without a Location and with it as the last or only header; pages;  *)
(* and the same cut off anywhere, codes that are unknown or no number.     *)
(***************************************************************************)
Reply(code, headers, body) == [code |-> code, headers |-> headers, body |-> body]
Type == <<<<"T", "ype">>, <<"t">>>>
To(location) == <<Location, location>>
Urls == {<<"h", ":", "/", "/", "a">> \o path : path \in {<<>>, <<"/">>}}
          \cup {<<"h", ":", "/", "/", "b", "/", "x">>, <<"/", "p", "/", "x">>, <<"x">>,
               <<"h", ":", "/", "/", "a", "/", " ", "x">>}

MCReplies ==
  {Reply(302, <<To(url), Type>>, <<>>) : url \in Urls}
  \cup {Reply(301, <<Type, To(<<"h", ":", "/", "/", "b", "/", "x">>)>>, <<>>),
        Reply(302, <<To(<<"/", "x">>)>>, <<"x">>),
        Reply(301, <<Type, Type>>, <<>>), Reply(404, <<Type>>, <<"x", ":", " ", "x">> \o CRLF \o CRLF),
        Reply(200, <<Type, To(<<"x">>), Type>>, <<"x">> \o CRLF),
        Reply(200, <<>>, <<"x", ":", " ", "x">> \o CRLF)}

MCTexts ==
  {ResponseText(r) : r \in MCReplies}
  \cup Prefixes(ResponseText(Reply(500, <<Type>>, <<"x">>)))
  \cup {Http10 \o <<" ", "2", "0", "4", " ">> \o CRLF \o CRLF, <<"x">>}
=============================================================================
