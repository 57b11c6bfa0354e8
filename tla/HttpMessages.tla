---------------------------- MODULE HttpMessages ----------------------------
(***************************************************************************)
(* Request and Response (src/src/request_handler.cc): how each is read     *)
(* from a text and written as one.                                         *)
(***************************************************************************)
EXTENDS Text, HandlerStatus

Chop(text) == IF text = <<>> THEN <<>> ELSE Front(text)

CRLF == <<"\r", "\n">>
Colon == <<":">>
ColonSpace == <<":", " ">>

(* A version is four symbols, for a text can be cut after its third character. *)
Http10 == <<"H", "T", "T", "P/1.0">>
Host == <<"H", "ost">>
Connection == <<"C", "onnection">>
Location == <<"L", "ocation">>
Cookie == <<"C", "ookie">>

GetHeader(headers, name) ==
  LET at == SelectInSeq(headers, LAMBDA h : h[1] = name)
  IN IF at = 0 THEN <<>> ELSE headers[at][2]

-----------------------------------------------------------------------------
(* Request *)

(***************************************************************************)
(* One header line: substr throws when nothing follows the colon, not even *)
(* the carriage return.  A line without a colon is a header without name.  *)
(***************************************************************************)
HeaderThrows(line) == Find(line, Colon, 0) = Len(line) - 1
Header(line) ==
  LET colon == Find(line, Colon, 0)
  IN IF colon = Npos THEN <<<<>>, <<>>>>
     ELSE <<Substr(line, 0, colon), Chop(Rest(line, colon + 2))>>

CookieValue(value) ==
  LET first == Find(value, <<"private=">>, 0) + 1
  IN Substr(value, first, Find(value, <<";">>, first) - first)

(* The last of the cookies with a private part counts. *)
CookieOf(headers) ==
  LET carriers == {k \in DOMAIN headers : /\ headers[k][1] = Cookie
                                         /\ Find(headers[k][2], <<"private=">>, 0) # Npos}
  IN IF carriers = {} THEN <<>> ELSE CookieValue(headers[Max(carriers)][2])

Blank(line) == line = <<>> \/ line[1] = "\r"

ParseRequest(text) ==
  LET lines == Lines(text)
      words == IF lines = <<>> THEN <<<<>>, <<>>, <<>>>> ELSE SplitAt(lines[1], " ")
      end == Min({i \in 2 .. Len(lines) : Blank(lines[i])} \cup {Len(lines) + 1})
      fields == SubSeq(lines, 2, end - 1)
      headers == [i \in DOMAIN fields |-> Header(fields[i])]
  IN IF Len(words) # 3 THEN [form |-> "nullptr"]
     ELSE IF \E i \in DOMAIN fields : HeaderThrows(fields[i]) THEN [form |-> "throws"]
     ELSE [form |-> "parsed", method |-> words[1], uri |-> words[2], version |-> Chop(words[3]),
           headers |-> headers, cookie |-> CookieOf(headers),
           body |-> FlattenSeq(SubSeq(lines, end + 1, Len(lines))), raw |-> text]

HeaderText(headers) ==
  FlattenSeq([i \in DOMAIN headers |-> headers[i][1] \o ColonSpace \o headers[i][2] \o CRLF])

RawRequest(r) ==
  r.method \o <<" ">> \o r.uri \o <<" ">> \o r.version \o CRLF
    \o HeaderText(r.headers) \o CRLF \o r.body \o CRLF

UpdateRaw(r) == [r EXCEPT !.raw = RawRequest(r)]

(* Mutant: a header that exists is not looked for. *)
AppendedHeaders(headers, name, value) == Append(headers, <<name, value>>)
UpdatedHeaders(headers, name, value) ==
  LET at == SelectInSeq(headers, LAMBDA h : h[1] = name)
  IN IF at = 0 THEN Append(headers, <<name, value>>) ELSE [headers EXCEPT ![at][2] = value]

UpdateHeader(r, name, value) ==
  UpdateRaw([r EXCEPT !.headers = UpdatedHeaders(r.headers, name, value)])
UpdateUri(r, uri) == UpdateRaw([r EXCEPT !.uri = uri])
SetVersion(r, version) == UpdateRaw([r EXCEPT !.version = version])

-----------------------------------------------------------------------------
(* Response *)

NoResponse == [code |-> 0, headers |-> <<>>, body |-> <<>>]

(***************************************************************************)
(* The status line's second word: nothing counts as 0, and std::stoi reads *)
(* the digits it begins with and throws when there are none.               *)
(***************************************************************************)
CodeText(text) ==
  LET line == Substr(text, 0, Find(text, CRLF, 0))
      version == Find(line, <<" ">>, 0)
  IN Substr(line, version + 1, Find(line, <<" ">>, version + 1) - version - 1)

CodeThrows(word) == word # <<>> /\ word[1] \notin Digits
CodeNumber(word) ==
  LET end == SelectInSeq(word, LAMBDA c : c \notin Digits)
  IN Number(IF end = 0 THEN word ELSE SubSeq(word, 1, end - 1))

AllHeaders(text) ==
  LET line == Find(text, CRLF, 0)
  IN Substr(text, line + 2, Find(text, CRLF \o CRLF, 0) - line - 1)

(***************************************************************************)
(* The loop over all_headers.  It goes on two symbols behind the value it  *)
(* has read, or at position 1 when no line end follows the value, and      *)
(* stops when that is no progress.                                         *)
(***************************************************************************)
FieldsBy(all, step) ==
  LET from[i \in 0 .. Len(all)] ==
        LET name == Find(all, ColonSpace, i)
            value == Find(all, CRLF, name + 1)
        IN IF name = Npos THEN <<>>
           ELSE <<<<Substr(all, i, name - i), Substr(all, name + 2, value - name - 2)>>>>
                  \o (IF value + step > i THEN from[value + step] ELSE <<>>)
  IN from[0]

(* Mutant: the next header begins at the line feed. *)
FieldsFromLineFeed(all) == FieldsBy(all, 1)
Fields(all) == FieldsBy(all, 2)

AddedIf(fields, good) ==
  FlattenSeq([k \in DOMAIN fields |-> IF k \in good THEN <<fields[k]>> ELSE <<>>])
(* Mutant: a header without a value is added. *)
AddedAll(fields) == AddedIf(fields, {k \in DOMAIN fields : fields[k][1] # <<>>})
(* AddHeader ignores a header without a name or a value. *)
Added(fields) ==
  AddedIf(fields, {k \in DOMAIN fields : fields[k][1] # <<>> /\ fields[k][2] # <<>>})

Body(text) == Rest(text, Find(text, CRLF \o CRLF, 0) + 4)

ParseResponse(text) ==
  LET word == CodeText(text)
  IN IF CodeThrows(word) THEN [form |-> "throws"]
     ELSE IF CodeNumber(word) \notin Codes THEN [form |-> "nullptr"]
     ELSE [form |-> "parsed", response |-> [code |-> CodeNumber(word),
             headers |-> Added(Fields(AllHeaders(text))), body |-> Body(text)]]

Spelled(code) ==
  <<Digit[(code \div 100) + 1], Digit[((code \div 10) % 10) + 1], Digit[(code % 10) + 1]>>

(* Response::ToString *)
ResponseText(r) ==
  Http10 \o <<" ">> \o Spelled(r.code) \o <<" ", "reason">> \o CRLF
    \o HeaderText(r.headers) \o CRLF \o r.body
=============================================================================
