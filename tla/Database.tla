------------------------------ MODULE Database ------------------------------
(***************************************************************************)
(* The calls of HandleRequest of a DatabaseHandler                         *)
(* (src/src/database_handler.cc).  Each call opens a connection to MySQL   *)
(* of its own, runs the query of the URI and answers with the rows.        *)
(*                                                                         *)
(*   idle -> connect -> extract -> schema -> create -> execute -> fetch    *)
(*             |           |         |         |          |  |      |      *)
(*             |           |         |         |          |  `-> free      *)
(*             `-----------+---------+---------+----------+-----> done     *)
(*                                                                         *)
(* The handler's members never change after Init; what the calls share is  *)
(* the heap, and the number of connections that the server lets a process  *)
(* have.  Every call of the library may throw an SQLException.  A          *)
(* connection nobody deletes stays open: nothing here lets it time out.    *)
(***************************************************************************)
EXTENDS Text, HandlerStatus

CONSTANTS
  Characters,    \* what texts are made of
  Threads,
  Uris,          \* URIs of requests, as texts
  Tables,        \* results of selects, [cols, rows]
  Counts,        \* numbers of rows an update can affect
  Connections, NoConnection,
  Symbol,        \* the character with each code
  Queries        \* what users type

ASSUME DatabaseAssumption ==
  /\ NoConnection \notin Connections
  /\ Counts \subseteq Nat
  /\ DOMAIN Symbol = 0 .. 255
  /\ Queries \subseteq Seq(Range(Symbol))

(***************************************************************************)
(* What the code writes are characters, numbers among them.  A name or a   *)
(* value from the database is one too, and no line feed by itself.         *)
(***************************************************************************)
Written ==
  {"{", "}", "[", "]", ":", ",", "'", "\n", "cols", "data", "Query OK, ", " rows affected.",
   "Error: Could not connect to MySQL database.", "Error: Could not find query parameter.",
   "Error: ", "what()", " "}

ASSUME TextAssumption ==
  /\ Written \cup Range(Symbol) \subseteq Characters
  /\ Uris \subseteq Seq(Characters)
  /\ Tables \subseteq [cols : Seq(Characters), rows : Seq(Seq(Characters))]
  /\ \A table \in Tables : \A words \in {table.cols} \cup Range(table.rows) :
       "\n" \notin Range(words)
  /\ \A table \in Tables : \A k \in DOMAIN table.rows :
       ToString(k) \in Characters /\ ToString(k) # "\n"
  /\ \A n \in Counts : ToString(n) \in Characters

VARIABLES
  pc, uri,
  connection,    \* the local variable of that name
  query,
  results,       \* the table the result set stands for
  output,
  answer,        \* the status returned, and the response's code and body
  heap,          \* the library's objects, each with the connection it serves
  abandoned      \* history: the connections of the calls that have failed

locals == <<pc, uri, connection, query, results, output, answer>>
vars == <<locals, heap, abandoned>>

NoTable == [cols |-> <<>>, rows |-> <<>>]
NoAnswer == [status |-> "OK", code |-> 0, body |-> <<>>]
Answer(status, body) == [status |-> status, code |-> 200, body |-> body]

Init ==
  /\ pc = [t \in Threads |-> "idle"]
  /\ uri = [t \in Threads |-> <<>>]
  /\ connection = [t \in Threads |-> NoConnection]
  /\ query = [t \in Threads |-> <<>>]
  /\ results = [t \in Threads |-> NoTable]
  /\ output = [t \in Threads |-> <<>>]
  /\ answer = [t \in Threads |-> NoAnswer]
  /\ heap = {} /\ abandoned = {}

Open == {c \in Connections : <<"connection", c>> \in heap}

-----------------------------------------------------------------------------
(* ExtractQuery *)

LowerHex == <<"a", "b", "c", "d", "e", "f">>
UpperHex == <<"A", "B", "C", "D", "E", "F">>

FromHex(c) ==
  CASE c \in Digits -> Value(c)
    [] c \in Range(LowerHex) -> 9 + SelectInSeq(LowerHex, LAMBDA h : h = c)
    [] c \in Range(UpperHex) -> 9 + SelectInSeq(UpperHex, LAMBDA h : h = c)
    [] OTHER -> 0

(* Mutant: the two digits are swapped. *)
DecodedSwapped(hi, lo) == Symbol[FromHex(hi) + 16 * FromHex(lo)]
Decoded(hi, lo) == Symbol[16 * FromHex(hi) + FromHex(lo)]

(***************************************************************************)
(* A percent sign with fewer than two characters behind it stands for      *)
(* itself.                                                                 *)
(***************************************************************************)
URLDecode(text) ==
  LET from[k \in 1 .. Len(text) + 1] ==
        IF k > Len(text) THEN <<>>
        ELSE IF text[k] = "%" /\ k + 2 <= Len(text)
             THEN <<Decoded(text[k + 1], text[k + 2])>> \o from[k + 3]
             ELSE <<IF text[k] = "+" THEN " " ELSE text[k]>> \o from[k + 1]
  IN from[1]

ExtractQuery(u) ==
  LET start == Find(u, <<"query=">>, 0)
  IN IF start = Npos THEN <<>> ELSE URLDecode(Rest(u, start + 1))

-----------------------------------------------------------------------------
(* GetJSONResults *)

Quoted(word) == <<"'", word, "'">>

(* Mutant: no element is known to be the last. *)
ListedWithComma(words) ==
  FlattenSeq([k \in DOMAIN words |-> Append(Quoted(words[k]), ",")])
Listed(words) ==
  FlattenSeq([k \in DOMAIN words |->
    Quoted(words[k]) \o IF k = Len(words) THEN <<>> ELSE <<",">>])

Row(k, values) == Quoted(ToString(k)) \o <<":", "[">> \o Listed(values) \o <<"]", ",", "\n">>

(* The last comma and line feed are cut off, if there are rows. *)
GetJSONResults(table) ==
  LET head == <<"{", "\n">> \o Quoted("cols") \o <<":", "[">> \o Listed(table.cols)
                \o <<"]", ",", "\n">> \o Quoted("data") \o <<":", "{", "\n">>
      all == head \o FlattenSeq([k \in DOMAIN table.rows |-> Row(k, table.rows[k])])
  IN Substr(all, 0, IF table.rows = <<>> THEN Npos ELSE Len(all) - 2) \o <<"}", "\n", "}">>

-----------------------------------------------------------------------------
Goto(t, from, to) == pc[t] = from /\ pc' = [pc EXCEPT ![t] = to]
Respond(t, status, body) == answer' = [answer EXCEPT ![t] = Answer(status, body)]

HandleRequest(t, u) ==
  /\ Goto(t, "idle", "connect")
  /\ uri' = [uri EXCEPT ![t] = u]
  /\ UNCHANGED <<connection, query, results, output, answer, heap, abandoned>>

Connect(t, c) ==
  /\ Goto(t, "connect", "extract")
  /\ c \notin Open
  /\ connection' = [connection EXCEPT ![t] = c]
  /\ heap' = heap \cup {<<"connection", c>>}
  /\ UNCHANGED <<uri, query, results, output, answer, abandoned>>

(* Mutant: the null pointer goes unnoticed. *)
NullConnection(t) ==
  /\ Goto(t, "connect", "extract")
  /\ UNCHANGED <<uri, connection, query, results, output, answer, heap, abandoned>>

(* connect returns a null pointer. *)
NoConnect(t) ==
  /\ Goto(t, "connect", "done")
  /\ Respond(t, "DATABASE_ERROR", <<"Error: Could not connect to MySQL database.">>)
  /\ UNCHANGED <<uri, connection, query, results, output, heap, abandoned>>

Extract(t) ==
  LET q == ExtractQuery(uri[t]) IN
  /\ Goto(t, "extract", "schema")
  /\ q # <<>>
  /\ query' = [query EXCEPT ![t] = q]
  /\ UNCHANGED <<uri, connection, results, output, answer, heap, abandoned>>

NoQuery(t) ==
  /\ Goto(t, "extract", "done")
  /\ ExtractQuery(uri[t]) = <<>>
  /\ Respond(t, "DATABASE_ERROR", <<"Error: Could not find query parameter.">>)
  /\ UNCHANGED <<uri, connection, query, results, output, heap, abandoned>>

SetSchema(t) ==
  /\ Goto(t, "schema", "create")
  /\ UNCHANGED <<uri, connection, query, results, output, answer, heap, abandoned>>

CreateStatement(t) ==
  /\ Goto(t, "create", "execute")
  /\ heap' = heap \cup {<<"statement", connection[t]>>}
  /\ UNCHANGED <<uri, connection, query, results, output, answer, abandoned>>

Select(t, table) ==
  /\ Goto(t, "execute", "fetch")
  /\ results' = [results EXCEPT ![t] = table]
  /\ heap' = heap \cup {<<"results", connection[t]>>}
  /\ UNCHANGED <<uri, connection, query, output, answer, abandoned>>

Fetch(t) ==
  /\ Goto(t, "fetch", "free")
  /\ output' = [output EXCEPT ![t] = GetJSONResults(results[t])]
  /\ heap' = heap \ {<<"results", connection[t]>>}
  /\ UNCHANGED <<uri, connection, query, results, answer, abandoned>>

Update(t, n) ==
  /\ Goto(t, "execute", "free")
  /\ output' = [output EXCEPT ![t] = <<"Query OK, ", ToString(n), " rows affected.">>]
  /\ UNCHANGED <<uri, connection, query, results, answer, heap, abandoned>>

(* Mutant: the statement is left to its connection. *)
FreedConnection(c) == heap \ {<<"connection", c>>}
Freed(c) == heap \ {<<"statement", c>>, <<"connection", c>>}

(* The statement is deleted, the response set, and the connection deleted. *)
Free(t) ==
  /\ Goto(t, "free", "done")
  /\ Respond(t, "OK", output[t])
  /\ heap' = Freed(connection[t])
  /\ connection' = [connection EXCEPT ![t] = NoConnection]
  /\ UNCHANGED <<uri, query, results, output, abandoned>>

Throwing == {"connect", "schema", "create", "execute", "fetch"}

(* Mutant: the exception is swallowed. *)
SwallowException(t) ==
  /\ pc[t] \in Throwing
  /\ Goto(t, pc[t], "done")
  /\ UNCHANGED <<uri, connection, query, results, output, answer, heap, abandoned>>

(***************************************************************************)
(* A call of the library throws an SQLException; connect does so also when *)
(* all connections are in use.  What the call has allocated stays.         *)
(***************************************************************************)
CatchException(t) ==
  /\ pc[t] \in Throwing
  /\ Goto(t, pc[t], "done")
  /\ Respond(t, "DATABASE_ERROR", <<"Error: ", "what()">>)
  /\ UNCHANGED <<uri, connection, query, results, output, heap, abandoned>>

(* HandleRequest returns; its pointers are gone. *)
Return(t) ==
  /\ Goto(t, "done", "idle")
  /\ abandoned' = abandoned \cup ({connection[t]} \ {NoConnection})
  /\ uri' = [uri EXCEPT ![t] = <<>>]
  /\ connection' = [connection EXCEPT ![t] = NoConnection]
  /\ query' = [query EXCEPT ![t] = <<>>]
  /\ results' = [results EXCEPT ![t] = NoTable]
  /\ output' = [output EXCEPT ![t] = <<>>]
  /\ answer' = [answer EXCEPT ![t] = NoAnswer]
  /\ UNCHANGED heap

ExecuteQuery(t) ==
  \/ CreateStatement(t)
  \/ \E table \in Tables : Select(t, table)
  \/ Fetch(t)
  \/ \E n \in Counts : Update(t, n)

Step(t) ==
  \/ \E u \in Uris : HandleRequest(t, u)
  \/ \E c \in Connections : Connect(t, c)
  \/ NoConnect(t) \/ Extract(t) \/ NoQuery(t) \/ SetSchema(t)
  \/ ExecuteQuery(t) \/ Free(t) \/ CatchException(t) \/ Return(t)

Next == \E t \in Threads : Step(t)

Spec == Init /\ [][Next]_vars

-----------------------------------------------------------------------------
(* The locals have their types; who uses a connection has one. *)
Connected == {"extract", "schema", "create", "execute", "fetch", "free"}

TypeOK ==
  /\ pc \in [Threads -> {"idle", "connect", "done"} \cup Connected]
  /\ uri \in [Threads -> Seq(Characters)]
  /\ connection \in [Threads -> Connections \cup {NoConnection}]
  /\ \A t \in Threads : pc[t] \in Connected => connection[t] # NoConnection
  /\ query \in [Threads -> Seq(Characters)]
  /\ results \in [Threads -> Tables \cup {NoTable}]
  /\ output \in [Threads -> Seq(Characters)]
  /\ answer \in [Threads -> [status : Statuses, code : {0, 200}, body : Seq(Characters)]]
  /\ heap \subseteq {"connection", "statement", "results"} \X Connections
  /\ abandoned \subseteq Connections

(***************************************************************************)
(* Every connection that is open belongs to one call in flight or to one   *)
(* that has failed, never to both or to two of them, and a statement or a  *)
(* result set never outlives its connection.  So calls that succeed leave  *)
(* nothing behind, however many there are and however they interleave;     *)
(* every call that fails once it is connected takes a connection away for  *)
(* good (lines 84-87, 98-110, 231, 254).                                   *)
(***************************************************************************)
Held == {connection[t] : t \in Threads} \ {NoConnection}

ObjectsAccounted ==
  /\ Open = Held \cup abandoned
  /\ Held \cap abandoned = {}
  /\ \A t, u \in Threads : connection[t] = connection[u] => t = u \/ connection[t] = NoConnection
  /\ \A object \in heap : object[2] \in Open

(***************************************************************************)
(* Ways to spell a query in a URI: as a form is sent, every character as   *)
(* its code, and what the page of private_files does with encodeURI, which *)
(* leaves a plus sign alone.                                               *)
(***************************************************************************)
Code(c) == CHOOSE n \in DOMAIN Symbol : Symbol[n] = c
Hex(digits, n) == IF n < 10 THEN Digit[n + 1] ELSE digits[n - 9]
Percent(digits, c) == <<"%", Hex(digits, Code(c) \div 16), Hex(digits, Code(c) % 16)>>

Spell(q, plain, digits) ==
  FlattenSeq([k \in DOMAIN q |-> IF q[k] \in plain THEN <<q[k]>> ELSE Percent(digits, q[k])])
FormEncoded(q) ==
  FlattenSeq([k \in DOMAIN q |-> IF q[k] = " " THEN <<"+">> ELSE Spell(<<q[k]>>, {}, LowerHex)])
EncodeURI(q) == Spell(q, {"+", "=", "&", ";", "s"}, UpperHex)

QueryUri(spelled) == <<"/", "database?", "query=">> \o spelled

(***************************************************************************)
(* The query a user types is the query that is executed, however it is     *)
(* spelled in the URI, unless it has a plus sign and comes from the page   *)
(* (lines 137-170, private_files/database.html:53-54).                     *)
(***************************************************************************)
Spellings ==
  [q \in Queries |->
     {QueryUri(FormEncoded(q)), QueryUri(Spell(q, {}, UpperHex))}
       \cup {u \in {QueryUri(EncodeURI(q))} : ~Contains(q, "+")}]

QueryAsTyped ==
  \A t \in Threads, q \in Queries :
    pc[t] = "execute" /\ uri[t] \in Spellings[q] => query[t] = q

(***************************************************************************)
(* What a select answers is one JSON object as the comment describes it,   *)
(* with a comma between two elements and none after the last, also when    *)
(* there are no rows (lines 180-226).  The words have no quotes in them.   *)
(***************************************************************************)
Separated(parts) ==
  FlattenSeq([k \in DOMAIN parts |-> IF k = 1 THEN parts[k] ELSE <<",">> \o parts[k]])
Array(words) == <<"[">> \o Separated([k \in DOMAIN words |-> Quoted(words[k])]) \o <<"]">>
Object(members) == <<"{">> \o Separated(members) \o <<"}">>
Member(name, value) == Quoted(name) \o <<":">> \o value

JSON(table) ==
  Object(<<Member("cols", Array(table.cols)),
           Member("data", Object([k \in DOMAIN table.rows |->
             Member(ToString(k), Array(table.rows[k]))]))>>)

Unbroken(text) ==
  FlattenSeq([k \in DOMAIN text |-> IF text[k] = "\n" THEN <<>> ELSE <<text[k]>>])

AnswersInJSON ==
  \A t \in Threads : answer[t].status = "OK" /\ pc[t] = "done" /\ results[t] # NoTable =>
    Unbroken(answer[t].body) = JSON(results[t])

(***************************************************************************)
(* What HandleRequest returns and leaves in the response is what the model *)
(* of the session assumes of a DatabaseHandler (lines 77, 87, 98-113).     *)
(***************************************************************************)
ResultsAsPromised ==
  \A t \in Threads : pc[t] = "done" =>
    [status |-> answer[t].status, code |-> answer[t].code] \in DatabaseResults
=============================================================================
