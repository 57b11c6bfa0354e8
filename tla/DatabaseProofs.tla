--------------------------- MODULE DatabaseProofs ---------------------------
(***************************************************************************)
(* Proofs about Database: for any number of threads and connections, any   *)
(* queries and any tables, that the locals keep their types, which         *)
(* connections are open, what HandleRequest leaves in the response, that   *)
(* the query executed is the query typed, and that rows are answered as    *)
(* one JSON object.                                                        *)
(***************************************************************************)
EXTENDS Database, InductionLemmas

(***************************************************************************)
(* What the two properties need of TypeOK: the texts are left out.         *)
(***************************************************************************)
Accounts ==
  /\ pc \in [Threads -> {"idle", "connect", "done"} \cup Connected]
  /\ connection \in [Threads -> Connections \cup {NoConnection}]
  /\ DOMAIN answer = Threads /\ answer = [t \in Threads |-> answer[t]]
  /\ heap \subseteq {"connection", "statement", "results"} \X Connections
  /\ abandoned \subseteq Connections

(***************************************************************************)
(* A connection is a call's from connect to done, and only a call that     *)
(* fetches rows, or has failed to, has a result set.                       *)
(***************************************************************************)
Holding ==
  \A t \in Threads :
    /\ pc[t] \in Connected => connection[t] # NoConnection
    /\ pc[t] \in {"idle", "connect"} => connection[t] = NoConnection
    /\ pc[t] \in Connected \ {"fetch"} => <<"results", connection[t]>> \notin heap

IInv == Accounts /\ Holding /\ ObjectsAccounted

LEMMA NoConnectionIs == NoConnection \notin Connections
  BY DatabaseAssumption

LEMMA IInit == Init => IInv
  <1> SUFFICES ASSUME Init PROVE IInv
    OBVIOUS
  <1>1. Accounts /\ Holding
    BY DEF Init, Accounts, Holding, Connected
  <1>2. ObjectsAccounted
    BY DEF Init, ObjectsAccounted, Open, Held
  <1>. QED
    BY <1>1, <1>2 DEF IInv

(***************************************************************************)
(* Steps that change neither the heap nor who holds which connection.      *)
(***************************************************************************)
LEMMA Unheld ==
  ASSUME IInv, UNCHANGED <<connection, heap, abandoned>>,
         Accounts',
         NEW t \in Threads,
         \A u \in Threads : u # t => pc'[u] = pc[u],
         pc[t] \in Connected => pc'[t] \in (Connected \ {"fetch"}) \cup {"done"},
         pc[t] = "fetch" => pc'[t] = "done",
         pc[t] = "connect" => pc'[t] = "done",
         pc[t] = "idle" => pc'[t] = "connect",
         pc[t] # "done"
  PROVE  IInv'
  <1>1. Holding'
    BY DEF IInv, Accounts, Holding, Connected
  <1>2. ObjectsAccounted'
    BY DEF IInv, ObjectsAccounted, Open, Held
  <1>. QED
    BY <1>1, <1>2 DEF IInv

LEMMA IStep == IInv /\ [Next]_vars => IInv'
  <1> SUFFICES ASSUME IInv, [Next]_vars PROVE IInv'
    OBVIOUS
  <1> USE DEF Goto
  <1>0. ASSUME NEW t \in Threads,
               \/ \E u \in Uris : HandleRequest(t, u)
               \/ NoConnect(t) \/ Extract(t) \/ NoQuery(t) \/ SetSchema(t)
               \/ \E n \in Counts : Update(t, n)
               \/ CatchException(t)
        PROVE  IInv'
    <2>1. Accounts'
      BY <1>0 DEF IInv, Accounts, HandleRequest, NoConnect, Extract, NoQuery, SetSchema, Update,
                  CatchException, Throwing, Connected, Respond, Answer
    <2>. QED
      BY <1>0, <2>1, Unheld
      DEF HandleRequest, NoConnect, Extract, NoQuery, SetSchema, Update, CatchException,
          Throwing, Connected, IInv, Accounts
  <1>1. ASSUME NEW t \in Threads, NEW c \in Connections, Connect(t, c) PROVE IInv'
    <2> USE <1>1 DEF Connect
    <2>1. Accounts'
      BY DEF IInv, Accounts, Connected
    <2>2. c # NoConnection /\ connection[t] = NoConnection
      BY NoConnectionIs DEF IInv, Holding
    <2>3. \A object \in heap : object[2] # c
      BY DEF IInv, ObjectsAccounted
    <2>4. Holding'
      BY <2>2, <2>3 DEF IInv, Accounts, Holding, Connected
    <2>5. Open' = Open \cup {c} /\ Held' = Held \cup {c}
      BY <2>2 DEF Open, Held, IInv, Accounts
    <2>6. c \notin Held /\ c \notin abandoned
      BY DEF IInv, ObjectsAccounted
    <2>7. ObjectsAccounted'
      BY <2>2, <2>5, <2>6 DEF IInv, Accounts, ObjectsAccounted, Held
    <2>. QED
      BY <2>1, <2>4, <2>7 DEF IInv
  <1>2. ASSUME NEW t \in Threads, CreateStatement(t) PROVE IInv'
    <2> USE <1>2 DEF CreateStatement
    <2>1. connection[t] \in Connections
      BY DEF IInv, Accounts, Holding, Connected
    <2>2. Accounts' /\ Holding'
      BY <2>1 DEF IInv, Accounts, Holding, Connected
    <2>3. Open' = Open /\ Held' = Held /\ connection[t] \in Open
      BY <2>1, NoConnectionIs DEF IInv, Open, Held, ObjectsAccounted
    <2>4. ObjectsAccounted'
      BY <2>3 DEF IInv, ObjectsAccounted
    <2>. QED
      BY <2>2, <2>4 DEF IInv
  <1>3. ASSUME NEW t \in Threads, NEW table \in Tables, Select(t, table) PROVE IInv'
    <2> USE <1>3 DEF Select
    <2>1. connection[t] \in Connections
      BY DEF IInv, Accounts, Holding, Connected
    <2>2. \A u \in Threads : u # t => connection[u] # connection[t]
      BY <2>1, NoConnectionIs DEF IInv, ObjectsAccounted
    <2>3. Accounts'
      BY <2>1 DEF IInv, Accounts, Connected
    <2>4. Holding'
      BY <2>1, <2>2 DEF IInv, Accounts, Holding, Connected
    <2>5. Open' = Open /\ Held' = Held /\ connection[t] \in Open
      BY <2>1, NoConnectionIs DEF IInv, Open, Held, ObjectsAccounted
    <2>6. ObjectsAccounted'
      BY <2>5 DEF IInv, ObjectsAccounted
    <2>. QED
      BY <2>3, <2>4, <2>6 DEF IInv
  <1>4. ASSUME NEW t \in Threads, Fetch(t) PROVE IInv'
    <2> USE <1>4 DEF Fetch
    <2>1. Accounts' /\ Holding'
      BY DEF IInv, Accounts, Holding, Connected
    <2>2. Open' = Open /\ Held' = Held
      BY DEF Open, Held
    <2>3. ObjectsAccounted'
      BY <2>2 DEF IInv, ObjectsAccounted
    <2>. QED
      BY <2>1, <2>3 DEF IInv
  <1>5. ASSUME NEW t \in Threads, Free(t) PROVE IInv'
    <2> USE <1>5 DEF Free, Freed
    <2> DEFINE c == connection[t]
    <2>1. /\ c \in Connections /\ c # NoConnection /\ c \in Held
          /\ <<"results", c>> \notin heap
      BY DEF IInv, Accounts, Holding, Connected, Held
    <2>2. \A u \in Threads : u # t => connection[u] # c
      BY <2>1 DEF IInv, ObjectsAccounted
    <2>3. Accounts'
      BY <2>1 DEF IInv, Accounts, Connected, Respond, Answer
    <2>4. Holding'
      BY DEF IInv, Accounts, Holding, Connected
    <2>5. Open' = Open \ {c}
      BY DEF Open
    <2>6. Held' = Held \ {c}
      BY <2>1, <2>2 DEF Held, IInv, Accounts
    <2>7. \A object \in heap' : object[2] # c
      BY <2>1 DEF IInv, Accounts
    <2>8. \A object \in heap' : object[2] \in Open'
      BY <2>5, <2>7 DEF IInv, ObjectsAccounted
    <2>9. Open' = Held' \cup abandoned' /\ Held' \cap abandoned' = {}
      BY <2>1, <2>5, <2>6 DEF IInv, ObjectsAccounted
    <2>10. ObjectsAccounted'
      BY <2>8, <2>9 DEF IInv, Accounts, ObjectsAccounted
    <2>. QED
      BY <2>3, <2>4, <2>10 DEF IInv
  <1>6. ASSUME NEW t \in Threads, Return(t) PROVE IInv'
    <2> USE <1>6 DEF Return
    <2>1. Accounts' /\ Holding'
      BY DEF IInv, Accounts, Holding, Connected
    <2>2. Open' = Open
      BY DEF Open
    <2>3. Held' = Held \ {connection[t]}
      BY DEF Held, IInv, Accounts, ObjectsAccounted
    <2>4. connection[t] # NoConnection => connection[t] \in Held
      BY DEF Held
    <2>5. Open' = Held' \cup abandoned' /\ Held' \cap abandoned' = {}
      <3>1. Open = Held \cup abandoned /\ Held \cap abandoned = {} /\ NoConnection \notin Held
        BY DEF IInv, ObjectsAccounted, Held
      <3>. QED
        BY <2>2, <2>3, <2>4, <3>1
    <2>6. \A u, v \in Threads : connection'[u] = connection'[v] =>
            u = v \/ connection'[u] = NoConnection
      BY DEF IInv, Accounts, ObjectsAccounted
    <2>7. ObjectsAccounted'
      BY <2>2, <2>5, <2>6 DEF IInv, ObjectsAccounted
    <2>. QED
      BY <2>1, <2>7 DEF IInv
  <1>7. CASE UNCHANGED vars
    BY <1>7 DEF vars, locals, IInv, Accounts, Holding, ObjectsAccounted, Open, Held
  <1>. QED
    BY <1>0, <1>1, <1>2, <1>3, <1>4, <1>5, <1>6, <1>7 DEF Next, Step, ExecuteQuery

(***************************************************************************)
(* However many calls there are, how they interleave and where they fail,  *)
(* an open connection belongs to one call under way or to one that failed, *)
(* and statements and result sets to an open connection.                   *)
(***************************************************************************)
THEOREM ConnectionsAccounted == Spec => []ObjectsAccounted
  <1>1. IInv => ObjectsAccounted
    BY DEF IInv
  <1>. QED
    BY <1>1, IInit, IStep, PTL DEF Spec

-----------------------------------------------------------------------------
(***************************************************************************)
(* A call is done only by one of the four steps that set the response.     *)
(***************************************************************************)
Result(t) == [status |-> answer[t].status, code |-> answer[t].code]
ResultInv == \A t \in Threads : pc[t] = "done" => Result(t) \in DatabaseResults

LEMMA ResultStep == IInv /\ ResultInv /\ [Next]_vars => ResultInv'
  <1> SUFFICES ASSUME IInv, ResultInv, [Next]_vars PROVE ResultInv'
    OBVIOUS
  <1> USE DEF Goto, IInv, Accounts, ResultInv
  <1>1. ASSUME NEW t \in Threads, NEW status \in {"OK", "DATABASE_ERROR"}, NEW body,
               Respond(t, status, body), \A u \in Threads : u # t => pc'[u] = pc[u]
        PROVE  ResultInv'
    <2>1. answer'[t] = Answer(status, body) /\ \A u \in Threads : u # t => answer'[u] = answer[u]
      BY <1>1 DEF Respond
    <2>2. Result(t)' \in DatabaseResults
      BY <2>1 DEF Answer, Result, DatabaseResults
    <2>. QED
      BY <1>1, <2>1, <2>2 DEF Result
  <1>2. ASSUME NEW t \in Threads, NoConnect(t) \/ NoQuery(t) \/ CatchException(t) \/ Free(t)
        PROVE  ResultInv'
    BY <1>1, <1>2 DEF NoConnect, NoQuery, CatchException, Free, Throwing
  <1>3. ASSUME NEW t \in Threads,
               \/ \E u \in Uris : HandleRequest(t, u)
               \/ \E c \in Connections : Connect(t, c)
               \/ Extract(t) \/ SetSchema(t) \/ ExecuteQuery(t)
        PROVE  ResultInv'
    <2>1. answer' = answer /\ \A u \in Threads : pc'[u] = "done" => pc[u] = "done"
      BY <1>3 DEF HandleRequest, Connect, Extract, SetSchema, ExecuteQuery, CreateStatement,
                  Select, Fetch, Update
    <2>. QED
      BY <2>1 DEF Result
  <1>4. ASSUME NEW t \in Threads, Return(t) PROVE ResultInv'
    BY <1>4 DEF Return, Result
  <1>5. CASE UNCHANGED vars
    BY <1>5 DEF vars, locals, Result
  <1>. QED
    BY <1>2, <1>3, <1>4, <1>5 DEF Next, Step

(***************************************************************************)
(* The session's model assumes of a DatabaseHandler what it keeps: OK or   *)
(* DATABASE_ERROR, always with code 200.                                   *)
(***************************************************************************)
THEOREM KeepsResults == Spec => []ResultsAsPromised
  <1>1. Init => ResultInv
    BY DEF Init, ResultInv
  <1>2. ResultInv => ResultsAsPromised
    BY DEF ResultInv, Result, ResultsAsPromised
  <1>. QED
    BY <1>1, <1>2, IInit, IStep, ResultStep, PTL DEF Spec

-----------------------------------------------------------------------------
(***************************************************************************)
(* URLDecode is defined by recursion down the text.                        *)
(***************************************************************************)
DecodeStep(text, from, k) ==
  IF k > Len(text) THEN <<>>
  ELSE IF text[k] = "%" /\ k + 2 <= Len(text)
       THEN <<Decoded(text[k + 1], text[k + 2])>> \o from[k + 3]
       ELSE <<IF text[k] = "+" THEN " " ELSE text[k]>> \o from[k + 1]

Decodes(text, from) == from = [k \in 1 .. Len(text) + 1 |-> DecodeStep(text, from, k)]

LEMMA TextPositions ==
  \A l \in Nat : \A k \in 1 .. l + 1 :
    /\ k # l + 1 <=> k <= l
    /\ k > l <=> ~(k <= l)
    /\ k <= l => /\ k \in 1 .. l /\ k + 1 \in 1 .. l + 1
                 /\ l + 1 - (k + 1) < l + 1 - k
    /\ k + 2 <= l => /\ k + 1 \in 1 .. l /\ k + 2 \in 1 .. l /\ k + 3 \in 1 .. l + 1
                     /\ l + 1 - (k + 3) < l + 1 - k
  OBVIOUS

LEMMA DecoderExists ==
  ASSUME NEW A, NEW text \in Seq(A)
  PROVE  \E from : Decodes(text, from)
  <1> DEFINE l == Len(text)
             S == 1 .. l + 1
             B == A \cup {" "} \cup {Decoded(a, b) : a \in A, b \in A}
             V == Seq(B)
             rank == [k \in S |-> l + 1 - k]
             F == [k \in S |-> [from \in [S -> V] |-> DecodeStep(text, from, k)]]
  <1>0. l \in Nat /\ \A k \in 1 .. l : text[k] \in A
    BY LenProperties, ElementOfSeq
  <1>11. " " \in B /\ (\A k \in 1 .. l : text[k] \in B) /\ \A a, b \in A : Decoded(a, b) \in B
    <2> DEFINE D == {Decoded(a, b) : a \in A, b \in A}
    <2>0. \A a, b \in A : Decoded(a, b) \in D
      OBVIOUS
    <2> HIDE DEF D
    <2>3. B = A \cup {" "} \cup D
      BY DEF D
    <2> HIDE DEF B, l
    <2>1. " " \in B /\ A \subseteq B /\ D \subseteq B
      BY <2>3
    <2>2. \A a, b \in A : Decoded(a, b) \in B
      BY <2>0, <2>1
    <2>. QED
      BY <1>0, <2>1, <2>2
  <1> HIDE DEF B, l
  <1>1. rank \in [S -> Nat]
    BY <1>0
  <1>2. \A k \in S :
          /\ k > l <=> ~(k <= l)
          /\ k <= l => k \in 1 .. l /\ k + 1 \in S /\ rank[k + 1] < rank[k]
          /\ k + 2 <= l => k + 1 \in 1 .. l /\ k + 2 \in 1 .. l /\ k + 3 \in S /\ rank[k + 3] < rank[k]
    BY <1>0, TextPositions
  <1>3. ASSUME NEW k \in S, NEW from \in [S -> V]
        PROVE  DecodeStep(text, from, k) \in V
    <2> HIDE DEF S, rank, F
    <2>0. DecodeStep(text, from, k) =
            IF k > l THEN <<>>
            ELSE IF text[k] = "%" /\ k + 2 <= l
                 THEN <<Decoded(text[k + 1], text[k + 2])>> \o from[k + 3]
                 ELSE <<IF text[k] = "+" THEN " " ELSE text[k]>> \o from[k + 1]
      BY Zenon DEF DecodeStep, l
    <2>1. CASE k > l
      BY <2>0, <2>1, EmptySeq
    <2>2. CASE ~(k > l) /\ text[k] = "%" /\ k + 2 <= l
      <3>1. Decoded(text[k + 1], text[k + 2]) \in B /\ from[k + 3] \in V
        <4>1. k + 1 \in 1 .. l /\ k + 2 \in 1 .. l /\ k + 3 \in S
          BY <1>2, <2>2
        <4>. QED
          BY <1>0, <1>11, <4>1
      <3> DEFINE b == Decoded(text[k + 1], text[k + 2])
                 rest == from[k + 3]
      <3>2. b \in B /\ rest \in Seq(B)
        BY <3>1
      <3>3. DecodeStep(text, from, k) = <<b>> \o rest
        BY <2>0, <2>2
      <3> HIDE DEF B, b, rest
      <3>4. <<b>> \o rest \in Seq(B)
        BY <3>2, ConcatProperties
      <3>. QED
        BY <3>3, <3>4
    <2>3. CASE ~(k > l) /\ ~(text[k] = "%" /\ k + 2 <= l)
      <3> DEFINE b == IF text[k] = "+" THEN " " ELSE text[k]
                 rest == from[k + 1]
      <3>1. b \in B /\ rest \in Seq(B)
        <4>1. k \in 1 .. l /\ k + 1 \in S
          BY <1>2, <2>3
        <4>. QED
          BY <1>11, <4>1
      <3>2. DecodeStep(text, from, k) = <<b>> \o rest
        BY <2>0, <2>3
      <3> HIDE DEF B, b, rest
      <3>3. <<b>> \o rest \in Seq(B)
        BY <3>1, ConcatProperties
      <3>. QED
        BY <3>2, <3>3
    <2>. QED
      BY <2>1, <2>2, <2>3
  <1>4. F \in [S -> [[S -> V] -> V]]
    BY <1>3
  <1>5. ASSUME NEW k \in S, NEW f \in [S -> V], NEW g \in [S -> V],
               \A j \in S : rank[j] < rank[k] => f[j] = g[j]
        PROVE  F[k][f] = F[k][g]
    <2>1. F[k][f] = DecodeStep(text, f, k) /\ F[k][g] = DecodeStep(text, g, k)
      OBVIOUS
    <2> HIDE DEF S, V, rank, F
    <2>2. k <= l => f[k + 1] = g[k + 1]
      BY <1>2, <1>5
    <2>3. k + 2 <= l => f[k + 3] = g[k + 3]
      BY <1>2, <1>5
    <2>4. DecodeStep(text, f, k) = DecodeStep(text, g, k)
      <3>1. DecodeStep(text, f, k) =
              IF k > l THEN <<>>
              ELSE IF text[k] = "%" /\ k + 2 <= l
                   THEN <<Decoded(text[k + 1], text[k + 2])>> \o f[k + 3]
                   ELSE <<IF text[k] = "+" THEN " " ELSE text[k]>> \o f[k + 1]
        BY Zenon DEF DecodeStep, l
      <3>2. DecodeStep(text, g, k) =
              IF k > l THEN <<>>
              ELSE IF text[k] = "%" /\ k + 2 <= l
                   THEN <<Decoded(text[k + 1], text[k + 2])>> \o g[k + 3]
                   ELSE <<IF text[k] = "+" THEN " " ELSE text[k]>> \o g[k + 1]
        BY Zenon DEF DecodeStep, l
      <3>3. k > l \/ k <= l
        BY <1>2
      <3>4. CASE k > l
        BY <3>1, <3>2, <3>4, Zenon
      <3>5. CASE ~(k > l) /\ text[k] = "%" /\ k + 2 <= l
        <4>1. f[k + 3] = g[k + 3]
          BY <2>3, <3>5
        <4>. QED
          BY <3>1, <3>2, <3>5, <4>1, Zenon
      <3>6. CASE ~(k > l) /\ ~(text[k] = "%" /\ k + 2 <= l)
        <4> DEFINE b == IF text[k] = "+" THEN " " ELSE text[k]
        <4>1. f[k + 1] = g[k + 1]
          BY <2>2, <3>3, <3>6
        <4>2. DecodeStep(text, f, k) = <<b>> \o f[k + 1]
          BY <3>1, <3>6
        <4>3. DecodeStep(text, g, k) = <<b>> \o g[k + 1]
          BY <3>2, <3>6
        <4> HIDE DEF b
        <4>. QED
          BY <4>1, <4>2, <4>3, Zenon
      <3>. QED
        BY <3>4, <3>5, <3>6
    <2>. QED
      BY <2>1, <2>4
  <1>6. V # {}
    BY EmptySeq
  <1>7. \E f \in [S -> V] : \A k \in S : f[k] = F[k][f]
    <2> HIDE DEF S, V, rank, F
    <2>1. Recursion(S, V, rank, F)
      BY <1>1, <1>4, <1>5, <1>6 DEF Recursion
    <2>. QED
      BY <2>1, RankRecursion, SMT
  <1>8. PICK f \in [S -> V] : \A k \in S : f[k] = F[k][f]
    BY <1>7
  <1>9. \A k \in S : f[k] = DecodeStep(text, f, k)
    BY <1>8
  <1>10. f = [k \in S |-> DecodeStep(text, f, k)]
    <2> HIDE DEF S, V
    <2>. QED
      BY <1>9
  <1>. QED
    BY <1>10 DEF Decodes, l

LEMMA URLDecodeIs ==
  ASSUME NEW A, NEW text \in Seq(A)
  PROVE  \E from : /\ URLDecode(text) = from[1]
                   /\ \A k \in 1 .. Len(text) + 1 : from[k] = DecodeStep(text, from, k)
  <1> DEFINE from == CHOOSE from : Decodes(text, from)
  <1>1. Decodes(text, from)
    BY DecoderExists, Zenon
  <1>2. URLDecode(text) = from[1]
    BY Zenon DEF URLDecode, Decodes, DecodeStep
  <1> HIDE DEF from
  <1>3. \A k \in 1 .. Len(text) + 1 : from[k] = DecodeStep(text, from, k)
    BY <1>1, Zenon DEF Decodes
  <1>. QED
    BY <1>2, <1>3

-----------------------------------------------------------------------------
(***************************************************************************)
(* A text made of pieces, each spelling one character, is decoded to those *)
(* characters.                                                             *)
(***************************************************************************)
Spells(piece, c) ==
  \/ Len(piece) = 1 /\ piece[1] # "%" /\ c = IF piece[1] = "+" THEN " " ELSE piece[1]
  \/ Len(piece) = 3 /\ piece[1] = "%" /\ Decoded(piece[2], piece[3]) = c

LEMMA SubSeqCons ==
  ASSUME NEW C, NEW q \in Seq(C), NEW i \in 1 .. Len(q)
  PROVE  <<q[i]>> \o SubSeq(q, i + 1, Len(q)) = SubSeq(q, i, Len(q))
  <1> DEFINE rest == SubSeq(q, i + 1, Len(q))
             both == SubSeq(q, i, Len(q))
  <1>1. q[i] \in C /\ Len(q) \in Nat
    BY ElementOfSeq, LenProperties
  <1>2. rest \in Seq(C) /\ Len(rest) = Len(q) - i /\ \A j \in 1 .. Len(q) - i : rest[j] = q[i + j]
    BY <1>1
  <1>3. both \in Seq(C) /\ Len(both) = Len(q) - i + 1 /\ \A j \in 1 .. Len(q) - i + 1 : both[j] = q[i + j - 1]
    BY <1>1
  <1> HIDE DEF rest, both
  <1> DEFINE c == <<q[i]>>
             whole == c \o rest
  <1>5. c \in Seq(C) /\ Len(c) = 1 /\ c[1] = q[i]
    BY <1>1
  <1> HIDE DEF c
  <1>6. /\ whole \in Seq(C) /\ Len(whole) = 1 + (Len(q) - i) /\ whole[1] = q[i]
        /\ \A j \in 1 .. Len(q) - i : whole[1 + j] = q[i + j]
    <2>1. /\ whole \in Seq(C) /\ Len(whole) = Len(c) + Len(rest)
          /\ \A j \in 1 .. Len(c) : whole[j] = c[j]
          /\ \A j \in 1 .. Len(rest) : whole[Len(c) + j] = rest[j]
      <3>1. rest \in Seq(C) /\ c \in Seq(C)
        BY <1>2, <1>5
      <3>2. whole \in Seq(C)
        BY <3>1, ConcatElements
      <3>3. Len(whole) = Len(c) + Len(rest)
        BY <3>1, ConcatElements
      <3>4. \A j \in 1 .. Len(c) : whole[j] = c[j]
        BY <3>1, ConcatElements
      <3>5. \A j \in 1 .. Len(rest) : whole[Len(c) + j] = rest[j]
        BY <3>1, ConcatElements
      <3>. QED
        BY <3>2, <3>3, <3>4, <3>5
    <2> HIDE DEF whole
    <2>. QED
      BY <1>1, <1>2, <1>5, <2>1
  <1> HIDE DEF whole
  <1>7. Len(whole) = Len(both)
    BY <1>1, <1>3, <1>6
  <1>8. ASSUME NEW j \in 1 .. Len(whole) PROVE whole[j] = both[j]
    <2>1. both[j] = q[i + j - 1]
      BY <1>3, <1>7
    <2>2. CASE j = 1
      BY <1>1, <1>6, <2>1, <2>2
    <2>3. CASE j # 1
      <3>1. j - 1 \in 1 .. Len(q) - i /\ 1 + (j - 1) = j /\ i + (j - 1) = i + j - 1
        BY <1>1, <1>6, <2>3
      <3>. QED
        BY <1>6, <2>1, <3>1
    <2>. QED
      BY <2>2, <2>3
  <1>4. c \o rest = both
    <2>1. whole = both
      BY <1>3, <1>6, <1>7, <1>8, SeqEqual
    <2>. QED
      BY <2>1 DEF whole
  <1>. QED
    BY <1>4 DEF c, rest, both

LEMMA Places ==
  \A k \in Nat, l \in Nat :
    /\ k + 1 <= l => k + 1 \in 1 .. l + 1 /\ ~(k + 1 > l)
    /\ k + 3 <= l => /\ k + 1 <= l
                     /\ (k + 1) + 2 <= l /\ (k + 1) + 1 = k + 2 /\ (k + 1) + 2 = k + 3
                     /\ (k + 1) + 3 = (k + 3) + 1
  OBVIOUS

StandsAt(k, piece, text) ==
  k \in Nat /\ k + Len(piece) <= Len(text) /\ \A j \in 1 .. Len(piece) : text[k + j] = piece[j]

LEMMA DecodesPiece ==
  ASSUME NEW A, NEW text \in Seq(A), NEW from, NEW k, NEW piece, NEW c,
         Spells(piece, c), StandsAt(k, piece, text)
  PROVE  DecodeStep(text, from, k + 1) = <<c>> \o from[k + Len(piece) + 1]
  <1> DEFINE l == Len(text)
  <1> USE DEF StandsAt
  <1>0. l \in Nat
    BY LenProperties
  <1>1. CASE Len(piece) = 1 /\ piece[1] # "%" /\ c = IF piece[1] = "+" THEN " " ELSE piece[1]
    <2>0. Len(piece) = 1
      BY <1>1
    <2>1. text[k + 1] = piece[1] /\ ~(k + 1 > l) /\ (k + 1) + 1 = k + Len(piece) + 1
      <3>1. ~(k + 1 > l) /\ (k + 1) + 1 = k + Len(piece) + 1
        BY <1>0, <2>0
      <3>2. 1 \in 1 .. Len(piece)
        BY <2>0
      <3>. QED
        BY <3>1, <3>2, Zenon
    <2>2. DecodeStep(text, from, k + 1) =
            <<IF text[k + 1] = "+" THEN " " ELSE text[k + 1]>> \o from[(k + 1) + 1]
      BY <1>1, <2>1, Zenon DEF DecodeStep, l
    <2>. QED
      BY <1>1, <2>1, <2>2, Zenon
  <1>2. CASE Len(piece) = 3 /\ piece[1] = "%" /\ Decoded(piece[2], piece[3]) = c
    <2>1. /\ text[k + 1] = piece[1] /\ text[k + 2] = piece[2] /\ text[k + 3] = piece[3]
      BY <1>2
    <2>2. /\ ~(k + 1 > l) /\ (k + 1) + 2 <= l /\ (k + 1) + 1 = k + 2 /\ (k + 1) + 2 = k + 3
          /\ (k + 1) + 3 = k + Len(piece) + 1
      BY <1>0, <1>2
    <2>3. DecodeStep(text, from, k + 1) =
            <<Decoded(text[(k + 1) + 1], text[(k + 1) + 2])>> \o from[(k + 1) + 3]
      BY <1>2, <2>1, <2>2, Zenon DEF DecodeStep, l
    <2>. QED
      BY <1>2, <2>1, <2>2, <2>3, Zenon
  <1>. QED
    BY <1>1, <1>2 DEF Spells

LEMMA DecodesPieces ==
  ASSUME NEW A, NEW C, NEW pieces \in Seq(Seq(A)), NEW q \in Seq(C), Len(pieces) = Len(q),
         \A i \in 1 .. Len(q) : Spells(pieces[i], q[i])
  PROVE  FlattenSeq(pieces) \in Seq(A) /\ URLDecode(FlattenSeq(pieces)) = q
  <1> DEFINE text == FlattenSeq(pieces)
             n == Len(q)
  <1>1. text \in Seq(A)
    BY FlattenPlaces
  <1>2. PICK s : PlacedAt(s, pieces, text)
    BY FlattenPlaces
  <1>3. PICK from : /\ URLDecode(text) = from[1]
                    /\ \A k \in 1 .. Len(text) + 1 : from[k] = DecodeStep(text, from, k)
    BY <1>1, URLDecodeIs
  <1> HIDE DEF text
  <1>4. n \in Nat /\ Len(text) \in Nat /\ \A i \in 0 .. n : s[i] \in Nat
    BY <1>1, <1>2, LenProperties DEF PlacedAt
  <1> DEFINE P == {m \in Nat : m <= n => from[s[n - m] + 1] = SubSeq(q, (n - m) + 1, n)}
  <1>5. 0 \in P
    <2>1. s[n] = Len(text)
      BY <1>2 DEF PlacedAt
    <2>2. DecodeStep(text, from, Len(text) + 1) = <<>>
      BY <1>4 DEF DecodeStep
    <2>3. from[s[n] + 1] = <<>>
      BY <1>3, <1>4, <2>1, <2>2
    <2>4. SubSeq(q, n + 1, n) = <<>>
      BY <1>4
    <2>5. n - 0 = n
      BY <1>4
    <2>. QED
      BY <2>3, <2>4, <2>5
  <1>6. ASSUME NEW m \in Nat, m \in P PROVE m + 1 \in P
    <2> SUFFICES ASSUME m + 1 <= n
                 PROVE  from[s[n - (m + 1)] + 1] = SubSeq(q, (n - (m + 1)) + 1, n)
      OBVIOUS
    <2> DEFINE i == n - m
    <2>1. i \in 1 .. n /\ i - 1 \in 0 .. n /\ i \in 0 .. n /\ n - (m + 1) = i - 1 /\ (i - 1) + 1 = i
      BY <1>4
    <2>2. from[s[i] + 1] = SubSeq(q, i + 1, n)
      BY <1>4, <1>6
    <2> DEFINE k == s[i - 1]
    <2> HIDE DEF i, P, n
    <2>3. /\ s[i] = k + Len(pieces[i]) /\ s[i] <= Len(text) /\ k \in Nat
          /\ \A j \in 1 .. Len(pieces[i]) : text[k + j] = pieces[i][j]
      <3>1. i \in 1 .. Len(pieces)
        BY <2>1 DEF n
      <3>. QED
        BY <1>2, <1>4, <2>1, <3>1 DEF PlacedAt
    <2> HIDE DEF k
    <2>4. Spells(pieces[i], q[i])
      BY <2>1 DEF n
    <2>5. DecodeStep(text, from, k + 1) = <<q[i]>> \o from[k + Len(pieces[i]) + 1]
      <3>1. StandsAt(k, pieces[i], text)
        BY <2>3 DEF StandsAt
      <3> DEFINE piece == pieces[i]
                 c == q[i]
      <3>2. Spells(piece, c) /\ StandsAt(k, piece, text)
        BY <2>4, <3>1
      <3> HIDE DEF piece, c
      <3>3. DecodeStep(text, from, k + 1) = <<c>> \o from[k + Len(piece) + 1]
        <4>1. text \in Seq(A)
          BY <1>1
        <4> HIDE DEF Spells, StandsAt
        <4>. QED
          BY <3>2, <4>1, DecodesPiece
      <3>. QED
        BY <3>3 DEF piece, c
    <2>6. k + 1 \in 1 .. Len(text) + 1
      <3>1. Len(pieces[i]) \in {1, 3}
        BY <2>4 DEF Spells
      <3>. QED
        BY <1>4, <2>3, <3>1
    <2>7. from[k + 1] = <<q[i]>> \o SubSeq(q, i + 1, n)
      BY <1>3, <2>2, <2>3, <2>5, <2>6
    <2>8. <<q[i]>> \o SubSeq(q, i + 1, n) = SubSeq(q, i, n)
      BY <2>1, SubSeqCons DEF n
    <2>. QED
      BY <2>1, <2>7, <2>8 DEF k
  <1>7. n \in P
    <2> HIDE DEF P
    <2>1. Nat \subseteq P
      BY <1>5, <1>6, NatInductive
    <2>. QED
      BY <1>4, <2>1
  <1>8. from[s[0] + 1] = SubSeq(q, 1, n)
    <2>1. n - n = 0 /\ n <= n /\ 0 + 1 = 1
      BY <1>4
    <2>. QED
      BY <1>7, <2>1
  <1>9. s[0] + 1 = 1
    BY <1>2 DEF PlacedAt
  <1>10. SubSeq(q, 1, n) = q
    OBVIOUS
  <1>. QED
    BY <1>1, <1>3, <1>8, <1>9, <1>10 DEF text

-----------------------------------------------------------------------------
(***************************************************************************)
(* Hexadecimal digits are read as they are written.                        *)
(***************************************************************************)
LEMMA DigitAt ==
  \A k \in 1 .. 10, j \in 1 .. 10 : Digit[k] = Digit[j] => k = j
  BY DEF Digit

LEMMA DigitValue ==
  ASSUME NEW n \in 0 .. 9
  PROVE  Digit[n + 1] \in Digits /\ Value(Digit[n + 1]) = n
  <1> DEFINE d == Digit[n + 1]
  <1>1. DOMAIN Digit = 1 .. 10
    BY DEF Digit
  <1>2. n + 1 \in 1 .. 10
    OBVIOUS
  <1>3. d \in Digits
    BY <1>1, <1>2 DEF Digits, Range
  <1>4. \A k \in DOMAIN Digit : Digit[k] = d => k = n + 1
    BY <1>1, <1>2, DigitAt
  <1> DEFINE at == CHOOSE k \in DOMAIN Digit : Digit[k] = d
  <1>5. at = n + 1
    BY <1>1, <1>2, <1>4
  <1>6. Value(d) = at - 1
    BY Zenon DEF Value
  <1> HIDE DEF d, at
  <1>7. Value(d) = n
    BY <1>5, <1>6
  <1>. QED
    BY <1>3, <1>7 DEF d

LEMMA LetterAt ==
  /\ \A k \in 1 .. 6, j \in 1 .. 6 : /\ LowerHex[k] = LowerHex[j] => k = j
                                     /\ UpperHex[k] = UpperHex[j] => k = j
                                     /\ UpperHex[k] # LowerHex[j]
  /\ \A k \in 1 .. 6, j \in 1 .. 10 : LowerHex[k] # Digit[j] /\ UpperHex[k] # Digit[j]
  /\ DOMAIN LowerHex = 1 .. 6 /\ DOMAIN UpperHex = 1 .. 6 /\ DOMAIN Digit = 1 .. 10
  /\ Len(LowerHex) = 6 /\ Len(UpperHex) = 6
  BY DEF Digit, LowerHex, UpperHex

At(seq, c, i) ==
  i \in Nat /\ i \in 1 .. Len(seq) /\ seq[i] = c /\ \A k \in 1 .. Len(seq) : seq[k] = c => k = i

LEMMA Selected ==
  ASSUME NEW seq, NEW c, NEW i, At(seq, c, i)
  PROVE  {k \in 1 .. Len(seq) : seq[k] = c} = {i} /\ Min({i}) = i
  <1>1. {k \in 1 .. Len(seq) : seq[k] = c} = {i}
    BY DEF At
  <1>2. Min({i}) = i
    BY DEF At, Min
  <1>. QED
    BY <1>1, <1>2

LEMMA LetterValue ==
  ASSUME NEW i \in 1 .. 6
  PROVE  FromHex(LowerHex[i]) = 9 + i /\ FromHex(UpperHex[i]) = 9 + i
  <1> DEFINE lower == LowerHex[i]
             upper == UpperHex[i]
  <1>1. /\ lower \in Range(LowerHex) /\ lower \notin Digits /\ lower \notin Range(UpperHex)
        /\ upper \in Range(UpperHex) /\ upper \notin Digits /\ upper \notin Range(LowerHex)
    BY LetterAt DEF Range, Digits
  <1>2. At(LowerHex, lower, i) /\ At(UpperHex, upper, i)
    BY LetterAt DEF At
  <1> HIDE DEF lower, upper
  <1>3. FromHex(lower) = 9 + SelectInSeq(LowerHex, LAMBDA h : h = lower)
    BY <1>1, Zenon DEF FromHex
  <1>4. FromHex(upper) = 9 + SelectInSeq(UpperHex, LAMBDA h : h = upper)
    BY <1>1, Zenon DEF FromHex
  <1>5. /\ SelectInSeq(LowerHex, LAMBDA h : h = lower) = i
        /\ SelectInSeq(UpperHex, LAMBDA h : h = upper) = i
    <2>1. SelectInSeq(LowerHex, LAMBDA h : h = lower) =
            LET I == {k \in 1 .. Len(LowerHex) : LowerHex[k] = lower} IN IF I # {} THEN Min(I) ELSE 0
      BY Zenon DEF SelectInSeq
    <2>2. SelectInSeq(UpperHex, LAMBDA h : h = upper) =
            LET I == {k \in 1 .. Len(UpperHex) : UpperHex[k] = upper} IN IF I # {} THEN Min(I) ELSE 0
      BY Zenon DEF SelectInSeq
    <2>3. {i} # {}
      OBVIOUS
    <2>4. {k \in 1 .. Len(LowerHex) : LowerHex[k] = lower} = {i} /\ Min({i}) = i
      BY <1>2, Selected, Zenon
    <2>5. {k \in 1 .. Len(UpperHex) : UpperHex[k] = upper} = {i}
      BY <1>2, Selected, Zenon
    <2>. QED
      BY <2>1, <2>2, <2>3, <2>4, <2>5, Zenon
  <1>6. FromHex(lower) = 9 + i /\ FromHex(upper) = 9 + i
    BY <1>3, <1>4, <1>5, Zenon
  <1>. QED
    BY <1>6 DEF lower, upper

LEMMA HexValue ==
  ASSUME NEW n \in 0 .. 15, NEW digits \in {LowerHex, UpperHex}
  PROVE  FromHex(Hex(digits, n)) = n
  <1>1. CASE n < 10
    <2>1. n \in 0 .. 9
      BY <1>1
    <2>2. Hex(digits, n) = Digit[n + 1]
      BY <1>1 DEF Hex
    <2>3. FromHex(Digit[n + 1]) = Value(Digit[n + 1])
      <3> DEFINE d == Digit[n + 1]
      <3>1. d \in Digits
        BY <2>1, DigitValue
      <3>2. d \notin Range(LowerHex) /\ d \notin Range(UpperHex)
        BY <2>1, LetterAt DEF Range
      <3> HIDE DEF d
      <3>3. FromHex(d) = Value(d)
        BY <3>1, <3>2, Zenon DEF FromHex
      <3>. QED
        BY <3>3 DEF d
    <2>. QED
      BY <2>1, <2>2, <2>3, DigitValue
  <1>2. CASE ~(n < 10)
    <2>1. n - 9 \in 1 .. 6 /\ 9 + (n - 9) = n
      BY <1>2
    <2>2. Hex(digits, n) = digits[n - 9]
      BY <1>2 DEF Hex
    <2>. QED
      BY <2>1, <2>2, LetterValue
  <1>. QED
    BY <1>1, <1>2

LEMMA Nibbles ==
  \A n \in 0 .. 255 : n \div 16 \in 0 .. 15 /\ n % 16 \in 0 .. 15 /\ 16 * (n \div 16) + (n % 16) = n
  OBVIOUS

LEMMA HexIn ==
  ASSUME NEW n \in 0 .. 15, NEW digits \in {LowerHex, UpperHex}
  PROVE  Hex(digits, n) \in Digits \cup Range(LowerHex) \cup Range(UpperHex)
  <1>1. CASE n < 10
    BY <1>1, DigitValue DEF Hex
  <1>2. CASE ~(n < 10)
    <2>1. n - 9 \in 1 .. 6
      BY <1>2
    <2>. QED
      BY <1>2, <2>1, LetterAt DEF Hex, Range
  <1>. QED
    BY <1>1, <1>2

Texts == Range(Symbol) \cup {"%", "+"} \cup Digits \cup Range(LowerHex) \cup Range(UpperHex)

LEMMA SpellsPercent ==
  ASSUME NEW c \in Range(Symbol), NEW digits \in {LowerHex, UpperHex}
  PROVE  Percent(digits, c) \in Seq(Texts) /\ Spells(Percent(digits, c), c)
  <1> DEFINE n == Code(c)
  <1>1. n \in 0 .. 255 /\ Symbol[n] = c
    BY DatabaseAssumption DEF Code, Range
  <1> HIDE DEF n
  <1>2. n \div 16 \in 0 .. 15 /\ n % 16 \in 0 .. 15 /\ 16 * (n \div 16) + (n % 16) = n
    BY <1>1, Nibbles
  <1> DEFINE h == Hex(digits, n \div 16)
             l == Hex(digits, n % 16)
  <1>3. h \in Texts /\ l \in Texts
    BY <1>2, HexIn DEF Texts
  <1>4. FromHex(h) = n \div 16 /\ FromHex(l) = n % 16
    BY <1>2, HexValue
  <1>5. Percent(digits, c) = <<"%", h, l>>
    BY Zenon DEF Percent, n
  <1> HIDE DEF h, l
  <1>6. Decoded(h, l) = c
    BY <1>1, <1>2, <1>4 DEF Decoded
  <1> DEFINE p == <<"%", h, l>>
  <1>7. Len(p) = 3 /\ p[1] = "%" /\ p[2] = h /\ p[3] = l
    OBVIOUS
  <1>8. "%" \in Texts
    BY DEF Texts
  <1>9. p \in Seq(Texts)
    BY <1>3, <1>8
  <1> HIDE DEF p
  <1>10. Spells(p, c)
    BY <1>6, <1>7 DEF Spells
  <1>. QED
    BY <1>5, <1>9, <1>10 DEF p

-----------------------------------------------------------------------------
(***************************************************************************)
(* However a query is spelled, it is what is decoded.                      *)
(***************************************************************************)
Alphabet == Range(Symbol)

LEMMA SpellDecodes ==
  ASSUME NEW q \in Seq(Alphabet), NEW plain, NEW digits \in {LowerHex, UpperHex},
         \A k \in 1 .. Len(q) : q[k] \in plain => q[k] # "%" /\ q[k] # "+"
  PROVE  Spell(q, plain, digits) \in Seq(Texts) /\ URLDecode(Spell(q, plain, digits)) = q
  <1> DEFINE piece(k) == IF q[k] \in plain THEN <<q[k]>> ELSE Percent(digits, q[k])
             pieces == [k \in DOMAIN q |-> piece(k)]
  <1>1. DOMAIN q = 1 .. Len(q) /\ Len(q) \in Nat /\ \A k \in 1 .. Len(q) : q[k] \in Alphabet
    BY LenProperties, ElementOfSeq
  <1>2. ASSUME NEW k \in 1 .. Len(q)
        PROVE  piece(k) \in Seq(Texts) /\ Spells(piece(k), q[k])
    <2> DEFINE c == q[k]
    <2>1. c \in Alphabet /\ (c \in plain => c # "%" /\ c # "+")
      BY <1>1
    <2> HIDE DEF c
    <2>2. CASE c \in plain
      <3>1. c \in Texts
        BY <2>1 DEF Texts, Alphabet
      <3>2. <<c>> \in Seq(Texts) /\ Len(<<c>>) = 1 /\ <<c>>[1] = c
        BY <3>1
      <3>3. Spells(<<c>>, c)
        BY <2>1, <2>2, <3>2 DEF Spells
      <3>4. piece(k) = <<c>>
        BY <2>2 DEF c
      <3>. QED
        BY <3>2, <3>3, <3>4 DEF c
    <2>3. CASE c \notin plain
      <3>1. piece(k) = Percent(digits, c)
        BY <2>3 DEF c
      <3>2. Percent(digits, c) \in Seq(Texts) /\ Spells(Percent(digits, c), c)
        BY <2>1, SpellsPercent DEF Alphabet
      <3>. QED
        BY <3>1, <3>2 DEF c
    <2>. QED
      BY <2>2, <2>3
  <1> HIDE DEF piece
  <1>3. pieces \in Seq(Seq(Texts)) /\ Len(pieces) = Len(q)
    BY <1>1, <1>2
  <1>4. \A k \in 1 .. Len(q) : Spells(pieces[k], q[k])
    BY <1>1, <1>2
  <1>5. Spell(q, plain, digits) = FlattenSeq(pieces)
    BY Zenon DEF Spell, piece
  <1> HIDE DEF pieces
  <1>6. FlattenSeq(pieces) \in Seq(Texts) /\ URLDecode(FlattenSeq(pieces)) = q
    BY <1>3, <1>4, DecodesPieces
  <1>. QED
    BY <1>5, <1>6

LEMMA SpellOne ==
  ASSUME NEW c \in Alphabet
  PROVE  Spell(<<c>>, {}, LowerHex) = Percent(LowerHex, c)
  <1> DEFINE p == Percent(LowerHex, c)
             pieces == [k \in DOMAIN <<c>> |-> IF <<c>>[k] \in {} THEN <<<<c>>[k]>> ELSE Percent(LowerHex, <<c>>[k])]
  <1>1. p \in Seq(Texts)
    BY SpellsPercent DEF Alphabet
  <1>2. pieces = [k \in 1 .. 1 |-> p]
    OBVIOUS
  <1> HIDE DEF p, pieces
  <1>3. pieces = Append(<<>>, p)
    BY <1>2
  <1>4. FlattenSeq(Append(<<>>, p)) = FlattenSeq(<<>>) \o p
    <2>1. <<>> \in Seq(Seq(Texts))
      OBVIOUS
    <2>. QED
      BY <1>1, <2>1, FlattenAppend
  <1>5. <<>> \o p = p
    BY <1>1
  <1>6. FlattenSeq(pieces) = p
    BY <1>3, <1>4, <1>5, FlattenEmpty
  <1>. QED
    BY <1>6 DEF Spell, p, pieces

LEMMA FormDecodes ==
  ASSUME NEW q \in Seq(Alphabet)
  PROVE  FormEncoded(q) \in Seq(Texts) /\ URLDecode(FormEncoded(q)) = q
  <1> DEFINE piece(k) == IF q[k] = " " THEN <<"+">> ELSE Spell(<<q[k]>>, {}, LowerHex)
             pieces == [k \in DOMAIN q |-> piece(k)]
  <1>1. DOMAIN q = 1 .. Len(q) /\ Len(q) \in Nat /\ \A k \in 1 .. Len(q) : q[k] \in Alphabet
    BY LenProperties, ElementOfSeq
  <1>2. ASSUME NEW k \in 1 .. Len(q)
        PROVE  piece(k) \in Seq(Texts) /\ Spells(piece(k), q[k])
    <2> DEFINE c == q[k]
    <2>1. c \in Alphabet
      BY <1>1
    <2> HIDE DEF c
    <2>2. CASE c = " "
      <3> DEFINE plus == "+"
      <3>1. plus \in Texts
        BY DEF Texts
      <3>0. plus # "%"
        OBVIOUS
      <3> HIDE DEF plus
      <3>2. <<plus>> \in Seq(Texts) /\ Len(<<plus>>) = 1 /\ <<plus>>[1] = plus
        BY <3>1
      <3>3. Spells(<<plus>>, c)
        BY <2>2, <3>0, <3>2 DEF Spells, plus
      <3>4. piece(k) = <<plus>>
        BY <2>2 DEF c, plus
      <3>. QED
        BY <3>2, <3>3, <3>4 DEF c
    <2>3. CASE c # " "
      <3>1. piece(k) = Percent(LowerHex, c)
        <4>1. piece(k) = Spell(<<c>>, {}, LowerHex)
          BY <2>3 DEF c
        <4>. QED
          BY <2>1, <4>1, SpellOne
      <3>2. Percent(LowerHex, c) \in Seq(Texts) /\ Spells(Percent(LowerHex, c), c)
        BY <2>1, SpellsPercent DEF Alphabet
      <3>. QED
        BY <3>1, <3>2 DEF c
    <2>. QED
      BY <2>2, <2>3
  <1> HIDE DEF piece
  <1>3. pieces \in Seq(Seq(Texts)) /\ Len(pieces) = Len(q)
    BY <1>1, <1>2
  <1>4. \A k \in 1 .. Len(q) : Spells(pieces[k], q[k])
    BY <1>1, <1>2
  <1>5. FormEncoded(q) = FlattenSeq(pieces)
    BY Zenon DEF FormEncoded, piece
  <1> HIDE DEF pieces
  <1>6. FlattenSeq(pieces) \in Seq(Texts) /\ URLDecode(FlattenSeq(pieces)) = q
    BY <1>3, <1>4, DecodesPieces
  <1>. QED
    BY <1>5, <1>6

(***************************************************************************)
(* The query begins behind the third symbol of the URI.                    *)
(***************************************************************************)
LEMMA SubSeqOne ==
  ASSUME NEW B, NEW u \in Seq(B), NEW n \in 1 .. Len(u)
  PROVE  SubSeq(u, n, n) = <<u[n]>>
  <1> DEFINE s == SubSeq(u, n, n)
             t == <<u[n]>>
  <1>1. s \in Seq(B) /\ Len(s) = 1 /\ s[1] = u[n]
    BY LenProperties, ElementOfSeq
  <1>2. t \in Seq(B) /\ Len(t) = 1 /\ t[1] = u[n]
    BY ElementOfSeq
  <1> HIDE DEF s, t
  <1>3. s = t
    BY <1>1, <1>2, SeqEqual
  <1>. QED
    BY <1>3 DEF s, t

LEMMA ExtractsSpelled ==
  ASSUME NEW x \in Seq(Texts)
  PROVE  ExtractQuery(QueryUri(x)) = URLDecode(x)
  <1> DEFINE key == "query="
             head == <<"/", "database?", key>>
             u == QueryUri(x)
             B == Texts \cup {"/", "database?", key}
  <1>0. "/" # key /\ "database?" # key
    OBVIOUS
  <1>1. head \in Seq(B) /\ Len(head) = 3 /\ head[1] = "/" /\ head[2] = "database?" /\ head[3] = key
    OBVIOUS
  <1>2. x \in Seq(B) /\ Len(x) \in Nat
    OBVIOUS
  <1>3. u = head \o x
    BY Zenon DEF QueryUri
  <1> HIDE DEF key, head, B, u
  <1>4. u \in Seq(B) /\ Len(u) = 3 + Len(x)
    <2>1. u \in Seq(B) /\ Len(u) = Len(head) + Len(x)
      BY <1>1, <1>2, <1>3, ConcatElements, Zenon
    <2>. QED
      BY <1>1, <2>1
  <1>5. u[1] = "/" /\ u[2] = "database?" /\ u[3] = key
    <2>1. \A j \in 1 .. Len(head) : (head \o x)[j] = head[j]
      BY <1>1, <1>2, ConcatElements, Zenon
    <2> DEFINE n == Len(head)
    <2>2. n = 3 /\ \A j \in 1 .. n : u[j] = head[j]
      BY <1>1, <1>3, <2>1
    <2> HIDE DEF n
    <2>3. u[1] = head[1] /\ u[2] = head[2] /\ u[3] = head[3]
      BY <2>2
    <2>. QED
      BY <1>1, <2>3
  <1>6. \A j \in 1 .. Len(x) : u[3 + j] = x[j]
    <2>1. \A j \in 1 .. Len(x) : (head \o x)[Len(head) + j] = x[j]
      <3>1. head \in Seq(B) /\ x \in Seq(B)
        BY <1>1, <1>2
      <3>. QED
        BY <3>1, ConcatElements
    <2>. QED
      BY <1>1, <1>3, <2>1, Zenon
  <1> DEFINE at == {k \in 0 .. Len(u) - Len(<<key>>) : SubSeq(u, k + 1, k + Len(<<key>>)) = <<key>>}
  <1>7. ASSUME NEW k \in 0 .. Len(u) - 1
        PROVE  SubSeq(u, k + 1, k + 1) = <<u[k + 1]>>
    <2>1. u \in Seq(B) /\ k + 1 \in 1 .. Len(u)
      BY <1>2, <1>4
    <2>. QED
      BY <2>1, SubSeqOne, Zenon
  <1>8. \A k \in 0 .. Len(u) - 1 : k \in at <=> u[k + 1] = key
    <2>1. Len(<<key>>) = 1
      OBVIOUS
    <2>2. at = {k \in 0 .. Len(u) - 1 : SubSeq(u, k + 1, k + 1) = <<key>>}
      BY <2>1, Zenon
    <2>3. \A k \in 0 .. Len(u) - 1 : SubSeq(u, k + 1, k + 1) = <<key>> <=> u[k + 1] = key
      <3>1. \A a, b : <<a>> = <<b>> <=> a = b
        OBVIOUS
      <3>. QED
        BY <1>7, <3>1, Zenon
    <2> HIDE DEF at
    <2>. QED
      BY <2>2, <2>3, Zenon
  <1>17. at \subseteq Nat
    BY <1>2, <1>4
  <1>9. 2 \in at /\ 0 \notin at /\ 1 \notin at /\ at \subseteq Nat
    <2> HIDE DEF at
    <2>. QED
      BY <1>0, <1>2, <1>4, <1>5, <1>8, <1>17
  <1> HIDE DEF at
  <1>10. \A k \in at : 2 <= k
    BY <1>9
  <1>11. Min(at) = 2
    <2> DEFINE m == CHOOSE k \in at : \A n \in at : k <= n
    <2>1. \E k \in at : \A n \in at : k <= n
      BY <1>9, <1>10
    <2>2. m \in at /\ \A n \in at : m <= n
      BY <2>1
    <2> HIDE DEF m
    <2>3. m = 2
      BY <1>9, <1>10, <2>2
    <2>. QED
      BY <2>3 DEF Min, m
  <1>12. Find(u, <<key>>, 0) = 2
    <2>1. Find(u, <<key>>, 0) = IF at = {} THEN Npos ELSE Min(at)
      BY Zenon DEF Find, at
    <2>2. at # {}
      BY <1>9
    <2>. QED
      BY <1>11, <2>1, <2>2, Zenon
  <1>13. Rest(u, 3) = SubSeq(u, 4, Len(u))
    BY DEF Rest, Substr, Npos
  <1>14. SubSeq(u, 4, Len(u)) = x
    <2> DEFINE rest == SubSeq(u, 4, Len(u))
    <2>1. rest \in Seq(B) /\ Len(rest) = Len(x) /\ \A j \in 1 .. Len(x) : rest[j] = u[3 + j]
      BY <1>2, <1>4
    <2> HIDE DEF rest
    <2>2. \A j \in 1 .. Len(x) : rest[j] = x[j]
      BY <1>6, <2>1
    <2>3. rest = x
      BY <1>2, <2>1, <2>2, SeqEqual
    <2>. QED
      BY <2>3 DEF rest
  <1>15. ExtractQuery(u) = LET start == 2 IN IF start = Npos THEN <<>> ELSE URLDecode(Rest(u, start + 1))
    BY <1>12, Zenon DEF ExtractQuery, key
  <1>16. 2 # Npos /\ 2 + 1 = 3
    BY DEF Npos
  <1>18. ExtractQuery(u) = URLDecode(x)
    BY <1>13, <1>14, <1>15, <1>16, Zenon
  <1>. QED
    BY <1>18 DEF u

LEMMA ExtractsTyped ==
  ASSUME NEW q \in Queries, NEW u \in Spellings[q]
  PROVE  ExtractQuery(u) = q
  <1>1. q \in Seq(Alphabet)
    BY DatabaseAssumption DEF Alphabet
  <1>2. \/ u = QueryUri(FormEncoded(q))
        \/ u = QueryUri(Spell(q, {}, UpperHex))
        \/ u = QueryUri(EncodeURI(q)) /\ ~Contains(q, "+")
    BY Zenon DEF Spellings
  <1>3. CASE u = QueryUri(FormEncoded(q))
    BY <1>1, <1>3, FormDecodes, ExtractsSpelled
  <1>4. CASE u = QueryUri(Spell(q, {}, UpperHex))
    <2>1. Spell(q, {}, UpperHex) \in Seq(Texts) /\ URLDecode(Spell(q, {}, UpperHex)) = q
      BY <1>1, SpellDecodes
    <2>. QED
      BY <1>4, <2>1, ExtractsSpelled
  <1>5. CASE u = QueryUri(EncodeURI(q)) /\ ~Contains(q, "+")
    <2>1. \A k \in 1 .. Len(q) : q[k] # "+"
      BY <1>5 DEF Contains
    <2> DEFINE plain == {"+", "=", "&", ";", "s"}
    <2>2. "%" \notin plain
      OBVIOUS
    <2> HIDE DEF plain
    <2>3. \A k \in 1 .. Len(q) : q[k] \in plain => q[k] # "%" /\ q[k] # "+"
      BY <2>1, <2>2
    <2>4. Spell(q, plain, UpperHex) \in Seq(Texts) /\ URLDecode(Spell(q, plain, UpperHex)) = q
      BY <1>1, <2>3, SpellDecodes
    <2>5. EncodeURI(q) = Spell(q, plain, UpperHex)
      BY Zenon DEF EncodeURI, plain
    <2>. QED
      BY <1>5, <2>4, <2>5, ExtractsSpelled
  <1>. QED
    BY <1>2, <1>3, <1>4, <1>5

-----------------------------------------------------------------------------
(***************************************************************************)
(* From extract until the query is executed, what a call keeps is what its *)
(* URI has for the query.                                                  *)
(***************************************************************************)
QueryInv ==
  /\ DOMAIN uri = Threads /\ uri = [t \in Threads |-> uri[t]]
  /\ DOMAIN query = Threads /\ query = [t \in Threads |-> query[t]]
  /\ \A t \in Threads :
       pc[t] \in {"schema", "create", "execute"} => query[t] = ExtractQuery(uri[t])

LEMMA QueryStep == IInv /\ QueryInv /\ [Next]_vars => QueryInv'
  <1> SUFFICES ASSUME IInv, QueryInv, [Next]_vars PROVE QueryInv'
    OBVIOUS
  <1> USE DEF Goto, IInv, Accounts, QueryInv
  <1>1. ASSUME NEW t \in Threads,
               \/ NoConnect(t) \/ NoQuery(t) \/ CatchException(t) \/ Free(t)
               \/ \E c \in Connections : Connect(t, c)
               \/ SetSchema(t) \/ ExecuteQuery(t)
        PROVE  QueryInv'
    <2>1. /\ UNCHANGED <<uri, query>>
          /\ \A v \in Threads : pc'[v] \in {"schema", "create", "execute"} =>
               pc[v] \in {"schema", "create", "execute"}
      BY <1>1 DEF NoConnect, NoQuery, CatchException, Free, Connect, SetSchema, ExecuteQuery,
                  CreateStatement, Select, Fetch, Update
    <2>. QED
      BY <2>1
  <1>2. ASSUME NEW t \in Threads, NEW u \in Uris, HandleRequest(t, u) PROVE QueryInv'
    BY <1>2 DEF HandleRequest
  <1>3. ASSUME NEW t \in Threads, Extract(t) PROVE QueryInv'
    BY <1>3 DEF Extract
  <1>4. ASSUME NEW t \in Threads, Return(t) PROVE QueryInv'
    BY <1>4 DEF Return
  <1>5. CASE UNCHANGED vars
    BY <1>5 DEF vars, locals
  <1>. QED
    BY <1>1, <1>2, <1>3, <1>4, <1>5 DEF Next, Step

(***************************************************************************)
(* The query executed is the query typed, for every query, of any length,  *)
(* over any alphabet of 256 characters, and in each of the three spellings *)
(* (lines 137-170); a plus sign sent by the page is the exception that the *)
(* property makes.                                                         *)
(***************************************************************************)
THEOREM DecodesWhatWasTyped == Spec => []QueryAsTyped
  <1>1. Init => QueryInv
    BY DEF Init, QueryInv
  <1>2. QueryInv => QueryAsTyped
    BY ExtractsTyped DEF QueryInv, QueryAsTyped
  <1>. QED
    BY <1>1, <1>2, IInit, IStep, QueryStep, PTL DEF Spec

-----------------------------------------------------------------------------
(***************************************************************************)
(* Any character stands for a hexadecimal digit, be it 0, so every pair    *)
(* has a code.                                                             *)
(***************************************************************************)
LEMMA FromHexType ==
  ASSUME NEW c
  PROVE  FromHex(c) \in 0 .. 15
  <1>1. CASE c \in Digits
    <2>1. PICK k \in 1 .. 10 : c = Digit[k]
      BY <1>1, LetterAt DEF Digits, Range
    <2>2. k - 1 \in 0 .. 9 /\ (k - 1) + 1 = k
      OBVIOUS
    <2>3. Hex(LowerHex, k - 1) = c
      BY <2>1, <2>2 DEF Hex
    <2>. QED
      BY <2>2, <2>3, HexValue
  <1>2. CASE c \in Range(LowerHex) \cup Range(UpperHex)
    <2>1. PICK k \in 1 .. 6 : c = LowerHex[k] \/ c = UpperHex[k]
      BY <1>2, LetterAt DEF Range
    <2>2. 9 + k \in 0 .. 15
      OBVIOUS
    <2>. QED
      BY <2>1, <2>2, LetterValue
  <1>3. CASE c \notin Digits /\ c \notin Range(LowerHex) /\ c \notin Range(UpperHex)
    <2>1. FromHex(c) = 0
      BY <1>3, Zenon DEF FromHex
    <2>. QED
      BY <2>1
  <1>. QED
    BY <1>1, <1>2, <1>3

LEMMA Codes256 ==
  \A a \in 0 .. 15, b \in 0 .. 15 : 16 * a + b \in 0 .. 255
  OBVIOUS

LEMMA DecodedType ==
  ASSUME NEW a, NEW b
  PROVE  Decoded(a, b) \in Alphabet
  <1> DEFINE n == 16 * FromHex(a) + FromHex(b)
  <1>1. n \in 0 .. 255
    BY FromHexType, Codes256
  <1> HIDE DEF n
  <1>2. Symbol[n] \in Range(Symbol)
    BY <1>1, DatabaseAssumption DEF Range
  <1>. QED
    BY <1>2, Zenon DEF Decoded, Alphabet, n

LEMMA Literals ==
  /\ {"{", "}", "[", "]", ":", ",", "'", "\n", "cols", "data", " "} \subseteq Characters
  /\ {"Query OK, ", " rows affected.", "Error: ", "what()"} \subseteq Characters
  /\ "Error: Could not connect to MySQL database." \in Characters
  /\ "Error: Could not find query parameter." \in Characters
  /\ Alphabet \subseteq Characters
  <1> DEFINE W == Written
  <1>1. W \subseteq Characters /\ Range(Symbol) \subseteq Characters
    BY TextAssumption
  <1>. QED
    BY <1>1 DEF Written, Alphabet

LEMMA URLDecodeType ==
  ASSUME NEW text \in Seq(Characters)
  PROVE  URLDecode(text) \in Seq(Characters)
  <1> DEFINE l == Len(text)
             S == 1 .. l + 1
             rank == [k \in S |-> l + 1 - k]
  <1>0. l \in Nat /\ \A k \in 1 .. l : text[k] \in Characters
    BY LenProperties, ElementOfSeq
  <1>1. PICK from : /\ URLDecode(text) = from[1]
                    /\ \A k \in S : from[k] = DecodeStep(text, from, k)
    BY URLDecodeIs
  <1> DEFINE P == {k \in S : from[k] \in Seq(Characters)}
  <1>2. rank \in [S -> Nat]
    BY <1>0
  <1>3. \A k \in S :
          /\ k > l <=> ~(k <= l)
          /\ k <= l => k \in 1 .. l /\ k + 1 \in S /\ rank[k + 1] < rank[k]
          /\ k + 2 <= l => k + 1 \in 1 .. l /\ k + 2 \in 1 .. l /\ k + 3 \in S /\ rank[k + 3] < rank[k]
    BY <1>0, TextPositions
  <1>4. ASSUME NEW k \in S, \A j \in S : rank[j] < rank[k] => j \in P
        PROVE  k \in P
    <2> HIDE DEF S, rank
    <2>0. DecodeStep(text, from, k) =
            IF k > l THEN <<>>
            ELSE IF text[k] = "%" /\ k + 2 <= l
                 THEN <<Decoded(text[k + 1], text[k + 2])>> \o from[k + 3]
                 ELSE <<IF text[k] = "+" THEN " " ELSE text[k]>> \o from[k + 1]
      BY Zenon DEF DecodeStep, l
    <2>1. CASE k > l
      BY <1>1, <2>0, <2>1, EmptySeq
    <2>2. CASE ~(k > l) /\ text[k] = "%" /\ k + 2 <= l
      <3> DEFINE b == Decoded(text[k + 1], text[k + 2])
                 rest == from[k + 3]
      <3>1. b \in Characters
        BY DecodedType, Literals
      <3>2. rest \in Seq(Characters)
        BY <1>3, <1>4, <2>2
      <3>3. DecodeStep(text, from, k) = <<b>> \o rest
        BY <2>0, <2>2
      <3> HIDE DEF b, rest
      <3>4. <<b>> \o rest \in Seq(Characters)
        BY <3>1, <3>2, ConcatProperties
      <3>. QED
        BY <1>1, <3>3, <3>4
    <2>3. CASE ~(k > l) /\ ~(text[k] = "%" /\ k + 2 <= l)
      <3> DEFINE b == IF text[k] = "+" THEN " " ELSE text[k]
                 rest == from[k + 1]
      <3>1. k <= l
        BY <1>3, <2>3
      <3>2. b \in Characters
        BY <1>0, <1>3, <3>1, Literals
      <3>3. rest \in Seq(Characters)
        BY <1>3, <1>4, <3>1
      <3>4. DecodeStep(text, from, k) = <<b>> \o rest
        BY <2>0, <2>3
      <3> HIDE DEF b, rest
      <3>5. <<b>> \o rest \in Seq(Characters)
        BY <3>2, <3>3, ConcatProperties
      <3>. QED
        BY <1>1, <3>4, <3>5
    <2>. QED
      BY <2>1, <2>2, <2>3
  <1>5. S \subseteq P
    <2> HIDE DEF S, rank, P
    <2>. QED
      BY <1>2, <1>4, RankInduction, SMT
  <1>6. 1 \in S
    BY <1>0
  <1>. QED
    BY <1>1, <1>5, <1>6

LEMMA LeastIs ==
  ASSUME NEW T \in SUBSET Nat, T # {}
  PROVE  Min(T) \in T
  <1>1. PICK m \in T : \A n \in T : m <= n
    BY LeastNumber
  <1>. QED
    BY <1>1 DEF Min

LEMMA FindType ==
  ASSUME NEW text, NEW pattern
  PROVE  Find(text, pattern, 0) \in Nat \cup {Npos}
  <1> DEFINE at == {k \in 0 .. Len(text) - Len(pattern) : SubSeq(text, k + 1, k + Len(pattern)) = pattern}
  <1>1. Find(text, pattern, 0) = IF at = {} THEN Npos ELSE Min(at)
    BY Zenon DEF Find
  <1>2. at \in SUBSET Nat
    OBVIOUS
  <1> HIDE DEF at
  <1>. QED
    BY <1>1, <1>2, LeastIs

LEMMA RestType ==
  ASSUME NEW text \in Seq(Characters), NEW k \in Nat
  PROVE  Rest(text, k) \in Seq(Characters)
  <1>1. Rest(text, k) = SubSeq(text, k + 1, Len(text))
    BY DEF Rest, Substr, Npos
  <1>. QED
    BY <1>1

LEMMA ExtractQueryType ==
  ASSUME NEW u \in Seq(Characters)
  PROVE  ExtractQuery(u) \in Seq(Characters)
  <1> DEFINE start == Find(u, <<"query=">>, 0)
  <1>1. start \in Nat \cup {Npos}
    BY FindType
  <1>2. ExtractQuery(u) = IF start = Npos THEN <<>> ELSE URLDecode(Rest(u, start + 1))
    BY Zenon DEF ExtractQuery
  <1> HIDE DEF start
  <1>3. CASE start = Npos
    BY <1>2, <1>3, EmptySeq
  <1>4. CASE start # Npos
    <2>1. start + 1 \in Nat
      BY <1>1, <1>4
    <2>. QED
      BY <1>2, <1>4, <2>1, RestType, URLDecodeType
  <1>. QED
    BY <1>3, <1>4

-----------------------------------------------------------------------------
(***************************************************************************)
(* Texts without line feeds: each character stands for itself or nothing.  *)
(***************************************************************************)
Kept == [c \in Characters |-> IF c = "\n" THEN <<>> ELSE <<c>>]
Words == Characters \ {"\n"}

LEMMA KeptMaps == Maps(Kept, Characters, Seq(Words))
  <1>1. ASSUME NEW c \in Characters
        PROVE  (IF c = "\n" THEN <<>> ELSE <<c>>) \in Seq(Words)
    <2>1. CASE c = "\n"
      BY <2>1, EmptySeq
    <2>2. CASE c # "\n"
      <3>1. c \in Words
        BY <2>2 DEF Words
      <3>. QED
        BY <2>2, <3>1
    <2>. QED
      BY <2>1, <2>2
  <1>. QED
    BY <1>1 DEF Maps, Kept

LEMMA KeptAppend ==
  ASSUME NEW s \in Seq(Characters), NEW x \in Characters
  PROVE  FlattenSeq(Applied(Append(s, x), Kept)) = FlattenSeq(Applied(s, Kept)) \o Kept[x]
  BY KeptMaps, FlattenApplied

LEMMA UnbrokenIs ==
  ASSUME NEW text \in Seq(Characters)
  PROVE  Unbroken(text) = FlattenSeq(Applied(text, Kept))
  <1>1. \A k \in DOMAIN text : text[k] \in Characters
    OBVIOUS
  <1>2. [k \in DOMAIN text |-> IF text[k] = "\n" THEN <<>> ELSE <<text[k]>>] = Applied(text, Kept)
    <2>1. \A k \in DOMAIN text : (IF text[k] = "\n" THEN <<>> ELSE <<text[k]>>) = Kept[text[k]]
      BY <1>1 DEF Kept
    <2>. QED
      BY <2>1 DEF Applied
  <1>. QED
    BY <1>2, Zenon DEF Unbroken

LEMMA UnbrokenConcat ==
  ASSUME NEW p \in Seq(Characters), NEW q \in Seq(Characters)
  PROVE  /\ Unbroken(p) \in Seq(Words) /\ Unbroken(q) \in Seq(Words)
         /\ p \o q \in Seq(Characters) /\ Unbroken(p \o q) = Unbroken(p) \o Unbroken(q)
  <1>1. p \o q \in Seq(Characters)
    BY ConcatProperties
  <1>2. FlattenSeq(Applied(p \o q, Kept)) = FlattenSeq(Applied(p, Kept)) \o FlattenSeq(Applied(q, Kept))
    BY KeptMaps, FlattenAppliedConcat
  <1>3. FlattenSeq(Applied(p, Kept)) \in Seq(Words) /\ FlattenSeq(Applied(q, Kept)) \in Seq(Words)
    BY KeptMaps, FlattenAppliedType
  <1>4. Unbroken(p \o q) = FlattenSeq(Applied(p \o q, Kept))
    BY <1>1, UnbrokenIs
  <1>5. Unbroken(p) = FlattenSeq(Applied(p, Kept)) /\ Unbroken(q) = FlattenSeq(Applied(q, Kept))
    BY UnbrokenIs
  <1>. QED
    BY <1>1, <1>2, <1>3, <1>4, <1>5, Zenon

LEMMA WordsAreCharacters == Seq(Words) \subseteq Seq(Characters) /\ "\n" \in Characters
  <1>1. Words \subseteq Characters
    BY DEF Words
  <1>. QED
    BY <1>1, SeqMonotonic, Literals

LEMMA UnbrokenWords ==
  ASSUME NEW text \in Seq(Words)
  PROVE  Unbroken(text) = text
  <1> DEFINE P == {t \in Seq(Words) : FlattenSeq(Applied(t, Kept)) = t}
  <1>1. <<>> \in P
    BY AppliedEmpty, EmptySeq
  <1>2. ASSUME NEW s \in Seq(Words), s \in P, NEW x \in Words
        PROVE  Append(s, x) \in P
    <2>1. Append(s, x) \in Seq(Words) /\ Append(s, x) = s \o <<x>>
      BY AppendProperties, AppendIsConcat
    <2>2. Kept[x] = <<x>> /\ x \in Characters
      BY DEF Kept, Words
    <2>3. s \in Seq(Characters)
      BY WordsAreCharacters
    <2>4. FlattenSeq(Applied(Append(s, x), Kept)) = FlattenSeq(Applied(s, Kept)) \o Kept[x]
      BY <2>2, <2>3, KeptAppend
    <2>. QED
      BY <1>2, <2>1, <2>2, <2>4
  <1>3. Seq(Words) \subseteq P
    <2> HIDE DEF P
    <2>. QED
      BY <1>1, <1>2, SeqInductive
  <1>4. text \in Seq(Characters)
    BY WordsAreCharacters
  <1>. QED
    BY <1>3, <1>4, UnbrokenIs

LEMMA UnbrokenLine == <<"\n">> \in Seq(Characters) /\ Unbroken(<<"\n">>) = <<>>
  <1> DEFINE c == "\n"
  <1>1. c \in Characters /\ Kept[c] = <<>>
    BY WordsAreCharacters DEF Kept
  <1> HIDE DEF c
  <1>2. <<c>> \in Seq(Characters) /\ <<>> \in Seq(Characters) /\ <<c>> = Append(<<>>, c)
    BY <1>1
  <1>3. FlattenSeq(Applied(Append(<<>>, c), Kept)) = FlattenSeq(Applied(<<>>, Kept)) \o Kept[c]
    BY <1>1, <1>2, KeptAppend
  <1>4. FlattenSeq(Applied(<<c>>, Kept)) = <<>> \o <<>>
    BY <1>1, <1>2, <1>3, AppliedEmpty
  <1>5. <<>> \o <<>> = <<>>
    OBVIOUS
  <1>6. Unbroken(<<c>>) = <<>>
    BY <1>2, <1>4, <1>5, UnbrokenIs
  <1>. QED
    BY <1>2, <1>6 DEF c

(***************************************************************************)
(* A comma after each part but the last is a comma before each but the     *)
(* first.                                                                  *)
(***************************************************************************)
Parts == Seq(Words)
Comma == <<",">>
CommaAfter == [p \in Parts |-> p \o Comma]
WithCommas(parts) ==
  [k \in DOMAIN parts |-> parts[k] \o IF k = Len(parts) THEN <<>> ELSE Comma]
Preceded(parts) == [k \in DOMAIN parts |-> IF k = 1 THEN parts[k] ELSE Comma \o parts[k]]
Ended(parts) == FlattenSeq(Applied(parts, CommaAfter))

LEMMA CommaMaps == Comma \in Parts /\ Maps(CommaAfter, Parts, Parts)
  <1> DEFINE c == ","
  <1>1. c \in Words
    BY Literals DEF Words
  <1> HIDE DEF c
  <1>2. <<c>> \in Seq(Words)
    BY <1>1
  <1>3. Comma \in Parts
    BY <1>2 DEF Comma, Parts, c
  <1>4. \A p \in Parts : p \o Comma \in Parts
    BY <1>3, ConcatProperties DEF Parts
  <1>. QED
    BY <1>3, <1>4 DEF Maps, CommaAfter

LEMMA EndedAppend ==
  ASSUME NEW parts \in Seq(Parts), NEW x \in Parts
  PROVE  /\ Ended(parts) \in Parts /\ Ended(<<>>) = <<>> /\ Applied(parts, CommaAfter) \in Seq(Parts)
         /\ Len(Applied(parts, CommaAfter)) = Len(parts)
         /\ Ended(Append(parts, x)) = Ended(parts) \o (x \o Comma)
  <1>1. Maps(CommaAfter, Parts, Seq(Words))
    BY CommaMaps DEF Parts
  <1>2. Ended(Append(parts, x)) = Ended(parts) \o CommaAfter[x]
    BY <1>1, FlattenApplied DEF Ended
  <1>3. CommaAfter[x] = x \o Comma
    BY DEF CommaAfter
  <1>4. Ended(parts) \in Parts
    BY <1>1, FlattenAppliedType DEF Ended, Parts
  <1>5. Applied(parts, CommaAfter) \in Seq(Parts) /\ Len(Applied(parts, CommaAfter)) = Len(parts)
    BY CommaMaps, AppliedAppend
  <1>. QED
    BY <1>2, <1>3, <1>4, <1>5, AppliedEmpty DEF Ended

LEMMA AppendParts ==
  ASSUME NEW parts \in Seq(Parts), NEW x \in Parts
  PROVE  /\ Append(parts, x) \in Seq(Parts) /\ Len(parts) \in Nat
         /\ DOMAIN parts = 1 .. Len(parts) /\ \A k \in 1 .. Len(parts) : parts[k] \in Parts
         /\ DOMAIN Append(parts, x) = 1 .. Len(parts) + 1 /\ Len(Append(parts, x)) = Len(parts) + 1
         /\ Append(parts, x)[Len(parts) + 1] = x
         /\ \A k \in 1 .. Len(parts) : Append(parts, x)[k] = parts[k]
  <1>1. Append(parts, x) \in Seq(Parts) /\ Len(Append(parts, x)) = Len(parts) + 1
    BY AppendProperties
  <1>2. DOMAIN Append(parts, x) = 1 .. Len(parts) + 1 /\ DOMAIN parts = 1 .. Len(parts)
    BY <1>1, LenProperties
  <1>. QED
    BY <1>1, <1>2, AppendProperties, LenProperties, ElementOfSeq

LEMMA WithCommasAppend ==
  ASSUME NEW parts \in Seq(Parts), NEW x \in Parts
  PROVE  FlattenSeq(WithCommas(Append(parts, x))) = Ended(parts) \o x
  <1> DEFINE n == Len(parts)
             more == Append(parts, x)
             a == WithCommas(more)
             m == Applied(parts, CommaAfter)
             b == Append(m, x)
  <1>1. /\ more \in Seq(Parts) /\ n \in Nat
        /\ DOMAIN parts = 1 .. n /\ \A k \in 1 .. n : parts[k] \in Parts
        /\ DOMAIN more = 1 .. n + 1 /\ Len(more) = n + 1
        /\ more[n + 1] = x /\ \A k \in 1 .. n : more[k] = parts[k]
    BY AppendParts
  <1>2. m \in Seq(Parts) /\ Len(m) = n
    BY EndedAppend
  <1>3. \A k \in 1 .. n : m[k] = parts[k] \o Comma
    BY <1>1 DEF Applied, CommaAfter
  <1> HIDE DEF m, more
  <1>4. b \in Seq(Parts) /\ DOMAIN b = 1 .. n + 1 /\ b[n + 1] = x /\ \A k \in 1 .. n : b[k] = m[k]
    <2>1. b \in Seq(Parts) /\ Len(b) = n + 1 /\ b[n + 1] = x /\ \A k \in 1 .. n : b[k] = m[k]
      BY <1>2, AppendProperties
    <2> HIDE DEF b
    <2>. QED
      BY <2>1, LenProperties
  <1> HIDE DEF b
  <1>5. a = [k \in 1 .. n + 1 |-> more[k] \o IF k = n + 1 THEN <<>> ELSE Comma]
    BY <1>1, Zenon DEF WithCommas
  <1> HIDE DEF n
  <1>6. ASSUME NEW k \in 1 .. n + 1
        PROVE  (more[k] \o IF k = n + 1 THEN <<>> ELSE Comma) = b[k]
    <2>1. CASE k = n + 1
      <3>1. x \o <<>> = x
        BY ConcatEmptySeq DEF Parts
      <3>. QED
        BY <1>1, <1>4, <2>1, <3>1
    <2>2. CASE k # n + 1
      <3>1. k \in 1 .. n
        BY <1>1, <2>2
      <3>2. more[k] = parts[k] /\ b[k] = parts[k] \o Comma
        BY <1>1, <1>3, <1>4, <3>1
      <3>. QED
        BY <2>2, <3>2, Zenon
    <2>. QED
      BY <2>1, <2>2
  <1>7. b = [k \in 1 .. n + 1 |-> b[k]]
    <2>1. b \in [1 .. n + 1 -> Parts]
      BY <1>1, <1>4
    <2>. QED
      BY <2>1
  <1>8. a = b
    BY <1>5, <1>6, <1>7, Zenon
  <1>9. FlattenSeq(b) = FlattenSeq(m) \o x
    <2>1. m \in Seq(Seq(Words)) /\ x \in Seq(Words)
      BY <1>2 DEF Parts
    <2>. QED
      BY <2>1, FlattenAppend DEF b
  <1>. QED
    BY <1>8, <1>9 DEF Ended, m, more

LEMMA PrecededAppend ==
  ASSUME NEW parts \in Seq(Parts), NEW x \in Parts
  PROVE  /\ Preceded(parts) \in Seq(Parts)
         /\ Preceded(Append(parts, x)) =
              Append(Preceded(parts), IF parts = <<>> THEN x ELSE Comma \o x)
  <1> DEFINE n == Len(parts)
             more == Append(parts, x)
             a == Preceded(more)
             m == Preceded(parts)
             y == IF parts = <<>> THEN x ELSE Comma \o x
             b == Append(m, y)
  <1>1. /\ more \in Seq(Parts) /\ n \in Nat
        /\ DOMAIN parts = 1 .. n /\ \A k \in 1 .. n : parts[k] \in Parts
        /\ DOMAIN more = 1 .. n + 1 /\ Len(more) = n + 1
        /\ more[n + 1] = x /\ \A k \in 1 .. n : more[k] = parts[k]
    BY AppendParts
  <1>0. \A p \in Parts : Comma \o p \in Parts
    BY CommaMaps, ConcatProperties DEF Parts
  <1>2. m = [k \in 1 .. n |-> IF k = 1 THEN parts[k] ELSE Comma \o parts[k]]
    BY <1>1, Zenon DEF Preceded
  <1>3. m \in Seq(Parts) /\ Len(m) = n
    <2> HIDE DEF m, n
    <2>1. m \in [1 .. n -> Parts]
      BY <1>0, <1>1, <1>2
    <2>. QED
      BY <1>1, <2>1
  <1>4. parts = <<>> <=> n + 1 = 1
    BY <1>1, EmptySeq
  <1>5. y \in Parts
    BY <1>0
  <1>6. a = [k \in 1 .. n + 1 |-> IF k = 1 THEN more[k] ELSE Comma \o more[k]]
    BY <1>1, Zenon DEF Preceded
  <1> HIDE DEF m, more, y, a
  <1>7. b \in Seq(Parts) /\ DOMAIN b = 1 .. n + 1 /\ b[n + 1] = y /\ \A k \in 1 .. n : b[k] = m[k]
    <2>1. b \in Seq(Parts) /\ Len(b) = n + 1 /\ b[n + 1] = y /\ \A k \in 1 .. n : b[k] = m[k]
      BY <1>3, <1>5, AppendProperties
    <2> HIDE DEF b
    <2>. QED
      BY <2>1, LenProperties
  <1> HIDE DEF n, b
  <1>8. ASSUME NEW k \in 1 .. n + 1
        PROVE  (IF k = 1 THEN more[k] ELSE Comma \o more[k]) = b[k]
    <2>1. CASE k = n + 1
      <3>1. more[k] = x /\ b[k] = y
        BY <1>1, <1>7, <2>1
      <3>2. k = 1 <=> parts = <<>>
        BY <1>4, <2>1
      <3>. QED
        BY <3>1, <3>2, Zenon DEF y
    <2>2. CASE k # n + 1
      <3>1. k \in 1 .. n
        BY <1>1, <2>2
      <3>2. more[k] = parts[k] /\ b[k] = IF k = 1 THEN parts[k] ELSE Comma \o parts[k]
        BY <1>1, <1>2, <1>7, <3>1
      <3>. QED
        BY <3>2, Zenon
    <2>. QED
      BY <2>1, <2>2
  <1>9. b = [k \in 1 .. n + 1 |-> b[k]]
    <2>1. b \in [1 .. n + 1 -> Parts]
      BY <1>1, <1>7
    <2>. QED
      BY <2>1
  <1>10. a = b
    BY <1>6, <1>8, <1>9, Zenon
  <1>. QED
    BY <1>3, <1>10 DEF a, b, m, y, more

LEMMA SeparatedAppend ==
  ASSUME NEW parts \in Seq(Parts), NEW x \in Parts
  PROVE  /\ Separated(parts) \in Parts
         /\ Separated(Append(parts, x)) =
              IF parts = <<>> THEN x ELSE Separated(parts) \o (Comma \o x)
  <1> DEFINE y == IF parts = <<>> THEN x ELSE Comma \o x
             m == Preceded(parts)
  <1>1. m \in Seq(Parts) /\ Preceded(Append(parts, x)) = Append(m, y)
    BY PrecededAppend
  <1>2. Separated(parts) = FlattenSeq(m) /\ Separated(Append(parts, x)) = FlattenSeq(Append(m, y))
    BY <1>1 DEF Separated, Preceded, Comma
  <1>3. y \in Parts
    BY CommaMaps, ConcatProperties DEF Parts
  <1>0. parts = <<>> => m = <<>>
    BY DEF Preceded
  <1> HIDE DEF m, y
  <1>4. FlattenSeq(m) \in Seq(Words) /\ FlattenSeq(Append(m, y)) = FlattenSeq(m) \o y
    BY <1>1, <1>3, FlattenAppend DEF Parts
  <1>5. CASE parts = <<>>
    <2>1. FlattenSeq(m) = <<>> /\ y = x
      BY <1>0, <1>5, FlattenEmpty DEF y
    <2>2. <<>> \o x = x
      BY ConcatEmptySeq DEF Parts
    <2>. QED
      BY <1>2, <1>4, <1>5, <2>1, <2>2 DEF Parts
  <1>6. CASE parts # <<>>
    BY <1>2, <1>4, <1>6 DEF Parts, y
  <1>. QED
    BY <1>5, <1>6

LEMMA EndedIs ==
  \A parts \in Seq(Parts) : parts # <<>> => Ended(parts) = Separated(parts) \o Comma
  <1> DEFINE P == {parts \in Seq(Parts) : parts # <<>> => Ended(parts) = Separated(parts) \o Comma}
  <1>1. <<>> \in P
    BY EmptySeq
  <1>2. ASSUME NEW s \in Seq(Parts), s \in P, NEW x \in Parts
        PROVE  Append(s, x) \in P
    <2>1. Ended(Append(s, x)) = Ended(s) \o (x \o Comma) /\ Ended(<<>>) = <<>>
      BY EndedAppend
    <2>2. /\ Separated(s) \in Parts
          /\ Separated(Append(s, x)) = IF s = <<>> THEN x ELSE Separated(s) \o (Comma \o x)
      BY SeparatedAppend
    <2>3. Append(s, x) \in Seq(Parts)
      BY AppendParts
    <2>4. Comma \in Parts /\ x \o Comma \in Parts /\ Comma \o x \in Parts
      BY CommaMaps, ConcatProperties DEF Parts
    <2>5. CASE s = <<>>
      <3>1. <<>> \o (x \o Comma) = x \o Comma
        BY <2>4, ConcatEmptySeq DEF Parts
      <3>. QED
        BY <2>1, <2>2, <2>3, <2>5, <3>1
    <2>6. CASE s # <<>>
      <3>1. Ended(s) = Separated(s) \o Comma
        BY <1>2, <2>6
      <3> DEFINE q == Separated(s)
      <3>2. q \in Parts
        BY <2>2
      <3> HIDE DEF q
      <3>3. (q \o Comma) \o (x \o Comma) = q \o (Comma \o (x \o Comma))
        BY <2>4, <3>2, ConcatAssociative DEF Parts
      <3>4. Comma \o (x \o Comma) = (Comma \o x) \o Comma
        BY <2>4, ConcatAssociative DEF Parts
      <3>5. (q \o (Comma \o x)) \o Comma = q \o ((Comma \o x) \o Comma)
        <4> DEFINE c == Comma
                   d == c \o x
        <4>1. q \in Seq(Words) /\ c \in Seq(Words) /\ d \in Seq(Words)
          BY <2>4, <3>2 DEF Parts
        <4> HIDE DEF c, d
        <4>2. (q \o d) \o c = q \o (d \o c)
          BY <4>1, ConcatAssociative
        <4>. QED
          BY <4>2 DEF c, d
      <3>6. Ended(Append(s, x)) = (q \o Comma) \o (x \o Comma)
        BY <2>1, <3>1 DEF q
      <3>7. Separated(Append(s, x)) = q \o (Comma \o x)
        BY <2>2, <2>6 DEF q
      <3>8. Ended(Append(s, x)) = Separated(Append(s, x)) \o Comma
        BY <3>3, <3>4, <3>5, <3>6, <3>7, Zenon
      <3>. QED
        BY <2>3, <3>8
    <2>. QED
      BY <2>5, <2>6
  <1>3. Seq(Parts) \subseteq P
    <2> HIDE DEF P
    <2>. QED
      BY <1>1, <1>2, SeqInductive
  <1>. QED
    BY <1>3

LEMMA SeparatedIs ==
  ASSUME NEW parts \in Seq(Parts)
  PROVE  Separated(parts) \in Parts /\ FlattenSeq(WithCommas(parts)) = Separated(parts)
  <1>1. CASE parts = <<>>
    <2>1. WithCommas(<<>>) = <<>> /\ Preceded(<<>>) = <<>>
      BY DEF WithCommas, Preceded
    <2>2. Separated(<<>>) = FlattenSeq(Preceded(<<>>))
      BY Zenon DEF Separated, Preceded, Comma
    <2>. QED
      BY <1>1, <2>1, <2>2, FlattenEmpty, EmptySeq DEF Parts
  <1>2. CASE parts # <<>>
    <2>1. PICK s \in Seq(Parts), x \in Parts : parts = Append(s, x)
      BY <1>2, SequenceEmptyOrAppend
    <2>2. FlattenSeq(WithCommas(parts)) = Ended(s) \o x
      BY <2>1, WithCommasAppend
    <2>3. Separated(s) \in Parts /\ Separated(parts) = IF s = <<>> THEN x ELSE Separated(s) \o (Comma \o x)
      BY <2>1, SeparatedAppend
    <2>4. CASE s = <<>>
      <3>1. Ended(s) = <<>> /\ <<>> \o x = x
        BY <2>4, EndedAppend, ConcatEmptySeq DEF Parts
      <3>. QED
        BY <2>2, <2>3, <2>4, <3>1
    <2>5. CASE s # <<>>
      <3> DEFINE q == Separated(s)
      <3>1. q \in Parts /\ Ended(s) = q \o Comma
        BY <2>3, <2>5, EndedIs
      <3> HIDE DEF q
      <3>2. (q \o Comma) \o x = q \o (Comma \o x)
        BY <3>1, CommaMaps, ConcatAssociative DEF Parts
      <3>3. Separated(parts) = q \o (Comma \o x)
        BY <2>3, <2>5 DEF q
      <3>4. q \o (Comma \o x) \in Parts
        BY <3>1, CommaMaps, ConcatProperties DEF Parts
      <3>. QED
        BY <2>2, <3>1, <3>2, <3>3, <3>4
    <2>. QED
      BY <2>4, <2>5
  <1>. QED
    BY <1>1, <1>2

Cat(p, q) == p \o q
LEMMA CatIs ==
  ASSUME NEW A
  PROVE  /\ \A p, q \in Seq(A) : Cat(p, q) \in Seq(A)
         /\ \A p, q, r \in Seq(A) : Cat(Cat(p, q), r) = Cat(p, Cat(q, r))
  <1>1. \A p, q \in Seq(A) : Cat(p, q) \in Seq(A)
    BY ConcatProperties DEF Cat
  <1>2. ASSUME NEW p \in Seq(A), NEW q \in Seq(A), NEW r \in Seq(A)
        PROVE  Cat(Cat(p, q), r) = Cat(p, Cat(q, r))
    BY ConcatAssociative DEF Cat
  <1>. QED
    BY <1>1, <1>2

LEMMA CatTexts ==
  /\ \A x, y \in Seq(Characters) : Cat(x, y) \in Seq(Characters)
  /\ \A x, y, z \in Seq(Characters) : Cat(Cat(x, y), z) = Cat(x, Cat(y, z))
  <1>1. \A x, y \in Seq(Characters) : Cat(x, y) \in Seq(Characters)
    BY CatIs
  <1>2. \A x, y, z \in Seq(Characters) : Cat(Cat(x, y), z) = Cat(x, Cat(y, z))
    BY CatIs
  <1>. QED
    BY <1>1, <1>2

(***************************************************************************)
(* The arrays of the answer, and its rows.                                 *)
(***************************************************************************)
LEMMA SymbolIs ==
  ASSUME NEW c \in Words
  PROVE  <<c>> \in Parts
  BY DEF Parts

LEMMA Symbols ==
  /\ <<"{">> \in Parts /\ <<"}">> \in Parts /\ <<"[">> \in Parts /\ <<"]">> \in Parts
  /\ <<":">> \in Parts /\ Comma \in Parts /\ <<"'">> \in Parts
  /\ "cols" \in Words /\ "data" \in Words
  <1>1. /\ "{" \in Words /\ "}" \in Words /\ "[" \in Words /\ "]" \in Words
        /\ ":" \in Words /\ "," \in Words /\ "'" \in Words
        /\ "cols" \in Words /\ "data" \in Words
    BY Literals DEF Words
  <1>. QED
    BY <1>1, SymbolIs, Zenon DEF Comma

LEMMA QuotedType ==
  ASSUME NEW w \in Words
  PROVE  Quoted(w) \in Parts
  <1> DEFINE q == "'"
  <1>1. q \in Words
    BY Literals DEF Words
  <1> HIDE DEF q
  <1>2. <<q, w, q>> \in Seq(Words)
    BY <1>1
  <1>. QED
    BY <1>2 DEF Quoted, Parts, q

QuotedParts(words) == [k \in DOMAIN words |-> Quoted(words[k])]

LEMMA ListedIs ==
  ASSUME NEW words \in Seq(Words)
  PROVE  /\ Listed(words) \in Parts
         /\ Array(words) = (<<"[">> \o Listed(words)) \o <<"]">>
  <1> DEFINE parts == QuotedParts(words)
  <1>1. DOMAIN words = 1 .. Len(words) /\ Len(words) \in Nat /\ \A k \in 1 .. Len(words) : words[k] \in Words
    BY LenProperties, ElementOfSeq
  <1>2. parts = [k \in 1 .. Len(words) |-> Quoted(words[k])]
    BY <1>1 DEF QuotedParts
  <1>3. parts \in Seq(Parts) /\ Len(parts) = Len(words) /\ DOMAIN parts = DOMAIN words
    <2> HIDE DEF parts
    <2>1. \A k \in 1 .. Len(words) : Quoted(words[k]) \in Parts
      BY <1>1, QuotedType
    <2>2. parts \in [1 .. Len(words) -> Parts]
      BY <1>2, <2>1
    <2>. QED
      BY <1>1, <2>2
  <1>4. Listed(words) = FlattenSeq(WithCommas(parts))
    <2>1. \A k \in DOMAIN words : parts[k] = Quoted(words[k])
      BY <1>1, <1>2
    <2> HIDE DEF parts
    <2>2. WithCommas(parts) =
            [k \in DOMAIN words |-> Quoted(words[k]) \o IF k = Len(words) THEN <<>> ELSE Comma]
      BY <1>3, <2>1, Zenon DEF WithCommas
    <2>. QED
      BY <2>2, Zenon DEF Listed, Comma
  <1>5. Array(words) = (<<"[">> \o Separated(parts)) \o <<"]">>
    BY Zenon DEF Array, QuotedParts
  <1> HIDE DEF parts
  <1>. QED
    BY <1>3, <1>4, <1>5, SeparatedIs, Zenon

LEMMA Together ==
  \A c, d, e : /\ <<c, d>> = <<c>> \o <<d>>
               /\ <<c, d, e>> = <<c>> \o (<<d>> \o <<e>>)
  <1> SUFFICES ASSUME NEW c, NEW d, NEW e
               PROVE  <<c, d>> = <<c>> \o <<d>> /\ <<c, d, e>> = <<c>> \o (<<d>> \o <<e>>)
    OBVIOUS
  <1> DEFINE A == {c, d, e}
  <1>1. c \in A /\ d \in A /\ e \in A
    OBVIOUS
  <1> HIDE DEF A
  <1>2. ASSUME NEW x \in A, NEW y \in A PROVE <<x>> \o <<y>> = <<x, y>>
    <2> DEFINE p == <<x>>
               q == <<y>>
               w == p \o q
               t == <<x, y>>
    <2>1. /\ p \in Seq(A) /\ Len(p) = 1 /\ p[1] = x
          /\ q \in Seq(A) /\ Len(q) = 1 /\ q[1] = y
          /\ t \in Seq(A) /\ Len(t) = 2 /\ t[1] = x /\ t[2] = y
      OBVIOUS
    <2> HIDE DEF p, q, t
    <2>2. w \in Seq(A) /\ Len(w) = 2 /\ w[1] = x /\ w[2] = y
      <3>1. w \in Seq(A) /\ Len(w) = Len(p) + Len(q)
        BY <2>1, ConcatProperties
      <3>2. \A i \in 1 .. Len(p) + Len(q) : w[i] = IF i <= Len(p) THEN p[i] ELSE q[i - Len(p)]
        BY <2>1, ConcatProperties
      <3> HIDE DEF w
      <3>. QED
        BY <2>1, <3>1, <3>2
    <2> HIDE DEF w
    <2>3. \A i \in 1 .. Len(w) : w[i] = t[i]
      BY <2>1, <2>2
    <2>4. w = t
      BY <2>1, <2>2, <2>3, SeqEqual
    <2>. QED
      BY <2>4 DEF p, q, w, t
  <1>3. ASSUME NEW x \in A, NEW y \in A, NEW z \in A PROVE <<x>> \o <<y, z>> = <<x, y, z>>
    <2> DEFINE p == <<x>>
               q == <<y, z>>
               w == p \o q
               t == <<x, y, z>>
    <2>1. /\ p \in Seq(A) /\ Len(p) = 1 /\ p[1] = x
          /\ q \in Seq(A) /\ Len(q) = 2 /\ q[1] = y /\ q[2] = z
          /\ t \in Seq(A) /\ Len(t) = 3 /\ t[1] = x /\ t[2] = y /\ t[3] = z
      OBVIOUS
    <2> HIDE DEF p, q, t
    <2>2. w \in Seq(A) /\ Len(w) = 3 /\ w[1] = x /\ w[2] = y /\ w[3] = z
      <3>1. w \in Seq(A) /\ Len(w) = Len(p) + Len(q)
        BY <2>1, ConcatProperties
      <3>2. \A i \in 1 .. Len(p) + Len(q) : w[i] = IF i <= Len(p) THEN p[i] ELSE q[i - Len(p)]
        BY <2>1, ConcatProperties
      <3> HIDE DEF w
      <3>. QED
        BY <2>1, <3>1, <3>2
    <2> HIDE DEF w
    <2>3. \A i \in 1 .. Len(w) : w[i] = t[i]
      BY <2>1, <2>2
    <2>4. w = t
      BY <2>1, <2>2, <2>3, SeqEqual
    <2>. QED
      BY <2>4 DEF p, q, w, t
  <1>. QED
    BY <1>1, <1>2, <1>3

RowMember(k, values) == Member(ToString(k), Array(values))
Line == <<"\n">>

LEMMA RowIs ==
  ASSUME NEW k, ToString(k) \in Words, NEW values \in Seq(Words)
  PROVE  RowMember(k, values) \in Parts /\ Row(k, values) = RowMember(k, values) \o (Comma \o Line)
  <1> DEFINE q == Quoted(ToString(k))
             o == <<":">>
             b == <<"[">>
             l == Listed(values)
             e == <<"]">>
             r == Comma \o Line
  <1>1. q \in Parts /\ l \in Parts /\ o \in Parts /\ b \in Parts /\ e \in Parts
    BY QuotedType, ListedIs, Symbols
  <1>2. <<":", "[">> = o \o b /\ <<"]", ",", "\n">> = e \o r
    BY Together, Zenon DEF Comma, Line
  <1>3. Row(k, values) = ((q \o (o \o b)) \o l) \o (e \o r)
    BY <1>2, Zenon DEF Row
  <1>4. RowMember(k, values) = (q \o o) \o ((b \o l) \o e)
    BY ListedIs, Zenon DEF RowMember, Member
  <1>5. r \in Seq(Characters) /\ Parts \subseteq Seq(Characters)
    <2>1. Comma \in Seq(Characters) /\ Line \in Seq(Characters)
      BY CommaMaps, WordsAreCharacters, UnbrokenLine DEF Parts, Line
    <2>. QED
      BY <2>1, WordsAreCharacters, ConcatProperties DEF Parts
  <1> HIDE DEF q, o, b, l, e, r
  <1>6. ((q \o (o \o b)) \o l) \o (e \o r) = ((q \o o) \o ((b \o l) \o e)) \o r
    <2> DEFINE T == Seq(Characters)
    <2>1. q \in T /\ o \in T /\ b \in T /\ l \in T /\ e \in T /\ r \in T
      BY <1>1, <1>5
    <2>2. /\ \A x, y \in T : Cat(x, y) \in T
          /\ \A x, y, z \in T : Cat(Cat(x, y), z) = Cat(x, Cat(y, z))
      BY CatTexts
    <2> HIDE DEF T
    <2>3. Cat(Cat(Cat(q, Cat(o, b)), l), Cat(e, r)) = Cat(Cat(Cat(q, o), Cat(Cat(b, l), e)), r)
      BY <2>1, <2>2
    <2>. QED
      BY <2>3 DEF Cat
  <1>7. (q \o o) \o ((b \o l) \o e) \in Parts
    <2>1. q \o o \in Parts /\ b \o l \in Parts
      BY <1>1, ConcatProperties DEF Parts
    <2>2. (b \o l) \o e \in Parts
      BY <1>1, <2>1, ConcatProperties DEF Parts
    <2>. QED
      BY <2>1, <2>2, ConcatProperties DEF Parts
  <1>. QED
    BY <1>3, <1>4, <1>6, <1>7, Zenon DEF r

LEMMA UnbrokenRow ==
  ASSUME NEW m \in Parts
  PROVE  /\ m \o (Comma \o Line) \in Seq(Characters)
         /\ Unbroken(m \o (Comma \o Line)) = m \o Comma
  <1>1. m \in Seq(Words) /\ Comma \in Seq(Words)
    BY CommaMaps DEF Parts
  <1>2. m \in Seq(Characters) /\ Comma \in Seq(Characters) /\ Line \in Seq(Characters)
    BY <1>1, WordsAreCharacters, UnbrokenLine DEF Line
  <1>3. Comma \o Line \in Seq(Characters) /\ Unbroken(Comma \o Line) = Unbroken(Comma) \o Unbroken(Line)
    BY <1>2, UnbrokenConcat
  <1>4. Unbroken(Comma) = Comma /\ Unbroken(Line) = <<>> /\ Unbroken(m) = m
    BY <1>1, UnbrokenWords, UnbrokenLine DEF Line
  <1>5. Comma \o <<>> = Comma
    BY <1>1, ConcatEmptySeq
  <1>6. /\ m \o (Comma \o Line) \in Seq(Characters)
        /\ Unbroken(m \o (Comma \o Line)) = Unbroken(m) \o Unbroken(Comma \o Line)
    <2> DEFINE r == Comma \o Line
    <2>1. r \in Seq(Characters)
      BY <1>3
    <2> HIDE DEF r
    <2>2. m \o r \in Seq(Characters) /\ Unbroken(m \o r) = Unbroken(m) \o Unbroken(r)
      BY <1>2, <2>1, UnbrokenConcat
    <2>. QED
      BY <2>2 DEF r
  <1>. QED
    BY <1>3, <1>4, <1>5, <1>6, Zenon

(***************************************************************************)
(* A text becomes another when its line feeds are left out.                *)
(***************************************************************************)
Becomes(a, b) == a \in Seq(Characters) /\ b \in Parts /\ Unbroken(a) = b

LEMMA BecomesCat ==
  ASSUME NEW a, NEW b, NEW c, NEW d, Becomes(a, b), Becomes(c, d)
  PROVE  Becomes(a \o c, b \o d)
  <1>1. a \in Seq(Characters) /\ b \in Parts /\ c \in Seq(Characters) /\ d \in Parts
        /\ Unbroken(a) = b /\ Unbroken(c) = d
    BY DEF Becomes
  <1>2. a \o c \in Seq(Characters) /\ Unbroken(a \o c) = Unbroken(a) \o Unbroken(c)
    BY <1>1, UnbrokenConcat
  <1>3. b \o d \in Parts
    BY <1>1, ConcatProperties DEF Parts
  <1>. QED
    BY <1>1, <1>2, <1>3, Zenon DEF Becomes

LEMMA BecomesSelf ==
  ASSUME NEW a \in Parts
  PROVE  Becomes(a, a)
  BY WordsAreCharacters, UnbrokenWords DEF Becomes, Parts

LEMMA BecomesNone == Becomes(Line, <<>>)
  BY UnbrokenLine, EmptySeq DEF Becomes, Parts, Line

(***************************************************************************)
(* The rows, each with a comma and a line feed behind it.                  *)
(***************************************************************************)
LineAfter == [p \in Parts |-> p \o (Comma \o Line)]
RowTexts(members) == FlattenSeq(Applied(members, LineAfter))

LEMMA LineMaps == Maps(LineAfter, Parts, Seq(Characters))
  BY UnbrokenRow DEF Maps, LineAfter

LEMMA RowTextsAppend ==
  ASSUME NEW members \in Seq(Parts), NEW x \in Parts
  PROVE  RowTexts(Append(members, x)) = RowTexts(members) \o (x \o (Comma \o Line))
  <1>1. LineAfter[x] = x \o (Comma \o Line)
    BY DEF LineAfter
  <1>2. RowTexts(Append(members, x)) = RowTexts(members) \o LineAfter[x]
    BY LineMaps, FlattenApplied DEF RowTexts
  <1>. QED
    BY <1>1, <1>2

LEMMA RowTextsBecome ==
  \A members \in Seq(Parts) : Becomes(RowTexts(members), Ended(members))
  <1> DEFINE P == {members \in Seq(Parts) : Becomes(RowTexts(members), Ended(members))}
  <1>1. <<>> \in P
    <2>1. RowTexts(<<>>) = <<>> /\ Ended(<<>>) = <<>> /\ <<>> \in Seq(Parts) /\ <<>> \in Parts
      BY AppliedEmpty, EmptySeq DEF RowTexts, Ended, Parts
    <2>. QED
      BY <2>1, BecomesSelf
  <1>2. ASSUME NEW s \in Seq(Parts), s \in P, NEW x \in Parts PROVE Append(s, x) \in P
    <2>1. Becomes(RowTexts(s), Ended(s))
      BY <1>2
    <2>2. Becomes(x \o (Comma \o Line), x \o Comma)
      <3>1. x \o Comma \in Parts
        BY CommaMaps, ConcatProperties DEF Parts
      <3>. QED
        BY <3>1, UnbrokenRow DEF Becomes
    <2>3. Becomes(RowTexts(s) \o (x \o (Comma \o Line)), Ended(s) \o (x \o Comma))
      BY <2>1, <2>2, BecomesCat
    <2>4. Append(s, x) \in Seq(Parts)
      BY AppendParts
    <2>5. Ended(Append(s, x)) = Ended(s) \o (x \o Comma)
      BY EndedAppend
    <2>6. Becomes(RowTexts(Append(s, x)), Ended(Append(s, x)))
      BY <2>3, <2>5, RowTextsAppend
    <2>. QED
      BY <2>4, <2>6
  <1>3. Seq(Parts) \subseteq P
    <2> HIDE DEF P
    <2>. QED
      BY <1>1, <1>2, SeqInductive
  <1>. QED
    BY <1>3

LEMMA CutTwo ==
  ASSUME NEW A, NEW a \in Seq(A), NEW b \in Seq(A), Len(b) = 2
  PROVE  Substr(a \o b, 0, Len(a \o b) - 2) = a
  <1> DEFINE all == a \o b
  <1>1. /\ all \in Seq(A) /\ Len(all) = Len(a) + 2 /\ Len(a) \in Nat
        /\ \A i \in 1 .. Len(a) : all[i] = a[i]
    <2>1. all \in Seq(A) /\ Len(all) = Len(a) + Len(b) /\ Len(a) \in Nat
      BY ConcatProperties, LenProperties
    <2>2. \A i \in 1 .. Len(a) : all[i] = a[i]
      BY ConcatElements
    <2> HIDE DEF all
    <2>. QED
      BY <2>1, <2>2
  <1> HIDE DEF all
  <1>2. Substr(all, 0, Len(all) - 2) = SubSeq(all, 1, Len(a))
    <2>1. ~(Len(all) - 2 < 0 \/ 0 + (Len(all) - 2) > Len(all)) /\ 0 + (Len(all) - 2) = Len(a) /\ 0 + 1 = 1
      BY <1>1
    <2>. QED
      BY <2>1, Zenon DEF Substr
  <1> DEFINE s == SubSeq(all, 1, Len(a))
  <1>3. s \in Seq(A) /\ Len(s) = Len(a) /\ \A i \in 1 .. Len(a) : s[i] = all[i]
    BY <1>1
  <1> HIDE DEF s
  <1>4. \A i \in 1 .. Len(s) : s[i] = a[i]
    BY <1>1, <1>3
  <1>5. s = a
    BY <1>3, <1>4, SeqEqual
  <1>. QED
    BY <1>2, <1>5 DEF all, s

LEMMA CutNone ==
  ASSUME NEW A, NEW a \in Seq(A)
  PROVE  Substr(a, 0, Npos) = a
  <1>1. Substr(a, 0, Npos) = SubSeq(a, 1, Len(a))
    BY DEF Substr, Npos
  <1>. QED
    BY <1>1

LEMMA CommaLine == Comma \o Line \in Seq(Characters) /\ Len(Comma \o Line) = 2 /\ Becomes(Comma \o Line, Comma)
  <1>1. Comma \in Seq(Characters) /\ Line \in Seq(Characters)
    BY CommaMaps, WordsAreCharacters, UnbrokenLine DEF Parts, Line
  <1>2. Len(Comma) = 1 /\ Len(Line) = 1
    BY DEF Comma, Line
  <1>3. Becomes(Comma \o Line, Comma \o <<>>)
    BY CommaMaps, BecomesSelf, BecomesNone, BecomesCat
  <1>4. Comma \o <<>> = Comma
    BY CommaMaps, ConcatEmptySeq DEF Parts
  <1>5. Len(Comma \o Line) = 2
    BY <1>1, <1>2, ConcatProperties
  <1>. QED
    BY <1>3, <1>4, <1>5 DEF Becomes

(***************************************************************************)
(* Without the last comma and line feed, the rows become the members.      *)
(***************************************************************************)
LEMMA RowsBecome ==
  ASSUME NEW head, NEW h, Becomes(head, h), NEW members \in Seq(Parts)
  PROVE  LET all == head \o RowTexts(members) IN
         Becomes(Substr(all, 0, IF members = <<>> THEN Npos ELSE Len(all) - 2),
                 h \o Separated(members))
  <1> DEFINE all == head \o RowTexts(members)
  <1>0. head \in Seq(Characters) /\ h \in Parts
    BY DEF Becomes
  <1>1. CASE members = <<>>
    <2>1. RowTexts(<<>>) = <<>>
      BY AppliedEmpty DEF RowTexts
    <2>2. Separated(<<>>) = <<>>
      <3>1. Preceded(<<>>) = <<>> /\ Separated(<<>>) = FlattenSeq(Preceded(<<>>))
        BY DEF Separated, Preceded, Comma
      <3>. QED
        BY <3>1, FlattenEmpty
    <2>3. head \o <<>> = head /\ h \o <<>> = h
      BY <1>0, ConcatEmptySeq DEF Parts
    <2>4. all = head /\ h \o Separated(members) = h
      BY <1>1, <2>1, <2>2, <2>3
    <2> HIDE DEF all
    <2>5. Substr(all, 0, Npos) = head
      BY <1>0, <2>4, CutNone
    <2>. QED
      BY <1>1, <2>4, <2>5, Zenon DEF all
  <1>2. CASE members # <<>>
    <2>1. PICK f \in Seq(Parts), x \in Parts : members = Append(f, x)
      BY <1>2, SequenceEmptyOrAppend
    <2> DEFINE r == RowTexts(f)
               end == Comma \o Line
               most == head \o (r \o x)
    <2>2. Becomes(r, Ended(f)) /\ Becomes(x, x)
      BY RowTextsBecome, BecomesSelf
    <2>3. Becomes(most, h \o (Ended(f) \o x))
      <3>1. Becomes(r \o x, Ended(f) \o x)
        BY <2>2, BecomesCat
      <3>. QED
        BY <3>1, BecomesCat
    <2>4. Ended(f) \o x = Separated(members)
      BY <2>1, AppendParts, WithCommasAppend, SeparatedIs
    <2>5. RowTexts(members) = r \o (x \o end)
      BY <2>1, RowTextsAppend
    <2>6. end \in Seq(Characters) /\ Len(end) = 2
      BY CommaLine
    <2>7. r \in Seq(Characters) /\ x \in Seq(Characters) /\ most \in Seq(Characters)
      BY <2>2, <2>3 DEF Becomes
    <2>8. all = head \o (r \o (x \o end))
      BY <2>5
    <2> HIDE DEF r, end, most, all
    <2>9. head \o (r \o (x \o end)) = most \o end
      <3> DEFINE T == Seq(Characters)
      <3>1. head \in T /\ r \in T /\ x \in T /\ end \in T
        BY <1>0, <2>6, <2>7
      <3>2. /\ \A a, b \in T : Cat(a, b) \in T
            /\ \A a, b, c \in T : Cat(Cat(a, b), c) = Cat(a, Cat(b, c))
        BY CatTexts
      <3> HIDE DEF T
      <3>3. Cat(head, Cat(r, Cat(x, end))) = Cat(Cat(head, Cat(r, x)), end)
        BY <3>1, <3>2
      <3>. QED
        BY <3>3 DEF Cat, most
    <2>10. Substr(most \o end, 0, Len(most \o end) - 2) = most
      BY <2>6, <2>7, CutTwo
    <2>11. Substr(all, 0, Len(all) - 2) = most
      BY <2>8, <2>9, <2>10
    <2>. QED
      BY <1>2, <2>3, <2>4, <2>11, Zenon DEF all
  <1>. QED
    BY <1>1, <1>2

(***************************************************************************)
(* The words of a table, and its rows as members of an object.             *)
(***************************************************************************)
Members(table) == [k \in DOMAIN table.rows |-> RowMember(k, table.rows[k])]

LEMMA TableIs ==
  ASSUME NEW table \in Tables
  PROVE  /\ table.cols \in Seq(Words)
         /\ DOMAIN table.rows = 1 .. Len(table.rows) /\ Len(table.rows) \in Nat
         /\ \A k \in DOMAIN table.rows : table.rows[k] \in Seq(Words) /\ ToString(k) \in Words
  <1>0. \A words \in Seq(Characters) : "\n" \notin Range(words) => words \in Seq(Words)
    <2> SUFFICES ASSUME NEW words \in Seq(Characters), "\n" \notin Range(words)
                 PROVE  words \in Seq(Words)
      OBVIOUS
    <2>1. words \in Seq(Range(words)) /\ Range(words) \subseteq Characters
      BY SeqOfRange, RangeEquality DEF Range
    <2>2. Range(words) \subseteq Words
      BY <2>1 DEF Words
    <2>. QED
      BY <2>1, <2>2, SeqMonotonic
  <1>1. table \in [cols : Seq(Characters), rows : Seq(Seq(Characters))]
    BY TextAssumption
  <1>2. \A words \in {table.cols} \cup Range(table.rows) : "\n" \notin Range(words)
    BY TextAssumption
  <1>3. \A k \in DOMAIN table.rows : ToString(k) \in Words
    BY TextAssumption DEF Words
  <1>4. table.cols \in Seq(Words)
    BY <1>0, <1>1, <1>2
  <1>5. table.rows \in Seq(Seq(Characters))
    BY <1>1
  <1>6. DOMAIN table.rows = 1 .. Len(table.rows) /\ Len(table.rows) \in Nat
    BY <1>5, LenProperties
  <1>7. ASSUME NEW k \in DOMAIN table.rows PROVE table.rows[k] \in Seq(Words)
    <2>1. table.rows[k] \in Seq(Characters) /\ table.rows[k] \in Range(table.rows)
      BY <1>5, <1>6, ElementOfSeq DEF Range
    <2>. QED
      BY <1>0, <1>2, <2>1
  <1>. QED
    BY <1>3, <1>4, <1>6, <1>7

LEMMA MembersAre ==
  ASSUME NEW table \in Tables
  PROVE  /\ Members(table) \in Seq(Parts) /\ (Members(table) = <<>> <=> table.rows = <<>>)
         /\ FlattenSeq([k \in DOMAIN table.rows |-> Row(k, table.rows[k])]) = RowTexts(Members(table))
  <1> DEFINE n == Len(table.rows)
             ms == Members(table)
  <1>1. n \in Nat /\ DOMAIN table.rows = 1 .. n
    BY TableIs
  <1>2. \A k \in 1 .. n : RowMember(k, table.rows[k]) \in Parts
                          /\ Row(k, table.rows[k]) = RowMember(k, table.rows[k]) \o (Comma \o Line)
    BY <1>1, TableIs, RowIs
  <1>3. ms = [k \in 1 .. n |-> RowMember(k, table.rows[k])]
    BY <1>1 DEF Members
  <1> HIDE DEF ms
  <1>4. ms \in Seq(Parts) /\ Len(ms) = n /\ DOMAIN ms = 1 .. n
    <2>1. ms \in [1 .. n -> Parts]
      BY <1>2, <1>3
    <2>. QED
      BY <1>1, <2>1
  <1>5. ms = <<>> <=> table.rows = <<>>
    BY <1>1, <1>4, EmptySeq, TableIs
  <1>6. \A k \in 1 .. n : Row(k, table.rows[k]) = LineAfter[ms[k]]
    BY <1>2, <1>3 DEF LineAfter
  <1>7. [k \in DOMAIN table.rows |-> Row(k, table.rows[k])] = Applied(ms, LineAfter)
    BY <1>1, <1>4, <1>6, Zenon DEF Applied
  <1>. QED
    BY <1>4, <1>5, <1>7, Zenon DEF ms, RowTexts

(***************************************************************************)
(* The pieces the answer is put together from.                             *)
(***************************************************************************)
Open1 == <<"{">>
Close1 == <<"}">>
Colon == <<":">>
Bracket == <<"[">>
EndBracket == <<"]">>
TextHead(list) ==
  (((((Open1 \o Quoted("cols")) \o (Colon \o Bracket)) \o list) \o (EndBracket \o Comma))
     \o Quoted("data")) \o (Colon \o Open1)

LEMMA Pieces ==
  /\ Open1 \in Parts /\ Close1 \in Parts /\ Colon \in Parts /\ Bracket \in Parts
  /\ EndBracket \in Parts /\ Comma \in Parts /\ Quoted("cols") \in Parts /\ Quoted("data") \in Parts
  <1>1. Quoted("cols") \in Parts /\ Quoted("data") \in Parts
    <2>1. "cols" \in Words /\ "data" \in Words
      BY Symbols
    <2>. QED
      BY <2>1, QuotedType
  <1>. QED
    BY <1>1, Symbols, Zenon DEF Open1, Close1, Colon, Bracket, EndBracket

LEMMA WithLine ==
  ASSUME NEW p \in Parts
  PROVE  Becomes(p \o Line, p)
  <1>1. Becomes(p \o Line, p \o <<>>)
    BY BecomesSelf, BecomesNone, BecomesCat
  <1>2. p \o <<>> = p
    BY ConcatEmptySeq DEF Parts
  <1>. QED
    BY <1>1, <1>2

LEMMA HeadBecomes ==
  ASSUME NEW list \in Parts
  PROVE  Becomes(<<"{", "\n">> \o Quoted("cols") \o <<":", "[">> \o list
                   \o <<"]", ",", "\n">> \o Quoted("data") \o <<":", "{", "\n">>, TextHead(list))
  <1> DEFINE qc == Quoted("cols")
             qd == Quoted("data")
             cb == Colon \o Bracket
             ec == EndBracket \o Comma
             ecl == EndBracket \o (Comma \o Line)
             co == Colon \o Open1
             col == Colon \o (Open1 \o Line)
             ol == Open1 \o Line
  <1>1. /\ <<"{", "\n">> = ol /\ <<":", "[">> = cb
        /\ <<"]", ",", "\n">> = ecl /\ <<":", "{", "\n">> = col
    BY Together, Zenon DEF Open1, Colon, Bracket, EndBracket, Comma, Line
  <1>2. Becomes(ol, Open1)
    BY Pieces, WithLine
  <1>3. Becomes(cb, cb)
    BY Pieces, BecomesSelf, BecomesCat
  <1>4. Becomes(ecl, ec)
    BY Pieces, BecomesSelf, CommaLine, BecomesCat
  <1>5. Becomes(col, co)
    BY <1>2, Pieces, BecomesSelf, BecomesCat
  <1>6. Becomes(qc, qc) /\ Becomes(qd, qd) /\ Becomes(list, list)
    BY Pieces, BecomesSelf
  <1>7. <<"{", "\n">> \o qc \o <<":", "[">> \o list \o <<"]", ",", "\n">> \o qd \o <<":", "{", "\n">>
          = (((((ol \o qc) \o cb) \o list) \o ecl) \o qd) \o col
    BY <1>1, Zenon
  <1>8. TextHead(list) = (((((Open1 \o qc) \o cb) \o list) \o ec) \o qd) \o co
    BY Zenon DEF TextHead
  <1> HIDE DEF qc, qd, cb, ec, ecl, co, col, ol
  <1>9. Becomes((ol \o qc) \o cb, (Open1 \o qc) \o cb)
    BY <1>2, <1>3, <1>6, BecomesCat
  <1> DEFINE a1 == (ol \o qc) \o cb
             b1 == (Open1 \o qc) \o cb
  <1> HIDE DEF a1, b1
  <1>10. Becomes((a1 \o list) \o ecl, (b1 \o list) \o ec)
    BY <1>4, <1>6, <1>9, BecomesCat DEF a1, b1
  <1> DEFINE a2 == (a1 \o list) \o ecl
             b2 == (b1 \o list) \o ec
  <1> HIDE DEF a2, b2
  <1>11. Becomes((a2 \o qd) \o col, (b2 \o qd) \o co)
    BY <1>5, <1>6, <1>10, BecomesCat DEF a2, b2
  <1>. QED
    BY <1>7, <1>8, <1>11, Zenon DEF a1, b1, a2, b2, qc, qd

LEMMA SeparatedTwo ==
  ASSUME NEW m \in Parts, NEW n \in Parts
  PROVE  Separated(<<m, n>>) = m \o (Comma \o n)
  <1>1. <<>> \in Seq(Parts) /\ <<m>> \in Seq(Parts) /\ <<m>> # <<>>
    OBVIOUS
  <1>2. <<m>> = Append(<<>>, m) /\ <<m, n>> = Append(<<m>>, n)
    OBVIOUS
  <1>3. Separated(Append(<<>>, m)) = m
    BY <1>1, SeparatedAppend
  <1>4. Separated(Append(<<m>>, n)) = Separated(<<m>>) \o (Comma \o n)
    BY <1>1, SeparatedAppend
  <1>. QED
    BY <1>2, <1>3, <1>4, Zenon

LEMMA JSONIs ==
  ASSUME NEW table \in Tables
  PROVE  LET list == Listed(table.cols)
             sep == Separated(Members(table))
         IN list \in Parts /\ sep \in Parts
            /\ JSON(table) = (TextHead(list) \o sep) \o (Close1 \o Close1)
  <1> DEFINE list == Listed(table.cols)
             sep == Separated(Members(table))
             qc == Quoted("cols")
             qd == Quoted("data")
             m == (qc \o Colon) \o ((Bracket \o list) \o EndBracket)
             n == (qd \o Colon) \o ((Open1 \o sep) \o Close1)
  <1>1. list \in Parts /\ Array(table.cols) = (Bracket \o list) \o EndBracket
    BY TableIs, ListedIs, Zenon DEF Bracket, EndBracket
  <1>2. sep \in Parts
    BY MembersAre, SeparatedIs
  <1>3. JSON(table) = (Open1 \o Separated(<<m, n>>)) \o Close1
    <2>1. Member("cols", Array(table.cols)) = m
      BY <1>1, Zenon DEF Member, Colon
    <2>2. Object([k \in DOMAIN table.rows |-> Member(ToString(k), Array(table.rows[k]))])
            = (Open1 \o sep) \o Close1
      BY Zenon DEF Object, Members, RowMember, Open1, Close1
    <2>3. Member("data", Object([k \in DOMAIN table.rows |->
                                   Member(ToString(k), Array(table.rows[k]))])) = n
      BY <2>2, Zenon DEF Member, Colon
    <2>. QED
      BY <2>1, <2>3, Zenon DEF JSON, Object, Open1, Close1
  <1> HIDE DEF list, sep
  <1>4. m \in Parts /\ n \in Parts
    <2>1. qc \o Colon \in Parts /\ Bracket \o list \in Parts
          /\ qd \o Colon \in Parts /\ Open1 \o sep \in Parts
      BY <1>1, <1>2, Pieces, ConcatProperties DEF Parts
    <2>2. (Bracket \o list) \o EndBracket \in Parts /\ (Open1 \o sep) \o Close1 \in Parts
      BY <2>1, Pieces, ConcatProperties DEF Parts
    <2>. QED
      BY <2>1, <2>2, ConcatProperties DEF Parts
  <1>5. JSON(table) = (Open1 \o (m \o (Comma \o n))) \o Close1
    <2> HIDE DEF m, n
    <2>. QED
      BY <1>3, <1>4, SeparatedTwo, Zenon
  <1>6. (Open1 \o (m \o (Comma \o n))) \o Close1 = (TextHead(list) \o sep) \o (Close1 \o Close1)
    <2> DEFINE T == Seq(Characters)
               o == Open1
               c == Close1
               p == Colon
               b == Bracket
               e == EndBracket
    <2>1. /\ o \in T /\ c \in T /\ p \in T /\ b \in T /\ e \in T /\ Comma \in T
          /\ qc \in T /\ qd \in T /\ list \in T /\ sep \in T
      <3>1. Parts \subseteq Seq(Characters)
        BY WordsAreCharacters DEF Parts
      <3>. QED
        BY <1>1, <1>2, <3>1, Pieces
    <2>2. /\ \A x, y \in T : Cat(x, y) \in T
          /\ \A x, y, z \in T : Cat(Cat(x, y), z) = Cat(x, Cat(y, z))
      BY CatTexts
    <2>6. TextHead(list) = (((((o \o qc) \o (p \o b)) \o list) \o (e \o Comma)) \o qd) \o (p \o o)
      BY Zenon DEF TextHead
    <2> HIDE DEF T, o, c, p, b, e, qc, qd
    <2> DEFINE m2 == Cat(Cat(qc, p), Cat(Cat(b, list), e))
               n2 == Cat(Cat(qd, p), Cat(Cat(o, sep), c))
    <2> DEFINE w == Cat(qc, p)
               v == Cat(b, list)
               r == Cat(qd, p)
               h == Cat(Comma, Cat(r, o))
               x == Cat(Cat(Cat(o, qc), Cat(p, b)), list)
               y == Cat(x, Cat(e, Comma))
    <2>3. Cat(Cat(y, qd), Cat(p, o)) = Cat(o, Cat(m2, h))
      <3>1. w \in T /\ v \in T /\ r \in T
        BY <2>1, <2>2
      <3>2. x = Cat(o, Cat(w, v))
        <4>1. Cat(Cat(o, qc), Cat(p, b)) = Cat(o, Cat(w, b))
          BY <2>1, <2>2
        <4>2. Cat(Cat(o, Cat(w, b)), list) = Cat(o, Cat(w, Cat(b, list)))
          <5> HIDE DEF w
          <5>. QED
            BY <2>1, <2>2, <3>1
        <4>. QED
          BY <4>1, <4>2, Zenon
      <3>3. m2 = Cat(w, Cat(v, e)) /\ m2 \in T
        BY <2>1, <2>2
      <3> HIDE DEF w, v, m2
      <3>4. y = Cat(Cat(o, m2), Comma)
        <4>1. Cat(Cat(o, Cat(w, v)), Cat(e, Comma)) = Cat(Cat(o, Cat(w, Cat(v, e))), Comma)
          BY <2>1, <2>2, <3>1
        <4>. QED
          BY <3>2, <3>3, <4>1, Zenon
      <3>5. Cat(Cat(Cat(Cat(o, m2), Comma), qd), Cat(p, o))
              = Cat(o, Cat(m2, Cat(Comma, Cat(Cat(qd, p), o))))
        <4> DEFINE k == Cat(Cat(o, m2), Comma)
                   z == Cat(Cat(qd, p), o)
        <4>1. k \in T /\ z \in T
          BY <2>1, <2>2, <3>3
        <4>2. k = Cat(o, Cat(m2, Comma))
          BY <2>1, <2>2, <3>3
        <4> HIDE DEF k
        <4>3. Cat(Cat(k, qd), Cat(p, o)) = Cat(k, z)
          BY <2>1, <2>2, <4>1
        <4> HIDE DEF z
        <4>4. Cat(Cat(o, Cat(m2, Comma)), z) = Cat(o, Cat(m2, Cat(Comma, z)))
          <5> DEFINE q == Cat(m2, Comma)
          <5>1. q \in T /\ Cat(q, z) = Cat(m2, Cat(Comma, z))
            <6>1. m2 \in T /\ Comma \in T /\ z \in T
              BY <2>1, <3>3, <4>1
            <6>. QED
              BY <2>2, <6>1
          <5> HIDE DEF q
          <5>2. Cat(Cat(o, q), z) = Cat(o, Cat(q, z))
            BY <2>1, <2>2, <4>1, <5>1
          <5>. QED
            BY <5>1, <5>2, Zenon DEF q
        <4>. QED
          BY <4>2, <4>3, <4>4, Zenon DEF k, z
      <3>. QED
        BY <3>4, <3>5, Zenon
    <2>7. m2 \in T /\ r \in T
      BY <2>1, <2>2
    <2> HIDE DEF m2, r
    <2>8. h \in T /\ Cat(Comma, n2) = Cat(Cat(h, sep), c)
      <3>1. h \in T
        BY <2>1, <2>2, <2>7
      <3>2. Cat(Comma, Cat(r, Cat(Cat(o, sep), c))) = Cat(Cat(Cat(Comma, Cat(r, o)), sep), c)
        <4> DEFINE k == Cat(r, o)
        <4>1. k \in T /\ Cat(r, Cat(Cat(o, sep), c)) = Cat(Cat(k, sep), c)
          <5> DEFINE q == Cat(o, sep)
          <5>1. k \in T /\ q \in T /\ Cat(r, q) = Cat(k, sep)
            BY <2>1, <2>2, <2>7
          <5> HIDE DEF k, q
          <5>2. Cat(r, Cat(q, c)) = Cat(Cat(r, q), c)
            BY <2>1, <2>2, <2>7, <5>1
          <5>. QED
            BY <5>1, <5>2, Zenon DEF q
        <4> HIDE DEF k
        <4>2. Cat(Comma, Cat(Cat(k, sep), c)) = Cat(Cat(Cat(Comma, k), sep), c)
          BY <2>1, <2>2, <4>1
        <4>. QED
          BY <4>1, <4>2, Zenon DEF k
      <3>. QED
        BY <3>1, <3>2 DEF r
    <2> HIDE DEF h, n2, x, y
    <2>4. Cat(Cat(o, Cat(m2, Cat(Cat(h, sep), c))), c) = Cat(Cat(Cat(o, Cat(m2, h)), sep), Cat(c, c))
      <3> DEFINE k == Cat(m2, h)
                 j == Cat(o, k)
      <3>1. k \in T /\ Cat(m2, Cat(Cat(h, sep), c)) = Cat(Cat(k, sep), c)
        BY <2>1, <2>2, <2>7, <2>8
      <3> HIDE DEF k
      <3>2. j \in T /\ Cat(o, Cat(Cat(k, sep), c)) = Cat(Cat(j, sep), c)
        BY <2>1, <2>2, <3>1
      <3> HIDE DEF j
      <3>3. Cat(Cat(Cat(j, sep), c), c) = Cat(Cat(j, sep), Cat(c, c))
        <4> DEFINE i == Cat(j, sep)
        <4>1. i \in T
          BY <2>1, <2>2, <3>2
        <4> HIDE DEF i
        <4>2. Cat(Cat(i, c), c) = Cat(i, Cat(c, c))
          BY <2>1, <2>2, <4>1
        <4>. QED
          BY <4>2 DEF i
      <3>. QED
        BY <3>1, <3>2, <3>3, Zenon DEF k, j
    <2>9. Cat(Cat(o, Cat(m2, Cat(Comma, n2))), c) = Cat(Cat(Cat(Cat(y, qd), Cat(p, o)), sep), Cat(c, c))
      BY <2>3, <2>4, <2>8, Zenon
    <2>5. Cat(Cat(o, Cat(m2, Cat(Comma, n2))), c)
            = Cat(Cat(Cat(Cat(Cat(Cat(Cat(Cat(o, qc), Cat(p, b)), list), Cat(e, Comma)), qd),
                          Cat(p, o)), sep), Cat(c, c))
      BY <2>9, Zenon DEF x, y
    <2>. QED
      BY <2>5, <2>6, Zenon DEF Cat, m2, n2, r, o, c, p, b, e
  <1>. QED
    BY <1>1, <1>2, <1>5, <1>6, Zenon DEF list, sep

(***************************************************************************)
(* Whatever the table is, the answer is its JSON once the line feeds are   *)
(* left out.                                                               *)
(***************************************************************************)
LEMMA ResultsInJSON ==
  ASSUME NEW table \in Tables
  PROVE  /\ GetJSONResults(table) \in Seq(Characters)
         /\ Unbroken(GetJSONResults(table)) = JSON(table)
  <1> DEFINE list == Listed(table.cols)
             ms == Members(table)
             head == <<"{", "\n">> \o Quoted("cols") \o <<":", "[">> \o list
                       \o <<"]", ",", "\n">> \o Quoted("data") \o <<":", "{", "\n">>
             all == head \o RowTexts(ms)
             most == Substr(all, 0, IF ms = <<>> THEN Npos ELSE Len(all) - 2)
             end == <<"}", "\n", "}">>
  <1>1. /\ list \in Parts
        /\ JSON(table) = (TextHead(list) \o Separated(ms)) \o (Close1 \o Close1)
    BY JSONIs, Zenon
  <1>2. GetJSONResults(table) = most \o end
    <2>1. FlattenSeq([k \in DOMAIN table.rows |-> Row(k, table.rows[k])]) = RowTexts(ms)
      BY MembersAre
    <2>2. ms = <<>> <=> table.rows = <<>>
      BY MembersAre
    <2>3. GetJSONResults(table) =
            Substr(all, 0, IF table.rows = <<>> THEN Npos ELSE Len(all) - 2) \o end
      BY <2>1, Zenon DEF GetJSONResults
    <2> HIDE DEF all, ms, end
    <2>. QED
      BY <2>2, <2>3, Zenon
  <1>3. Becomes(head, TextHead(list))
    BY <1>1, HeadBecomes
  <1>4. ms \in Seq(Parts)
    BY MembersAre
  <1>5. Becomes(end, Close1 \o Close1)
    <2>1. end = Close1 \o (Line \o Close1)
      BY Together, Zenon DEF Close1, Line
    <2>2. <<>> \o Close1 = Close1
      BY Pieces, ConcatEmptySeq DEF Parts
    <2>3. Becomes(Close1, Close1)
      BY Pieces, BecomesSelf
    <2>4. Becomes(Line \o Close1, <<>> \o Close1)
      BY <2>3, BecomesNone, BecomesCat
    <2>5. Becomes(Close1 \o (Line \o Close1), Close1 \o Close1)
      BY <2>2, <2>3, <2>4, BecomesCat
    <2>. QED
      BY <2>1, <2>5, Zenon
  <1> HIDE DEF list, ms, head, end
  <1>6. Becomes(most, TextHead(list) \o Separated(ms))
    BY <1>3, <1>4, RowsBecome, Zenon
  <1> HIDE DEF most
  <1>7. Becomes(most \o end, (TextHead(list) \o Separated(ms)) \o (Close1 \o Close1))
    BY <1>5, <1>6, BecomesCat
  <1>. QED
    BY <1>1, <1>2, <1>7, Zenon DEF Becomes

-----------------------------------------------------------------------------
(***************************************************************************)
(* The texts that the calls keep, and where the answer comes from: a call  *)
(* that has selected rows writes them, and answers what it has written.    *)
(***************************************************************************)
Typed ==
  /\ uri \in [Threads -> Seq(Characters)]
  /\ query \in [Threads -> Seq(Characters)]
  /\ results \in [Threads -> Tables \cup {NoTable}]
  /\ output \in [Threads -> Seq(Characters)]
  /\ answer \in [Threads -> [status : Statuses, code : {0, 200}, body : Seq(Characters)]]

RowsInv ==
  \A t \in Threads :
    /\ pc[t] \notin {"fetch", "free", "done"} => results[t] = NoTable
    /\ pc[t] = "fetch" => results[t] \in Tables
    /\ pc[t] = "free" /\ results[t] # NoTable => output[t] = GetJSONResults(results[t])
    /\ pc[t] = "done" /\ answer[t].status = "OK" /\ results[t] # NoTable =>
         answer[t].body = GetJSONResults(results[t])

LEMMA ErrorTexts ==
  /\ <<"Error: Could not connect to MySQL database.">> \in Seq(Characters)
  /\ <<"Error: Could not find query parameter.">> \in Seq(Characters)
  /\ <<"Error: ", "what()">> \in Seq(Characters)
  /\ \A n \in Counts : <<"Query OK, ", ToString(n), " rows affected.">> \in Seq(Characters)
  <1>1. \A c \in Characters : <<c>> \in Seq(Characters)
    OBVIOUS
  <1>2. \A c, d \in Characters : <<c, d>> \in Seq(Characters)
    OBVIOUS
  <1>3. \A c, d, e \in Characters : <<c, d, e>> \in Seq(Characters)
    OBVIOUS
  <1>4. \A n \in Counts : ToString(n) \in Characters
    BY TextAssumption
  <1>5. /\ "Error: Could not connect to MySQL database." \in Characters
        /\ "Error: Could not find query parameter." \in Characters
        /\ "Error: " \in Characters /\ "what()" \in Characters
        /\ "Query OK, " \in Characters /\ " rows affected." \in Characters
    BY Literals
  <1>. QED
    BY <1>1, <1>2, <1>3, <1>4, <1>5, Zenon

LEMMA TypedInit == Init => Typed /\ RowsInv
  <1> SUFFICES ASSUME Init PROVE Typed /\ RowsInv
    OBVIOUS
  <1>1. NoAnswer \in [status : Statuses, code : {0, 200}, body : Seq(Characters)]
    BY EmptySeq DEF NoAnswer, Statuses
  <1>2. Typed
    BY <1>1, EmptySeq DEF Init, Typed
  <1>3. RowsInv
    BY DEF Init, RowsInv
  <1>. QED
    BY <1>2, <1>3

(***************************************************************************)
(* One call takes a step; the others keep their locals.                    *)
(***************************************************************************)
LEMMA Responds ==
  ASSUME Typed, NEW t \in Threads, NEW status \in {"OK", "DATABASE_ERROR"},
         NEW body \in Seq(Characters), Respond(t, status, body)
  PROVE  /\ answer' \in [Threads -> [status : Statuses, code : {0, 200}, body : Seq(Characters)]]
         /\ answer'[t].status = status /\ answer'[t].body = body
         /\ \A u \in Threads : u # t => answer'[u] = answer[u]
  <1> DEFINE A == [status : Statuses, code : {0, 200}, body : Seq(Characters)]
             a == Answer(status, body)
  <1>1. a \in A /\ a.status = status /\ a.body = body
    BY DEF Answer, Statuses
  <1> HIDE DEF a, A
  <1>2. answer \in [Threads -> A]
    BY DEF Typed, A
  <1>3. answer' = [answer EXCEPT ![t] = a]
    BY DEF Respond, a
  <1>. QED
    BY <1>1, <1>2, <1>3 DEF A

LEMMA TypedStep == IInv /\ Typed /\ RowsInv /\ [Next]_vars => Typed' /\ RowsInv'
  <1> SUFFICES ASSUME IInv, Typed, RowsInv, [Next]_vars PROVE Typed' /\ RowsInv'
    OBVIOUS
  <1>0. DOMAIN pc = Threads /\ pc \in [Threads -> {"idle", "connect", "done"} \cup Connected]
    BY DEF IInv, Accounts
  <1>1. ASSUME NEW t \in Threads, NEW body \in Seq(Characters),
               Respond(t, "DATABASE_ERROR", body), pc' = [pc EXCEPT ![t] = "done"],
               UNCHANGED <<uri, query, results, output>>
        PROVE  Typed' /\ RowsInv'
    <2>1. /\ answer' \in [Threads -> [status : Statuses, code : {0, 200}, body : Seq(Characters)]]
          /\ answer'[t].status = "DATABASE_ERROR"
          /\ \A u \in Threads : u # t => answer'[u] = answer[u]
      BY <1>1, Responds
    <2>2. Typed'
      BY <1>1, <2>1 DEF Typed
    <2>3. RowsInv'
      BY <1>0, <1>1, <2>1 DEF RowsInv
    <2>. QED
      BY <2>2, <2>3
  <1>2. ASSUME NEW t \in Threads, NoConnect(t) \/ NoQuery(t) \/ CatchException(t)
        PROVE  Typed' /\ RowsInv'
    BY <1>1, <1>2, ErrorTexts DEF NoConnect, NoQuery, CatchException, Goto
  <1>3. ASSUME NEW t \in Threads,
               \/ \E c \in Connections : Connect(t, c)
               \/ SetSchema(t) \/ CreateStatement(t)
        PROVE  Typed' /\ RowsInv'
    <2>1. UNCHANGED <<uri, query, results, output, answer>>
      BY <1>3 DEF Connect, SetSchema, CreateStatement
    <2>2. /\ pc' \in [Threads -> {"idle", "connect", "done"} \cup Connected]
          /\ \A u \in Threads : u # t => pc'[u] = pc[u]
          /\ pc[t] \notin {"fetch", "free", "done"} /\ pc'[t] \notin {"fetch", "free", "done"}
      BY <1>0, <1>3 DEF Connect, SetSchema, CreateStatement, Goto, Connected
    <2>3. Typed'
      BY <2>1 DEF Typed
    <2>4. RowsInv'
      BY <2>1, <2>2 DEF RowsInv
    <2>. QED
      BY <2>3, <2>4
  <1>4. ASSUME NEW t \in Threads, NEW u \in Uris, HandleRequest(t, u) PROVE Typed' /\ RowsInv'
    <2>1. u \in Seq(Characters)
      BY TextAssumption
    <2>2. Typed'
      BY <1>4, <2>1 DEF HandleRequest, Typed
    <2>3. RowsInv'
      BY <1>0, <1>4 DEF HandleRequest, Goto, RowsInv
    <2>. QED
      BY <2>2, <2>3
  <1>5. ASSUME NEW t \in Threads, Extract(t) PROVE Typed' /\ RowsInv'
    <2>1. ExtractQuery(uri[t]) \in Seq(Characters)
      BY ExtractQueryType DEF Typed
    <2>2. Typed'
      BY <1>5, <2>1 DEF Extract, Typed
    <2>3. RowsInv'
      BY <1>0, <1>5 DEF Extract, Goto, RowsInv
    <2>. QED
      BY <2>2, <2>3
  <1>6. ASSUME NEW t \in Threads, NEW table \in Tables, Select(t, table) PROVE Typed' /\ RowsInv'
    <2>1. Typed'
      BY <1>6 DEF Select, Typed
    <2>2. RowsInv'
      BY <1>0, <1>6 DEF Select, Goto, RowsInv, Typed
    <2>. QED
      BY <2>1, <2>2
  <1>7. ASSUME NEW t \in Threads, Fetch(t) PROVE Typed' /\ RowsInv'
    <2> DEFINE text == GetJSONResults(results[t])
    <2>1. pc[t] = "fetch" /\ results[t] \in Tables
      BY <1>7 DEF Fetch, Goto, RowsInv
    <2>2. text \in Seq(Characters)
      BY <2>1, ResultsInJSON
    <2>3. output' = [output EXCEPT ![t] = text] /\ UNCHANGED <<uri, query, results, answer>>
          /\ pc' = [pc EXCEPT ![t] = "free"]
      BY <1>7 DEF Fetch, Goto
    <2> HIDE DEF text
    <2>4. Typed'
      BY <2>2, <2>3 DEF Typed
    <2>5. RowsInv'
      BY <1>0, <2>3 DEF RowsInv, Typed, text
    <2>. QED
      BY <2>4, <2>5
  <1>8. ASSUME NEW t \in Threads, NEW n \in Counts, Update(t, n) PROVE Typed' /\ RowsInv'
    <2>1. Typed'
      <3> DEFINE text == <<"Query OK, ", ToString(n), " rows affected.">>
      <3>1. text \in Seq(Characters)
        BY ErrorTexts
      <3>2. output' = [output EXCEPT ![t] = text] /\ UNCHANGED <<uri, query, results, answer>>
        BY <1>8 DEF Update
      <3> HIDE DEF text
      <3>. QED
        BY <3>1, <3>2 DEF Typed
    <2>2. RowsInv'
      <3>1. /\ \A u \in Threads : u # t => pc'[u] = pc[u] /\ output'[u] = output[u]
            /\ pc'[t] = "free" /\ pc[t] = "execute" /\ UNCHANGED <<results, answer>>
        BY <1>0, <1>8 DEF Update, Goto, Typed
      <3>. QED
        BY <3>1 DEF RowsInv
    <2>. QED
      BY <2>1, <2>2
  <1>9. ASSUME NEW t \in Threads, Free(t) PROVE Typed' /\ RowsInv'
    <2>1. /\ Respond(t, "OK", output[t]) /\ output[t] \in Seq(Characters)
          /\ UNCHANGED <<uri, query, results, output>>
          /\ pc[t] = "free" /\ pc' = [pc EXCEPT ![t] = "done"]
      BY <1>9 DEF Free, Goto, Typed
    <2>2. /\ answer' \in [Threads -> [status : Statuses, code : {0, 200}, body : Seq(Characters)]]
          /\ answer'[t].body = output[t]
          /\ \A u \in Threads : u # t => answer'[u] = answer[u]
      BY <2>1, Responds
    <2>3. Typed'
      BY <2>1, <2>2 DEF Typed
    <2>4. RowsInv'
      BY <1>0, <2>1, <2>2 DEF RowsInv
    <2>. QED
      BY <2>3, <2>4
  <1>10. ASSUME NEW t \in Threads, Return(t) PROVE Typed' /\ RowsInv'
    <2>1. NoAnswer \in [status : Statuses, code : {0, 200}, body : Seq(Characters)]
      BY EmptySeq DEF NoAnswer, Statuses
    <2>2. <<>> \in Seq(Characters)
      BY EmptySeq
    <2>3. Typed'
      <3>1. answer' \in [Threads -> [status : Statuses, code : {0, 200}, body : Seq(Characters)]]
        BY <1>10, <2>1 DEF Return, Typed
      <3>. QED
        BY <1>10, <2>2, <3>1 DEF Return, Typed
    <2>4. RowsInv'
      <3>1. /\ \A u \in Threads : u # t => /\ pc'[u] = pc[u] /\ output'[u] = output[u]
                                           /\ answer'[u] = answer[u] /\ results'[u] = results[u]
            /\ pc'[t] = "idle" /\ results'[t] = NoTable
        BY <1>0, <1>10 DEF Return, Goto, Typed
      <3>. QED
        BY <3>1 DEF RowsInv
    <2>. QED
      BY <2>3, <2>4
  <1>11. CASE UNCHANGED vars
    BY <1>11 DEF vars, locals, Typed, RowsInv
  <1>. QED
    BY <1>2, <1>3, <1>4, <1>5, <1>6, <1>7, <1>8, <1>9, <1>10, <1>11 DEF Next, Step, ExecuteQuery

(***************************************************************************)
(* The locals keep their types, whatever the URIs, tables and threads are, *)
(* and a call that is past connect has a connection.                       *)
(***************************************************************************)
THEOREM DatabaseTypes == Spec => []TypeOK
  <1>1. IInv /\ Typed => TypeOK
    BY DEF IInv, Accounts, Holding, Typed, TypeOK
  <1>. QED
    BY <1>1, IInit, IStep, TypedInit, TypedStep, PTL DEF Spec

(***************************************************************************)
(* What a select answers is the JSON object of its rows, for every table:  *)
(* any columns, any number of rows of any length, none included, as long   *)
(* as the words have no line feed in them (lines 180-226).                 *)
(***************************************************************************)
THEOREM AnswersAsDescribed == Spec => []AnswersInJSON
  <1>1. Typed /\ RowsInv => AnswersInJSON
    <2> SUFFICES ASSUME Typed, RowsInv, NEW t \in Threads,
                        answer[t].status = "OK", pc[t] = "done", results[t] # NoTable
                 PROVE  Unbroken(answer[t].body) = JSON(results[t])
      BY DEF AnswersInJSON
    <2>1. results[t] \in Tables /\ answer[t].body = GetJSONResults(results[t])
      BY DEF Typed, RowsInv
    <2>. QED
      BY <2>1, ResultsInJSON
  <1>. QED
    BY <1>1, IInit, IStep, TypedInit, TypedStep, PTL DEF Spec
=============================================================================
